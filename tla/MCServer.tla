------------------------------ MODULE MCServer ------------------------------
(***************************************************************************)
(* Instances of Server for TLC: who calls what, on which backend.          *)
(***************************************************************************)
EXTENDS Server

CONSTANTS c1, c2

TwoClients == {c1, c2}

RunCalls == {"run", "terminate", "close", "destroy"}
PollCalls == {"poll", "terminate", "close", "destroy"}

\* Every backend and recovery mode, with and without an indication timeout, for servers that
\* run and for servers that poll.
AllSetups ==
  [net : Nets, recoveryLink : BOOLEAN, timed : BOOLEAN, calls : {RunCalls, PollCalls}]

RunTcp == {[net |-> "Tcp", recoveryLink |-> FALSE, timed |-> FALSE, calls |-> RunCalls]}
=============================================================================
