------------------------------ MODULE MCFrame ------------------------------
(***************************************************************************)
(* An instance of Frame for TLC.                                           *)
(***************************************************************************)
EXTENDS Frame

\* A received frame that is longer than the header of Tcp, and a PDU.
SomeFrames ==
  {[n |-> 9, bytes |-> [i \in 0 .. 8 |-> 16 * i + 3]],
   [n |-> 4, bytes |-> [i \in 0 .. 3 |-> 200 + i]]}

SomeBytes == {131}
SomeWords == {258}
=============================================================================
