------------------------------ MODULE Exchange ------------------------------
(***************************************************************************)
(* What a caller of Slave::readCoils, Slave::writeRegisters, ... or of the *)
(* raw requests of a Master is promised: the call reaches the unit it is   *)
(* for, in one step, as long as no other thread uses the same master in    *)
(* the meantime. SharedMaster shows that the two or three calls of         *)
(* libmodbus it takes implement this.                                      *)
(***************************************************************************)
EXTENDS Integers

CONSTANTS Threads, Masters, Units

VARIABLES
  asked,    \* for each thread, the call it is in: a master and a unit
  overlap,  \* for each thread, its call overlaps with another use of the master
  reached   \* for each thread, the unit its last call reached, or Failed

vars == <<asked, overlap, reached>>

Failed == -2
Nothing == [busy |-> FALSE]
Question(m, u) == [busy |-> TRUE, master |-> m, unit |-> u]

\* The calls of other threads that use master m.
Disturbed(t, m) ==
  [p \in Threads |-> overlap[p] \/ (p # t /\ asked[p].busy /\ asked[p].master = m)]

Init ==
  /\ asked = [t \in Threads |-> Nothing]
  /\ overlap = [t \in Threads |-> FALSE]
  /\ reached = [t \in Threads |-> Failed]

Ask(t, m, u) ==
  /\ ~asked[t].busy
  /\ asked' = [asked EXCEPT ![t] = Question(m, u)]
  /\ overlap' = [Disturbed(t, m) EXCEPT
                   ![t] = \E p \in Threads \ {t} : asked[p].busy /\ asked[p].master = m]
  /\ UNCHANGED reached

\* Another use of the master: a slave is added to it.
Use(t, m) ==
  /\ ~asked[t].busy
  /\ overlap' = Disturbed(t, m)
  /\ UNCHANGED <<asked, reached>>

Answer(t) ==
  /\ asked[t].busy
  /\ \E u \in Units \cup {Failed} :
       /\ overlap[t] \/ u \in {asked[t].unit, Failed}
       /\ reached' = [reached EXCEPT ![t] = u]
  /\ asked' = [asked EXCEPT ![t] = Nothing]
  /\ UNCHANGED overlap

Next ==
  \E t \in Threads :
    \/ \E m \in Masters, u \in Units : Ask(t, m, u)
    \/ \E m \in Masters : Use(t, m)
    \/ Answer(t)

Spec == Init /\ [][Next]_vars
=============================================================================
