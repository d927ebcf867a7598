-------------------------- MODULE MCSharedMaster --------------------------
(***************************************************************************)
(* An instance of SharedMaster for TLC.                                    *)
(***************************************************************************)
EXTENDS SharedMaster, TLC

CONSTANTS m1, m2, n1, n2

TwoThreads == {App, Daemon}
TwoMasters == {m1, m2}
TwoNames == {n1, n2}
\* Nothing tells one master from the other, nor one name.
Alike == Permutations(TwoMasters) \cup Permutations(TwoNames)
\* A slave number, and one that no backend accepts.
Numbers == {1, 300}
=============================================================================
