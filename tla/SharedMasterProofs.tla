------------------------- MODULE SharedMasterProofs -------------------------
(***************************************************************************)
(* Theorems about SharedMaster, for every set of threads, masters, names   *)
(* and slave numbers. The last one is the refinement: the calls of slaves  *)
(* and masters implement Exchange.                                         *)
(***************************************************************************)
EXTENDS SharedMaster, TLAPS

-----------------------------------------------------------------------------
(* Type correctness.                                                        *)

Kinds == {"new", "none", "rtu", "tcp", "deleted"}

\* A call in progress has a master and a unit.
LEMMA CallType ==
  ASSUME TypeOK, NEW t \in Threads, Busy(t)
  PROVE  /\ call[t] \in Call
         /\ call[t].master \in Masters
         /\ call[t].unit \in Units
         /\ call[t].raw \in BOOLEAN
         /\ call[t].stage \in {"called", "set", "sent"}
BY DEF TypeOK, Busy, Idle, Call

\* What a use of a master does to the history of the other threads is a Boolean.
LEMMA DisturbedType ==
  ASSUME TypeOK, NEW t \in Threads, NEW m \in Masters
  PROVE  Disturbed(t, m) \in [Threads -> BOOLEAN]
<1> SUFFICES ASSUME NEW p \in Threads
             PROVE  (overlap[p] \/ (p # t /\ Busy(p) /\ call[p].master = m)) \in BOOLEAN
  BY DEF Disturbed
<1> QED BY Zenon

\* The initial values have their types.
LEMMA InitType == Init => TypeOK
<1> SUFFICES ASSUME Init PROVE TypeOK
  OBVIOUS
<1>1. \A m \in Masters : ~IsValid(m)
  BY DEF Init, IsValid
<1> QED
  BY <1>1 DEF Init, TypeOK, Units, Idle, NoSlave, Failed

\* A transaction that begins has the type of a call.
LEMMA BeginType ==
  ASSUME TypeOK, NEW t \in Threads, NEW m \in Masters, NEW u \in Units,
         NEW raw \in BOOLEAN, Begin(t, m, u, raw)
  PROVE  TypeOK'
<1>1. call' \in [Threads -> Call \cup {Idle}]
  BY DEF TypeOK, Begin, Call
<1>2. overlap' \in [Threads -> BOOLEAN]
  <2>1. Disturbed(t, m) \in [Threads -> BOOLEAN]
    BY DisturbedType
  <2>2. (\E p \in Threads \ {t} : Busy(p) /\ call[p].master = m) \in BOOLEAN
    OBVIOUS
  <2> QED BY <2>1, <2>2, Zenon DEF Begin
<1>3. \A o \in Masters : IsValid(o)' = IsValid(o) /\ DefaultSlave(o, -1)' = DefaultSlave(o, -1)
  BY DEF Begin, router, IsValid, DefaultSlave
<1> QED
  BY <1>1, <1>2, <1>3 DEF TypeOK, Begin, router

\* A transaction that ends leaves its thread idle.
LEMMA ReturnedType ==
  ASSUME TypeOK, NEW t \in Threads, NEW u \in Units \cup {Failed},
         Returned(t, u), UNCHANGED unit
  PROVE  TypeOK'
<1>1. \A o \in Masters : IsValid(o)' = IsValid(o) /\ DefaultSlave(o, -1)' = DefaultSlave(o, -1)
  BY DEF Returned, router, IsValid, DefaultSlave
<1> QED BY <1>1 DEF TypeOK, Returned, router, Failed

\* A unit number is one that a context can address; a call that is on its way uses
\* a context that addresses one, of a master that has its backend.
Addressed ==
  /\ \A m \in Masters : IsValid(m) => unit[m] \in Units
  /\ \A t \in Threads : Busy(t) =>
       /\ unit[call[t].master] \in Units
       /\ kind[call[t].master] \notin {"new", "none"}

Inv0 == TypeOK /\ Addressed

\* The initial state: no master and no call.
LEMMA InitInv0 == Init => Inv0
<1> SUFFICES ASSUME Init PROVE Addressed
  BY InitType DEF Inv0
<1> QED BY DEF Init, Addressed, IsValid, Busy, Idle

\* Every step keeps the types, and the units of the contexts in use.
LEMMA StepInv0 == Inv0 /\ [Next]_vars => Inv0'
<1> SUFFICES ASSUME TypeOK, Addressed, [Next]_vars PROVE TypeOK' /\ Addressed'
  BY DEF Inv0
<1>n. Named \subseteq Units /\ Broadcast \in Units /\ TcpSlave \in Units
      /\ None \notin Masters /\ App \in Threads /\ Daemon \in Threads
  BY SharedMasterAssumption DEF Units
<1>1. ASSUME NEW n \in Names, NEW m \in Masters, AddMaster(n, m)
      PROVE  TypeOK' /\ Addressed'
  <2>1. \A o \in Masters : kind'[o] \in Kinds /\ (kind'[o] # kind[o] =>
           (kind'[o] = "none" /\ kind[o] = "new") \/ kind'[o] = "deleted")
    BY <1>1 DEF AddMaster, TypeOK, Kinds
  <2>2. kind' \in [Masters -> Kinds]
    BY <1>1, <2>1 DEF AddMaster
  <2>3. \A o \in Masters : IsValid(o)' => IsValid(o) /\ DefaultSlave(o, -1)' = DefaultSlave(o, -1)
    BY <2>1 DEF IsValid, DefaultSlave
  <2>4. TypeOK'
    BY <1>1, <2>2, <2>3 DEF AddMaster, TypeOK, Kinds
  <2>5. \A t \in Threads : Busy(t)' = Busy(t) /\ call'[t] = call[t]
    BY <1>1 DEF AddMaster, Busy
  <2>6. \A t \in Threads : Busy(t) => call[t].master \in Masters
    BY CallType
  <2> QED BY <1>1, <2>1, <2>3, <2>4, <2>5, <2>6 DEF AddMaster, Addressed
<1>2. ASSUME NEW m \in Masters, NEW net \in {"rtu", "tcp"}, SetBackend(m, net)
      PROVE  TypeOK' /\ Addressed'
  <2> DEFINE u == IF net = "tcp" THEN TcpSlave ELSE Broadcast
  <2>0. u \in Units
    BY <1>n
  <2>1. /\ kind' = [kind EXCEPT ![m] = net]
        /\ added' = [added EXCEPT ![m] = @ \cup {u}]
        /\ unit' = [unit EXCEPT ![m] = u]
        /\ UNCHANGED <<master, route, open, call, overlap, reached, reused>>
    BY <1>2 DEF SetBackend
  <2>2. \A o \in Masters : o # m => (IsValid(o)' = IsValid(o)
           /\ DefaultSlave(o, -1)' = DefaultSlave(o, -1))
    BY <2>1 DEF IsValid, DefaultSlave, TypeOK
  <2>3. DefaultSlave(m, -1)' = u /\ IsValid(m)'
    BY <2>1 DEF DefaultSlave, IsValid, TypeOK
  <2>4. TypeOK'
    BY <2>0, <2>1, <2>2, <2>3 DEF TypeOK
  <2>5. \A t \in Threads : Busy(t)' = Busy(t) /\ call'[t] = call[t]
    BY <2>1 DEF Busy
  <2>6. \A t \in Threads : Busy(t) => call[t].master \in Masters
    BY CallType
  <2> QED BY <2>0, <2>1, <2>2, <2>4, <2>5, <2>6 DEF Addressed, TypeOK
<1>3. ASSUME NEW m \in Masters, NEW u \in Named, AddSlave(m, u)
      PROVE  TypeOK' /\ Addressed'
  <2>1. Disturbed(App, m) \in [Threads -> BOOLEAN]
    BY <1>n, DisturbedType
  <2>2. \A o \in Masters : IsValid(o)' = IsValid(o) /\ DefaultSlave(o, -1)' = DefaultSlave(o, -1)
    BY <1>3 DEF AddSlave, IsValid, DefaultSlave
  <2>3. TypeOK'
    BY <1>3, <1>n, <2>1, <2>2 DEF AddSlave, TypeOK
  <2>4. \A t \in Threads : Busy(t)' = Busy(t) /\ call'[t] = call[t]
    BY <1>3 DEF AddSlave, Busy
  <2>5. \A t \in Threads : Busy(t) => call[t].master \in Masters
    BY CallType
  <2> QED BY <1>3, <1>n, <2>2, <2>3, <2>4, <2>5 DEF AddSlave, Addressed, TypeOK
<1>4. ASSUME NEW u \in Named, NEW d \in Masters \cup {None}, AddRoute(u, d)
      PROVE  TypeOK' /\ Addressed'
  <2>1. \A o \in Masters : IsValid(o)' = IsValid(o) /\ DefaultSlave(o, -1)' = DefaultSlave(o, -1)
    BY <1>4 DEF AddRoute, IsValid, DefaultSlave
  <2>2. route[u].there => route[u] \in Slave
    BY DEF TypeOK, NoSlave
  <2>3. (IF route[u].there THEN route[u].number ELSE u) \in Units
    <3>1. CASE route[u].there
      BY <2>2, <3>1 DEF Slave
    <3>2. CASE ~route[u].there
      BY <3>2, <1>n
    <3> QED BY <3>1, <3>2
  <2>4. [there |-> TRUE, device |-> d,
         number |-> IF route[u].there THEN route[u].number ELSE u] \in Slave
    BY <2>3 DEF Slave
  <2>5. TypeOK'
    BY <1>4, <2>1, <2>4 DEF AddRoute, TypeOK
  <2> QED BY <1>4, <2>1, <2>5 DEF AddRoute, Addressed, Busy
<1>5. ASSUME NEW u \in Named, NEW number \in Named, SetNumber(u, number)
      PROVE  TypeOK' /\ Addressed'
  <2>1. \A o \in Masters : IsValid(o)' = IsValid(o) /\ DefaultSlave(o, -1)' = DefaultSlave(o, -1)
    BY <1>5 DEF SetNumber, IsValid, DefaultSlave
  <2>2. [route[u] EXCEPT !.number = number] \in Slave
    <3>1. route[u] \in Slave
      BY <1>5 DEF SetNumber, TypeOK, NoSlave
    <3> QED BY <3>1, <1>n DEF Slave
  <2>3. TypeOK'
    BY <1>5, <2>1, <2>2 DEF SetNumber, TypeOK
  <2> QED BY <1>5, <2>1, <2>3 DEF SetNumber, Addressed, Busy
<1>6. CASE OpenClose
  <2>1. \A o \in Masters : IsValid(o)' = IsValid(o) /\ DefaultSlave(o, -1)' = DefaultSlave(o, -1)
    BY <1>6 DEF OpenClose, IsValid, DefaultSlave
  <2> QED BY <1>6, <2>1 DEF OpenClose, TypeOK, Addressed, Busy
<1>b. ASSUME NEW t \in Threads, NEW m \in Masters, NEW u \in Units,
             NEW raw \in BOOLEAN, Begin(t, m, u, raw)
      PROVE  TypeOK' /\ Addressed'
  <2>1. \A o \in Masters : IsValid(o)' = IsValid(o)
    BY <1>b DEF Begin, router, IsValid
  <2>2. \A p \in Threads : p # t => call'[p] = call[p]
    BY <1>b DEF Begin, TypeOK
  <2>3. call'[t].master = m
    BY <1>b DEF Begin, TypeOK
  <2> QED BY <1>b, BeginType, <2>1, <2>2, <2>3 DEF Begin, Addressed, Busy, IsValid, router
<1>7. ASSUME NEW u \in Named, Serve(u) \/ UseRoute(u) PROVE TypeOK' /\ Addressed'
  <2>1. route[u].there => route[u] \in Slave
    BY DEF TypeOK, NoSlave
  <2>2. route[u].device \in Masters /\ route[u].number \in Units
    BY <1>7, <2>1 DEF Serve, UseRoute, Slave
  <2> QED BY <1>7, <1>b, <1>n, <2>2 DEF Serve, UseRoute
<1>8. ASSUME NEW m \in Masters, NEW u \in Units \cup {-1}, UseSlave(m, u)
      PROVE  TypeOK' /\ Addressed'
  <2>1. DefaultSlave(m, u) \in Units
    BY <1>8 DEF UseSlave, TypeOK
  <2> QED BY <1>8, <1>b, <1>n, <2>1 DEF UseSlave
<1>9. ASSUME NEW m \in Masters, NEW u \in Units, UseRaw(m, u)
      PROVE  TypeOK' /\ Addressed'
  BY <1>9, <1>b, <1>n DEF UseRaw
<1>10. ASSUME NEW t \in Threads, SetSlave(t)
       PROVE  TypeOK' /\ Addressed'
  <2>1. Busy(t) /\ call[t].master \in Masters /\ call[t].unit \in Units /\ call[t] \in Call
    BY <1>10, CallType DEF SetSlave, Busy
  <2>2. [call[t] EXCEPT !.stage = "set"] \in Call
    BY <2>1 DEF Call
  <2>3. \A o \in Masters : IsValid(o)' = IsValid(o) /\ DefaultSlave(o, -1)' = DefaultSlave(o, -1)
    BY <1>10 DEF SetSlave, router, IsValid, DefaultSlave
  <2>4. TypeOK'
    BY <1>10, <2>1, <2>2, <2>3 DEF SetSlave, router, TypeOK
  <2>5. \A p \in Threads : call'[p].master = call[p].master /\ Busy(p)' = Busy(p)
    BY <1>10, <2>1 DEF SetSlave, Busy, TypeOK, Call
  <2>6. \A o \in Masters : unit'[o] = unit[o] \/ unit'[o] \in Units
    BY <1>10, <2>1 DEF SetSlave, TypeOK
  <2>7. \A p \in Threads : Busy(p) => call[p].master \in Masters
    BY CallType
  <2> QED BY <1>10, <2>3, <2>4, <2>5, <2>6, <2>7 DEF SetSlave, router, Addressed
<1>r. ASSUME NEW t \in Threads, NEW u \in Units \cup {Failed}, Returned(t, u), UNCHANGED unit
      PROVE  TypeOK' /\ Addressed'
  <2>1. \A o \in Masters : IsValid(o)' = IsValid(o)
    BY <1>r DEF Returned, router, IsValid
  <2>2. \A p \in Threads : p # t => call'[p] = call[p]
    BY <1>r DEF Returned, TypeOK
  <2>3. ~Busy(t)'
    BY <1>r DEF Returned, TypeOK, Busy, Idle
  <2> QED BY <1>r, ReturnedType, <2>1, <2>2, <2>3 DEF Returned, router, Addressed, Busy
<1>11. ASSUME NEW t \in Threads, SetSlaveFails(t)
       PROVE  TypeOK' /\ Addressed'
  BY <1>11, <1>r DEF SetSlaveFails
<1>12. ASSUME NEW t \in Threads, Transact(t) \/ ReceiveResponse(t)
       PROVE  TypeOK' /\ Addressed'
  <2>1. unit[call[t].master] \in Units
    BY <1>12 DEF Transact, ReceiveResponse, Addressed, Busy
  <2>2. PICK u \in {unit[call[t].master], Failed} : Returned(t, u) /\ UNCHANGED unit
    BY <1>12 DEF Transact, ReceiveResponse
  <2> QED BY <1>r, <2>1, <2>2
<1>13. ASSUME NEW t \in Threads, SendRawRequest(t)
       PROVE  TypeOK' /\ Addressed'
  <2>1. Busy(t) /\ call[t] \in Call
    BY <1>13, CallType DEF SendRawRequest, Busy
  <2>2. [call[t] EXCEPT !.stage = "sent"] \in Call
    BY <2>1 DEF Call
  <2>3. \A o \in Masters : IsValid(o)' = IsValid(o) /\ DefaultSlave(o, -1)' = DefaultSlave(o, -1)
    BY <1>13 DEF SendRawRequest, router, IsValid, DefaultSlave
  <2>4. \A p \in Threads : call'[p].master = call[p].master /\ Busy(p)' = Busy(p)
    BY <1>13, <2>1 DEF SendRawRequest, Busy, TypeOK, Call
  <2> QED BY <1>13, <2>2, <2>3, <2>4 DEF SendRawRequest, router, TypeOK, Addressed
<1>14. CASE UNCHANGED vars
  <2>1. \A o \in Masters : IsValid(o)' = IsValid(o) /\ DefaultSlave(o, -1)' = DefaultSlave(o, -1)
    BY <1>14 DEF vars, IsValid, DefaultSlave
  <2> QED BY <1>14, <2>1 DEF vars, TypeOK, Addressed, Busy
<1> QED
  BY <1>1, <1>2, <1>3, <1>4, <1>5, <1>6, <1>7, <1>8, <1>9, <1>10, <1>11, <1>12, <1>13, <1>14
     DEF Next

\* The types hold, and every context in use addresses a unit.
THEOREM TypeCorrect == Spec => []TypeOK
<1>1. Inv0 => TypeOK
  BY DEF Inv0
<1> QED BY InitInv0, StepInv0, <1>1, PTL DEF Spec

-----------------------------------------------------------------------------
(* The units that the contexts address.                                     *)

\* Two threads that use one master both know of it: the history is symmetric.
Alone ==
  \A t, p \in Threads :
    t # p /\ Busy(t) /\ Busy(p) /\ call[t].master = call[p].master => overlap[t]

\* OwnUnit is inductive with the history of the overlaps and the types.
Inv == Inv0 /\ Alone /\ OwnUnit

\* A thread that begins a transaction disturbs, and is disturbed by, those that use
\* the same master.
LEMMA BeginInv ==
  ASSUME Inv, NEW t \in Threads, NEW m \in Masters, NEW u \in Units,
         NEW raw \in BOOLEAN, Begin(t, m, u, raw)
  PROVE  Alone' /\ OwnUnit'
<1>1. \A p \in Threads : p # t =>
        /\ call'[p] = call[p]
        /\ Busy(p)' = Busy(p)
        /\ overlap'[p] = (overlap[p] \/ (Busy(p) /\ call[p].master = m))
  BY DEF Begin, Inv, Inv0, TypeOK, Busy, Disturbed
<1>2. /\ call'[t].master = m /\ call'[t].stage = "called"
      /\ overlap'[t] = \E p \in Threads \ {t} : Busy(p) /\ call[p].master = m
  <2>1. Disturbed(t, m) \in [Threads -> BOOLEAN]
    BY DisturbedType DEF Inv, Inv0
  <2> QED BY <2>1 DEF Begin, Inv, Inv0, TypeOK
<1>3. Alone'
  BY <1>1, <1>2 DEF Alone, Inv
<1>4. OwnUnit'
  BY <1>1, <1>2 DEF OwnUnit, Inv, Begin, Busy
<1> QED BY <1>3, <1>4

\* A thread that ends its transaction leaves the others as they are.
LEMMA ReturnedInv ==
  ASSUME Inv, NEW t \in Threads, NEW u, Returned(t, u), UNCHANGED unit
  PROVE  Alone' /\ OwnUnit'
<1>1. \A p \in Threads : p # t => call'[p] = call[p] /\ Busy(p)' = Busy(p)
  BY DEF Returned, Inv, Inv0, TypeOK, Busy
<1>2. ~Busy(t)' /\ call'[t].stage = "idle"
  BY DEF Returned, Inv, Inv0, TypeOK, Busy, Idle
<1> QED BY <1>1, <1>2 DEF Returned, Alone, OwnUnit, Inv

\* Every step keeps the unit of a transaction that nothing overlaps.
LEMMA StepInv == Inv /\ [Next]_vars => Inv'
<1> SUFFICES ASSUME Inv, [Next]_vars PROVE Alone' /\ OwnUnit'
  BY StepInv0 DEF Inv
<1>n. Named \subseteq Units /\ Broadcast \in Units /\ TcpSlave \in Units
      /\ None \notin Masters /\ App \in Threads /\ Daemon \in Threads
  BY SharedMasterAssumption DEF Units
<1>t. TypeOK /\ Addressed
  BY DEF Inv, Inv0
<1>c. \A t \in Threads : Busy(t) => call[t].master \in Masters
  BY <1>t, CallType
<1>1. ASSUME UNCHANGED <<call, overlap, unit>> PROVE Alone' /\ OwnUnit'
  BY <1>1 DEF Inv, Alone, OwnUnit, Busy
<1>2. ASSUME NEW m \in Masters, NEW net \in {"rtu", "tcp"}, SetBackend(m, net)
      PROVE  Alone' /\ OwnUnit'
  <2>1. \A t \in Threads : Busy(t) => unit'[call[t].master] = unit[call[t].master]
    BY <1>2, <1>t, <1>c DEF SetBackend, Addressed, TypeOK
  <2> QED BY <1>2, <2>1 DEF SetBackend, Inv, Alone, OwnUnit, Busy
<1>3. ASSUME NEW m \in Masters, NEW u \in Named, AddSlave(m, u)
      PROVE  Alone' /\ OwnUnit'
  <2>1. \A t \in Threads : overlap'[t] = (overlap[t]
           \/ (t # App /\ Busy(t) /\ call[t].master = m))
    BY <1>3 DEF AddSlave, Disturbed
  <2>2. \A t \in Threads : Busy(t) /\ call[t].master # m =>
           unit'[call[t].master] = unit[call[t].master]
    BY <1>3, <1>t, <1>c DEF AddSlave, TypeOK
  <2>3. ~Busy(App)
    BY <1>3 DEF AddSlave, Ready
  <2> QED BY <1>3, <2>1, <2>2, <2>3 DEF AddSlave, Inv, Alone, OwnUnit, Busy
<1>7. ASSUME NEW u \in Named, Serve(u) \/ UseRoute(u) PROVE Alone' /\ OwnUnit'
  <2>1. route[u].there => route[u] \in Slave
    BY <1>t DEF TypeOK, NoSlave
  <2>2. route[u].device \in Masters /\ route[u].number \in Units
    BY <1>7, <2>1 DEF Serve, UseRoute, Slave
  <2> QED BY <1>7, BeginInv, <1>n, <2>2 DEF Serve, UseRoute
<1>8. ASSUME NEW m \in Masters, NEW u \in Units \cup {-1}, UseSlave(m, u)
      PROVE  Alone' /\ OwnUnit'
  <2>1. DefaultSlave(m, u) \in Units
    BY <1>8, <1>t DEF UseSlave, TypeOK
  <2> QED BY <1>8, BeginInv, <1>n, <2>1 DEF UseSlave
<1>9. ASSUME NEW m \in Masters, NEW u \in Units, UseRaw(m, u)
      PROVE  Alone' /\ OwnUnit'
  BY <1>9, BeginInv, <1>n DEF UseRaw
<1>10. ASSUME NEW t \in Threads, SetSlave(t) PROVE Alone' /\ OwnUnit'
  <2>1. Busy(t) /\ call[t].master \in Masters
    BY <1>10, <1>c DEF SetSlave, Busy
  <2>2. \A p \in Threads : /\ call'[p].master = call[p].master
                           /\ call'[p].unit = call[p].unit
                           /\ Busy(p)' = Busy(p)
                           /\ p # t => call'[p] = call[p]
    BY <1>10, <1>t DEF SetSlave, Busy, TypeOK
  <2>3. unit'[call[t].master] = call[t].unit
    BY <1>10, <2>1, <1>t DEF SetSlave, TypeOK
  <2>4. \A p \in Threads : Busy(p) /\ call[p].master # call[t].master =>
           unit'[call[p].master] = unit[call[p].master]
    BY <1>10, <1>t, <1>c DEF SetSlave, TypeOK
  <2>5. overlap' = overlap
    BY <1>10 DEF SetSlave
  <2>6. \A p \in Threads : call'[p].stage \in {"set", "sent"} => Busy(p)'
    BY DEF Busy
  <2>7. Alone'
    BY <2>2, <2>5 DEF Alone, Inv
  <2>8. OwnUnit'
    <3> SUFFICES ASSUME NEW p \in Threads, call'[p].stage \in {"set", "sent"}, ~overlap'[p]
                 PROVE  unit'[call'[p].master] = call'[p].unit
      BY DEF OwnUnit
    <3>1. CASE p = t
      BY <3>1, <2>2, <2>3
    <3>2. CASE p # t
      <4>1. call'[p] = call[p] /\ Busy(p) /\ ~overlap[p]
        BY <3>2, <2>2, <2>5, <2>6
      <4>2. call[p].master # call[t].master
        BY <3>2, <4>1, <2>1 DEF Inv, Alone
      <4> QED BY <4>1, <4>2, <2>4 DEF Inv, OwnUnit
    <3> QED BY <3>1, <3>2
  <2> QED BY <2>7, <2>8
<1>11. ASSUME NEW t \in Threads, SetSlaveFails(t) PROVE Alone' /\ OwnUnit'
  BY <1>11, ReturnedInv DEF SetSlaveFails
<1>12. ASSUME NEW t \in Threads, Transact(t) \/ ReceiveResponse(t)
       PROVE  Alone' /\ OwnUnit'
  <2>1. PICK u \in {unit[call[t].master], Failed} : Returned(t, u) /\ UNCHANGED unit
    BY <1>12 DEF Transact, ReceiveResponse
  <2> QED BY <2>1, ReturnedInv
<1>13. ASSUME NEW t \in Threads, SendRawRequest(t) PROVE Alone' /\ OwnUnit'
  <2>1. \A p \in Threads : /\ call'[p].master = call[p].master
                           /\ call'[p].unit = call[p].unit
                           /\ Busy(p)' = Busy(p)
                           /\ p # t => call'[p] = call[p]
    BY <1>13, <1>t DEF SendRawRequest, Busy, TypeOK
  <2>2. call[t].stage = "set" /\ overlap' = overlap /\ unit' = unit
    BY <1>13 DEF SendRawRequest
  <2> QED BY <2>1, <2>2 DEF Inv, Alone, OwnUnit
<1> QED
  <2>1. ASSUME NEW n \in Names, NEW m \in Masters, AddMaster(n, m)
        PROVE  Alone' /\ OwnUnit'
    BY <2>1, <1>1 DEF AddMaster
  <2>2. ASSUME NEW u \in Named, NEW d \in Masters \cup {None}, AddRoute(u, d)
        PROVE  Alone' /\ OwnUnit'
    BY <2>2, <1>1 DEF AddRoute
  <2>3. ASSUME NEW u \in Named, NEW number \in Named, SetNumber(u, number)
        PROVE  Alone' /\ OwnUnit'
    BY <2>3, <1>1 DEF SetNumber
  <2>4. OpenClose \/ UNCHANGED vars => Alone' /\ OwnUnit'
    BY <1>1 DEF OpenClose, vars
  <2> QED
    BY <2>1, <2>2, <2>3, <2>4, <1>2, <1>3, <1>7, <1>8, <1>9, <1>10, <1>11, <1>12, <1>13
       DEF Next

\* The initial state: no call.
LEMMA InitInv == Init => Inv
<1> SUFFICES ASSUME Init PROVE Alone /\ OwnUnit
  BY InitInv0 DEF Inv
<1> QED BY DEF Init, Alone, OwnUnit, Busy, Idle

\* A transaction that no other use of the master overlaps goes to its own unit
\* (slave.cpp:87, master.cpp:136): the context cannot have been addressed to another.
THEOREM OwnUnitCorrect == Spec => []OwnUnit
<1>1. Inv => OwnUnit
  BY DEF Inv
<1> QED BY InitInv, StepInv, <1>1, PTL DEF Spec
-----------------------------------------------------------------------------
(* The masters that slaves and transactions use.                            *)

\* While every name is given once, no master goes away and no backend is changed.
LEMMA StepAlive == TypeOK /\ DevicesAlive /\ [Next]_vars => DevicesAlive'
<1> SUFFICES ASSUME TypeOK, DevicesAlive, [Next]_vars, ~reused'
             PROVE  /\ \A u \in Named : (route[u].there /\ route[u].device # None =>
                         kind[route[u].device] \notin {"new", "deleted"})'
                    /\ \A t \in Threads : (Busy(t) => IsValid(call[t].master))'
  BY DEF DevicesAlive
<1>r. \A u \in Named : route[u].there => route[u] \in Slave
  BY DEF TypeOK, NoSlave
<1>d. \A u \in Named : route[u].there /\ route[u].device # None =>
        route[u].device \in Masters
  BY <1>r DEF Slave
<1>c. \A t \in Threads : Busy(t) => call[t].master \in Masters
  BY CallType
<1> DEFINE Routes == \A u \in Named : (route[u].there /\ route[u].device # None =>
                         kind[route[u].device] \notin {"new", "deleted"})
           Calls == \A t \in Threads : (Busy(t) => IsValid(call[t].master))
<1>g. ~reused => Routes /\ Calls
  BY DEF DevicesAlive
<1>1. ASSUME NEW n \in Names, NEW m \in Masters, AddMaster(n, m) PROVE Routes' /\ Calls'
  <2>1. ~reused /\ master[n] = None
    BY <1>1 DEF AddMaster
  <2>2. \A o \in Masters : o # m => kind'[o] = kind[o]
    BY <1>1, <2>1 DEF AddMaster, Erased
  <2>3. kind[m] = "new" /\ UNCHANGED <<route, call>>
    BY <1>1 DEF AddMaster
  <2> QED BY <1>g, <1>c, <1>d, <2>1, <2>2, <2>3 DEF IsValid, Busy
<1>2. ASSUME NEW m \in Masters, NEW net \in {"rtu", "tcp"}, SetBackend(m, net)
      PROVE  Routes' /\ Calls'
  <2>1. ~reused /\ UNCHANGED <<route, call>>
    BY <1>2 DEF SetBackend
  <2>2. \A o \in Masters : kind'[o] = IF o = m THEN net ELSE kind[o]
    BY <1>2 DEF SetBackend, TypeOK
  <2> QED BY <1>g, <1>c, <1>d, <2>1, <2>2 DEF IsValid, Busy
<1>3. ASSUME NEW m \in Masters, NEW u \in Named, AddSlave(m, u) PROVE Routes' /\ Calls'
  BY <1>3, <1>g DEF AddSlave, IsValid, Busy
<1>4. ASSUME NEW u \in Named, NEW d \in Masters \cup {None}, AddRoute(u, d)
      PROVE  Routes' /\ Calls'
  <2>1. \A v \in Named : v # u => route'[v] = route[v]
    BY <1>4 DEF AddRoute, TypeOK
  <2>2. route'[u].device = d
    BY <1>4 DEF AddRoute, TypeOK
  <2> QED BY <1>4, <1>g, <2>1, <2>2 DEF AddRoute, IsValid, Busy
<1>5. ASSUME NEW u \in Named, NEW number \in Named, SetNumber(u, number)
      PROVE  Routes' /\ Calls'
  <2>1. \A v \in Named : v # u => route'[v] = route[v]
    BY <1>5 DEF SetNumber, TypeOK
  <2>2. route'[u].device = route[u].device /\ route[u].there
    BY <1>5, <1>r DEF SetNumber, TypeOK, Slave
  <2> QED BY <1>5, <1>g, <2>1, <2>2 DEF SetNumber, IsValid, Busy
<1>6. CASE OpenClose
  BY <1>6, <1>g DEF OpenClose, IsValid, Busy
<1>b. ASSUME NEW t \in Threads, NEW m \in Masters, NEW u, NEW raw, Begin(t, m, u, raw)
      PROVE  Routes' /\ Calls'
  <2>1. \A p \in Threads : p # t => call'[p] = call[p]
    BY <1>b DEF Begin, TypeOK
  <2>2. call'[t].master = m
    BY <1>b DEF Begin, TypeOK
  <2> QED BY <1>b, <1>g, <2>1, <2>2 DEF Begin, router, IsValid, Busy
<1>7. ASSUME NEW u \in Named, Serve(u) \/ UseRoute(u) PROVE Routes' /\ Calls'
  BY <1>7, <1>b, <1>d, SharedMasterAssumption DEF Serve, UseRoute
<1>8. ASSUME NEW m \in Masters, NEW u \in Units \cup {-1}, UseSlave(m, u)
      PROVE  Routes' /\ Calls'
  BY <1>8, <1>b, SharedMasterAssumption DEF UseSlave
<1>9. ASSUME NEW m \in Masters, NEW u \in Units, UseRaw(m, u) PROVE Routes' /\ Calls'
  BY <1>9, <1>b, SharedMasterAssumption DEF UseRaw
<1>10. ASSUME NEW t \in Threads, UNCHANGED router, Busy(t),
              \/ \E s \in {"set", "sent"} : call' = [call EXCEPT ![t].stage = s]
              \/ call' = [call EXCEPT ![t] = Idle]
       PROVE  Routes' /\ Calls'
  <2>1. \A p \in Threads : Busy(p)' => Busy(p) /\ call'[p].master = call[p].master
    <3>1. ASSUME NEW s \in {"set", "sent"}, call' = [call EXCEPT ![t].stage = s]
          PROVE  \A p \in Threads : Busy(p)' => Busy(p) /\ call'[p].master = call[p].master
      <4>1. \A p \in Threads : p # t => call'[p] = call[p]
        BY <3>1 DEF TypeOK
      <4>2. call'[t].master = call[t].master
        BY <3>1 DEF TypeOK
      <4> QED BY <4>1, <4>2, <1>10 DEF Busy
    <3>2. ASSUME call' = [call EXCEPT ![t] = Idle]
          PROVE  \A p \in Threads : Busy(p)' => Busy(p) /\ call'[p].master = call[p].master
      <4>1. \A p \in Threads : p # t => call'[p] = call[p]
        BY <3>2 DEF TypeOK
      <4>2. call'[t].stage = "idle"
        BY <3>2 DEF TypeOK, Idle
      <4> QED BY <4>1, <4>2 DEF Busy
    <3> QED BY <3>1, <3>2, <1>10
  <2> QED BY <1>10, <1>g, <2>1 DEF router, IsValid
<1>11. ASSUME NEW t \in Threads,
              SetSlave(t) \/ SetSlaveFails(t) \/ Transact(t) \/ SendRawRequest(t)
                \/ ReceiveResponse(t)
       PROVE  Routes' /\ Calls'
  BY <1>11, <1>10 DEF SetSlave, SetSlaveFails, Transact, SendRawRequest,
                      ReceiveResponse, Returned, Busy
<1>12. CASE UNCHANGED vars
  BY <1>12, <1>g DEF vars, IsValid, Busy
<1> QED
  BY <1>1, <1>2, <1>3, <1>4, <1>5, <1>6, <1>7, <1>8, <1>9, <1>11, <1>12 DEF Next

\* The slaves of a router and the calls in progress use masters that exist, however
\* masters and slaves are added (router.cpp:77, server.cpp:263), while no name of a
\* master is given twice.
THEOREM DevicesAliveCorrect == Spec => []DevicesAlive
<1>1. Init => DevicesAlive
  BY DEF Init, DevicesAlive, NoSlave, Busy, Idle
<1> QED BY TypeCorrect, StepAlive, <1>1, PTL DEF Spec

-----------------------------------------------------------------------------
(* The refinement.                                                          *)

\* The call of a thread as Exchange sees it.
LEMMA AskedOf ==
  ASSUME NEW t \in Threads
  PROVE  /\ Asked[t].busy <=> Busy(t)
         /\ Busy(t) => /\ Asked[t].master = call[t].master
                       /\ Asked[t].unit = call[t].unit
         /\ Asked \in [Threads -> {Asked[p] : p \in Threads}]
BY DEF Asked

\* What another use of a master means is the same in both.
LEMMA DisturbedMaps ==
  ASSUME NEW t \in Threads, NEW m \in Masters
  PROVE  Ex!Disturbed(t, m) = Disturbed(t, m)
BY AskedOf DEF Ex!Disturbed, Disturbed

\* A transaction that begins is a question.
LEMMA BeginAsks ==
  ASSUME TypeOK, NEW t \in Threads, NEW m \in Masters, NEW u \in Units,
         NEW raw \in BOOLEAN, Begin(t, m, u, raw)
  PROVE  Ex!Next
<1>1. ~Asked[t].busy
  BY AskedOf DEF Begin
<1>2. Asked' = [Asked EXCEPT ![t] = Ex!Question(m, u)]
  <2>1. \A p \in Threads : p # t => Asked'[p] = Asked[p]
    BY DEF Asked, Begin, Busy, TypeOK
  <2>2. Asked'[t] = Ex!Question(m, u)
    BY DEF Asked, Begin, Busy, TypeOK, Ex!Question
  <2> QED BY <2>1, <2>2 DEF Asked
<1>3. (\E p \in Threads \ {t} : Busy(p) /\ call[p].master = m)
        = (\E p \in Threads \ {t} : Asked[p].busy /\ Asked[p].master = m)
  BY AskedOf
<1>4. Ex!Ask(t, m, u)
  BY <1>1, <1>2, <1>3, DisturbedMaps DEF Begin, Ex!Ask
<1> QED BY <1>4 DEF Ex!Next

\* A transaction that ends is an answer, from the unit that was asked for unless the
\* use of the master overlapped.
LEMMA ReturnedAnswers ==
  ASSUME TypeOK, NEW t \in Threads, NEW u \in Units \cup {Failed}, Busy(t),
         overlap[t] \/ u \in {call[t].unit, Failed}, Returned(t, u)
  PROVE  Ex!Next
<1>1. Asked[t].busy /\ Asked[t].unit = call[t].unit
  BY AskedOf
<1>2. Asked' = [Asked EXCEPT ![t] = Ex!Nothing]
  <2>1. \A p \in Threads : p # t => Asked'[p] = Asked[p]
    BY DEF Asked, Returned, Busy, TypeOK
  <2>2. Asked'[t] = Ex!Nothing
    BY DEF Asked, Returned, Busy, TypeOK, Idle, Ex!Nothing
  <2> QED BY <2>1, <2>2 DEF Asked
<1>3. Ex!Answer(t)
  BY <1>1, <1>2 DEF Returned, Ex!Answer, Ex!Failed, Failed
<1> QED BY <1>3 DEF Ex!Next

\* Nothing changes for the caller.
LEMMA Stutters ==
  ASSUME TypeOK, UNCHANGED <<overlap, reached>>,
         \A t \in Threads : /\ Busy(t)' = Busy(t)
                            /\ call'[t].master = call[t].master
                            /\ call'[t].unit = call[t].unit
  PROVE  UNCHANGED Ex!vars
<1>1. Asked' = Asked
  BY DEF Asked
<1> QED BY <1>1 DEF Ex!vars

\* Every step of the masters is a step of Exchange, or none.
LEMMA StepMaps == Inv /\ [Next]_vars => [Ex!Next]_(Ex!vars)
<1> SUFFICES ASSUME Inv, [Next]_vars PROVE Ex!Next \/ UNCHANGED Ex!vars
  OBVIOUS
<1>n. Named \subseteq Units /\ Broadcast \in Units /\ TcpSlave \in Units
      /\ None \notin Masters /\ App \in Threads /\ Daemon \in Threads
  BY SharedMasterAssumption DEF Units
<1>t. TypeOK /\ Addressed
  BY DEF Inv, Inv0
<1>1. ASSUME UNCHANGED <<call, overlap, reached>> PROVE UNCHANGED Ex!vars
  BY <1>1, <1>t, Stutters DEF Busy
<1>3. ASSUME NEW m \in Masters, NEW u \in Named, AddSlave(m, u) PROVE Ex!Next
  <2>1. ~Asked[App].busy
    BY <1>3, <1>n, AskedOf DEF AddSlave, Ready
  <2>2. Asked' = Asked
    BY <1>3 DEF AddSlave, Asked, Busy
  <2>3. Ex!Use(App, m)
    BY <1>3, <1>n, <2>1, <2>2, DisturbedMaps DEF AddSlave, Ex!Use
  <2> QED BY <2>3, <1>n DEF Ex!Next
<1>7. ASSUME NEW u \in Named, Serve(u) \/ UseRoute(u) PROVE Ex!Next
  <2>1. route[u].there => route[u] \in Slave
    BY <1>t DEF TypeOK, NoSlave
  <2>2. route[u].device \in Masters /\ route[u].number \in Units
    BY <1>7, <2>1 DEF Serve, UseRoute, Slave
  <2> QED BY <1>7, BeginAsks, <1>n, <1>t, <2>2 DEF Serve, UseRoute
<1>8. ASSUME NEW m \in Masters, NEW u \in Units \cup {-1}, UseSlave(m, u) PROVE Ex!Next
  <2>1. DefaultSlave(m, u) \in Units
    BY <1>8, <1>t DEF UseSlave, TypeOK
  <2> QED BY <1>8, BeginAsks, <1>n, <1>t, <2>1 DEF UseSlave
<1>9. ASSUME NEW m \in Masters, NEW u \in Units, UseRaw(m, u) PROVE Ex!Next
  BY <1>9, BeginAsks, <1>n, <1>t DEF UseRaw
<1>10. ASSUME NEW t \in Threads, SetSlave(t) \/ SendRawRequest(t)
       PROVE  UNCHANGED Ex!vars
  <2>1. \A p \in Threads : /\ call'[p].master = call[p].master
                           /\ call'[p].unit = call[p].unit
                           /\ Busy(p)' = Busy(p)
    <3>1. Busy(t) /\ \E s \in {"set", "sent"} : call' = [call EXCEPT ![t].stage = s]
      BY <1>10 DEF SetSlave, SendRawRequest, Busy
    <3>2. PICK s \in {"set", "sent"} : call' = [call EXCEPT ![t].stage = s]
      BY <3>1
    <3>3. \A p \in Threads : p # t => call'[p] = call[p]
      BY <3>2, <1>t DEF TypeOK
    <3>4. /\ call'[t].master = call[t].master
          /\ call'[t].unit = call[t].unit
          /\ call'[t].stage = s
      BY <3>2, <1>t DEF TypeOK
    <3> QED BY <3>1, <3>3, <3>4 DEF Busy
  <2>2. UNCHANGED <<overlap, reached>>
    BY <1>10 DEF SetSlave, SendRawRequest
  <2> QED BY <1>t, <2>1, <2>2, Stutters
<1>11. ASSUME NEW t \in Threads, SetSlaveFails(t) PROVE Ex!Next
  <2>1. Busy(t)
    BY <1>11 DEF SetSlaveFails, Busy
  <2> QED BY <1>11, <1>t, <2>1, ReturnedAnswers DEF SetSlaveFails
<1>12. ASSUME NEW t \in Threads, Transact(t) \/ ReceiveResponse(t) PROVE Ex!Next
  <2>1. PICK u \in {unit[call[t].master], Failed} : Returned(t, u)
    BY <1>12 DEF Transact, ReceiveResponse
  <2>2. Busy(t) /\ call[t].stage \in {"set", "sent"}
    BY <1>12 DEF Transact, ReceiveResponse, Busy
  <2>3. unit[call[t].master] \in Units
    BY <1>t, <2>2 DEF Addressed
  <2>4. overlap[t] \/ unit[call[t].master] = call[t].unit
    BY <2>2 DEF Inv, OwnUnit
  <2>5. u \in Units \cup {Failed} /\ (overlap[t] \/ u \in {call[t].unit, Failed})
    BY <2>1, <2>3, <2>4
  <2> QED BY <1>t, <2>1, <2>2, <2>5, ReturnedAnswers
<1> QED
  <2>1. ASSUME NEW n \in Names, NEW m \in Masters, AddMaster(n, m)
        PROVE  UNCHANGED Ex!vars
    BY <2>1, <1>1 DEF AddMaster
  <2>2. ASSUME NEW m \in Masters, NEW net \in {"rtu", "tcp"}, SetBackend(m, net)
        PROVE  UNCHANGED Ex!vars
    BY <2>2, <1>1 DEF SetBackend
  <2>3. ASSUME NEW u \in Named, NEW d \in Masters \cup {None}, AddRoute(u, d)
        PROVE  UNCHANGED Ex!vars
    BY <2>3, <1>1 DEF AddRoute
  <2>4. ASSUME NEW u \in Named, NEW number \in Named, SetNumber(u, number)
        PROVE  UNCHANGED Ex!vars
    BY <2>4, <1>1 DEF SetNumber
  <2>5. OpenClose \/ UNCHANGED vars => UNCHANGED Ex!vars
    BY <1>1 DEF OpenClose, vars
  <2> QED
    BY <2>1, <2>2, <2>3, <2>4, <2>5, <1>3, <1>7, <1>8, <1>9, <1>10, <1>11, <1>12 DEF Next

\* No call: nothing is asked.
LEMMA InitMaps == Init => Ex!Init
BY DEF Init, Ex!Init, Asked, Busy, Idle, Ex!Nothing, Ex!Failed, Failed

\* The calls of slaves and masters, of two or three calls of libmodbus each, are one
\* exchange with the unit they are for, while one thread at a time uses the master
\* (slave.cpp:82-241, master.cpp:136-177).
THEOREM ImplementsExchangeCorrect == Spec => ImplementsExchange
<1>1. Spec => []Inv
  BY InitInv, StepInv, PTL DEF Spec
<1>2. Spec => Ex!Init /\ [][Ex!Next]_(Ex!vars)
  BY <1>1, InitMaps, StepMaps, PTL DEF Spec
<1> QED BY <1>2 DEF ImplementsExchange, Ex!Spec
=============================================================================
