---------------------------- MODULE RouterProofs ----------------------------
(***************************************************************************)
(* Theorems about Router, for any number of masters and any setups.        *)
(***************************************************************************)
EXTENDS Router, TLAPS

-----------------------------------------------------------------------------
(* Type correctness.                                                        *)

\* Every variable of a router starts with a value of its type.
LEMMA InitType == Init => TypeOK
<1> SUFFICES ASSUME Init PROVE TypeOK
  OBVIOUS
<1>1. N \in Nat
  BY RouterAssumption
<1>2. 1 \in 1 .. N + 1
  BY <1>1
<1>3. pc["app"] = "idle" /\ pc["daemon"] = "none"
  BY DEF Init, Threads
<1>4. pc \in [Threads -> {"idle", "none", "loop", "open", "undo", "join", "masters"}]
  BY DEF Init
<1> QED
  BY <1>2, <1>3, <1>4 DEF Init, TypeOK

\* Where each thread may be, and that the program counter is a function.
LEMMA PcType ==
  ASSUME TypeOK
  PROVE  /\ DOMAIN pc = Threads /\ DOMAIN at = Threads
         /\ pc["app"] \in {"idle", "open", "undo", "join", "masters"}
         /\ pc["daemon"] \in {"none", "loop", "open", "undo"}
BY DEF TypeOK

\* A jump of a thread keeps the types of pc and at.
LEMMA GotoType ==
  ASSUME TypeOK, NEW h \in Threads, NEW p, Goto(h, p),
         IF h = "app" THEN p \in {"idle", "open", "undo", "join", "masters"}
                      ELSE p \in {"none", "loop", "open", "undo"}
  PROVE  /\ pc' \in [Threads -> {"idle", "none", "loop", "open", "undo", "join", "masters"}]
         /\ pc'["app"] \in {"idle", "open", "undo", "join", "masters"}
         /\ pc'["daemon"] \in {"none", "loop", "open", "undo"}
         /\ at' \in [Threads -> 1 .. N + 1]
<1>1. 1 \in 1 .. N + 1
  BY RouterAssumption
<1>2. at' \in [Threads -> 1 .. N + 1]
  BY <1>1 DEF TypeOK, Goto
<1>3. CASE h = "app"
  BY <1>2, <1>3 DEF TypeOK, Goto, Threads
<1>4. CASE h = "daemon"
  BY <1>2, <1>4 DEF TypeOK, Goto, Threads
<1> QED
  BY <1>3, <1>4 DEF Threads

\* One turn of a loop over the masters keeps the type of at.
LEMMA TurnType ==
  ASSUME TypeOK, NEW h \in Threads, at[h] <= N
  PROVE  /\ at[h] \in Names
         /\ [at EXCEPT ![h] = at[h] + 1] \in [Threads -> 1 .. N + 1]
<1>1. at[h] \in 1 .. N + 1 /\ N \in Nat
  BY RouterAssumption DEF TypeOK
<1>2. at[h] + 1 \in 1 .. N + 1 /\ at[h] \in Names
  BY <1>1 DEF Names
<1> QED
  BY <1>2 DEF TypeOK

\* The type of a next state, from those of its parts.
LEMMA NextType ==
  ASSUME TypeOK, setup' = setup,
         master' \in [Names -> {"absent", "bare", "closed", "open"}],
         isOpen' \in BOOLEAN, link' \in BOOLEAN,
         pc' \in [Threads -> {"idle", "none", "loop", "open", "undo", "join", "masters"}],
         pc'["app"] \in {"idle", "open", "undo", "join", "masters"},
         pc'["daemon"] \in {"none", "loop", "open", "undo"},
         at' \in [Threads -> 1 .. N + 1],
         call' \in {"none", "open", "poll", "terminate", "close"},
         ran' \in BOOLEAN, touched' \subseteq Names, aborted' \in BOOLEAN
  PROVE  TypeOK'
BY DEF TypeOK

\* Every step of the application and of the daemon keeps the types.
LEMMA StepType == TypeOK /\ [Next]_vars => TypeOK'
<1> SUFFICES ASSUME TypeOK, [Next]_vars PROVE TypeOK'
  OBVIOUS
<1>t. /\ setup \in Setups
      /\ master \in [Names -> {"absent", "bare", "closed", "open"}]
      /\ isOpen \in BOOLEAN /\ link \in BOOLEAN
      /\ pc \in [Threads -> {"idle", "none", "loop", "open", "undo", "join", "masters"}]
      /\ pc["app"] \in {"idle", "open", "undo", "join", "masters"}
      /\ pc["daemon"] \in {"none", "loop", "open", "undo"}
      /\ at \in [Threads -> 1 .. N + 1]
      /\ call \in {"none", "open", "poll", "terminate", "close"}
      /\ ran \in BOOLEAN /\ touched \subseteq Names /\ aborted \in BOOLEAN
  BY DEF TypeOK
<1>h. "app" \in Threads /\ "daemon" \in Threads
  BY DEF Threads
<1>1. ASSUME Configure PROVE TypeOK'
  <2>1. PICK n \in Names : AddMaster(n) \/ SetBackend(n) \/ OpenByHand(n) \/ CloseByHand(n)
    BY <1>1 DEF Configure
  <2>2. master' \in [Names -> {"absent", "bare", "closed", "open"}] /\ touched' \subseteq Names
    BY <1>t, <2>1 DEF AddMaster, SetBackend, OpenByHand, CloseByHand
  <2>3. UNCHANGED <<setup, isOpen, link, pc, at, call, ran, aborted>>
    BY <2>1 DEF AddMaster, SetBackend, OpenByHand, CloseByHand
  <2> QED BY <1>t, <2>2, <2>3, NextType
<1>2. ASSUME Open PROVE TypeOK'
  <2>1. Goto("app", "open") BY <1>2 DEF Open
  <2> QED BY <1>t, <1>h, <1>2, <2>1, GotoType, NextType DEF Open
<1>3. ASSUME Run PROVE TypeOK'
  <2>1. Goto("daemon", "loop") BY <1>3 DEF Run
  <2> QED BY <1>t, <1>h, <1>3, <2>1, GotoType, NextType DEF Run
<1>4. ASSUME NEW c \in {"terminate", "close"}, Terminate(c) PROVE TypeOK'
  <2>1. Goto("app", "join") BY <1>4 DEF Terminate
  <2> QED BY <1>t, <1>h, <1>4, <2>1, GotoType, NextType DEF Terminate
<1>5. ASSUME NEW h \in Threads, Recover(h) PROVE TypeOK'
  <2>1. Goto(h, "open") BY <1>5 DEF Recover
  <2> QED BY <1>t, <1>5, <2>1, GotoType, NextType DEF Recover
<1>6. ASSUME NEW h \in Threads, OpenMaster(h) PROVE TypeOK'
  <2>1. at[h] \in Names /\ [at EXCEPT ![h] = at[h] + 1] \in [Threads -> 1 .. N + 1]
    BY <1>6, TurnType DEF OpenMaster
  <2>2. master' \in [Names -> {"absent", "bare", "closed", "open"}] /\ touched' \subseteq Names
    BY <1>t, <1>6, <2>1 DEF OpenMaster
  <2>3. UNCHANGED <<setup, isOpen, link, call, ran, aborted>>
    BY <1>6 DEF OpenMaster
  <2>4. CASE Goto(h, "undo")
    BY <1>t, <2>2, <2>3, <2>4, GotoType, NextType
  <2>5. CASE at' = [at EXCEPT ![h] = at[h] + 1] /\ UNCHANGED pc
    BY <1>t, <2>1, <2>2, <2>3, <2>5, NextType
  <2> QED BY <1>6, <2>4, <2>5 DEF OpenMaster
<1>7. ASSUME NEW h \in Threads, OpenServer(h) PROVE TypeOK'
  <2>1. CASE Goto(h, Back(h))
    BY <1>t, <1>7, <2>1, GotoType, NextType DEF OpenServer, Back
  <2>2. CASE Goto(h, "undo")
    BY <1>t, <1>7, <2>2, GotoType, NextType DEF OpenServer
  <2> QED BY <1>7, <2>1, <2>2 DEF OpenServer
<1>8. ASSUME NEW h \in Threads, UndoMaster(h) PROVE TypeOK'
  <2>1. at[h] \in Names /\ [at EXCEPT ![h] = at[h] + 1] \in [Threads -> 1 .. N + 1]
    BY <1>8, TurnType DEF UndoMaster
  <2>2. master' \in [Names -> {"absent", "bare", "closed", "open"}] /\ touched' \subseteq Names
    BY <1>t, <1>8, <2>1 DEF UndoMaster
  <2>3. at' = [at EXCEPT ![h] = at[h] + 1] /\ UNCHANGED <<setup, isOpen, link, pc, call, ran, aborted>>
    BY <1>8 DEF UndoMaster
  <2> QED BY <1>t, <2>1, <2>2, <2>3, NextType
<1>9. ASSUME NEW h \in Threads, Fail(h) PROVE TypeOK'
  <2>1. CASE h = "app"
    <3>1. Goto("app", "idle") BY <1>9, <2>1 DEF Fail
    <3> QED BY <1>t, <1>h, <1>9, <2>1, <3>1, GotoType, NextType DEF Fail
  <2>2. CASE h # "app"
    BY <1>t, <1>9, <2>2, NextType DEF Fail
  <2> QED BY <2>1, <2>2
<1>10. ASSUME LoopExit PROVE TypeOK'
  <2>1. Goto("daemon", "none") BY <1>10 DEF LoopExit
  <2> QED BY <1>t, <1>h, <1>10, <2>1, GotoType, NextType DEF LoopExit
<1>11. ASSUME Joined PROVE TypeOK'
  <2>1. CASE Goto("app", "masters")
    BY <1>t, <1>h, <1>11, <2>1, GotoType, NextType DEF Joined
  <2>2. CASE Goto("app", "idle")
    BY <1>t, <1>h, <1>11, <2>2, GotoType, NextType DEF Joined
  <2> QED BY <1>11, <2>1, <2>2 DEF Joined
<1>12. ASSUME CloseMaster PROVE TypeOK'
  <2>1. CASE at["app"] <= N
    <3>1. at["app"] \in Names /\ [at EXCEPT !["app"] = at["app"] + 1] \in [Threads -> 1 .. N + 1]
      BY <1>h, <2>1, TurnType
    <3>2. master' \in [Names -> {"absent", "bare", "closed", "open"}] /\ touched' \subseteq Names
      BY <1>t, <1>12, <2>1, <3>1 DEF CloseMaster
    <3>3. at' = [at EXCEPT !["app"] = at["app"] + 1] /\ UNCHANGED <<setup, isOpen, link, pc, call, ran, aborted>>
      BY <1>12, <2>1 DEF CloseMaster
    <3> QED BY <1>t, <3>1, <3>2, <3>3, NextType
  <2>2. CASE ~(at["app"] <= N)
    <3>1. Goto("app", "idle") BY <1>12, <2>2 DEF CloseMaster
    <3> QED BY <1>t, <1>h, <1>12, <2>2, <3>1, GotoType, NextType DEF CloseMaster
  <2> QED BY <2>1, <2>2
<1>13. CASE UNCHANGED vars
  BY <1>t, <1>13, NextType DEF vars
<1> QED
  BY <1>1, <1>2, <1>3, <1>4, <1>5, <1>6, <1>7, <1>8, <1>9, <1>10, <1>11, <1>12, <1>13
     DEF Next, OpenStep, CloseStep

\* A router is always in a state of its type: each thread is at a point of its own
\* code (router.cpp:168-189, server.cpp:426-434), for any number of masters.
THEOREM TypeCorrect == Spec => []TypeOK
<1>1. Init => TypeOK
  BY InitType
<1>2. TypeOK /\ [Next]_vars => TypeOK'
  BY StepType
<1> QED
  BY <1>1, <1>2, PTL DEF Spec

-----------------------------------------------------------------------------
(* The inductive invariant. What the router promises when its link is open  *)
(* or a call has returned rests on what each thread has done in its loop.   *)

\* A thread opens or undoes only with the server's link closed (server.cpp:340).
WalkersUnlinked == \A h \in Threads : pc[h] \in {"open", "undo"} => ~link

\* The masters a thread has passed in the loop of router.cpp:171-174 are open.
OpenedSoFar ==
  \A h \in Threads : pc[h] = "open" =>
    \A n \in Names : n < at[h] => Ready(n) \/ n \in touched

\* A router that is not open has no link and no daemon.
NothingWithoutOpen == ~isOpen => ~link /\ pc["daemon"] = "none"

\* The application loops over the masters only when there is no daemon, and a
\* router that polls never has one.
WalksAlone ==
  /\ Walking("app") \/ setup.polls => pc["daemon"] = "none"
  /\ pc["app"] = "masters" => ~isOpen

\* The masters the application has passed in a loop that closes them (router.cpp:63,
\* 183) are closed; all of them are when the router is not open.
ClosedSoFar ==
  /\ pc["app"] \in {"undo", "masters"} =>
       \A n \in Names : n < at["app"] /\ master[n] = "open" => n \in touched
  /\ pc["app"] \in {"idle", "join"} /\ ~isOpen =>
       \A n \in Names : master[n] = "open" => n \in touched

\* The inductive invariant; its last part is a promise of the router by itself.
IInv ==
  /\ TypeOK
  /\ WalkersUnlinked
  /\ OpenedSoFar
  /\ NothingWithoutOpen
  /\ WalksAlone
  /\ ClosedSoFar
  /\ ServesThroughMasters

\* The parts of the invariant but its type.
Parts == /\ WalkersUnlinked /\ OpenedSoFar /\ NothingWithoutOpen
         /\ WalksAlone /\ ClosedSoFar /\ ServesThroughMasters

\* After a jump the thread is at its target, before the first master, and the other
\* thread where it was.
LEMMA GotoPoint ==
  ASSUME TypeOK, NEW h \in Threads, NEW p, Goto(h, p)
  PROVE  /\ pc'[h] = p /\ at'[h] = 1
         /\ \A g \in Threads : g # h => pc'[g] = pc[g] /\ at'[g] = at[g]
BY DEF TypeOK, Goto

\* Names and loop counters are numbers: none is before the first.
LEMMA Numbers ==
  ASSUME TypeOK
  PROVE  /\ N \in Nat
         /\ \A n \in Names : n \in Nat /\ 1 <= n /\ n <= N
         /\ \A h \in Threads : at[h] \in Nat
         /\ "app" \in Threads /\ "daemon" \in Threads /\ "app" # "daemon"
         /\ \A h \in Threads : h = "app" \/ h = "daemon"
<1>1. N \in Nat
  BY RouterAssumption
<1>2. \A h \in Threads : at[h] \in 1 .. N + 1
  BY DEF TypeOK
<1> QED
  BY <1>1, <1>2 DEF Names, Threads

\* A new router satisfies the invariant: nothing is open.
LEMMA InitInv == Init => IInv
<1> SUFFICES ASSUME Init PROVE IInv
  OBVIOUS
<1>1. TypeOK
  BY InitType
<1>2. pc["app"] = "idle" /\ pc["daemon"] = "none"
  BY DEF Init, Threads
<1>3. WalkersUnlinked /\ NothingWithoutOpen /\ ServesThroughMasters
  BY <1>2 DEF Init, WalkersUnlinked, NothingWithoutOpen, ServesThroughMasters
<1>4. OpenedSoFar /\ WalksAlone /\ ClosedSoFar
  BY <1>2 DEF Init, OpenedSoFar, WalksAlone, ClosedSoFar, Walking, Threads
<1> QED
  BY <1>1, <1>3, <1>4 DEF IInv

\* The application configures the router and opens or closes a master itself: what
\* it changes is in touched (or the router is not open).
LEMMA ConfigureStep ==
  ASSUME IInv, Configure, TypeOK'
  PROVE  Parts'
<1>1. PICK n \in Names : AddMaster(n) \/ SetBackend(n) \/ OpenByHand(n) \/ CloseByHand(n)
  BY DEF Configure
<1>2. UNCHANGED <<setup, isOpen, link, pc, at>> /\ pc["app"] = "idle"
  BY <1>1 DEF AddMaster, SetBackend, OpenByHand, CloseByHand, Idle
<1>3. /\ \A m \in Names : m # n => master'[m] = master[m]
      /\ touched \subseteq touched'
      /\ n \in touched' \/ (~isOpen /\ master'[n] \in {"bare", "closed"})
  BY <1>1 DEF IInv, TypeOK, AddMaster, SetBackend, OpenByHand, CloseByHand
<1>4. \A m \in Names : isOpen /\ (Ready(m) \/ m \in touched) => Ready(m)' \/ m \in touched'
  BY <1>3 DEF Ready
<1>5. \A m \in Names : (master[m] = "open" => m \in touched)
                         => (master'[m] = "open" => m \in touched')
  BY <1>3
<1>6. WalkersUnlinked' /\ NothingWithoutOpen' /\ WalksAlone'
  BY <1>2 DEF IInv, WalkersUnlinked, NothingWithoutOpen, WalksAlone, Walking
<1>7. OpenedSoFar'
  BY <1>2, <1>4 DEF IInv, OpenedSoFar, NothingWithoutOpen, Threads
<1>8. ClosedSoFar'
  BY <1>2, <1>5 DEF IInv, ClosedSoFar
<1>9. ServesThroughMasters'
  BY <1>2, <1>4 DEF IInv, ServesThroughMasters, NothingWithoutOpen
<1> QED
  BY <1>6, <1>7, <1>8, <1>9 DEF Parts

\* A thread starts to open the masters, with the link closed, from the first one:
\* open() without a daemon, or the recovery of the thread that serves.
LEMMA BeginStep ==
  ASSUME IInv, TypeOK', NEW h \in Threads, (Open /\ h = "app") \/ Recover(h)
  PROVE  Parts'
<1>1. Goto(h, "open") /\ UNCHANGED <<setup, master, isOpen, touched>> /\ link' = FALSE
  BY DEF Open, Recover, IInv, NothingWithoutOpen, TypeOK
<1>2. /\ pc'[h] = "open" /\ at'[h] = 1
      /\ \A g \in Threads : g # h => pc'[g] = pc[g] /\ at'[g] = at[g]
  BY <1>1, GotoPoint DEF IInv
<1>3. h = "app" => pc["daemon"] = "none" /\ pc["app"] = "idle"
  BY DEF IInv, NothingWithoutOpen, WalksAlone, Open, Recover, MayRecover, Idle
<1>4. h # "app" => pc["daemon"] = "loop"
  BY DEF Open, Recover, MayRecover
<1>5. \A n \in Names : ~(n < 1)
  BY Numbers DEF IInv
<1>6. WalkersUnlinked' /\ ServesThroughMasters'
  BY <1>1 DEF WalkersUnlinked, ServesThroughMasters
<1>7. OpenedSoFar'
  <2>1. \A n \in Names : Ready(n)' = Ready(n)
    BY <1>1 DEF Ready
  <2> QED BY <1>1, <1>2, <1>5, <2>1 DEF IInv, OpenedSoFar
<1>8. NothingWithoutOpen' /\ WalksAlone' /\ ClosedSoFar'
  <2>1. CASE h = "app"
    BY <1>1, <1>2, <1>3, <2>1, Numbers
       DEF IInv, NothingWithoutOpen, WalksAlone, ClosedSoFar, Walking
  <2>2. CASE h = "daemon"
    BY <1>1, <1>2, <1>4, <2>2, Numbers
       DEF IInv, NothingWithoutOpen, WalksAlone, ClosedSoFar, Walking
  <2> QED BY <2>1, <2>2, Numbers DEF IInv
<1> QED
  BY <1>6, <1>7, <1>8 DEF Parts

\* No thread walks while the other one does.
LEMMA OtherRests ==
  ASSUME IInv, NEW h \in Threads, pc[h] \in {"open", "undo"}
  PROVE  /\ \A g \in Threads : g # h => pc[g] \notin {"open", "undo", "masters"}
         /\ h = "daemon" => isOpen
BY Numbers DEF IInv, WalksAlone, NothingWithoutOpen, Walking

\* One master more is open, or it failed and the masters are closed from the first.
LEMMA OpenMasterStep ==
  ASSUME IInv, TypeOK', NEW h \in Threads, OpenMaster(h)
  PROVE  Parts'
<1>1. pc[h] = "open" /\ at[h] \in Names /\ UNCHANGED <<setup, isOpen, link>> /\ ~link
  BY TurnType DEF IInv, OpenMaster, WalkersUnlinked
<1>2. /\ \A g \in Threads : g # h => pc[g] \notin {"open", "undo", "masters"}
      /\ h = "daemon" => isOpen
  BY <1>1, OtherRests
<1>3. WalkersUnlinked' /\ ServesThroughMasters'
  BY <1>1 DEF WalkersUnlinked, ServesThroughMasters
<1>4. CASE Goto(h, "undo") /\ UNCHANGED <<master, touched>>
  <2>1. /\ pc'[h] = "undo" /\ at'[h] = 1
        /\ \A g \in Threads : g # h => pc'[g] = pc[g] /\ at'[g] = at[g]
    BY <1>4, GotoPoint DEF IInv
  <2>2. \A n \in Names : ~(n < 1)
    BY Numbers DEF IInv
  <2>3. OpenedSoFar'
    BY <1>2, <2>1 DEF OpenedSoFar
  <2>4. NothingWithoutOpen' /\ WalksAlone' /\ ClosedSoFar'
    <3>1. CASE h = "app"
      BY <1>1, <1>4, <2>1, <2>2, <3>1, Numbers
         DEF IInv, NothingWithoutOpen, WalksAlone, ClosedSoFar, Walking
    <3>2. CASE h = "daemon"
      BY <1>1, <1>2, <1>4, <2>1, <3>2, Numbers
         DEF IInv, NothingWithoutOpen, WalksAlone, ClosedSoFar, Walking
    <3> QED BY <3>1, <3>2, Numbers DEF IInv
  <2> QED BY <1>3, <2>3, <2>4 DEF Parts
<1>5. CASE /\ master' = [master EXCEPT ![at[h]] = IF @ = "absent" THEN @ ELSE "open"]
           /\ touched' = touched \ {at[h]}
           /\ at' = [at EXCEPT ![h] = at[h] + 1]
           /\ UNCHANGED pc
  <2>1. ASSUME NEW n \in Names
        PROVE  /\ n = at[h] => Ready(n)'
               /\ n # at[h] => /\ Ready(n) => Ready(n)'
                               /\ n \in touched => n \in touched'
    BY <1>1, <1>5 DEF IInv, TypeOK, Ready
  <2>2. at'[h] = at[h] + 1
    BY <1>5 DEF IInv, TypeOK
  <2>3. OpenedSoFar'
    <3> SUFFICES ASSUME NEW g \in Threads, pc'[g] = "open", NEW n \in Names, n < at'[g]
                 PROVE  Ready(n)' \/ n \in touched'
      BY DEF OpenedSoFar
    <3>1. g = h
      BY <1>2, <1>5
    <3>2. n = at[h] \/ n < at[h]
      BY <1>1, <2>2, <3>1, Numbers DEF IInv
    <3> QED BY <1>1, <2>1, <3>2 DEF IInv, OpenedSoFar
  <2>4. NothingWithoutOpen' /\ WalksAlone'
    BY <1>1, <1>5 DEF IInv, NothingWithoutOpen, WalksAlone, Walking
  <2>5. ClosedSoFar'
    <3>1. pc'["app"] \notin {"undo", "masters"}
      BY <1>1, <1>2, <1>5, Numbers DEF IInv
    <3>2. ~(pc'["app"] \in {"idle", "join"} /\ ~isOpen')
      BY <1>1, <1>2, <1>5, Numbers DEF IInv
    <3> QED BY <3>1, <3>2 DEF ClosedSoFar
  <2> QED BY <1>3, <2>3, <2>4, <2>5 DEF Parts
<1> QED
  BY <1>4, <1>5 DEF OpenMaster

\* The server's link is open, when all the masters are; or the masters are closed.
LEMMA OpenServerStep ==
  ASSUME IInv, TypeOK', NEW h \in Threads, OpenServer(h)
  PROVE  Parts'
<1>1. pc[h] = "open" /\ at[h] = N + 1 /\ UNCHANGED <<setup, master, touched>> /\ ~link
  BY DEF IInv, OpenServer, WalkersUnlinked
<1>2. /\ \A g \in Threads : g # h => pc[g] \notin {"open", "undo", "masters"}
      /\ h = "daemon" => isOpen
  BY <1>1, OtherRests
<1>3. \A n \in Names : Ready(n) \/ n \in touched
  BY <1>1, Numbers DEF IInv, OpenedSoFar
<1>4. \A n \in Names : Ready(n)' = Ready(n)
  BY <1>1 DEF Ready
<1>5. ServesThroughMasters'
  BY <1>1, <1>3, <1>4 DEF ServesThroughMasters
<1>6. PICK p : Goto(h, p) /\ \/ p = Back(h) /\ link' = TRUE /\ isOpen' = TRUE
                             \/ p = "undo" /\ UNCHANGED <<link, isOpen>>
  BY DEF OpenServer
<1>7. /\ pc'[h] = p /\ at'[h] = 1
      /\ \A g \in Threads : g # h => pc'[g] = pc[g] /\ at'[g] = at[g]
  BY <1>6, GotoPoint DEF IInv
<1>8. p \in {"idle", "loop", "undo"} /\ (p = "undo" => ~link')
  BY <1>1, <1>6 DEF Back
<1>9. WalkersUnlinked' /\ OpenedSoFar'
  BY <1>2, <1>7, <1>8 DEF WalkersUnlinked, OpenedSoFar
<1>10. \A n \in Names : ~(n < 1)
  BY Numbers DEF IInv
<1>11. NothingWithoutOpen' /\ WalksAlone' /\ ClosedSoFar'
  <2>1. CASE h = "app"
    <3>1. pc'["daemon"] = "none" /\ p \in {"idle", "undo"} /\ pc'["app"] = p /\ at'["app"] = 1
      BY <1>1, <1>6, <1>7, <2>1, Numbers DEF IInv, WalksAlone, Walking, Back
    <3> QED
      BY <1>1, <1>6, <1>10, <2>1, <3>1
         DEF IInv, NothingWithoutOpen, WalksAlone, ClosedSoFar, Back
  <2>2. CASE h = "daemon"
    <3>1. pc'["app"] = pc["app"] /\ pc["app"] \notin {"open", "undo", "masters"}
      BY <1>2, <1>7, <2>2, Numbers DEF IInv
    <3>3. isOpen'
      <4>1. CASE isOpen' = TRUE
        BY <4>1
      <4>2. CASE isOpen' = isOpen
        BY <1>2, <2>2, <4>2
      <4> QED BY <1>6, <4>1, <4>2
    <3>2. ~setup.polls
      BY <1>1, <2>2 DEF IInv, WalksAlone
    <3> QED
      BY <1>1, <3>1, <3>2, <3>3 DEF NothingWithoutOpen, WalksAlone, ClosedSoFar, Walking
  <2> QED BY <2>1, <2>2, Numbers DEF IInv
<1> QED
  BY <1>5, <1>9, <1>11 DEF Parts

\* One turn of a loop that closes the masters, of a failed open or of close().
LEMMA CloseTurn ==
  ASSUME IInv, TypeOK', NEW h \in Threads, at[h] <= N,
         pc[h] \in {"undo", "masters"},
         master' = [master EXCEPT ![at[h]] = IF @ = "open" THEN "closed" ELSE @],
         touched' = touched \ {at[h]},
         at' = [at EXCEPT ![h] = at[h] + 1],
         UNCHANGED <<setup, pc, isOpen, link>>
  PROVE  Parts'
<1>1. at[h] \in Names /\ at'[h] = at[h] + 1
  BY TurnType DEF IInv, TypeOK
<1>2. /\ ~link
      /\ \A g \in Threads : pc[g] # "open"
      /\ h = "daemon" => isOpen /\ pc["app"] \notin {"undo", "masters"}
      /\ h = "app" => pc["app"] \in {"undo", "masters"}
  BY Numbers, PcType DEF IInv, WalkersUnlinked, NothingWithoutOpen, WalksAlone, Walking
<1>3. ASSUME NEW n \in Names
      PROVE  /\ n = at[h] => master'[n] # "open"
             /\ n # at[h] => master'[n] = master[n] /\ (n \in touched => n \in touched')
  BY <1>1 DEF IInv, TypeOK
<1>4. WalkersUnlinked' /\ OpenedSoFar' /\ ServesThroughMasters'
  BY <1>2 DEF WalkersUnlinked, OpenedSoFar, ServesThroughMasters
<1>5. NothingWithoutOpen' /\ WalksAlone'
  BY DEF IInv, NothingWithoutOpen, WalksAlone, Walking
<1>6. ClosedSoFar'
  <2>1. CASE h = "app"
    <3>1. \A n \in Names : n < at'["app"] => n = at["app"] \/ n < at["app"]
      BY <1>1, <2>1, Numbers DEF IInv
    <3> QED BY <1>2, <1>3, <2>1, <3>1 DEF IInv, ClosedSoFar
  <2>2. CASE h = "daemon"
    BY <1>2, <2>2 DEF ClosedSoFar
  <2> QED BY <2>1, <2>2, Numbers DEF IInv
<1> QED
  BY <1>4, <1>5, <1>6 DEF Parts

\* One turn of the loop that closes the masters of an open that failed.
LEMMA UndoMasterStep ==
  ASSUME IInv, TypeOK', NEW h \in Threads, UndoMaster(h)
  PROVE  Parts'
BY CloseTurn DEF UndoMaster

\* The loop that closes the masters has ended: open() fails, or ends the process.
LEMMA FailStep ==
  ASSUME IInv, TypeOK', NEW h \in Threads, Fail(h)
  PROVE  Parts'
<1>1. pc[h] = "undo" /\ at[h] = N + 1
      /\ UNCHANGED <<setup, master, isOpen, link, touched>>
  BY DEF Fail
<1>2. \A n \in Names : Ready(n)' = Ready(n)
  BY <1>1 DEF Ready
<1>3. CASE h = "app"
  <2>1. pc'["app"] = "idle" /\ pc'["daemon"] = pc["daemon"] /\ pc["daemon"] = "none"
    BY <1>1, <1>3, GotoPoint, Numbers DEF Fail, IInv, WalksAlone, Walking
  <2>2. \A n \in Names : master[n] = "open" => n \in touched
    BY <1>1, <1>3, Numbers DEF IInv, ClosedSoFar
  <2>3. WalkersUnlinked' /\ OpenedSoFar' /\ WalksAlone'
    BY <2>1, Numbers DEF IInv, WalkersUnlinked, OpenedSoFar, WalksAlone
  <2>4. NothingWithoutOpen' /\ ClosedSoFar' /\ ServesThroughMasters'
    BY <1>1, <1>2, <2>1, <2>2
       DEF IInv, NothingWithoutOpen, ClosedSoFar, ServesThroughMasters
  <2> QED BY <2>3, <2>4 DEF Parts
<1>4. CASE h # "app"
  <2>1. UNCHANGED <<pc, at>>
    BY <1>4 DEF Fail
  <2>2. OpenedSoFar' /\ ServesThroughMasters'
    BY <1>1, <1>2, <2>1 DEF IInv, OpenedSoFar, ServesThroughMasters
  <2>3. WalkersUnlinked' /\ NothingWithoutOpen' /\ WalksAlone' /\ ClosedSoFar'
    BY <1>1, <2>1
       DEF IInv, WalkersUnlinked, NothingWithoutOpen, WalksAlone, ClosedSoFar, Walking
  <2> QED BY <2>2, <2>3 DEF Parts
<1> QED
  BY <1>3, <1>4

\* run(), terminate() and the end of the daemon touch no master.
LEMMA DaemonStep ==
  ASSUME IInv, TypeOK',
         \/ Run
         \/ \E c \in {"terminate", "close"} : Terminate(c)
         \/ LoopExit
  PROVE  Parts'
<1>1. UNCHANGED <<setup, master, isOpen, link, touched>>
  BY DEF Run, Terminate, LoopExit
<1>2. \A n \in Names : Ready(n)' = Ready(n)
  BY <1>1 DEF Ready
<1>3. /\ \/ pc'["app"] = pc["app"] /\ at'["app"] = at["app"]
         \/ pc["app"] = "idle" /\ pc'["app"] = "join"
      /\ \/ pc'["daemon"] = pc["daemon"] /\ at'["daemon"] = at["daemon"]
         \/ pc'["daemon"] = "loop" /\ isOpen /\ ~setup.polls /\ pc["app"] = "idle"
            /\ pc'["app"] = "idle"
         \/ pc'["daemon"] = "none"
  BY GotoPoint, Numbers DEF IInv, Run, Terminate, LoopExit, Idle
<1>4. WalkersUnlinked' /\ OpenedSoFar' /\ ServesThroughMasters'
  BY <1>1, <1>2, <1>3, Numbers
     DEF IInv, WalkersUnlinked, OpenedSoFar, ServesThroughMasters
<1>5. NothingWithoutOpen' /\ WalksAlone' /\ ClosedSoFar'
  BY <1>1, <1>3 DEF IInv, NothingWithoutOpen, WalksAlone, ClosedSoFar, Walking
<1> QED
  BY <1>4, <1>5 DEF Parts

\* Without a daemon, close() closes the link and goes on with the masters, from the
\* first; terminate() returns.
LEMMA JoinedStep ==
  ASSUME IInv, TypeOK', Joined
  PROVE  Parts'
<1>1. pc["app"] = "join" /\ pc["daemon"] = "none" /\ UNCHANGED <<setup, master, touched>>
  BY DEF Joined
<1>2. PICK p \in {"masters", "idle"} :
        Goto("app", p) /\ IF p = "masters" THEN ~link' /\ ~isOpen'
                                           ELSE UNCHANGED <<link, isOpen>>
  BY DEF Joined
<1>3. pc'["app"] = p /\ at'["app"] = 1 /\ pc'["daemon"] = "none"
  BY <1>1, <1>2, GotoPoint, Numbers DEF IInv
<1>4. \A n \in Names : ~(n < 1) /\ Ready(n)' = Ready(n)
  BY <1>1, Numbers DEF IInv, Ready
<1>5. WalkersUnlinked' /\ OpenedSoFar'
  BY <1>2, <1>3, Numbers DEF IInv, WalkersUnlinked, OpenedSoFar
<1>6. ServesThroughMasters'
  BY <1>1, <1>2, <1>4 DEF IInv, ServesThroughMasters
<1>7. NothingWithoutOpen' /\ WalksAlone' /\ ClosedSoFar'
  BY <1>1, <1>2, <1>3, <1>4
     DEF IInv, NothingWithoutOpen, WalksAlone, ClosedSoFar, Walking
<1> QED
  BY <1>5, <1>6, <1>7 DEF Parts

\* One turn of the loop of close(), or its end.
LEMMA CloseMasterStep ==
  ASSUME IInv, TypeOK', CloseMaster
  PROVE  Parts'
<1>1. CASE at["app"] <= N
  BY <1>1, CloseTurn, Numbers DEF IInv, CloseMaster
<1>2. CASE ~(at["app"] <= N)
  <2>1. pc["app"] = "masters" /\ UNCHANGED <<setup, isOpen, link, master, touched>>
    BY <1>2 DEF CloseMaster
  <2>2. pc'["app"] = "idle" /\ pc'["daemon"] = "none" /\ ~isOpen /\ ~link
    BY <1>2, GotoPoint, Numbers
       DEF CloseMaster, IInv, WalksAlone, Walking, NothingWithoutOpen
  <2>3. \A n \in Names : master[n] = "open" => n \in touched
    BY <1>2, <2>1, Numbers DEF IInv, ClosedSoFar
  <2>4. WalkersUnlinked' /\ OpenedSoFar' /\ ServesThroughMasters'
    BY <2>1, <2>2, Numbers DEF IInv, WalkersUnlinked, OpenedSoFar, ServesThroughMasters
  <2>5. NothingWithoutOpen' /\ WalksAlone' /\ ClosedSoFar'
    BY <2>1, <2>2, <2>3
       DEF NothingWithoutOpen, WalksAlone, ClosedSoFar
  <2> QED BY <2>4, <2>5 DEF Parts
<1> QED
  BY <1>1, <1>2

-----------------------------------------------------------------------------
(* The theorems.                                                            *)

\* Every step of the application and of the daemon keeps the invariant.
LEMMA StepInv == IInv /\ [Next]_vars => IInv'
<1> SUFFICES ASSUME IInv, [Next]_vars PROVE IInv'
  OBVIOUS
<1>1. TypeOK'
  BY StepType DEF IInv
<1>2. CASE Configure
  BY <1>1, <1>2, ConfigureStep DEF IInv, Parts
<1>3. CASE Open
  BY <1>1, <1>3, BeginStep, Numbers DEF IInv, Parts
<1>4. CASE Run \/ \E c \in {"terminate", "close"} : Terminate(c)
  BY <1>1, <1>4, DaemonStep DEF IInv, Parts
<1>5. ASSUME NEW h \in Threads, OpenStep(h) PROVE IInv'
  BY <1>1, <1>5, BeginStep, OpenMasterStep, OpenServerStep, UndoMasterStep, FailStep
     DEF IInv, Parts, OpenStep
<1>6. CASE CloseStep
  BY <1>1, <1>6, DaemonStep, JoinedStep, CloseMasterStep DEF IInv, Parts, CloseStep
<1>7. CASE UNCHANGED vars
  <2>1. \A n \in Names : Ready(n)' = Ready(n)
    BY <1>7 DEF vars, Ready
  <2> QED
    BY <1>1, <1>7, <2>1
       DEF vars, IInv, WalkersUnlinked, OpenedSoFar, NothingWithoutOpen, WalksAlone,
           ClosedSoFar, ServesThroughMasters, Walking
<1> QED
  BY <1>2, <1>3, <1>4, <1>5, <1>6, <1>7 DEF Next

\* The invariant holds in every state of a router.
THEOREM Invariance == Spec => []IInv
<1>1. Init => IInv
  BY InitInv
<1>2. IInv /\ [Next]_vars => IInv'
  BY StepInv
<1> QED
  BY <1>1, <1>2, PTL DEF Spec

\* A router that can be reached has all its masters open, but those the application
\* closed itself (router.cpp:171-178), also after any number of recoveries.
THEOREM ServesThroughMastersCorrect == Spec => []ServesThroughMasters
<1>1. IInv => ServesThroughMasters
  BY DEF IInv
<1> QED
  BY <1>1, Invariance, PTL

\* When open() has failed in any of its steps, and after close(), the link is closed
\* and so is every master (router.cpp:60-64, 181-186).
THEOREM ClosedRouterReleasesCorrect == Spec => []ClosedRouterReleases
<1>1. IInv => ClosedRouterReleases
  BY DEF IInv, ClosedRouterReleases, ClosedSoFar, NothingWithoutOpen
<1> QED
  BY <1>1, Invariance, PTL

\* Nothing protects the masters' contexts but the order of the calls: the application
\* and the daemon never walk over the masters at the same time.
THEOREM OneWalkerCorrect == Spec => []OneWalker
<1>1. IInv => OneWalker
  BY DEF IInv, OneWalker, WalksAlone, Walking
<1> QED
  BY <1>1, Invariance, PTL
=============================================================================
