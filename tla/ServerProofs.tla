---------------------------- MODULE ServerProofs ----------------------------
(***************************************************************************)
(* What holds of module Server for every set of clients and every setup:   *)
(* its type invariant, and the safety invariants of its runs, by one       *)
(* inductive invariant about who may be where; and its liveness, from the  *)
(* fairness of its threads and the enabledness of their steps              *)
(* (StepsEnabled): from each point of a thread its next step leads nearer  *)
(* to the end, and no other thread takes it back.                          *)
(***************************************************************************)
EXTENDS Server, TLAPS

\* One application polls or runs: a pending task and a daemon exclude each other,
\* and each thread is where its own code leads.
WhoIsWhere ==
  /\ setup \in Setups
  /\ rpc["task"] # "off" => "poll" \in setup.calls
  /\ pc["app"] \in {"wait", "dispatch", "reopen", "serve"}
       => "poll" \in setup.calls /\ isOpen
  /\ Handling("app") => rpc["task"] = "off"
  /\ isRunning => "run" \in setup.calls /\ isOpen
  /\ rpc["daemon"] # "off" => pc["daemon"] = "recv"

\* The promise and the two threads that share it.
PromiseState ==
  /\ pc["app"] = "join" => stop = "set"
  /\ isRunning /\ pc["app"] # "join" => stop = "taken"
  /\ pc["app"] \in {"release", "drop", "gone"} => ~isRunning

\* What is left when the server is not open.
ClosedState ==
  /\ ~isOpen =>
       /\ pc["app"] \in {"idle", "stop", "release", "drop", "gone"}
       /\ pc["app"] \in {"stop", "release"} => ending # "close"
       /\ sock = "none"
       /\ rpc["task"] # "off" => stale["task"]
       /\ link = None \/ rpc["task"] # "off" \/ pc["app"] = "gone"
  /\ ~stale["daemon"]
  /\ sock # "none" => Tcp

\* What is left when the server is destroyed.
DestroyedState ==
  /\ pc["app"] \in {"drop", "gone"} => ~isOpen
  /\ pc["app"] = "gone" => rpc["task"] = "off"

\* While the daemon has a result to handle, its errno is the one of that result.
ErrnoIsCurrent ==
  rpc["daemon"] = "done" \/ pc["daemon"] = "dispatch" =>
    res["daemon"] = "request" \/ (errno["daemon"] = "badcrc" <=> res["daemon"] = "badcrc")

IInv == TypeOK /\ WhoIsWhere /\ PromiseState /\ ClosedState /\ DestroyedState /\ ErrnoIsCurrent

-----------------------------------------------------------------------------
(* Types.                                                                   *)

\* The values of a server that was just created have their types.
LEMMA InitType == Init => TypeOK
<1> SUFFICES ASSUME Init PROVE TypeOK
  OBVIOUS
<1>1. setup \in Setup
  BY ServerAssumption DEF Init
<1>2. conn \in [Peers -> {"off", "waiting", "up"}]
  BY DEF Init
<1>3. QED
  BY <1>1, <1>2 DEF Init, TypeOK, Receivers, Handlers, AppPc, DaemonPc

\* The two operations on the link keep the types of what they change.
LEMMA PrivateOpenType ==
  ASSUME TypeOK, NEW ok \in BOOLEAN, PrivateOpen(ok)
  PROVE  /\ sock' \in {"none", "listening", "shut"}
         /\ link' \in Peers \cup {None}
         /\ conn' \in [Peers -> {"off", "waiting", "up"}]
  BY DEF TypeOK, PrivateOpen, Peers

\* The clients of a listening socket that is shut or closed are gone.
LEMMA DropQueueType ==
  ASSUME TypeOK
  PROVE  DropQueue \in [Peers -> {"off", "waiting", "up"}]
  BY DEF TypeOK, DropQueue

\* A thread that blocks in accept() is woken; the others go on.
LEMMA WakeType ==
  ASSUME TypeOK, WakeAcceptors
  PROVE  rpc' \in [Receivers ->
           {"off", "check", "accept", "blocked", "woken", "got", "recv", "done"}]
  BY DEF TypeOK, WakeAcceptors

\* A fresh receive() keeps the types of what it resets.
LEMMA BeginReceiveType ==
  ASSUME TypeOK, NEW t \in Receivers, BeginReceive(t)
  PROVE  /\ rpc' \in [Receivers ->
              {"off", "check", "accept", "blocked", "woken", "got", "recv", "done"}]
         /\ stale' \in [Receivers -> BOOLEAN]
         /\ peer' = peer
         /\ res' = res
<1>1. stale' \in [Receivers -> BOOLEAN]
  <2>1. stale \in [Receivers -> BOOLEAN]
    BY DEF TypeOK
  <2>2. stale' = [stale EXCEPT ![t] = FALSE]
    BY DEF BeginReceive
  <2>3. QED
    BY <2>1, <2>2, Zenon
<1>2. QED
  BY <1>1 DEF BeginReceive, TypeOK

\* Closing the link leaves no connection in the context.
LEMMA PrivateCloseType ==
  ASSUME TypeOK, PrivateClose
  PROVE  /\ sock' \in {"none", "listening", "shut"}
         /\ link' = None
         /\ wire' = "none"
         /\ conn' \in [Peers -> {"off", "waiting", "up"}]
         /\ rpc' \in [Receivers ->
              {"off", "check", "accept", "blocked", "woken", "got", "recv", "done"}]
<1>1. \A p \in Peers :
        (CASE p = Bus -> IF conn[p] = "off" THEN "off" ELSE "waiting"
           [] \E t \in Receivers : rpc[t] = "got" /\ peer[t] = p -> conn[p]
           [] OTHER -> "off") \in {"off", "waiting", "up"}
  BY DEF TypeOK
<1>2. QED
  BY <1>1, WakeType DEF TypeOK, PrivateClose

\* Every step keeps the types.
LEMMA StepType == TypeOK /\ [Next]_vars => TypeOK'
<1> SUFFICES ASSUME TypeOK, [Next]_vars PROVE TypeOK'
  OBVIOUS
<1> USE DEF srvVars, netVars, rxVars, ctlVars, MayCall, Receivers, Handlers,
            AppPc, DaemonPc, RxOf
<1>1. CASE Open
  BY <1>1, PrivateOpenType DEF Open, TypeOK
<1>2. CASE Poll
  <2>1. /\ rpc' \in [Receivers ->
             {"off", "check", "accept", "blocked", "woken", "got", "recv", "done"}]
        /\ stale' \in [Receivers -> BOOLEAN]
        /\ peer' = peer /\ res' = res
    BY <1>2, BeginReceiveType DEF Poll, TypeOK
  <2>2. QED
    BY <1>2, <2>1 DEF Poll, TypeOK
<1>3. CASE Run
  BY <1>3 DEF Run, TypeOK
<1>4. ASSUME NEW c \in Calls, TerminateShutdown(c) PROVE TypeOK'
  BY <1>4, WakeType, DropQueueType DEF TerminateShutdown, TypeOK
<1>5. CASE PollTimeout
  BY <1>5 DEF PollTimeout, WaitErrno, TypeOK
<1>6. CASE PollGet
  BY <1>6 DEF PollGet, WaitErrno, TypeOK
<1>7. CASE TerminateSignal
  BY <1>7 DEF TerminateSignal, Terminated, TypeOK
<1>8. CASE TerminateJoin
  BY <1>8 DEF TerminateJoin, Terminated, TypeOK
<1>9. CASE Release
  <2>1. stale' \in [Receivers -> BOOLEAN]
    BY <1>9 DEF Release, TypeOK
  <2>2. QED
    BY <1>9, <2>1, PrivateCloseType DEF Release, TypeOK
<1>26. CASE Drop
  BY <1>26 DEF Drop, TypeOK
<1>10. ASSUME NEW t \in Receivers, ReceiveCheck(t) PROVE TypeOK'
  BY <1>10 DEF ReceiveCheck, TypeOK
<1>11. ASSUME NEW t \in Receivers, AcceptCall(t) PROVE TypeOK'
  BY <1>11, DropQueueType DEF AcceptCall, AcceptError, EndReceive, TypeOK
<1>12. ASSUME NEW t \in Receivers, AcceptReturn(t) PROVE TypeOK'
  BY <1>12 DEF AcceptReturn, TypeOK, Peers
<1>13. ASSUME NEW t \in Receivers, AcceptStore(t) PROVE TypeOK'
  BY <1>13 DEF AcceptStore, TypeOK
<1>14. ASSUME NEW t \in Receivers, AcceptFail(t) PROVE TypeOK'
  BY <1>14, DropQueueType DEF AcceptFail, AcceptError, EndReceive, TypeOK
<1>15. ASSUME NEW t \in Receivers, Receive(t) PROVE TypeOK'
  BY <1>15 DEF Receive, Outcomes, EndReceive, TypeOK
<1>16. CASE LoopCheck
  <2>1. CASE stop = "set"
    BY <1>16, <2>1 DEF LoopCheck, TypeOK
  <2>2. CASE stop # "set"
    BY <1>16, <2>2, BeginReceiveType DEF LoopCheck, TypeOK
  <2>3. QED
    BY <2>1, <2>2
<1>17. CASE LoopTask
  BY <1>17 DEF LoopTask, TypeOK
<1>18. ASSUME NEW h \in Handlers, DispatchRequest(h) PROVE TypeOK'
  BY <1>18 DEF DispatchRequest, TypeOK
<1>19. ASSUME NEW h \in Handlers, DispatchIgnore(h) PROVE TypeOK'
  BY <1>19 DEF DispatchIgnore, Returned, TypeOK
<1>20. ASSUME NEW h \in Handlers, DispatchRecover(h) PROVE TypeOK'
  BY <1>20, PrivateCloseType DEF DispatchRecover, TypeOK
<1>21. ASSUME NEW h \in Handlers, Reopen(h) PROVE TypeOK'
  BY <1>21, PrivateOpenType DEF Reopen, Returned, TypeOK
<1>22. ASSUME NEW h \in Handlers, Serve(h) PROVE TypeOK'
  BY <1>22 DEF Serve, Returned, TypeOK
<1>23. CASE PeerStep
  BY <1>23 DEF PeerStep, Connect, Disconnect, Replug, Send, TypeOK, Peers
<1>24. CASE UNCHANGED vars
  BY <1>24 DEF vars, TypeOK
<1>25. QED
  BY <1>1, <1>2, <1>3, <1>4, <1>5, <1>6, <1>7, <1>8, <1>9, <1>10, <1>11, <1>12,
     <1>13, <1>14, <1>15, <1>16, <1>17, <1>18, <1>19, <1>20, <1>21, <1>22, <1>23,
     <1>24, <1>26 DEF Next, CallStep, ReceiveStep, LoopStep, TaskStep

\* TypeOK holds in every reachable state: each thread is at a point of its own
\* code and the sockets, the promise and errno have the values the code gives them.
THEOREM TypeCorrect == Spec => []TypeOK
  BY InitType, StepType, PTL DEF Spec

-----------------------------------------------------------------------------
(* The inductive invariant.                                                 *)

\* A server that was just created satisfies the inductive invariant.
LEMMA InitInv == Init => IInv
  BY InitType DEF Init, IInv, WhoIsWhere, PromiseState, ClosedState, DestroyedState, ErrnoIsCurrent, Handling,
     isRunning, Receivers, Handlers

\* Every step keeps the three parts.
LEMMA StepInv == IInv /\ [Next]_vars => IInv'
<1> SUFFICES ASSUME TypeOK, TypeOK', WhoIsWhere, PromiseState, ClosedState, DestroyedState, ErrnoIsCurrent,
                    [Next]_vars
             PROVE  WhoIsWhere' /\ PromiseState' /\ ClosedState' /\ DestroyedState' /\ ErrnoIsCurrent'
  BY StepType DEF IInv
<1> USE DEF srvVars, netVars, rxVars, ctlVars, MayCall, Receivers, Handlers, Handling,
            isRunning, Tcp, WhoIsWhere, PromiseState, ClosedState, DestroyedState, ErrnoIsCurrent, TypeOK, AppPc, DaemonPc
<1>1. CASE Open
  BY <1>1 DEF Open, PrivateOpen
<1>2. CASE Poll
  BY <1>2 DEF Poll, BeginReceive
<1>3. CASE Run
  BY <1>3 DEF Run
<1>4. ASSUME NEW c \in Calls, TerminateShutdown(c)
      PROVE  WhoIsWhere' /\ PromiseState' /\ ClosedState' /\ DestroyedState' /\ ErrnoIsCurrent'
  BY <1>4 DEF TerminateShutdown, WakeAcceptors
<1>5. CASE PollTimeout
  BY <1>5 DEF PollTimeout, WaitErrno
<1>6. CASE PollGet
  BY <1>6 DEF PollGet, WaitErrno
<1>7. CASE TerminateSignal
  BY <1>7 DEF TerminateSignal, Terminated
<1>8. CASE TerminateJoin
  BY <1>8 DEF TerminateJoin, Terminated
<1>9. CASE Release
  <2>1. /\ pc["app"] = "release" /\ ~isRunning
        /\ isOpen' = FALSE
        /\ pc' = [pc EXCEPT !["app"] = IF ending = "destroy" THEN "drop" ELSE "idle"]
        /\ UNCHANGED <<setup, stop, ending, res, errno>>
    BY <1>9 DEF Release
  <2>2. CASE isOpen
    <3>1. /\ sock' = IF Tcp THEN "none" ELSE sock
          /\ link' = None
          /\ rpc' = [t \in Receivers |-> IF rpc[t] = "blocked" THEN "woken" ELSE rpc[t]]
          /\ stale' = [t \in Receivers |->
                         stale[t] \/ rpc[t] # "off" \/ (t = "daemon" /\ isRunning)]
      BY <1>9, <2>2 DEF Release, PrivateClose, WakeAcceptors
    <3>2. WhoIsWhere' /\ PromiseState' /\ DestroyedState' /\ ErrnoIsCurrent'
      BY <2>1, <3>1
    <3>3. rpc["daemon"] = "off" /\ ~stale["daemon"]
      BY <2>1
    <3>4. ~stale'["daemon"]
      BY <2>1, <3>1, <3>3
    <3>5. rpc'["task"] # "off" => stale'["task"]
      BY <3>1
    <3>6. sock' = "none"
      BY <3>1
    <3>7. QED
      BY <2>1, <3>1, <3>2, <3>4, <3>5, <3>6
  <2>3. CASE ~isOpen
    <3>1. UNCHANGED <<sock, link, rpc, stale>>
      BY <1>9, <2>3 DEF Release
    <3>2. QED
      BY <2>1, <2>3, <3>1
  <2>4. QED
    BY <2>2, <2>3
<1>26. CASE Drop
  BY <1>26 DEF Drop
<1>10. ASSUME NEW t \in Receivers, ReceiveCheck(t), ~aborted
      PROVE  WhoIsWhere' /\ PromiseState' /\ ClosedState' /\ DestroyedState' /\ ErrnoIsCurrent'
  BY <1>10 DEF ReceiveCheck
<1>11. ASSUME NEW t \in Receivers, AcceptCall(t), ~aborted
      PROVE  WhoIsWhere' /\ PromiseState' /\ ClosedState' /\ DestroyedState' /\ ErrnoIsCurrent'
  BY <1>11 DEF AcceptCall, AcceptError, EndReceive
<1>12. ASSUME NEW t \in Receivers, AcceptReturn(t), ~aborted
      PROVE  WhoIsWhere' /\ PromiseState' /\ ClosedState' /\ DestroyedState' /\ ErrnoIsCurrent'
  BY <1>12 DEF AcceptReturn
<1>13. ASSUME NEW t \in Receivers, AcceptStore(t), ~aborted
      PROVE  WhoIsWhere' /\ PromiseState' /\ ClosedState' /\ DestroyedState' /\ ErrnoIsCurrent'
  BY <1>13 DEF AcceptStore
<1>14. ASSUME NEW t \in Receivers, AcceptFail(t), ~aborted
      PROVE  WhoIsWhere' /\ PromiseState' /\ ClosedState' /\ DestroyedState' /\ ErrnoIsCurrent'
  BY <1>14 DEF AcceptFail, AcceptError, EndReceive
<1>15. ASSUME NEW t \in Receivers, Receive(t), ~aborted
      PROVE  WhoIsWhere' /\ PromiseState' /\ ClosedState' /\ DestroyedState' /\ ErrnoIsCurrent'
  BY <1>15 DEF Receive, Outcomes, EndReceive
<1>16. CASE LoopCheck
  BY <1>16 DEF LoopCheck, BeginReceive
<1>17. CASE LoopTask
  BY <1>17 DEF LoopTask
<1>18. ASSUME NEW h \in Handlers, DispatchRequest(h), ~aborted
      PROVE  WhoIsWhere' /\ PromiseState' /\ ClosedState' /\ DestroyedState' /\ ErrnoIsCurrent'
  BY <1>18 DEF DispatchRequest
<1>19. ASSUME NEW h \in Handlers, DispatchIgnore(h), ~aborted
      PROVE  WhoIsWhere' /\ PromiseState' /\ ClosedState' /\ DestroyedState' /\ ErrnoIsCurrent'
  BY <1>19 DEF DispatchIgnore, Returned
<1>20. ASSUME NEW h \in Handlers, DispatchRecover(h), ~aborted
      PROVE  WhoIsWhere' /\ PromiseState' /\ ClosedState' /\ DestroyedState' /\ ErrnoIsCurrent'
  BY <1>20 DEF DispatchRecover, PrivateClose, WakeAcceptors
<1>21. ASSUME NEW h \in Handlers, Reopen(h), ~aborted
      PROVE  WhoIsWhere' /\ PromiseState' /\ ClosedState' /\ DestroyedState' /\ ErrnoIsCurrent'
  BY <1>21 DEF Reopen, PrivateOpen, Returned
<1>22. ASSUME NEW h \in Handlers, Serve(h), ~aborted
      PROVE  WhoIsWhere' /\ PromiseState' /\ ClosedState' /\ DestroyedState' /\ ErrnoIsCurrent'
  BY <1>22 DEF Serve, Returned
<1>23. CASE PeerStep
  BY <1>23 DEF PeerStep, Connect, Disconnect, Replug, Send
<1>24. CASE UNCHANGED vars
  BY <1>24 DEF vars
<1>25. QED
  BY <1>1, <1>2, <1>3, <1>4, <1>5, <1>6, <1>7, <1>8, <1>9, <1>10, <1>11, <1>12, <1>13, <1>14, <1>15, <1>16, <1>17, <1>18, <1>19, <1>20, <1>21, <1>22, <1>23, <1>24, <1>26
     DEF Next, CallStep, ReceiveStep, LoopStep, TaskStep

\* The inductive invariant holds in every reachable state.
LEMMA Invariance == Spec => []IInv
  BY InitInv, StepInv, PTL DEF Spec

\* The Request object has one user: never two threads in receive(), never one in
\* receive() while another serves what was received, nor once the server is destroyed.
THEOREM ReqExclusiveCorrect == Spec => []ReqExclusive
<1>1. IInv => ReqExclusive
  BY OneService DEF IInv, TypeOK, WhoIsWhere, PromiseState, DestroyedState, ReqExclusive, Receiving, Handling,
     isRunning, Receivers, Handlers, DaemonPc
<1>2. QED
  BY <1>1, Invariance, PTL

\* terminate() never sets a promise that was set already.
THEOREM PromiseSetOnceCorrect == Spec => []PromiseSetOnce
<1>1. IInv => PromiseSetOnce
  BY DEF IInv, PromiseState, PromiseSetOnce
<1>2. QED
  BY <1>1, Invariance, PTL

\* After close() there is neither a daemon nor a listening socket, and a connection
\* only with a receive of poll() that the ending overtook.
THEOREM ClosedIsQuietCorrect == Spec => []ClosedIsQuiet
<1>1. IInv => ClosedIsQuiet
  BY DEF IInv, WhoIsWhere, ClosedState, ClosedIsQuiet, TypeOK
<1>2. QED
  BY <1>1, Invariance, PTL

\* The daemon closes and opens the link again, with recoveryLink, exactly when its last
\* receive() failed for another reason than a wrong CRC: on a link that is lost, and on one
\* that is well.
THEOREM DaemonRecoveryCorrect == Spec => DaemonRecovery
<1> DEFINE Decision ==
      pc["daemon"] = "dispatch" /\ pc'["daemon"] # "dispatch" =>
        (pc'["daemon"] = "reopen" <=>
           setup.recoveryLink /\ res["daemon"] \in {"failed", "reset"})
<1>1. IInv /\ [Next]_vars => [Decision]_vars
  <2> SUFFICES ASSUME TypeOK, ErrnoIsCurrent, Next,
                      pc["daemon"] = "dispatch", pc'["daemon"] # "dispatch"
               PROVE  pc'["daemon"] = "reopen" <=>
                        setup.recoveryLink /\ res["daemon"] \in {"failed", "reset"}
    BY DEF IInv
  <2>1. DispatchRequest("daemon") \/ DispatchIgnore("daemon") \/ DispatchRecover("daemon")
    <3> USE DEF srvVars, netVars, rxVars, ctlVars, Handlers, TypeOK, isRunning
    <3>1. ~(Open \/ Poll \/ Run \/ \E c \in Calls : TerminateShutdown(c))
      BY DEF Open, Poll, Run, TerminateShutdown
    <3>2. ~CallStep
      BY DEF CallStep, PollTimeout, PollGet, TerminateSignal, TerminateJoin, Release, Drop
    <3>3. ~\E t \in Receivers : ReceiveStep(t)
      BY DEF ReceiveStep, ReceiveCheck, AcceptCall, AcceptReturn, AcceptStore,
             AcceptFail, Receive
    <3>4. ~LoopStep
      BY DEF LoopStep, LoopCheck, LoopTask
    <3>5. ~PeerStep
      BY DEF PeerStep, Connect, Disconnect, Replug, Send
    <3>6. ~TaskStep("app")
      BY DEF TaskStep, DispatchRequest, DispatchIgnore, DispatchRecover, Reopen, Serve,
             Returned
    <3>7. TaskStep("daemon")
      BY <3>1, <3>2, <3>3, <3>4, <3>5, <3>6 DEF Next
    <3>8. QED
      BY <3>7 DEF TaskStep, Reopen, Serve
  <2>2. /\ res["daemon"] \in {"none", "request", "badcrc", "failed", "reset"}
        /\ pc \in [Handlers -> AppPc \cup DaemonPc]
    BY DEF TypeOK, Receivers
  <2>3. QED
    BY <2>1, <2>2 DEF DispatchRequest, DispatchIgnore, DispatchRecover, NeedsRecovery,
       Returned, RxOf, ErrnoIsCurrent, Handlers
<1>2. QED
  BY <1>1, Invariance, PTL DEF Spec, DaemonRecovery

\* A request that receive() read goes to task(), or ends with the server: no other step
\* takes it out of the future or out of the daemon's hands.
THEOREM RequestNotDroppedCorrect == Spec => RequestNotDropped
<1> DEFINE Kept(t) == rpc[t] = "done" => rpc'[t] = "done"
           Handed(h) ==
             rpc[RxOf(h)] = "done" =>
               \/ rpc'[RxOf(h)] = "done"
               \/ rpc'[RxOf(h)] = "off" /\ pc'[h] \in {"dispatch", "gone"}
<1>1. IInv /\ [Next]_vars => [\A h \in Handlers : Handed(h)]_vars
  <2> SUFFICES ASSUME TypeOK, WhoIsWhere, Next PROVE \A h \in Handlers : Handed(h)
    BY DEF IInv
  <2>1. /\ rpc \in [Receivers -> {"off", "check", "accept", "blocked", "woken", "got", "recv", "done"}]
        /\ DOMAIN pc = Handlers
    BY DEF TypeOK
  <2>2. ASSUME \A t \in Receivers : Kept(t) PROVE \A h \in Handlers : Handed(h)
    BY <2>2 DEF Handlers, Receivers, RxOf
  <2>3. CASE Open \/ Poll \/ Run \/ \E c \in Calls : TerminateShutdown(c)
    BY <2>1, <2>2, <2>3 DEF Open, Poll, Run, TerminateShutdown, BeginReceive, WakeAcceptors,
       rxVars, Receivers
  <2>4. CASE PollTimeout \/ TerminateSignal \/ TerminateJoin \/ Release
    BY <2>1, <2>2, <2>4 DEF PollTimeout, TerminateSignal, TerminateJoin, Release, PrivateClose,
       WakeAcceptors, rxVars, Receivers
  <2>5. CASE PollGet \/ Drop
    BY <2>1, <2>5 DEF PollGet, Drop, Handlers, Receivers, RxOf
  <2>6. ASSUME NEW t \in Receivers, ReceiveStep(t) PROVE \A h \in Handlers : Handed(h)
    BY <2>1, <2>2, <2>6 DEF ReceiveStep, ReceiveCheck, AcceptCall, AcceptReturn, AcceptStore,
       AcceptFail, Receive, AcceptError, EndReceive
  <2>7. CASE LoopStep /\ LoopCheck
    BY <2>1, <2>2, <2>7 DEF LoopCheck, BeginReceive, WhoIsWhere, rxVars, Receivers
  <2>8. CASE LoopStep /\ LoopTask
    BY <2>1, <2>8 DEF LoopTask, Handlers, Receivers, RxOf
  <2>9. ASSUME NEW h \in Handlers, TaskStep(h) PROVE \A k \in Handlers : Handed(k)
    BY <2>1, <2>2, <2>9 DEF TaskStep, DispatchRequest, DispatchIgnore, DispatchRecover, Reopen,
       Serve, PrivateClose, WakeAcceptors, rxVars, Receivers
  <2>10. CASE PeerStep
    BY <2>2, <2>10 DEF PeerStep, Connect, Disconnect, Replug, Send, rxVars
  <2> QED
    BY <2>3, <2>4, <2>5, <2>6, <2>7, <2>8, <2>9, <2>10 DEF Next, CallStep, LoopStep
<1> QED
  BY <1>1, Invariance, PTL DEF Spec, RequestNotDropped

-----------------------------------------------------------------------------
(* Liveness: what the fairness of the threads brings about. First more of   *)
(* what holds in every state.                                               *)

\* What a link is: it carries nothing when there is none, and only the threads that accept
\* or open it make it.
LinkState ==
  /\ wire # "none" => link # None
  /\ ~Tcp /\ (~isOpen \/ \E h \in Handlers : pc[h] = "reopen") => link = None
  /\ \A t \in Receivers : rpc[t] \in {"accept", "blocked", "woken", "got"} => Tcp
  /\ \A t \in Receivers : rpc[t] = "blocked" => sock = "listening"
  /\ rpc["daemon"] \in {"accept", "blocked", "woken", "got"} => link = None

\* What the daemon may count on where it is.
DaemonState ==
  /\ pc["daemon"] = "exit" => stop = "set"
  /\ pc["app"] = "join" => isRunning
  /\ pc["daemon"] = "recv" => rpc["daemon"] # "off"
  /\ rpc["daemon"] = "done" \/ pc["daemon"] = "dispatch" => res["daemon"] # "none"

\* Who opens the link again.
ReopenState ==
  /\ \A h \in Handlers : pc[h] = "reopen" => setup.recoveryLink
  /\ Terminating /\ ~(Tcp /\ setup.recoveryLink) => sock # "listening"

LInv == LinkState /\ DaemonState /\ ReopenState

\* They hold at first.
LEMMA InitLive == Init => LInv
BY ServerAssumption DEF Init, LInv, LinkState, DaemonState, ReopenState, Terminating, Receivers,
   Handlers, Tcp

\* And every step keeps them.
LEMMA StepLive == IInv /\ LInv /\ [Next]_vars => LInv'
<1> SUFFICES ASSUME TypeOK, TypeOK', WhoIsWhere, PromiseState, ClosedState, LinkState, DaemonState,
                    ReopenState, [Next]_vars
             PROVE  LInv'
  BY StepType DEF IInv, LInv
<1>0. /\ rpc["task"] # "off" => ~isRunning
      /\ \A h \in Handlers : pc[h] = "reopen" => isOpen /\ (h = "app" => ~isRunning)
      /\ None \notin Clients /\ Bus # None
  BY OneService, ServerAssumption DEF WhoIsWhere, TypeOK, Handlers, isRunning, Peers
<1> USE DEF srvVars, netVars, rxVars, ctlVars, MayCall, Receivers, Handlers, Handling,
            Terminating, isRunning, Tcp, WhoIsWhere, PromiseState, ClosedState, TypeOK, AppPc,
            DaemonPc, LInv, LinkState, DaemonState, ReopenState
<1>1. CASE Open
  BY <1>0, <1>1 DEF Open, PrivateOpen
<1>2. CASE Poll
  BY <1>0, <1>2 DEF Poll, BeginReceive
<1>3. CASE Run
  BY <1>0, <1>3 DEF Run
<1>4. ASSUME NEW c \in Calls, TerminateShutdown(c) PROVE LInv'
  BY <1>0, <1>4 DEF TerminateShutdown, WakeAcceptors
<1>5. CASE PollTimeout
  BY <1>0, <1>5 DEF PollTimeout, WaitErrno
<1>6. CASE PollGet
  BY <1>0, <1>6 DEF PollGet, WaitErrno
<1>7. CASE TerminateSignal
  BY <1>0, <1>7 DEF TerminateSignal, Terminated
<1>8. CASE TerminateJoin
  BY <1>0, <1>8 DEF TerminateJoin, Terminated
<1>9. CASE Release
  BY <1>0, <1>9 DEF Release, PrivateClose, WakeAcceptors
<1>10. CASE Drop
  BY <1>0, <1>10 DEF Drop
<1>11. ASSUME NEW t \in Receivers, ReceiveCheck(t) PROVE LInv'
  BY <1>0, <1>11 DEF ReceiveCheck, isConnected
<1>12. ASSUME NEW t \in Receivers, AcceptCall(t) PROVE LInv'
  BY <1>0, <1>12 DEF AcceptCall, AcceptError, EndReceive
<1>13. ASSUME NEW t \in Receivers, AcceptReturn(t) PROVE LInv'
  BY <1>0, <1>13 DEF AcceptReturn
<1>14. ASSUME NEW t \in Receivers, AcceptStore(t) PROVE LInv'
  BY <1>0, <1>14 DEF AcceptStore
<1>15. ASSUME NEW t \in Receivers, AcceptFail(t) PROVE LInv'
  BY <1>0, <1>15 DEF AcceptFail, AcceptError, EndReceive
<1>16. ASSUME NEW t \in Receivers, Receive(t) PROVE LInv'
  BY <1>0, <1>16 DEF Receive, Outcomes, EndReceive
<1>17. CASE LoopCheck
  BY <1>0, <1>17 DEF LoopCheck, BeginReceive
<1>18. CASE LoopTask
  BY <1>0, <1>18 DEF LoopTask
<1>19. ASSUME NEW h \in Handlers, DispatchRequest(h) PROVE LInv'
  BY <1>0, <1>19 DEF DispatchRequest
<1>20. ASSUME NEW h \in Handlers, DispatchIgnore(h) PROVE LInv'
  BY <1>0, <1>20 DEF DispatchIgnore, Returned
<1>21. ASSUME NEW h \in Handlers, DispatchRecover(h) PROVE LInv'
  BY <1>0, <1>21 DEF DispatchRecover, NeedsRecovery, PrivateClose, WakeAcceptors
<1>22. ASSUME NEW h \in Handlers, Reopen(h) PROVE LInv'
  BY <1>0, <1>22 DEF Reopen, PrivateOpen, Returned
<1>23. ASSUME NEW h \in Handlers, Serve(h) PROVE LInv'
  BY <1>0, <1>23 DEF Serve, Returned
<1>24. CASE PeerStep
  <2>1. UNCHANGED <<setup, srvVars, rxVars, ctlVars>>
    BY <1>24 DEF PeerStep, Connect, Disconnect, Replug, Send
  <2>2. wire' = wire \/ link # None
    BY <1>24, ServerAssumption DEF PeerStep, Connect, Disconnect, Replug, Send
  <2> QED BY <2>1, <2>2
<1>25. CASE UNCHANGED vars
  BY <1>0, <1>25 DEF vars
<1> QED
  BY <1>1, <1>2, <1>3, <1>4, <1>5, <1>6, <1>7, <1>8, <1>9, <1>10, <1>11, <1>12, <1>13, <1>14,
     <1>15, <1>16, <1>17, <1>18, <1>19, <1>20, <1>21, <1>22, <1>23, <1>24, <1>25 DEF Next,
     CallStep, ReceiveStep, LoopStep, TaskStep

\* All that holds in every state.
SInv == IInv /\ LInv

\* The larger invariant.
LEMMA LiveInvariance == Spec => []SInv
<1>1. Init => SInv
  BY InitInv, InitLive DEF SInv
<1>2. SInv /\ [Next]_vars => SInv'
  BY StepInv, StepLive DEF SInv
<1> QED BY <1>1, <1>2, PTL DEF Spec

-----------------------------------------------------------------------------
(* What each thread does next, and what the others leave as it is.          *)

\* What a step of another thread leaves as it is.
Unmoved ==
  /\ setup' = setup /\ (aborted => aborted')
  /\ pc["daemon"] \notin {"none", "exit"} /\ ~LoopStep /\ ~TaskStep("daemon")
       => pc'["daemon"] = pc["daemon"]
  /\ pc["daemon"] = "exit" /\ ~CallStep => pc'["daemon"] = "exit"
  /\ Terminating /\ ~CallStep => pc'["app"] = pc["app"]
  /\ \A t \in Receivers :
       rpc[t] \in {"check", "accept", "woken", "got", "recv"} /\ ~ReceiveStep(t) => rpc'[t] = rpc[t]
  /\ rpc["daemon"] = "done" /\ ~LoopStep => rpc'["daemon"] = "done"
  /\ rpc["daemon"] = "done" \/ pc["daemon"] = "dispatch" => res'["daemon"] = res["daemon"]
  /\ pc["app"] = "drop" /\ rpc["task"] \in {"off", "done"} /\ ~CallStep => rpc'["task"] = rpc["task"]
  /\ LinkDead /\ wire = "none" => wire' = "none"

\* A thread alone moves its own program counter, and nothing comes out of a lost link.
LEMMA OthersLeave == SInv /\ [Next]_vars => Unmoved
<1> SUFFICES ASSUME TypeOK, WhoIsWhere, PromiseState, DestroyedState, LinkState, DaemonState, [Next]_vars
             PROVE  Unmoved
  BY DEF IInv, LInv, SInv
<1>0. /\ rpc["task"] # "off" => ~isRunning
      /\ None \notin Clients /\ Bus # None
  BY OneService, ServerAssumption DEF WhoIsWhere, Peers
<1> USE DEF srvVars, netVars, rxVars, ctlVars, MayCall, Receivers, Handlers, Terminating,
            Handling, LinkDead, isRunning, Tcp, WhoIsWhere, PromiseState, TypeOK, AppPc,
            DaemonPc, DestroyedState, LinkState, DaemonState, Unmoved
<1>1. CASE Open
  BY <1>0, <1>1 DEF Open, PrivateOpen
<1>2. CASE Poll
  BY <1>0, <1>2 DEF Poll, BeginReceive
<1>3. CASE Run
  BY <1>0, <1>3 DEF Run
<1>4. ASSUME NEW c \in Calls, TerminateShutdown(c) PROVE Unmoved
  BY <1>0, <1>4 DEF TerminateShutdown, WakeAcceptors
<1>5. CASE CallStep
  BY <1>0, <1>5 DEF CallStep, PollTimeout, WaitErrno, PollGet, TerminateSignal, Terminated,
     TerminateJoin, Release, PrivateClose, WakeAcceptors, Drop
<1>6. ASSUME NEW t \in Receivers, ReceiveStep(t) PROVE Unmoved
  BY <1>0, <1>6 DEF ReceiveStep, ReceiveCheck, AcceptCall, AcceptError, EndReceive,
     AcceptReturn, AcceptStore, AcceptFail, Receive
<1>7. CASE LoopStep
  BY <1>0, <1>7 DEF LoopStep, LoopCheck, BeginReceive, LoopTask
<1>8. CASE TaskStep("app")
  BY <1>0, <1>8 DEF TaskStep, DispatchRequest, DispatchIgnore, DispatchRecover, PrivateClose,
     WakeAcceptors, Reopen, PrivateOpen, Serve, Returned
<1>9. CASE TaskStep("daemon")
  BY <1>0, <1>9 DEF TaskStep, DispatchRequest, DispatchIgnore, DispatchRecover, PrivateClose,
     WakeAcceptors, Reopen, PrivateOpen, Serve, Returned
<1>10. CASE PeerStep
  BY <1>0, <1>10 DEF PeerStep, Connect, Disconnect, Replug, Send
<1>11. CASE UNCHANGED vars
  BY <1>0, <1>11 DEF vars
<1> QED
  BY <1>1, <1>2, <1>3, <1>4, <1>5, <1>6, <1>7, <1>8, <1>9, <1>10, <1>11 DEF Next, Handlers

\* What the next step of receive() does.
LEMMA ReceiveAdvances ==
  ASSUME NEW t \in Receivers, SInv, ReceiveStep(t)
  PROVE  /\ rpc[t] = "check" => rpc'[t] = "recv" \/ (rpc'[t] = "accept" /\ link = None)
         /\ rpc[t] = "accept" /\ sock # "listening" => rpc'[t] = "done"
         /\ rpc[t] = "woken" => rpc'[t] = "done"
         /\ rpc[t] = "got" => rpc'[t] = "recv"
         /\ rpc[t] = "recv" => rpc'[t] = "done" /\ wire' = "none"
         /\ rpc[t] = "recv" /\ wire = "none" /\ ~Silent => res'[t] = "reset"
<1> USE DEF ReceiveStep, ReceiveCheck, AcceptCall, AcceptError, EndReceive, AcceptReturn,
            AcceptStore, AcceptFail, Receive, Outcomes, LinkDead, Silent, SInv, IInv, TypeOK,
            Receivers, isConnected
<1>1. DOMAIN rpc = Receivers /\ DOMAIN res = Receivers
  OBVIOUS
<1> QED BY <1>1

\* What the next step of the daemon does.
LEMMA LoopAdvances ==
  ASSUME SInv, LoopStep
  PROVE  /\ pc["daemon"] = "check" =>
              pc'["daemon"] = "exit" \/ (pc'["daemon"] = "recv" /\ rpc'["daemon"] = "check")
         /\ pc["daemon"] = "check" /\ stop = "set" => pc'["daemon"] = "exit"
         /\ pc["daemon"] = "recv" => pc'["daemon"] = "dispatch" /\ res' = res
BY DEF LoopStep, LoopCheck, BeginReceive, LoopTask, SInv, IInv, TypeOK, Receivers, Handlers,
   rxVars

\* What the next step of its task() does: a lost link is closed where it is to be recovered.
LEMMA TaskAdvances ==
  ASSUME SInv, TaskStep("daemon")
  PROVE  /\ pc["daemon"] = "dispatch" => pc'["daemon"] \in {"serve", "reopen", "check"}
         /\ pc["daemon"] \in {"serve", "reopen"} => pc'["daemon"] = "check"
         /\ pc["daemon"] = "dispatch" /\ res["daemon"] = "reset" /\ setup.recoveryLink => link' = None
<1> USE DEF TaskStep, DispatchRequest, DispatchIgnore, DispatchRecover, Reopen, Serve,
            Returned, RxOf, SInv, IInv, TypeOK, Handlers
<1>1. /\ pc["daemon"] = "dispatch" => pc'["daemon"] \in {"serve", "reopen", "check"}
      /\ pc["daemon"] \in {"serve", "reopen"} => pc'["daemon"] = "check"
  OBVIOUS
<1>2. ASSUME pc["daemon"] = "dispatch", res["daemon"] = "reset", setup.recoveryLink PROVE link' = None
  <2>1. NeedsRecovery("daemon")
    BY <1>2 DEF NeedsRecovery, ErrnoIsCurrent
  <2> QED BY <1>2, <2>1 DEF PrivateClose
<1> QED BY <1>1, <1>2

\* What the next step of a call does.
LEMMA CallAdvances ==
  ASSUME SInv, CallStep
  PROVE  /\ pc["app"] = "stop" => pc'["app"] \in {"join", "release", "idle"}
         /\ pc["app"] = "join" => pc'["app"] \in {"release", "idle"}
         /\ pc["app"] = "release" => pc'["app"] \in {"drop", "idle"}
         /\ pc["app"] = "drop" => pc'["app"] = "gone"
         /\ pc["daemon"] = "exit" /\ pc["app"] = "join" => pc'["daemon"] = "none"
BY DEF CallStep, PollTimeout, PollGet, TerminateSignal, Terminated, TerminateJoin, Release,
   Drop, SInv, IInv, TypeOK, Handlers

\* A peer that speaks does not leave the link as it was.
LEMMA PeerAdvances == SInv /\ PeerSpeaks => ~Silent'
<1> SUFFICES ASSUME SInv, NEW p \in Peers, link = p, Send(p) \/ Disconnect(p) PROVE ~Silent'
  BY DEF PeerSpeaks
<1> QED BY DEF Send, Disconnect, Silent, srvVars, SInv, IInv, TypeOK

\* During a shutdown nobody else gives a thread in modbus_receive a link that is silent.
LEMMA NotSilentAgain ==
  ASSUME SInv, [Next]_vars, sock # "listening",
         NEW t \in Receivers, rpc[t] = "recv", rpc'[t] = "recv", ~Silent,
         t = "daemon" \/ pc["app"] = "drop",
         t = "task" \/ pc["daemon"] = "recv"
  PROVE  ~Silent'
<1> SUFFICES ASSUME TypeOK, WhoIsWhere, PromiseState, DestroyedState, LinkState, DaemonState
             PROVE  ~Silent'
  BY DEF IInv, LInv, SInv
<1>0. /\ rpc["task"] # "off" => ~isRunning
      /\ isRunning => ~Handling("app")
      /\ None \notin Clients /\ Bus # None
  BY OneService, ServerAssumption DEF WhoIsWhere, Peers, Handling
<1> USE DEF srvVars, netVars, rxVars, ctlVars, MayCall, Receivers, Handlers, Terminating,
            Handling, LinkDead, isRunning, Tcp, WhoIsWhere, PromiseState, TypeOK, AppPc,
            DaemonPc, DestroyedState, LinkState, DaemonState, Silent
<1>1. CASE Open
  BY <1>0, <1>1 DEF Open, PrivateOpen
<1>2. CASE Poll
  BY <1>0, <1>2 DEF Poll, BeginReceive
<1>3. CASE Run
  BY <1>0, <1>3 DEF Run
<1>4. ASSUME NEW c \in Calls, TerminateShutdown(c) PROVE ~Silent'
  BY <1>0, <1>4 DEF TerminateShutdown, WakeAcceptors, DropQueue
<1>5. CASE CallStep
  BY <1>0, <1>5 DEF CallStep, PollTimeout, WaitErrno, PollGet, TerminateSignal, Terminated,
     TerminateJoin, Release, PrivateClose, WakeAcceptors, Drop
<1>6. ASSUME NEW x \in Receivers, ReceiveStep(x) PROVE ~Silent'
  BY <1>0, <1>6 DEF ReceiveStep, ReceiveCheck, AcceptCall, AcceptError, EndReceive,
     AcceptReturn, AcceptStore, AcceptFail, Receive
<1>7. CASE LoopStep
  BY <1>0, <1>7 DEF LoopStep, LoopCheck, BeginReceive, LoopTask
<1>8. CASE TaskStep("app")
  BY <1>0, <1>8 DEF TaskStep, DispatchRequest, DispatchIgnore, DispatchRecover, PrivateClose,
     WakeAcceptors, Reopen, PrivateOpen, Serve, Returned
<1>9. CASE TaskStep("daemon")
  BY <1>0, <1>9 DEF TaskStep, DispatchRequest, DispatchIgnore, DispatchRecover, PrivateClose,
     WakeAcceptors, Reopen, PrivateOpen, Serve, Returned
<1>10. CASE PeerStep
  BY <1>0, <1>10 DEF PeerStep, Connect, Disconnect, Replug, Send
<1>11. CASE UNCHANGED vars
  BY <1>0, <1>11 DEF vars
<1> QED
  BY <1>1, <1>2, <1>3, <1>4, <1>5, <1>6, <1>7, <1>8, <1>9, <1>10, <1>11 DEF Next, Handlers

-----------------------------------------------------------------------------
(* Where the daemon is.                                                     *)

Exiting == pc["daemon"] = "exit"
Looping == pc["daemon"] = "check"
Serving == pc["daemon"] \in {"serve", "reopen"}
Dispatching == pc["daemon"] = "dispatch"
Done == pc["daemon"] = "recv" /\ rpc["daemon"] = "done"
Reading == pc["daemon"] = "recv" /\ rpc["daemon"] = "recv"
Checking == pc["daemon"] = "recv" /\ rpc["daemon"] = "check"
\* In the shutdown only.
Accepting == pc["daemon"] = "recv" /\ rpc["daemon"] = "accept"
Woken == pc["daemon"] = "recv" /\ rpc["daemon"] = "woken"
Got == pc["daemon"] = "recv" /\ rpc["daemon"] = "got"

\* The daemon goes round: from each point to the next, whatever the other threads do.
LEMMA DaemonMoves ==
  ASSUME SInv, [Next]_vars
  PROVE  /\ Looping => Looping' \/ Checking' \/ Exiting'
         /\ Looping /\ stop = "set" => Looping' \/ Exiting'
         /\ Serving => Serving' \/ Looping'
         /\ Dispatching => Dispatching' \/ Serving' \/ Looping'
         /\ Done => Done' \/ Dispatching'
         /\ Reading =>
              \/ Reading'
              \/ Done' /\ wire' = "none" /\ (wire = "none" /\ ~Silent => res'["daemon"] = "reset")
         /\ Checking => Checking' \/ Reading' \/ (Accepting' /\ link = None)
         /\ Got => Got' \/ Reading'
         /\ Woken => Woken' \/ Done'
         /\ Accepting /\ sock # "listening" => Accepting' \/ Done'
<1> USE DEF Exiting, Looping, Serving, Dispatching, Done, Reading, Checking, Accepting, Woken,
            Got
<1>1. Unmoved /\ "daemon" \in Receivers
  BY OthersLeave DEF Receivers
<1>2. /\ pc["daemon"] \in {"check", "serve", "reopen", "dispatch", "recv"} /\ ~LoopStep /\ ~TaskStep("daemon")
           => pc'["daemon"] = pc["daemon"]
      /\ rpc["daemon"] \in {"check", "accept", "woken", "got", "recv"} /\ ~ReceiveStep("daemon")
           => rpc'["daemon"] = rpc["daemon"]
      /\ rpc["daemon"] = "done" /\ ~LoopStep => rpc'["daemon"] = "done"
  BY <1>1 DEF Unmoved
<1>3. /\ LoopStep => Looping \/ Done
      /\ TaskStep("daemon") => Serving \/ Dispatching
      /\ ReceiveStep("daemon") => rpc["daemon"] \in {"check", "accept", "blocked", "woken", "got", "recv"}
      /\ rpc["daemon"] # "off" => pc["daemon"] = "recv"
  BY DEF LoopStep, LoopCheck, LoopTask, TaskStep, DispatchRequest, DispatchIgnore,
     DispatchRecover, Reopen, Serve, ReceiveStep, ReceiveCheck, AcceptCall, AcceptReturn,
     AcceptStore, AcceptFail, Receive, SInv, IInv, WhoIsWhere
<1>4. CASE LoopStep
  BY <1>2, <1>3, <1>4, LoopAdvances
<1>5. CASE TaskStep("daemon")
  BY <1>2, <1>3, <1>5, TaskAdvances
<1>6. CASE ReceiveStep("daemon") /\ ~LoopStep /\ ~TaskStep("daemon")
  BY <1>1, <1>2, <1>3, <1>6, ReceiveAdvances
<1>7. CASE ~LoopStep /\ ~TaskStep("daemon") /\ ~ReceiveStep("daemon")
  BY <1>2, <1>7
<1> QED BY <1>4, <1>5, <1>6, <1>7

\* And its steps leave each point.
LEMMA DaemonLeaves ==
  ASSUME SInv, [Next]_vars
  PROVE  /\ Looping /\ LoopStep => ~Looping'
         /\ Done /\ LoopStep => ~Done'
         /\ Serving /\ TaskStep("daemon") => ~Serving'
         /\ Dispatching /\ TaskStep("daemon") => ~Dispatching'
         /\ Reading /\ ReceiveStep("daemon") => ~Reading'
         /\ Checking /\ ReceiveStep("daemon") => ~Checking'
         /\ Got /\ ReceiveStep("daemon") => ~Got'
         /\ Woken /\ ReceiveStep("daemon") => ~Woken'
         /\ Accepting /\ sock # "listening" /\ ReceiveStep("daemon") => ~Accepting'
<1> USE DEF Looping, Serving, Dispatching, Done, Reading, Checking, Accepting, Woken, Got
<1>1. /\ Looping /\ LoopStep => ~Looping'
      /\ Done /\ LoopStep => ~Done'
  BY LoopAdvances
<1>2. /\ Serving /\ TaskStep("daemon") => ~Serving'
      /\ Dispatching /\ TaskStep("daemon") => ~Dispatching'
  BY TaskAdvances
<1>3. ASSUME ReceiveStep("daemon")
      PROVE  /\ Reading \/ Woken => rpc'["daemon"] = "done"
             /\ Checking => rpc'["daemon"] \in {"recv", "accept"}
             /\ Got => rpc'["daemon"] = "recv"
             /\ Accepting /\ sock # "listening" => rpc'["daemon"] = "done"
  <2>1. "daemon" \in Receivers
    BY DEF Receivers
  <2> QED BY <1>3, <2>1, ReceiveAdvances
<1> QED BY <1>1, <1>2, <1>3

\* A step of the daemon is possible where it is.
LEMMA DaemonReady ==
  ~aborted /\ StepsEnabled =>
    /\ Looping \/ Done => ENABLED <<LoopStep>>_vars
    /\ Serving \/ Dispatching => ENABLED <<TaskStep("daemon")>>_vars
    /\ Checking \/ Got \/ Woken \/ Accepting \/ (Reading /\ ~Silent)
         => ENABLED <<ReceiveStep("daemon")>>_vars
    /\ Exiting /\ pc["app"] = "join" => ENABLED <<CallStep>>_vars
    /\ Silent => ENABLED <<PeerSpeaks>>_vars
<1>1. /\ Looping \/ Done => LoopReady
      /\ Serving \/ Dispatching => Handling("daemon")
      /\ Checking \/ Got \/ Woken \/ Accepting \/ (Reading /\ ~Silent) => ReceiveReady("daemon")
      /\ Exiting /\ pc["app"] = "join" => CallReady
  BY DEF Exiting, Looping, Serving, Dispatching, Done, Reading, Checking, Accepting, Woken, Got,
     LoopReady, Handling, ReceiveReady, CallReady
<1> QED BY <1>1, PTL DEF StepsEnabled

-----------------------------------------------------------------------------
(* A frame that waits is read.                                              *)

Unread == wire # "none" /\ isRunning /\ ~aborted

\* The points of a daemon with a frame to read.
LEMMA UnreadPlaces ==
  SInv /\ Unread =>
    /\ Exiting \/ Looping \/ Serving \/ Dispatching \/ Done \/ Reading \/ Checking
    /\ ~aborted /\ link # None /\ ~Silent
    /\ Exiting => pc["app"] = "join"
<1> SUFFICES ASSUME SInv, Unread
             PROVE  /\ Exiting \/ Looping \/ Serving \/ Dispatching \/ Done \/ Reading \/ Checking
                    /\ ~aborted /\ link # None /\ ~Silent
                    /\ Exiting => pc["app"] = "join"
  OBVIOUS
<1>1. ~aborted /\ link # None /\ ~Silent /\ isRunning
  BY DEF Unread, SInv, LInv, LinkState, Silent
<1>2. Exiting => pc["app"] = "join"
  BY <1>1 DEF Exiting, SInv, IInv, LInv, PromiseState, DaemonState
<1>3. /\ pc["daemon"] \in DaemonPc
      /\ rpc["daemon"] \in {"off", "check", "accept", "blocked", "woken", "got", "recv", "done"}
      /\ pc["daemon"] = "recv" => rpc["daemon"] \notin {"off", "accept", "blocked", "woken", "got"}
  BY <1>1 DEF SInv, IInv, LInv, TypeOK, LinkState, DaemonState, Receivers
<1> QED
  BY <1>1, <1>2, <1>3
     DEF Exiting, Looping, Serving, Dispatching, Done, Reading, Checking, DaemonPc, isRunning

\* A frame that waits is read by a running server, or the server stops.
LEMMA WireRead == LiveSpec /\ []StepsEnabled => (Unread ~> ~Unread)
<1>1. SInv /\ SInv' /\ [Next]_vars /\ Unread /\ Unread' =>
        /\ Exiting => Exiting'
        /\ Reading => Reading'
        /\ Checking => Checking' \/ Reading'
        /\ Looping => Looping' \/ Checking' \/ Exiting'
        /\ Serving => Serving' \/ Looping'
        /\ Dispatching => Dispatching' \/ Serving' \/ Looping'
        /\ Done => Done' \/ Dispatching'
  <2> SUFFICES ASSUME SInv, SInv', [Next]_vars, Unread, Unread'
               PROVE  /\ Exiting => Exiting'
                      /\ Reading => Reading'
                      /\ Checking => Checking' \/ Reading'
    BY DaemonMoves
  <2>1. wire' # "none" /\ pc'["daemon"] # "none" /\ link # None
    BY UnreadPlaces DEF Unread, isRunning
  <2>2. Exiting => Exiting'
    <3>1. Exiting /\ CallStep => pc'["daemon"] = "none"
      BY UnreadPlaces, CallAdvances DEF Exiting
    <3> QED BY <2>1, <3>1, OthersLeave DEF Unmoved, Exiting
  <2> QED BY <2>1, <2>2, DaemonMoves
<1>2. SInv /\ [Next]_vars /\ Unread =>
        /\ Exiting /\ <<CallStep>>_vars => ~Exiting'
        /\ Reading /\ <<ReceiveStep("daemon")>>_vars => ~Reading'
        /\ Checking /\ <<ReceiveStep("daemon")>>_vars => ~Checking'
        /\ Looping /\ <<LoopStep>>_vars => ~Looping'
        /\ Serving /\ <<TaskStep("daemon")>>_vars => ~Serving'
        /\ Dispatching /\ <<TaskStep("daemon")>>_vars => ~Dispatching'
        /\ Done /\ <<LoopStep>>_vars => ~Done'
  <2>1. SInv /\ Unread /\ Exiting /\ CallStep => pc'["daemon"] = "none"
    BY UnreadPlaces, CallAdvances DEF Exiting
  <2> QED BY <2>1, DaemonLeaves DEF Exiting
<1> QED
  BY <1>1, <1>2, UnreadPlaces, DaemonReady, LiveInvariance, PTL DEF LiveSpec, Spec, Fairness

\* A request that has reached a running server is read by its daemon, or the server is stopped
\* or aborts: loop() (src/src/server.cpp) comes back to receive() from wherever it is.
THEOREM RequestReadCorrect == LiveSpec /\ []StepsEnabled => RequestRead
<1>1. (wire = "good" /\ isRunning => Unread \/ aborted) /\ (~Unread => wire = "none" \/ ~isRunning \/ aborted)
  BY DEF Unread
<1> QED
  BY <1>1, WireRead, PTL DEF RequestRead

-----------------------------------------------------------------------------
(* A lost link is left.                                                     *)

Dead == isRunning /\ setup.recoveryLink /\ LinkDead /\ ~aborted
\* Nothing is left to read from it.
Drained == Dead /\ wire = "none"
\* The loss was seen.
DoneReset == Done /\ res["daemon"] = "reset"
DispatchingReset == Dispatching /\ res["daemon"] = "reset"

\* The points of a daemon on a link that is lost.
LEMMA DrainedPlaces ==
  SInv /\ Drained =>
    /\ Exiting \/ Looping \/ Serving \/ Dispatching \/ Done \/ Reading \/ Checking
    /\ ~aborted /\ link # None /\ ~Silent
    /\ Exiting => pc["app"] = "join"
<1> SUFFICES ASSUME SInv, Drained
             PROVE  /\ Exiting \/ Looping \/ Serving \/ Dispatching \/ Done \/ Reading \/ Checking
                    /\ ~aborted /\ link # None /\ ~Silent
                    /\ Exiting => pc["app"] = "join"
  OBVIOUS
<1>1. ~aborted /\ link # None /\ ~Silent /\ isRunning
  BY DEF Drained, Dead, LinkDead, Silent
<1>2. Exiting => pc["app"] = "join"
  BY <1>1 DEF Exiting, SInv, IInv, LInv, PromiseState, DaemonState
<1>3. /\ pc["daemon"] \in DaemonPc
      /\ rpc["daemon"] \in {"off", "check", "accept", "blocked", "woken", "got", "recv", "done"}
      /\ pc["daemon"] = "recv" => rpc["daemon"] \notin {"off", "accept", "blocked", "woken", "got"}
  BY <1>1 DEF SInv, IInv, LInv, TypeOK, LinkState, DaemonState, Receivers
<1> QED
  BY <1>1, <1>2, <1>3
     DEF Exiting, Looping, Serving, Dispatching, Done, Reading, Checking, DaemonPc, isRunning

\* With recoveryLink the daemon closes a lost link, unless it is stopped.
LEMMA DrainedLeft == LiveSpec /\ []StepsEnabled => (Drained ~> ~Dead)
<1>1. SInv /\ [Next]_vars /\ Drained /\ Dead' =>
        /\ Drained'
        /\ Exiting => Exiting'
        /\ DispatchingReset => DispatchingReset'
        /\ DoneReset => DoneReset' \/ DispatchingReset'
        /\ Reading => Reading' \/ DoneReset'
        /\ Checking => Checking' \/ Reading'
        /\ Looping => Looping' \/ Checking' \/ Exiting'
        /\ Serving => Serving' \/ Looping'
        /\ Dispatching => Dispatching' \/ Serving' \/ Looping'
        /\ Done => Done' \/ Dispatching'
  <2> SUFFICES ASSUME SInv, [Next]_vars, Drained, Dead'
               PROVE  /\ Drained'
                      /\ Exiting => Exiting'
                      /\ DispatchingReset => DispatchingReset'
                      /\ DoneReset => DoneReset' \/ DispatchingReset'
                      /\ Reading => Reading' \/ DoneReset'
                      /\ Checking => Checking' \/ Reading'
    BY DaemonMoves
  <2>1. /\ pc'["daemon"] # "none" /\ link' # None /\ link # None /\ ~Silent
        /\ wire = "none" /\ setup.recoveryLink /\ LinkDead
    BY DrainedPlaces DEF Drained, Dead, isRunning, LinkDead
  <2>2. Unmoved
    BY OthersLeave
  <2>3. Drained'
    BY <2>1, <2>2 DEF Unmoved, Drained
  <2>4. Exiting => Exiting'
    <3>1. Exiting /\ CallStep => pc'["daemon"] = "none"
      BY DrainedPlaces, CallAdvances DEF Exiting
    <3> QED BY <2>1, <2>2, <3>1 DEF Unmoved, Exiting
  <2>5. Done \/ Dispatching => res'["daemon"] = res["daemon"]
    BY <2>2 DEF Unmoved, Done, Dispatching
  <2>6. DispatchingReset => DispatchingReset'
    <3>1. DispatchingReset => ~TaskStep("daemon")
      BY <2>1, TaskAdvances DEF DispatchingReset, Dispatching
    <3>2. Dispatching => ~LoopStep
      BY DEF Dispatching, LoopStep, LoopCheck, LoopTask
    <3>3. DispatchingReset => Dispatching'
      BY <2>2, <3>1, <3>2 DEF Unmoved, DispatchingReset, Dispatching
    <3> QED BY <2>5, <3>3 DEF DispatchingReset
  <2>7. DoneReset => DoneReset' \/ DispatchingReset'
    BY <2>5, DaemonMoves DEF DoneReset, DispatchingReset
  <2>8. Reading => Reading' \/ DoneReset'
    BY <2>1, DaemonMoves DEF DoneReset
  <2> QED BY <2>1, <2>3, <2>4, <2>6, <2>7, <2>8, DaemonMoves
<1>2. SInv /\ [Next]_vars /\ Drained =>
        /\ Exiting /\ <<CallStep>>_vars => ~Exiting'
        /\ DispatchingReset /\ <<TaskStep("daemon")>>_vars => ~DispatchingReset'
        /\ DoneReset /\ <<LoopStep>>_vars => ~DoneReset'
        /\ Reading /\ <<ReceiveStep("daemon")>>_vars => ~Reading'
        /\ Checking /\ <<ReceiveStep("daemon")>>_vars => ~Checking'
        /\ Looping /\ <<LoopStep>>_vars => ~Looping'
        /\ Serving /\ <<TaskStep("daemon")>>_vars => ~Serving'
        /\ Dispatching /\ <<TaskStep("daemon")>>_vars => ~Dispatching'
        /\ Done /\ <<LoopStep>>_vars => ~Done'
  <2>1. SInv /\ Drained /\ Exiting /\ CallStep => pc'["daemon"] = "none"
    BY DrainedPlaces, CallAdvances DEF Exiting
  <2> QED BY <2>1, DaemonLeaves DEF Exiting, DispatchingReset, DoneReset
<1>3. /\ DoneReset => Done
      /\ DispatchingReset => Dispatching
      /\ Drained => Dead
  BY DEF DoneReset, DispatchingReset, Drained
<1> QED
  BY <1>1, <1>2, <1>3, DrainedPlaces, DaemonReady, LiveInvariance, PTL
     DEF LiveSpec, Spec, Fairness

\* With recoveryLink a running server does not stay on a link that is lost: the daemon reads what
\* is left, sees the loss, and task() closes the link, or the server is stopped or aborts.
THEOREM LinkRecoveredCorrect == LiveSpec /\ []StepsEnabled => LinkRecovered
<1>1. /\ isRunning /\ setup.recoveryLink /\ LinkDead => Dead \/ aborted
      /\ Dead => Unread \/ Drained
      /\ Dead /\ ~Unread => Drained
  BY DEF Dead, Drained, Unread
<1>2. Unmoved => setup' = setup
  BY DEF Unmoved
<1>3. setup.recoveryLink /\ setup' = setup => (setup.recoveryLink)'
  OBVIOUS
<1>4. ~Dead /\ setup.recoveryLink => ~LinkDead \/ ~isRunning \/ aborted
  BY DEF Dead
<1> QED
  BY <1>1, <1>2, <1>3, <1>4, OthersLeave, WireRead, DrainedLeft, LiveInvariance, PTL
     DEF LiveSpec, Spec, LinkRecovered

-----------------------------------------------------------------------------
(* A shutdown ends.                                                         *)

Ending == Terminating /\ ~(Tcp /\ setup.recoveryLink) /\ ~aborted
Stopping == Ending /\ pc["app"] = "stop"
Joining == Ending /\ pc["app"] = "join"
Releasing == Ending /\ pc["app"] = "release"
Dropping == Ending /\ pc["app"] = "drop"

ReadingSilent == Reading /\ Silent
ReadingLoud == Reading /\ ~Silent

\* A shutdown goes from one of its points to the next.
LEMMA EndingMoves ==
  /\ SInv /\ Ending => /\ Stopping \/ Joining \/ Releasing \/ Dropping
                       /\ sock # "listening" /\ ~aborted
  /\ SInv /\ [Next]_vars /\ Ending' =>
       /\ Joining => Joining' \/ Releasing'
       /\ Stopping => Stopping' \/ Joining' \/ Releasing'
       /\ Stopping /\ CallStep => ~Stopping'
       /\ Releasing => Releasing' \/ Dropping'
       /\ Releasing /\ CallStep => ~Releasing'
       /\ Dropping => Dropping'
       /\ Dropping /\ CallStep => FALSE
<1>1. SInv /\ Ending => /\ Stopping \/ Joining \/ Releasing \/ Dropping
                        /\ sock # "listening" /\ ~aborted
  BY DEF Ending, Terminating, Stopping, Joining, Releasing, Dropping, SInv, LInv, ReopenState
<1>2. ASSUME SInv, [Next]_vars, Ending'
      PROVE  /\ Joining => Joining' \/ Releasing'
             /\ Stopping => Stopping' \/ Joining' \/ Releasing'
             /\ Stopping /\ CallStep => ~Stopping'
             /\ Releasing => Releasing' \/ Dropping'
             /\ Releasing /\ CallStep => ~Releasing'
             /\ Dropping => Dropping'
             /\ Dropping /\ CallStep => FALSE
  <2>1. pc'["app"] \in {"stop", "join", "release", "drop"}
    BY <1>2 DEF Ending, Terminating
  <2>2. Ending /\ ~CallStep => pc'["app"] = pc["app"]
    BY <1>2, OthersLeave DEF Unmoved, Ending
  <2>3. CASE CallStep
    BY <1>2, <2>1, <2>3, CallAdvances DEF Stopping, Joining, Releasing, Dropping
  <2>4. CASE ~CallStep
    BY <1>2, <2>2, <2>4 DEF Stopping, Joining, Releasing, Dropping
  <2> QED BY <2>3, <2>4
<1> QED BY <1>1, <1>2

\* The points of a daemon that is waited for.
LEMMA JoiningPlaces ==
  SInv /\ Joining =>
    /\ \/ Exiting \/ Looping \/ Serving \/ Dispatching \/ Done
       \/ ReadingSilent \/ ReadingLoud \/ Got \/ Woken \/ Accepting \/ Checking
    /\ ~aborted /\ sock # "listening" /\ stop = "set" /\ pc["app"] = "join"
<1> SUFFICES ASSUME SInv, Joining
             PROVE  /\ \/ Exiting \/ Looping \/ Serving \/ Dispatching \/ Done
                       \/ ReadingSilent \/ ReadingLoud \/ Got \/ Woken \/ Accepting \/ Checking
                    /\ ~aborted /\ sock # "listening" /\ stop = "set" /\ pc["app"] = "join"
  OBVIOUS
<1>1. ~aborted /\ sock # "listening" /\ stop = "set" /\ pc["app"] = "join" /\ isRunning
  BY EndingMoves DEF Joining, SInv, IInv, LInv, PromiseState, DaemonState
<1>2. /\ pc["daemon"] \in DaemonPc
      /\ rpc["daemon"] \in {"off", "check", "accept", "blocked", "woken", "got", "recv", "done"}
      /\ pc["daemon"] = "recv" => rpc["daemon"] \notin {"off", "blocked"}
  BY <1>1 DEF SInv, IInv, LInv, TypeOK, LinkState, DaemonState, Receivers
<1> QED
  BY <1>1, <1>2 DEF Exiting, Looping, Serving, Dispatching, Done, Reading, ReadingSilent,
     ReadingLoud, Checking, Got, Woken, Accepting, DaemonPc, isRunning

\* A daemon that is waited for comes nearer to its end, or stays where it is.
LEMMA JoiningMoves ==
  SInv /\ SInv' /\ [Next]_vars /\ Joining /\ Joining' =>
    /\ Exiting => Exiting'
    /\ Looping => Looping' \/ Exiting'
    /\ Serving => Serving' \/ Looping'
    /\ Dispatching => Dispatching' \/ Serving' \/ Looping'
    /\ Done => Done' \/ Dispatching'
    /\ ReadingLoud => ReadingLoud' \/ Done'
    /\ ReadingSilent => ReadingSilent' \/ ReadingLoud' \/ Done'
    /\ Got => Got' \/ ReadingSilent' \/ ReadingLoud'
    /\ Woken => Woken' \/ Done'
    /\ Accepting => Accepting' \/ Done'
    /\ Checking => Checking' \/ ReadingSilent' \/ ReadingLoud' \/ Accepting'
<1> SUFFICES ASSUME SInv, SInv', [Next]_vars, Joining, Joining'
             PROVE  /\ Exiting => Exiting'
                    /\ Looping => Looping' \/ Exiting'
                    /\ ReadingLoud => ReadingLoud' \/ Done'
                    /\ ReadingSilent => ReadingSilent' \/ ReadingLoud' \/ Done'
                    /\ Got => Got' \/ ReadingSilent' \/ ReadingLoud'
                    /\ Accepting => Accepting' \/ Done'
                    /\ Checking => Checking' \/ ReadingSilent' \/ ReadingLoud' \/ Accepting'
  BY DaemonMoves
<1>1. /\ sock # "listening" /\ stop = "set" /\ pc["app"] = "join"
      /\ pc'["app"] = "join" /\ "daemon" \in Receivers
  BY JoiningPlaces DEF Joining, Receivers
<1>2. Exiting => Exiting'
  <2>1. ~CallStep
    BY <1>1, CallAdvances
  <2> QED BY <2>1, OthersLeave DEF Unmoved, Exiting
<1>3. ReadingLoud => ReadingLoud' \/ Done'
  <2>1. ReadingLoud /\ Reading' => ~Silent'
    BY <1>1, NotSilentAgain DEF ReadingLoud, Reading
  <2> QED BY <2>1, DaemonMoves DEF ReadingLoud
<1>4. Reading' => ReadingSilent' \/ ReadingLoud'
  BY DEF ReadingSilent, ReadingLoud
<1>5. ReadingSilent => Reading
  BY DEF ReadingSilent
<1> QED BY <1>1, <1>2, <1>3, <1>4, <1>5, DaemonMoves

\* And its own steps, or those of a peer, take it from there.
LEMMA JoiningLeaves ==
  SInv /\ [Next]_vars /\ Joining =>
    /\ Exiting /\ <<CallStep>>_vars => ~Exiting'
    /\ Looping /\ <<LoopStep>>_vars => ~Looping'
    /\ Serving /\ <<TaskStep("daemon")>>_vars => ~Serving'
    /\ Dispatching /\ <<TaskStep("daemon")>>_vars => ~Dispatching'
    /\ Done /\ <<LoopStep>>_vars => ~Done'
    /\ ReadingLoud /\ <<ReceiveStep("daemon")>>_vars => ~ReadingLoud'
    /\ ReadingSilent /\ <<PeerSpeaks>>_vars => ~ReadingSilent'
    /\ Got /\ <<ReceiveStep("daemon")>>_vars => ~Got'
    /\ Woken /\ <<ReceiveStep("daemon")>>_vars => ~Woken'
    /\ Accepting /\ <<ReceiveStep("daemon")>>_vars => ~Accepting'
    /\ Checking /\ <<ReceiveStep("daemon")>>_vars => ~Checking'
<1>1. SInv /\ Joining /\ Exiting /\ CallStep => pc'["daemon"] = "none"
  BY JoiningPlaces, CallAdvances DEF Exiting
<1>2. SInv /\ Joining => sock # "listening"
  BY JoiningPlaces
<1> QED BY <1>1, <1>2, DaemonLeaves, PeerAdvances DEF Exiting, ReadingLoud, ReadingSilent

\* It has left receive().
Back == Done \/ Dispatching \/ Serving \/ Looping \/ Exiting

\* A receive() that is pending ends.
LEMMA JoiningReceives == TalkativeSpec /\ []StepsEnabled => (Joining ~> ~Joining \/ Back)
<1>1. SInv /\ SInv' /\ [Next]_vars /\ Joining /\ Joining' =>
        /\ ReadingLoud => ReadingLoud' \/ Back'
        /\ ReadingSilent => ReadingSilent' \/ ReadingLoud' \/ Back'
        /\ Got => Got' \/ ReadingSilent' \/ ReadingLoud'
        /\ Woken => Woken' \/ Back'
        /\ Accepting => Accepting' \/ Back'
        /\ Checking => Checking' \/ ReadingSilent' \/ ReadingLoud' \/ Accepting'
  BY JoiningMoves DEF Back
<1>2. SInv /\ [Next]_vars /\ Joining =>
        /\ ReadingLoud /\ <<ReceiveStep("daemon")>>_vars => ~ReadingLoud'
        /\ ReadingSilent /\ <<PeerSpeaks>>_vars => ~ReadingSilent'
        /\ Got /\ <<ReceiveStep("daemon")>>_vars => ~Got'
        /\ Woken /\ <<ReceiveStep("daemon")>>_vars => ~Woken'
        /\ Accepting /\ <<ReceiveStep("daemon")>>_vars => ~Accepting'
        /\ Checking /\ <<ReceiveStep("daemon")>>_vars => ~Checking'
  BY JoiningLeaves
<1>3. SInv /\ Joining =>
        /\ Back \/ ReadingSilent \/ ReadingLoud \/ Got \/ Woken \/ Accepting \/ Checking
        /\ ~aborted
  BY JoiningPlaces DEF Back
<1>4. ~aborted /\ StepsEnabled =>
        /\ Checking \/ Got \/ Woken \/ Accepting \/ ReadingLoud => ENABLED <<ReceiveStep("daemon")>>_vars
        /\ ReadingSilent => ENABLED <<PeerSpeaks>>_vars
  <2>1. (ReadingLoud => Reading /\ ~Silent) /\ (ReadingSilent => Silent)
    BY DEF ReadingLoud, ReadingSilent
  <2> QED BY <2>1, DaemonReady, PTL
<1> QED
  BY <1>1, <1>2, <1>3, <1>4, LiveInvariance, PTL DEF TalkativeSpec, LiveSpec, Spec, Fairness

\* A daemon that has left receive() leaves its loop.
LEMMA JoiningReturns == TalkativeSpec /\ []StepsEnabled => (Joining /\ Back ~> ~Joining)
<1>1. SInv /\ SInv' /\ [Next]_vars /\ Joining /\ Joining' =>
        /\ Exiting => Exiting'
        /\ Looping => Looping' \/ Exiting'
        /\ Serving => Serving' \/ Looping'
        /\ Dispatching => Dispatching' \/ Serving' \/ Looping'
        /\ Done => Done' \/ Dispatching'
  BY JoiningMoves
<1>2. SInv /\ [Next]_vars /\ Joining =>
        /\ Exiting /\ <<CallStep>>_vars => ~Exiting'
        /\ Looping /\ <<LoopStep>>_vars => ~Looping'
        /\ Serving /\ <<TaskStep("daemon")>>_vars => ~Serving'
        /\ Dispatching /\ <<TaskStep("daemon")>>_vars => ~Dispatching'
        /\ Done /\ <<LoopStep>>_vars => ~Done'
  BY JoiningLeaves
<1>3. SInv /\ Joining => ~aborted /\ pc["app"] = "join"
  BY JoiningPlaces
<1>4. Back <=> Done \/ Dispatching \/ Serving \/ Looping \/ Exiting
  BY DEF Back
<1> QED
  BY <1>1, <1>2, <1>3, <1>4, DaemonReady, LiveInvariance, PTL
     DEF TalkativeSpec, LiveSpec, Spec, Fairness

\* The daemon is joined.
LEMMA Joined == TalkativeSpec /\ []StepsEnabled => (Joining ~> ~Joining)
BY JoiningReceives, JoiningReturns, PTL

-----------------------------------------------------------------------------
(* The destructor waits for the task of poll() as well.                     *)

\* Where the task of poll() is that the destructor waits for.
TaskOut == rpc["task"] \in {"off", "done"}
TaskLoud == rpc["task"] = "recv" /\ ~Silent
TaskSilent == rpc["task"] = "recv" /\ Silent
TaskGot == rpc["task"] = "got"
TaskWoken == rpc["task"] = "woken"
TaskAccepting == rpc["task"] = "accept"
TaskChecking == rpc["task"] = "check"

\* The points of a task that is waited for.
LEMMA DroppingPlaces ==
  SInv /\ Dropping =>
    /\ TaskOut \/ TaskLoud \/ TaskSilent \/ TaskGot \/ TaskWoken \/ TaskAccepting \/ TaskChecking
    /\ ~aborted /\ sock # "listening" /\ pc["app"] = "drop"
<1> SUFFICES ASSUME SInv, Dropping
             PROVE  /\ TaskOut \/ TaskLoud \/ TaskSilent \/ TaskGot \/ TaskWoken \/ TaskAccepting
                         \/ TaskChecking
                    /\ ~aborted /\ sock # "listening" /\ pc["app"] = "drop"
  OBVIOUS
<1>1. ~aborted /\ sock # "listening" /\ pc["app"] = "drop"
  BY EndingMoves DEF Dropping
<1>2. rpc["task"] \in {"off", "check", "accept", "woken", "got", "recv", "done"}
  BY <1>1 DEF SInv, IInv, LInv, TypeOK, LinkState, Receivers
<1> QED
  BY <1>1, <1>2
     DEF TaskOut, TaskLoud, TaskSilent, TaskGot, TaskWoken, TaskAccepting, TaskChecking

\* It comes nearer to its end, or stays where it is, and its own steps, or those of a
\* peer, take it from there.
LEMMA DroppingMoves ==
  SInv /\ [Next]_vars /\ Dropping /\ Dropping' =>
    /\ TaskOut => TaskOut'
    /\ TaskLoud => TaskLoud' \/ TaskOut'
    /\ TaskSilent => TaskSilent' \/ TaskLoud' \/ TaskOut'
    /\ TaskGot => TaskGot' \/ TaskSilent' \/ TaskLoud'
    /\ TaskWoken => TaskWoken' \/ TaskOut'
    /\ TaskAccepting => TaskAccepting' \/ TaskOut'
    /\ TaskChecking => TaskChecking' \/ TaskSilent' \/ TaskLoud' \/ TaskAccepting'
<1> SUFFICES ASSUME SInv, [Next]_vars, Dropping, Dropping'
             PROVE  /\ TaskOut => TaskOut'
                    /\ TaskLoud => TaskLoud' \/ TaskOut'
                    /\ TaskSilent => TaskSilent' \/ TaskLoud' \/ TaskOut'
                    /\ TaskGot => TaskGot' \/ TaskSilent' \/ TaskLoud'
                    /\ TaskWoken => TaskWoken' \/ TaskOut'
                    /\ TaskAccepting => TaskAccepting' \/ TaskOut'
                    /\ TaskChecking => TaskChecking' \/ TaskSilent' \/ TaskLoud' \/ TaskAccepting'
  OBVIOUS
<1> USE DEF TaskOut, TaskLoud, TaskSilent, TaskGot, TaskWoken, TaskAccepting, TaskChecking
<1>1. /\ sock # "listening" /\ pc["app"] = "drop" /\ pc'["app"] = "drop"
      /\ "task" \in Receivers /\ ~CallStep
  BY DroppingPlaces, CallAdvances DEF Dropping, Receivers
<1>2. /\ rpc["task"] \in {"check", "accept", "woken", "got", "recv"} /\ ~ReceiveStep("task")
           => rpc'["task"] = rpc["task"]
      /\ TaskOut => rpc'["task"] = rpc["task"]
  BY <1>1, OthersLeave DEF Unmoved
<1>3. /\ rpc["task"] = "check" => rpc'["task"] \in {"check", "recv", "accept"}
      /\ rpc["task"] \in {"accept", "woken"} => rpc'["task"] \in {rpc["task"], "done"}
      /\ rpc["task"] = "got" => rpc'["task"] \in {"got", "recv"}
      /\ rpc["task"] = "recv" => rpc'["task"] \in {"recv", "done"}
  BY <1>1, <1>2, ReceiveAdvances
<1>4. TaskLoud /\ rpc'["task"] = "recv" => ~Silent'
  BY <1>1, NotSilentAgain
<1> QED BY <1>2, <1>3, <1>4

\* And its own steps, or those of a peer, take it from there.
LEMMA DroppingLeaves ==
  SInv /\ [Next]_vars /\ Dropping =>
    /\ TaskOut /\ <<CallStep>>_vars => ~Dropping'
    /\ TaskLoud /\ <<ReceiveStep("task")>>_vars => ~TaskLoud'
    /\ TaskSilent /\ <<PeerSpeaks>>_vars => ~TaskSilent'
    /\ TaskGot /\ <<ReceiveStep("task")>>_vars => ~TaskGot'
    /\ TaskWoken /\ <<ReceiveStep("task")>>_vars => ~TaskWoken'
    /\ TaskAccepting /\ <<ReceiveStep("task")>>_vars => ~TaskAccepting'
    /\ TaskChecking /\ <<ReceiveStep("task")>>_vars => ~TaskChecking'
<1> USE DEF TaskOut, TaskLoud, TaskSilent, TaskGot, TaskWoken, TaskAccepting, TaskChecking
<1>1. "task" \in Receivers
  BY DEF Receivers
<1>2. SInv /\ Dropping => sock # "listening"
  BY DroppingPlaces
<1>3. SInv /\ Dropping /\ CallStep => ~Dropping'
  BY CallAdvances DEF Dropping
<1> QED BY <1>1, <1>2, <1>3, ReceiveAdvances, PeerAdvances

\* The task ends, and so does the destructor.
LEMMA Dropped == TalkativeSpec /\ []StepsEnabled => (Dropping ~> ~Dropping)
<1>1. ~aborted /\ StepsEnabled =>
        /\ TaskOut /\ pc["app"] = "drop" => ENABLED <<CallStep>>_vars
        /\ TaskLoud \/ TaskGot \/ TaskWoken \/ TaskAccepting \/ TaskChecking
             => ENABLED <<ReceiveStep("task")>>_vars
        /\ TaskSilent => ENABLED <<PeerSpeaks>>_vars
  <2>1. /\ TaskOut /\ pc["app"] = "drop" => CallReady
        /\ TaskLoud \/ TaskGot \/ TaskWoken \/ TaskAccepting \/ TaskChecking => ReceiveReady("task")
        /\ TaskSilent => Silent
    BY DEF TaskOut, TaskLoud, TaskSilent, TaskGot, TaskWoken, TaskAccepting, TaskChecking,
       CallReady, ReceiveReady
  <2> QED BY <2>1, PTL DEF StepsEnabled
<1> QED
  BY <1>1, DroppingPlaces, DroppingMoves, DroppingLeaves, LiveInvariance, PTL
     DEF TalkativeSpec, LiveSpec, Spec, Fairness

\* terminate(), close() and the destructor return, if peers that are connected go on speaking,
\* except over TCP with recoveryLink, where task() may open the link that was shut down again:
\* the daemon leaves receive(), then loop(), and the task of poll() ends.
THEOREM TerminateReturnsCorrect == TalkativeSpec /\ []StepsEnabled => TerminateReturns
<1>1. ~aborted /\ StepsEnabled => (Stopping \/ Releasing => ENABLED <<CallStep>>_vars)
  <2>1. Stopping \/ Releasing => CallReady
    BY DEF Stopping, Releasing, CallReady
  <2> QED BY <2>1, PTL DEF StepsEnabled
<1>2. SInv /\ [Next]_vars /\ Ending' =>
        /\ Joining => Joining' \/ Releasing'
        /\ Stopping => Stopping' \/ Joining' \/ Releasing'
        /\ Stopping /\ <<CallStep>>_vars => ~Stopping'
        /\ Releasing => Releasing' \/ Dropping'
        /\ Releasing /\ <<CallStep>>_vars => ~Releasing'
        /\ Dropping => Dropping'
  BY EndingMoves
<1>3. SInv /\ Ending => (Stopping \/ Joining \/ Releasing \/ Dropping) /\ ~aborted
  BY EndingMoves
<1>4. /\ Stopping => Ending
      /\ Joining => Ending
      /\ Releasing => Ending
      /\ Dropping => Ending
  BY DEF Stopping, Joining, Releasing, Dropping
<1>5. TalkativeSpec /\ []StepsEnabled => (Ending ~> ~Ending)
  BY <1>1, <1>2, <1>3, <1>4, Joined, Dropped, LiveInvariance, PTL
     DEF TalkativeSpec, LiveSpec, Spec, Fairness
<1> DEFINE Bounded == ~(Tcp /\ setup.recoveryLink)
<1>6. SInv /\ [Next]_vars /\ Bounded => Bounded'
  BY OthersLeave DEF Unmoved, Tcp
<1>7. /\ Terminating /\ Bounded => Ending \/ aborted
      /\ Bounded /\ ~Ending => ~Terminating \/ aborted
      /\ Terminating /\ ~(Tcp /\ setup.recoveryLink) => Terminating /\ Bounded
  BY DEF Ending
<1> HIDE DEF Bounded
<1>8. TalkativeSpec /\ []StepsEnabled => (Terminating /\ Bounded ~> ~Terminating \/ aborted)
  BY <1>5, <1>6, <1>7, LiveInvariance, PTL DEF TalkativeSpec, LiveSpec, Spec
<1> QED
  BY <1>7, <1>8, PTL DEF TerminateReturns
=============================================================================
