------------------------------- MODULE Server -------------------------------
(***************************************************************************)
(* Life cycle of Modbus::Server (src/src/server.cpp): the application      *)
(* thread that calls open, poll, run, terminate and close and destroys it, *)
(* the task that poll starts, the daemon thread that run starts, the two   *)
(* sockets they share (the listening one, sock, and the one of the libmodbus*)
(* context, link), and the peers at the other end.                         *)
(*                                                                         *)
(* The contents of a request and what a slave does with it are left to     *)
(* module Gateway: here a request is only read, served once and forgotten. *)
(***************************************************************************)
EXTENDS Naturals, FiniteSets

CONSTANTS Clients,   \* TCP clients
          Bus,       \* the serial line of the Rtu backend
          None,      \* the descriptor -1
          Setups     \* the ways of using the server that are considered

Peers == Clients \cup {Bus}
Nets == {"Tcp", "Rtu"}
\* The calls an application may make again and again once it has a server;
\* open() is always allowed.
Calls == {"poll", "run", "terminate", "close", "destroy"}
\* timed: Device::setIndicationTimeout gave receive() a time to wait for a request.
Setup == [net : Nets, recoveryLink : BOOLEAN, timed : BOOLEAN, calls : SUBSET Calls]

ASSUME ServerAssumption ==
  /\ Bus \notin Clients
  /\ None \notin Peers
  /\ Setups \subseteq Setup

\* Calling run() while a receive started by poll() is pending puts two threads
\* on the same Request object, a data race: an application polls or runs.
ASSUME OneService ==
  \A s \in Setups : ~({"poll", "run"} \subseteq s.calls)

VARIABLES
  setup,    \* the chosen setup, constant in a behaviour
  isOpen,   \* Device::Private::isOpen
  sock,     \* Server::Private::sock: "none" (-1), "listening", "shut" (after shutdown())
  link,     \* socket of the libmodbus context: None (-1) or the peer it was connected to
  conn,     \* of each peer: "off", "waiting" (in the queue of the listening socket;
            \* a serial line that is plugged in and not open), "up" (connected)
  wire,     \* frame waiting on link: "none", "good", "bad" (wrong CRC), "torn" (cut short
            \* or too long)
  rpc,      \* where receive() is, for the poll task and for the daemon
  peer,     \* the peer whose accept() returned but is not stored in link yet
  res,      \* last result of receive(): its value and the cause of a -1
  stale,    \* history: the server was closed since this receive() began
  pc,       \* where the application thread and the daemon are
  ending,   \* what terminate() was called by: the application, close() or ~Server()
  stop,     \* the promise stopDaemon: "fresh", "taken" (get_future), "set"
  errno,    \* errno of the threads that call task(): only EMBBADCRC is told apart
  ret,      \* how the last call of the application ended
  aborted   \* an exception left the daemon: std::terminate

srvVars == <<isOpen, sock, link>>
netVars == <<conn, wire>>
rxVars  == <<rpc, peer, res, stale>>
ctlVars == <<pc, ending, stop, errno, ret, aborted>>
vars == <<setup, srvVars, netVars, rxVars, ctlVars>>

Receivers == {"task", "daemon"}       \* threads that execute receive()
Handlers  == {"app", "daemon"}        \* threads that execute task()
RxOf(h) == IF h = "app" THEN "task" ELSE "daemon"

Tcp == setup.net = "Tcp"
MayCall(c) == pc["app"] = "idle" /\ ~aborted /\ c \in setup.calls

isRunning == pc["daemon"] # "none"
AppPc == {"idle", "wait", "stop", "join", "release", "drop", "gone",
          "dispatch", "reopen", "serve"}
DaemonPc == {"none", "check", "recv", "exit", "dispatch", "reopen", "serve"}

Receiving(t) == rpc[t] \in {"check", "accept", "blocked", "woken", "got", "recv"}
Handling(h) == pc[h] \in {"dispatch", "reopen", "serve"}
\* Device::Private::isConnected
isConnected == link # None
LinkDead == link # None /\ conn[link] # "up"

TypeOK ==
  /\ setup \in Setup
  /\ isOpen \in BOOLEAN
  /\ sock \in {"none", "listening", "shut"}
  /\ link \in Peers \cup {None}
  /\ conn \in [Peers -> {"off", "waiting", "up"}]
  /\ wire \in {"none", "good", "bad", "torn"}
  /\ rpc \in [Receivers ->
       {"off", "check", "accept", "blocked", "woken", "got", "recv", "done"}]
  /\ peer \in [Receivers -> Peers \cup {None}]
  /\ res \in [Receivers -> {"none", "request", "badcrc", "failed", "reset"}]
  /\ stale \in [Receivers -> BOOLEAN]
  /\ pc \in [Handlers -> AppPc \cup DaemonPc]
  /\ pc["app"] \in AppPc /\ pc["daemon"] \in DaemonPc
  /\ ending \in {"terminate", "close", "destroy"}
  /\ stop \in {"fresh", "taken", "set"}
  /\ errno \in [Handlers -> {"badcrc", "other"}]
  /\ ret \in {"ok", "future_error", "runtime_error"}
  /\ aborted \in BOOLEAN

Init ==
  /\ setup \in Setups
  /\ isOpen = FALSE
  /\ sock = "none"
  /\ link = None
  /\ conn = [p \in Peers |-> IF p = Bus THEN "waiting" ELSE "off"]
  /\ wire = "none"
  /\ rpc = [t \in Receivers |-> "off"]
  /\ peer = [t \in Receivers |-> None]
  /\ res = [t \in Receivers |-> "none"]
  /\ stale = [t \in Receivers |-> FALSE]
  /\ pc = [h \in Handlers |-> IF h = "app" THEN "idle" ELSE "none"]
  /\ ending = "terminate"
  /\ stop = "fresh"
  /\ errno = [h \in Handlers |-> "other"]
  /\ ret = "ok"
  /\ aborted = FALSE

-----------------------------------------------------------------------------
(* The link: what open() and close() of Server::Private do to the sockets.  *)

\* Server::Private::open: listens (a port may be refused), or opens the tty
\* (which must be plugged in).
PrivateOpen(ok) ==
  \/ /\ Tcp
     /\ sock' = IF ok THEN "listening" ELSE "none"
     /\ UNCHANGED <<link, conn>>
  \/ /\ ~Tcp
     /\ ok = (conn[Bus] = "waiting")
     /\ link' = IF ok THEN Bus ELSE None
     /\ conn' = IF ok THEN [conn EXCEPT ![Bus] = "up"] ELSE conn
     /\ UNCHANGED sock

\* A thread blocked in accept() leaves it once its socket is shut or closed.
WakeAcceptors ==
  rpc' = [t \in Receivers |-> IF rpc[t] = "blocked" THEN "woken" ELSE rpc[t]]

\* The clients that wait on a listening socket when it is shut or closed.
DropQueue == [p \in Peers |-> IF Tcp /\ conn[p] = "waiting" THEN "off" ELSE conn[p]]

\* Mutant: the connection of the context is left as it is.
PrivateClose_ListenerOnly ==
  /\ sock' = IF Tcp THEN "none" ELSE sock
  /\ wire' = "none"
  /\ WakeAcceptors
  /\ UNCHANGED <<link, conn>>

\* Server::Private::close: drops the listening socket with the clients that
\* wait on it, then the connection. A connection that accept() has returned
\* and that is not stored in the context yet survives.
PrivateClose ==
  /\ sock' = IF Tcp THEN "none" ELSE sock
  /\ link' = None
  /\ wire' = "none"
  /\ conn' = [p \in Peers |->
                CASE p = Bus -> IF conn[p] = "off" THEN "off" ELSE "waiting"
                  [] \E t \in Receivers : rpc[t] = "got" /\ peer[t] = p -> conn[p]
                  [] OTHER -> "off"]
  /\ WakeAcceptors

-----------------------------------------------------------------------------
(* Application thread.                                                      *)

\* Device::open
Open ==
  /\ pc["app"] = "idle" /\ ~aborted
  /\ ~isOpen
  /\ \E ok \in BOOLEAN : PrivateOpen(ok) /\ isOpen' = ok
  /\ ret' = "ok"
  /\ UNCHANGED <<setup, wire, rxVars, pc, ending, stop, errno, aborted>>

\* A fresh call of receive() by thread t.
BeginReceive(t) ==
  /\ rpc' = [rpc EXCEPT ![t] = "check"]
  /\ stale' = [stale EXCEPT ![t] = FALSE]
  /\ UNCHANGED <<peer, res>>

\* Mutant: receiveTask.valid() is not tested.
Poll_AlwaysStarts ==
  /\ MayCall("poll")
  /\ ~isRunning /\ isOpen
  /\ BeginReceive("task")
  /\ pc' = [pc EXCEPT !["app"] = "wait"]
  /\ ret' = "ok"
  /\ UNCHANGED <<setup, srvVars, netVars, ending, stop, errno, aborted>>

\* Server::poll: starts the asynchronous receive unless one is pending, then
\* waits for it.
Poll ==
  /\ MayCall("poll")
  /\ ~isRunning /\ isOpen
  /\ IF rpc["task"] = "off" THEN BeginReceive("task") ELSE UNCHANGED rxVars
  /\ pc' = [pc EXCEPT !["app"] = "wait"]
  /\ ret' = "ok"
  /\ UNCHANGED <<setup, srvVars, netVars, ending, stop, errno, aborted>>

\* The system calls of wait_for() may overwrite errno, or leave it.
WaitErrno == \E e \in {errno["app"], "other"} : errno' = [errno EXCEPT !["app"] = e]

\* wait_for() times out: the task is left pending.
PollTimeout ==
  /\ pc["app"] = "wait" /\ ~aborted
  /\ rpc["task"] # "done"
  /\ pc' = [pc EXCEPT !["app"] = "idle"]
  /\ WaitErrno
  /\ UNCHANGED <<setup, srvVars, netVars, rxVars, ending, stop, ret, aborted>>

\* wait_for() is ready: get() empties the future, task() begins.
PollGet ==
  /\ pc["app"] = "wait" /\ ~aborted
  /\ rpc["task"] = "done"
  /\ rpc' = [rpc EXCEPT !["task"] = "off"]
  /\ pc' = [pc EXCEPT !["app"] = "dispatch"]
  /\ WaitErrno
  /\ UNCHANGED <<setup, srvVars, netVars, peer, res, stale,
                 ending, stop, ret, aborted>>

\* Mutant: the daemon starts without a future of its own.
Run_NoFuture ==
  /\ MayCall("run")
  /\ ~isRunning /\ isOpen
  /\ stop' = IF stop = "fresh" THEN "taken" ELSE stop
  /\ pc' = [pc EXCEPT !["daemon"] = "check"]
  /\ ret' = "ok"
  /\ UNCHANGED <<setup, srvVars, netVars, rxVars, ending, errno, aborted>>

\* Server::run: get_future() throws when the promise was already used.
Run ==
  /\ MayCall("run")
  /\ ~isRunning /\ isOpen
  /\ IF stop = "fresh"
     THEN /\ stop' = "taken"
          /\ pc' = [pc EXCEPT !["daemon"] = "check"]
          /\ ret' = "ok"
     ELSE /\ ret' = "future_error"
          /\ UNCHANGED <<stop, pc>>
  /\ UNCHANGED <<setup, srvVars, netVars, rxVars, ending, errno, aborted>>

\* Mutant: the listening socket is not shut down.
TerminateShutdown_Deaf(c) ==
  /\ MayCall(c)
  /\ c \in {"terminate", "close", "destroy"}
  /\ c = "close" => isOpen
  /\ ending' = c
  /\ pc' = [pc EXCEPT !["app"] = "stop"]
  /\ ret' = "ok"
  /\ UNCHANGED <<setup, srvVars, netVars, rxVars, stop, errno, aborted>>

\* Server::terminate, called by the application, close() or ~Server(): shuts the
\* listening socket down. Nothing wakes a thread that reads the connection.
TerminateShutdown(c) ==
  /\ MayCall(c)
  /\ c \in {"terminate", "close", "destroy"}
  /\ c = "close" => isOpen
  /\ ending' = c
  /\ IF sock # "none"
     THEN sock' = "shut" /\ WakeAcceptors
     ELSE UNCHANGED <<sock, rpc>>
  /\ conn' = DropQueue
  /\ pc' = [pc EXCEPT !["app"] = "stop"]
  /\ ret' = "ok"
  /\ UNCHANGED <<setup, isOpen, link, wire, peer, res, stale, stop, errno, aborted>>

\* Where the application goes once the daemon is out of the way.
Terminated == IF ending = "terminate" THEN "idle" ELSE "release"

\* Mutant: the daemon is told to stop, and not joined.
TerminateSignal_NoJoin ==
  /\ pc["app"] = "stop" /\ ~aborted
  /\ stop' = IF isRunning THEN "set" ELSE stop
  /\ pc' = [pc EXCEPT !["app"] = Terminated]
  /\ UNCHANGED <<setup, srvVars, netVars, rxVars, ending, errno, ret, aborted>>

\* stopDaemon.set_value()
TerminateSignal ==
  /\ pc["app"] = "stop" /\ ~aborted
  /\ IF isRunning
     THEN stop' = "set" /\ pc' = [pc EXCEPT !["app"] = "join"]
     ELSE pc' = [pc EXCEPT !["app"] = Terminated] /\ UNCHANGED stop
  /\ UNCHANGED <<setup, srvVars, netVars, rxVars, ending, errno, ret, aborted>>

\* daemon.join()
TerminateJoin ==
  /\ pc["app"] = "join" /\ ~aborted
  /\ pc["daemon"] = "exit"
  /\ pc' = [pc EXCEPT !["app"] = Terminated, !["daemon"] = "none"]
  /\ UNCHANGED <<setup, srvVars, netVars, rxVars, ending, stop, errno, ret, aborted>>

\* Device::close, the end of Server::close and, of a server that is open, of ~Device().
\* A pending receive is not waited for.
Release ==
  /\ pc["app"] = "release" /\ ~aborted
  /\ IF isOpen
     THEN /\ PrivateClose
          /\ stale' = [t \in Receivers |->
                         stale[t] \/ rpc[t] # "off" \/ (t = "daemon" /\ isRunning)]
     ELSE UNCHANGED <<sock, link, wire, conn, rpc, stale>>
  /\ isOpen' = FALSE
  /\ pc' = [pc EXCEPT !["app"] = IF ending = "destroy" THEN "drop" ELSE "idle"]
  /\ UNCHANGED <<setup, peer, res, ending, stop, errno, ret, aborted>>

\* Mutant: the future is let go, and its thread goes on.
Drop_Detached ==
  /\ pc["app"] = "drop" /\ ~aborted
  /\ pc' = [pc EXCEPT !["app"] = "gone"]
  /\ UNCHANGED <<setup, srvVars, netVars, rxVars, ending, stop, errno, ret, aborted>>

\* Server::Private::~Private: receiveTask is the future of std::async, whose destructor
\* waits for the receive; req, which it fills, is declared before it and goes after it.
Drop ==
  /\ pc["app"] = "drop" /\ ~aborted
  /\ rpc["task"] \in {"off", "done"}
  /\ rpc' = [rpc EXCEPT !["task"] = "off"]
  /\ pc' = [pc EXCEPT !["app"] = "gone"]
  /\ UNCHANGED <<setup, srvVars, netVars, peer, res, stale, ending, stop, errno, ret, aborted>>

-----------------------------------------------------------------------------
(* Server::Private::receive, executed by the poll task or by the daemon.    *)

\* The result of receive(), and the errno it leaves: the task is a thread of
\* its own, so what it leaves in errno is not what task() will read.
EndReceive(t, r) ==
  /\ rpc' = [rpc EXCEPT ![t] = "done"]
  /\ res' = [res EXCEPT ![t] = r]
  /\ errno' = IF t = "daemon" /\ r # "request"
              THEN [errno EXCEPT !["daemon"] = IF r = "badcrc" THEN r ELSE "other"]
              ELSE errno

\* Mutant: a connected server accepts as well.
ReceiveCheck_AlwaysAccept(t) ==
  /\ rpc[t] = "check"
  /\ rpc' = [rpc EXCEPT ![t] = IF Tcp THEN "accept" ELSE "recv"]
  /\ UNCHANGED <<setup, srvVars, netVars, peer, res, stale, ctlVars>>

\* !isConnected() on Tcp: accept first.
ReceiveCheck(t) ==
  /\ rpc[t] = "check"
  /\ rpc' = [rpc EXCEPT ![t] = IF Tcp /\ ~isConnected THEN "accept" ELSE "recv"]
  /\ UNCHANGED <<setup, srvVars, netVars, peer, res, stale, ctlVars>>

\* modbus_tcp_pi_accept(ctx(), &sock) fails. libmodbus 3.1.6 then closes what sock
\* is by now and sets it to -1; later versions leave it.
AcceptError(t) ==
  /\ EndReceive(t, "reset")
  /\ \/ UNCHANGED <<sock, conn>>
     \/ sock' = "none" /\ conn' = DropQueue

\* modbus_tcp_pi_accept is called: it blocks, or fails at once when the
\* socket is shut or closed.
AcceptCall(t) ==
  /\ rpc[t] = "accept"
  /\ IF sock = "listening"
     THEN rpc' = [rpc EXCEPT ![t] = "blocked"] /\ UNCHANGED <<sock, conn, res, errno>>
     ELSE AcceptError(t)
  /\ UNCHANGED <<setup, isOpen, link, wire, peer, stale,
                 pc, ending, stop, ret, aborted>>

\* The kernel hands a queued connection over ...
AcceptReturn(t) ==
  /\ rpc[t] = "blocked"
  /\ \E c \in Clients :
       /\ conn[c] = "waiting"
       /\ conn' = [conn EXCEPT ![c] = "up"]
       /\ peer' = [peer EXCEPT ![t] = c]
  /\ rpc' = [rpc EXCEPT ![t] = "got"]
  /\ UNCHANGED <<setup, srvVars, wire, res, stale, ctlVars>>

\* ... and only then is it stored in the context.
AcceptStore(t) ==
  /\ rpc[t] = "got"
  /\ link' = peer[t]
  /\ wire' = "none"
  /\ peer' = [peer EXCEPT ![t] = None]
  /\ rpc' = [rpc EXCEPT ![t] = "recv"]
  /\ UNCHANGED <<setup, isOpen, sock, conn, res, stale, ctlVars>>

\* accept() fails because its socket was shut or closed.
AcceptFail(t) ==
  /\ rpc[t] = "woken"
  /\ AcceptError(t)
  /\ UNCHANGED <<setup, isOpen, link, wire, peer, stale, pc, ending, stop, ret, aborted>>

\* What modbus_receive returns, if it returns: a request; -1 with EMBBADCRC; -1 with
\* ETIMEDOUT or EMBBADDATA, for a frame that stops short or does not end, or because the
\* indication timeout is over, on a link that is well; -1 because the link is lost or closed.
Outcomes ==
  (CASE wire = "good" -> {"request"}
     [] wire = "bad" -> {"badcrc"}
     [] wire = "torn" -> {"failed"}
     [] wire = "none" /\ link # None /\ ~LinkDead /\ setup.timed -> {"failed"}
     [] OTHER -> {})
  \cup (IF wire \in {"none", "torn"} /\ (link = None \/ LinkDead) THEN {"reset"} ELSE {})

\* modbus_receive returns. Otherwise it blocks.
Receive(t) ==
  /\ rpc[t] = "recv"
  /\ \E r \in Outcomes : EndReceive(t, r)
  /\ wire' = "none"
  /\ UNCHANGED <<setup, srvVars, conn, peer, stale, pc, ending, stop, ret, aborted>>

-----------------------------------------------------------------------------
(* Server::Private::loop: the daemon.                                       *)

\* run.wait_for(100 ms): leave when the promise is set, else receive again.
LoopCheck ==
  /\ pc["daemon"] = "check"
  /\ IF stop = "set"
     THEN pc' = [pc EXCEPT !["daemon"] = "exit"] /\ UNCHANGED rxVars
     ELSE pc' = [pc EXCEPT !["daemon"] = "recv"] /\ BeginReceive("daemon")
  /\ UNCHANGED <<setup, srvVars, netVars, ending, stop, errno, ret, aborted>>

LoopTask ==
  /\ pc["daemon"] = "recv"
  /\ rpc["daemon"] = "done"
  /\ rpc' = [rpc EXCEPT !["daemon"] = "off"]
  /\ pc' = [pc EXCEPT !["daemon"] = "dispatch"]
  /\ UNCHANGED <<setup, srvVars, netVars, peer, res, stale,
                 ending, stop, errno, ret, aborted>>

-----------------------------------------------------------------------------
(* Server::Private::task, executed by the application (poll) or the daemon. *)

\* Mutant: the daemon ends with its first task().
Returned_ToCaller(h) == "idle"

\* Where thread h goes when task() returns.
Returned(h) == IF h = "app" THEN "idle" ELSE "check"

\* A request goes to its slave.
DispatchRequest(h) ==
  /\ pc[h] = "dispatch"
  /\ res[RxOf(h)] = "request"
  /\ pc' = [pc EXCEPT ![h] = "serve"]
  /\ UNCHANGED <<setup, srvVars, netVars, rxVars, ending, stop, errno, ret, aborted>>

\* Mutant: every error is a lost link.
NeedsRecovery_AnyError(h) == setup.recoveryLink

\* rc == -1 && errno != EMBBADCRC, errno being that of the thread of task().
NeedsRecovery(h) == setup.recoveryLink /\ errno[h] # "badcrc"

\* Mutant: task() knows what to do with a wrong CRC only.
DispatchIgnore_CrcOnly(h) ==
  /\ pc[h] = "dispatch"
  /\ res[RxOf(h)] = "badcrc"
  /\ ~NeedsRecovery(h)
  /\ pc' = [pc EXCEPT ![h] = Returned(h)]
  /\ UNCHANGED <<setup, srvVars, netVars, rxVars, ending, stop, errno, ret, aborted>>

\* A failed receive is forgotten ...
DispatchIgnore(h) ==
  /\ pc[h] = "dispatch"
  /\ res[RxOf(h)] \in {"badcrc", "failed", "reset"}
  /\ ~NeedsRecovery(h)
  /\ pc' = [pc EXCEPT ![h] = Returned(h)]
  /\ UNCHANGED <<setup, srvVars, netVars, rxVars, ending, stop, errno, ret, aborted>>

\* ... or the link is closed, then opened again.
DispatchRecover(h) ==
  /\ pc[h] = "dispatch"
  /\ res[RxOf(h)] \in {"badcrc", "failed", "reset"}
  /\ NeedsRecovery(h)
  /\ PrivateClose
  /\ pc' = [pc EXCEPT ![h] = "reopen"]
  /\ UNCHANGED <<setup, isOpen, peer, res, stale, ending, stop, errno, ret, aborted>>

\* open() again, or throw: poll's caller gets the exception, the daemon's
\* ends the process.
Reopen(h) ==
  /\ pc[h] = "reopen"
  /\ \E ok \in BOOLEAN :
       /\ PrivateOpen(ok)
       /\ errno' = IF ok THEN [errno EXCEPT ![h] = "other"] ELSE errno
       /\ ret' = IF ~ok /\ h = "app" THEN "runtime_error" ELSE ret
       /\ aborted' = (~ok /\ h = "daemon")
  /\ pc' = [pc EXCEPT ![h] = Returned(h)]
  /\ UNCHANGED <<setup, isOpen, wire, rxVars, ending, stop>>

\* The request is served (module Gateway). The transaction with the device
\* behind the slave may leave any error in errno.
Serve(h) ==
  /\ pc[h] = "serve"
  /\ \E e \in {"badcrc", "other"} : errno' = [errno EXCEPT ![h] = e]
  /\ pc' = [pc EXCEPT ![h] = Returned(h)]
  /\ UNCHANGED <<setup, srvVars, netVars, rxVars, ending, stop, ret, aborted>>

-----------------------------------------------------------------------------
(* The peers.                                                               *)

Connect(c) ==
  /\ Tcp /\ sock = "listening"
  /\ conn[c] = "off"
  /\ conn' = [conn EXCEPT ![c] = "waiting"]
  /\ UNCHANGED <<setup, srvVars, wire, rxVars, ctlVars>>

\* A client leaves, or the serial adapter is unplugged.
Disconnect(p) ==
  /\ conn[p] # "off"
  /\ (p = Bus) = ~Tcp
  /\ conn' = [conn EXCEPT ![p] = "off"]
  /\ UNCHANGED <<setup, srvVars, wire, rxVars, ctlVars>>

\* The adapter is back, but a descriptor opened before stays dead.
Replug ==
  /\ ~Tcp /\ conn[Bus] = "off"
  /\ conn' = [conn EXCEPT ![Bus] = "waiting"]
  /\ UNCHANGED <<setup, srvVars, wire, rxVars, ctlVars>>

\* One frame at a time waits on the link; only a serial line can corrupt it, and any peer
\* may leave it unfinished.
Send(p) ==
  /\ link = p /\ conn[p] = "up"
  /\ wire = "none"
  /\ wire' \in {"good", "torn"} \cup (IF Tcp THEN {} ELSE {"bad"})
  /\ UNCHANGED <<setup, srvVars, conn, rxVars, ctlVars>>

-----------------------------------------------------------------------------
ReceiveStep(t) ==
  /\ ~aborted
  /\ \/ ReceiveCheck(t)
     \/ AcceptCall(t)
     \/ AcceptReturn(t)
     \/ AcceptStore(t)
     \/ AcceptFail(t)
     \/ Receive(t)

TaskStep(h) ==
  /\ ~aborted
  /\ \/ DispatchRequest(h)
     \/ DispatchIgnore(h)
     \/ DispatchRecover(h)
     \/ Reopen(h)
     \/ Serve(h)

LoopStep == ~aborted /\ (LoopCheck \/ LoopTask)

\* The steps of a call that has begun.
CallStep ==
  \/ PollTimeout
  \/ PollGet
  \/ TerminateSignal
  \/ TerminateJoin
  \/ Release
  \/ Drop

PeerStep ==
  \/ \E c \in Clients : Connect(c)
  \/ \E p \in Peers : Disconnect(p)
  \/ Replug
  \/ \E p \in Peers : Send(p)

Next ==
  \/ Open
  \/ Poll
  \/ Run
  \/ \E c \in Calls : TerminateShutdown(c)
  \/ CallStep
  \/ \E t \in Receivers : ReceiveStep(t)
  \/ LoopStep
  \/ \E h \in Handlers : TaskStep(h)
  \/ PeerStep

Spec == Init /\ [][Next]_vars

\* Threads run: a call that has begun, receive(), task() and loop() go on
\* whenever they are not blocked.
Fairness ==
  /\ WF_vars(CallStep)
  /\ WF_vars(ReceiveStep("task"))
  /\ WF_vars(ReceiveStep("daemon"))
  /\ WF_vars(LoopStep)
  /\ WF_vars(TaskStep("app"))
  /\ WF_vars(TaskStep("daemon"))

LiveSpec == Spec /\ Fairness

\* A further assumption on the environment, for the properties that say so:
\* the peer at the other end of the link does not stay silent for ever.
PeerSpeaks == \E p \in Peers : link = p /\ (Send(p) \/ Disconnect(p))

TalkativeSpec == LiveSpec /\ WF_vars(PeerSpeaks)

Silent == link # None /\ conn[link] = "up" /\ wire = "none"

CallReady ==
  \/ pc["app"] \in {"wait", "stop", "release"}
  \/ pc["app"] = "join" /\ pc["daemon"] = "exit"
  \/ pc["app"] = "drop" /\ rpc["task"] \in {"off", "done"}

ReceiveReady(t) ==
  rpc[t] \in {"check", "accept", "woken", "got"} \/ (rpc[t] = "recv" /\ ~Silent)

LoopReady == pc["daemon"] = "check" \/ (pc["daemon"] = "recv" /\ rpc["daemon"] = "done")

\* Only what the code waits for stops a thread: an answer, a connection, the daemon in
\* join(), the task of poll() in the destructor. Everywhere else the call, receive(),
\* loop() and task() can go on, and a peer that is connected can speak.
StepsEnabled ==
  ~aborted =>
    /\ CallReady => ENABLED <<CallStep>>_vars
    /\ ReceiveReady("task") => ENABLED <<ReceiveStep("task")>>_vars
    /\ ReceiveReady("daemon") => ENABLED <<ReceiveStep("daemon")>>_vars
    /\ LoopReady => ENABLED <<LoopStep>>_vars
    /\ Handling("daemon") => ENABLED <<TaskStep("daemon")>>_vars
    /\ Silent => ENABLED <<PeerSpeaks>>_vars
-----------------------------------------------------------------------------
(* Safety.                                                                  *)

\* There is one Request object: at most one thread fills it (receive()), and
\* none does while a thread serves what it holds (task()), nor once it was destroyed
\* with its server.
ReqExclusive ==
  /\ ~(Receiving("task") /\ Receiving("daemon"))
  /\ \A h \in Handlers, t \in Receivers : Handling(h) => ~Receiving(t)
  /\ pc["app"] = "gone" => ~isRunning /\ \A t \in Receivers : ~Receiving(t)

\* terminate() never satisfies the promise of run() a second time, which would
\* throw in the middle of the shutdown: whenever it is about to signal a daemon,
\* that daemon waits on a promise that was taken and not set.
PromiseSetOnce == pc["app"] = "stop" /\ isRunning => stop = "taken"

\* Once close() has returned there is no daemon and no listening socket, and the
\* only connection that can be left is one that a pending receive of poll() was
\* just accepting when the sockets were closed.
ClosedIsQuiet ==
  pc["app"] = "idle" /\ ~isOpen =>
    /\ ~isRunning
    /\ sock = "none"
    /\ link = None \/ (rpc["task"] # "off" /\ stale["task"])

\* A request that was read is handed to task(), however often poll() timed out
\* before and whatever the application did in between: it is not overwritten by
\* a new receive(). Only the end of the server drops it.
RequestNotDropped ==
  [][\A h \in Handlers :
       rpc[RxOf(h)] = "done" =>
         \/ rpc'[RxOf(h)] = "done"
         \/ rpc'[RxOf(h)] = "off" /\ pc'[h] \in {"dispatch", "gone"}]_vars

\* With recoveryLink the daemon tears the link down after every failed receive but a wrong
\* CRC, and never for a reason that is not its own last receive(): for a connection that is
\* lost ("reset by peer", device.h) and, which the documentation does not say, for one that is
\* well and gave a frame cut short or nothing before the indication timeout ("failed").
DaemonRecovery ==
  [][pc["daemon"] = "dispatch" /\ pc'["daemon"] # "dispatch" =>
       (pc'["daemon"] = "reopen" <=>
          setup.recoveryLink /\ res["daemon"] \in {"failed", "reset"})]_vars

\* run() starts a server that is open and not running (server.h: "true if
\* started"); it does not throw.
RunStarts == ret # "future_error"

-----------------------------------------------------------------------------
(* Liveness.                                                                *)

Terminating == pc["app"] \in {"stop", "join", "release", "drop"}

\* terminate(), close() and the destructor return, when the peers do not stay silent for ever
\* and no recovery listens again behind the shutdown.
TerminateReturns ==
  Terminating /\ ~(Tcp /\ setup.recoveryLink) ~> ~Terminating \/ aborted

\* terminate(), close() and the destructor return whatever the peers do.
TerminateAlwaysReturns == Terminating ~> ~Terminating \/ aborted

\* With recoveryLink, the daemon does not stay on a lost connection: it goes back
\* to accepting, or has the line open again, unless it was stopped.
LinkRecovered ==
  (isRunning /\ setup.recoveryLink /\ LinkDead)
    ~> (~LinkDead \/ ~isRunning \/ aborted)

\* A request that has reached a running server is read.
RequestRead == (wire = "good" /\ isRunning) ~> (wire = "none" \/ ~isRunning \/ aborted)
=============================================================================
