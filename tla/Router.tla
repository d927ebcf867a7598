------------------------------- MODULE Router -------------------------------
(***************************************************************************)
(* Life cycle of Modbus::Router (src/src/router.cpp): its masters, which   *)
(* open before the server and close after it, the recovery of the server's *)
(* link, which walks over the masters again, and the application, which may*)
(* also open and close a master by hand.                                   *)
(*                                                                         *)
(* The receiving of requests is module Server; here a router can be reached*)
(* as long as its own link is open.                                        *)
(***************************************************************************)
EXTENDS Naturals

CONSTANTS N,       \* names of masters, 1 .. N in the order of std::map
          Setups   \* the ways of using the router that are considered

Names == 1 .. N
\* polls : poll(), not run() ; recoveryLink : of the server ;
\* byHand : the application opens and closes masters itself
Setup == [polls : BOOLEAN, recoveryLink : BOOLEAN, byHand : BOOLEAN]

ASSUME RouterAssumption == N \in Nat /\ Setups \subseteq Setup

VARIABLES
  setup,
  master,   \* of each name: "absent", "bare" (no backend), "closed", "open"
  isOpen,   \* Device::Private::isOpen of the router
  link,     \* the link of the server itself is open
  pc,       \* where the application and the daemon are
  at,       \* next master of the loop the thread is in
  call,     \* the call of the application that is running
  ran,      \* run() was called: it works once
  touched,  \* history: masters the application opened or closed by hand since the
            \* router last opened or closed them
  aborted   \* an exception left the daemon: std::terminate

vars == <<setup, master, isOpen, link, pc, at, call, ran, touched, aborted>>

Threads == {"app", "daemon"}
\* A thread in a loop over the masters.
Walking(h) == pc[h] \in {"open", "undo", "masters"}
Ready(n) == master[n] \in {"absent", "open"}

TypeOK ==
  /\ setup \in Setups
  /\ master \in [Names -> {"absent", "bare", "closed", "open"}]
  /\ isOpen \in BOOLEAN
  /\ link \in BOOLEAN
  /\ pc \in [Threads -> {"idle", "none", "loop", "open", "undo", "join", "masters"}]
  /\ pc["app"] \in {"idle", "open", "undo", "join", "masters"}
  /\ pc["daemon"] \in {"none", "loop", "open", "undo"}
  /\ at \in [Threads -> 1 .. N + 1]
  /\ call \in {"none", "open", "poll", "terminate", "close"}
  /\ ran \in BOOLEAN
  /\ touched \subseteq Names
  /\ aborted \in BOOLEAN

Init ==
  /\ setup \in Setups
  /\ master = [n \in Names |-> "absent"]
  /\ isOpen = FALSE
  /\ link = FALSE
  /\ pc = [h \in Threads |-> IF h = "app" THEN "idle" ELSE "none"]
  /\ at = [h \in Threads |-> 1]
  /\ call = "none"
  /\ ran = FALSE
  /\ touched = {}
  /\ aborted = FALSE

Goto(h, p) == pc' = [pc EXCEPT ![h] = p] /\ at' = [at EXCEPT ![h] = 1]
Idle == pc["app"] = "idle" /\ ~aborted

-----------------------------------------------------------------------------
(* The application configures the router: only while it is not open.        *)

\* Router::addMaster, with or without a backend, under a name that is not in use:
\* router.h asks for unique names (otherwise the former master is destroyed, and
\* the slaves that were added for it keep a pointer to it).
AddMaster(n) ==
  /\ Idle /\ ~isOpen
  /\ master[n] = "absent"
  /\ \E s \in {"bare", "closed"} : master' = [master EXCEPT ![n] = s]
  /\ UNCHANGED <<setup, isOpen, link, pc, at, call, ran, touched, aborted>>

\* Device::setBackend of a master.
SetBackend(n) ==
  /\ Idle
  /\ master[n] = "bare"
  /\ master' = [master EXCEPT ![n] = "closed"]
  /\ touched' = touched \cup {n}
  /\ UNCHANGED <<setup, isOpen, link, pc, at, call, ran, aborted>>

\* router.master(n).open() and close()
OpenByHand(n) ==
  /\ Idle /\ setup.byHand
  /\ master[n] = "closed"
  /\ master' = [master EXCEPT ![n] = "open"]
  /\ touched' = touched \cup {n}
  /\ UNCHANGED <<setup, isOpen, link, pc, at, call, ran, aborted>>

CloseByHand(n) ==
  /\ Idle /\ setup.byHand
  /\ master[n] = "open"
  /\ master' = [master EXCEPT ![n] = "closed"]
  /\ touched' = touched \cup {n}
  /\ UNCHANGED <<setup, isOpen, link, pc, at, call, ran, aborted>>

-----------------------------------------------------------------------------
(* Router::Private::open, by open() or by the recovery of the link.         *)

\* Device::open: nothing is done when the router is open already.
Open ==
  /\ Idle /\ ~isOpen
  /\ call' = "open"
  /\ Goto("app", "open")
  /\ UNCHANGED <<setup, master, isOpen, link, ran, touched, aborted>>

\* The thread that calls Server::Private::task: the daemon, or a polling application.
MayRecover(h) ==
  /\ setup.recoveryLink
  /\ IF h = "app" THEN Idle /\ setup.polls /\ isOpen ELSE pc["daemon"] = "loop"

\* receive() failed: the server's link is closed, then open() runs again. The
\* masters are not closed.
Recover(h) ==
  /\ MayRecover(h)
  /\ link' = FALSE
  /\ Goto(h, "open")
  /\ call' = IF h = "app" THEN "poll" ELSE call
  /\ UNCHANGED <<setup, master, isOpen, ran, touched, aborted>>

\* isOk = isOk && m.second->open(): a master that is open stays so, one without a
\* backend fails.
OpenMaster(h) ==
  /\ pc[h] = "open" /\ at[h] <= N
  /\ LET n == at[h] IN
       \/ /\ Ready(n) \/ master[n] = "closed"
          /\ master' = [master EXCEPT ![n] = IF @ = "absent" THEN @ ELSE "open"]
          /\ touched' = touched \ {n}
          /\ at' = [at EXCEPT ![h] = n + 1]
          /\ UNCHANGED pc
       \/ /\ ~Ready(n)
          /\ Goto(h, "undo")
          /\ UNCHANGED <<master, touched>>
  /\ UNCHANGED <<setup, isOpen, link, call, ran, aborted>>

\* Mutant: the recovery of the daemon returns to the caller of run().
Back_ToIdle(h) == "idle"

\* Where thread h goes on when it has opened the router, or its link, again.
Back(h) == IF h = "app" THEN "idle" ELSE "loop"

\* Server::Private::open, when all the masters are open; it may fail.
OpenServer(h) ==
  /\ pc[h] = "open" /\ at[h] = N + 1
  /\ \/ /\ link' = TRUE
        /\ isOpen' = TRUE
        /\ Goto(h, Back(h))
     \/ /\ Goto(h, "undo")
        /\ UNCHANGED <<link, isOpen>>
  /\ UNCHANGED <<setup, master, call, ran, touched, aborted>>

\* Mutant: the masters that were opened are left open.
UndoMaster_Keep(h) ==
  /\ pc[h] = "undo" /\ at[h] <= N
  /\ at' = [at EXCEPT ![h] = N + 1]
  /\ UNCHANGED <<setup, master, isOpen, link, pc, call, ran, touched, aborted>>

\* A master or the server failed: every master is closed, ...
UndoMaster(h) ==
  /\ pc[h] = "undo" /\ at[h] <= N
  /\ LET n == at[h] IN
       /\ master' = [master EXCEPT ![n] = IF @ = "open" THEN "closed" ELSE @]
       /\ touched' = touched \ {n}
       /\ at' = [at EXCEPT ![h] = n + 1]
  /\ UNCHANGED <<setup, isOpen, link, pc, call, ran, aborted>>

\* ... then open() returns false, poll() throws, or the daemon ends the process. A
\* router whose recovery failed stays isOpen.
Fail(h) ==
  /\ pc[h] = "undo" /\ at[h] = N + 1
  /\ IF h = "app" THEN Goto(h, "idle") /\ UNCHANGED aborted
                  ELSE aborted' = TRUE /\ UNCHANGED <<pc, at>>
  /\ UNCHANGED <<setup, master, isOpen, link, call, ran, touched>>

-----------------------------------------------------------------------------
(* The daemon, and the end.                                                 *)

Run ==
  /\ Idle /\ isOpen /\ ~setup.polls
  /\ ~ran
  /\ ran' = TRUE
  /\ Goto("daemon", "loop")
  /\ UNCHANGED <<setup, master, isOpen, link, call, touched, aborted>>

\* terminate(), by itself or in close(): the daemon is told to stop ...
Terminate(c) ==
  /\ Idle
  /\ c = "close" => isOpen
  /\ call' = c
  /\ Goto("app", "join")
  /\ UNCHANGED <<setup, master, isOpen, link, ran, touched, aborted>>

\* ... and does when it is back in its loop.
LoopExit ==
  /\ pc["app"] = "join"
  /\ pc["daemon"] = "loop"
  /\ Goto("daemon", "none")
  /\ UNCHANGED <<setup, master, isOpen, link, call, ran, touched, aborted>>

\* Mutant: close() does not wait for the daemon.
Joined_NoWait ==
  /\ pc["app"] = "join" /\ call = "close"
  /\ link' = FALSE
  /\ isOpen' = FALSE
  /\ Goto("app", "masters")
  /\ UNCHANGED <<setup, master, call, ran, touched, aborted>>

\* Mutant: the masters are closed before the server.
Joined_MastersFirst ==
  /\ pc["app"] = "join" /\ pc["daemon"] = "none"
  /\ Goto("app", IF call = "close" THEN "masters" ELSE "idle")
  /\ UNCHANGED <<setup, master, isOpen, link, call, ran, touched, aborted>>

\* The daemon has ended; close() goes on with Device::close, ...
Joined ==
  /\ pc["app"] = "join" /\ pc["daemon"] = "none"
  /\ IF call = "close"
     THEN link' = FALSE /\ isOpen' = FALSE /\ Goto("app", "masters")
     ELSE Goto("app", "idle") /\ UNCHANGED <<link, isOpen>>
  /\ UNCHANGED <<setup, master, call, ran, touched, aborted>>

\* ... and closes the masters.
CloseMaster ==
  /\ pc["app"] = "masters"
  /\ IF at["app"] <= N
     THEN LET n == at["app"] IN
            /\ master' = [master EXCEPT ![n] = IF @ = "open" THEN "closed" ELSE @]
            /\ touched' = touched \ {n}
            /\ at' = [at EXCEPT !["app"] = n + 1]
            /\ UNCHANGED pc
     ELSE Goto("app", "idle") /\ UNCHANGED <<master, touched>>
  /\ UNCHANGED <<setup, isOpen, link, call, ran, aborted>>

-----------------------------------------------------------------------------
Configure ==
  \E n \in Names : AddMaster(n) \/ SetBackend(n) \/ OpenByHand(n) \/ CloseByHand(n)

OpenStep(h) ==
  /\ ~aborted
  /\ Recover(h) \/ OpenMaster(h) \/ OpenServer(h) \/ UndoMaster(h) \/ Fail(h)

CloseStep ==
  /\ ~aborted
  /\ LoopExit \/ Joined \/ CloseMaster

Next ==
  \/ Configure
  \/ Open
  \/ Run
  \/ \E c \in {"terminate", "close"} : Terminate(c)
  \/ \E h \in Threads : OpenStep(h)
  \/ CloseStep

Spec == Init /\ [][Next]_vars
-----------------------------------------------------------------------------
(* Properties.                                                              *)

\* A router that can be reached serves through its masters: every one of them is
\* open, unless the application closed it by hand. Otherwise its slaves would
\* answer from their memory blocks as if nothing was behind them.
ServesThroughMasters == link => \A n \in Names : Ready(n) \/ n \in touched

\* When open() has failed, and after close(), no master is left open but those the
\* application opened itself since.
ClosedRouterReleases ==
  pc["app"] = "idle" /\ ~isOpen =>
    ~link /\ \A n \in Names : master[n] = "open" => n \in touched

\* The application and the daemon never open and close the masters at the same time.
OneWalker == ~(Walking("app") /\ Walking("daemon"))
=============================================================================
