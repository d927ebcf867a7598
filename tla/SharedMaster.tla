---------------------------- MODULE SharedMaster ----------------------------
(***************************************************************************)
(* The masters of a router and the slaves that are reached through them    *)
(* (src/src/master.cpp, src/src/slave.cpp, and addMaster, addSlave and the *)
(* look-ups of src/src/router.cpp and src/src/server.cpp).                 *)
(*                                                                         *)
(* A transaction is two calls of libmodbus on the context of the master,   *)
(* modbus_set_slave and the transaction itself, and a raw request three;   *)
(* the context is shared by all the slaves of the master, and the daemon   *)
(* of the router uses it as well as the application.                       *)
(*                                                                         *)
(* An exception ends a call before it changes anything: it is no step.     *)
(***************************************************************************)
EXTENDS Integers

CONSTANTS Threads, App, Daemon, \* the application's thread, and the server's
          Names,                \* of masters
          Masters,              \* the Master objects that can be made: a bound
          None,
          Named                 \* the slave numbers that the application and clients use

Broadcast == 0
TcpSlave == 255
Units == Named \cup {Broadcast, TcpSlave}

ASSUME SharedMasterAssumption ==
  /\ App \in Threads /\ Daemon \in Threads
  /\ None \notin Masters
  /\ Named \subseteq Nat

VARIABLES
  kind,     \* of each Master: "new" (not made), "none" (no backend), "rtu", "tcp", "deleted"
  master,   \* Router::Private::master: the Master under each name
  added,    \* Master::Private::slave: the numbers of the slaves of each Master
  unit,     \* the unit that the context of each Master addresses, -1 at first
  route,    \* Server::Private::slave: the BufferedSlave under each number
  open,     \* Device::isOpen of the router
  call,     \* for each thread, how far its transaction is
  overlap,  \* history: another use of the master came between
  reached,  \* for each thread, the unit its last transaction reached, or Failed
  reused    \* history: addMaster was given a name in use

router == <<kind, master, added, route, open, reused>>
vars == <<kind, master, added, unit, route, open, call, overlap, reached, reused>>

Failed == -2
Idle == [stage |-> "idle"]
Call == [stage : {"called", "set", "sent"}, master : Masters, unit : Units,
         raw : BOOLEAN]
NoSlave == [there |-> FALSE]
Slave == [there : {TRUE}, device : Masters \cup {None}, number : Units]

\* Device::isValid
IsValid(m) == kind[m] \in {"rtu", "tcp"}

\* Device::Private::defaultSlave
DefaultSlave(m, addr) ==
  IF addr < 0 /\ IsValid(m) THEN IF kind[m] = "rtu" THEN Broadcast ELSE TcpSlave
  ELSE addr

\* A Master that has a backend has its default slave: Master::slave finds it.
TypeOK ==
  /\ kind \in [Masters -> {"new", "none", "rtu", "tcp", "deleted"}]
  /\ master \in [Names -> Masters \cup {None}]
  /\ added \in [Masters -> SUBSET Units]
  /\ unit \in [Masters -> Units \cup {-1}]
  /\ route \in [Named -> Slave \cup {NoSlave}]
  /\ open \in BOOLEAN
  /\ call \in [Threads -> Call \cup {Idle}]
  /\ overlap \in [Threads -> BOOLEAN]
  /\ reached \in [Threads -> Units \cup {Failed}]
  /\ reused \in BOOLEAN
  /\ \A m \in Masters : IsValid(m) => DefaultSlave(m, -1) \in added[m]

Busy(t) == call[t].stage # "idle"
Ready == ~Busy(App)

\* The numbers that modbus_set_slave accepts.
Accepted(net, u) == u \in 0 .. 247 \/ (net = "tcp" /\ u = TcpSlave)

\* A use of master m by thread t: what it means for the calls of the others.
Disturbed(t, m) ==
  [p \in Threads |-> overlap[p] \/ (p # t /\ Busy(p) /\ call[p].master = m)]

\* Router::master, masterPtr, operator[] and masters(): the masters that a name leads to.
Reached == {master[n] : n \in Names} \ {None}

-----------------------------------------------------------------------------
(* The application builds the router.                                       *)

Init ==
  /\ kind = [m \in Masters |-> "new"]
  /\ master = [n \in Names |-> None]
  /\ added = [m \in Masters |-> {}]
  /\ unit = [m \in Masters |-> -1]
  /\ route = [u \in Named |-> NoSlave]
  /\ open = FALSE
  /\ call = [t \in Threads |-> Idle]
  /\ overlap = [t \in Threads |-> FALSE]
  /\ reached = [t \in Threads |-> Failed]
  /\ reused = FALSE

\* Mutant: the map is cleared, not only the name.
Erased_All(n) == {master[k] : k \in Names} \ {None}

\* What `master.erase (name)` deletes.
Erased(n) == {master[n]} \ {None}

\* A Master of that name is erased, whatever points to it, and a new one is made.
AddMaster(n, m) ==
  /\ Ready /\ ~open
  /\ kind[m] = "new"
  /\ kind' = [o \in Masters |-> IF o = m THEN "none"
                                ELSE IF o \in Erased(n) THEN "deleted" ELSE kind[o]]
  /\ master' = [master EXCEPT ![n] = m]
  /\ reused' = (reused \/ master[n] # None)
  /\ UNCHANGED <<added, unit, route, open, call, overlap, reached>>

\* Mutant: the default slave of an Rtu master is forgotten.
SetBackend_TcpOnly(m, net) ==
  /\ Ready /\ m \in Reached
  /\ kind[m] = "none"
  /\ kind' = [kind EXCEPT ![m] = net]
  /\ added' = IF net = "tcp" THEN [added EXCEPT ![m] = @ \cup {TcpSlave}] ELSE added
  /\ unit' = IF net = "tcp" THEN [unit EXCEPT ![m] = TcpSlave] ELSE unit
  /\ UNCHANGED <<master, route, open, call, overlap, reached, reused>>

\* Device::setBackend: only the first backend counts. A master gets its default slave.
SetBackend(m, net) ==
  /\ Ready /\ m \in Reached
  /\ kind[m] = "none"
  /\ kind' = [kind EXCEPT ![m] = net]
  /\ LET u == IF net = "tcp" THEN TcpSlave ELSE Broadcast
     IN /\ added' = [added EXCEPT ![m] = @ \cup {u}]
        /\ unit' = [unit EXCEPT ![m] = u]
  /\ UNCHANGED <<master, route, open, call, overlap, reached, reused>>

\* Master::addSlave: the number is tried on the context, at any time.
AddSlave(m, u) ==
  /\ Ready /\ m \in Reached
  /\ IsValid(m) /\ Accepted(kind[m], u)
  /\ unit' = [unit EXCEPT ![m] = u]
  /\ added' = [added EXCEPT ![m] = @ \cup {u}]
  /\ overlap' = Disturbed(App, m)
  /\ UNCHANGED <<kind, master, route, open, call, reached, reused>>

\* Server::addSlave: a slave that is there already gets the other device.
AddRoute(u, d) ==
  /\ Ready /\ ~open
  /\ Accepted("rtu", u)
  /\ d # None => kind[d] \notin {"new", "deleted"}
  /\ route' = [route EXCEPT ![u] = [there |-> TRUE, device |-> d,
                                    number |-> IF @.there THEN @.number ELSE u]]
  /\ UNCHANGED <<kind, master, added, unit, open, call, overlap, reached, reused>>

\* Slave::setNumber: the number it has in the map of the server stays.
SetNumber(u, number) ==
  /\ Ready
  /\ route[u].there
  /\ route' = [route EXCEPT ![u].number = number]
  /\ UNCHANGED <<kind, master, added, unit, open, call, overlap, reached, reused>>

\* The router opens its masters, then itself; close() and a daemon that has ended.
OpenClose ==
  /\ Ready
  /\ ~open => \A n \in Names : master[n] # None => IsValid(master[n])
  /\ open => ~Busy(Daemon)
  /\ open' = ~open
  /\ UNCHANGED <<kind, master, added, unit, route, call, overlap, reached, reused>>

-----------------------------------------------------------------------------
(* Transactions.                                                            *)

Begin(t, m, u, raw) ==
  /\ ~Busy(t)
  /\ IsValid(m)
  /\ call' = [call EXCEPT ![t] = [stage |-> "called", master |-> m, unit |-> u,
                                  raw |-> raw]]
  /\ overlap' = [Disturbed(t, m) EXCEPT
                   ![t] = \E p \in Threads \ {t} : Busy(p) /\ call[p].master = m]
  /\ UNCHANGED <<router, unit, reached>>

\* Server::Private::task: the slave of the request, through its master if it is open.
Serve(u) ==
  /\ open
  /\ route[u].there /\ route[u].device # None
  /\ Begin(Daemon, route[u].device, route[u].number, FALSE)

\* The application uses a slave of the router ...
UseRoute(u) ==
  /\ route[u].there /\ route[u].device # None
  /\ Begin(App, route[u].device, route[u].number, FALSE)

\* ... or of a master: Master::slave, which takes -1 for the default slave.
UseSlave(m, addr) ==
  /\ m \in Reached
  /\ DefaultSlave(m, addr) \in added[m]
  /\ Begin(App, m, DefaultSlave(m, addr), FALSE)

\* Master::sendRawRequest, to the unit that the request names.
UseRaw(m, u) == m \in Reached /\ Begin(App, m, u, TRUE)

Returned(t, u) ==
  /\ call' = [call EXCEPT ![t] = Idle]
  /\ reached' = [reached EXCEPT ![t] = u]
  /\ UNCHANGED <<router, overlap>>

\* Mutant: a slave that was added is not set again.
SetSlave_Cached(t) ==
  /\ call[t].stage = "called"
  /\ LET m == call[t].master
         u == call[t].unit
     IN /\ Accepted(kind[m], u)
        /\ unit' = IF u \in added[m] THEN unit ELSE [unit EXCEPT ![m] = u]
  /\ call' = [call EXCEPT ![t].stage = "set"]
  /\ UNCHANGED <<router, overlap, reached>>

\* modbus_set_slave
SetSlave(t) ==
  /\ call[t].stage = "called"
  /\ Accepted(kind[call[t].master], call[t].unit)
  /\ unit' = [unit EXCEPT ![call[t].master] = call[t].unit]
  /\ call' = [call EXCEPT ![t].stage = "set"]
  /\ UNCHANGED <<router, overlap, reached>>

SetSlaveFails(t) ==
  /\ call[t].stage = "called"
  /\ ~Accepted(kind[call[t].master], call[t].unit)
  /\ Returned(t, Failed)
  /\ UNCHANGED unit

\* The transaction goes to the unit that the context addresses; that, or another error.
Transact(t) ==
  /\ call[t].stage = "set" /\ ~call[t].raw
  /\ \E u \in {unit[call[t].master], Failed} : Returned(t, u)
  /\ UNCHANGED unit

SendRawRequest(t) ==
  /\ call[t].stage = "set" /\ call[t].raw
  /\ call' = [call EXCEPT ![t].stage = "sent"]
  /\ UNCHANGED <<router, unit, overlap, reached>>

\* Mutant: the answer is taken with the default slave set.
ReceiveResponse_Default(t) ==
  /\ call[t].stage = "sent"
  /\ unit' = [unit EXCEPT ![call[t].master] = DefaultSlave(call[t].master, -1)]
  /\ Returned(t, unit'[call[t].master])

\* Master::receiveResponse: the answer of the unit that the context addresses by now;
\* another unit's is not taken.
ReceiveResponse(t) ==
  /\ call[t].stage = "sent"
  /\ \E u \in {unit[call[t].master], Failed} : Returned(t, u)
  /\ UNCHANGED unit

Next ==
  \/ \E n \in Names, m \in Masters : AddMaster(n, m)
  \/ \E m \in Masters, net \in {"rtu", "tcp"} : SetBackend(m, net)
  \/ \E m \in Masters, u \in Named : AddSlave(m, u)
  \/ \E u \in Named, d \in Masters \cup {None} : AddRoute(u, d)
  \/ \E u \in Named, number \in Named : SetNumber(u, number)
  \/ OpenClose
  \/ \E u \in Named : Serve(u) \/ UseRoute(u)
  \/ \E m \in Masters, u \in Units \cup {-1} : UseSlave(m, u)
  \/ \E m \in Masters, u \in Units : UseRaw(m, u)
  \/ \E t \in Threads :
       SetSlave(t) \/ SetSlaveFails(t) \/ Transact(t)
         \/ SendRawRequest(t) \/ ReceiveResponse(t)

Spec == Init /\ [][Next]_vars
-----------------------------------------------------------------------------
(* Properties.                                                              *)

\* A context addresses the unit of the transaction that is on its way through it,
\* unless another thread used the same master since the transaction began.
OwnUnit ==
  \A t \in Threads :
    call[t].stage \in {"set", "sent"} /\ ~overlap[t] =>
      unit[call[t].master] = call[t].unit

\* As long as every master has a name of its own, which router.h asks for, the slaves
\* of the router and the transactions use masters that exist: addMaster, addSlave and
\* a closing router leave no pointer behind.
DevicesAlive ==
  ~reused =>
    /\ \A u \in Named : route[u].there /\ route[u].device # None =>
         kind[route[u].device] \notin {"new", "deleted"}
    /\ \A t \in Threads : Busy(t) => IsValid(call[t].master)

\* The calls of slaves and masters implement Exchange: each is one exchange with the
\* unit it is for, while one thread at a time uses the master.
Asked ==
  [t \in Threads |->
     IF Busy(t) THEN [busy |-> TRUE, master |-> call[t].master, unit |-> call[t].unit]
     ELSE [busy |-> FALSE]]
Ex == INSTANCE Exchange WITH asked <- Asked

\* Slave::readCoils .. Slave::writeReadRegisters, Master::sendRawRequest and
\* receiveResponse keep the promise of module Exchange.
ImplementsExchange == Ex!Spec
=============================================================================
