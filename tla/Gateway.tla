------------------------------ MODULE Gateway ------------------------------
(***************************************************************************)
(* A request served through a BufferedSlave: the request part of           *)
(* Server::Private::task (src/src/server.cpp), readFromDevice and          *)
(* writeToDevice (src/src/bufferedslave.cpp), the answer built by libmodbus *)
(* from the memory block, and the application that uses the same slave.    *)
(*                                                                         *)
(* One table of one slave is modelled: the four tables have the same code. *)
(* Addresses are PDU addresses, which take two bytes of a frame. A         *)
(* transaction with the device is atomic.                                  *)
(***************************************************************************)
EXTENDS Integers

CONSTANTS Values,      \* what a coil or a register holds
          DeviceSize,  \* the device has the addresses 0 .. DeviceSize - 1, and more
          MaxCount,    \* bound: items in one request
          Setups       \* the slaves that are considered

Last == 65535                         \* the last address there is

\* start, size : the block (setBlock), which is empty at first ; pdu : pduAddressing() ;
\* table : inputs are those of either kind ; wide : the device has the last address ;
\* callbacks : some are set ; clientStays : the client waits for the answer
Setup == [start : Nat, size : Nat, pdu : BOOLEAN,
          table : {"coils", "registers", "inputs"}, wide : BOOLEAN,
          callbacks : BOOLEAN, clientStays : BOOLEAN]

ASSUME GatewayAssumption ==
  /\ DeviceSize \in 1 .. Last
  /\ MaxCount \in Nat \ {0}
  /\ Setups \subseteq Setup

Counts == 1 .. MaxCount
\* bound: of the addresses beyond the device, the first and the last
Addresses == 0 .. DeviceSize \cup {Last}
\* The values of n items.
Items(n) == [1 .. n -> Values]
ReadRequests == [fn : {"read"}, addr : Addresses, nb : Counts, data : {<<>>}]
WriteRequests ==
  UNION {[fn : {"write"}, addr : Addresses, nb : {n}, data : Items(n)] : n \in Counts}
\* Functions 0x16 (the register becomes data) and 0x17 (data is written, then read from addr
\* on; bound: one register each).
MaskRequests == [fn : {"mask"}, addr : Addresses, nb : {1}, data : Items(1)]
WriteReadRequests ==
  [fn : {"writeread"}, addr : Addresses, nb : {1}, data : Items(1), to : Addresses]
NoRequest == [fn |-> "none", addr |-> 0, nb |-> 1, data |-> <<>>]
Requests ==
  ReadRequests \cup WriteRequests \cup MaskRequests \cup WriteReadRequests \cup {NoRequest}
\* The functions that write to the block.
Writing == {"write", "mask", "writeread"}
Lists == {<<>>} \cup UNION {Items(n) : n \in Counts}
Answers == [kind : {"none", "exception", "ok"}, values : Lists]

VARIABLES
  setup,
  mem,      \* the block, by PDU address
  dev,      \* the table of the device
  devOpen,  \* Slave::isOpen: the master of the slave is open
  pc,       \* how far the request is; "dead": the process accessed memory it does not have
  req,      \* the request
  answer,   \* what was sent to the client for it
  app,      \* the call of the application that still has to reach the device
  seen      \* history: what the device held when it was asked for the values of this
            \* request; Nothing if it was not, or the application wrote to the block since

vars == <<setup, mem, dev, devOpen, pc, req, answer, app, seen>>

BlockAddresses == setup.start .. setup.start + setup.size - 1
DeviceAddresses == 0 .. DeviceSize - 1 \cup (IF setup.wide THEN {Last} ELSE {})
writable == setup.table # "inputs"
NoAnswer == [kind |-> "none", values |-> <<>>]
Exception == [kind |-> "exception", values |-> <<>>]
Nothing == <<>>
Idle == [from |-> 0, nb |-> 0]
Calls == [from : BlockAddresses, nb : Counts] \cup {Idle}

Smaller(a, b) == IF a <= b THEN a ELSE b
Larger(a, b) == IF a >= b THEN a ELSE b

InBlock(at, n) == setup.start <= at /\ at + n <= setup.start + setup.size

TypeOK ==
  /\ setup \in Setups
  /\ mem \in [BlockAddresses -> Values]
  /\ dev \in [DeviceAddresses -> Values]
  /\ devOpen \in BOOLEAN
  /\ pc \in {"idle", "fetch", "before", "reply", "after", "store", "dead"}
  /\ req \in Requests
  /\ answer \in Answers
  /\ app \in Calls
  /\ app # Idle => InBlock(app.from, app.nb)
  /\ seen \in [DeviceAddresses -> Values] \cup {Nothing}

-----------------------------------------------------------------------------
(* Addresses.                                                               *)

\* f with n of its values, from at on, replaced by those of g from `from` on.
Splice(f, at, g, from, n) ==
  [a \in DOMAIN f |-> IF a \in at .. at + n - 1 THEN g[from + (a - at)] ELSE f[a]]

\* The n values of f from address at on.
Slice(f, at, n) == [i \in 1 .. n |-> f[at + i - 1]]

InDevice(at, n) == at .. at + n - 1 \subseteq DeviceAddresses

\* start = max (start, first); start = min (start, last)
ClampedStart(addr) == Smaller(Larger(addr, setup.start), setup.start + setup.size - 1)
\* Mutant: the offset of the first item is forgotten.
ClampedCount_FromStart(addr, nb) == Smaller(nb, setup.size)

\* nb = min (nb, size - offset)
ClampedCount(addr, nb) ==
  Smaller(nb, setup.size - (ClampedStart(addr) - setup.start))

\* Slave::pduAddress
PduAddress(dataAddr) == dataAddr - (IF setup.pdu THEN 0 ELSE 1)

\* The two bytes of a frame that carry a: those of a negative address come out at the top.
OnTheWire(a) == IF a < 0 THEN a + Last + 1 ELSE a

\* Mutant: the block address is taken for a data address.
DeviceAddress_Unshifted(start) == OnTheWire(PduAddress(start))

\* The address the device is asked for: `start + pduAddressing() ? 0 : 1` is
\* `(start + pduAddressing()) ? 0 : 1`; and -1 is sent as the last address.
DeviceAddress(start) ==
  OnTheWire(PduAddress(IF start + (IF setup.pdu THEN 1 ELSE 0) # 0 THEN 0 ELSE 1))

-----------------------------------------------------------------------------
(* The thread of the server.                                                *)

Arrive ==
  /\ pc = "idle"
  /\ req' \in ReadRequests
                \cup (IF writable THEN WriteRequests ELSE {})
                \cup (IF setup.table = "registers" THEN MaskRequests \cup WriteReadRequests
                      ELSE {})
  /\ pc' = "fetch"
  /\ UNCHANGED <<setup, mem, dev, devOpen, answer, app, seen>>

\* task() returns; receive() clears the request.
End ==
  /\ pc' = "idle"
  /\ req' = NoRequest
  /\ answer' = NoAnswer
  /\ seen' = Nothing

\* readFromDevice: a read request first copies the device into the block. The item of an
\* empty block that the bounds come out at is not there to be written.
FetchOk ==
  /\ pc = "fetch"
  /\ req.fn = "read" /\ devOpen
  /\ LET s == ClampedStart(req.addr)
         n == ClampedCount(req.addr, req.nb)
         d == DeviceAddress(s)
     IN /\ InDevice(d, n)
        /\ mem' = Splice(mem, s, dev, d, n)
        /\ pc' = IF InBlock(s, n) THEN "before" ELSE "dead"
  /\ seen' = dev
  /\ UNCHANGED <<setup, dev, devOpen, req, answer, app>>

\* It is dropped without an answer when the device does not give the values, or refuses
\* the address.
FetchFail ==
  /\ pc = "fetch"
  /\ req.fn = "read" /\ devOpen
  /\ End
  /\ UNCHANGED <<setup, mem, dev, devOpen, app>>

\* Every other request goes on, one that also reads (0x17) among them: "TODO".
FetchNothing ==
  /\ pc = "fetch"
  /\ req.fn # "read" \/ ~devOpen
  /\ pc' = "before"
  /\ UNCHANGED <<setup, mem, dev, devOpen, req, answer, app, seen>>

\* setBeforeReplyCallback and setAfterReplyCallback, before the server runs.
HasCallbacks == setup.callbacks

\* A callback that does not return 0 ends the request; what it does to the
\* block is the application's.
Callback(from, to) ==
  /\ pc = from
  /\ \/ pc' = to /\ UNCHANGED <<req, answer, seen>>
     \/ HasCallbacks /\ End
  /\ UNCHANGED <<setup, mem, dev, devOpen, app>>

\* Where a request writes to the block.
Target == IF req.fn = "writeread" THEN req.to ELSE req.addr

\* All the addresses of the request are in the block.
Accepted == InBlock(req.addr, req.nb) /\ InBlock(Target, req.nb)

\* modbus_reply: the block is written, or the answer is built from it, or both in this order.
\* The answer may not reach the client, and then modbus_reply fails.
Reply ==
  /\ pc = "reply"
  /\ mem' = IF req.fn \in Writing /\ Accepted
            THEN Splice(mem, Target, req.data, 1, req.nb) ELSE mem
  /\ \/ /\ answer' = IF ~Accepted THEN Exception
                     ELSE [kind |-> "ok",
                           values |-> IF req.fn \in {"read", "writeread"}
                                      THEN Slice(mem', req.addr, req.nb) ELSE req.data]
        /\ pc' = "after"
        /\ UNCHANGED <<req, seen>>
     \/ ~setup.clientStays /\ End
  /\ UNCHANGED <<setup, dev, devOpen, app>>

\* writeToDevice: the block is copied to the device, whatever was answered. The
\* result is ignored: the device may not get it, or refuse the address.
Store ==
  /\ pc = "store"
  /\ req.fn = "write" /\ devOpen
  /\ LET s == ClampedStart(req.addr)
         n == ClampedCount(req.addr, req.nb)
         d == DeviceAddress(s)
     IN IF InBlock(s, n)
        THEN /\ dev' \in {dev} \cup (IF InDevice(d, n) THEN {Splice(dev, d, mem, s, n)} ELSE {})
             /\ End
        ELSE pc' = "dead" /\ UNCHANGED <<dev, req, answer, seen>>
  /\ UNCHANGED <<setup, mem, devOpen, app>>

\* What functions 0x16 and 0x17 have written is left in the block: "TODO" again.
StoreNothing ==
  /\ pc = "store"
  /\ req.fn # "write" \/ ~devOpen
  /\ End
  /\ UNCHANGED <<setup, mem, dev, devOpen, app>>

-----------------------------------------------------------------------------
(* The application: another thread, or the callbacks.                       *)

\* Mutant: only the first address of a call is checked.
CallCount_Uncut(a, n) == n

\* The items of a call from address a on: the excess is cut off.
CallCount(a, n) == Smaller(n, setup.start + setup.size - a)

\* The block of mem with some of what the application gives.
WrittenBlock(a, n) == {Splice(mem, a, v, 1, CallCount(a, n)) : v \in Items(n)}

\* BufferedSlave::writeCoils, writeRegisters and writeReadRegisters: first the
\* block, ...
AppWrite ==
  /\ app = Idle
  /\ writable
  /\ \E a \in BlockAddresses, n \in Counts :
       /\ mem' \in WrittenBlock(a, n)
       /\ app' = IF devOpen THEN [from |-> a, nb |-> CallCount(a, n)] ELSE Idle
  /\ seen' = Nothing
  /\ UNCHANGED <<setup, dev, devOpen, pc, req, answer>>

\* ... then the device, with what the block holds by now; or an error.
AppPush ==
  /\ app # Idle
  /\ dev' \in {dev} \cup (IF InDevice(app.from, app.nb)
                          THEN {Splice(dev, app.from, mem, app.from, app.nb)} ELSE {})
  /\ app' = Idle
  /\ UNCHANGED <<setup, mem, devOpen, pc, req, answer, seen>>

\* writeReadRegisters writes the device and reads it in one transaction: what is
\* read, from another place of the block, comes after what is written.
AppPushAndRead ==
  /\ app # Idle
  /\ setup.table = "registers"
  /\ InDevice(app.from, app.nb)
  /\ dev' = Splice(dev, app.from, mem, app.from, app.nb)
  /\ \E a \in BlockAddresses, n \in Counts :
       /\ InDevice(a, CallCount(a, n))
       /\ mem' = Splice(mem, a, dev', a, CallCount(a, n))
  /\ app' = Idle
  /\ seen' = Nothing
  /\ UNCHANGED <<setup, devOpen, pc, req, answer>>

\* BufferedSlave::writeDiscreteInputs and writeInputRegisters: the block alone.
AppWriteInputs ==
  /\ app = Idle
  /\ ~writable
  /\ \E a \in BlockAddresses, n \in Counts : mem' \in WrittenBlock(a, n)
  /\ seen' = Nothing
  /\ UNCHANGED <<setup, dev, devOpen, pc, req, answer, app>>

\* BufferedSlave::readRegisters and the like.
AppRead ==
  /\ app = Idle
  /\ devOpen
  /\ \E a \in BlockAddresses, n \in Counts :
       /\ InDevice(a, CallCount(a, n))
       /\ mem' = Splice(mem, a, dev, a, CallCount(a, n))
  /\ seen' = Nothing
  /\ UNCHANGED <<setup, dev, devOpen, pc, req, answer, app>>

\* The whole block, when the device is open and has all its addresses.
WholeBlock == app = Idle /\ devOpen /\ InDevice(setup.start, setup.size)

UpdateBlockFromSlave ==
  /\ WholeBlock
  /\ mem' = Splice(mem, setup.start, dev, setup.start, setup.size)
  /\ seen' = Nothing
  /\ UNCHANGED <<setup, dev, devOpen, pc, req, answer, app>>

\* updateSlaveCoilFromBlock and updateSlaveHoldingRegisterFromBlock
BlockToDevice ==
  WholeBlock /\ dev' = Splice(dev, setup.start, mem, setup.start, setup.size)

\* The other tables cannot be written: EINVAL.
UpdateSlaveFromBlock ==
  /\ writable
  /\ BlockToDevice
  /\ UNCHANGED <<setup, mem, devOpen, pc, req, answer, app, seen>>

\* The master of the slave is opened or closed.
MasterOpenClose ==
  /\ devOpen' = ~devOpen
  /\ UNCHANGED <<setup, mem, dev, pc, req, answer, app, seen>>

\* The process behind the device moves.
DeviceChanges ==
  /\ \E a \in DeviceAddresses, v \in Values : dev' = [dev EXCEPT ![a] = v]
  /\ UNCHANGED <<setup, mem, devOpen, pc, req, answer, app, seen>>

-----------------------------------------------------------------------------
Init ==
  /\ setup \in Setups
  /\ \E v \in Values : mem = [a \in BlockAddresses |-> v]
  /\ dev \in [DeviceAddresses -> Values]
  /\ devOpen = FALSE
  /\ pc = "idle"
  /\ req = NoRequest
  /\ answer = NoAnswer
  /\ app = Idle
  /\ seen = Nothing

ServerStep ==
  \/ FetchOk
  \/ FetchFail
  \/ FetchNothing
  \/ Callback("before", "reply")
  \/ Reply
  \/ Callback("after", "store")
  \/ Store
  \/ StoreNothing

AppStep ==
  /\ pc # "dead"
  /\ \/ AppWrite
     \/ AppPush
     \/ AppPushAndRead
     \/ AppWriteInputs
     \/ AppRead
     \/ UpdateBlockFromSlave
     \/ UpdateSlaveFromBlock
     \/ MasterOpenClose

Next ==
  \/ Arrive
  \/ ServerStep
  \/ AppStep
  \/ DeviceChanges

Spec == Init /\ [][Next]_vars
-----------------------------------------------------------------------------
(* Properties.                                                              *)

\* What is copied between the device and the block, in either direction, lies inside
\* the block, wherever the request points; only an empty block, what every slave has before
\* setBlock(), is left, by one item in front of it, and that ends the process.
TransfersInBlock ==
  /\ pc \in {"fetch", "store"} =>
       LET s == ClampedStart(req.addr)
           n == ClampedCount(req.addr, req.nb)
       IN n >= 1 /\ IF setup.size > 0 THEN InBlock(s, n) ELSE s = setup.start - 1 /\ n = 1
  /\ pc = "dead" => setup.size = 0

\* bufferedslave.h: "the requested data is actually read, then stored in the memory
\* buffer before being returned". An answer given while the device is open carries
\* what the device held at the requested addresses when it was asked, unless the
\* application wrote to the block in between.
ReadThrough ==
  answer.kind = "ok" /\ req.fn = "read" /\ seen # Nothing =>
    InDevice(req.addr, req.nb) /\ answer.values = Slice(seen, req.addr, req.nb)

\* The address of the device that stands for address a of the block: always the first one
\* with PDU addresses, and without them the first one for the first, the last one for any
\* other. It is the right one for the first address, and for the last without PDU addresses.
AskedAt(a) == IF setup.pdu \/ a = 0 THEN 0 ELSE Last

\* What is true of ReadThrough: the answer is what the device held from the address that is
\* asked for instead, item by item from the first one requested, and so what it should be
\* where that address is the right one.
ReadAsAsked ==
  answer.kind = "ok" /\ req.fn = "read" /\ seen # Nothing =>
    LET d == AskedAt(req.addr)
    IN InDevice(d, req.nb) /\ answer.values = Slice(seen, d, req.nb)

\* bufferedslave.h: "the data provided is actually written, after being stored in the memory
\* buffer". What is true of an acknowledged write: the device has got it as a whole, with
\* what the block held by then, from the address that is asked for instead, or has nothing
\* of it; and it never has what functions 0x16 and 0x17 wrote.
WriteAsAsked ==
  [][pc = "store" /\ pc' # "store" /\ answer.kind = "ok" =>
       \/ dev' = dev
       \/ /\ req.fn = "write"
          /\ dev' = Splice(dev, AskedAt(req.addr), mem, req.addr, req.nb)]_vars
=============================================================================
