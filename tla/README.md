# libmodbus++: a verification development in TLA+

libmodbus++ (`src/`) wraps libmodbus in C++ classes: masters and slaves on TCP or on a serial line
(RTU), servers that answer from a memory block, and routers that answer for slaves behind other
masters. This directory holds models of its parts, configurations that model-check them with TLC,
and theorems about them that TLAPS proves. Every definition is translated from the code; the table
"map" of `PROJECT.json` gives its lines. libmodbus itself is external: it is modelled from the calls
the code makes.

## Inventory

| Part | State | Operations | What is hard |
|---|---|---|---|
| `Server` (`server.cpp`) | listening socket, context socket, one `Request`, `receiveTask`, `daemon`, `stopDaemon`, `isOpen` | `open` `close` `poll` `run` `terminate` `addSlave`; threads `receive`, `task`, `loop` | three threads on one `Request` and one context; receives that outlive the poll, or the opening, that began them; recovery of the link against shutdown; `errno` across threads |
| `BufferedSlave` (`bufferedslave.cpp`) | four blocks of coils and registers (`map`), start and size of each, device, callbacks, report | `setBlock`, reads and writes, `update…`, `readFromDevice`, `writeToDevice`, `reportSlaveId` | two copies of the same registers, block and device, changed by the server and by the application; clamped ranges; failures between two copies |
| `Slave` (`slave.cpp`) | address, device, addressing mode | one transaction per call; templates for `Data` and `SlaveReport` | `modbus_set_slave` and the transaction are two calls on a shared context |
| `Device` (`device.cpp`) | backend, `isOpen`, `recoveryLink`, time-outs | `open` `close` `flush` `sendRawMessage`, settings | retries and reopening around one request; time-outs that wrap and carry |
| `Master` (`master.cpp`) | slaves, context | `addSlave`, raw requests, `setRecoveryLink` | several slaves and threads on one context |
| `Router` (`router.cpp`) | named masters | `open` `close` `addMaster`, recovery inherited from `Server` | masters and server open and fail together; slaves hold bare pointers to masters |
| Network layers (`netlayer.cpp`, `tcplayer.cpp`, `rtulayer.cpp`) | context, transaction identifier | `prepareToSend`, `sendRawMessage`, settings | CRC, lengths, identifiers that wrap |
| `Message`, `Request`, `Response` | one ADU and its size | accessors, `prepareToSend` | offsets into one buffer, which setters of one message share |
| `data.h`, `swap.h`, `Timeout` | a value and its registers | conversions, `updateRegisters`, `updateValue` | endianness, width, registers that lag behind the value |
| JSON configuration (`json_p.h`, `setConfig` of each class) | the place in the document | one setter per key, slave, block and value | an exception at any place, after which half is set; a second document over the first |
| `SlaveReport` (`slavereport.h`) | bytes of one report | `reportSlaveId`, `id` `status` `data` | the buffered copy keeps a length of its own; failures |
| `popl.h`, examples, tests | | | not modelled, see below |

The parts interact as follows. The application calls `open`, then `run` (a daemon thread loops over
`receive` and `task`) or `poll` again and again (each starts `receive` in a `std::async` thread and
waits for it with a timeout, then calls `task` itself). `receive` accepts a client when there is none
and reads a request into the one `Request` of the server. `task` recovers a lost link, or finds the
slave, has it copy its registers from its device into its block (`readFromDevice`), lets libmodbus
answer from the block, and has the slave copy the block to its device (`writeToDevice`). The device is
a `Master`, which a router owns. Callbacks of the application run in between, and the application may
use the same slaves from its own thread.

What makes each part correct: one user of the `Request` at a time, no request lost, shutdown that
returns and leaves nothing running, links recovered after their own failures (`Server`); answers that carry
what the device holds, writes that reach the addresses they name, nothing outside the block
(`BufferedSlave`); transactions of different slaves not mixed (`Master`); each slave served through the
master it was given, masters open when the server is (`Router`); layouts and conversions that agree
with their reference (`Message`, `data.h`).

## Plan

All the steps of the plan are done; each is a module, or a chain of modules, of its own.

1. `Server`: life cycle, threads and links, the destructor included; `ServerProofs`.
2. `Gateway`: a request through a buffered slave and its device, and the application's calls on the
   same slave; `GatewayProofs`.
3. `Router`: masters opened with the server, closed after it, recovery; `RouterProofs`.
4. `SharedMaster`: slaves of shared contexts used by two threads, `modbus_set_slave` and the transaction
   as separate steps. `Exchange` is the abstract specification, one transaction at a time;
   `SharedMasterProofs` shows the implementation.
5. `RawSend`: `Device::sendRawMessage` with its retries and reopening, preparation, transaction
   identifiers; liveness under a link that comes back; `RawSendProofs`.
6. `BlockMap`: `setBlock`, growth, release and allocation failures of a block; `BlockMapProofs`.
7. `Frame` and `Crc`: the accessors of messages over one buffer, and `crc16`; `FrameProofs`.
8. `Data`, `Config`, `Access`, `Report`: conversions, configuration by documents, exchange of `Data`
   with the slaves that were configured, and reports. Each extends the one before; `ReportProofs`.

What `Gateway` does between `Arrive` and the end of a request is the step `Serve` of `Server`. `Router`
says when `devOpen` of `Gateway` holds, and `SharedMaster` what its atomic transactions are made of.
`Frame` gives the bytes of the messages that `RawSend` sends, and `Config` builds the blocks of
`BlockMap`.

## Modules

### Server

State. `sock` and `link` are `Server::Private::sock` and the socket of the libmodbus context; `sock`
has the value `"shut"` between `shutdown()` and `close()`. `conn` is what each peer sees, `wire` the
frame that waits on the link. `rpc` is where a call of `receive()` is, for the task of `poll()` and for
the daemon, `peer` a connection that `accept()` has returned and that is not in the context yet, `res`
the result: a request, a bad CRC, a lost link (`"reset"`), or another failure on a link that is well
(`"failed"`: a torn frame, or an indication timeout). `pc` is where the application thread and the daemon are, `ending` tells `terminate()`,
`close()` and the destructor apart, `stop` is the promise `stopDaemon`, `errno` is kept for each thread that calls `task()`.
`stale` is history: this receive began before the server was closed. `setup`, chosen once, holds the
backend, `recoveryLink`, whether there is an indication timeout (`timed`), and the calls the application makes.

Actions. `Open`; `Poll`, `PollTimeout`, `PollGet`; `Run`; `TerminateShutdown`, `TerminateSignal`,
`TerminateJoin` and, for `close()` and the destructor, `Release`; `Drop`, the end of the destructor,
which waits for a pending receive (the destructor of a future of `std::async` does); `ReceiveCheck`, `AcceptCall`, `AcceptReturn`,
`AcceptStore`, `AcceptFail`, `Receive`; `LoopCheck`, `LoopTask`; `DispatchRequest`, `DispatchIgnore`,
`DispatchRecover`, `Reopen`, `Serve`; and the peers: `Connect`, `Disconnect`, `Replug`, `Send`. `Outcomes` are
what `modbus_receive` may return by what is on the link. A step
ends where another thread can see or change something in between: `accept()` returns before its result
is stored, the link is closed before it is opened again, the daemon is signalled before it is joined.
When `accept()` fails, libmodbus 3.1.6 (the least version the build accepts) closes the listening
socket through the pointer it was given; later versions do not. Both are allowed.

`OneService` states that an application either polls or runs: the code does not stop it from calling
`run()` while a receive of `poll()` is pending, and the two threads would then write one `Request`
without synchronisation, which has no meaning to model.

### Gateway

One table of one slave: `mem` is the block, `dev` the table of the device, both by PDU address,
`devOpen` what `Slave::isOpen` returns. A request goes through `Arrive`, then `FetchOk`, `FetchFail` or
`FetchNothing` (`readFromDevice`), a callback, `Reply` (`modbus_reply`), a callback and `Store`
(`writeToDevice`). The application writes (`AppWrite` then `AppPush`, two steps because the block is
changed before the device), reads (`AppRead`), opens and closes the master, and the device changes by
itself. `seen` is history: what the device held when it was asked for the values of the request, as long as
the application did not write to the block since. One transaction with the device is atomic: the bus serialises it.

`AppPushAndRead` is `writeReadRegisters`, `UpdateBlockFromSlave` and `UpdateSlaveFromBlock` are the calls
that copy a whole block.

`DeviceAddress` keeps the expression `start + pduAddressing() ? 0 : 1` as C++ reads it: 0 with PDU addresses,
and with data model addresses the PDU address of 1 for a request at 0 and of 0, which is -1, for every other.
libmodbus puts two bytes of it on the wire (`OnTheWire`), so -1 arrives as 65535, which some devices of the
configuration have (`wide`). `AskedAt` says the same by the address of the request alone.

Functions 0x16 and 0x17 (`MaskRequests`, `WriteReadRequests`) are answered from the block; their values are
neither fetched nor stored (`FetchNothing`, `StoreNothing`), as the two TODOs in the code say. A slave for which
`setBlock` was not called has empty blocks (`size` 0): the transfer of a request is then one item in front of
the block, and the process ends (`pc` is `"dead"`), whatever it does in fact with memory it does not have.

A write that libmodbus refuses with an exception still reaches `writeToDevice` (`Store`), which copies the
block as it is: `WriteAsAsked` speaks of acknowledged writes for that reason.

### Router

`master` is the table of masters, in the order of the `std::map`: a name is absent, has a master without
a backend, or one that is closed or open. `isOpen` is the router's, `link` says that the server's own
socket is open, `pc` and `at` where the application and the daemon are in the loops of
`Router::Private::open` and `Router::close`. `touched` is history: the masters the application opened or
closed by itself since the router last did. `OpenMaster`, `OpenServer`, `UndoMaster` and `Fail` are the
steps of `open()`, run by the application's call or by the recovery (`Recover`) of the thread that
serves; `Terminate`, `LoopExit`, `Joined` and `CloseMaster` are those of `terminate()` and `close()`. What a
request does, and what `Server` shows of sockets and receives, is left out: here a router can be reached
as long as its link is open. Masters are added under new names, as `router.h` asks.

### BlockMap

One block of a slave. `alloc` and `item` are what the pointer of the table (`tab_bits`, …) leads to,
`count` and `start` the fields `nb_…` and `start_…`. `setBlock` is `Release`, `Move`, `Allocate`, `Resize`
or `NoMemory`, by the number it is given, by the pointer, and by what `calloc` and `realloc` return; the
four functions of the four tables are the same but for the width of an item, which is in
`ClearedFrom`. `Resized` is the set of contents that `realloc` and `memset` may leave: items that are new
and not cleared hold anything. `failed` and `beyond` are history: a `realloc` that lost the block, and
bytes that were cleared behind its end. `BlockAllocated` states what the code does after a failure: the number
stays, and a call for that number returns it, without a block. `Write` is a copy of one item into the block.

### RawSend

A message is the fields that `prepareToSend` writes and those it reads: kind, size of the PDU,
identifier, length, and for RTU the number of bytes its CRC is for (`crcOf`), which stands for the CRC
itself. The application builds requests and responses (`NewRequest`, `NewResponse`, `Answer`), changes them
(`Edit`, `SetTransactionIdentifier`, `SetResponseFlag`) and sends them, prepared or not (`Send`). `WriteSome`, `WriteLost` and `WriteError` are the
outcomes of the layer's `send` or `write`; `Fail` is the test behind a failed one, `Reopen` and `Flush` the two
ways to try again (`Again`: with the message as it is). `Opened` is what `open()` leaves, which is virtual: a link that
is up, or, for a `Server` on TCP, a socket that listens, until a client is accepted (`Accept`). `Lose` and `Change` are the network, `OpenAgain` the
application that closes and opens the device between two calls. Only messages that were built with a
network layer are modelled, the others keep a counter of their own; the identifier of a response is the
one it was copied with, or given since (`given`). Time is left out: a pause ends some time.

`WriteSome` returns what the code does (`Compared`): the number of bytes that were written is compared with the size of
the PDU without its header, so that the call returns -1 for a frame that was written completely (`CompleteWriteFails`).

### SharedMaster and Exchange

`kind` is the state of each `Master` object, `master` the map of the router from names to them, `added` their
slaves, `unit` the unit that the context of each addresses, `route` the map of the server from numbers to
`BufferedSlave`s. A transaction begins (`Serve` for the daemon, `UseRoute`, `UseSlave`, `UseRaw` for the
application), sets the slave (`SetSlave`) and is carried out (`Transact`, or `SendRawRequest` and
`ReceiveResponse`); the other thread may act between any two of these, and the application configures
the router as long as it is in no call. `overlap` and `reused` are history. In `Exchange` a caller asks
and is answered by the unit it asked, in one step, unless another thread used the same master in the meantime;
the refinement mapping forgets how far a call is.

### Frame and Crc

One buffer, as a `Request` and then as the `Response` that is made of it. A field is what a pair of
accessors reads and writes: `Place` and `End` are where it lies, `Put` and `Get` the two accessors. `last`
is history: what was set, as long as no setter of another PDU was called since. `Layouts` are the PDUs of
the protocol, as the comments of the accessors give them. The offset of the bits of a response is the one of the
code, which counts them from the function code on, so that `setBitValue` writes over the function code and the
byte count: `Overlap` names these pairs, `WrittenOver` marks a field that lost its value to one, and `ReadsBack` has
them, and nothing else, as its exception. `Crc` is `RtuLayer::crc16` with its two tables, and next to it the division by the polynomial
of the protocol, bit by bit (`Remainder`). The exclusive or is written by its bits (`Xor8`, `Xor16`), in integer
arithmetic, which the provers know.

### Data, Config, Access, Report

`Data`: a value is its image in memory, in words of two bytes; `swap`, `hton` and the conversions of class
`Data` are permutations of these. `InOrder` is the reference: what `global.h` says of the four orders.

`Config`: a document is a sequence of groups, one for the object and one for each master of a router.
`at` is the place that is read next; each key (`SetSwitch`, `SetSerial`, `SetTimeout`, or `SkipOption`), slave
(`AddSlave`, `SetPduAddressing`), block (`SetBlock`) and value (`ReadValue`, `WriteValues`) is a step, and at
each place an exception may end the call (`JsonError`, `BadValue`, `AddSlaveRefused`, `NoBackend`). The application then
tries another document on the same object, or sets time-outs itself (`AppSetTimeout`). A text has the value it
says, or none; `strToT` is what the code makes of it. The reference is on the side of `ValuesInPlace`: `Meant` is the
value that a document gives, for every data type that the documentation lists, `FirstItem` the item it belongs to. Where
the code does something else the property says so by name: `Lost` (texts of signed integers and long doubles
become 0) and `TooLow` (without `values-address` the values go to the first address there is, wherever the block starts).

`Access`: an array of `Data` objects that the application assigns, by value or through a reference
that leaves the registers behind, and exchanges with the slaves of the configured server.

`Report`: `AskReport`, `AskFails` and `AskClosed` are the outcomes of `reportSlaveId` for a slave and for a
`BufferedSlave`, `ServeReport` the copy that a client's request makes. The text of a kept report begins
with the device's; zeros, or the end of an earlier report, may follow it. Reports of one-byte identifiers are left out.

## Runs

| Run | Configuration | Shows |
|---|---|---|
| `server` | two TCP clients or one serial line, `recoveryLink` and indication timeout on and off, polling and running applications | type, three invariants, the enabledness of the steps, two action properties and three liveness properties of the life cycle, the destructor included (128,228 states) |
| `gateway` | two values, a device of two registers with and without address 65535, blocks of none, one or two items from addresses 0, 1 and 65535, requests of one or two items, both ways of addressing | type, ranges, reads and writes through the slave, as the code addresses them (418,496 states) |
| `router` | three names of masters, run or polled, `recoveryLink` on and off, masters opened by hand or not | type; a reachable router has its masters open, a failed or closed one releases them, one thread at a time walks over them |
| `close_hangs` | as `server`, TCP, running | `terminate()` does not return while a client is silent |
| `restart` | the same | `run()` throws the second time |
| `pdu_address` | a block of two from address 1, PDU addresses | a read returns another register |
| `blockmap` | up to four coils or registers from addresses 0 and 1, both ways of addressing | type; the number of items, also the one returned, is that of the block, but for a block that was lost; items are kept and new bits are off, whatever memory held |
| `raw_send` | masters and servers on both networks, `recoveryLink` on and off, PDUs of up to 4 bytes, 3 identifiers | type; frames are consistent and answers keep their identifier (`FrameSound`), a complete write is reported as a failure, a call can go on, retries repeat, calls return (157,872 states) |
| `block_growth` | registers | the clearing of a block that grows goes past its end |
| `shared_master` | two threads, two masters under two names, slave 1 and a number no backend accepts | type; a transaction goes to its unit, no route to an erased master, and `Exchange` is implemented |
| `frame` | both networks, up to five calls, indexes 0, 1 and 8, buffers of 13 and 19 bytes | type; what is set is read back, prepared frames are complete, with the CRC of the protocol (989,644 states) |
| `config` | some 600 documents for the four classes, a second try, then `Data` of one and two words, time-outs and reports | types; what was read of a document is in effect and nothing else; values and time-outs are those that were asked for, with the exceptions named above; reports are those of the device (122,913 states) |

`close_hangs`, `restart`, `pdu_address` and `block_growth` are violations.

**Bounds.** `server` has no bound but its constants: the state space is finite and small. Two clients
are what it takes for one to wait in the queue while the other is connected or leaves, and for a stale
`accept()` to hold a client while another is served. One frame waits on the link at a time: a second
one would be read by the next receive. In `gateway`, two values tell a register that was copied from
one that was not, blocks of two from address 1 give requests before, in, across and after the block; a device
of two registers, with the requests' addresses 0, 1, 2 and 65535, gives addresses it has and one it does not,
and 65535 is the address that -1 becomes.
In `router`, three masters give a first, a middle and a last one to a loop that fails or is interrupted at
each of them; there is no other bound. In `blockmap`, four items let a block grow from one, two or three, so that
twice the old number is inside, at and behind the new end. In `raw_send`, 3 identifiers make the counter
wrap after three requests (2^16 in the code), and PDUs of up to 4 bytes hold two CRCs. In `shared_master`, two
masters are one to erase and one to replace it, and two threads are those of a router; masters and names are
symmetric. In `frame`, five calls (`MaxCalls`) are what it takes to set a field, set another, turn the
request into a response, set a third and prepare it; registers and bits have the indexes 0, 1 and 8 (of the first
and the second byte of bits), and the
buffers are as long as the longest PDU of these and a second CRC. Any number of calls and indexes is
covered by the proofs. In `config`, the
documents cover each network, each kind of option, masters of one and two names, slaves that are listed
twice, blocks that grow, shrink, move and go, values of each kind, and values that throw; `Retries`, `Timed`, `Accessed` and
`Reported` say after which of them the second try, the time-outs, the exchange of `Data` and the reports
happen, because these do not depend on the other documents. Seconds wrap at `UintEnd`, 3000000
instead of 2^32, so that TLC can compute the microseconds. Deadlock is checked in
all runs but those of the server and the router, because the process may end there (an exception in the daemon),
and `frame`, where the calls end.

**Fairness.** `LiveSpec` of `Server` is weak fairness of the steps of each thread: the operating system
runs a thread that is not blocked. Nothing is assumed of the application's calls or of the peers.
`TalkativeSpec` adds that a peer which is connected does not stay silent for ever: without it
`TerminateAlwaysReturns` is false (run `close_hangs`), and with it `TerminateReturns` holds, except for
TCP servers with `recoveryLink`, where a recovery may listen again behind the shutdown; that case is
excluded in the property itself. `LiveSpec` of `RawSend` is weak
fairness of the steps of the thread that is in `sendRawMessage`: its system calls and pauses end. The network
owes nothing; `SendReturns` speaks of behaviours in which its trouble ends, and its exception is the link that the
call does not bring back and that stays so for ever (`Hopeless`): the serial adapter that was unplugged, which no error
reopens, and the TCP server, which listens again and to which no client connects.

## Disagreements with the documentation

`findings` in `PROJECT.json` quotes each line. The first four are violated by a run of their own; the others are
exceptions which a property that holds states by name, so that nothing else can hide behind them.

| Where | The documentation | The code | Property |
|---|---|---|---|
| `server.cpp:196` | `terminate` shuts the connection down and stops the server | it waits for a silent client | `TerminateAlwaysReturns` |
| `server.cpp:174` | `run` starts the server | it throws the second time | `RunStarts` |
| `bufferedslave.cpp:136` | requested data is actually read | of address 0 or 65535 | `ReadThrough`, and what holds: `ReadAsAsked` |
| `bufferedslave.cpp:851` | the block has the items asked for | growth is cleared behind its end | `WritesStayInBlock` |
| `server.cpp:336` | reconnection when the connection is reset by peer | also when the link is well and a frame was torn or none came in time | `DaemonRecovery` |
| `server.cpp:390` | provided data is actually written | after the answer, to address 0 or 65535, without a look at the result; 0x16 and 0x17 never | `WriteAsAsked` |
| `bufferedslave.cpp:109` | requested data is read into the buffer | in front of a block that is still empty | `TransfersInBlock` |
| `bufferedslave.cpp:771` | `setBlock` returns the items actually allocated | after a failed `realloc`, the old number without a block | `BlockAllocated` |
| `device.cpp:409` | `sendRawMessage` returns the full length if successful | -1 | `CompleteWriteFails` |
| `device.cpp:396` | reconnection when the connection is reset | a TCP server listens, and goes on writing without a socket | `SendReturns` |
| `response.cpp:132` | bits of a response behind its byte count | over the function code and the byte count | `ReadsBack` |
| `data.h:384` | texts of signed integers and long doubles are converted | they come out as 0 | `ValuesInPlace` (`Lost`) |
| `json_p.h:136` | the initial values are those of the table | of the first address there is | `ValuesInPlace` (`TooLow`) |

## Proofs

`ServerProofs`: `TypeCorrect`, then the inductive invariant `IInv`, whose parts say where each thread can
be for each point of the others (`WhoIsWhere`: a pending receive of `poll()` and a daemon exclude each
other, a thread that handles a result has no receive of its own, a daemon exists in
an open server only), which state of the promise goes with which state of the daemon (`PromiseState`), what is left when the server is closed (`ClosedState`) or destroyed (`DestroyedState`), and that the
daemon's `errno` is that of its last receive (`ErrnoIsCurrent`). None of the properties is inductive
without them. From it follow `ReqExclusive`, `PromiseSetOnce`, `ClosedIsQuiet` and the
action properties `DaemonRecovery` and `RequestNotDropped`. The assumptions are `ServerAssumption` (the constants are distinct and
the setups well formed) and `OneService`.

The second half of `ServerProofs` proves the liveness properties, from `LiveSpec` or `TalkativeSpec` as they are. It needs more of the states
(`LInv`): what a link may be while threads accept or open it (`LinkState`), what the daemon can count on where it
is (`DaemonState`: it leaves its loop only when the promise is set, and has a result when it dispatches), and that only
recovery opens a socket again during a shutdown (`ReopenState`). The points of the
daemon, and of the task that the destructor waits for, get names (`Looping`, `Checking`, `Reading`, ...). `OthersLeave`
says that other threads do not move a thread, `DaemonMoves` where its next step leads, `DaemonLeaves` that its step does
leave the point. PTL puts these together with the fairness of the thread. `RequestReadCorrect`: as long as a frame waits the daemon comes round to
`modbus_receive`. `LinkRecoveredCorrect`: what is left on a lost link is read first (`WireRead`), then the daemon comes
round to an error and closes the link (`DrainedLeft`). `TerminateReturnsCorrect`: a receive that is pending
ends (`JoiningReceives`) because the link is shut down or a peer speaks and nobody else connects a silent one
(`NotSilentAgain`), then the daemon leaves its loop (`JoiningReturns`) and the call goes on to its end (`Dropped`).

These theorems have a hypothesis, `[]StepsEnabled`: a thread that is not blocked can take a step, and a connected peer
can speak. Weak fairness asks for a step only where it is `ENABLED`, and the prover has no rule that computes `ENABLED` of an action.
`StepsEnabled` is a formula about states, one of the `INVARIANTS` of `MCServer_all.cfg`: TLC finds it true in
all states of the run, and false when a step is taken out of `task()` (its mutant).

`GatewayProofs`: `Clamp` shows that clamping a request gives a range of at least one item inside the
block, which is the request's own when that lies in the block, or one item in front of an empty block; type
correctness follows, with `TransfersInBlock`. `DeviceAddressType` computes the address the device is asked for, and
`InPlace` finds it to be `AskedAt` the request's own address when the request lies in the block. `ReadAsAskedCorrect` and
`WriteAsAskedCorrect` follow from `IInv`: between the fetch and the answer the block holds what the device gave
(`Copied`), a request that reaches `Store` with an `"ok"` lies in the block (`Answered`), and the process ends over an empty
block only (`DeadIsEmpty`). They hold for both ways of addressing, because they speak of the address the code
asks for; `ReadThrough`, which speaks of the one it should ask for, is false (run `pdu_address`).

`RouterProofs`: type correctness, then `IInv`: a thread opens or undoes only with the server's link closed
(`WalkersUnlinked`), the masters it has passed are open (`OpenedSoFar`) or, in a loop that closes, closed
(`ClosedSoFar`), nothing of the router is left when it is not open (`NothingWithoutOpen`), and the
application walks only without a daemon (`WalksAlone`). `ServesThroughMasters` needs all of them: it is
established by the last step of a loop that another thread must not have disturbed.
`ClosedRouterReleases` and `OneWalker` follow, for any number of masters (`RouterAssumption`).

`BlockMapProofs`: the invariant is `TypeOK` with `BlockAllocated`; together they make `count` the size of the
block wherever `Resize` reads it. `ResizeSoundCorrect` follows from it: the clearing
starts at or behind `count`, and for bits exactly there. Their assumption, `BlockMapAssumption`, is that the bounds
are numbers and 0 is a value.

`RawSendProofs`: the four invariants of the run together are inductive. `CompletedSound` is the lemma they
rest on: `prepareToSend` makes a consistent frame of any message that has a PDU, and keeps the identifier of a
response. `CompleteWriteFails` is inductive with them, because a message keeps its size while it is sent. `RawSendAssumption` asks for two identifiers at least. `SendReturnsCorrect` is the liveness property: while the
network works, the thread goes from `Flushing` to `WritingLost` or `Writing`, from `WritingLost` to `Reopening`, from there to `Writing`, and from that
to the end of the call, unless its link becomes `Hopeless` (`AttemptsApproach`), and no other thread takes it back
(`OnlyAttempts`, `StepsApproach`). Its hypothesis,
`[]AttemptEnabled`, is as `[]StepsEnabled` above: a call that has begun can go on, which is one of the `INVARIANTS` of
`MCRawSend_all.cfg`.

`SharedMasterProofs`: `Inv0` adds to the types that a context in use addresses a unit (`Addressed`), `Inv` that
two threads that use one master both have `overlap` set (`Alone`), and `OwnUnit`. With them each step of
`SharedMaster` is a step of `Exchange` or leaves its variables alone (`StepMaps`): the answer a
transaction takes is from the unit the context addresses, which is its own unless it overlaps.
`DevicesAliveCorrect` is inductive by itself, with the types. All of it holds for any threads, masters and numbers.

`FrameProofs`: `LayoutLemma` and `Disjoint` show that two fields of one PDU that do not `Overlap` share no bit, for every index, so that `Put`
leaves the others alone (`PutOther`) and gives back what it stored (`PutLemma`); the properties follow
action by action. `Crc16IsRemainder` is about every message, of any length: after each byte the two bytes that `crc16`
keeps are the high and the low byte of what is left of the division. `XorPolynomial` and `FoldedLemma` turn a shift of the division into
arithmetic; `TableLemma` then finds all 256 entries of both tables to be the residues of their bytes, each an
evaluation of its own; `ByteStep` is one byte of a message. The induction over the message takes the
least number that is not in a set (`SetInduction`), because the induction theorems of the library have an operator as
parameter; `RecursionLemma` gives the functions that `crc16` and `Remainder` define by recursion. `FrameCompleteCorrect`
takes it to every frame that `prepareToSend` completed (`CrcOfBytes`).

`ReportProofs` is about the chain from `Data` to `Report`, for any documents, numbers of groups, slaves, blocks and
values, and hosts of both byte orders; the assumptions are those of the four modules.

- `RegistersInOrder` and `ValueReadsBack` are about `Data` alone: each swap is shown to be a permutation of words
  and bytes that is its own inverse.
- `ReportAsGivenCorrect` needs `ReportInv`: the copy of each slave begins with what its device
  reported last, whatever failed since, and is no shorter. The text is the device's when the device was asked and begins
  with it when the slave had it from before.
- `TimeoutsAsAskedCorrect` needs `TimeInv`: the document that is being read is well formed and the place in it exists
  (`Reading`), and each time-out is the one last asked for (`OneTime`). `MillisecondsLemma` and `SecondsLemma` do
  the arithmetic, with `WrapLemma` for seconds that wrap at `UintEnd`, of which is assumed only that it is more than
  the microseconds of a second.
- `TypesCorrect` needs `TypesInv`, and of it `PlaceInv`: wherever setConfig is, the group, option, slave, block and value
  it is about to read are in the document. Types alone are not inductive, because a step takes what it
  stores from that place.
- `AsFarAsReadCorrect` needs `SectionInv` and `SlaveInv`. A device whose section was not reached has nothing set
  (`Unread`, `Bare`), there is no slave before the backend of the object, and the object has a backend from then on; so a
  document that is read after one that failed, which starts again only without a backend, finds nothing of the first.
  `Onward` says how the place moves, and `ReadLemma` that a move adds to what was read exactly the option or entry it
  leaves. A slave is what its last entry says, which `LastLemma` and `EntriesRead` keep track of.
- `ValuesInPlaceCorrect` is an action property. It needs `VectInv`: the items collected so far are those of the values
  before `v`, in order, cut at the quantity of the block for bits (`BitsBefore`, `ItemsBefore`). `StoredItems` is what
  a write does to a table, and `OnlyWrite` that nothing else goes on from the last value.
- `DataReadsBackCorrect` needs `DataInv`: once there was a write, no document is read any more, because a slave exists and so
  the object has its backend (`SlaveInv`, `SectionInv`); the write is in its block with the registers that
  `updateRegisters` made of each value (`Holding`); and the objects that were read from there have its values
  (`ReadAgain`). `ConcatenatedLemma` and `PositionLemma` relate the registers of the array to those of its
  objects, `ShiftLemma` the address of an object to that of the array, so that values written as an array may be read one
  by one (`ReadBack`).

So every other property of the passing runs is proved, the four liveness properties from the enabledness of the steps. That
enabledness itself (`StepsEnabled`, `AttemptEnabled`) is not proved, only checked, and the prover's temporal steps take the fairness of
`Receivers` and `Handlers` member by member, as `Fairness` lists it. The findings (`close_hangs`, `restart`, `pdu_address`,
`block_growth`) are counterexamples of TLC; the other findings are exceptions that proved properties state.

## Not modelled

- `popl.h`, a third-party option parser for the examples; the examples, tests and build files.
- Text output, `printError`, the printing, comparison and copying of messages, and the characters of serial settings,
  connections and numbers.
- `Message::crc()` and `checkMessage` of the layers, which nothing else calls; `setMessageCallback` and what the callback
  does; `SlaveReport<uint8_t>`; the RTS line around a write.
- Accesses beyond the end of a buffer and data races as such: the accesses of two threads to one variable
  are steps in some order, and calls whose meaning a race takes away (`run()` during a poll, `setBlock` during a request) are left out.
- What the notes of the components in `PROJECT.json` name.
