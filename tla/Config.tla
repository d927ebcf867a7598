------------------------------- MODULE Config -------------------------------
(***************************************************************************)
(* setConfig: a device, master, server or router that is set up by a JSON  *)
(* document. A document is a sequence of groups: the first describes the   *)
(* object itself, the others the masters of a router. A document has its   *)
(* mandatory keys; a value of another type than the code asks for throws   *)
(* where it is read (JsonError). Keys that are left out are Absent.        *)
(***************************************************************************)
EXTENDS Data, FiniteSets

CONSTANTS
  Kinds,      \* the classes that are set up
  Docs,       \* the documents of each class
  Retries,    \* bound: those that are tried when another one failed
  Ids,        \* numbers of slaves
  Names,      \* names of masters
  MaxGroups,  \* the most groups of a document
  MaxEntries, \* the most slaves of a group
  Heap,       \* what memory that is not cleared may hold
  UintEnd,    \* 2^32
  Times,      \* the time-outs an application sets
  Timed       \* bound: the documents after which it does

Absent == -1
Broadcast == 0
TcpSlave == 255
GroupIds == 1 .. MaxGroups
-----------------------------------------------------------------------------
(* Documents.                                                               *)

Nets == {"rtu", "tcp", "null", "other"}
\* The keys of a section in the order in which they are read.
OptionKeys == <<"recovery-link", "debug", "response-timeout", "byte-timeout",
                "mode", "rts", "rts-delay">>
SerialKeys == {"mode", "rts", "rts-delay"}
Keys == {OptionKeys[o] : o \in 1 .. 7}
Optional(S) == S \cup {Absent}

\* The numbers of a section: milliseconds are few enough for the conversion of the
\* seconds to an unsigned int to be defined.
SectionOptions ==
  {o \in [Keys -> Optional(Nat)] : \A key \in Keys : o[key] # Absent => o[key] < UintEnd}

\* baud, parity : what the settings of a serial line begin and end with
\* good : libmodbus makes a context of connection and settings
Section == [net : Nets, good : BOOLEAN, baud : Optional(Nat),
            parity : {"E", "O", "any"}, option : SectionOptions]

Tables == {"discrete-input", "coil", "input-register", "holding-register"}
Registers == {"input-register", "holding-register"}

\* The conversion of a text to an enumeration: one it does not know is the first.
FromText(x, known, first) == IF x \in known THEN x ELSE first
netOf(section) == FromText(section.net, {"rtu", "tcp", "null"}, "rtu")
tableOf(b) == FromText(b.table, Tables, "discrete-input")
typeOf(b) == FromText(b.type, Types, "uint16")
endianOf(b) == FromText(b.endian, Endians, "abcd")

\* A number or a text; good : it can be converted. value is what it says, for a
\* register; byte for bits.
Value == [text : BOOLEAN, good : BOOLEAN, value : Seq(Word), byte : 0 .. 255]

BlockRecord == [table : Tables \cup {"other"}, quantity : Nat, start : Int,
                type : Types \cup {"other"}, endian : Endians \cup {"other"},
                at : Optional(Nat), values : Seq(Value)]
Block == {b \in BlockRecord :
            tableOf(b) \in Registers =>
              \A i \in 1 .. Len(b.values) : Len(b.values[i].value) = Words(typeOf(b))}

Entry == [id : Ids, pdu : {0, 1, Absent}, blocks : Seq(Block)]
Group == [name : Names, section : Section,
          slaves : {e \in Seq(Entry) : Len(e) <= MaxEntries}]
Document == {d \in Seq(Group) : 1 <= Len(d) /\ Len(d) <= MaxGroups}

\* Microseconds of a second.
Million == 1000000

Time == [sec : 0 .. UintEnd - 1, usec : 0 .. Million - 1]

ASSUME ConfigAssumption ==
  /\ Kinds \subseteq {"Device", "Master", "Server", "Router"}
  /\ MaxGroups \in Nat \ {0} /\ MaxEntries \in Nat /\ UintEnd \in Nat /\ UintEnd > Million
  /\ {Broadcast, TcpSlave} \subseteq Ids /\ Ids \subseteq Int
  /\ Docs \in [Kinds -> SUBSET Document]
  /\ Retries \subseteq Document /\ Timed \subseteq Document
  /\ Heap \subseteq Word /\ Heap # {}
  /\ Times \subseteq [s : 0 .. UintEnd - 1, us : 0 .. UintEnd - 1]
-----------------------------------------------------------------------------
VARIABLES
  kind,     \* the class of the object
  doc,      \* the document of the last setConfig
  at,       \* where the reading of the document is, or where it ended
  ret,      \* "new", "running", or how the last setConfig ended
  vect,     \* the items that the values of a block gave so far
  device,   \* the object and, in a router, its masters, by group
  master,   \* Router::Private::master: the group of a name, or 0
  slave,    \* the slaves of the object
  asked     \* history: the time-outs that were set, as they were asked for

vars == <<kind, doc, at, ret, vect, device, master, slave, asked>>

Timeouts == {"response-timeout", "byte-timeout", "indication-timeout"}
\* any-unit : the context takes requests to every slave, not to its own only.
Flags == {"recovery-link", "error-recovery", "debug", "any-unit"} \cup SerialKeys

Device == [net : {"none", "rtu", "tcp"}, baud : Nat, parity : {"E", "O", "N"},
           stop : {1, 2}, unit : Ids \cup {Absent}, flag : [Flags -> Nat],
           timeout : [Timeouts -> Time]]
Items == [start : Int, items : Seq(Word)]
Slave == [there : BOOLEAN, device : 0 .. MaxGroups, pdu : BOOLEAN,
          table : [Tables -> Items]]
Steps == {"backend", "option", "slave", "pdu", "block", "value", "master", "end"}
Place == [g : 1 .. MaxGroups + 1, o : 1 .. 8, s : Nat, b : Nat, v : Nat, step : Steps]

TypeOK ==
  /\ kind \in Kinds
  /\ doc \in Document \/ doc = <<>>
  /\ at \in Place
  /\ ret \in {"new", "running", "true", "thrown"}
  /\ vect \in Seq(Word)
  /\ device \in [GroupIds -> Device]
  /\ master \in [Names -> 0 .. MaxGroups]
  /\ slave \in [Ids -> Slave]
  /\ asked \in [GroupIds -> [Timeouts -> [s : Nat, us : Nat]]]

\* Device::Private::Private, and the time-outs of a new libmodbus context.
NoDevice ==
  [net |-> "none", baud |-> 0, parity |-> "N", stop |-> 1, unit |-> Absent,
   flag |-> [f \in Flags |-> 0],
   timeout |-> [t \in Timeouts |->
                  [sec |-> 0,
                   usec |-> IF t = "indication-timeout" THEN 0 ELSE 500000]]]

\* BufferedSlave::Private::Private: modbus_mapping_new (0, 0, 0, 0).
NoSlave ==
  [there |-> FALSE, device |-> 0, pdu |-> FALSE,
   table |-> [t \in Tables |-> [start |-> 0, items |-> <<>>]]]

FirstPlace == [g |-> 1, o |-> 1, s |-> 1, b |-> 1, v |-> 1, step |-> "backend"]

Init ==
  /\ kind \in Kinds
  /\ doc = <<>>
  /\ at = FirstPlace
  /\ ret = "new"
  /\ vect = <<>>
  /\ device = [g \in GroupIds |-> NoDevice]
  /\ master = [n \in Names |-> 0]
  /\ slave = [i \in Ids |-> NoSlave]
  /\ asked = [g \in GroupIds |-> [t \in Timeouts |->
                [s |-> 0, us |-> NoDevice.timeout[t].usec]]]
-----------------------------------------------------------------------------
(* The call.                                                                *)

isValid(g) == device[g].net # "none"
Net(g) == IF isValid(g) THEN device[g].net ELSE "none"
\* Device::rtu throws for another network.
IsRtu(g) == Net(g) = "rtu"
Running == ret = "running"
AtStep(x) == Running /\ at.step = x

\* A router reads all the groups, the others their own only; a device has no slaves,
\* and the slaves of a router belong to its masters.
Groups == IF kind = "Router" THEN Len(doc) ELSE 1
HasSlaves(g) == \/ kind \in {"Master", "Server"} /\ g = 1
                \/ kind = "Router" /\ g > 1
IsMaster(g) == kind = "Master" \/ g > 1

\* Device::setConfig, or the constructor, of an object that has no backend.
SetConfig ==
  /\ ~Running /\ ~isValid(1)
  /\ doc' \in IF ret = "new" THEN Docs[kind] ELSE Retries
  /\ at' = FirstPlace
  /\ ret' = "running"
  /\ vect' = <<>>
  /\ UNCHANGED <<kind, device, master, slave, asked>>

\* One that has a backend is left as it is.
SetConfigRefused ==
  /\ ~Running /\ isValid(1)
  /\ UNCHANGED vars

\* The file cannot be opened.
CannotOpen ==
  /\ ~Running /\ ~isValid(1)
  /\ ret' = "thrown"
  /\ UNCHANGED <<kind, doc, at, vect, device, master, slave, asked>>

\* An exception ends the call; what it did before stays.
Throw ==
  /\ ret' = "thrown"
  /\ UNCHANGED <<kind, doc, at, vect, device, master, slave, asked>>

\* A value in the document has another type than the one that is asked for.
JsonError == Running /\ Throw

Goto(p) ==
  /\ at' = p
  /\ ret' = IF p.step = "end" THEN "true" ELSE "running"

\* The loop over the masters.
ToGroup(g) ==
  [FirstPlace EXCEPT !.g = g, !.step = IF g > Groups THEN "end" ELSE "master"]
ToSlave(g, s) ==
  IF HasSlaves(g) /\ s <= Len(doc[g].slaves)
  THEN [FirstPlace EXCEPT !.g = g, !.o = 8, !.s = s, !.step = "slave"]
  ELSE ToGroup(g + 1)
-----------------------------------------------------------------------------
(* A section: the backend and its options.                                  *)

\* Router::addMaster: a master under a name in use goes.
AddMaster ==
  /\ AtStep("master")
  /\ master' = [master EXCEPT ![doc[at.g].name] = at.g]
  /\ Goto([at EXCEPT !.step = "backend"])
  /\ UNCHANGED <<kind, doc, vect, device, slave, asked>>

\* RtuLayer::baud, parity and stop.
Line(section) ==
  LET parity == IF section.parity = "any" THEN "N" ELSE section.parity IN
  [baud |-> IF section.baud = Absent THEN 19200 ELSE section.baud,
   parity |-> parity,
   stop |-> IF parity = "N" THEN 2 ELSE 1]

\* A serial line with the settings of the section, and a server that listens on it.
OnLine(d, section) ==
  [d EXCEPT !.net = "rtu", !.baud = Line(section).baud,
            !.parity = Line(section).parity, !.stop = Line(section).stop]
IsServer(g) == kind \in {"Server", "Router"} /\ g = 1
Listening(g, d) ==
  IF IsServer(g) /\ d.net = "rtu" THEN [d EXCEPT !.flag["any-unit"] = 1] ELSE d

\* Device::Private::setBackend: the constructors of TcpLayer and RtuLayer.
WithBackend(d, section) ==
  IF netOf(section) = "rtu" THEN OnLine(d, section)
  ELSE [d EXCEPT !.net = "tcp", !.unit = TcpSlave]

\* Master::Private::setBackend adds a slave for the network as a whole.
SetBackend ==
  /\ AtStep("backend")
  /\ LET section == doc[at.g].section
         own == IF netOf(section) = "rtu" THEN Broadcast ELSE TcpSlave
     IN /\ section.good /\ netOf(section) # "null"
        /\ device' = [device EXCEPT ![at.g] =
                        IF IsMaster(at.g)
                        THEN [WithBackend(@, section) EXCEPT !.unit = own]
                        ELSE Listening(at.g, WithBackend(@, section))]
        /\ slave' = IF kind = "Master"
                    THEN [slave EXCEPT ![own] = [@ EXCEPT !.there = TRUE, !.device = at.g]]
                    ELSE slave
  /\ Goto([at EXCEPT !.step = "option"])
  /\ UNCHANGED <<kind, doc, vect, master, asked>>

\* No network, or no context for it: the object keeps no backend.
NoBackend ==
  /\ AtStep("backend")
  /\ ~doc[at.g].section.good \/ netOf(doc[at.g].section) = "null"
  /\ Throw

\* Timeout::setValue (double) of a number of milliseconds: the fraction that is left in
\* floating point may be a little less than it should be.
FromMilliseconds(ms) ==
  LET us == (ms % 1000) * 1000 IN
  {[sec |-> ms \div 1000, usec |-> u] : u \in {us} \cup ({us - 1} \cap Nat)}

\* A mutant: microseconds are kept as they come.
FromSeconds_Uncut(s, us) == [sec |-> s, usec |-> us]

\* A mutant: the seconds in the microseconds are lost.
FromSeconds_NoCarry(s, us) == [sec |-> s, usec |-> us % Million]

\* Timeout::setValue (uint32_t, uint32_t).
FromSeconds(s, us) ==
  [sec |-> (s + (us \div Million)) % UintEnd, usec |-> us % Million]

\* modbus_set_response_timeout refuses to wait no time at all.
Accepts(key, t) == ~(key = "response-timeout" /\ t.sec = 0 /\ t.usec = 0)
WithTimeout(d, key, t) ==
  IF Accepts(key, t) THEN [d EXCEPT !.timeout[key] = t] ELSE d
AskedFor(g, key, t, a) ==
  IF Accepts(key, t) THEN [asked EXCEPT ![g][key] = a] ELSE asked

\* Device::setRecoveryLink; Master::setRecoveryLink tells the context too.
WithFlag(g, d, key, v) ==
  IF key = "recovery-link" /\ IsMaster(g)
  THEN [d EXCEPT !.flag = [@ EXCEPT ![key] = v, !["error-recovery"] = v]]
  ELSE [d EXCEPT !.flag = [@ EXCEPT ![key] = v]]

AfterOption ==
  IF at.o < 7 THEN [at EXCEPT !.o = at.o + 1] ELSE ToSlave(at.g, 1)

\* A key that is not there; "rtu" matters for a serial line only.
SkipOption ==
  /\ AtStep("option")
  /\ LET key == OptionKeys[at.o] IN
       \/ doc[at.g].section.option[key] = Absent
       \/ key \in SerialKeys /\ ~IsRtu(at.g)
  /\ Goto(AfterOption)
  /\ UNCHANGED <<kind, doc, vect, device, master, slave, asked>>

\* Device::setRecoveryLink and Device::setDebug.
SetSwitch ==
  /\ AtStep("option")
  /\ LET key == OptionKeys[at.o]
         v == doc[at.g].section.option[key]
     IN /\ v # Absent /\ key \in {"recovery-link", "debug"}
        /\ device' = [device EXCEPT ![at.g] = WithFlag(at.g, @, key, v)]
  /\ Goto(AfterOption)
  /\ UNCHANGED <<kind, doc, vect, master, slave, asked>>

\* RtuLayer::setSerialMode, setRts and setRtsDelay, which the driver may refuse: the
\* result is dropped.
SetSerial ==
  /\ AtStep("option")
  /\ LET key == OptionKeys[at.o]
         v == doc[at.g].section.option[key]
     IN /\ v # Absent /\ key \in SerialKeys /\ IsRtu(at.g)
        /\ device' \in {device, [device EXCEPT ![at.g].flag[key] = v]}
  /\ Goto(AfterOption)
  /\ UNCHANGED <<kind, doc, vect, master, slave, asked>>

SetTimeout ==
  /\ AtStep("option")
  /\ LET key == OptionKeys[at.o]
         v == doc[at.g].section.option[key]
     IN /\ v # Absent /\ key \in Timeouts
        /\ \E t \in FromMilliseconds(v) :
             /\ device' = [device EXCEPT ![at.g] = WithTimeout(@, key, t)]
             /\ asked' = AskedFor(at.g, key, t, [s |-> 0, us |-> v * 1000])
  /\ Goto(AfterOption)
  /\ UNCHANGED <<kind, doc, vect, master, slave>>

\* Device::setResponseTimeout, setByteTimeout and setIndicationTimeout, called by the
\* application on a device that has a backend.
AppSetTimeout(g, key, a) ==
  /\ ~Running /\ isValid(g) /\ doc \in Timed
  /\ LET t == FromSeconds(a.s, a.us) IN
       /\ device' = [device EXCEPT ![g] = WithTimeout(@, key, t)]
       /\ asked' = AskedFor(g, key, t, a)
  /\ UNCHANGED <<kind, doc, at, ret, vect, master, slave>>
-----------------------------------------------------------------------------
(* A slave.                                                                 *)

TheEntry == doc[at.g].slaves[at.s]

\* modbus_set_slave
Accepted(net, id) == id \in 0 .. 247 \/ (net = "tcp" /\ id = TcpSlave)

\* A mutant: a slave that is there keeps its device.
AddSlave_Kept ==
  /\ AtStep("slave")
  /\ Accepted(device[1].net, TheEntry.id)
  /\ device' = [device EXCEPT ![1].unit = TheEntry.id]
  /\ slave' = [slave EXCEPT ![TheEntry.id] =
                 IF @.there THEN @
                 ELSE [@ EXCEPT !.there = TRUE, !.device = IF kind = "Server" THEN 0 ELSE at.g]]
  /\ Goto([at EXCEPT !.step = "pdu"])
  /\ UNCHANGED <<kind, doc, vect, master, asked>>

\* Server::addSlave gives a slave that is there already to the new device; that of
\* a server is none, and a master has only itself. The number goes through the context
\* of the object, for the slaves of a router's masters too.
AddSlave ==
  /\ AtStep("slave")
  /\ Accepted(device[1].net, TheEntry.id)
  /\ device' = [device EXCEPT ![1].unit = TheEntry.id]
  /\ slave' = [slave EXCEPT ![TheEntry.id] =
                 [@ EXCEPT !.there = TRUE, !.device = IF kind = "Server" THEN 0 ELSE at.g]]
  /\ Goto([at EXCEPT !.step = "pdu"])
  /\ UNCHANGED <<kind, doc, vect, master, asked>>

AddSlaveRefused ==
  /\ AtStep("slave")
  /\ ~Accepted(device[1].net, TheEntry.id)
  /\ Throw

\* The slaves of a master have no blocks.
ToBlock(b) ==
  IF kind # "Master" /\ b <= Len(TheEntry.blocks)
  THEN [at EXCEPT !.b = b, !.v = 1, !.step = "block"]
  ELSE ToSlave(at.g, at.s + 1)

\* setConfig of a Slave: its number, which is the one it was added with, and
\* "pdu-adressing".
SetPduAddressing ==
  /\ AtStep("pdu")
  /\ slave' = IF TheEntry.pdu = Absent THEN slave
              ELSE [slave EXCEPT ![TheEntry.id].pdu = TheEntry.pdu = 1]
  /\ Goto(ToBlock(1))
  /\ UNCHANGED <<kind, doc, vect, device, master, asked>>
-----------------------------------------------------------------------------
(* A block of a slave and its values.                                       *)

TheBlock == TheEntry.blocks[at.b]
TheSlave == slave[TheEntry.id]

pduAddress(s, addr) == addr - (IF s.pdu THEN 0 ELSE 1)
dataAddress(s, addr) == addr + (IF s.pdu THEN 0 ELSE 1)

\* setBlock: n items in place of those there are. New bits are off and so are the
\* registers of a first block; those a block grows by hold what was in memory, up to
\* twice its length.
Resized(table, old, n) ==
  LET stale == IF table \in Registers /\ Len(old) > 0
               THEN {i \in 1 .. n : Len(old) < i /\ i <= 2 * Len(old)} ELSE {}
  IN {[i \in 1 .. n |-> IF i <= Len(old) THEN old[i]
                        ELSE IF i \in stale THEN h[i] ELSE ZeroWord] : h \in [stale -> Heap]}

\* The quantity counts values of the type of the block, bits too.
BlockSize(b) == b.quantity * Words(typeOf(b))

\* A starting address that is not there, or is negative, is the first one.
BlockStart(s, b) ==
  pduAddress(s, IF b.start < 0 THEN dataAddress(s, 0) ELSE b.start)

ToValues == IF TheBlock.values # <<>> /\ TheBlock.quantity > 0
            THEN [at EXCEPT !.v = 1, !.step = "value"] ELSE ToBlock(at.b + 1)

SetBlock ==
  /\ AtStep("block")
  /\ LET t == tableOf(TheBlock) IN
       \E items \in Resized(t, TheSlave.table[t].items, BlockSize(TheBlock)) :
         slave' = [slave EXCEPT ![TheEntry.id].table[t] =
                     [start |-> BlockStart(TheSlave, TheBlock), items |-> items]]
  /\ vect' = <<>>
  /\ Goto(ToValues)
  /\ UNCHANGED <<kind, doc, device, master, asked>>

TheValue == TheBlock.values[at.v]
IsRegister(b) == tableOf(b) \in Registers

\* getBitValues stops when it has the bits the block has room for.
AllRead ==
  \/ at.v > Len(TheBlock.values)
  \/ ~IsRegister(TheBlock) /\ Len(vect) >= TheBlock.quantity

\* getDataValues: a text that cannot be converted is 0.
DataOf(b, v) ==
  updateRegisters(IF v.text /\ ~(v.good /\ strToT(typeOf(b))) THEN Zero(Words(typeOf(b)))
                  ELSE v.value, endianOf(b))

Bit(n, i) == <<0, (n \div (2 ^ i)) % 2>>

\* getBitValues: a text is a byte, the least significant bit first.
BitsOf(v, room) ==
  [i \in 1 .. (IF ~v.text THEN 1 ELSE IF room < 8 THEN room ELSE 8) |-> Bit(v.byte, i - 1)]

ReadValue ==
  /\ AtStep("value") /\ ~AllRead
  /\ TheValue.good \/ (IsRegister(TheBlock) /\ TheValue.text)
  /\ vect' = vect \o (IF IsRegister(TheBlock) THEN DataOf(TheBlock, TheValue)
                      ELSE BitsOf(TheValue, TheBlock.quantity - Len(vect)))
  /\ Goto([at EXCEPT !.v = at.v + 1])
  /\ UNCHANGED <<kind, doc, device, master, slave, asked>>

\* Numbers that are no bits, texts that are no bytes, and values of a register of
\* another type than its own throw.
BadValue ==
  /\ AtStep("value") /\ ~AllRead
  /\ ~TheValue.good /\ ~(IsRegister(TheBlock) /\ TheValue.text)
  /\ Throw

\* memcpy into the block, cut at its end.
Written(items, offset, v) ==
  [i \in 1 .. Len(items) |->
     IF offset < i /\ i <= offset + Len(v) THEN v[i - offset] ELSE items[i]]

\* BufferedSlave::writeCoils .. writeInputRegisters of a slave whose device is closed:
\* nothing is written at an address outside the block.
Stored(s, t, addr, v) ==
  LET old == s.table[t]
      offset == pduAddress(s, addr) - old.start
  IN IF 0 <= offset /\ offset < Len(old.items)
     THEN [s EXCEPT !.table[t] = [old EXCEPT !.items = Written(old.items, offset, v)]]
     ELSE s

\* Where the values go: to the first address unless the document has another.
ValuesAddress(s, b) == IF b.at = Absent THEN dataAddress(s, 0) ELSE b.at

\* Json::writeBits and Json::writeRegisters.
WriteValues ==
  /\ AtStep("value") /\ AllRead
  /\ slave' = [slave EXCEPT ![TheEntry.id] =
                 Stored(@, tableOf(TheBlock), ValuesAddress(@, TheBlock), vect)]
  /\ Goto(ToBlock(at.b + 1))
  /\ UNCHANGED <<kind, doc, vect, device, master, asked>>
-----------------------------------------------------------------------------
Next ==
  \/ SetConfig \/ SetConfigRefused \/ CannotOpen \/ JsonError
  \/ AddMaster \/ SetBackend \/ NoBackend
  \/ SkipOption \/ SetSwitch \/ SetSerial \/ SetTimeout
  \/ AddSlave \/ AddSlaveRefused \/ SetPduAddressing
  \/ SetBlock \/ ReadValue \/ BadValue \/ WriteValues
  \/ \E g \in GroupIds, key \in Timeouts, a \in Times : AppSetTimeout(g, key, a)

Spec == Init /\ [][Next]_vars
-----------------------------------------------------------------------------
(* Properties.                                                              *)

\* How far the document was read: option o of group g, entry s of its slaves, and the
\* "pdu-adressing" of that.
OptionRead(g, o) ==
  at.g > g \/ (at.g = g /\ at.o > o)
EntryRead(g, s) ==
  at.g > g \/ (at.g = g /\ (at.s > s \/ (at.s = s /\ at.step \in {"pdu", "block", "value"})))
PduRead(g, s) ==
  at.g > g \/ (at.g = g /\ (at.s > s \/ (at.s = s /\ at.step \in {"block", "value"})))

Entries == {p \in GroupIds \X (1 .. MaxEntries) :
              p[1] <= Groups /\ HasSlaves(p[1]) /\ p[2] <= Len(doc[p[1]].slaves)}
EntryAt(p) == doc[p[1]].slaves[p[2]]
NotAfter(p, q) == p[1] < q[1] \/ (p[1] = q[1] /\ p[2] <= q[2])
Last(S) == CHOOSE p \in S : \A q \in S : NotAfter(q, p)

\* The options of a section have the values of the document as far as it was read, and
\* what they are without it beyond; the driver of a serial line may keep its own. A
\* server, and no master, hears all the slaves of its serial line.
SectionAsRead(g) ==
  LET section == doc[g].section  d == device[g] IN
  /\ \A o \in 1 .. 7 :
       LET key == OptionKeys[o] IN
       key \notin Timeouts =>
         IF OptionRead(g, o) /\ section.option[key] # Absent
              /\ (key \in SerialKeys => d.net = "rtu")
         THEN \/ d.flag[key] = section.option[key]
              \/ key \in SerialKeys /\ d.flag[key] = 0
         ELSE d.flag[key] = 0
  /\ d.flag["any-unit"] = 1 <=> d.net = "rtu" /\ IsServer(g)

\* A slave is there when the document, as far as it was read, has it. It belongs to
\* the last master it is listed under, and uses the addresses that were said last.
SlaveAsRead(i) ==
  LET named == {p \in Entries : EntryAt(p).id = i /\ EntryRead(p[1], p[2])}
      said == {p \in Entries : EntryAt(p).id = i /\ PduRead(p[1], p[2])
                                 /\ EntryAt(p).pdu # Absent}
      own == kind = "Master" /\ isValid(1)
               /\ i = IF device[1].net = "rtu" THEN Broadcast ELSE TcpSlave
  IN /\ slave[i].there <=> named # {} \/ own
     /\ slave[i].device = IF named # {} /\ kind # "Server" THEN Last(named)[1]
                          ELSE IF own THEN 1 ELSE 0
     /\ slave[i].pdu <=> said # {} /\ EntryAt(Last(said)).pdu = 1

\* Wherever an exception ends setConfig, the object has what the document says up to
\* there and nothing of the rest.
AsFarAsRead ==
  doc # <<>> =>
    /\ \A g \in 1 .. Groups : SectionAsRead(g)
    /\ \A i \in Ids : SlaveAsRead(i)

\* What a value of a block of registers means, for every "data-type": a text that is no
\* number means 0.
Meant(b, v) == IF v.text /\ ~v.good THEN Zero(Words(typeOf(b))) ELSE v.value

\* The values that are lost: texts that say a number of a type of which the comment of
\* strToT says that it is converted, and the code converts none. They come out as 0.
Lost(b, v) == v.text /\ v.good /\ typeOf(b) \in Signed \cup {"longdouble"}
Kept(b, v) == IF Lost(b, v) THEN Zero(Words(typeOf(b))) ELSE Meant(b, v)

\* The bits before value i of a block.
BitsBefore(b, i) ==
  8 * Cardinality({j \in 1 .. i - 1 : b.values[j].text})
    + Cardinality({j \in 1 .. i - 1 : ~b.values[j].text})

\* Item number j of those the values of block b stand for is w.
IsItem(b, j, w) ==
  IF IsRegister(b)
  THEN LET n == Words(typeOf(b))
           i == ((j - 1) \div n) + 1
       IN i <= Len(b.values) /\ InOrder(w, Kept(b, b.values[i]), endianOf(b), ((j - 1) % n) + 1)
  ELSE /\ j <= b.quantity
       /\ \E i \in 1 .. Len(b.values) :
            LET k == j - 1 - BitsBefore(b, i) IN
            /\ 0 <= k /\ k < (IF b.values[i].text THEN 8 ELSE 1)
            /\ w[2] = (b.values[i].byte \div (2 ^ k)) % 2

\* The number of them.
ItemCount(b) ==
  IF IsRegister(b) THEN Len(b.values) * Words(typeOf(b))
  ELSE LET n == BitsBefore(b, Len(b.values) + 1) IN IF n < b.quantity THEN n ELSE b.quantity

\* Where the values of block b belong: from "values-address" on, or from the first item.
FirstItem(s, b) ==
  IF b.at = Absent THEN 0 ELSE pduAddress(s, b.at) - s.table[tableOf(b)].start

\* How much too low they are put: without "values-address" they go to the first address
\* of the Modbus tables, whatever the block's "starting-address" is.
TooLow(s, b) == IF b.at = Absent THEN s.table[tableOf(b)].start ELSE 0

\* The values of a block are in its items, one after the other from "values-address"
\* on, registers in the order of bytes and words that the block asks for; other items
\* of the slave are as they were. The exceptions are the texts that are Lost, and a block
\* that starts elsewhere than the tables do and has no "values-address": its values are
\* TooLow, that is dropped altogether when it starts higher.
ValuesInPlace ==
  [][AtStep("value") /\ AllRead /\ at' # at =>
       LET b == TheBlock
           t == tableOf(b)
           old == TheSlave.table[t]
           new == slave'[TheEntry.id].table[t]
           first == FirstItem(TheSlave, b) - TooLow(TheSlave, b)
           inside == 0 <= first /\ first < Len(old.items)
       IN /\ Len(new.items) = Len(old.items)
          /\ \A p \in 1 .. Len(old.items) :
               IF inside /\ first < p /\ p <= first + ItemCount(b)
               THEN IsItem(b, p - first, new.items[p])
               ELSE new.items[p] = old.items[p]]_vars

\* The time-out a device has is the one that was asked for last, by the document or by
\* the application, to a microsecond; seconds wrap like the code's unsigned integers.
TimeoutsAsAsked ==
  \A g \in GroupIds, key \in Timeouts :
    LET t == device[g].timeout[key]  a == asked[g][key] IN
    /\ t.usec < Million /\ Accepts(key, t)
    /\ ((t.sec - a.s) % UintEnd) * Million + t.usec \in {a.us, a.us - 1}
=============================================================================
