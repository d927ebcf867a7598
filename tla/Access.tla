------------------------------- MODULE Access -------------------------------
(***************************************************************************)
(* An application that exchanges values with the slaves of a server it has *)
(* configured: an array of Data objects and the templates of Slave and     *)
(* BufferedSlave that read and write them.                                 *)
(***************************************************************************)
EXTENDS Config

CONSTANTS
  Samples,   \* the values the application uses
  Shapes,    \* its arrays: words of a value, number of values, orders it uses
  Accessed   \* bound: the documents after which it does

ASSUME AccessAssumption ==
  /\ Samples \subseteq Seq(Word)
  /\ Shapes \subseteq [words : Nat \ {0}, nb : Nat \ {0}, orders : SUBSET Endians]
  /\ Accessed \subseteq Document

VARIABLES
  shape,   \* of the array
  obj,     \* the array: value, endianness and registers of each
  kept,    \* history: the write that the block still holds completely, if any
  fresh    \* history: the objects that were read back from there and not changed since

objVars == <<shape, obj, kept, fresh>>
allVars == <<kind, doc, at, ret, vect, device, master, slave, asked,
             shape, obj, kept, fresh>>

words == shape.words   \* sizeof (T) / 2

Datum == [value : Seq(Word), endian : Endians, registers : Seq(Word)]
NoWrite == [there |-> FALSE]
Writes == [there : {TRUE}, id : Ids, table : Registers, addr : Int,
           data : Seq([value : Seq(Word), endian : Endians])]

\* The types of Config and of the array.
AccessTypes ==
  /\ TypeOK
  /\ shape \in Shapes
  /\ obj \in Seq(Datum)
  /\ \A i \in 1 .. Len(obj) : Len(obj[i].value) = words /\ Len(obj[i].registers) = words
  /\ kept \in Writes \cup {NoWrite}
  /\ fresh \subseteq 1 .. Len(obj)

\* A Data with its registers made of its value: constructors, operator=, setEndianness.
Consistent(v, e) ==
  [value |-> v, endian |-> e, registers |-> updateRegisters(v, e)]

AccessInit ==
  /\ Init
  /\ shape \in Shapes /\ obj = <<>> /\ kept = NoWrite /\ fresh = {}

\* The configuration is done, and the application has objects.
Usable == ~Running /\ doc \in Accessed
Idle == UNCHANGED <<kind, doc, at, ret, vect, device, master, asked>>

\* An array of new objects, of value 0.
NewData(e) ==
  /\ Usable
  /\ obj' = [i \in 1 .. shape.nb |-> Consistent(Zero(words), e)]
  /\ fresh' = {}
  /\ Idle /\ UNCHANGED <<slave, shape, kept>>

\* operator=
Assign(i, v) ==
  /\ Usable /\ Len(v) = words
  /\ obj' = [obj EXCEPT ![i] = Consistent(v, @.endian)]
  /\ fresh' = fresh \ {i}
  /\ Idle /\ UNCHANGED <<slave, shape, kept>>

\* Through value(), operator T& or operator&: the registers stay behind.
AssignByReference(i, v) ==
  /\ Usable /\ Len(v) = words
  /\ obj' = [obj EXCEPT ![i].value = v]
  /\ fresh' = fresh \ {i}
  /\ Idle /\ UNCHANGED <<slave, shape, kept>>

\* Data::setEndianness
SetEndianness(i, e) ==
  /\ Usable
  /\ obj' = [obj EXCEPT ![i] = Consistent(@.value, e)]
  /\ Idle /\ UNCHANGED <<slave, shape, kept, fresh>>

\* The offset of an address in a block, and whether it is one.
Offset(i, t, addr) == pduAddress(slave[i], addr) - slave[i].table[t].start
InBlock(i, t, addr) ==
  0 <= Offset(i, t, addr) /\ Offset(i, t, addr) < Len(slave[i].table[t].items)

\* The registers of all objects, one after the other.
Concatenated(data) ==
  [j \in 1 .. Len(data) * words |->
     data[((j - 1) \div words) + 1].registers[((j - 1) % words) + 1]]

\* A mutant: the registers are written as they are.
Updated_Trusting(data) == data

\* updateRegisters() of each object.
Updated(data) == [i \in 1 .. Len(data) |-> Consistent(data[i].value, data[i].endian)]

\* writeRegisters and writeInputRegisters; writeRegister and writeInputRegister for one.
WriteData(i, t, addr) ==
  /\ Usable /\ slave[i].there /\ kind # "Master" /\ obj # <<>>
  /\ obj' = Updated(obj)
  /\ slave' = [slave EXCEPT ![i] = Stored(@, t, addr, Concatenated(obj'))]
  /\ kept' = IF /\ InBlock(i, t, addr)
                /\ Offset(i, t, addr) + Len(obj) * words <= Len(slave[i].table[t].items)
             THEN [there |-> TRUE, id |-> i, table |-> t, addr |-> addr,
                   data |-> [k \in 1 .. Len(obj) |->
                               [value |-> obj[k].value, endian |-> obj[k].endian]]]
             ELSE NoWrite
  /\ fresh' = {}
  /\ Idle /\ UNCHANGED shape

\* The registers of the block from an address on.
Register(i, t, addr, k) == slave[i].table[t].items[Offset(i, t, addr) + k]
\* BufferedSlave::readRegisters: how many there are to read, of n.
Readable(i, t, addr, n) ==
  LET left == Len(slave[i].table[t].items) - Offset(i, t, addr) IN
  IF ~InBlock(i, t, addr) THEN 0 ELSE IF n < left THEN n ELSE left

\* A Data after its registers were read: updateValue().
FromRegisters(d, r) ==
  [d EXCEPT !.value = updateValue(r, d.endian), !.registers = TurnedRegisters(r)]

\* The object number k is at the place where it was written, in the same way.
SamePlace(k, i, t, addr) ==
  /\ kept.there
  /\ kept.id = i /\ kept.table = t
  /\ k <= Len(kept.data) /\ addr = kept.addr + (k - 1) * words
  /\ obj[k].endian = kept.data[k].endian

\* readRegisters and readInputRegisters of the array: all of it or nothing.
ReadData(i, t, addr) ==
  LET n == Len(obj) * words IN
  /\ Usable /\ slave[i].there /\ kind # "Master" /\ obj # <<>>
  /\ IF Readable(i, t, addr, n) = n
     THEN /\ obj' = [k \in 1 .. Len(obj) |->
                       FromRegisters(obj[k], [w \in 1 .. words |->
                         Register(i, t, addr, (k - 1) * words + w)])]
          /\ fresh' = {k \in 1 .. Len(obj) : SamePlace(k, i, t, addr + (k - 1) * words)}
     ELSE UNCHANGED <<obj, fresh>>
  /\ Idle /\ UNCHANGED <<slave, shape, kept>>

\* readRegister and readInputRegister read into the registers of the object; its value
\* follows only when all of them were read.
ReadDatum(k, i, t, addr) ==
  LET n == Readable(i, t, addr, words)
      r == [w \in 1 .. words |->
              IF w <= n THEN Register(i, t, addr, w) ELSE obj[k].registers[w]]
  IN /\ Usable /\ slave[i].there /\ kind # "Master"
     /\ obj' = [obj EXCEPT ![k] = IF n = words THEN FromRegisters(@, r)
                                  ELSE [@ EXCEPT !.registers = r]]
     /\ fresh' = IF n = words
                 THEN IF SamePlace(k, i, t, addr) THEN fresh \cup {k} ELSE fresh \ {k}
                 ELSE fresh
     /\ Idle /\ UNCHANGED <<slave, shape, kept>>

Addresses(i, t) ==
  dataAddress(slave[i], slave[i].table[t].start - 1)
    .. dataAddress(slave[i], slave[i].table[t].start + Len(slave[i].table[t].items))

AccessStep ==
  \/ \E e \in shape.orders : NewData(e)
  \/ \E i \in 1 .. Len(obj) :
       \/ \E v \in Samples : Assign(i, v) \/ AssignByReference(i, v)
       \/ \E e \in shape.orders : SetEndianness(i, e)
  \/ \E i \in Ids, t \in Registers : \E addr \in Addresses(i, t) :
       \/ WriteData(i, t, addr) \/ ReadData(i, t, addr)
       \/ \E k \in 1 .. Len(obj) : ReadDatum(k, i, t, addr)

AccessNext == (Next /\ UNCHANGED objVars) \/ AccessStep

AccessSpec == AccessInit /\ [][AccessNext]_allVars
-----------------------------------------------------------------------------
\* Values that were written to a slave are in its block, each register on the wire as
\* global.h describes the order of its bytes and words, and an object of the same
\* order that is read from there has the value again, whatever its registers were.
DataReadsBack ==
  kept.there =>
    /\ \A i \in 1 .. Len(kept.data), k \in 1 .. words :
         InOrder(Register(kept.id, kept.table, kept.addr, (i - 1) * words + k),
                 kept.data[i].value, kept.data[i].endian, k)
    /\ \A i \in fresh : obj[i].value = kept.data[i].value
=============================================================================
