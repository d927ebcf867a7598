-------------------------------- MODULE Data --------------------------------
(***************************************************************************)
(* swap.h and data.h: how an arithmetic value becomes Modbus registers and *)
(* back. A value is its image in memory, byte after byte, in pairs; so is  *)
(* a register. LittleHost is the byte order of the machine. What a text    *)
(* says, and what the bytes of a float mean, is left out.                  *)
(***************************************************************************)
EXTENDS Integers, Sequences

CONSTANTS
  LittleHost,   \* __BYTE_ORDER == __LITTLE_ENDIAN
  Byte          \* the values of a byte

ASSUME DataAssumption == LittleHost \in BOOLEAN /\ {0, 1} \subseteq Byte

Word == Byte \X Byte
Number(n) == [1 .. n -> Word]

ZeroWord == <<0, 0>>
Zero(n) == [k \in 1 .. n |-> ZeroWord]
-----------------------------------------------------------------------------
(* swap.h                                                                   *)

Flip(w) == <<w[2], w[1]>>

\* Reverse the bytes, the words, and the bytes of each word.
swapBytes(v) == [k \in 1 .. Len(v) |-> Flip(v[Len(v) + 1 - k])]
swapWords(v) == [k \in 1 .. Len(v) |-> v[Len(v) + 1 - k]]
swapBytesInWords(v) == [k \in 1 .. Len(v) |-> Flip(v[k])]

\* From the order of the host to that of the network, and back; of one register.
hton(v) == IF LittleHost THEN swapBytes(v) ELSE v
ntoh(v) == IF LittleHost THEN swapBytes(v) ELSE v
ntohWord(w) == IF LittleHost THEN Flip(w) ELSE w
-----------------------------------------------------------------------------
(* class Data                                                               *)

\* EndianBigBig, EndianBigLittle, EndianLittleBig, EndianLittleLittle.
Endians == {"abcd", "cdab", "badc", "dcba"}

\* A mutant: the words stay where they are.
swap_WordsKept(e, v) ==
  CASE e = "abcd" -> v
    [] e = "cdab" -> swapWords(v)
    [] e = "badc" -> swapBytesInWords(v)
    [] e = "dcba" -> swapBytesInWords(v)

swap(e, v) ==
  CASE e = "abcd" -> v
    [] e = "cdab" -> swapWords(v)
    [] e = "badc" -> swapBytesInWords(v)
    [] e = "dcba" -> swapBytes(v)

\* The registers of a value: m_registers after updateRegisters().
updateRegisters(v, e) ==
  LET net == swap(e, hton(v)) IN [k \in 1 .. Len(v) |-> ntohWord(net[k])]

\* updateValue() turns the registers it was given in place and leaves them so.
TurnedRegisters(r) == [k \in 1 .. Len(r) |-> ntohWord(r[k])]

\* A mutant: the registers are taken as they are in memory.
updateValue_HostOrder(r, e) == ntoh(swap(e, r))

\* The value of registers.
updateValue(r, e) == ntoh(swap(e, TurnedRegisters(r)))
-----------------------------------------------------------------------------
(* class DataType and strToT                                                *)

Unsigned == {"uint16", "uint32", "uint64"}
Signed == {"int16", "int32", "int64"}
Types == Unsigned \cup Signed \cup {"float", "double", "longdouble"}

\* DataType::size() in registers.
Words(type) ==
  CASE type \in {"int32", "uint32", "float"} -> 2
    [] type \in {"int64", "uint64", "double"} -> 4
    [] type = "longdouble" -> 8
    [] OTHER -> 1

\* The types for which a text can be converted. A signed number is compared as an
\* unsigned one with the least value of its type and is always out of range; a long
\* double is no case of strToT.
strToT(type) == type \in Unsigned \cup {"float", "double"}
-----------------------------------------------------------------------------
(* What global.h says of the four orders, as a reference: a value has the   *)
(* bytes 1 .. 2n, the most significant first.                               *)

\* Byte number p of the image of a value, from 0.
ByteAt(v, p) == v[(p \div 2) + 1][(p % 2) + 1]

\* The bytes of a value, the most significant first.
Digit(v, d) == ByteAt(v, IF LittleHost THEN 2 * Len(v) - d ELSE d - 1)

\* A register on the wire: its high byte first.
Wire(w) == IF LittleHost THEN Flip(w) ELSE w

\* "Bytes in .. endian order, word in .. endian order": the word of the value that is in
\* register k of n, and whether its bytes are exchanged.
WordOf(e, n, k) == IF e \in {"abcd", "badc"} THEN k ELSE n + 1 - k
FirstByte(e) == IF e \in {"abcd", "cdab"} THEN 1 ELSE 2

\* Register number k of n, r, carries the value v in order e.
InOrder(r, v, e, k) ==
  LET w == WordOf(e, Len(v), k) IN
  /\ Wire(r)[FirstByte(e)] = Digit(v, 2 * w - 1)
  /\ Wire(r)[3 - FirstByte(e)] = Digit(v, 2 * w)
=============================================================================
