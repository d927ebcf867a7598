------------------------------- MODULE Frame -------------------------------
(***************************************************************************)
(* A Message without a network layer, as a Request and then as the         *)
(* Response made of it (src/src/message.cpp, src/src/request.cpp,          *)
(* src/src/response.cpp): the accessors over the one buffer that holds the *)
(* header, the PDU and the CRC, and prepareToSend.                         *)
(*                                                                         *)
(* A field is what one pair of accessors reads and writes. Accesses beyond *)
(* the end of the buffer are undefined and left out.                       *)
(***************************************************************************)
EXTENDS Integers, Crc

CONSTANTS
  RtuLength, TcpLength,    \* of the buffer: MODBUS_RTU_MAX_ADU_LENGTH, MODBUS_TCP_MAX_ADU_LENGTH
  Indexes,                 \* of registers and bits that are used
  ByteValues, WordValues,  \* what the application writes
  Frames,                  \* what is received, and what setPdu is given
  MaxCalls                 \* calls of the application: a bound

Byte == 0 .. 255
Uint16 == 0 .. 65535
\* More than any ADU has: its length fits in two bytes.
MaxBuffer == 65535

ASSUME FrameAssumption ==
  /\ RtuLength \in 2 .. MaxBuffer
  /\ TcpLength \in 8 .. MaxBuffer
  /\ Indexes \subseteq Nat /\ MaxCalls \in Nat
  /\ ByteValues \subseteq Byte /\ WordValues \subseteq Uint16
  /\ \A f \in Frames : f.n \in 0 .. MaxBuffer /\ f.bytes \in [0 .. f.n - 1 -> Byte]

VARIABLES
  net,     \* "Tcp" or "Rtu"
  kind,    \* "request" or "response"
  adu,     \* the buffer
  length,  \* of the buffer
  size,    \* aduSize
  nextId,  \* Message::Private::transactionId
  last,    \* history: for each field, the value that was set and is still of use, or that
           \* one was set and something else was put over it
  done,    \* history: prepareToSend succeeded and nothing was changed since
  calls

vars == <<net, kind, adu, length, size, nextId, last, done, calls>>

-----------------------------------------------------------------------------
(* Fields and their places.                                                 *)

Plain == {"transactionIdentifier", "slave", "function", "startingAddress",
          "quantity", "value", "byteCount", "exceptionCode"}
F(name) == [name |-> name, index |-> 0]
Registers == {[name |-> "register", index |-> i] : i \in Indexes}
Bits == {[name |-> "bit", index |-> i] : i \in Indexes}
Fields == {F(name) : name \in Plain} \cup Registers \cup Bits

\* modbus_get_header_length
HeaderLength == IF net = "Tcp" THEN 7 ELSE 1

Words == {"transactionIdentifier", "startingAddress", "quantity", "value", "register"}
IsWord(f) == f.name \in Words
IsBit(f) == f.name = "bit"

\* Of Message, from the function code.
MessageOffset(f) ==
  CASE f.name = "transactionIdentifier" -> -7
    [] f.name = "slave" -> -1
    [] f.name = "function" -> 0
    [] f.name = "startingAddress" -> 1
    [] f.name = "quantity" -> 3
    [] OTHER -> 0

\* Mutant: the values begin where the byte count is.
RequestOffset_NoCount(f) ==
  CASE f.name = "value" -> 3
    [] f.name = "byteCount" -> 5
    [] f.name = "register" -> 5 + 2 * f.index
    [] f.name = "bit" -> 5 + (f.index \div 8)
    [] OTHER -> MessageOffset(f)

\* Of Request: registerValue and coilValue without and with an index.
RequestOffset(f) ==
  CASE f.name = "value" -> 3
    [] f.name = "byteCount" -> 5
    [] f.name = "register" -> 6 + 2 * f.index
    [] f.name = "bit" -> 6 + (f.index \div 8)
    [] OTHER -> MessageOffset(f)

\* Of Response: the bits are counted from the function code on.
ResponseOffset(f) ==
  CASE f.name \in {"byteCount", "exceptionCode"} -> 1
    [] f.name = "register" -> 2 + 2 * f.index
    [] f.name = "bit" -> f.index \div 8
    [] OTHER -> MessageOffset(f)

Has(k, f) ==
  /\ f.name = "transactionIdentifier" => net = "Tcp"
  /\ k = "request" => f.name # "exceptionCode"
  /\ k = "response" => f.name # "value"

\* Where a field begins in the buffer, and where it ends.
Place(k, f) == HeaderLength + IF k = "request" THEN RequestOffset(f) ELSE ResponseOffset(f)
End(k, f) == Place(k, f) + IF IsWord(f) THEN 2 ELSE 1

\* 1 << k
Power == [k \in 0 .. 7 |->
            CASE k = 0 -> 1 [] k = 1 -> 2 [] k = 2 -> 4 [] k = 3 -> 8
              [] k = 4 -> 16 [] k = 5 -> 32 [] k = 6 -> 64 [] k = 7 -> 128]
BitOf(b, k) == (b \div Power[k]) % 2
WithBit(b, k, v) == b + (v - BitOf(b, k)) * Power[k]

\* Message::word, Message::byte and the bit of one
Get(a, k, f) ==
  LET at == Place(k, f)
  IN IF IsWord(f) THEN a[at] * 256 + a[at + 1]
     ELSE IF IsBit(f) THEN BitOf(a[at], f.index % 8)
     ELSE a[at]

\* Mutant: the high byte is not cut off.
SetWord_Uncut(a, at, v) == [a EXCEPT ![at] = v, ![at + 1] = v % 256]

\* Message::setWord
SetWord(a, at, v) == [a EXCEPT ![at] = v \div 256, ![at + 1] = v % 256]

\* The buffer after a setter.
Put(a, k, f, v) ==
  LET at == Place(k, f)
  IN IF IsWord(f) THEN SetWord(a, at, v)
     ELSE IF IsBit(f) THEN [a EXCEPT ![at] = WithBit(@, f.index % 8, v)]
     ELSE [a EXCEPT ![at] = v]

Larger(a, b) == IF a >= b THEN a ELSE b

-----------------------------------------------------------------------------
(* What fields occur together.                                              *)

Common == {F("transactionIdentifier"), F("slave"), F("function")}

\* The PDUs of the Modbus protocol, as the accessors' comments give them.
Layouts(k) ==
  IF k = "request"
  THEN {Common \cup {F("startingAddress"), F("quantity")},
        Common \cup {F("startingAddress"), F("value")},
        Common \cup {F("startingAddress"), F("quantity"), F("byteCount")} \cup Registers,
        Common \cup {F("startingAddress"), F("quantity"), F("byteCount")} \cup Bits}
  ELSE {Common \cup {F("byteCount")} \cup Registers,
        Common \cup {F("startingAddress"), F("quantity")},
        Common \cup {F("exceptionCode")},
        Common \cup {F("byteCount")} \cup Bits}

Together(k, f, g) == \E l \in Layouts(k) : f \in l /\ g \in l

\* Response::setBitValue counts the bits from the function code on, where the protocol
\* has them behind the byte count: the first eight are put over the one, the next eight
\* over the other.
Overlaid(f) == F(IF f.index < 8 THEN "function" ELSE "byteCount")
LiesOver(f, g) == IsBit(f) /\ f.index < 16 /\ g = Overlaid(f)
Overlap(k, f, g) == k = "response" /\ (LiesOver(f, g) \/ LiesOver(g, f))

Unknown == -1
WrittenOver == -2
Known == Uint16 \cup {Unknown, WrittenOver}

\* Field f of a message of kind k gets value v: the fields that occur with it keep theirs,
\* those on whose byte it lies do not.
Noted(h, k, f, v) ==
  [g \in Fields |->
     IF g = f THEN v
     ELSE IF ~Together(k, f, g) \/ h[g] = Unknown THEN Unknown
     ELSE IF Overlap(k, f, g) THEN WrittenOver
     ELSE h[g]]

\* The fields that lie before the end of the message.
Within(h, k, end) == [g \in Fields |-> IF Has(k, g) /\ End(k, g) <= end THEN h[g] ELSE Unknown]

-----------------------------------------------------------------------------
NothingKnown == [g \in Fields |-> Unknown]

TypeOK ==
  /\ net \in {"Tcp", "Rtu"}
  /\ kind \in {"request", "response"}
  /\ length \in HeaderLength + 1 .. MaxBuffer
  /\ adu \in [0 .. length - 1 -> Byte]
  /\ size \in 0 .. length
  /\ nextId \in Uint16
  /\ last \in [Fields -> Known]
  /\ done \in BOOLEAN
  /\ calls \in 0 .. MaxCalls

MaxLength == IF net = "Tcp" THEN TcpLength ELSE RtuLength

\* Message::Private (q, net, func): the size does not count the function code.
Fresh(code) ==
  [i \in 0 .. MaxLength - 1 |->
     IF net = "Tcp" /\ i = 6 THEN 255 ELSE IF i = HeaderLength THEN code ELSE 0]

Init ==
  /\ net \in {"Tcp", "Rtu"}
  /\ kind = "request"
  /\ length = MaxLength
  /\ \E code \in ByteValues : adu = Fresh(code)
  /\ size = 0
  /\ nextId = 1
  /\ last = NothingKnown
  /\ done = FALSE
  /\ calls = 0

Called == calls < MaxCalls /\ calls' = calls + 1

\* Message::Private (q, net, adu): the buffer is as long as what was received.
FromBytes(f) ==
  /\ Called
  /\ f.n > HeaderLength
  /\ kind' = "request"
  /\ adu' = f.bytes /\ length' = f.n /\ size' = f.n
  /\ nextId' = 1
  /\ last' = NothingKnown
  /\ done' = FALSE
  /\ UNCHANGED net

\* Request (net, function)
New(code) ==
  /\ Called
  /\ kind' = "request"
  /\ adu' = Fresh(code) /\ length' = MaxLength /\ size' = 0
  /\ nextId' = 1
  /\ last' = NothingKnown
  /\ done' = FALSE
  /\ UNCHANGED net

\* Server::Private::receive and Master::receiveResponse: libmodbus writes over the
\* buffer, then setAduSize; a master cuts the CRC off.
Receive(f) ==
  /\ Called
  /\ f.n <= length
  /\ adu' = [i \in 0 .. length - 1 |-> IF i < f.n THEN f.bytes[i] ELSE adu[i]]
  /\ size' \in {f.n} \cup IF net = "Rtu" /\ f.n > 2 THEN {f.n - 2} ELSE {}
  /\ last' = NothingKnown
  /\ done' = FALSE
  /\ UNCHANGED <<net, kind, length, nextId>>

\* A setter of the message.
SetField(f, v) ==
  /\ Called
  /\ Has(kind, f) /\ End(kind, f) <= length
  /\ adu' = Put(adu, kind, f, v)
  /\ size' = Larger(size, End(kind, f))
  /\ last' = Noted(last, kind, f, v)
  /\ done' = FALSE
  /\ UNCHANGED <<net, kind, length, nextId>>

\* setTransactionIdentifier .. setQuantity, setRegisterValue, setByteCount
SetValue(f) ==
  /\ ~IsBit(f) /\ f.name # "exceptionCode"
  /\ \E v \in IF IsWord(f) THEN WordValues ELSE ByteValues : SetField(f, v)

\* setCoilValue and setBitValue with an index
SetBit(f) == IsBit(f) /\ \E v \in {0, 1} : SetField(f, v)

\* function() | ExceptionFlag
Flagged(code) == IF code >= 128 THEN code ELSE code + 128

\* Response::setExceptionCode: two setters.
SetExceptionCode(code) ==
  LET fn == F("function")
      ex == F("exceptionCode")
      flagged == Flagged(Get(adu, kind, fn))
  IN /\ Called
     /\ kind = "response" /\ End(kind, ex) <= length
     /\ adu' = Put(Put(adu, kind, fn, flagged), kind, ex, code)
     /\ size' = Larger(size, End(kind, ex))
     /\ last' = Noted(Noted(last, kind, fn, flagged), kind, ex, code)
     /\ done' = FALSE
     /\ UNCHANGED <<net, kind, length, nextId>>

\* Message::clear: the bytes stay, the buffer gets its full length.
Clear ==
  LET grown == [i \in 0 .. MaxLength - 1 |-> IF i < length THEN adu[i] ELSE 0]
  IN /\ Called
     /\ length' = MaxLength
     /\ IF net = "Tcp"
        THEN /\ adu' = [grown EXCEPT ![6] = 255] /\ size' = 7
             /\ last' = [NothingKnown EXCEPT ![F("slave")] = 255]
        ELSE adu' = grown /\ size' = 0 /\ last' = NothingKnown
     /\ done' = FALSE
     /\ UNCHANGED <<net, kind, nextId>>

\* Message::setSize
SetSize(n) ==
  /\ Called
  /\ HeaderLength + n <= length
  /\ size' = HeaderLength + n
  /\ last' = Within(last, kind, HeaderLength + n)
  /\ done' = FALSE
  /\ UNCHANGED <<net, kind, adu, length, nextId>>

\* Message::setPdu: some bytes, or the PDU of another message.
SetPdu(f) ==
  /\ Called
  /\ HeaderLength + f.n <= length
  /\ adu' = [i \in 0 .. length - 1 |->
               IF i \in HeaderLength .. HeaderLength + f.n - 1 THEN f.bytes[i - HeaderLength]
               ELSE adu[i]]
  /\ size' = HeaderLength + f.n
  /\ last' = Within(last, kind, HeaderLength)
  /\ done' = FALSE
  /\ UNCHANGED <<net, kind, length, nextId>>

\* Response (const Request &): a copy, whose PDU is read in another way.
Respond ==
  /\ Called
  /\ kind = "request"
  /\ kind' = "response"
  /\ last' = [g \in Fields |->
                IF g \in Common \cup {F("startingAddress"), F("quantity")} THEN last[g]
                ELSE Unknown]
  /\ done' = FALSE
  /\ UNCHANGED <<net, adu, length, size, nextId>>

-----------------------------------------------------------------------------
(* prepareToSend.                                                           *)

\* Message::size
PduSize == IF size > HeaderLength THEN size - HeaderLength ELSE 0

\* Mutant: the length does not count the unit identifier.
Header_Short(a) == SetWord(a, 4, size - HeaderLength)

\* The length that the header gives: of the unit identifier and the PDU.
Header(a) == SetWord(a, 4, size - HeaderLength + 1)

PrepareTcp ==
  /\ net = "Tcp"
  /\ IF kind = "request"
     THEN /\ adu' = Header(SetWord(SetWord(adu, 0, nextId), 2, 0))
          /\ nextId' = (nextId + 1) % 65536
          /\ last' = [last EXCEPT ![F("transactionIdentifier")] = nextId]
     ELSE adu' = Header(adu) /\ UNCHANGED <<nextId, last>>
  /\ UNCHANGED size

Bytes(a, n) == [i \in 1 .. n |-> a[i - 1]]

PrepareRtu ==
  /\ net = "Rtu" /\ size + 2 <= length
  /\ adu' = SetWord(adu, size, crc16(Bytes(adu, size)))
  /\ size' = size + 2
  /\ UNCHANGED <<nextId, last>>

PrepareToSend ==
  /\ Called
  /\ PduSize >= 1
  /\ PrepareTcp \/ PrepareRtu
  /\ done' = TRUE
  /\ UNCHANGED <<net, kind, length>>

Next ==
  \/ \E f \in Frames : FromBytes(f) \/ Receive(f) \/ SetPdu(f)
  \/ \E f \in Fields : SetValue(f) \/ SetBit(f)
  \/ \E code \in ByteValues : New(code) \/ SetExceptionCode(code)
  \/ \E n \in 0 .. length : SetSize(n)
  \/ Clear \/ Respond \/ PrepareToSend

Spec == Init /\ [][Next]_vars
-----------------------------------------------------------------------------
(* Properties.                                                              *)

\* A field that was set reads as it was set and is part of the message, whatever other
\* fields of the same PDU were set since, the message was prepared, or a response was
\* made of it: the accessors of Message, Request and Response agree on where things are.
\* The exception is a response with bits: setBitValue puts them over the function code
\* and the byte count (and these over the bits), not behind them as its comment says.
ReadsBack ==
  \A f \in Fields :
    last[f] # Unknown =>
      /\ Has(kind, f) /\ End(kind, f) <= size
      /\ \/ Get(adu, kind, f) = last[f]
         \/ last[f] = WrittenOver /\ kind = "response" /\ f.name \in {"function", "byteCount", "bit"}

\* A message that prepareToSend completed is a frame: with the protocol identifier of
\* Modbus in a request and the length of what follows, or with a CRC. The CRC that the
\* tables of RtuLayer::crc16 give is the remainder of the division that the protocol asks
\* for, of all the bytes that precede it.
FrameComplete ==
  done =>
    IF net = "Tcp"
    THEN /\ size > 7 /\ adu[4] * 256 + adu[5] = size - 6
         /\ kind = "request" => adu[2] = 0 /\ adu[3] = 0
    ELSE /\ size > 3
         /\ adu[size - 2] * 256 + adu[size - 1] = Remainder(Bytes(adu, size - 2))
=============================================================================
