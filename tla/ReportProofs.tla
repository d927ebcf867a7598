---------------------------- MODULE ReportProofs ----------------------------
(***************************************************************************)
(* Theorems about Data, Config, Access and Report, for values of any       *)
(* number of words and either byte order of the host, any documents,       *)
(* time-outs, arrays and reports.                                          *)
(***************************************************************************)
EXTENDS Report, FiniteSetTheorems, TLAPS

-----------------------------------------------------------------------------
(* Bytes and words.                                                         *)

\* A word has two bytes, and flipped twice it is itself.
LEMMA FlipLemma ==
  ASSUME NEW w \in Word
  PROVE  /\ Flip(w) \in Word /\ Flip(w)[1] = w[2] /\ Flip(w)[2] = w[1]
         /\ Flip(Flip(w)) = w
BY DEF Flip, Word

\* Where the image of a value has its bytes, the most significant first.
LEMMA DigitLemma ==
  ASSUME NEW v \in Seq(Word), NEW w \in 1 .. Len(v)
  PROVE  /\ Digit(v, 2 * w - 1) = IF LittleHost THEN v[Len(v) + 1 - w][2] ELSE v[w][1]
         /\ Digit(v, 2 * w) = IF LittleHost THEN v[Len(v) + 1 - w][1] ELSE v[w][2]
<1> DEFINE n == Len(v)
<1>1. n \in Nat /\ w \in Nat /\ 1 <= w /\ w <= n
  OBVIOUS
<1> HIDE DEF n
<1>2. ASSUME NEW p \in Nat
      PROVE  /\ (2 * p) \div 2 = p /\ (2 * p) % 2 = 0
             /\ (2 * p + 1) \div 2 = p /\ (2 * p + 1) % 2 = 1
  BY SMTT(30)
<1>3. CASE LittleHost
  <2>1. n - w \in Nat
    BY <1>1
  <2>2. 2 * n - (2 * w - 1) = 2 * (n - w) + 1 /\ 2 * n - 2 * w = 2 * (n - w)
    BY <1>1
  <2>3. (n - w) + 1 = n + 1 - w
    BY <1>1
  <2>4. ByteAt(v, 2 * n - (2 * w - 1)) = v[n + 1 - w][2]
    BY <1>2, <2>1, <2>2, <2>3 DEF ByteAt
  <2>5. ByteAt(v, 2 * n - 2 * w) = v[n + 1 - w][1]
    BY <1>2, <2>1, <2>2, <2>3 DEF ByteAt
  <2> QED BY <1>3, <2>4, <2>5 DEF Digit, n
<1>4. CASE ~LittleHost
  <2>1. w - 1 \in Nat
    BY <1>1
  <2>2. (2 * w - 1) - 1 = 2 * (w - 1) /\ 2 * w - 1 = 2 * (w - 1) + 1 /\ (w - 1) + 1 = w
    BY <1>1
  <2>4. ByteAt(v, (2 * w - 1) - 1) = v[w][1]
    BY <1>2, <2>1, <2>2 DEF ByteAt
  <2>5. ByteAt(v, 2 * w - 1) = v[w][2]
    BY <1>2, <2>1, <2>2 DEF ByteAt
  <2> QED BY <1>4, <2>4, <2>5 DEF Digit
<1> QED BY <1>3, <1>4

\* The three ways to swap, word by word.
LEMMA SwapsLemma ==
  ASSUME NEW v \in Seq(Word)
  PROVE  /\ swapBytes(v) \in Seq(Word) /\ Len(swapBytes(v)) = Len(v)
         /\ swapWords(v) \in Seq(Word) /\ Len(swapWords(v)) = Len(v)
         /\ swapBytesInWords(v) \in Seq(Word) /\ Len(swapBytesInWords(v)) = Len(v)
         /\ \A k \in 1 .. Len(v) :
              /\ Len(v) + 1 - k \in 1 .. Len(v) /\ v[k] \in Word
              /\ swapBytes(v)[k] = Flip(v[Len(v) + 1 - k])
              /\ swapWords(v)[k] = v[Len(v) + 1 - k]
              /\ swapBytesInWords(v)[k] = Flip(v[k])
<1>1. \A k \in 1 .. Len(v) : Len(v) + 1 - k \in 1 .. Len(v) /\ v[k] \in Word
  OBVIOUS
<1>2. \A k \in 1 .. Len(v) : Flip(v[k]) \in Word /\ Flip(v[Len(v) + 1 - k]) \in Word
  BY <1>1, FlipLemma
<1>3. swapBytes(v) \in Seq(Word) /\ Len(swapBytes(v)) = Len(v)
  BY <1>2 DEF swapBytes
<1>4. swapWords(v) \in Seq(Word) /\ Len(swapWords(v)) = Len(v)
  BY <1>1 DEF swapWords
<1>5. swapBytesInWords(v) \in Seq(Word) /\ Len(swapBytesInWords(v)) = Len(v)
  BY <1>2 DEF swapBytesInWords
<1> QED BY <1>1, <1>3, <1>4, <1>5 DEF swapBytes, swapWords, swapBytesInWords

\* Which word Data::swap takes, and whether it flips it.
LEMMA SwapLemma ==
  ASSUME NEW v \in Seq(Word), NEW e \in Endians
  PROVE  /\ swap(e, v) \in Seq(Word) /\ Len(swap(e, v)) = Len(v)
         /\ \A k \in 1 .. Len(v) :
              LET w == WordOf(e, Len(v), k) IN
              /\ w \in 1 .. Len(v)
              /\ swap(e, v)[k] = IF FirstByte(e) = 1 THEN v[w] ELSE Flip(v[w])
<1>1. CASE e = "abcd"
  BY <1>1 DEF swap, WordOf, FirstByte
<1>2. CASE e = "cdab"
  BY <1>2, SwapsLemma DEF swap, WordOf, FirstByte
<1>3. CASE e = "badc"
  BY <1>3, SwapsLemma DEF swap, WordOf, FirstByte
<1>4. CASE e = "dcba"
  BY <1>4, SwapsLemma DEF swap, WordOf, FirstByte
<1> QED BY <1>1, <1>2, <1>3, <1>4 DEF Endians

\* A value in the order of the network, and back.
LEMMA NtohLemma ==
  ASSUME NEW v \in Seq(Word)
  PROVE  /\ ntoh(v) = hton(v) /\ ntoh(v) \in Seq(Word) /\ Len(ntoh(v)) = Len(v)
         /\ \A k \in 1 .. Len(v) :
              ntoh(v)[k] = IF LittleHost THEN Flip(v[Len(v) + 1 - k]) ELSE v[k]
BY SwapsLemma DEF ntoh, hton

\* Words as a device sends them, and the value that swap and ntoh make of them: the
\* bytes are where the order says.
LEMMA CarriedLemma ==
  ASSUME NEW m \in Seq(Word), NEW e \in Endians, NEW k \in 1 .. Len(m)
  PROVE  LET v == ntoh(swap(e, m))
             w == WordOf(e, Len(m), k)
         IN /\ v \in Seq(Word) /\ Len(v) = Len(m)
            /\ m[k][FirstByte(e)] = Digit(v, 2 * w - 1)
            /\ m[k][3 - FirstByte(e)] = Digit(v, 2 * w)
<1> DEFINE n == Len(m)
           s == swap(e, m)
           v == ntoh(s)
           w == WordOf(e, n, k)
<1>1. s \in Seq(Word) /\ Len(s) = n /\ n \in Nat
  BY SwapLemma
<1>2. v \in Seq(Word) /\ Len(v) = n
  BY <1>1, NtohLemma
<1>3. w \in 1 .. n /\ WordOf(e, n, w) = k /\ n + 1 - w \in 1 .. n /\ n + 1 - (n + 1 - w) = w
  BY <1>1 DEF WordOf
<1>4. s[w] = IF FirstByte(e) = 1 THEN m[k] ELSE Flip(m[k])
  BY <1>3, SwapLemma
<1>5. v[w] = (IF LittleHost THEN Flip(s[n + 1 - w]) ELSE s[w])
  BY <1>1, <1>3, NtohLemma
<1>6. v[n + 1 - w] = (IF LittleHost THEN Flip(s[w]) ELSE s[n + 1 - w])
  BY <1>1, <1>3, NtohLemma
<1>7. /\ Digit(v, 2 * w - 1) = IF LittleHost THEN v[n + 1 - w][2] ELSE v[w][1]
      /\ Digit(v, 2 * w) = IF LittleHost THEN v[n + 1 - w][1] ELSE v[w][2]
  BY <1>2, <1>3, DigitLemma
<1>8. s[w] \in Word /\ m[k] \in Word /\ FirstByte(e) \in {1, 2}
  BY <1>1, <1>3 DEF FirstByte
<1> HIDE DEF s, v, w
<1>9. Digit(v, 2 * w - 1) = s[w][1] /\ Digit(v, 2 * w) = s[w][2]
  BY <1>5, <1>6, <1>7, <1>8, FlipLemma
<1>10. CASE FirstByte(e) = 1
  BY <1>2, <1>4, <1>9, <1>10 DEF v, w, s
<1>11. CASE FirstByte(e) = 2
  BY <1>2, <1>4, <1>8, <1>9, <1>11, FlipLemma DEF v, w, s
<1> QED BY <1>8, <1>10, <1>11

\* Sequences of words with the same words are equal.
LEMMA SameWords ==
  ASSUME NEW a \in Seq(Word), NEW b \in Seq(Word), Len(a) = Len(b),
         \A k \in 1 .. Len(a) : a[k] = b[k]
  PROVE  a = b
OBVIOUS

\* To swap twice is to do nothing; so is hton and then ntoh.
LEMMA TwiceLemma ==
  ASSUME NEW v \in Seq(Word), NEW e \in Endians
  PROVE  swap(e, swap(e, v)) = v /\ ntoh(hton(v)) = v
<1> DEFINE s == swap(e, v)
           t == swap(e, s)
           h == hton(v)
           u == ntoh(h)
           n == Len(v)
<1>1. /\ s \in Seq(Word) /\ Len(s) = n /\ t \in Seq(Word) /\ Len(t) = n
      /\ h \in Seq(Word) /\ Len(h) = n /\ u \in Seq(Word) /\ Len(u) = n /\ n \in Nat
  BY SwapLemma, NtohLemma
<1>2. ASSUME NEW k \in 1 .. n PROVE t[k] = v[k]
  <2> DEFINE w == WordOf(e, n, k)
  <2>1. w \in 1 .. n /\ WordOf(e, n, w) = k
    BY <1>1 DEF WordOf
  <2>2. t[k] = IF FirstByte(e) = 1 THEN s[w] ELSE Flip(s[w])
    BY <1>1, SwapLemma
  <2>3. s[w] = IF FirstByte(e) = 1 THEN v[k] ELSE Flip(v[k])
    BY <2>1, SwapLemma
  <2> QED BY <2>2, <2>3, FlipLemma
<1>3. ASSUME NEW k \in 1 .. n PROVE u[k] = v[k]
  <2>1. n + 1 - k \in 1 .. n /\ n + 1 - (n + 1 - k) = k
    BY <1>1
  <2>2. u[k] = IF LittleHost THEN Flip(h[n + 1 - k]) ELSE h[k]
    BY <1>1, NtohLemma
  <2>3. /\ h[n + 1 - k] = IF LittleHost THEN Flip(v[k]) ELSE v[n + 1 - k]
        /\ h[k] = IF LittleHost THEN Flip(v[n + 1 - k]) ELSE v[k]
    BY <2>1, NtohLemma
  <2> QED BY <2>2, <2>3, FlipLemma
<1> QED BY <1>1, <1>2, <1>3, SameWords

\* The registers of a value, turned, are what goes over the wire.
LEMMA RegistersLemma ==
  ASSUME NEW v \in Seq(Word), NEW e \in Endians
  PROVE  LET m == swap(e, hton(v))
             r == updateRegisters(v, e)
         IN /\ m \in Seq(Word) /\ Len(m) = Len(v)
            /\ r \in Seq(Word) /\ Len(r) = Len(v)
            /\ \A k \in 1 .. Len(v) : Wire(r[k]) = m[k]
            /\ TurnedRegisters(r) = m
            /\ ntoh(swap(e, m)) = v
<1> DEFINE m == swap(e, hton(v))
           r == updateRegisters(v, e)
           n == Len(v)
<1>1. hton(v) \in Seq(Word) /\ Len(hton(v)) = n /\ m \in Seq(Word) /\ Len(m) = n
  BY NtohLemma, SwapLemma
<1>2. \A x \in Word : ntohWord(x) \in Word /\ ntohWord(ntohWord(x)) = x /\ Wire(x) = ntohWord(x)
  BY FlipLemma DEF ntohWord, Wire
<1>3. r = [k \in 1 .. n |-> ntohWord(m[k])]
  BY DEF updateRegisters
<1>4. r \in Seq(Word) /\ Len(r) = n /\ \A k \in 1 .. n : r[k] = ntohWord(m[k]) /\ m[k] \in Word
  BY <1>1, <1>2, <1>3
<1>5. \A k \in 1 .. n : Wire(r[k]) = m[k] /\ ntohWord(r[k]) = m[k]
  BY <1>2, <1>4
<1>6. TurnedRegisters(r) = m
  <2>1. TurnedRegisters(r) = [k \in 1 .. n |-> ntohWord(r[k])]
    BY <1>4 DEF TurnedRegisters
  <2>2. TurnedRegisters(r) \in Seq(Word) /\ Len(TurnedRegisters(r)) = n
    BY <1>1, <1>4, <1>5, <2>1
  <2> QED BY <1>1, <1>5, <2>1, <2>2, SameWords
<1>7. ntoh(swap(e, m)) = v
  BY <1>1, TwiceLemma
<1> QED BY <1>1, <1>4, <1>5, <1>6, <1>7

\* Data::updateRegisters puts the bytes of a value, of any size, on the wire in the order
\* that global.h gives the endianness: a value written by one host is that on any other.
THEOREM RegistersInOrder ==
  ASSUME NEW v \in Seq(Word), NEW e \in Endians, NEW k \in 1 .. Len(v)
  PROVE  InOrder(updateRegisters(v, e)[k], v, e, k)
<1> DEFINE m == swap(e, hton(v))
<1>1. /\ m \in Seq(Word) /\ Len(m) = Len(v) /\ ntoh(swap(e, m)) = v
      /\ Wire(updateRegisters(v, e)[k]) = m[k]
  BY RegistersLemma
<1> HIDE DEF m
<1> QED BY <1>1, CarriedLemma DEF InOrder

\* Data::updateValue gets the value back from the registers that Data::updateRegisters
\* made, for every endianness, size and host.
THEOREM ValueReadsBack ==
  ASSUME NEW v \in Seq(Word), NEW e \in Endians
  PROVE  updateValue(updateRegisters(v, e), e) = v
BY RegistersLemma DEF updateValue

-----------------------------------------------------------------------------
(* Reports.                                                                 *)

\* b begins with g.
Holds(b, g) == Len(g) <= Len(b) /\ \A k \in 1 .. Len(g) : b[k] = g[k]

\* The buffer of a slave begins with what its device reported last, whatever follows,
\* and so does the object that was filled from it.
ReportInv ==
  /\ told \in [Ids -> Seq(Byte)]
  /\ idReport \in [Ids -> Seq(Byte)]
  /\ \A i \in Ids : Len(told[i]) <= MaxPdu
  /\ Buffered => \A i \in Ids : Holds(idReport[i], told[i])
  /\ report \in SlaveReport
  /\ Holds(report.bytes, report.given)
  /\ report.now => report.bytes = report.given

\* Sequences of bytes with the same bytes are equal.
LEMMA SameBytes ==
  ASSUME NEW a \in Seq(Byte), NEW b \in Seq(Byte), Len(a) = Len(b),
         \A k \in 1 .. Len(a) : a[k] = b[k]
  PROVE  a = b
OBVIOUS

\* resize (MaxPduLength, 0), and the answer of a device written over it.
LEMMA BufferLemma ==
  ASSUME NEW b \in Seq(Byte), NEW r \in Seq(Byte), Len(r) <= MaxPdu
  PROVE  /\ Padded(b) \in Seq(Byte) /\ Len(Padded(b)) = MaxPdu
         /\ \A g \in Seq(Byte) : Len(g) <= MaxPdu /\ Holds(b, g) => Holds(Padded(b), g)
         /\ Over(Padded(b), r) \in Seq(Byte) /\ Holds(Over(Padded(b), r), r)
         /\ SubSeq(Over(Padded(b), r), 1, Len(r)) = r
<1>1. MaxPdu \in Nat /\ 0 \in Byte
  BY ReportAssumption, DataAssumption
<1>2. Padded(b) \in Seq(Byte) /\ Len(Padded(b)) = MaxPdu
  BY <1>1 DEF Padded
<1>3. ASSUME NEW g \in Seq(Byte), Len(g) <= MaxPdu, Holds(b, g) PROVE Holds(Padded(b), g)
  BY <1>1, <1>2, <1>3 DEF Padded, Holds
<1> DEFINE p == Padded(b)
           o == Over(p, r)
<1> HIDE DEF p
<1>4. o \in Seq(Byte) /\ Len(o) = MaxPdu /\ \A k \in 1 .. Len(r) : o[k] = r[k]
  BY <1>1, <1>2 DEF Over, p
<1> HIDE DEF o
<1>5. SubSeq(o, 1, Len(r)) = r
  <2>1. /\ SubSeq(o, 1, Len(r)) \in Seq(Byte) /\ Len(SubSeq(o, 1, Len(r))) = Len(r)
        /\ \A k \in 1 .. Len(r) : SubSeq(o, 1, Len(r))[k] = r[k]
    BY <1>1, <1>4
  <2> QED BY <2>1, SameBytes
<1> QED BY <1>2, <1>3, <1>4, <1>5 DEF o, p, Holds

\* The exchange of Data leaves the configuration alone.
LEMMA AccessIdle == AccessStep => Idle
<1>1. ASSUME NEW e, NewData(e) PROVE Idle
  BY <1>1 DEF NewData
<1>2. ASSUME NEW i, NEW v, Assign(i, v) \/ AssignByReference(i, v) PROVE Idle
  BY <1>2 DEF Assign, AssignByReference
<1>3. ASSUME NEW i, NEW e, SetEndianness(i, e) PROVE Idle
  BY <1>3 DEF SetEndianness
<1>4. ASSUME NEW i, NEW t, NEW addr, WriteData(i, t, addr) \/ ReadData(i, t, addr)
      PROVE  Idle
  BY <1>4 DEF WriteData, ReadData
<1>5. ASSUME NEW k, NEW i, NEW t, NEW addr, ReadDatum(k, i, t, addr) PROVE Idle
  BY <1>5 DEF ReadDatum
<1> QED BY <1>1, <1>2, <1>3, <1>4, <1>5 DEF AccessStep

\* A class keeps its kind: no operation of the configuration or of the application
\* changes it.
LEMMA KindKept == [ReportNext]_everything => kind' = kind
<1>1. Next => kind' = kind
  <2>1. SetConfig \/ SetConfigRefused \/ CannotOpen \/ JsonError => kind' = kind
    BY DEF SetConfig, SetConfigRefused, CannotOpen, JsonError, Throw, vars
  <2>2. AddMaster \/ SetBackend \/ NoBackend => kind' = kind
    BY DEF AddMaster, SetBackend, NoBackend, Throw
  <2>3. SkipOption \/ SetSwitch \/ SetSerial \/ SetTimeout => kind' = kind
    BY DEF SkipOption, SetSwitch, SetSerial, SetTimeout
  <2>4. AddSlave \/ AddSlaveRefused \/ SetPduAddressing => kind' = kind
    BY DEF AddSlave, AddSlaveRefused, SetPduAddressing, Throw
  <2>5. SetBlock \/ ReadValue \/ BadValue \/ WriteValues => kind' = kind
    BY DEF SetBlock, ReadValue, BadValue, WriteValues, Throw
  <2>6. ASSUME NEW g \in GroupIds, NEW key \in Timeouts, NEW a \in Times, AppSetTimeout(g, key, a)
        PROVE  kind' = kind
    BY <2>6 DEF AppSetTimeout
  <2> QED BY <2>1, <2>2, <2>3, <2>4, <2>5, <2>6 DEF Next
<1>2. AccessStep => Idle
  BY AccessIdle
<1>3. ReportStep => kind' = kind
  BY DEF ReportStep, OpenClose, AskFails, AskClosed, AskReport, ServeReport, AppIdle
<1> QED BY <1>1, <1>2, <1>3 DEF ReportNext, AccessNext, Idle, everything

\* Initially there are no reports.
LEMMA ReportInitInv == ReportInit => ReportInv
<1> SUFFICES ASSUME ReportInit PROVE ReportInv
  OBVIOUS
<1>1. (CHOOSE t \in IdTypes : TRUE) \in IdTypes
  BY ReportAssumption
<1>2. /\ told = [i \in Ids |-> <<>>] /\ idReport = [i \in Ids |-> <<>>]
      /\ report = [type |-> CHOOSE t \in IdTypes : TRUE, bytes |-> <<>>, given |-> <<>>,
                   now |-> TRUE]
  BY DEF ReportInit
<1>3. <<>> \in Seq(Byte) /\ Len(<<>>) = 0 /\ MaxPdu \in Nat
  BY ReportAssumption
<1>4. report \in SlaveReport /\ report.bytes = <<>> /\ report.given = <<>>
  BY <1>1, <1>2, <1>3 DEF SlaveReport
<1> QED BY <1>2, <1>3, <1>4 DEF ReportInv, Holds

\* Every step keeps the reports in order.
LEMMA ReportStepInv == ReportInv /\ [ReportNext]_everything => ReportInv'
<1> SUFFICES ASSUME ReportInv, [ReportNext]_everything PROVE ReportInv'
  OBVIOUS
<1>k. Buffered' = Buffered
  BY KindKept DEF Buffered
<1>t. /\ told \in [Ids -> Seq(Byte)] /\ idReport \in [Ids -> Seq(Byte)]
      /\ report \in SlaveReport /\ MaxPdu \in Nat
      /\ \A r \in Reports : r \in Seq(Byte) /\ Len(r) <= MaxPdu
  BY ReportAssumption DEF ReportInv
<1>1. ASSUME UNCHANGED <<idReport, told, report>> PROVE ReportInv'
  BY <1>1, <1>k DEF ReportInv
<1>2. ASSUME NEW i \in Ids, AskFails(i) PROVE ReportInv'
  <2>1. UNCHANGED <<told, report>>
    BY <1>2 DEF AskFails
  <2>2. CASE ~Buffered
    BY <1>2, <1>k, <2>1, <2>2 DEF ReportInv, AskFails
  <2>3. CASE Buffered
    <3>1. idReport' = [idReport EXCEPT ![i] = Padded(idReport[i])]
      BY <1>2, <2>3 DEF AskFails
    <3>2. Padded(idReport[i]) \in Seq(Byte) /\ Holds(Padded(idReport[i]), told[i])
      BY <1>t, <2>3, BufferLemma DEF ReportInv
    <3> QED BY <1>k, <1>t, <2>1, <2>3, <3>1, <3>2 DEF ReportInv
  <2> QED BY <2>2, <2>3
<1>3. ASSUME NEW i \in Ids, NEW t \in IdTypes, AskClosed(i, t) PROVE ReportInv'
  <2>1. /\ UNCHANGED <<idReport, told>> /\ Buffered
        /\ report' = [type |-> t, bytes |-> idReport[i], given |-> told[i], now |-> FALSE]
    BY <1>3 DEF AskClosed, Fill
  <2>2. report' \in SlaveReport /\ report'.bytes = idReport[i] /\ report'.given = told[i]
    BY <1>t, <2>1 DEF SlaveReport
  <2>3. ~report'.now
    BY <2>1
  <2> QED BY <1>k, <2>1, <2>2, <2>3 DEF ReportInv
<1>4. ASSUME NEW i \in Ids, NEW t \in IdTypes, NEW r \in Reports, AskReport(i, t, r)
      PROVE  ReportInv'
  <2>1. /\ told' = [told EXCEPT ![i] = r]
        /\ report' = [type |-> t, bytes |-> r, given |-> r, now |-> TRUE]
    BY <1>4 DEF AskReport, Fill
  <2>2. report' \in SlaveReport /\ report'.bytes = r /\ report'.given = r
    BY <1>t, <2>1 DEF SlaveReport
  <2>3. Holds(r, r)
    BY <1>t DEF Holds
  <2>4. told' \in [Ids -> Seq(Byte)] /\ \A j \in Ids : Len(told'[j]) <= MaxPdu
    BY <1>t, <2>1 DEF ReportInv
  <2>5. CASE ~Buffered
    BY <1>4, <1>k, <2>2, <2>3, <2>4, <2>5 DEF ReportInv, AskReport
  <2>6. CASE Buffered
    <3>1. idReport' = [idReport EXCEPT ![i] = r]
      BY <1>4, <1>t, <2>6, BufferLemma DEF AskReport
    <3>2. idReport' \in [Ids -> Seq(Byte)] /\ \A j \in Ids : Holds(idReport'[j], told'[j])
      BY <1>t, <2>1, <2>3, <2>6, <3>1 DEF ReportInv
    <3> QED BY <1>k, <2>2, <2>3, <2>4, <3>2 DEF ReportInv
  <2> QED BY <2>5, <2>6
<1>5. ASSUME NEW i \in Ids, NEW r \in Reports, ServeReport(i, r) PROVE ReportInv'
  <2>1. /\ told' = [told EXCEPT ![i] = r] /\ UNCHANGED report /\ Buffered
        /\ idReport' = [idReport EXCEPT ![i] = Over(Padded(idReport[i]), r)]
    BY <1>5 DEF ServeReport
  <2>2. Over(Padded(idReport[i]), r) \in Seq(Byte) /\ Holds(Over(Padded(idReport[i]), r), r)
    BY <1>t, BufferLemma
  <2>3. told' \in [Ids -> Seq(Byte)] /\ \A j \in Ids : Len(told'[j]) <= MaxPdu
    BY <1>t, <2>1 DEF ReportInv
  <2>4. idReport' \in [Ids -> Seq(Byte)] /\ \A j \in Ids : Holds(idReport'[j], told'[j])
    BY <1>t, <2>1, <2>2 DEF ReportInv
  <2> QED BY <1>k, <2>1, <2>3, <2>4 DEF ReportInv
<1>6. CASE UNCHANGED everything
  BY <1>1, <1>6 DEF everything
<1>7. CASE AccessNext /\ UNCHANGED reportVars
  BY <1>1, <1>7 DEF reportVars
<1>8. CASE OpenClose
  BY <1>1, <1>8 DEF OpenClose
<1> QED
  BY <1>2, <1>3, <1>4, <1>5, <1>6, <1>7, <1>8 DEF ReportNext, ReportStep

\* What the invariant says of an object: its identifier, its indicator and its text.
LEMMA ReportInvAsGiven == ReportInv => ReportAsGiven
<1> DEFINE n == sizeofT(report)
           g == report.given
           b == report.bytes
           e == report.type.endian
           c == report.type.words
<1> SUFFICES ASSUME ReportInv, Len(g) > n
             PROVE  /\ \A k \in 1 .. c : InOrder(RegisterIn(g, k), id(report), e, k)
                    /\ status(report) <=> g[n + 1] = 255
                    /\ SubSeq(data(report), 1, Len(g) - n - 1) = SubSeq(g, n + 2, Len(g))
                    /\ report.now => Len(data(report)) = Len(g) - n - 1
  BY DEF ReportAsGiven
<1>1. /\ b \in Seq(Byte) /\ g \in Seq(Byte) /\ report.type \in IdTypes
      /\ Len(g) <= Len(b) /\ \A k \in 1 .. Len(g) : b[k] = g[k]
  BY DEF ReportInv, SlaveReport, Holds
<1>2. c \in Nat \ {0} /\ e \in Endians
  BY <1>1, ReportAssumption
<1>3. n = 2 * c /\ n \in Nat /\ Len(g) \in Nat /\ Len(b) \in Nat /\ Len(b) > n
  BY <1>1, <1>2 DEF sizeofT
<1> DEFINE m == Image(report)
<1> HIDE DEF n, g, b, e, c
<1>4. \A k \in 1 .. c : /\ 2 * k - 1 \in 1 .. Len(g) /\ 2 * k \in 1 .. Len(g)
                         /\ 2 * k - 1 \in 1 .. Len(b) /\ 2 * k \in 1 .. Len(b)
  BY <1>2, <1>3
<1>5. \A k \in 1 .. c : <<b[2 * k - 1], b[2 * k]>> \in Word
  BY <1>1, <1>4 DEF Word
<1>6. m = [k \in 1 .. c |-> <<b[2 * k - 1], b[2 * k]>>]
  BY DEF Image, b, c
<1> HIDE DEF m
<1>7. m \in Seq(Word) /\ Len(m) = c
  BY <1>2, <1>5, <1>6
<1>8. id(report) = ntoh(swap(e, m))
  BY <1>3 DEF id, m, n, b, e
<1>9. ASSUME NEW k \in 1 .. c PROVE InOrder(RegisterIn(g, k), id(report), e, k)
  <2>1. m[k] = <<b[2 * k - 1], b[2 * k]>> /\ m[k] \in Word
    BY <1>5, <1>6
  <2>2. <<g[2 * k - 1], g[2 * k]>> = m[k]
    BY <1>1, <1>4, <2>1
  <2>3. Wire(Wire(m[k])) = m[k]
    BY <2>1, FlipLemma DEF Wire
  <2>4. Wire(RegisterIn(g, k)) = m[k]
    BY <2>2, <2>3 DEF RegisterIn
  <2> QED BY <1>2, <1>7, <1>8, <2>4, CarriedLemma DEF InOrder
<1>10. status(report) <=> g[n + 1] = 255
  <2>1. n + 1 \in 1 .. Len(g)
    BY <1>3
  <2>2. b[n + 1] = g[n + 1]
    BY <1>1, <2>1
  <2> QED BY <1>3, <2>2 DEF status, n, b
<1>11. data(report) = SubSeq(b, n + 2, Len(b))
  BY DEF data, n, b
<1>12. SubSeq(data(report), 1, Len(g) - n - 1) = SubSeq(g, n + 2, Len(g))
  <2> DEFINE l == Len(g) - n - 1
             d == SubSeq(b, n + 2, Len(b))
             x == SubSeq(d, 1, l)
             y == SubSeq(g, n + 2, Len(g))
  <2>1. l \in Nat /\ Len(b) - n - 1 \in Nat /\ l <= Len(b) - n - 1
    BY <1>1, <1>3
  <2>2. /\ d \in Seq(Byte) /\ Len(d) = Len(b) - n - 1
        /\ \A k \in 1 .. Len(b) - n - 1 : d[k] = b[n + 1 + k]
    BY <1>1, <1>3, <2>1
  <2>3. /\ y \in Seq(Byte) /\ Len(y) = l
        /\ \A k \in 1 .. l : y[k] = g[n + 1 + k]
    BY <1>1, <1>3, <2>1
  <2> HIDE DEF d, y, l
  <2>4. x \in Seq(Byte) /\ Len(x) = l /\ \A k \in 1 .. l : x[k] = d[k]
    BY <2>1, <2>2
  <2>5. \A k \in 1 .. l : b[n + 1 + k] = g[n + 1 + k]
    <3>1. ASSUME NEW k \in 1 .. l PROVE n + 1 + k \in 1 .. Len(g)
      BY <1>3, <2>1 DEF l
    <3> QED BY <1>1, <3>1
  <2>6. \A k \in 1 .. l : x[k] = y[k]
    BY <2>1, <2>2, <2>3, <2>4, <2>5
  <2> HIDE DEF x
  <2>7. x = y
    BY <2>3, <2>4, <2>6, SameBytes
  <2> QED BY <1>11, <2>7 DEF x, y, d, l
<1>13. report.now => Len(data(report)) = Len(g) - n - 1
  <2>1. report.now => b = g
    BY DEF ReportInv, b, g
  <2>2. Len(SubSeq(b, n + 2, Len(b))) = Len(b) - n - 1
    BY <1>1, <1>3
  <2> QED BY <1>11, <2>1, <2>2
<1> QED BY <1>9, <1>10, <1>12, <1>13 DEF c, e, g, n

\* SlaveReport gives the identifier, the run indicator and the text that the device reported,
\* the text of a report that was kept with something behind it: for every identifier of
\* whole words, order, host, length of the buffer and number of slaves, whatever failed
\* between the report and now.
THEOREM ReportAsGivenCorrect == ReportSpec => []ReportAsGiven
<1>1. ReportInit => ReportInv
  BY ReportInitInv
<1>2. ReportInv /\ [ReportNext]_everything => ReportInv'
  BY ReportStepInv
<1>3. ReportInv => ReportAsGiven
  BY ReportInvAsGiven
<1> QED BY <1>1, <1>2, <1>3, PTL DEF ReportSpec

-----------------------------------------------------------------------------
(* Configuration: the time-outs.                                            *)

\* A number below the modulus is its own remainder.
LEMMA SmallRemainder ==
  \A n \in Nat \ {0} : \A x \in 0 .. n - 1 : x % n = x
  BY SMTT(30)

\* A number a modulus away from it has the same remainder.
LEMMA WrappedRemainder ==
  \A n \in Nat \ {0} : \A x \in 0 .. n - 1 : (x - n) % n = x /\ (x + n) % n = x
  BY SMTT(30)

\* Seconds that wrap: the difference is what was added.
LEMMA WrapLemma ==
  ASSUME NEW n \in Nat \ {0}, NEW s \in 0 .. n - 1, NEW q \in 0 .. n - 1
  PROVE  (s + q) % n \in 0 .. n - 1 /\ (((s + q) % n) - s) % n = q
<1>1. CASE s + q < n
  <2>1. (s + q) % n = s + q
    BY <1>1, SmallRemainder
  <2> QED BY <1>1, <2>1, SmallRemainder
<1>2. CASE s + q >= n
  <2>1. s + q - n \in 0 .. n - 1
    BY <1>2
  <2>2. (s + q) % n = s + q - n
    BY <2>1, WrappedRemainder
  <2>3. ((s + q) % n) - s = q - n
    BY <2>2
  <2> QED BY <2>1, <2>2, <2>3, WrappedRemainder
<1> QED BY <1>1, <1>2

\* The steps before the slaves of a group.
SectionSteps == {"master", "backend", "option"}

\* The key that is read next is one of a section of the document.
Reading ==
  /\ kind \in Kinds
  /\ DOMAIN at = {"g", "o", "s", "b", "v", "step"}
  /\ Running => /\ doc \in Document /\ at.g \in 1 .. Len(doc)
                /\ at.step \in SectionSteps => at.o \in 1 .. 7

\* The place p is in the document, or at its end.
InDocument(p) ==
  /\ DOMAIN p = {"g", "o", "s", "b", "v", "step"}
  /\ p.step = "end" \/ p.g \in 1 .. Len(doc)
  /\ p.step \in SectionSteps => p.o \in 1 .. 7

\* Reading goes on inside the document.
LEMMA PlacesLemma ==
  ASSUME Reading, Running
  PROVE  /\ at.step = "option" => InDocument(AfterOption)
         /\ \A b : InDocument(ToBlock(b))
         /\ \A x : InDocument([at EXCEPT !.v = x])
         /\ at.step \in SectionSteps => \A x : InDocument([at EXCEPT !.step = x])
         /\ InDocument([at EXCEPT !.step = "pdu"])
         /\ InDocument(ToValues)
<1> USE DEF SectionSteps
<1>1. Len(doc) \in Nat /\ 1 <= Len(doc) /\ at.g \in 1 .. Len(doc)
  BY DEF Reading, Document
<1>2. Groups <= Len(doc) /\ Groups \in Nat
  BY <1>1 DEF Groups
<1>3. InDocument(ToGroup(at.g + 1))
  BY <1>1, <1>2 DEF InDocument, ToGroup, FirstPlace
<1>4. \A s : InDocument(ToSlave(at.g, s))
  BY <1>1, <1>3 DEF InDocument, ToSlave, FirstPlace
<1>5. at.step = "option" /\ at.o < 7 => InDocument([at EXCEPT !.o = at.o + 1])
  BY <1>1 DEF Reading, InDocument
<1>6. \A b : InDocument([at EXCEPT !.b = b, !.v = 1, !.step = "block"])
  BY <1>1 DEF Reading, InDocument
<1>7. \A b : InDocument(ToBlock(b))
  BY <1>4, <1>6 DEF ToBlock
<1>8. InDocument([at EXCEPT !.v = 1, !.step = "value"])
  BY <1>1 DEF Reading, InDocument
<1>9. InDocument(ToValues)
  BY <1>7, <1>8 DEF ToValues
<1>10. /\ \A x : InDocument([at EXCEPT !.v = x])
       /\ at.step \in SectionSteps => \A x : InDocument([at EXCEPT !.step = x])
       /\ InDocument([at EXCEPT !.step = "pdu"])
  BY <1>1 DEF Reading, InDocument
<1> QED BY <1>4, <1>5, <1>7, <1>9, <1>10 DEF AfterOption

\* A step that goes to a place in the document keeps Reading.
LEMMA GotoReading ==
  ASSUME Reading, Running, NEW p, InDocument(p), Goto(p), kind' = kind, doc' = doc
  PROVE  Reading'
  BY DEF Reading, InDocument, Goto, Running

\* What a device has and what it was asked for agree.
OneTime(key, t, a) ==
  /\ t \in Time /\ Accepts(key, t)
  /\ a.s \in Nat /\ a.us \in Nat
  /\ ((t.sec - a.s) % UintEnd) * Million + t.usec \in {a.us, a.us - 1}

DeviceFields == {"net", "baud", "parity", "stop", "unit", "flag", "timeout"}

TimeInv ==
  /\ Reading
  /\ DOMAIN device = GroupIds /\ DOMAIN asked = GroupIds
  /\ \A g \in GroupIds :
       /\ DOMAIN device[g] = DeviceFields
       /\ DOMAIN device[g].timeout = Timeouts /\ DOMAIN asked[g] = Timeouts
       /\ \A key \in Timeouts : OneTime(key, device[g].timeout[key], asked[g][key])

\* The same but for other settings.
SameTimes(d, e) == DOMAIN d = DeviceFields /\ d.timeout = e.timeout

\* Settings of another kind leave the time-outs alone.
LEMMA OtherSettings ==
  ASSUME NEW d, DOMAIN d = DeviceFields
  PROVE  /\ SameTimes(d, d)
         /\ \A u : SameTimes([d EXCEPT !.unit = u], d)
         /\ \A key, v : SameTimes([d EXCEPT !.flag[key] = v], d)
         /\ \A g, key, v : SameTimes(WithFlag(g, d, key, v), d)
         /\ \A section, own : SameTimes([WithBackend(d, section) EXCEPT !.unit = own], d)
         /\ \A g, section : SameTimes(Listening(g, WithBackend(d, section)), d)
<1> USE DEF SameTimes, DeviceFields
<1>1. /\ SameTimes(d, d)
      /\ \A u : SameTimes([d EXCEPT !.unit = u], d)
      /\ \A key, v : SameTimes([d EXCEPT !.flag[key] = v], d)
  OBVIOUS
<1>2. ASSUME NEW g, NEW key, NEW v PROVE SameTimes(WithFlag(g, d, key, v), d)
  BY DEF WithFlag
<1>3. ASSUME NEW section PROVE SameTimes(WithBackend(d, section), d)
  BY DEF WithBackend, OnLine
<1>4. ASSUME NEW section, NEW own PROVE SameTimes([WithBackend(d, section) EXCEPT !.unit = own], d)
  BY <1>3
<1>5. ASSUME NEW section, NEW g PROVE SameTimes(Listening(g, WithBackend(d, section)), d)
  <2>1. \A e : DOMAIN e = DeviceFields => SameTimes([e EXCEPT !.flag["any-unit"] = 1], e)
    OBVIOUS
  <2>2. \A e : DOMAIN e = DeviceFields => SameTimes(Listening(g, e), e)
    BY <2>1 DEF Listening
  <2> HIDE DEF SameTimes
  <2>3. SameTimes(Listening(g, WithBackend(d, section)), WithBackend(d, section))
    BY <1>3, <2>2 DEF SameTimes
  <2> QED BY <1>3, <2>3 DEF SameTimes
<1> HIDE DEF SameTimes
<1> QED BY <1>1, <1>2, <1>4, <1>5

\* A step that leaves the time-outs of every device alone.
LEMMA OtherStep ==
  ASSUME TimeInv, Reading', asked' = asked, DOMAIN device' = GroupIds,
         \A g \in GroupIds : SameTimes(device'[g], device[g])
  PROVE  TimeInv'
<1>1. DOMAIN asked' = GroupIds
  BY DEF TimeInv
<1>2. ASSUME NEW g \in GroupIds
      PROVE  /\ DOMAIN device'[g] = DeviceFields
             /\ DOMAIN device'[g].timeout = Timeouts /\ DOMAIN asked'[g] = Timeouts
             /\ \A key \in Timeouts : OneTime(key, device'[g].timeout[key], asked'[g][key])
  BY DEF TimeInv, SameTimes
<1> QED BY <1>1, <1>2 DEF TimeInv

\* A time-out of one device is set, or refused.
LEMMA TimeoutStep ==
  ASSUME TimeInv, Reading', NEW g, NEW key \in Timeouts, NEW t, NEW a,
         Accepts(key, t) => OneTime(key, t, a),
         device' = [device EXCEPT ![g] = WithTimeout(@, key, t)],
         asked' = AskedFor(g, key, t, a)
  PROVE  TimeInv'
<1>1. CASE ~Accepts(key, t)
  <2>1. asked' = asked /\ device' = [device EXCEPT ![g] = @]
    BY <1>1 DEF AskedFor, WithTimeout
  <2> QED BY <2>1, OtherStep DEF TimeInv, SameTimes
<1>2. CASE Accepts(key, t)
  <2>1. asked' = [asked EXCEPT ![g][key] = a]
    BY <1>2 DEF AskedFor
  <2>2. DOMAIN device' = GroupIds /\ DOMAIN asked' = GroupIds
    BY <2>1 DEF TimeInv
  <2>3. ASSUME NEW h \in GroupIds
        PROVE  /\ DOMAIN device'[h] = DeviceFields
               /\ DOMAIN device'[h].timeout = Timeouts /\ DOMAIN asked'[h] = Timeouts
               /\ \A k \in Timeouts : OneTime(k, device'[h].timeout[k], asked'[h][k])
    <3>1. CASE h # g
      BY <2>1, <3>1 DEF TimeInv
    <3>2. CASE h = g
      <4>1. device'[h] = WithTimeout(device[h], key, t)
        BY <3>2 DEF TimeInv
      <4>2. device'[h] = [device[h] EXCEPT !.timeout[key] = t]
        BY <1>2, <4>1 DEF WithTimeout
      <4>3. asked'[h] = [asked[h] EXCEPT ![key] = a]
        BY <2>1, <3>2 DEF TimeInv
      <4>4. DOMAIN device[h] = DeviceFields /\ DOMAIN asked[h] = Timeouts
        BY DEF TimeInv
      <4>5. /\ DOMAIN device'[h] = DeviceFields
            /\ device'[h].timeout = [device[h].timeout EXCEPT ![key] = t]
        BY <4>2, <4>4 DEF DeviceFields
      <4> QED BY <1>2, <4>3, <4>4, <4>5 DEF TimeInv
    <3> QED BY <3>1, <3>2
  <2> QED BY <2>2, <2>3 DEF TimeInv
<1> QED BY <1>1, <1>2

\* The bounds of Time, as numbers.
LEMMA TimeBounds ==
  /\ UintEnd \in Nat \ {0} /\ UintEnd > 500000
  /\ Million \in Nat /\ Million = 1000 * 1000
  /\ \A sec, usec : sec \in Nat /\ sec < UintEnd /\ usec \in Nat /\ usec < Million =>
       [sec |-> sec, usec |-> usec] \in Time
<1>1. Million \in Nat /\ Million = 1000 * 1000 /\ Million > 500000
  BY SMTT(30) DEF Million
<1>2. UintEnd \in Nat \ {0} /\ UintEnd > 500000
  BY <1>1, ConfigAssumption, SMTT(30)
<1>3. Million \in Nat /\ UintEnd \in Nat
  BY <1>1, <1>2
<1>4. ASSUME NEW sec \in Nat, NEW usec \in Nat, sec < UintEnd, usec < Million
      PROVE  [sec |-> sec, usec |-> usec] \in Time
  BY <1>3, <1>4, SMTT(30) DEF Time
<1> QED BY <1>1, <1>2, <1>4, SMTT(30)

\* The milliseconds of a document.
LEMMA MillisecondsLemma ==
  ASSUME NEW ms \in 0 .. UintEnd - 1, NEW t \in FromMilliseconds(ms), NEW key, Accepts(key, t)
  PROVE  OneTime(key, t, [s |-> 0, us |-> ms * 1000])
<1>1. PICK u \in Nat : /\ u = (ms % 1000) * 1000 \/ u = (ms % 1000) * 1000 - 1
                       /\ t = [sec |-> ms \div 1000, usec |-> u]
  BY SMTT(30) DEF FromMilliseconds
<1>2. ms \in Nat /\ ms < UintEnd
  BY TimeBounds
<1>3. /\ ms \div 1000 \in Nat /\ ms \div 1000 < UintEnd
      /\ ms = 1000 * (ms \div 1000) + (ms % 1000)
      /\ ms % 1000 \in Nat /\ ms % 1000 < 1000
  BY <1>2, TimeBounds, SMTT(30)
<1>4. u < Million
  BY <1>1, <1>3, TimeBounds, SMTT(30)
<1>5. ((ms \div 1000) - 0) % UintEnd = ms \div 1000
  BY <1>3, TimeBounds, SmallRemainder
<1>6. (ms \div 1000) * Million + u \in {ms * 1000, ms * 1000 - 1}
  BY <1>1, <1>3, TimeBounds, SMTT(30)
<1>7. t \in Time
  BY <1>1, <1>3, <1>4, TimeBounds
<1> QED BY <1>1, <1>2, <1>5, <1>6, <1>7 DEF OneTime

\* The seconds and microseconds of an application.
LEMMA SecondsLemma ==
  ASSUME NEW a \in Times, NEW key, Accepts(key, FromSeconds(a.s, a.us))
  PROVE  OneTime(key, FromSeconds(a.s, a.us), a)
<1>1. a.s \in 0 .. UintEnd - 1 /\ a.us \in 0 .. UintEnd - 1 /\ UintEnd \in Nat \ {0}
  BY TimeBounds, ConfigAssumption
<1>2. /\ a.us \div Million \in 0 .. UintEnd - 1
      /\ a.us = Million * (a.us \div Million) + (a.us % Million)
      /\ a.us % Million \in Nat /\ a.us % Million < Million
  BY <1>1, SMTT(30) DEF Million
<1>3. /\ (a.s + (a.us \div Million)) % UintEnd \in 0 .. UintEnd - 1
      /\ (((a.s + (a.us \div Million)) % UintEnd) - a.s) % UintEnd = a.us \div Million
  BY <1>1, <1>2, WrapLemma
<1>4. FromSeconds(a.s, a.us) \in Time
  BY <1>1, <1>2, <1>3, TimeBounds DEF FromSeconds
<1>5. ((((a.s + (a.us \div Million)) % UintEnd) - a.s) % UintEnd) * Million + (a.us % Million) = a.us
  BY <1>1, <1>2, <1>3, TimeBounds, SMTT(30)
<1>6. a.s \in Nat /\ a.us \in Nat
  BY <1>1
<1> QED BY <1>4, <1>5, <1>6 DEF OneTime, FromSeconds

\* A new device has the time-outs of a new context.
LEMMA TimeInit == ReportInit => TimeInv
<1> SUFFICES ASSUME Init PROVE TimeInv
  BY DEF ReportInit, AccessInit
<1>1. Reading
  BY DEF Init, Reading, FirstPlace, Running
<1>2. (0 - 0) % UintEnd = 0
  BY TimeBounds, SmallRemainder
<1>3. ASSUME NEW key \in Timeouts
      PROVE  OneTime(key, NoDevice.timeout[key], [s |-> 0, us |-> NoDevice.timeout[key].usec])
  <2>1. \E u \in Nat : /\ u < Million /\ (u = 0 => key = "indication-timeout")
                       /\ NoDevice.timeout[key] = [sec |-> 0, usec |-> u]
    BY SMTT(30) DEF NoDevice, Million
  <2>2. NoDevice.timeout[key].sec = 0 /\ NoDevice.timeout[key] \in Time
    BY <2>1, TimeBounds
  <2>3. Accepts(key, NoDevice.timeout[key])
    BY <2>1 DEF Accepts
  <2>4. NoDevice.timeout[key].usec \in Nat
    BY <2>1
  <2>5. 0 * Million + NoDevice.timeout[key].usec = NoDevice.timeout[key].usec
    BY <2>4, TimeBounds
  <2> QED BY <1>2, <2>2, <2>3, <2>4, <2>5 DEF OneTime
<1>4. DOMAIN NoDevice = DeviceFields /\ DOMAIN NoDevice.timeout = Timeouts
  BY SMTT(30) DEF NoDevice, DeviceFields
<1> QED BY <1>1, <1>3, <1>4 DEF Init, TimeInv

\* Every step of the configuration keeps the time-outs.
LEMMA ConfigTimes == TimeInv /\ Next => TimeInv'
<1> SUFFICES ASSUME TimeInv, Next PROVE TimeInv'
  OBVIOUS
<1>1. Reading /\ DOMAIN device = GroupIds /\ \A g \in GroupIds : DOMAIN device[g] = DeviceFields
  BY DEF TimeInv
<1>2. \A g \in GroupIds : SameTimes(device[g], device[g])
  BY <1>1 DEF SameTimes
<1>3. ASSUME Reading', device' = device, asked' = asked PROVE TimeInv'
  BY <1>1, <1>2, <1>3, OtherStep
<1>4. CASE SetConfig
  <2>1. doc' \in Document /\ at' = FirstPlace /\ kind' = kind
    BY <1>1, <1>4, ConfigAssumption DEF SetConfig, Reading
  <2>2. Reading'
    BY <1>1, <2>1 DEF Reading, FirstPlace, Document
  <2> QED BY <1>3, <1>4, <2>2 DEF SetConfig
<1>5. CASE SetConfigRefused \/ CannotOpen \/ JsonError \/ NoBackend \/ AddSlaveRefused \/ BadValue
  <2>1. /\ UNCHANGED <<kind, doc, at, device, asked>>
        /\ ret' \in {ret, "thrown"}
    BY <1>5 DEF SetConfigRefused, CannotOpen, JsonError, NoBackend, AddSlaveRefused, BadValue,
       Throw, vars
  <2>2. Reading'
    BY <1>1, <2>1 DEF Reading, Running
  <2> QED BY <1>3, <2>1, <2>2
<1>6. CASE AddMaster \/ SkipOption \/ SetPduAddressing \/ SetBlock \/ ReadValue \/ WriteValues
  <2>1. Running /\ UNCHANGED <<kind, doc, device, asked>>
    BY <1>6 DEF AddMaster, SkipOption, SetPduAddressing, SetBlock, ReadValue, WriteValues, AtStep
  <2>2. \E p : InDocument(p) /\ Goto(p)
    BY <1>1, <1>6, <2>1, PlacesLemma DEF AddMaster, SkipOption, SetPduAddressing, SetBlock,
       ReadValue, WriteValues, AtStep, SectionSteps
  <2> QED BY <1>1, <1>3, <2>1, <2>2, GotoReading
<1>7. CASE SetBackend \/ SetSwitch \/ SetSerial \/ AddSlave
  <2>1. Running /\ UNCHANGED <<kind, doc, asked>>
    BY <1>7 DEF SetBackend, SetSwitch, SetSerial, AddSlave, AtStep
  <2>2. \E p : InDocument(p) /\ Goto(p)
    BY <1>1, <1>7, <2>1, PlacesLemma DEF SetBackend, SetSwitch, SetSerial, AddSlave,
       AtStep, SectionSteps
  <2>3. Reading'
    BY <1>1, <2>1, <2>2, GotoReading
  <2>4. ASSUME NEW g, NEW d, device' = [device EXCEPT ![g] = d],
               g \in GroupIds => SameTimes(d, device[g])
        PROVE  TimeInv'
    <3>1. DOMAIN device' = GroupIds
      BY <1>1, <2>4
    <3>2. \A h \in GroupIds : SameTimes(device'[h], device[h])
      BY <1>1, <1>2, <2>4
    <3> QED BY <2>1, <2>3, <3>1, <3>2, OtherStep
  <2>5. CASE SetBackend
    <3> DEFINE section == doc[at.g].section
               own == IF netOf(section) = "rtu" THEN Broadcast ELSE TcpSlave
               new == IF IsMaster(at.g)
                      THEN [WithBackend(device[at.g], section) EXCEPT !.unit = own]
                      ELSE Listening(at.g, WithBackend(device[at.g], section))
    <3>1. device' = [device EXCEPT ![at.g] = new]
      BY <2>5 DEF SetBackend
    <3>2. at.g \in GroupIds => SameTimes(new, device[at.g])
      BY <1>1, OtherSettings
    <3> QED BY <2>4, <3>1, <3>2
  <2>6. CASE SetSwitch
    <3> DEFINE key == OptionKeys[at.o]
               new == WithFlag(at.g, device[at.g], key, doc[at.g].section.option[key])
    <3>1. device' = [device EXCEPT ![at.g] = new]
      BY <2>6 DEF SetSwitch
    <3>2. at.g \in GroupIds => SameTimes(new, device[at.g])
      BY <1>1, OtherSettings
    <3> QED BY <2>4, <3>1, <3>2
  <2>7. CASE SetSerial
    <3> DEFINE key == OptionKeys[at.o]
               new == [device[at.g] EXCEPT !.flag[key] = doc[at.g].section.option[key]]
    <3>1. device' = device \/ device' = [device EXCEPT ![at.g] = new]
      BY <2>7 DEF SetSerial
    <3>2. at.g \in GroupIds => SameTimes(new, device[at.g])
      BY <1>1, OtherSettings
    <3> QED BY <1>3, <2>1, <2>3, <2>4, <3>1, <3>2
  <2>8. CASE AddSlave
    <3> DEFINE new == [device[1] EXCEPT !.unit = TheEntry.id]
    <3>1. device' = [device EXCEPT ![1] = new]
      BY <2>8 DEF AddSlave
    <3>2. 1 \in GroupIds => SameTimes(new, device[1])
      BY <1>1, OtherSettings
    <3> QED BY <2>4, <3>1, <3>2
  <2> QED BY <1>7, <2>5, <2>6, <2>7, <2>8
<1>8. CASE SetTimeout
  <2> DEFINE key == OptionKeys[at.o]
             ms == doc[at.g].section.option[key]
             a == [s |-> 0, us |-> ms * 1000]
  <2>1. /\ Running /\ at.step = "option" /\ UNCHANGED <<kind, doc>> /\ Goto(AfterOption)
        /\ key \in Timeouts /\ ms # Absent
    BY <1>8 DEF SetTimeout, AtStep
  <2>2. Reading'
    BY <1>1, <2>1, PlacesLemma, GotoReading
  <2>3. PICK t \in FromMilliseconds(ms) :
          /\ device' = [device EXCEPT ![at.g] = WithTimeout(@, key, t)]
          /\ asked' = AskedFor(at.g, key, t, a)
    BY <1>8 DEF SetTimeout
  <2>4. key \in Keys
    BY <1>1, <2>1 DEF Reading, SectionSteps, Keys
  <2>5. doc[at.g].section \in Section
    <3>1. doc \in Seq(Group) /\ at.g \in 1 .. Len(doc)
      BY <1>1, <2>1 DEF Reading, Document
    <3>2. doc[at.g] \in Group
      BY <3>1
    <3> QED BY <3>2 DEF Group
  <2>6. ms \in 0 .. UintEnd - 1
    <3>1. ms \in Nat /\ ms < UintEnd
      BY <2>1, <2>4, <2>5 DEF Section, SectionOptions, Optional
    <3> QED BY <3>1, TimeBounds
  <2>7. Accepts(key, t) => OneTime(key, t, a)
    BY <2>6, MillisecondsLemma
  <2> HIDE DEF key, ms, a
  <2> QED BY <2>1, <2>2, <2>3, <2>7, TimeoutStep
<1>9. ASSUME NEW g \in GroupIds, NEW key \in Timeouts, NEW a \in Times, AppSetTimeout(g, key, a)
      PROVE  TimeInv'
  <2>1. UNCHANGED <<kind, doc, at, ret>>
    BY <1>9 DEF AppSetTimeout
  <2>2. Reading'
    BY <1>1, <2>1 DEF Reading, Running
  <2>3. Accepts(key, FromSeconds(a.s, a.us)) => OneTime(key, FromSeconds(a.s, a.us), a)
    BY SecondsLemma
  <2>4. /\ device' = [device EXCEPT ![g] = WithTimeout(@, key, FromSeconds(a.s, a.us))]
        /\ asked' = AskedFor(g, key, FromSeconds(a.s, a.us), a)
    BY <1>9 DEF AppSetTimeout
  <2> QED BY <2>2, <2>3, <2>4, TimeoutStep
<1> QED BY <1>4, <1>5, <1>6, <1>7, <1>8, <1>9 DEF Next

\* Every step of the application and of the configuration keeps the time-outs.
LEMMA TimeStep == TimeInv /\ [ReportNext]_everything => TimeInv'
<1>1. ASSUME UNCHANGED <<kind, doc, at, ret, device, asked>>, TimeInv PROVE TimeInv'
  BY <1>1 DEF TimeInv, Reading, Running
<1>2. CASE Next
  BY <1>2, ConfigTimes
<1>3. CASE AccessStep
  BY <1>1, <1>3, AccessIdle DEF Idle
<1>4. CASE ReportStep
  BY <1>1, <1>4 DEF ReportStep, OpenClose, AskFails, AskClosed, AskReport, ServeReport, AppIdle
<1>5. CASE UNCHANGED everything
  BY <1>1, <1>5 DEF everything
<1> QED BY <1>2, <1>3, <1>4, <1>5 DEF ReportNext, AccessNext

\* Device::setResponseTimeout, setByteTimeout and setIndicationTimeout, and the keys of a
\* document: a device has the time-out that was asked for last, whatever was read,
\* refused or thrown in between.
THEOREM TimeoutsAsAskedCorrect == ReportSpec => []TimeoutsAsAsked
<1>1. TimeInv => TimeoutsAsAsked
  <2>1. Million \in Nat /\ UintEnd \in Nat
    BY TimeBounds, SMTT(30)
  <2>2. \A t \in Time : t.usec < Million
    BY <2>1, SMTT(30) DEF Time
  <2> QED BY <2>2 DEF TimeInv, OneTime, TimeoutsAsAsked
<1> QED BY <1>1, TimeInit, TimeStep, PTL DEF ReportSpec

-----------------------------------------------------------------------------
(* Configuration: the places of a document.                                 *)

\* The steps of an entry of the slaves of a group.
EntrySteps == {"slave", "pdu", "block", "value"}
BlockSteps == {"block", "value"}

EntryIn(p) == doc[p.g].slaves[p.s]
BlockIn(p) == EntryIn(p).blocks[p.b]

\* What is read at the place p is in the document.
InPlace(p) ==
  /\ p \in Place
  /\ p.step # "end" => p.g \in 1 .. Groups
  /\ p.step \in SectionSteps => p.o \in 1 .. 7 /\ p.s = 1
  /\ p.step \in {"master", "backend"} => p.o = 1
  /\ p.step \in EntrySteps =>
       p.o = 8 /\ HasSlaves(p.g) /\ p.s \in 1 .. Len(doc[p.g].slaves)
  /\ p.step \in BlockSteps => kind # "Master" /\ p.b \in 1 .. Len(EntryIn(p).blocks)
  /\ p.step = "value" =>
       BlockIn(p).quantity > 0 /\ p.v \in 1 .. Len(BlockIn(p).values) + 1

PlaceInv ==
  /\ kind \in Kinds
  /\ at \in Place
  /\ ret \in {"new", "running", "true", "thrown"}
  /\ doc \in Document \/ doc = <<>>
  /\ doc = <<>> => ~Running /\ at = FirstPlace
  /\ Running => doc \in Document /\ InPlace(at)

\* A document and its groups.
LEMMA DocumentLemma ==
  ASSUME doc \in Document
  PROVE  /\ Len(doc) \in 1 .. MaxGroups /\ Groups \in 1 .. Len(doc)
         /\ \A g \in 1 .. Len(doc) :
              /\ g \in GroupIds
              /\ doc[g].name \in Names /\ doc[g].section \in Section
              /\ doc[g].slaves \in Seq(Entry) /\ Len(doc[g].slaves) <= MaxEntries
<1>1. doc \in Seq(Group) /\ 1 <= Len(doc) /\ Len(doc) <= MaxGroups /\ MaxGroups \in Nat
  BY ConfigAssumption DEF Document
<1>2. Len(doc) \in 1 .. MaxGroups /\ Groups \in 1 .. Len(doc)
  BY <1>1 DEF Groups
<1>3. ASSUME NEW g \in 1 .. Len(doc)
      PROVE  /\ g \in GroupIds
             /\ doc[g].name \in Names /\ doc[g].section \in Section
             /\ doc[g].slaves \in Seq(Entry) /\ Len(doc[g].slaves) <= MaxEntries
  <2>1. doc[g] \in Group
    BY <1>1
  <2> QED BY <1>1, <2>1 DEF Group, GroupIds
<1> QED BY <1>2, <1>3

\* An entry and its blocks.
LEMMA EntryLemma ==
  ASSUME doc \in Document, NEW g \in 1 .. Len(doc), NEW s \in 1 .. Len(doc[g].slaves)
  PROVE  /\ doc[g].slaves[s].id \in Ids /\ doc[g].slaves[s].pdu \in {0, 1, Absent}
         /\ doc[g].slaves[s].blocks \in Seq(Block)
<1>1. doc[g].slaves \in Seq(Entry)
  BY DocumentLemma
<1>2. doc[g].slaves[s] \in Entry
  BY <1>1
<1> QED BY <1>2 DEF Entry

\* The block that is read and its values.
LEMMA BlockLemma ==
  ASSUME NEW b \in Block
  PROVE  /\ b.quantity \in Nat /\ b.start \in Int /\ b.at \in Optional(Nat)
         /\ b.values \in Seq(Value)
         /\ tableOf(b) \in Tables /\ typeOf(b) \in Types /\ endianOf(b) \in Endians
         /\ Words(typeOf(b)) \in {1, 2, 4, 8}
         /\ IsRegister(b) => \A i \in 1 .. Len(b.values) :
              b.values[i].value \in Seq(Word) /\ Len(b.values[i].value) = Words(typeOf(b))
<1>1. b \in BlockRecord
  BY DEF Block
<1>2. /\ b.quantity \in Nat /\ b.start \in Int /\ b.at \in Optional(Nat)
      /\ b.values \in Seq(Value)
  BY <1>1 DEF BlockRecord
<1>3. tableOf(b) \in Tables /\ typeOf(b) \in Types /\ endianOf(b) \in Endians
  BY DEF tableOf, typeOf, endianOf, FromText, Tables, Types, Endians, Unsigned
<1>4. \A t : Words(t) \in {1, 2, 4, 8}
  BY DEF Words
<1>5. ASSUME IsRegister(b), NEW i \in 1 .. Len(b.values)
      PROVE  b.values[i].value \in Seq(Word) /\ Len(b.values[i].value) = Words(typeOf(b))
  <2>1. Len(b.values[i].value) = Words(typeOf(b))
    BY <1>5 DEF Block, IsRegister
  <2>2. b.values[i] \in Value
    BY <1>2
  <2> QED BY <2>1, <2>2 DEF Value
<1> QED BY <1>2, <1>3, <1>4, <1>5

\* Where reading is.
LEMMA HereLemma ==
  ASSUME PlaceInv, Running
  PROVE  /\ doc \in Document /\ at \in Place
         /\ at.step # "end" => at.g \in 1 .. Len(doc) /\ at.g \in 1 .. Groups /\ at.g \in GroupIds
         /\ at.step # "end" => doc[at.g].section \in Section /\ doc[at.g].name \in Names
         /\ at.step \in EntrySteps =>
              /\ at.s \in 1 .. Len(doc[at.g].slaves) /\ HasSlaves(at.g)
              /\ TheEntry.id \in Ids /\ TheEntry.pdu \in {0, 1, Absent}
              /\ TheEntry.blocks \in Seq(Block)
         /\ at.step \in BlockSteps => at.b \in 1 .. Len(TheEntry.blocks) /\ TheBlock \in Block
<1>1. doc \in Document /\ at \in Place /\ InPlace(at)
  BY DEF PlaceInv
<1>2. at.step # "end" => at.g \in 1 .. Len(doc) /\ at.g \in 1 .. Groups /\ at.g \in GroupIds
  BY <1>1, DocumentLemma DEF InPlace
<1>3. at.step # "end" => doc[at.g].section \in Section /\ doc[at.g].name \in Names
  BY <1>1, <1>2, DocumentLemma
<1>4. ASSUME at.step \in EntrySteps
      PROVE  /\ at.s \in 1 .. Len(doc[at.g].slaves) /\ HasSlaves(at.g)
             /\ TheEntry.id \in Ids /\ TheEntry.pdu \in {0, 1, Absent}
             /\ TheEntry.blocks \in Seq(Block)
  <2>1. at.step # "end"
    BY <1>4 DEF EntrySteps
  <2>2. at.s \in 1 .. Len(doc[at.g].slaves) /\ HasSlaves(at.g)
    BY <1>1, <1>4 DEF InPlace
  <2> QED BY <1>1, <1>2, <2>1, <2>2, EntryLemma DEF TheEntry
<1>5. ASSUME at.step \in BlockSteps
      PROVE  at.b \in 1 .. Len(TheEntry.blocks) /\ TheBlock \in Block
  <2>1. at.step \in EntrySteps
    BY <1>5 DEF EntrySteps, BlockSteps
  <2>2. at.b \in 1 .. Len(TheEntry.blocks)
    BY <1>1, <1>5 DEF InPlace, EntryIn, TheEntry
  <2> QED BY <1>4, <2>1, <2>2 DEF TheBlock
<1> QED BY <1>1, <1>2, <1>3, <1>4, <1>5

\* The fields of a place.
LEMMA PlaceFields ==
  \A p \in Place : /\ DOMAIN p = {"g", "o", "s", "b", "v", "step"}
                   /\ p.g \in 1 .. MaxGroups + 1 /\ p.o \in 1 .. 8
                   /\ p.s \in Nat /\ p.b \in Nat /\ p.v \in Nat /\ p.step \in Steps
  BY DEF Place

\* Where the reading of a document starts.
LEMMA FirstPlaceLemma ==
  /\ FirstPlace \in Place
  /\ FirstPlace.g = 1 /\ FirstPlace.o = 1 /\ FirstPlace.s = 1 /\ FirstPlace.step = "backend"
  BY ConfigAssumption DEF FirstPlace, Place, Steps

\* The first place of a group, and of a slave.
LEMMA ToGroupPlace ==
  ASSUME doc \in Document, NEW g \in 1 .. Groups
  PROVE  InPlace(ToGroup(g + 1))
<1>1. g + 1 \in 1 .. MaxGroups + 1 /\ Groups \in Nat /\ MaxGroups \in Nat
  BY DocumentLemma, ConfigAssumption
<1> USE DEF SectionSteps, EntrySteps, BlockSteps
<1>2. CASE g + 1 > Groups
  <2> DEFINE p == [FirstPlace EXCEPT !.g = g + 1, !.step = "end"]
  <2>1. ToGroup(g + 1) = p
    BY <1>2, Zenon DEF ToGroup
  <2>2. p \in Place /\ p.step = "end"
    BY <1>1, FirstPlaceLemma DEF Place, Steps
  <2> QED BY <2>1, <2>2 DEF InPlace
<1>3. CASE ~(g + 1 > Groups)
  <2> DEFINE p == [FirstPlace EXCEPT !.g = g + 1, !.step = "master"]
  <2>1. ToGroup(g + 1) = p
    BY <1>3, Zenon DEF ToGroup
  <2>2. p \in Place /\ p.g = g + 1 /\ p.o = 1 /\ p.s = 1 /\ p.step = "master"
    BY <1>1, FirstPlaceLemma DEF Place, Steps
  <2>3. g + 1 \in 1 .. Groups
    BY <1>1, <1>3
  <2> HIDE DEF p
  <2> QED BY <2>1, <2>2, <2>3 DEF InPlace
<1> QED BY <1>2, <1>3

\* A slave, if there is one of that number, or the next master.
LEMMA ToSlavePlace ==
  ASSUME doc \in Document, NEW g \in 1 .. Groups, NEW s \in Nat \ {0}
  PROVE  InPlace(ToSlave(g, s))
<1>1. CASE ~(HasSlaves(g) /\ s <= Len(doc[g].slaves))
  BY <1>1, ToGroupPlace DEF ToSlave
<1>2. CASE HasSlaves(g) /\ s <= Len(doc[g].slaves)
  <2>1. ToSlave(g, s) = [g |-> g, o |-> 8, s |-> s, b |-> 1, v |-> 1, step |-> "slave"]
    BY <1>2 DEF ToSlave, FirstPlace
  <2>2. g \in 1 .. MaxGroups + 1 /\ Len(doc[g].slaves) \in Nat
    BY DocumentLemma, ConfigAssumption
  <2>3. ToSlave(g, s) \in Place
    BY <2>1, <2>2 DEF Place, Steps
  <2>4. s \in 1 .. Len(doc[g].slaves)
    BY <1>2, <2>2
  <2> QED BY <1>2, <2>1, <2>3, <2>4 DEF InPlace, SectionSteps, EntrySteps, BlockSteps
<1> QED BY <1>1, <1>2

\* Reading goes on inside the document, from every step.
LEMMA Moves ==
  ASSUME PlaceInv, Running
  PROVE  /\ at.step = "master" => InPlace([at EXCEPT !.step = "backend"])
         /\ at.step = "backend" => InPlace([at EXCEPT !.step = "option"])
         /\ at.step = "option" => InPlace(AfterOption)
         /\ at.step = "slave" => InPlace([at EXCEPT !.step = "pdu"])
         /\ at.step = "pdu" => InPlace(ToBlock(1))
         /\ at.step = "block" => InPlace(ToValues)
         /\ at.step = "value" /\ ~AllRead => InPlace([at EXCEPT !.v = at.v + 1])
         /\ at.step = "value" => InPlace(ToBlock(at.b + 1))
<1> USE DEF SectionSteps, EntrySteps, BlockSteps
<1>1. doc \in Document /\ at \in Place /\ InPlace(at) /\ Groups \in Nat
  BY DocumentLemma DEF PlaceInv
<1>2. /\ DOMAIN at = {"g", "o", "s", "b", "v", "step"}
      /\ at.g \in 1 .. MaxGroups + 1 /\ at.o \in 1 .. 8
      /\ at.s \in Nat /\ at.b \in Nat /\ at.v \in Nat /\ at.step \in Steps
  BY <1>1, PlaceFields
<1>3. ASSUME at.step = "master" PROVE InPlace([at EXCEPT !.step = "backend"])
  BY <1>1, <1>2, <1>3 DEF InPlace, Place, Steps
<1>4. ASSUME at.step = "backend" PROVE InPlace([at EXCEPT !.step = "option"])
  BY <1>1, <1>2, <1>4 DEF InPlace, Place, Steps
<1>5. ASSUME at.step = "option" PROVE InPlace(AfterOption)
  <2>1. at.g \in 1 .. Groups /\ at.o \in 1 .. 7
    BY <1>1, <1>5 DEF InPlace
  <2>2. CASE at.o < 7
    <3>1. at.o + 1 \in 1 .. 7
      BY <2>1, <2>2
    <3> QED BY <1>1, <1>2, <1>5, <2>2, <3>1 DEF InPlace, AfterOption, Place, Steps
  <2>3. CASE ~(at.o < 7)
    BY <1>1, <2>1, <2>3, ToSlavePlace DEF AfterOption
  <2> QED BY <2>2, <2>3
<1>6. ASSUME at.step = "slave" PROVE InPlace([at EXCEPT !.step = "pdu"])
  BY <1>1, <1>2, <1>6 DEF InPlace, Place, Steps
<1>7. ASSUME at.step \in {"pdu", "block", "value"}, NEW b \in Nat \ {0}
      PROVE  InPlace(ToBlock(b))
  <2>1. at.g \in 1 .. Groups /\ at.s + 1 \in Nat \ {0}
    BY <1>1, <1>2, <1>7 DEF InPlace
  <2>2. CASE ~(kind # "Master" /\ b <= Len(TheEntry.blocks))
    BY <1>1, <2>1, <2>2, ToSlavePlace DEF ToBlock
  <2>3. CASE kind # "Master" /\ b <= Len(TheEntry.blocks)
    <3> DEFINE p == [at EXCEPT !.b = b, !.v = 1, !.step = "block"]
    <3>1. /\ p \in Place /\ p.g = at.g /\ p.o = at.o /\ p.s = at.s
          /\ p.b = b /\ p.step = "block"
      BY <1>1, <1>2 DEF Place, Steps
    <3>2. at.o = 8 /\ HasSlaves(at.g) /\ at.s \in 1 .. Len(doc[at.g].slaves)
      BY <1>1, <1>7 DEF InPlace
    <3>3. TheEntry.blocks \in Seq(Block)
      BY <1>7, HereLemma
    <3>4. b \in 1 .. Len(EntryIn(p).blocks)
      BY <2>3, <3>1, <3>3 DEF EntryIn, TheEntry
    <3> HIDE DEF p
    <3>5. InPlace(p)
      BY <2>1, <2>3, <3>1, <3>2, <3>4 DEF InPlace
    <3> QED BY <2>3, <3>5 DEF ToBlock, p
  <2> QED BY <2>2, <2>3
<1>8. ASSUME at.step = "block" PROVE InPlace(ToValues)
  <2>1. TheBlock \in Block /\ at.b + 1 \in Nat \ {0}
    BY <1>2, <1>8, HereLemma
  <2>2. TheBlock.values \in Seq(Value)
    BY <2>1, BlockLemma
  <2>3. CASE ~(TheBlock.values # <<>> /\ TheBlock.quantity > 0)
    BY <1>7, <1>8, <2>1, <2>3 DEF ToValues
  <2>4. CASE TheBlock.values # <<>> /\ TheBlock.quantity > 0
    <3> DEFINE p == [at EXCEPT !.v = 1, !.step = "value"]
    <3>1. /\ p \in Place /\ p.g = at.g /\ p.o = at.o /\ p.s = at.s
          /\ p.b = at.b /\ p.v = 1 /\ p.step = "value"
      BY <1>1, <1>2 DEF Place, Steps
    <3>2. 1 \in 1 .. Len(TheBlock.values) + 1
      BY <2>2
    <3> HIDE DEF p
    <3>3. EntryIn(p) = TheEntry /\ EntryIn(at) = TheEntry /\ BlockIn(p) = TheBlock
      BY <3>1 DEF EntryIn, BlockIn, TheEntry, TheBlock
    <3>4. InPlace(p)
      BY <1>1, <1>8, <2>4, <3>1, <3>2, <3>3 DEF InPlace
    <3> QED BY <2>4, <3>4 DEF ToValues, p
  <2> QED BY <2>3, <2>4
<1>9. ASSUME at.step = "value", ~AllRead PROVE InPlace([at EXCEPT !.v = at.v + 1])
  <2> DEFINE p == [at EXCEPT !.v = at.v + 1]
  <2>1. /\ p \in Place /\ p.g = at.g /\ p.o = at.o /\ p.s = at.s
        /\ p.b = at.b /\ p.v = at.v + 1 /\ p.step = "value"
    BY <1>1, <1>2, <1>9 DEF Place
  <2>2. TheBlock \in Block
    BY <1>9, HereLemma
  <2>3. Len(TheBlock.values) \in Nat
    BY <2>2, BlockLemma
  <2>4. at.v + 1 \in 1 .. Len(TheBlock.values) + 1
    BY <1>2, <1>9, <2>3 DEF AllRead
  <2> HIDE DEF p
  <2>5. /\ EntryIn(p) = TheEntry /\ EntryIn(at) = TheEntry
        /\ BlockIn(p) = TheBlock /\ BlockIn(at) = TheBlock
    BY <2>1 DEF EntryIn, BlockIn, TheEntry, TheBlock
  <2>6. InPlace(p)
    BY <1>1, <1>9, <2>1, <2>4, <2>5 DEF InPlace
  <2> QED BY <2>6 DEF p
<1>10. at.b + 1 \in Nat \ {0} /\ 1 \in Nat \ {0}
  BY <1>2
<1> QED BY <1>3, <1>4, <1>5, <1>6, <1>7, <1>8, <1>9, <1>10

\* A step that goes to a place in the document keeps the places.
LEMMA GotoPlace ==
  ASSUME PlaceInv, Running, NEW p, InPlace(p), Goto(p), kind' = kind, doc' = doc
  PROVE  PlaceInv'
<1>1. doc \in Document /\ doc # <<>>
  BY DEF PlaceInv
<1>2. at' = p /\ ret' \in {"true", "running"} /\ p \in Place
  BY DEF Goto, InPlace
<1>3. InPlace(at)'
  BY <1>2 DEF InPlace, Groups, HasSlaves, EntryIn, BlockIn
<1> QED BY <1>1, <1>2, <1>3 DEF PlaceInv, Running

\* Nothing is read at first.
LEMMA PlaceInit == ReportInit => PlaceInv
<1> SUFFICES ASSUME Init PROVE PlaceInv
  BY DEF ReportInit, AccessInit
<1> QED BY FirstPlaceLemma DEF Init, PlaceInv, Running

\* What leaves the reading alone.
LEMMA PlaceIdle ==
  ASSUME PlaceInv, UNCHANGED <<kind, doc, at>>,
         ret' = ret \/ ret' = "thrown"
  PROVE  PlaceInv'
<1>1. InPlace(at)' <=> InPlace(at)
  BY DEF InPlace, Groups, HasSlaves, EntryIn, BlockIn
<1> QED BY <1>1 DEF PlaceInv, Running

\* Every step of the configuration keeps the places.
LEMMA ConfigPlaces == PlaceInv /\ Next => PlaceInv'
<1> SUFFICES ASSUME PlaceInv, Next PROVE PlaceInv'
  OBVIOUS
<1>1. CASE SetConfig
  <2>1. doc' \in Document /\ at' = FirstPlace /\ kind' = kind /\ ret' = "running"
    BY <1>1, ConfigAssumption DEF SetConfig, PlaceInv
  <2>2. doc' # <<>> /\ Groups' \in Nat /\ Groups' >= 1
    BY <2>1 DEF Document, Groups
  <2>3. InPlace(at)'
    BY <2>1, <2>2, FirstPlaceLemma DEF InPlace, SectionSteps, EntrySteps, BlockSteps
  <2> QED BY <2>1, <2>2, <2>3, FirstPlaceLemma DEF PlaceInv
<1>2. CASE SetConfigRefused \/ CannotOpen \/ JsonError \/ NoBackend \/ AddSlaveRefused \/ BadValue
  BY <1>2, PlaceIdle DEF SetConfigRefused, CannotOpen, JsonError, NoBackend, AddSlaveRefused,
     BadValue, Throw, vars
<1>3. CASE AddMaster \/ SetBackend \/ SkipOption \/ SetSwitch \/ SetSerial \/ SetTimeout
  <2>1. /\ Running /\ UNCHANGED <<kind, doc>>
        /\ \/ at.step = "master" /\ Goto([at EXCEPT !.step = "backend"])
           \/ at.step = "backend" /\ Goto([at EXCEPT !.step = "option"])
           \/ at.step = "option" /\ Goto(AfterOption)
    BY <1>3 DEF AddMaster, SetBackend, SkipOption, SetSwitch, SetSerial, SetTimeout, AtStep
  <2> QED BY <2>1, Moves, GotoPlace
<1>4. CASE AddSlave \/ SetPduAddressing
  <2>1. /\ Running /\ UNCHANGED <<kind, doc>>
        /\ \/ at.step = "slave" /\ Goto([at EXCEPT !.step = "pdu"])
           \/ at.step = "pdu" /\ Goto(ToBlock(1))
    BY <1>4 DEF AddSlave, SetPduAddressing, AtStep
  <2> QED BY <2>1, Moves, GotoPlace
<1>5. CASE SetBlock \/ ReadValue \/ WriteValues
  <2>1. /\ Running /\ UNCHANGED <<kind, doc>>
        /\ \/ at.step = "block" /\ Goto(ToValues)
           \/ at.step = "value" /\ ~AllRead /\ Goto([at EXCEPT !.v = at.v + 1])
           \/ at.step = "value" /\ Goto(ToBlock(at.b + 1))
    BY <1>5 DEF SetBlock, ReadValue, WriteValues, AtStep
  <2> QED BY <2>1, Moves, GotoPlace
<1>6. ASSUME NEW g \in GroupIds, NEW key \in Timeouts, NEW a \in Times, AppSetTimeout(g, key, a)
      PROVE  PlaceInv'
  BY <1>6, PlaceIdle DEF AppSetTimeout
<1> QED BY <1>1, <1>2, <1>3, <1>4, <1>5, <1>6 DEF Next

\* The steps of the application, of the reports and of Data leave the configuration
\* alone but for the items of slaves.
LEMMA OtherSteps ==
  ASSUME [ReportNext]_everything, ~(Next /\ UNCHANGED objVars /\ UNCHANGED reportVars)
  PROVE  /\ UNCHANGED <<kind, doc, at, ret, vect, device, master, asked>>
         /\ (AccessStep /\ UNCHANGED reportVars) \/ UNCHANGED slave
<1>1. CASE AccessStep /\ UNCHANGED reportVars
  BY <1>1, AccessIdle DEF Idle
<1>2. CASE ReportStep
  BY <1>2 DEF ReportStep, OpenClose, AskFails, AskClosed, AskReport, ServeReport, AppIdle
<1>3. CASE UNCHANGED everything
  BY <1>3 DEF everything
<1> QED BY <1>1, <1>2, <1>3 DEF ReportNext, AccessNext

\* Every step keeps the place in the document.
LEMMA PlaceStep == PlaceInv /\ [ReportNext]_everything => PlaceInv'
  BY ConfigPlaces, OtherSteps, PlaceIdle

-----------------------------------------------------------------------------
(* Configuration: types.                                                    *)

\* The seven keys of a section, and their values.
LEMMA OptionLemma ==
  ASSUME PlaceInv, Running, at.step = "option"
  PROVE  /\ at.o \in 1 .. 7 /\ OptionKeys[at.o] \in Keys
         /\ doc[at.g].section.option[OptionKeys[at.o]] \in Optional(Nat)
<1>1. at.o \in 1 .. 7
  BY DEF PlaceInv, InPlace, SectionSteps
<1>2. doc[at.g].section \in Section
  BY HereLemma
<1>3. OptionKeys[at.o] \in Keys
  BY <1>1 DEF Keys
<1>4. doc[at.g].section.option \in SectionOptions
  BY <1>2 DEF Section
<1>5. doc[at.g].section.option \in [Keys -> Optional(Nat)]
  BY <1>4 DEF SectionOptions
<1> QED BY <1>1, <1>3, <1>5

\* Each setting of a device.
LEMMA DeviceSettings ==
  ASSUME NEW d \in Device
  PROVE  /\ \A u \in Ids : [d EXCEPT !.unit = u] \in Device
         /\ \A key \in Flags, v \in Nat : [d EXCEPT !.flag[key] = v] \in Device
         /\ \A g : \A key \in Flags, v \in Nat : WithFlag(g, d, key, v) \in Device
         /\ \A key \in Timeouts, t \in Time : WithTimeout(d, key, t) \in Device
         /\ \A section \in Section : WithBackend(d, section) \in Device
         /\ \A g : Listening(g, d) \in Device
<1>1. \A u \in Ids : [d EXCEPT !.unit = u] \in Device
  BY DEF Device
<1>2. \A key \in Flags, v \in Nat : [d EXCEPT !.flag[key] = v] \in Device
  BY DEF Device
<1>3. ASSUME NEW g, NEW key \in Flags, NEW v \in Nat PROVE WithFlag(g, d, key, v) \in Device
  <2>1. "error-recovery" \in Flags /\ d.flag \in [Flags -> Nat]
    BY DEF Device, Flags
  <2>2. /\ [d.flag EXCEPT ![key] = v] \in [Flags -> Nat]
        /\ [d.flag EXCEPT ![key] = v, !["error-recovery"] = v] \in [Flags -> Nat]
    BY <2>1
  <2>3. \A f \in [Flags -> Nat] : [d EXCEPT !.flag = f] \in Device
    BY DEF Device
  <2> QED BY <2>2, <2>3 DEF WithFlag
<1>4. ASSUME NEW key \in Timeouts, NEW t \in Time PROVE WithTimeout(d, key, t) \in Device
  BY DEF WithTimeout, Device
<1>5. ASSUME NEW section \in Section PROVE WithBackend(d, section) \in Device
  <2>1. TcpSlave \in Ids
    BY ConfigAssumption
  <2>2. [d EXCEPT !.net = "tcp", !.unit = TcpSlave] \in Device
    BY <2>1 DEF Device
  <2>3. /\ Line(section).baud \in Nat /\ Line(section).parity \in {"E", "O", "N"}
        /\ Line(section).stop \in {1, 2}
    <3>1. section.baud \in Optional(Nat) /\ section.parity \in {"E", "O", "any"}
      BY DEF Section
    <3> QED BY <3>1, SMTT(30) DEF Line, Optional
  <2>4. OnLine(d, section) \in Device
    <3>1. \A n \in Nat, p \in {"E", "O", "N"}, s \in {1, 2} :
            [d EXCEPT !.net = "rtu", !.baud = n, !.parity = p, !.stop = s] \in Device
      BY DEF Device
    <3> QED BY <2>3, <3>1 DEF OnLine
  <2> QED BY <2>2, <2>4 DEF WithBackend
<1>6. ASSUME NEW g PROVE Listening(g, d) \in Device
  <2>1. "any-unit" \in Flags /\ 1 \in Nat
    BY DEF Flags
  <2> QED BY <1>2, <2>1 DEF Listening
<1> QED BY <1>1, <1>2, <1>3, <1>4, <1>5, <1>6

\* Times that are made of milliseconds and of seconds.
LEMMA MadeTimes ==
  /\ \A ms \in Nat : ms < UintEnd => \A t \in FromMilliseconds(ms) : t \in Time
  /\ \A a \in Times : FromSeconds(a.s, a.us) \in Time
<1>1. ASSUME NEW ms \in Nat, ms < UintEnd, NEW t \in FromMilliseconds(ms) PROVE t \in Time
  <2>1. PICK u \in Nat : /\ u = (ms % 1000) * 1000 \/ u = (ms % 1000) * 1000 - 1
                         /\ t = [sec |-> ms \div 1000, usec |-> u]
    BY SMTT(30) DEF FromMilliseconds
  <2>2. ms \div 1000 \in Nat /\ ms \div 1000 < UintEnd /\ ms % 1000 \in 0 .. 999
    BY <1>1, TimeBounds, SMTT(30)
  <2>3. u < Million
    BY <2>1, <2>2, TimeBounds, SMTT(30)
  <2> QED BY <2>1, <2>2, <2>3, TimeBounds
<1>2. ASSUME NEW a \in Times PROVE FromSeconds(a.s, a.us) \in Time
  <2>1. a.s \in Nat /\ a.us \in Nat /\ UintEnd \in Nat \ {0} /\ Million \in Nat \ {0}
    BY ConfigAssumption, TimeBounds, SMTT(30)
  <2>2. \A m \in Nat \ {0} : a.us \div m \in Nat /\ a.us % m \in Nat /\ a.us % m < m
    BY <2>1, SMTT(30)
  <2>3. \A n \in Nat, m \in Nat \ {0} : n % m \in Nat /\ n % m < m
    BY SMTT(30)
  <2>4. /\ (a.s + (a.us \div Million)) % UintEnd \in Nat
        /\ (a.s + (a.us \div Million)) % UintEnd < UintEnd
    BY <2>1, <2>2, <2>3
  <2> QED BY <2>1, <2>2, <2>4, TimeBounds DEF FromSeconds
<1> QED BY <1>1, <1>2

DeviceTypes ==
  /\ device \in [GroupIds -> Device]
  /\ asked \in [GroupIds -> [Timeouts -> [s : Nat, us : Nat]]]

\* A time-out that is asked for, in milliseconds or by the application.
LEMMA AskedTypes ==
  ASSUME DeviceTypes, NEW g \in GroupIds, NEW key \in Timeouts, NEW t \in Time,
         NEW a \in [s : Nat, us : Nat],
         device' = [device EXCEPT ![g] = WithTimeout(@, key, t)],
         asked' = AskedFor(g, key, t, a)
  PROVE  DeviceTypes'
<1>1. WithTimeout(device[g], key, t) \in Device
  BY DeviceSettings DEF DeviceTypes
<1>2. device' \in [GroupIds -> Device]
  BY <1>1 DEF DeviceTypes
<1>3. [asked EXCEPT ![g][key] = a] \in [GroupIds -> [Timeouts -> [s : Nat, us : Nat]]]
  BY DEF DeviceTypes
<1> QED BY <1>2, <1>3 DEF DeviceTypes, AskedFor

\* Every step of setConfig keeps the types of the devices.
LEMMA ConfigDevices == PlaceInv /\ DeviceTypes /\ Next => DeviceTypes'
<1> SUFFICES ASSUME PlaceInv, DeviceTypes, Next PROVE DeviceTypes'
  OBVIOUS
<1>1. ASSUME UNCHANGED <<device, asked>> PROVE DeviceTypes'
  BY <1>1 DEF DeviceTypes
<1>2. ASSUME NEW g, NEW d, g \in GroupIds => d \in Device, UNCHANGED asked,
             device' = [device EXCEPT ![g] = d]
      PROVE  DeviceTypes'
  BY <1>2 DEF DeviceTypes
<1>3. CASE SetConfig \/ SetConfigRefused \/ CannotOpen \/ JsonError \/ NoBackend \/ AddSlaveRefused
  BY <1>1, <1>3 DEF SetConfig, SetConfigRefused, CannotOpen, JsonError, NoBackend,
     AddSlaveRefused, Throw, vars
<1>4. CASE AddMaster \/ SkipOption \/ SetPduAddressing \/ SetBlock \/ ReadValue \/ WriteValues \/ BadValue
  BY <1>1, <1>4 DEF AddMaster, SkipOption, SetPduAddressing, SetBlock, ReadValue, WriteValues,
     BadValue, Throw
<1>5. CASE SetBackend
  <2> DEFINE section == doc[at.g].section
             own == IF netOf(section) = "rtu" THEN Broadcast ELSE TcpSlave
             new == IF IsMaster(at.g)
                    THEN [WithBackend(device[at.g], section) EXCEPT !.unit = own]
                    ELSE Listening(at.g, WithBackend(device[at.g], section))
  <2>1. device' = [device EXCEPT ![at.g] = new] /\ UNCHANGED asked
    BY <1>5 DEF SetBackend
  <2>2. section \in Section /\ at.g \in GroupIds
    BY <1>5, HereLemma DEF SetBackend, AtStep
  <2>3. WithBackend(device[at.g], section) \in Device
    BY <2>2, DeviceSettings DEF DeviceTypes
  <2>4. own \in Ids
    BY ConfigAssumption
  <2>5. new \in Device
    BY <2>3, <2>4, DeviceSettings
  <2> QED BY <1>2, <2>1, <2>5
<1>6. CASE SetSwitch \/ SetSerial
  <2> DEFINE key == OptionKeys[at.o]
             v == doc[at.g].section.option[key]
  <2>1. Running /\ at.step = "option" /\ v # Absent /\ key \in Flags /\ UNCHANGED asked
    BY <1>6 DEF SetSwitch, SetSerial, AtStep, Flags
  <2>2. at.g \in GroupIds /\ v \in Nat
    BY <2>1, HereLemma, OptionLemma DEF Optional
  <2>3. \/ device' = device
        \/ device' = [device EXCEPT ![at.g] = WithFlag(at.g, device[at.g], key, v)]
        \/ device' = [device EXCEPT ![at.g] = [device[at.g] EXCEPT !.flag[key] = v]]
    BY <1>6 DEF SetSwitch, SetSerial
  <2>4. /\ WithFlag(at.g, device[at.g], key, v) \in Device
        /\ [device[at.g] EXCEPT !.flag[key] = v] \in Device
    BY <2>1, <2>2, DeviceSettings DEF DeviceTypes
  <2> QED BY <1>1, <1>2, <2>1, <2>3, <2>4
<1>7. CASE SetTimeout
  <2> DEFINE key == OptionKeys[at.o]
             v == doc[at.g].section.option[key]
             a == [s |-> 0, us |-> v * 1000]
  <2>1. Running /\ at.step = "option" /\ v # Absent /\ key \in Timeouts
    BY <1>7 DEF SetTimeout, AtStep
  <2>2. PICK t \in FromMilliseconds(v) :
          /\ device' = [device EXCEPT ![at.g] = WithTimeout(@, key, t)]
          /\ asked' = AskedFor(at.g, key, t, a)
    BY <1>7 DEF SetTimeout
  <2>3. at.g \in GroupIds /\ v \in Nat /\ key \in Keys /\ doc[at.g].section \in Section
    BY <2>1, HereLemma, OptionLemma DEF Optional
  <2>4. v < UintEnd
    BY <2>1, <2>3 DEF Section, SectionOptions
  <2>5. t \in Time
    BY <2>3, <2>4, MadeTimes
  <2>6. a \in [s : Nat, us : Nat]
    BY <2>3
  <2> HIDE DEF key, v, a
  <2> QED BY <2>1, <2>2, <2>3, <2>5, <2>6, AskedTypes
<1>8. CASE AddSlave
  <2>1. /\ device' = [device EXCEPT ![1] = [device[1] EXCEPT !.unit = TheEntry.id]]
        /\ UNCHANGED asked
    BY <1>8 DEF AddSlave
  <2>2. TheEntry.id \in Ids
    BY <1>8, HereLemma DEF AddSlave, AtStep, EntrySteps
  <2>3. 1 \in GroupIds => [device[1] EXCEPT !.unit = TheEntry.id] \in Device
    BY <2>2, DeviceSettings DEF DeviceTypes
  <2> QED BY <1>2, <2>1, <2>3
<1>9. ASSUME NEW g \in GroupIds, NEW key \in Timeouts, NEW a \in Times, AppSetTimeout(g, key, a)
      PROVE  DeviceTypes'
  <2>1. /\ device' = [device EXCEPT ![g] = WithTimeout(@, key, FromSeconds(a.s, a.us))]
        /\ asked' = AskedFor(g, key, FromSeconds(a.s, a.us), a)
    BY <1>9 DEF AppSetTimeout
  <2>2. FromSeconds(a.s, a.us) \in Time
    BY MadeTimes
  <2>3. a \in [s : Nat, us : Nat]
    BY ConfigAssumption, TimeBounds
  <2> QED BY <2>1, <2>2, <2>3, AskedTypes
<1> QED BY <1>3, <1>4, <1>5, <1>6, <1>7, <1>8, <1>9 DEF Next

\* Numbers of words.
LEMMA ZeroLemma ==
  /\ ZeroWord \in Word
  /\ \A n \in Nat : Zero(n) \in Seq(Word) /\ Len(Zero(n)) = n
<1>1. ZeroWord \in Word
  BY DataAssumption DEF ZeroWord, Word
<1> QED BY <1>1 DEF Zero

\* The bits of a byte.
LEMMA BitLemma ==
  ASSUME NEW n \in 0 .. 255, NEW i \in 0 .. 7
  PROVE  Bit(n, i) \in Word
<1>1. i \in {0, 1, 2, 3, 4, 5, 6, 7}
  BY SMT
<1>2. (n \div (2 ^ i)) % 2 \in {0, 1}
  BY <1>1, SMT
<1> QED BY <1>2, DataAssumption DEF Bit, Word

\* The items that the values of a block give.
LEMMA ValueItems ==
  ASSUME NEW b \in Block, NEW i \in 1 .. Len(b.values)
  PROVE  /\ IsRegister(b) => /\ Kept(b, b.values[i]) \in Seq(Word)
                             /\ Len(Kept(b, b.values[i])) = Words(typeOf(b))
                             /\ DataOf(b, b.values[i]) =
                                  updateRegisters(Kept(b, b.values[i]), endianOf(b))
                             /\ DataOf(b, b.values[i]) \in Seq(Word)
                             /\ Len(DataOf(b, b.values[i])) = Words(typeOf(b))
         /\ \A room \in Nat \ {0} :
              LET n == IF ~b.values[i].text THEN 1 ELSE IF room < 8 THEN room ELSE 8 IN
              /\ n \in 1 .. 8
              /\ BitsOf(b.values[i], room) \in Seq(Word) /\ Len(BitsOf(b.values[i], room)) = n
              /\ \A k \in 1 .. n : BitsOf(b.values[i], room)[k] = Bit(b.values[i].byte, k - 1)
<1> DEFINE v == b.values[i]
<1>1. b.values \in Seq(Value)
  BY BlockLemma
<1>2. v \in Value
  BY <1>1
<1>3. v.byte \in 0 .. 255 /\ v.text \in BOOLEAN
  BY <1>2 DEF Value
<1>4. ASSUME IsRegister(b)
      PROVE  /\ Kept(b, v) \in Seq(Word) /\ Len(Kept(b, v)) = Words(typeOf(b))
             /\ DataOf(b, v) = updateRegisters(Kept(b, v), endianOf(b))
             /\ DataOf(b, v) \in Seq(Word) /\ Len(DataOf(b, v)) = Words(typeOf(b))
  <2>1. /\ v.value \in Seq(Word) /\ Len(v.value) = Words(typeOf(b))
        /\ Words(typeOf(b)) \in Nat /\ endianOf(b) \in Endians
    BY <1>4, BlockLemma
  <2> HIDE DEF v
  <2>2. Kept(b, v) \in Seq(Word) /\ Len(Kept(b, v)) = Words(typeOf(b))
    BY <2>1, ZeroLemma DEF Kept, Meant
  <2>3. DataOf(b, v) = updateRegisters(Kept(b, v), endianOf(b))
    <3>1. typeOf(b) \in Types
      BY DEF typeOf, FromText, Types, Unsigned
    <3>2. strToT(typeOf(b)) <=> typeOf(b) \notin Signed \cup {"longdouble"}
      BY <3>1 DEF strToT, Types, Unsigned, Signed
    <3> QED BY <3>2 DEF DataOf, Kept, Lost, Meant
  <2> QED BY <2>1, <2>2, <2>3, RegistersLemma
<1>5. ASSUME NEW room \in Nat \ {0}
      PROVE  LET n == IF ~v.text THEN 1 ELSE IF room < 8 THEN room ELSE 8 IN
             /\ n \in 1 .. 8
             /\ BitsOf(v, room) \in Seq(Word) /\ Len(BitsOf(v, room)) = n
             /\ \A k \in 1 .. n : BitsOf(v, room)[k] = Bit(v.byte, k - 1)
  <2> DEFINE n == IF ~v.text THEN 1 ELSE IF room < 8 THEN room ELSE 8
  <2>1. n \in 1 .. 8
    OBVIOUS
  <2>2. BitsOf(v, room) = [k \in 1 .. n |-> Bit(v.byte, k - 1)]
    BY DEF BitsOf
  <2> HIDE DEF n, v
  <2>3. ASSUME NEW k \in 1 .. n PROVE Bit(v.byte, k - 1) \in Word
    <3>1. k - 1 \in 0 .. 7
      BY <2>1
    <3> QED BY <1>3, <3>1, BitLemma
  <2>4. /\ BitsOf(v, room) \in Seq(Word) /\ Len(BitsOf(v, room)) = n
        /\ \A k \in 1 .. n : BitsOf(v, room)[k] = Bit(v.byte, k - 1)
    BY <2>1, <2>2, <2>3
  <2> QED BY <2>1, <2>4 DEF n
<1> QED BY <1>4, <1>5

\* The value that is read next.
LEMMA NextValue ==
  ASSUME PlaceInv, vect \in Seq(Word), AtStep("value"), ~AllRead
  PROVE  /\ TheBlock \in Block /\ at.v \in 1 .. Len(TheBlock.values)
         /\ ~IsRegister(TheBlock) => TheBlock.quantity - Len(vect) \in Nat \ {0}
<1>1. Running /\ at.step = "value" /\ TheBlock \in Block
  BY HereLemma DEF AtStep, BlockSteps
<1>2. TheBlock.quantity \in Nat /\ Len(TheBlock.values) \in Nat /\ Len(vect) \in Nat
  BY <1>1, BlockLemma
<1>3. at.v \in 1 .. Len(TheBlock.values) + 1
  BY <1>1 DEF PlaceInv, InPlace, BlockIn, EntryIn, TheBlock, TheEntry
<1> QED BY <1>1, <1>2, <1>3 DEF AllRead

\* memcpy keeps the length of the block.
LEMMA WrittenLemma ==
  ASSUME NEW items \in Seq(Word), NEW v \in Seq(Word), NEW offset \in Int
  PROVE  /\ Written(items, offset, v) \in Seq(Word)
         /\ Len(Written(items, offset, v)) = Len(items)
         /\ \A p \in 1 .. Len(items) :
              Written(items, offset, v)[p] =
                IF offset < p /\ p <= offset + Len(v) THEN v[p - offset] ELSE items[p]
<1>1. \A p \in 1 .. Len(items) :
        (IF offset < p /\ p <= offset + Len(v) THEN v[p - offset] ELSE items[p]) \in Word
  OBVIOUS
<1> QED BY <1>1 DEF Written

\* A slave has addresses, and tables of words.
LEMMA SlaveLemma ==
  ASSUME NEW s \in Slave, NEW t \in Tables
  PROVE  /\ DOMAIN s = {"there", "device", "pdu", "table"}
         /\ s.table \in [Tables -> Items]
         /\ s.table[t].start \in Int /\ s.table[t].items \in Seq(Word)
         /\ \A addr \in Int : pduAddress(s, addr) \in Int /\ dataAddress(s, addr) \in Int
         /\ \A it \in Items : [s EXCEPT !.table[t] = it] \in Slave
<1>1. DOMAIN s = {"there", "device", "pdu", "table"} /\ s.table \in [Tables -> Items]
  BY DEF Slave
<1>2. s.table[t] \in Items
  BY <1>1
<1>3. s.table[t].start \in Int /\ s.table[t].items \in Seq(Word)
  BY <1>2 DEF Items
<1>4. \A addr \in Int : pduAddress(s, addr) \in Int /\ dataAddress(s, addr) \in Int
  BY DEF pduAddress, dataAddress
<1>5. \A it \in Items : [s EXCEPT !.table[t] = it] \in Slave
  BY DEF Slave
<1> QED BY <1>1, <1>3, <1>4, <1>5

\* writeCoils .. writeInputRegisters keep the types.
LEMMA StoredLemma ==
  ASSUME NEW s \in Slave, NEW t \in Tables, NEW addr \in Int, NEW v \in Seq(Word)
  PROVE  Stored(s, t, addr, v) \in Slave
<1> DEFINE old == s.table[t]
           offset == pduAddress(s, addr) - old.start
           new == [old EXCEPT !.items = Written(old.items, offset, v)]
<1>1. old \in Items /\ old.items \in Seq(Word) /\ offset \in Int
  BY SlaveLemma
<1>2. Written(old.items, offset, v) \in Seq(Word)
  BY <1>1, WrittenLemma
<1>3. new \in Items
  BY <1>1, <1>2 DEF Items
<1> HIDE DEF new
<1>4. [s EXCEPT !.table[t] = new] \in Slave
  BY <1>3, SlaveLemma
<1> QED BY <1>4 DEF Stored, new

\* setBlock gives words to a table.
LEMMA ResizedLemma ==
  ASSUME NEW table, NEW old \in Seq(Word), NEW n \in Nat, NEW items \in Resized(table, old, n)
  PROVE  items \in Seq(Word)
<1> DEFINE stale == IF table \in Registers /\ Len(old) > 0
                    THEN {i \in 1 .. n : Len(old) < i /\ i <= 2 * Len(old)} ELSE {}
<1>1. PICK h \in [stale -> Heap] :
        items = [i \in 1 .. n |-> IF i <= Len(old) THEN old[i]
                                  ELSE IF i \in stale THEN h[i] ELSE ZeroWord]
  BY DEF Resized
<1> HIDE DEF stale
<1>2. \A i \in stale : h[i] \in Word
  BY ConfigAssumption
<1>3. \A i \in 1 .. n : (IF i <= Len(old) THEN old[i]
                         ELSE IF i \in stale THEN h[i] ELSE ZeroWord) \in Word
  BY <1>2, ZeroLemma
<1> QED BY <1>1, <1>3

SlaveTypes ==
  /\ slave \in [Ids -> Slave]
  /\ vect \in Seq(Word)
  /\ master \in [Names -> 0 .. MaxGroups]

\* Every step of setConfig keeps the types of the slaves, their blocks and the items.
LEMMA ConfigSlaves == PlaceInv /\ SlaveTypes /\ Next => SlaveTypes'
<1> SUFFICES ASSUME PlaceInv, SlaveTypes, Next PROVE SlaveTypes'
  OBVIOUS
<1>0. <<>> \in Seq(Word)
  OBVIOUS
<1>1. ASSUME UNCHANGED <<slave, master>>, vect' = vect \/ vect' = <<>> PROVE SlaveTypes'
  BY <1>0, <1>1 DEF SlaveTypes
<1>2. ASSUME NEW i, NEW s, i \in Ids => s \in Slave, UNCHANGED master,
             vect' = vect \/ vect' = <<>>,
             slave' = [slave EXCEPT ![i] = s]
      PROVE  SlaveTypes'
  <2>1. slave' \in [Ids -> Slave]
    BY <1>2 DEF SlaveTypes
  <2> QED BY <1>0, <1>2, <2>1 DEF SlaveTypes
<1>3. CASE SetConfig \/ SetConfigRefused \/ CannotOpen \/ JsonError \/ NoBackend \/ AddSlaveRefused \/ BadValue
  BY <1>1, <1>3 DEF SetConfig, SetConfigRefused, CannotOpen, JsonError, NoBackend,
     AddSlaveRefused, BadValue, Throw, vars
<1>4. CASE SkipOption \/ SetSwitch \/ SetSerial \/ SetTimeout
  BY <1>1, <1>4 DEF SkipOption, SetSwitch, SetSerial, SetTimeout
<1>5. CASE AddMaster
  <2>1. at.g \in 0 .. MaxGroups
    BY <1>5, HereLemma DEF AddMaster, AtStep, GroupIds
  <2> QED BY <1>5, <2>1 DEF AddMaster, SlaveTypes
<1>6. CASE SetBackend
  <2> DEFINE own == IF netOf(doc[at.g].section) = "rtu" THEN Broadcast ELSE TcpSlave
             new == [slave[own] EXCEPT !.there = TRUE, !.device = at.g]
  <2>1. UNCHANGED <<vect, master>> /\ (slave' = slave \/ slave' = [slave EXCEPT ![own] = new])
    BY <1>6 DEF SetBackend
  <2>2. at.g \in 0 .. MaxGroups
    BY <1>6, HereLemma DEF SetBackend, AtStep, GroupIds
  <2>3. own \in Ids => new \in Slave
    BY <2>2 DEF SlaveTypes, Slave
  <2> HIDE DEF own, new
  <2> QED BY <1>1, <1>2, <2>1, <2>3
<1>7. CASE AddSlave
  <2> DEFINE new == [slave[TheEntry.id] EXCEPT !.there = TRUE,
                       !.device = IF kind = "Server" THEN 0 ELSE at.g]
  <2>1. UNCHANGED <<vect, master>> /\ slave' = [slave EXCEPT ![TheEntry.id] = new]
    BY <1>7 DEF AddSlave
  <2>2. (IF kind = "Server" THEN 0 ELSE at.g) \in 0 .. MaxGroups
    BY <1>7, HereLemma, ConfigAssumption DEF AddSlave, AtStep, GroupIds
  <2>3. TheEntry.id \in Ids => new \in Slave
    BY <2>2 DEF SlaveTypes, Slave
  <2> QED BY <1>2, <2>1, <2>3
<1>8. CASE SetPduAddressing
  <2> DEFINE p == TheEntry.pdu = 1
             new == [slave[TheEntry.id] EXCEPT !.pdu = p]
  <2>1. UNCHANGED <<vect, master>> /\ (slave' = slave \/ slave' = [slave EXCEPT ![TheEntry.id] = new])
    BY <1>8 DEF SetPduAddressing
  <2>2. p \in BOOLEAN
    OBVIOUS
  <2> HIDE DEF p
  <2>3. TheEntry.id \in Ids => new \in Slave
    BY <2>2 DEF SlaveTypes, Slave
  <2> QED BY <1>1, <1>2, <2>1, <2>3
<1>9. CASE SetBlock
  <2> DEFINE t == tableOf(TheBlock)
             n == BlockSize(TheBlock)
             start == BlockStart(TheSlave, TheBlock)
  <2>1. Running /\ at.step = "block"
    BY <1>9 DEF SetBlock, AtStep
  <2>2. TheBlock \in Block /\ TheEntry.id \in Ids
    BY <2>1, HereLemma DEF EntrySteps, BlockSteps
  <2>3. t \in Tables /\ TheSlave \in Slave
    BY <2>2, BlockLemma DEF TheSlave, SlaveTypes
  <2>4. TheSlave.table[t].items \in Seq(Word)
    BY <2>3, SlaveLemma
  <2>5. n \in Nat
    BY <2>2, BlockLemma DEF BlockSize
  <2>6. start \in Int
    BY <2>2, <2>3, BlockLemma DEF BlockStart, pduAddress, dataAddress
  <2>7. PICK items \in Resized(t, TheSlave.table[t].items, n) :
          slave' = [slave EXCEPT ![TheEntry.id].table[t] = [start |-> start, items |-> items]]
    BY <1>9 DEF SetBlock
  <2>8. vect' = <<>> /\ UNCHANGED master
    BY <1>9 DEF SetBlock
  <2> HIDE DEF t, n, start
  <2>9. [start |-> start, items |-> items] \in Items
    BY <2>4, <2>5, <2>6, ResizedLemma DEF Items
  <2>10. [TheSlave EXCEPT !.table[t] = [start |-> start, items |-> items]] \in Slave
    BY <2>3, <2>9, SlaveLemma
  <2>11. slave' = [slave EXCEPT ![TheEntry.id] =
                     [TheSlave EXCEPT !.table[t] = [start |-> start, items |-> items]]]
    BY <2>7 DEF TheSlave
  <2> QED BY <1>2, <2>8, <2>10, <2>11
<1>10. CASE ReadValue
  <2> DEFINE v == IF IsRegister(TheBlock) THEN DataOf(TheBlock, TheValue)
                  ELSE BitsOf(TheValue, TheBlock.quantity - Len(vect))
  <2>1. AtStep("value") /\ ~AllRead /\ vect' = vect \o v /\ UNCHANGED <<slave, master>>
    BY <1>10 DEF ReadValue
  <2>2. v \in Seq(Word)
    BY <2>1, NextValue, ValueItems DEF SlaveTypes, TheValue
  <2> HIDE DEF v
  <2> QED BY <2>1, <2>2 DEF SlaveTypes
<1>11. CASE WriteValues
  <2> DEFINE t == tableOf(TheBlock)
             addr == ValuesAddress(TheSlave, TheBlock)
             new == Stored(TheSlave, t, addr, vect)
  <2>1. Running /\ at.step = "value" /\ UNCHANGED <<vect, master>>
    BY <1>11 DEF WriteValues, AtStep
  <2>2. TheBlock \in Block /\ TheEntry.id \in Ids
    BY <2>1, HereLemma DEF EntrySteps, BlockSteps
  <2>3. t \in Tables /\ TheSlave \in Slave
    BY <2>2, BlockLemma DEF TheSlave, SlaveTypes
  <2>4. addr \in Int
    BY <2>2, <2>3, BlockLemma DEF ValuesAddress, dataAddress, Optional
  <2>5. new \in Slave
    BY <2>3, <2>4, StoredLemma DEF SlaveTypes
  <2>6. slave' = [slave EXCEPT ![TheEntry.id] = new]
    BY <1>11 DEF WriteValues, TheSlave
  <2> QED BY <1>2, <2>1, <2>5, <2>6
<1>12. ASSUME NEW g \in GroupIds, NEW key \in Timeouts, NEW a \in Times, AppSetTimeout(g, key, a)
       PROVE  SlaveTypes'
  BY <1>1, <1>12 DEF AppSetTimeout
<1> QED BY <1>3, <1>4, <1>5, <1>6, <1>7, <1>8, <1>9, <1>10, <1>11, <1>12 DEF Next

-----------------------------------------------------------------------------
(* Arrays of Data.                                                          *)

\* A product grows with its factors.
LEMMA ProductLemma ==
  ASSUME NEW n \in Nat, NEW a \in Nat, NEW c \in Nat, a <= c
  PROVE  a * n \in Nat /\ c * n \in Nat /\ a * n <= c * n
<1>1. PICK d \in Nat : c = a + d
  <2>1. c - a \in Nat /\ c = a + (c - a)
    OBVIOUS
  <2> QED BY <2>1
<1>2. c * n = a * n + d * n /\ d * n \in Nat /\ a * n \in Nat
  BY <1>1, SMTT(30)
<1> QED BY <1>2

\* Numbers by quotient and remainder.
LEMMA QuotientLemma ==
  ASSUME NEW n \in Nat \ {0}, NEW m \in Nat, NEW j \in 1 .. m * n
  PROVE  /\ ((j - 1) \div n) + 1 \in 1 .. m /\ ((j - 1) % n) + 1 \in 1 .. n
         /\ j = ((j - 1) \div n) * n + ((j - 1) % n) + 1
<1> DEFINE q == (j - 1) \div n
           r == (j - 1) % n
<1>1. m * n \in Nat
  BY SMTT(30)
<1>2. j - 1 \in Nat /\ j <= m * n
  BY <1>1
<1>3. q \in Nat /\ r \in Nat /\ r < n /\ j - 1 = n * q + r
  BY <1>2, SMTT(30)
<1> HIDE DEF q, r
<1>4. n * q = q * n /\ q * n \in Nat
  BY <1>3, SMTT(30)
<1>5. q < m
  <2> SUFFICES ASSUME m <= q PROVE FALSE
    BY <1>3
  <2>1. m * n <= q * n
    BY <1>3, ProductLemma
  <2> QED BY <1>1, <1>2, <1>3, <1>4, <2>1
<1> QED BY <1>2, <1>3, <1>4, <1>5 DEF q, r

\* The register number k of object number i of an array, and back.
LEMMA PositionLemma ==
  ASSUME NEW n \in Nat \ {0}, NEW m \in Nat, NEW i \in 1 .. m, NEW k \in 1 .. n
  PROVE  LET j == (i - 1) * n + k IN
         /\ j \in 1 .. m * n
         /\ ((j - 1) \div n) + 1 = i /\ ((j - 1) % n) + 1 = k
<1> DEFINE j == (i - 1) * n + k
<1>1. /\ (i - 1) * n \in Nat /\ m * n \in Nat /\ i * n \in Nat /\ i * n <= m * n
      /\ i * n = (i - 1) * n + n
  <2>1. i * n = (i - 1) * n + n
    BY SMTT(30)
  <2> QED BY <2>1, ProductLemma
<1>2. j \in 1 .. m * n
  BY <1>1
<1>3. ((j - 1) \div n) + 1 \in 1 .. m /\ ((j - 1) % n) + 1 \in 1 .. n
      /\ j = ((j - 1) \div n) * n + ((j - 1) % n) + 1
  BY <1>2, QuotientLemma
<1> DEFINE q == (j - 1) \div n
           r == (j - 1) % n
<1>4. q \in Nat /\ r \in 0 .. n - 1 /\ (i - 1) * n + k = q * n + r + 1
  BY <1>1, <1>2, <1>3
<1> HIDE DEF q, r, j
<1>5. q = i - 1
  <2>1. CASE q >= i
    <3>1. i * n <= q * n /\ q * n \in Nat
      BY <1>4, <2>1, ProductLemma
    <3> QED BY <1>1, <1>4, <3>1
  <2>2. CASE q + 1 <= i - 1
    <3>1. (q + 1) * n <= (i - 1) * n /\ q * n \in Nat
      BY <1>4, <2>2, ProductLemma
    <3>2. (q + 1) * n = q * n + n
      BY <1>4, SMTT(30)
    <3> QED BY <1>1, <1>4, <3>1, <3>2
  <2> QED BY <1>4, <2>1, <2>2
<1>6. q + 1 = i /\ r + 1 = k
  BY <1>1, <1>4, <1>5
<1> QED BY <1>2, <1>6 DEF j, q, r

\* An object of the array.
Whole(d) == d \in Datum /\ Len(d.value) = words /\ Len(d.registers) = words

ObjTypes ==
  /\ shape \in Shapes
  /\ obj \in Seq(Datum)
  /\ \A i \in 1 .. Len(obj) : Whole(obj[i])
  /\ kept \in Writes \cup {NoWrite}
  /\ fresh \subseteq 1 .. Len(obj)

\* An array has objects, and they have words.
LEMMA WordsLemma ==
  ASSUME shape \in Shapes
  PROVE  words \in Nat \ {0} /\ shape.nb \in Nat \ {0} /\ shape.orders \subseteq Endians
<1>1. shape \in [words : Nat \ {0}, nb : Nat \ {0}, orders : SUBSET Endians]
  BY AccessAssumption
<1> QED BY <1>1 DEF words

\* updateRegisters and updateValue make whole objects.
LEMMA WholeLemma ==
  ASSUME NEW v \in Seq(Word), Len(v) = words, NEW e \in Endians
  PROVE  /\ Whole(Consistent(v, e))
         /\ \A d : Whole(d) => /\ Whole(FromRegisters(d, v)) /\ Whole([d EXCEPT !.value = v])
                               /\ Whole([d EXCEPT !.registers = v])
<1>1. updateRegisters(v, e) \in Seq(Word) /\ Len(updateRegisters(v, e)) = words
  BY RegistersLemma
<1>2. Whole(Consistent(v, e))
  BY <1>1 DEF Whole, Consistent, Datum
<1>3. \A d : Whole(d) => Whole([d EXCEPT !.value = v]) /\ Whole([d EXCEPT !.registers = v])
  BY DEF Whole, Datum
<1>4. ASSUME NEW d, Whole(d) PROVE Whole(FromRegisters(d, v))
  <2> DEFINE u == updateValue(v, d.endian)
             r == TurnedRegisters(v)
  <2>1. d.endian \in Endians
    BY <1>4 DEF Whole, Datum
  <2>2. \A w \in Word : ntohWord(w) \in Word
    BY FlipLemma DEF ntohWord
  <2>3. r \in Seq(Word) /\ Len(r) = words
    BY <2>2 DEF TurnedRegisters
  <2>4. u \in Seq(Word) /\ Len(u) = words
    BY <2>1, <2>3, SwapLemma, NtohLemma DEF updateValue
  <2> HIDE DEF u, r
  <2>5. Whole([d EXCEPT !.value = u, !.registers = r])
    BY <1>4, <2>3, <2>4 DEF Whole, Datum
  <2> QED BY <2>5 DEF FromRegisters, u, r
<1> QED BY <1>2, <1>3, <1>4

\* An array of whole objects.
LEMMA ArrayLemma ==
  ASSUME NEW n \in Nat, NEW f, f = [i \in 1 .. n |-> f[i]], \A i \in 1 .. n : Whole(f[i])
  PROVE  f \in Seq(Datum) /\ Len(f) = n
  BY DEF Whole

\* Addresses are numbers, and registers that can be read are words.
LEMMA RegisterLemma ==
  ASSUME SlaveTypes, NEW i \in Ids, NEW t \in Registers, NEW addr \in Int
  PROVE  /\ Offset(i, t, addr) \in Int
         /\ slave[i].table[t].items \in Seq(Word)
         /\ \A n \in Nat : /\ Readable(i, t, addr, n) \in 0 .. n
                           /\ \A k \in 1 .. Readable(i, t, addr, n) : Register(i, t, addr, k) \in Word
<1>1. slave[i] \in Slave /\ t \in Tables
  BY DEF SlaveTypes, Registers, Tables
<1>2. Offset(i, t, addr) \in Int /\ slave[i].table[t].items \in Seq(Word)
  BY <1>1, SlaveLemma DEF Offset
<1>3. ASSUME NEW n \in Nat
      PROVE  /\ Readable(i, t, addr, n) \in 0 .. n
             /\ \A k \in 1 .. Readable(i, t, addr, n) : Register(i, t, addr, k) \in Word
  <2> DEFINE len == Len(slave[i].table[t].items)
             o == Offset(i, t, addr)
  <2>1. len \in Nat /\ o \in Int
    BY <1>2
  <2>2. CASE ~(0 <= o /\ o < len)
    <3>1. Readable(i, t, addr, n) = 0
      BY <2>2 DEF Readable, InBlock
    <3> QED BY <3>1
  <2>3. CASE 0 <= o /\ o < len
    <3>1. Readable(i, t, addr, n) = IF n < len - o THEN n ELSE len - o
      BY <2>3 DEF Readable, InBlock
    <3> HIDE DEF o, len
    <3>2. Readable(i, t, addr, n) \in 0 .. n /\ Readable(i, t, addr, n) <= len - o
      BY <2>1, <2>3, <3>1
    <3>3. \A k \in 1 .. Readable(i, t, addr, n) : o + k \in 1 .. len
      BY <2>1, <2>3, <3>2
    <3> QED BY <1>2, <3>2, <3>3 DEF o, len, Register
  <2> QED BY <2>2, <2>3
<1> QED BY <1>2, <1>3

\* The addresses that the application tries are numbers.
LEMMA AddressesLemma ==
  ASSUME SlaveTypes, NEW i \in Ids, NEW t \in Registers
  PROVE  Addresses(i, t) \subseteq Int
<1>1. slave[i] \in Slave /\ t \in Tables
  BY DEF SlaveTypes, Registers, Tables
<1>2. slave[i].table[t].start \in Int /\ Len(slave[i].table[t].items) \in Nat
  BY <1>1, SlaveLemma
<1> QED BY <1>2 DEF Addresses, dataAddress

\* The registers of an array, one after the other.
LEMMA ConcatenatedLemma ==
  ASSUME shape \in Shapes, NEW ds \in Seq(Datum), \A i \in 1 .. Len(ds) : Whole(ds[i])
  PROVE  /\ Concatenated(ds) \in Seq(Word)
         /\ Len(ds) * words \in Nat /\ Len(Concatenated(ds)) = Len(ds) * words
         /\ \A i \in 1 .. Len(ds), k \in 1 .. words :
              /\ (i - 1) * words + k \in 1 .. Len(ds) * words
              /\ Concatenated(ds)[(i - 1) * words + k] = ds[i].registers[k]
<1> DEFINE n == words
           m == Len(ds)
<1>1. n \in Nat \ {0} /\ m \in Nat
  BY WordsLemma
<1>2. m * n \in Nat
  BY <1>1, SMTT(30)
<1>3. ASSUME NEW i \in 1 .. m, NEW k \in 1 .. n PROVE ds[i].registers[k] \in Word
  <2>1. Whole(ds[i])
    OBVIOUS
  <2>2. ds[i].registers \in Seq(Word) /\ Len(ds[i].registers) = n
    BY <2>1 DEF Whole, Datum
  <2> QED BY <2>2
<1>4. Concatenated(ds) = [j \in 1 .. m * n |->
         ds[((j - 1) \div n) + 1].registers[((j - 1) % n) + 1]]
  BY DEF Concatenated
<1> HIDE DEF n, m
<1>5. \A j \in 1 .. m * n : ds[((j - 1) \div n) + 1].registers[((j - 1) % n) + 1] \in Word
  BY <1>1, <1>3, QuotientLemma
<1>6. Concatenated(ds) \in Seq(Word) /\ Len(Concatenated(ds)) = m * n
  BY <1>2, <1>4, <1>5
<1>7. ASSUME NEW i \in 1 .. m, NEW k \in 1 .. n
      PROVE  /\ (i - 1) * n + k \in 1 .. m * n
             /\ Concatenated(ds)[(i - 1) * n + k] = ds[i].registers[k]
  <2> DEFINE j == (i - 1) * n + k
  <2>1. j \in 1 .. m * n /\ ((j - 1) \div n) + 1 = i /\ ((j - 1) % n) + 1 = k
    BY <1>1, PositionLemma
  <2> HIDE DEF j
  <2>2. Concatenated(ds)[j] = ds[i].registers[k]
    BY <1>4, <2>1
  <2> QED BY <2>1, <2>2 DEF j
<1> QED BY <1>2, <1>6, <1>7 DEF n, m

\* One object of the array changes.
LEMMA OneObject ==
  ASSUME ObjTypes, NEW i \in 1 .. Len(obj), NEW d, Whole(d),
         obj' = [obj EXCEPT ![i] = d], fresh' \subseteq fresh \cup {i}, UNCHANGED <<shape, kept>>
  PROVE  ObjTypes'
<1>1. obj' \in Seq(Datum) /\ Len(obj') = Len(obj)
  BY DEF ObjTypes, Whole
<1>2. \A k \in 1 .. Len(obj) : obj'[k] = IF k = i THEN d ELSE obj[k]
  BY DEF ObjTypes
<1>3. \A k \in 1 .. Len(obj') : Whole(obj'[k])
  BY <1>1, <1>2 DEF ObjTypes
<1>4. \A x : Whole(x)' <=> Whole(x)
  BY DEF Whole, words
<1> QED BY <1>1, <1>3, <1>4 DEF ObjTypes

\* All of them do.
LEMMA AllObjects ==
  ASSUME ObjTypes, NEW n \in Nat, NEW f, f = [i \in 1 .. n |-> f[i]],
         \A i \in 1 .. n : Whole(f[i]), obj' = f, fresh' \subseteq 1 .. n,
         kept' \in Writes \cup {NoWrite}, UNCHANGED shape
  PROVE  ObjTypes'
<1>1. obj' \in Seq(Datum) /\ Len(obj') = n
  BY ArrayLemma
<1>2. \A x : Whole(x)' <=> Whole(x)
  BY DEF Whole, words
<1> QED BY <1>1, <1>2 DEF ObjTypes

\* updateRegisters() of each object.
LEMMA UpdatedLemma ==
  ASSUME ObjTypes
  PROVE  /\ Len(obj) \in Nat
         /\ Updated(obj) = [i \in 1 .. Len(obj) |-> Updated(obj)[i]]
         /\ \A i \in 1 .. Len(obj) :
              /\ obj[i].value \in Seq(Word) /\ Len(obj[i].value) = words /\ obj[i].endian \in Endians
              /\ Updated(obj)[i] = Consistent(obj[i].value, obj[i].endian)
              /\ Whole(Updated(obj)[i])
         /\ Updated(obj) \in Seq(Datum) /\ Len(Updated(obj)) = Len(obj)
<1>1. Len(obj) \in Nat
  BY DEF ObjTypes
<1>2. ASSUME NEW i \in 1 .. Len(obj)
      PROVE  /\ obj[i].value \in Seq(Word) /\ Len(obj[i].value) = words /\ obj[i].endian \in Endians
             /\ Updated(obj)[i] = Consistent(obj[i].value, obj[i].endian)
             /\ Whole(Updated(obj)[i])
  <2>1. Whole(obj[i])
    BY DEF ObjTypes
  <2>2. obj[i].value \in Seq(Word) /\ Len(obj[i].value) = words /\ obj[i].endian \in Endians
    BY <2>1 DEF Whole, Datum
  <2>3. Updated(obj)[i] = Consistent(obj[i].value, obj[i].endian)
    BY DEF Updated
  <2> QED BY <2>2, <2>3, WholeLemma
<1>3. Updated(obj) = [i \in 1 .. Len(obj) |-> Updated(obj)[i]]
  BY DEF Updated
<1>4. Updated(obj) \in Seq(Datum) /\ Len(Updated(obj)) = Len(obj)
  BY <1>1, <1>2, <1>3, ArrayLemma
<1> QED BY <1>1, <1>2, <1>3, <1>4

\* Every step of the application keeps the types of the array and of the slaves.
LEMMA AccessStepTypes ==
  ASSUME ObjTypes, SlaveTypes, AccessStep
  PROVE  ObjTypes' /\ SlaveTypes'
<1>w. words \in Nat \ {0} /\ shape.nb \in Nat \ {0} /\ shape.orders \subseteq Endians
  BY WordsLemma DEF ObjTypes
<1>s. ASSUME UNCHANGED slave PROVE SlaveTypes'
  BY <1>s, AccessIdle DEF SlaveTypes, Idle
<1>1. ASSUME NEW e \in shape.orders, NewData(e) PROVE ObjTypes' /\ SlaveTypes'
  <2>1. Zero(words) \in Seq(Word) /\ Len(Zero(words)) = words /\ e \in Endians
    BY <1>w, ZeroLemma
  <2>2. Whole(Consistent(Zero(words), e))
    BY <2>1, WholeLemma
  <2>3. /\ obj' = [i \in 1 .. shape.nb |-> Consistent(Zero(words), e)] /\ fresh' = {}
        /\ UNCHANGED <<slave, shape, kept>>
    BY <1>1 DEF NewData
  <2>4. kept' \in Writes \cup {NoWrite}
    BY <2>3 DEF ObjTypes
  <2>5. /\ shape.nb \in Nat /\ obj' = [i \in 1 .. shape.nb |-> obj'[i]]
        /\ \A i \in 1 .. shape.nb : Whole(obj'[i])
    BY <1>w, <2>2, <2>3
  <2>6. ObjTypes'
    BY <2>3, <2>4, <2>5, AllObjects
  <2> QED BY <1>s, <2>3, <2>6
<1>2. ASSUME NEW i \in 1 .. Len(obj), NEW v \in Samples, Assign(i, v) \/ AssignByReference(i, v)
      PROVE  ObjTypes' /\ SlaveTypes'
  <2>1. v \in Seq(Word) /\ Len(v) = words
    BY <1>2, AccessAssumption DEF Assign, AssignByReference
  <2>2. Whole(obj[i]) /\ obj[i].endian \in Endians
    BY DEF ObjTypes, Whole, Datum
  <2>3. Whole(Consistent(v, obj[i].endian)) /\ Whole([obj[i] EXCEPT !.value = v])
    BY <2>1, <2>2, WholeLemma
  <2>4. /\ \/ obj' = [obj EXCEPT ![i] = Consistent(v, obj[i].endian)]
           \/ obj' = [obj EXCEPT ![i] = [obj[i] EXCEPT !.value = v]]
        /\ fresh' = fresh \ {i} /\ UNCHANGED <<slave, shape, kept>>
    BY <1>2 DEF Assign, AssignByReference
  <2>5. ObjTypes'
    BY <2>3, <2>4, OneObject
  <2> QED BY <1>s, <2>4, <2>5
<1>3. ASSUME NEW i \in 1 .. Len(obj), NEW e \in shape.orders, SetEndianness(i, e)
      PROVE  ObjTypes' /\ SlaveTypes'
  <2>1. Whole(obj[i]) /\ e \in Endians
    BY <1>w DEF ObjTypes
  <2>2. Whole(Consistent(obj[i].value, e))
    BY <2>1, WholeLemma DEF Whole, Datum
  <2>3. /\ obj' = [obj EXCEPT ![i] = Consistent(obj[i].value, e)]
        /\ UNCHANGED <<slave, shape, kept, fresh>>
    BY <1>3 DEF SetEndianness
  <2>4. ObjTypes'
    BY <2>2, <2>3, OneObject
  <2> QED BY <1>s, <2>3, <2>4
<1>4. ASSUME NEW i \in Ids, NEW t \in Registers, NEW addr \in Addresses(i, t), WriteData(i, t, addr)
      PROVE  ObjTypes' /\ SlaveTypes'
  <2> DEFINE given == [there |-> TRUE, id |-> i, table |-> t, addr |-> addr,
                       data |-> [k \in 1 .. Len(obj) |->
                                   [value |-> obj[k].value, endian |-> obj[k].endian]]]
  <2>1. addr \in Int /\ t \in Tables
    BY AddressesLemma DEF Registers, Tables
  <2>2. /\ obj' = Updated(obj) /\ fresh' = {} /\ UNCHANGED shape
        /\ slave' = [slave EXCEPT ![i] = Stored(slave[i], t, addr, Concatenated(obj'))]
        /\ kept' = given \/ kept' = NoWrite
    BY <1>4 DEF WriteData
  <2>3. [k \in 1 .. Len(obj) |-> [value |-> obj[k].value, endian |-> obj[k].endian]]
          \in Seq([value : Seq(Word), endian : Endians])
    BY UpdatedLemma
  <2>4. given \in Writes
    BY <2>1, <2>3 DEF Writes
  <2>5. ObjTypes'
    BY <2>2, <2>4, UpdatedLemma, AllObjects
  <2>6. Concatenated(obj') \in Seq(Word)
    <3>1. Concatenated(Updated(obj)) \in Seq(Word)
      BY UpdatedLemma, ConcatenatedLemma DEF ObjTypes
    <3>2. Concatenated(obj') = Concatenated(Updated(obj))
      BY <2>2
    <3> QED BY <3>1, <3>2
  <2>7. Stored(slave[i], t, addr, Concatenated(obj')) \in Slave
    BY <2>1, <2>6, StoredLemma DEF SlaveTypes
  <2>8. slave' \in [Ids -> Slave]
    BY <2>2, <2>7 DEF SlaveTypes
  <2> QED BY <2>5, <2>8, AccessIdle DEF SlaveTypes, Idle
<1>5. ASSUME NEW i \in Ids, NEW t \in Registers, NEW addr \in Addresses(i, t), ReadData(i, t, addr)
      PROVE  ObjTypes' /\ SlaveTypes'
  <2> DEFINE n == Len(obj) * words
             r(k) == [w \in 1 .. words |-> Register(i, t, addr, (k - 1) * words + w)]
  <2>1. UNCHANGED <<slave, shape, kept>> /\ addr \in Int
    BY <1>5, AddressesLemma DEF ReadData
  <2>2. CASE UNCHANGED <<obj, fresh>>
    <3>1. \A x : Whole(x)' <=> Whole(x)
      BY <2>1 DEF Whole, words
    <3>2. ObjTypes'
      BY <2>1, <2>2, <3>1 DEF ObjTypes
    <3> QED BY <1>s, <2>1, <3>2
  <2>3. CASE Readable(i, t, addr, n) = n /\ ~UNCHANGED <<obj, fresh>>
    <3>1. Len(obj) \in Nat /\ n \in Nat
      BY <1>w, ProductLemma DEF ObjTypes
    <3>2. \A k \in 1 .. Len(obj), w \in 1 .. words : (k - 1) * words + w \in 1 .. n
      BY <1>w, <3>1, PositionLemma
    <3>3. \A j \in 1 .. n : Register(i, t, addr, j) \in Word
      BY <2>1, <2>3, <3>1, RegisterLemma
    <3>4. ASSUME NEW k \in 1 .. Len(obj) PROVE Whole(FromRegisters(obj[k], r(k)))
      <4>1. r(k) \in Seq(Word) /\ Len(r(k)) = words
        <5>1. \A w \in 1 .. words : Register(i, t, addr, (k - 1) * words + w) \in Word
          <6> HIDE DEF n
          <6> QED BY <3>2, <3>3
        <5> QED BY <1>w, <5>1
      <4>2. Whole(obj[k]) /\ obj[k].endian \in Endians
        BY DEF ObjTypes, Whole, Datum
      <4> HIDE DEF r
      <4> QED BY <4>1, <4>2, WholeLemma
    <3>5. /\ obj' = [k \in 1 .. Len(obj) |-> FromRegisters(obj[k], r(k))]
          /\ fresh' \subseteq 1 .. Len(obj)
      BY <1>5, <2>3 DEF ReadData
    <3>6. kept' \in Writes \cup {NoWrite}
      BY <2>1 DEF ObjTypes
    <3> HIDE DEF r
    <3>7. obj' = [k \in 1 .. Len(obj) |-> obj'[k]] /\ \A k \in 1 .. Len(obj) : Whole(obj'[k])
      BY <3>4, <3>5
    <3>8. ObjTypes'
      BY <2>1, <3>1, <3>5, <3>6, <3>7, AllObjects
    <3> QED BY <1>s, <2>1, <3>8
  <2> QED BY <1>5, <2>2, <2>3 DEF ReadData
<1>6. ASSUME NEW i \in Ids, NEW t \in Registers, NEW addr \in Addresses(i, t),
             NEW k \in 1 .. Len(obj), ReadDatum(k, i, t, addr)
      PROVE  ObjTypes' /\ SlaveTypes'
  <2> DEFINE n == Readable(i, t, addr, words)
             r == [w \in 1 .. words |->
                     IF w <= n THEN Register(i, t, addr, w) ELSE obj[k].registers[w]]
  <2>1. UNCHANGED <<slave, shape, kept>> /\ addr \in Int
    BY <1>6, AddressesLemma DEF ReadDatum
  <2>2. /\ Whole(obj[k]) /\ obj[k].endian \in Endians
        /\ obj[k].registers \in Seq(Word) /\ Len(obj[k].registers) = words
    BY DEF ObjTypes, Whole, Datum
  <2>3. n \in 0 .. words /\ \A w \in 1 .. n : Register(i, t, addr, w) \in Word
    BY <1>w, <2>1, RegisterLemma
  <2>4. \/ obj' = [obj EXCEPT ![k] = FromRegisters(obj[k], r)]
        \/ obj' = [obj EXCEPT ![k] = [obj[k] EXCEPT !.registers = r]]
    BY <1>6 DEF ReadDatum
  <2>5. fresh' \subseteq fresh \cup {k}
    BY <1>6 DEF ReadDatum
  <2> HIDE DEF n
  <2>6. r \in Seq(Word) /\ Len(r) = words
    <3>1. \A w \in 1 .. words :
            (IF w <= n THEN Register(i, t, addr, w) ELSE obj[k].registers[w]) \in Word
      BY <1>w, <2>2, <2>3
    <3> QED BY <1>w, <3>1
  <2> HIDE DEF r
  <2>7. Whole(FromRegisters(obj[k], r)) /\ Whole([obj[k] EXCEPT !.registers = r])
    BY <2>2, <2>6, WholeLemma
  <2>8. ObjTypes'
    BY <2>1, <2>4, <2>5, <2>7, OneObject
  <2> QED BY <1>s, <2>1, <2>8
<1> QED BY <1>1, <1>2, <1>3, <1>4, <1>5, <1>6 DEF AccessStep

-----------------------------------------------------------------------------
(* Types.                                                                   *)

ReportTypes ==
  /\ isOpen \in BOOLEAN
  /\ idReport \in [Ids -> Seq(Byte)] /\ \A i \in Ids : Len(idReport[i]) <= MaxPdu
  /\ told \in [Ids -> Seq(Byte)]
  /\ report \in SlaveReport /\ Len(report.bytes) <= MaxPdu

TypesInv == PlaceInv /\ DeviceTypes /\ SlaveTypes /\ ObjTypes /\ ReportTypes

\* The types at first: a new object, no array, no report.
LEMMA TypesInit == ReportInit => TypesInv
<1> SUFFICES ASSUME ReportInit PROVE TypesInv
  OBVIOUS
<1>1. Init /\ AccessInit
  BY DEF ReportInit, AccessInit
<1>2. PlaceInv
  BY PlaceInit
<1>3. DeviceTypes
  <2>1. ASSUME NEW key \in Timeouts
        PROVE  NoDevice.timeout[key].usec \in Nat /\ NoDevice.timeout[key] \in Time
    <3>1. \E u \in Nat : u < Million /\ NoDevice.timeout[key] = [sec |-> 0, usec |-> u]
      BY SMTT(30) DEF NoDevice, Million
    <3> QED BY <3>1, TimeBounds
  <2>2. NoDevice.timeout \in [Timeouts -> Time]
    <3>1. NoDevice.timeout = [t \in Timeouts |-> NoDevice.timeout[t]]
      BY SMTT(30) DEF NoDevice
    <3> QED BY <2>1, <3>1
  <2>3. [f \in Flags |-> 0] \in [Flags -> Nat]
    OBVIOUS
  <2>4. NoDevice \in Device
    <3> DEFINE T == NoDevice.timeout
    <3>1. NoDevice = [net |-> "none", baud |-> 0, parity |-> "N", stop |-> 1, unit |-> Absent,
                      flag |-> [f \in Flags |-> 0], timeout |-> T]
      BY SMTT(30) DEF NoDevice
    <3> HIDE DEF T
    <3>2. T \in [Timeouts -> Time]
      BY <2>2 DEF T
    <3> QED BY <2>3, <3>1, <3>2 DEF Device
  <2>5. device \in [GroupIds -> Device]
    BY <1>1, <2>4 DEF Init
  <2>6. asked \in [GroupIds -> [Timeouts -> [s : Nat, us : Nat]]]
    BY <1>1, <2>1 DEF Init
  <2> QED BY <2>5, <2>6 DEF DeviceTypes
<1>4. SlaveTypes
  <2>1. [start |-> 0, items |-> <<>>] \in Items
    BY DEF Items
  <2>2. NoSlave \in Slave
    BY <2>1, ConfigAssumption DEF NoSlave, Slave
  <2>3. 0 \in 0 .. MaxGroups
    BY ConfigAssumption
  <2> QED BY <1>1, <2>2, <2>3 DEF Init, SlaveTypes
<1>5. ObjTypes
  BY <1>1 DEF AccessInit, ObjTypes
<1>6. ReportTypes
  <2>1. ReportInv
    BY ReportInitInv
  <2>2. MaxPdu \in Nat /\ Len(<<>>) = 0
    BY ReportAssumption
  <2>3. idReport = [i \in Ids |-> <<>>] /\ report.bytes = <<>> /\ isOpen = FALSE
    BY DEF ReportInit
  <2>4. /\ report \in SlaveReport /\ told \in [Ids -> Seq(Byte)]
        /\ idReport \in [Ids -> Seq(Byte)]
    BY <2>1 DEF ReportInv
  <2>5. \A i \in Ids : Len(idReport[i]) <= MaxPdu
    BY <2>2, <2>3
  <2>6. Len(report.bytes) <= MaxPdu
    BY <2>2, <2>3
  <2> QED BY <2>3, <2>4, <2>5, <2>6 DEF ReportTypes
<1> QED BY <1>2, <1>3, <1>4, <1>5, <1>6 DEF TypesInv

\* Every report, answered, refused or served, keeps the types of the reports.
LEMMA ReportStepTypes == ReportTypes /\ ReportStep => ReportTypes'
<1> SUFFICES ASSUME ReportTypes, ReportStep PROVE ReportTypes'
  OBVIOUS
<1>1. /\ MaxPdu \in Nat
      /\ \A r \in Reports : r \in Seq(Byte) /\ Len(r) <= MaxPdu
      /\ idReport \in [Ids -> Seq(Byte)] /\ told \in [Ids -> Seq(Byte)]
  BY ReportAssumption DEF ReportTypes
<1>2. ASSUME NEW i \in Ids, NEW r \in Reports
      PROVE  /\ Padded(idReport[i]) \in Seq(Byte) /\ Len(Padded(idReport[i])) = MaxPdu
             /\ Over(Padded(idReport[i]), r) \in Seq(Byte)
             /\ Len(Over(Padded(idReport[i]), r)) = MaxPdu
             /\ SubSeq(Over(Padded(idReport[i]), r), 1, Len(r)) = r
  <2>1. /\ Padded(idReport[i]) \in Seq(Byte) /\ Len(Padded(idReport[i])) = MaxPdu
        /\ Over(Padded(idReport[i]), r) \in Seq(Byte)
        /\ SubSeq(Over(Padded(idReport[i]), r), 1, Len(r)) = r
    BY <1>1, BufferLemma
  <2>2. \A b, x : Len(b) \in Nat => Len(Over(b, x)) = Len(b)
    BY DEF Over
  <2> QED BY <1>1, <2>1, <2>2
<1>3. ASSUME NEW i \in Ids PROVE Padded(idReport[i]) \in Seq(Byte) /\ Len(Padded(idReport[i])) = MaxPdu
  <2>1. idReport[i] \in Seq(Byte) /\ <<>> \in Seq(Byte) /\ Len(<<>>) <= MaxPdu
    BY <1>1
  <2> QED BY <2>1, BufferLemma
<1>4. CASE OpenClose
  BY <1>4 DEF OpenClose, ReportTypes
<1>5. ASSUME NEW i \in Ids, AskFails(i) PROVE ReportTypes'
  <2>1. /\ idReport' = idReport \/ idReport' = [idReport EXCEPT ![i] = Padded(idReport[i])]
        /\ UNCHANGED <<isOpen, told, report>>
    BY <1>5 DEF AskFails
  <2>2. Padded(idReport[i]) \in Seq(Byte) /\ Len(Padded(idReport[i])) <= MaxPdu
    BY <1>1, <1>3
  <2>3. idReport' \in [Ids -> Seq(Byte)] /\ \A j \in Ids : Len(idReport'[j]) <= MaxPdu
    <3>1. CASE idReport' = idReport
      BY <3>1 DEF ReportTypes
    <3> DEFINE P == Padded(idReport[i])
    <3>2. CASE idReport' = [idReport EXCEPT ![i] = P]
      <4>1. P \in Seq(Byte) /\ Len(P) <= MaxPdu
        BY <2>2
      <4> HIDE DEF P
      <4> QED BY <1>1, <3>2, <4>1 DEF ReportTypes
    <3> QED BY <2>1, <3>1, <3>2
  <2> QED BY <2>1, <2>3 DEF ReportTypes
<1>6. ASSUME NEW i \in Ids, NEW t \in IdTypes, AskClosed(i, t) PROVE ReportTypes'
  <2>1. /\ report' = [type |-> t, bytes |-> idReport[i], given |-> told[i], now |-> FALSE]
        /\ UNCHANGED <<isOpen, idReport, told>>
    BY <1>6 DEF AskClosed, Fill
  <2>2. report' \in SlaveReport /\ report'.bytes = idReport[i]
    BY <1>1, <2>1 DEF SlaveReport
  <2> QED BY <2>1, <2>2 DEF ReportTypes
<1>7. ASSUME NEW i \in Ids, NEW t \in IdTypes, NEW r \in Reports, AskReport(i, t, r)
      PROVE  ReportTypes'
  <2>1. /\ report' = [type |-> t, bytes |-> r, given |-> r, now |-> TRUE]
        /\ told' = [told EXCEPT ![i] = r] /\ UNCHANGED isOpen
    BY <1>7 DEF AskReport, Fill
  <2>2. idReport' = idReport \/ idReport' = [idReport EXCEPT ![i] = r]
    BY <1>2, <1>7 DEF AskReport
  <2>3. report' \in SlaveReport /\ report'.bytes = r
    BY <1>1, <2>1 DEF SlaveReport
  <2> QED BY <1>1, <2>1, <2>2, <2>3 DEF ReportTypes
<1>8. ASSUME NEW i \in Ids, NEW r \in Reports, ServeReport(i, r) PROVE ReportTypes'
  <2>1. /\ idReport' = [idReport EXCEPT ![i] = Over(Padded(idReport[i]), r)]
        /\ told' = [told EXCEPT ![i] = r] /\ UNCHANGED <<isOpen, report>>
    BY <1>8 DEF ServeReport
  <2> QED BY <1>1, <1>2, <2>1 DEF ReportTypes
<1> QED BY <1>4, <1>5, <1>6, <1>7, <1>8 DEF ReportStep

\* Every step keeps all the types.
LEMMA TypesStep == TypesInv /\ [ReportNext]_everything => TypesInv'
<1> SUFFICES ASSUME TypesInv, [ReportNext]_everything PROVE TypesInv'
  OBVIOUS
<1>1. PlaceInv'
  BY PlaceStep DEF TypesInv
<1>2. ASSUME UNCHANGED objVars PROVE ObjTypes'
  <2>1. \A x : Whole(x)' <=> Whole(x)
    BY <1>2 DEF objVars, Whole, words
  <2> QED BY <1>2, <2>1 DEF objVars, ObjTypes, TypesInv
<1>3. ASSUME UNCHANGED reportVars PROVE ReportTypes'
  BY <1>3 DEF reportVars, ReportTypes, TypesInv
<1>4. ASSUME UNCHANGED <<device, asked>> PROVE DeviceTypes'
  BY <1>4 DEF DeviceTypes, TypesInv
<1>5. ASSUME UNCHANGED <<slave, vect, master>> PROVE SlaveTypes'
  BY <1>5 DEF SlaveTypes, TypesInv
<1>6. CASE Next /\ UNCHANGED objVars /\ UNCHANGED reportVars
  BY <1>1, <1>2, <1>3, <1>6, ConfigDevices, ConfigSlaves DEF TypesInv
<1>7. CASE AccessStep /\ UNCHANGED reportVars
  <2>1. UNCHANGED <<device, asked>>
    BY <1>7, AccessIdle DEF Idle
  <2> QED BY <1>1, <1>3, <1>4, <1>7, <2>1, AccessStepTypes DEF TypesInv
<1>8. CASE ReportStep
  <2>1. UNCHANGED <<device, asked, slave, vect, master>> /\ UNCHANGED objVars
    BY <1>8 DEF ReportStep, OpenClose, AskFails, AskClosed, AskReport, ServeReport, AppIdle
  <2> QED BY <1>1, <1>2, <1>4, <1>5, <1>8, <2>1, ReportStepTypes DEF TypesInv
<1>9. CASE UNCHANGED everything
  <2>1. /\ UNCHANGED <<device, asked>> /\ UNCHANGED <<slave, vect, master>>
        /\ UNCHANGED objVars /\ UNCHANGED reportVars
    BY <1>9 DEF everything, objVars, reportVars
  <2> QED BY <1>1, <1>2, <1>3, <1>4, <1>5, <2>1 DEF TypesInv
<1> QED BY <1>6, <1>7, <1>8, <1>9 DEF ReportNext, AccessNext

\* The types hold in every behaviour.
LEMMA TypesInvariant == ReportSpec => []TypesInv
  BY TypesInit, TypesStep, PTL DEF ReportSpec

\* Whatever a document has, and wherever reading it ends, the devices, slaves, blocks,
\* values and reports have the types that the code gives them: no key, index or
\* conversion of setConfig or of the templates leaves the range of its target.
THEOREM TypesCorrect == ReportSpec => []TypesOK
<1>1. TypesInv => TypesOK
  BY DEF TypesInv, TypesOK, AccessTypes, TypeOK, PlaceInv, DeviceTypes, SlaveTypes, ObjTypes,
     Whole, ReportTypes
<1> QED BY <1>1, TypesInvariant, PTL

-----------------------------------------------------------------------------
(* Configuration: what was read.                                            *)

\* p is where the slaves of group g begin from number s on, or where they end.
Enters(p, g, s) ==
  \/ /\ HasSlaves(g) /\ s <= Len(doc[g].slaves)
     /\ p.g = g /\ p.o = 8 /\ p.s = s /\ p.step = "slave"
  \/ /\ ~(HasSlaves(g) /\ s <= Len(doc[g].slaves))
     /\ p.g = g + 1 /\ p.o = 1 /\ p.s = 1 /\ p.step \in {"master", "end"}

\* p is in the same entry, or key, as reading is.
Stays(p) == p.g = at.g /\ p.o = at.o /\ p.s = at.s

\* Reading goes on at p.
Onward(p) ==
  \/ at.step = "master" /\ Stays(p) /\ p.step = "backend"
  \/ at.step = "backend" /\ Stays(p) /\ p.step = "option"
  \/ /\ at.step = "option"
     /\ \/ at.o < 7 /\ p.g = at.g /\ p.o = at.o + 1 /\ p.s = at.s /\ p.step = "option"
        \/ at.o = 7 /\ Enters(p, at.g, 1)
  \/ at.step = "slave" /\ Stays(p) /\ p.step = "pdu"
  \/ /\ at.step \in {"pdu", "block", "value"}
     /\ (Stays(p) /\ p.step \in BlockSteps) \/ Enters(p, at.g, at.s + 1)

\* Groups and slaves are entered at their beginning.
LEMMA EntersLemma ==
  ASSUME NEW g, NEW s PROVE Enters(ToSlave(g, s), g, s)
<1>1. CASE HasSlaves(g) /\ s <= Len(doc[g].slaves)
  <2>1. ToSlave(g, s) = [g |-> g, o |-> 8, s |-> s, b |-> 1, v |-> 1, step |-> "slave"]
    BY <1>1 DEF ToSlave, FirstPlace
  <2> QED BY <1>1, <2>1 DEF Enters
<1>2. CASE ~(HasSlaves(g) /\ s <= Len(doc[g].slaves))
  <2> DEFINE x == IF g + 1 > Groups THEN "end" ELSE "master"
  <2>1. ToSlave(g, s) = [FirstPlace EXCEPT !.g = g + 1, !.step = x]
    BY <1>2 DEF ToSlave, ToGroup
  <2>2. x \in {"master", "end"}
    OBVIOUS
  <2> HIDE DEF x
  <2>3. ToSlave(g, s) = [g |-> g + 1, o |-> 1, s |-> 1, b |-> 1, v |-> 1, step |-> x]
    BY <2>1 DEF FirstPlace
  <2> QED BY <1>2, <2>2, <2>3 DEF Enters
<1> QED BY <1>1, <1>2

\* Every step of a section, an entry or a block goes on.
LEMMA OnwardLemma ==
  ASSUME PlaceInv, Running
  PROVE  /\ at.step = "master" => Onward([at EXCEPT !.step = "backend"])
         /\ at.step = "backend" => Onward([at EXCEPT !.step = "option"])
         /\ at.step = "option" => Onward(AfterOption)
         /\ at.step = "slave" => Onward([at EXCEPT !.step = "pdu"])
         /\ at.step = "pdu" => Onward(ToBlock(1))
         /\ at.step = "block" => Onward(ToValues)
         /\ at.step = "value" => Onward([at EXCEPT !.v = at.v + 1])
         /\ at.step = "value" => Onward(ToBlock(at.b + 1))
<1>1. at \in Place /\ InPlace(at)
  BY DEF PlaceInv
<1>2. /\ DOMAIN at = {"g", "o", "s", "b", "v", "step"}
      /\ at.g \in 1 .. MaxGroups + 1 /\ at.o \in 1 .. 8
      /\ at.s \in Nat /\ at.b \in Nat /\ at.v \in Nat /\ at.step \in Steps
  BY <1>1, PlaceFields
<1>3. \A x : Stays([at EXCEPT !.step = x]) /\ [at EXCEPT !.step = x].step = x
  BY <1>2 DEF Stays
<1>4. ASSUME at.step = "option" PROVE Onward(AfterOption)
  <2>1. at.o \in 1 .. 7
    BY <1>1, <1>4 DEF InPlace, SectionSteps
  <2>2. CASE at.o < 7
    <3>1. AfterOption = [at EXCEPT !.o = at.o + 1]
      BY <2>2 DEF AfterOption
    <3> QED BY <1>2, <1>4, <2>2, <3>1 DEF Onward
  <2>3. CASE ~(at.o < 7)
    <3>1. AfterOption = ToSlave(at.g, 1) /\ at.o = 7
      BY <2>1, <2>3 DEF AfterOption
    <3> QED BY <1>4, <3>1, EntersLemma DEF Onward
  <2> QED BY <2>2, <2>3
<1>5. ASSUME at.step \in {"pdu", "block", "value"}, NEW b PROVE Onward(ToBlock(b))
  <2>1. CASE kind # "Master" /\ b <= Len(TheEntry.blocks)
    <3> DEFINE p == [at EXCEPT !.b = b, !.v = 1, !.step = "block"]
    <3>1. ToBlock(b) = p
      BY <2>1 DEF ToBlock
    <3>2. Stays(p) /\ p.step = "block"
      BY <1>2 DEF Stays
    <3> HIDE DEF p
    <3> QED BY <1>5, <3>1, <3>2 DEF Onward, BlockSteps
  <2>2. CASE ~(kind # "Master" /\ b <= Len(TheEntry.blocks))
    <3>1. ToBlock(b) = ToSlave(at.g, at.s + 1)
      BY <2>2 DEF ToBlock
    <3> QED BY <1>5, <3>1, EntersLemma DEF Onward
  <2> QED BY <2>1, <2>2
<1>6. ASSUME at.step = "block" PROVE Onward(ToValues)
  <2> DEFINE p == [at EXCEPT !.v = 1, !.step = "value"]
  <2>1. ToValues = p \/ ToValues = ToBlock(at.b + 1)
    BY DEF ToValues
  <2>2. Stays(p) /\ p.step = "value"
    BY <1>2 DEF Stays
  <2> HIDE DEF p
  <2>3. Onward(p)
    BY <1>6, <2>2 DEF Onward, BlockSteps
  <2> QED BY <1>5, <1>6, <2>1, <2>3
<1>7. ASSUME at.step = "value" PROVE Onward([at EXCEPT !.v = at.v + 1])
  <2> DEFINE p == [at EXCEPT !.v = at.v + 1]
  <2>1. Stays(p) /\ p.step = "value"
    BY <1>2, <1>7 DEF Stays
  <2> HIDE DEF p
  <2>2. Onward(p)
    BY <1>7, <2>1 DEF Onward, BlockSteps
  <2> QED BY <2>2 DEF p
<1>8. /\ at.step = "master" => Onward([at EXCEPT !.step = "backend"])
      /\ at.step = "backend" => Onward([at EXCEPT !.step = "option"])
      /\ at.step = "slave" => Onward([at EXCEPT !.step = "pdu"])
  BY <1>3 DEF Onward
<1> QED BY <1>4, <1>5, <1>6, <1>7, <1>8

\* The section of group g was not read.
Unread(g) == at.g < g \/ (at.g = g /\ at.step \in {"master", "backend"})

\* What a step of reading adds to what was read.
LEMMA ReadLemma ==
  ASSUME PlaceInv, Running, Onward(at'), at' \in Place, kind' = kind, doc' = doc
  PROVE  /\ Entries' = Entries /\ Groups' = Groups
         /\ \A g \in GroupIds : Unread(g)' => Unread(g) /\ ~(at.step = "backend" /\ g = at.g)
         /\ at.step = "master" => (Unread(1) => Unread(1)')
         /\ \A g \in 1 .. Groups, o \in 1 .. 7 :
              OptionRead(g, o)' <=> OptionRead(g, o) \/ (at.step = "option" /\ g = at.g /\ o = at.o)
         /\ \A p \in Entries :
              /\ EntryRead(p[1], p[2])' <=>
                   EntryRead(p[1], p[2]) \/ (at.step = "slave" /\ p = <<at.g, at.s>>)
              /\ PduRead(p[1], p[2])' <=>
                   PduRead(p[1], p[2]) \/ (at.step = "pdu" /\ p = <<at.g, at.s>>)
<1>1. doc \in Document /\ InPlace(at) /\ Groups \in 1 .. MaxGroups
  <2>1. doc \in Document /\ InPlace(at)
    BY DEF PlaceInv
  <2>2. Groups \in 1 .. Len(doc) /\ Len(doc) \in 1 .. MaxGroups /\ MaxGroups \in Nat
    BY <2>1, DocumentLemma, ConfigAssumption
  <2> QED BY <2>1, <2>2
<1>2. /\ at.g \in Nat /\ at.o \in 1 .. 8 /\ at.s \in Nat
      /\ at'.g \in Nat /\ at'.o \in 1 .. 8 /\ at'.s \in Nat /\ MaxGroups \in Nat
  BY <1>1, PlaceFields, ConfigAssumption DEF PlaceInv
<1>3. /\ at.step \in SectionSteps => at.o \in 1 .. 7 /\ at.s = 1
      /\ at.step \in {"master", "backend"} => at.o = 1
      /\ at.step \in EntrySteps =>
           at.o = 8 /\ HasSlaves(at.g) /\ at.s \in 1 .. Len(doc[at.g].slaves)
      /\ at.step # "end" => at.g \in 1 .. Groups
  BY <1>1 DEF InPlace
<1>4. Groups' = Groups /\ \A g : HasSlaves(g)' <=> HasSlaves(g)
  BY DEF Groups, HasSlaves
<1>5. Entries' = Entries
  BY <1>4 DEF Entries
<1>6. at.step # "end"
  BY DEF Onward
<1>7. ASSUME NEW g \in GroupIds, Unread(g)'
      PROVE  Unread(g) /\ ~(at.step = "backend" /\ g = at.g)
  <2>1. g \in Nat
    BY DEF GroupIds
  <2> QED BY <1>2, <1>7, <2>1 DEF Unread, Onward, Stays, Enters, BlockSteps
<1>8. at.step = "master" => (Unread(1) => Unread(1)')
  BY <1>2 DEF Unread, Onward, Stays
<1>9. ASSUME NEW g \in 1 .. Groups, NEW o \in 1 .. 7
      PROVE  OptionRead(g, o)' <=> OptionRead(g, o) \/ (at.step = "option" /\ g = at.g /\ o = at.o)
  <2>1. g \in Nat
    BY <1>1
  <2>2. CASE at.step \in {"master", "backend", "slave"}
    BY <1>2, <2>1, <2>2 DEF OptionRead, Onward, Stays
  <2>3. CASE at.step = "option"
    BY <1>2, <1>3, <2>1, <2>3 DEF OptionRead, Onward, Enters, SectionSteps
  <2>4. CASE at.step \in {"pdu", "block", "value"}
    <3>1. at.o = 8
      BY <1>3, <2>4 DEF EntrySteps
    <3> QED BY <1>2, <2>1, <2>4, <3>1 DEF OptionRead, Onward, Stays, Enters
  <2> QED BY <2>2, <2>3, <2>4 DEF Onward
<1>10. ASSUME NEW p \in Entries
       PROVE  /\ EntryRead(p[1], p[2])' <=>
                   EntryRead(p[1], p[2]) \/ (at.step = "slave" /\ p = <<at.g, at.s>>)
              /\ PduRead(p[1], p[2])' <=>
                   PduRead(p[1], p[2]) \/ (at.step = "pdu" /\ p = <<at.g, at.s>>)
  <2>1. PICK g \in GroupIds, s \in 1 .. MaxEntries :
          p = <<g, s>> /\ g <= Groups /\ HasSlaves(g) /\ s <= Len(doc[g].slaves)
    BY DEF Entries
  <2>2. g \in Nat /\ s \in Nat /\ s >= 1 /\ Len(doc[g].slaves) \in Nat
    <3>1. g \in 1 .. Len(doc) /\ s \in Nat /\ s >= 1
      BY <1>1, <2>1, DocumentLemma, ConfigAssumption DEF GroupIds
    <3>2. doc[g].slaves \in Seq(Entry)
      BY <1>1, <3>1, DocumentLemma
    <3> QED BY <3>1, <3>2
  <2>3. /\ p[1] = g /\ p[2] = s
        /\ p = <<at.g, at.s>> <=> g = at.g /\ s = at.s
    BY <2>1
  <2> DEFINE n == Len(doc[g].slaves)
  <2> HIDE DEF n
  <2>4. s <= n /\ n \in Nat
    BY <2>1, <2>2 DEF n
  <2>5. \A k : Enters(at', g, k) =>
          \/ k <= n /\ at'.g = g /\ at'.s = k /\ at'.step = "slave"
          \/ ~(k <= n) /\ at'.g = g + 1 /\ at'.s = 1 /\ at'.step \in {"master", "end"}
    BY <2>1 DEF Enters, n
  <2>6. \A h, k : Enters(at', h, k) =>
          \/ at'.g = h /\ at'.s = k /\ at'.step = "slave"
          \/ at'.g = h + 1 /\ at'.s = 1 /\ at'.step \in {"master", "end"}
    BY DEF Enters
  <2> DEFINE Read(X) == at.g > g \/ (at.g = g /\ (at.s > s \/ (at.s = s /\ at.step \in X)))
             Reads(X) == at'.g > g \/ (at'.g = g /\ (at'.s > s \/ (at'.s = s /\ at'.step \in X)))
             X1 == {"pdu", "block", "value"}
             X2 == {"block", "value"}
  <2>7. (Reads(X1) <=> Read(X1) \/ (at.step = "slave" /\ g = at.g /\ s = at.s))
        /\ (Reads(X2) <=> Read(X2) \/ (at.step = "pdu" /\ g = at.g /\ s = at.s))
    <3>1. CASE at.step \in {"master", "backend", "slave"}
      BY <1>2, <2>2, <3>1 DEF Onward, Stays
    <3>2. CASE at.step = "option" /\ at.o < 7
      BY <1>2, <2>2, <3>2 DEF Onward
    <3>3. CASE at.step = "option" /\ at.o = 7 /\ Enters(at', at.g, 1)
      <4>1. at.s = 1
        BY <1>3, <3>3 DEF SectionSteps
      <4>2. CASE at.g = g
        BY <1>2, <2>2, <2>4, <2>5, <3>3, <4>1, <4>2
      <4>3. CASE at.g # g
        BY <1>2, <2>2, <2>6, <3>3, <4>1, <4>3
      <4> QED BY <4>2, <4>3
    <3>4. CASE at.step \in {"pdu", "block", "value"} /\ Stays(at') /\ at'.step \in BlockSteps
      BY <1>2, <2>2, <3>4 DEF Stays, BlockSteps
    <3>5. CASE at.step \in {"pdu", "block", "value"} /\ Enters(at', at.g, at.s + 1)
      <4>1. CASE at.g = g
        BY <1>2, <2>2, <2>4, <2>5, <3>5, <4>1
      <4>2. CASE at.g # g
        BY <1>2, <2>2, <2>6, <3>5, <4>2
      <4> QED BY <4>1, <4>2
    <3> QED BY <3>1, <3>2, <3>3, <3>4, <3>5 DEF Onward
  <2>8. /\ EntryRead(p[1], p[2]) <=> Read(X1)
        /\ PduRead(p[1], p[2]) <=> Read(X2)
        /\ EntryRead(p[1], p[2])' <=> Reads(X1)
        /\ PduRead(p[1], p[2])' <=> Reads(X2)
    BY <2>3 DEF EntryRead, PduRead
  <2> HIDE DEF Read, Reads, X1, X2
  <2> QED BY <2>3, <2>7, <2>8
<1> QED BY <1>4, <1>5, <1>7, <1>8, <1>9, <1>10

\* The keys of a section differ, and those that are switches are no others.
LEMMA KeyLemma ==
  /\ \A o \in 1 .. 7 : OptionKeys[o] \notin {"any-unit", "error-recovery"}
  /\ \A o \in 1 .. 7 : OptionKeys[o] \notin Timeouts => OptionKeys[o] \in Flags
  /\ \A o, p \in 1 .. 7 : OptionKeys[o] = OptionKeys[p] => o = p
<1>1. \A o \in 1 .. 7 : o \in {1, 2, 3, 4, 5, 6, 7}
  OBVIOUS
<1>2. /\ OptionKeys[1] = "recovery-link" /\ OptionKeys[2] = "debug"
      /\ OptionKeys[3] = "response-timeout" /\ OptionKeys[4] = "byte-timeout"
      /\ OptionKeys[5] = "mode" /\ OptionKeys[6] = "rts" /\ OptionKeys[7] = "rts-delay"
  BY DEF OptionKeys
<1> QED BY <1>1, <1>2 DEF Timeouts, Flags, SerialKeys

\* The same network and flags.
SameSettings(d, e) == d.net = e.net /\ d.flag = e.flag

\* Device::setRecoveryLink, which Master::setRecoveryLink extends, and setDebug.
LEMMA SwitchLemma ==
  ASSUME NEW d \in Device, NEW g, NEW key \in Flags, NEW v
  PROVE  /\ WithFlag(g, d, key, v).net = d.net
         /\ key # "error-recovery" => WithFlag(g, d, key, v).flag[key] = v
         /\ \A f \in Flags \ {key, "error-recovery"} : WithFlag(g, d, key, v).flag[f] = d.flag[f]
<1> DEFINE f1 == [d.flag EXCEPT ![key] = v]
           f2 == [d.flag EXCEPT ![key] = v, !["error-recovery"] = v]
<1>1. DOMAIN d = DeviceFields /\ d.flag \in [Flags -> Nat]
  BY DEF Device, DeviceFields
<1>2. WithFlag(g, d, key, v) = [d EXCEPT !.flag = f1] \/ WithFlag(g, d, key, v) = [d EXCEPT !.flag = f2]
  BY DEF WithFlag
<1>3. /\ key # "error-recovery" => f1[key] = v /\ f2[key] = v
      /\ \A f \in Flags \ {key, "error-recovery"} : f1[f] = d.flag[f] /\ f2[f] = d.flag[f]
  BY <1>1 DEF Flags
<1> HIDE DEF f1, f2
<1>4. \A x : [d EXCEPT !.flag = x].net = d.net /\ [d EXCEPT !.flag = x].flag = x
  BY <1>1 DEF DeviceFields
<1> QED BY <1>2, <1>3, <1>4

\* What the settings do to the network and the flags of a device.
LEMMA FlagSettings ==
  ASSUME NEW d \in Device
  PROVE  /\ \A u : SameSettings([d EXCEPT !.unit = u], d)
         /\ \A key, t : SameSettings(WithTimeout(d, key, t), d)
         /\ \A v : \A key \in Flags : LET e == [d EXCEPT !.flag[key] = v] IN
              e.net = d.net /\ e.flag = [d.flag EXCEPT ![key] = v]
         /\ \A section : LET e == WithBackend(d, section) IN
              e.flag = d.flag /\ e.net = IF netOf(section) = "rtu" THEN "rtu" ELSE "tcp"
         /\ \A g : LET e == Listening(g, d) IN
              /\ e.net = d.net
              /\ e.flag = IF IsServer(g) /\ d.net = "rtu"
                          THEN [d.flag EXCEPT !["any-unit"] = 1] ELSE d.flag
<1>1. DOMAIN d = DeviceFields /\ d.flag \in [Flags -> Nat]
  BY DEF Device, DeviceFields
<1> USE DEF DeviceFields
<1>2. \A u : SameSettings([d EXCEPT !.unit = u], d)
  BY <1>1 DEF SameSettings
<1>3. \A key, t : SameSettings(WithTimeout(d, key, t), d)
  BY <1>1 DEF SameSettings, WithTimeout
<1>4. \A v : \A key \in Flags : LET e == [d EXCEPT !.flag[key] = v] IN
        e.net = d.net /\ e.flag = [d.flag EXCEPT ![key] = v]
  BY <1>1
<1>5. ASSUME NEW section
      PROVE  LET e == WithBackend(d, section) IN
             e.flag = d.flag /\ e.net = IF netOf(section) = "rtu" THEN "rtu" ELSE "tcp"
  BY <1>1 DEF WithBackend, OnLine
<1>6. ASSUME NEW g
      PROVE  LET e == Listening(g, d) IN
             /\ e.net = d.net
             /\ e.flag = IF IsServer(g) /\ d.net = "rtu"
                         THEN [d.flag EXCEPT !["any-unit"] = 1] ELSE d.flag
  <2>1. "any-unit" \in Flags
    BY DEF Flags
  <2> QED BY <1>4, <2>1 DEF Listening
<1> QED BY <1>2, <1>3, <1>4, <1>5, <1>6

\* One key of a section.
OptionAsRead(g, o) ==
  LET section == doc[g].section  d == device[g]  key == OptionKeys[o] IN
  key \notin Timeouts =>
    IF OptionRead(g, o) /\ section.option[key] # Absent
         /\ (key \in SerialKeys => d.net = "rtu")
    THEN \/ d.flag[key] = section.option[key]
         \/ key \in SerialKeys /\ d.flag[key] = 0
    ELSE d.flag[key] = 0
AnyUnit(g) == device[g].flag["any-unit"] = 1 <=> device[g].net = "rtu" /\ IsServer(g)

\* Nothing is known of a device.
Bare(d) == d.net = "none" /\ \A f \in Flags : d.flag[f] = 0

\* The backend of a group is made after its section was reached, that of the first
\* group before anything else, so that a document that is read again finds nothing.
SectionInv ==
  /\ \A g \in GroupIds : Unread(g) => Bare(device[g])
  /\ isValid(1) \/ Unread(1)
  /\ doc # <<>> => \A g \in 1 .. Groups : SectionAsRead(g)

\* A section is as read when each of its keys is, and the mode of its context.
LEMMA SectionParts ==
  ASSUME NEW g
  PROVE  SectionAsRead(g) <=> (\A o \in 1 .. 7 : OptionAsRead(g, o)) /\ AnyUnit(g)
  BY DEF SectionAsRead, OptionAsRead, AnyUnit

\* A section is as it was.
LEMMA SectionKept ==
  ASSUME kind' = kind, doc' = doc, NEW g, SameSettings(device'[g], device[g]),
         \A o \in 1 .. 7 : OptionRead(g, o)' <=> OptionRead(g, o)
  PROVE  SectionAsRead(g)' <=> SectionAsRead(g)
  BY DEF SameSettings, SectionAsRead, IsServer

\* A section of which nothing was read, of a device that has nothing.
LEMMA BareLemma ==
  ASSUME NEW g, Bare(device[g]), \A o \in 1 .. 7 : ~OptionRead(g, o)
  PROVE  SectionAsRead(g)
<1>1. \A o \in 1 .. 7 : OptionAsRead(g, o)
  BY KeyLemma DEF OptionAsRead, Bare
<1>2. AnyUnit(g)
  BY DEF AnyUnit, Bare, Flags
<1> QED BY <1>1, <1>2, SectionParts

\* Nothing of a section is read at first.
LEMMA SectionInit == ReportInit => SectionInv
<1> SUFFICES ASSUME Init PROVE SectionInv
  BY DEF ReportInit, AccessInit
<1>1. at = FirstPlace /\ doc = <<>>
  BY DEF Init
<1>2. Unread(1)
  BY <1>1, FirstPlaceLemma DEF Unread
<1>3. Bare(NoDevice)
  <2> DEFINE f == [x \in Flags |-> 0]
             T == NoDevice.timeout
  <2>1. NoDevice = [net |-> "none", baud |-> 0, parity |-> "N", stop |-> 1, unit |-> Absent,
                    flag |-> f, timeout |-> T]
    BY SMTT(30) DEF NoDevice
  <2> HIDE DEF T
  <2> QED BY <2>1 DEF Bare
<1>4. \A g \in GroupIds : device[g] = NoDevice
  BY DEF Init
<1> QED BY <1>1, <1>2, <1>3, <1>4 DEF SectionInv

\* A step of reading that gives the section of its group what was read.
LEMMA SectionsLemma ==
  ASSUME PlaceInv, SectionInv, Running, Onward(at'), at' \in Place, kind' = kind, doc' = doc,
         NEW h \in Nat, h = at.g, SectionAsRead(h)',
         \A g \in GroupIds \ {at.g} : SameSettings(device'[g], device[g]),
         at.step = "backend" => device'[at.g].net # "none",
         at.step # "backend" => device'[at.g].net = device[at.g].net,
         at.step = "master" => SameSettings(device'[at.g], device[at.g])
  PROVE  SectionInv'
<1>1. doc \in Document /\ doc # <<>> /\ at.g \in 1 .. Groups /\ Groups' = Groups
  <2>1. at.step # "end"
    BY DEF Onward
  <2> QED BY <2>1, HereLemma DEF PlaceInv, Groups
<1>2. 1 .. Groups \subseteq GroupIds /\ 1 \in GroupIds /\ at.g \in Nat /\ at.g >= 1
  <2>1. Groups \in 1 .. MaxGroups /\ MaxGroups \in Nat
    <3>1. Groups \in 1 .. Len(doc) /\ Len(doc) \in 1 .. MaxGroups /\ MaxGroups \in Nat
      BY <1>1, DocumentLemma, ConfigAssumption
    <3> QED BY <3>1
  <2> QED BY <1>1, <2>1 DEF GroupIds
<1>3. ASSUME NEW g \in GroupIds, Unread(g)' PROVE Bare(device'[g])
  <2>1. Unread(g) /\ ~(at.step = "backend" /\ g = at.g)
    BY <1>3, ReadLemma
  <2>2. Bare(device[g])
    BY <2>1 DEF SectionInv
  <2>3. g = at.g => at.step = "master"
    BY <1>2, <2>1 DEF Unread
  <2>4. SameSettings(device'[g], device[g])
    BY <2>3
  <2> QED BY <2>2, <2>4 DEF Bare, SameSettings
<1>4. isValid(1)' \/ Unread(1)'
  <2>1. CASE isValid(1)
    BY <1>2, <2>1 DEF isValid, SameSettings
  <2>2. CASE ~isValid(1)
    <3>1. Unread(1)
      BY <2>2 DEF SectionInv
    <3>2. at.g = 1 /\ at.step \in {"master", "backend"}
      BY <1>2, <3>1 DEF Unread
    <3> QED BY <3>1, <3>2, ReadLemma DEF isValid
  <2> QED BY <2>1, <2>2
<1>5. ASSUME NEW g \in 1 .. Groups PROVE SectionAsRead(g)'
  <2>1. CASE g # at.g
    <3>1. \A o \in 1 .. 7 : OptionRead(g, o)' <=> OptionRead(g, o)
      BY <2>1, ReadLemma
    <3>2. SameSettings(device'[g], device[g]) /\ SectionAsRead(g)
      BY <1>1, <1>2, <2>1 DEF SectionInv
    <3> QED BY <3>1, <3>2, SectionKept
  <2> QED BY <2>1
<1> QED BY <1>1, <1>3, <1>4, <1>5 DEF SectionInv

\* A key of a section was read: it has its value, the others are as they were.
LEMMA OptionStep ==
  ASSUME PlaceInv, SectionInv, AtStep("option"), Goto(AfterOption), kind' = kind, doc' = doc,
         \A g \in GroupIds \ {at.g} : SameSettings(device'[g], device[g]),
         device'[at.g].net = device[at.g].net,
         \A f \in Flags \ {OptionKeys[at.o], "error-recovery"} :
           device'[at.g].flag[f] = device[at.g].flag[f],
         OptionKeys[at.o] \notin Timeouts =>
           LET v == doc[at.g].section.option[OptionKeys[at.o]]
               f == device'[at.g].flag[OptionKeys[at.o]] IN
           \/ f = device[at.g].flag[OptionKeys[at.o]]
              /\ (v = Absent \/ OptionKeys[at.o] \in SerialKeys)
           \/ f = v /\ v # Absent /\ (OptionKeys[at.o] \in SerialKeys => device[at.g].net = "rtu")
  PROVE  SectionInv'
<1>1. Running /\ at.step = "option" /\ at.o \in 1 .. 7 /\ at.g \in 1 .. Groups /\ doc # <<>>
  BY HereLemma, OptionLemma DEF AtStep, PlaceInv
<1>2. at' = AfterOption /\ Onward(at') /\ at' \in Place
  BY <1>1, OnwardLemma, Moves DEF Goto, InPlace
<1>3. PICK h \in 1 .. Groups : h = at.g /\ h \in Nat /\ SectionAsRead(h)
  BY <1>1 DEF SectionInv, PlaceInv, Place
<1>4. \A o \in 1 .. 7 : OptionRead(h, o)' <=> OptionRead(h, o) \/ o = at.o
  BY <1>1, <1>2, <1>3, ReadLemma
<1>5. ~OptionRead(h, at.o)
  BY <1>1, <1>3 DEF OptionRead, PlaceInv, Place
<1>6. ASSUME NEW o \in 1 .. 7 PROVE OptionAsRead(h, o)'
  <2>1. OptionAsRead(h, o)
    BY <1>3, SectionParts
  <2>2. CASE o # at.o
    <3>1. OptionRead(h, o)' <=> OptionRead(h, o)
      BY <1>4, <2>2
    <3>2. OptionKeys[o] \notin {OptionKeys[at.o], "error-recovery"}
      BY <1>1, <2>2, KeyLemma
    <3>3. OptionKeys[o] \notin Timeouts =>
            device'[h].flag[OptionKeys[o]] = device[h].flag[OptionKeys[o]]
      BY <1>3, <3>2, KeyLemma
    <3> QED BY <1>3, <2>1, <3>1, <3>3 DEF OptionAsRead
  <2>3. CASE o = at.o
    <3>1. OptionRead(h, o)' /\ ~OptionRead(h, o)
      BY <1>4, <1>5, <2>3
    <3>2. OptionKeys[o] \notin Timeouts => device[h].flag[OptionKeys[o]] = 0
      BY <2>1, <3>1 DEF OptionAsRead
    <3> QED BY <1>3, <2>3, <3>1, <3>2 DEF OptionAsRead
  <2> QED BY <2>2, <2>3
<1>7. AnyUnit(h)'
  <2>1. AnyUnit(h)
    BY <1>3, SectionParts
  <2>2. "any-unit" \in Flags \ {OptionKeys[at.o], "error-recovery"}
    BY <1>1, KeyLemma DEF Flags
  <2> QED BY <1>3, <2>1, <2>2 DEF AnyUnit, IsServer
<1>8. SectionAsRead(h)'
  <2>1. (\A o \in 1 .. 7 : OptionAsRead(h, o)') /\ AnyUnit(h)'
    BY <1>6, <1>7
  <2> QED BY <2>1 DEF SectionAsRead, OptionAsRead, AnyUnit
<1> QED BY <1>1, <1>2, <1>3, <1>8, SectionsLemma

\* Steps that leave the place, the networks and the flags alone.
LEMMA SectionIdle ==
  ASSUME SectionInv, UNCHANGED <<kind, doc, at>>, 1 \in GroupIds, Groups \in 1 .. MaxGroups \/ doc = <<>>,
         \A g \in GroupIds : SameSettings(device'[g], device[g])
  PROVE  SectionInv'
<1>1. \A g : Unread(g)' <=> Unread(g)
  BY DEF Unread
<1>2. \A g \in GroupIds : Bare(device[g]) => Bare(device'[g])
  BY DEF Bare, SameSettings
<1>3. isValid(1)' <=> isValid(1)
  BY DEF isValid, SameSettings
<1>4. ASSUME doc # <<>>, NEW g \in 1 .. Groups PROVE SectionAsRead(g)'
  <2>1. g \in GroupIds /\ SectionAsRead(g)
    BY <1>4, ConfigAssumption DEF SectionInv, GroupIds
  <2>2. \A o \in 1 .. 7 : OptionRead(g, o)' <=> OptionRead(g, o)
    BY DEF OptionRead
  <2> QED BY <2>1, <2>2, SectionKept
<1>5. Groups' = Groups
  BY DEF Groups
<1> QED BY <1>1, <1>2, <1>3, <1>4, <1>5 DEF SectionInv

\* A document is read from its beginning.
LEMMA SectionStart ==
  ASSUME PlaceInv, SectionInv, SetConfig
  PROVE  SectionInv'
<1>1. at' = FirstPlace /\ device' = device /\ ~isValid(1) /\ kind' = kind
  BY DEF SetConfig
<1>2. at'.g = 1 /\ at'.o = 1 /\ at'.step = "backend"
  BY <1>1, FirstPlaceLemma
<1>3. at.g \in Nat /\ at.g >= 1 /\ Unread(1)
  BY <1>1 DEF PlaceInv, Place, SectionInv
<1>4. \A g \in GroupIds : Unread(g)
  BY <1>3, ConfigAssumption DEF Unread, GroupIds
<1>5. \A g \in GroupIds : Bare(device'[g])
  BY <1>1, <1>4 DEF SectionInv
<1>6. Unread(1)'
  BY <1>2 DEF Unread
<1>7. doc' \in Document
  BY ConfigAssumption DEF SetConfig, PlaceInv
<1>8. Groups' \in 1 .. MaxGroups
  <2>1. Len(doc') \in Nat /\ 1 <= Len(doc') /\ Len(doc') <= MaxGroups /\ MaxGroups \in Nat
    BY <1>7, ConfigAssumption DEF Document
  <2> QED BY <2>1 DEF Groups
<1>9. ASSUME NEW g \in 1 .. Groups' PROVE SectionAsRead(g)'
  <2>1. g \in GroupIds
    BY <1>8, ConfigAssumption DEF GroupIds
  <2>2. Bare(device'[g])
    BY <1>5, <2>1
  <2>3. ASSUME NEW o \in 1 .. 7 PROVE ~OptionRead(g, o)'
    BY <1>2, <1>8 DEF OptionRead
  <2>4. ASSUME NEW o \in 1 .. 7 PROVE OptionAsRead(g, o)'
    BY <2>2, <2>3, KeyLemma DEF OptionAsRead, Bare
  <2>5. AnyUnit(g)'
    BY <2>2 DEF AnyUnit, Bare, Flags
  <2> QED BY <2>4, <2>5 DEF SectionAsRead, OptionAsRead, AnyUnit
<1> QED BY <1>5, <1>6, <1>9 DEF SectionInv

\* A backend: no flag but that of a server on a serial line.
LEMMA SectionBackend ==
  ASSUME PlaceInv, DeviceTypes, SectionInv, SetBackend
  PROVE  SectionInv'
<1>1. Running /\ at.step = "backend" /\ kind' = kind /\ doc' = doc
  BY DEF SetBackend, AtStep
<1>2. at' = [at EXCEPT !.step = "option"] /\ Onward(at') /\ at' \in Place
  BY <1>1, OnwardLemma, Moves DEF SetBackend, Goto, InPlace
<1>3. PICK h \in GroupIds : h = at.g /\ h \in Nat /\ h \in 1 .. Groups
  BY <1>1, HereLemma DEF GroupIds
<1> DEFINE section == doc[h].section
           own == IF netOf(section) = "rtu" THEN Broadcast ELSE TcpSlave
           made == WithBackend(device[h], section)
           new == IF IsMaster(h) THEN [made EXCEPT !.unit = own] ELSE Listening(h, made)
<1>4. device' = [device EXCEPT ![h] = new]
  BY <1>3 DEF SetBackend
<1>5. Bare(device[h])
  BY <1>1, <1>3 DEF SectionInv, Unread
<1>6. device[h] \in Device /\ section \in Section
  BY <1>1, <1>3, HereLemma DEF DeviceTypes
<1>7. made \in Device
  BY <1>6, DeviceSettings
<1>8. made.net \in {"rtu", "tcp"} /\ \A f \in Flags : made.flag[f] = 0
  <2>1. \A d \in Device : \A x :
          /\ WithBackend(d, x).flag = d.flag
          /\ WithBackend(d, x).net = IF netOf(x) = "rtu" THEN "rtu" ELSE "tcp"
    BY FlagSettings
  <2>2. made.flag = device[h].flag /\ made.net \in {"rtu", "tcp"}
    BY <1>6, <2>1
  <2> QED BY <1>5, <2>2 DEF Bare
<1>9. IsServer(h) => ~IsMaster(h)
  BY DEF IsMaster, IsServer
<1> HIDE DEF made, own, section
<1>10. /\ new.net = made.net
       /\ \A f \in Flags \ {"any-unit"} : new.flag[f] = 0
       /\ new.flag["any-unit"] = IF IsServer(h) /\ made.net = "rtu" THEN 1 ELSE 0
  <2>1. "any-unit" \in Flags /\ made.flag \in [Flags -> Nat]
    BY <1>7 DEF Flags, Device
  <2>2. CASE IsMaster(h)
    <3>1. SameSettings(new, made)
      BY <1>7, <2>2, FlagSettings
    <3> QED BY <1>8, <1>9, <2>1, <2>2, <3>1 DEF SameSettings
  <2>3. CASE ~IsMaster(h)
    <3>1. /\ new.net = made.net
          /\ new.flag = IF IsServer(h) /\ made.net = "rtu"
                        THEN [made.flag EXCEPT !["any-unit"] = 1] ELSE made.flag
      BY <1>7, <2>3, FlagSettings
    <3> QED BY <1>8, <2>1, <3>1
  <2> QED BY <2>2, <2>3
<1> HIDE DEF new
<1>11. device'[h] = new /\ \A g \in GroupIds \ {h} : device'[g] = device[g]
  BY <1>3, <1>4 DEF DeviceTypes
<1>12. \A o \in 1 .. 7 : ~OptionRead(h, o)'
  <2>1. at'.g = h /\ at'.o = 1
    BY <1>1, <1>2, <1>3 DEF PlaceInv, InPlace, Place
  <2> QED BY <1>3, <2>1 DEF OptionRead
<1>13. SectionAsRead(h)'
  <2>1. ASSUME NEW o \in 1 .. 7 PROVE OptionAsRead(h, o)'
    BY <1>10, <1>11, <1>12, KeyLemma DEF OptionAsRead
  <2>2. AnyUnit(h)'
    <3>1. IsServer(h)' <=> IsServer(h)
      BY <1>1 DEF IsServer
    <3> QED BY <1>10, <1>11, <3>1 DEF AnyUnit
  <2> QED BY <2>1, <2>2 DEF SectionAsRead, OptionAsRead, AnyUnit
<1>14. \A g \in GroupIds \ {at.g} : SameSettings(device'[g], device[g])
  BY <1>3, <1>11 DEF SameSettings
<1>15. device'[at.g].net # "none"
  BY <1>3, <1>8, <1>10, <1>11
<1> QED BY <1>1, <1>2, <1>3, <1>13, <1>14, <1>15, SectionsLemma

\* Every step of setConfig keeps the sections as far as they were read.
LEMMA ConfigSections == PlaceInv /\ DeviceTypes /\ SectionInv /\ Next => SectionInv'
<1> SUFFICES ASSUME PlaceInv, DeviceTypes, SectionInv, Next PROVE SectionInv'
  OBVIOUS
<1>1. 1 \in GroupIds /\ (Groups \in 1 .. MaxGroups \/ doc = <<>>)
  <2>1. MaxGroups \in Nat \ {0}
    BY ConfigAssumption
  <2>2. doc \in Document => Groups \in 1 .. Len(doc) /\ Len(doc) \in 1 .. MaxGroups
    BY DocumentLemma
  <2> QED BY <2>1, <2>2 DEF GroupIds, PlaceInv
<1>2. ASSUME UNCHANGED <<kind, doc, at, device>> PROVE SectionInv'
  BY <1>1, <1>2, SectionIdle DEF SameSettings
<1>3. ASSUME Running, UNCHANGED <<kind, doc>>, Onward(at'), at' \in Place,
             at.step \notin {"backend", "option"},
             \A g \in GroupIds : SameSettings(device'[g], device[g])
      PROVE  SectionInv'
  <2>1. at.g \in GroupIds /\ at.g \in 1 .. Groups /\ doc # <<>>
    BY <1>3, HereLemma DEF Onward, PlaceInv
  <2>2. PICK h \in GroupIds : h = at.g /\ h \in Nat /\ h \in 1 .. Groups
    BY <2>1 DEF GroupIds
  <2>3. \A o \in 1 .. 7 : OptionRead(h, o)' <=> OptionRead(h, o)
    BY <1>3, <2>2, ReadLemma
  <2>4. SectionAsRead(h)
    BY <2>1, <2>2 DEF SectionInv
  <2>5. SectionAsRead(h)'
    BY <1>3, <2>2, <2>3, <2>4, SectionKept
  <2>6. device'[at.g].net = device[at.g].net
    BY <1>3, <2>1 DEF SameSettings
  <2> QED BY <1>3, <2>1, <2>2, <2>5, <2>6, SectionsLemma
<1>4. CASE SetConfig
  BY <1>4, SectionStart
<1>5. CASE SetConfigRefused \/ CannotOpen \/ JsonError \/ NoBackend \/ AddSlaveRefused \/ BadValue
  BY <1>2, <1>5 DEF SetConfigRefused, CannotOpen, JsonError, NoBackend, AddSlaveRefused,
     BadValue, Throw, vars
<1>6. CASE SetBackend
  BY <1>6, SectionBackend
<1>7. CASE AddMaster \/ SetPduAddressing \/ SetBlock \/ ReadValue \/ WriteValues
  <2>1. Running /\ UNCHANGED <<kind, doc, device>> /\ at.step \notin {"backend", "option"}
    BY <1>7 DEF AddMaster, SetPduAddressing, SetBlock, ReadValue, WriteValues, AtStep
  <2>2. \/ at.step = "master" /\ at' = [at EXCEPT !.step = "backend"]
        \/ at.step = "pdu" /\ at' = ToBlock(1)
        \/ at.step = "block" /\ at' = ToValues
        \/ at.step = "value" /\ ~AllRead /\ at' = [at EXCEPT !.v = at.v + 1]
        \/ at.step = "value" /\ at' = ToBlock(at.b + 1)
    BY <1>7 DEF AddMaster, SetPduAddressing, SetBlock, ReadValue, WriteValues, AtStep, Goto
  <2>3. Onward(at') /\ InPlace(at')
    BY <2>1, <2>2, OnwardLemma, Moves
  <2> QED BY <1>3, <2>1, <2>3 DEF SameSettings, InPlace
<1>8. CASE AddSlave
  <2>1. /\ Running /\ UNCHANGED <<kind, doc>> /\ at.step = "slave"
        /\ device' = [device EXCEPT ![1] = [device[1] EXCEPT !.unit = TheEntry.id]]
        /\ at' = [at EXCEPT !.step = "pdu"]
    BY <1>8 DEF AddSlave, AtStep, Goto
  <2>2. Onward(at') /\ InPlace(at')
    BY <2>1, OnwardLemma, Moves
  <2>3. SameSettings([device[1] EXCEPT !.unit = TheEntry.id], device[1])
    BY <1>1, FlagSettings DEF DeviceTypes
  <2>4. \A g \in GroupIds : SameSettings(device'[g], device[g])
    BY <1>1, <2>1, <2>3 DEF DeviceTypes, SameSettings
  <2> QED BY <1>3, <2>1, <2>2, <2>4 DEF InPlace
<1>9. CASE SkipOption \/ SetSwitch \/ SetSerial \/ SetTimeout
  <2> DEFINE key == OptionKeys[at.o]
             v == doc[at.g].section.option[key]
             d == device[at.g]
  <2>1. AtStep("option") /\ Goto(AfterOption) /\ UNCHANGED <<kind, doc>>
    BY <1>9 DEF SkipOption, SetSwitch, SetSerial, SetTimeout
  <2>2. /\ at.g \in GroupIds /\ d \in Device /\ at.o \in 1 .. 7
        /\ key \notin Timeouts => key \in Flags
    BY <2>1, HereLemma, OptionLemma, KeyLemma DEF AtStep, DeviceTypes
  <2>3. key # "error-recovery"
    BY <2>2, KeyLemma
  <2>4. ASSUME NEW e, device' = [device EXCEPT ![at.g] = e], e.net = d.net,
               \A f \in Flags \ {key, "error-recovery"} : e.flag[f] = d.flag[f],
               key \notin Timeouts =>
                 \/ e.flag[key] = d.flag[key] /\ (v = Absent \/ key \in SerialKeys)
                 \/ e.flag[key] = v /\ v # Absent /\ (key \in SerialKeys => d.net = "rtu")
        PROVE  SectionInv'
    <3>1. device'[at.g] = e /\ \A g \in GroupIds \ {at.g} : device'[g] = device[g]
      BY <2>2, <2>4 DEF DeviceTypes
    <3>2. \A g \in GroupIds \ {at.g} : SameSettings(device'[g], device[g])
      BY <3>1 DEF SameSettings
    <3> QED BY <2>1, <2>4, <3>1, <3>2, OptionStep
  <2>5. device = [device EXCEPT ![at.g] = d]
    BY <2>2 DEF DeviceTypes
  <2>6. CASE SkipOption
    <3>1. device' = [device EXCEPT ![at.g] = d] /\ (v = Absent \/ key \in SerialKeys)
      BY <2>5, <2>6 DEF SkipOption
    <3> QED BY <2>4, <3>1
  <2>7. CASE SetSwitch
    <3> DEFINE e == WithFlag(at.g, d, key, v)
    <3>1. v # Absent /\ key \in {"recovery-link", "debug"} /\ device' = [device EXCEPT ![at.g] = e]
      BY <2>7 DEF SetSwitch
    <3>2. key \in Flags /\ key \notin SerialKeys
      BY <3>1 DEF Flags, SerialKeys
    <3>3. /\ e.net = d.net /\ e.flag[key] = v
          /\ \A f \in Flags \ {key, "error-recovery"} : e.flag[f] = d.flag[f]
      <4> HIDE DEF key, v, d
      <4> QED BY <2>2, <2>3, <3>2, SwitchLemma
    <3> HIDE DEF e, key, v, d
    <3> QED BY <2>4, <3>1, <3>2, <3>3
  <2>8. CASE SetSerial
    <3> DEFINE e == [d EXCEPT !.flag[key] = v]
    <3>1. /\ v # Absent /\ key \in SerialKeys /\ IsRtu(at.g)
          /\ device' = device \/ device' = [device EXCEPT ![at.g] = e]
      BY <2>8 DEF SetSerial
    <3>2. key \in Flags /\ d.net = "rtu"
      BY <3>1 DEF Flags, IsRtu, Net, isValid
    <3>3. e.net = d.net /\ e.flag = [d.flag EXCEPT ![key] = v] /\ d.flag \in [Flags -> Nat]
      BY <2>2, <3>2, FlagSettings DEF Device
    <3>4. e.flag[key] = v /\ \A f \in Flags \ {key, "error-recovery"} : e.flag[f] = d.flag[f]
      BY <3>2, <3>3
    <3> HIDE DEF e, key, v, d
    <3> QED BY <2>4, <2>5, <3>1, <3>2, <3>3, <3>4
  <2>9. CASE SetTimeout
    <3>1. PICK t : device' = [device EXCEPT ![at.g] = WithTimeout(d, key, t)] /\ key \in Timeouts
      BY <2>9 DEF SetTimeout
    <3>2. SameSettings(WithTimeout(d, key, t), d)
      BY <2>2, FlagSettings
    <3> HIDE DEF key, v, d
    <3> QED BY <2>4, <3>1, <3>2 DEF SameSettings
  <2> QED BY <1>9, <2>6, <2>7, <2>8, <2>9
<1>10. ASSUME NEW g \in GroupIds, NEW key \in Timeouts, NEW a \in Times, AppSetTimeout(g, key, a)
       PROVE  SectionInv'
  <2> DEFINE t == FromSeconds(a.s, a.us)
  <2>1. /\ UNCHANGED <<kind, doc, at>>
        /\ device' = [device EXCEPT ![g] = WithTimeout(device[g], key, t)]
    BY <1>10 DEF AppSetTimeout
  <2>2. SameSettings(WithTimeout(device[g], key, t), device[g])
    BY FlagSettings DEF DeviceTypes
  <2>3. \A h \in GroupIds : SameSettings(device'[h], device[h])
    BY <2>1, <2>2 DEF DeviceTypes, SameSettings
  <2> QED BY <1>1, <2>1, <2>3, SectionIdle
<1> QED BY <1>4, <1>5, <1>6, <1>7, <1>8, <1>9, <1>10 DEF Next

\* The application and the reports leave the sections alone.
LEMMA SectionStep ==
  PlaceInv /\ DeviceTypes /\ SectionInv /\ [ReportNext]_everything => SectionInv'
<1> SUFFICES ASSUME PlaceInv, DeviceTypes, SectionInv, [ReportNext]_everything PROVE SectionInv'
  OBVIOUS
<1>1. ASSUME UNCHANGED <<kind, doc, at, device>> PROVE SectionInv'
  <2>1. /\ Groups' = Groups /\ (isValid(1)' <=> isValid(1))
        /\ \A g : (Unread(g)' <=> Unread(g)) /\ device'[g] = device[g]
    BY <1>1 DEF Groups, isValid, Unread
  <2>2. \A g : SectionAsRead(g)' <=> SectionAsRead(g)
    BY <1>1 DEF SectionAsRead, OptionRead, IsServer
  <2> QED BY <1>1, <2>1, <2>2 DEF SectionInv
<1> QED BY <1>1, ConfigSections, OtherSteps

\* The entries of slave i that were read, those of them that say how it is addressed,
\* and whether it is the slave that a master has by itself.
Named(i) == {p \in Entries : EntryAt(p).id = i /\ EntryRead(p[1], p[2])}
Said(i) == {p \in Entries : EntryAt(p).id = i /\ PduRead(p[1], p[2]) /\ EntryAt(p).pdu # Absent}
Own(i) == kind = "Master" /\ isValid(1)
            /\ i = IF device[1].net = "rtu" THEN Broadcast ELSE TcpSlave

\* A slave s has what the entries N and S of it say.
Fits(s, N, S, own) ==
  /\ s.there <=> N # {} \/ own
  /\ s.device = IF N # {} /\ kind # "Server" THEN Last(N)[1] ELSE IF own THEN 1 ELSE 0
  /\ s.pdu <=> S # {} /\ EntryAt(Last(S)).pdu = 1

\* A slave is as read when its entries say so.
LEMMA SlaveParts ==
  ASSUME NEW i
  PROVE  SlaveAsRead(i) <=> Fits(slave[i], Named(i), Said(i), Own(i))
  BY DEF SlaveAsRead, Named, Said, Own, Fits

\* The same after a step of a document that is read.
LEMMA SlavePartsAfter ==
  ASSUME kind' = kind, doc' = doc, NEW i
  PROVE  SlaveAsRead(i)' <=> Fits(slave'[i], Named(i)', Said(i)', Own(i)')
  BY DEF SlaveAsRead, Named, Said, Own, Fits, EntryAt

\* The last of some entries is the one after which there is none.
LEMMA LastLemma ==
  ASSUME NEW S, S \subseteq GroupIds \X (1 .. MaxEntries), NEW p \in S,
         \A q \in S : NotAfter(q, p)
  PROVE  Last(S) = p
<1>1. Last(S) \in S /\ \A q \in S : NotAfter(q, Last(S))
  BY DEF Last
<1>2. NotAfter(p, Last(S)) /\ NotAfter(Last(S), p)
  BY <1>1
<1>3. \A x \in GroupIds \X (1 .. MaxEntries) :
        x[1] \in Int /\ x[2] \in Int /\ x = <<x[1], x[2]>>
  BY ConfigAssumption DEF GroupIds
<1>4. /\ p[1] \in Int /\ p[2] \in Int /\ p = <<p[1], p[2]>>
      /\ Last(S)[1] \in Int /\ Last(S)[2] \in Int /\ Last(S) = <<Last(S)[1], Last(S)[2]>>
  BY <1>1, <1>3
<1>5. p[1] = Last(S)[1] /\ p[2] = Last(S)[2]
  BY <1>2, <1>4 DEF NotAfter
<1> QED BY <1>4, <1>5

\* The entry that is read.
LEMMA CurrentEntry ==
  ASSUME PlaceInv, Running, at.step \in EntrySteps
  PROVE  /\ <<at.g, at.s>> \in Entries /\ EntryAt(<<at.g, at.s>>) = TheEntry
         /\ at.g \in GroupIds /\ at.s \in 1 .. MaxEntries
<1>1. /\ doc \in Document /\ at.g \in 1 .. Len(doc) /\ at.g \in 1 .. Groups /\ at.g \in GroupIds
      /\ at.s \in 1 .. Len(doc[at.g].slaves) /\ HasSlaves(at.g)
  BY HereLemma DEF EntrySteps
<1>2. Len(doc[at.g].slaves) <= MaxEntries /\ Len(doc[at.g].slaves) \in Nat /\ MaxEntries \in Nat
  BY <1>1, DocumentLemma, ConfigAssumption
<1>3. at.s \in 1 .. MaxEntries /\ Groups \in Int
  BY <1>1, <1>2, DocumentLemma
<1>4. <<at.g, at.s>> \in Entries
  BY <1>1, <1>2, <1>3 DEF Entries
<1> QED BY <1>1, <1>3, <1>4 DEF EntryAt, TheEntry

\* What a step of reading adds to the entries of a slave.
LEMMA EntriesRead ==
  ASSUME PlaceInv, Running, Onward(at'), at' \in Place, kind' = kind, doc' = doc, NEW i
  PROVE  /\ Named(i)' = Named(i) \cup
              {p \in {<<at.g, at.s>>} : at.step = "slave" /\ TheEntry.id = i}
         /\ Said(i)' = Said(i) \cup
              {p \in {<<at.g, at.s>>} : at.step = "pdu" /\ TheEntry.id = i /\ TheEntry.pdu # Absent}
         /\ at.step = "slave" => \A q \in Named(i) : NotAfter(q, <<at.g, at.s>>)
         /\ at.step = "pdu" => \A q \in Said(i) : NotAfter(q, <<at.g, at.s>>)
<1> DEFINE c == <<at.g, at.s>>
<1>1. at.step \in {"slave", "pdu"} => c \in Entries /\ EntryAt(c) = TheEntry
  BY CurrentEntry DEF EntrySteps
<1>2. /\ Entries' = Entries
      /\ \A p \in Entries :
           /\ EntryRead(p[1], p[2])' <=> EntryRead(p[1], p[2]) \/ (at.step = "slave" /\ p = c)
           /\ PduRead(p[1], p[2])' <=> PduRead(p[1], p[2]) \/ (at.step = "pdu" /\ p = c)
  BY ReadLemma
<1>3. \A p : EntryAt(p)' = EntryAt(p)
  BY DEF EntryAt
<1>4. c[1] = at.g /\ c[2] = at.s
  OBVIOUS
<1>5. ASSUME at.step = "slave", NEW q \in Named(i) PROVE NotAfter(q, c)
  <2>1. q[1] \in Int /\ q[2] \in Int /\ EntryRead(q[1], q[2])
    BY <1>5, ConfigAssumption DEF Named, Entries, GroupIds
  <2> QED BY <1>5, <2>1 DEF EntryRead, NotAfter, PlaceInv, Place
<1>6. ASSUME at.step = "pdu", NEW q \in Said(i) PROVE NotAfter(q, c)
  <2>1. q[1] \in Int /\ q[2] \in Int /\ PduRead(q[1], q[2])
    BY <1>6, ConfigAssumption DEF Said, Entries, GroupIds
  <2> QED BY <1>6, <2>1 DEF PduRead, NotAfter, PlaceInv, Place
<1> HIDE DEF c
<1>7. Named(i)' = {p \in Entries : EntryAt(p).id = i /\ EntryRead(p[1], p[2])'}
  BY <1>2, <1>3 DEF Named
<1>8. Named(i)' = Named(i) \cup {p \in {c} : at.step = "slave" /\ TheEntry.id = i}
  BY <1>1, <1>2, <1>7 DEF Named
<1>9. Said(i)' = {p \in Entries : EntryAt(p).id = i /\ PduRead(p[1], p[2])' /\ EntryAt(p).pdu # Absent}
  BY <1>2, <1>3 DEF Said
<1>10. Said(i)' = Said(i) \cup
         {p \in {c} : at.step = "pdu" /\ TheEntry.id = i /\ TheEntry.pdu # Absent}
  BY <1>1, <1>2, <1>9 DEF Said
<1> QED BY <1>5, <1>6, <1>8, <1>10 DEF c

\* The same slave but for its tables.
SameSlave(s, r) == s.there = r.there /\ s.device = r.device /\ s.pdu = r.pdu
Blank(s) == s.there = FALSE /\ s.device = 0 /\ s.pdu = FALSE

\* Before the backend of the object there is no slave.
SlaveInv ==
  /\ Unread(1) => \A i \in Ids : Blank(slave[i])
  /\ doc # <<>> => \A i \in Ids : SlaveAsRead(i)

\* A slave is as it was.
LEMMA SlaveKept ==
  ASSUME kind' = kind, doc' = doc, NEW i, SameSlave(slave'[i], slave[i]),
         Named(i)' = Named(i), Said(i)' = Said(i), device'[1].net = device[1].net
  PROVE  SlaveAsRead(i)' <=> SlaveAsRead(i)
<1>1. Own(i)' = Own(i)
  BY DEF Own, isValid
<1>2. Fits(slave'[i], Named(i), Said(i), Own(i)) <=> Fits(slave[i], Named(i), Said(i), Own(i))
  BY DEF Fits, SameSlave
<1> QED BY <1>1, <1>2, SlaveParts, SlavePartsAfter

\* A step of reading that gives a slave what was read.
LEMMA SlavesLemma ==
  ASSUME PlaceInv, SlaveInv, Running, Onward(at'), at' \in Place, kind' = kind, doc' = doc,
         at.step # "backend" \/ at.g # 1, device'[1].net = device[1].net,
         \A i \in Ids :
           \/ SameSlave(slave'[i], slave[i]) /\ (at.step \in {"slave", "pdu"} => i # TheEntry.id)
           \/ at.step \in {"slave", "pdu"} /\ SlaveAsRead(i)'
  PROVE  SlaveInv'
<1>1. doc # <<>> /\ at.g \in Nat /\ 1 \in GroupIds
  BY ConfigAssumption DEF PlaceInv, Place, GroupIds
<1>2. ASSUME Unread(1)', NEW i \in Ids PROVE Blank(slave'[i])
  <2>1. Unread(1) /\ ~(at.step = "backend" /\ 1 = at.g)
    BY <1>1, <1>2, ReadLemma
  <2>2. at.step \notin {"slave", "pdu"}
    BY <1>1, <2>1 DEF Unread, PlaceInv, Place
  <2>3. Blank(slave[i]) /\ SameSlave(slave'[i], slave[i])
    BY <2>1, <2>2 DEF SlaveInv
  <2> QED BY <2>3 DEF Blank, SameSlave
<1>3. ASSUME NEW i \in Ids PROVE SlaveAsRead(i)'
  <2>1. CASE SameSlave(slave'[i], slave[i]) /\ (at.step \in {"slave", "pdu"} => i # TheEntry.id)
    <3>1. Named(i)' = Named(i) /\ Said(i)' = Said(i)
      BY <2>1, EntriesRead
    <3>2. SlaveAsRead(i)
      BY <1>1 DEF SlaveInv
    <3> QED BY <2>1, <3>1, <3>2, SlaveKept
  <2> QED BY <2>1
<1> QED BY <1>2, <1>3 DEF SlaveInv

\* Nothing of the slaves is read before the backend of the first group.
LEMMA NoneRead ==
  ASSUME NEW i, at.g = 1, at.s = 1, at.step \notin EntrySteps
  PROVE  Named(i) = {} /\ Said(i) = {}
<1>1. ASSUME NEW p \in Entries PROVE ~EntryRead(p[1], p[2]) /\ ~PduRead(p[1], p[2])
  <2>1. p[1] \in Int /\ p[1] >= 1 /\ p[2] \in Int /\ p[2] >= 1
    BY ConfigAssumption DEF Entries, GroupIds
  <2> QED BY <2>1 DEF EntryRead, PduRead, EntrySteps
<1> QED BY <1>1 DEF Named, Said

\* A slave that has nothing, of which nothing was read.
LEMMA BlankFits ==
  ASSUME NEW s, Blank(s) PROVE Fits(s, {}, {}, FALSE)
  BY DEF Fits, Blank

\* There is no slave at first.
LEMMA SlaveInit == ReportInit => SlaveInv
<1> SUFFICES ASSUME Init PROVE SlaveInv
  BY DEF ReportInit, AccessInit
<1>1. Blank(NoSlave)
  BY DEF Blank, NoSlave
<1> QED BY <1>1 DEF Init, SlaveInv

\* A document is read from its beginning.
LEMMA SlaveStart ==
  ASSUME PlaceInv, SectionInv, SlaveInv, SetConfig
  PROVE  SlaveInv'
<1>1. /\ at' = FirstPlace /\ device' = device /\ slave' = slave /\ kind' = kind
      /\ ~isValid(1)
  BY DEF SetConfig
<1>2. at'.g = 1 /\ at'.s = 1 /\ at'.step = "backend"
  BY <1>1, FirstPlaceLemma
<1>3. \A i \in Ids : Blank(slave[i])
  BY <1>1 DEF SectionInv, SlaveInv
<1>4. ASSUME NEW i \in Ids PROVE SlaveAsRead(i)'
  <2>1. ASSUME NEW p \in Entries' PROVE ~EntryRead(p[1], p[2])' /\ ~PduRead(p[1], p[2])'
    <3>1. p[1] \in Int /\ p[1] >= 1 /\ p[2] \in Int /\ p[2] >= 1
      BY ConfigAssumption DEF Entries, GroupIds
    <3> QED BY <1>2, <3>1 DEF EntryRead, PduRead
  <2>2. Named(i)' = {} /\ Said(i)' = {}
    BY <2>1 DEF Named, Said
  <2>3. ~Own(i)'
    BY <1>1 DEF Own, isValid
  <2>4. Blank(slave'[i])
    BY <1>1, <1>3
  <2> QED BY <2>2, <2>3, <2>4 DEF SlaveAsRead, Named, Said, Own, Blank
<1> QED BY <1>1, <1>3, <1>4 DEF SlaveInv

\* The network of a backend.
LEMMA BackendLemma ==
  ASSUME PlaceInv, DeviceTypes, SetBackend
  PROVE  device'[at.g].net = IF netOf(doc[at.g].section) = "rtu" THEN "rtu" ELSE "tcp"
<1>1. Running /\ at.step = "backend"
  BY DEF SetBackend, AtStep
<1> DEFINE section == doc[at.g].section
           own == IF netOf(section) = "rtu" THEN Broadcast ELSE TcpSlave
           made == WithBackend(device[at.g], section)
           new == IF IsMaster(at.g) THEN [made EXCEPT !.unit = own] ELSE Listening(at.g, made)
<1>2. device' = [device EXCEPT ![at.g] = new]
  BY DEF SetBackend
<1>3. at.g \in GroupIds /\ section \in Section
  BY <1>1, HereLemma
<1>4. made \in Device
  BY <1>3, DeviceSettings DEF DeviceTypes
<1>5. \A d \in Device : \A x : WithBackend(d, x).net = IF netOf(x) = "rtu" THEN "rtu" ELSE "tcp"
  BY FlagSettings
<1>6. made.net = IF netOf(section) = "rtu" THEN "rtu" ELSE "tcp"
  BY <1>3, <1>5 DEF DeviceTypes
<1> HIDE DEF made, own
<1>7. SameSettings([made EXCEPT !.unit = own], made) /\ Listening(at.g, made).net = made.net
  BY <1>4, FlagSettings
<1>8. new.net = made.net
  BY <1>7 DEF SameSettings
<1> HIDE DEF new
<1> QED BY <1>2, <1>3, <1>6, <1>8 DEF DeviceTypes

\* A backend: the slave that a master has by itself.
LEMMA SlaveBackend ==
  ASSUME PlaceInv, DeviceTypes, SlaveTypes, SectionInv, SlaveInv, SetBackend
  PROVE  SlaveInv'
<1>1. Running /\ at.step = "backend" /\ kind' = kind /\ doc' = doc /\ doc # <<>>
  BY DEF SetBackend, AtStep, PlaceInv
<1>2. at' = [at EXCEPT !.step = "option"] /\ Onward(at') /\ at' \in Place
  BY <1>1, OnwardLemma, Moves DEF SetBackend, Goto, InPlace
<1> DEFINE own == IF netOf(doc[at.g].section) = "rtu" THEN Broadcast ELSE TcpSlave
           new == [slave[own] EXCEPT !.there = TRUE, !.device = at.g]
<1>3. slave' = IF kind = "Master" THEN [slave EXCEPT ![own] = new] ELSE slave
  BY DEF SetBackend
<1>4. at.g \in 1 .. Groups /\ at.g \in GroupIds /\ at.s = 1
  BY <1>1, HereLemma DEF PlaceInv, InPlace, SectionSteps
<1>5. device'[at.g].net = (IF netOf(doc[at.g].section) = "rtu" THEN "rtu" ELSE "tcp")
  BY BackendLemma
<1>6. \A g \in GroupIds \ {at.g} : device'[g] = device[g]
  BY <1>4 DEF SetBackend, DeviceTypes
<1>7. 1 \in GroupIds
  BY ConfigAssumption DEF GroupIds
<1>8. CASE at.g # 1
  <2>1. slave' = slave
    BY <1>3, <1>4, <1>8 DEF Groups
  <2>2. device'[1].net = device[1].net
    BY <1>6, <1>7, <1>8
  <2>3. \A i \in Ids : SameSlave(slave'[i], slave[i])
    BY <2>1 DEF SameSlave
  <2> QED BY <1>1, <1>2, <1>8, <2>2, <2>3, SlavesLemma
<1>9. CASE at.g = 1
  <2>1. \A i \in Ids : Blank(slave[i])
    BY <1>1, <1>9 DEF SlaveInv, Unread
  <2>2. ~Unread(1)'
    BY <1>1, <1>7, <1>2, <1>9, ReadLemma
  <2>3. ASSUME NEW i \in Ids PROVE SlaveAsRead(i)'
    <3>1. Named(i) = {} /\ Said(i) = {}
      BY <1>1, <1>4, <1>9, NoneRead DEF EntrySteps
    <3>2. Named(i)' = {} /\ Said(i)' = {}
      BY <1>1, <1>2, <3>1, EntriesRead
    <3>3. Own(i)' <=> kind = "Master" /\ i = own
      <4>1. /\ device'[1].net # "none"
            /\ device'[1].net = "rtu" <=> netOf(doc[at.g].section) = "rtu"
        BY <1>5, <1>9
      <4> QED BY <1>1, <4>1 DEF Own, isValid
    <3>4. CASE Own(i)'
      <4>1. slave'[i] = new /\ slave[i] = slave[own]
        BY <1>3, <3>3, <3>4 DEF SlaveTypes
      <4>2. slave[i] \in Slave /\ Blank(slave[i])
        BY <2>1 DEF SlaveTypes
      <4>3. slave'[i].there = TRUE /\ slave'[i].device = 1 /\ slave'[i].pdu = FALSE
        BY <1>9, <4>1, <4>2 DEF Slave, Blank
      <4>4. Fits(slave'[i], {}, {}, TRUE)
        BY <4>3 DEF Fits
      <4>5. Own(i)' = TRUE
        BY <3>3, <3>4
      <4> QED BY <1>1, <3>2, <4>4, <4>5, SlavePartsAfter
    <3>5. CASE ~Own(i)'
      <4>1. slave'[i] = slave[i]
        BY <1>3, <3>3, <3>5 DEF SlaveTypes
      <4>2. Fits(slave'[i], {}, {}, FALSE)
        BY <2>1, <4>1, BlankFits
      <4>3. Own(i)' = FALSE
        BY <3>3, <3>5
      <4> QED BY <1>1, <3>2, <4>2, <4>3, SlavePartsAfter
    <3> QED BY <3>4, <3>5
  <2> QED BY <2>2, <2>3 DEF SlaveInv
<1> QED BY <1>8, <1>9

\* An entry: the slave is there, and belongs to the group it is listed under.
LEMMA SlaveNamed ==
  ASSUME PlaceInv, DeviceTypes, SlaveTypes, SlaveInv, AddSlave
  PROVE  SlaveInv'
<1>1. /\ Running /\ at.step = "slave" /\ kind' = kind /\ doc' = doc /\ doc # <<>>
      /\ at' = [at EXCEPT !.step = "pdu"]
      /\ device' = [device EXCEPT ![1] = [device[1] EXCEPT !.unit = TheEntry.id]]
  BY DEF AddSlave, AtStep, PlaceInv, Goto
<1>2. Onward(at') /\ at' \in Place
  BY <1>1, OnwardLemma, Moves DEF InPlace
<1> DEFINE new == [slave[TheEntry.id] EXCEPT !.there = TRUE,
                     !.device = IF kind = "Server" THEN 0 ELSE at.g]
<1>3. slave' = [slave EXCEPT ![TheEntry.id] = new] /\ TheEntry.id \in Ids
  BY <1>1, HereLemma DEF AddSlave, EntrySteps
<1>4. device'[1].net = device[1].net
  <2>1. 1 \in GroupIds
    BY ConfigAssumption DEF GroupIds
  <2>2. SameSettings([device[1] EXCEPT !.unit = TheEntry.id], device[1])
    BY <2>1, FlagSettings DEF DeviceTypes
  <2> QED BY <1>1, <2>1, <2>2 DEF DeviceTypes, SameSettings
<1>5. ASSUME NEW i \in Ids, i # TheEntry.id PROVE SameSlave(slave'[i], slave[i])
  BY <1>3, <1>5 DEF SlaveTypes, SameSlave
<1>6. ASSUME NEW i \in Ids, i = TheEntry.id PROVE SlaveAsRead(i)'
  <2> DEFINE c == <<at.g, at.s>>
             N == Named(i) \cup {c}
  <2>1. Named(i)' = N /\ Said(i)' = Said(i) /\ \A q \in Named(i) : NotAfter(q, c)
    BY <1>1, <1>2, <1>6, EntriesRead
  <2>2. c \in Entries /\ c[1] = at.g /\ at.g \in Nat /\ at.s \in Nat
    BY <1>1, CurrentEntry DEF EntrySteps, PlaceInv, Place
  <2>3. NotAfter(c, c)
    BY <2>2 DEF NotAfter
  <2>4. N \subseteq GroupIds \X (1 .. MaxEntries) /\ c \in N
    BY <2>2 DEF Named, Entries
  <2> HIDE DEF c
  <2>5. Last(N) = c
    BY <2>1, <2>3, <2>4, LastLemma
  <2>6. slave[i] \in Slave /\ slave'[i] = new
    BY <1>3, <1>6 DEF SlaveTypes
  <2>7. /\ slave'[i].there = TRUE /\ slave'[i].device = (IF kind = "Server" THEN 0 ELSE at.g)
        /\ slave'[i].pdu = slave[i].pdu
    BY <1>6, <2>6 DEF Slave
  <2>8. Fits(slave[i], Named(i), Said(i), Own(i))
    BY <1>1, SlaveParts DEF SlaveInv
  <2>9. Own(i)' = Own(i) /\ (kind = "Server" => ~Own(i))
    BY <1>1, <1>4 DEF Own, isValid
  <2>10. Fits(slave'[i], N, Said(i), Own(i))
    <3>1. N # {} /\ Last(N)[1] = at.g
      BY <2>2, <2>4, <2>5
    <3> HIDE DEF N
    <3> QED BY <2>7, <2>8, <2>9, <3>1 DEF Fits
  <2> QED BY <1>1, <2>1, <2>9, <2>10, SlavePartsAfter
<1> QED BY <1>1, <1>2, <1>4, <1>5, <1>6, SlavesLemma

\* How a slave is addressed is what its last entry that says so has.
LEMMA SlaveSaid ==
  ASSUME PlaceInv, SlaveTypes, SlaveInv, SetPduAddressing
  PROVE  SlaveInv'
<1>1. /\ Running /\ at.step = "pdu" /\ kind' = kind /\ doc' = doc /\ doc # <<>>
      /\ at' = ToBlock(1) /\ device' = device
  BY DEF SetPduAddressing, AtStep, PlaceInv, Goto
<1>2. Onward(at') /\ at' \in Place
  BY <1>1, OnwardLemma, Moves DEF InPlace
<1> DEFINE pdu == TheEntry.pdu = 1
           new == [slave[TheEntry.id] EXCEPT !.pdu = pdu]
<1>3. /\ slave' = IF TheEntry.pdu = Absent THEN slave ELSE [slave EXCEPT ![TheEntry.id] = new]
      /\ TheEntry.id \in Ids
  BY <1>1, HereLemma DEF SetPduAddressing, EntrySteps
<1>4. ASSUME NEW i \in Ids, i # TheEntry.id \/ TheEntry.pdu = Absent
      PROVE  SameSlave(slave'[i], slave[i])
  BY <1>3, <1>4 DEF SlaveTypes, SameSlave
<1>5. ASSUME NEW i \in Ids, i = TheEntry.id PROVE SlaveAsRead(i)'
  <2>1. Fits(slave[i], Named(i), Said(i), Own(i)) /\ SlaveAsRead(i)
    BY <1>1, SlaveParts DEF SlaveInv
  <2>2. Named(i)' = Named(i) /\ Own(i)' = Own(i)
    BY <1>1, <1>2, EntriesRead DEF Own, isValid
  <2>3. CASE TheEntry.pdu = Absent
    <3>1. Said(i)' = Said(i)
      BY <1>1, <1>2, <2>3, EntriesRead
    <3>2. SameSlave(slave'[i], slave[i])
      BY <1>4, <2>3
    <3> QED BY <1>1, <2>1, <2>2, <3>1, <3>2, SlaveKept
  <2>4. CASE TheEntry.pdu # Absent
    <3> DEFINE c == <<at.g, at.s>>
               S == Said(i) \cup {c}
    <3>1. Said(i)' = S /\ \A q \in Said(i) : NotAfter(q, c)
      BY <1>1, <1>2, <1>5, <2>4, EntriesRead
    <3>2. c \in Entries /\ EntryAt(c) = TheEntry /\ at.g \in Nat /\ at.s \in Nat
      BY <1>1, CurrentEntry DEF EntrySteps, PlaceInv, Place
    <3>3. NotAfter(c, c)
      BY <3>2 DEF NotAfter
    <3>4. S \subseteq GroupIds \X (1 .. MaxEntries) /\ c \in S
      BY <3>2 DEF Said, Entries
    <3> HIDE DEF c
    <3>5. Last(S) = c
      BY <3>1, <3>3, <3>4, LastLemma
    <3>6. slave[i] \in Slave /\ slave'[i] = new
      BY <1>3, <1>5, <2>4 DEF SlaveTypes
    <3> HIDE DEF pdu
    <3>7. /\ slave'[i].there = slave[i].there /\ slave'[i].device = slave[i].device
          /\ slave'[i].pdu = pdu
      BY <1>5, <3>6 DEF Slave
    <3>8. Fits(slave'[i], Named(i), S, Own(i))
      <4>1. S # {} /\ (EntryAt(Last(S)).pdu = 1 <=> pdu)
        BY <3>2, <3>4, <3>5 DEF pdu
      <4> HIDE DEF S
      <4> QED BY <2>1, <3>7, <4>1 DEF Fits
    <3> QED BY <1>1, <2>2, <3>1, <3>8, SlavePartsAfter
  <2> QED BY <2>3, <2>4
<1> QED BY <1>1, <1>2, <1>4, <1>5, SlavesLemma

\* Tables are no part of what a document says of a slave as such.
LEMMA TableSame ==
  ASSUME NEW s \in Slave
  PROVE  /\ \A t, x : SameSlave([s EXCEPT !.table[t] = x], s)
         /\ \A t, addr, v : SameSlave(Stored(s, t, addr, v), s)
<1>1. \A t, x : SameSlave([s EXCEPT !.table[t] = x], s)
  BY DEF SameSlave, Slave
<1>2. ASSUME NEW t, NEW addr, NEW v PROVE SameSlave(Stored(s, t, addr, v), s)
  <2> DEFINE new == [s.table[t] EXCEPT !.items =
                       Written(s.table[t].items, pduAddress(s, addr) - s.table[t].start, v)]
  <2>1. Stored(s, t, addr, v) = [s EXCEPT !.table[t] = new] \/ Stored(s, t, addr, v) = s
    BY DEF Stored
  <2> HIDE DEF new
  <2>2. SameSlave([s EXCEPT !.table[t] = new], s) /\ SameSlave(s, s)
    BY <1>1 DEF SameSlave
  <2> HIDE DEF SameSlave
  <2> QED BY <2>1, <2>2
<1> QED BY <1>1, <1>2

\* Steps that leave the place and the network of the object alone, and the slaves but
\* for their tables.
LEMMA SlaveIdle ==
  ASSUME SlaveInv, UNCHANGED <<kind, doc, at>>, device'[1].net = device[1].net,
         \A i \in Ids : SameSlave(slave'[i], slave[i])
  PROVE  SlaveInv'
<1>1. Unread(1)' <=> Unread(1)
  BY DEF Unread
<1>2. \A i \in Ids : Blank(slave[i]) => Blank(slave'[i])
  BY DEF Blank, SameSlave
<1>3. ASSUME doc # <<>>, NEW i \in Ids PROVE SlaveAsRead(i)'
  <2>1. Named(i)' = Named(i) /\ Said(i)' = Said(i)
    BY DEF Named, Said, Entries, EntryAt, EntryRead, PduRead, Groups, HasSlaves
  <2> QED BY <1>3, <2>1, SlaveKept DEF SlaveInv
<1> QED BY <1>1, <1>2, <1>3 DEF SlaveInv

\* Every step of setConfig keeps the slaves as far as they were read.
LEMMA ConfigNamed ==
  PlaceInv /\ DeviceTypes /\ SlaveTypes /\ SectionInv /\ SlaveInv /\ Next => SlaveInv'
<1> SUFFICES ASSUME PlaceInv, DeviceTypes, SlaveTypes, SectionInv, SlaveInv, Next PROVE SlaveInv'
  OBVIOUS
<1>1. 1 \in GroupIds
  BY ConfigAssumption DEF GroupIds
<1>2. ASSUME slave' = slave PROVE \A i \in Ids : SameSlave(slave'[i], slave[i])
  BY <1>2 DEF SameSlave
<1>3. ASSUME Running, UNCHANGED <<kind, doc>>, Onward(at'), at' \in Place,
             at.step \notin {"backend", "slave", "pdu"}, device'[1].net = device[1].net,
             \A i \in Ids : SameSlave(slave'[i], slave[i])
      PROVE  SlaveInv'
  BY <1>3, SlavesLemma
<1>4. CASE SetConfig
  BY <1>4, SlaveStart
<1>5. CASE SetConfigRefused \/ CannotOpen \/ JsonError \/ NoBackend \/ AddSlaveRefused \/ BadValue
  <2>1. UNCHANGED <<kind, doc, at, device, slave>>
    BY <1>5 DEF SetConfigRefused, CannotOpen, JsonError, NoBackend, AddSlaveRefused,
       BadValue, Throw, vars
  <2> QED BY <1>2, <2>1, SlaveIdle
<1>6. CASE SetBackend
  BY <1>6, SlaveBackend
<1>7. CASE AddSlave
  BY <1>7, SlaveNamed
<1>8. CASE SetPduAddressing
  BY <1>8, SlaveSaid
<1>9. CASE AddMaster \/ ReadValue
  <2>1. /\ Running /\ UNCHANGED <<kind, doc, device, slave>>
        /\ \/ at.step = "master" /\ at' = [at EXCEPT !.step = "backend"]
           \/ at.step = "value" /\ ~AllRead /\ at' = [at EXCEPT !.v = at.v + 1]
    BY <1>9 DEF AddMaster, ReadValue, AtStep, Goto
  <2>2. Onward(at') /\ InPlace(at')
    BY <2>1, OnwardLemma, Moves
  <2>3. device'[1].net = device[1].net /\ at' \in Place
    BY <2>1, <2>2 DEF InPlace
  <2> QED BY <1>2, <1>3, <2>1, <2>2, <2>3
<1>10. CASE SkipOption \/ SetSwitch \/ SetSerial \/ SetTimeout
  <2>1. /\ Running /\ UNCHANGED <<kind, doc, slave>> /\ at.step = "option" /\ at' = AfterOption
    BY <1>10 DEF SkipOption, SetSwitch, SetSerial, SetTimeout, AtStep, Goto
  <2>2. Onward(at') /\ at' \in Place
    BY <2>1, OnwardLemma, Moves DEF InPlace
  <2>3. device'[1].net = device[1].net
    <3> DEFINE key == OptionKeys[at.o]
               v == doc[at.g].section.option[key]
    <3>1. at.g \in GroupIds /\ device[at.g] \in Device
      BY <2>1, HereLemma DEF DeviceTypes
    <3>2. ASSUME NEW e, device' = [device EXCEPT ![at.g] = e], e.net = device[at.g].net
          PROVE  device'[1].net = device[1].net
      BY <1>1, <3>1, <3>2 DEF DeviceTypes
    <3>3. CASE SkipOption
      BY <3>3 DEF SkipOption
    <3>4. CASE SetSwitch
      <4>1. /\ device' = [device EXCEPT ![at.g] = WithFlag(at.g, device[at.g], key, v)]
            /\ key \in {"recovery-link", "debug"}
        BY <3>4 DEF SetSwitch
      <4>2. ASSUME NEW x \in Device, NEW k, NEW w PROVE WithFlag(at.g, x, k, w).net = x.net
        BY DEF WithFlag, Device
      <4> HIDE DEF key, v
      <4> QED BY <3>1, <3>2, <4>1, <4>2
    <3>5. CASE SetSerial
      <4>1. /\ key \in SerialKeys
            /\ \/ device' = device
               \/ device' = [device EXCEPT ![at.g] = [device[at.g] EXCEPT !.flag[key] = v]]
        BY <3>5 DEF SetSerial
      <4>2. [device[at.g] EXCEPT !.flag[key] = v].net = device[at.g].net
        BY <3>1 DEF Device
      <4> HIDE DEF key, v
      <4> QED BY <3>2, <4>1, <4>2
    <3>6. CASE SetTimeout
      <4>1. PICK t : device' = [device EXCEPT ![at.g] = WithTimeout(device[at.g], key, t)]
        BY <3>6 DEF SetTimeout
      <4>2. SameSettings(WithTimeout(device[at.g], key, t), device[at.g])
        BY <3>1, FlagSettings
      <4> HIDE DEF key
      <4> QED BY <3>2, <4>1, <4>2 DEF SameSettings
    <3> QED BY <1>10, <3>3, <3>4, <3>5, <3>6
  <2> QED BY <1>2, <1>3, <2>1, <2>2, <2>3
<1>11. CASE SetBlock \/ WriteValues
  <2>1. /\ Running /\ UNCHANGED <<kind, doc, device>>
        /\ \/ at.step = "block" /\ at' = ToValues
           \/ at.step = "value" /\ at' = ToBlock(at.b + 1)
    BY <1>11 DEF SetBlock, WriteValues, AtStep, Goto
  <2>2. Onward(at') /\ InPlace(at')
    BY <2>1, OnwardLemma, Moves
  <2>3. device'[1].net = device[1].net /\ at' \in Place /\ TheEntry.id \in Ids
    BY <2>1, <2>2, HereLemma DEF InPlace, EntrySteps
  <2>4. TheSlave \in Slave
    BY <2>3 DEF TheSlave, SlaveTypes
  <2>5. PICK new : slave' = [slave EXCEPT ![TheEntry.id] = new] /\ SameSlave(new, TheSlave)
    <3>1. CASE SetBlock
      <4>1. PICK x : slave' = [slave EXCEPT ![TheEntry.id].table[tableOf(TheBlock)] = x]
        BY <3>1 DEF SetBlock
      <4>2. slave' = [slave EXCEPT ![TheEntry.id] =
                        [TheSlave EXCEPT !.table[tableOf(TheBlock)] = x]]
        BY <4>1 DEF TheSlave
      <4> QED BY <2>4, <4>2, TableSame
    <3>2. CASE WriteValues
      <4>1. slave' = [slave EXCEPT ![TheEntry.id] =
                        Stored(TheSlave, tableOf(TheBlock), ValuesAddress(TheSlave, TheBlock), vect)]
        BY <3>2 DEF WriteValues, TheSlave
      <4> QED BY <2>4, <4>1, TableSame
    <3> QED BY <1>11, <3>1, <3>2
  <2>6. \A i \in Ids : SameSlave(slave'[i], slave[i])
    BY <2>5 DEF SlaveTypes, SameSlave, TheSlave
  <2> QED BY <1>3, <2>1, <2>2, <2>3, <2>6
<1>12. ASSUME NEW g \in GroupIds, NEW key \in Timeouts, NEW a \in Times, AppSetTimeout(g, key, a)
       PROVE  SlaveInv'
  <2> DEFINE t == FromSeconds(a.s, a.us)
  <2>1. /\ UNCHANGED <<kind, doc, at, slave>>
        /\ device' = [device EXCEPT ![g] = WithTimeout(device[g], key, t)]
    BY <1>12 DEF AppSetTimeout
  <2>2. SameSettings(WithTimeout(device[g], key, t), device[g])
    BY FlagSettings DEF DeviceTypes
  <2>3. device'[1].net = device[1].net
    BY <1>1, <2>1, <2>2 DEF DeviceTypes, SameSettings
  <2> QED BY <1>2, <2>1, <2>3, SlaveIdle
<1> QED BY <1>4, <1>5, <1>6, <1>7, <1>8, <1>9, <1>10, <1>11, <1>12 DEF Next

\* The application writes to tables only.
LEMMA AccessSame ==
  ASSUME SlaveTypes, AccessStep
  PROVE  \A i \in Ids : SameSlave(slave'[i], slave[i])
<1>1. CASE UNCHANGED slave
  BY <1>1 DEF SameSlave
<1>2. ASSUME NEW i \in Ids, NEW t \in Registers, NEW addr \in Addresses(i, t), WriteData(i, t, addr)
      PROVE  \A j \in Ids : SameSlave(slave'[j], slave[j])
  <2> DEFINE v == Concatenated(obj')
  <2>1. slave' = [slave EXCEPT ![i] = Stored(slave[i], t, addr, v)]
    BY <1>2 DEF WriteData
  <2> HIDE DEF v
  <2>2. SameSlave(Stored(slave[i], t, addr, v), slave[i])
    BY TableSame DEF SlaveTypes
  <2> QED BY <2>1, <2>2 DEF SlaveTypes, SameSlave
<1>3. \/ UNCHANGED slave
      \/ \E i \in Ids, t \in Registers : \E addr \in Addresses(i, t) : WriteData(i, t, addr)
  <2>1. \A e : NewData(e) => UNCHANGED slave
    BY DEF NewData
  <2>2. \A i, v : Assign(i, v) \/ AssignByReference(i, v) => UNCHANGED slave
    BY DEF Assign, AssignByReference
  <2>3. \A i, e : SetEndianness(i, e) => UNCHANGED slave
    BY DEF SetEndianness
  <2>4. \A k, i, t, addr : ReadData(i, t, addr) \/ ReadDatum(k, i, t, addr) => UNCHANGED slave
    BY DEF ReadData, ReadDatum
  <2> QED BY <2>1, <2>2, <2>3, <2>4 DEF AccessStep
<1> QED BY <1>1, <1>2, <1>3

\* So does every step.
LEMMA NamedStep ==
  PlaceInv /\ DeviceTypes /\ SlaveTypes /\ SectionInv /\ SlaveInv /\ [ReportNext]_everything
    => SlaveInv'
<1> SUFFICES ASSUME PlaceInv, DeviceTypes, SlaveTypes, SectionInv, SlaveInv,
                    [ReportNext]_everything
             PROVE  SlaveInv'
  OBVIOUS
<1>1. CASE Next /\ UNCHANGED objVars /\ UNCHANGED reportVars
  BY <1>1, ConfigNamed
<1>2. CASE ~(Next /\ UNCHANGED objVars /\ UNCHANGED reportVars)
  <2>1. UNCHANGED <<kind, doc, at, device>> /\ (AccessStep \/ UNCHANGED slave)
    BY <1>2, OtherSteps
  <2>2. \A i \in Ids : SameSlave(slave'[i], slave[i])
    BY <2>1, AccessSame DEF SameSlave
  <2>3. device'[1].net = device[1].net
    BY <2>1
  <2> QED BY <2>1, <2>2, <2>3, SlaveIdle
<1> QED BY <1>1, <1>2

\* What was read of a document, and types.
ReadInv == TypesInv /\ SectionInv /\ SlaveInv

\* Types, sections and slaves in every behaviour.
LEMMA ReadInvariant == ReportSpec => []ReadInv
<1>1. ReportInit => ReadInv
  BY TypesInit, SectionInit, SlaveInit DEF ReadInv
<1>2. ReadInv /\ [ReportNext]_everything => ReadInv'
  BY TypesStep, SectionStep, NamedStep DEF ReadInv, TypesInv
<1> QED BY <1>1, <1>2, PTL DEF ReportSpec

\* Wherever an exception ends setConfig of any document, the options of every section
\* and the slaves are what the document says up to there, and nothing of the rest; so
\* they are when another document is read after one that failed.
THEOREM AsFarAsReadCorrect == ReportSpec => []AsFarAsRead
<1>1. ReadInv => AsFarAsRead
  BY DEF ReadInv, SectionInv, SlaveInv, AsFarAsRead
<1> QED BY <1>1, ReadInvariant, PTL

-----------------------------------------------------------------------------
(* Configuration: the values of blocks.                                     *)

\* The bits before the next value, and those before a later one.
LEMMA BitsBeforeLemma ==
  ASSUME NEW b \in Block, NEW i \in 1 .. Len(b.values) + 1
  PROVE  /\ BitsBefore(b, i) \in Nat
         /\ i <= Len(b.values) =>
              BitsBefore(b, i + 1) = BitsBefore(b, i) + IF b.values[i].text THEN 8 ELSE 1
         /\ \A k \in 1 .. i : BitsBefore(b, k) <= BitsBefore(b, i)
         /\ BitsBefore(b, 1) = 0
<1> DEFINE T(k) == {j \in 1 .. k - 1 : b.values[j].text}
           F(k) == {j \in 1 .. k - 1 : ~b.values[j].text}
<1>1. b.values \in Seq(Value) /\ i \in Nat /\ i >= 1
  BY BlockLemma
<1>2. \A k : BitsBefore(b, k) = 8 * Cardinality(T(k)) + Cardinality(F(k))
  BY DEF BitsBefore
<1>3. ASSUME NEW k \in Nat
      PROVE  /\ IsFiniteSet(T(k)) /\ IsFiniteSet(F(k))
             /\ Cardinality(T(k)) \in Nat /\ Cardinality(F(k)) \in Nat
  <2>1. IsFiniteSet(1 .. k - 1)
    BY FS_Interval
  <2>2. T(k) \in SUBSET (1 .. k - 1) /\ F(k) \in SUBSET (1 .. k - 1)
    OBVIOUS
  <2>3. IsFiniteSet(T(k)) /\ IsFiniteSet(F(k))
    BY <2>1, <2>2, FS_Subset
  <2> QED BY <2>3, FS_CardinalityType
<1>4. BitsBefore(b, i) \in Nat
  <2>1. Cardinality(T(i)) \in Nat /\ Cardinality(F(i)) \in Nat
    BY <1>1, <1>3
  <2>2. \A x, y \in Nat : 8 * x + y \in Nat
    OBVIOUS
  <2> HIDE DEF T, F
  <2> QED BY <1>2, <2>1, <2>2
<1>5. ASSUME i <= Len(b.values)
      PROVE  BitsBefore(b, i + 1) = BitsBefore(b, i) + IF b.values[i].text THEN 8 ELSE 1
  <2>1. i + 1 - 1 = i /\ 1 .. i = (1 .. i - 1) \cup {i} /\ i \notin 1 .. i - 1
    BY <1>1
  <2>2. CASE b.values[i].text
    <3>1. T(i + 1) = T(i) \cup {i} /\ F(i + 1) = F(i) /\ i \notin T(i)
      BY <2>1, <2>2
    <3>2. Cardinality(T(i) \cup {i}) = Cardinality(T(i)) + 1
      BY <1>1, <1>3, <3>1, FS_AddElement
    <3> HIDE DEF T, F
    <3>3. Cardinality(T(i + 1)) = Cardinality(T(i)) + 1 /\ Cardinality(F(i + 1)) = Cardinality(F(i))
      BY <3>1, <3>2
    <3> QED BY <1>1, <1>2, <1>3, <2>2, <3>3
  <2>3. CASE ~b.values[i].text
    <3>1. F(i + 1) = F(i) \cup {i} /\ T(i + 1) = T(i) /\ i \notin F(i)
      BY <2>1, <2>3
    <3>2. Cardinality(F(i) \cup {i}) = Cardinality(F(i)) + 1
      BY <1>1, <1>3, <3>1, FS_AddElement
    <3> HIDE DEF T, F
    <3>3. Cardinality(F(i + 1)) = Cardinality(F(i)) + 1 /\ Cardinality(T(i + 1)) = Cardinality(T(i))
      BY <3>1, <3>2
    <3> QED BY <1>1, <1>2, <1>3, <2>3, <3>3
  <2> QED BY <2>2, <2>3
<1>6. ASSUME NEW k \in 1 .. i PROVE BitsBefore(b, k) <= BitsBefore(b, i)
  <2>1. k \in Nat
    BY <1>1
  <2>2. T(k) \in SUBSET T(i) /\ F(k) \in SUBSET F(i)
    BY <1>1
  <2>3. Cardinality(T(k)) <= Cardinality(T(i)) /\ Cardinality(F(k)) <= Cardinality(F(i))
    BY <1>1, <1>3, <2>2, FS_Subset
  <2> HIDE DEF T, F
  <2> QED BY <1>1, <1>2, <1>3, <2>1, <2>3
<1>7. BitsBefore(b, 1) = 0
  <2>1. T(1) = {} /\ F(1) = {}
    OBVIOUS
  <2>2. Cardinality(T(1)) = 0 /\ Cardinality(F(1)) = 0
    BY <2>1, FS_EmptySet
  <2> HIDE DEF T, F
  <2> QED BY <1>2, <2>2
<1> QED BY <1>4, <1>5, <1>6, <1>7

\* The items that the values before number i of a block stand for.
ItemsBefore(b, i) ==
  IF IsRegister(b) THEN (i - 1) * Words(typeOf(b))
  ELSE IF BitsBefore(b, i) < b.quantity THEN BitsBefore(b, i) ELSE b.quantity

\* The vector has the items of the values that were read.
VectInv ==
  AtStep("value") =>
    /\ Len(vect) = ItemsBefore(TheBlock, at.v)
    /\ \A j \in 1 .. Len(vect) : IsItem(TheBlock, j, vect[j])

\* All the values of a block, when reading them ends.
LEMMA AllItems ==
  ASSUME PlaceInv, SlaveTypes, VectInv, AtStep("value"), AllRead
  PROVE  Len(vect) = ItemCount(TheBlock)
<1> DEFINE b == TheBlock
           m == Len(b.values)
<1>1. Running /\ at.step = "value" /\ b \in Block
  BY HereLemma DEF AtStep, BlockSteps
<1>2. b.quantity \in Nat /\ m \in Nat /\ Words(typeOf(b)) \in Nat
  BY <1>1, BlockLemma
<1>3. at.v \in 1 .. m + 1
  BY <1>1 DEF PlaceInv, InPlace, BlockIn, EntryIn, TheBlock, TheEntry
<1>4. Len(vect) = ItemsBefore(b, at.v)
  BY DEF VectInv
<1>5. at.v = m + 1 \/ (~IsRegister(b) /\ Len(vect) >= b.quantity)
  BY <1>2, <1>3 DEF AllRead
<1> HIDE DEF b
<1>6. CASE IsRegister(b)
  <2>1. at.v = m + 1
    BY <1>5, <1>6
  <2>2. m + 1 - 1 = m
    BY <1>2
  <2> QED BY <1>4, <1>6, <2>1, <2>2 DEF ItemsBefore, ItemCount, b
<1>7. CASE ~IsRegister(b)
  <2>1. m + 1 \in 1 .. m + 1 /\ at.v \in 1 .. m + 1
    BY <1>2, <1>3
  <2>2. /\ BitsBefore(b, at.v) \in Nat /\ BitsBefore(b, m + 1) \in Nat
        /\ BitsBefore(b, at.v) <= BitsBefore(b, m + 1)
    BY <1>1, <2>1, BitsBeforeLemma
  <2>3. ItemCount(b) = IF BitsBefore(b, m + 1) < b.quantity THEN BitsBefore(b, m + 1) ELSE b.quantity
    BY <1>7 DEF ItemCount
  <2>4. Len(vect) = IF BitsBefore(b, at.v) < b.quantity THEN BitsBefore(b, at.v) ELSE b.quantity
    BY <1>4, <1>7 DEF ItemsBefore
  <2>5. Len(vect) = ItemCount(b)
    <3> HIDE DEF m
    <3> QED BY <1>2, <1>5, <2>2, <2>3, <2>4
  <2> QED BY <2>5 DEF b
<1> QED BY <1>6, <1>7

\* One sequence of words after another.
LEMMA AppendLemma ==
  ASSUME NEW v \in Seq(Word), NEW d \in Seq(Word)
  PROVE  /\ Len(v) \in Nat /\ Len(d) \in Nat /\ Len(v \o d) = Len(v) + Len(d)
         /\ \A j \in 1 .. Len(v) : (v \o d)[j] = v[j]
         /\ \A k \in 1 .. Len(d) : (v \o d)[Len(v) + k] = d[k]
OBVIOUS

\* The registers of one more value.
LEMMA MoreRegisters ==
  ASSUME NEW b \in Block, IsRegister(b), NEW i \in 1 .. Len(b.values), NEW v \in Seq(Word),
         Len(v) = ItemsBefore(b, i), \A j \in 1 .. Len(v) : IsItem(b, j, v[j])
  PROVE  LET w == v \o DataOf(b, b.values[i]) IN
         /\ Len(w) = ItemsBefore(b, i + 1)
         /\ \A j \in 1 .. Len(w) : IsItem(b, j, w[j])
<1> DEFINE n == Words(typeOf(b))
           d == DataOf(b, b.values[i])
           x == Kept(b, b.values[i])
           m == Len(b.values)
           e == endianOf(b)
<1>1. n \in Nat \ {0} /\ m \in Nat /\ i \in 1 .. m /\ e \in Endians
  BY BlockLemma
<1>2. /\ x \in Seq(Word) /\ Len(x) = n /\ d = updateRegisters(x, e)
      /\ d \in Seq(Word) /\ Len(d) = n
  BY ValueItems
<1>3. Len(v) = (i - 1) * n /\ ItemsBefore(b, i + 1) = (i + 1 - 1) * n
  BY DEF ItemsBefore
<1>4. (i + 1 - 1) * n = (i - 1) * n + n
  <2>1. n \in {1, 2, 4, 8}
    BY BlockLemma
  <2> HIDE DEF n
  <2> QED BY <1>1, <2>1
<1> HIDE DEF n, d, x, m, e
<1>5. Len(v \o d) = ItemsBefore(b, i + 1)
  <2>1. Len(v \o d) = Len(v) + n
    BY <1>2
  <2> QED BY <1>3, <1>4, <2>1
<1>6. ASSUME NEW j \in 1 .. Len(v \o d) PROVE IsItem(b, j, (v \o d)[j])
  <2>1. CASE j \in 1 .. Len(v)
    <3>1. (v \o d)[j] = v[j]
      BY <1>2, <2>1, AppendLemma
    <3> QED BY <2>1, <3>1
  <2>2. CASE j \notin 1 .. Len(v)
    <3>1. PICK k \in 1 .. n : j = (i - 1) * n + k /\ (v \o d)[j] = d[k]
      <4>1. Len(v) \in Nat /\ Len(v \o d) = Len(v) + n
        BY <1>2
      <4>2. j \in Nat /\ j > Len(v) /\ j <= Len(v) + n
        BY <1>1, <2>2, <4>1
      <4>3. j - Len(v) \in 1 .. n /\ j = Len(v) + (j - Len(v))
        BY <1>1, <4>1, <4>2
      <4>4. (v \o d)[Len(v) + (j - Len(v))] = d[j - Len(v)]
        BY <1>2, <4>3, AppendLemma
      <4> QED BY <1>3, <4>3, <4>4
    <3>2. ((j - 1) \div n) + 1 = i /\ ((j - 1) % n) + 1 = k
      BY <1>1, <3>1, PositionLemma
    <3>3. InOrder(updateRegisters(x, e)[k], x, e, k)
      BY <1>1, <1>2, RegistersInOrder
    <3>4. InOrder((v \o d)[j], x, e, k) /\ i <= m
      BY <1>1, <1>2, <3>1, <3>3
    <3> QED BY <3>2, <3>4 DEF IsItem, n, x, m, e
  <2> QED BY <2>1, <2>2
<1> QED BY <1>5, <1>6 DEF d

\* The bits of one more value.
LEMMA MoreBits ==
  ASSUME NEW b \in Block, ~IsRegister(b), NEW i \in 1 .. Len(b.values), NEW v \in Seq(Word),
         Len(v) = ItemsBefore(b, i), \A j \in 1 .. Len(v) : IsItem(b, j, v[j]),
         Len(v) < b.quantity
  PROVE  LET w == v \o BitsOf(b.values[i], b.quantity - Len(v)) IN
         /\ Len(w) = ItemsBefore(b, i + 1)
         /\ \A j \in 1 .. Len(w) : IsItem(b, j, w[j])
<1> DEFINE room == b.quantity - Len(v)
           d == BitsOf(b.values[i], room)
           n == IF ~b.values[i].text THEN 1 ELSE IF room < 8 THEN room ELSE 8
           bits == BitsBefore(b, i)
           byte == b.values[i].byte
<1>1. b.quantity \in Nat /\ Len(v) \in Nat /\ room \in Nat \ {0} /\ Len(b.values) \in Nat
  BY BlockLemma
<1>2. /\ n \in 1 .. 8 /\ d \in Seq(Word) /\ Len(d) = n
      /\ \A k \in 1 .. n : d[k] = Bit(byte, k - 1)
  BY <1>1, ValueItems
<1>3. /\ bits \in Nat
      /\ BitsBefore(b, i + 1) = bits + IF b.values[i].text THEN 8 ELSE 1
  <2>1. i \in 1 .. Len(b.values) + 1 /\ i <= Len(b.values)
    BY <1>1
  <2> QED BY <2>1, BitsBeforeLemma
<1>4. Len(v) = bits
  BY <1>1, <1>3 DEF ItemsBefore
<1>5. Len(v \o d) = ItemsBefore(b, i + 1)
  <2>1. Len(v \o d) = Len(v) + n
    BY <1>2
  <2>2. ItemsBefore(b, i + 1) =
          IF BitsBefore(b, i + 1) < b.quantity THEN BitsBefore(b, i + 1) ELSE b.quantity
    BY DEF ItemsBefore
  <2> HIDE DEF bits, d
  <2> QED BY <1>1, <1>3, <1>4, <2>1, <2>2
<1>6. n <= room /\ n <= IF b.values[i].text THEN 8 ELSE 1
  BY <1>1
<1> HIDE DEF n, d, bits, byte
<1>7. ASSUME NEW j \in 1 .. Len(v \o d) PROVE IsItem(b, j, (v \o d)[j])
  <2>1. CASE j \in 1 .. Len(v)
    <3>1. (v \o d)[j] = v[j]
      BY <1>2, <2>1, AppendLemma
    <3> QED BY <2>1, <3>1
  <2>2. CASE j \notin 1 .. Len(v)
    <3>1. PICK k \in 1 .. n : j = Len(v) + k /\ (v \o d)[j] = d[k]
      <4>1. Len(v \o d) = Len(v) + n /\ j \in Nat /\ j > Len(v)
        <5>1. Len(v) \in Nat /\ Len(v \o d) = Len(v) + n
          BY <1>2
        <5>2. n \in Nat
          BY <1>2
        <5> QED BY <2>2, <5>1, <5>2
      <4>2. j - Len(v) \in 1 .. n /\ j = Len(v) + (j - Len(v))
        BY <1>1, <1>2, <4>1
      <4>3. (v \o d)[Len(v) + (j - Len(v))] = d[j - Len(v)]
        BY <1>2, <4>2, AppendLemma
      <4> QED BY <4>2, <4>3
    <3>2. j <= b.quantity /\ j - 1 - bits = k - 1
      <4>1. k \in Nat /\ k <= room /\ n \in Nat
        BY <1>1, <1>2, <1>6
      <4> QED BY <1>1, <1>3, <1>4, <3>1, <4>1
    <3>3. 0 <= k - 1 /\ k - 1 < (IF b.values[i].text THEN 8 ELSE 1)
      BY <1>2, <1>6
    <3>4. (v \o d)[j][2] = (byte \div (2 ^ (k - 1))) % 2
      <4>1. (v \o d)[j] = Bit(byte, k - 1)
        BY <1>2, <3>1
      <4>2. Bit(byte, k - 1)[2] = (byte \div (2 ^ (k - 1))) % 2
        BY Zenon DEF Bit
      <4> QED BY <4>1, <4>2, Zenon
    <3>5. LET y == j - 1 - BitsBefore(b, i) IN
          /\ 0 <= y /\ y < (IF b.values[i].text THEN 8 ELSE 1)
          /\ (v \o d)[j][2] = (b.values[i].byte \div (2 ^ y)) % 2
      BY <3>2, <3>3, <3>4, Zenon DEF bits, byte
    <3> QED BY <3>2, <3>5, Zenon DEF IsItem
  <2> QED BY <2>1, <2>2
<1> QED BY <1>5, <1>7 DEF d

\* The values of a block are reached from setBlock and from each other only.
LEMMA NoValueStep ==
  ASSUME PlaceInv, Running, Onward(at'), at'.step = "value"
  PROVE  at.step \in {"pdu", "block", "value"}
  BY DEF Onward, Enters

\* After the last value of a block there are no items of it any more.
LEMMA ToBlockStep ==
  ASSUME PlaceInv, NEW b PROVE ToBlock(b).step # "value"
<1>1. Enters(ToSlave(at.g, at.s + 1), at.g, at.s + 1)
  BY EntersLemma
<1>2. ToSlave(at.g, at.s + 1).step # "value"
  BY <1>1 DEF Enters
<1>3. [at EXCEPT !.b = b, !.v = 1, !.step = "block"].step # "value"
  BY DEF PlaceInv, Place
<1> QED BY <1>2, <1>3 DEF ToBlock

\* Every step keeps the items of the values that were read.
LEMMA VectStep ==
  PlaceInv /\ SlaveTypes /\ VectInv /\ [ReportNext]_everything => VectInv'
<1> SUFFICES ASSUME PlaceInv, SlaveTypes, VectInv, [ReportNext]_everything,
                    ret' = "running", at'.step = "value"
             PROVE  /\ Len(vect') = ItemsBefore(TheBlock, at.v)'
                    /\ \A j \in 1 .. Len(vect') : IsItem(TheBlock, j, vect[j])'
  BY DEF VectInv, AtStep, Running
<1>1. CASE UNCHANGED <<kind, doc, at, ret, vect>>
  <2>1. AtStep("value") /\ TheBlock' = TheBlock
    BY <1>1 DEF AtStep, Running, TheBlock, TheEntry
  <2> QED BY <1>1, <2>1 DEF VectInv
<1>2. CASE SetBlock
  <2>1. Running /\ at.step = "block" /\ vect' = <<>> /\ at' = ToValues /\ doc' = doc
    BY <1>2 DEF SetBlock, AtStep, Goto
  <2>2. at' = [at EXCEPT !.v = 1, !.step = "value"]
    BY <2>1, ToBlockStep DEF ToValues
  <2>3. TheBlock' = TheBlock /\ at'.v = 1
    BY <2>1, <2>2 DEF TheBlock, TheEntry, PlaceInv, Place
  <2>4. TheBlock \in Block
    BY <2>1, HereLemma DEF BlockSteps
  <2>5. TheBlock.quantity \in Nat /\ Words(typeOf(TheBlock)) \in Nat /\ Len(TheBlock.values) \in Nat
    BY <2>4, BlockLemma
  <2>6. BitsBefore(TheBlock, 1) = 0
    <3>1. 1 \in 1 .. Len(TheBlock.values) + 1
      BY <2>5
    <3> QED BY <2>4, <3>1, BitsBeforeLemma
  <2>7. ItemsBefore(TheBlock, 1) = 0
    <3>1. (1 - 1) * Words(typeOf(TheBlock)) = 0
      BY <2>5
    <3> QED BY <2>5, <2>6, <3>1 DEF ItemsBefore
  <2>8. ItemsBefore(TheBlock, at.v)' = 0
    BY <2>3, <2>7 DEF ItemsBefore
  <2> QED BY <2>1, <2>8
<1>3. CASE ReadValue
  <2> DEFINE b == TheBlock
             d == IF IsRegister(b) THEN DataOf(b, b.values[at.v])
                  ELSE BitsOf(b.values[at.v], b.quantity - Len(vect))
  <2>1. /\ AtStep("value") /\ ~AllRead /\ vect' = vect \o d /\ doc' = doc
        /\ at' = [at EXCEPT !.v = at.v + 1]
    BY <1>3 DEF ReadValue, Goto, TheValue
  <2>2. /\ b \in Block /\ at.v \in 1 .. Len(b.values)
        /\ ~IsRegister(b) => b.quantity - Len(vect) \in Nat \ {0}
    BY <2>1, NextValue DEF SlaveTypes
  <2>3. TheBlock' = b /\ at'.v = at.v + 1
    BY <2>1 DEF TheBlock, TheEntry, PlaceInv, Place
  <2>4. /\ vect \in Seq(Word) /\ Len(vect) = ItemsBefore(b, at.v)
        /\ \A j \in 1 .. Len(vect) : IsItem(b, j, vect[j])
    BY <2>1 DEF VectInv, SlaveTypes
  <2> HIDE DEF b
  <2>5. /\ Len(vect \o d) = ItemsBefore(b, at.v + 1)
        /\ \A j \in 1 .. Len(vect \o d) : IsItem(b, j, (vect \o d)[j])
    <3>1. CASE IsRegister(b)
      BY <2>2, <2>4, <3>1, MoreRegisters
    <3>2. CASE ~IsRegister(b)
      <4>1. Len(vect) < b.quantity
        <5>1. b.quantity \in Nat /\ Len(vect) \in Nat
          BY <2>2, <2>4, BlockLemma
        <5> QED BY <2>2, <3>2, <5>1
      <4> QED BY <2>2, <2>4, <3>2, <4>1, MoreBits
    <3> QED BY <3>1, <3>2
  <2> HIDE DEF d
  <2>6. /\ ItemsBefore(TheBlock, at.v)' = ItemsBefore(b, at.v + 1)
        /\ \A j : IsItem(TheBlock, j, vect[j])' <=> IsItem(b, j, vect'[j])
    BY <2>3 DEF ItemsBefore, IsItem
  <2> QED BY <2>1, <2>5, <2>6
<1>4. CASE SetConfig
  BY <1>4, FirstPlaceLemma DEF SetConfig
<1>5. CASE SetConfigRefused
  BY <1>1, <1>5 DEF SetConfigRefused, vars
<1>6. CASE CannotOpen \/ JsonError \/ NoBackend \/ AddSlaveRefused \/ BadValue
  BY <1>6 DEF CannotOpen, JsonError, NoBackend, AddSlaveRefused, BadValue, Throw
<1>7. CASE AddMaster \/ SetBackend \/ SkipOption \/ SetSwitch \/ SetSerial \/ SetTimeout \/ AddSlave
  <2>1. /\ Running
        /\ \/ at.step = "master" /\ at' = [at EXCEPT !.step = "backend"]
           \/ at.step = "backend" /\ at' = [at EXCEPT !.step = "option"]
           \/ at.step = "option" /\ at' = AfterOption
           \/ at.step = "slave" /\ at' = [at EXCEPT !.step = "pdu"]
    BY <1>7 DEF AddMaster, SetBackend, SkipOption, SetSwitch, SetSerial, SetTimeout, AddSlave,
       AtStep, Goto
  <2>2. Onward(at') /\ at.step \notin {"pdu", "block", "value"}
    BY <2>1, OnwardLemma
  <2> QED BY <2>1, <2>2, NoValueStep
<1>8. CASE SetPduAddressing \/ WriteValues
  BY <1>8, ToBlockStep DEF SetPduAddressing, WriteValues, Goto
<1>9. ASSUME NEW g \in GroupIds, NEW key \in Timeouts, NEW a \in Times, AppSetTimeout(g, key, a)
      PROVE  UNCHANGED <<kind, doc, at, ret, vect>>
  BY <1>9 DEF AppSetTimeout
<1>10. CASE ~(Next /\ UNCHANGED objVars /\ UNCHANGED reportVars)
  BY <1>1, <1>10, OtherSteps
<1> QED BY <1>1, <1>2, <1>3, <1>4, <1>5, <1>6, <1>7, <1>8, <1>9, <1>10 DEF Next

\* So they are in every behaviour.
LEMMA VectInvariant == ReportSpec => [](ReadInv /\ VectInv)
<1>1. ReportInit => VectInv
  BY DEF ReportInit, AccessInit, Init, VectInv, AtStep, Running
<1>2. ReadInv /\ VectInv /\ [ReportNext]_everything => VectInv'
  BY VectStep DEF ReadInv, TypesInv
<1> QED BY <1>1, <1>2, ReadInvariant, PTL DEF ReportSpec

\* The items of a table after a write.
LEMMA StoredItems ==
  ASSUME NEW s \in Slave, NEW t \in Tables, NEW addr \in Int, NEW v \in Seq(Word)
  PROVE  LET old == s.table[t].items
             new == Stored(s, t, addr, v).table[t].items
             first == pduAddress(s, addr) - s.table[t].start
         IN /\ Stored(s, t, addr, v).table[t].start = s.table[t].start
            /\ new \in Seq(Word) /\ Len(new) = Len(old) /\ first \in Int
            /\ \A p \in 1 .. Len(old) :
                 new[p] = IF 0 <= first /\ first < Len(old) /\ first < p /\ p <= first + Len(v)
                          THEN v[p - first] ELSE old[p]
<1> DEFINE old == s.table[t]
           first == pduAddress(s, addr) - old.start
           w == Written(old.items, first, v)
           it == [old EXCEPT !.items = w]
<1>1. /\ DOMAIN s = {"there", "device", "pdu", "table"} /\ s.table \in [Tables -> Items]
      /\ old \in Items /\ old.items \in Seq(Word) /\ first \in Int
  BY SlaveLemma
<1>2. /\ w \in Seq(Word) /\ Len(w) = Len(old.items)
      /\ \A p \in 1 .. Len(old.items) :
           w[p] = IF first < p /\ p <= first + Len(v) THEN v[p - first] ELSE old.items[p]
  BY <1>1, WrittenLemma
<1>3. CASE ~(0 <= first /\ first < Len(old.items))
  <2>1. Stored(s, t, addr, v) = s
    BY <1>3 DEF Stored
  <2> QED BY <1>1, <1>3, <2>1
<1>4. CASE 0 <= first /\ first < Len(old.items)
  <2>1. Stored(s, t, addr, v) = [s EXCEPT !.table[t] = it]
    BY <1>4 DEF Stored
  <2>2. it.start = old.start /\ it.items = w
    BY <1>1 DEF Items
  <2> HIDE DEF it, w
  <2>3. Stored(s, t, addr, v).table[t] = it
    BY <1>1, <2>1
  <2> QED BY <1>1, <1>2, <1>4, <2>2, <2>3
<1> QED BY <1>3, <1>4

\* Only the write at the end of the values goes on from there.
LEMMA OnlyWrite ==
  ASSUME PlaceInv, [ReportNext]_everything, AtStep("value"), AllRead, at' # at
  PROVE  WriteValues
<1>1. Next
  BY OtherSteps
<1>2. Running /\ at.step = "value"
  BY DEF AtStep
<1>3. ~SetConfig /\ ~SetConfigRefused /\ ~CannotOpen
  BY <1>2 DEF SetConfig, SetConfigRefused, CannotOpen
<1>4. ~JsonError /\ ~NoBackend /\ ~AddSlaveRefused /\ ~BadValue /\ ~ReadValue
  BY DEF JsonError, NoBackend, AddSlaveRefused, BadValue, ReadValue, Throw
<1>5. ~AddMaster /\ ~SetBackend /\ ~SkipOption /\ ~SetSwitch /\ ~SetSerial /\ ~SetTimeout
  BY <1>2 DEF AddMaster, SetBackend, SkipOption, SetSwitch, SetSerial, SetTimeout, AtStep
<1>6. ~AddSlave /\ ~SetPduAddressing /\ ~SetBlock
  BY <1>2 DEF AddSlave, SetPduAddressing, SetBlock, AtStep
<1>7. \A g, key, a : ~AppSetTimeout(g, key, a)
  BY <1>2 DEF AppSetTimeout
<1> QED BY <1>1, <1>3, <1>4, <1>5, <1>6, <1>7 DEF Next

\* The step that ValuesInPlace is about.
InPlaceStep ==
  AtStep("value") /\ AllRead /\ at' # at =>
       LET b == TheBlock
           t == tableOf(b)
           old == TheSlave.table[t]
           new == slave'[TheEntry.id].table[t]
           first == FirstItem(TheSlave, b) - TooLow(TheSlave, b)
           inside == 0 <= first /\ first < Len(old.items)
       IN /\ Len(new.items) = Len(old.items)
          /\ \A p \in 1 .. Len(old.items) :
               IF inside /\ first < p /\ p <= first + ItemCount(b)
               THEN IsItem(b, p - first, new.items[p])
               ELSE new.items[p] = old.items[p]

\* The write at the end of the values is in place.
LEMMA ValuesStep ==
  ASSUME PlaceInv, SlaveTypes, VectInv, [ReportNext]_everything PROVE InPlaceStep
<1> SUFFICES ASSUME AtStep("value"), AllRead, at' # at PROVE InPlaceStep
  BY DEF InPlaceStep
<1> DEFINE b == TheBlock
           t == tableOf(b)
           s == TheSlave
           addr == ValuesAddress(s, b)
           old == s.table[t]
           new == slave'[TheEntry.id].table[t]
           first == pduAddress(s, addr) - old.start
<1>1. WriteValues
  BY OnlyWrite
<1>2. b \in Block /\ TheEntry.id \in Ids
  BY HereLemma DEF AtStep, EntrySteps, BlockSteps
<1>3. t \in Tables /\ s \in Slave /\ vect \in Seq(Word)
  BY <1>2, BlockLemma DEF TheSlave, SlaveTypes
<1>4. addr \in Int
  BY <1>2, <1>3, BlockLemma DEF ValuesAddress, dataAddress, Optional
<1>5. slave'[TheEntry.id] = Stored(s, t, addr, vect)
  BY <1>1, <1>2 DEF WriteValues, SlaveTypes, TheSlave
<1>6. Len(vect) = ItemCount(b) /\ \A j \in 1 .. Len(vect) : IsItem(b, j, vect[j])
  BY AllItems DEF VectInv
<1>7. /\ new.items \in Seq(Word) /\ Len(new.items) = Len(old.items) /\ first \in Int
      /\ \A p \in 1 .. Len(old.items) :
           new.items[p] = IF 0 <= first /\ first < Len(old.items) /\ first < p /\ p <= first + Len(vect)
                          THEN vect[p - first] ELSE old.items[p]
  <2> DEFINE z == Stored(s, t, addr, vect)
             w == z.table[t].items
             f == pduAddress(s, addr) - s.table[t].start
             o == s.table[t].items
  <2>1. /\ w \in Seq(Word) /\ Len(w) = Len(o) /\ f \in Int
        /\ \A p \in 1 .. Len(o) :
             w[p] = IF 0 <= f /\ f < Len(o) /\ f < p /\ p <= f + Len(vect)
                    THEN vect[p - f] ELSE o[p]
    <3> HIDE DEF t, s, addr
    <3> QED BY <1>3, <1>4, StoredItems
  <2>2. new.items = w /\ old.items = o /\ first = f
    <3> HIDE DEF t, s, addr
    <3> QED BY <1>5
  <2> HIDE DEF w, f, o, new, old, first
  <2> QED BY <2>1, <2>2
<1>8. old.items \in Seq(Word) /\ old.start \in Int
  BY <1>3, SlaveLemma
<1>9. FirstItem(s, b) - TooLow(s, b) = first
  <2> HIDE DEF s, b
  <2>1. CASE b.at = Absent
    BY <1>8, <2>1 DEF FirstItem, TooLow, ValuesAddress, pduAddress, dataAddress
  <2>2. CASE b.at # Absent
    BY <1>4, <1>8, <2>2 DEF FirstItem, TooLow, ValuesAddress, pduAddress
  <2> QED BY <2>1, <2>2
<1> HIDE DEF b, t, s, addr, old, new, first
<1>10. ASSUME NEW p \in 1 .. Len(old.items)
      PROVE  IF (0 <= first /\ first < Len(old.items)) /\ first < p /\ p <= first + ItemCount(b)
             THEN IsItem(b, p - first, new.items[p])
             ELSE new.items[p] = old.items[p]
  <2>1. CASE 0 <= first /\ first < Len(old.items) /\ first < p /\ p <= first + Len(vect)
    <3>1. new.items[p] = vect[p - first]
      BY <1>7, <2>1
    <3>2. p - first \in 1 .. Len(vect)
      BY <1>3, <1>7, <1>8, <2>1
    <3> QED BY <1>6, <2>1, <3>1, <3>2
  <2>2. CASE ~(0 <= first /\ first < Len(old.items) /\ first < p /\ p <= first + Len(vect))
    BY <1>6, <1>7, <2>2
  <2> QED BY <2>1, <2>2
<1> QED BY <1>7, <1>9, <1>10 DEF InPlaceStep, b, t, s, addr, old, new, first

\* For any block of any type, order and quantity, with any values: the items of its
\* values, each in its order of bytes and words, or bit by bit, are in the table from
\* "values-address" on and nothing else of the table changes; texts of signed types and
\* long doubles are zeros, and values without an address are too low by the block's start.
THEOREM ValuesInPlaceCorrect == ReportSpec => ValuesInPlace
<1>1. ReadInv /\ VectInv /\ [ReportNext]_everything => [InPlaceStep]_vars
  BY ValuesStep DEF ReadInv, TypesInv
<1>2. ReportSpec => [][InPlaceStep]_vars
  BY <1>1, VectInvariant, PTL DEF ReportSpec
<1> QED BY <1>2 DEF ValuesInPlace, InPlaceStep

-----------------------------------------------------------------------------
(* Values that were written.                                                *)

\* The write w is in its block, all of it: the registers of each of its values.
Holding(w) ==
  /\ 0 <= Offset(w.id, w.table, w.addr)
  /\ Offset(w.id, w.table, w.addr) + Len(w.data) * words <= Len(slave[w.id].table[w.table].items)
  /\ \A i \in 1 .. Len(w.data) :
       /\ Len(w.data[i].value) = words
       /\ \A k \in 1 .. words :
            Register(w.id, w.table, w.addr, (i - 1) * words + k)
              = updateRegisters(w.data[i].value, w.data[i].endian)[k]

\* The objects that were read from there have its values.
ReadAgain == \A i \in fresh : i \in 1 .. Len(kept.data) /\ obj[i].value = kept.data[i].value

\* No document is read any more when there was a write: the object has its backend.
DataInv == kept.there => ~Running /\ isValid(1) /\ Holding(kept) /\ ReadAgain

\* The types of a write.
LEMMA KeptLemma ==
  ASSUME ObjTypes, kept.there
  PROVE  /\ kept.id \in Ids /\ kept.table \in Registers /\ kept.addr \in Int
         /\ Len(kept.data) \in Nat
         /\ \A i \in 1 .. Len(kept.data) :
              kept.data[i].value \in Seq(Word) /\ kept.data[i].endian \in Endians
<1>1. kept \in Writes
  BY DEF ObjTypes, NoWrite
<1>2. /\ kept.id \in Ids /\ kept.table \in Registers /\ kept.addr \in Int
      /\ kept.data \in Seq([value : Seq(Word), endian : Endians])
  BY <1>1 DEF Writes
<1>3. \A i \in 1 .. Len(kept.data) : kept.data[i] \in [value : Seq(Word), endian : Endians]
  <2>1. \A S : \A s \in Seq(S) : \A i \in 1 .. Len(s) : s[i] \in S
    OBVIOUS
  <2> QED BY <1>2, <2>1
<1> QED BY <1>2, <1>3

\* Steps that leave the slaves and the write alone.
LEMMA DataIdle ==
  ASSUME DataInv, UNCHANGED <<ret, slave, shape, kept>>, device'[1].net = device[1].net,
         kept.there => ReadAgain'
  PROVE  DataInv'
<1> SUFFICES ASSUME kept.there PROVE (~Running /\ isValid(1) /\ Holding(kept) /\ ReadAgain)'
  BY DEF DataInv
<1>1. Holding(kept)'
  <2>1. words' = words /\ kept' = kept /\ slave' = slave
    BY DEF words
  <2>2. /\ Offset(kept.id, kept.table, kept.addr)' = Offset(kept.id, kept.table, kept.addr)
        /\ \A k : Register(kept.id, kept.table, kept.addr, k)' = Register(kept.id, kept.table, kept.addr, k)
    BY <2>1 DEF Offset, Register
  <2>3. Holding(kept)
    BY DEF DataInv
  <2> QED BY <2>1, <2>2, <2>3 DEF Holding
<1>2. (~Running)' /\ isValid(1)'
  BY DEF DataInv, Running, isValid
<1> QED BY <1>1, <1>2

\* No step of setConfig, nor a time-out, disturbs a write.
LEMMA ConfigData ==
  ASSUME DeviceTypes, DataInv, Next, UNCHANGED objVars PROVE DataInv'
<1>0. UNCHANGED <<shape, obj, kept, fresh>>
  BY DEF objVars
<1> SUFFICES ASSUME kept.there PROVE DataInv'
  BY <1>0 DEF DataInv
<1>1. ~Running /\ isValid(1) /\ ReadAgain
  BY DEF DataInv
<1>2. ReadAgain'
  BY <1>0, <1>1 DEF ReadAgain
<1>3. CASE SetConfigRefused
  <2>1. UNCHANGED <<ret, slave, device>>
    BY <1>3 DEF SetConfigRefused, vars
  <2>2. device'[1].net = device[1].net
    BY <2>1
  <2> QED BY <1>0, <1>2, <2>1, <2>2, DataIdle
<1>4. ASSUME NEW g \in GroupIds, NEW key \in Timeouts, NEW a \in Times, AppSetTimeout(g, key, a)
      PROVE  DataInv'
  <2> DEFINE t == FromSeconds(a.s, a.us)
  <2>1. /\ UNCHANGED <<ret, slave>>
        /\ device' = [device EXCEPT ![g] = WithTimeout(device[g], key, t)]
    BY <1>4 DEF AppSetTimeout
  <2>2. SameSettings(WithTimeout(device[g], key, t), device[g])
    BY FlagSettings DEF DeviceTypes
  <2>3. 1 \in GroupIds
    BY ConfigAssumption DEF GroupIds
  <2>4. device'[1].net = device[1].net
    BY <2>1, <2>2, <2>3 DEF DeviceTypes, SameSettings
  <2> QED BY <1>0, <1>2, <2>1, <2>4, DataIdle
<1>5. ~SetConfig /\ ~CannotOpen
  BY <1>1 DEF SetConfig, CannotOpen
<1>6. ~JsonError /\ ~NoBackend /\ ~AddSlaveRefused /\ ~BadValue
  BY <1>1 DEF JsonError, NoBackend, AddSlaveRefused, BadValue, AtStep
<1>7. ~AddMaster /\ ~SetBackend /\ ~SkipOption /\ ~SetSwitch /\ ~SetSerial /\ ~SetTimeout
  BY <1>1 DEF AddMaster, SetBackend, SkipOption, SetSwitch, SetSerial, SetTimeout, AtStep
<1>8. ~AddSlave /\ ~SetPduAddressing /\ ~SetBlock /\ ~ReadValue /\ ~WriteValues
  BY <1>1 DEF AddSlave, SetPduAddressing, SetBlock, ReadValue, WriteValues, AtStep
<1> QED BY <1>3, <1>4, <1>5, <1>6, <1>7, <1>8 DEF Next

\* The address of a register of an array is that of its object and its number there.
LEMMA ShiftLemma ==
  ASSUME SlaveTypes, NEW i \in Ids, NEW t \in Registers, NEW addr \in Int, NEW d \in Int, NEW k \in Int
  PROVE  Register(i, t, addr, d + k) = Register(i, t, addr + d, k)
<1>1. slave[i] \in Slave /\ t \in Tables
  BY DEF SlaveTypes, Registers, Tables
<1>2. slave[i].table[t].start \in Int
  BY <1>1, SlaveLemma
<1>3. pduAddress(slave[i], addr + d) = pduAddress(slave[i], addr) + d /\ pduAddress(slave[i], addr) \in Int
  BY DEF pduAddress
<1>4. Offset(i, t, addr) + (d + k) = Offset(i, t, addr + d) + k
  BY <1>2, <1>3 DEF Offset
<1> QED BY <1>4 DEF Register

\* An object of the same order that is read from where a value was written has it.
LEMMA ReadBack ==
  ASSUME ObjTypes, SlaveTypes, NEW k \in 1 .. Len(obj), NEW i, NEW t, NEW addr,
         SamePlace(k, i, t, addr), Holding(kept), NEW r,
         r = [w \in 1 .. words |-> Register(i, t, addr, w)]
  PROVE  k \in 1 .. Len(kept.data) /\ FromRegisters(obj[k], r).value = kept.data[k].value
<1> DEFINE v == kept.data[k].value
           e == kept.data[k].endian
           u == updateRegisters(v, e)
           d == (k - 1) * words
<1>1. /\ kept.there /\ kept.id = i /\ kept.table = t /\ k <= Len(kept.data)
      /\ addr = kept.addr + d /\ obj[k].endian = e
  BY DEF SamePlace
<1>2. k \in 1 .. Len(kept.data) /\ words \in Nat /\ Len(obj) \in Nat
  BY <1>1, KeptLemma, WordsLemma DEF ObjTypes
<1>3. d \in Int
  BY <1>2, ProductLemma
<1>4. v \in Seq(Word) /\ e \in Endians /\ Len(v) = words
  BY <1>1, <1>2, KeptLemma DEF Holding
<1>5. u \in Seq(Word) /\ Len(u) = words
  BY <1>4, RegistersLemma
<1>6. \A w \in 1 .. words : Register(kept.id, kept.table, kept.addr, d + w) = u[w]
  BY <1>2 DEF Holding
<1>7. \A w \in 1 .. words : Register(i, t, addr, w) = u[w]
  <2> HIDE DEF d, u, v, e
  <2> QED BY <1>1, <1>2, <1>3, <1>6, KeptLemma, ShiftLemma
<1>8. r = u
  <2> HIDE DEF d, u, v, e
  <2>1. u = [w \in 1 .. words |-> u[w]]
    BY <1>2, <1>5
  <2> QED BY <1>7, <2>1
<1>9. updateValue(r, e) = v
  BY <1>4, <1>8, ValueReadsBack
<1>10. FromRegisters(obj[k], r).value = updateValue(r, obj[k].endian)
  BY DEF FromRegisters, ObjTypes, Datum
<1> QED BY <1>1, <1>2, <1>9, <1>10

\* All the values of an array are in a block after they were written to it.
LEMMA WriteStep ==
  ASSUME ObjTypes, SlaveTypes, SectionInv, SlaveInv,
         NEW i \in Ids, NEW t \in Registers, NEW addr \in Int, WriteData(i, t, addr)
  PROVE  DataInv'
<1> DEFINE s == slave[i]
           old == s.table[t].items
           new == slave'[i].table[t].items
           o == Offset(i, t, addr)
           m == Len(obj)
           n == m * words
           c == Concatenated(Updated(obj))
           w == [there |-> TRUE, id |-> i, table |-> t, addr |-> addr,
                 data |-> [k \in 1 .. m |-> [value |-> obj[k].value, endian |-> obj[k].endian]]]
<1>1. /\ obj' = Updated(obj) /\ fresh' = {} /\ UNCHANGED <<ret, device, shape>>
      /\ ~Running /\ s.there
      /\ slave' = [slave EXCEPT ![i] = Stored(s, t, addr, Concatenated(obj'))]
      /\ \/ kept' = NoWrite
         \/ kept' = w /\ 0 <= o /\ o < Len(old) /\ o + n <= Len(old)
  BY DEF WriteData, Idle, Usable, InBlock
<1>2. CASE kept' = NoWrite
  BY <1>2 DEF DataInv, NoWrite
<1>3. CASE kept' = w /\ 0 <= o /\ o < Len(old) /\ o + n <= Len(old)
  <2>1. (~Running)' /\ isValid(1)'
    <3>1. ~Unread(1)
      BY <1>1 DEF SlaveInv, Blank
    <3>2. isValid(1)
      BY <3>1 DEF SectionInv
    <3> QED BY <1>1, <3>2 DEF Running, isValid
  <2>2. ReadAgain'
    BY <1>1 DEF ReadAgain
  <2>3. t \in Tables /\ s \in Slave /\ shape \in Shapes /\ words \in Nat \ {0}
    BY WordsLemma DEF SlaveTypes, ObjTypes, Registers, Tables
  <2>4. /\ m \in Nat /\ n \in Nat /\ c \in Seq(Word) /\ Len(c) = n
        /\ \A a \in 1 .. m :
             /\ Len(obj[a].value) = words
             /\ \A k \in 1 .. words :
                  /\ (a - 1) * words + k \in 1 .. n
                  /\ c[(a - 1) * words + k] = updateRegisters(obj[a].value, obj[a].endian)[k]
    <3>1. /\ m \in Nat /\ Updated(obj) \in Seq(Datum) /\ Len(Updated(obj)) = m
          /\ \A a \in 1 .. m :
               /\ Whole(Updated(obj)[a]) /\ Len(obj[a].value) = words
               /\ Updated(obj)[a] = Consistent(obj[a].value, obj[a].endian)
      BY UpdatedLemma
    <3>2. \A v, e : Consistent(v, e).registers = updateRegisters(v, e)
      BY DEF Consistent
    <3>3. PICK ds : ds = Updated(obj)
      OBVIOUS
    <3>4. /\ Concatenated(ds) \in Seq(Word)
          /\ m * words \in Nat /\ Len(Concatenated(ds)) = m * words
          /\ \A a \in 1 .. m, k \in 1 .. words :
               /\ (a - 1) * words + k \in 1 .. m * words
               /\ Concatenated(ds)[(a - 1) * words + k] = ds[a].registers[k]
      <4>1. /\ ds \in Seq(Datum) /\ Len(ds) = m /\ \A a \in 1 .. Len(ds) : Whole(ds[a])
        BY <3>1, <3>3
      <4> HIDE DEF m
      <4>2. /\ Concatenated(ds) \in Seq(Word)
            /\ Len(ds) * words \in Nat /\ Len(Concatenated(ds)) = Len(ds) * words
            /\ \A a \in 1 .. Len(ds), k \in 1 .. words :
                 /\ (a - 1) * words + k \in 1 .. Len(ds) * words
                 /\ Concatenated(ds)[(a - 1) * words + k] = ds[a].registers[k]
        BY <2>3, <4>1, ConcatenatedLemma
      <4> QED BY <4>1, <4>2
    <3>5. \A a \in 1 .. m : ds[a].registers = updateRegisters(obj[a].value, obj[a].endian)
      BY <3>1, <3>2, <3>3
    <3>6. c = Concatenated(ds) /\ n = m * words
      BY <3>3
    <3> HIDE DEF m, c, n
    <3> QED BY <3>1, <3>4, <3>5, <3>6
  <2>5. slave'[i] = Stored(s, t, addr, c)
    BY <1>1 DEF SlaveTypes
  <2>6. /\ slave'[i].table[t].start = s.table[t].start
        /\ Len(new) = Len(old) /\ o \in Int /\ old \in Seq(Word)
        /\ \A p \in 1 .. Len(old) :
             new[p] = IF 0 <= o /\ o < Len(old) /\ o < p /\ p <= o + Len(c) THEN c[p - o] ELSE old[p]
    <3>1. o = pduAddress(s, addr) - s.table[t].start /\ old \in Seq(Word)
      BY <2>3, SlaveLemma DEF Offset
    <3>2. addr \in Int /\ c \in Seq(Word) /\ Len(c) = n
      BY <2>4
    <3> DEFINE z == Stored(s, t, addr, c)
               f == pduAddress(s, addr) - s.table[t].start
    <3>3. /\ z.table[t].start = s.table[t].start
          /\ Len(z.table[t].items) = Len(old) /\ f \in Int
          /\ \A p \in 1 .. Len(old) :
               z.table[t].items[p] = IF 0 <= f /\ f < Len(old) /\ f < p /\ p <= f + Len(c)
                                     THEN c[p - f] ELSE old[p]
      <4> HIDE DEF c
      <4> QED BY <2>3, <3>2, StoredItems
    <3>4. slave'[i] = z /\ o = f
      BY <2>5, <3>1
    <3> HIDE DEF z, f, o, c
    <3> QED BY <3>1, <3>3, <3>4
  <2>7. slave'[i].pdu = s.pdu
    BY <2>3, <2>5, TableSame DEF SameSlave
  <2>8. Offset(i, t, addr)' = o
    BY <2>6, <2>7 DEF Offset, pduAddress
  <2>9. ASSUME NEW j \in 1 .. n PROVE new[o + j] = c[j]
    <3> HIDE DEF n, o, c, old, new
    <3>1. Len(old) \in Nat
      BY <2>6
    <3>2. o + j \in 1 .. Len(old) /\ o < o + j /\ o + j <= o + Len(c) /\ (o + j) - o = j
      BY <1>3, <2>4, <2>6, <3>1
    <3> QED BY <1>3, <2>6, <3>2
  <2>10. words' = words
    BY <1>1 DEF words
  <2>11. /\ w.id = i /\ w.table = t /\ w.addr = addr /\ w.there /\ Len(w.data) = m
         /\ \A k \in 1 .. m : w.data[k].value = obj[k].value /\ w.data[k].endian = obj[k].endian
    BY <2>4
  <2>12. /\ Offset(kept.id, kept.table, kept.addr)' = o
         /\ \A j \in Int : Register(kept.id, kept.table, kept.addr, j)' = new[o + j]
    <3>1. kept'.id = i /\ kept'.table = t /\ kept'.addr = addr
      BY <1>3, <2>11
    <3>2. \A a, b, d : Offset(a, b, d)' = pduAddress(slave'[a], d) - slave'[a].table[b].start
      BY DEF Offset, pduAddress
    <3>3. Offset(kept.id, kept.table, kept.addr)' = o
      BY <2>8, <3>1 DEF Offset
    <3>4. \A j \in Int : Register(kept.id, kept.table, kept.addr, j)' = new[o + j]
      BY <2>8, <3>1 DEF Offset, Register
    <3> QED BY <3>3, <3>4
  <2>13. slave'[kept'.id].table[kept'.table].items = new
    BY <1>3, <2>11
  <2> HIDE DEF w, new, old, o, c, n, m
  <2>14. ASSUME NEW a \in 1 .. m, NEW k \in 1 .. words
         PROVE  Register(kept.id, kept.table, kept.addr, (a - 1) * words + k)'
                  = updateRegisters(kept'.data[a].value, kept'.data[a].endian)[k]
    <3> DEFINE j == (a - 1) * words + k
    <3>1. j \in 1 .. n /\ c[j] = updateRegisters(obj[a].value, obj[a].endian)[k]
      BY <2>4
    <3>2. kept'.data[a].value = obj[a].value /\ kept'.data[a].endian = obj[a].endian
      BY <1>3, <2>11
    <3>3. words' = words /\ a' = a /\ k' = k
      BY <2>10
    <3>4. Register(kept.id, kept.table, kept.addr, (a - 1) * words + k)' = new[o + ((a - 1) * words + k)]
      BY <2>12, <3>1, <3>3
    <3> QED BY <2>9, <3>1, <3>2, <3>4
  <2>15. Holding(kept)'
    <3>1. Len(kept'.data) = m /\ \A a \in 1 .. m : Len(kept'.data[a].value) = words
      BY <1>3, <2>4, <2>11
    <3>2. 0 <= o /\ o + m * words <= Len(new)
      BY <1>3, <2>6 DEF n
    <3> QED BY <2>10, <2>12, <2>13, <2>14, <3>1, <3>2 DEF Holding
  <2> QED BY <2>1, <2>2, <2>15 DEF DataInv
<1> QED BY <1>1, <1>2, <1>3

\* The objects that are read from the place of the write have its values.
LEMMA ArrayRead ==
  ASSUME ObjTypes, SlaveTypes, DataInv, kept.there,
         NEW i \in Ids, NEW t \in Registers, NEW addr \in Int, ReadData(i, t, addr)
  PROVE  ReadAgain'
<1> DEFINE r(k) == [w \in 1 .. words |-> Register(i, t, addr, (k - 1) * words + w)]
<1>1. Holding(kept) /\ ReadAgain
  BY DEF DataInv
<1>2. kept' = kept
  BY DEF ReadData
<1>3. CASE UNCHANGED <<obj, fresh>>
  BY <1>1, <1>2, <1>3 DEF ReadAgain
<1>4. CASE ~UNCHANGED <<obj, fresh>>
  <2>1. /\ obj' = [k \in 1 .. Len(obj) |-> FromRegisters(obj[k], r(k))]
        /\ fresh' = {k \in 1 .. Len(obj) : SamePlace(k, i, t, addr + (k - 1) * words)}
    BY <1>4 DEF ReadData
  <2>2. words \in Nat \ {0} /\ Len(obj) \in Nat
    BY WordsLemma DEF ObjTypes
  <2>3. ASSUME NEW k \in fresh'
        PROVE  k \in 1 .. Len(kept.data) /\ obj'[k].value = kept.data[k].value
    <3> DEFINE x == r(k)
    <3>1. k \in 1 .. Len(obj) /\ SamePlace(k, i, t, addr + (k - 1) * words)
      BY <2>1
    <3>2. (k - 1) * words \in Int
      BY <2>2, <3>1, ProductLemma
    <3>3. x = [w \in 1 .. words |-> Register(i, t, addr + (k - 1) * words, w)]
      <4>1. \A w \in 1 .. words : Register(i, t, addr, (k - 1) * words + w) = Register(i, t, addr + (k - 1) * words, w)
        BY <3>2, ShiftLemma
      <4> QED BY <4>1
    <3>4. obj'[k] = FromRegisters(obj[k], x)
      BY <2>1, <3>1
    <3> HIDE DEF x
    <3> QED BY <1>1, <3>1, <3>3, <3>4, ReadBack
  <2> QED BY <1>2, <2>3 DEF ReadAgain
<1> QED BY <1>3, <1>4

\* So does a single object; one that was read in part only keeps its value.
LEMMA DatumRead ==
  ASSUME ObjTypes, SlaveTypes, DataInv, kept.there, NEW k \in 1 .. Len(obj),
         NEW i \in Ids, NEW t \in Registers, NEW addr \in Int, ReadDatum(k, i, t, addr)
  PROVE  ReadAgain'
<1> DEFINE n == Readable(i, t, addr, words)
           r == [w \in 1 .. words |->
                   IF w <= n THEN Register(i, t, addr, w) ELSE obj[k].registers[w]]
<1>1. Holding(kept) /\ ReadAgain /\ words \in Nat /\ obj \in Seq(Datum) /\ fresh \subseteq 1 .. Len(obj)
  BY WordsLemma DEF DataInv, ObjTypes
<1>2. /\ kept' = kept
      /\ obj' = [obj EXCEPT ![k] = IF n = words THEN FromRegisters(obj[k], r)
                                   ELSE [obj[k] EXCEPT !.registers = r]]
      /\ fresh' = IF n = words
                  THEN IF SamePlace(k, i, t, addr) THEN fresh \cup {k} ELSE fresh \ {k}
                  ELSE fresh
  BY DEF ReadDatum
<1>3. \A j \in fresh : j # k => obj'[j] = obj[j]
  BY <1>1, <1>2
<1>4. CASE n # words
  <2> HIDE DEF r, n
  <2>1. obj'[k] = [obj[k] EXCEPT !.registers = r] /\ fresh' = fresh
    BY <1>1, <1>2, <1>4
  <2>2. obj'[k].value = obj[k].value
    BY <1>1, <2>1 DEF Datum
  <2>3. \A j \in fresh : obj'[j].value = obj[j].value
    BY <1>3, <2>2
  <2> QED BY <1>1, <1>2, <2>1, <2>3 DEF ReadAgain
<1>5. CASE n = words /\ SamePlace(k, i, t, addr)
  <2>1. obj'[k] = FromRegisters(obj[k], r) /\ fresh' = fresh \cup {k}
    BY <1>1, <1>2, <1>5
  <2>2. r = [w \in 1 .. words |-> Register(i, t, addr, w)]
    <3> HIDE DEF n
    <3> QED BY <1>1, <1>5
  <2> HIDE DEF r
  <2>3. k \in 1 .. Len(kept.data) /\ obj'[k].value = kept.data[k].value
    BY <1>1, <1>5, <2>1, <2>2, ReadBack
  <2> QED BY <1>1, <1>2, <1>3, <2>1, <2>3 DEF ReadAgain
<1>6. CASE n = words /\ ~SamePlace(k, i, t, addr)
  <2>1. fresh' = fresh \ {k}
    BY <1>2, <1>6
  <2> QED BY <1>1, <1>2, <1>3, <2>1 DEF ReadAgain
<1> QED BY <1>4, <1>5, <1>6

\* Every step of the application keeps what is known of the last write.
LEMMA AccessData ==
  ASSUME ObjTypes, SlaveTypes, SectionInv, SlaveInv, DataInv, AccessStep PROVE DataInv'
<1>1. ASSUME UNCHANGED <<slave, shape, kept>>, kept.there => ReadAgain' PROVE DataInv'
  <2>1. UNCHANGED <<ret, device>>
    BY AccessIdle DEF Idle
  <2> QED BY <1>1, <2>1, DataIdle
<1>2. kept.there => ReadAgain /\ fresh \subseteq 1 .. Len(obj)
  BY DEF DataInv, ObjTypes
<1>3. obj \in Seq(Datum)
  BY DEF ObjTypes
<1>4. ASSUME NEW e \in shape.orders, NewData(e) PROVE DataInv'
  BY <1>1, <1>4 DEF NewData, ReadAgain
<1>5. ASSUME NEW i \in 1 .. Len(obj), NEW v \in Samples, Assign(i, v) \/ AssignByReference(i, v)
      PROVE  DataInv'
  <2>1. PICK d : /\ obj' = [obj EXCEPT ![i] = d] /\ fresh' = fresh \ {i}
                 /\ UNCHANGED <<slave, shape, kept>>
    BY <1>5 DEF Assign, AssignByReference
  <2>2. kept.there => \A j \in fresh \ {i} : obj'[j] = obj[j]
    BY <1>2, <1>3, <2>1
  <2> QED BY <1>1, <1>2, <2>1, <2>2 DEF ReadAgain
<1>6. ASSUME NEW i \in 1 .. Len(obj), NEW e \in shape.orders, SetEndianness(i, e) PROVE DataInv'
  <2>1. /\ obj' = [obj EXCEPT ![i] = Consistent(obj[i].value, e)]
        /\ UNCHANGED <<slave, shape, kept, fresh>>
    BY <1>6 DEF SetEndianness
  <2>2. \A v : Consistent(v, e).value = v
    BY DEF Consistent
  <2>3. kept.there => \A j \in fresh : obj'[j].value = obj[j].value
    BY <1>2, <1>3, <2>1, <2>2
  <2> QED BY <1>1, <1>2, <2>1, <2>3 DEF ReadAgain
<1>7. ASSUME NEW i \in Ids, NEW t \in Registers, NEW addr \in Addresses(i, t),
             WriteData(i, t, addr) \/ ReadData(i, t, addr)
                \/ \E k \in 1 .. Len(obj) : ReadDatum(k, i, t, addr)
      PROVE  DataInv'
  <2>1. addr \in Int
    BY AddressesLemma
  <2>2. CASE WriteData(i, t, addr)
    BY <2>1, <2>2, WriteStep
  <2>3. CASE ReadData(i, t, addr)
    <3>1. UNCHANGED <<slave, shape, kept>>
      BY <2>3 DEF ReadData
    <3> QED BY <1>1, <2>1, <2>3, <3>1, ArrayRead
  <2>4. ASSUME NEW k \in 1 .. Len(obj), ReadDatum(k, i, t, addr) PROVE DataInv'
    <3>1. UNCHANGED <<slave, shape, kept>>
      BY <2>4 DEF ReadDatum
    <3> QED BY <1>1, <2>1, <2>4, <3>1, DatumRead
  <2> QED BY <1>7, <2>2, <2>3, <2>4
<1> QED BY <1>4, <1>5, <1>6, <1>7 DEF AccessStep

\* So does every step.
LEMMA DataStep == ReadInv /\ DataInv /\ [ReportNext]_everything => DataInv'
<1> SUFFICES ASSUME ReadInv, DataInv, [ReportNext]_everything PROVE DataInv'
  OBVIOUS
<1>1. DeviceTypes /\ SlaveTypes /\ ObjTypes /\ SectionInv /\ SlaveInv
  BY DEF ReadInv, TypesInv
<1>2. CASE Next /\ UNCHANGED objVars
  BY <1>1, <1>2, ConfigData
<1>3. CASE AccessStep
  BY <1>1, <1>3, AccessData
<1>4. CASE UNCHANGED <<ret, device, slave>> /\ UNCHANGED objVars
  <2>1. UNCHANGED <<ret, slave, shape, kept>> /\ UNCHANGED <<obj, fresh>>
    BY <1>4 DEF objVars
  <2>2. device'[1].net = device[1].net
    BY <1>4
  <2>3. kept.there => ReadAgain'
    BY <2>1 DEF DataInv, ReadAgain
  <2> QED BY <2>1, <2>2, <2>3, DataIdle
<1>5. CASE ReportStep
  <2>1. UNCHANGED <<ret, device, slave>> /\ UNCHANGED objVars
    BY <1>5 DEF ReportStep, OpenClose, AskFails, AskClosed, AskReport, ServeReport, AppIdle
  <2> QED BY <1>4, <2>1
<1>6. CASE UNCHANGED everything
  BY <1>4, <1>6 DEF everything, objVars
<1> QED BY <1>2, <1>3, <1>5, <1>6 DEF ReportNext, AccessNext

\* Values of any size and order that were written to the registers of a slave, at any
\* address where they fit, are there in their order of bytes and words until the next
\* write, and every object of that order that is read from there has the value again,
\* whatever its registers were, one by one or as an array.
THEOREM DataReadsBackCorrect == ReportSpec => []DataReadsBack
<1>1. ReportInit => DataInv
  BY DEF ReportInit, AccessInit, NoWrite, DataInv
<1>2. ReadInv /\ DataInv => DataReadsBack
  <2> SUFFICES ASSUME ReadInv, DataInv, kept.there
               PROVE  /\ \A i \in 1 .. Len(kept.data), k \in 1 .. words :
                           InOrder(Register(kept.id, kept.table, kept.addr, (i - 1) * words + k),
                                   kept.data[i].value, kept.data[i].endian, k)
                      /\ \A i \in fresh : obj[i].value = kept.data[i].value
    BY DEF DataReadsBack
  <2>1. Holding(kept) /\ ReadAgain /\ ObjTypes
    BY DEF DataInv, ReadInv, TypesInv
  <2>2. ASSUME NEW i \in 1 .. Len(kept.data), NEW k \in 1 .. words
        PROVE  InOrder(Register(kept.id, kept.table, kept.addr, (i - 1) * words + k),
                       kept.data[i].value, kept.data[i].endian, k)
    <3>1. kept.data[i].value \in Seq(Word) /\ kept.data[i].endian \in Endians
      BY <2>1, KeptLemma
    <3>2. /\ Len(kept.data[i].value) = words
          /\ Register(kept.id, kept.table, kept.addr, (i - 1) * words + k)
               = updateRegisters(kept.data[i].value, kept.data[i].endian)[k]
      BY <2>1 DEF Holding
    <3> QED BY <3>1, <3>2, RegistersInOrder
  <2> QED BY <2>1, <2>2 DEF ReadAgain
<1> QED BY <1>1, <1>2, DataStep, ReadInvariant, PTL DEF ReportSpec
=============================================================================
