---------------------------- MODULE FrameProofs ----------------------------
(***************************************************************************)
(* Theorems about Frame, for buffers of any length, any indexes and        *)
(* values, and about crc16, for messages of any length.                    *)
(***************************************************************************)
EXTENDS Frame, WellFoundedInduction, TLAPS

-----------------------------------------------------------------------------
(* Bits and bytes.                                                          *)

\* A bit that is set in a byte leaves a byte, reads as it was set, and leaves the other
\* bits of the byte.
LEMMA BitLemma ==
  ASSUME NEW b \in Byte, NEW k \in 0 .. 7, NEW v \in {0, 1}
  PROVE  /\ WithBit(b, k, v) \in Byte
         /\ BitOf(WithBit(b, k, v), k) = v
         /\ \A j \in 0 .. 7 : j # k => BitOf(WithBit(b, k, v), j) = BitOf(b, j)
<1> DEFINE w(p) == b + (v - ((b \div p) % 2)) * p
           Keeps(p, q) == (w(p) \div q) % 2 = (b \div q) % 2
           Good(p) == /\ w(p) \in Byte
                      /\ (w(p) \div p) % 2 = v
                      /\ p # 1 => Keeps(p, 1)
                      /\ p # 2 => Keeps(p, 2)
                      /\ p # 4 => Keeps(p, 4)
                      /\ p # 8 => Keeps(p, 8)
                      /\ p # 16 => Keeps(p, 16)
                      /\ p # 32 => Keeps(p, 32)
                      /\ p # 64 => Keeps(p, 64)
                      /\ p # 128 => Keeps(p, 128)
<1>1. Good(1)
  BY SMTT(60) DEF Byte
<1>2. Good(2)
  BY SMTT(60) DEF Byte
<1>3. Good(4)
  BY SMTT(60) DEF Byte
<1>4. Good(8)
  BY SMTT(60) DEF Byte
<1>5. Good(16)
  BY SMTT(60) DEF Byte
<1>6. Good(32)
  BY SMTT(60) DEF Byte
<1>7. Good(64)
  BY SMTT(60) DEF Byte
<1>8. Good(128)
  BY SMTT(60) DEF Byte
<1>9. \A j \in 0 .. 7 : Power[j] \in {1, 2, 4, 8, 16, 32, 64, 128}
  BY DEF Power
<1>10. \A j \in 0 .. 7 : j # k => Power[j] # Power[k]
  BY DEF Power
<1> HIDE DEF Good
<1>11. Good(Power[k])
  BY <1>1, <1>2, <1>3, <1>4, <1>5, <1>6, <1>7, <1>8, <1>9
<1>12. \A j \in 0 .. 7 : j # k => Keeps(Power[k], Power[j])
  BY <1>9, <1>10, <1>11 DEF Good
<1> QED
  BY <1>11, <1>12 DEF Good, WithBit, BitOf

\* A word is its high byte and its low byte.
LEMMA WordLemma ==
  ASSUME NEW v \in Uint16
  PROVE  /\ v \div 256 \in Byte /\ v % 256 \in Byte
         /\ (v \div 256) * 256 + (v % 256) = v
BY SMTT(30) DEF Uint16, Byte

\* What a word is.
LEMMA WordRange == \A x \in Nat : x <= 65535 <=> x \in Uint16
BY DEF Uint16

\* What is a word, and what is a byte.
LEMMA WordFacts ==
  /\ \A x \in Nat : x <= 65535 <=> x \in Uint16
  /\ \A x \in Byte : x \in Uint16
  /\ \A x \in Nat : x % 65536 \in Uint16
  /\ 0 \in Uint16 /\ 1 \in Uint16 /\ 255 \in Uint16 /\ 0 \in Byte /\ 255 \in Byte
  /\ Uint16 \subseteq Nat
<1>1. \A x \in Nat : x <= 65535 <=> x \in Uint16
  BY WordRange
<1>2. ASSUME NEW x \in Nat PROVE x % 65536 \in Uint16
  <2>1. x % 65536 \in Nat /\ x % 65536 <= 65535
    BY SMTT(30)
  <2> QED BY <1>1, <2>1
<1>3. \A x \in Byte : x \in Nat /\ x <= 65535
  BY DEF Byte
<1>4. 0 \in Byte /\ 255 \in Byte
  BY DEF Byte
<1>5. Uint16 \subseteq Nat
  BY DEF Uint16
<1> QED BY <1>1, <1>2, <1>3, <1>4, <1>5

-----------------------------------------------------------------------------
(* The exclusive or.                                                        *)

\* A bit of an exclusive or is set or not.
LEMMA XorBitType ==
  ASSUME NEW a \in Nat, NEW b \in Nat, NEW p \in Nat \ {0}
  PROVE XorBit(a, b, p) \in {0, p}
BY SMTT(30) DEF XorBit

\* The exclusive or of two bytes is a byte.
LEMMA Xor8Type ==
  ASSUME NEW a \in Byte, NEW b \in Byte
  PROVE  Xor8(a, b) \in Byte
<1>1. \A p \in Nat \ {0} : XorBit(a, b, p) \in {0, p}
  BY XorBitType DEF Byte
<1> QED
  BY <1>1 DEF Xor8, Byte

\* Nothing changes a byte.
LEMMA Xor8Zero ==
  ASSUME NEW a \in Byte
  PROVE  Xor8(a, 0) = a /\ Xor8(0, a) = a
BY SMTT(60) DEF Xor8, XorBit, Byte

\* The parts of a word of two bytes.
LEMMA WordParts ==
  \A h, l \in Byte : (256 * h + l) \div 256 = h /\ (256 * h + l) % 256 = l
BY SMTT(30) DEF Byte

\* The exclusive or of two words is that of their bytes.
LEMMA Xor16Parts ==
  ASSUME NEW h \in Byte, NEW l \in Byte, NEW i \in Byte, NEW j \in Byte,
         NEW a, NEW b, a = 256 * h + l, b = 256 * i + j
  PROVE  Xor16(a, b) = Xor8(h, i) * 256 + Xor8(l, j)
<1>1. a \div 256 = h /\ a % 256 = l /\ b \div 256 = i /\ b % 256 = j
  BY WordParts
<1> QED
  BY <1>1, Zenon DEF Xor16

LEMMA DivisionLemma == \A x \in Nat : x = 256 * (x \div 256) + (x % 256)
BY SMTT(30)

\* A word is two bytes; its bits are theirs.
LEMMA ByteParts ==
  ASSUME NEW x \in Nat, x <= 65535
  PROVE  /\ x \div 256 \in Byte /\ x % 256 \in Byte
         /\ x = 256 * (x \div 256) + (x % 256)
         /\ x <= 32767 => x \div 256 \in 0 .. 127
         /\ ((x \div 256) \div 32) % 2 = (x \div 8192) % 2
         /\ (x % 256) % 2 = x % 2
<1>1. x \div 256 \in Nat /\ x \div 256 <= 255 /\ x % 256 \in 0 .. 255
  BY SMTT(30)
<1>5. x <= 32767 => x \div 256 <= 127
  BY SMTT(30)
<1>2. x = 256 * (x \div 256) + (x % 256)
  BY DivisionLemma
<1>3. ((x \div 256) \div 32) % 2 = (x \div 8192) % 2
  BY SMTT(30)
<1>4. (x % 256) % 2 = x % 2
  BY SMTT(30)
<1> QED BY <1>1, <1>2, <1>3, <1>4, <1>5 DEF Byte

-----------------------------------------------------------------------------
(* The division of the CRC, without an exclusive or.                        *)

\* Numbers of seven and of fifteen bits.
Bits7 == 0 .. 127
Bits15 == {x \in Nat : x <= 32767}

\* The exclusive or with the high byte, the low byte and the whole of the polynomial.
WithHi(x) == x + 128 + (IF (x \div 32) % 2 = 1 THEN -32 ELSE 32)
WithLo(x) == x + (IF x % 2 = 1 THEN -1 ELSE 1)
WithPolynomial(x) ==
  x + 32768 + (IF (x \div 8192) % 2 = 1 THEN -8192 ELSE 8192) + (IF x % 2 = 1 THEN -1 ELSE 1)

LEMMA XorPolynomial ==
  /\ \A x \in Bits7 : Xor8(x, 160) = WithHi(x)
  /\ \A x \in Byte : Xor8(x, 1) = WithLo(x)
<1>1. ASSUME NEW x \in Bits7
      PROVE Xor8(x, 160) = WithHi(x)
  BY SMTT(60) DEF Xor8, XorBit, Bits7, WithHi
<1>2. ASSUME NEW x \in Byte
      PROVE Xor8(x, 1) = WithLo(x)
  BY SMTT(60) DEF Xor8, XorBit, Byte, WithLo
<1> QED BY <1>1, <1>2

\* That is what they are.
LEMMA ShiftedValue ==
  ASSUME NEW x \in Bits15
  PROVE  Xor16(x, 40961) = WithPolynomial(x)
<1> DEFINE h == x \div 256
           l == x % 256
<1>0. x \in Nat /\ x <= 32767
  BY DEF Bits15
<1>1. /\ h \in 0 .. 127 /\ h \in Byte /\ l \in Byte /\ x = 256 * h + l
      /\ (h \div 32) % 2 = (x \div 8192) % 2 /\ l % 2 = x % 2
  BY <1>0, ByteParts
<1>2. 40961 \div 256 = 160 /\ 40961 % 256 = 1
  BY SMTT(30)
<1>3. Xor16(x, 40961) = Xor8(h, 160) * 256 + Xor8(l, 1)
  BY <1>2 DEF Xor16
<1> HIDE DEF h, l
<1>4. h \in Bits7
  BY <1>1 DEF Bits7
<1>5. Xor8(h, 160) = WithHi(h) /\ Xor8(l, 1) = WithLo(l)
  BY <1>1, <1>4, XorPolynomial
<1>6. h \in Nat /\ l \in Nat
  BY <1>1 DEF Byte
<1>7. WithHi(h) = h + 128 + (IF (x \div 8192) % 2 = 1 THEN -32 ELSE 32)
  BY <1>1 DEF WithHi
<1>8. WithLo(l) = l + (IF x % 2 = 1 THEN -1 ELSE 1)
  BY <1>1 DEF WithLo
<1> QED
  BY <1>1, <1>3, <1>5, <1>6, <1>7, <1>8 DEF WithPolynomial

\* One step of the division, two and eight of them.
Folded(x) ==
  (x \div 2) + (x % 2) * (40961 - 16384 * ((x \div 16384) % 2) - 2 * ((x \div 2) % 2))
Folded2(x) == Folded(Folded(x))
Folded8(x) == Folded2(Folded2(Folded2(Folded2(x))))

\* They are the steps of the division, from words to words.
LEMMA FoldedLemma == \A x \in Uint16 : Shifted(x) = Folded(x) /\ Folded(x) \in Uint16
<1> SUFFICES ASSUME NEW x \in Uint16 PROVE Shifted(x) = Folded(x) /\ Folded(x) \in Uint16
  OBVIOUS
<1> DEFINE y == x \div 2
<1>1. x \in Nat /\ x <= 65535
  BY DEF Uint16
<1>2. y \in Bits15
  <2>1. y \in Nat /\ y <= 32767
    BY <1>1, SMTT(30)
  <2> HIDE DEF y
  <2> QED BY <2>1 DEF Bits15
<1>3. x % 2 \in {0, 1} /\ y % 2 \in {0, 1} /\ (y \div 8192) % 2 \in {0, 1}
  BY <1>1, SMTT(30)
<1>4. (x \div 16384) % 2 = (y \div 8192) % 2
  BY <1>1, SMTT(30)
<1>5. Xor16(y, 40961) = WithPolynomial(y)
  BY <1>2, ShiftedValue
<1>6. Shifted(x) = IF x % 2 = 1 THEN WithPolynomial(y) ELSE y
  <2>1. CASE x % 2 = 1
    BY <1>5, <2>1 DEF Shifted
  <2>2. CASE x % 2 # 1
    BY <2>2 DEF Shifted
  <2> QED BY <2>1, <2>2
<1>7. Folded(x) = y + (x % 2) * (40961 - 16384 * ((y \div 8192) % 2) - 2 * (y % 2))
  BY <1>4 DEF Folded
<1> HIDE DEF y
<1>8. y \in Nat /\ y <= 32767
  BY <1>2 DEF Bits15
<1>9. CASE x % 2 = 0
  <2>1. Folded(x) = y
    BY <1>3, <1>7, <1>8, <1>9
  <2>2. Folded(x) \in Uint16
    BY <1>8, <2>1, WordRange
  <2>3. Shifted(x) = y
    BY <1>6, <1>9
  <2> QED BY <2>1, <2>2, <2>3
<1>10. CASE x % 2 = 1
  <2>1. Folded(x) = y + 40961 - 16384 * ((y \div 8192) % 2) - 2 * (y % 2)
    BY <1>3, <1>7, <1>8, <1>10
  <2>2. Folded(x) \in Nat /\ Folded(x) <= 65535
    <3>1. (y \div 8192) % 2 = 0 => y <= 24575
      BY <1>8, SMTT(30)
    <3> QED BY <1>3, <1>8, <2>1, <3>1, SMTT(30)
  <2>3. WithPolynomial(y) = Folded(x)
    BY <1>3, <1>8, <2>1 DEF WithPolynomial
  <2>4. Folded(x) \in Uint16
    BY <2>2, WordRange
  <2>5. Shifted(x) = WithPolynomial(y)
    BY <1>6, <1>10
  <2> QED BY <2>3, <2>4, <2>5
<1> QED BY <1>3, <1>9, <1>10

-----------------------------------------------------------------------------
(* Recursive functions.                                                     *)

\* Induction: a set of naturals that has 0, and with a number the next, has all. The
\* library's theorem on minimal elements of a well founded relation gives it.
LEMMA SetInduction ==
  ASSUME NEW S, S \subseteq Nat, 0 \in S, \A n \in S : n + 1 \in S
  PROVE  \A n \in Nat : n \in S
<1> DEFINE T == Nat \ S
           R == OpToRel(<, Nat)
<1>1. IsWellFoundedOn(R, Nat)
  BY NatLessThanWellFounded
<1>2. \A x, y \in Nat : <<x, y>> \in R <=> x < y
  BY DEF OpToRel
<1>3. SUFFICES ASSUME T # {} PROVE FALSE
  OBVIOUS
<1> HIDE DEF R
<1>4. PICK x \in T : \A y \in T : ~ (<<y, x>> \in R)
  BY <1>1, <1>3, WFMin
<1>5. x \in Nat /\ x # 0
  OBVIOUS
<1>6. x - 1 \in Nat /\ x - 1 < x /\ x = (x - 1) + 1
  BY <1>5
<1>7. x - 1 \notin T
  BY <1>2, <1>4, <1>5, <1>6
<1> QED
  BY <1>5, <1>6, <1>7

\* Functions that are applied one after the other, and what they make of a first value.
AreSteps(step, T, L) == \A n \in 1 .. L : step[n] \in [T -> T]
IsRun(f, T, L, first, step) ==
  /\ f \in [0 .. L -> T]
  /\ f[0] = first
  /\ \A n \in 1 .. L : f[n] = step[n][f[n - 1]]

\* A function that is defined by recursion over the first L numbers exists.
LEMMA RecursionLemma ==
  ASSUME NEW T, NEW first \in T, NEW L \in Nat, NEW step, AreSteps(step, T, L)
  PROVE  \E f : IsRun(f, T, L, first, step)
<1> DEFINE Good(m, f) == /\ f \in [0 .. m -> T]
                         /\ f[0] = first
                         /\ \A n \in 1 .. m : f[n] = step[n][f[n - 1]]
           S == {m \in Nat : m <= L => \E f : Good(m, f)}
<1>1. 0 \in S
  <2> DEFINE f == [n \in 0 .. 0 |-> first]
  <2>1. f \in [0 .. 0 -> T] /\ f[0] = first
    OBVIOUS
  <2>2. 1 .. 0 = {}
    OBVIOUS
  <2> HIDE DEF f
  <2>3. Good(0, f)
    BY <2>1, <2>2
  <2> QED BY <2>3
<1>2. ASSUME NEW m \in Nat, m + 1 <= L, NEW f, Good(m, f) PROVE \E h : Good(m + 1, h)
  <2>1. m <= L /\ m + 1 \in 1 .. L
    BY <1>2
  <2>2. Good(m, f)
    BY <1>2
  <2> DEFINE g == [n \in 0 .. m + 1 |-> IF n = m + 1 THEN step[m + 1][f[m]] ELSE f[n]]
  <2>3. g \in [0 .. m + 1 -> T]
    <3>1. step[m + 1][f[m]] \in T
      BY <2>1, <2>2 DEF AreSteps
    <3> QED BY <2>2, <3>1
  <2>4. g[0] = first
    BY <2>1, <2>2
  <2>5. ASSUME NEW n \in 1 .. m + 1 PROVE g[n] = step[n][g[n - 1]]
    <3>1. n - 1 \in 0 .. m /\ g[n - 1] = f[n - 1]
      BY <2>1
    <3>2. CASE n = m + 1
      BY <2>1, <3>1, <3>2
    <3>3. CASE n # m + 1
      BY <2>1, <2>2, <3>1, <3>3
    <3> QED BY <3>2, <3>3
  <2>6. Good(m + 1, g)
    BY <2>3, <2>4, <2>5
  <2> QED BY <2>6
<1> HIDE DEF Good
<1>3. \A m \in S : m + 1 \in S
  BY <1>2
<1> HIDE DEF S
<1>4. \A m \in Nat : m \in S
  <2>1. S \subseteq Nat
    BY DEF S
  <2> QED BY <1>1, <1>3, <2>1, SetInduction
<1>5. PICK f : Good(L, f)
  BY <1>4 DEF S
<1>6. IsRun(f, T, L, first, step)
  BY <1>5 DEF Good, IsRun
<1> QED
  BY <1>6

-----------------------------------------------------------------------------
(* The tables.                                                              *)

\* Byte b becomes x, y, z and the word of two bytes, two steps at a time.
Steps(b, x, y, z, lo, hi) ==
  /\ Folded2(b) = x /\ Folded2(x) = y /\ Folded2(y) = z
  /\ Folded2(z) = lo * 256 + hi

\* The bytes that the tables have at i.
Entry(i, lo, hi) ==
  CrcLoTable[i] = lo /\ CrcHiTable[i] = hi /\ lo \in 0 .. 255 /\ hi \in 0 .. 255

\* What the tables have for b is what the division leaves of b.
TableAgrees(b) ==
  /\ Folded8(b) = CrcLoTable[b + 1] * 256 + CrcHiTable[b + 1]
  /\ CrcLoTable[b + 1] \in Byte /\ CrcHiTable[b + 1] \in Byte

LEMMA EntryLemma ==
  ASSUME NEW b, NEW x, NEW y, NEW z, NEW lo, NEW hi,
         Steps(b, x, y, z, lo, hi), Entry(b + 1, lo, hi)
  PROVE  TableAgrees(b)
BY DEF Steps, Entry, TableAgrees, Folded8, Byte

\* So it is for every byte: RtuLayer's tables, entry by entry.
LEMMA TableLemma == \A b \in Byte : TableAgrees(b)
<1>1. \A b \in 0 .. 15 : TableAgrees(b)
  <2>1. /\ Steps(0, 0, 0, 0, 0, 0) /\ Steps(1, 61441, 52225, 49921, 192, 193)
        /\ Steps(2, 40961, 55297, 50689, 193, 129) /\ Steps(3, 20480, 5120, 1280, 1, 64)
        /\ Steps(4, 1, 61441, 52225, 195, 1) /\ Steps(5, 61440, 15360, 3840, 3, 192)
        /\ Steps(6, 40960, 10240, 2560, 2, 128) /\ Steps(7, 20481, 58369, 51457, 194, 65)
        /\ Steps(8, 2, 40961, 55297, 198, 1) /\ Steps(9, 61443, 27648, 6912, 6, 192)
        /\ Steps(10, 40963, 30720, 7680, 7, 128) /\ Steps(11, 20482, 46081, 56577, 199, 65)
        /\ Steps(12, 3, 20480, 5120, 5, 0) /\ Steps(13, 61442, 39937, 55041, 197, 193)
        /\ Steps(14, 40962, 34817, 53761, 196, 129) /\ Steps(15, 20483, 17408, 4352, 4, 64)
    BY DEF Steps, Folded, Folded2
  <2>2. /\ Entry(1, 0, 0) /\ Entry(2, 192, 193) /\ Entry(3, 193, 129) /\ Entry(4, 1, 64)
        /\ Entry(5, 195, 1) /\ Entry(6, 3, 192) /\ Entry(7, 2, 128) /\ Entry(8, 194, 65)
        /\ Entry(9, 198, 1) /\ Entry(10, 6, 192) /\ Entry(11, 7, 128) /\ Entry(12, 199, 65)
        /\ Entry(13, 5, 0) /\ Entry(14, 197, 193) /\ Entry(15, 196, 129) /\ Entry(16, 4, 64)
    BY DEF Entry, CrcHiTable, CrcLoTable
  <2> QED
    BY <2>1, <2>2, EntryLemma
<1>2. \A b \in 16 .. 31 : TableAgrees(b)
  <2>1. /\ Steps(16, 4, 1, 61441, 204, 1) /\ Steps(17, 61445, 52224, 13056, 12, 192)
        /\ Steps(18, 40965, 55296, 13824, 13, 128) /\ Steps(19, 20484, 5121, 62721, 205, 65)
        /\ Steps(20, 5, 61440, 15360, 15, 0) /\ Steps(21, 61444, 15361, 65281, 207, 193)
        /\ Steps(22, 40964, 10241, 64001, 206, 129) /\ Steps(23, 20485, 58368, 14592, 14, 64)
        /\ Steps(24, 6, 40960, 10240, 10, 0) /\ Steps(25, 61447, 27649, 60161, 202, 193)
        /\ Steps(26, 40967, 30721, 60929, 203, 129) /\ Steps(27, 20486, 46080, 11520, 11, 64)
        /\ Steps(28, 7, 20481, 58369, 201, 1) /\ Steps(29, 61446, 39936, 9984, 9, 192)
        /\ Steps(30, 40966, 34816, 8704, 8, 128) /\ Steps(31, 20487, 17409, 57601, 200, 65)
    BY DEF Steps, Folded, Folded2
  <2>2. /\ Entry(17, 204, 1) /\ Entry(18, 12, 192) /\ Entry(19, 13, 128) /\ Entry(20, 205, 65)
        /\ Entry(21, 15, 0) /\ Entry(22, 207, 193) /\ Entry(23, 206, 129) /\ Entry(24, 14, 64)
        /\ Entry(25, 10, 0) /\ Entry(26, 202, 193) /\ Entry(27, 203, 129) /\ Entry(28, 11, 64)
        /\ Entry(29, 201, 1) /\ Entry(30, 9, 192) /\ Entry(31, 8, 128) /\ Entry(32, 200, 65)
    BY DEF Entry, CrcHiTable, CrcLoTable
  <2> QED
    BY <2>1, <2>2, EntryLemma
<1>3. \A b \in 32 .. 47 : TableAgrees(b)
  <2>1. /\ Steps(32, 8, 2, 40961, 216, 1) /\ Steps(33, 61449, 52227, 25344, 24, 192)
        /\ Steps(34, 40969, 55299, 26112, 25, 128) /\ Steps(35, 20488, 5122, 42241, 217, 65)
        /\ Steps(36, 9, 61443, 27648, 27, 0) /\ Steps(37, 61448, 15362, 44801, 219, 193)
        /\ Steps(38, 40968, 10242, 43521, 218, 129) /\ Steps(39, 20489, 58371, 26880, 26, 64)
        /\ Steps(40, 10, 40963, 30720, 30, 0) /\ Steps(41, 61451, 27650, 47873, 222, 193)
        /\ Steps(42, 40971, 30722, 48641, 223, 129) /\ Steps(43, 20490, 46083, 32000, 31, 64)
        /\ Steps(44, 11, 20482, 46081, 221, 1) /\ Steps(45, 61450, 39939, 30464, 29, 192)
        /\ Steps(46, 40970, 34819, 29184, 28, 128) /\ Steps(47, 20491, 17410, 45313, 220, 65)
    BY DEF Steps, Folded, Folded2
  <2>2. /\ Entry(33, 216, 1) /\ Entry(34, 24, 192) /\ Entry(35, 25, 128) /\ Entry(36, 217, 65)
        /\ Entry(37, 27, 0) /\ Entry(38, 219, 193) /\ Entry(39, 218, 129) /\ Entry(40, 26, 64)
        /\ Entry(41, 30, 0) /\ Entry(42, 222, 193) /\ Entry(43, 223, 129) /\ Entry(44, 31, 64)
        /\ Entry(45, 221, 1) /\ Entry(46, 29, 192) /\ Entry(47, 28, 128) /\ Entry(48, 220, 65)
    BY DEF Entry, CrcHiTable, CrcLoTable
  <2> QED
    BY <2>1, <2>2, EntryLemma
<1>4. \A b \in 48 .. 63 : TableAgrees(b)
  <2>1. /\ Steps(48, 12, 3, 20480, 20, 0) /\ Steps(49, 61453, 52226, 37633, 212, 193)
        /\ Steps(50, 40973, 55298, 38401, 213, 129) /\ Steps(51, 20492, 5123, 21760, 21, 64)
        /\ Steps(52, 13, 61442, 39937, 215, 1) /\ Steps(53, 61452, 15363, 24320, 23, 192)
        /\ Steps(54, 40972, 10243, 23040, 22, 128) /\ Steps(55, 20493, 58370, 39169, 214, 65)
        /\ Steps(56, 14, 40962, 34817, 210, 1) /\ Steps(57, 61455, 27651, 19200, 18, 192)
        /\ Steps(58, 40975, 30723, 19968, 19, 128) /\ Steps(59, 20494, 46082, 36097, 211, 65)
        /\ Steps(60, 15, 20483, 17408, 17, 0) /\ Steps(61, 61454, 39938, 34561, 209, 193)
        /\ Steps(62, 40974, 34818, 33281, 208, 129) /\ Steps(63, 20495, 17411, 16640, 16, 64)
    BY DEF Steps, Folded, Folded2
  <2>2. /\ Entry(49, 20, 0) /\ Entry(50, 212, 193) /\ Entry(51, 213, 129) /\ Entry(52, 21, 64)
        /\ Entry(53, 215, 1) /\ Entry(54, 23, 192) /\ Entry(55, 22, 128) /\ Entry(56, 214, 65)
        /\ Entry(57, 210, 1) /\ Entry(58, 18, 192) /\ Entry(59, 19, 128) /\ Entry(60, 211, 65)
        /\ Entry(61, 17, 0) /\ Entry(62, 209, 193) /\ Entry(63, 208, 129) /\ Entry(64, 16, 64)
    BY DEF Entry, CrcHiTable, CrcLoTable
  <2> QED
    BY <2>1, <2>2, EntryLemma
<1>5. \A b \in 64 .. 79 : TableAgrees(b)
  <2>1. /\ Steps(64, 16, 4, 1, 240, 1) /\ Steps(65, 61457, 52229, 49920, 48, 192)
        /\ Steps(66, 40977, 55301, 50688, 49, 128) /\ Steps(67, 20496, 5124, 1281, 241, 65)
        /\ Steps(68, 17, 61445, 52224, 51, 0) /\ Steps(69, 61456, 15364, 3841, 243, 193)
        /\ Steps(70, 40976, 10244, 2561, 242, 129) /\ Steps(71, 20497, 58373, 51456, 50, 64)
        /\ Steps(72, 18, 40965, 55296, 54, 0) /\ Steps(73, 61459, 27652, 6913, 246, 193)
        /\ Steps(74, 40979, 30724, 7681, 247, 129) /\ Steps(75, 20498, 46085, 56576, 55, 64)
        /\ Steps(76, 19, 20484, 5121, 245, 1) /\ Steps(77, 61458, 39941, 55040, 53, 192)
        /\ Steps(78, 40978, 34821, 53760, 52, 128) /\ Steps(79, 20499, 17412, 4353, 244, 65)
    BY DEF Steps, Folded, Folded2
  <2>2. /\ Entry(65, 240, 1) /\ Entry(66, 48, 192) /\ Entry(67, 49, 128) /\ Entry(68, 241, 65)
        /\ Entry(69, 51, 0) /\ Entry(70, 243, 193) /\ Entry(71, 242, 129) /\ Entry(72, 50, 64)
        /\ Entry(73, 54, 0) /\ Entry(74, 246, 193) /\ Entry(75, 247, 129) /\ Entry(76, 55, 64)
        /\ Entry(77, 245, 1) /\ Entry(78, 53, 192) /\ Entry(79, 52, 128) /\ Entry(80, 244, 65)
    BY DEF Entry, CrcHiTable, CrcLoTable
  <2> QED
    BY <2>1, <2>2, EntryLemma
<1>6. \A b \in 80 .. 95 : TableAgrees(b)
  <2>1. /\ Steps(80, 20, 5, 61440, 60, 0) /\ Steps(81, 61461, 52228, 13057, 252, 193)
        /\ Steps(82, 40981, 55300, 13825, 253, 129) /\ Steps(83, 20500, 5125, 62720, 61, 64)
        /\ Steps(84, 21, 61444, 15361, 255, 1) /\ Steps(85, 61460, 15365, 65280, 63, 192)
        /\ Steps(86, 40980, 10245, 64000, 62, 128) /\ Steps(87, 20501, 58372, 14593, 254, 65)
        /\ Steps(88, 22, 40964, 10241, 250, 1) /\ Steps(89, 61463, 27653, 60160, 58, 192)
        /\ Steps(90, 40983, 30725, 60928, 59, 128) /\ Steps(91, 20502, 46084, 11521, 251, 65)
        /\ Steps(92, 23, 20485, 58368, 57, 0) /\ Steps(93, 61462, 39940, 9985, 249, 193)
        /\ Steps(94, 40982, 34820, 8705, 248, 129) /\ Steps(95, 20503, 17413, 57600, 56, 64)
    BY DEF Steps, Folded, Folded2
  <2>2. /\ Entry(81, 60, 0) /\ Entry(82, 252, 193) /\ Entry(83, 253, 129) /\ Entry(84, 61, 64)
        /\ Entry(85, 255, 1) /\ Entry(86, 63, 192) /\ Entry(87, 62, 128) /\ Entry(88, 254, 65)
        /\ Entry(89, 250, 1) /\ Entry(90, 58, 192) /\ Entry(91, 59, 128) /\ Entry(92, 251, 65)
        /\ Entry(93, 57, 0) /\ Entry(94, 249, 193) /\ Entry(95, 248, 129) /\ Entry(96, 56, 64)
    BY DEF Entry, CrcHiTable, CrcLoTable
  <2> QED
    BY <2>1, <2>2, EntryLemma
<1>7. \A b \in 96 .. 111 : TableAgrees(b)
  <2>1. /\ Steps(96, 24, 6, 40960, 40, 0) /\ Steps(97, 61465, 52231, 25345, 232, 193)
        /\ Steps(98, 40985, 55303, 26113, 233, 129) /\ Steps(99, 20504, 5126, 42240, 41, 64)
        /\ Steps(100, 25, 61447, 27649, 235, 1) /\ Steps(101, 61464, 15366, 44800, 43, 192)
        /\ Steps(102, 40984, 10246, 43520, 42, 128) /\ Steps(103, 20505, 58375, 26881, 234, 65)
        /\ Steps(104, 26, 40967, 30721, 238, 1) /\ Steps(105, 61467, 27654, 47872, 46, 192)
        /\ Steps(106, 40987, 30726, 48640, 47, 128) /\ Steps(107, 20506, 46087, 32001, 239, 65)
        /\ Steps(108, 27, 20486, 46080, 45, 0) /\ Steps(109, 61466, 39943, 30465, 237, 193)
        /\ Steps(110, 40986, 34823, 29185, 236, 129) /\ Steps(111, 20507, 17414, 45312, 44, 64)
    BY DEF Steps, Folded, Folded2
  <2>2. /\ Entry(97, 40, 0) /\ Entry(98, 232, 193) /\ Entry(99, 233, 129) /\ Entry(100, 41, 64)
        /\ Entry(101, 235, 1) /\ Entry(102, 43, 192) /\ Entry(103, 42, 128) /\ Entry(104, 234, 65)
        /\ Entry(105, 238, 1) /\ Entry(106, 46, 192) /\ Entry(107, 47, 128) /\ Entry(108, 239, 65)
        /\ Entry(109, 45, 0) /\ Entry(110, 237, 193) /\ Entry(111, 236, 129) /\ Entry(112, 44, 64)
    BY DEF Entry, CrcHiTable, CrcLoTable
  <2> QED
    BY <2>1, <2>2, EntryLemma
<1>8. \A b \in 112 .. 127 : TableAgrees(b)
  <2>1. /\ Steps(112, 28, 7, 20481, 228, 1) /\ Steps(113, 61469, 52230, 37632, 36, 192)
        /\ Steps(114, 40989, 55302, 38400, 37, 128) /\ Steps(115, 20508, 5127, 21761, 229, 65)
        /\ Steps(116, 29, 61446, 39936, 39, 0) /\ Steps(117, 61468, 15367, 24321, 231, 193)
        /\ Steps(118, 40988, 10247, 23041, 230, 129) /\ Steps(119, 20509, 58374, 39168, 38, 64)
        /\ Steps(120, 30, 40966, 34816, 34, 0) /\ Steps(121, 61471, 27655, 19201, 226, 193)
        /\ Steps(122, 40991, 30727, 19969, 227, 129) /\ Steps(123, 20510, 46086, 36096, 35, 64)
        /\ Steps(124, 31, 20487, 17409, 225, 1) /\ Steps(125, 61470, 39942, 34560, 33, 192)
        /\ Steps(126, 40990, 34822, 33280, 32, 128) /\ Steps(127, 20511, 17415, 16641, 224, 65)
    BY DEF Steps, Folded, Folded2
  <2>2. /\ Entry(113, 228, 1) /\ Entry(114, 36, 192) /\ Entry(115, 37, 128) /\ Entry(116, 229, 65)
        /\ Entry(117, 39, 0) /\ Entry(118, 231, 193) /\ Entry(119, 230, 129) /\ Entry(120, 38, 64)
        /\ Entry(121, 34, 0) /\ Entry(122, 226, 193) /\ Entry(123, 227, 129) /\ Entry(124, 35, 64)
        /\ Entry(125, 225, 1) /\ Entry(126, 33, 192) /\ Entry(127, 32, 128) /\ Entry(128, 224, 65)
    BY DEF Entry, CrcHiTable, CrcLoTable
  <2> QED
    BY <2>1, <2>2, EntryLemma
<1>9. \A b \in 128 .. 143 : TableAgrees(b)
  <2>1. /\ Steps(128, 32, 8, 2, 160, 1) /\ Steps(129, 61473, 52233, 49923, 96, 192)
        /\ Steps(130, 40993, 55305, 50691, 97, 128) /\ Steps(131, 20512, 5128, 1282, 161, 65)
        /\ Steps(132, 33, 61449, 52227, 99, 0) /\ Steps(133, 61472, 15368, 3842, 163, 193)
        /\ Steps(134, 40992, 10248, 2562, 162, 129) /\ Steps(135, 20513, 58377, 51459, 98, 64)
        /\ Steps(136, 34, 40969, 55299, 102, 0) /\ Steps(137, 61475, 27656, 6914, 166, 193)
        /\ Steps(138, 40995, 30728, 7682, 167, 129) /\ Steps(139, 20514, 46089, 56579, 103, 64)
        /\ Steps(140, 35, 20488, 5122, 165, 1) /\ Steps(141, 61474, 39945, 55043, 101, 192)
        /\ Steps(142, 40994, 34825, 53763, 100, 128) /\ Steps(143, 20515, 17416, 4354, 164, 65)
    BY DEF Steps, Folded, Folded2
  <2>2. /\ Entry(129, 160, 1) /\ Entry(130, 96, 192) /\ Entry(131, 97, 128) /\ Entry(132, 161, 65)
        /\ Entry(133, 99, 0) /\ Entry(134, 163, 193) /\ Entry(135, 162, 129) /\ Entry(136, 98, 64)
        /\ Entry(137, 102, 0) /\ Entry(138, 166, 193) /\ Entry(139, 167, 129)
        /\ Entry(140, 103, 64) /\ Entry(141, 165, 1) /\ Entry(142, 101, 192)
        /\ Entry(143, 100, 128) /\ Entry(144, 164, 65)
    BY DEF Entry, CrcHiTable, CrcLoTable
  <2> QED
    BY <2>1, <2>2, EntryLemma
<1>10. \A b \in 144 .. 159 : TableAgrees(b)
  <2>1. /\ Steps(144, 36, 9, 61443, 108, 0) /\ Steps(145, 61477, 52232, 13058, 172, 193)
        /\ Steps(146, 40997, 55304, 13826, 173, 129) /\ Steps(147, 20516, 5129, 62723, 109, 64)
        /\ Steps(148, 37, 61448, 15362, 175, 1) /\ Steps(149, 61476, 15369, 65283, 111, 192)
        /\ Steps(150, 40996, 10249, 64003, 110, 128) /\ Steps(151, 20517, 58376, 14594, 174, 65)
        /\ Steps(152, 38, 40968, 10242, 170, 1) /\ Steps(153, 61479, 27657, 60163, 106, 192)
        /\ Steps(154, 40999, 30729, 60931, 107, 128) /\ Steps(155, 20518, 46088, 11522, 171, 65)
        /\ Steps(156, 39, 20489, 58371, 105, 0) /\ Steps(157, 61478, 39944, 9986, 169, 193)
        /\ Steps(158, 40998, 34824, 8706, 168, 129) /\ Steps(159, 20519, 17417, 57603, 104, 64)
    BY DEF Steps, Folded, Folded2
  <2>2. /\ Entry(145, 108, 0) /\ Entry(146, 172, 193) /\ Entry(147, 173, 129)
        /\ Entry(148, 109, 64) /\ Entry(149, 175, 1) /\ Entry(150, 111, 192)
        /\ Entry(151, 110, 128) /\ Entry(152, 174, 65) /\ Entry(153, 170, 1)
        /\ Entry(154, 106, 192) /\ Entry(155, 107, 128) /\ Entry(156, 171, 65)
        /\ Entry(157, 105, 0) /\ Entry(158, 169, 193) /\ Entry(159, 168, 129)
        /\ Entry(160, 104, 64)
    BY DEF Entry, CrcHiTable, CrcLoTable
  <2> QED
    BY <2>1, <2>2, EntryLemma
<1>11. \A b \in 160 .. 175 : TableAgrees(b)
  <2>1. /\ Steps(160, 40, 10, 40963, 120, 0) /\ Steps(161, 61481, 52235, 25346, 184, 193)
        /\ Steps(162, 41001, 55307, 26114, 185, 129) /\ Steps(163, 20520, 5130, 42243, 121, 64)
        /\ Steps(164, 41, 61451, 27650, 187, 1) /\ Steps(165, 61480, 15370, 44803, 123, 192)
        /\ Steps(166, 41000, 10250, 43523, 122, 128) /\ Steps(167, 20521, 58379, 26882, 186, 65)
        /\ Steps(168, 42, 40971, 30722, 190, 1) /\ Steps(169, 61483, 27658, 47875, 126, 192)
        /\ Steps(170, 41003, 30730, 48643, 127, 128) /\ Steps(171, 20522, 46091, 32002, 191, 65)
        /\ Steps(172, 43, 20490, 46083, 125, 0) /\ Steps(173, 61482, 39947, 30466, 189, 193)
        /\ Steps(174, 41002, 34827, 29186, 188, 129) /\ Steps(175, 20523, 17418, 45315, 124, 64)
    BY DEF Steps, Folded, Folded2
  <2>2. /\ Entry(161, 120, 0) /\ Entry(162, 184, 193) /\ Entry(163, 185, 129)
        /\ Entry(164, 121, 64) /\ Entry(165, 187, 1) /\ Entry(166, 123, 192)
        /\ Entry(167, 122, 128) /\ Entry(168, 186, 65) /\ Entry(169, 190, 1)
        /\ Entry(170, 126, 192) /\ Entry(171, 127, 128) /\ Entry(172, 191, 65)
        /\ Entry(173, 125, 0) /\ Entry(174, 189, 193) /\ Entry(175, 188, 129)
        /\ Entry(176, 124, 64)
    BY DEF Entry, CrcHiTable, CrcLoTable
  <2> QED
    BY <2>1, <2>2, EntryLemma
<1>12. \A b \in 176 .. 191 : TableAgrees(b)
  <2>1. /\ Steps(176, 44, 11, 20482, 180, 1) /\ Steps(177, 61485, 52234, 37635, 116, 192)
        /\ Steps(178, 41005, 55306, 38403, 117, 128) /\ Steps(179, 20524, 5131, 21762, 181, 65)
        /\ Steps(180, 45, 61450, 39939, 119, 0) /\ Steps(181, 61484, 15371, 24322, 183, 193)
        /\ Steps(182, 41004, 10251, 23042, 182, 129) /\ Steps(183, 20525, 58378, 39171, 118, 64)
        /\ Steps(184, 46, 40970, 34819, 114, 0) /\ Steps(185, 61487, 27659, 19202, 178, 193)
        /\ Steps(186, 41007, 30731, 19970, 179, 129) /\ Steps(187, 20526, 46090, 36099, 115, 64)
        /\ Steps(188, 47, 20491, 17410, 177, 1) /\ Steps(189, 61486, 39946, 34563, 113, 192)
        /\ Steps(190, 41006, 34826, 33283, 112, 128) /\ Steps(191, 20527, 17419, 16642, 176, 65)
    BY DEF Steps, Folded, Folded2
  <2>2. /\ Entry(177, 180, 1) /\ Entry(178, 116, 192) /\ Entry(179, 117, 128)
        /\ Entry(180, 181, 65) /\ Entry(181, 119, 0) /\ Entry(182, 183, 193)
        /\ Entry(183, 182, 129) /\ Entry(184, 118, 64) /\ Entry(185, 114, 0)
        /\ Entry(186, 178, 193) /\ Entry(187, 179, 129) /\ Entry(188, 115, 64)
        /\ Entry(189, 177, 1) /\ Entry(190, 113, 192) /\ Entry(191, 112, 128)
        /\ Entry(192, 176, 65)
    BY DEF Entry, CrcHiTable, CrcLoTable
  <2> QED
    BY <2>1, <2>2, EntryLemma
<1>13. \A b \in 192 .. 207 : TableAgrees(b)
  <2>1. /\ Steps(192, 48, 12, 3, 80, 0) /\ Steps(193, 61489, 52237, 49922, 144, 193)
        /\ Steps(194, 41009, 55309, 50690, 145, 129) /\ Steps(195, 20528, 5132, 1283, 81, 64)
        /\ Steps(196, 49, 61453, 52226, 147, 1) /\ Steps(197, 61488, 15372, 3843, 83, 192)
        /\ Steps(198, 41008, 10252, 2563, 82, 128) /\ Steps(199, 20529, 58381, 51458, 146, 65)
        /\ Steps(200, 50, 40973, 55298, 150, 1) /\ Steps(201, 61491, 27660, 6915, 86, 192)
        /\ Steps(202, 41011, 30732, 7683, 87, 128) /\ Steps(203, 20530, 46093, 56578, 151, 65)
        /\ Steps(204, 51, 20492, 5123, 85, 0) /\ Steps(205, 61490, 39949, 55042, 149, 193)
        /\ Steps(206, 41010, 34829, 53762, 148, 129) /\ Steps(207, 20531, 17420, 4355, 84, 64)
    BY DEF Steps, Folded, Folded2
  <2>2. /\ Entry(193, 80, 0) /\ Entry(194, 144, 193) /\ Entry(195, 145, 129) /\ Entry(196, 81, 64)
        /\ Entry(197, 147, 1) /\ Entry(198, 83, 192) /\ Entry(199, 82, 128) /\ Entry(200, 146, 65)
        /\ Entry(201, 150, 1) /\ Entry(202, 86, 192) /\ Entry(203, 87, 128) /\ Entry(204, 151, 65)
        /\ Entry(205, 85, 0) /\ Entry(206, 149, 193) /\ Entry(207, 148, 129) /\ Entry(208, 84, 64)
    BY DEF Entry, CrcHiTable, CrcLoTable
  <2> QED
    BY <2>1, <2>2, EntryLemma
<1>14. \A b \in 208 .. 223 : TableAgrees(b)
  <2>1. /\ Steps(208, 52, 13, 61442, 156, 1) /\ Steps(209, 61493, 52236, 13059, 92, 192)
        /\ Steps(210, 41013, 55308, 13827, 93, 128) /\ Steps(211, 20532, 5133, 62722, 157, 65)
        /\ Steps(212, 53, 61452, 15363, 95, 0) /\ Steps(213, 61492, 15373, 65282, 159, 193)
        /\ Steps(214, 41012, 10253, 64002, 158, 129) /\ Steps(215, 20533, 58380, 14595, 94, 64)
        /\ Steps(216, 54, 40972, 10243, 90, 0) /\ Steps(217, 61495, 27661, 60162, 154, 193)
        /\ Steps(218, 41015, 30733, 60930, 155, 129) /\ Steps(219, 20534, 46092, 11523, 91, 64)
        /\ Steps(220, 55, 20493, 58370, 153, 1) /\ Steps(221, 61494, 39948, 9987, 89, 192)
        /\ Steps(222, 41014, 34828, 8707, 88, 128) /\ Steps(223, 20535, 17421, 57602, 152, 65)
    BY DEF Steps, Folded, Folded2
  <2>2. /\ Entry(209, 156, 1) /\ Entry(210, 92, 192) /\ Entry(211, 93, 128) /\ Entry(212, 157, 65)
        /\ Entry(213, 95, 0) /\ Entry(214, 159, 193) /\ Entry(215, 158, 129) /\ Entry(216, 94, 64)
        /\ Entry(217, 90, 0) /\ Entry(218, 154, 193) /\ Entry(219, 155, 129) /\ Entry(220, 91, 64)
        /\ Entry(221, 153, 1) /\ Entry(222, 89, 192) /\ Entry(223, 88, 128) /\ Entry(224, 152, 65)
    BY DEF Entry, CrcHiTable, CrcLoTable
  <2> QED
    BY <2>1, <2>2, EntryLemma
<1>15. \A b \in 224 .. 239 : TableAgrees(b)
  <2>1. /\ Steps(224, 56, 14, 40962, 136, 1) /\ Steps(225, 61497, 52239, 25347, 72, 192)
        /\ Steps(226, 41017, 55311, 26115, 73, 128) /\ Steps(227, 20536, 5134, 42242, 137, 65)
        /\ Steps(228, 57, 61455, 27651, 75, 0) /\ Steps(229, 61496, 15374, 44802, 139, 193)
        /\ Steps(230, 41016, 10254, 43522, 138, 129) /\ Steps(231, 20537, 58383, 26883, 74, 64)
        /\ Steps(232, 58, 40975, 30723, 78, 0) /\ Steps(233, 61499, 27662, 47874, 142, 193)
        /\ Steps(234, 41019, 30734, 48642, 143, 129) /\ Steps(235, 20538, 46095, 32003, 79, 64)
        /\ Steps(236, 59, 20494, 46082, 141, 1) /\ Steps(237, 61498, 39951, 30467, 77, 192)
        /\ Steps(238, 41018, 34831, 29187, 76, 128) /\ Steps(239, 20539, 17422, 45314, 140, 65)
    BY DEF Steps, Folded, Folded2
  <2>2. /\ Entry(225, 136, 1) /\ Entry(226, 72, 192) /\ Entry(227, 73, 128) /\ Entry(228, 137, 65)
        /\ Entry(229, 75, 0) /\ Entry(230, 139, 193) /\ Entry(231, 138, 129) /\ Entry(232, 74, 64)
        /\ Entry(233, 78, 0) /\ Entry(234, 142, 193) /\ Entry(235, 143, 129) /\ Entry(236, 79, 64)
        /\ Entry(237, 141, 1) /\ Entry(238, 77, 192) /\ Entry(239, 76, 128) /\ Entry(240, 140, 65)
    BY DEF Entry, CrcHiTable, CrcLoTable
  <2> QED
    BY <2>1, <2>2, EntryLemma
<1>16. \A b \in 240 .. 255 : TableAgrees(b)
  <2>1. /\ Steps(240, 60, 15, 20483, 68, 0) /\ Steps(241, 61501, 52238, 37634, 132, 193)
        /\ Steps(242, 41021, 55310, 38402, 133, 129) /\ Steps(243, 20540, 5135, 21763, 69, 64)
        /\ Steps(244, 61, 61454, 39938, 135, 1) /\ Steps(245, 61500, 15375, 24323, 71, 192)
        /\ Steps(246, 41020, 10255, 23043, 70, 128) /\ Steps(247, 20541, 58382, 39170, 134, 65)
        /\ Steps(248, 62, 40974, 34818, 130, 1) /\ Steps(249, 61503, 27663, 19203, 66, 192)
        /\ Steps(250, 41023, 30735, 19971, 67, 128) /\ Steps(251, 20542, 46094, 36098, 131, 65)
        /\ Steps(252, 63, 20495, 17411, 65, 0) /\ Steps(253, 61502, 39950, 34562, 129, 193)
        /\ Steps(254, 41022, 34830, 33282, 128, 129) /\ Steps(255, 20543, 17423, 16643, 64, 64)
    BY DEF Steps, Folded, Folded2
  <2>2. /\ Entry(241, 68, 0) /\ Entry(242, 132, 193) /\ Entry(243, 133, 129) /\ Entry(244, 69, 64)
        /\ Entry(245, 135, 1) /\ Entry(246, 71, 192) /\ Entry(247, 70, 128) /\ Entry(248, 134, 65)
        /\ Entry(249, 130, 1) /\ Entry(250, 66, 192) /\ Entry(251, 67, 128) /\ Entry(252, 131, 65)
        /\ Entry(253, 65, 0) /\ Entry(254, 129, 193) /\ Entry(255, 128, 129) /\ Entry(256, 64, 64)
    BY DEF Entry, CrcHiTable, CrcLoTable
  <2> QED
    BY <2>1, <2>2, EntryLemma
<1> QED
  BY <1>1, <1>2, <1>3, <1>4, <1>5, <1>6, <1>7, <1>8, <1>9,
     <1>10, <1>11, <1>12, <1>13, <1>14, <1>15, <1>16 DEF Byte

-----------------------------------------------------------------------------
(* crc16 and the division, byte by byte.                                    *)

\* What the division leaves of a byte, in eight steps.
LEMMA ResidueLemma ==
  ASSUME NEW b \in Byte
  PROVE  Residue[b] = Folded8(b)
<1> DEFINE crc[n \in 0 .. 8] == IF n = 0 THEN b ELSE Shifted(crc[n - 1])
<1>1. Residue[b] = crc[8]
  BY DEF Residue, Byte
<1> HIDE DEF crc
<1>2. b \in Uint16
  BY DEF Byte, Uint16
<1>3. PICK f : IsRun(f, Uint16, 8, b, [n \in 1 .. 8 |-> [c \in Uint16 |-> Shifted(c)]])
  <2> DEFINE step == [n \in 1 .. 8 |-> [c \in Uint16 |-> Shifted(c)]]
  <2>1. AreSteps(step, Uint16, 8)
    BY FoldedLemma DEF AreSteps
  <2>2. 8 \in Nat
    OBVIOUS
  <2> HIDE DEF step
  <2>3. \E f : IsRun(f, Uint16, 8, b, step)
    BY <1>2, <2>1, <2>2, RecursionLemma
  <2> QED BY <2>3 DEF step
<1>4. f \in [0 .. 8 -> Uint16] /\ f[0] = b /\ \A n \in 1 .. 8 : f[n] = Shifted(f[n - 1])
  BY <1>3 DEF IsRun
<1>5. f = [n \in 0 .. 8 |-> IF n = 0 THEN b ELSE Shifted(f[n - 1])]
  BY <1>4
<1>6. crc = [n \in 0 .. 8 |-> IF n = 0 THEN b ELSE Shifted(crc[n - 1])]
  BY <1>5, Zenon DEF crc
<1>7. /\ crc[0] = b /\ crc[1] = Shifted(crc[0]) /\ crc[2] = Shifted(crc[1])
      /\ crc[3] = Shifted(crc[2]) /\ crc[4] = Shifted(crc[3]) /\ crc[5] = Shifted(crc[4])
      /\ crc[6] = Shifted(crc[5]) /\ crc[7] = Shifted(crc[6]) /\ crc[8] = Shifted(crc[7])
  BY <1>6
<1> QED
  BY <1>1, <1>2, <1>7, FoldedLemma DEF Folded8, Folded2

\* The tables give the two bytes of what the division leaves of another byte of the
\* message, the low one first.
LEMMA ByteStep ==
  ASSUME NEW l \in Byte, NEW h \in Byte, NEW byte \in Byte
  PROVE  /\ Looked(<<l, h>>, byte) \in Byte \X Byte
         /\ Divided(256 * h + l, byte) =
              256 * Looked(<<l, h>>, byte)[2] + Looked(<<l, h>>, byte)[1]
<1> DEFINE i == Xor8(l, byte)
           hi == CrcHiTable[i + 1]
           lo == CrcLoTable[i + 1]
           x == 256 * h + l
<1>1. i \in Byte
  BY Xor8Type
<1>2. TableAgrees(i)
  BY <1>1, TableLemma
<1>3. hi \in Byte /\ lo \in Byte /\ Residue[i] = 256 * lo + hi
  BY <1>1, <1>2, ResidueLemma DEF TableAgrees, Byte
<1>4. Looked(<<l, h>>, byte) = <<Xor8(h, hi), lo>>
  BY DEF Looked
<1>5. Xor8(h, hi) \in Byte
  BY <1>3, Xor8Type
<1>6. x \div 256 = h
  BY WordParts
<1>7. Divided(x, byte) = Xor16(h, Residue[Xor16(x, byte) % 256])
  BY <1>6 DEF Divided
<1> HIDE DEF i, hi, lo, x
<1>8. 0 \in Byte
  BY DEF Byte
<1>9. Xor16(x, byte) = Xor8(h, 0) * 256 + i
  <2>1. x = 256 * h + l /\ byte = 256 * 0 + byte
    BY DEF x, Byte
  <2> QED BY <1>8, <2>1, Xor16Parts DEF i
<1>10. Xor16(x, byte) % 256 = i
  <2>1. Xor8(h, 0) * 256 + i = 256 * h + i
    BY <1>1, Xor8Zero DEF Byte
  <2> QED BY <1>1, <1>9, <2>1, WordParts
<1>11. Xor16(h, Residue[i]) = Xor8(0, lo) * 256 + Xor8(h, hi)
  <2>1. h = 256 * 0 + h
    BY DEF Byte
  <2> QED BY <1>3, <1>8, <2>1, Xor16Parts
<1>12. Divided(x, byte) = 256 * lo + Xor8(h, hi)
  BY <1>3, <1>5, <1>7, <1>10, <1>11, Xor8Zero DEF Byte
<1> QED
  BY <1>3, <1>4, <1>5, <1>12 DEF x

\* Two bytes make a word, and a step of either kind leaves them what they are.
LEMMA WordType == \A x, y \in Byte : 256 * x + y \in Uint16 /\ x * 256 + y \in Uint16
<1>1. \A x, y \in Byte : 256 * x + y \in Nat /\ 256 * x + y <= 65535 /\ x * 256 = 256 * x
  BY DEF Byte
<1> QED BY <1>1, WordRange

LEMMA LookedType == \A c \in Byte \X Byte, b \in Byte : Looked(c, b) \in Byte \X Byte
<1> SUFFICES ASSUME NEW c \in Byte \X Byte, NEW b \in Byte PROVE Looked(c, b) \in Byte \X Byte
  OBVIOUS
<1>1. c = <<c[1], c[2]>> /\ c[1] \in Byte /\ c[2] \in Byte
  OBVIOUS
<1> QED
  BY <1>1, ByteStep

LEMMA DividedType == \A c \in Uint16, b \in Byte : Divided(c, b) \in Uint16
<1> SUFFICES ASSUME NEW c \in Uint16, NEW b \in Byte PROVE Divided(c, b) \in Uint16
  OBVIOUS
<1> DEFINE h == c \div 256
           l == c % 256
<1>1. h \in Byte /\ l \in Byte /\ c = 256 * h + l
  BY ByteParts DEF Uint16
<1> HIDE DEF h, l
<1> DEFINE d == Looked(<<l, h>>, b)
<1>2. d \in Byte \X Byte /\ Divided(c, b) = 256 * d[2] + d[1]
  BY <1>1, ByteStep
<1> HIDE DEF d
<1>3. d[1] \in Byte /\ d[2] \in Byte
  BY <1>2
<1>4. 256 * d[2] + d[1] \in Uint16
  BY <1>3, WordType
<1> QED
  BY <1>2, <1>4

\* Where both begin.
LEMMA FirstBytes == <<255, 255>> \in Byte \X Byte
BY DEF Byte
LEMMA FirstWord == Preset \in Uint16
BY DEF Preset, Uint16

\* The recursive function of crc16 exists: it goes from byte to byte of the message.
LEMMA LookedRun ==
  ASSUME NEW bytes \in Seq(Byte)
  PROVE \E crc :
    /\ crc[0] = <<255, 255>>
    /\ \A n \in 1 .. Len(bytes) : crc[n] = Looked(crc[n - 1], bytes[n])
    /\ crc16(bytes) = crc[Len(bytes)][1] * 256 + crc[Len(bytes)][2]
<1> DEFINE T == Byte \X Byte
           crc[n \in 0 .. Len(bytes)] ==
             IF n = 0 THEN <<255, 255>> ELSE Looked(crc[n - 1], bytes[n])
<1>1. crc16(bytes) = crc[Len(bytes)][1] * 256 + crc[Len(bytes)][2]
  BY DEF crc16
<1> HIDE DEF crc
<1>2. Len(bytes) \in Nat /\ \A n \in 1 .. Len(bytes) : bytes[n] \in Byte
  OBVIOUS
<1>3. <<255, 255>> \in T
  BY FirstBytes, Zenon
<1> HIDE DEF T
<1>4. PICK f \in [0 .. Len(bytes) -> T] :
        f[0] = <<255, 255>> /\ \A n \in 1 .. Len(bytes) : f[n] = Looked(f[n - 1], bytes[n])
  <2> DEFINE step == [n \in 1 .. Len(bytes) |-> [c \in T |-> Looked(c, bytes[n])]]
             first == <<255, 255>>
  <2>1. AreSteps(step, T, Len(bytes))
    <3>1. \A n \in 1 .. Len(bytes), c \in T : Looked(c, bytes[n]) \in T
      BY <1>2, LookedType DEF T
    <3> QED BY <3>1 DEF AreSteps
  <2>2. \A n \in 1 .. Len(bytes) : \A c \in T : step[n][c] = Looked(c, bytes[n])
    OBVIOUS
  <2> HIDE DEF step, first
  <2>3. PICK f : IsRun(f, T, Len(bytes), first, step)
    BY <1>2, <1>3, <2>1, RecursionLemma DEF first
  <2>4. /\ f \in [0 .. Len(bytes) -> T]
        /\ f[0] = <<255, 255>>
        /\ \A n \in 1 .. Len(bytes) : f[n] = step[n][f[n - 1]]
    BY <2>3 DEF IsRun, first
  <2>5. \A n \in 1 .. Len(bytes) : n - 1 \in 0 .. Len(bytes)
    BY <1>2
  <2>6. \A n \in 1 .. Len(bytes) : f[n] = Looked(f[n - 1], bytes[n])
    BY <2>2, <2>4, <2>5
  <2> QED BY <2>4, <2>6
<1>5. f = [n \in 0 .. Len(bytes) |-> IF n = 0 THEN <<255, 255>> ELSE Looked(f[n - 1], bytes[n])]
  <2>1. \A n \in 0 .. Len(bytes) : n # 0 => n \in 1 .. Len(bytes)
    BY <1>2
  <2> QED BY <1>4, <2>1
<1>6. crc = [n \in 0 .. Len(bytes) |-> IF n = 0 THEN <<255, 255>> ELSE Looked(crc[n - 1], bytes[n])]
  BY <1>5, Zenon DEF crc
<1> HIDE DEF crc
<1>7. crc[0] = <<255, 255>>
  BY <1>2, <1>6
<1>8. \A n \in 1 .. Len(bytes) : crc[n] = Looked(crc[n - 1], bytes[n])
  <2>1. \A n \in 1 .. Len(bytes) : n \in 0 .. Len(bytes) /\ n # 0
    BY <1>2
  <2> QED BY <1>6, <2>1
<1> QED BY <1>1, <1>6, <1>7, <1>8

\* So does that of the division.
LEMMA DividedRun ==
  ASSUME NEW bytes \in Seq(Byte)
  PROVE \E crc :
    /\ crc[0] = Preset
    /\ \A n \in 1 .. Len(bytes) : crc[n] = Divided(crc[n - 1], bytes[n])
    /\ Remainder(bytes) = (crc[Len(bytes)] % 256) * 256 + crc[Len(bytes)] \div 256
<1> DEFINE T == Uint16
           crc[n \in 0 .. Len(bytes)] ==
             IF n = 0 THEN Preset ELSE Divided(crc[n - 1], bytes[n])
<1>1. Remainder(bytes) = (crc[Len(bytes)] % 256) * 256 + crc[Len(bytes)] \div 256
  BY DEF Remainder
<1> HIDE DEF crc
<1>2. Len(bytes) \in Nat /\ \A n \in 1 .. Len(bytes) : bytes[n] \in Byte
  OBVIOUS
<1>3. Preset \in T
  BY FirstWord
<1> HIDE DEF T
<1>4. PICK f \in [0 .. Len(bytes) -> T] :
        f[0] = Preset /\ \A n \in 1 .. Len(bytes) : f[n] = Divided(f[n - 1], bytes[n])
  <2> DEFINE step == [n \in 1 .. Len(bytes) |-> [c \in T |-> Divided(c, bytes[n])]]
             first == Preset
  <2>1. AreSteps(step, T, Len(bytes))
    <3>1. \A n \in 1 .. Len(bytes), c \in T : Divided(c, bytes[n]) \in T
      BY <1>2, DividedType DEF T
    <3> QED BY <3>1 DEF AreSteps
  <2>2. \A n \in 1 .. Len(bytes) : \A c \in T : step[n][c] = Divided(c, bytes[n])
    OBVIOUS
  <2> HIDE DEF step, first
  <2>3. PICK f : IsRun(f, T, Len(bytes), first, step)
    BY <1>2, <1>3, <2>1, RecursionLemma DEF first
  <2>4. /\ f \in [0 .. Len(bytes) -> T]
        /\ f[0] = Preset
        /\ \A n \in 1 .. Len(bytes) : f[n] = step[n][f[n - 1]]
    BY <2>3 DEF IsRun, first
  <2>5. \A n \in 1 .. Len(bytes) : n - 1 \in 0 .. Len(bytes)
    BY <1>2
  <2>6. \A n \in 1 .. Len(bytes) : f[n] = Divided(f[n - 1], bytes[n])
    BY <2>2, <2>4, <2>5
  <2> QED BY <2>4, <2>6
<1>5. f = [n \in 0 .. Len(bytes) |-> IF n = 0 THEN Preset ELSE Divided(f[n - 1], bytes[n])]
  <2>1. \A n \in 0 .. Len(bytes) : n # 0 => n \in 1 .. Len(bytes)
    BY <1>2
  <2> QED BY <1>4, <2>1
<1>6. crc = [n \in 0 .. Len(bytes) |-> IF n = 0 THEN Preset ELSE Divided(crc[n - 1], bytes[n])]
  BY <1>5, Zenon DEF crc
<1> HIDE DEF crc
<1>7. crc[0] = Preset
  BY <1>2, <1>6
<1>8. \A n \in 1 .. Len(bytes) : crc[n] = Divided(crc[n - 1], bytes[n])
  <2>1. \A n \in 1 .. Len(bytes) : n \in 0 .. Len(bytes) /\ n # 0
    BY <1>2
  <2> QED BY <1>6, <2>1
<1> QED BY <1>1, <1>6, <1>7, <1>8

\* What the tables of RtuLayer::crc16 compute for a message of any length is a word: the
\* remainder of the division by the polynomial of the Modbus protocol.
THEOREM Crc16IsRemainder ==
  ASSUME NEW bytes \in Seq(Byte)
  PROVE  crc16(bytes) = Remainder(bytes) /\ crc16(bytes) \in Uint16
<1> DEFINE L == Len(bytes)
<1>1. PICK t : /\ t[0] = <<255, 255>>
               /\ \A n \in 1 .. L : t[n] = Looked(t[n - 1], bytes[n])
               /\ crc16(bytes) = t[L][1] * 256 + t[L][2]
  BY LookedRun
<1>2. PICK r : /\ r[0] = Preset
               /\ \A n \in 1 .. L : r[n] = Divided(r[n - 1], bytes[n])
               /\ Remainder(bytes) = (r[L] % 256) * 256 + (r[L] \div 256)
  BY DividedRun
<1>3. L \in Nat /\ \A n \in 1 .. L : bytes[n] \in Byte
  OBVIOUS
<1> HIDE DEF L
<1>4. \A n \in 1 .. L : t[n] = Looked(t[n - 1], bytes[n])
  BY <1>1
<1>5. \A n \in 1 .. L : r[n] = Divided(r[n - 1], bytes[n])
  BY <1>2
<1> DEFINE Same(n) == t[n] \in Byte \X Byte /\ r[n] = 256 * t[n][2] + t[n][1]
           S == {n \in Nat : n <= L => Same(n)}
<1>6. Same(0)
  <2>1. t[0] \in Byte \X Byte
    BY <1>1, FirstBytes
  <2>2. 256 * 255 + 255 = Preset
    BY DEF Preset
  <2>3. t[0][1] = 255 /\ t[0][2] = 255
    BY <1>1
  <2> QED BY <1>2, <2>1, <2>2, <2>3
<1>7. ASSUME NEW n \in Nat, n + 1 <= L, Same(n) PROVE Same(n + 1)
  <2>1. /\ t[n + 1] = Looked(t[n], bytes[n + 1])
        /\ r[n + 1] = Divided(r[n], bytes[n + 1])
        /\ bytes[n + 1] \in Byte
    <3>1. n + 1 \in 1 .. L /\ (n + 1) - 1 = n
      BY <1>3, <1>7
    <3> QED BY <1>3, <1>4, <1>5, <3>1
  <2>2. t[n] = <<t[n][1], t[n][2]>> /\ t[n][1] \in Byte /\ t[n][2] \in Byte
    BY <1>7
  <2>3. r[n] = 256 * t[n][2] + t[n][1]
    BY <1>7
  <2> DEFINE l == t[n][1]
             h == t[n][2]
             d == Looked(<<l, h>>, bytes[n + 1])
  <2>4. d \in Byte \X Byte /\ Divided(256 * h + l, bytes[n + 1]) = 256 * d[2] + d[1]
    BY <2>1, <2>2, ByteStep
  <2>5. t[n + 1] = d /\ r[n + 1] = Divided(256 * h + l, bytes[n + 1])
    BY <2>1, <2>2, <2>3
  <2> HIDE DEF l, h, d
  <2> QED
    BY <2>4, <2>5
<1> HIDE DEF Same
<1>8. 0 \in S /\ S \subseteq Nat
  BY <1>6
<1>9. \A n \in S : n + 1 \in S
  BY <1>3, <1>7
<1> HIDE DEF S
<1>10. \A n \in Nat : n \in S
  BY <1>8, <1>9, SetInduction
<1>11. Same(L)
  BY <1>3, <1>10 DEF S
<1>12. /\ t[L][1] \in Byte /\ t[L][2] \in Byte
       /\ r[L] % 256 = t[L][1] /\ r[L] \div 256 = t[L][2]
  BY <1>11, WordParts DEF Same
<1>13. crc16(bytes) = t[L][1] * 256 + t[L][2]
  BY <1>1
<1>14. Remainder(bytes) = t[L][1] * 256 + t[L][2]
  <2>1. Remainder(bytes) = (r[L] % 256) * 256 + (r[L] \div 256)
    BY <1>2
  <2> QED BY <1>12, <2>1
<1>15. t[L][1] * 256 + t[L][2] \in Uint16
  BY <1>12, WordType
<1> QED BY <1>13, <1>14, <1>15

-----------------------------------------------------------------------------
(* Fields.                                                                  *)

\* A field is told by its name and its index.
LEMMA FieldShape ==
  ASSUME NEW f \in Fields
  PROVE  /\ f = [name |-> f.name, index |-> f.index]
         /\ f.name \in Plain \cup {"register", "bit"}
         /\ f.index \in Nat
         /\ f.name \in Plain => f.index = 0
BY FrameAssumption DEF Fields, F, Registers, Bits, Plain

RequestNames == {{"transactionIdentifier", "slave", "function", "startingAddress", "quantity"},
  {"transactionIdentifier", "slave", "function", "startingAddress", "value"},
  {"transactionIdentifier", "slave", "function", "startingAddress", "quantity", "byteCount", "register"},
  {"transactionIdentifier", "slave", "function", "startingAddress", "quantity", "byteCount", "bit"}}

ResponseNames == {{"transactionIdentifier", "slave", "function", "byteCount", "register"},
  {"transactionIdentifier", "slave", "function", "startingAddress", "quantity"},
  {"transactionIdentifier", "slave", "function", "exceptionCode"},
  {"transactionIdentifier", "slave", "function", "byteCount", "bit"}}

\* Fields of one layout have names that occur together.
LEMMA TogetherNames ==
  ASSUME NEW f \in Fields, NEW g \in Fields, NEW k \in {"request", "response"},
         Together(k, f, g)
  PROVE  \E s \in IF k = "request" THEN RequestNames ELSE ResponseNames :
           f.name \in s /\ g.name \in s
<1>1. PICK l \in Layouts(k) : f \in l /\ g \in l
  BY DEF Together
<1>2. CASE k = "request"
  <2>1. \E s \in RequestNames : \A h \in l : h.name \in s
    BY <1>1, <1>2 DEF Layouts, RequestNames, Common, F, Registers, Bits
  <2> QED BY <1>1, <1>2, <2>1
<1>3. CASE k = "response"
  <2>1. \E s \in ResponseNames : \A h \in l : h.name \in s
    BY <1>1, <1>3 DEF Layouts, ResponseNames, Common, F, Registers, Bits
  <2> QED BY <1>1, <1>3, <2>1
<1> QED BY <1>2, <1>3

Kinds == {"request", "response"}
Nets == {"Tcp", "Rtu"}

\* The values that a setter of a field takes.
ValuesOf(f) == IF IsWord(f) THEN Uint16 ELSE IF IsBit(f) THEN {0, 1} ELSE Byte

\* A field that the message has lies in the buffer, from its beginning on.
LEMMA PlaceLemma ==
  ASSUME NEW f \in Fields, NEW k \in Kinds, net \in Nets, Has(k, f)
  PROVE  /\ Place(k, f) \in Nat
         /\ IsWord(f) => End(k, f) = Place(k, f) + 2
         /\ ~IsWord(f) => End(k, f) = Place(k, f) + 1
<1>1. f.name \in Plain \cup {"register", "bit"} /\ f.index \in Nat
  BY FieldShape
<1>2. f.index \div 8 \in Nat
  BY <1>1, SMTT(30)
<1> QED
  BY <1>1, <1>2, SMTT(30) DEF Kinds, Nets, Has, Place, End, RequestOffset, ResponseOffset,
       MessageOffset, HeaderLength, Plain

\* An index is a byte and a bit of it.
LEMMA OctetLemma == \A i \in Nat : i = 8 * (i \div 8) + (i % 8)
BY SMTT(30)

\* From where to where a field lies, by its name.
Layout(k, name, i, p, e) ==
  LET h == HeaderLength
  IN /\ name = "transactionIdentifier" => p = 0 /\ e = 2 /\ h = 7
     /\ name = "slave" => p = h - 1 /\ e = h
     /\ name = "function" => p = h /\ e = h + 1
     /\ name = "startingAddress" => p = h + 1 /\ e = h + 3
     /\ name = "quantity" => p = h + 3 /\ e = h + 5
     /\ name = "value" => p = h + 3 /\ e = h + 5
     /\ name = "byteCount" /\ k = "request" => p = h + 5 /\ e = h + 6
     /\ name = "byteCount" /\ k = "response" => p = h + 1 /\ e = h + 2
     /\ name = "exceptionCode" => p = h + 1 /\ e = h + 2
     /\ name = "register" /\ k = "request" => p = h + 6 + 2 * i /\ e = h + 8 + 2 * i
     /\ name = "register" /\ k = "response" => p = h + 2 + 2 * i /\ e = h + 4 + 2 * i
     /\ name = "bit" /\ k = "request" => p = h + 6 + (i \div 8) /\ e = h + 7 + (i \div 8)
     /\ name = "bit" /\ k = "response" => p = h + (i \div 8) /\ e = h + 1 + (i \div 8)

\* The offsets of the accessors give that layout.
LEMMA LayoutLemma ==
  ASSUME NEW f \in Fields, NEW k \in Kinds, net \in Nets, Has(k, f)
  PROVE  Layout(k, f.name, f.index, Place(k, f), End(k, f))
<1>1. f.index \in Nat /\ f.index \div 8 \in Nat
  BY FieldShape, SMTT(30)
<1>2. net = "Tcp" => HeaderLength = 7
  BY DEF HeaderLength
<1>3. HeaderLength \in {1, 7}
  BY DEF HeaderLength
<1>4. f.name = "transactionIdentifier" => HeaderLength = 7
  BY <1>2 DEF Has
<1>5. IsWord(f) <=> f.name \in Words
  BY DEF IsWord
<1>6. CASE k = "request"
  BY <1>1, <1>3, <1>4, <1>5, <1>6, SMTT(30) DEF Layout, Place, End, RequestOffset, MessageOffset,
       Words, Has
<1>7. CASE k = "response"
  BY <1>1, <1>3, <1>4, <1>5, <1>7, SMTT(30) DEF Layout, Place, End, ResponseOffset, MessageOffset,
       Words, Has
<1> QED BY <1>6, <1>7 DEF Kinds

\* Two fields that occur together lie apart, or are different bits of a byte, unless one
\* is a bit that a response has over the other.
LEMMA Disjoint ==
  ASSUME NEW f \in Fields, NEW g \in Fields, NEW k \in Kinds, net \in Nets,
         f # g, Together(k, f, g), Has(k, f), Has(k, g), ~Overlap(k, f, g)
  PROVE  \/ End(k, f) <= Place(k, g)
         \/ End(k, g) <= Place(k, f)
         \/ IsBit(f) /\ IsBit(g) /\ Place(k, f) = Place(k, g) /\ f.index % 8 # g.index % 8
<1>1. /\ f.name = g.name => f.index # g.index
      /\ f.index \in Nat /\ g.index \in Nat
      /\ f.name = g.name => f.name \in {"register", "bit"}
  BY FieldShape
<1>2. f.index \div 8 \in Nat /\ g.index \div 8 \in Nat
  BY <1>1, SMTT(30)
<1>3. f.index = 8 * (f.index \div 8) + (f.index % 8) /\ g.index = 8 * (g.index \div 8) + (g.index % 8)
  BY <1>1, OctetLemma
<1>4. \E s \in IF k = "request" THEN RequestNames ELSE ResponseNames :
        f.name \in s /\ g.name \in s
  BY TogetherNames DEF Kinds
<1>5. CASE f.name = "bit" /\ g.name = "bit"
  <2>1. f.index \div 8 = g.index \div 8 => f.index % 8 # g.index % 8
    BY <1>1, <1>3, <1>5, SMTT(30)
  <2> QED
    BY <1>2, <1>5, <2>1, SMTT(30) DEF Place, End, RequestOffset, ResponseOffset, HeaderLength,
         IsBit, IsWord, Words, Kinds, Nets
<1>6. CASE ~(f.name = "bit" /\ g.name = "bit") /\ k = "request"
  <2> DEFINE P == Place(k, f)
             Q == Place(k, g)
             E == End(k, f)
             D == End(k, g)
  <2>1. HeaderLength \in {1, 7}
    BY DEF HeaderLength
  <2>2. PICK s \in RequestNames : f.name \in s /\ g.name \in s
    BY <1>4, <1>6
  <2>3. /\ Layout(k, f.name, f.index, P, E) /\ Layout(k, g.name, g.index, Q, D)
    BY <1>6, LayoutLemma
  <2> HIDE DEF P, Q, E, D
  <2>4. E <= Q \/ D <= P
    <3> USE <1>1, <1>2, <1>6, <2>1, <2>2, <2>3 DEF Layout
    <3>1. CASE s = {"transactionIdentifier", "slave", "function", "startingAddress", "quantity"}
      BY <3>1, SMTT(30)
    <3>2. CASE s = {"transactionIdentifier", "slave", "function", "startingAddress", "value"}
      BY <3>2, SMTT(30)
    <3>3. CASE s = {"transactionIdentifier", "slave", "function", "startingAddress", "quantity", "byteCount",
                    "register"}
      BY <3>3, SMTT(30)
    <3>4. CASE s = {"transactionIdentifier", "slave", "function", "startingAddress", "quantity", "byteCount",
                    "bit"}
      BY <3>4, SMTT(30)
    <3> QED BY <2>2, <3>1, <3>2, <3>3, <3>4, Zenon DEF RequestNames
  <2> QED BY <2>4 DEF P, Q, E, D
<1>7. CASE ~(f.name = "bit" /\ g.name = "bit") /\ k = "response"
  <2> DEFINE P == Place(k, f)
             Q == Place(k, g)
             E == End(k, f)
             D == End(k, g)
  <2>1. HeaderLength \in {1, 7}
    BY DEF HeaderLength
  <2>2. PICK s \in ResponseNames : f.name \in s /\ g.name \in s
    BY <1>4, <1>7
  <2>3. /\ Layout(k, f.name, f.index, P, E) /\ Layout(k, g.name, g.index, Q, D)
    BY <1>7, LayoutLemma
  <2> HIDE DEF P, Q, E, D
  <2>4. ASSUME f.name = "bit", g.name \in {"function", "byteCount"}
        PROVE  /\ g.name = "function" => f.index >= 8
               /\ g.name = "byteCount" => f.index < 8 \/ f.index >= 16
    <3>1. IsBit(f) /\ g = F(g.name)
      BY <2>4, FieldShape DEF IsBit, F, Plain
    <3> QED BY <1>1, <1>7, <2>4, <3>1 DEF Overlap, LiesOver, Overlaid, F
  <2>5. ASSUME g.name = "bit", f.name \in {"function", "byteCount"}
        PROVE  /\ f.name = "function" => g.index >= 8
               /\ f.name = "byteCount" => g.index < 8 \/ g.index >= 16
    <3>1. IsBit(g) /\ f = F(f.name)
      BY <2>5, FieldShape DEF IsBit, F, Plain
    <3> QED BY <1>1, <1>7, <2>5, <3>1 DEF Overlap, LiesOver, Overlaid, F
  <2>6. \A i \in Nat : /\ i < 8 => i \div 8 = 0
                       /\ i >= 8 => i \div 8 >= 1
                       /\ i >= 16 => i \div 8 >= 2
    BY SMTT(30)
  <2>7. E <= Q \/ D <= P
    <3> USE <1>1, <1>2, <1>7, <2>1, <2>2, <2>3 DEF Layout
    <3>1. CASE s = {"transactionIdentifier", "slave", "function", "byteCount", "register"}
      BY <3>1, SMTT(30)
    <3>2. CASE s = {"transactionIdentifier", "slave", "function", "startingAddress", "quantity"}
      BY <3>2, SMTT(30)
    <3>3. CASE s = {"transactionIdentifier", "slave", "function", "exceptionCode"}
      BY <3>3, SMTT(30)
    <3>4. CASE s = {"transactionIdentifier", "slave", "function", "byteCount", "bit"}
      BY <2>4, <2>5, <2>6, <3>4, SMTT(30)
    <3> QED BY <2>2, <3>1, <3>2, <3>3, <3>4, Zenon DEF ResponseNames
  <2> QED BY <2>7 DEF P, Q, E, D
<1> QED BY <1>5, <1>6, <1>7 DEF Kinds

\* What a field reads as depends on its own bytes only.
LEMMA GetSame ==
  ASSUME NEW a, NEW b, NEW f \in Fields, NEW k \in Kinds, net \in Nets, Has(k, f),
         \A i \in Place(k, f) .. End(k, f) - 1 : a[i] = b[i]
  PROVE  Get(a, k, f) = Get(b, k, f)
<1>1. /\ Place(k, f) \in Nat
      /\ IsWord(f) => End(k, f) = Place(k, f) + 2
      /\ ~IsWord(f) => End(k, f) = Place(k, f) + 1
  BY PlaceLemma
<1>2. a[Place(k, f)] = b[Place(k, f)]
  BY <1>1
<1>3. IsWord(f) => a[Place(k, f) + 1] = b[Place(k, f) + 1]
  BY <1>1
<1> QED BY <1>2, <1>3 DEF Get

\* Buffer b is buffer a of length n with word v at a place.
Written(n, a, at, v, b) ==
  /\ b \in [0 .. n - 1 -> Byte]
  /\ b[at] * 256 + b[at + 1] = v
  /\ \A i \in 0 .. n - 1 : i # at /\ i # at + 1 => b[i] = a[i]

\* A word written in a buffer leaves a buffer, whose bytes are the word's.
LEMMA SetWordLemma ==
  ASSUME NEW n \in Nat, NEW a \in [0 .. n - 1 -> Byte], NEW at \in Nat, at + 2 <= n,
         NEW v \in Uint16
  PROVE  Written(n, a, at, v, SetWord(a, at, v))
<1> DEFINE hi == v \div 256
           lo == v % 256
<1>1. hi \in Byte /\ lo \in Byte /\ hi * 256 + lo = v
  BY WordLemma
<1>2. SetWord(a, at, v) = [a EXCEPT ![at] = hi, ![at + 1] = lo]
  BY DEF SetWord
<1> HIDE DEF hi, lo
<1>3. at \in 0 .. n - 1 /\ at + 1 \in 0 .. n - 1 /\ at # at + 1
  OBVIOUS
<1> QED BY <1>1, <1>2, <1>3 DEF Written

\* A setter leaves a buffer, and its field reads as it was set; bytes of others stay.
LEMMA PutLemma ==
  ASSUME NEW n \in Nat, NEW a \in [0 .. n - 1 -> Byte], NEW f \in Fields, NEW k \in Kinds,
         net \in Nets, Has(k, f), End(k, f) <= n, NEW v \in ValuesOf(f)
  PROVE  /\ Put(a, k, f, v) \in [0 .. n - 1 -> Byte]
         /\ Get(Put(a, k, f, v), k, f) = v
         /\ \A i \in 0 .. n - 1 : i < Place(k, f) \/ i >= End(k, f) => Put(a, k, f, v)[i] = a[i]
<1> DEFINE at == Place(k, f)
<1>1. /\ at \in Nat
      /\ IsWord(f) => End(k, f) = at + 2
      /\ ~IsWord(f) => End(k, f) = at + 1
  BY PlaceLemma
<1>2. CASE IsWord(f)
  <2>1. v \in Uint16 /\ at + 2 <= n
    BY <1>1, <1>2 DEF ValuesOf
  <2>2. Put(a, k, f, v) = SetWord(a, at, v)
    BY <1>2 DEF Put
  <2>3. Get(Put(a, k, f, v), k, f) = SetWord(a, at, v)[at] * 256 + SetWord(a, at, v)[at + 1]
    BY <1>2, <2>2 DEF Get
  <2> HIDE DEF at
  <2>4. Written(n, a, at, v, SetWord(a, at, v))
    BY <1>1, <2>1, SetWordLemma
  <2> QED BY <1>1, <1>2, <2>2, <2>3, <2>4 DEF at, Written
<1>3. CASE ~IsWord(f) /\ IsBit(f)
  <2>1. at \in 0 .. n - 1 /\ v \in {0, 1} /\ a[at] \in Byte
    BY <1>1, <1>3 DEF ValuesOf
  <2>2. f.index % 8 \in 0 .. 7
    BY FieldShape, SMTT(30)
  <2>3. Put(a, k, f, v) = [a EXCEPT ![at] = WithBit(a[at], f.index % 8, v)]
    BY <1>3 DEF Put
  <2>4. WithBit(a[at], f.index % 8, v) \in Byte /\ BitOf(WithBit(a[at], f.index % 8, v), f.index % 8) = v
    BY <2>1, <2>2, BitLemma
  <2>5. Get(Put(a, k, f, v), k, f) = BitOf(WithBit(a[at], f.index % 8, v), f.index % 8)
    BY <1>3, <2>1, <2>3 DEF Get
  <2> HIDE DEF at
  <2> QED BY <1>1, <1>3, <2>1, <2>3, <2>4, <2>5 DEF at
<1>4. CASE ~IsWord(f) /\ ~IsBit(f)
  <2>1. at \in 0 .. n - 1 /\ v \in Byte
    BY <1>1, <1>4 DEF ValuesOf
  <2>2. Put(a, k, f, v) = [a EXCEPT ![at] = v]
    BY <1>4 DEF Put
  <2>3. Get(Put(a, k, f, v), k, f) = v
    BY <1>4, <2>1, <2>2 DEF Get
  <2> HIDE DEF at
  <2> QED BY <1>1, <1>4, <2>1, <2>2, <2>3 DEF at
<1> QED BY <1>2, <1>3, <1>4

\* A setter leaves what the fields that occur with its own, and apart from it, read as.
LEMMA PutOther ==
  ASSUME NEW n \in Nat, NEW a \in [0 .. n - 1 -> Byte], NEW f \in Fields, NEW g \in Fields,
         NEW k \in Kinds, net \in Nets, Has(k, f), Has(k, g), End(k, f) <= n, End(k, g) <= n,
         NEW v \in ValuesOf(f), f # g, Together(k, f, g), ~Overlap(k, f, g)
  PROVE  Get(Put(a, k, f, v), k, g) = Get(a, k, g)
<1> DEFINE b == Put(a, k, f, v)
<1>1. /\ Place(k, f) \in Nat /\ Place(k, g) \in Nat /\ End(k, g) \in Nat /\ End(k, f) \in Nat
      /\ End(k, f) > Place(k, f) /\ End(k, g) > Place(k, g)
  BY PlaceLemma
<1>2. \A i \in 0 .. n - 1 : i < Place(k, f) \/ i >= End(k, f) => b[i] = a[i]
  BY PutLemma
<1> HIDE DEF b
<1>3. CASE End(k, f) <= Place(k, g) \/ End(k, g) <= Place(k, f)
  <2>1. \A i \in Place(k, g) .. End(k, g) - 1 : b[i] = a[i]
    BY <1>1, <1>2, <1>3
  <2> QED BY <2>1, GetSame DEF b
<1>4. CASE IsBit(f) /\ IsBit(g) /\ Place(k, f) = Place(k, g) /\ f.index % 8 # g.index % 8
  <2> DEFINE at == Place(k, f)
  <2>1. ~IsWord(f) /\ ~IsWord(g)
    BY <1>4 DEF IsBit, IsWord, Words
  <2>2. at \in 0 .. n - 1 /\ v \in {0, 1} /\ a[at] \in Byte
    BY <1>1, <1>4, <2>1 DEF ValuesOf
  <2>3. f.index % 8 \in 0 .. 7 /\ g.index % 8 \in 0 .. 7
    BY FieldShape, SMTT(30)
  <2>4. b = [a EXCEPT ![at] = WithBit(a[at], f.index % 8, v)]
    BY <1>4, <2>1 DEF Put, b
  <2>5. Get(b, k, g) = BitOf(WithBit(a[at], f.index % 8, v), g.index % 8)
    BY <1>4, <2>1, <2>2, <2>4 DEF Get
  <2>6. Get(a, k, g) = BitOf(a[at], g.index % 8)
    BY <1>4, <2>1 DEF Get
  <2>7. BitOf(WithBit(a[at], f.index % 8, v), g.index % 8) = BitOf(a[at], g.index % 8)
    BY <1>4, <2>2, <2>3, BitLemma
  <2> QED BY <2>5, <2>6, <2>7 DEF b
<1> QED BY <1>3, <1>4, Disjoint

-----------------------------------------------------------------------------
(* Types.                                                                   *)

\* The larger one of two numbers is one of them.
LEMMA LargerLemma ==
  ASSUME NEW a \in Nat, NEW b \in Nat
  PROVE  /\ Larger(a, b) \in Nat /\ Larger(a, b) >= a /\ Larger(a, b) >= b
         /\ \A n \in Nat : a <= n /\ b <= n => Larger(a, b) <= n
BY DEF Larger

\* What is noted of a setter's value is a value for every field.
LEMMA NotedType ==
  ASSUME NEW h \in [Fields -> Known], NEW k, NEW f \in Fields, NEW v \in Uint16
  PROVE  Noted(h, k, f, v) \in [Fields -> Known]
BY DEF Noted, Known

\* The values of a field are words.
LEMMA ValuesLemma == \A f \in Fields : ValuesOf(f) \subseteq Uint16
BY DEF ValuesOf, Uint16, Byte

\* A call is counted within the bound.
LEMMA CallsType == TypeOK /\ Called => calls' \in 0 .. MaxCalls
BY FrameAssumption DEF TypeOK, Called

\* The header has its length for the whole life of a message, and a buffer its bounds.
LEMMA HeaderLemma ==
  /\ net' = net => HeaderLength' = HeaderLength
  /\ HeaderLength \in {1, 7}
  /\ MaxLength \in HeaderLength + 1 .. MaxBuffer
<1>1. RtuLength \in 2 .. MaxBuffer /\ TcpLength \in 8 .. MaxBuffer
  BY FrameAssumption
<1>2. CASE net = "Tcp"
  BY <1>1, <1>2 DEF HeaderLength, MaxLength
<1>3. CASE net # "Tcp"
  BY <1>1, <1>3 DEF HeaderLength, MaxLength
<1> QED BY <1>2, <1>3

\* One setter: its types.
LEMMA SetFieldType ==
  ASSUME TypeOK, NEW f \in Fields, NEW v \in ValuesOf(f), SetField(f, v)
  PROVE  TypeOK'
<1>1. net \in Nets /\ kind \in Kinds /\ length \in Nat /\ size \in Nat
  BY DEF TypeOK, Nets, Kinds, HeaderLength
<1>2. Has(kind, f) /\ End(kind, f) <= length /\ adu \in [0 .. length - 1 -> Byte]
  BY DEF SetField, TypeOK
<1>3. adu' \in [0 .. length - 1 -> Byte]
  BY <1>1, <1>2, PutLemma DEF SetField
<1>4. End(kind, f) \in Nat
  BY <1>1, <1>2, PlaceLemma
<1>5. size' \in 0 .. length
  BY <1>1, <1>2, <1>4, LargerLemma DEF SetField, TypeOK
<1>6. last' \in [Fields -> Known]
  <2>1. last \in [Fields -> Known] /\ v \in Uint16
    BY ValuesLemma DEF TypeOK, Known
  <2> QED BY <2>1, NotedType DEF SetField
<1>7. calls' \in 0 .. MaxCalls
  BY CallsType DEF SetField
<1> QED
  BY <1>3, <1>5, <1>6, <1>7, HeaderLemma DEF SetField, TypeOK, Known

\* Of any field, what it reads as in a buffer is a value of it.
LEMMA GetType ==
  ASSUME NEW n \in Nat, NEW a \in [0 .. n - 1 -> Byte], NEW k \in Kinds, net \in Nets,
         n > HeaderLength
  PROVE  Get(a, k, F("function")) \in Byte
<1>1. F("function") \in Fields /\ Has(k, F("function"))
  BY DEF Fields, F, Plain, Has
<1>2. Place(k, F("function")) = HeaderLength
  BY <1>1, LayoutLemma DEF Layout, F
<1>3. HeaderLength \in 0 .. n - 1
  BY DEF HeaderLength
<1> QED BY <1>2, <1>3 DEF Get, IsWord, IsBit, Words, F

\* Initially every variable has a value of its type.
LEMMA InitType == Init => TypeOK
<1> SUFFICES ASSUME Init PROVE TypeOK
  OBVIOUS
<1>1. length \in HeaderLength + 1 .. MaxBuffer
  BY HeaderLemma DEF Init
<1>2. adu \in [0 .. length - 1 -> Byte]
  BY FrameAssumption DEF Init, Fresh, Byte
<1>3. size \in 0 .. length /\ calls \in 0 .. MaxCalls
  <2>1. MaxCalls \in Nat
    BY FrameAssumption
  <2> QED BY <1>1, <2>1, HeaderLemma DEF Init
<1>4. last \in [Fields -> Known]
  BY DEF Init, NothingKnown, Known
<1> QED
  <2>1. nextId \in Uint16
    BY WordFacts DEF Init
  <2>2. net \in {"Tcp", "Rtu"} /\ kind \in {"request", "response"} /\ done \in BOOLEAN
    BY DEF Init
  <2> QED BY <1>1, <1>2, <1>3, <1>4, <2>1, <2>2, Zenon DEF TypeOK

\* setExceptionCode: its types.
LEMMA SetExceptionCodeType ==
  ASSUME TypeOK, NEW code \in Byte, SetExceptionCode(code)
  PROVE  TypeOK'
<1> DEFINE fn == F("function")
           ex == F("exceptionCode")
           flagged == Flagged(Get(adu, kind, fn))
           a == Put(adu, kind, fn, flagged)
<1>1. net \in Nets /\ kind \in Kinds /\ length \in Nat /\ size \in Nat /\ length > HeaderLength
  BY DEF TypeOK, Nets, Kinds, HeaderLength
<1>2. /\ fn \in Fields /\ ex \in Fields /\ kind = "response"
      /\ Has(kind, fn) /\ Has(kind, ex) /\ End(kind, ex) <= length
      /\ ValuesOf(fn) = Byte /\ ValuesOf(ex) = Byte
  BY DEF SetExceptionCode, Fields, Plain, F, Has, ValuesOf, IsWord, IsBit, Words
<1>3. /\ End(kind, fn) = HeaderLength + 1 /\ End(kind, ex) = HeaderLength + 2
  BY <1>1, <1>2, LayoutLemma DEF Layout, F
<1>4. Get(adu, kind, fn) \in Byte
  BY <1>1, GetType DEF TypeOK
<1>5. flagged \in Byte
  BY <1>4 DEF Flagged, Byte
<1> HIDE DEF flagged, a, fn, ex
<1>6. a \in [0 .. length - 1 -> Byte]
  <2>1. adu \in [0 .. length - 1 -> Byte] /\ End(kind, fn) <= length
    BY <1>1, <1>3, HeaderLemma DEF TypeOK
  <2> QED BY <1>1, <1>2, <1>5, <2>1, PutLemma DEF a
<1>7. adu' = Put(a, kind, ex, code)
  BY DEF SetExceptionCode, a, flagged, fn, ex
<1>8. adu' \in [0 .. length - 1 -> Byte]
  BY <1>1, <1>2, <1>6, <1>7, PutLemma
<1>9. size' \in 0 .. length
  <2>1. size' = Larger(size, End(kind, ex)) /\ End(kind, ex) \in Nat
    BY <1>3 DEF SetExceptionCode, ex, HeaderLength
  <2> QED BY <1>1, <1>2, <2>1, LargerLemma DEF TypeOK
<1>10. last' \in [Fields -> Known]
  <2>1. last' = Noted(Noted(last, kind, fn, flagged), kind, ex, code)
    BY DEF SetExceptionCode, flagged, fn, ex
  <2>2. flagged \in Uint16 /\ code \in Uint16 /\ last \in [Fields -> Known]
    BY <1>5, WordFacts DEF TypeOK, Known
  <2>3. Noted(last, kind, fn, flagged) \in [Fields -> Known]
    BY <1>2, <2>2, NotedType
  <2> QED BY <1>2, <2>1, <2>2, <2>3, NotedType
<1>11. calls' \in 0 .. MaxCalls
  BY CallsType DEF SetExceptionCode
<1> QED
  BY <1>8, <1>9, <1>10, <1>11, HeaderLemma DEF SetExceptionCode, TypeOK, Known

\* clear: its types.
LEMMA ClearType == TypeOK /\ Clear => TypeOK'
<1> SUFFICES ASSUME TypeOK, Clear PROVE TypeOK'
  OBVIOUS
<1> DEFINE grown == [i \in 0 .. MaxLength - 1 |-> IF i < length THEN adu[i] ELSE 0]
<1>1. length' = MaxLength /\ MaxLength \in HeaderLength + 1 .. MaxBuffer
  BY HeaderLemma DEF Clear
<1>2. grown \in [0 .. MaxLength - 1 -> Byte]
  <2>1. \A i \in 0 .. MaxLength - 1 : i < length => adu[i] \in Byte
    BY <1>1 DEF TypeOK, HeaderLength
  <2> QED BY <2>1 DEF Byte
<1>3. adu' = grown \/ adu' = [grown EXCEPT ![6] = 255]
  BY DEF Clear
<1> HIDE DEF grown
<1>4. adu' \in [0 .. length' - 1 -> Byte]
  BY <1>1, <1>2, <1>3, WordFacts
<1>5. size' \in 0 .. length'
  <2>1. size' \in {0, 7} /\ (size' = 7 => HeaderLength = 7)
    BY DEF Clear, HeaderLength
  <2>2. length' \in Nat /\ length' > HeaderLength
    BY <1>1, HeaderLemma
  <2> QED BY <2>1, <2>2
<1>6. last' \in [Fields -> Known]
  BY WordFacts DEF Clear, NothingKnown, Known
<1>7. net' = net /\ HeaderLength' = HeaderLength /\ calls' \in 0 .. MaxCalls
  BY HeaderLemma, CallsType DEF Clear
<1> QED
  BY <1>1, <1>4, <1>5, <1>6, <1>7 DEF Clear, TypeOK

\* The CRC of the first bytes of the buffer is a word: the remainder of their division.
LEMMA CrcOfBytes ==
  ASSUME NEW l \in Nat, NEW a \in [0 .. l - 1 -> Byte], NEW n \in Nat, n <= l
  PROVE  crc16(Bytes(a, n)) = Remainder(Bytes(a, n)) /\ crc16(Bytes(a, n)) \in Uint16
<1>1. \A i \in 1 .. n : a[i - 1] \in Byte
  OBVIOUS
<1>2. Bytes(a, n) \in [1 .. n -> Byte]
  BY <1>1 DEF Bytes
<1>3. Bytes(a, n) \in Seq(Byte)
  BY <1>2
<1> QED BY <1>3, Crc16IsRemainder

\* prepareToSend: its types.
LEMMA PrepareType == TypeOK /\ PrepareToSend => TypeOK'
<1> SUFFICES ASSUME TypeOK, PrepareToSend PROVE TypeOK'
  OBVIOUS
<1> DEFINE n == length
           Buffers == [0 .. n - 1 -> Byte]
<1>1. /\ n \in Nat /\ size \in Nat /\ size <= n /\ n <= 65535
      /\ adu \in Buffers /\ nextId \in Uint16 /\ size > HeaderLength
  BY DEF TypeOK, PrepareToSend, PduSize, HeaderLength, MaxBuffer
<1>4. calls' \in 0 .. MaxCalls
  BY CallsType DEF PrepareToSend
<1>2. CASE PrepareTcp
  <2>1. n > 7 /\ size - HeaderLength + 1 \in Uint16 /\ 0 \in Uint16
    <3>1. n > 7 /\ size - HeaderLength + 1 \in Nat /\ size - HeaderLength + 1 <= 65535
      BY <1>1, <1>2 DEF PrepareTcp, HeaderLength
    <3> QED BY <3>1, WordFacts
  <2>2. \A a \in Buffers, at \in {0, 2, 4}, v \in Uint16 : SetWord(a, at, v) \in Buffers
    BY <1>1, <2>1, SetWordLemma DEF Written
  <2> HIDE DEF Buffers
  <2>3. adu' \in Buffers
    BY <1>1, <1>2, <2>1, <2>2 DEF PrepareTcp, Header
  <2>4. nextId' \in Uint16
    <3>1. nextId + 1 \in Nat
      BY <1>1, WordFacts
    <3> QED BY <1>1, <1>2, <3>1, WordFacts DEF PrepareTcp
  <2>5. last' \in [Fields -> Known] /\ size' = size
    BY <1>1, <1>2 DEF PrepareTcp, TypeOK, Known
  <2> QED
    BY <1>4, <2>3, <2>4, <2>5, HeaderLemma DEF PrepareToSend, TypeOK, Buffers
<1>3. CASE PrepareRtu
  <2>1. PICK crc \in Uint16 : adu' = SetWord(adu, size, crc)
    <3>1. crc16(Bytes(adu, size)) \in Uint16
      BY <1>1, CrcOfBytes
    <3> QED BY <1>3, <3>1 DEF PrepareRtu
  <2>2. size + 2 <= n
    BY <1>3 DEF PrepareRtu
  <2>3. adu' \in Buffers
    BY <1>1, <2>1, <2>2, SetWordLemma DEF Written
  <2>4. size' \in 0 .. length /\ nextId' = nextId /\ last' = last
    BY <1>1, <1>3, <2>2 DEF PrepareRtu
  <2> QED
    BY <1>4, <2>3, <2>4, HeaderLemma DEF PrepareToSend, TypeOK
<1> QED BY <1>2, <1>3 DEF PrepareToSend

\* The buffer holds bytes, the size of the message is within it, and the transaction
\* identifier is a word.
THEOREM TypeCorrect == Spec => []TypeOK
<1>1. TypeOK /\ [Next]_vars => TypeOK'
  <2> SUFFICES ASSUME TypeOK, [Next]_vars PROVE TypeOK'
    OBVIOUS
  <2>1. ASSUME NEW f \in Frames, FromBytes(f) PROVE TypeOK'
    <3>1. f.n \in 0 .. MaxBuffer /\ f.bytes \in [0 .. f.n - 1 -> Byte] /\ f.n > HeaderLength
      BY <2>1, FrameAssumption DEF FromBytes
    <3>2. calls' \in 0 .. MaxCalls
      BY <2>1, CallsType DEF FromBytes
    <3>3. last' \in [Fields -> Known]
      BY <2>1 DEF FromBytes, NothingKnown, Known
    <3> QED
      <4>1. nextId' \in Uint16
        BY <2>1, WordFacts DEF FromBytes
      <4>2. net' \in {"Tcp", "Rtu"} /\ kind' \in {"request", "response"} /\ done' \in BOOLEAN
        BY <2>1 DEF FromBytes, TypeOK
      <4>3. /\ HeaderLength' = HeaderLength
            /\ length' \in HeaderLength + 1 .. MaxBuffer
            /\ size' \in 0 .. length'
            /\ adu' \in [0 .. length' - 1 -> Byte]
        BY <2>1, <3>1, HeaderLemma DEF FromBytes
      <4> QED BY <3>2, <3>3, <4>1, <4>2, <4>3, Zenon DEF TypeOK
  <2>2. ASSUME NEW f \in Frames, SetPdu(f) PROVE TypeOK'
    <3>1. f.n \in 0 .. MaxBuffer /\ f.bytes \in [0 .. f.n - 1 -> Byte]
      BY FrameAssumption
    <3>2. \A i \in 0 .. length - 1 :
            i \in HeaderLength .. HeaderLength + f.n - 1 => f.bytes[i - HeaderLength] \in Byte
      <4>1. HeaderLength \in Nat /\ f.n \in Nat
        BY <3>1, HeaderLemma
      <4>2. ASSUME NEW i \in HeaderLength .. HeaderLength + f.n - 1
            PROVE  i - HeaderLength \in 0 .. f.n - 1
        BY <4>1
      <4> QED BY <3>1, <4>2
    <3>3. adu' \in [0 .. length - 1 -> Byte]
      <4> DEFINE Of(i) == IF i \in HeaderLength .. HeaderLength + f.n - 1
                          THEN f.bytes[i - HeaderLength] ELSE adu[i]
      <4>1. adu' = [i \in 0 .. length - 1 |-> Of(i)]
        BY <2>2 DEF SetPdu
      <4>2. \A i \in 0 .. length - 1 : adu[i] \in Byte
        BY DEF TypeOK
      <4>3. \A i \in 0 .. length - 1 : Of(i) \in Byte
        BY <3>2, <4>2
      <4> HIDE DEF Of
      <4> QED BY <4>1, <4>3
    <3>4. size' \in 0 .. length
      <4>1. HeaderLength \in Nat
        BY HeaderLemma
      <4>2. HeaderLength + f.n <= length /\ size' = HeaderLength + f.n
        BY <2>2 DEF SetPdu
      <4>3. f.n \in Nat
        BY <3>1
      <4>4. size' \in Nat /\ size' <= length
        BY <4>1, <4>2, <4>3
      <4> QED BY <4>4 DEF TypeOK
    <3>5. last' \in [Fields -> Known]
      BY <2>2 DEF SetPdu, TypeOK, Within, Known
    <3>6. calls' \in 0 .. MaxCalls
      BY <2>2, CallsType DEF SetPdu
    <3> QED
      BY <2>2, <3>3, <3>4, <3>5, <3>6, HeaderLemma DEF SetPdu, TypeOK
  <2>3. ASSUME NEW f \in Fields, SetValue(f) \/ SetBit(f) PROVE TypeOK'
    <3>1. PICK v \in ValuesOf(f) : SetField(f, v)
      BY <2>3, FrameAssumption DEF SetValue, SetBit, ValuesOf, IsBit, IsWord, Words
    <3> QED BY <3>1, SetFieldType
  <2>4. ASSUME NEW code \in ByteValues, SetExceptionCode(code) PROVE TypeOK'
    BY <2>4, FrameAssumption, SetExceptionCodeType
  <2>5. ASSUME NEW n \in 0 .. length, SetSize(n) PROVE TypeOK'
    <3>1. calls' \in 0 .. MaxCalls
      BY <2>5, CallsType DEF SetSize
    <3>2. size' \in 0 .. length
      BY <2>5, HeaderLemma DEF SetSize, TypeOK
    <3>3. last' \in [Fields -> Known]
      BY <2>5 DEF SetSize, TypeOK, Within, Known
    <3> QED BY <2>5, <3>1, <3>2, <3>3, HeaderLemma DEF SetSize, TypeOK
  <2>6. CASE Clear
    BY <2>6, ClearType
  <2>7. CASE Respond
    <3>1. calls' \in 0 .. MaxCalls
      BY <2>7, CallsType DEF Respond
    <3>2. last' \in [Fields -> Known]
      BY <2>7 DEF Respond, TypeOK, Known
    <3> QED BY <2>7, <3>1, <3>2, HeaderLemma DEF Respond, TypeOK
  <2>8. CASE PrepareToSend
    BY <2>8, PrepareType
  <2>9. CASE UNCHANGED vars
    BY <2>9, HeaderLemma DEF vars, TypeOK
  <2>10. ASSUME NEW code \in ByteValues, New(code) PROVE TypeOK'
    <3>1. /\ net' = net /\ HeaderLength' = HeaderLength /\ HeaderLength \in {1, 7}
          /\ MaxLength \in HeaderLength + 1 .. MaxBuffer
      BY <2>10, HeaderLemma DEF New
    <3>2. adu' \in [0 .. MaxLength - 1 -> Byte]
      BY <2>10, FrameAssumption DEF New, Fresh, Byte
    <3>3. kind' \in {"request", "response"} /\ done' \in BOOLEAN /\ net' \in {"Tcp", "Rtu"}
      BY <2>10 DEF New, TypeOK
    <3>7. length' = MaxLength /\ size' \in 0 .. MaxLength
      BY <2>10, <3>1 DEF New
    <3>4. nextId' \in Uint16
      BY <2>10, WordFacts DEF New
    <3>5. last' \in [Fields -> Known]
      BY <2>10 DEF New, NothingKnown, Known
    <3>6. calls' \in 0 .. MaxCalls
      BY <2>10, CallsType DEF New
    <3> QED BY <3>1, <3>2, <3>3, <3>4, <3>5, <3>6, <3>7, Zenon DEF TypeOK
  <2>11. ASSUME NEW f \in Frames, Receive(f) PROVE TypeOK'
    <3>1. f.n \in 0 .. MaxBuffer /\ f.bytes \in [0 .. f.n - 1 -> Byte]
      BY FrameAssumption
    <3>6. \A i \in 0 .. length - 1 : i < f.n => f.bytes[i] \in Byte
      BY <3>1
    <3>2. adu' \in [0 .. length - 1 -> Byte]
      BY <2>11, <3>6 DEF Receive, TypeOK
    <3>3. size' \in 0 .. length
      <4>1. f.n \in Nat /\ length \in Nat /\ f.n <= length
        BY <2>11, <3>1, HeaderLemma DEF Receive, TypeOK
      <4>2. size' = f.n \/ (f.n > 2 /\ size' = f.n - 2)
        BY <2>11 DEF Receive
      <4> QED BY <4>1, <4>2
    <3>4. last' \in [Fields -> Known]
      BY <2>11 DEF Receive, NothingKnown, Known
    <3>5. calls' \in 0 .. MaxCalls
      BY <2>11, CallsType DEF Receive
    <3> QED BY <2>11, <3>2, <3>3, <3>4, <3>5, HeaderLemma DEF Receive, TypeOK
  <2> QED
    BY <2>1, <2>2, <2>3, <2>4, <2>5, <2>6, <2>7, <2>8, <2>9, <2>10, <2>11 DEF Next
<1> QED BY <1>1, InitType, PTL DEF Spec

-----------------------------------------------------------------------------
(* A field reads as it was set.                                             *)

\* What field f of a message of kind k reads as, when a value was noted.
Right(k, f, noted, got) ==
  \/ got = noted
  \/ noted = WrittenOver /\ k = "response" /\ f.name \in {"function", "byteCount", "bit"}

\* ReadsBack of a buffer, a kind, the values noted and a size.
Reads(a, k, h, z) ==
  \A f \in Fields :
    h[f] # Unknown => Has(k, f) /\ End(k, f) <= z /\ Right(k, f, h[f], Get(a, k, f))

\* ReadsBack is about the four variables; the network does not change.
LEMMA ReadsLemma ==
  /\ ReadsBack <=> Reads(adu, kind, last, size)
  /\ net' = net /\ Reads(adu', kind', last', size') => ReadsBack'
<1>1. ReadsBack <=> Reads(adu, kind, last, size)
  BY DEF ReadsBack, Reads, Right
<1>2. ASSUME net' = net, Reads(adu', kind', last', size') PROVE ReadsBack'
  BY <1>2 DEF ReadsBack, Reads, Right, Has, End, Place, Get, HeaderLength
<1> QED BY <1>1, <1>2

\* What a setter does to the values that fields read as.
LEMMA SetterLemma ==
  ASSUME NEW n \in Nat, NEW a \in [0 .. n - 1 -> Byte], NEW k \in Kinds, net \in Nets,
         NEW h \in [Fields -> Known], NEW z \in Nat, z <= n, Reads(a, k, h, z),
         NEW f \in Fields, Has(k, f), End(k, f) <= n, NEW v \in ValuesOf(f)
  PROVE  Reads(Put(a, k, f, v), k, Noted(h, k, f, v), Larger(z, End(k, f)))
<1> DEFINE b == Put(a, k, f, v)
           i == Noted(h, k, f, v)
           w == Larger(z, End(k, f))
<1>1. End(k, f) \in Nat
  BY PlaceLemma
<1>2. w \in Nat /\ w >= z /\ w >= End(k, f)
  BY <1>1, LargerLemma
<1>3. Get(b, k, f) = v
  BY PutLemma
<1>4. \A g \in Fields :
        i[g] = IF g = f THEN v
               ELSE IF ~Together(k, f, g) \/ h[g] = Unknown THEN Unknown
               ELSE IF Overlap(k, f, g) THEN WrittenOver
               ELSE h[g]
  BY DEF Noted
<1> HIDE DEF b, i, w
<1>5. SUFFICES ASSUME NEW g \in Fields, i[g] # Unknown
               PROVE  Has(k, g) /\ End(k, g) <= w /\ Right(k, g, i[g], Get(b, k, g))
  BY DEF Reads, b, i, w
<1>6. CASE g = f
  BY <1>2, <1>3, <1>4, <1>6 DEF Right
<1>7. CASE g # f
  <2>1. Together(k, f, g) /\ h[g] # Unknown
    BY <1>4, <1>5, <1>7
  <2>2. Has(k, g) /\ End(k, g) <= z /\ Right(k, g, h[g], Get(a, k, g))
    BY <1>5, <2>1 DEF Reads
  <2>3. End(k, g) \in Nat
    BY <2>2, PlaceLemma
  <2>4. End(k, g) <= n /\ End(k, g) <= w
    BY <1>2, <2>2, <2>3
  <2>5. CASE Overlap(k, f, g)
    <3>1. i[g] = WrittenOver
      BY <1>4, <1>7, <2>1, <2>5
    <3>2. k = "response" /\ g.name \in {"function", "byteCount", "bit"}
      BY <2>5 DEF Overlap, LiesOver, Overlaid, F, IsBit
    <3> QED BY <2>2, <2>4, <3>1, <3>2 DEF Right
  <2>6. CASE ~Overlap(k, f, g)
    <3>1. Get(b, k, g) = Get(a, k, g)
      BY <1>7, <2>1, <2>2, <2>4, <2>6, PutOther DEF b
    <3>2. i[g] = h[g]
      BY <1>4, <1>7, <2>1, <2>6
    <3> QED BY <2>2, <2>4, <3>1, <3>2
  <2> QED BY <2>5, <2>6
<1> QED BY <1>6, <1>7

\* One setter.
LEMMA SetFieldReads ==
  ASSUME TypeOK, ReadsBack, NEW f \in Fields, NEW v \in ValuesOf(f), SetField(f, v)
  PROVE  ReadsBack'
<1>1. /\ net \in Nets /\ kind \in Kinds /\ length \in Nat /\ size \in Nat /\ size <= length
      /\ adu \in [0 .. length - 1 -> Byte] /\ last \in [Fields -> Known]
  BY HeaderLemma DEF TypeOK, Nets, Kinds, Known
<1>2. /\ Has(kind, f) /\ End(kind, f) <= length /\ net' = net /\ kind' = kind
      /\ adu' = Put(adu, kind, f, v) /\ last' = Noted(last, kind, f, v)
      /\ size' = Larger(size, End(kind, f))
  BY DEF SetField
<1>3. Reads(adu, kind, last, size)
  BY ReadsLemma
<1>4. Reads(Put(adu, kind, f, v), kind, Noted(last, kind, f, v), Larger(size, End(kind, f)))
  BY <1>1, <1>2, <1>3, SetterLemma
<1>5. Reads(adu', kind', last', size')
  BY <1>2, <1>4
<1> QED BY <1>2, <1>5, ReadsLemma

\* setExceptionCode sets the function code and then the exception code.
LEMMA SetExceptionCodeReads ==
  ASSUME TypeOK, ReadsBack, NEW code \in Byte, SetExceptionCode(code)
  PROVE  ReadsBack'
<1> DEFINE fn == F("function")
           ex == F("exceptionCode")
           flagged == Flagged(Get(adu, kind, fn))
           a == Put(adu, kind, fn, flagged)
           h == Noted(last, kind, fn, flagged)
           z == Larger(size, End(kind, fn))
<1>1. /\ net \in Nets /\ kind \in Kinds /\ length \in Nat /\ size \in Nat /\ size <= length
      /\ adu \in [0 .. length - 1 -> Byte] /\ last \in [Fields -> Known] /\ length > HeaderLength
  BY HeaderLemma DEF TypeOK, Nets, Kinds, Known
<1>2. /\ fn \in Fields /\ ex \in Fields /\ kind = "response"
      /\ Has(kind, fn) /\ Has(kind, ex) /\ End(kind, ex) <= length
      /\ ValuesOf(fn) = Byte /\ ValuesOf(ex) = Byte
  BY DEF SetExceptionCode, Fields, Plain, F, Has, ValuesOf, IsWord, IsBit, Words
<1>3. End(kind, fn) = HeaderLength + 1 /\ End(kind, ex) = HeaderLength + 2
  BY <1>1, <1>2, LayoutLemma DEF Layout, F
<1>4. flagged \in Byte
  <2>1. Get(adu, kind, fn) \in Byte
    BY <1>1, GetType
  <2> QED BY <2>1 DEF Flagged, Byte
<1>5. /\ net' = net /\ kind' = kind /\ adu' = Put(a, kind, ex, code)
      /\ last' = Noted(h, kind, ex, code) /\ size' = Larger(size, End(kind, ex))
  BY DEF SetExceptionCode
<1> HIDE DEF fn, ex, flagged, a, h, z
<1>6. End(kind, fn) \in Nat /\ End(kind, fn) <= length /\ End(kind, ex) \in Nat
  BY <1>1, <1>3, HeaderLemma
<1>7. Reads(a, kind, h, z)
  <2>1. Reads(adu, kind, last, size)
    BY ReadsLemma
  <2> QED BY <1>1, <1>2, <1>4, <1>6, <2>1, SetterLemma DEF a, h, z
<1>8. a \in [0 .. length - 1 -> Byte]
  BY <1>1, <1>2, <1>4, <1>6, PutLemma DEF a
<1>9. h \in [Fields -> Known]
  <2>1. flagged \in Uint16
    BY <1>4, WordFacts
  <2> QED BY <1>1, <1>2, <2>1, NotedType DEF h
<1>10. z \in Nat /\ z <= length
  BY <1>1, <1>6, LargerLemma DEF z
<1>11. Reads(Put(a, kind, ex, code), kind, Noted(h, kind, ex, code), Larger(z, End(kind, ex)))
  BY <1>1, <1>2, <1>7, <1>8, <1>9, <1>10, SetterLemma
<1>12. Larger(z, End(kind, ex)) = size'
  BY <1>1, <1>3, <1>5, HeaderLemma DEF Larger, z
<1>13. Reads(adu', kind', last', size')
  BY <1>5, <1>11, <1>12
<1> QED BY <1>5, <1>13, ReadsLemma

\* clear: only the unit of Tcp is known, the others are forgotten.
LEMMA ClearReads == TypeOK /\ Clear => ReadsBack'
<1> SUFFICES ASSUME TypeOK, Clear PROVE ReadsBack'
  OBVIOUS
<1>1. CASE net = "Tcp"
  <2> DEFINE u == F("slave")
  <2>1. /\ u \in Fields /\ net \in Nets /\ kind \in Kinds
        /\ Has(kind, u) /\ ~IsWord(u) /\ ~IsBit(u)
    BY <1>1 DEF Fields, F, Plain, Has, IsWord, IsBit, Words, TypeOK, Nets, Kinds
  <2>2. Place(kind, u) = 6 /\ End(kind, u) = 7
    BY <1>1, <2>1, LayoutLemma DEF Layout, F, HeaderLength
  <2>3. MaxLength > 7 /\ MaxLength \in Nat
    BY <1>1, HeaderLemma DEF HeaderLength
  <2>4. adu'[6] = 255 /\ size' = 7 /\ net' = net /\ kind' = kind
    BY <1>1, <2>3 DEF Clear
  <2>5. last' = [NothingKnown EXCEPT ![u] = 255]
    BY <1>1 DEF Clear
  <2>6. \A g \in Fields : last'[g] # Unknown => g = u
    BY <2>5 DEF NothingKnown
  <2>7. last'[u] = 255
    BY <2>1, <2>5 DEF NothingKnown
  <2>8. Get(adu', kind, u) = 255
    BY <2>1, <2>2, <2>4 DEF Get
  <2> HIDE DEF u
  <2>9. Reads(adu', kind, last', size')
    BY <2>1, <2>2, <2>4, <2>6, <2>7, <2>8 DEF Reads, Right
  <2> QED BY <2>4, <2>9, ReadsLemma
<1>2. CASE net # "Tcp"
  BY <1>2 DEF Clear, ReadsBack, NothingKnown
<1> QED BY <1>1, <1>2

\* setSize and setPdu: what is known lies before the end, and before the PDU.
LEMMA SizeReads ==
  ASSUME TypeOK, ReadsBack,
         \/ \E n \in 0 .. length : SetSize(n)
         \/ \E f \in Frames : SetPdu(f)
  PROVE  ReadsBack'
<1>1. /\ net \in Nets /\ kind \in Kinds /\ length \in Nat /\ size \in Nat /\ size <= length
      /\ adu \in [0 .. length - 1 -> Byte] /\ HeaderLength \in Nat
  BY HeaderLemma DEF TypeOK, Nets, Kinds
<1>2. Reads(adu, kind, last, size)
  BY ReadsLemma
<1>3. /\ net' = net /\ kind' = kind /\ size' \in Nat
      /\ \E e \in {HeaderLength, size'} :
           /\ last' = Within(last, kind, e)
           /\ e <= size'
           /\ \A j \in 0 .. length - 1 : j < e => adu'[j] = adu[j]
  <2>1. ASSUME NEW n \in 0 .. length, SetSize(n) PROVE <1>3!:
    BY <1>1, <2>1 DEF SetSize
  <2>2. ASSUME NEW f \in Frames, SetPdu(f) PROVE <1>3!:
    BY <1>1, <2>2, FrameAssumption DEF SetPdu
  <2> QED BY <2>1, <2>2
<1>4. PICK e \in {HeaderLength, size'} :
           /\ last' = Within(last, kind, e)
           /\ e <= size'
           /\ \A j \in 0 .. length - 1 : j < e => adu'[j] = adu[j]
  BY <1>3
<1>5. e \in Nat /\ size' \in Nat
  BY <1>1, <1>3
<1>6. \A g \in Fields : last'[g] = IF Has(kind, g) /\ End(kind, g) <= e THEN last[g] ELSE Unknown
  BY <1>4 DEF Within
<1>7. SUFFICES ASSUME NEW g \in Fields, last'[g] # Unknown
               PROVE  /\ Has(kind, g) /\ End(kind, g) <= size'
                      /\ Right(kind, g, last'[g], Get(adu', kind, g))
  BY <1>3, ReadsLemma DEF Reads
<1>8. Has(kind, g) /\ End(kind, g) <= e /\ last'[g] = last[g]
  BY <1>6, <1>7
<1>9. Right(kind, g, last[g], Get(adu, kind, g)) /\ End(kind, g) <= size
  BY <1>2, <1>7, <1>8 DEF Reads
<1>10. Place(kind, g) \in Nat /\ End(kind, g) \in Nat
  BY <1>1, <1>8, PlaceLemma
<1>11. \A j \in Place(kind, g) .. End(kind, g) - 1 : adu'[j] = adu[j]
  BY <1>1, <1>4, <1>5, <1>8, <1>9, <1>10
<1>12. Get(adu', kind, g) = Get(adu, kind, g)
  BY <1>1, <1>8, <1>11, GetSame
<1>13. End(kind, g) <= size'
  BY <1>4, <1>5, <1>8, <1>10
<1> QED BY <1>8, <1>9, <1>12, <1>13

\* A response reads the header, the function code and what follows it where the request
\* has them.
LEMMA RespondReads == TypeOK /\ ReadsBack /\ Respond => ReadsBack'
<1> SUFFICES ASSUME TypeOK, ReadsBack, Respond PROVE ReadsBack'
  OBVIOUS
<1> DEFINE Shared == Common \cup {F("startingAddress"), F("quantity")}
<1>1. /\ kind = "request" /\ kind' = "response" /\ net' = net /\ adu' = adu /\ size' = size
      /\ \A g \in Fields : last'[g] = IF g \in Shared THEN last[g] ELSE Unknown
  BY DEF Respond
<1>2. SUFFICES ASSUME NEW g \in Fields, last'[g] # Unknown
               PROVE  /\ Has(kind', g) /\ End(kind', g) <= size'
                      /\ Right(kind', g, last'[g], Get(adu', kind', g))
  BY <1>1, ReadsLemma DEF Reads
<1>3. g \in Shared /\ last'[g] = last[g]
  BY <1>1, <1>2
<1>4. Has("request", g) /\ End("request", g) <= size /\ Get(adu, "request", g) = last[g]
  BY <1>1, <1>2, <1>3 DEF ReadsBack
<1>5. Has("response", g)
  BY <1>3, <1>4 DEF Has, Common, F
<1>6. Place("response", g) = Place("request", g)
  BY <1>3 DEF Place, RequestOffset, ResponseOffset, Common, F
<1>7. End("response", g) = End("request", g) /\ Get(adu, "response", g) = Get(adu, "request", g)
  BY <1>6 DEF End, Get
<1> QED BY <1>1, <1>3, <1>4, <1>5, <1>7 DEF Right

\* prepareToSend writes the transaction identifier, bytes of the header that are no field,
\* or what follows the message.
LEMMA PrepareReads == TypeOK /\ ReadsBack /\ PrepareToSend => ReadsBack'
<1> SUFFICES ASSUME TypeOK, ReadsBack, PrepareToSend PROVE ReadsBack'
  OBVIOUS
<1> DEFINE t == F("transactionIdentifier")
           Buffers == [0 .. length - 1 -> Byte]
<1>1. /\ net \in Nets /\ kind \in Kinds /\ length \in Nat /\ size \in Nat /\ size <= length
      /\ adu \in Buffers /\ nextId \in Uint16 /\ last \in [Fields -> Known]
      /\ size > HeaderLength /\ length <= 65535
  BY HeaderLemma DEF TypeOK, Nets, Kinds, Known, PrepareToSend, PduSize, MaxBuffer
<1>2. net' = net /\ kind' = kind
  BY DEF PrepareToSend
<1>3. SUFFICES ASSUME NEW g \in Fields, last'[g] # Unknown
               PROVE  /\ Has(kind, g) /\ End(kind, g) <= size'
                      /\ Right(kind, g, last'[g], Get(adu', kind, g))
  BY <1>2, ReadsLemma DEF Reads
<1>4. last[g] # Unknown =>
        Has(kind, g) /\ End(kind, g) <= size /\ Right(kind, g, last[g], Get(adu, kind, g))
  BY ReadsLemma DEF Reads
<1>5. Has(kind, g) => Place(kind, g) \in Nat /\ End(kind, g) \in Nat
  BY <1>1, PlaceLemma
<1>6. CASE PrepareTcp
  <2> DEFINE b == IF kind = "request" THEN SetWord(SetWord(adu, 0, nextId), 2, 0) ELSE adu
             c == SetWord(adu, 0, nextId)
             l == size - HeaderLength + 1
  <2>1. adu' = SetWord(b, 4, l) /\ size' = size
    BY <1>6 DEF PrepareTcp, Header
  <2>2. HeaderLength = 7 /\ length > 7 /\ l \in Nat /\ l <= 65535
    BY <1>1, <1>6 DEF PrepareTcp, HeaderLength
  <2>3. l \in Uint16 /\ 0 \in Uint16
    BY <2>2, WordFacts
  <2> HIDE DEF l, c
  <2>4. Written(length, adu, 0, nextId, c)
    BY <1>1, <2>2, SetWordLemma DEF c
  <2>5. c \in Buffers
    BY <2>4 DEF Written
  <2>6. Written(length, c, 2, 0, SetWord(c, 2, 0))
    BY <1>1, <2>2, <2>3, <2>5, SetWordLemma
  <2>7. b \in Buffers /\ \A j \in 0 .. length - 1 : j > 3 => b[j] = adu[j]
    BY <1>1, <2>4, <2>6 DEF Written, c
  <2>8. kind = "request" => b[0] * 256 + b[1] = nextId
    BY <1>1, <2>2, <2>4, <2>6 DEF Written, c
  <2>9. kind = "response" => b = adu
    OBVIOUS
  <2> HIDE DEF b
  <2>10. Written(length, b, 4, l, adu')
    BY <1>1, <2>1, <2>2, <2>3, <2>7, SetWordLemma
  <2>11. CASE g = t
    <3>1. Has(kind, g) /\ IsWord(g)
      BY <1>6, <2>11 DEF Has, F, PrepareTcp, IsWord, Words
    <3>2. Place(kind, g) = 0 /\ End(kind, g) = 2
      BY <1>1, <2>11, <3>1, LayoutLemma DEF Layout, F
    <3>3. adu'[0] = b[0] /\ adu'[1] = b[1]
      BY <1>1, <2>2, <2>10 DEF Written
    <3>4. Get(adu', kind, g) = b[0] * 256 + b[1]
      BY <3>1, <3>2, <3>3 DEF Get
    <3>5. CASE kind = "request"
      <4>1. last'[g] = nextId
        BY <1>1, <1>3, <1>6, <2>11, <3>5 DEF PrepareTcp
      <4> QED BY <1>1, <2>1, <2>2, <2>8, <3>1, <3>2, <3>4, <3>5, <4>1 DEF Right
    <3>6. CASE kind = "response"
      <4>1. last'[g] = last[g]
        BY <1>6, <3>6 DEF PrepareTcp
      <4>2. Get(adu, kind, g) = adu[0] * 256 + adu[1]
        BY <3>1, <3>2 DEF Get
      <4> QED BY <1>3, <1>4, <2>1, <2>9, <3>4, <3>6, <4>1, <4>2
    <3> QED BY <1>1, <3>5, <3>6 DEF Kinds
  <2>12. CASE g # t
    <3>1. last'[g] = last[g]
      BY <1>1, <1>6, <2>12 DEF PrepareTcp
    <3>2. g.name # "transactionIdentifier"
      BY <2>12, FieldShape DEF F, Plain
    <3>3. Has(kind, g) /\ Layout(kind, g.name, g.index, Place(kind, g), End(kind, g))
      BY <1>1, <1>3, <1>4, <3>1, LayoutLemma
    <3>4. g.index \in Nat /\ g.index \div 8 \in Nat /\ g.name \in Plain \cup {"register", "bit"}
      BY FieldShape, SMTT(30)
    <3>5. Has(kind, g) /\ (g.name = "value" => kind = "request") /\ (g.name = "exceptionCode" => kind = "response")
      BY <1>1, <3>3 DEF Has, Kinds
    <3>6. Place(kind, g) >= 6
      BY <1>1, <2>2, <3>2, <3>3, <3>4, <3>5, SMTT(30) DEF Layout, Plain, Kinds
    <3>7. \A j \in Place(kind, g) .. End(kind, g) - 1 : adu'[j] = adu[j]
      BY <1>1, <1>3, <1>4, <1>5, <2>7, <2>10, <3>1, <3>6 DEF Written
    <3>8. Get(adu', kind, g) = Get(adu, kind, g)
      BY <1>1, <3>3, <3>7, GetSame
    <3> QED BY <1>3, <1>4, <2>1, <3>1, <3>8
  <2> QED BY <2>11, <2>12
<1>7. CASE PrepareRtu
  <2>1. PICK crc \in Uint16 : adu' = SetWord(adu, size, crc)
    <3>1. crc16(Bytes(adu, size)) \in Uint16
      BY <1>1, CrcOfBytes
    <3> QED BY <1>7, <3>1 DEF PrepareRtu
  <2>2. size + 2 <= length /\ size' = size + 2 /\ last' = last
    BY <1>7 DEF PrepareRtu
  <2>3. Written(length, adu, size, crc, adu')
    BY <1>1, <2>1, <2>2, SetWordLemma
  <2>4. Has(kind, g) /\ End(kind, g) <= size /\ Right(kind, g, last[g], Get(adu, kind, g))
    BY <1>3, <1>4, <2>2
  <2>5. \A j \in Place(kind, g) .. End(kind, g) - 1 : adu'[j] = adu[j]
    BY <1>1, <1>5, <2>3, <2>4 DEF Written
  <2>6. Get(adu', kind, g) = Get(adu, kind, g)
    BY <1>1, <2>4, <2>5, GetSame
  <2> QED BY <1>1, <1>5, <2>2, <2>4, <2>6
<1> QED BY <1>6, <1>7 DEF PrepareToSend

\* A field that was set reads as it was set, whatever fields of the same PDU were set
\* since, when the message was prepared and when a response was made of it; all but what
\* the bits of a response and its function code and byte count put over each other.
THEOREM ReadsBackCorrect == Spec => []ReadsBack
<1>1. Init => ReadsBack
  BY DEF Init, ReadsBack, NothingKnown
<1>2. TypeOK /\ ReadsBack /\ [Next]_vars => ReadsBack'
  <2> SUFFICES ASSUME TypeOK, ReadsBack, [Next]_vars PROVE ReadsBack'
    OBVIOUS
  <2>1. ASSUME NEW f \in Frames, FromBytes(f) PROVE ReadsBack'
    BY <2>1 DEF FromBytes, ReadsBack, NothingKnown
  <2>2. ASSUME NEW f \in Frames, SetPdu(f) PROVE ReadsBack'
    BY <2>2, SizeReads
  <2>3. ASSUME NEW f \in Fields, SetValue(f) \/ SetBit(f) PROVE ReadsBack'
    <3>1. PICK v \in ValuesOf(f) : SetField(f, v)
      BY <2>3, FrameAssumption DEF SetValue, SetBit, ValuesOf, IsBit, IsWord, Words
    <3> QED BY <3>1, SetFieldReads
  <2>4. ASSUME NEW code \in ByteValues, SetExceptionCode(code) PROVE ReadsBack'
    BY <2>4, FrameAssumption, SetExceptionCodeReads
  <2>5. ASSUME NEW n \in 0 .. length, SetSize(n) PROVE ReadsBack'
    BY <2>5, SizeReads
  <2>6. CASE Clear
    BY <2>6, ClearReads
  <2>7. CASE Respond
    BY <2>7, RespondReads
  <2>8. CASE PrepareToSend
    BY <2>8, PrepareReads
  <2>9. CASE UNCHANGED vars
    <3>1. net' = net /\ Reads(adu', kind', last', size')
      BY <2>9, ReadsLemma DEF vars
    <3> QED BY <3>1, ReadsLemma
  <2>10. ASSUME NEW code \in ByteValues, New(code) PROVE ReadsBack'
    BY <2>10 DEF New, ReadsBack, NothingKnown
  <2>11. ASSUME NEW f \in Frames, Receive(f) PROVE ReadsBack'
    BY <2>11 DEF Receive, ReadsBack, NothingKnown
  <2> QED
    BY <2>1, <2>2, <2>3, <2>4, <2>5, <2>6, <2>7, <2>8, <2>9, <2>10, <2>11 DEF Next
<1> QED BY <1>1, <1>2, TypeCorrect, PTL DEF Spec

-----------------------------------------------------------------------------
(* A message that is ready to send.                                         *)

\* What prepareToSend leaves is a frame.
LEMMA PrepareCompletes == TypeOK /\ PrepareToSend => FrameComplete'
<1> SUFFICES ASSUME TypeOK, PrepareToSend PROVE FrameComplete'
  OBVIOUS
<1> DEFINE Buffers == [0 .. length - 1 -> Byte]
<1>1. /\ net \in Nets /\ kind \in Kinds /\ length \in Nat /\ size \in Nat /\ size <= length
      /\ adu \in Buffers /\ nextId \in Uint16 /\ size > HeaderLength /\ length <= 65535
  BY HeaderLemma DEF TypeOK, Nets, Kinds, PrepareToSend, PduSize, MaxBuffer
<1>2. net' = net /\ kind' = kind
  BY DEF PrepareToSend
<1>3. CASE PrepareTcp
  <2> DEFINE b == IF kind = "request" THEN SetWord(SetWord(adu, 0, nextId), 2, 0) ELSE adu
             c == SetWord(adu, 0, nextId)
             l == size - HeaderLength + 1
  <2>1. adu' = SetWord(b, 4, l) /\ size' = size /\ net = "Tcp"
    BY <1>3 DEF PrepareTcp, Header
  <2>2. HeaderLength = 7 /\ length > 7 /\ l \in Nat /\ l <= 65535 /\ l = size - 6 /\ size > 7
    BY <1>1, <1>3 DEF PrepareTcp, HeaderLength
  <2>3. l \in Uint16 /\ 0 \in Uint16
    BY <2>2, WordFacts
  <2> HIDE DEF l, c
  <2>4. Written(length, adu, 0, nextId, c)
    BY <1>1, <2>2, SetWordLemma DEF c
  <2>5. c \in Buffers
    BY <2>4 DEF Written
  <2>6. Written(length, c, 2, 0, SetWord(c, 2, 0))
    BY <1>1, <2>2, <2>3, <2>5, SetWordLemma
  <2>7. b \in Buffers
    BY <1>1, <2>6 DEF Written, c
  <2>8. kind = "request" => b[2] * 256 + b[3] = 0
    BY <2>6 DEF Written, c
  <2> HIDE DEF b
  <2>9. Written(length, b, 4, l, adu')
    BY <1>1, <2>1, <2>2, <2>3, <2>7, SetWordLemma
  <2>10. adu'[4] * 256 + adu'[5] = size - 6
    BY <2>2, <2>9 DEF Written
  <2>11. adu'[2] = b[2] /\ adu'[3] = b[3] /\ b[2] \in Byte /\ b[3] \in Byte
    BY <1>1, <2>2, <2>7, <2>9 DEF Written
  <2>12. kind = "request" => adu'[2] = 0 /\ adu'[3] = 0
    <3>1. ASSUME NEW x \in Nat, NEW y \in Nat, x * 256 + y = 0 PROVE x = 0 /\ y = 0
      BY <3>1, SMTT(30)
    <3>2. b[2] \in Nat /\ b[3] \in Nat
      BY <2>11 DEF Byte
    <3> QED BY <2>8, <2>11, <3>1, <3>2
  <2> QED BY <1>2, <2>1, <2>2, <2>10, <2>12 DEF FrameComplete
<1>4. CASE PrepareRtu
  <2> DEFINE crc == crc16(Bytes(adu, size))
  <2>1. crc \in Uint16 /\ adu' = SetWord(adu, size, crc)
    <3>1. crc \in Uint16
      BY <1>1, CrcOfBytes
    <3> QED BY <1>4, <3>1 DEF PrepareRtu
  <2>2. size + 2 <= length /\ size' = size + 2 /\ net = "Rtu" /\ size > 1
    BY <1>1, <1>4 DEF PrepareRtu, HeaderLength
  <2> HIDE DEF crc
  <2>3. Written(length, adu, size, crc, adu')
    BY <1>1, <2>1, <2>2, SetWordLemma
  <2>4. Bytes(adu', size) = Bytes(adu, size)
    <3>1. \A i \in 1 .. size : adu'[i - 1] = adu[i - 1]
      BY <1>1, <2>2, <2>3 DEF Written
    <3> QED BY <3>1 DEF Bytes
  <2>5. size' - 2 = size /\ size' - 1 = size + 1 /\ size' > 3
    BY <1>1, <2>2
  <2>6. adu'[size] * 256 + adu'[size + 1] = crc
    BY <2>3 DEF Written
  <2>7. adu'[size' - 2] * 256 + adu'[size' - 1] = Remainder(Bytes(adu', size' - 2))
    <3>1. crc = Remainder(Bytes(adu, size))
      BY <1>1, CrcOfBytes DEF crc
    <3> QED BY <2>4, <2>5, <2>6, <3>1
  <2>8. net' # "Tcp"
    BY <1>2, <2>2
  <2>9. Bytes(adu, size - 2)' = Bytes(adu', size' - 2)
    BY DEF Bytes
  <2> QED BY <2>5, <2>7, <2>8, <2>9 DEF FrameComplete
<1> QED BY <1>3, <1>4 DEF PrepareToSend

\* What prepareToSend completed is a frame, until the message is changed: what it appends to
\* an RTU message is the remainder of the division that the protocol asks for, of every
\* message that fits in the buffer.
THEOREM FrameCompleteCorrect == Spec => []FrameComplete
<1>1. Init => FrameComplete
  BY DEF Init, FrameComplete
<1>2. TypeOK /\ FrameComplete /\ [Next]_vars => FrameComplete'
  <2> SUFFICES ASSUME TypeOK, FrameComplete, [Next]_vars PROVE FrameComplete'
    OBVIOUS
  <2>1. CASE PrepareToSend
    BY <2>1, PrepareCompletes
  <2>2. CASE UNCHANGED vars
    BY <2>2 DEF vars, FrameComplete, Bytes
  <2>3. CASE Next /\ ~PrepareToSend
    <3>1. done' = FALSE
      BY <2>3 DEF Next, New, FromBytes, Receive, SetPdu, SetValue, SetBit, SetField,
           SetExceptionCode, SetSize, Clear, Respond
    <3> QED BY <3>1 DEF FrameComplete
  <2> QED BY <2>1, <2>2, <2>3
<1> QED BY <1>1, <1>2, TypeCorrect, PTL DEF Spec
=============================================================================
