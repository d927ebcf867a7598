--------------------------- MODULE BlockMapProofs ---------------------------
(***************************************************************************)
(* Theorems about BlockMap, for blocks of any size and any values.         *)
(***************************************************************************)
EXTENDS BlockMap, TLAPS

\* The inductive invariant.
IInv == TypeOK /\ BlockAllocated

\* The address setBlock stores is a PDU address, with either way of addressing.
LEMMA StartType ==
  ASSUME TypeOK, NEW a \in StartAddresses
  PROVE  PduAddress(FirstAddress(a)) \in 0 .. MaxStart
<1>1. MaxStart \in Nat /\ setup.pdu \in BOOLEAN
  BY BlockMapAssumption DEF TypeOK, Setup
<1> QED
  BY <1>1 DEF StartAddresses, PduAddress, FirstAddress

\* What realloc and memset leave is a content of the block.
LEMMA ResizedType ==
  ASSUME NEW n, NEW c, NEW f \in Resized(n, c)
  PROVE  /\ f \in Contents
         /\ \A o \in Offsets : /\ o >= n \/ o \in c => f[o] = 0
                               /\ o < n /\ o \notin c /\ o < alloc => f[o] = item[o]
BY DEF Resized

\* A new slave has no block.
LEMMA InitInv == Init => IInv
<1> SUFFICES ASSUME Init PROVE IInv
  OBVIOUS
<1>1. 0 \in Sizes /\ 0 \in 0 .. MaxStart /\ item \in Contents
  BY BlockMapAssumption DEF Init, Sizes, Contents
<1> QED
  BY <1>1 DEF Init, IInv, TypeOK, BlockAllocated, CountMatches, ReturnMatches

\* Every outcome of setBlock, and every write, keeps the number of items that of the
\* block, unless realloc failed.
LEMMA StepInv == IInv /\ [Next]_vars => IInv'
<1> SUFFICES ASSUME IInv, [Next]_vars PROVE IInv'
  OBVIOUS
<1>t. /\ setup \in Setups /\ alloc \in Sizes /\ item \in Contents /\ count \in Sizes
      /\ start \in 0 .. MaxStart /\ ret \in Sizes \cup {-1}
      /\ failed \in BOOLEAN /\ beyond \in BOOLEAN
  BY DEF IInv, TypeOK
<1>0. 0 \in Sizes /\ [o \in Offsets |-> 0] \in Contents
  BY BlockMapAssumption DEF Sizes, Contents
<1>1. ASSUME NEW a \in StartAddresses, Release(a) PROVE IInv'
  <2>1. start' \in 0 .. MaxStart
    BY <1>1, StartType DEF IInv, Release, Returned
  <2> QED
    BY <1>t, <1>0, <1>1, <2>1 DEF IInv, TypeOK, BlockAllocated, CountMatches, ReturnMatches, Release, Returned
<1>2. ASSUME NEW a \in StartAddresses, Move(a) PROVE IInv'
  <2>1. start' \in 0 .. MaxStart
    BY <1>2, StartType DEF IInv, Move, Returned
  <2> QED
    BY <1>t, <1>2, <2>1 DEF IInv, TypeOK, BlockAllocated, CountMatches, ReturnMatches, Move, Returned
<1>3. ASSUME NEW a \in StartAddresses, NEW n \in Sizes, Allocate(n, a) PROVE IInv'
  <2>1. start' \in 0 .. MaxStart
    BY <1>3, StartType DEF IInv, Allocate, Returned
  <2> QED
    BY <1>t, <1>0, <1>3, <2>1 DEF IInv, TypeOK, BlockAllocated, CountMatches, ReturnMatches, Allocate, Returned
<1>4. ASSUME NEW a \in StartAddresses, NEW n \in Sizes, Resize(n, a) PROVE IInv'
  <2>1. start' \in 0 .. MaxStart
    BY <1>4, StartType DEF IInv, Resize, Returned
  <2>2. item' \in Contents
    BY <1>4, ResizedType DEF Resize
  <2>3. beyond' \in BOOLEAN
    BY <1>t, <1>4 DEF Resize
  <2>4. alloc' = n /\ count' = n /\ ret' = n /\ failed' = FALSE /\ setup' = setup
    BY <1>4 DEF Resize, Returned
  <2> QED
    BY <1>t, <2>1, <2>2, <2>3, <2>4 DEF IInv, TypeOK, BlockAllocated, CountMatches, ReturnMatches
<1>5. ASSUME NEW n \in Sizes, NoMemory(n) PROVE IInv'
  <2>1. TypeOK'
    BY <1>t, <1>0, <1>5 DEF TypeOK, NoMemory
  <2>2. BlockAllocated'
    BY <1>5 DEF IInv, BlockAllocated, CountMatches, ReturnMatches, NoMemory, TypeOK, Sizes
  <2> QED BY <2>1, <2>2 DEF IInv
<1>6. ASSUME NEW o \in Offsets, NEW v \in Values, Write(o, v) PROVE IInv'
  BY <1>t, <1>6 DEF IInv, TypeOK, BlockAllocated, CountMatches, ReturnMatches, Write, Contents
<1>7. CASE UNCHANGED vars
  BY <1>7 DEF IInv, TypeOK, BlockAllocated, CountMatches, ReturnMatches, vars
<1> QED
  BY <1>1, <1>2, <1>3, <1>4, <1>5, <1>6, <1>7 DEF Next, SetBlock

\* Each variable has a value of its type, and the block the pointer leads to has as
\* many items as the slave believes, for any sequence of setBlock and any failures of
\* malloc (bufferedslave.cpp:648-800), but for the cases BlockAllocated names.
THEOREM Invariance == Spec => []IInv
<1>1. Init => IInv
  BY InitInv
<1>2. IInv /\ [Next]_vars => IInv'
  BY StepInv
<1> QED
  BY <1>1, <1>2, PTL DEF Spec

\* The block has the type of a table: items, number and address.
THEOREM TypeCorrect == Spec => []TypeOK
<1>1. IInv => TypeOK
  BY DEF IInv
<1> QED
  BY <1>1, Invariance, PTL

\* What setBlock leaves and returns: the number of items is that of the block and of the last
\* call, but after a realloc that failed. Then there is no block, and a call that asks for
\* the items that were lost returns their number (bufferedslave.cpp:771), against
\* bufferedslave.h:75.
THEOREM BlockAllocatedCorrect == Spec => []BlockAllocated
<1>1. IInv => BlockAllocated
  BY DEF IInv
<1> QED
  BY <1>1, Invariance, PTL

\* realloc and the clearing that follows it, at whatever offset, keep the items that
\* were there: memset starts behind them because the block had count items.
LEMMA ItemsAreKept == IInv /\ [Next]_vars => [KeepsItems]_vars
<1>1. ASSUME IInv, [Next]_vars, count' # count, alloc' # 0,
             NEW o \in Offsets, o < alloc, o < alloc'
      PROVE  item'[o] = item[o]
  <2>1. alloc \in Nat /\ count \in Nat /\ o \in Nat
    BY <1>1, BlockMapAssumption DEF IInv, TypeOK, Sizes, Offsets
  <2>2. PICK n \in Sizes, a \in StartAddresses : Resize(n, a)
    BY <1>1, <2>1
       DEF Next, SetBlock, Release, Move, Allocate, NoMemory, Write, Returned, vars
  <2>3. count = alloc /\ alloc' = n /\ o < alloc /\ o < n
    BY <1>1, <2>1, <2>2 DEF IInv, BlockAllocated, CountMatches, ReturnMatches, Resize
  <2>4. ClearedFrom >= count
    BY <2>1 DEF ClearedFrom
  <2>5. ClearedFrom \in Nat
    BY <2>1 DEF ClearedFrom
  <2>6. n \in Nat
    BY BlockMapAssumption DEF Sizes
  <2>7. CASE n > count
    <3>1. item' \in Resized(n, ClearedFrom .. ClearedFrom + (n - count) - 1)
      BY <2>2, <2>7 DEF Resize
    <3>2. o \notin ClearedFrom .. ClearedFrom + (n - count) - 1
      BY <1>1, <2>1, <2>3, <2>4, <2>5
    <3>3. o \notin ClearedFrom .. ClearedFrom + (n - count) - 1 /\ o < alloc /\ o < n
          => item'[o] = item[o]
      BY <1>1, <3>1 DEF Resized
    <3> QED BY <2>3, <3>2, <3>3
  <2>8. CASE ~(n > count)
    <3>1. item' \in Resized(n, {})
      BY <2>2, <2>8 DEF Resize
    <3> QED BY <1>1, <2>3, <3>1, ResizedType
  <2> QED BY <2>7, <2>8
<1> QED
  BY <1>1 DEF KeepsItems

\* The coils and discrete inputs that a call adds are off: memset covers all of them.
LEMMA AddedBitsAreOff == IInv /\ [Next]_vars => [NewBitsOff]_vars
<1>1. ASSUME IInv, [Next]_vars, setup.kind = "bits",
             NEW o \in Offsets, alloc <= o, o < alloc'
      PROVE  item'[o] = 0
  <2>1. alloc \in Nat /\ count \in Nat /\ o \in Nat
    BY <1>1, BlockMapAssumption DEF IInv, TypeOK, Sizes, Offsets
  <2>2. PICK n \in Sizes, a \in StartAddresses : Allocate(n, a) \/ Resize(n, a)
    BY <1>1, <2>1
       DEF Next, SetBlock, Release, Move, NoMemory, Write, Returned, vars
  <2>3. CASE Allocate(n, a)
    BY <2>3 DEF Allocate
  <2>4. CASE Resize(n, a)
    <3>1. count = alloc /\ alloc' = n /\ ClearedFrom = count /\ n \in Nat
      BY <1>1, <2>4, BlockMapAssumption
         DEF IInv, BlockAllocated, CountMatches, ReturnMatches, Resize, ClearedFrom, Sizes
    <3>2. item' \in Resized(n, count .. count + (n - count) - 1)
      BY <1>1, <2>1, <2>4, <3>1 DEF Resize
    <3>3. o \in count .. count + (n - count) - 1
      BY <1>1, <2>1, <3>1
    <3> QED BY <3>2, <3>3, ResizedType
  <2> QED BY <2>2, <2>3, <2>4
<1> QED
  BY <1>1 DEF NewBitsOff

\* setBlock keeps what a block had and adds bits that are off, whatever its sizes.
THEOREM ResizeSoundCorrect == Spec => ResizeSound
<1>1. IInv /\ [Next]_vars => [KeepsItems /\ NewBitsOff]_vars
  BY ItemsAreKept, AddedBitsAreOff
<1> QED
  BY <1>1, Invariance, PTL DEF Spec, ResizeSound
=============================================================================
