------------------------------ MODULE BlockMap ------------------------------
(***************************************************************************)
(* One block of a buffered slave: BufferedSlave::setBlock and the          *)
(* set...Block functions of src/src/bufferedslave.cpp, which allocate it,  *)
(* change its size and release it, and the writes of items in between.     *)
(*                                                                         *)
(* Coils and discrete inputs ("bits") take a byte each, registers two, and *)
(* the address of the items to clear is computed from that.                *)
(***************************************************************************)
EXTENDS Integers

CONSTANTS MaxItems,    \* bound on the number of items of the block
          MaxStart,    \* bound on the PDU address the block starts at
          Values,      \* of an item, 0 among them
          Setups       \* the tables and addressing modes that are considered

Setup == [kind : {"bits", "registers"}, pdu : BOOLEAN]

ASSUME BlockMapAssumption ==
  /\ MaxItems \in Nat /\ MaxStart \in Nat
  /\ 0 \in Values
  /\ Setups \subseteq Setup

VARIABLES
  setup,
  alloc,    \* items tab_... points to; 0 when it is NULL
  item,     \* what they hold, by offset
  count,    \* nb_...
  start,    \* start_...
  ret,      \* what the last setBlock returned
  failed,   \* history: realloc returned NULL, and no later call allocated the block
  beyond    \* history: items behind the end of the block were written

vars == <<setup, alloc, item, count, start, ret, failed, beyond>>

Sizes == 0 .. MaxItems
Offsets == 0 .. MaxItems - 1
Contents == [Offsets -> Values]

TypeOK ==
  /\ setup \in Setups
  /\ alloc \in Sizes
  /\ item \in Contents
  /\ count \in Sizes
  /\ start \in 0 .. MaxStart
  /\ ret \in Sizes \cup {-1}
  /\ failed \in BOOLEAN
  /\ beyond \in BOOLEAN

\* modbus_mapping_new (0, 0, 0, 0)
Init ==
  /\ setup \in Setups
  /\ alloc = 0
  /\ item = [o \in Offsets |-> 0]
  /\ count = 0
  /\ start = 0
  /\ ret = 0
  /\ failed = FALSE
  /\ beyond = FALSE

\* Mutant: the other way round.
PduAddress_DataAddress(a) == IF setup.pdu THEN a ELSE a + 1

\* Slave::pduAddress
PduAddress(a) == IF setup.pdu THEN a ELSE a - 1

\* The addresses setBlock may be given: -1 stands for the first.
StartAddresses ==
  {-1} \cup (IF setup.pdu THEN 0 .. MaxStart ELSE 1 .. MaxStart + 1)
FirstAddress(a) == IF a < 0 THEN IF setup.pdu THEN 0 ELSE 1 ELSE a

\* Mutant: the first of the new items is forgotten.
ClearedFrom_Next == IF setup.kind = "bits" THEN count + 1 ELSE 2 * count

\* Where memset starts when the block grows: &tab_bits[nb], &tab_registers[nb * 2]
ClearedFrom == IF setup.kind = "bits" THEN count ELSE 2 * count

-----------------------------------------------------------------------------
(* Allocation.                                                              *)

\* Mutant: calloc in place of realloc.
Resized_Fresh(n, c) ==
  {f \in Contents : \A o \in Offsets : o >= n \/ o \in c => f[o] = 0}

\* What the block may hold after realloc to n items and the clearing of those in c:
\* the items both sizes have are kept, those it adds hold anything if not cleared.
Resized(n, c) ==
  {f \in Contents :
     \A o \in Offsets : /\ o >= n \/ o \in c => f[o] = 0
                        /\ o < n /\ o \notin c /\ o < alloc => f[o] = item[o]}

Returned(n, a) ==
  /\ count' = n
  /\ start' = PduAddress(FirstAddress(a))
  /\ ret' = n
  /\ UNCHANGED setup

\* Mutant: tab_... is not set to NULL, and points to what was freed.
Release_Dangling(a) ==
  /\ UNCHANGED <<alloc, item, beyond, failed>>
  /\ Returned(0, a)

\* setBlock of no item frees the block.
Release(a) ==
  /\ alloc' = 0
  /\ item' = [o \in Offsets |-> 0]
  /\ failed' = FALSE
  /\ UNCHANGED beyond
  /\ Returned(0, a)

\* setBlock of as many items as there are moves the block, and allocates nothing,
\* even when an allocation failed before.
Move(a) ==
  /\ count # 0
  /\ UNCHANGED <<alloc, item, failed, beyond>>
  /\ Returned(count, a)

\* calloc of a block that does not exist.
Allocate(n, a) ==
  /\ n # 0 /\ n # count
  /\ alloc = 0
  /\ alloc' = n
  /\ item' = [o \in Offsets |-> 0]
  /\ failed' = FALSE
  /\ UNCHANGED beyond
  /\ Returned(n, a)

\* realloc of one that does; when it grows, memset clears as many items as were added.
Resize(n, a) ==
  /\ n # 0 /\ n # count
  /\ alloc # 0
  /\ alloc' = n
  /\ IF n > count
     THEN LET last == ClearedFrom + (n - count) - 1 IN
            /\ item' \in Resized(n, ClearedFrom .. last)
            /\ beyond' = (beyond \/ last >= n)
     ELSE item' \in Resized(n, {}) /\ UNCHANGED beyond
  /\ failed' = FALSE
  /\ Returned(n, a)

\* There is no memory: realloc leaves the old block alone, but its only pointer is
\* overwritten, and the number of items is not.
NoMemory(n) ==
  /\ n # 0 /\ n # count
  /\ alloc' = 0
  /\ item' = [o \in Offsets |-> 0]
  /\ failed' = (failed \/ alloc # 0)
  /\ ret' = -1
  /\ UNCHANGED <<setup, count, start, beyond>>

-----------------------------------------------------------------------------
\* writeCoils, writeRegisters: memcpy to the part of the block the address is in.
Write(o, v) ==
  /\ o < count /\ alloc # 0
  /\ item' = [item EXCEPT ![o] = v]
  /\ UNCHANGED <<setup, alloc, count, start, ret, failed, beyond>>

SetBlock ==
  \E a \in StartAddresses :
    \/ Release(a)
    \/ Move(a)
    \/ \E n \in Sizes : Allocate(n, a) \/ Resize(n, a) \/ NoMemory(n)

Next ==
  \/ SetBlock
  \/ \E o \in Offsets, v \in Values : Write(o, v)

Spec == Init /\ [][Next]_vars
-----------------------------------------------------------------------------
(* Properties.                                                              *)

\* The number of items is that of the block the pointer leads to, whatever the
\* sequence of calls; a realloc that failed, and nothing else, leaves the old number
\* without a block.
CountMatches == IF failed THEN alloc = 0 /\ count # 0 ELSE alloc = count

\* bufferedslave.h:75 says that setBlock returns the "number of elements actually allocated,
\* -1 if error". It does, or there is no block behind the number it returns: a call that asks
\* for as many items as there were when realloc failed is told that it has them.
ReturnMatches ==
  \/ ret = alloc
  \/ ret = -1 /\ alloc = 0
  \/ failed /\ ret = count

\* What setBlock leaves and returns, after any sequence of calls and of failures of malloc.
BlockAllocated == CountMatches /\ ReturnMatches

\* A call that changes the size keeps the items that both sizes have, in their order.
KeepsItems ==
  count' # count /\ alloc' # 0 =>
    \A o \in Offsets : o < alloc /\ o < alloc' => item'[o] = item[o]

\* Coils and discrete inputs that a call adds are off.
NewBitsOff ==
  setup.kind = "bits" =>
    \A o \in Offsets : alloc <= o /\ o < alloc' => item'[o] = 0

\* What a block holds after setBlock changed its size: the items that it had, and
\* behind them bits that are off.
ResizeSound == [][KeepsItems /\ NewBitsOff]_vars

\* bufferedslave.h:74 says "The block has nmeb elements": nothing is written behind
\* them.
WritesStayInBlock == ~beyond
=============================================================================
