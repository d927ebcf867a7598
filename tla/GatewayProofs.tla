--------------------------- MODULE GatewayProofs ---------------------------
(***************************************************************************)
(* Theorems about Gateway, for every block, every size of the device and   *)
(* every set of values.                                                    *)
(***************************************************************************)
EXTENDS Gateway, TLAPS

-----------------------------------------------------------------------------
(* What the definitions say of the values they are given.                   *)

\* The setup is one of those allowed, whose fields are numbers and Booleans.
LEMMA SetupType ==
  ASSUME TypeOK
  PROVE  /\ setup \in Setup
         /\ setup.start \in Nat
         /\ setup.size \in Nat
         /\ setup.pdu \in BOOLEAN
BY GatewayAssumption DEF TypeOK, Setup

\* A request has an address, a count, and as much data as it writes.
LEMMA RequestType ==
  ASSUME NEW r \in Requests
  PROVE  /\ r.addr \in Nat
         /\ r.nb \in Counts
         /\ r.nb \in Nat /\ r.nb >= 1
         /\ r.fn \in {"write", "mask", "writeread"} => r.data \in Items(r.nb)
         /\ r.data \in Lists
         /\ r.fn = "writeread" => r.to \in Nat
         /\ r.fn \in {"read", "write", "mask", "writeread", "none"}
<1>0. /\ Addresses \subseteq Nat /\ Counts \subseteq Nat /\ 1 \in Counts
      /\ \A n \in Counts : n >= 1
  BY GatewayAssumption DEF Addresses, Counts, Last
<1>1. CASE r \in ReadRequests
  BY <1>0, <1>1 DEF ReadRequests, Lists
<1>4. CASE r = NoRequest
  BY <1>0, <1>4 DEF NoRequest, Lists
<1>2. CASE r \in WriteRequests
  <2>1. PICK n \in Counts :
          r \in [fn : {"write"}, addr : Addresses, nb : {n}, data : Items(n)]
    BY <1>2 DEF WriteRequests
  <2>2. Items(n) \subseteq Lists
    BY DEF Lists
  <2> QED BY <1>0, <2>1, <2>2
<1>5. Items(1) \subseteq Lists
  BY <1>0 DEF Lists
<1>3. CASE r \in MaskRequests
  BY <1>0, <1>3, <1>5 DEF MaskRequests
<1>6. CASE r \in WriteReadRequests
  BY <1>0, <1>5, <1>6 DEF WriteReadRequests
<1> QED
  BY <1>1, <1>2, <1>3, <1>4, <1>6 DEF Requests

\* The bounds readFromDevice and writeToDevice apply (bufferedslave.cpp:106-113):
\* whatever was asked for, what is copied lies in the block; and it is what was
\* asked for when that lies in the block. An empty block is left by one item.
LEMMA Clamp ==
  ASSUME TypeOK, NEW at \in Nat, NEW n \in Nat, n >= 1
  PROVE  LET s == ClampedStart(at)
             c == ClampedCount(at, n)
         IN /\ s \in Int /\ c \in Nat /\ 1 <= c
            /\ setup.size >= 1 => s \in Nat /\ c <= n /\ InBlock(s, c)
            /\ setup.size = 0 => s = setup.start - 1 /\ c = 1 /\ ~InBlock(s, c)
            /\ InBlock(at, n) => s = at /\ c = n /\ setup.size >= 1
<1>1. /\ setup.start \in Nat /\ setup.size \in Nat
  BY SetupType
<1>2. CASE setup.size >= 1
  <2>1. /\ ClampedStart(at) \in Nat
        /\ setup.start <= ClampedStart(at)
        /\ ClampedStart(at) <= setup.start + setup.size - 1
        /\ setup.start <= at /\ at < setup.start + setup.size => ClampedStart(at) = at
    BY <1>1, <1>2 DEF ClampedStart, Smaller, Larger
  <2> QED
    BY <1>1, <1>2, <2>1 DEF ClampedCount, Smaller, InBlock
<1>3. CASE setup.size = 0
  <2>1. ClampedStart(at) = setup.start - 1
    BY <1>1, <1>3 DEF ClampedStart, Smaller, Larger
  <2> QED
    BY <1>1, <1>3, <2>1 DEF ClampedCount, Smaller, InBlock
<1> QED
  BY <1>1, <1>2, <1>3

\* The device address is a number of two bytes; for an address of a block it is the one that
\* stands for it.
LEMMA DeviceAddressType ==
  ASSUME TypeOK, NEW s \in Int
  PROVE  /\ DeviceAddress(s) \in Nat
         /\ s >= 0 => DeviceAddress(s) = AskedAt(s)
<1>3. /\ PduAddress(0) = IF setup.pdu THEN 0 ELSE -1
      /\ PduAddress(1) = IF setup.pdu THEN 1 ELSE 0
  BY SetupType DEF PduAddress
<1>4. /\ setup.pdu /\ s # -1 => DeviceAddress(s) = 0
      /\ setup.pdu /\ s = -1 => DeviceAddress(s) = 1
      /\ ~setup.pdu /\ s # 0 => DeviceAddress(s) = Last
      /\ ~setup.pdu /\ s = 0 => DeviceAddress(s) = 0
  <2>1. CASE setup.pdu
    BY <1>3, <2>1 DEF DeviceAddress, OnTheWire, Last
  <2>2. CASE ~setup.pdu
    BY <1>3, <2>2 DEF DeviceAddress, OnTheWire, Last
  <2> QED BY <2>1, <2>2
<1> QED
  BY <1>4, SetupType DEF AskedAt, Last

\* A slice that lies in the domain of f has n of its values.
LEMMA SliceType ==
  ASSUME NEW D, NEW f \in [D -> Values], NEW at \in Int, NEW n \in Nat,
         at .. at + n - 1 \subseteq D
  PROVE  Slice(f, at, n) \in Items(n)
<1> SUFFICES ASSUME NEW i \in 1 .. n PROVE f[at + i - 1] \in Values
  BY DEF Slice, Items
<1>1. at + i - 1 \in D
  OBVIOUS
<1> QED BY <1>1

-----------------------------------------------------------------------------
(* Type correctness.                                                        *)

Pcs == {"idle", "fetch", "before", "reply", "after", "store", "dead"}

\* The setup never changes, so the type of the next state can be stated with the
\* sets of this one.
LEMMA NextType ==
  ASSUME setup' = setup, setup \in Setups,
         mem' \in [BlockAddresses -> Values], dev' \in [DeviceAddresses -> Values],
         devOpen' \in BOOLEAN, pc' \in Pcs, req' \in Requests, answer' \in Answers,
         app' \in Calls, app' # Idle => InBlock(app'.from, app'.nb),
         seen' \in [DeviceAddresses -> Values] \cup {Nothing}
  PROVE  TypeOK'
BY DEF TypeOK, Pcs, Calls, BlockAddresses, DeviceAddresses, InBlock

\* The initial values have their types.
LEMMA InitType == Init => TypeOK
<1> SUFFICES ASSUME Init PROVE TypeOK
  OBVIOUS
<1>1. mem \in [BlockAddresses -> Values]
  BY DEF Init
<1>2. Idle \in Calls
  BY DEF Calls
<1>3. answer \in Answers
  BY DEF Init, NoAnswer, Answers, Lists
<1>4. req \in Requests
  BY DEF Init, Requests
<1> QED
  BY <1>1, <1>2, <1>3, <1>4 DEF Init, TypeOK

\* Every step keeps the type of every variable: the copies between the block and
\* the device stay in both.
LEMMA StepType == TypeOK /\ [Next]_vars => TypeOK'
<1> SUFFICES ASSUME TypeOK, [Next]_vars PROVE TypeOK'
  OBVIOUS
<1>a. /\ setup.start \in Nat /\ setup.size \in Nat
  BY SetupType
<1>b. /\ req \in Requests
      /\ req.addr \in Nat /\ req.nb \in Counts /\ req.nb \in Nat /\ req.nb >= 1
      /\ req.fn \in {"write", "mask", "writeread"} => req.data \in Items(req.nb)
      /\ req.data \in Lists
      /\ req.fn \in {"read", "write", "mask", "writeread", "none"}
      /\ Target \in Nat
  BY RequestType DEF TypeOK, Target
<1>c. /\ BlockAddresses \subseteq Int /\ DeviceAddresses \subseteq Int
      /\ DeviceSize \in Nat
  BY <1>a, GatewayAssumption DEF BlockAddresses, DeviceAddresses, Last
<1>e. /\ setup \in Setups /\ devOpen \in BOOLEAN /\ pc \in Pcs
      /\ answer \in Answers /\ app \in Calls
      /\ seen \in [DeviceAddresses -> Values] \cup {Nothing}
      /\ app # Idle => InBlock(app.from, app.nb)
  BY DEF TypeOK, Pcs
<1>d. /\ mem \in [BlockAddresses -> Values] /\ dev \in [DeviceAddresses -> Values]
  BY DEF TypeOK
<1>s. ASSUME NEW s \in Int, NEW n \in Nat, NEW d \in Int, InDevice(d, n)
      PROVE  Splice(mem, s, dev, d, n) \in [BlockAddresses -> Values]
  <2>1. ASSUME NEW a \in BlockAddresses, s <= a, a <= s + n - 1
        PROVE  dev[d + (a - s)] \in Values
    <3>1. d + (a - s) \in DeviceAddresses
      BY <1>s, <1>c, <2>1 DEF InDevice
    <3> QED BY <1>d, <3>1
  <2> QED BY <1>c, <1>d, <2>1 DEF Splice
<1>t. ASSUME NEW s \in Int, NEW n \in Nat, NEW d \in Int, InBlock(s, n)
      PROVE  Splice(dev, d, mem, s, n) \in [DeviceAddresses -> Values]
  <2>1. ASSUME NEW a \in DeviceAddresses, d <= a, a <= d + n - 1
        PROVE  mem[s + (a - d)] \in Values
    <3>1. s + (a - d) \in BlockAddresses
      BY <1>a, <1>c, <1>t, <2>1 DEF BlockAddresses, InBlock
    <3> QED BY <1>d, <3>1
  <2> QED BY <1>c, <1>d, <2>1 DEF Splice
<1>u. ASSUME NEW at \in Int, NEW n \in Nat, NEW k \in Nat, k <= n, NEW v \in Items(n)
      PROVE  Splice(mem, at, v, 1, k) \in [BlockAddresses -> Values]
  <2>1. ASSUME NEW a \in BlockAddresses, at <= a, a <= at + k - 1
        PROVE  v[1 + (a - at)] \in Values
    BY <1>c, <1>u, <2>1 DEF Items
  <2> QED BY <1>c, <1>d, <2>1 DEF Splice
<1>v. ASSUME NEW a \in BlockAddresses, NEW n \in Counts
      PROVE  /\ CallCount(a, n) \in Counts /\ CallCount(a, n) <= n
             /\ InBlock(a, CallCount(a, n)) /\ a \in Nat /\ n \in Nat
  BY <1>a, GatewayAssumption DEF CallCount, Smaller, Counts, BlockAddresses, InBlock
<1>n. /\ NoRequest \in Requests /\ NoAnswer \in Answers
  BY DEF Requests, NoAnswer, Answers, Lists
<1>1. CASE Arrive
  <2>1. req' \in Requests
    BY <1>1 DEF Arrive, Requests
  <2> QED
    BY <1>1, <2>1, <1>b, <1>d, <1>e, NextType DEF Arrive, Pcs
<1>2. CASE FetchOk
  <2> DEFINE s == ClampedStart(req.addr)
             n == ClampedCount(req.addr, req.nb)
             d == DeviceAddress(s)
  <2>1. s \in Int /\ n \in Nat
    BY <1>b, Clamp
  <2>2. d \in Int
    BY <2>1, DeviceAddressType
  <2>3. mem' \in [BlockAddresses -> Values]
    BY <1>2, <1>s, <2>1, <2>2 DEF FetchOk
  <2>4. pc' \in Pcs
    BY <1>2 DEF FetchOk, Pcs
  <2> HIDE DEF s, n, d
  <2>5. /\ setup' = setup /\ dev' = dev /\ devOpen' = devOpen /\ req' = req
        /\ answer' = answer /\ app' = app /\ seen' = dev
    BY <1>2 DEF FetchOk
  <2> QED
    BY <2>3, <2>4, <2>5, <1>b, <1>d, <1>e, NextType
<1>3. CASE FetchFail \/ FetchNothing
  BY <1>3, <1>b, <1>d, <1>e, <1>n, NextType DEF FetchFail, FetchNothing, End, Pcs
<1>4. CASE Callback("before", "reply") \/ Callback("after", "store")
  BY <1>4, <1>b, <1>d, <1>e, <1>n, NextType DEF Callback, End, Pcs
<1>5. CASE Reply
  <2>1. mem' \in [BlockAddresses -> Values]
    <3>1. req.fn \in {"write", "mask", "writeread"} =>
            Splice(mem, Target, req.data, 1, req.nb) \in [BlockAddresses -> Values]
      BY <1>b, <1>u
    <3>2. \/ mem' = mem
          \/ req.fn \in Writing /\ mem' = Splice(mem, Target, req.data, 1, req.nb)
      BY <1>5 DEF Reply
    <3> QED BY <1>b, <1>d, <3>1, <3>2 DEF Writing
  <2>2. Accepted => Slice(mem', req.addr, req.nb) \in Items(req.nb)
    <3>1. ASSUME Accepted
          PROVE  req.addr .. req.addr + req.nb - 1 \subseteq BlockAddresses
      BY <3>1, <1>a, <1>b DEF Accepted, InBlock, BlockAddresses
    <3> QED BY <3>1, <1>b, <2>1, SliceType
  <2>4. answer' \in Answers
    <3>1. \/ answer' = NoAnswer
          \/ answer' = Exception
          \/ /\ Accepted
             /\ answer' = [kind |-> "ok", values |-> Slice(mem', req.addr, req.nb)]
          \/ answer' = [kind |-> "ok", values |-> req.data]
      BY <1>5, ZenonT(30) DEF Reply, End
    <3>2. Accepted => Slice(mem', req.addr, req.nb) \in Lists
      BY <1>b, <2>2 DEF Lists
    <3>3. \A l \in Lists : [kind |-> "ok", values |-> l] \in Answers
      BY DEF Answers
    <3>4. Exception \in Answers
      BY DEF Exception, Answers, Lists
    <3> QED BY <1>b, <1>n, <3>1, <3>2, <3>3, <3>4
  <2>5. /\ pc' \in Pcs /\ req' \in Requests /\ seen' \in {seen, Nothing}
        /\ setup' = setup /\ dev' = dev /\ devOpen' = devOpen /\ app' = app
    BY <1>5, <1>b, <1>n DEF Reply, End, Pcs
  <2> QED
    BY <2>1, <2>4, <2>5, <1>d, <1>e, NextType
<1>6. CASE Store
  <2> DEFINE s == ClampedStart(req.addr)
             n == ClampedCount(req.addr, req.nb)
             d == DeviceAddress(s)
  <2>1. s \in Int /\ n \in Nat
    BY <1>b, Clamp
  <2>2. d \in Int
    BY <2>1, DeviceAddressType
  <2>3. InBlock(s, n) => Splice(dev, d, mem, s, n) \in [DeviceAddresses -> Values]
    BY <1>t, <2>1, <2>2
  <2>4. dev' = dev \/ (InBlock(s, n) /\ dev' = Splice(dev, d, mem, s, n))
    BY <1>6 DEF Store
  <2> HIDE DEF s, n, d
  <2>5. dev' \in [DeviceAddresses -> Values]
    BY <1>d, <2>3, <2>4
  <2>6. /\ setup' = setup /\ mem' = mem /\ devOpen' = devOpen /\ app' = app
        /\ pc' \in {"idle", "dead"}
        /\ req' \in {req, NoRequest} /\ answer' \in {answer, NoAnswer} /\ seen' \in {seen, Nothing}
    BY <1>6 DEF Store, End
  <2> QED
    BY <2>5, <2>6, <1>b, <1>d, <1>e, <1>n, NextType DEF Pcs
<1>17. CASE StoreNothing
  BY <1>17, <1>b, <1>d, <1>e, <1>n, NextType DEF StoreNothing, End, Pcs
<1>w. ASSUME NEW a \in BlockAddresses, NEW n \in Counts, NEW m \in WrittenBlock(a, n)
      PROVE  m \in [BlockAddresses -> Values]
  <2>1. PICK v \in Items(n) : m = Splice(mem, a, v, 1, CallCount(a, n))
    BY DEF WrittenBlock
  <2>2. /\ CallCount(a, n) \in Nat /\ CallCount(a, n) <= n /\ a \in Nat /\ n \in Nat
    BY <1>v DEF Counts
  <2> QED BY <1>u, <2>1, <2>2
<1>7. CASE AppWrite
  <2>1. PICK a \in BlockAddresses, n \in Counts :
           /\ mem' \in WrittenBlock(a, n)
           /\ app' = IF devOpen THEN [from |-> a, nb |-> CallCount(a, n)] ELSE Idle
    BY <1>7 DEF AppWrite
  <2>2. /\ CallCount(a, n) \in Counts /\ InBlock(a, CallCount(a, n))
    BY <1>v
  <2>3. mem' \in [BlockAddresses -> Values]
    BY <1>w, <2>1
  <2>4. app' \in Calls /\ (app' # Idle => InBlock(app'.from, app'.nb))
    BY <2>1, <2>2 DEF Calls
  <2> QED
    BY <1>7, <2>3, <2>4, <1>b, <1>d, <1>e, NextType DEF AppWrite, Pcs
<1>x. app # Idle =>
        Splice(dev, app.from, mem, app.from, app.nb) \in [DeviceAddresses -> Values]
  <2> SUFFICES ASSUME app # Idle
               PROVE  Splice(dev, app.from, mem, app.from, app.nb)
                        \in [DeviceAddresses -> Values]
    OBVIOUS
  <2>1. app \in [from : BlockAddresses, nb : Counts]
    BY <1>e DEF Calls
  <2>2. app.from \in BlockAddresses /\ app.nb \in Counts
    BY <2>1
  <2>3. app.from \in Int
    BY <2>2, <1>c
  <2>4. app.nb \in Nat
    BY <2>2 DEF Counts
  <2>5. InBlock(app.from, app.nb)
    BY <1>e
  <2> QED BY <1>t, <2>3, <2>4, <2>5
<1>i. Idle \in Calls
  BY DEF Calls
<1>8. CASE AppPush
  <2>1. dev' \in [DeviceAddresses -> Values]
    BY <1>8, <1>d, <1>x DEF AppPush
  <2> QED
    BY <1>8, <2>1, <1>b, <1>d, <1>e, <1>i, NextType DEF AppPush
<1>13. CASE AppPushAndRead
  <2>1. dev' \in [DeviceAddresses -> Values]
    BY <1>13, <1>x DEF AppPushAndRead
  <2>2. mem' \in [BlockAddresses -> Values]
    <3>1. PICK a \in BlockAddresses, n \in Counts :
            /\ InDevice(a, CallCount(a, n))
            /\ mem' = Splice(mem, a, dev', a, CallCount(a, n))
      BY <1>13 DEF AppPushAndRead
    <3>2. CallCount(a, n) \in Nat /\ a \in Int
      BY <1>c, <1>v DEF Counts
    <3>3. ASSUME NEW c \in BlockAddresses, a <= c, c <= a + CallCount(a, n) - 1
          PROVE  dev'[a + (c - a)] \in Values
      <4>1. a + (c - a) \in DeviceAddresses
        BY <1>c, <3>1, <3>2, <3>3 DEF InDevice
      <4> QED BY <2>1, <4>1
    <3> QED BY <1>c, <1>d, <3>1, <3>2, <3>3 DEF Splice
  <2> QED
    BY <1>13, <2>1, <2>2, <1>b, <1>d, <1>e, <1>i, NextType DEF AppPushAndRead, Pcs
<1>14. CASE AppWriteInputs
  <2>1. mem' \in [BlockAddresses -> Values]
    BY <1>14, <1>w DEF AppWriteInputs
  <2> QED
    BY <1>14, <2>1, <1>b, <1>d, <1>e, NextType DEF AppWriteInputs, Pcs
<1>15. CASE UpdateBlockFromSlave
  <2>1. mem' \in [BlockAddresses -> Values]
    BY <1>15, <1>a, <1>s DEF UpdateBlockFromSlave, WholeBlock
  <2> QED
    BY <1>15, <2>1, <1>b, <1>d, <1>e, NextType DEF UpdateBlockFromSlave, Pcs
<1>16. CASE UpdateSlaveFromBlock
  <2>1. InBlock(setup.start, setup.size)
    BY <1>a DEF InBlock
  <2>2. dev' \in [DeviceAddresses -> Values]
    BY <1>16, <1>a, <1>t, <2>1 DEF UpdateSlaveFromBlock, BlockToDevice
  <2> QED
    BY <1>16, <2>2, <1>b, <1>d, <1>e, NextType DEF UpdateSlaveFromBlock, BlockToDevice, Pcs
<1>9. CASE AppRead
  <2>1. mem' \in [BlockAddresses -> Values]
    <3>1. PICK a \in BlockAddresses, n \in Counts :
            /\ InDevice(a, CallCount(a, n))
            /\ mem' = Splice(mem, a, dev, a, CallCount(a, n))
      BY <1>9 DEF AppRead
    <3>2. CallCount(a, n) \in Nat /\ a \in Int
      BY <1>c, <1>v, GatewayAssumption DEF Counts
    <3> QED BY <1>s, <3>1, <3>2
  <2> QED
    BY <1>9, <2>1, <1>b, <1>d, <1>e, NextType DEF AppRead, Pcs
<1>10. CASE MasterOpenClose
  BY <1>10, <1>b, <1>d, <1>e, NextType DEF MasterOpenClose, Pcs
<1>11. CASE DeviceChanges
  BY <1>11, <1>b, <1>d, <1>e, NextType DEF DeviceChanges, Pcs
<1>12. CASE UNCHANGED vars
  BY <1>12, <1>b, <1>d, <1>e, NextType DEF vars, Pcs
<1> QED
  BY <1>1, <1>2, <1>3, <1>4, <1>5, <1>6, <1>7, <1>8, <1>9, <1>10, <1>11, <1>12,
     <1>13, <1>14, <1>15, <1>16, <1>17 DEF Next, ServerStep, AppStep

\* Every variable of Gateway keeps its type, and a call of the application that is
\* on its way to the device lies in the block.
THEOREM TypeCorrect == Spec => []TypeOK
<1> QED BY InitType, StepType, PTL DEF Spec

-----------------------------------------------------------------------------
(* Reads and writes through the slave.                                      *)

\* Until the answer is built, the block holds what the device gave.
Copied ==
  /\ pc \in {"idle", "fetch"} => seen = Nothing
  /\ pc \in {"before", "reply"} /\ seen # Nothing /\ InBlock(req.addr, req.nb) =>
       /\ InDevice(AskedAt(req.addr), req.nb)
       /\ Slice(mem, req.addr, req.nb) = Slice(seen, AskedAt(req.addr), req.nb)

\* The client is answered once, and a request outside the block is refused.
Answered ==
  /\ pc \in {"idle", "fetch", "before", "reply"} => answer.kind = "none"
  /\ pc \in {"after", "store"} /\ answer.kind = "ok" => InBlock(req.addr, req.nb)

\* The process ends over an empty block only.
DeadIsEmpty == pc = "dead" => setup.size = 0

IInv == TypeOK /\ Copied /\ Answered /\ DeadIsEmpty /\ ReadAsAsked

\* The transaction with the device concerns the items of the request, if these are in the
\* block, and the address that stands for the first of them.
LEMMA InPlace ==
  ASSUME TypeOK, InBlock(req.addr, req.nb)
  PROVE  /\ ClampedStart(req.addr) = req.addr
         /\ ClampedCount(req.addr, req.nb) = req.nb
         /\ DeviceAddress(ClampedStart(req.addr)) = AskedAt(req.addr)
<1>1. req.addr \in Nat /\ req.nb \in Nat /\ req.nb >= 1
  BY RequestType DEF TypeOK
<1>2. ClampedStart(req.addr) = req.addr /\ ClampedCount(req.addr, req.nb) = req.nb
  BY <1>1, Clamp
<1> QED
  BY <1>1, <1>2, DeviceAddressType

\* A transfer stays in the block, but for an empty block.
LEMMA ClampedInBlock ==
  ASSUME TypeOK, ~InBlock(ClampedStart(req.addr), ClampedCount(req.addr, req.nb))
  PROVE  setup.size = 0
<1>1. req.addr \in Nat /\ req.nb \in Nat /\ req.nb >= 1
  BY RequestType DEF TypeOK
<1>2. setup.size >= 1 => InBlock(ClampedStart(req.addr), ClampedCount(req.addr, req.nb))
  BY <1>1, Clamp
<1>3. setup.size \in Nat
  BY SetupType
<1> QED BY <1>2, <1>3

\* A block that was just copied holds the values of the device.
LEMMA CopyHolds ==
  ASSUME TypeOK, InBlock(req.addr, req.nb), NEW d \in Int
  PROVE  Slice(Splice(mem, req.addr, dev, d, req.nb), req.addr, req.nb)
           = Slice(dev, d, req.nb)
<1> DEFINE f == Splice(mem, req.addr, dev, d, req.nb)
<1>1. req.addr \in Nat /\ req.nb \in Nat
  BY RequestType DEF TypeOK
<1>2. mem \in [BlockAddresses -> Values] /\ setup.start \in Nat /\ setup.size \in Nat
  BY SetupType DEF TypeOK
<1>3. ASSUME NEW i \in 1 .. req.nb
      PROVE  f[req.addr + i - 1] = dev[d + i - 1]
  <2>1. req.addr + i - 1 \in req.addr .. req.addr + req.nb - 1
    BY <1>1
  <2>2. req.addr .. req.addr + req.nb - 1 \subseteq BlockAddresses
    BY <1>1, <1>2 DEF BlockAddresses, InBlock
  <2>3. ASSUME NEW a \in req.addr .. req.addr + req.nb - 1
        PROVE  f[a] = dev[d + (a - req.addr)]
    BY <1>2, <2>2 DEF Splice
  <2>4. d + ((req.addr + i - 1) - req.addr) = d + i - 1
    BY <1>1
  <2> HIDE DEF f
  <2> QED BY <2>1, <2>3, <2>4
<1> HIDE DEF f
<1>4. Slice(f, req.addr, req.nb) = Slice(dev, d, req.nb)
  BY <1>3 DEF Slice
<1> QED BY <1>4 DEF f

\* The initial state: no request.
LEMMA InitInv == Init => IInv
<1> SUFFICES ASSUME Init PROVE IInv
  OBVIOUS
<1>1. TypeOK
  BY InitType
<1> QED BY <1>1 DEF Init, IInv, Copied, Answered, DeadIsEmpty, ReadAsAsked, NoAnswer

\* Every step keeps the block and the answer in agreement with what the device said.
LEMMA StepInv == IInv /\ [Next]_vars => IInv'
<1> SUFFICES ASSUME IInv, [Next]_vars PROVE IInv'
  OBVIOUS
<1>a. TypeOK /\ TypeOK'
  BY StepType DEF IInv
<1>e. End /\ setup' = setup => IInv'
  BY <1>a DEF IInv, End, Copied, Answered, DeadIsEmpty, ReadAsAsked, NoAnswer
<1>q. ASSUME setup' = setup
      PROVE  /\ \A a, n : InBlock(a, n)' <=> InBlock(a, n)
             /\ \A a, n : InDevice(a, n)' <=> InDevice(a, n)
             /\ \A a : AskedAt(a)' = AskedAt(a)
  BY <1>q DEF InBlock, InDevice, DeviceAddresses, AskedAt
<1> USE DEF Copied, Answered, DeadIsEmpty, ReadAsAsked
<1>f. ASSUME UNCHANGED <<setup, pc, req, answer, seen>>, mem' = mem PROVE IInv'
  BY <1>f, <1>a DEF IInv, InBlock, InDevice, DeviceAddresses, AskedAt
<1>g. ASSUME UNCHANGED <<setup, pc, req, answer>>, seen' = Nothing PROVE IInv'
  BY <1>g, <1>a DEF IInv, InBlock
<1>1. CASE Arrive
  BY <1>1, <1>a DEF Arrive, IInv
<1>2. CASE FetchOk
  <2>1. /\ setup' = setup /\ req' = req /\ answer' = answer /\ answer.kind = "none"
        /\ pc' \in {"before", "dead"} /\ seen' = dev
    BY <1>2 DEF FetchOk, IInv
  <2>2. ASSUME InBlock(req.addr, req.nb)
        PROVE  /\ InDevice(AskedAt(req.addr), req.nb)
               /\ Slice(mem', req.addr, req.nb) = Slice(seen', AskedAt(req.addr), req.nb)
    <3>1. /\ ClampedStart(req.addr) = req.addr
          /\ ClampedCount(req.addr, req.nb) = req.nb
          /\ DeviceAddress(ClampedStart(req.addr)) = AskedAt(req.addr)
      BY <1>a, <2>2, InPlace
    <3>2. /\ InDevice(AskedAt(req.addr), req.nb)
          /\ mem' = Splice(mem, req.addr, dev, AskedAt(req.addr), req.nb)
          /\ seen' = dev
      BY <1>2, <3>1 DEF FetchOk
    <3>3. AskedAt(req.addr) \in Int
      BY DEF AskedAt, Last
    <3> QED BY <1>a, <2>2, <3>2, <3>3, CopyHolds
  <2>3. pc' = "dead" => setup.size = 0
    BY <1>2, <1>a, ClampedInBlock DEF FetchOk
  <2> QED BY <1>a, <1>q, <2>1, <2>2, <2>3 DEF IInv
<1>3. CASE FetchFail \/ FetchNothing
  <2>1. CASE FetchFail
    BY <1>e, <2>1 DEF FetchFail
  <2>2. CASE FetchNothing
    BY <2>2, <1>a DEF FetchNothing, IInv
  <2> QED BY <1>3, <2>1, <2>2
<1>4. CASE Callback("before", "reply") \/ Callback("after", "store")
  <2>1. CASE End
    BY <1>4, <1>e, <2>1 DEF Callback
  <2>2. CASE ~End
    BY <1>4, <1>a, <2>2 DEF Callback, IInv, InBlock, InDevice, DeviceAddresses, AskedAt
  <2> QED BY <2>1, <2>2
<1>5. CASE Reply
  <2>1. /\ pc = "reply" /\ setup' = setup
    BY <1>5 DEF Reply
  <2>2. CASE End
    BY <1>e, <2>1, <2>2
  <2>3. CASE /\ pc' = "after" /\ req' = req /\ seen' = seen
             /\ mem' = IF req.fn \in Writing /\ Accepted
                       THEN Splice(mem, Target, req.data, 1, req.nb) ELSE mem
             /\ answer' = IF ~Accepted THEN Exception
                          ELSE [kind |-> "ok",
                                values |-> IF req.fn \in {"read", "writeread"}
                                           THEN Slice(mem', req.addr, req.nb) ELSE req.data]
    <3>1. CASE ~Accepted
      BY <1>a, <2>1, <2>3, <3>1 DEF IInv, Exception
    <3>2. CASE Accepted
      <4>1. InBlock(req.addr, req.nb) /\ answer'.kind = "ok"
        BY <2>3, <3>2 DEF Accepted
      <4>2. req.fn = "read" => answer'.values = Slice(mem, req.addr, req.nb)
        BY <2>3, <3>2 DEF Writing
      <4> QED BY <1>a, <1>q, <2>1, <2>3, <4>1, <4>2 DEF IInv
    <3> QED BY <3>1, <3>2
  <2> QED BY <1>5, <2>2, <2>3 DEF Reply
<1>6. CASE Store
  <2>1. CASE End
    BY <1>6, <1>e, <2>1 DEF Store
  <2>2. CASE ~End
    <3>1. /\ pc' = "dead" /\ UNCHANGED <<setup, mem, dev, req, answer, seen>>
          /\ ~InBlock(ClampedStart(req.addr), ClampedCount(req.addr, req.nb))
      BY <1>6, <2>2 DEF Store
    <3>2. setup.size = 0
      BY <1>a, <3>1, ClampedInBlock
    <3> QED BY <1>a, <1>q, <3>1, <3>2 DEF IInv
  <2> QED BY <2>1, <2>2
<1>7. CASE StoreNothing
  BY <1>7, <1>e DEF StoreNothing
<1>8. CASE AppStep
  <2>1. CASE AppWrite \/ AppPushAndRead \/ AppWriteInputs \/ AppRead \/ UpdateBlockFromSlave
    BY <2>1, <1>g DEF AppWrite, AppPushAndRead, AppWriteInputs, AppRead, UpdateBlockFromSlave
  <2>2. CASE AppPush \/ UpdateSlaveFromBlock \/ MasterOpenClose
    BY <2>2, <1>f DEF AppPush, UpdateSlaveFromBlock, BlockToDevice, MasterOpenClose
  <2> QED BY <1>8, <2>1, <2>2 DEF AppStep
<1>9. CASE DeviceChanges
  BY <1>9, <1>f DEF DeviceChanges
<1>10. CASE UNCHANGED vars
  BY <1>10, <1>f DEF vars
<1> QED
  BY <1>1, <1>2, <1>3, <1>4, <1>5, <1>6, <1>7, <1>8, <1>9, <1>10 DEF Next, ServerStep

\* What holds in every reachable state.
LEMMA Invariance == Spec => []IInv
BY InitInv, StepInv, PTL DEF Spec

\* readFromDevice and writeToDevice never copy outside the block, for any request, unless
\* the block is empty: then they take the item in front of it, and the process ends over
\* that and over nothing else.
THEOREM TransfersInBlockCorrect == Spec => []TransfersInBlock
<1>1. IInv => TransfersInBlock
  <2> SUFFICES ASSUME IInv PROVE TransfersInBlock
    OBVIOUS
  <2>1. TypeOK /\ req.addr \in Nat /\ req.nb \in Nat /\ req.nb >= 1 /\ setup.size \in Nat
    BY RequestType, SetupType DEF IInv, TypeOK
  <2> DEFINE s == ClampedStart(req.addr)
             n == ClampedCount(req.addr, req.nb)
  <2>2. /\ n \in Nat /\ n >= 1
        /\ setup.size >= 1 => InBlock(s, n)
        /\ setup.size = 0 => s = setup.start - 1 /\ n = 1
    BY <2>1, Clamp
  <2> HIDE DEF s, n
  <2>3. n >= 1 /\ IF setup.size > 0 THEN InBlock(s, n) ELSE s = setup.start - 1 /\ n = 1
    BY <2>1, <2>2
  <2> QED BY <2>3 DEF TransfersInBlock, IInv, DeadIsEmpty, s, n
<1> QED BY <1>1, Invariance, PTL

\* Whatever the addressing and the block, a read is answered with what the device held at the
\* address that is asked for in place of the requested one, in the right places of the answer,
\* unless the application wrote to the block in between.
THEOREM ReadAsAskedCorrect == Spec => []ReadAsAsked
<1>1. IInv => ReadAsAsked
  BY DEF IInv
<1> QED BY <1>1, Invariance, PTL

\* An acknowledged write reaches the device as a whole, from the address that is asked for in
\* place of the requested one and with what the block held, or not at all.
THEOREM WriteAsAskedCorrect == Spec => WriteAsAsked
<1> DEFINE Kept ==
      pc = "store" /\ pc' # "store" /\ answer.kind = "ok" =>
        \/ dev' = dev
        \/ /\ req.fn = "write"
           /\ dev' = Splice(dev, AskedAt(req.addr), mem, req.addr, req.nb)
<1>1. ASSUME IInv, Next, pc = "store", pc' # "store", answer.kind = "ok", dev' # dev
      PROVE  /\ req.fn = "write"
             /\ dev' = Splice(dev, AskedAt(req.addr), mem, req.addr, req.nb)
  <2> DEFINE s == ClampedStart(req.addr)
             n == ClampedCount(req.addr, req.nb)
             d == DeviceAddress(s)
  <2>1. Store
    BY <1>1 DEF Next, ServerStep, Arrive, FetchOk, FetchFail, FetchNothing, Callback, Reply,
                StoreNothing, AppStep, AppWrite, AppPush, AppPushAndRead, AppWriteInputs, AppRead,
                UpdateBlockFromSlave, UpdateSlaveFromBlock, BlockToDevice, MasterOpenClose,
                DeviceChanges
  <2>2. TypeOK /\ InBlock(req.addr, req.nb)
    BY <1>1 DEF IInv, Answered
  <2>3. req.fn = "write" /\ dev' = Splice(dev, d, mem, s, n)
    BY <1>1, <2>1 DEF Store
  <2>4. s = req.addr /\ n = req.nb /\ d = AskedAt(req.addr)
    BY <2>2, InPlace
  <2> QED BY <2>3, <2>4
<1>2. IInv /\ [Next]_vars => [Kept]_vars
  BY <1>1
<1> QED BY <1>2, Invariance, PTL DEF Spec, WriteAsAsked
=============================================================================
