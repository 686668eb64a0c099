---------------------------- MODULE FastIpcProofs ----------------------------
(***************************************************************************)
(* The command ring and the channel made of it, for any number of clients, *)
(* slots and connections: what a client is told of its commands, that the  *)
(* channel uses the ring as CommandRing allows, that a completion is       *)
(* published and read whole, and that a client that waits for its response *)
(* is woken.                                                               *)
(***************************************************************************)
EXTENDS FastIpc, Integers, TLAPS

\* The index space is not empty: indices and slots stay in their range.
LEMMA IndicesStay ==
  /\ IndexSpace \in Nat \ {0}
  /\ 0 \in Indices
  /\ \A index \in Indices : Next1(index) \in Indices
  /\ \A index \in Indices : Slot(index) \in 0 .. SlotCount - 1
<1>1. IndexSpace \in Nat \ {0}
  BY RingAssumption
<1>2. 0 \in Indices
  BY <1>1 DEF Indices
<1>3. ASSUME NEW index \in Indices
      PROVE  Next1(index) \in Indices
  <2>1. index + 1 \in Nat
    BY <1>1 DEF Indices
  <2> QED
    BY <1>1, <2>1 DEF Indices, Next1
<1>4. ASSUME NEW index \in Indices
      PROVE  Slot(index) \in 0 .. SlotCount - 1
  <2>1. index \in Nat
    BY <1>1 DEF Indices
  <2> QED
    BY <2>1, RingAssumption DEF Slot
<1> QED
  BY <1>1, <1>2, <1>3, <1>4

(***************************************************************************)
(* Arithmetic of the indices                                               *)
(***************************************************************************)
LEMMA QuotientIsUnique ==
  ASSUME NEW n \in Nat \ {0}, NEW q \in Int, NEW p \in Int,
         NEW r \in 0 .. n - 1, NEW t \in 0 .. n - 1,
         q * n + r = p * n + t
  PROVE  r = t /\ q = p
BY SMT

LEMMA Division ==
  ASSUME NEW n \in Nat \ {0}, NEW x \in Nat
  PROVE  /\ x % n \in 0 .. n - 1
         /\ x \div n \in Nat
         /\ x = (x \div n) * n + (x % n)
BY SMT

LEMMA ModOfMultiple ==
  ASSUME NEW n \in Nat \ {0}, NEW x \in Nat, NEW k \in Nat
  PROVE  (x + k * n) % n = x % n
<1> DEFINE y == x + k * n
<1>1. y \in Nat
  BY SMT
<1>2. /\ y = (y \div n) * n + (y % n)
      /\ y \div n \in Nat /\ y % n \in 0 .. n - 1
  <2> HIDE DEF y
  <2> QED BY <1>1, Division
<1>3. /\ x = (x \div n) * n + (x % n)
      /\ x \div n \in Nat /\ x % n \in 0 .. n - 1
  BY Division
<1>4. y = (k + (x \div n)) * n + (x % n)
  BY <1>3, SMT
<1>5. k + (x \div n) \in Nat
  BY <1>3
<1> DEFINE p == y \div n
           r == y % n
           q == k + (x \div n)
           t == x % n
<1>6. /\ p \in Int /\ q \in Int
      /\ r \in 0 .. n - 1 /\ t \in 0 .. n - 1
      /\ p * n + r = q * n + t
  BY <1>2, <1>3, <1>4, <1>5
<1>7. r = t
  <2> HIDE DEF p, q, r, t
  <2> QED BY <1>6, QuotientIsUnique
<1> QED
  BY <1>7

LEMMA MultiplesApart ==
  ASSUME NEW n \in Nat \ {0}, NEW p \in Nat, NEW q \in Nat, NEW r \in Nat,
         p * n + r < q * n + r
  PROVE  p * n + r + n <= q * n + r
<1>1. p < q
  BY SMT
<1>2. p + 1 <= q
  BY <1>1
<1>3. (p + 1) * n <= q * n
  BY <1>2, SMT
<1>4. (p + 1) * n = p * n + n
  BY SMT
<1> QED
  BY <1>3, <1>4, SMT

\* Two indices less than a ring apart have slots of their own.
LEMMA SlotsDiffer ==
  ASSUME NEW x \in Nat, NEW i \in Nat, NEW j \in Nat, i < j, j < i + SlotCount
  PROVE  Slot(x + i) # Slot(x + j)
<1> SUFFICES ASSUME Slot(x + i) = Slot(x + j) PROVE FALSE
  OBVIOUS
<1> DEFINE y == x + i
           z == x + j
<1>1. y \in Nat /\ z \in Nat /\ y < z /\ z < y + SlotCount
  BY RingAssumption
<1>2. y % SlotCount = z % SlotCount
  BY DEF Slot
<1> HIDE DEF y, z
<1>3. /\ y = (y \div SlotCount) * SlotCount + (y % SlotCount)
      /\ y \div SlotCount \in Nat
  BY <1>1, Division, RingAssumption
<1>4. /\ z = (z \div SlotCount) * SlotCount + (z % SlotCount)
      /\ z \div SlotCount \in Nat
  BY <1>1, Division, RingAssumption
<1> DEFINE p == y \div SlotCount
           q == z \div SlotCount
           r == y % SlotCount
<1>5. /\ p \in Nat /\ q \in Nat /\ r \in Nat
      /\ y = p * SlotCount + r
      /\ z = q * SlotCount + r
  BY <1>1, <1>2, <1>3, <1>4, Division, RingAssumption
<1>6. y + SlotCount <= z
  <2> HIDE DEF p, q, r
  <2> QED BY <1>1, <1>5, MultiplesApart, RingAssumption
<1> QED
  BY <1>1, <1>6, RingAssumption

\* The slot of an index is the same before and after the wrap: the index space
\* is a multiple of the ring.
LEMMA SlotOfWrapped ==
  ASSUME NEW x \in Nat
  PROVE  Slot(x % IndexSpace) = Slot(x)
<1> DEFINE r == x % IndexSpace
           q == x \div IndexSpace
<1>1. /\ x = q * IndexSpace + r
      /\ q \in Nat
      /\ r \in 0 .. IndexSpace - 1
  BY Division, IndicesStay
<1> HIDE DEF q, r
<1>2. PICK n \in 2 .. IndexSpace : IndexSpace = n * SlotCount
  BY RingAssumption
<1>3. x = r + (q * n) * SlotCount /\ q * n \in Nat
  BY <1>1, <1>2, RingAssumption, SMT
<1> DEFINE k == q * n
<1>4. x = r + k * SlotCount /\ k \in Nat /\ r \in Nat
  BY <1>1, <1>3
<1>5. x % SlotCount = r % SlotCount
  <2> HIDE DEF k
  <2> QED BY <1>4, ModOfMultiple, RingAssumption
<1> QED
  BY <1>5 DEF Slot, r

LEMMA RingIsShort == 2 * SlotCount <= IndexSpace
<1>1. PICK n \in 2 .. IndexSpace : IndexSpace = n * SlotCount
  BY RingAssumption
<1> QED
  BY <1>1, RingAssumption, SMT

LEMMA DistanceIs ==
  ASSUME NEW r \in Indices, NEW w \in Indices
  PROVE  /\ w >= r => Distance(r, w) = w - r
         /\ w < r => Distance(r, w) = w + IndexSpace - r
         /\ Distance(r, w) \in Nat
         /\ Distance(r, w) < IndexSpace
BY IndicesStay, SMT DEF Indices, Distance

LEMMA NextIs ==
  ASSUME NEW r \in Indices
  PROVE  /\ r = IndexSpace - 1 => Next1(r) = 0
         /\ r # IndexSpace - 1 => Next1(r) = r + 1
BY IndicesStay, SMT DEF Indices, Next1

LEMMA IndicesAreNat ==
  ASSUME NEW r \in Indices
  PROVE  r \in Nat /\ r < IndexSpace /\ IndexSpace \in Nat
BY IndicesStay DEF Indices

LEMMA DistanceOfNone ==
  ASSUME NEW r \in Indices, NEW w \in Indices
  PROVE  Distance(r, w) = 0 <=> r = w
<1>1. /\ w >= r => Distance(r, w) = w - r
      /\ w < r => Distance(r, w) = w + IndexSpace - r
  BY DistanceIs
<1> QED
  BY <1>1, IndicesAreNat

LEMMA DistanceOfPublished ==
  ASSUME NEW r \in Indices, NEW w \in Indices, Distance(r, w) < SlotCount
  PROVE  Distance(r, Next1(w)) = Distance(r, w) + 1
<1> DEFINE next == Next1(w)
<1>1. next \in Indices
  BY IndicesStay
<1>2. /\ w = IndexSpace - 1 => next = 0
      /\ w # IndexSpace - 1 => next = w + 1
  BY NextIs
<1> HIDE DEF next
<1>3. /\ w >= r => Distance(r, w) = w - r
      /\ w < r => Distance(r, w) = w + IndexSpace - r
      /\ next >= r => Distance(r, next) = next - r
      /\ next < r => Distance(r, next) = next + IndexSpace - r
  BY <1>1, DistanceIs
<1>4. /\ r \in Nat /\ w \in Nat /\ next \in Nat
      /\ r < IndexSpace /\ w < IndexSpace /\ IndexSpace \in Nat
  BY <1>1, IndicesAreNat
<1>5. Distance(r, next) = Distance(r, w) + 1
  BY <1>2, <1>3, <1>4, RingIsShort, RingAssumption
<1> QED
  BY <1>5 DEF next

LEMMA DistanceOfPopped ==
  ASSUME NEW r \in Indices, NEW w \in Indices, r # w
  PROVE  Distance(Next1(r), w) = Distance(r, w) - 1
<1> DEFINE next == Next1(r)
<1>1. next \in Indices
  BY IndicesStay
<1>2. /\ r = IndexSpace - 1 => next = 0
      /\ r # IndexSpace - 1 => next = r + 1
  BY NextIs
<1> HIDE DEF next
<1>3. /\ w >= r => Distance(r, w) = w - r
      /\ w < r => Distance(r, w) = w + IndexSpace - r
      /\ w >= next => Distance(next, w) = w - next
      /\ w < next => Distance(next, w) = w + IndexSpace - next
  BY <1>1, DistanceIs
<1>4. /\ r \in Nat /\ w \in Nat /\ next \in Nat
      /\ r < IndexSpace /\ w < IndexSpace /\ IndexSpace \in Nat
  BY <1>1, IndicesAreNat
<1>5. Distance(next, w) = Distance(r, w) - 1
  BY <1>2, <1>3, <1>4
<1> QED
  BY <1>5 DEF next

\* The write index has the slot after the last command.
LEMMA SlotAtDistance ==
  ASSUME NEW r \in Indices, NEW w \in Indices
  PROVE  Slot(r + Distance(r, w)) = Slot(w)
<1> DEFINE x == r + Distance(r, w)
<1>1. /\ w >= r => Distance(r, w) = w - r
      /\ w < r => Distance(r, w) = w + IndexSpace - r
  BY DistanceIs
<1>2. /\ r \in Nat /\ w \in Nat /\ r < IndexSpace /\ w < IndexSpace
      /\ IndexSpace \in Nat
  BY IndicesAreNat
<1>3. x = w \/ x = w + IndexSpace
  BY <1>1, <1>2
<1>4. x \in Nat
  BY <1>2, <1>3
<1>5. x % IndexSpace = w
  <2> HIDE DEF x
  <2> QED BY <1>2, <1>3, SMT
<1> HIDE DEF x
<1>6. Slot(x) = Slot(w)
  BY <1>4, <1>5, SlotOfWrapped
<1> QED
  BY <1>6 DEF x

LEMMA SlotAfterNext ==
  ASSUME NEW r \in Indices, NEW i \in Nat
  PROVE  Slot(Next1(r) + i) = Slot(r + (i + 1))
<1>1. CASE r = IndexSpace - 1
  <2>1. Next1(r) + i = i /\ r + (i + 1) = i + IndexSpace
    BY <1>1, NextIs, IndicesStay
  <2>2. (i + 1 * IndexSpace) % IndexSpace = i % IndexSpace
    BY ModOfMultiple, IndicesStay
  <2>3. (i + IndexSpace) % IndexSpace = i % IndexSpace
    BY <2>2, IndicesStay
  <2>4. Slot(i + IndexSpace) = Slot((i + IndexSpace) % IndexSpace)
    <3>1. i + IndexSpace \in Nat
      BY IndicesStay
    <3> QED BY <3>1, SlotOfWrapped
  <2>5. Slot(i) = Slot(i % IndexSpace)
    BY SlotOfWrapped
  <2> QED
    BY <2>1, <2>3, <2>4, <2>5
<1>2. CASE r # IndexSpace - 1
  <2>1. Next1(r) + i = r + (i + 1)
    BY <1>2, NextIs, IndicesStay DEF Indices
  <2> QED
    BY <2>1
<1> QED
  BY <1>1, <1>2

(***************************************************************************)
(* Types                                                                   *)
(***************************************************************************)
LEMMA NoCommandIsCommand == NoCommand \in AnyCommands
BY DEF AnyCommands

LEMMA RingTypeInit == RingInit => RingTypeOK
<1> SUFFICES ASSUME RingInit PROVE RingTypeOK
  OBVIOUS
<1>1. NoCommand \in AnyCommands
  BY NoCommandIsCommand
<1>2. slots \in [0 .. SlotCount - 1 -> AnyCommands]
  BY <1>1 DEF RingInit
<1>3. pending \in Seq(AnyCommands)
  BY DEF RingInit
<1>4. /\ pc \in [Clients -> Places]
      /\ owner \in [Clients -> Clients \cup {NoClient}]
      /\ command \in [Clients -> AnyCommands]
      /\ nextRequest \in [Clients -> Nat]
  BY <1>1 DEF RingInit, Places
<1> QED
  BY <1>1, <1>2, <1>3, <1>4, IndicesStay DEF RingInit, RingTypeOK

\* A client's place, its owner and what it holds change in no other client.
LEMMA ConnectKeepsType ==
  ASSUME RingTypeOK, NEW c \in Clients, BeginConnect(c) \/ ConnectStep(c)
  PROVE  RingTypeOK'
<1> USE DEF RingTypeOK
<1>1. CASE BeginConnect(c)
  BY <1>1 DEF BeginConnect, At, Goto, Places, serverVars, historyVars
<1>2. CASE LoadOwner(c)
  BY <1>2 DEF LoadOwner, At, Goto, Places, serverVars, historyVars
<1>3. CASE ClaimFree(c)
  BY <1>3 DEF ClaimFree, At, Goto, Places, serverVars, historyVars
<1>4. CASE FindOwnerRunning(c)
  BY <1>4 DEF FindOwnerRunning, At, Goto, Places, serverVars, historyVars
<1>5. CASE ClearDeadOwner(c)
  BY <1>5 DEF ClearDeadOwner, Cleared, At, Goto, Places, serverVars, historyVars
<1>6. CASE SkipOldCommands(c)
  <2>1. pending' \in Seq(AnyCommands)
    BY <1>6 DEF SkipOldCommands
  <2>2. overtaken' \in BOOLEAN
    BY Zenon, <1>6 DEF SkipOldCommands, PopIsUnderWay
  <2> QED
    BY <1>6, <2>1, <2>2 DEF SkipOldCommands, At, Goto, Places, serverVars
<1> QED
  BY Zenon, <1>1, <1>2, <1>3, <1>4, <1>5, <1>6 DEF ConnectStep

LEMMA PushKeepsType ==
  ASSUME RingTypeOK, NEW c \in Clients,
         \/ \E kind \in Kinds : BeginPush(c, kind)
         \/ PushStep(c)
         \/ SignalCommand(c)
  PROVE  RingTypeOK'
<1> USE DEF RingTypeOK
<1>1. ASSUME NEW kind \in Kinds, BeginPush(c, kind)
      PROVE  RingTypeOK'
  <2> DEFINE new == [no |-> begun + 1, from |-> c, kind |-> kind,
                     request |-> IF kind \in Requests THEN nextRequest[c] ELSE 0]
  <2>1. new \in AnyCommands
    BY DEF AnyCommands, Commands
  <2>2. command' = [command EXCEPT ![c] = new]
    BY <1>1 DEF BeginPush
  <2>3. command' \in [Clients -> AnyCommands]
    <3> HIDE DEF new
    <3> QED BY <2>1, <2>2
  <2>4. nextRequest' \in [Clients -> Nat]
    BY <1>1 DEF BeginPush
  <2> QED
    BY <1>1, <2>3, <2>4 DEF BeginPush, At, Goto, Places, serverVars, historyVars
<1>2. CASE PushFails(c)
  BY <1>2 DEF PushFails, At, Goto, Places, serverVars, historyVars
<1>3. CASE WriteSlot(c)
  <2>1. slots' \in [0 .. SlotCount - 1 -> AnyCommands]
    BY <1>3, IndicesStay DEF WriteSlot
  <2> QED
    BY <1>3, <2>1 DEF WriteSlot, At, Goto, Places, serverVars, historyVars
<1>4. CASE Publish(c)
  <2>1. pending' \in Seq(AnyCommands)
    BY <1>4 DEF Publish
  <2>2. writeIndex' \in Indices
    BY <1>4, IndicesStay DEF Publish
  <2> QED
    BY <1>4, <2>1, <2>2 DEF Publish, At, Goto, Places, serverVars
<1>5. CASE SignalCommand(c)
  BY <1>5 DEF SignalCommand, At, Goto, Places, serverVars, historyVars
<1> QED
  BY Zenon, <1>1, <1>2, <1>3, <1>4, <1>5 DEF PushStep

LEMMA LeavingKeepsType ==
  ASSUME RingTypeOK, NEW c \in Clients, Disconnect(c) \/ Die(c)
  PROVE  RingTypeOK'
<1> USE NoCommandIsCommand DEF RingTypeOK
<1>1. CASE Disconnect(c)
  BY <1>1 DEF Disconnect, At, Goto, Places, serverVars, historyVars
<1>2. CASE Die(c)
  BY <1>2 DEF Die, Goto, Places, serverVars, historyVars
<1> QED
  BY <1>1, <1>2

LEMMA ServerKeepsType ==
  ASSUME RingTypeOK, RingServerStep
  PROVE  RingTypeOK'
<1> USE DEF RingTypeOK
<1>1. CASE LoadReadIndex
  BY <1>1, NoCommandIsCommand DEF LoadReadIndex, clientVars, historyVars
<1>2. CASE FindEmpty
  BY <1>2 DEF FindEmpty, clientVars, historyVars
<1>3. CASE CopySlot
  <2>1. taken' \in AnyCommands
    BY <1>3, IndicesStay DEF CopySlot
  <2> QED
    BY <1>3, <2>1 DEF CopySlot, clientVars, historyVars
<1>4. CASE StoreReadIndex
  <2>1. pending' \in Seq(AnyCommands)
    BY <1>4 DEF StoreReadIndex
  <2>2. readIndex' \in Indices
    BY <1>4, IndicesStay DEF StoreReadIndex
  <2> QED
    BY <1>4, <2>1, <2>2 DEF StoreReadIndex, clientVars
<1>5. CASE ConsumeSignal
  BY <1>5 DEF ConsumeSignal, clientVars, serverVars, historyVars
<1>6. CASE HeartbeatAges
  BY <1>6 DEF HeartbeatAges, clientVars, historyVars
<1> QED
  BY Zenon, <1>1, <1>2, <1>3, <1>4, <1>5, <1>6 DEF RingServerStep

LEMMA RingTypeStep == RingTypeOK /\ [RingNext]_ringVars => RingTypeOK'
<1> SUFFICES ASSUME RingTypeOK, [RingNext]_ringVars PROVE RingTypeOK'
  OBVIOUS
<1>1. ASSUME NEW c \in Clients, RingClientStep(c)
      PROVE  RingTypeOK'
  BY Zenon, <1>1, ConnectKeepsType, PushKeepsType, LeavingKeepsType DEF RingClientStep
<1>2. CASE RingServerStep
  BY Zenon, <1>2, ServerKeepsType
<1>3. CASE UNCHANGED ringVars
  BY <1>3 DEF RingTypeOK, ringVars, clientVars, serverVars, historyVars
<1> QED
  BY Zenon, <1>1, <1>2, <1>3 DEF RingNext

\* The ring keeps its types for any number of clients, slots and connections:
\* the indices wrap inside their range and address a slot.
THEOREM RingTypeCorrect == RingSpec => []RingTypeOK
BY RingTypeInit, RingTypeStep, PTL DEF RingSpec

(***************************************************************************)
(* One writer                                                              *)
(***************************************************************************)
LEMMA OwnsInit == RingInit => ConnectedOwnsRing
BY DEF RingInit, ConnectedOwnsRing, Connected

\* The ring is taken only from nobody and from the dead.
LEMMA OwnsStep ==
  ASSUME RingTypeOK, ConnectedOwnsRing, [RingNext]_ringVars
  PROVE  ConnectedOwnsRing'
<1> USE DEF ConnectedOwnsRing, Connected
<1>1. pc \in [Clients -> Places] /\ alive \subseteq Clients /\ NoClient \notin Clients
  BY RingAssumption DEF RingTypeOK
<1>2. ASSUME NEW c \in Clients, RingClientStep(c)
      PROVE  ConnectedOwnsRing'
  <2>1. CASE BeginConnect(c)
    BY <1>1, <2>1 DEF BeginConnect, At, Goto
  <2>2. CASE LoadOwner(c) \/ FindOwnerRunning(c)
    BY <1>1, <2>2 DEF LoadOwner, FindOwnerRunning, At, Goto
  <2>3. CASE ClaimFree(c)
    BY <1>1, <2>3 DEF ClaimFree, StillFree, At, Goto
  <2>4. CASE ClearDeadOwner(c)
    BY <1>1, <2>4 DEF ClearDeadOwner, Cleared, At, Goto
  <2>5. CASE SkipOldCommands(c)
    BY <1>1, <2>5 DEF SkipOldCommands, At, Goto
  <2>6. ASSUME NEW kind \in Kinds, BeginPush(c, kind)
        PROVE  ConnectedOwnsRing'
    BY <1>1, <2>6 DEF BeginPush, At, Goto
  <2>7. CASE PushFails(c) \/ WriteSlot(c)
    BY <1>1, <2>7 DEF PushFails, WriteSlot, At, Goto
  <2>8. CASE Publish(c) \/ SignalCommand(c)
    BY <1>1, <2>8 DEF Publish, SignalCommand, At, Goto
  <2>9. CASE Disconnect(c)
    BY <1>1, <2>9 DEF Disconnect, At, Goto
  <2>10. CASE Die(c)
    BY <1>1, <2>10 DEF Die, Goto
  <2> QED
    BY Zenon, <1>2, <2>1, <2>2, <2>3, <2>4, <2>5, <2>6, <2>7, <2>8, <2>9, <2>10
       DEF RingClientStep, ConnectStep, PushStep
<1>3. CASE RingServerStep
  BY <1>3 DEF RingServerStep, LoadReadIndex, FindEmpty, CopySlot, StoreReadIndex,
     ConsumeSignal, HeartbeatAges, clientVars
<1>4. CASE UNCHANGED ringVars
  BY <1>4 DEF ringVars, clientVars
<1> QED
  BY Zenon, <1>2, <1>3, <1>4 DEF RingNext

\* Of all the clients that run, one at most takes the ring for its own, however
\* many try to connect, die and clear the ring of a dead one at the same time.
THEOREM ConnectedOwnsRingCorrect == RingSpec => []ConnectedOwnsRing
<1>1. RingInit => RingTypeOK /\ ConnectedOwnsRing
  BY RingTypeInit, OwnsInit
<1>2. RingTypeOK /\ ConnectedOwnsRing /\ [RingNext]_ringVars
        => RingTypeOK' /\ ConnectedOwnsRing'
  BY RingTypeStep, OwnsStep
<1> QED
  BY <1>1, <1>2, PTL DEF RingSpec

(***************************************************************************)
(* The ring holds what is pending                                          *)
(*                                                                         *)
(* RingHoldsPending says nothing of a client between slot and index, nor   *)
(* of a server between index and slot.  The parts of RingInv do.           *)
(***************************************************************************)
\* The server pops at the read index.
PopsAtReadIndex == ~overtaken /\ serverPc # "idle" => serverRead = readIndex

\* The slots from the read index on hold the pending commands, and no more than
\* there are.
SlotsHoldPending ==
  ~overtaken =>
    /\ Distance(readIndex, writeIndex) = Len(pending)
    /\ Len(pending) <= SlotCount
    /\ \A i \in 0 .. Len(pending) - 1 : slots[Slot(readIndex + i)] = pending[i + 1]

\* What the server has copied is the oldest of them.
TakenIsOldest == ~overtaken /\ serverPc = "copied" => pending # <<>> /\ taken = pending[1]

\* A client that has written its slot is about to publish it, behind the others.
WrittenIsNext ==
  ~overtaken =>
    \A c \in alive : pc[c] = "publish" =>
      Len(pending) < SlotCount /\ slots[Slot(writeIndex)] = command[c]

RingParts == PopsAtReadIndex /\ SlotsHoldPending /\ TakenIsOldest /\ WrittenIsNext
RingInv == ConnectedOwnsRing /\ RingParts

LEMMA PartsInit == RingInit => RingParts
<1> SUFFICES ASSUME RingInit PROVE RingParts
  OBVIOUS
<1>1. Distance(0, 0) = 0
  BY DistanceOfNone, IndicesStay
<1> QED
  BY <1>1, RingAssumption DEF RingInit, RingParts, PopsAtReadIndex, SlotsHoldPending, TakenIsOldest,
     WrittenIsNext

\* Steps that touch neither the ring nor what is pending, and after which no
\* other client is about to publish.
ringData == <<overtaken, pending, readIndex, writeIndex, slots, serverPc, serverRead, taken>>

LEMMA QuietStep ==
  ASSUME RingParts, UNCHANGED ringData,
         \A c \in alive' : pc'[c] = "publish" =>
           c \in alive /\ pc[c] = "publish" /\ command'[c] = command[c]
  PROVE  RingParts'
<1>1. PopsAtReadIndex' /\ SlotsHoldPending' /\ TakenIsOldest'
  BY DEF RingParts, PopsAtReadIndex, SlotsHoldPending, TakenIsOldest, ringData
<1>2. WrittenIsNext'
  BY DEF RingParts, WrittenIsNext, ringData
<1> QED
  BY Zenon, <1>1, <1>2 DEF RingParts

LEMMA ClientIsQuiet ==
  ASSUME RingTypeOK, RingParts, NEW c \in Clients,
         \/ BeginConnect(c) \/ LoadOwner(c) \/ ClaimFree(c) \/ FindOwnerRunning(c)
         \/ ClearDeadOwner(c) \/ PushFails(c) \/ SignalCommand(c) \/ Disconnect(c)
         \/ Die(c)
         \/ \E kind \in Kinds : BeginPush(c, kind)
  PROVE  RingParts'
<1>1. pc \in [Clients -> Places] /\ command \in [Clients -> AnyCommands] /\ alive \subseteq Clients
  BY DEF RingTypeOK
<1> DEFINE Quiet == /\ UNCHANGED ringData
                    /\ \A d \in alive' : pc'[d] = "publish" =>
                         d \in alive /\ pc[d] = "publish" /\ command'[d] = command[d]
<1> USE <1>1 DEF At, Goto, ringData, serverVars, historyVars
<1>2. CASE BeginConnect(c) \/ LoadOwner(c) \/ ClaimFree(c)
  <2>1. Quiet
    BY <1>2 DEF BeginConnect, LoadOwner, ClaimFree
  <2> QED BY Zenon, <2>1, QuietStep
<1>3. CASE FindOwnerRunning(c) \/ ClearDeadOwner(c) \/ PushFails(c) \/ SignalCommand(c)
  <2>1. Quiet
    BY <1>3 DEF FindOwnerRunning, ClearDeadOwner, PushFails, SignalCommand
  <2> QED BY Zenon, <2>1, QuietStep
<1>4. CASE Disconnect(c) \/ Die(c)
  <2>1. Quiet
    BY <1>4 DEF Disconnect, Die
  <2> QED BY Zenon, <2>1, QuietStep
<1>5. ASSUME NEW kind \in Kinds, BeginPush(c, kind)
      PROVE  RingParts'
  <2>1. Quiet
    BY <1>5 DEF BeginPush
  <2> QED BY Zenon, <2>1, QuietStep
<1> QED
  BY Zenon, <1>2, <1>3, <1>4, <1>5

LEMMA LengthOfPending ==
  ASSUME RingTypeOK
  PROVE  /\ Len(pending) \in Nat
         /\ Len(pending) = 0 <=> pending = <<>>
BY DEF RingTypeOK

LEMMA NobodyElse ==
  ASSUME ConnectedOwnsRing, NEW c \in alive, Connected(c), NEW d \in alive, pc[d] = "publish"
  PROVE  d = c
BY DEF ConnectedOwnsRing, Connected

\* The slot at the write index is none of those that are pending.
LEMMA WriteSlotKeepsParts ==
  ASSUME RingTypeOK, RingInv, NEW c \in Clients, WriteSlot(c)
  PROVE  RingParts'
<1>1. /\ pc \in [Clients -> Places]
      /\ writeIndex \in Indices /\ readIndex \in Indices
      /\ slots \in [0 .. SlotCount - 1 -> AnyCommands]
      /\ alive \subseteq Clients
  BY DEF RingTypeOK
<1>2. Len(pending) \in Nat
  BY LengthOfPending
<1>3. Slot(writeIndex) \in 0 .. SlotCount - 1
  BY <1>1, IndicesStay
<1>4. slots' = [slots EXCEPT ![Slot(writeIndex)] = command[c]]
  BY DEF WriteSlot
<1>5. /\ c \in alive /\ Connected(c)
      /\ alive' = alive /\ command' = command
      /\ pc' = [pc EXCEPT ![c] = "publish"]
  BY DEF WriteSlot, At, Goto, Connected
<1>6. UNCHANGED <<overtaken, pending, readIndex, writeIndex, serverPc, serverRead, taken>>
  BY DEF WriteSlot, historyVars, serverVars
<1>7. PopsAtReadIndex' /\ TakenIsOldest'
  BY <1>6 DEF RingInv, RingParts, PopsAtReadIndex, TakenIsOldest
<1>8. ASSUME ~overtaken
      PROVE  /\ Distance(readIndex, writeIndex) = Len(pending)
             /\ Len(pending) < SlotCount
             /\ \A i \in 0 .. Len(pending) - 1 : slots[Slot(readIndex + i)] = pending[i + 1]
  <2>1. Distance(readIndex, writeIndex) < SlotCount
    <3>1. Distance(readIndex, writeIndex) \in Nat
      BY <1>1, DistanceIs
    <3> QED BY <3>1, RingAssumption DEF WriteSlot, Full
  <2> QED BY <1>8, <2>1 DEF RingInv, RingParts, SlotsHoldPending
<1>9. SlotsHoldPending'
  <2> SUFFICES ASSUME ~overtaken, NEW i \in 0 .. Len(pending) - 1
               PROVE  slots'[Slot(readIndex + i)] = pending[i + 1]
    BY <1>2, <1>6, <1>8, RingAssumption DEF SlotsHoldPending
  <2>1. readIndex \in Nat /\ i \in Nat /\ i < Len(pending)
    BY <1>1, <1>2, IndicesAreNat
  <2>2. Slot(readIndex + i) # Slot(readIndex + Len(pending))
    <3>1. PICK n \in Nat : n = Len(pending) /\ i < n /\ n < i + SlotCount
      BY <1>2, <1>8, <2>1, RingAssumption
    <3>2. Slot(readIndex + i) # Slot(readIndex + n)
      BY Zenon, <2>1, <3>1, SlotsDiffer
    <3> QED BY <3>1, <3>2
  <2>3. Slot(readIndex + Len(pending)) = Slot(writeIndex)
    BY <1>1, <1>8, SlotAtDistance
  <2>4. slots'[Slot(readIndex + i)] = slots[Slot(readIndex + i)]
    BY <1>1, <1>3, <1>4, <2>2, <2>3
  <2> QED BY <1>8, <2>4
<1>10. WrittenIsNext'
  <2> SUFFICES ASSUME ~overtaken, NEW d \in alive, pc'[d] = "publish"
               PROVE  Len(pending) < SlotCount /\ slots'[Slot(writeIndex)] = command[d]
    BY <1>5, <1>6 DEF WrittenIsNext
  <2>1. d = c
    BY <1>1, <1>5, NobodyElse DEF RingInv
  <2> QED BY <1>1, <1>3, <1>4, <1>8, <2>1
<1> QED
  BY Zenon, <1>7, <1>9, <1>10 DEF RingParts

\* What was written is published behind what is pending.
LEMMA PublishKeepsParts ==
  ASSUME RingTypeOK, RingInv, NEW c \in Clients, Publish(c)
  PROVE  RingParts'
<1>1. /\ pc \in [Clients -> Places] /\ command \in [Clients -> AnyCommands]
      /\ writeIndex \in Indices /\ readIndex \in Indices
      /\ pending \in Seq(AnyCommands)
      /\ alive \subseteq Clients
  BY DEF RingTypeOK
<1>2. Len(pending) \in Nat
  BY LengthOfPending
<1>3. /\ c \in alive /\ Connected(c) /\ pc[c] = "publish"
      /\ alive' = alive
      /\ pc' = [pc EXCEPT ![c] = "signal"]
  BY DEF Publish, At, Goto, Connected
<1>4. UNCHANGED <<overtaken, readIndex, slots, serverPc, serverRead, taken>>
  BY DEF Publish, serverVars
<1>5. writeIndex' = Next1(writeIndex) /\ pending' = Append(pending, command[c])
  BY DEF Publish
<1>6. /\ Len(pending') = Len(pending) + 1
      /\ pending'[Len(pending) + 1] = command[c]
      /\ \A i \in 0 .. Len(pending) - 1 : pending'[i + 1] = pending[i + 1]
  BY <1>1, <1>5
<1>7. PopsAtReadIndex'
  BY <1>4 DEF RingInv, RingParts, PopsAtReadIndex
<1>8. TakenIsOldest'
  <2> SUFFICES ASSUME ~overtaken, serverPc = "copied"
               PROVE  pending' # <<>> /\ taken = pending'[1]
    BY <1>4 DEF TakenIsOldest
  <2>1. pending # <<>> /\ taken = pending[1]
    BY DEF RingInv, RingParts, TakenIsOldest
  <2> QED BY <1>1, <1>5, <2>1
<1>9. ASSUME ~overtaken
      PROVE  /\ Distance(readIndex, writeIndex) = Len(pending)
             /\ Len(pending) < SlotCount
             /\ slots[Slot(writeIndex)] = command[c]
             /\ \A i \in 0 .. Len(pending) - 1 : slots[Slot(readIndex + i)] = pending[i + 1]
  BY <1>3, <1>9 DEF RingInv, RingParts, SlotsHoldPending, WrittenIsNext
<1>10. SlotsHoldPending'
  <2> SUFFICES ASSUME ~overtaken
               PROVE  /\ Distance(readIndex, Next1(writeIndex)) = Len(pending')
                      /\ Len(pending') <= SlotCount
                      /\ \A i \in 0 .. Len(pending') - 1 :
                           slots[Slot(readIndex + i)] = pending'[i + 1]
    BY <1>4, <1>5 DEF SlotsHoldPending
  <2>1. Distance(readIndex, Next1(writeIndex)) = Len(pending')
    BY <1>1, <1>6, <1>9, DistanceOfPublished
  <2>2. Len(pending') <= SlotCount
    BY <1>2, <1>6, <1>9, RingAssumption
  <2>3. slots[Slot(readIndex + Len(pending))] = pending'[Len(pending) + 1]
    BY <1>1, <1>6, <1>9, SlotAtDistance
  <2>4. ASSUME NEW i \in 0 .. Len(pending') - 1
        PROVE  slots[Slot(readIndex + i)] = pending'[i + 1]
    <3>1. CASE i = Len(pending)
      BY <2>3, <3>1
    <3>2. CASE i # Len(pending)
      <4>1. i \in 0 .. Len(pending) - 1
        BY <1>2, <1>6, <3>2
      <4> QED BY <1>6, <1>9, <4>1
    <3> QED BY <3>1, <3>2
  <2> QED BY <2>1, <2>2, <2>4
<1>11. WrittenIsNext'
  <2> SUFFICES ASSUME NEW d \in alive, pc'[d] = "publish" PROVE FALSE
    BY <1>3 DEF WrittenIsNext
  <2>1. d # c /\ pc[d] = "publish"
    BY <1>1, <1>3
  <2> QED BY <1>3, <2>1, NobodyElse DEF RingInv
<1> QED
  BY Zenon, <1>7, <1>8, <1>10, <1>11 DEF RingParts

\* A new connection begins with an empty ring, unless a pop is under way.
LEMMA SkipKeepsParts ==
  ASSUME RingTypeOK, RingInv, NEW c \in Clients, SkipOldCommands(c)
  PROVE  RingParts'
<1>1. pc \in [Clients -> Places] /\ writeIndex \in Indices
      /\ serverPc \in {"idle", "loaded", "copied"} /\ alive \subseteq Clients
  BY DEF RingTypeOK
<1>2. /\ c \in alive /\ Connected(c)
      /\ alive' = alive
      /\ pc' = [pc EXCEPT ![c] = "connected"]
  BY DEF SkipOldCommands, At, Goto, Connected
<1>3. UNCHANGED <<writeIndex, slots, serverPc, serverRead, taken>>
  BY DEF SkipOldCommands, serverVars
<1>4. readIndex' = writeIndex /\ pending' = <<>>
  BY DEF SkipOldCommands
<1>5. ~overtaken' => \/ serverPc = "idle"
                     \/ serverPc = "loaded" /\ serverRead = writeIndex
  BY Zenon, <1>1 DEF SkipOldCommands, PopIsUnderWay
<1>6. PopsAtReadIndex' /\ TakenIsOldest'
  BY <1>3, <1>4, <1>5 DEF PopsAtReadIndex, TakenIsOldest
<1>7. SlotsHoldPending'
  <2>1. Distance(writeIndex, writeIndex) = 0
    BY <1>1, DistanceOfNone
  <2> QED BY <1>3, <1>4, <2>1, RingAssumption DEF SlotsHoldPending
<1>8. WrittenIsNext'
  <2> SUFFICES ASSUME NEW d \in alive, pc'[d] = "publish" PROVE FALSE
    BY <1>2 DEF WrittenIsNext
  <2>1. d # c /\ pc[d] = "publish"
    BY <1>1, <1>2
  <2> QED BY <1>2, <2>1, NobodyElse DEF RingInv
<1> QED
  BY Zenon, <1>6, <1>7, <1>8 DEF RingParts

LEMMA ServerKeepsParts ==
  ASSUME RingTypeOK, RingInv, RingServerStep
  PROVE  RingParts'
<1>1. /\ writeIndex \in Indices /\ readIndex \in Indices
      /\ pending \in Seq(AnyCommands)
  BY DEF RingTypeOK
<1>2. Len(pending) \in Nat /\ (Len(pending) = 0 <=> pending = <<>>)
  BY LengthOfPending
<1>3. PopsAtReadIndex /\ SlotsHoldPending /\ TakenIsOldest /\ WrittenIsNext
  BY DEF RingInv, RingParts
<1>4. UNCHANGED <<alive, pc, command, writeIndex, overtaken, slots>>
  BY DEF RingServerStep, LoadReadIndex, FindEmpty, CopySlot, StoreReadIndex,
     ConsumeSignal, HeartbeatAges, clientVars, historyVars
<1>5. CASE LoadReadIndex \/ FindEmpty
  <2>1. /\ UNCHANGED <<readIndex, pending>>
        /\ \/ serverPc' = "loaded" /\ serverRead' = readIndex
           \/ serverPc' = "idle"
    BY <1>5 DEF LoadReadIndex, FindEmpty, historyVars
  <2> QED
    BY <1>3, <1>4, <2>1 DEF RingParts, PopsAtReadIndex, SlotsHoldPending, TakenIsOldest,
       WrittenIsNext
<1>6. CASE CopySlot
  <2>1. UNCHANGED <<readIndex, pending, serverRead>>
    BY <1>6 DEF CopySlot, historyVars
  <2>2. PopsAtReadIndex' /\ SlotsHoldPending' /\ WrittenIsNext'
    BY <1>3, <1>4, <1>6, <2>1 DEF CopySlot, PopsAtReadIndex, SlotsHoldPending, WrittenIsNext
  <2>3. ASSUME ~overtaken
        PROVE  pending # <<>> /\ taken' = pending[1]
    <3>1. serverRead = readIndex /\ readIndex # writeIndex
      BY <1>3, <1>6, <2>3 DEF CopySlot, PopsAtReadIndex
    <3>2. Len(pending) # 0
      BY <1>1, <1>3, <2>3, <3>1, DistanceOfNone DEF SlotsHoldPending
    <3>3. slots[Slot(readIndex + 0)] = pending[0 + 1]
      BY <1>2, <1>3, <2>3, <3>2 DEF SlotsHoldPending
    <3>4. readIndex + 0 = readIndex
      BY <1>1, IndicesAreNat
    <3> QED
      BY <1>2, <1>6, <3>1, <3>2, <3>3, <3>4 DEF CopySlot
  <2> QED
    BY <1>4, <2>1, <2>2, <2>3 DEF RingParts, TakenIsOldest
<1>7. CASE StoreReadIndex
  <2>1. /\ serverPc = "copied" /\ serverPc' = "idle"
        /\ readIndex' = Next1(serverRead)
        /\ pending' = IF pending = <<>> THEN <<>> ELSE Tail(pending)
    BY <1>7 DEF StoreReadIndex
  <2>2. PopsAtReadIndex' /\ TakenIsOldest'
    BY <2>1 DEF PopsAtReadIndex, TakenIsOldest
  <2>3. ASSUME ~overtaken
        PROVE  /\ serverRead = readIndex
               /\ readIndex # writeIndex
               /\ pending' = Tail(pending)
               /\ Len(pending') = Len(pending) - 1
               /\ \A i \in 0 .. Len(pending') - 1 : pending'[i + 1] = pending[i + 2]
    <3>1. serverRead = readIndex /\ pending # <<>>
      BY <1>3, <2>1, <2>3 DEF PopsAtReadIndex, TakenIsOldest
    <3>2. readIndex # writeIndex
      BY <1>1, <1>2, <1>3, <2>3, <3>1, DistanceOfNone DEF SlotsHoldPending
    <3>3. pending' = Tail(pending)
      BY <2>1, <3>1
    <3>4. Len(pending') = Len(pending) - 1
      BY <1>1, <3>1, <3>3
    <3>5. \A i \in 0 .. Len(pending') - 1 : pending'[i + 1] = pending[i + 2]
      BY <1>1, <3>1, <3>3, <3>4
    <3> QED
      BY <3>1, <3>2, <3>3, <3>4, <3>5
  <2>4. SlotsHoldPending'
    <3> SUFFICES ASSUME ~overtaken
                 PROVE  /\ Distance(Next1(readIndex), writeIndex) = Len(pending')
                        /\ Len(pending') <= SlotCount
                        /\ \A i \in 0 .. Len(pending') - 1 :
                             slots[Slot(Next1(readIndex) + i)] = pending'[i + 1]
      BY <1>4, <2>1, <2>3 DEF SlotsHoldPending
    <3>1. /\ Distance(readIndex, writeIndex) = Len(pending)
          /\ Len(pending) <= SlotCount
      BY <1>3 DEF SlotsHoldPending
    <3>2. Distance(Next1(readIndex), writeIndex) = Len(pending')
      BY <1>1, <2>3, <3>1, DistanceOfPopped
    <3>3. Len(pending') <= SlotCount
      BY <1>2, <2>3, <3>1, RingAssumption
    <3>4. ASSUME NEW i \in 0 .. Len(pending') - 1
          PROVE  slots[Slot(Next1(readIndex) + i)] = pending'[i + 1]
      <4>1. i \in Nat /\ i + 1 \in 0 .. Len(pending) - 1 /\ (i + 1) + 1 = i + 2
        BY <1>2, <2>3
      <4>2. slots[Slot(readIndex + (i + 1))] = pending[(i + 1) + 1]
        BY <1>3, <4>1 DEF SlotsHoldPending
      <4>3. Slot(Next1(readIndex) + i) = Slot(readIndex + (i + 1))
        BY <1>1, <4>1, SlotAfterNext
      <4> QED
        BY <2>3, <4>1, <4>2, <4>3
    <3> QED
      BY <3>2, <3>3, <3>4
  <2>5. WrittenIsNext'
    <3> SUFFICES ASSUME ~overtaken, NEW c \in alive, pc[c] = "publish"
                 PROVE  Len(pending') < SlotCount /\ slots[Slot(writeIndex)] = command[c]
      BY <1>4 DEF WrittenIsNext
    <3>1. Len(pending) < SlotCount /\ slots[Slot(writeIndex)] = command[c]
      BY <1>3 DEF WrittenIsNext
    <3> QED
      BY <1>2, <2>3, <3>1, RingAssumption
  <2> QED
    BY Zenon, <2>2, <2>4, <2>5 DEF RingParts
<1>8. CASE ConsumeSignal \/ HeartbeatAges
  <2>1. UNCHANGED ringData
    BY <1>8 DEF ConsumeSignal, HeartbeatAges, ringData, clientVars, serverVars, historyVars
  <2> QED
    BY <1>4, <2>1, QuietStep DEF RingInv
<1> QED
  BY Zenon, <1>5, <1>6, <1>7, <1>8 DEF RingServerStep

LEMMA RingInvStep ==
  ASSUME RingTypeOK, RingInv, [RingNext]_ringVars
  PROVE  RingInv'
<1>1. ConnectedOwnsRing'
  BY OwnsStep DEF RingInv
<1>2. ASSUME NEW c \in Clients, RingClientStep(c)
      PROVE  RingParts'
  BY Zenon, <1>2, ClientIsQuiet, WriteSlotKeepsParts, PublishKeepsParts, SkipKeepsParts
     DEF RingClientStep, ConnectStep, PushStep, RingInv
<1>3. ASSUME RingServerStep
      PROVE  RingParts'
  BY Zenon, <1>3, ServerKeepsParts
<1>4. ASSUME UNCHANGED ringVars
      PROVE  RingParts'
  <2>1. /\ UNCHANGED ringData
        /\ UNCHANGED <<alive, pc, command>>
    BY <1>4 DEF ringVars, clientVars, serverVars, historyVars, ringData
  <2> QED
    BY <2>1, QuietStep DEF RingInv
<1> QED
  BY Zenon, <1>1, <1>2, <1>3, <1>4 DEF RingNext, RingInv

\* The inductive invariant of the ring, for any number of clients and slots and
\* any number of turns of the indices round their range.
THEOREM RingInvCorrect == RingSpec => []RingInv
<1>1. RingInit => RingTypeOK /\ RingInv
  BY RingTypeInit, OwnsInit, PartsInit DEF RingInv
<1>2. RingTypeOK /\ RingInv /\ [RingNext]_ringVars => RingTypeOK' /\ RingInv'
  BY RingTypeStep, RingInvStep
<1> QED
  BY <1>1, <1>2, PTL DEF RingSpec

LEMMA PartsHoldPending ==
  ASSUME RingTypeOK, RingInv
  PROVE  RingHoldsPending
<1> SUFFICES ASSUME ~overtaken
             PROVE  /\ InRing = pending
                    /\ serverPc = "copied" => pending # <<>> /\ taken = Head(pending)
  BY DEF RingHoldsPending
<1>1. /\ pending \in Seq(AnyCommands) /\ Len(pending) \in Nat
      /\ readIndex \in Nat
  BY LengthOfPending, IndicesAreNat DEF RingTypeOK
<1>2. /\ Distance(readIndex, writeIndex) = Len(pending)
      /\ \A i \in 0 .. Len(pending) - 1 : slots[Slot(readIndex + i)] = pending[i + 1]
  BY DEF RingInv, RingParts, SlotsHoldPending
<1>3. InRing = pending
  <2>1. InRing = [n \in 1 .. Len(pending) |-> slots[Slot(readIndex + n - 1)]]
    BY <1>2 DEF InRing
  <2>2. ASSUME NEW n \in 1 .. Len(pending)
        PROVE  slots[Slot(readIndex + n - 1)] = pending[n]
    <3>1. n - 1 \in 0 .. Len(pending) - 1 /\ (n - 1) + 1 = n
      BY <1>1
    <3>2. readIndex + n - 1 = readIndex + (n - 1)
      BY <1>1
    <3> QED
      BY <1>2, <3>1, <3>2
  <2> QED
    BY <1>1, <2>1, <2>2
<1>4. serverPc = "copied" => pending # <<>> /\ taken = Head(pending)
  BY <1>1 DEF RingInv, RingParts, TakenIsOldest
<1> QED
  BY <1>3, <1>4

\* No command is lost, read twice or overwritten while its connection lasts,
\* however the indices wrap, clients die and the server is delayed.
THEOREM RingHoldsPendingCorrect == RingSpec => []RingHoldsPending
BY RingTypeCorrect, RingInvCorrect, PartsHoldPending, PTL

(***************************************************************************)
(* The ring in the channel                                                 *)
(***************************************************************************)
LEMMA ClientUsesRing ==
  ASSUME NEW c \in Clients, ClientStep(c)
  PROVE  [RingNext]_ringVars
<1>1. CASE RingStep(c)
  BY Zenon, <1>1 DEF RingStep, RingNext, RingClientStep, PushStep
<1>2. CASE BeginCall(c)
  <2>1. \E kind \in Kinds : BeginPush(c, kind)
    BY <1>2 DEF BeginCall, Kinds
  <2> QED
    BY Zenon, <2>1 DEF RingNext, RingClientStep
<1>3. CASE CallFails(c) \/ CallIsSent(c)
  BY Zenon, <1>3 DEF CallFails, CallIsSent, RingNext, RingClientStep, PushStep
<1>4. CASE ReadWatermark(c) \/ ObserveSequence(c) \/ LookAtResponse(c)
  BY Zenon, <1>4 DEF ReadWatermark, ObserveSequence, LookAtResponse
<1>5. CASE ReadResponse(c) \/ WakeForResponse(c) \/ ResponseTimesOut(c)
  BY Zenon, <1>5 DEF ReadResponse, WakeForResponse, ResponseTimesOut
<1>6. CASE PollStep(c)
  BY Zenon, <1>6 DEF PollStep, PollBefore, CopyId, CopyBody, PollAfter
<1>7. CASE DropClient(c) \/ ClientDies(c)
  BY Zenon, <1>7 DEF DropClient, ClientDies, RingNext, RingClientStep
<1> QED
  BY Zenon, <1>1, <1>2, <1>3, <1>4, <1>5, <1>6, <1>7 DEF ClientStep, CallStep

LEMMA ServerUsesRing == ServerStep \/ ServerIsSilent => [RingNext]_ringVars
<1>1. CASE BeginRound \/ PublishStep
  BY Zenon, <1>1 DEF BeginRound, PublishStep, BeginCompletion, WriteCompletionId,
     WriteCompletionBody, EndCompletion, SignalCompletion
<1>2. CASE Receive \/ WaitForCommand \/ ServerIsSilent
  BY Zenon, <1>2 DEF Receive, WaitForCommand, ServerIsSilent, RingNext, RingServerStep
<1>3. CASE DispatchEvent \/ DispatchPatch \/ DispatchStandby
  BY Zenon, <1>3 DEF DispatchEvent, DispatchPatch, DispatchStandby
<1>4. CASE RespondStep
  BY Zenon, <1>4 DEF RespondStep, ResponseTooLong, WriteResponseId, WriteResponseBody,
     AdvanceResponse, SignalResponse
<1> QED
  BY Zenon, <1>1, <1>2, <1>3, <1>4 DEF ServerStep

LEMMA NextUsesRing == [Next]_vars => [RingNext]_ringVars
BY Zenon, ClientUsesRing, ServerUsesRing DEF Next, vars

\* The channel uses the ring as CommandRing describes: whatever a client's
\* methods and the receive loop do, the ring takes only its own steps.
THEOREM FastIpcImplementsRing == Spec => RingSpec
<1>1. Init => RingInit
  BY Zenon DEF Init
<1> QED
  BY <1>1, NextUsesRing, PTL DEF Spec, RingSpec

\* So between the processes, too, the ring has one writer and holds what it
\* pushed and the server has not popped.
THEOREM FastIpcKeepsRing == Spec => [](RingTypeOK /\ RingInv)
BY FastIpcImplementsRing, RingTypeCorrect, RingInvCorrect, PTL

THEOREM FastIpcHoldsPending == Spec => [](ConnectedOwnsRing /\ RingHoldsPending)
BY FastIpcImplementsRing, ConnectedOwnsRingCorrect, RingHoldsPendingCorrect, PTL

(***************************************************************************)
(* Types                                                                   *)
(***************************************************************************)
RingFits == RingTypeOK /\ (~overtaken => Distance(readIndex, writeIndex) <= SlotCount)

LEMMA RingInvFits == RingTypeOK /\ RingInv => RingFits
BY LengthOfPending, RingAssumption DEF RingInv, RingParts, SlotsHoldPending, RingFits

LEMMA IpcTypeInit ==
  ASSUME Init, RingFits
  PROVE  IpcTypeOK
<1>1. RingInit
  BY DEF Init
<1>2. NoCommand \in AnyCommands
  BY NoCommandIsCommand
<1>3. /\ NoSnapshot \in Halves
      /\ response \in [id : AnyCommands, body : AnyCommands, ok : BOOLEAN]
      /\ completion \in Halves
  BY <1>2 DEF Init, NoSnapshot, Halves
<1> QED
  BY <1>1, <1>2, <1>3 DEF Init, RingInit, RingFits, IpcTypeOK, Calls, Tasks

\* The steps of a client, of which the ring's part is known.
LEMMA ClientKeepsIpcType ==
  ASSUME IpcTypeOK, RingFits', NEW c \in Clients, ClientStep(c)
  PROVE  IpcTypeOK'
<1> USE DEF IpcTypeOK, RingFits, loopVars, slotVars, Step
<1>1. /\ NoSnapshot \in Halves /\ NoCommand \in AnyCommands
      /\ command[c] \in AnyCommands
      /\ {"none", "watermark", "push", "observe", "look", "body", "wait", "copyId",
          "copyBody", "after"} \subseteq Calls
  BY NoCommandIsCommand DEF NoSnapshot, Halves, RingTypeOK, Calls
<1>2. serverPc' = serverPc
  <2>1. ASSUME UNCHANGED ringVars PROVE serverPc' = serverPc
    BY <2>1 DEF ringVars, serverVars
  <2> QED
    BY Zenon, <2>1 DEF ClientStep, RingStep, CallStep, PollStep, ReadWatermark, BeginCall, CallFails,
       CallIsSent, ObserveSequence, LookAtResponse, ReadResponse, WakeForResponse,
       ResponseTimesOut, PollBefore, CopyId, CopyBody, PollAfter, DropClient, ClientDies,
       BeginConnect, ConnectStep, LoadOwner, ClaimFree, FindOwnerRunning, ClearDeadOwner,
       SkipOldCommands, BeginPush, PushFails, WriteSlot, Publish, SignalCommand, Disconnect,
       Die, serverVars
<1>3. CASE RingStep(c)
  BY <1>2, <1>3 DEF RingStep, ipcVars, callVars
<1>4. CASE ReadWatermark(c) \/ BeginCall(c)
  <2>1. RoundedUp(standbySequence) \in Nat
    BY SMT DEF RoundedUp
  <2> QED
    BY <1>1, <1>2, <1>4, <2>1 DEF ReadWatermark, BeginCall
<1>5. CASE CallFails(c) \/ CallIsSent(c)
  BY <1>1, <1>2, <1>5 DEF CallFails, CallIsSent
<1>6. CASE ObserveSequence(c) \/ LookAtResponse(c)
  BY <1>1, <1>2, <1>6 DEF ObserveSequence, LookAtResponse
<1>7. CASE ReadResponse(c)
  BY <1>1, <1>2, <1>7 DEF ReadResponse
<1>8. CASE WakeForResponse(c) \/ ResponseTimesOut(c)
  <2>1. CASE WakeForResponse(c)
    <3>1. /\ {leaving', outcome', responseEvent'} \subseteq BOOLEAN
          /\ UNCHANGED <<observed, watermark, expecting, before, snapshot, task, standby,
                         responseSequence, response, standbySequence, completion>>
      BY <2>1 DEF WakeForResponse
    <3>2. call' \in [Clients -> Calls]
      BY <1>1, <2>1 DEF WakeForResponse, ObserveAgain
    <3> QED
      BY <1>2, <3>1, <3>2
  <2>2. CASE ResponseTimesOut(c)
    BY <1>1, <1>2, <2>2 DEF ResponseTimesOut
  <2> QED
    BY <1>8, <2>1, <2>2
<1>9. CASE PollBefore(c)
  BY <1>1, <1>2, <1>9 DEF PollBefore
<1>10. CASE CopyId(c)
  BY <1>1, <1>2, <1>10 DEF CopyId, Halves
<1>11. CASE CopyBody(c)
  BY <1>1, <1>2, <1>11 DEF CopyBody, Halves
<1>12. CASE PollAfter(c)
  BY <1>1, <1>2, <1>12 DEF PollAfter
<1>13. CASE DropClient(c)
  BY <1>1, <1>2, <1>13 DEF DropClient
<1>14. CASE ClientDies(c)
  BY <1>1, <1>2, <1>14 DEF ClientDies
<1> QED
  BY Zenon, <1>3, <1>4, <1>5, <1>6, <1>7, <1>8, <1>9, <1>10, <1>11, <1>12, <1>13, <1>14
     DEF ClientStep, CallStep, PollStep

\* The steps of the server.
LEMMA ServerKeepsIpcType ==
  ASSUME IpcTypeOK, RingFits', ServerStep \/ ServerIsSilent
  PROVE  IpcTypeOK'
<1> USE DEF IpcTypeOK, RingFits, callVars, slotVars
<1> DEFINE RingRests == UNCHANGED ringVars => serverPc' = serverPc
<1>1. RingRests
  BY DEF ringVars, serverVars
<1>2. NoCommand \in AnyCommands /\ taken \in AnyCommands
  BY NoCommandIsCommand DEF RingTypeOK
<1>3. task' \in Tasks
  BY DEF ServerStep, ServerIsSilent, BeginRound, PublishStep, BeginCompletion,
     WriteCompletionId, WriteCompletionBody, EndCompletion, SignalCompletion, Receive,
     WaitForCommand, DispatchEvent, DispatchPatch, DispatchStandby, RespondStep,
     ResponseTooLong, WriteResponseId, WriteResponseBody, AdvanceResponse, SignalResponse,
     ipcVars, loopVars, Tasks
<1>4. CASE BeginRound
  BY <1>1, <1>3, <1>4 DEF BeginRound
<1>5. CASE BeginCompletion \/ EndCompletion
  BY <1>1, <1>3, <1>5 DEF BeginCompletion, EndCompletion
<1>6. CASE WriteCompletionId \/ WriteCompletionBody
  BY <1>1, <1>3, <1>6 DEF WriteCompletionId, WriteCompletionBody, Halves
<1>7. CASE SignalCompletion
  BY <1>1, <1>2, <1>3, <1>7 DEF SignalCompletion
<1>8. CASE Receive
  <2>1. task' # "receive" => serverPc' = "idle"
    BY <1>8 DEF Receive, LoadReadIndex, FindEmpty, CopySlot, StoreReadIndex
  <2> QED
    BY <1>3, <1>8, <2>1 DEF Receive
<1>9. CASE WaitForCommand
  <2>1. serverPc' = serverPc
    BY <1>1, <1>9 DEF WaitForCommand, ConsumeSignal, serverVars
  <2> QED
    BY <1>3, <1>9, <2>1 DEF WaitForCommand
<1>10. CASE DispatchEvent \/ DispatchPatch
  BY <1>1, <1>3, <1>10 DEF DispatchEvent, DispatchPatch
<1>11. CASE DispatchStandby
  BY <1>1, <1>2, <1>3, <1>11 DEF DispatchStandby
<1>12. CASE ResponseTooLong
  BY <1>1, <1>3, <1>12 DEF ResponseTooLong
<1>13. CASE WriteResponseId \/ WriteResponseBody
  BY <1>1, <1>2, <1>3, <1>13 DEF WriteResponseId, WriteResponseBody
<1>14. CASE AdvanceResponse \/ SignalResponse
  <2>1. {leaving', outcome', responseEvent'} \subseteq BOOLEAN
    BY <1>14 DEF AdvanceResponse, SignalResponse
  <2>2. responseSequence' \in Nat
    BY <1>14 DEF AdvanceResponse, SignalResponse
  <2>3. /\ UNCHANGED callVars
        /\ UNCHANGED <<standby, response, standbySequence, completion>>
    BY <1>14 DEF AdvanceResponse, SignalResponse
  <2>4. serverPc' = "idle"
    BY <1>1, <1>14 DEF AdvanceResponse, SignalResponse
  <2> QED
    BY <1>3, <2>1, <2>2, <2>3, <2>4
<1>15. CASE ServerIsSilent
  BY <1>3, <1>15 DEF ServerIsSilent, HeartbeatAges, ipcVars, loopVars
<1> QED
  BY Zenon, <1>4, <1>5, <1>6, <1>7, <1>8, <1>9, <1>10, <1>11, <1>12, <1>13, <1>14, <1>15
     DEF ServerStep, PublishStep, RespondStep

LEMMA IpcTypeStep ==
  ASSUME IpcTypeOK, RingFits', [Next]_vars
  PROVE  IpcTypeOK'
<1>1. CASE UNCHANGED vars
  BY <1>1 DEF IpcTypeOK, RingFits, vars, ringVars, serverVars, ipcVars, callVars, loopVars, slotVars
<1> QED
  BY Zenon, <1>1, ClientKeepsIpcType, ServerKeepsIpcType DEF Next

\* The channel keeps its types, and the ring never holds more than its slots,
\* for any number of clients and slots.
THEOREM IpcTypeCorrect == Spec => []IpcTypeOK
<1>1. Spec => []RingFits
  BY FastIpcKeepsRing, RingInvFits, PTL
<1>2. Init /\ RingFits => IpcTypeOK
  BY IpcTypeInit
<1>3. IpcTypeOK /\ RingFits' /\ [Next]_vars => IpcTypeOK'
  BY IpcTypeStep
<1> QED
  BY <1>1, <1>2, <1>3, PTL DEF Spec

(***************************************************************************)
(* A preload's completion                                                  *)
(*                                                                         *)
(* The completion slot is whole, or the sequence is odd; a client's copies *)
(* are those of the slot for as long as the sequence is the one it read.   *)
(***************************************************************************)
Writing == task \in {"completionId", "completionBody", "even"}

SequenceIsParity ==
  /\ standbySequence \in Nat
  /\ standbySequence % 2 = 1 <=> Writing

SlotIsWhole ==
  /\ task # "completionBody" => completion.id = completion.body
  /\ task \in {"completionBody", "even", "hint"} => completion.id = standby
  /\ task = "stopped" => standby = NoCommand

CopyOf(c) ==
  /\ call[c] \in {"copyId", "copyBody", "after"} =>
       before[c] \in Nat /\ before[c] % 2 = 0 /\ before[c] <= standbySequence
  /\ call[c] \in {"copyBody", "after"} /\ SnapshotIsStable(c) => snapshot[c].id = completion.id
  /\ call[c] = "after" /\ SnapshotIsStable(c) => snapshot[c].body = completion.body

CopyIsOfSlot == \A c \in Clients : CopyOf(c)

CompletionInv == SequenceIsParity /\ SlotIsWhole /\ CopyIsOfSlot

LEMMA CompletionInit == Init => CompletionInv
<1> SUFFICES ASSUME Init PROVE CompletionInv
  OBVIOUS
<1>1. SequenceIsParity
  BY SMT DEF Init, SequenceIsParity, Writing
<1>2. SlotIsWhole /\ CopyIsOfSlot
  BY DEF Init, SlotIsWhole, CopyIsOfSlot, CopyOf, NoSnapshot
<1> QED
  BY <1>1, <1>2 DEF CompletionInv

\* Clients write nothing the server publishes completions with.
LEMMA ClientsOnlyRead ==
  ASSUME NEW c \in Clients, ClientStep(c)
  PROVE  UNCHANGED <<task, standby, standbySequence, completion>>
BY Zenon DEF ClientStep, RingStep, CallStep, PollStep, ReadWatermark, BeginCall, CallFails,
   CallIsSent, ObserveSequence, LookAtResponse, ReadResponse, WakeForResponse,
   ResponseTimesOut, PollBefore, CopyId, CopyBody, PollAfter, DropClient, ClientDies,
   loopVars, slotVars, ipcVars

LEMMA ClientCopies ==
  ASSUME IpcTypeOK, CompletionInv, NEW c \in Clients, ClientStep(c)
  PROVE  CopyOf(c)'
<1> USE DEF Step, CopyOf, SnapshotIsStable
<1>1. /\ call \in [Clients -> Calls]
      /\ before \in [Clients -> Nat]
      /\ snapshot \in [Clients -> Halves]
      /\ standbySequence \in Nat
  BY DEF IpcTypeOK
<1>2. UNCHANGED <<standbySequence, completion>>
  BY ClientsOnlyRead
<1>3. CopyOf(c)
  BY DEF CompletionInv, CopyIsOfSlot
<1>4. CASE RingStep(c)
  BY <1>2, <1>3, <1>4 DEF RingStep, ipcVars, callVars
<1>5. CASE CallStep(c) \/ ClientDies(c)
  <2>1. call' = [call EXCEPT ![c] = call'[c]]
        /\ call'[c] \notin {"copyId", "copyBody", "after"}
    BY <1>1, <1>5 DEF CallStep, ReadWatermark, BeginCall, CallFails, CallIsSent, ObserveSequence,
       LookAtResponse, ReadResponse, WakeForResponse, ResponseTimesOut, ClientDies,
       ObserveAgain
  <2> QED
    BY <2>1
<1>6. CASE PollBefore(c)
  BY <1>1, <1>2, <1>6 DEF PollBefore, Settled
<1>7. CASE CopyId(c)
  BY <1>1, <1>2, <1>3, <1>7 DEF CopyId, In, Halves
<1>8. CASE CopyBody(c)
  BY <1>1, <1>2, <1>3, <1>8 DEF CopyBody, In, Halves
<1>9. CASE PollAfter(c)
  BY <1>1, <1>9 DEF PollAfter
<1>10. CASE DropClient(c)
  BY <1>1, <1>2, <1>3, <1>10 DEF DropClient
<1> QED
  BY Zenon, <1>4, <1>5, <1>6, <1>7, <1>8, <1>9, <1>10 DEF ClientStep, PollStep

LEMMA OthersRest ==
  ASSUME IpcTypeOK, NEW c \in Clients, ClientStep(c), NEW d \in Clients, d # c
  PROVE  call'[d] = call[d] /\ before'[d] = before[d] /\ snapshot'[d] = snapshot[d]
<1> USE DEF Step, IpcTypeOK
<1>1. CASE RingStep(c)
  BY <1>1 DEF RingStep, ipcVars, callVars
<1>2. CASE CallStep(c)
  BY <1>2 DEF CallStep, ReadWatermark, BeginCall, CallFails, CallIsSent, ObserveSequence,
     LookAtResponse, ReadResponse, WakeForResponse, ResponseTimesOut
<1>3. CASE PollStep(c)
  BY <1>3 DEF PollStep, PollBefore, CopyId, CopyBody, PollAfter
<1>4. CASE DropClient(c) \/ ClientDies(c)
  BY <1>4 DEF DropClient, ClientDies
<1> QED
  BY Zenon, <1>1, <1>2, <1>3, <1>4 DEF ClientStep

LEMMA ClientKeepsCompletion ==
  ASSUME IpcTypeOK, CompletionInv, NEW c \in Clients, ClientStep(c)
  PROVE  CompletionInv'
<1>1. UNCHANGED <<task, standby, standbySequence, completion>>
  BY ClientsOnlyRead
<1>2. SequenceIsParity' /\ SlotIsWhole'
  BY <1>1 DEF CompletionInv, SequenceIsParity, Writing, SlotIsWhole
<1>3. ASSUME NEW d \in Clients
      PROVE  CopyOf(d)'
  <2>1. CASE d = c
    BY Zenon, <2>1, ClientCopies
  <2>2. CASE d # c
    <3>1. CopyOf(d)
      BY DEF CompletionInv, CopyIsOfSlot
    <3>2. call'[d] = call[d] /\ before'[d] = before[d] /\ snapshot'[d] = snapshot[d]
      BY <2>2, OthersRest
    <3> QED
      BY <1>1, <3>1, <3>2 DEF CopyOf, SnapshotIsStable
  <2> QED
    BY <2>1, <2>2
<1> QED
  BY <1>2, <1>3 DEF CompletionInv, CopyIsOfSlot

\* Parity, one step at a time.
LEMMA ParityFlips ==
  ASSUME NEW n \in Nat
  PROVE  /\ n % 2 = 0 \/ n % 2 = 1
         /\ n % 2 = 1 => (n + 1) % 2 = 0
         /\ n % 2 = 0 => (n + 1) % 2 = 1
BY SMT

\* The server writes the slot under an odd sequence: no copy is stable then.
LEMMA ServerKeepsCompletion ==
  ASSUME IpcTypeOK, CompletionInv, ServerStep \/ ServerIsSilent
  PROVE  CompletionInv'
<1>1. /\ standbySequence \in Nat /\ before \in [Clients -> Nat]
      /\ completion \in Halves
  BY DEF IpcTypeOK
<1>2. SequenceIsParity /\ SlotIsWhole /\ CopyIsOfSlot
  BY DEF CompletionInv
<1>3. UNCHANGED callVars
  BY Zenon DEF ServerStep, ServerIsSilent, BeginRound, PublishStep, BeginCompletion,
     WriteCompletionId, WriteCompletionBody, EndCompletion, SignalCompletion, Receive,
     WaitForCommand, DispatchEvent, DispatchPatch, DispatchStandby, RespondStep,
     ResponseTooLong, WriteResponseId, WriteResponseBody, AdvanceResponse, SignalResponse,
     ipcVars
<1>4. ASSUME standbySequence' = standbySequence, completion' = completion
      PROVE  CopyIsOfSlot'
  BY <1>2, <1>3, <1>4 DEF CopyIsOfSlot, CopyOf, SnapshotIsStable, callVars
<1>5. ASSUME standbySequence' = standbySequence + 1
      PROVE  CopyIsOfSlot'
  <2> SUFFICES ASSUME NEW c \in Clients PROVE CopyOf(c)'
    BY DEF CopyIsOfSlot
  <2>1. CopyOf(c)
    BY <1>2 DEF CopyIsOfSlot
  <2> QED
    BY <1>1, <1>3, <1>5, <2>1 DEF CopyOf, SnapshotIsStable, callVars
<1>6. ASSUME standbySequence' = standbySequence, Writing
      PROVE  CopyIsOfSlot'
  <2> SUFFICES ASSUME NEW c \in Clients PROVE CopyOf(c)'
    BY DEF CopyIsOfSlot
  <2>1. CopyOf(c) /\ standbySequence % 2 = 1
    BY <1>2, <1>6 DEF CopyIsOfSlot, SequenceIsParity
  <2> QED
    BY <1>1, <1>3, <1>6, <2>1 DEF CopyOf, SnapshotIsStable, callVars
<1>7. CASE BeginCompletion
  <2>1. task = "odd" /\ task' = "completionId" /\ standbySequence' = standbySequence + 1
        /\ completion' = completion
    BY <1>7 DEF BeginCompletion
  <2>2. SequenceIsParity'
    BY <1>1, <1>2, <2>1, ParityFlips DEF SequenceIsParity, Writing
  <2>3. SlotIsWhole'
    BY <1>2, <2>1 DEF SlotIsWhole
  <2> QED
    BY <1>5, <2>1, <2>2, <2>3 DEF CompletionInv
<1>8. CASE WriteCompletionId \/ WriteCompletionBody
  <2>1. Writing /\ Writing' /\ standbySequence' = standbySequence
    BY <1>8 DEF WriteCompletionId, WriteCompletionBody, Writing
  <2>2. SequenceIsParity'
    BY <1>2, <2>1 DEF SequenceIsParity
  <2>3. SlotIsWhole'
    BY <1>1, <1>2, <1>8 DEF WriteCompletionId, WriteCompletionBody, SlotIsWhole, Halves
  <2> QED
    BY <1>6, <2>1, <2>2, <2>3 DEF CompletionInv
<1>9. CASE EndCompletion
  <2>1. /\ task = "even" /\ task' = "hint" /\ standbySequence' = standbySequence + 1
        /\ UNCHANGED <<standby, completion>>
    BY <1>9 DEF EndCompletion
  <2>2. SequenceIsParity'
    BY <1>1, <1>2, <2>1, ParityFlips DEF SequenceIsParity, Writing
  <2>3. SlotIsWhole'
    BY <1>2, <2>1 DEF SlotIsWhole
  <2> QED
    BY <1>5, <2>1, <2>2, <2>3 DEF CompletionInv
<1>10. ASSUME \/ BeginRound \/ SignalCompletion \/ Receive \/ WaitForCommand \/ DispatchEvent
              \/ DispatchPatch \/ DispatchStandby \/ RespondStep \/ ServerIsSilent
       PROVE  CompletionInv'
  <2>1. UNCHANGED <<standbySequence, completion>>
    BY <1>10 DEF BeginRound, SignalCompletion, Receive, WaitForCommand, DispatchEvent,
       DispatchPatch, DispatchStandby, RespondStep, ResponseTooLong, WriteResponseId,
       WriteResponseBody, AdvanceResponse, SignalResponse, ServerIsSilent, slotVars, ipcVars
  <2>2. ~Writing /\ ~Writing'
    BY <1>10 DEF BeginRound, SignalCompletion, Receive, WaitForCommand, DispatchEvent,
       DispatchPatch, DispatchStandby, RespondStep, ResponseTooLong, WriteResponseId,
       WriteResponseBody, AdvanceResponse, SignalResponse, ServerIsSilent, ipcVars, loopVars,
       Writing
  <2>3. SequenceIsParity'
    BY <1>2, <2>1, <2>2 DEF SequenceIsParity
  <2>4. task' \notin {"completionBody", "even", "hint"}
    BY <1>10 DEF BeginRound, SignalCompletion, Receive, WaitForCommand, DispatchEvent,
       DispatchPatch, DispatchStandby, RespondStep, ResponseTooLong, WriteResponseId,
       WriteResponseBody, AdvanceResponse, SignalResponse, ServerIsSilent, ipcVars, loopVars
  <2>5. task' = "stopped" => standby' = NoCommand
    BY <1>2, <1>10 DEF BeginRound, HasCompletion, SignalCompletion, Receive, WaitForCommand,
       DispatchEvent, DispatchPatch, DispatchStandby, RespondStep, ResponseTooLong,
       WriteResponseId, WriteResponseBody, AdvanceResponse, SignalResponse, ServerIsSilent,
       ipcVars, loopVars, SlotIsWhole
  <2>6. completion.id = completion.body
    BY <1>2, <2>2 DEF SlotIsWhole, Writing
  <2>7. SlotIsWhole'
    BY <2>1, <2>4, <2>5, <2>6 DEF SlotIsWhole
  <2> QED
    BY <1>4, <2>1, <2>3, <2>7 DEF CompletionInv
<1> QED
  BY Zenon, <1>7, <1>8, <1>9, <1>10 DEF ServerStep, PublishStep

LEMMA CompletionStep ==
  ASSUME IpcTypeOK, CompletionInv, [Next]_vars
  PROVE  CompletionInv'
<1>1. CASE UNCHANGED vars
  BY <1>1 DEF CompletionInv, SequenceIsParity, Writing, SlotIsWhole, CopyIsOfSlot, CopyOf,
     SnapshotIsStable, vars, ipcVars, callVars, loopVars, slotVars
<1> QED
  BY Zenon, <1>1, ClientKeepsCompletion, ServerKeepsCompletion DEF Next

THEOREM CompletionInvCorrect == Spec => []CompletionInv
<1>1. Init => CompletionInv
  BY CompletionInit
<1>2. IpcTypeOK /\ CompletionInv /\ [Next]_vars => CompletionInv'
  BY CompletionStep
<1> QED
  BY <1>1, <1>2, IpcTypeCorrect, PTL DEF Spec

\* However client and server take turns at the completion slot, a client that
\* accepts a completion has read one that was written for one preload.
THEOREM CompletionIsWholeCorrect == Spec => []CompletionIsWhole
<1>1. CompletionInv => CompletionIsWhole
  <2> SUFFICES ASSUME CompletionInv, NEW c \in Clients, Accepts(c)
               PROVE  snapshot[c].id = snapshot[c].body
    BY DEF CompletionIsWhole
  <2>1. call[c] = "after" /\ SnapshotIsStable(c)
    BY DEF Accepts, In
  <2>2. CopyOf(c) /\ SequenceIsParity /\ SlotIsWhole
    BY DEF CompletionInv, CopyIsOfSlot
  <2>3. standbySequence % 2 = 0
    BY <2>1, <2>2 DEF CopyOf, SnapshotIsStable
  <2>4. task # "completionBody"
    BY <2>2, <2>3 DEF SequenceIsParity, Writing
  <2> QED
    BY <2>1, <2>2, <2>4 DEF CopyOf, SlotIsWhole
<1> QED
  BY <1>1, CompletionInvCorrect, PTL

LetsGoCompleted ==
  standby # NoCommand /\ (standby' # standby \/ task' = "stopped") => Completed(standby.no)

LEMMA PreloadStep == CompletionInv /\ [Next]_vars => [LetsGoCompleted]_vars
<1> SUFFICES ASSUME CompletionInv, Next,
                    standby # NoCommand, standby' # standby \/ task' = "stopped"
             PROVE  Completed(standby.no)
  BY DEF LetsGoCompleted
<1>1. /\ standbySequence \in Nat
      /\ standbySequence % 2 = 1 <=> Writing
      /\ task # "completionBody" => completion.id = completion.body
      /\ task \in {"completionBody", "even", "hint"} => completion.id = standby
      /\ task # "stopped"
  BY DEF CompletionInv, SequenceIsParity, SlotIsWhole
<1>2. ASSUME NEW c \in Clients, ClientStep(c)
      PROVE  FALSE
  BY <1>1, <1>2, ClientsOnlyRead
<1>3. CASE SignalCompletion
  BY <1>1, <1>3, ParityFlips DEF SignalCompletion, Completed, Writing
<1>4. ASSUME BeginRound \/ DispatchStandby
      PROVE  FALSE
  BY <1>1, <1>4 DEF BeginRound, HasCompletion, DispatchStandby, Vacant
<1>5. ASSUME \/ BeginCompletion \/ WriteCompletionId \/ WriteCompletionBody \/ EndCompletion
             \/ Receive \/ WaitForCommand \/ DispatchEvent \/ DispatchPatch \/ RespondStep
             \/ ServerIsSilent
      PROVE  FALSE
  BY <1>1, <1>5 DEF BeginCompletion, WriteCompletionId, WriteCompletionBody, EndCompletion,
     Receive, WaitForCommand, DispatchEvent, DispatchPatch, RespondStep, ResponseTooLong,
     WriteResponseId, WriteResponseBody, AdvanceResponse, SignalResponse, ServerIsSilent,
     ipcVars, loopVars
<1> QED
  BY Zenon, <1>2, <1>3, <1>4, <1>5 DEF Next, ServerStep, PublishStep

\* The server lets go of a preload only when its completion is there to be read
\* whole, and leaves none behind when it stops.
THEOREM PreloadIsCompletedCorrect == Spec => PreloadIsCompleted
BY CompletionInvCorrect, PreloadStep, PTL DEF Spec, PreloadIsCompleted, LetsGoCompleted


(***************************************************************************)
(* The wake-up for a response                                              *)
(*                                                                         *)
(* Commands are told apart by their numbers and answered in their order.   *)
(* So a response to the command a client waits for is the last one on its  *)
(* connection, and the event set for it is nobody else's to consume.       *)
(***************************************************************************)
UsesRing(c) == pc[c] \in {"connected", "push", "publish", "signal"}
Published(c) == pc[c] \in {"connected", "signal"}
Answering == task \in {"dispatch", "responseId", "responseBody"}
Signalled == responseEvent \/ task \in {"responseSequence", "responseEvent"}

\* Whoever has a command has the ring, and whoever waits for a response has one.
CallsConnected ==
  \A c \in Clients :
    /\ command[c] # NoCommand => c \in alive /\ UsesRing(c)
    /\ call[c] \in {"observe", "look", "body", "wait"} => command[c] # NoCommand /\ pc[c] = "connected"

NumbersBegun ==
  /\ \A k \in 0 .. SlotCount - 1 : slots[k].no <= begun
  /\ \A n \in 1 .. Len(pending) : pending[n].no <= begun
  /\ \A c \in Clients : command[c].no <= begun
  /\ taken.no <= begun
  /\ response.body.no <= begun

\* Where the command of a client stands: last in the ring, popped, or answered.
AnsweredInOrder(c) ==
  command[c] # NoCommand =>
    /\ \A n \in 1 .. Len(pending) : pending[n] = command[c] => Published(c) /\ n = Len(pending)
    /\ taken = command[c] /\ Answering => Published(c) /\ pending = <<>>
    /\ response.body = command[c] => Published(c) /\ pending = <<>> /\ ~Answering

RespondsInOrder == ~overtaken => \A c \in Clients : AnsweredInOrder(c)

ResponseIsWritten ==
  /\ task # "responseBody" => response.id = response.body
  /\ task = "responseBody" => response.id = taken
  /\ response.body # NoCommand => responseSequence # 0 \/ task = "responseSequence"

Woken(c) ==
  response.body = command[c] =>
    /\ call[c] = "look" => Signalled \/ observed[c] # 0
    /\ call[c] = "wait" => Signalled

WaitersAreWoken == ~overtaken => \A c \in Clients : Woken(c)

SignalInv ==
  CallsConnected /\ NumbersBegun /\ RespondsInOrder /\ ResponseIsWritten /\ WaitersAreWoken

LEMMA SignalInit == Init => SignalInv
<1> SUFFICES ASSUME Init PROVE SignalInv
  OBVIOUS
<1> USE DEF Init, RingInit
<1>1. CallsConnected /\ ResponseIsWritten
  BY DEF CallsConnected, ResponseIsWritten
<1>2. NumbersBegun
  BY DEF NumbersBegun, NoCommand
<1>3. RespondsInOrder /\ WaitersAreWoken
  BY DEF RespondsInOrder, AnsweredInOrder, WaitersAreWoken, Woken
<1> QED BY <1>1, <1>2, <1>3 DEF SignalInv

(***************************************************************************)
(* What a client does to its command                                       *)
(***************************************************************************)
ServerRests == UNCHANGED <<task, taken, serverPc, response, responseSequence>>

OthersStay(c) ==
  \A d \in Clients \ {c} :
    /\ call'[d] = call[d] /\ pc'[d] = pc[d] /\ command'[d] = command[d]
    /\ observed'[d] = observed[d] /\ (d \in alive <=> d \in alive')

\* The command stays as it is, and the ring.
Stays(c) ==
  /\ UNCHANGED <<slots, pending, overtaken>> /\ command'[c] = command[c]
  /\ begun' \in {begun, begun + 1} /\ alive' = alive
  /\ UsesRing(c) => UsesRing(c)'
  /\ Published(c) => Published(c)'

Written(c) ==
  /\ UNCHANGED <<pending, overtaken, begun, alive>> /\ command'[c] = command[c] /\ c \in alive
  /\ pc[c] = "push" /\ pc'[c] = "publish" /\ call'[c] = call[c]
  /\ \A k \in 0 .. SlotCount - 1 : slots'[k] \in {slots[k], command[c]}

Pushed(c) ==
  /\ UNCHANGED <<slots, overtaken, begun, alive>> /\ command'[c] = command[c] /\ c \in alive
  /\ pc[c] = "publish" /\ pc'[c] = "signal" /\ call'[c] = call[c]
  /\ pending' = Append(pending, command[c])

Skipped(c) ==
  /\ UNCHANGED <<slots, begun, alive>> /\ command'[c] = command[c] /\ c \in alive
  /\ pc[c] = "claimed" /\ pc'[c] = "connected" /\ call'[c] = call[c]
  /\ pending' = <<>>

Issued(c) ==
  /\ UNCHANGED <<slots, pending, overtaken, alive>> /\ c \in alive /\ pc[c] = "connected"
  /\ begun' = begun + 1 /\ command'[c].no = begun'
  /\ pc'[c] = "push" /\ call'[c] = "push"

Left(c) ==
  /\ UNCHANGED <<slots, pending, overtaken, begun>> /\ command'[c] = NoCommand
  /\ call'[c] = "none"

LEMMA ClientRests ==
  ASSUME NEW c \in Clients, ClientStep(c)
  PROVE  ServerRests /\ (responseEvent' = responseEvent \/ WakeForResponse(c))
BY Zenon DEF ClientStep, RingStep, CallStep, PollStep, ReadWatermark, BeginCall, CallFails,
   CallIsSent, ObserveSequence, LookAtResponse, ReadResponse, WakeForResponse,
   ResponseTimesOut, PollBefore, CopyId, CopyBody, PollAfter, DropClient, ClientDies,
   BeginConnect, ConnectStep, LoadOwner, ClaimFree, FindOwnerRunning, ClearDeadOwner,
   SkipOldCommands, BeginPush, PushFails, WriteSlot, Publish, SignalCommand, Disconnect,
   Die, serverVars, loopVars, slotVars, ipcVars, ringVars, ServerRests

\* The steps of a client in the ring.
RingPart(c) ==
  \/ BeginConnect(c) \/ ConnectStep(c) \/ WriteSlot(c) \/ Publish(c) \/ PushFails(c)
  \/ SignalCommand(c) \/ Disconnect(c) \/ Die(c) \/ UNCHANGED ringVars
  \/ \E kind \in Kinds : BeginPush(c, kind)

LEMMA RingPartOthers ==
  ASSUME RingTypeOK, NEW c \in Clients, RingPart(c), NEW d \in Clients \ {c}
  PROVE  pc'[d] = pc[d] /\ command'[d] = command[d] /\ (d \in alive <=> d \in alive')
<1> USE DEF RingTypeOK, Goto
<1>1. CASE BeginConnect(c) \/ ConnectStep(c)
  BY <1>1 DEF BeginConnect, ConnectStep, LoadOwner, ClaimFree, FindOwnerRunning, ClearDeadOwner,
     SkipOldCommands
<1>2. CASE WriteSlot(c) \/ Publish(c) \/ PushFails(c) \/ SignalCommand(c)
  BY <1>2 DEF WriteSlot, Publish, PushFails, SignalCommand
<1>3. CASE Disconnect(c) \/ Die(c) \/ UNCHANGED ringVars
  BY <1>3 DEF Disconnect, Die, ringVars, clientVars
<1>4. ASSUME NEW kind \in Kinds, BeginPush(c, kind)
      PROVE  pc'[d] = pc[d] /\ command'[d] = command[d] /\ (d \in alive <=> d \in alive')
  BY <1>4 DEF BeginPush
<1> QED BY <1>1, <1>2, <1>3, <1>4 DEF RingPart

LEMMA ClientUsesPart ==
  ASSUME NEW c \in Clients, ClientStep(c)
  PROVE  RingPart(c)
BY Zenon DEF ClientStep, RingStep, CallStep, PollStep, ReadWatermark, BeginCall, CallFails,
   CallIsSent, ObserveSequence, LookAtResponse, ReadResponse, WakeForResponse,
   ResponseTimesOut, PollBefore, CopyId, CopyBody, PollAfter, DropClient, ClientDies, RingPart, Kinds

LEMMA ClientOthers ==
  ASSUME IpcTypeOK, NEW c \in Clients, ClientStep(c)
  PROVE  OthersStay(c)
<1>1. RingTypeOK
  BY DEF IpcTypeOK
<1>2. \A d \in Clients \ {c} :
        pc'[d] = pc[d] /\ command'[d] = command[d] /\ (d \in alive <=> d \in alive')
  BY <1>1, ClientUsesPart, RingPartOthers
<1>3. ASSUME NEW d \in Clients \ {c} PROVE observed'[d] = observed[d]
  <2>1. observed' = observed \/ \E v : observed' = [observed EXCEPT ![c] = v]
    BY Zenon DEF ClientStep, RingStep, CallStep, PollStep, ReadWatermark, BeginCall, CallFails,
       CallIsSent, ObserveSequence, LookAtResponse, ReadResponse, WakeForResponse,
       ResponseTimesOut, PollBefore, CopyId, CopyBody, PollAfter, DropClient, ClientDies,
       ipcVars, callVars
  <2> QED BY <2>1 DEF IpcTypeOK
<1>4. ASSUME NEW d \in Clients \ {c} PROVE call'[d] = call[d]
  BY OthersRest
<1> QED BY <1>2, <1>3, <1>4 DEF OthersStay

LEMMA ClientMoves ==
  ASSUME IpcTypeOK, NEW c \in Clients, ClientStep(c)
  PROVE  Stays(c) \/ Written(c) \/ Pushed(c) \/ Skipped(c) \/ Issued(c) \/ Left(c)
<1>0. /\ pc \in [Clients -> Places] /\ command \in [Clients -> AnyCommands] /\ begun \in Nat
      /\ slots \in [0 .. SlotCount - 1 -> AnyCommands] /\ call \in [Clients -> Calls]
  BY DEF IpcTypeOK, RingTypeOK
<1>1. ASSUME UNCHANGED ringVars PROVE Stays(c)
  BY <1>1 DEF Stays, ringVars, clientVars, historyVars, UsesRing, Published
<1>2. ASSUME \/ BeginConnect(c) \/ LoadOwner(c) \/ ClaimFree(c) \/ FindOwnerRunning(c)
             \/ ClearDeadOwner(c) \/ PushFails(c) \/ SignalCommand(c)
      PROVE  Stays(c)
  BY <1>0, <1>2 DEF BeginConnect, LoadOwner, ClaimFree, FindOwnerRunning, ClearDeadOwner, PushFails,
     SignalCommand, At, Goto, historyVars, Stays, UsesRing, Published
<1>3. CASE RingStep(c)
  <2>1. call' = call
    BY <1>3 DEF RingStep, ipcVars, callVars
  <2>2. ASSUME WriteSlot(c) PROVE Written(c)
    BY <1>0, <2>1, <2>2 DEF WriteSlot, At, Goto, historyVars, Written
  <2>3. ASSUME Publish(c) PROVE Pushed(c)
    BY <1>0, <2>1, <2>3 DEF Publish, At, Goto, Pushed
  <2>4. ASSUME SkipOldCommands(c) PROVE Skipped(c)
    BY <1>0, <2>1, <2>4 DEF SkipOldCommands, At, Goto, Skipped
  <2> QED BY <1>2, <1>3, <2>2, <2>3, <2>4 DEF RingStep, ConnectStep
<1>4. CASE BeginCall(c)
  <2>1. PICK kind : BeginPush(c, kind) /\ call'[c] = "push"
    BY <1>0, <1>4 DEF BeginCall, Step
  <2>2. command'[c].no = begun + 1
    BY <1>0, <2>1 DEF BeginPush
  <2> QED BY <1>0, <2>1, <2>2 DEF BeginPush, At, Goto, historyVars, Issued
<1>5. CASE DropClient(c) \/ ClientDies(c)
  BY <1>0, <1>5 DEF DropClient, ClientDies, Disconnect, Die, In, historyVars, Left
<1>6. CASE CallFails(c) \/ CallIsSent(c)
  BY <1>2, <1>6 DEF CallFails, CallIsSent
<1>7. CASE ReadWatermark(c) \/ ObserveSequence(c) \/ LookAtResponse(c)
  BY Zenon, <1>1, <1>7 DEF ReadWatermark, ObserveSequence, LookAtResponse
<1>8. CASE ReadResponse(c) \/ WakeForResponse(c) \/ ResponseTimesOut(c) \/ PollStep(c)
  BY Zenon, <1>1, <1>8 DEF ReadResponse, WakeForResponse, ResponseTimesOut, PollStep, PollBefore,
     CopyId, CopyBody, PollAfter
<1> QED BY Zenon, <1>3, <1>4, <1>5, <1>6, <1>7, <1>8 DEF ClientStep, CallStep

(***************************************************************************)
(* A client's step                                                         *)
(***************************************************************************)
ChannelInv == IpcTypeOK /\ ConnectedOwnsRing /\ SignalInv

\* Only one client has a command: the one that has the ring.
LEMMA OneHasCommand ==
  ASSUME ConnectedOwnsRing, CallsConnected, NEW c \in alive, Connected(c),
         NEW d \in Clients \ {c}
  PROVE  command[d] = NoCommand
BY DEF ConnectedOwnsRing, CallsConnected, Connected, UsesRing

LEMMA WhoWaits ==
  ASSUME CallsConnected, IpcTypeOK, NEW c \in Clients, ClientStep(c),
         call'[c] \in {"observe", "look", "body", "wait"}
  PROVE  \/ CallIsSent(c)
         \/ /\ call[c] \in {"observe", "look", "body", "wait"} /\ UNCHANGED ringVars
            /\ call'[c] \in {"look", "wait"} => ObserveSequence(c) \/ LookAtResponse(c)
<1>0. call \in [Clients -> Calls]
  BY DEF IpcTypeOK
<1> USE DEF Step, In
<1>1. ~RingStep(c)
  BY DEF RingStep, BeginConnect, ConnectStep, LoadOwner, ClaimFree, FindOwnerRunning,
     ClearDeadOwner, SkipOldCommands, WriteSlot, Publish, At, CallsConnected, ipcVars, callVars
<1>2. ~ReadWatermark(c) /\ ~BeginCall(c) /\ ~CallFails(c)
  BY <1>0 DEF ReadWatermark, BeginCall, CallFails
<1>3. ~ReadResponse(c) /\ ~ResponseTimesOut(c) /\ ~ClientDies(c) /\ ~DropClient(c)
  BY <1>0 DEF ReadResponse, ResponseTimesOut, ClientDies, DropClient
<1>4. ~PollStep(c)
  BY <1>0 DEF PollStep, PollBefore, CopyId, CopyBody, PollAfter
<1>5. CallIsSent(c) \/ ObserveSequence(c) \/ LookAtResponse(c) \/ WakeForResponse(c)
  BY Zenon, <1>1, <1>2, <1>3, <1>4 DEF ClientStep, CallStep
<1>6. ASSUME ObserveSequence(c) \/ LookAtResponse(c) \/ WakeForResponse(c)
      PROVE  call[c] \in {"observe", "look", "body", "wait"} /\ UNCHANGED ringVars
  BY <1>6 DEF ObserveSequence, LookAtResponse, WakeForResponse
<1>7. WakeForResponse(c) => call'[c] = "observe"
  BY <1>0 DEF WakeForResponse, ObserveAgain
<1> QED BY <1>5, <1>6, <1>7

LEMMA ClientKeepsConnected ==
  ASSUME ChannelInv, NEW c \in Clients, ClientStep(c)
  PROVE  CallsConnected'
<1>0. IpcTypeOK /\ CallsConnected
  BY DEF ChannelInv, SignalInv
<1>1. ASSUME NEW d \in Clients \ {c}
      PROVE  /\ command'[d] # NoCommand => d \in alive' /\ UsesRing(d)'
             /\ call'[d] \in {"observe", "look", "body", "wait"} =>
                  command'[d] # NoCommand /\ pc'[d] = "connected"
  BY <1>0, <1>1, ClientOthers DEF OthersStay, CallsConnected, UsesRing
<1>2. command'[c] # NoCommand => c \in alive' /\ UsesRing(c)'
  <2>1. command[c] # NoCommand => c \in alive /\ UsesRing(c)
    BY <1>0 DEF CallsConnected
  <2>2. CASE Stays(c)
    BY <2>1, <2>2 DEF Stays
  <2>3. CASE Written(c) \/ Pushed(c) \/ Skipped(c) \/ Issued(c) \/ Left(c)
    BY <2>3 DEF Written, Pushed, Skipped, Issued, Left, UsesRing
  <2> QED BY <1>0, <2>2, <2>3, ClientMoves
<1>3. ASSUME call'[c] \in {"observe", "look", "body", "wait"}
      PROVE  command'[c] # NoCommand /\ pc'[c] = "connected"
  <2>1. CASE CallIsSent(c)
    <3>1. command' = command /\ pc'[c] = "connected" /\ call'[c] # "none"
      BY <1>0, <1>3, <2>1 DEF CallIsSent, SignalCommand, Goto, IpcTypeOK, RingTypeOK
    <3>2. command[c].kind \in Requests
      BY <1>0, <2>1, <3>1 DEF CallIsSent, Step, IpcTypeOK
    <3> QED BY <3>1, <3>2 DEF NoCommand, Requests
  <2>2. CASE call[c] \in {"observe", "look", "body", "wait"} /\ UNCHANGED ringVars
    BY <1>0, <2>2 DEF CallsConnected, ringVars, clientVars
  <2> QED BY <1>0, <1>3, <2>1, <2>2, WhoWaits
<1> QED BY <1>1, <1>2, <1>3 DEF CallsConnected

LEMMA CommandHasNumber ==
  ASSUME NEW x \in AnyCommands
  PROVE  x.no \in Nat
<1>1. CASE x \in Commands
  BY <1>1 DEF Commands
<1>2. CASE x = NoCommand
  BY <1>2 DEF NoCommand
<1> QED BY <1>1, <1>2 DEF AnyCommands

LEMMA ClientKeepsNumbers ==
  ASSUME ChannelInv, NEW c \in Clients, ClientStep(c)
  PROVE  NumbersBegun'
<1>0. IpcTypeOK /\ NumbersBegun
  BY DEF ChannelInv, SignalInv
<1>1. /\ begun \in Nat /\ pending \in Seq(AnyCommands) /\ command \in [Clients -> AnyCommands]
      /\ slots \in [0 .. SlotCount - 1 -> AnyCommands] /\ taken.no \in Nat
      /\ response.body.no \in Nat /\ \A x \in AnyCommands : x.no \in Nat
  BY <1>0, CommandHasNumber DEF IpcTypeOK, RingTypeOK
<1>2. ServerRests
  BY ClientRests
<1>3. \A d \in Clients \ {c} : command'[d] = command[d]
  BY <1>0, ClientOthers DEF OthersStay
<1>4. begun' \in {begun, begun + 1}
  BY <1>0, ClientMoves DEF Stays, Written, Pushed, Skipped, Issued, Left
<1>5. \A k \in 0 .. SlotCount - 1 : slots'[k] = slots[k] \/ slots'[k] = command[c]
  BY <1>0, ClientMoves DEF Stays, Written, Pushed, Skipped, Issued, Left
<1>6. command'[c].no <= begun'
  <2>1. CASE Issued(c)
    BY <1>1, <2>1 DEF Issued
  <2>2. CASE command'[c] \in {command[c], NoCommand}
    BY <1>0, <1>1, <1>4, <2>2 DEF NumbersBegun, NoCommand
  <2> QED BY <1>0, <2>1, <2>2, ClientMoves DEF Stays, Written, Pushed, Skipped, Left
<1>7. pending' = pending \/ pending' = <<>> \/ pending' = Append(pending, command[c])
  BY <1>0, ClientMoves DEF Stays, Written, Pushed, Skipped, Issued, Left
<1>8. \A n \in 1 .. Len(pending') : pending'[n].no <= begun'
  <2>1. \A n \in 1 .. Len(pending) : pending[n].no <= begun'
    BY <1>0, <1>1, <1>4 DEF NumbersBegun
  <2>2. command[c].no <= begun'
    BY <1>0, <1>1, <1>4 DEF NumbersBegun
  <2> QED BY SMTT(30), <1>1, <1>7, <2>1, <2>2
<1>9. \A k \in 0 .. SlotCount - 1 : slots'[k].no <= begun'
  BY <1>0, <1>1, <1>4, <1>5 DEF NumbersBegun
<1>10. \A d \in Clients : command'[d].no <= begun'
  BY <1>0, <1>1, <1>3, <1>4, <1>6 DEF NumbersBegun
<1>11. taken'.no <= begun' /\ response'.body.no <= begun'
  BY <1>0, <1>1, <1>2, <1>4 DEF NumbersBegun, ServerRests
<1> QED BY <1>8, <1>9, <1>10, <1>11 DEF NumbersBegun

LEMMA ClientKeepsOrder ==
  ASSUME ChannelInv, NEW c \in Clients, ClientStep(c)
  PROVE  RespondsInOrder'
<1>0. IpcTypeOK /\ NumbersBegun /\ CallsConnected /\ RespondsInOrder /\ ConnectedOwnsRing
  BY DEF ChannelInv, SignalInv
<1>1. ServerRests
  BY ClientRests
<1>2. OthersStay(c)
  BY <1>0, ClientOthers
<1>3. SUFFICES ASSUME ~overtaken', NEW d \in Clients PROVE AnsweredInOrder(d)'
  BY DEF RespondsInOrder
<1>4. ASSUME Connected(c), c \in alive, d # c PROVE AnsweredInOrder(d)'
  <2>1. command[d] = NoCommand
    BY <1>0, <1>4, OneHasCommand
  <2>2. command'[d] = NoCommand
    BY <1>2, <1>4, <2>1 DEF OthersStay
  <2> QED BY <2>2 DEF AnsweredInOrder
<1>5. ASSUME overtaken' = overtaken PROVE AnsweredInOrder(d)
  BY <1>0, <1>3, <1>5 DEF RespondsInOrder
<1>6. /\ Answering' <=> Answering
      /\ taken' = taken /\ response' = response
  BY <1>1 DEF ServerRests, Answering
<1>7. CASE Stays(c) \/ Written(c)
  <2>1. AnsweredInOrder(d)
    BY <1>5, <1>7 DEF Stays, Written
  <2>2. pending' = pending /\ command'[d] = command[d]
    BY <1>2, <1>7 DEF Stays, Written, OthersStay
  <2>3. Published(d) => Published(d)'
    <3>1. CASE d = c
      BY <1>7, <3>1 DEF Stays, Written, Published
    <3>2. CASE d # c
      BY <1>2, <3>2 DEF OthersStay, Published
    <3> QED BY <3>1, <3>2
  <2> QED BY <1>6, <2>1, <2>2, <2>3 DEF AnsweredInOrder
<1>8. CASE Pushed(c)
  <2>1. CASE d = c
    <3>1. AnsweredInOrder(c)
      BY <1>5, <1>8, <2>1 DEF Pushed
    <3>2. ~Published(c) /\ Published(c)'
      BY <1>8 DEF Pushed, Published
    <3>3. pending' = Append(pending, command[c]) /\ command'[c] = command[c]
      BY <1>8 DEF Pushed
    <3>4. pending \in Seq(AnyCommands)
      BY <1>0 DEF IpcTypeOK, RingTypeOK
    <3>5. command[c] # NoCommand => ~(taken = command[c] /\ Answering) /\ response.body # command[c]
      BY <3>1, <3>2 DEF AnsweredInOrder
    <3>6. command[c] # NoCommand => \A n \in 1 .. Len(pending) : pending[n] # command[c]
      BY <3>1, <3>2 DEF AnsweredInOrder
    <3>7. command[c] # NoCommand =>
            \A n \in 1 .. Len(pending') : pending'[n] = command[c] => n = Len(pending')
      BY <3>3, <3>4, <3>6
    <3> QED BY <1>6, <2>1, <3>2, <3>3, <3>5, <3>7 DEF AnsweredInOrder
  <2>2. CASE d # c
    BY <1>4, <1>8, <2>2 DEF Pushed, Connected
  <2> QED BY <2>1, <2>2
<1>9. CASE Skipped(c)
  <2>1. command'[c] = NoCommand
    BY <1>0, <1>9 DEF Skipped, CallsConnected, UsesRing
  <2>2. CASE d = c
    BY <2>1, <2>2 DEF AnsweredInOrder
  <2>3. CASE d # c
    BY <1>4, <1>9, <2>3 DEF Skipped, Connected
  <2> QED BY <2>2, <2>3
<1>10. CASE Issued(c)
  <2>1. CASE d = c
    <3>1. command'[c].no = begun + 1 /\ begun \in Nat /\ pending' = pending
      BY <1>0, <1>10 DEF Issued, IpcTypeOK, RingTypeOK
    <3>2. pending \in Seq(AnyCommands) /\ \A x \in AnyCommands : x.no \in Nat
      BY <1>0, CommandHasNumber DEF IpcTypeOK, RingTypeOK
    <3>3. \A n \in 1 .. Len(pending) : pending[n] # command'[c]
      BY <1>0, <3>1, <3>2 DEF NumbersBegun
    <3>4. taken.no \in Nat /\ response.body.no \in Nat
      BY <1>0, <3>2 DEF IpcTypeOK, RingTypeOK
    <3>5. taken # command'[c] /\ response.body # command'[c]
      BY <1>0, <3>1, <3>4 DEF NumbersBegun
    <3> QED BY <1>6, <2>1, <3>1, <3>3, <3>5 DEF AnsweredInOrder
  <2>2. CASE d # c
    BY <1>4, <1>10, <2>2 DEF Issued, Connected
  <2> QED BY <2>1, <2>2
<1>11. CASE Left(c)
  <2>1. CASE d = c
    BY <1>11, <2>1 DEF Left, AnsweredInOrder
  <2>2. CASE d # c
    <3>1. AnsweredInOrder(d)
      BY <1>5, <1>11 DEF Left
    <3>2. pending' = pending /\ command'[d] = command[d] /\ (Published(d)' <=> Published(d))
      BY <1>2, <1>11, <2>2 DEF Left, OthersStay, Published
    <3> QED BY <1>6, <3>1, <3>2 DEF AnsweredInOrder
  <2> QED BY <2>1, <2>2
<1> QED BY <1>0, <1>7, <1>8, <1>9, <1>10, <1>11, ClientMoves

LEMMA ClientKeepsWritten ==
  ASSUME ChannelInv, NEW c \in Clients, ClientStep(c)
  PROVE  ResponseIsWritten'
<1>1. ResponseIsWritten
  BY DEF ChannelInv, SignalInv
<1> QED BY <1>1, ClientRests DEF ResponseIsWritten, ServerRests

LEMMA ClientKeepsWoken ==
  ASSUME ChannelInv, NEW c \in Clients, ClientStep(c)
  PROVE  WaitersAreWoken'
<1>0. /\ IpcTypeOK /\ CallsConnected /\ RespondsInOrder /\ ConnectedOwnsRing
      /\ ResponseIsWritten /\ WaitersAreWoken
  BY DEF ChannelInv, SignalInv
<1>1. ServerRests
  BY ClientRests
<1>2. OthersStay(c)
  BY <1>0, ClientOthers
<1>3. SUFFICES ASSUME ~overtaken', NEW d \in Clients PROVE Woken(d)'
  BY DEF WaitersAreWoken
<1>4. overtaken' = overtaken \/ Skipped(c)
  BY <1>0, ClientMoves DEF Stays, Written, Pushed, Issued, Left
<1>5. overtaken' = overtaken => Woken(d) /\ AnsweredInOrder(d)
  BY <1>0, <1>3 DEF WaitersAreWoken, RespondsInOrder
<1>6. CASE d # c
  <2>1. command'[d] = command[d] /\ call'[d] = call[d] /\ observed'[d] = observed[d]
    BY <1>2, <1>6 DEF OthersStay
  <2>2. CASE Connected(c) /\ c \in alive
    <3>1. command[d] = NoCommand
      BY <1>0, <1>6, <2>2, OneHasCommand
    <3>2. call[d] \notin {"look", "wait"}
      BY <1>0, <3>1 DEF CallsConnected
    <3> QED BY <2>1, <3>2 DEF Woken
  <2>3. CASE ~(Connected(c) /\ c \in alive)
    <3>1. ~Skipped(c)
      BY <2>3 DEF Skipped, Connected
    <3>2. ~WakeForResponse(c)
      BY <1>0, <2>3 DEF WakeForResponse, In, CallsConnected, Connected
    <3>3. responseEvent' = responseEvent
      BY <3>2, ClientRests
    <3> QED BY <1>1, <1>4, <1>5, <2>1, <3>1, <3>3 DEF Woken, Signalled, ServerRests
  <2> QED BY <2>2, <2>3
<1>7. CASE d = c
  <2>1. SUFFICES ASSUME call'[c] \in {"look", "wait"}, response'.body = command'[c]
                 PROVE  (call'[c] = "look" => Signalled' \/ observed'[c] # 0)
                        /\ (call'[c] = "wait" => Signalled')
    BY <1>7 DEF Woken
  <2>2. ~CallIsSent(c)
    BY <1>0, <2>1 DEF CallIsSent, Step, IpcTypeOK
  <2>3. /\ call[c] \in {"observe", "look", "body", "wait"} /\ UNCHANGED ringVars
        /\ ObserveSequence(c) \/ LookAtResponse(c)
    BY <1>0, <2>1, <2>2, WhoWaits
  <2>4. /\ overtaken' = overtaken /\ command' = command /\ command[c] # NoCommand
        /\ response.body = command[c]
    BY <1>0, <1>1, <2>1, <2>3 DEF ringVars, historyVars, clientVars, CallsConnected, ServerRests
  <2>5. CASE ObserveSequence(c)
    <3>1. responseSequence # 0 \/ task = "responseSequence"
      BY <1>0, <2>4 DEF ResponseIsWritten
    <3>2. observed'[c] = responseSequence /\ call'[c] = "look"
      BY <1>0, <2>5 DEF ObserveSequence, Step, IpcTypeOK
    <3> QED BY <1>1, <3>1, <3>2 DEF Signalled, ServerRests
  <2>6. CASE LookAtResponse(c)
    <3>1. ~Answering
      BY <1>5, <1>7, <2>4 DEF AnsweredInOrder
    <3>2. response.id = command[c]
      BY <1>0, <2>4, <3>1 DEF ResponseIsWritten, Answering
    <3>3. call'[c] = "wait" => observed[c] = 0
      BY <1>0, <2>6, <3>2 DEF LookAtResponse, Step, IpcTypeOK
    <3>4. call[c] = "look" /\ call'[c] # "look"
      BY <1>0, <2>6 DEF LookAtResponse, In, Step, IpcTypeOK
    <3>5. responseEvent' = responseEvent
      BY <2>6 DEF LookAtResponse, slotVars
    <3>6. observed[c] = 0 => Signalled
      BY <1>5, <1>7, <2>4, <3>4 DEF Woken
    <3> QED BY <1>1, <3>3, <3>4, <3>5, <3>6 DEF Signalled, ServerRests
  <2> QED BY <2>3, <2>5, <2>6
<1> QED BY <1>6, <1>7

(***************************************************************************)
(* A step of the server                                                    *)
(***************************************************************************)
ClientsRest == UNCHANGED <<alive, call, observed, pc, command, begun, slots, overtaken>>

\* Nothing is answered.
Rests ==
  /\ UNCHANGED <<pending, response, responseSequence>>
  /\ taken' \in {taken, NoCommand} \cup {slots[k] : k \in 0 .. SlotCount - 1}
  /\ Answering' => Answering /\ taken' = taken
  /\ task # "responseBody" /\ task' # "responseBody"
  /\ task \notin {"responseSequence", "responseEvent"}
  /\ responseEvent => responseEvent'

Takes ==
  /\ UNCHANGED <<taken, response, responseSequence, responseEvent>>
  /\ pending' = IF pending = <<>> THEN <<>> ELSE Tail(pending)
  /\ serverPc = "copied" /\ task = "receive" /\ task' = "dispatch"

Answers ==
  /\ UNCHANGED <<taken, pending, responseSequence, responseEvent>>
  /\ \/ task = "responseId" /\ task' = "responseBody" /\ response'.id = taken
        /\ response'.body = response.body
     \/ task = "responseBody" /\ task' = "responseSequence" /\ response'.id = response.id
        /\ response'.body = taken

Announces ==
  /\ UNCHANGED <<taken, pending, response>>
  /\ \/ task = "responseSequence" /\ task' = "responseEvent"
        /\ responseSequence' = responseSequence + 1 /\ UNCHANGED responseEvent
     \/ task = "responseEvent" /\ task' = "top" /\ responseEvent' /\ UNCHANGED responseSequence

LEMMA ServerMoves ==
  ASSUME IpcTypeOK, ServerStep \/ ServerIsSilent
  PROVE  ClientsRest /\ (Rests \/ Takes \/ Answers \/ Announces)
<1>0. /\ serverRead \in Indices /\ SlotCount \in Nat \ {0} /\ responseEvent \in BOOLEAN
      /\ response \in [id : AnyCommands, body : AnyCommands, ok : BOOLEAN]
      /\ task # "receive" => serverPc = "idle"
  BY RingAssumption DEF IpcTypeOK, RingTypeOK
<1>1. Slot(serverRead) \in 0 .. SlotCount - 1
  BY <1>0, IndicesStay DEF IpcTypeOK, RingTypeOK
<1> USE DEF ringVars, clientVars, serverVars, historyVars, callVars, slotVars, ClientsRest
<1>2. CASE BeginRound
  BY <1>0, <1>2 DEF BeginRound, Rests, Answering
<1>3. CASE PublishStep
  BY <1>0, <1>3 DEF PublishStep, BeginCompletion, WriteCompletionId, WriteCompletionBody,
     EndCompletion, SignalCompletion, Rests, Answering
<1>4. CASE Receive
  <2>1. CASE LoadReadIndex /\ UNCHANGED task
    BY <1>4, <2>1 DEF Receive, LoadReadIndex, Rests, Answering
  <2>2. CASE FindEmpty /\ task' = "wait"
    BY <1>4, <2>2 DEF Receive, FindEmpty, Rests, Answering
  <2>3. CASE CopySlot /\ UNCHANGED task
    BY <1>1, <1>4, <2>3 DEF Receive, CopySlot, Rests, Answering
  <2>4. CASE StoreReadIndex /\ task' = "dispatch"
    BY <1>4, <2>4 DEF Receive, StoreReadIndex, Takes
  <2> QED BY <1>4, <2>1, <2>2, <2>3, <2>4 DEF Receive
<1>5. CASE WaitForCommand
  BY <1>5 DEF WaitForCommand, ConsumeSignal, Rests, Answering
<1>6. CASE DispatchEvent \/ DispatchPatch \/ DispatchStandby
  BY <1>6 DEF DispatchEvent, DispatchPatch, DispatchStandby, Rests, Answering
<1>7. CASE ResponseTooLong
  BY <1>7 DEF ResponseTooLong, Rests, Answering
<1>8. CASE WriteResponseId
  BY <1>0, <1>8 DEF WriteResponseId, Answers
<1>9. CASE WriteResponseBody
  BY <1>0, <1>9 DEF WriteResponseBody, Answers
<1>10. CASE AdvanceResponse \/ SignalResponse
  BY <1>10 DEF AdvanceResponse, SignalResponse, Announces
<1>11. CASE ServerIsSilent
  BY <1>0, <1>11 DEF ServerIsSilent, HeartbeatAges, ipcVars, loopVars, Rests, Answering
<1> QED BY Zenon, <1>2, <1>3, <1>4, <1>5, <1>6, <1>7, <1>8, <1>9, <1>10, <1>11 DEF ServerStep, RespondStep

LEMMA ServerKeepsSignal ==
  ASSUME ChannelInv, TakenIsOldest, ServerStep \/ ServerIsSilent
  PROVE  SignalInv'
<1>0. IpcTypeOK /\ CallsConnected /\ NumbersBegun /\ RespondsInOrder /\ ResponseIsWritten
      /\ WaitersAreWoken
  BY DEF ChannelInv, SignalInv
<1>1. ClientsRest /\ (Rests \/ Takes \/ Answers \/ Announces)
  BY <1>0, ServerMoves
<1>2. /\ pending \in Seq(AnyCommands) /\ responseSequence \in Nat /\ begun \in Nat
      /\ response.body.no \in Nat /\ taken.no \in Nat
  BY <1>0, CommandHasNumber DEF IpcTypeOK, RingTypeOK
<1>3. CallsConnected'
  BY <1>0, <1>1 DEF ClientsRest, CallsConnected, UsesRing
<1>4. NumbersBegun'
  <2>1. taken'.no <= begun
    BY <1>0, <1>1, <1>2 DEF NumbersBegun, Rests, Takes, Answers, Announces, NoCommand
  <2>2. response'.body.no <= begun
    BY <1>0, <1>1, <1>2 DEF NumbersBegun, Rests, Takes, Answers, Announces
  <2>3. \A n \in 1 .. Len(pending') : pending'[n].no <= begun
    <3>1. CASE pending' = pending
      BY <1>0, <3>1 DEF NumbersBegun
    <3>2. CASE pending' = IF pending = <<>> THEN <<>> ELSE Tail(pending)
      BY <1>0, <1>2, <3>2 DEF NumbersBegun
    <3> QED BY <1>1, <3>1, <3>2 DEF Rests, Takes, Answers, Announces
  <2> QED BY <1>0, <1>1, <2>1, <2>2, <2>3 DEF NumbersBegun, ClientsRest
<1>5. ASSUME ~overtaken', NEW c \in Clients PROVE AnsweredInOrder(c)' /\ Woken(c)'
  <2>1. ~overtaken /\ AnsweredInOrder(c) /\ Woken(c)
    BY <1>0, <1>1, <1>5 DEF ClientsRest, RespondsInOrder, WaitersAreWoken
  <2>2. /\ command'[c] = command[c] /\ call'[c] = call[c] /\ observed'[c] = observed[c]
        /\ Published(c)' <=> Published(c)
    BY <1>1 DEF ClientsRest, Published
  <2>3. CASE Rests
    <3>1. AnsweredInOrder(c)'
      BY <2>1, <2>2, <2>3 DEF AnsweredInOrder, Rests
    <3>2. Woken(c)'
      BY <2>1, <2>2, <2>3 DEF Woken, Signalled, Rests
    <3> QED BY <3>1, <3>2
  <2>4. CASE Takes
    <3>1. pending # <<>> /\ taken = pending[1] /\ pending' = Tail(pending)
      BY <2>1, <2>4 DEF TakenIsOldest, Takes
    <3>2. ASSUME command[c] # NoCommand PROVE AnsweredInOrder(c)'
      <4>1. response.body # command[c]
        BY <2>1, <3>1, <3>2 DEF AnsweredInOrder
      <4>2. \A n \in 1 .. Len(pending) : pending[n] = command[c] => Published(c) /\ n = Len(pending)
        BY <2>1, <3>2 DEF AnsweredInOrder
      <4>3. /\ Len(pending) \in Nat \ {0} /\ Len(pending') = Len(pending) - 1
            /\ 1 \in 1 .. Len(pending)
            /\ \A n \in 1 .. Len(pending') : pending'[n] = pending[n + 1] /\ n + 1 \in 1 .. Len(pending)
        BY <1>2, <3>1
      <4>4. ASSUME NEW n \in 1 .. Len(pending'), pending'[n] = command[c]
            PROVE  Published(c) /\ n = Len(pending')
        <5>1. pending[n + 1] = command[c] /\ n + 1 \in 1 .. Len(pending)
          BY <4>3, <4>4
        <5>2. Published(c) /\ n + 1 = Len(pending)
          BY <4>2, <5>1
        <5> QED BY <4>3, <4>4, <5>2
      <4>5. ASSUME taken = command[c] PROVE Published(c) /\ Len(pending) = 1
        BY Zenon, <3>1, <4>2, <4>3, <4>5
      <4>6. Len(pending) = 1 => pending' = <<>>
        BY <1>2, <3>1
      <4> QED BY <2>2, <2>4, <4>1, <4>4, <4>5, <4>6 DEF AnsweredInOrder, Takes
    <3>3. command[c] = NoCommand => AnsweredInOrder(c)'
      BY <2>2 DEF AnsweredInOrder
    <3>4. Woken(c)'
      BY <2>1, <2>2, <2>4 DEF Woken, Signalled, Takes
    <3> QED BY <3>2, <3>3, <3>4
  <2>5. CASE Answers
    <3>1. AnsweredInOrder(c)'
      BY <2>1, <2>2, <2>5 DEF AnsweredInOrder, Answers, Answering
    <3>2. Woken(c)'
      BY <2>1, <2>2, <2>5 DEF Woken, Signalled, Answers
    <3> QED BY <3>1, <3>2
  <2>6. CASE Announces
    <3>1. AnsweredInOrder(c)'
      BY <2>1, <2>2, <2>6 DEF AnsweredInOrder, Announces, Answering
    <3>2. Woken(c)'
      BY <2>1, <2>2, <2>6 DEF Woken, Signalled, Announces
    <3> QED BY <3>1, <3>2
  <2> QED BY <1>1, <2>3, <2>4, <2>5, <2>6
<1>6. ResponseIsWritten'
  <2>1. CASE Rests
    BY <1>0, <2>1 DEF ResponseIsWritten, Rests
  <2>2. CASE Takes
    BY <1>0, <2>2 DEF ResponseIsWritten, Takes
  <2>3. CASE Answers
    BY <1>0, <2>3 DEF ResponseIsWritten, Answers
  <2>4. CASE Announces
    BY <1>0, <1>2, <2>4 DEF ResponseIsWritten, Announces
  <2> QED BY <1>1, <2>1, <2>2, <2>3, <2>4
<1> QED BY <1>3, <1>4, <1>5, <1>6 DEF SignalInv, RespondsInOrder, WaitersAreWoken

LEMMA SignalStep ==
  ASSUME ChannelInv, TakenIsOldest, [Next]_vars
  PROVE  SignalInv'
<1>1. ASSUME NEW c \in Clients, ClientStep(c) PROVE SignalInv'
  BY <1>1, ClientKeepsConnected, ClientKeepsNumbers, ClientKeepsOrder, ClientKeepsWritten,
     ClientKeepsWoken DEF SignalInv
<1>2. CASE UNCHANGED vars
  BY <1>2 DEF vars, ringVars, ipcVars, clientVars, serverVars, historyVars, callVars, loopVars,
     slotVars, ChannelInv, SignalInv, CallsConnected, UsesRing, NumbersBegun, RespondsInOrder,
     AnsweredInOrder, Published, Answering, ResponseIsWritten, WaitersAreWoken, Woken, Signalled
<1> QED BY Zenon, <1>1, <1>2, ServerKeepsSignal DEF Next

\* The invariant of the wake-up holds throughout.
THEOREM SignalInvCorrect == Spec => []SignalInv
<1>1. RingTypeOK /\ RingInv => ConnectedOwnsRing /\ TakenIsOldest
  BY DEF RingInv, RingParts
<1>2. IpcTypeOK /\ ConnectedOwnsRing /\ TakenIsOldest /\ SignalInv /\ [Next]_vars => SignalInv'
  BY SignalStep DEF ChannelInv
<1> QED BY <1>1, <1>2, SignalInit, IpcTypeCorrect, FastIpcKeepsRing, PTL DEF Spec

\* A client that sleeps although its response is there is about to be woken:
\* no other step sets or consumes the event in its place.
THEOREM ResponseIsSignalledCorrect == Spec => []ResponseIsSignalled
<1>1. IpcTypeOK /\ SignalInv => ResponseIsSignalled
  BY DEF IpcTypeOK, RingTypeOK, SignalInv, WaitersAreWoken, Woken, Signalled, ResponseIsSignalled
<1> QED BY <1>1, SignalInvCorrect, IpcTypeCorrect, PTL
=============================================================================
