---------------------------- MODULE InstancesProofs ----------------------------
(***************************************************************************)
(* The instances of the player: the construction of several of them at a   *)
(* time, the spare pool that replaces those of a bank, and what the        *)
(* commands of a bank do to one of them.  The three components share no    *)
(* variable; each has its own invariant.                                   *)
(***************************************************************************)
EXTENDS InstanceCreation, InstancePool, BankInstance, TLAPS, FiniteSetTheorems, WellFoundedInduction

(***************************************************************************)
(* Constructions                                                           *)
(***************************************************************************)
CreationTypeOK ==
  /\ offline \in BOOLEAN
  /\ pc \in [Workers \cup Renders ->
               {"ready", "claim", "building", "creating", "rendering", "done", "panicked"}]
  /\ job \in [Workers \cup Renders -> Nat] /\ next \in Nat

CreationInv == CreationTypeOK /\ CreationsAreApart

\* What a thread constructs changes only when it begins to.
LEMMA StepOfOneThread ==
  ASSUME CreationInv, NEW t \in Threads, Work(t) \/ Panic(t)
  PROVE  \E place \in {"ready", "claim", "building", "creating", "rendering", "done", "panicked"} :
           /\ pc' = [pc EXCEPT ![t] = place]
           /\ place = "creating" => pc[t] = "building" /\ Permitted(t)
           /\ place = "building" => Building(t) \/ ~offline \/ MutexFree(t)
           /\ job' = job \/ (~Building(t) /\ place # "creating" /\ \E n \in Nat : job' = [job EXCEPT ![t] = n])
           /\ next' \in Nat /\ UNCHANGED <<offline, serialize, plan>>
<1>0. CreationTypeOK
  BY DEF CreationInv
<1>1. CASE CheckFailure(t)
  BY <1>0, <1>1 DEF CheckFailure, Goes, CreationTypeOK
<1>2. CASE Claim(t)
  <2>1. CASE next > Count
    BY <1>0, <1>2, <2>1 DEF Claim, Goes, CreationTypeOK
  <2>2. CASE ~(next > Count)
    <3>1. pc' = [pc EXCEPT ![t] = "building"] /\ job' = [job EXCEPT ![t] = next] /\ ~offline /\ pc[t] = "claim"
          /\ next' = next + 1 /\ UNCHANGED <<offline, serialize, plan>>
      BY <1>2, <2>2 DEF Claim, Goes
    <3>2. next \in Nat /\ next' \in Nat /\ ~Building(t)
      BY <1>0, <3>1 DEF CreationTypeOK, Building
    <3>3. ~Building(t) /\ \E n \in Nat : job' = [job EXCEPT ![t] = n]
      BY <3>1, <3>2
    <3> QED BY <3>1, <3>2, <3>3
  <2> QED BY <2>1, <2>2
<1>3. CASE Enter(t)
  <2>1. PICK i \in 1 .. Count : job' = [job EXCEPT ![t] = i]
    BY <1>3 DEF Enter
  <2>2. pc' = [pc EXCEPT ![t] = "building"] /\ MutexFree(t) /\ pc[t] = "ready" /\ UNCHANGED <<offline, serialize, plan, next>>
    BY <1>3 DEF Enter, Goes
  <2>3. i \in Nat
    BY <2>1
  <2> QED BY <1>0, <2>1, <2>2, <2>3 DEF CreationTypeOK, Building
<1>4. CASE Create(t)
  BY <1>0, <1>4 DEF Create, Goes, CreationTypeOK
<1>5. CASE Advance(t)
  <2>1. PICK place \in {"building", "ready", "rendering"} : pc' = [pc EXCEPT ![t] = place]
    BY <1>5 DEF Advance, Goes
  <2>2. Building(t) /\ UNCHANGED <<offline, serialize, plan, next, job>>
    BY <1>5 DEF Advance
  <2> QED BY <1>0, <2>1, <2>2 DEF CreationTypeOK
<1>6. CASE Fail(t) \/ Panic(t) \/ Render(t)
  <2>1. PICK place \in {"done", "panicked"} : pc' = [pc EXCEPT ![t] = place]
    BY <1>6 DEF Fail, Panic, Render, Goes
  <2>2. UNCHANGED <<offline, serialize, plan, next, job>>
    BY <1>6 DEF Fail, Panic, Render
  <2> QED BY <1>0, <2>1, <2>2 DEF CreationTypeOK
<1> QED BY <1>1, <1>2, <1>3, <1>4, <1>5, <1>6 DEF Work

LEMMA CreationStep ==
  ASSUME CreationInv, NEW t \in Threads, Work(t) \/ Panic(t)
  PROVE  CreationInv'
<1>1. PICK place \in {"ready", "claim", "building", "creating", "rendering", "done", "panicked"} :
         /\ pc' = [pc EXCEPT ![t] = place]
         /\ place = "creating" => pc[t] = "building" /\ Permitted(t)
         /\ place = "building" => Building(t) \/ ~offline \/ MutexFree(t)
         /\ job' = job \/ (~Building(t) /\ place # "creating" /\ \E n \in Nat : job' = [job EXCEPT ![t] = n])
         /\ next' \in Nat /\ UNCHANGED <<offline, serialize, plan>>
  BY Zenon, StepOfOneThread
<1>0. CreationTypeOK /\ CreationsAreApart /\ Threads' = Threads /\ Threads \subseteq Workers \cup Renders
  BY <1>1 DEF CreationInv, Threads
<1>2. CreationTypeOK'
  <2>1. job' \in [Workers \cup Renders -> Nat]
    BY <1>0, <1>1 DEF CreationTypeOK
  <2> QED BY <1>0, <1>1, <2>1 DEF CreationTypeOK
<1>3. \A u \in Workers \cup Renders : u # t => pc'[u] = pc[u] /\ job'[u] = job[u]
  BY <1>0, <1>1 DEF CreationTypeOK
<1>4. pc'[t] = place
  BY <1>0, <1>1 DEF CreationTypeOK
\* A thread that creates constructs what it did before.
<1>5. ASSUME NEW u \in Creating' PROVE u \in Threads /\ (Serial(u)' <=> Serial(u)) /\ (u # t => u \in Creating)
  <2>1. u \in Threads /\ pc'[u] = "creating" /\ job'[u] = job[u]
    <3>1. u \in Threads /\ pc'[u] = "creating"
      BY <1>0, <1>5 DEF Creating
    <3>2. CASE u = t
      <4>1. job' = job
        BY <1>1, <1>4, <3>1, <3>2
      <4> QED BY <3>1, <4>1
    <3> QED BY <1>0, <1>3, <3>1, <3>2
  <2>2. u # t => u \in Creating
    BY <1>0, <1>3, <2>1 DEF Creating
  <2>3. plan'[job'[u]] = plan[job[u]]
    BY <1>1, <2>1
  <2> QED BY <2>1, <2>2, <2>3 DEF Serial, Chosen
<1>6. ASSUME serialize', NEW u \in Creating', NEW v \in Creating', u # v PROVE ~Serial(u)' /\ ~Serial(v)'
  <2>1. serialize
    BY <1>1, <1>6
  <2>2. CASE u # t /\ v # t
    BY <1>0, <1>5, <1>6, <2>1, <2>2 DEF CreationsAreApart
  <2>3. CASE u = t \/ v = t
    <3>1. place = "creating" /\ Permitted(t)
      BY <1>1, <1>4, <1>6, <2>3 DEF Creating
    <3> QED BY <1>5, <1>6, <2>1, <2>3, <3>1 DEF Permitted
  <2> QED BY <2>2, <2>3
<1>7. ASSUME offline', NEW u \in Renders, NEW v \in Renders, Building(u)', Building(v)', u # v PROVE FALSE
  <2>1. offline /\ Threads = Renders
    BY <1>1, <1>7 DEF Threads
  <2>2. ASSUME NEW w \in Renders, Building(w)' PROVE w # t => Building(w)
    BY <1>3, <2>2 DEF Building
  <2>3. CASE u # t /\ v # t
    BY <1>0, <1>7, <2>1, <2>2, <2>3 DEF CreationsAreApart
  <2>4. CASE u = t \/ v = t
    <3>1. Building(t) \/ MutexFree(t)
      BY <1>1, <1>4, <1>7, <2>1, <2>4 DEF Building
    <3> QED BY <1>0, <1>7, <2>1, <2>2, <2>4, <3>1 DEF CreationsAreApart, MutexFree
  <2> QED BY <2>3, <2>4
<1> QED BY Zenon, <1>2, <1>6, <1>7 DEF CreationInv, CreationsAreApart

\* The plan and the mode stay, a thread constructs one thing at a time.
THEOREM CreationInvCorrect == CreationSpec => []CreationInv
<1>1. CreationInit => CreationInv
  <2>1. CreationInit => CreationTypeOK
    BY DEF CreationInit, CreationTypeOK
  <2>2. CreationInit => CreationsAreApart
    BY DEF CreationInit, CreationsAreApart, Creating, Threads, Building
  <2> QED BY <2>1, <2>2 DEF CreationInv
<1>2. CreationInv /\ [CreationNext]_creationVars => CreationInv'
  <2>1. ASSUME CreationInv, UNCHANGED creationVars PROVE CreationInv'
    BY <2>1 DEF creationVars, CreationInv, CreationTypeOK, CreationsAreApart, Creating, Threads, Building,
       Serial, Chosen
  <2> QED BY Zenon, <2>1, CreationStep DEF CreationNext
<1> QED BY <1>1, <1>2, PTL DEF CreationSpec

\* The plugin that crashes in company creates alone, and the render server constructs one
\* instance at a time (serial_instantiation.rs, offline.rs), for every plan and any
\* number of threads.
THEOREM CreationsAreApartCorrect == CreationSpec => []CreationsAreApart
<1>1. CreationInv => CreationsAreApart
  BY DEF CreationInv
<1> QED BY <1>1, CreationInvCorrect, PTL

(***************************************************************************)
(* Counting in sequences                                                   *)
(***************************************************************************)
Where(s, X) == {j \in DOMAIN s : s[j] \in X}
HowMany(s, X) == Cardinality(Where(s, X))

LEMMA WhereIsFinite ==
  ASSUME NEW S, NEW s \in Seq(S), NEW X
  PROVE  IsFiniteSet(Where(s, X)) /\ HowMany(s, X) \in Nat
<1>1. IsFiniteSet(1 .. Len(s))
  <2>1. Len(s) \in Int /\ 1 \in Int
    OBVIOUS
  <2> QED BY <2>1, FS_Interval
<1>2. Where(s, X) \in SUBSET (1 .. Len(s))
  BY DEF Where
<1>3. IsFiniteSet(Where(s, X))
  BY <1>1, <1>2, FS_Subset
<1> QED BY <1>3, FS_CardinalityType DEF HowMany

\* As many numbers after a shift as before.
LEMMA ShiftedCount ==
  ASSUME NEW J \in SUBSET Nat, IsFiniteSet(J), NEW m \in Nat
  PROVE  IsFiniteSet({j + m : j \in J}) /\ Cardinality({j + m : j \in J}) = Cardinality(J)
<1> DEFINE T == {j + m : j \in J}
           f == [j \in J |-> j + m]
<1>1. f \in Bijection(J, T)
  <2>1. f \in Injection(J, T)
    <3>1. f \in [J -> T]
      OBVIOUS
    <3>2. \A i, j \in J : f[i] = f[j] => i = j
      OBVIOUS
    <3> QED BY <3>1, <3>2 DEF Injection, IsInjective
  <2>2. \A x \in T : \E j \in J : f[j] = x
    OBVIOUS
  <2> QED BY <2>1, <2>2 DEF Bijection, Surjection, Injection
<1>2. ExistsBijection(J, T)
  BY <1>1 DEF ExistsBijection
<1> QED BY <1>2, FS_Bijection

LEMMA CountConcat ==
  ASSUME NEW S, NEW s \in Seq(S), NEW t \in Seq(S), NEW X
  PROVE  HowMany(s \o t, X) = HowMany(s, X) + HowMany(t, X)
<1> DEFINE A == Where(s, X)
           B == {j + Len(s) : j \in Where(t, X)}
<1>1. Len(s) \in Nat /\ Len(t) \in Nat /\ s \o t \in Seq(S) /\ Len(s \o t) = Len(s) + Len(t)
      /\ DOMAIN s = 1 .. Len(s) /\ DOMAIN t = 1 .. Len(t) /\ DOMAIN (s \o t) = 1 .. Len(s) + Len(t)
  OBVIOUS
<1>2. /\ \A j \in 1 .. Len(s) : (s \o t)[j] = s[j]
      /\ \A j \in Len(s) + 1 .. Len(s) + Len(t) : (s \o t)[j] = t[j - Len(s)]
  OBVIOUS
<1>3. Where(s \o t, X) = A \cup B
  <2>1. ASSUME NEW j \in Where(s \o t, X) PROVE j \in A \cup B
    <3>1. j \in 1 .. Len(s) + Len(t) /\ (s \o t)[j] \in X
      BY <1>1, <2>1 DEF Where
    <3>2. CASE j <= Len(s)
      BY <1>1, <1>2, <3>1, <3>2 DEF Where
    <3>3. CASE j > Len(s)
      <4>1. j - Len(s) \in 1 .. Len(t) /\ t[j - Len(s)] \in X /\ j = (j - Len(s)) + Len(s)
        BY <1>1, <1>2, <3>1, <3>3
      <4>2. j - Len(s) \in Where(t, X)
        BY <1>1, <4>1 DEF Where
      <4> QED BY <4>1, <4>2
    <3> QED BY <1>1, <3>1, <3>2, <3>3
  <2>2. ASSUME NEW j \in A PROVE j \in Where(s \o t, X)
    BY <1>1, <1>2, <2>2 DEF Where
  <2>3. ASSUME NEW j \in Where(t, X) PROVE j + Len(s) \in Where(s \o t, X)
    <3>1. j \in 1 .. Len(t) /\ t[j] \in X
      BY <1>1, <2>3 DEF Where
    <3>2. j + Len(s) \in Len(s) + 1 .. Len(s) + Len(t) /\ (j + Len(s)) - Len(s) = j
      BY <1>1, <3>1
    <3> QED BY <1>1, <1>2, <3>1, <3>2 DEF Where
  <2> QED BY <2>1, <2>2, <2>3
<1>4. A \cap B = {}
  BY <1>1 DEF Where
<1>5. IsFiniteSet(A) /\ IsFiniteSet(B) /\ Cardinality(B) = HowMany(t, X)
  <2>1. Where(t, X) \in SUBSET Nat
    BY <1>1 DEF Where
  <2>2. IsFiniteSet(Where(t, X)) /\ IsFiniteSet(A)
    BY Zenon, WhereIsFinite
  <2> QED BY <1>1, <2>1, <2>2, ShiftedCount DEF HowMany
<1> HIDE DEF A, B
<1>6. Cardinality(A \cup B) = Cardinality(A) + Cardinality(B) - 0
  BY <1>4, <1>5, FS_Union, FS_EmptySet
<1>7. Cardinality(A) \in Nat /\ Cardinality(B) \in Nat
  BY <1>5, FS_CardinalityType
<1> QED BY <1>3, <1>5, <1>6, <1>7 DEF HowMany, A

LEMMA CountOne ==
  ASSUME NEW x, NEW X
  PROVE  HowMany(<<>>, X) = 0 /\ HowMany(<<x>>, X) = (IF x \in X THEN 1 ELSE 0)
<1>1. Where(<<>>, X) = {} /\ Where(<<x>>, X) = (IF x \in X THEN {1} ELSE {})
  BY DEF Where
<1> QED BY <1>1, FS_EmptySet, FS_Singleton DEF HowMany

LEMMA CountAppend ==
  ASSUME NEW S, NEW s \in Seq(S), NEW x \in S, NEW X
  PROVE  HowMany(Append(s, x), X) = HowMany(s, X) + (IF x \in X THEN 1 ELSE 0)
<1>1. Append(s, x) = s \o <<x>> /\ <<x>> \in Seq(S)
  OBVIOUS
<1>2. HowMany(s \o <<x>>, X) = HowMany(s, X) + HowMany(<<x>>, X)
  BY <1>1, CountConcat
<1> QED BY Zenon, <1>1, <1>2, CountOne

LEMMA CountTail ==
  ASSUME NEW S, NEW s \in Seq(S), s # <<>>, NEW X
  PROVE  HowMany(s, X) = (IF Head(s) \in X THEN 1 ELSE 0) + HowMany(Tail(s), X)
<1>1. s = <<Head(s)>> \o Tail(s) /\ <<Head(s)>> \in Seq(S) /\ Tail(s) \in Seq(S)
  OBVIOUS
<1>2. HowMany(<<Head(s)>> \o Tail(s), X) = HowMany(<<Head(s)>>, X) + HowMany(Tail(s), X)
  BY <1>1, CountConcat
<1> QED BY Zenon, <1>1, <1>2, CountOne

\* All alike.
LEMMA CountAlike ==
  ASSUME NEW n \in Nat, NEW x, NEW s, s = [j \in 1 .. n |-> x], NEW X
  PROVE  HowMany(s, X) = (IF x \in X THEN n ELSE 0)
<1>1. Where(s, X) = (IF x \in X THEN 1 .. n ELSE {})
  BY DEF Where
<1>2. Cardinality(1 .. n) = n
  <2>1. 1 \in Int /\ n \in Int
    OBVIOUS
  <2>2. Cardinality(1 .. n) = IF 1 > n THEN 0 ELSE n - 1 + 1
    BY <2>1, FS_Interval
  <2> QED BY <2>2
<1> QED BY <1>1, <1>2, FS_EmptySet DEF HowMany

(***************************************************************************)
(* The pool of a bank                                                      *)
(***************************************************************************)
BuildOrders == [bank : Banks, kind : Kinds]
Outcomes == [kind : Kinds, ok : BOOLEAN]
Waits(b) == [slot : Slots(b), kind : Kinds]
Pools(b) == [spares : [Kinds -> Nat], outstanding : [Kinds -> Nat], slotKind : [Slots(b) -> Kinds]]

Order(b, k) == {[bank |-> b, kind |-> k]}
OfKind(k) == {o \in Outcomes : o.kind = k}

Placed(b, p, k) == {s \in Slots(b) : p.slotKind[s] = k}
Bounded(b, p) ==
  /\ p \in Pools(b)
  /\ \A k \in Kinds :
       Cardinality(Placed(b, p, k)) + p.spares[k] + p.outstanding[k] <= SlotCounts[b] + TargetFor(b, k)

PoolTypeOK ==
  /\ slotKind = [b \in Banks |-> slotKind[b]] /\ waiting = [b \in Banks |-> waiting[b]]
  /\ spares \in [Banks -> [Kinds -> Nat]] /\ outstanding \in [Banks -> [Kinds -> Nat]]
  /\ \A b \in Banks : waiting[b] = Idle \/ waiting[b][1] \in Waits(b)
  /\ requests \in Seq(BuildOrders) /\ building \in Seq(BuildOrders)
  /\ outcomes \in [Banks -> Seq(Outcomes)] /\ alive \in [Banks -> BOOLEAN]

\* What is on its way to bank b is counted there, as long as somebody counts.
OnTheWay(b, k) ==
  HowMany(requests, Order(b, k)) + HowMany(building, Order(b, k)) + HowMany(outcomes[b], OfKind(k))

WhatComesIsCounted == \A b \in Banks, k \in Kinds : alive[b] => OnTheWay(b, k) <= outstanding[b][k]

PoolInv == PoolTypeOK /\ (\A b \in Banks : Bounded(b, Pool(b))) /\ WhatComesIsCounted

LEMMA TargetsAreNat ==
  /\ TotalTarget \in Nat
  /\ \A b \in Banks : BankTarget(b) \in Nat /\ SlotCounts[b] \in Nat
  /\ \A b \in Banks, k \in Kinds : TargetFor(b, k) \in Nat
<1>1. TotalTarget \in Nat
  BY PoolAssumption DEF TotalTarget
<1>2. (TotalTarget + 1) \div 2 \in Nat /\ TotalTarget \div 2 \in Nat
  BY <1>1
<1>3. \A b \in Banks : BankTarget(b) \in Nat /\ SlotCounts[b] \in Nat
  BY <1>1, <1>2, PoolAssumption DEF BankTarget, Banks
<1> QED BY <1>1, <1>3 DEF TargetFor

LEMMA SlotsAreFinite ==
  ASSUME NEW b \in Banks, NEW p, NEW k
  PROVE  /\ IsFiniteSet(Placed(b, p, k)) /\ Cardinality(Placed(b, p, k)) \in Nat
         /\ Cardinality(Placed(b, p, k)) <= SlotCounts[b]
         /\ Placed(b, p, k) # Slots(b) => Cardinality(Placed(b, p, k)) < SlotCounts[b]
<1>1. SlotCounts[b] \in Nat
  BY TargetsAreNat
<1>2. IsFiniteSet(Slots(b)) /\ Cardinality(Slots(b)) = SlotCounts[b]
  <2>1. 1 \in Int /\ SlotCounts[b] \in Int
    BY <1>1
  <2>2. IsFiniteSet(1 .. SlotCounts[b])
        /\ Cardinality(1 .. SlotCounts[b]) = IF 1 > SlotCounts[b] THEN 0 ELSE SlotCounts[b] - 1 + 1
    BY <2>1, FS_Interval
  <2> QED BY <1>1, <2>2 DEF Slots
<1>3. Placed(b, p, k) \in SUBSET Slots(b)
  BY DEF Placed
<1>4. /\ IsFiniteSet(Placed(b, p, k)) /\ Cardinality(Placed(b, p, k)) <= Cardinality(Slots(b))
      /\ Cardinality(Slots(b)) = Cardinality(Placed(b, p, k)) => Slots(b) = Placed(b, p, k)
  BY <1>2, <1>3, FS_Subset
<1>5. Cardinality(Placed(b, p, k)) \in Nat
  BY <1>4, FS_CardinalityType
<1> QED BY <1>1, <1>2, <1>4, <1>5

\* accept: what has arrived becomes a spare, or is not waited for any longer.
LEMMA AcceptKeepsBound ==
  ASSUME NEW b \in Banks, NEW p, Bounded(b, p), NEW arrived \in Seq(Outcomes),
         \A k \in Kinds : HowMany(arrived, OfKind(k)) <= p.outstanding[k]
  PROVE  /\ Bounded(b, Accepted(p, arrived))
         /\ Accepted(p, arrived).slotKind = p.slotKind
         /\ \A k \in Kinds : Accepted(p, arrived).outstanding[k] = p.outstanding[k] - HowMany(arrived, OfKind(k))
<1> DEFINE q == Accepted(p, arrived)
           built(k) == {j \in Of(k, arrived) : arrived[j].ok}
<1>0. p \in Pools(b)
  BY DEF Bounded
<1>1. ASSUME NEW k \in Kinds
      PROVE  Of(k, arrived) = Where(arrived, OfKind(k)) /\ Cardinality(Of(k, arrived)) = HowMany(arrived, OfKind(k))
  <2>1. \A j \in DOMAIN arrived : arrived[j] \in Outcomes
    OBVIOUS
  <2>2. Of(k, arrived) = Where(arrived, OfKind(k))
    BY <2>1 DEF Of, Where, OfKind
  <2> QED BY <2>2 DEF HowMany
<1>2. ASSUME NEW k \in Kinds
      PROVE  /\ HowMany(arrived, OfKind(k)) \in Nat /\ Cardinality(built(k)) \in Nat
             /\ Cardinality(built(k)) <= HowMany(arrived, OfKind(k))
  <2>1. IsFiniteSet(Of(k, arrived)) /\ HowMany(arrived, OfKind(k)) \in Nat
    BY <1>1, WhereIsFinite, Zenon
  <2>2. built(k) \in SUBSET Of(k, arrived)
    OBVIOUS
  <2> HIDE DEF built
  <2>3. IsFiniteSet(built(k)) /\ Cardinality(built(k)) <= Cardinality(Of(k, arrived))
    BY <2>1, <2>2, FS_Subset
  <2> QED BY <1>1, <2>1, <2>3, FS_CardinalityType
<1>3. /\ q.slotKind = p.slotKind /\ q \in [spares : {q.spares}, outstanding : {q.outstanding}, slotKind : {q.slotKind}]
      /\ q.outstanding = [k \in Kinds |-> Minus(p.outstanding[k], Cardinality(Of(k, arrived)))]
      /\ q.spares = [k \in Kinds |-> p.spares[k] + Cardinality(built(k))]
  BY <1>0 DEF Accepted, Pools
<1> HIDE DEF q, built
<1>4. ASSUME NEW k \in Kinds
      PROVE  /\ p.outstanding[k] \in Nat /\ p.spares[k] \in Nat
             /\ q.outstanding[k] = p.outstanding[k] - HowMany(arrived, OfKind(k)) /\ q.outstanding[k] \in Nat
             /\ q.spares[k] = p.spares[k] + Cardinality(built(k)) /\ q.spares[k] \in Nat
  <2>1. p.outstanding[k] \in Nat /\ p.spares[k] \in Nat
    BY <1>0 DEF Pools
  <2>2. q.outstanding[k] = Minus(p.outstanding[k], HowMany(arrived, OfKind(k))) /\ q.spares[k] = p.spares[k] + Cardinality(built(k))
    BY <1>1, <1>3
  <2>3. HowMany(arrived, OfKind(k)) <= p.outstanding[k]
    OBVIOUS
  <2> QED BY <1>2, <2>1, <2>2, <2>3 DEF Minus
<1>5. q \in Pools(b)
  <2>1. q.outstanding \in [Kinds -> Nat] /\ q.spares \in [Kinds -> Nat]
    BY <1>3, <1>4
  <2> QED BY <1>0, <1>3, <2>1 DEF Pools
<1>6. ASSUME NEW k \in Kinds
      PROVE  Cardinality(Placed(b, q, k)) + q.spares[k] + q.outstanding[k] <= SlotCounts[b] + TargetFor(b, k)
  <2>1. Cardinality(Placed(b, q, k)) = Cardinality(Placed(b, p, k))
    BY <1>3 DEF Placed
  <2>2. Cardinality(Placed(b, p, k)) + p.spares[k] + p.outstanding[k] <= SlotCounts[b] + TargetFor(b, k)
    BY DEF Bounded
  <2>3. Cardinality(Placed(b, p, k)) \in Nat /\ SlotCounts[b] \in Nat /\ TargetFor(b, k) \in Nat
    BY SlotsAreFinite, TargetsAreNat
  <2>4. /\ q.spares[k] + q.outstanding[k] <= p.spares[k] + p.outstanding[k]
        /\ q.spares[k] \in Nat /\ q.outstanding[k] \in Nat /\ p.spares[k] \in Nat /\ p.outstanding[k] \in Nat
    BY SMTT(30), <1>2, <1>4
  <2>5. PICK m \in Nat, n \in Nat : m = q.spares[k] + q.outstanding[k] /\ n = p.spares[k] + p.outstanding[k]
    BY <2>4
  <2>6. PICK c \in Nat : c = Cardinality(Placed(b, p, k))
    BY <2>3
  <2>7. m <= n /\ c + n <= SlotCounts[b] + TargetFor(b, k)
    BY SMTT(30), <2>2, <2>4, <2>5, <2>6
  <2>8. c + m <= SlotCounts[b] + TargetFor(b, k)
    BY <2>3, <2>7
  <2> QED BY SMTT(30), <2>1, <2>4, <2>5, <2>6, <2>8
<1> QED BY Zenon, <1>3, <1>4, <1>5, <1>6 DEF Bounded, q

LEMMA OrdersAre ==
  ASSUME NEW b \in Banks, NEW k \in Kinds, NEW n \in Nat
  PROVE  /\ Orders(b, k, n) \in Seq(BuildOrders) /\ Len(Orders(b, k, n)) = n
         /\ \A c, l : HowMany(Orders(b, k, n), Order(c, l)) = (IF c = b /\ l = k THEN n ELSE 0)
<1>0. PICK x : x = [bank |-> b, kind |-> k]
  OBVIOUS
<1>1. x \in BuildOrders /\ Orders(b, k, n) = [j \in 1 .. n |-> x]
  BY <1>0 DEF BuildOrders, Orders
<1>2. ASSUME NEW c, NEW l PROVE x \in Order(c, l) <=> c = b /\ l = k
  BY <1>0 DEF Order
<1>3. Orders(b, k, n) \in Seq(BuildOrders) /\ Len(Orders(b, k, n)) = n
  BY <1>1
<1>4. ASSUME NEW c, NEW l PROVE HowMany(Orders(b, k, n), Order(c, l)) = (IF c = b /\ l = k THEN n ELSE 0)
  <2>1. HowMany(Orders(b, k, n), Order(c, l)) = (IF x \in Order(c, l) THEN n ELSE 0)
    BY <1>1, CountAlike
  <2> QED BY Zenon, <1>2, <2>1
<1> QED BY Zenon, <1>3, <1>4

\* order_build: within what the bank's slots and target leave.
LEMMA OrderingKeepsBound ==
  ASSUME NEW b \in Banks, NEW p, Bounded(b, p), NEW k \in Kinds, NEW n \in Nat,
         Cardinality(Placed(b, p, k)) + p.spares[k] + p.outstanding[k] + n <= SlotCounts[b] + TargetFor(b, k)
  PROVE  /\ Bounded(b, Ordered(p, Orders(b, k, n), k))
         /\ \A l \in Kinds : Ordered(p, Orders(b, k, n), k).outstanding[l] = p.outstanding[l] + (IF l = k THEN n ELSE 0)
<1> DEFINE q == Ordered(p, Orders(b, k, n), k)
<1>0. p \in Pools(b) /\ Len(Orders(b, k, n)) = n
  BY OrdersAre DEF Bounded
<1>1. /\ q.slotKind = p.slotKind /\ q.spares = p.spares
      /\ q.outstanding = [p.outstanding EXCEPT ![k] = @ + n] /\ q \in Pools(b)
  <2>1. p.outstanding \in [Kinds -> Nat]
    BY <1>0 DEF Pools
  <2>2. p.outstanding[k] + n \in Nat
    BY <2>1
  <2>3. [p.outstanding EXCEPT ![k] = @ + n] \in [Kinds -> Nat]
    BY <2>1, <2>2
  <2>4. q = [p EXCEPT !.outstanding = [p.outstanding EXCEPT ![k] = @ + n]]
    BY <1>0 DEF Ordered, Pools
  <2> HIDE DEF q
  <2> QED BY <1>0, <2>3, <2>4 DEF Pools
<1> HIDE DEF q
<1>2. ASSUME NEW l \in Kinds
      PROVE  /\ q.outstanding[l] = p.outstanding[l] + (IF l = k THEN n ELSE 0)
             /\ p.outstanding[l] \in Nat /\ p.spares[l] \in Nat
  BY <1>0, <1>1 DEF Pools
<1>3. ASSUME NEW l \in Kinds
      PROVE  Cardinality(Placed(b, q, l)) + q.spares[l] + q.outstanding[l] <= SlotCounts[b] + TargetFor(b, l)
  <2>1. Placed(b, q, l) = Placed(b, p, l)
    BY <1>1 DEF Placed
  <2>2. Cardinality(Placed(b, p, l)) + p.spares[l] + p.outstanding[l] <= SlotCounts[b] + TargetFor(b, l)
    BY DEF Bounded
  <2>3. Cardinality(Placed(b, p, l)) \in Nat
    BY SlotsAreFinite
  <2>4. CASE l = k
    BY <1>1, <1>2, <2>1, <2>3, <2>4
  <2>5. CASE l # k
    BY <1>1, <1>2, <2>1, <2>2, <2>3, <2>5
  <2> QED BY <2>4, <2>5
<1> QED BY Zenon, <1>1, <1>2, <1>3 DEF Bounded, q

\* request_refill orders up to the target, or nothing.
LEMMA RefillIs ==
  ASSUME NEW b \in Banks, NEW p, Bounded(b, p), NEW k \in Kinds
  PROVE  \E n \in Nat :
           /\ Refill(b, p, k) = Orders(b, k, n)
           /\ Cardinality(Placed(b, p, k)) + p.spares[k] + p.outstanding[k] + n <= SlotCounts[b] + TargetFor(b, k)
<1>1. p.spares[k] \in Nat /\ p.outstanding[k] \in Nat
  BY DEF Bounded, Pools
<1>2. Cardinality(Placed(b, p, k)) \in Nat /\ Cardinality(Placed(b, p, k)) <= SlotCounts[b]
      /\ TargetFor(b, k) \in Nat /\ SlotCounts[b] \in Nat
  BY SlotsAreFinite, TargetsAreNat
<1>3. Cardinality(Placed(b, p, k)) + p.spares[k] + p.outstanding[k] <= SlotCounts[b] + TargetFor(b, k)
  BY DEF Bounded
<1>4. CASE CanOrder
  <2> DEFINE n == Missing(b, k, p.spares[k], p.outstanding[k])
  <2>1. n \in Nat /\ (n = 0 \/ p.spares[k] + p.outstanding[k] + n = TargetFor(b, k))
    BY <1>1, <1>2 DEF Missing, Minus
  <2>2. Refill(b, p, k) = Orders(b, k, n)
    BY <1>4 DEF Refill
  <2> HIDE DEF n
  <2> QED BY <1>1, <1>2, <1>3, <2>1, <2>2
<1>5. CASE ~CanOrder
  <2>1. Refill(b, p, k) = Orders(b, k, 0)
    BY <1>5 DEF Refill, Orders
  <2> QED BY <1>1, <1>2, <1>3, <2>1
<1> QED BY <1>4, <1>5

\* The exchange of a slot's instance for a spare creates none.
LEMMA SwappingKeepsBound ==
  ASSUME NEW b \in Banks, NEW p, Bounded(b, p), NEW slot \in Slots(b), NEW k \in Kinds, p.spares[k] > 0
  PROVE  Bounded(b, Swapped(p, slot, k)) /\ Swapped(p, slot, k).outstanding = p.outstanding
<1>0. PICK old \in Kinds : old = p.slotKind[slot]
  BY DEF Bounded, Pools
<1>1. /\ p \in Pools(b) /\ p.spares \in [Kinds -> Nat] /\ p.outstanding \in [Kinds -> Nat]
      /\ p.slotKind \in [Slots(b) -> Kinds]
  BY DEF Bounded, Pools
<1>2. PICK spare : spare = [p.spares EXCEPT ![k] = @ - 1, ![old] = @ + 1]
  OBVIOUS
<1>3. PICK kinds : kinds = [p.slotKind EXCEPT ![slot] = k]
  OBVIOUS
<1>4. PICK q : q = Swapped(p, slot, k)
  OBVIOUS
<1>5. q.spares = spare /\ q.slotKind = kinds /\ q.outstanding = p.outstanding /\ q = [p EXCEPT !.spares = spare, !.slotKind = kinds]
  <2>1. spare = [p.spares EXCEPT ![k] = @ - 1, ![p.slotKind[slot]] = @ + 1]
    BY Zenon, <1>0, <1>2
  <2>2. q = [p EXCEPT !.spares = spare, !.slotKind = kinds]
    BY Zenon, <1>3, <1>4, <2>1 DEF Swapped
  <2> QED BY <1>1, <2>2 DEF Pools
<1>6. /\ spare \in [Kinds -> Nat]
      /\ \A l \in Kinds : spare[l] = p.spares[l] - (IF l = k THEN 1 ELSE 0) + (IF l = old THEN 1 ELSE 0)
  <2>1. p.spares[k] - 1 \in Nat /\ p.spares[old] + 1 \in Nat
    BY <1>1
  <2> QED BY <1>1, <1>2, <2>1
<1>7. kinds \in [Slots(b) -> Kinds] /\ kinds[slot] = k /\ \A s \in Slots(b) : s # slot => kinds[s] = p.slotKind[s]
  BY <1>1, <1>3
<1>8. q \in Pools(b)
  BY <1>1, <1>5, <1>6, <1>7 DEF Pools
<1>9. ASSUME NEW l \in Kinds
      PROVE  Cardinality(Placed(b, q, l)) =
               Cardinality(Placed(b, p, l)) + (IF l = k THEN 1 ELSE 0) - (IF l = old THEN 1 ELSE 0)
  <2>0. Cardinality(Placed(b, p, l)) \in Nat /\ IsFiniteSet(Placed(b, p, l))
    BY SlotsAreFinite
  <2>1. CASE l = k /\ l # old
    <3>1. Placed(b, q, l) = Placed(b, p, l) \cup {slot} /\ slot \notin Placed(b, p, l)
      BY <1>0, <1>5, <1>7, <2>1 DEF Placed
    <3>2. Cardinality(Placed(b, p, l) \cup {slot}) = Cardinality(Placed(b, p, l)) + 1
      BY <2>0, <3>1, FS_AddElement
    <3> QED BY <2>0, <2>1, <3>1, <3>2
  <2>2. CASE l # k /\ l = old
    <3>1. Placed(b, q, l) = Placed(b, p, l) \ {slot} /\ slot \in Placed(b, p, l)
      BY <1>0, <1>5, <1>7, <2>2 DEF Placed
    <3>2. Cardinality(Placed(b, p, l) \ {slot}) = Cardinality(Placed(b, p, l)) - 1
      BY <2>0, <3>1, FS_RemoveElement
    <3> QED BY <2>0, <2>2, <3>1, <3>2
  <2>3. CASE l = k <=> l = old
    <3>1. Placed(b, q, l) = Placed(b, p, l)
      BY <1>0, <1>5, <1>7, <2>3 DEF Placed
    <3> QED BY <2>0, <2>3, <3>1
  <2> QED BY <2>1, <2>2, <2>3
<1>10. ASSUME NEW l \in Kinds
       PROVE  Cardinality(Placed(b, q, l)) + q.spares[l] + q.outstanding[l] <= SlotCounts[b] + TargetFor(b, l)
  <2>1. Cardinality(Placed(b, p, l)) + p.spares[l] + p.outstanding[l] <= SlotCounts[b] + TargetFor(b, l)
    BY DEF Bounded
  <2>2. PICK c \in Nat, n \in Nat, o \in Nat :
          c = Cardinality(Placed(b, p, l)) /\ n = p.spares[l] /\ o = p.outstanding[l]
    BY <1>1, SlotsAreFinite
  <2>3. /\ q.spares[l] = n - (IF l = k THEN 1 ELSE 0) + (IF l = old THEN 1 ELSE 0) /\ q.outstanding[l] = o
        /\ Cardinality(Placed(b, q, l)) = c + (IF l = k THEN 1 ELSE 0) - (IF l = old THEN 1 ELSE 0)
    BY <1>5, <1>6, <1>9, <2>2
  <2>4. Cardinality(Placed(b, q, l)) + q.spares[l] + q.outstanding[l] = c + n + o
    BY <2>2, <2>3
  <2> QED BY <2>1, <2>2, <2>4
<1> QED BY <1>4, <1>5, <1>8, <1>10 DEF Bounded

(***************************************************************************)
(* The steps                                                               *)
(***************************************************************************)
\* A bank goes on with another pool, has ordered n of k and keeps the outcomes in rest.
LEMMA BankGoesOn ==
  ASSUME PoolInv, NEW b \in Banks, NEW q, Bounded(b, q), NEW k \in Kinds, NEW n \in Nat, NEW w,
         w = Idle \/ w[1] \in Waits(b), NEW rest \in Seq(Outcomes),
         Becomes(b, q, Orders(b, k, n), w), outcomes' = [outcomes EXCEPT ![b] = rest],
         UNCHANGED <<building, builderUp, alive>>,
         \A l \in Kinds : HowMany(requests, Order(b, l)) + (IF l = k THEN n ELSE 0) + HowMany(building, Order(b, l))
                            + HowMany(rest, OfKind(l)) <= q.outstanding[l]
  PROVE  PoolInv'
<1>0. PoolTypeOK /\ Orders(b, k, n) \in Seq(BuildOrders)
  BY OrdersAre DEF PoolInv
<1>1. /\ spares' = [spares EXCEPT ![b] = q.spares] /\ outstanding' = [outstanding EXCEPT ![b] = q.outstanding]
      /\ slotKind' = [slotKind EXCEPT ![b] = q.slotKind] /\ waiting' = [waiting EXCEPT ![b] = w]
      /\ requests' = requests \o Orders(b, k, n)
  BY DEF Becomes
<1>2. q.spares \in [Kinds -> Nat] /\ q.outstanding \in [Kinds -> Nat] /\ q.slotKind \in [Slots(b) -> Kinds]
  BY DEF Bounded, Pools
<1>3. /\ DOMAIN slotKind = Banks /\ DOMAIN waiting = Banks /\ DOMAIN spares = Banks /\ DOMAIN outstanding = Banks
      /\ DOMAIN outcomes = Banks /\ requests \in Seq(BuildOrders) /\ building \in Seq(BuildOrders)
  BY <1>0 DEF PoolTypeOK
<1>4. Pool(b)' = [spares |-> q.spares, outstanding |-> q.outstanding, slotKind |-> q.slotKind] /\ Pool(b)' = q
  BY <1>1, <1>3 DEF Pool, Bounded, Pools
<1>5. ASSUME NEW c \in Banks, c # b PROVE Pool(c)' = Pool(c)
  BY <1>1, <1>3, <1>5 DEF Pool
<1>6. PoolTypeOK'
  <2>1. slotKind' = [c \in Banks |-> slotKind'[c]] /\ waiting' = [c \in Banks |-> waiting'[c]]
    BY <1>1, <1>3
  <2>2. spares' \in [Banks -> [Kinds -> Nat]] /\ outstanding' \in [Banks -> [Kinds -> Nat]]
    BY <1>0, <1>1, <1>2 DEF PoolTypeOK
  <2>3. ASSUME NEW c \in Banks PROVE waiting'[c] = Idle \/ waiting'[c][1] \in Waits(c)
    BY <1>0, <1>1 DEF PoolTypeOK
  <2>4. requests' \in Seq(BuildOrders) /\ building' \in Seq(BuildOrders)
    BY <1>0, <1>1, <1>3
  <2>5. outcomes' \in [Banks -> Seq(Outcomes)] /\ alive' \in [Banks -> BOOLEAN]
    BY <1>0 DEF PoolTypeOK
  <2> QED BY <2>1, <2>2, <2>3, <2>4, <2>5 DEF PoolTypeOK
<1>7. ASSUME NEW c \in Banks PROVE Bounded(c, Pool(c))'
  <2>1. CASE c = b
    <3>1. Pool(c)' = q
      BY <1>4, <2>1
    <3> QED BY <2>1, <3>1 DEF Bounded, Placed
  <2>2. CASE c # b
    <3>1. Pool(c)' = Pool(c) /\ Bounded(c, Pool(c))
      BY <1>5, <2>2 DEF PoolInv
    <3> QED BY <3>1 DEF Bounded, Placed
  <2> QED BY <2>1, <2>2
<1>8. ASSUME NEW c \in Banks, NEW l \in Kinds, alive'[c] PROVE OnTheWay(c, l)' <= outstanding'[c][l]
  <2>1. HowMany(requests', Order(c, l)) = HowMany(requests, Order(c, l)) + (IF c = b /\ l = k THEN n ELSE 0)
    <3>1. HowMany(requests \o Orders(b, k, n), Order(c, l)) = HowMany(requests, Order(c, l)) + HowMany(Orders(b, k, n), Order(c, l))
      BY <1>0, <1>3, CountConcat
    <3>2. HowMany(Orders(b, k, n), Order(c, l)) = (IF c = b /\ l = k THEN n ELSE 0)
      BY OrdersAre
    <3> QED BY Zenon, <1>1, <3>1, <3>2
  <2>2. HowMany(requests, Order(c, l)) \in Nat /\ HowMany(building, Order(c, l)) \in Nat
    BY <1>3, WhereIsFinite
  <2>3. HowMany(building', Order(c, l)) = HowMany(building, Order(c, l))
    BY DEF HowMany, Where
  <2>4. OnTheWay(c, l)' = HowMany(requests', Order(c, l)) + HowMany(building', Order(c, l)) + HowMany(outcomes'[c], OfKind(l))
    BY DEF OnTheWay, HowMany, Where, Order, OfKind, Outcomes, Kinds
  <2>5. CASE c = b
    <3>1. outcomes'[c] = rest /\ outstanding'[c] = q.outstanding
      BY <1>1, <1>3, <2>5
    <3>2. HowMany(requests, Order(b, l)) + (IF l = k THEN n ELSE 0) + HowMany(building, Order(b, l))
            + HowMany(rest, OfKind(l)) <= q.outstanding[l]
      OBVIOUS
    <3>3. HowMany(rest, OfKind(l)) \in Nat /\ q.outstanding[l] \in Nat
      BY <1>2, WhereIsFinite
    <3> QED BY <2>1, <2>2, <2>3, <2>4, <2>5, <3>1, <3>2, <3>3
  <2>6. CASE c # b
    <3>1. outcomes'[c] = outcomes[c] /\ outstanding'[c] = outstanding[c] /\ alive[c]
      BY <1>1, <1>3, <1>8, <2>6
    <3>2. OnTheWay(c, l) <= outstanding[c][l]
      BY <3>1 DEF PoolInv, WhatComesIsCounted
    <3>3. OnTheWay(c, l)' = OnTheWay(c, l)
      BY <2>1, <2>2, <2>3, <2>4, <2>6, <3>1 DEF OnTheWay
    <3> QED BY <3>1, <3>2, <3>3
  <2> QED BY <2>5, <2>6
<1> QED BY <1>6, <1>7, <1>8 DEF PoolInv, WhatComesIsCounted

\* What is still under way to bank b when it has only the outcomes in rest before it.
StillCounted(b, p, rest) ==
  \A l \in Kinds :
    HowMany(requests, Order(b, l)) + HowMany(building, Order(b, l)) + HowMany(rest, OfKind(l)) <= p.outstanding[l]

LEMMA CountsAreNat ==
  ASSUME PoolInv, NEW b \in Banks, NEW l, NEW rest \in Seq(Outcomes)
  PROVE  HowMany(requests, Order(b, l)) \in Nat /\ HowMany(building, Order(b, l)) \in Nat /\ HowMany(rest, OfKind(l)) \in Nat
<1>1. requests \in Seq(BuildOrders) /\ building \in Seq(BuildOrders)
  BY DEF PoolInv, PoolTypeOK
<1> QED BY <1>1, WhereIsFinite

LEMMA OrderingGoesOn ==
  ASSUME PoolInv, NEW b \in Banks, NEW p, Bounded(b, p), NEW k \in Kinds, NEW n \in Nat, NEW w,
         Cardinality(Placed(b, p, k)) + p.spares[k] + p.outstanding[k] + n <= SlotCounts[b] + TargetFor(b, k),
         w = Idle \/ w[1] \in Waits(b), NEW rest \in Seq(Outcomes), StillCounted(b, p, rest),
         Becomes(b, Ordered(p, Orders(b, k, n), k), Orders(b, k, n), w),
         outcomes' = [outcomes EXCEPT ![b] = rest], UNCHANGED <<building, builderUp, alive>>
  PROVE  PoolInv'
<1> DEFINE q == Ordered(p, Orders(b, k, n), k)
<1>1. Bounded(b, q) /\ \A l \in Kinds : q.outstanding[l] = p.outstanding[l] + (IF l = k THEN n ELSE 0)
  BY OrderingKeepsBound
<1>2. Becomes(b, q, Orders(b, k, n), w)
  OBVIOUS
<1> HIDE DEF q
<1>3. ASSUME NEW l \in Kinds
      PROVE  HowMany(requests, Order(b, l)) + (IF l = k THEN n ELSE 0) + HowMany(building, Order(b, l))
               + HowMany(rest, OfKind(l)) <= q.outstanding[l]
  <2>1. p.outstanding[l] \in Nat
    BY DEF Bounded, Pools
  <2>2. HowMany(requests, Order(b, l)) + HowMany(building, Order(b, l)) + HowMany(rest, OfKind(l)) <= p.outstanding[l]
    BY DEF StillCounted
  <2> QED BY <1>1, <2>1, <2>2, CountsAreNat
<1> QED BY <1>1, <1>2, <1>3, BankGoesOn

LEMMA NothingOrdered ==
  ASSUME NEW b \in Banks, NEW p, Bounded(b, p), NEW k \in Kinds
  PROVE  /\ Orders(b, k, 0) = <<>> /\ Ordered(p, <<>>, k) = p
         /\ Cardinality(Placed(b, p, k)) + p.spares[k] + p.outstanding[k] + 0 <= SlotCounts[b] + TargetFor(b, k)
<1>1. p.outstanding \in [Kinds -> Nat] /\ p.spares[k] \in Nat
  BY DEF Bounded, Pools
<1>2. Orders(b, k, 0) = <<>> /\ Len(<<>>) = 0
  BY DEF Orders
<1>3. p.outstanding[k] + 0 = p.outstanding[k] /\ [p.outstanding EXCEPT ![k] = p.outstanding[k]] = p.outstanding
  BY <1>1
<1>4. Ordered(p, <<>>, k) = p
  BY <1>2, <1>3 DEF Ordered, Bounded, Pools
<1>5. Cardinality(Placed(b, p, k)) \in Nat /\ Cardinality(Placed(b, p, k)) + p.spares[k] + p.outstanding[k] <= SlotCounts[b] + TargetFor(b, k)
  BY SlotsAreFinite DEF Bounded
<1> QED BY <1>1, <1>2, <1>4, <1>5

LEMMA ExchangeGoesOn ==
  ASSUME PoolInv, NEW b \in Banks, NEW p, Bounded(b, p), NEW slot \in Slots(b), NEW k \in Kinds, p.spares[k] > 0,
         NEW rest \in Seq(Outcomes), StillCounted(b, p, rest), Exchange(b, p, slot, k),
         outcomes' = [outcomes EXCEPT ![b] = rest], UNCHANGED <<building, builderUp, alive>>
  PROVE  PoolInv'
<1> DEFINE q == Swapped(p, slot, k)
<1>1. Bounded(b, q) /\ q.outstanding = p.outstanding
  BY SwappingKeepsBound
<1>2. Becomes(b, Ordered(q, Refill(b, q, k), k), Refill(b, q, k), Idle)
  BY Zenon DEF Exchange
<1> HIDE DEF q
<1>3. StillCounted(b, q, rest)
  BY <1>1 DEF StillCounted
<1>4. PICK n \in Nat : /\ Refill(b, q, k) = Orders(b, k, n)
                       /\ Cardinality(Placed(b, q, k)) + q.spares[k] + q.outstanding[k] + n <= SlotCounts[b] + TargetFor(b, k)
  BY <1>1, RefillIs
<1>5. Becomes(b, Ordered(q, Orders(b, k, n), k), Orders(b, k, n), Idle)
  BY <1>2, <1>4
<1> QED BY <1>1, <1>3, <1>4, <1>5, OrderingGoesOn

\* A bank takes in the first of its outcomes, or all of them.
LEMMA TakingInKeepsCount ==
  ASSUME PoolInv, NEW b \in Banks, alive[b], NEW arrived \in Seq(Outcomes), NEW rest \in Seq(Outcomes),
         outcomes[b] = arrived \o rest
  PROVE  Bounded(b, Accepted(Pool(b), arrived)) /\ StillCounted(b, Accepted(Pool(b), arrived), rest)
<1> DEFINE q == Accepted(Pool(b), arrived)
<1>1. ASSUME NEW l \in Kinds
      PROVE  /\ HowMany(requests, Order(b, l)) + HowMany(building, Order(b, l)) + HowMany(arrived, OfKind(l))
                  + HowMany(rest, OfKind(l)) <= Pool(b).outstanding[l]
             /\ HowMany(arrived, OfKind(l)) \in Nat /\ HowMany(rest, OfKind(l)) \in Nat
             /\ HowMany(requests, Order(b, l)) \in Nat /\ HowMany(building, Order(b, l)) \in Nat
             /\ Pool(b).outstanding[l] \in Nat
  <2>1. HowMany(arrived \o rest, OfKind(l)) = HowMany(arrived, OfKind(l)) + HowMany(rest, OfKind(l))
    BY CountConcat
  <2>2. OnTheWay(b, l) <= outstanding[b][l] /\ Pool(b).outstanding = outstanding[b]
    BY DEF PoolInv, WhatComesIsCounted, Pool
  <2>3. Pool(b).outstanding[l] \in Nat
    BY DEF PoolInv, Bounded, Pools
  <2>4. OnTheWay(b, l) = HowMany(requests, Order(b, l)) + HowMany(building, Order(b, l)) + HowMany(arrived \o rest, OfKind(l))
    BY DEF OnTheWay
  <2> QED BY <2>1, <2>2, <2>3, <2>4, CountsAreNat
<1>2. Bounded(b, Pool(b)) /\ \A l \in Kinds : HowMany(arrived, OfKind(l)) <= Pool(b).outstanding[l]
  BY <1>1 DEF PoolInv
<1>3. Bounded(b, q) /\ \A l \in Kinds : q.outstanding[l] = Pool(b).outstanding[l] - HowMany(arrived, OfKind(l))
  BY <1>2, AcceptKeepsBound
<1> HIDE DEF q
<1>4. StillCounted(b, q, rest)
  BY SMTT(30), <1>1, <1>3 DEF StillCounted
<1> QED BY <1>3, <1>4 DEF q

LEMMA CollectingKeepsPool ==
  ASSUME PoolInv, NEW b \in Banks, alive[b]
  PROVE  Bounded(b, Collected(b)) /\ StillCounted(b, Collected(b), <<>>) /\ outcomes[b] \in Seq(Outcomes) /\ <<>> \in Seq(Outcomes)
<1>1. outcomes[b] \in Seq(Outcomes) /\ <<>> \in Seq(Outcomes) /\ outcomes[b] = outcomes[b] \o <<>>
  BY DEF PoolInv, PoolTypeOK
<1> QED BY <1>1, TakingInKeepsCount DEF Collected

LEMMA CollectReadyKeeps ==
  ASSUME PoolInv, NEW b \in Banks, CollectReady(b)
  PROVE  PoolInv'
<1>1. /\ alive[b] /\ Becomes(b, Collected(b), <<>>, Idle) /\ outcomes' = [outcomes EXCEPT ![b] = <<>>]
      /\ UNCHANGED <<building, builderUp, alive>>
  BY Zenon DEF CollectReady, Free
<1>2. PICK p : p = Collected(b)
  OBVIOUS
<1>3. Bounded(b, p) /\ StillCounted(b, p, <<>>) /\ <<>> \in Seq(Outcomes)
  BY <1>1, <1>2, CollectingKeepsPool
<1>4. Default \in Kinds
  BY PoolAssumption DEF Default, Kinds
<1>5. Becomes(b, Ordered(p, Orders(b, Default, 0), Default), Orders(b, Default, 0), Idle)
  BY Zenon, <1>1, <1>2, <1>3, <1>4, NothingOrdered
<1>6. Cardinality(Placed(b, p, Default)) + p.spares[Default] + p.outstanding[Default] + 0 <= SlotCounts[b] + TargetFor(b, Default)
  BY <1>3, <1>4, NothingOrdered
<1>7. 0 \in Nat /\ Idle = Idle
  OBVIOUS
<1> QED BY Zenon, <1>1, <1>3, <1>4, <1>5, <1>6, <1>7, OrderingGoesOn

LEMMA PrepareKeeps ==
  ASSUME PoolInv, NEW b \in Banks, NEW slot \in Slots(b), NEW k \in Kinds, Prepare(b, slot, k)
  PROVE  PoolInv'
<1>1. PICK p : p = Collected(b)
  OBVIOUS
<1>2. /\ alive[b] /\ p.slotKind[slot] # k /\ outcomes' = [outcomes EXCEPT ![b] = <<>>]
      /\ UNCHANGED <<building, builderUp, alive>>
  BY Zenon, <1>1 DEF Prepare, Free
<1>3. Bounded(b, p) /\ StillCounted(b, p, <<>>) /\ <<>> \in Seq(Outcomes)
  BY <1>1, <1>2, CollectingKeepsPool
<1>4. CASE p.spares[k] > 0
  <2>1. Exchange(b, p, slot, k)
    BY <1>1, <1>4 DEF Prepare
  <2> QED BY Zenon, <1>2, <1>3, <1>4, <2>1, ExchangeGoesOn
<1>5. CASE ~(p.spares[k] > 0)
  <2> DEFINE orders == IF CanOrder /\ Refill(b, p, k) = <<>> /\ p.outstanding[k] = 0 THEN Orders(b, k, 1) ELSE Refill(b, p, k)
             w == IF HasBuilder THEN <<[slot |-> slot, kind |-> k]>> ELSE Idle
  <2>1. Becomes(b, Ordered(p, orders, k), orders, w)
    BY <1>1, <1>5 DEF Prepare
  <2>2. w = Idle \/ w[1] \in Waits(b)
    BY DEF Waits
  <2>3. p.spares[k] \in Nat /\ p.outstanding[k] \in Nat /\ TargetFor(b, k) \in Nat /\ SlotCounts[b] \in Nat
    BY <1>3, TargetsAreNat DEF Bounded, Pools
  <2>4. PICK n \in Nat :
          /\ orders = Orders(b, k, n)
          /\ Cardinality(Placed(b, p, k)) + p.spares[k] + p.outstanding[k] + n <= SlotCounts[b] + TargetFor(b, k)
    <3>1. CASE CanOrder /\ Refill(b, p, k) = <<>> /\ p.outstanding[k] = 0
      <4>1. Placed(b, p, k) # Slots(b)
        BY <1>2 DEF Placed
      <4>2. Cardinality(Placed(b, p, k)) \in Nat /\ Cardinality(Placed(b, p, k)) < SlotCounts[b]
        BY <4>1, SlotsAreFinite
      <4>3. Cardinality(Placed(b, p, k)) + p.spares[k] + p.outstanding[k] + 1 <= SlotCounts[b] + TargetFor(b, k)
        BY <1>5, <2>3, <3>1, <4>2
      <4>4. orders = Orders(b, k, 1) /\ 1 \in Nat
        BY <3>1
      <4> QED BY Zenon, <4>3, <4>4
    <3>2. CASE ~(CanOrder /\ Refill(b, p, k) = <<>> /\ p.outstanding[k] = 0)
      <4>1. orders = Refill(b, p, k)
        BY <3>2
      <4> QED BY Zenon, <1>3, <4>1, RefillIs
    <3> QED BY <3>1, <3>2
  <2> HIDE DEF orders, w
  <2>5. Becomes(b, Ordered(p, Orders(b, k, n), k), Orders(b, k, n), w)
    BY Zenon, <2>1, <2>4
  <2> QED BY Zenon, <1>2, <1>3, <2>2, <2>4, <2>5, OrderingGoesOn
<1> QED BY <1>4, <1>5

LEMMA ReceiveKeeps ==
  ASSUME PoolInv, NEW b \in Banks, Receive(b)
  PROVE  PoolInv'
<1>1. PICK arrived : arrived = <<Head(outcomes[b])>>
  OBVIOUS
<1>2. PICK rest : rest = Tail(outcomes[b])
  OBVIOUS
<1>3. /\ alive[b] /\ waiting[b] # Idle /\ outcomes[b] # <<>> /\ outcomes' = [outcomes EXCEPT ![b] = rest]
      /\ UNCHANGED <<building, builderUp, alive>>
  BY <1>2 DEF Receive, PoolInv, PoolTypeOK
<1>4. /\ outcomes[b] \in Seq(Outcomes) /\ waiting[b][1] \in Waits(b)
  BY <1>3 DEF PoolInv, PoolTypeOK
<1>5. arrived \in Seq(Outcomes) /\ rest \in Seq(Outcomes) /\ outcomes[b] = arrived \o rest
  BY <1>1, <1>2, <1>3, <1>4
<1>6. PICK p : p = Accepted(Pool(b), arrived)
  OBVIOUS
<1>7. Bounded(b, p) /\ StillCounted(b, p, rest)
  BY <1>3, <1>5, <1>6, TakingInKeepsCount
<1>8. PICK slot \in Slots(b), k \in Kinds : slot = waiting[b][1].slot /\ k = waiting[b][1].kind
  BY <1>4 DEF Waits
<1>9. CASE p.spares[k] > 0
  <2>1. Exchange(b, p, slot, k)
    BY <1>1, <1>6, <1>8, <1>9 DEF Receive
  <2> QED BY Zenon, <1>3, <1>5, <1>7, <1>9, <2>1, ExchangeGoesOn
<1>10. CASE ~(p.spares[k] > 0)
  <2>1. PICK w : w \in {waiting[b], Idle} /\ Becomes(b, p, <<>>, w)
    BY <1>1, <1>6, <1>8, <1>10 DEF Receive
  <2>2. w = Idle \/ w[1] \in Waits(b)
    BY <1>4, <2>1
  <2>3. Becomes(b, Ordered(p, Orders(b, k, 0), k), Orders(b, k, 0), w)
    BY Zenon, <1>7, <2>1, NothingOrdered
  <2>4. Cardinality(Placed(b, p, k)) + p.spares[k] + p.outstanding[k] + 0 <= SlotCounts[b] + TargetFor(b, k)
    BY <1>7, NothingOrdered
  <2>5. 0 \in Nat
    OBVIOUS
  <2> QED BY Zenon, <1>3, <1>5, <1>7, <2>2, <2>3, <2>4, <2>5, OrderingGoesOn
<1> QED BY <1>9, <1>10

\* What a step of the builder, of the timeout or of an end leaves of the pools.
LEMMA PoolsStay ==
  ASSUME PoolInv, UNCHANGED <<slotKind, spares, outstanding>>, NEW b \in Banks
  PROVE  Bounded(b, Pool(b))'
<1>1. Pool(b)' = Pool(b) /\ Bounded(b, Pool(b))
  BY DEF Pool, PoolInv
<1> QED BY <1>1 DEF Bounded, Placed

LEMMA BanksEnd ==
  ASSUME PoolInv, NEW b \in Banks, GiveUp(b) \/ BankEnds(b)
  PROVE  PoolInv'
<1>0. PoolTypeOK /\ UNCHANGED <<slotKind, spares, outstanding, requests, building>>
  BY DEF PoolInv, GiveUp, BankEnds
<1>1. /\ waiting' = [waiting EXCEPT ![b] = Idle]
      /\ alive' = alive \/ alive' = [alive EXCEPT ![b] = FALSE]
      /\ outcomes' = outcomes \/ (outcomes' = [outcomes EXCEPT ![b] = <<>>] /\ alive' = [alive EXCEPT ![b] = FALSE])
  BY DEF GiveUp, BankEnds
<1>2. PoolTypeOK'
  <2>1. waiting' = [c \in Banks |-> waiting'[c]] /\ \A c \in Banks : waiting'[c] = Idle \/ waiting'[c][1] \in Waits(c)
    BY <1>0, <1>1 DEF PoolTypeOK
  <2>2. alive' \in [Banks -> BOOLEAN] /\ outcomes' \in [Banks -> Seq(Outcomes)]
    <3>1. alive' \in [Banks -> BOOLEAN]
      BY <1>0, <1>1 DEF PoolTypeOK
    <3>2. outcomes \in [Banks -> Seq(Outcomes)] /\ <<>> \in Seq(Outcomes)
      BY <1>0 DEF PoolTypeOK
    <3>3. [outcomes EXCEPT ![b] = <<>>] \in [Banks -> Seq(Outcomes)]
      BY <3>2
    <3> QED BY <1>1, <3>1, <3>2, <3>3
  <2> QED BY <1>0, <2>1, <2>2 DEF PoolTypeOK
<1>3. ASSUME NEW c \in Banks, NEW l \in Kinds, alive'[c] PROVE OnTheWay(c, l)' <= outstanding'[c][l]
  <2>1. alive[c] /\ outcomes'[c] = outcomes[c]
    BY <1>0, <1>1, <1>3 DEF PoolTypeOK
  <2>2. OnTheWay(c, l)' = OnTheWay(c, l) /\ OnTheWay(c, l) <= outstanding[c][l]
    BY <1>0, <2>1 DEF OnTheWay, HowMany, Where, Order, OfKind, PoolInv, WhatComesIsCounted
  <2> QED BY <1>0, <2>2
<1> QED BY <1>0, <1>2, <1>3, PoolsStay DEF PoolInv, WhatComesIsCounted

LEMMA TakeOrderKeeps ==
  ASSUME PoolInv, TakeOrder
  PROVE  PoolInv'
<1>0. /\ PoolTypeOK /\ UNCHANGED <<slotKind, spares, outstanding, waiting, outcomes, alive>>
      /\ building = <<>> /\ requests # <<>> /\ building' = <<Head(requests)>> /\ requests' = Tail(requests)
      /\ requests \in Seq(BuildOrders) /\ Head(requests) \in BuildOrders
  BY DEF PoolInv, PoolTypeOK, TakeOrder, bankPoolVars
<1>1. PoolTypeOK'
  <2>1. requests' \in Seq(BuildOrders) /\ building' \in Seq(BuildOrders)
    BY <1>0
  <2> QED BY <1>0, <2>1 DEF PoolTypeOK
<1>2. ASSUME NEW c \in Banks, NEW l \in Kinds, alive'[c] PROVE OnTheWay(c, l)' <= outstanding'[c][l]
  <2>1. HowMany(requests, Order(c, l)) = (IF Head(requests) \in Order(c, l) THEN 1 ELSE 0) + HowMany(Tail(requests), Order(c, l))
    BY <1>0, CountTail
  <2>2. HowMany(<<>>, Order(c, l)) = 0 /\ HowMany(<<Head(requests)>>, Order(c, l)) = (IF Head(requests) \in Order(c, l) THEN 1 ELSE 0)
    BY CountOne
  <2>3. HowMany(Tail(requests), Order(c, l)) \in Nat /\ HowMany(outcomes[c], OfKind(l)) \in Nat
    <3>1. Tail(requests) \in Seq(BuildOrders) /\ outcomes[c] \in Seq(Outcomes)
      BY <1>0 DEF PoolTypeOK
    <3> QED BY <3>1, WhereIsFinite
  <2>4. OnTheWay(c, l)' = HowMany(Tail(requests), Order(c, l)) + HowMany(<<Head(requests)>>, Order(c, l)) + HowMany(outcomes[c], OfKind(l))
    BY <1>0 DEF OnTheWay, HowMany, Where, Order, OfKind
  <2>5. OnTheWay(c, l) = HowMany(requests, Order(c, l)) + HowMany(<<>>, Order(c, l)) + HowMany(outcomes[c], OfKind(l))
    BY <1>0 DEF OnTheWay
  <2>6. OnTheWay(c, l)' = OnTheWay(c, l)
    BY <2>1, <2>2, <2>3, <2>4, <2>5
  <2>7. OnTheWay(c, l) <= outstanding[c][l]
    BY <1>0, <1>2 DEF PoolInv, WhatComesIsCounted
  <2> QED BY <1>0, <2>6, <2>7
<1> QED BY <1>0, <1>1, <1>2, PoolsStay DEF PoolInv, WhatComesIsCounted

LEMMA DeliverKeeps ==
  ASSUME PoolInv, NEW ok \in BOOLEAN, Deliver(ok)
  PROVE  PoolInv'
<1>0. /\ PoolTypeOK /\ UNCHANGED <<slotKind, spares, outstanding, waiting, requests, alive>>
      /\ building # <<>> /\ building' = <<>> /\ building \in Seq(BuildOrders)
  BY DEF PoolInv, PoolTypeOK, Deliver, bankPoolVars
<1>1. PICK b \in Banks, k \in Kinds : building[1] = [bank |-> b, kind |-> k]
  <2>1. building[1] \in BuildOrders
    BY <1>0
  <2> QED BY <2>1 DEF BuildOrders
<1>2. PICK o \in Outcomes : o = [kind |-> k, ok |-> ok]
  BY DEF Outcomes
<1>3. outcomes' = IF alive[b] THEN [outcomes EXCEPT ![b] = Append(@, o)] ELSE outcomes
  BY <1>1, <1>2 DEF Deliver, Recipient
<1>4. PoolTypeOK'
  <2>1. outcomes' \in [Banks -> Seq(Outcomes)]
    BY <1>0, <1>3 DEF PoolTypeOK
  <2>2. building' \in Seq(BuildOrders)
    BY <1>0
  <2> QED BY <1>0, <2>1, <2>2 DEF PoolTypeOK
<1>5. ASSUME NEW c \in Banks, NEW l \in Kinds, alive'[c] PROVE OnTheWay(c, l)' <= outstanding'[c][l]
  <2>0. outcomes[c] \in Seq(Outcomes) /\ alive[c]
    BY <1>0, <1>5 DEF PoolTypeOK
  <2>1. HowMany(outcomes'[c], OfKind(l)) = HowMany(outcomes[c], OfKind(l)) + (IF c = b /\ l = k THEN 1 ELSE 0)
    <3>1. CASE c = b
      <4>1. outcomes'[c] = Append(outcomes[c], o)
        BY <1>0, <1>3, <2>0, <3>1 DEF PoolTypeOK
      <4>2. HowMany(Append(outcomes[c], o), OfKind(l)) = HowMany(outcomes[c], OfKind(l)) + (IF o \in OfKind(l) THEN 1 ELSE 0)
        BY <2>0, CountAppend
      <4>3. o \in OfKind(l) <=> l = k
        BY <1>2 DEF OfKind
      <4> QED BY Zenon, <3>1, <4>1, <4>2, <4>3
    <3>2. CASE c # b
      <4>1. outcomes'[c] = outcomes[c]
        BY <1>0, <1>3, <3>2 DEF PoolTypeOK
      <4>2. HowMany(outcomes[c], OfKind(l)) \in Nat
        BY <2>0, WhereIsFinite
      <4> QED BY <3>2, <4>1, <4>2
    <3> QED BY <3>1, <3>2
  <2>2. HowMany(building, Order(c, l)) = (IF building[1] \in Order(c, l) THEN 1 ELSE 0) + HowMany(Tail(building), Order(c, l))
    <3>1. Head(building) = building[1]
      BY <1>0
    <3> QED BY <1>0, <3>1, CountTail
  <2>3. building[1] \in Order(c, l) <=> c = b /\ l = k
    BY <1>1 DEF Order
  <2>4. HowMany(Tail(building), Order(c, l)) \in Nat /\ HowMany(requests, Order(c, l)) \in Nat /\ HowMany(outcomes[c], OfKind(l)) \in Nat
    <3>1. Tail(building) \in Seq(BuildOrders) /\ requests \in Seq(BuildOrders)
      BY <1>0 DEF PoolTypeOK
    <3> QED BY <2>0, <3>1, WhereIsFinite
  <2>5. OnTheWay(c, l)' = HowMany(requests, Order(c, l)) + HowMany(<<>>, Order(c, l)) + HowMany(outcomes'[c], OfKind(l))
    BY <1>0 DEF OnTheWay, HowMany, Where, Order, OfKind
  <2>6. HowMany(<<>>, Order(c, l)) = 0
    BY CountOne
  <2>7. OnTheWay(c, l) = HowMany(requests, Order(c, l)) + HowMany(building, Order(c, l)) + HowMany(outcomes[c], OfKind(l))
    BY DEF OnTheWay
  <2>8. OnTheWay(c, l)' <= OnTheWay(c, l) /\ OnTheWay(c, l)' \in Nat /\ OnTheWay(c, l) \in Nat
    BY <2>1, <2>2, <2>3, <2>4, <2>5, <2>6, <2>7
  <2>9. OnTheWay(c, l) <= outstanding[c][l] /\ outstanding[c][l] \in Nat
    BY <1>0, <2>0 DEF PoolInv, WhatComesIsCounted, PoolTypeOK
  <2> QED BY <1>0, <2>8, <2>9
<1> QED BY <1>0, <1>4, <1>5, PoolsStay DEF PoolInv, WhatComesIsCounted

LEMMA PoolStaysSo ==
  ASSUME PoolInv, UNCHANGED <<bankPoolVars, requests, building, outcomes, alive>>
  PROVE  PoolInv'
<1>0. UNCHANGED <<slotKind, spares, outstanding, waiting, requests, building, outcomes, alive>>
  BY DEF bankPoolVars
<1>1. PoolTypeOK'
  BY <1>0 DEF PoolInv, PoolTypeOK
<1>2. WhatComesIsCounted'
  BY <1>0 DEF PoolInv, WhatComesIsCounted, OnTheWay, HowMany, Where, Order, OfKind
<1> QED BY <1>0, <1>1, <1>2, PoolsStay DEF PoolInv

LEMMA PoolStep ==
  ASSUME PoolInv, [PoolNext]_poolVars
  PROVE  PoolInv'
<1>1. ASSUME BuilderEnds PROVE PoolInv'
  BY <1>1, PoolStaysSo DEF BuilderEnds
<1>2. ASSUME UNCHANGED poolVars PROVE PoolInv'
  BY <1>2, PoolStaysSo DEF poolVars
<1> QED BY Zenon, <1>1, <1>2, CollectReadyKeeps, PrepareKeeps, ReceiveKeeps, BanksEnd, TakeOrderKeeps, DeliverKeeps
        DEF PoolNext, BuilderStep

(***************************************************************************)
(* The beginning                                                           *)
(***************************************************************************)
LEMMA QuotientIs ==
  ASSUME NEW m \in Nat, NEW t \in Nat \ {0}
  PROVE  m \div t \in Nat /\ (m \div t) * t <= m /\ m < (m \div t) * t + t
BY SMT

LEMMA FirstOrdersAre ==
  ASSUME NEW b \in Banks
  PROVE  /\ FirstOrders(b) \in Seq(BuildOrders)
         /\ \A c \in Banks, l \in Kinds :
              HowMany(FirstOrders(b), Order(c, l)) <= (IF c = b THEN TargetFor(b, l) ELSE 0)
<1> DEFINE t == BankTarget(b)
           all == (KindCount - 1) * t
           kind(j) == Default + 1 + (j - 1) \div t
           f == FirstOrders(b)
<1>0. t \in Nat /\ KindCount \in Nat \ {0} /\ all \in Nat /\ f = [j \in 1 .. all |-> [bank |-> b, kind |-> kind(j)]]
  BY TargetsAreNat, PoolAssumption DEF FirstOrders
<1> HIDE DEF t, f
<1>1. ASSUME NEW j \in 1 .. all
      PROVE  t # 0 /\ kind(j) \in Kinds \ {Default} /\ (kind(j) - 1) * t < j /\ j <= kind(j) * t
  <2>1. t # 0
    BY <1>0, <1>1
  <2>2. PICK q \in Nat : q = (j - 1) \div t /\ q * t <= j - 1 /\ j - 1 < q * t + t
    <3>1. j - 1 \in Nat /\ t \in Nat \ {0}
      BY <1>0, <2>1
    <3>2. PICK m \in Nat : m = j - 1
      BY <3>1
    <3>3. m \div t \in Nat /\ (m \div t) * t <= m /\ m < (m \div t) * t + t
      BY <3>1, QuotientIs
    <3> QED BY <3>2, <3>3
  <2>3. q < KindCount - 1
    <3>1. SUFFICES ASSUME q >= KindCount - 1 PROVE FALSE
      BY <1>0, <2>2
    <3>2. q * t >= (KindCount - 1) * t
      BY <1>0, <2>2, <3>1
    <3>3. PICK n \in Nat : n = q * t
      BY <1>0, <2>2
    <3>4. n >= all /\ n <= j - 1 /\ j \in 1 .. all
      BY <1>1, <2>2, <3>2, <3>3
    <3> HIDE DEF all
    <3> QED BY <1>0, <3>3, <3>4
  <2>4. kind(j) = q + 1 /\ (kind(j) - 1) * t = q * t /\ kind(j) * t = q * t + t
    BY <1>0, <2>2 DEF Default
  <2>5. (kind(j) - 1) * t < j /\ j <= kind(j) * t
    BY <1>0, <1>1, <2>2, <2>4
  <2> QED BY <1>0, <2>1, <2>2, <2>3, <2>4, <2>5 DEF Kinds, Default
<1> HIDE DEF kind
<1>2. f \in Seq(BuildOrders) /\ DOMAIN f = 1 .. all
  <2>1. \A j \in 1 .. all : [bank |-> b, kind |-> kind(j)] \in BuildOrders
    BY <1>1 DEF BuildOrders
  <2> HIDE DEF all
  <2> QED BY <1>0, <2>1
<1>3. ASSUME NEW c \in Banks, NEW l \in Kinds PROVE HowMany(f, Order(c, l)) <= (IF c = b THEN TargetFor(b, l) ELSE 0)
  <2>1. ASSUME NEW j \in Where(f, Order(c, l)) PROVE c = b /\ l = kind(j) /\ j \in 1 .. all
    <3>1. j \in 1 .. all /\ f[j] = [bank |-> c, kind |-> l] /\ f[j] = [bank |-> b, kind |-> kind(j)]
      BY <1>0, <1>2 DEF Where, Order
    <3> QED BY <3>1
  <2>2. CASE c # b \/ l = Default
    <3>1. Where(f, Order(c, l)) = {}
      BY <1>1, <2>1, <2>2
    <3> QED BY <3>1, FS_EmptySet, TargetsAreNat DEF HowMany
  <2>3. CASE c = b /\ l # Default
    <3>0. l \in Nat \ {0} /\ TargetFor(b, l) = t /\ (l - 1) * t + 1 \in Int /\ l * t \in Int
          /\ l * t - ((l - 1) * t + 1) + 1 = t
      BY <1>0, <2>3 DEF TargetFor, t, Kinds, Default
    <3>1. Where(f, Order(c, l)) \in SUBSET ((l - 1) * t + 1 .. l * t)
      <4>1. ASSUME NEW j \in Where(f, Order(c, l)) PROVE j \in (l - 1) * t + 1 .. l * t
        <5>1. (l - 1) * t < j /\ j <= l * t /\ j \in Int
          BY <1>1, <2>1
        <5> QED BY <3>0, <5>1
      <4> QED BY <4>1
    <3>2. IsFiniteSet((l - 1) * t + 1 .. l * t) /\ Cardinality((l - 1) * t + 1 .. l * t) <= t
      <4>1. PICK lo \in Int, hi \in Int : lo = (l - 1) * t + 1 /\ hi = l * t
        BY <3>0
      <4>2. IsFiniteSet(lo .. hi) /\ Cardinality(lo .. hi) = IF lo > hi THEN 0 ELSE hi - lo + 1
        BY FS_Interval
      <4>3. hi - lo + 1 = t
        BY <3>0, <4>1
      <4> QED BY <1>0, <4>1, <4>2, <4>3
    <3>3. HowMany(f, Order(c, l)) <= Cardinality((l - 1) * t + 1 .. l * t)
      BY <3>1, <3>2, FS_Subset DEF HowMany
    <3>4. HowMany(f, Order(c, l)) \in Nat /\ Cardinality((l - 1) * t + 1 .. l * t) \in Nat
      BY <1>2, <3>2, WhereIsFinite, FS_CardinalityType
    <3> QED BY <1>0, <2>3, <3>0, <3>2, <3>3, <3>4
  <2> QED BY <2>2, <2>3
<1> QED BY Zenon, <1>2, <1>3 DEF f

LEMMA PoolStarts ==
  ASSUME slotKind = [b \in Banks |-> [s \in Slots(b) |-> Default]], spares = [b \in Banks |-> [k \in Kinds |-> 0]],
         outstanding = [b \in Banks |-> [k \in Kinds |-> IF builderUp THEN TargetFor(b, k) ELSE 0]],
         waiting = [b \in Banks |-> Idle], building = <<>>, outcomes = [b \in Banks |-> <<>>],
         alive = [b \in Banks |-> TRUE], requests \in Seq(BuildOrders),
         \A b \in Banks, k \in Kinds : HowMany(requests, Order(b, k)) <= outstanding[b][k]
  PROVE  PoolInv
<1>0. Default \in Kinds
  BY PoolAssumption DEF Default, Kinds
<1>1. ASSUME NEW b \in Banks, NEW k \in Kinds PROVE outstanding[b][k] \in Nat /\ outstanding[b][k] <= TargetFor(b, k)
  BY TargetsAreNat
<1>2. PoolTypeOK
  <2>1. \A b \in Banks : slotKind[b] = [s \in Slots(b) |-> Default]
    OBVIOUS
  <2>2. spares \in [Banks -> [Kinds -> Nat]] /\ outstanding \in [Banks -> [Kinds -> Nat]]
    BY <1>1
  <2>3. outcomes \in [Banks -> Seq(Outcomes)] /\ building \in Seq(BuildOrders) /\ alive \in [Banks -> BOOLEAN]
    OBVIOUS
  <2>4. slotKind = [b \in Banks |-> slotKind[b]] /\ waiting = [b \in Banks |-> waiting[b]]
        /\ \A b \in Banks : waiting[b] = Idle
    OBVIOUS
  <2> QED BY <2>2, <2>3, <2>4 DEF PoolTypeOK
<1>3. ASSUME NEW b \in Banks PROVE Bounded(b, Pool(b))
  <2>1. Pool(b).spares = [k \in Kinds |-> 0] /\ Pool(b).outstanding = outstanding[b] /\ Pool(b).slotKind = [s \in Slots(b) |-> Default]
    BY DEF Pool
  <2>2. Pool(b) \in Pools(b)
    BY <1>0, <1>1 DEF Pool, Pools
  <2>3. ASSUME NEW k \in Kinds
        PROVE  Cardinality(Placed(b, Pool(b), k)) + Pool(b).spares[k] + Pool(b).outstanding[k] <= SlotCounts[b] + TargetFor(b, k)
    <3>1. Cardinality(Placed(b, Pool(b), k)) \in Nat /\ Cardinality(Placed(b, Pool(b), k)) <= SlotCounts[b]
          /\ SlotCounts[b] \in Nat /\ TargetFor(b, k) \in Nat
      BY SlotsAreFinite, TargetsAreNat
    <3> QED BY <1>1, <2>1, <3>1
  <2> QED BY <2>2, <2>3 DEF Bounded
<1>4. ASSUME NEW b \in Banks, NEW k \in Kinds PROVE OnTheWay(b, k) <= outstanding[b][k]
  <2>1. HowMany(building, Order(b, k)) = 0 /\ HowMany(outcomes[b], OfKind(k)) = 0
    BY CountOne
  <2>2. HowMany(requests, Order(b, k)) \in Nat
    BY WhereIsFinite
  <2> QED BY <2>1, <2>2 DEF OnTheWay
<1> QED BY <1>2, <1>3, <1>4 DEF PoolInv, WhatComesIsCounted

LEMMA PoolInitially == PoolInit => PoolInv
<1> SUFFICES ASSUME PoolInit PROVE PoolInv
  OBVIOUS
<1>0. /\ slotKind = [b \in Banks |-> [s \in Slots(b) |-> Default]] /\ spares = [b \in Banks |-> [k \in Kinds |-> 0]]
      /\ outstanding = [b \in Banks |-> [k \in Kinds |-> IF builderUp THEN TargetFor(b, k) ELSE 0]]
      /\ waiting = [b \in Banks |-> Idle] /\ building = <<>> /\ outcomes = [b \in Banks |-> <<>>]
      /\ alive = [b \in Banks |-> TRUE] /\ Default \in Kinds
  BY PoolAssumption DEF PoolInit, Default, Kinds
<1>1. CASE builderUp
  <2>1. PICK b \in Banks, c \in Banks : b # c /\ requests = FirstOrders(b) \o FirstOrders(c)
    BY <1>1 DEF PoolInit, Banks
  <2>2. FirstOrders(b) \in Seq(BuildOrders) /\ FirstOrders(c) \in Seq(BuildOrders)
    BY FirstOrdersAre
  <2>3. requests \in Seq(BuildOrders)
    BY <2>1, <2>2
  <2>4. ASSUME NEW d \in Banks, NEW l \in Kinds PROVE HowMany(requests, Order(d, l)) <= outstanding[d][l]
    <3>1. HowMany(requests, Order(d, l)) = HowMany(FirstOrders(b), Order(d, l)) + HowMany(FirstOrders(c), Order(d, l))
      BY <2>1, <2>2, CountConcat
    <3>2. /\ HowMany(FirstOrders(b), Order(d, l)) <= (IF d = b THEN TargetFor(b, l) ELSE 0)
          /\ HowMany(FirstOrders(c), Order(d, l)) <= (IF d = c THEN TargetFor(c, l) ELSE 0)
      BY FirstOrdersAre
    <3>3. HowMany(FirstOrders(b), Order(d, l)) \in Nat /\ HowMany(FirstOrders(c), Order(d, l)) \in Nat
      BY <2>2, WhereIsFinite
    <3>4. TargetFor(d, l) \in Nat /\ outstanding[d][l] = TargetFor(d, l)
      BY <1>0, <1>1, TargetsAreNat
    <3> QED BY <2>1, <3>1, <3>2, <3>3, <3>4
  <2> QED BY <2>3, <2>4, <1>0, <1>1, PoolStarts
<1>2. CASE ~builderUp
  <2>1. requests = <<>>
    BY <1>2 DEF PoolInit
  <2>2. requests \in Seq(BuildOrders)
    BY <2>1
  <2>3. ASSUME NEW d \in Banks, NEW l \in Kinds PROVE HowMany(requests, Order(d, l)) <= outstanding[d][l]
    <3>1. HowMany(requests, Order(d, l)) = 0
      BY <2>1, CountOne
    <3>2. outstanding[d][l] = 0
      BY <1>0, <1>2
    <3> QED BY <3>1, <3>2
  <2> QED BY <2>2, <2>3, <1>0, PoolStarts
<1> QED BY <1>1, <1>2

\* Every plugin is ordered up to its target, and nothing has arrived.
THEOREM PoolInvCorrect == PoolSpec => []PoolInv
<1>1. PoolInv /\ [PoolNext]_poolVars => PoolInv'
  BY PoolStep
<1> QED BY <1>1, PoolInitially, PTL DEF PoolSpec

\* However the patches move between the plugins and whatever the builder makes of its
\* orders, no plugin has more instances than a bank's slots and its target
\* (instances.rs), for any number of plugins, slots and spares.
THEOREM PoolBoundedCorrect == PoolSpec => []PoolBounded
<1>1. PoolInv => PoolBounded
  BY DEF PoolInv, PoolBounded, Bounded, Placed, Pool, On, Physical
<1> QED BY <1>1, PoolInvCorrect, PTL

(***************************************************************************)
(* What is played one event after the other                                *)
(***************************************************************************)
LEMMA LeastNatural ==
  ASSUME NEW T \in SUBSET Nat, T # {}
  PROVE  \E n \in T : \A m \in T : n <= m
<1> DEFINE R == {ss \in Nat \X Nat : ss[1] < ss[2]}
<1>1. IsWellFoundedOn(R, Nat)
  <2>1. R = OpToRel(<, Nat)
    BY DEF OpToRel
  <2> QED BY <2>1, NatLessThanWellFounded
<1>2. PICK n \in T : \A m \in T : <<m, n>> \notin R
  <2> HIDE DEF R
  <2> QED BY <1>1, WFMin
<1>3. ASSUME NEW m \in T PROVE n <= m
  <2>1. n \in Nat /\ m \in Nat
    OBVIOUS
  <2>2. m < n => <<m, n>> \in R
    BY <2>1
  <2>3. ~(m < n)
    BY <1>2, <2>2
  <2> QED BY <2>1, <2>3
<1> QED BY <1>3

\* Induction, for a set.
LEMMA AllNaturals ==
  ASSUME NEW T, 0 \in T, \A n \in Nat : n \in T => n + 1 \in T
  PROVE  Nat \subseteq T
<1> DEFINE Bad == Nat \ T
<1>1. SUFFICES ASSUME Bad # {} PROVE FALSE
  OBVIOUS
<1>2. PICK n \in Bad : \A m \in Bad : n <= m
  <2>1. Bad \in SUBSET Nat
    OBVIOUS
  <2> HIDE DEF Bad
  <2> QED BY <1>1, <2>1, LeastNatural
<1>3. n - 1 \in Nat /\ n - 1 \notin Bad
  BY <1>2
<1>4. n - 1 \in T /\ (n - 1) + 1 = n
  BY <1>2, <1>3
<1> QED BY <1>2, <1>3, <1>4

Notes == [Keys -> Nat]

\* A recursion over events has a solution, and its values stay in Notes.
LEMMA RecursionHasSolution ==
  ASSUME NEW turn \in [Notes \X Events -> Notes], NEW base \in Notes, NEW events \in Seq(Events)
  PROVE  \E f \in [0 .. Len(events) -> Notes] :
           /\ f[0] = base
           /\ \A n \in 1 .. Len(events) : f[n] = turn[<<f[n - 1], events[n]>>]
<1> DEFINE Solves(f, m) == /\ f[0] = base
                           /\ \A n \in 1 .. m : f[n] = turn[<<f[n - 1], events[n]>>]
           T == {m \in Nat : m <= Len(events) => \E f \in [0 .. m -> Notes] : Solves(f, m)}
<1>0. Len(events) \in Nat
  OBVIOUS
<1>1. 0 \in T
  <2>1. [n \in 0 .. 0 |-> base] \in [0 .. 0 -> Notes] /\ Solves([n \in 0 .. 0 |-> base], 0)
    OBVIOUS
  <2> QED BY <2>1
<1>2. ASSUME NEW m \in Nat, m \in T PROVE m + 1 \in T
  <2>1. SUFFICES ASSUME m + 1 <= Len(events) PROVE \E f \in [0 .. m + 1 -> Notes] : Solves(f, m + 1)
    BY <1>2
  <2>2. PICK g \in [0 .. m -> Notes] : Solves(g, m)
    BY <1>0, <1>2, <2>1
  <2>3. PICK after \in Notes : after = turn[<<g[m], events[m + 1]>>]
    <3>1. g[m] \in Notes /\ events[m + 1] \in Events
      BY <1>0, <2>1
    <3> QED BY <3>1
  <2>4. PICK f : f = [n \in 0 .. m + 1 |-> IF n = m + 1 THEN after ELSE g[n]]
    OBVIOUS
  <2>5. f \in [0 .. m + 1 -> Notes] /\ f[m + 1] = after /\ \A n \in 0 .. m : f[n] = g[n]
    BY <2>4
  <2>6. f[0] = base
    BY <2>2, <2>5
  <2>7. ASSUME NEW n \in 1 .. m + 1 PROVE f[n] = turn[<<f[n - 1], events[n]>>]
    <3>1. CASE n = m + 1
      <4>1. n - 1 = m /\ m \in 0 .. m /\ f[n - 1] = g[m] /\ f[n] = after
        BY <2>5, <3>1
      <4> QED BY <2>3, <3>1, <4>1
    <3>2. CASE n # m + 1
      <4>1. n \in 1 .. m /\ n \in 0 .. m /\ n - 1 \in 0 .. m
        BY <3>2
      <4> QED BY <2>2, <2>5, <4>1
    <3> QED BY <3>1, <3>2
  <2> QED BY <2>5, <2>6, <2>7
<1>3. Len(events) \in T
  <2> HIDE DEF T
  <2> QED BY <1>0, <1>1, <1>2, AllNaturals
<1> QED BY <1>0, <1>3

LEMMA NoNotesAre == NoNotes \in Notes /\ \A k \in Keys : NoNotes[k] = 0
BY DEF NoNotes, Notes

LEMMA EventIsRecorded ==
  ASSUME NEW notes \in Notes, NEW e \in Events
  PROVE  /\ Recorded(notes, e) \in Notes
         /\ \A other \in Notes :
              (\A k \in Keys : other[k] <= notes[k]) => \A k \in Keys : Recorded(other, e)[k] <= Recorded(notes, e)[k]
<1>0. e.key \in Keys /\ e.what \in {"on", "off", "all_off"}
  BY DEF Events
<1>1. CASE e.what = "on"
  <2>1. ASSUME NEW n \in Notes PROVE Recorded(n, e) = [n EXCEPT ![e.key] = @ + 1] /\ Recorded(n, e) \in Notes
    BY <1>0, <1>1 DEF Recorded, Notes
  <2>2. ASSUME NEW n \in Notes, NEW k \in Keys PROVE Recorded(n, e)[k] = (IF k = e.key THEN n[k] + 1 ELSE n[k]) /\ n[k] \in Nat
    BY <1>0, <2>1 DEF Notes
  <2> QED BY <2>1, <2>2
<1>2. CASE e.what = "off"
  <2>1. ASSUME NEW n \in Notes
        PROVE  Recorded(n, e) = [n EXCEPT ![e.key] = IF @ = 0 THEN 0 ELSE @ - 1] /\ Recorded(n, e) \in Notes
    BY <1>0, <1>2 DEF Recorded, Notes
  <2>2. ASSUME NEW n \in Notes, NEW k \in Keys
        PROVE  /\ Recorded(n, e)[k] = (IF k = e.key THEN IF n[k] = 0 THEN 0 ELSE n[k] - 1 ELSE n[k])
               /\ n[k] \in Nat
    BY <1>0, <2>1 DEF Notes
  <2> QED BY <2>1, <2>2
<1>3. CASE e.what = "all_off"
  <2>1. \A n \in Notes : Recorded(n, e) = NoNotes
    BY <1>3 DEF Recorded
  <2> QED BY <2>1, NoNotesAre
<1> QED BY <1>0, <1>1, <1>2, <1>3

LEMMA EventIsPlayed ==
  ASSUME NEW notes \in Notes, NEW e \in Events, NEW plugin
  PROVE  /\ Played(plugin, notes, e) \in Notes
         /\ plugin # "cache" => Played(plugin, notes, e) = Recorded(notes, e)
BY EventIsRecorded DEF Played

\* The ledger after some events, as a run of it.
LEMMA LedgerIs ==
  ASSUME NEW r, r.depth \in Notes, NEW events \in Seq(Events)
  PROVE  \E f \in [0 .. Len(events) -> Notes] :
           /\ f[0] = r.depth /\ Ledger(r, events) = f[Len(events)]
           /\ \A n \in 1 .. Len(events) : f[n] = Recorded(f[n - 1], events[n])
<1> DEFINE Solution(f) == f = [n \in 0 .. Len(events) |-> IF n = 0 THEN r.depth ELSE Recorded(f[n - 1], events[n])]
           f == CHOOSE f : Solution(f)
<1>0. Len(events) \in Nat /\ \A n \in 1 .. Len(events) : events[n] \in Events
  OBVIOUS
<1>1. Ledger(r, events) = f[Len(events)]
  BY Zenon DEF Ledger
<1>2. \E g : Solution(g)
  <2>1. PICK turn : turn = [x \in Notes \X Events |-> Recorded(x[1], x[2])]
    OBVIOUS
  <2>2. ASSUME NEW notes \in Notes, NEW e \in Events
        PROVE  turn[<<notes, e>>] = Recorded(notes, e) /\ Recorded(notes, e) \in Notes
    BY <2>1, EventIsRecorded
  <2>3. turn \in [Notes \X Events -> Notes]
    <3>1. \A x \in Notes \X Events : Recorded(x[1], x[2]) \in Notes
      BY EventIsRecorded
    <3> QED BY <2>1, <3>1
  <2>4. PICK g \in [0 .. Len(events) -> Notes] :
          /\ g[0] = r.depth
          /\ \A n \in 1 .. Len(events) : g[n] = turn[<<g[n - 1], events[n]>>]
    <3>1. PICK base : base = r.depth
      OBVIOUS
    <3>2. \E h \in [0 .. Len(events) -> Notes] :
            /\ h[0] = base
            /\ \A n \in 1 .. Len(events) : h[n] = turn[<<h[n - 1], events[n]>>]
      <4>1. base \in Notes /\ events \in Seq(Events)
        BY <3>1
      <4> HIDE DEF f
      <4> QED BY ZenonT(60), <2>3, <4>1, RecursionHasSolution
    <3> QED BY <3>1, <3>2
  <2>5. ASSUME NEW n \in 0 .. Len(events)
        PROVE  g[n] = (IF n = 0 THEN r.depth ELSE Recorded(g[n - 1], events[n]))
    <3>1. CASE n # 0
      <4>1. n - 1 \in 0 .. Len(events) /\ n \in 1 .. Len(events)
        BY <1>0, <3>1
      <4>2. g[n - 1] \in Notes /\ events[n] \in Events
        BY <1>0, <2>4, <4>1
      <4> QED BY <2>2, <2>4, <3>1, <4>1, <4>2
    <3> QED BY <2>4, <3>1
  <2>6. g = [n \in 0 .. Len(events) |-> IF n = 0 THEN r.depth ELSE Recorded(g[n - 1], events[n])]
    BY <2>4, <2>5
  <2> QED BY <2>6
<1>3. Solution(f)
  BY Zenon, <1>2
<1> HIDE DEF f
<1>4. /\ f = [n \in 0 .. Len(events) |-> f[n]] /\ f[0] = r.depth
      /\ \A n \in 1 .. Len(events) : f[n] = Recorded(f[n - 1], events[n])
  <2>1. DOMAIN f = 0 .. Len(events) /\ f[0] = r.depth
    BY <1>0, <1>3
  <2>2. ASSUME NEW n \in 1 .. Len(events) PROVE f[n] = Recorded(f[n - 1], events[n])
    <3>1. n \in 0 .. Len(events) /\ n # 0
      BY <1>0
    <3> QED BY <1>3, <3>1
  <2> QED BY <1>3, <2>1, <2>2
<1>5. ASSUME NEW n \in 0 .. Len(events) PROVE f[n] \in Notes
  <2> DEFINE T == {m \in Nat : m <= Len(events) => f[m] \in Notes}
  <2>1. 0 \in T
    BY <1>4
  <2>2. ASSUME NEW m \in Nat, m \in T PROVE m + 1 \in T
    <3>1. SUFFICES ASSUME m + 1 <= Len(events) PROVE f[m + 1] \in Notes
      BY <2>2
    <3>2. m + 1 \in 1 .. Len(events) /\ (m + 1) - 1 = m /\ f[m] \in Notes
      BY <1>0, <2>2, <3>1
    <3>3. f[m + 1] = Recorded(f[m], events[m + 1])
      BY <1>4, <3>2
    <3> QED BY <1>0, <3>2, <3>3, EventIsRecorded
  <2>3. n \in T
    <3> HIDE DEF T
    <3> QED BY <1>0, <2>1, <2>2, AllNaturals
  <2> QED BY <1>0, <2>3
<1>6. f \in [0 .. Len(events) -> Notes]
  BY <1>4, <1>5
<1> QED BY <1>1, <1>4, <1>6

\* The same of the voices of the plugin.
LEMMA VoicesAre ==
  ASSUME NEW r, r.sounding \in Notes, NEW events \in Seq(Events)
  PROVE  \E f \in [0 .. Len(events) -> Notes] :
           /\ f[0] = r.sounding /\ Voices(r, events) = f[Len(events)]
           /\ \A n \in 1 .. Len(events) : f[n] = Played(r.plugin, f[n - 1], events[n])
<1> DEFINE Solution(f) == f = [n \in 0 .. Len(events) |-> IF n = 0 THEN r.sounding ELSE Played(r.plugin, f[n - 1], events[n])]
           f == CHOOSE f : Solution(f)
<1>0. Len(events) \in Nat /\ \A n \in 1 .. Len(events) : events[n] \in Events
  OBVIOUS
<1>1. Voices(r, events) = f[Len(events)]
  BY Zenon DEF Voices
<1>2. \E g : Solution(g)
  <2>1. PICK turn : turn = [x \in Notes \X Events |-> Played(r.plugin, x[1], x[2])]
    OBVIOUS
  <2>2. ASSUME NEW notes \in Notes, NEW e \in Events
        PROVE  turn[<<notes, e>>] = Played(r.plugin, notes, e) /\ Played(r.plugin, notes, e) \in Notes
    BY <2>1, EventIsPlayed
  <2>3. turn \in [Notes \X Events -> Notes]
    <3>1. \A x \in Notes \X Events : Played(r.plugin, x[1], x[2]) \in Notes
      BY EventIsPlayed
    <3> QED BY <2>1, <3>1
  <2>4. PICK g \in [0 .. Len(events) -> Notes] :
          /\ g[0] = r.sounding
          /\ \A n \in 1 .. Len(events) : g[n] = turn[<<g[n - 1], events[n]>>]
    <3>1. PICK base : base = r.sounding
      OBVIOUS
    <3>2. \E h \in [0 .. Len(events) -> Notes] :
            /\ h[0] = base
            /\ \A n \in 1 .. Len(events) : h[n] = turn[<<h[n - 1], events[n]>>]
      <4>1. base \in Notes /\ events \in Seq(Events)
        BY <3>1
      <4> HIDE DEF f
      <4> QED BY ZenonT(60), <2>3, <4>1, RecursionHasSolution
    <3> QED BY <3>1, <3>2
  <2>5. ASSUME NEW n \in 0 .. Len(events)
        PROVE  g[n] = (IF n = 0 THEN r.sounding ELSE Played(r.plugin, g[n - 1], events[n]))
    <3>1. CASE n # 0
      <4>1. n - 1 \in 0 .. Len(events) /\ n \in 1 .. Len(events)
        BY <1>0, <3>1
      <4>2. g[n - 1] \in Notes /\ events[n] \in Events
        BY <1>0, <2>4, <4>1
      <4> QED BY <2>2, <2>4, <3>1, <4>1, <4>2
    <3> QED BY <2>4, <3>1
  <2>6. g = [n \in 0 .. Len(events) |-> IF n = 0 THEN r.sounding ELSE Played(r.plugin, g[n - 1], events[n])]
    BY <2>4, <2>5
  <2> QED BY <2>6
<1>3. Solution(f)
  BY Zenon, <1>2
<1> HIDE DEF f
<1>4. /\ f = [n \in 0 .. Len(events) |-> f[n]] /\ f[0] = r.sounding
      /\ \A n \in 1 .. Len(events) : f[n] = Played(r.plugin, f[n - 1], events[n])
  <2>1. DOMAIN f = 0 .. Len(events) /\ f[0] = r.sounding
    BY <1>0, <1>3
  <2>2. ASSUME NEW n \in 1 .. Len(events) PROVE f[n] = Played(r.plugin, f[n - 1], events[n])
    <3>1. n \in 0 .. Len(events) /\ n # 0
      BY <1>0
    <3> QED BY <1>3, <3>1
  <2> QED BY <1>3, <2>1, <2>2
<1>5. ASSUME NEW n \in 0 .. Len(events) PROVE f[n] \in Notes
  <2> DEFINE T == {m \in Nat : m <= Len(events) => f[m] \in Notes}
  <2>1. 0 \in T
    BY <1>4
  <2>2. ASSUME NEW m \in Nat, m \in T PROVE m + 1 \in T
    <3>1. SUFFICES ASSUME m + 1 <= Len(events) PROVE f[m + 1] \in Notes
      BY <2>2
    <3>2. m + 1 \in 1 .. Len(events) /\ (m + 1) - 1 = m /\ f[m] \in Notes
      BY <1>0, <2>2, <3>1
    <3>3. f[m + 1] = Played(r.plugin, f[m], events[m + 1])
      BY <1>4, <3>2
    <3> QED BY <1>0, <3>2, <3>3, EventIsPlayed
  <2>3. n \in T
    <3> HIDE DEF T
    <3> QED BY <1>0, <2>1, <2>2, AllNaturals
  <2> QED BY <1>0, <2>3
<1>6. f \in [0 .. Len(events) -> Notes]
  BY <1>4, <1>5
<1> QED BY <1>1, <1>4, <1>6

\* record_message goes along with what the plugin does, as long as it obeys NoteOffs.
LEMMA LedgerCoversVoices ==
  ASSUME NEW r, r.depth \in Notes, r.sounding \in Notes, NEW events \in Seq(Events)
  PROVE  /\ Ledger(r, events) \in Notes /\ Voices(r, events) \in Notes
         /\ r.plugin # "cache" /\ (\A k \in Keys : r.sounding[k] <= r.depth[k])
              => \A k \in Keys : Voices(r, events)[k] <= Ledger(r, events)[k]
<1>0. Len(events) \in Nat /\ Len(events) \in 0 .. Len(events) /\ \A n \in 1 .. Len(events) : events[n] \in Events
  OBVIOUS
<1>1. PICK f \in [0 .. Len(events) -> Notes] :
        /\ f[0] = r.depth /\ Ledger(r, events) = f[Len(events)]
        /\ \A n \in 1 .. Len(events) : f[n] = Recorded(f[n - 1], events[n])
  BY LedgerIs
<1>2. PICK g \in [0 .. Len(events) -> Notes] :
        /\ g[0] = r.sounding /\ Voices(r, events) = g[Len(events)]
        /\ \A n \in 1 .. Len(events) : g[n] = Played(r.plugin, g[n - 1], events[n])
  BY VoicesAre
<1>3. ASSUME r.plugin # "cache", \A k \in Keys : r.sounding[k] <= r.depth[k]
      PROVE  \A k \in Keys : Voices(r, events)[k] <= Ledger(r, events)[k]
  <2> DEFINE T == {m \in Nat : m <= Len(events) => \A k \in Keys : g[m][k] <= f[m][k]}
  <2>1. 0 \in T
    BY <1>1, <1>2, <1>3
  <2>2. ASSUME NEW m \in Nat, m \in T PROVE m + 1 \in T
    <3>1. SUFFICES ASSUME m + 1 <= Len(events) PROVE \A k \in Keys : g[m + 1][k] <= f[m + 1][k]
      BY <2>2
    <3>2. m + 1 \in 1 .. Len(events) /\ (m + 1) - 1 = m /\ m \in 0 .. Len(events)
      BY <1>0, <3>1
    <3>3. f[m] \in Notes /\ g[m] \in Notes /\ events[m + 1] \in Events /\ \A k \in Keys : g[m][k] <= f[m][k]
      BY SMTT(30), <1>0, <1>1, <1>2, <2>2, <3>1, <3>2
    <3>4. f[m + 1] = Recorded(f[m], events[m + 1]) /\ g[m + 1] = Recorded(g[m], events[m + 1])
      BY <1>1, <1>2, <1>3, <3>2, <3>3, EventIsPlayed
    <3> QED BY Zenon, <3>3, <3>4, EventIsRecorded
  <2>3. Len(events) \in T
    <3> HIDE DEF T
    <3> QED BY <1>0, <2>1, <2>2, AllNaturals
  <2> QED BY <1>0, <1>1, <1>2, <2>3
<1> QED BY <1>0, <1>1, <1>2, <1>3

\* The NoteOffs of a ledger are events.
LEMMA NoteOffsAreEvents ==
  ASSUME NEW r, r.depth \in Notes
  PROVE  NoteOffs(r) \in Seq(Events)
<1> DEFINE Each == {{k} \X (1 .. r.depth[k]) : k \in Keys}
           S == UNION Each
           notes == SetToSeq(S)
<1>1. IsFiniteSet(S)
  <2>1. ASSUME NEW k \in Keys PROVE IsFiniteSet({k} \X (1 .. r.depth[k]))
    <3>1. r.depth[k] \in Nat
      BY DEF Notes
    <3>2. IsFiniteSet(1 .. r.depth[k])
      BY <3>1, FS_Interval
    <3>3. IsFiniteSet({k})
      BY FS_Singleton
    <3> QED BY <3>2, <3>3, FS_Product
  <2>2. IsFiniteSet(Each)
    <3>1. PICK f : f = [k \in Keys |-> {k} \X (1 .. r.depth[k])]
      OBVIOUS
    <3>2. f \in Surjection(Keys, Each)
      BY <3>1 DEF Surjection
    <3> HIDE DEF Each
    <3> QED BY <3>2, InstanceAssumption, FS_Surjection
  <2>3. \A T \in Each : IsFiniteSet(T)
    BY <2>1
  <2> HIDE DEF Each
  <2> QED BY <2>2, <2>3, FS_UNION
<1>2. \A x \in S : x[1] \in Keys
  OBVIOUS
<1>3. NoteOffs(r) = [n \in 1 .. Len(notes) |-> [key |-> notes[n][1], what |-> "off"]]
  BY DEF NoteOffs
<1> HIDE DEF S, notes
<1>4. Cardinality(S) \in Nat /\ notes \in [1 .. Cardinality(S) -> S]
  <2>1. Cardinality(S) \in Nat /\ ExistsBijection(1 .. Cardinality(S), S)
    BY <1>1, FS_CardinalityType
  <2>2. PICK f \in [1 .. Cardinality(S) -> S] : IsInjective(f)
    BY <2>1 DEF ExistsBijection, Bijection, Injection
  <2>3. notes = CHOOSE g \in [1 .. Cardinality(S) -> S] : IsInjective(g)
    BY DEF notes, SetToSeq
  <2> QED BY Zenon, <2>1, <2>2, <2>3
<1>5. notes \in Seq(S) /\ Len(notes) \in Nat
  BY <1>4
<1>6. \A n \in 1 .. Len(notes) : [key |-> notes[n][1], what |-> "off"] \in Events
  BY <1>2, <1>5 DEF Events
<1> QED BY <1>3, <1>5, <1>6

(***************************************************************************)
(* A renderer                                                              *)
(***************************************************************************)
Renderer ==
  [plugin : PatchTargets, current : Requested, program : Requested \union {Unknown},
   running : BOOLEAN, depth : Notes, release : BOOLEAN, actual : Requested \union {Unknown},
   sounding : Notes, crashed : BOOLEAN, spoilt : BOOLEAN, lost : BOOLEAN]

Known(r) == KeepsVoices(r) \/ r.lost \/ \A k \in Keys : r.sounding[k] <= r.depth[k]

\* What holds of a renderer whatever is done to it.
Good(r) ==
  /\ r \in Renderer
  /\ Known(r)
  /\ ~r.spoilt => r.actual = r.current
  /\ r.program \in {Unknown, r.actual}

\* What no call but a load changes.
SamePatch(r, x) ==
  /\ x.plugin = r.plugin /\ x.current = r.current /\ x.program = r.program
  /\ x.actual = r.actual /\ x.spoilt = r.spoilt


\* The fields of a renderer a call gives other values.
LEMMA FieldsAre ==
  ASSUME NEW r \in Renderer
  PROVE  /\ r.plugin \in PatchTargets /\ r.current \in Requested /\ r.program \in Requested \union {Unknown}
         /\ r.running \in BOOLEAN /\ r.depth \in Notes /\ r.release \in BOOLEAN
         /\ r.actual \in Requested \union {Unknown} /\ r.sounding \in Notes
         /\ r.crashed \in BOOLEAN /\ r.spoilt \in BOOLEAN /\ r.lost \in BOOLEAN
BY DEF Renderer

LEMMA ReleaseIsTaken ==
  ASSUME NEW r, Good(r), NEW b \in BOOLEAN
  PROVE  Good([r EXCEPT !.release = b]) /\ SamePatch(r, [r EXCEPT !.release = b])
BY DEF Good, SamePatch, Renderer, Known, KeepsVoices

LEMMA CrashIsGood ==
  ASSUME NEW r, Good(r)
  PROVE  Good([r EXCEPT !.crashed = TRUE]) /\ SamePatch(r, [r EXCEPT !.crashed = TRUE])
BY DEF Good, SamePatch, Renderer, Known, KeepsVoices

LEMMA NotesAreGood ==
  ASSUME NEW r, Good(r), NEW s \in Notes, NEW d \in Notes,
         KeepsVoices(r) \/ r.lost \/ \A k \in Keys : s[k] <= d[k]
  PROVE  Good([r EXCEPT !.sounding = s, !.depth = d]) /\ SamePatch(r, [r EXCEPT !.sounding = s, !.depth = d])
<1>1. PICK x : x = [r EXCEPT !.sounding = s, !.depth = d]
  OBVIOUS
<1>2. x \in Renderer /\ x.sounding = s /\ x.depth = d /\ x.lost = r.lost /\ SamePatch(r, x)
  BY <1>1 DEF Good, Renderer, SamePatch
<1>3. Known(x)
  BY <1>2 DEF Known, KeepsVoices, SamePatch
<1>4. Good(x)
  BY <1>2, <1>3 DEF Good, SamePatch
<1> QED BY <1>1, <1>2, <1>4

LEMMA SilencedIsGood ==
  ASSUME NEW r, Good(r)
  PROVE  Good(Silenced(r)) /\ SamePatch(r, Silenced(r))
<1>1. PICK x : x = Silenced(r)
  OBVIOUS
<1>2. x \in Renderer /\ x.sounding = NoNotes /\ x.depth = NoNotes /\ SamePatch(r, x)
  BY <1>1, NoNotesAre DEF Good, Renderer, SamePatch, Silenced
<1>3. Known(x)
  BY <1>2, NoNotesAre DEF Known
<1>4. Good(x)
  BY <1>2, <1>3 DEF Good, SamePatch
<1> QED BY <1>1, <1>2, <1>4

\* What the events of a block leave.
LEMMA GivenIsGood ==
  ASSUME NEW r, Good(r), NEW events \in Seq(Events)
  PROVE  Good(GivenEvents(r, events)) /\ SamePatch(r, GivenEvents(r, events))
<1>1. r.depth \in Notes /\ r.sounding \in Notes
  BY FieldsAre DEF Good
<1>2. /\ Ledger(r, events) \in Notes /\ Voices(r, events) \in Notes
      /\ r.plugin # "cache" /\ (\A k \in Keys : r.sounding[k] <= r.depth[k])
           => \A k \in Keys : Voices(r, events)[k] <= Ledger(r, events)[k]
  BY <1>1, LedgerCoversVoices
<1>3. KeepsVoices(r) \/ r.lost \/ \A k \in Keys : Voices(r, events)[k] <= Ledger(r, events)[k]
  BY Zenon, <1>2 DEF Good, Known, KeepsVoices
<1>4. GivenEvents(r, events) = [r EXCEPT !.sounding = Voices(r, events), !.depth = Ledger(r, events)]
  BY Zenon DEF GivenEvents
<1>5. PICK d : d = Ledger(r, events)
  OBVIOUS
<1>6. PICK v : v = Voices(r, events)
  OBVIOUS
<1>7. Good([r EXCEPT !.sounding = v, !.depth = d]) /\ SamePatch(r, [r EXCEPT !.sounding = v, !.depth = d])
  <2>1. d \in Notes /\ v \in Notes /\ (KeepsVoices(r) \/ r.lost \/ \A k \in Keys : v[k] <= d[k])
    BY Zenon, <1>2, <1>3, <1>5, <1>6
  <2> QED BY Zenon, <2>1, NotesAreGood
<1> QED BY Zenon, <1>4, <1>5, <1>6, <1>7

LEMMA SamePatchIsTransitive ==
  ASSUME NEW r, NEW x, NEW y, SamePatch(r, x), SamePatch(x, y)
  PROVE  SamePatch(r, y)
BY Zenon DEF SamePatch

LEMMA BlocksAreGood ==
  ASSUME NEW r, Good(r), NEW events \in Seq(Events), NEW b \in Blocks(r, events)
  PROVE  Good(b.r) /\ SamePatch(r, b.r)
<1>1. PICK given : given = GivenEvents(r, events)
  OBVIOUS
<1>2. PICK crashed : crashed = [r EXCEPT !.crashed = TRUE]
  OBVIOUS
<1>3. b \in {[r |-> given, ok |-> TRUE], [r |-> r, ok |-> FALSE], [r |-> crashed, ok |-> FALSE]}
  BY Zenon, <1>1, <1>2 DEF Blocks
<1>4. b.r \in {given, r, crashed}
  BY <1>3
<1>5. Good(given) /\ SamePatch(r, given) /\ Good(crashed) /\ SamePatch(r, crashed)
  BY Zenon, <1>1, <1>2, GivenIsGood, CrashIsGood
<1>6. SamePatch(r, r)
  BY Zenon DEF SamePatch
<1> QED BY Zenon, <1>4, <1>5, <1>6

\* Two blocks' events together.
LEMMA WithReleaseAreEvents ==
  ASSUME NEW r, r.depth \in Notes, NEW events \in Seq(Events)
  PROVE  WithRelease(r, events) \in Seq(Events)
<1>1. PICK offs \in Seq(Events) : offs = NoteOffs(r)
  BY NoteOffsAreEvents
<1>2. offs \o events \in Seq(Events)
  OBVIOUS
<1> QED BY Zenon, <1>1, <1>2 DEF WithRelease

LEMMA LiveBlockIsGood ==
  ASSUME NEW r, Good(r), NEW events \in Seq(Events), NEW b \in LiveBlock(r, events)
  PROVE  Good(b.r) /\ SamePatch(r, b.r)
<1>1. PICK quiet : quiet = [r EXCEPT !.release = FALSE]
  OBVIOUS
<1>2. PICK given : given = WithRelease(r, events)
  OBVIOUS
<1>3. r.depth \in Notes
  BY FieldsAre DEF Good
<1>4. Good(quiet) /\ SamePatch(r, quiet) /\ given \in Seq(Events)
  BY Zenon, <1>1, <1>2, <1>3, ReleaseIsTaken, WithReleaseAreEvents
<1>5. b \in Blocks(quiet, given)
  BY Zenon, <1>1, <1>2 DEF LiveBlock
<1>6. Good(b.r) /\ SamePatch(quiet, b.r)
  BY Zenon, <1>4, <1>5, BlocksAreGood
<1> QED BY Zenon, <1>4, <1>6, SamePatchIsTransitive

LEMMA ReleasedNowIsGood ==
  ASSUME NEW r, Good(r), NEW x \in ReleasedNow(r)
  PROVE  Good(x) /\ SamePatch(r, x)
<1>1. PICK quiet : quiet = [r EXCEPT !.release = FALSE]
  OBVIOUS
<1>2. Good(quiet) /\ SamePatch(r, quiet)
  BY Zenon, <1>1, ReleaseIsTaken
<1>3. PICK offs \in Seq(Events) : offs = NoteOffs(r)
  BY FieldsAre, NoteOffsAreEvents DEF Good
<1>4. x = quiet \/ x = Silenced(r) \/ \E b \in Blocks(quiet, offs) : x = b.r
  BY Zenon, <1>1, <1>3 DEF ReleasedNow
<1>5. CASE x = quiet
  BY Zenon, <1>2, <1>5
<1>6. CASE x = Silenced(r)
  BY Zenon, <1>6, SilencedIsGood
<1>7. CASE \E b \in Blocks(quiet, offs) : x = b.r
  <2>1. PICK b \in Blocks(quiet, offs) : x = b.r
    BY <1>7
  <2>2. Good(b.r) /\ SamePatch(quiet, b.r)
    BY Zenon, <1>2, BlocksAreGood
  <2> QED BY Zenon, <1>2, <2>1, <2>2, SamePatchIsTransitive
<1> QED BY Zenon, <1>4, <1>5, <1>6, <1>7

LEMMA ReleasedNextIsGood ==
  ASSUME NEW r, Good(r), NEW x \in ReleasedNext(r)
  PROVE  Good(x) /\ SamePatch(r, x)
<1>1. CASE x \in ReleasedNow(r)
  BY Zenon, <1>1, ReleasedNowIsGood
<1>2. CASE x = [r EXCEPT !.release = @ \/ r.running]
  <2>1. PICK rel \in BOOLEAN : rel = (r.release \/ r.running)
    BY Zenon
  <2>2. x = [r EXCEPT !.release = rel]
    BY Zenon, <1>2, <2>1
  <2> QED BY Zenon, <2>2, ReleaseIsTaken
<1> QED BY Zenon, <1>1, <1>2 DEF ReleasedNext

\* A reset: the ledger is emptied, and what was in it is known to be lost.
LEMMA WasResetIsGood ==
  ASSUME NEW r, Good(r), NEW y \in WasReset(r)
  PROVE  Good(y) /\ SamePatch(r, y)
<1>1. PICK x \in ReleasedNow(r) : y = [x EXCEPT !.depth = NoNotes, !.lost = @ \/ x.depth # NoNotes]
  BY Zenon DEF WasReset
<1>2. Good(x) /\ SamePatch(r, x)
  BY Zenon, ReleasedNowIsGood
<1>3. PICK lost \in BOOLEAN : lost = (x.lost \/ x.depth # NoNotes)
  BY Zenon
<1>4. y = [x EXCEPT !.depth = NoNotes, !.lost = lost]
  BY Zenon, <1>1, <1>3
<1>5. y \in Renderer /\ y.depth = NoNotes /\ y.sounding = x.sounding /\ SamePatch(x, y)
  BY <1>2, <1>4, NoNotesAre DEF Good, Renderer, SamePatch
<1>6. y.lost = lost
  BY <1>2, <1>4 DEF Good, Renderer
<1>7. Known(y)
  <2>1. CASE x.lost \/ x.depth # NoNotes
    BY Zenon, <1>3, <1>6, <2>1 DEF Known
  <2>2. CASE ~x.lost /\ x.depth = NoNotes
    <3>1. KeepsVoices(x) \/ \A k \in Keys : x.sounding[k] <= x.depth[k]
      BY Zenon, <1>2, <2>2 DEF Good, Known
    <3>2. x.plugin = y.plugin
      BY Zenon, <1>5 DEF SamePatch
    <3> QED BY Zenon, <1>5, <2>2, <3>1, <3>2 DEF Known, KeepsVoices
  <2> QED BY Zenon, <2>1, <2>2
<1>8. Good(y)
  BY Zenon, <1>2, <1>5, <1>7 DEF Good, SamePatch
<1> QED BY Zenon, <1>2, <1>5, <1>8, SamePatchIsTransitive

LEMMA FreshIsGood ==
  ASSUME NEW plugin \in PatchTargets
  PROVE  Good(Fresh(plugin)) /\ Fresh(plugin).plugin = plugin
<1>1. PICK x : x = Fresh(plugin)
  OBVIOUS
<1>2. x \in Renderer
  BY <1>1, NoNotesAre, InstanceAssumption DEF Fresh, Renderer, Requested
<1>3. /\ x.sounding = NoNotes /\ x.depth = NoNotes /\ x.actual = InitPatch /\ x.current = InitPatch
      /\ x.program = Unknown /\ x.plugin = plugin
  BY <1>1 DEF Fresh
<1>4. Known(x)
  BY <1>3, NoNotesAre DEF Known
<1>5. Good(x)
  BY Zenon, <1>2, <1>3, <1>4 DEF Good
<1> QED BY Zenon, <1>1, <1>3, <1>5

(***************************************************************************)
(* A load                                                                  *)
(***************************************************************************)
\* What a load of a patch may leave, and whether it says it succeeded.
LoadLeaves(patch, s) == Good(s.r) /\ (s.ok => s.r.current = patch)

LEMMA ForgottenIsGood ==
  ASSUME NEW r, Good(r)
  PROVE  Good(Forgotten(r)) /\ Forgotten(r).program = Unknown
BY DEF Good, Renderer, Known, KeepsVoices, Forgotten

LEMMA UntouchedIsGood ==
  ASSUME NEW r, Good(r), NEW patch
  PROVE  LoadLeaves(patch, Untouched(r))
<1>1. Untouched(r).r = r
  BY DEF Untouched
<1>2. ~Untouched(r).ok
  BY DEF Untouched
<1> QED BY Zenon, <1>1, <1>2 DEF LoadLeaves

LEMMA DoneIsGood ==
  ASSUME NEW r, Good(r), NEW patch \in Requested, r.program \in {Unknown, patch}
  PROVE  LoadLeaves(patch, Done(r, patch))
<1>1. PICK x : x = [r EXCEPT !.actual = patch, !.current = patch, !.spoilt = FALSE]
  OBVIOUS
<1>2. /\ x \in Renderer /\ x.actual = patch /\ x.current = patch /\ x.program = r.program
      /\ x.plugin = r.plugin /\ x.lost = r.lost /\ x.sounding = r.sounding /\ x.depth = r.depth
  BY <1>1 DEF Good, Renderer
<1>3. Known(x)
  BY Zenon, <1>2 DEF Good, Known, KeepsVoices
<1>4. Good(x)
  BY Zenon, <1>2, <1>3 DEF Good
<1>5. Done(r, patch).r = x
  BY <1>1 DEF Done
<1> QED BY Zenon, <1>2, <1>4, <1>5 DEF LoadLeaves

LEMMA SpoiltIsGood ==
  ASSUME NEW r, Good(r), NEW patch, NEW actual \in Requested \union {Unknown}, r.program \in {Unknown, actual}
  PROVE  LoadLeaves(patch, Spoilt(r, actual))
<1>1. PICK x : x = [r EXCEPT !.actual = actual, !.spoilt = TRUE]
  OBVIOUS
<1>2. /\ x \in Renderer /\ x.actual = actual /\ x.program = r.program
      /\ x.plugin = r.plugin /\ x.lost = r.lost /\ x.sounding = r.sounding /\ x.depth = r.depth
  BY <1>1 DEF Good, Renderer
<1>3. Known(x)
  BY Zenon, <1>2 DEF Good, Known, KeepsVoices
<1>4. x.spoilt = TRUE
  BY <1>1 DEF Good, Renderer
<1>5. Good(x)
  BY Zenon, <1>2, <1>3, <1>4 DEF Good
<1>6. Spoilt(r, actual).r = x
  BY <1>1 DEF Spoilt
<1>7. ~Spoilt(r, actual).ok
  BY DEF Spoilt
<1> QED BY Zenon, <1>5, <1>6, <1>7 DEF LoadLeaves

\* The loads that set the plugin's state.
LEMMA StateLoadsAreGood ==
  ASSUME NEW r, Good(r), r.program = Unknown, NEW patch \in Requested
  PROVE  \A s \in LoadState(r, patch) \union LoadApplied(r, patch) \union LoadPending(r, patch) : LoadLeaves(patch, s)
<1>1. patch \in Requested \union {Unknown} /\ Unknown \in Requested \union {Unknown}
  OBVIOUS
<1>2. r.program \in {Unknown, patch} /\ r.program \in {Unknown, Unknown}
  OBVIOUS
<1>3. LoadLeaves(patch, Untouched(r)) /\ LoadLeaves(patch, Spoilt(r, Unknown))
  BY Zenon, <1>1, <1>2, UntouchedIsGood, SpoiltIsGood
<1>4. LoadLeaves(patch, Spoilt(r, patch)) /\ LoadLeaves(patch, Done(r, patch))
  BY Zenon, <1>1, <1>2, DoneIsGood, SpoiltIsGood
<1> QED BY Zenon, <1>3, <1>4 DEF LoadState, LoadApplied, LoadPending, Refused

LEMMA CartridgeLoadsAreGood ==
  ASSUME NEW r, Good(r), NEW patch \in Requested, NEW s \in LoadCartridge(r, patch)
  PROVE  LoadLeaves(patch, s)
<1>0. Unknown \notin Requested
  BY InstanceAssumption DEF Requested
<1>1. CASE r.program = patch
  <2>1. PICK x : x = [r EXCEPT !.current = patch, !.spoilt = FALSE]
    OBVIOUS
  <2>2. s = [r |-> x, ok |-> TRUE]
    BY Zenon, <1>1, <2>1 DEF LoadCartridge
  <2>3. r.actual = patch
    BY <1>0, <1>1 DEF Good
  <2>4. /\ x \in Renderer /\ x.actual = r.actual /\ x.current = patch /\ x.program = r.program
        /\ x.plugin = r.plugin /\ x.lost = r.lost /\ x.sounding = r.sounding /\ x.depth = r.depth
    BY <2>1 DEF Good, Renderer
  <2>5. Known(x)
    BY Zenon, <2>4 DEF Good, Known, KeepsVoices
  <2>6. Good(x)
    BY Zenon, <2>3, <2>4, <2>5 DEF Good
  <2>7. s.r = x
    BY <2>2
  <2> QED BY Zenon, <2>4, <2>6, <2>7 DEF LoadLeaves
<1>2. CASE r.program # patch
  <2>1. PICK x \in ReleasedNow(r) :
          LET sent == [x EXCEPT !.program = patch]
          IN s \in {Untouched(Forgotten(x)), Spoilt(sent, patch), Done(sent, patch)}
    BY Zenon, <1>2 DEF LoadCartridge
  <2>2. Good(x)
    BY Zenon, ReleasedNowIsGood
  <2>3. CASE s = Untouched(Forgotten(x))
    BY Zenon, <2>2, <2>3, ForgottenIsGood, UntouchedIsGood
  <2>4. CASE s \in {Spoilt([x EXCEPT !.program = patch], patch), Done([x EXCEPT !.program = patch], patch)}
    <3>1. PICK y : y = [x EXCEPT !.actual = patch, !.spoilt = TRUE, !.program = patch]
      OBVIOUS
    <3>2. Good(y) /\ y.program = patch
      <4>1. /\ y \in Renderer /\ y.actual = patch /\ y.program = patch /\ y.plugin = x.plugin
            /\ y.lost = x.lost /\ y.sounding = x.sounding /\ y.depth = x.depth
        BY <2>2, <3>1 DEF Good, Renderer
      <4>2. y.spoilt = TRUE
        BY <2>2, <3>1 DEF Good, Renderer
      <4>3. Known(y)
        BY Zenon, <2>2, <4>1 DEF Good, Known, KeepsVoices
      <4> QED BY Zenon, <4>1, <4>2, <4>3 DEF Good
    <3>3. patch \in Requested \union {Unknown} /\ y.program \in {Unknown, patch}
      BY <3>2
    <3>4. LoadLeaves(patch, Spoilt(y, patch)) /\ LoadLeaves(patch, Done(y, patch))
      BY Zenon, <3>2, <3>3, DoneIsGood, SpoiltIsGood
    <3>5. /\ Spoilt([x EXCEPT !.program = patch], patch) = Spoilt(y, patch)
          /\ Done([x EXCEPT !.program = patch], patch) = Done(y, patch)
      BY <2>2, <3>1 DEF Good, Renderer, Spoilt, Done
    <3> QED BY Zenon, <2>4, <3>4, <3>5
  <2> QED BY Zenon, <2>1, <2>3, <2>4
<1> QED BY Zenon, <1>1, <1>2

LEMMA SfzLoadsAreGood ==
  ASSUME NEW r, Good(r), r.program = Unknown, NEW patch \in Requested, NEW s \in LoadSfz(r, patch)
  PROVE  LoadLeaves(patch, s)
<1> DEFINE loads == {Spoilt(r, Unknown), Spoilt(r, InitPatch), Done(r, patch)}
<1>1. /\ patch \in Requested \union {Unknown} /\ Unknown \in Requested \union {Unknown}
      /\ InitPatch \in Requested \union {Unknown}
  BY DEF Requested
<1>2. r.program \in {Unknown, patch} /\ r.program \in {Unknown, Unknown} /\ r.program \in {Unknown, InitPatch}
  OBVIOUS
<1>3. ASSUME NEW e \in loads PROVE LoadLeaves(patch, e) /\ e.r.actual \in Requested \union {Unknown}
  <2>1. LoadLeaves(patch, e)
    BY Zenon, <1>1, <1>2, DoneIsGood, SpoiltIsGood
  <2>2. e.r \in Renderer
    BY Zenon, <2>1 DEF LoadLeaves, Good
  <2> QED BY Zenon, <2>1, <2>2, FieldsAre
<1>4. CASE s \in loads \/ s = Untouched(r)
  BY Zenon, <1>3, <1>4, UntouchedIsGood
<1>5. CASE \E e \in loads : s = Spoilt([r EXCEPT !.running = FALSE], e.r.actual)
  <2>1. PICK e \in loads : s = Spoilt([r EXCEPT !.running = FALSE], e.r.actual)
    BY <1>5
  <2>2. PICK actual \in Requested \union {Unknown} : actual = e.r.actual
    BY Zenon, <1>3
  <2>3. PICK x : x = [r EXCEPT !.running = FALSE]
    OBVIOUS
  <2>4. Good(x) /\ x.program = Unknown
    BY <2>3 DEF Good, Renderer, Known, KeepsVoices
  <2>5. x.program \in {Unknown, actual}
    BY <2>4
  <2>6. LoadLeaves(patch, Spoilt(x, actual))
    BY Zenon, <2>4, <2>5, SpoiltIsGood
  <2> QED BY Zenon, <2>1, <2>2, <2>3, <2>6
<1> QED BY Zenon, <1>4, <1>5 DEF LoadSfz

\* set_patch
LEMMA SetPatchIsGood ==
  ASSUME NEW r, Good(r), NEW patch \in Requested, NEW s \in SetPatch(r, patch)
  PROVE  LoadLeaves(patch, s)
<1>1. CASE r.current = patch /\ ~ReloadsOnSamePatch(patch)
  <2>1. s = [r |-> r, ok |-> TRUE]
    BY Zenon, <1>1 DEF SetPatch
  <2>2. s.r = r
    BY <2>1
  <2> QED BY Zenon, <1>1, <2>2 DEF LoadLeaves
<1>2. CASE s \in LoadCartridge(r, patch)
  BY Zenon, <1>2, CartridgeLoadsAreGood
<1>3. CASE s \in LoadOther(Forgotten(r), patch)
  <2>1. PICK x : x = Forgotten(r)
    OBVIOUS
  <2>2. Good(x) /\ x.program = Unknown
    BY Zenon, <2>1, ForgottenIsGood
  <2>3. s \in LoadState(x, patch) \union LoadApplied(x, patch) \union LoadPending(x, patch) \union LoadSfz(x, patch)
    <3>1. s \in LoadOther(x, patch)
      BY Zenon, <1>3, <2>1
    <3> QED BY Zenon, <3>1 DEF LoadOther
  <2> QED BY Zenon, <2>2, <2>3, StateLoadsAreGood, SfzLoadsAreGood
<1> QED BY Zenon, <1>1, <1>2, <1>3 DEF SetPatch

LEMMA SwitchIsGood ==
  ASSUME NEW r, Good(r), NEW patch \in Requested, NEW before, NEW settle, NEW s \in SwitchPatch(r, patch, before, settle)
  PROVE  LoadLeaves(patch, s)
<1>1. PICK x, t : /\ x \in WasReset(r) \/ x = r
                  /\ t \in SetPatch(x, patch)
                  /\ s = t \/ (t.ok /\ s \in LiveBlock(t.r, <<>>))
  BY Zenon DEF SwitchPatch
<1>2. Good(x)
  BY Zenon, <1>1, WasResetIsGood
<1>3. LoadLeaves(patch, t)
  BY Zenon, <1>1, <1>2, SetPatchIsGood
<1>4. CASE t.ok /\ s \in LiveBlock(t.r, <<>>)
  <2>1. <<>> \in Seq(Events)
    OBVIOUS
  <2>2. Good(t.r) /\ t.r.current = patch
    BY Zenon, <1>3, <1>4 DEF LoadLeaves
  <2>3. Good(s.r) /\ SamePatch(t.r, s.r)
    BY Zenon, <1>4, <2>1, <2>2, LiveBlockIsGood
  <2> QED BY Zenon, <2>2, <2>3 DEF LoadLeaves, SamePatch
<1> QED BY Zenon, <1>1, <1>3, <1>4

\* A probe keeps the patch, and says so when it lost the two notes it played.
LEMMA ProbeIsGood ==
  ASSUME NEW r, Good(r), NEW s \in ProbeVoicing(r)
  PROVE  Good(s.r)
<1>1. CASE s \in Blocks(r, <<>>)
  <2>1. <<>> \in Seq(Events)
    OBVIOUS
  <2> QED BY Zenon, <1>1, <2>1, BlocksAreGood
<1>2. CASE s = Untouched(r)
  <2>1. s.r = r
    BY <1>2 DEF Untouched
  <2> QED BY Zenon, <2>1
<1>3. CASE \E x \in WasReset(r) : s = [r |-> x, ok |-> TRUE]
  <2>1. PICK x \in WasReset(r) : s = [r |-> x, ok |-> TRUE]
    BY <1>3
  <2>2. s.r = x
    BY <2>1
  <2> QED BY Zenon, <2>2, WasResetIsGood
<1>4. CASE \E x \in WasReset(r) : s = [r |-> [x EXCEPT !.sounding = [k \in Keys |-> @[k] + 1], !.lost = TRUE], ok |-> FALSE]
  <2>1. PICK x \in WasReset(r) :
          s = [r |-> [x EXCEPT !.sounding = [k \in Keys |-> @[k] + 1], !.lost = TRUE], ok |-> FALSE]
    BY <1>4
  <2>2. Good(x)
    BY Zenon, WasResetIsGood
  <2>3. x \in Renderer /\ x.sounding \in Notes
    BY <2>2, FieldsAre DEF Good
  <2>4. PICK notes \in Notes : notes = [k \in Keys |-> x.sounding[k] + 1]
    <3>1. \A k \in Keys : x.sounding[k] + 1 \in Nat
      BY <2>3 DEF Notes
    <3> QED BY <3>1 DEF Notes
  <2>5. PICK y : y = [x EXCEPT !.sounding = notes, !.lost = TRUE]
    OBVIOUS
  <2>6. s.r = y
    BY <2>1, <2>3, <2>4, <2>5 DEF Renderer
  <2>7. /\ y \in Renderer /\ y.spoilt = x.spoilt /\ y.actual = x.actual
        /\ y.current = x.current /\ y.program = x.program
    BY <2>3, <2>5 DEF Renderer
  <2>8. y.lost = TRUE
    BY <2>3, <2>5 DEF Renderer
  <2>9. Good(y)
    BY Zenon, <2>2, <2>7, <2>8 DEF Good, Known
  <2> QED BY Zenon, <2>6, <2>9
<1> QED BY Zenon, <1>1, <1>2, <1>3, <1>4 DEF ProbeVoicing

GoodRenderers == {r \in Renderer : Good(r)}

LEMMA GoodOnesAre == \A r : r \in GoodRenderers <=> Good(r)
BY Zenon DEF GoodRenderers, Good

\* An exchange with the shelf.
LEMMA SlottedIsGood ==
  ASSUME NEW i \in Instances, renderers \in [Instances -> GoodRenderers], shelf \in [PatchTargets -> GoodRenderers],
         NEW patch \in Requested, NEW s \in Slotted(i, patch)
  PROVE  Good(s.r) /\ s.shelf \in [PatchTargets -> GoodRenderers]
<1>1. PICK old : old = renderers[i]
  OBVIOUS
<1>2. PICK plugin : plugin = PluginOf(patch)
  OBVIOUS
<1>3. Good(old) /\ plugin \in PatchTargets /\ old.plugin \in PatchTargets
  <2>1. old \in GoodRenderers
    BY <1>1
  <2>2. plugin \in PatchTargets
    BY <1>2, InstanceAssumption DEF PluginOf, Requested
  <2> QED BY <2>1, <2>2, FieldsAre, GoodOnesAre DEF Good
<1>4. CASE s \in {[r |-> old, shelf |-> shelf, ok |-> TRUE], [r |-> old, shelf |-> shelf, ok |-> FALSE]}
  <2>1. s.r = old /\ s.shelf = shelf
    BY <1>4
  <2> QED BY Zenon, <1>3, <2>1
<1>5. CASE \E spare \in {Fresh(plugin), shelf[plugin]}, x \in WasReset(old) :
             s = [r |-> spare, shelf |-> [shelf EXCEPT ![old.plugin] = x], ok |-> TRUE]
  <2>1. PICK spare \in {Fresh(plugin), shelf[plugin]}, x \in WasReset(old) :
             s = [r |-> spare, shelf |-> [shelf EXCEPT ![old.plugin] = x], ok |-> TRUE]
    BY <1>5
  <2>2. PICK sh : sh = [shelf EXCEPT ![old.plugin] = x]
    OBVIOUS
  <2>3. s.r = spare /\ s.shelf = sh
    BY <2>1, <2>2
  <2>4. x \in GoodRenderers
    BY Zenon, <1>3, WasResetIsGood, GoodOnesAre
  <2>5. sh \in [PatchTargets -> GoodRenderers]
    BY <1>3, <2>2, <2>4
  <2>6. shelf[plugin] \in GoodRenderers
    BY <1>3
  <2>7. Good(spare)
    BY Zenon, <1>3, <2>6, FreshIsGood, GoodOnesAre
  <2> QED BY Zenon, <2>3, <2>5, <2>7
<1>6. \/ s \in {[r |-> renderers[i], shelf |-> shelf, ok |-> TRUE], [r |-> renderers[i], shelf |-> shelf, ok |-> FALSE]}
      \/ \E spare \in {Fresh(PluginOf(patch)), shelf[PluginOf(patch)]}, x \in WasReset(renderers[i]) :
           s = [r |-> spare, shelf |-> [shelf EXCEPT ![renderers[i].plugin] = x], ok |-> TRUE]
  BY SMTT(30) DEF Slotted
<1> QED BY <1>1, <1>2, <1>4, <1>5, <1>6

LEMMA LoadIsGood ==
  ASSUME NEW i \in Instances, renderers \in [Instances -> GoodRenderers], shelf \in [PatchTargets -> GoodRenderers],
         NEW patch \in Requested, NEW before, NEW settle, NEW s \in LoadPatch(i, patch, before, settle)
  PROVE  Good(s.r) /\ s.shelf \in [PatchTargets -> GoodRenderers] /\ (s.ok => s.r.current = patch)
<1>1. PICK t \in Slotted(i, patch) :
        IF t.ok THEN \E x \in SwitchPatch(t.r, patch, before, settle) : s = [r |-> x.r, shelf |-> t.shelf, ok |-> x.ok]
        ELSE s = t
  BY Zenon DEF LoadPatch
<1>2. Good(t.r) /\ t.shelf \in [PatchTargets -> GoodRenderers]
  BY Zenon, SlottedIsGood
<1>3. CASE t.ok
  <2>1. PICK x \in SwitchPatch(t.r, patch, before, settle) : s = [r |-> x.r, shelf |-> t.shelf, ok |-> x.ok]
    BY Zenon, <1>1, <1>3
  <2>2. LoadLeaves(patch, x)
    BY Zenon, <1>2, SwitchIsGood
  <2>3. s.r = x.r /\ s.shelf = t.shelf /\ s.ok = x.ok
    BY <2>1
  <2> QED BY Zenon, <1>2, <2>2, <2>3 DEF LoadLeaves
<1>4. CASE ~t.ok
  BY Zenon, <1>1, <1>2, <1>4
<1> QED BY Zenon, <1>3, <1>4

LEMMA ProbedIsGood ==
  ASSUME NEW i \in Instances, renderers \in [Instances -> GoodRenderers], shelf \in [PatchTargets -> GoodRenderers],
         NEW patch \in Requested, NEW s \in ProbedPatch(i, patch)
  PROVE  Good(s.r) /\ s.shelf \in [PatchTargets -> GoodRenderers]
<1>1. PICK t \in LoadPatch(i, patch, TRUE, FALSE) :
        IF t.ok THEN \E x \in ProbeVoicing(t.r) : s = [r |-> x.r, shelf |-> t.shelf, ok |-> x.ok]
        ELSE s = t
  BY Zenon DEF ProbedPatch
<1>2. Good(t.r) /\ t.shelf \in [PatchTargets -> GoodRenderers]
  BY Zenon, LoadIsGood
<1>3. CASE t.ok
  <2>1. PICK x \in ProbeVoicing(t.r) : s = [r |-> x.r, shelf |-> t.shelf, ok |-> x.ok]
    BY Zenon, <1>1, <1>3
  <2>2. Good(x.r)
    BY Zenon, <1>2, ProbeIsGood
  <2>3. s.r = x.r /\ s.shelf = t.shelf
    BY <2>1
  <2> QED BY Zenon, <1>2, <2>2, <2>3
<1>4. CASE ~t.ok
  BY Zenon, <1>1, <1>2, <1>4
<1> QED BY Zenon, <1>3, <1>4

(***************************************************************************)
(* A fade and the line behind it                                           *)
(***************************************************************************)
Fade == [remaining : Nat, silenced : BOOLEAN, newLine : BOOLEAN, held : Seq(Events), released : BOOLEAN]

Muted(f) == Fading(f) \/ f.silenced

\* A muted instance has passed nothing of the line l, which is a new one as soon as it
\* is told so, and holds what is due of it; e is the line its last fadeout ended.
LineIs(f, l, e, d, p) ==
  /\ e <= l
  /\ Muted(f) => /\ e # 0 /\ p = <<>> /\ d = Held(f)
                 /\ IF f.newLine THEN l > e ELSE l = e /\ d = <<>>
  /\ ~Muted(f) => e = 0 \/ (l > e /\ p = d)

LEMMA NoFadeIs ==
  NoFade \in Fade /\ ~Muted(NoFade) /\ \A l \in Nat : \A d, p : LineIs(NoFade, l, 0, d, p)
<1>1. NoFade \in Fade
  BY DEF NoFade, Fade
<1>2. ~Muted(NoFade)
  BY DEF NoFade, Muted, Fading
<1>3. \A l \in Nat : 0 <= l
  OBVIOUS
<1> QED BY Zenon, <1>1, <1>2, <1>3 DEF LineIs

LEMMA NewLineIs ==
  ASSUME NEW f \in Fade, NEW l \in Nat, NEW e \in Nat, NEW d, NEW p, LineIs(f, l, e, d, p)
  PROVE  NewLine(f) \in Fade /\ LineIs(NewLine(f), l + 1, e, d, p)
<1>1. PICK g : g = NewLine(f)
  OBVIOUS
<1>2. g \in Fade /\ g.remaining = f.remaining /\ g.silenced = f.silenced /\ g.held = f.held /\ g.released = f.released
  BY <1>1 DEF NewLine, Fade
<1>3. g.newLine
  <2>1. g.newLine = TRUE
    BY <1>1 DEF NewLine, Fade
  <2> QED BY Zenon, <2>1
<1>4. Held(g) = Held(f) /\ (Muted(g) <=> Muted(f))
  BY Zenon, <1>2 DEF Held, Muted, Fading
<1>5. (l > e \/ l = e) => l + 1 > e /\ e <= l + 1
  OBVIOUS
<1>6. CASE Muted(f)
  <2>1. e # 0 /\ p = <<>> /\ d = Held(f) /\ (l > e \/ l = e)
    BY Zenon, <1>6 DEF LineIs
  <2> QED BY Zenon, <1>1, <1>2, <1>3, <1>4, <1>5, <1>6, <2>1 DEF LineIs
<1>7. CASE ~Muted(f)
  <2>1. e = 0 \/ (l > e /\ p = d)
    BY Zenon, <1>7 DEF LineIs
  <2>2. e = 0 => e <= l + 1
    OBVIOUS
  <2> QED BY Zenon, <1>1, <1>2, <1>4, <1>5, <1>7, <2>1, <2>2 DEF LineIs
<1> QED BY <1>6, <1>7

LEMMA StartedIs ==
  ASSUME NEW f \in Fade, NEW l \in Nat, l # 0, NEW e, NEW d, NEW p, NEW blocks \in Nat, blocks > 0
  PROVE  Started(f, blocks) \in Fade /\ LineIs(Started(f, blocks), l, l, <<>>, <<>>)
<1>1. PICK remaining \in Nat : remaining = (IF f.silenced THEN f.remaining ELSE blocks)
  <2>1. f.remaining \in Nat
    BY DEF Fade
  <2> QED BY Zenon, <2>1
<1>2. PICK g : g = [f EXCEPT !.held = <<>>, !.released = FALSE, !.newLine = FALSE, !.remaining = remaining]
  OBVIOUS
<1>3. g = Started(f, blocks)
  BY <1>1, <1>2 DEF Started, Fade
<1>4. g \in Fade /\ g.held = <<>> /\ g.remaining = remaining /\ g.silenced = f.silenced
  <2>1. <<>> \in Seq(Events)
    OBVIOUS
  <2>2. g \in Fade
    BY <1>2, <2>1 DEF Fade
  <2> QED BY <1>2, <2>2 DEF Fade
<1>5. ~g.newLine /\ ~g.released
  <2>1. g.newLine = FALSE /\ g.released = FALSE
    BY <1>2 DEF Fade
  <2> QED BY Zenon, <2>1
<1>6. Muted(g)
  <2>1. CASE f.silenced
    BY Zenon, <1>4, <2>1 DEF Muted
  <2>2. CASE ~f.silenced
    BY Zenon, <1>1, <1>4, <2>2 DEF Muted, Fading
  <2> QED BY <2>1, <2>2
<1>7. Held(g) = <<>>
  BY Zenon, <1>4, <1>5 DEF Held
<1>8. l <= l
  OBVIOUS
<1> QED BY Zenon, <1>3, <1>4, <1>5, <1>6, <1>7, <1>8 DEF LineIs

\* A block of the ramp.
LEMMA AppliedIs ==
  ASSUME NEW f \in Fade
  PROVE  /\ Applied(f) \in Fade /\ (Muted(Applied(f)) <=> Muted(f))
         /\ Held(Applied(f)) = Held(f) /\ (Applied(f).newLine <=> f.newLine)
<1>1. CASE f.silenced \/ ~Fading(f)
  BY Zenon, <1>1 DEF Applied
<1>2. CASE ~f.silenced /\ Fading(f)
  <2>1. f.remaining \in Nat /\ f.remaining > 0
    BY <1>2 DEF Fading, Fade
  <2>2. PICK silenced \in BOOLEAN : silenced = (f.silenced \/ f.remaining = 1)
    BY Zenon
  <2>4. PICK g : g = [f EXCEPT !.remaining = f.remaining - 1, !.silenced = silenced]
    OBVIOUS
  <2>5. Applied(f) = g
    BY Zenon, <1>2, <2>2, <2>4 DEF Applied
  <2>6. /\ g \in Fade /\ g.remaining = f.remaining - 1 /\ g.silenced = silenced
        /\ g.held = f.held /\ g.released = f.released /\ g.newLine = f.newLine
    <3>1. f.remaining - 1 \in Nat
      BY <2>1
    <3>2. g \in Fade
      BY <2>4, <3>1 DEF Fade
    <3> QED BY <2>4, <3>2 DEF Fade
  <2>7. Held(g) = Held(f) /\ (g.newLine <=> f.newLine)
    BY Zenon, <2>6 DEF Held
  <2>8. f.remaining - 1 > 0 \/ f.remaining = 1
    BY <2>1
  <2>9. Muted(g)
    BY Zenon, <2>2, <2>6, <2>8 DEF Muted, Fading
  <2> QED BY Zenon, <1>2, <2>5, <2>6, <2>7, <2>9 DEF Muted
<1> QED BY <1>1, <1>2

\* A block of an instance: the fade after it has passed on, or holds, all that is due.
LEMMA BlockIs ==
  ASSUME NEW f \in Fade, NEW l \in Nat, NEW e \in Nat, NEW d \in Seq(Events), NEW p \in Seq(Events),
         LineIs(f, l, e, d, p), NEW events \in Seq(Events)
  PROVE  LET b == BlockEvents(f, events)
             heard == (IF p = <<>> THEN d ELSE <<>>) \o IF l > e THEN events ELSE <<>>
         IN /\ b.f \in Fade /\ b.events \in Seq(Events) /\ heard \in Seq(Events)
            /\ LineIs(Applied(b.f), l, e, heard, b.events)
<1>0. PICK held \in Seq(Events) : held = Held(f)
  <2>1. f.held \in Seq(Events) /\ <<>> \in Seq(Events)
    BY DEF Fade
  <2> QED BY Zenon, <2>1 DEF Held
<1>1. PICK g : g = [f EXCEPT !.held = held, !.released = FALSE]
  OBVIOUS
<1>2. g \in Fade /\ g.held = held /\ g.remaining = f.remaining /\ g.silenced = f.silenced /\ g.newLine = f.newLine
  BY <1>1 DEF Fade
<1>3. ~g.released
  <2>1. g.released = FALSE
    BY <1>1 DEF Fade
  <2> QED BY Zenon, <2>1
<1>4. Held(g) = held /\ (Muted(g) <=> Muted(f))
  BY Zenon, <1>2, <1>3 DEF Held, Muted, Fading
<1>5. PICK all \in Seq(Events) : all = held \o events
  <2>1. held \o events \in Seq(Events)
    BY <1>0
  <2> QED BY Zenon, <2>1
<1>6. PICK b : b = BlockEvents(f, events)
  OBVIOUS
<1>7. PICK heard : heard = (IF p = <<>> THEN d ELSE <<>>) \o IF l > e THEN events ELSE <<>>
  OBVIOUS
<1>8. heard \in Seq(Events) /\ <<>> \o events = events /\ <<>> \o <<>> = <<>>
  BY <1>7
<1>9. SUFFICES b.f \in Fade /\ b.events \in Seq(Events) /\ LineIs(Applied(b.f), l, e, heard, b.events)
  BY Zenon, <1>6, <1>7, <1>8
<1>10. e <= l
  BY Zenon DEF LineIs
<1>11. CASE ~Muted(f)
  <2>1. b = [f |-> g, events |-> events]
    BY Zenon, <1>0, <1>1, <1>6, <1>11 DEF BlockEvents, Muted
  <2>2. b.f = g /\ b.events = events
    BY <2>1
  <2>3. e = 0 \/ (l > e /\ heard = events)
    <3>1. e = 0 \/ (l > e /\ p = d)
      BY Zenon, <1>11 DEF LineIs
    <3>2. CASE l > e /\ p = d
      <4>1. (IF p = <<>> THEN d ELSE <<>>) = <<>>
        BY <3>2
      <4>2. heard = <<>> \o events
        BY Zenon, <1>7, <3>2, <4>1
      <4> QED BY Zenon, <1>8, <3>2, <4>2
    <3> QED BY <3>1, <3>2
  <2>4. ~Muted(Applied(g))
    BY Zenon, <1>2, <1>4, <1>11, AppliedIs
  <2> QED BY Zenon, <1>2, <1>10, <2>2, <2>3, <2>4 DEF LineIs
<1>12. CASE Muted(f) /\ ~f.newLine
  <2>1. b = [f |-> g, events |-> <<>>]
    BY Zenon, <1>0, <1>1, <1>6, <1>12 DEF BlockEvents, Muted
  <2>2. b.f = g /\ b.events = <<>> /\ <<>> \in Seq(Events)
    BY <2>1
  <2>3. e # 0 /\ p = <<>> /\ d = held /\ l = e /\ d = <<>>
    BY Zenon, <1>0, <1>12 DEF LineIs
  <2>4. ~(l > e)
    BY <2>3
  <2>5. heard = <<>>
    BY Zenon, <1>7, <1>8, <2>3, <2>4
  <2>6. /\ Muted(Applied(g)) /\ Held(Applied(g)) = held /\ ~Applied(g).newLine
    BY Zenon, <1>2, <1>4, <1>12, AppliedIs
  <2> QED BY Zenon, <1>2, <1>10, <2>2, <2>3, <2>5, <2>6 DEF LineIs
<1>13. CASE Muted(f) /\ f.newLine
  <2>1. e # 0 /\ p = <<>> /\ d = held /\ l > e
    BY Zenon, <1>0, <1>13 DEF LineIs
  <2>2. heard = all
    BY Zenon, <1>5, <1>7, <2>1
  <2>3. CASE Fading(f) \/ all = <<>>
    <3>1. PICK h : h = [g EXCEPT !.held = all]
      OBVIOUS
    <3>2. b = [f |-> h, events |-> <<>>]
      <4>1. g.held \o events = all
        BY <1>2, <1>5
      <4> QED BY Zenon, <1>0, <1>1, <1>6, <1>13, <2>3, <3>1, <4>1 DEF BlockEvents, Muted
    <3>3. b.f = h /\ b.events = <<>> /\ <<>> \in Seq(Events)
      BY <3>2
    <3>4. /\ h \in Fade /\ h.held = all /\ h.remaining = g.remaining /\ h.silenced = g.silenced
          /\ h.newLine = g.newLine /\ h.released = g.released
      BY <1>2, <3>1 DEF Fade
    <3>5. Held(h) = all /\ Muted(h) /\ h.newLine
      BY Zenon, <1>2, <1>3, <1>4, <1>13, <3>4 DEF Held, Muted, Fading
    <3>6. Muted(Applied(h)) /\ Held(Applied(h)) = all /\ Applied(h).newLine
      BY Zenon, <3>4, <3>5, AppliedIs
    <3> QED BY Zenon, <1>10, <2>1, <2>2, <3>3, <3>4, <3>6 DEF LineIs
  <2>4. CASE ~(Fading(f) \/ all = <<>>)
    <3>1. PICK h : h = [g EXCEPT !.held = all, !.released = TRUE, !.silenced = FALSE, !.newLine = FALSE]
      OBVIOUS
    <3>2. b = [f |-> h, events |-> all]
      <4>1. g.held \o events = all
        BY <1>2, <1>5
      <4> QED BY Zenon, <1>0, <1>1, <1>6, <1>13, <2>4, <3>1, <4>1 DEF BlockEvents, Muted
    <3>3. b.f = h /\ b.events = all
      BY <3>2
    <3>4. h \in Fade /\ h.remaining = g.remaining
      BY <1>2, <3>1 DEF Fade
    <3>5. ~h.silenced
      <4>1. h.silenced = FALSE
        BY <1>2, <3>1 DEF Fade
      <4> QED BY Zenon, <4>1
    <3>6. ~Muted(h)
      BY Zenon, <1>2, <2>4, <3>4, <3>5 DEF Muted, Fading
    <3>7. ~Muted(Applied(h))
      BY Zenon, <3>4, <3>6, AppliedIs
    <3> QED BY Zenon, <1>10, <2>1, <2>2, <3>3, <3>4, <3>7 DEF LineIs
  <2> QED BY <2>3, <2>4
<1> QED BY <1>11, <1>12, <1>13

(***************************************************************************)
(* The inductive invariant of a bank's instances                           *)
(***************************************************************************)
\* A patch on record is the one the renderer was last told.
OnRecord(r, was, chain) ==
  /\ was.patch # Unknown => r.current = was.patch
  /\ chain \in {was.chain, NoChain}

LoadsInv ==
  /\ renderers \in [Instances -> GoodRenderers]
  /\ shelf \in [PatchTargets -> GoodRenderers]
  /\ loaded \in [Instances -> [patch : Requested \union {Unknown}, chain : Chains \union {NoChain}]]
  /\ post \in [Instances -> Chains \union {NoChain}]
  /\ \A i \in Instances : OnRecord(renderers[i], loaded[i], post[i])

LinesInv ==
  /\ fades \in [Instances -> Fade]
  /\ line \in [Instances -> Nat \ {0}]
  /\ faded \in [Instances -> Nat]
  /\ due \in [Instances -> Seq(Events)]
  /\ passed \in [Instances -> Seq(Events)]
  /\ \A i \in Instances : LineIs(fades[i], line[i], faded[i], due[i], passed[i])

BankInv == LoadsInv /\ LinesInv

LEMMA BankInitially == InstanceInit => BankInv
<1> SUFFICES ASSUME InstanceInit PROVE BankInv
  OBVIOUS
<1> USE DEF InstanceInit
<1>1. /\ renderers \in [Instances -> GoodRenderers] /\ shelf \in [PatchTargets -> GoodRenderers]
  <2>1. ASSUME NEW f \in PatchTargets PROVE Fresh(f) \in GoodRenderers
    BY Zenon, FreshIsGood, GoodOnesAre
  <2>2. DefaultForm \in PatchTargets
    BY InstanceAssumption
  <2> QED BY <2>1, <2>2
<1>2. /\ loaded \in [Instances -> [patch : Requested \union {Unknown}, chain : Chains \union {NoChain}]]
      /\ post \in [Instances -> Chains \union {NoChain}]
  OBVIOUS
<1>3. ASSUME NEW i \in Instances PROVE OnRecord(renderers[i], loaded[i], post[i])
  BY DEF OnRecord
<1>4. NoFade \in Fade /\ LineIs(NoFade, 1, 0, <<>>, <<>>)
  <2>1. 1 \in Nat
    OBVIOUS
  <2> QED BY Zenon, <2>1, NoFadeIs
<1>5. /\ fades \in [Instances -> Fade] /\ line \in [Instances -> Nat \ {0}] /\ faded \in [Instances -> Nat]
      /\ due \in [Instances -> Seq(Events)] /\ passed \in [Instances -> Seq(Events)]
  BY <1>4
<1>6. ASSUME NEW i \in Instances PROVE LineIs(fades[i], line[i], faded[i], due[i], passed[i])
  BY <1>4
<1> QED BY Zenon, <1>1, <1>2, <1>3, <1>5, <1>6 DEF BankInv, LoadsInv, LinesInv

LEMMA RendererIsGood ==
  ASSUME LoadsInv, NEW i \in Instances
  PROVE  Good(renderers[i])
<1>1. renderers[i] \in GoodRenderers
  BY DEF LoadsInv
<1> QED BY Zenon, <1>1, GoodOnesAre

\* A step in which no patch is loaded.
LEMMA LoadsStay ==
  ASSUME LoadsInv, UNCHANGED <<shelf, loaded, post>>, DOMAIN renderers' = Instances,
         renderers' = [i \in Instances |-> renderers'[i]],
         \A i \in Instances : Good(renderers'[i]) /\ SamePatch(renderers[i], renderers'[i])
  PROVE  LoadsInv'
<1>1. \A i \in Instances : renderers'[i] \in GoodRenderers
  BY Zenon, GoodOnesAre
<1>2. renderers' \in [Instances -> GoodRenderers]
  BY <1>1
<1>3. ASSUME NEW i \in Instances PROVE OnRecord(renderers'[i], loaded[i], post[i])
  BY Zenon DEF LoadsInv, OnRecord, SamePatch
<1> QED BY Zenon, <1>2, <1>3 DEF LoadsInv

\* Instances that begin a line.
LEMMA LinesBegin ==
  ASSUME LinesInv, NEW is \in SUBSET Instances, BeginsLine(is)
  PROVE  LinesInv'
<1>1. ASSUME NEW i \in Instances
      PROVE  fades[i] \in Fade /\ line[i] \in Nat /\ line[i] # 0 /\ faded[i] \in Nat
             /\ LineIs(fades[i], line[i], faded[i], due[i], passed[i])
  BY DEF LinesInv
<1>2. ASSUME NEW i \in Instances
      PROVE  fades'[i] = (IF i \in is THEN NewLine(fades[i]) ELSE fades[i])
             /\ line'[i] = (IF i \in is THEN line[i] + 1 ELSE line[i])
  BY DEF BeginsLine
<1>3. ASSUME NEW i \in Instances
      PROVE  fades'[i] \in Fade /\ line'[i] \in Nat \ {0}
             /\ LineIs(fades'[i], line'[i], faded[i], due[i], passed[i])
  <2>1. NewLine(fades[i]) \in Fade /\ LineIs(NewLine(fades[i]), line[i] + 1, faded[i], due[i], passed[i])
    BY Zenon, <1>1, NewLineIs
  <2>2. line[i] + 1 \in Nat \ {0} /\ line[i] \in Nat \ {0}
    BY <1>1
  <2> QED BY Zenon, <1>1, <1>2, <2>1, <2>2
<1>4. fades' \in [Instances -> Fade] /\ line' \in [Instances -> Nat \ {0}]
  BY <1>2, <1>3 DEF BeginsLine
<1>5. UNCHANGED <<faded, due, passed>>
  BY DEF BeginsLine
<1> QED BY Zenon, <1>3, <1>4, <1>5 DEF LinesInv

\* Renderers that are silenced for good.
LEMMA StopsAreGood ==
  ASSUME BankInv, NEW became, Stops(became), DOMAIN became \subseteq Instances,
         \A i \in DOMAIN became : \A x \in became[i] : Good(x) /\ SamePatch(renderers[i], x)
  PROVE  BankInv'
<1>1. LoadsInv'
  <2>1. /\ renderers' = [i \in Instances |-> renderers'[i]] /\ DOMAIN renderers' = Instances
        /\ \A i \in Instances: IF i \in DOMAIN became THEN renderers'[i] \in became[i] ELSE renderers'[i] = renderers[i]
    BY DEF Stops
  <2>2. ASSUME NEW i \in Instances PROVE Good(renderers'[i]) /\ SamePatch(renderers[i], renderers'[i])
    BY Zenon, <2>1, RendererIsGood DEF BankInv, SamePatch
  <2>3. UNCHANGED <<shelf, loaded, post>>
    BY DEF Stops
  <2> QED BY Zenon, <2>1, <2>2, <2>3, LoadsStay DEF BankInv
<1>2. LinesInv'
  <2>1. LinesInv
    BY DEF BankInv
  <2>2. ASSUME NEW i \in Instances
        PROVE  /\ fades[i] \in Fade /\ line[i] \in Nat /\ faded[i] \in Nat
               /\ due[i] \in Seq(Events) /\ passed[i] \in Seq(Events) /\ <<>> \in Seq(Events)
               /\ LineIs(fades[i], line[i], faded[i], due[i], passed[i])
    BY <2>1 DEF LinesInv
  <2>3. ASSUME NEW i \in Instances
        PROVE  /\ fades'[i] = (IF i \in DOMAIN became THEN NoFade ELSE fades[i])
               /\ faded'[i] = (IF i \in DOMAIN became THEN 0 ELSE faded[i])
               /\ due'[i] = (IF i \in DOMAIN became THEN <<>> ELSE due[i])
               /\ passed'[i] = (IF i \in DOMAIN became THEN <<>> ELSE passed[i])
    BY DEF Stops, Unfaded
  <2>4. ASSUME NEW i \in Instances
        PROVE  /\ fades'[i] \in Fade /\ faded'[i] \in Nat /\ due'[i] \in Seq(Events) /\ passed'[i] \in Seq(Events)
               /\ LineIs(fades'[i], line[i], faded'[i], due'[i], passed'[i])
    <3>1. 0 \in Nat
      OBVIOUS
    <3> QED BY Zenon, <2>2, <2>3, <3>1, NoFadeIs
  <2>5. /\ fades' \in [Instances -> Fade] /\ faded' \in [Instances -> Nat]
        /\ due' \in [Instances -> Seq(Events)] /\ passed' \in [Instances -> Seq(Events)]
    BY <2>3, <2>4 DEF Stops, Unfaded
  <2>6. UNCHANGED line
    BY DEF Stops
  <2> QED BY Zenon, <2>1, <2>4, <2>5, <2>6 DEF LinesInv
<1> QED BY <1>1, <1>2 DEF BankInv

LEMMA ReleasesAreGood ==
  ASSUME BankInv, ReleaseAll \/ ResetAll \/ \E i \in Instances : ReleaseInstance(i)
  PROVE  BankInv'
<1>1. ASSUME NEW i \in Instances PROVE Good(renderers[i])
  BY Zenon, RendererIsGood DEF BankInv
<1>2. CASE ReleaseAll
  <2>1. PICK became : became = [i \in Instances |-> ReleasedNow(renderers[i])]
    OBVIOUS
  <2>2. DOMAIN became = Instances /\ \A i \in Instances : became[i] = ReleasedNow(renderers[i])
    BY <2>1
  <2>3. Stops(became)
    BY Zenon, <1>2, <2>1 DEF ReleaseAll
  <2> QED BY Zenon, <1>1, <2>2, <2>3, ReleasedNowIsGood, StopsAreGood
<1>3. CASE ResetAll
  <2>1. PICK became : became = [i \in Instances |-> WasReset(renderers[i])]
    OBVIOUS
  <2>2. DOMAIN became = Instances /\ \A i \in Instances : became[i] = WasReset(renderers[i])
    BY <2>1
  <2>3. Stops(became)
    BY Zenon, <1>3, <2>1 DEF ResetAll
  <2> QED BY Zenon, <1>1, <2>2, <2>3, WasResetIsGood, StopsAreGood
<1>4. CASE \E i \in Instances : ReleaseInstance(i)
  <2>0. PICK i \in Instances : ReleaseInstance(i)
    BY <1>4
  <2>1. PICK became : became = [j \in {i} |-> ReleasedNow(renderers[j])]
    OBVIOUS
  <2>2. DOMAIN became = {i} /\ became[i] = ReleasedNow(renderers[i])
    BY <2>1
  <2>3. Stops(became)
    BY Zenon, <2>0, <2>1 DEF ReleaseInstance
  <2>4. DOMAIN became \subseteq Instances
    BY <2>2
  <2> QED BY Zenon, <1>1, <2>2, <2>3, <2>4, ReleasedNowIsGood, StopsAreGood
<1> QED BY <1>2, <1>3, <1>4

LEMMA ReleaseInNextBlockIsGood ==
  ASSUME BankInv, ReleaseAllInNextBlock
  PROVE  BankInv'
<1>1. /\ renderers' = [i \in Instances |-> renderers'[i]] /\ DOMAIN renderers' = Instances
      /\ \A i \in Instances : renderers'[i] \in ReleasedNext(renderers[i])
  BY DEF ReleaseAllInNextBlock
<1>2. \A i \in Instances : Good(renderers'[i]) /\ SamePatch(renderers[i], renderers'[i])
  BY Zenon, <1>1, RendererIsGood, ReleasedNextIsGood DEF BankInv
<1>3. LoadsInv'
  BY Zenon, <1>1, <1>2, LoadsStay DEF BankInv, ReleaseAllInNextBlock
<1>4. BeginsLine(Instances) /\ Instances \in SUBSET Instances
  BY DEF ReleaseAllInNextBlock
<1>5. LinesInv'
  BY Zenon, <1>4, LinesBegin DEF BankInv
<1> QED BY <1>3, <1>5 DEF BankInv

LEMMA FadeOutIsGood ==
  ASSUME BankInv, NEW i \in Instances, NEW blocks \in 1 .. MaxFade, FadeOut(i, blocks)
  PROVE  BankInv'
<1>0. blocks \in Nat /\ blocks > 0
  OBVIOUS
<1>1. LoadsInv'
  BY DEF BankInv, LoadsInv, FadeOut
<1>2. LinesInv /\ line' = line
  BY DEF BankInv, FadeOut
<1>3. ASSUME NEW j \in Instances
      PROVE  /\ fades[j] \in Fade /\ line[j] \in Nat /\ line[j] # 0 /\ faded[j] \in Nat
             /\ due[j] \in Seq(Events) /\ passed[j] \in Seq(Events) /\ <<>> \in Seq(Events)
             /\ LineIs(fades[j], line[j], faded[j], due[j], passed[j])
  BY <1>2 DEF LinesInv
<1>4. ASSUME NEW j \in Instances
      PROVE  /\ fades'[j] = (IF j = i THEN Started(fades[i], blocks) ELSE fades[j])
             /\ faded'[j] = (IF j = i THEN line[i] ELSE faded[j])
             /\ due'[j] = (IF j = i THEN <<>> ELSE due[j])
             /\ passed'[j] = (IF j = i THEN <<>> ELSE passed[j])
  BY <1>2 DEF FadeOut, LinesInv
<1>5. ASSUME NEW j \in Instances
      PROVE  /\ fades'[j] \in Fade /\ faded'[j] \in Nat /\ due'[j] \in Seq(Events) /\ passed'[j] \in Seq(Events)
             /\ LineIs(fades'[j], line[j], faded'[j], due'[j], passed'[j])
  <2>1. Started(fades[i], blocks) \in Fade /\ LineIs(Started(fades[i], blocks), line[i], line[i], <<>>, <<>>)
    BY Zenon, <1>0, <1>3, StartedIs
  <2> QED BY Zenon, <1>3, <1>4, <2>1
<1>6. /\ fades' \in [Instances -> Fade] /\ faded' \in [Instances -> Nat]
      /\ due' \in [Instances -> Seq(Events)] /\ passed' \in [Instances -> Seq(Events)]
  BY <1>2, <1>5 DEF FadeOut, LinesInv
<1>7. LinesInv'
  BY Zenon, <1>2, <1>5, <1>6 DEF LinesInv
<1> QED BY <1>1, <1>7 DEF BankInv

\* One renderer is given something to play.
LEMMA OneRendererPlays ==
  ASSUME LoadsInv, UNCHANGED <<shelf, loaded, post>>, NEW i \in Instances, NEW x,
         renderers' = [renderers EXCEPT ![i] = x], Good(x), SamePatch(renderers[i], x)
  PROVE  LoadsInv'
<1>1. /\ renderers' = [j \in Instances |-> renderers'[j]] /\ DOMAIN renderers' = Instances
      /\ \A j \in Instances : renderers'[j] = (IF j = i THEN x ELSE renderers[j])
  BY DEF LoadsInv
<1>2. \A j \in Instances : Good(renderers'[j]) /\ SamePatch(renderers[j], renderers'[j])
  BY Zenon, <1>1, RendererIsGood DEF SamePatch
<1> QED BY Zenon, <1>1, <1>2, LoadsStay

LEMMA BatchesAreEvents == Batches \subseteq Seq(Events)
<1>1. ASSUME NEW e \in Events PROVE <<e>> \in Seq(Events)
  OBVIOUS
<1>2. <<>> \in Seq(Events)
  OBVIOUS
<1> QED BY <1>1, <1>2 DEF Batches

LEMMA BlockIsGood ==
  ASSUME BankInv, NEW i \in Instances, NEW events \in Batches, RenderBlock(i, events)
  PROVE  BankInv'
<1>0. LoadsInv /\ LinesInv /\ UNCHANGED <<shelf, loaded, post, line>>
  BY DEF BankInv, RenderBlock
<1>1. ASSUME NEW j \in Instances
      PROVE  /\ fades[j] \in Fade /\ line[j] \in Nat /\ line[j] # 0 /\ faded[j] \in Nat
             /\ due[j] \in Seq(Events) /\ passed[j] \in Seq(Events) /\ <<>> \in Seq(Events)
             /\ LineIs(fades[j], line[j], faded[j], due[j], passed[j])
  BY <1>0 DEF LinesInv
<1>2. PICK block : block = BlockEvents(fades[i], events)
  OBVIOUS
<1>3. PICK heard : heard = (IF passed[i] = <<>> THEN due[i] ELSE <<>>) \o IF line[i] > faded[i] THEN events ELSE <<>>
  OBVIOUS
<1>4. /\ block.f \in Fade /\ block.events \in Seq(Events) /\ heard \in Seq(Events)
      /\ LineIs(Applied(block.f), line[i], faded[i], heard, block.events)
  <2>1. events \in Seq(Events)
    BY BatchesAreEvents
  <2> QED BY Zenon, <1>1, <1>2, <1>3, <2>1, BlockIs
<1>5. PICK x \in LiveBlock(renderers[i], block.events), fails \in ChainFails(i) :
        LET end == Finished(block, x, fails)
        IN /\ \E r \in end.r: renderers' = [renderers EXCEPT ![i] = r]
           /\ fades' = [fades EXCEPT ![i] = end.f]
           /\ IF end.broken THEN Unfaded({i})
              ELSE /\ due' = [due EXCEPT ![i] = heard]
                   /\ passed' = [passed EXCEPT ![i] = block.events]
                   /\ UNCHANGED faded
  BY Zenon, <1>2, <1>3 DEF RenderBlock
<1>6. PICK end : end = Finished(block, x, fails)
  OBVIOUS
<1>7. PICK r \in end.r : renderers' = [renderers EXCEPT ![i] = r]
  BY Zenon, <1>5, <1>6
<1>8. Good(x.r) /\ SamePatch(renderers[i], x.r)
  BY Zenon, <1>0, <1>4, RendererIsGood, LiveBlockIsGood
<1>9. r = x.r \/ r \in WasReset(x.r)
  <2>1. end.r = (IF x.r.crashed \/ ~((~x.ok \/ fails) \/ HasEnded(block.f)) THEN {x.r} ELSE WasReset(x.r))
    BY <1>6 DEF Finished
  <2> QED BY Zenon, <1>7, <2>1
<1>10. LoadsInv'
  <2>1. Good(r) /\ SamePatch(renderers[i], r)
    BY Zenon, <1>8, <1>9, WasResetIsGood, SamePatchIsTransitive
  <2> QED BY Zenon, <1>0, <1>7, <2>1, OneRendererPlays
<1>11. CASE end.broken
  <2>1. end.f = NoFade
    <3>1. end.broken = (~x.ok \/ fails) /\ end.f = (IF ~x.ok \/ fails THEN NoFade ELSE Applied(block.f))
      BY <1>6 DEF Finished
    <3> QED BY Zenon, <1>11, <3>1
  <2>2. fades' = [fades EXCEPT ![i] = NoFade] /\ Unfaded({i})
    BY Zenon, <1>5, <1>6, <1>11, <2>1
  <2>3. ASSUME NEW j \in Instances
        PROVE  /\ fades'[j] = (IF j = i THEN NoFade ELSE fades[j])
               /\ faded'[j] = (IF j = i THEN 0 ELSE faded[j])
               /\ due'[j] = (IF j = i THEN <<>> ELSE due[j])
               /\ passed'[j] = (IF j = i THEN <<>> ELSE passed[j])
    BY <1>0, <2>2 DEF Unfaded, LinesInv
  <2>4. ASSUME NEW j \in Instances
        PROVE  /\ fades'[j] \in Fade /\ faded'[j] \in Nat /\ due'[j] \in Seq(Events) /\ passed'[j] \in Seq(Events)
               /\ LineIs(fades'[j], line[j], faded'[j], due'[j], passed'[j])
    <3>1. 0 \in Nat
      OBVIOUS
    <3> QED BY Zenon, <1>1, <2>3, <3>1, NoFadeIs
  <2>5. /\ fades' \in [Instances -> Fade] /\ faded' \in [Instances -> Nat]
        /\ due' \in [Instances -> Seq(Events)] /\ passed' \in [Instances -> Seq(Events)]
    BY <1>0, <2>2, <2>4 DEF Unfaded, LinesInv
  <2>6. LinesInv'
    BY Zenon, <1>0, <2>4, <2>5 DEF LinesInv
  <2> QED BY <1>10, <2>6 DEF BankInv
<1>12. CASE ~end.broken
  <2>1. end.f = Applied(block.f)
    <3>1. end.broken = (~x.ok \/ fails) /\ end.f = (IF ~x.ok \/ fails THEN NoFade ELSE Applied(block.f))
      BY <1>6 DEF Finished
    <3> QED BY Zenon, <1>12, <3>1
  <2>2. /\ fades' = [fades EXCEPT ![i] = Applied(block.f)] /\ due' = [due EXCEPT ![i] = heard]
        /\ passed' = [passed EXCEPT ![i] = block.events] /\ faded' = faded
    BY Zenon, <1>5, <1>6, <1>12, <2>1
  <2>3. ASSUME NEW j \in Instances
        PROVE  /\ fades'[j] = (IF j = i THEN Applied(block.f) ELSE fades[j])
               /\ due'[j] = (IF j = i THEN heard ELSE due[j])
               /\ passed'[j] = (IF j = i THEN block.events ELSE passed[j])
    BY <1>0, <2>2 DEF LinesInv
  <2>4. ASSUME NEW j \in Instances
        PROVE  /\ fades'[j] \in Fade /\ due'[j] \in Seq(Events) /\ passed'[j] \in Seq(Events)
               /\ LineIs(fades'[j], line[j], faded[j], due'[j], passed'[j])
    BY Zenon, <1>1, <1>4, <2>3, AppliedIs
  <2>5. /\ fades' \in [Instances -> Fade]
        /\ due' \in [Instances -> Seq(Events)] /\ passed' \in [Instances -> Seq(Events)]
    BY <1>0, <2>2, <2>4 DEF LinesInv
  <2>6. LinesInv'
    BY Zenon, <1>0, <2>2, <2>4, <2>5 DEF LinesInv
  <2> QED BY <1>10, <2>6 DEF BankInv
<1> QED BY <1>11, <1>12

LEMMA ScheduledBlockIsGood ==
  ASSUME BankInv, NEW i \in Instances, NEW events \in Batches, RenderScheduled(i, events)
  PROVE  BankInv'
<1>1. PICK x \in Blocks(renderers[i], events) : renderers' = [renderers EXCEPT ![i] = x.r]
  BY DEF RenderScheduled
<1>2. events \in Seq(Events)
  BY BatchesAreEvents
<1>3. Good(x.r) /\ SamePatch(renderers[i], x.r)
  BY Zenon, <1>2, RendererIsGood, BlocksAreGood DEF BankInv
<1>4. LoadsInv'
  BY Zenon, <1>1, <1>3, OneRendererPlays DEF BankInv, RenderScheduled
<1>5. LinesInv'
  BY DEF BankInv, LinesInv, RenderScheduled, historyVars
<1> QED BY <1>4, <1>5 DEF BankInv

\* A load puts its renderer and its record in place together.
LEMMA LoadsArePlaced ==
  ASSUME LoadsInv, NEW i \in Instances, NEW r, NEW was, NEW chain,
         Good(r), was \in [patch : Requested \union {Unknown}, chain : Chains \union {NoChain}],
         chain \in Chains \union {NoChain}, OnRecord(r, was, chain),
         renderers' = [renderers EXCEPT ![i] = r], shelf' \in [PatchTargets -> GoodRenderers],
         loaded' = [loaded EXCEPT ![i] = was], post' = [post EXCEPT ![i] = chain]
  PROVE  LoadsInv'
<1>1. r \in GoodRenderers
  BY Zenon, GoodOnesAre
<1>2. /\ renderers' \in [Instances -> GoodRenderers] /\ post' \in [Instances -> Chains \union {NoChain}]
      /\ loaded' \in [Instances -> [patch : Requested \union {Unknown}, chain : Chains \union {NoChain}]]
  BY <1>1 DEF LoadsInv
<1>3. ASSUME NEW j \in Instances
      PROVE  /\ renderers'[j] = (IF j = i THEN r ELSE renderers[j])
             /\ loaded'[j] = (IF j = i THEN was ELSE loaded[j])
             /\ post'[j] = (IF j = i THEN chain ELSE post[j])
  BY DEF LoadsInv
<1>4. ASSUME NEW j \in Instances PROVE OnRecord(renderers'[j], loaded'[j], post'[j])
  BY Zenon, <1>3 DEF LoadsInv
<1> QED BY Zenon, <1>2, <1>4 DEF LoadsInv

LEMMA ForgottenRecordIs ==
  ASSUME LoadsInv, NEW i \in Instances, NEW r
  PROVE  /\ Forgets(loaded[i]) \in [patch : Requested \union {Unknown}, chain : Chains \union {NoChain}]
         /\ OnRecord(r, Forgets(loaded[i]), post[i])
<1>1. loaded[i] \in [patch : Requested \union {Unknown}, chain : Chains \union {NoChain}]
  BY DEF LoadsInv
<1>2. PICK was : was = Forgets(loaded[i])
  OBVIOUS
<1>3. /\ was \in [patch : Requested \union {Unknown}, chain : Chains \union {NoChain}]
      /\ was.patch = Unknown /\ was.chain = loaded[i].chain
  BY <1>1, <1>2 DEF Forgets
<1> QED BY Zenon, <1>2, <1>3 DEF OnRecord, LoadsInv

\* What InstanceChains.prepare may leave.
LEMMA PreparedIsGood ==
  ASSUME LoadsInv, NEW i \in Instances, NEW patch \in Requested, NEW chain \in Chains \union {NoChain},
         NEW before, NEW settle, NEW p \in Prepared(i, patch, chain, before, settle)
  PROVE  /\ Good(p.r) /\ p.shelf \in [PatchTargets -> GoodRenderers]
         /\ p.loaded \in [patch : Requested \union {Unknown}, chain : Chains \union {NoChain}]
         /\ p.post \in Chains \union {NoChain} /\ OnRecord(p.r, p.loaded, p.post)
<1>0. /\ Good(renderers[i]) /\ shelf \in [PatchTargets -> GoodRenderers]
      /\ renderers \in [Instances -> GoodRenderers]
      /\ loaded[i] \in [patch : Requested \union {Unknown}, chain : Chains \union {NoChain}]
      /\ post[i] \in Chains \union {NoChain} /\ OnRecord(renderers[i], loaded[i], post[i])
  BY RendererIsGood DEF LoadsInv
<1> DEFINE changes == chain # loaded[i].chain
           loads == IF changes /\ patch = loaded[i].patch
                    THEN {[r |-> renderers[i], shelf |-> shelf, ok |-> TRUE]}
                    ELSE LoadPatch(i, patch, before, settle)
<1>1. ASSUME NEW x \in loads
      PROVE  Good(x.r) /\ x.shelf \in [PatchTargets -> GoodRenderers] /\ (x.ok => x.r.current = patch)
  <2>1. CASE changes /\ patch = loaded[i].patch
    <3>1. x.r = renderers[i] /\ x.shelf = shelf
      BY <2>1
    <3>2. patch # Unknown
      BY InstanceAssumption DEF Requested
    <3> QED BY Zenon, <1>0, <2>1, <3>1, <3>2 DEF OnRecord
  <2>2. CASE ~(changes /\ patch = loaded[i].patch)
    <3>1. x \in LoadPatch(i, patch, before, settle)
      BY Zenon, <2>2
    <3> QED BY SMTT(30), <1>0, <3>1, LoadIsGood
  <2> QED BY <2>1, <2>2
<1>2. \/ p = [r |-> renderers[i], shelf |-> shelf, loaded |-> loaded[i], post |-> post[i]]
      \/ \E x \in loads : p = [r |-> x.r, shelf |-> x.shelf, loaded |-> Forgets(loaded[i]), post |-> post[i]]
      \/ \E x \in loads, c \in Built(chain) :
           /\ x.ok
           /\ p = [r |-> x.r, shelf |-> x.shelf, loaded |-> [patch |-> patch, chain |-> chain],
                   post |-> IF changes THEN c ELSE post[i]]
  BY SMTT(60) DEF Prepared
<1> HIDE DEF loads
<1>3. CASE p = [r |-> renderers[i], shelf |-> shelf, loaded |-> loaded[i], post |-> post[i]]
  <2>1. p.r = renderers[i] /\ p.shelf = shelf /\ p.loaded = loaded[i] /\ p.post = post[i]
    BY <1>3
  <2> QED BY Zenon, <1>0, <2>1
<1>4. CASE \E x \in loads : p = [r |-> x.r, shelf |-> x.shelf, loaded |-> Forgets(loaded[i]), post |-> post[i]]
  <2>1. PICK x \in loads : p = [r |-> x.r, shelf |-> x.shelf, loaded |-> Forgets(loaded[i]), post |-> post[i]]
    BY <1>4
  <2>2. p.r = x.r /\ p.shelf = x.shelf /\ p.loaded = Forgets(loaded[i]) /\ p.post = post[i]
    BY <2>1
  <2> QED BY Zenon, <1>0, <1>1, <2>2, ForgottenRecordIs
<1>5. CASE \E x \in loads, c \in Built(chain) :
             /\ x.ok
             /\ p = [r |-> x.r, shelf |-> x.shelf, loaded |-> [patch |-> patch, chain |-> chain],
                     post |-> IF changes THEN c ELSE post[i]]
  <2>1. PICK x \in loads, c \in Built(chain) :
               /\ x.ok
               /\ p = [r |-> x.r, shelf |-> x.shelf, loaded |-> [patch |-> patch, chain |-> chain],
                       post |-> IF changes THEN c ELSE post[i]]
    BY <1>5
  <2>2. PICK was : was = [patch |-> patch, chain |-> chain]
    OBVIOUS
  <2>3. PICK q : q = IF changes THEN c ELSE post[i]
    OBVIOUS
  <2>4. p.r = x.r /\ p.shelf = x.shelf /\ p.loaded = was /\ p.post = q
    BY <2>1, <2>2, <2>3
  <2>5. was.patch = patch /\ was.chain = chain
        /\ was \in [patch : Requested \union {Unknown}, chain : Chains \union {NoChain}]
    BY <2>2
  <2>6. c \in {chain, NoChain} /\ c \in Chains \union {NoChain}
    BY DEF Built
  <2>7. q \in {chain, NoChain} /\ q \in Chains \union {NoChain}
    BY Zenon, <1>0, <2>3, <2>6 DEF OnRecord
  <2> QED BY Zenon, <1>1, <2>1, <2>4, <2>5, <2>7 DEF OnRecord
<1> QED BY <1>2, <1>3, <1>4, <1>5

LEMMA PrepareIsGood ==
  ASSUME BankInv, NEW i \in Instances, NEW patch \in Requested, NEW chain \in Chains \union {NoChain},
         NEW before, NEW settle, PreparePatch(i, patch, chain, before, settle)
  PROVE  BankInv'
<1>1. PICK p \in Prepared(i, patch, chain, before, settle) :
        /\ renderers' = [renderers EXCEPT ![i] = p.r]
        /\ shelf' = p.shelf
        /\ loaded' = [loaded EXCEPT ![i] = p.loaded]
        /\ post' = [post EXCEPT ![i] = p.post]
  BY Zenon DEF PreparePatch
<1>2. LoadsInv'
  BY Zenon, <1>1, PreparedIsGood, LoadsArePlaced DEF BankInv
<1>3. LinesInv'
  <2>1. {i} \in SUBSET Instances
    OBVIOUS
  <2> QED BY Zenon, <2>1, LinesBegin DEF BankInv, PreparePatch
<1> QED BY <1>2, <1>3 DEF BankInv

LEMMA ProbePatchIsGood ==
  ASSUME BankInv, NEW i \in Instances, NEW patch \in Requested, ProbePatch(i, patch)
  PROVE  BankInv'
<1>1. PICK p \in ProbedPatch(i, patch) : renderers' = [renderers EXCEPT ![i] = p.r] /\ shelf' = p.shelf
  BY Zenon DEF ProbePatch
<1>2. Good(p.r) /\ p.shelf \in [PatchTargets -> GoodRenderers]
  BY Zenon, ProbedIsGood DEF BankInv, LoadsInv
<1>3. /\ Forgets(loaded[i]) \in [patch : Requested \union {Unknown}, chain : Chains \union {NoChain}]
      /\ OnRecord(p.r, Forgets(loaded[i]), post[i])
  BY Zenon, ForgottenRecordIs DEF BankInv
<1>4. loaded' = [loaded EXCEPT ![i] = Forgets(loaded[i])]
  BY DEF ProbePatch
<1>5. post' = [post EXCEPT ![i] = post[i]] /\ post[i] \in Chains \union {NoChain}
  BY DEF ProbePatch, BankInv, LoadsInv
<1>6. LoadsInv'
  BY Zenon, <1>1, <1>2, <1>3, <1>4, <1>5, LoadsArePlaced DEF BankInv
<1>7. LinesInv'
  <2>1. {i} \in SUBSET Instances
    OBVIOUS
  <2> QED BY Zenon, <2>1, LinesBegin DEF BankInv, ProbePatch
<1> QED BY <1>6, <1>7 DEF BankInv

LEMMA BankStep ==
  ASSUME BankInv, [InstanceNext]_instanceVars
  PROVE  BankInv'
<1>1. CASE UNCHANGED instanceVars
  BY <1>1 DEF BankInv, LoadsInv, LinesInv, instanceVars, bankVars, historyVars
<1>2. CASE ReleaseAll \/ ResetAll \/ \E i \in Instances : ReleaseInstance(i)
  BY Zenon, <1>2, ReleasesAreGood
<1>3. CASE ReleaseAllInNextBlock
  BY Zenon, <1>3, ReleaseInNextBlockIsGood
<1>4. CASE \E i \in Instances, blocks \in 1 .. MaxFade : FadeOut(i, blocks)
  BY Zenon, <1>4, FadeOutIsGood
<1>5. CASE \E i \in Instances : RendersBlock(i)
  BY Zenon, <1>5, BlockIsGood, ScheduledBlockIsGood DEF RendersBlock
<1>6. CASE \E i \in Instances : Prepares(i)
  <2>1. NoChain \in Chains \union {NoChain}
    OBVIOUS
  <2> QED BY Zenon, <1>6, <2>1, PrepareIsGood DEF Prepares
<1>7. CASE \E i \in Instances, patch \in Requested : ProbePatch(i, patch)
  BY Zenon, <1>7, ProbePatchIsGood
<1> QED BY Zenon, <1>1, <1>2, <1>3, <1>4, <1>5, <1>6, <1>7 DEF InstanceNext

\* The inductive invariant of a bank: what holds of every renderer, placed or on the
\* shelf, what the record of an instance says of its renderer, and what is held, due
\* and passed of the line that is played on it.
THEOREM BankInvCorrect == InstanceSpec => []BankInv
<1>1. InstanceInit => BankInv
  BY BankInitially
<1>2. BankInv /\ [InstanceNext]_instanceVars => BankInv'
  BY BankStep
<1> QED BY <1>1, <1>2, PTL DEF InstanceSpec

\* Every voice of a plugin that obeys NoteOffs is in the ledger of its renderer, or a
\* reset or a probe is known to have lost it.
THEOREM SoundingIsKnownCorrect == InstanceSpec => []SoundingIsKnown
<1>1. BankInv => SoundingIsKnown
  <2> SUFFICES ASSUME BankInv, NEW r \in {renderers[i] : i \in Instances} \union {shelf[f] : f \in PatchTargets}
               PROVE  Known(r)
    BY Zenon DEF SoundingIsKnown, Known
  <2>1. r \in GoodRenderers
    BY DEF BankInv, LoadsInv
  <2> QED BY Zenon, <2>1 DEF GoodRenderers, Good
<1> QED BY <1>1, BankInvCorrect, PTL

\* The patch and the chain on record are those that play, unless a load has failed
\* half-way since.
THEOREM LoadedPatchIsInPlaceCorrect == InstanceSpec => []LoadedPatchIsInPlace
<1>1. BankInv => LoadedPatchIsInPlace
  <2> SUFFICES ASSUME BankInv, NEW i \in Instances
               PROVE  /\ loaded[i].patch # Unknown /\ ~renderers[i].spoilt => renderers[i].actual = loaded[i].patch
                      /\ post[i] \in {loaded[i].chain, NoChain}
    BY Zenon DEF LoadedPatchIsInPlace
  <2>1. Good(renderers[i]) /\ OnRecord(renderers[i], loaded[i], post[i])
    BY Zenon, RendererIsGood DEF BankInv, LoadsInv
  <2> QED BY Zenon, <2>1 DEF Good, OnRecord
<1> QED BY <1>1, BankInvCorrect, PTL

\* The voice of a cartridge counts as loaded only while it is what the plugin plays.
THEOREM SentVoiceIsPlayedCorrect == InstanceSpec => []SentVoiceIsPlayed
<1>1. BankInv => SentVoiceIsPlayed
  BY Zenon, RendererIsGood DEF SentVoiceIsPlayed, BankInv, Good
<1> QED BY <1>1, BankInvCorrect, PTL

\* A fadeout takes no event of the line after it.
THEOREM NewLineSoundsInFullCorrect == InstanceSpec => []NewLineSoundsInFull
<1>1. BankInv => NewLineSoundsInFull
  BY Zenon DEF NewLineSoundsInFull, BankInv, LinesInv, LineIs, Muted
<1> QED BY <1>1, BankInvCorrect, PTL
===============================================================================
