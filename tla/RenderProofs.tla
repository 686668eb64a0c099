----------------------------- MODULE RenderProofs -----------------------------
(***************************************************************************)
(* One offline render, for every file and every request: the tempo map of  *)
(* a file counts its ticks as the file means them, the notes reach the     *)
(* instrument at their samples, the transport of a block tells the tempo   *)
(* there, and the chain of effects leaves the sound in its place.          *)
(***************************************************************************)
EXTENDS OfflineRender, TLAPS, WellFoundedInduction, FiniteSetTheorems, SequenceTheorems

(***************************************************************************)
(* Natural numbers and recursion                                           *)
(***************************************************************************)
\* A set of natural numbers has a least one, and one with a bound a largest.
LEMMA LeastNatural ==
  ASSUME NEW T \in SUBSET Nat, T # {}
  PROVE  \E n \in T : \A m \in T : n <= m
<1> DEFINE R == {ss \in Nat \X Nat : ss[1] < ss[2]}
<1>1. IsWellFoundedOn(R, Nat)
  <2>1. R = OpToRel(<, Nat)
    BY DEF OpToRel
  <2> QED BY <2>1, NatLessThanWellFounded
<1>2. PICK n \in T : \A m \in T : <<m, n>> \notin R
  <2> HIDE DEF R
  <2> QED BY <1>1, WFMin
<1>3. ASSUME NEW m \in T PROVE n <= m
  <2>1. n \in Nat /\ m \in Nat
    OBVIOUS
  <2>2. m < n => <<m, n>> \in R
    BY <2>1
  <2>3. ~(m < n)
    BY <1>2, <2>2
  <2> QED BY <2>1, <2>3
<1> QED BY <1>3

LEMMA LargestNatural ==
  ASSUME NEW bound \in Nat, NEW T \in SUBSET (0 .. bound), T # {}
  PROVE  \E n \in T : \A m \in T : m <= n
<1> DEFINE S == {bound - n : n \in T}
<1>1. S \in SUBSET Nat /\ S # {}
  <2>1. \A n \in T : bound - n \in Nat
    OBVIOUS
  <2> QED BY <2>1
<1>2. PICK k \in S : \A m \in S : k <= m
  <2> HIDE DEF S
  <2> QED BY <1>1, LeastNatural
<1>3. PICK n \in T : k = bound - n
  BY <1>2
<1>4. ASSUME NEW m \in T PROVE m <= n
  <2>1. k <= bound - m
    BY <1>2
  <2> QED BY <1>3, <2>1
<1> QED BY <1>4

\* Induction, for a set.
LEMMA AllNaturals ==
  ASSUME NEW T, 0 \in T, \A n \in Nat : n \in T => n + 1 \in T
  PROVE  Nat \subseteq T
<1> DEFINE Bad == Nat \ T
<1>1. SUFFICES ASSUME Bad # {} PROVE FALSE
  OBVIOUS
<1>2. PICK n \in Bad : \A m \in Bad : n <= m
  <2>1. Bad \in SUBSET Nat
    OBVIOUS
  <2> HIDE DEF Bad
  <2> QED BY <1>1, <2>1, LeastNatural
<1>3. n - 1 \in Nat /\ n - 1 \notin Bad
  BY <1>2
<1>4. n - 1 \in T /\ (n - 1) + 1 = n
  BY <1>2, <1>3
<1> QED BY <1>2, <1>3, <1>4

\* A function defined by recursion, with each value in its set.
Solves(f, n, D, turn, base) ==
  /\ f = [k \in 0..n |-> f[k]] /\ f[0] = base
  /\ \A k \in 1..n : f[k] = turn[<<k, f[k - 1]>>]
  /\ \A k \in 0..n : f[k] \in D[k]

\* A recursion whose every step leads from one set of values to the next has a solution,
\* with each value in its set.
LEMMA RecursionHasSolution ==
  ASSUME NEW n \in Nat, NEW D, NEW turn, NEW base, base \in D[0],
         \A k \in 1..n : \A x \in D[k - 1] : turn[<<k, x>>] \in D[k]
  PROVE  \E f : Solves(f, n, D, turn, base)
<1> USE DEF Solves
<1> DEFINE T == {m \in Nat : m <= n => \E f : Solves(f, m, D, turn, base)}
<1>1. 0 \in T
  <2>1. PICK f : f = [k \in 0..0 |-> base]
    OBVIOUS
  <2>2. Solves(f, 0, D, turn, base)
    BY <2>1
  <2> QED BY <2>2
<1>2. ASSUME NEW m \in Nat, m \in T PROVE m + 1 \in T
  <2>1. SUFFICES ASSUME m + 1 <= n PROVE \E f : Solves(f, m + 1, D, turn, base)
    BY <1>2
  <2>2. PICK g : Solves(g, m, D, turn, base)
    BY <1>2, <2>1
  <2>3. PICK f : f = [k \in 0..m + 1 |-> IF k = m + 1 THEN turn[<<k, g[m]>>] ELSE g[k]]
    OBVIOUS
  <2>4. f[m + 1] = turn[<<m + 1, g[m]>>] /\ \A k \in 0..m : f[k] = g[k]
    BY <2>3
  <2>5. f[m + 1] \in D[m + 1]
    <3>1. m + 1 \in 1..n /\ (m + 1) - 1 = m /\ g[m] \in D[m]
      BY <2>1, <2>2
    <3> QED BY <2>4, <3>1
  <2>6. ASSUME NEW k \in 1..m + 1 PROVE f[k] = turn[<<k, f[k - 1]>>]
    <3>1. k - 1 \in 0..m /\ f[k - 1] = g[k - 1]
      BY <2>4
    <3>2. CASE k = m + 1
      BY <2>4, <3>1, <3>2
    <3>3. CASE k # m + 1
      <4>1. k \in 1..m /\ k \in 0..m
        BY <3>3
      <4> QED BY <2>2, <2>4, <3>1, <4>1
    <3> QED BY <3>2, <3>3
  <2>7. ASSUME NEW k \in 0..m + 1 PROVE f[k] \in D[k]
    <3>1. k = m + 1 \/ k \in 0..m
      OBVIOUS
    <3> QED BY <2>2, <2>4, <2>5, <3>1
  <2>8. f[0] = base /\ f = [k \in 0..m + 1 |-> f[k]]
    BY <2>2, <2>3, <2>4
  <2> QED BY <2>6, <2>7, <2>8
<1>3. n \in T
  <2> HIDE DEF T
  <2> QED BY <1>1, <1>2, AllNaturals
<1> QED BY <1>3

(***************************************************************************)
(* A selection in order                                                    *)
(***************************************************************************)
\* A total order: what stands no higher than each.
TotalOrder(S, below) ==
  /\ \A k \in S : k \in below[k]
  /\ \A j, k \in S : j \in below[k] \/ k \in below[j]
  /\ \A j, k \in S : j \in below[k] => below[j] \subseteq below[k]
  /\ \A j, k \in S : j \in below[k] /\ k \in below[j] => j = k

\* In a finite total order every rank is taken.
LEMMA RanksAreTaken ==
  ASSUME NEW S, IsFiniteSet(S), NEW below \in [S -> SUBSET S], TotalOrder(S, below),
         NEW n \in 1 .. Cardinality(S)
  PROVE  \E k \in S : Cardinality(below[k]) = n
<1> DEFINE rank == [k \in S |-> Cardinality(below[k])]
<1>1. Cardinality(S) \in Nat
  BY FS_CardinalityType
<1>0. /\ \A k \in S : k \in below[k]
      /\ \A j, k \in S : j \in below[k] \/ k \in below[j]
      /\ \A j, k \in S : j \in below[k] => below[j] \subseteq below[k]
      /\ \A j, k \in S : j \in below[k] /\ k \in below[j] => j = k
  BY DEF TotalOrder
<1>2. ASSUME NEW k \in S PROVE IsFiniteSet(below[k]) /\ rank[k] = Cardinality(below[k]) /\ rank[k] \in 1 .. Cardinality(S)
  <2>1. below[k] \in SUBSET S
    OBVIOUS
  <2>2. IsFiniteSet(below[k]) /\ Cardinality(below[k]) <= Cardinality(S)
    BY <2>1, FS_Subset
  <2>3. Cardinality(below[k]) \in Nat
    BY <2>2, FS_CardinalityType
  <2>4. Cardinality(below[k]) # 0
    <3>1. below[k] # {}
      BY <1>0
    <3> QED BY <2>2, <3>1, FS_EmptySet
  <2> QED BY <1>1, <2>2, <2>3, <2>4
<1>3. ASSUME NEW j \in S, NEW k \in S, rank[j] = rank[k], j \in below[k] PROVE j = k
  <2>1. below[j] \in SUBSET below[k]
    BY <1>0, <1>3
  <2>2. Cardinality(below[k]) = Cardinality(below[j])
    BY <1>2, <1>3
  <2>3. below[k] = below[j]
    BY <1>2, <2>1, <2>2, FS_Subset
  <2> QED BY <1>0, <1>3, <2>3
<1>4. SUFFICES ASSUME \A k \in S : rank[k] # n PROVE FALSE
  BY <1>2
<1> DEFINE others == (1 .. Cardinality(S)) \ {n}
<1>5. IsFiniteSet(others) /\ Cardinality(others) < Cardinality(S)
  <2>1. IsFiniteSet(1 .. Cardinality(S)) /\ Cardinality(1 .. Cardinality(S)) = Cardinality(S)
    BY <1>1, FS_Interval
  <2>2. PICK all : all = 1 .. Cardinality(S)
    OBVIOUS
  <2>3. IsFiniteSet(all) /\ n \in all /\ Cardinality(all) = Cardinality(S)
    BY <2>1, <2>2
  <2>4. IsFiniteSet(all \ {n}) /\ Cardinality(all \ {n}) = Cardinality(all) - 1
    BY <2>3, FS_RemoveElement
  <2>5. others = all \ {n}
    BY <2>2
  <2> HIDE DEF others
  <2>6. Cardinality(others) = Cardinality(S) - 1 /\ IsFiniteSet(others)
    BY <2>3, <2>4, <2>5
  <2> QED BY <1>1, <2>6
<1>6. rank \in [S -> others]
  BY <1>2, <1>4
<1> HIDE DEF rank, others
<1>7. PICK j, k \in S : j # k /\ rank[j] = rank[k]
  BY <1>5, <1>6, FS_PigeonHole
<1>8. j \in below[k] \/ k \in below[j]
  BY <1>0, <1>7
<1> QED BY <1>3, <1>7, <1>8

\* The places of a selection in order: all of those kept, by key and then by place.
InOrder(events, kept, key, place) ==
  /\ place \in [1..Cardinality(kept) -> kept]
  /\ Ordered(events, kept, key) = [n \in 1..Cardinality(kept) |-> events[place[n]]]
  /\ \A k \in kept : \E n \in 1..Cardinality(kept) : place[n] = k
  /\ \A m, n \in 1..Cardinality(kept) :
       m < n => key[place[m]] < key[place[n]] \/ (key[place[m]] = key[place[n]] /\ place[m] < place[n])

LEMMA OrderedIs ==
  ASSUME NEW events, NEW kept, IsFiniteSet(kept), kept \subseteq Nat, NEW key, \A k \in kept : key[k] \in Nat
  PROVE  /\ Cardinality(kept) \in Nat
         /\ \E place : InOrder(events, kept, key, place)
<1> DEFINE Below(k) == {j \in kept : key[j] < key[k] \/ (key[j] = key[k] /\ j <= k)}
           below == [k \in kept |-> Below(k)]
           At(n) == CHOOSE k \in kept : Cardinality(Below(k)) = n
           size == Cardinality(kept)
           place == [n \in 1..size |-> At(n)]
<1>1. size \in Nat
  BY FS_CardinalityType
<1>2. below \in [kept -> SUBSET kept] /\ TotalOrder(kept, below)
  <2>1. \A k \in kept : k \in Nat /\ key[k] \in Nat
    OBVIOUS
  <2>2. below \in [kept -> SUBSET kept]
    OBVIOUS
  <2>3. \A j, k \in kept : j \in below[k] <=> (key[j] < key[k] \/ (key[j] = key[k] /\ j <= k))
    OBVIOUS
  <2> HIDE DEF below
  <2>4. \A j, k \in kept : j \in below[k] => below[j] \subseteq below[k]
    <3> SUFFICES ASSUME NEW j \in kept, NEW k \in kept, j \in below[k], NEW i \in below[j] PROVE i \in below[k]
      OBVIOUS
    <3>1. i \in kept
      BY <2>2
    <3> QED BY <2>1, <2>3, <3>1
  <2>5. \A j, k \in kept : j \in below[k] /\ k \in below[j] => j = k
    BY <2>1, <2>3
  <2>6. \A j, k \in kept : k \in below[k] /\ (j \in below[k] \/ k \in below[j])
    BY <2>1, <2>3
  <2> QED BY <2>2, <2>4, <2>5, <2>6 DEF TotalOrder
<1>3. ASSUME NEW n \in 1..size PROVE At(n) \in kept /\ Cardinality(below[At(n)]) = n
  <2>1. \E k \in kept : Cardinality(below[k]) = n
    <3>1. PICK b : b = below
      OBVIOUS
    <3> HIDE DEF below
    <3>2. TotalOrder(kept, b) /\ b \in [kept -> SUBSET kept]
      BY <1>2, <3>1
    <3>3. IsFiniteSet(kept) /\ n \in 1..Cardinality(kept)
      OBVIOUS
    <3>4. \E k \in kept : Cardinality(b[k]) = n
      BY ZenonT(60), <3>2, <3>3, RanksAreTaken
    <3> QED BY <3>1, <3>4
  <2>2. \E k \in kept : Cardinality(Below(k)) = n
    BY <2>1
  <2>3. \A k \in kept : below[k] = Below(k)
    OBVIOUS
  <2> HIDE DEF Below, below
  <2> QED BY <2>2, <2>3
<1>4. \A k \in kept : IsFiniteSet(below[k]) /\ Cardinality(below[k]) \in 1..size
  <2> SUFFICES ASSUME NEW k \in kept PROVE IsFiniteSet(below[k]) /\ Cardinality(below[k]) \in 1..size
    OBVIOUS
  <2>1. PICK b : b = below[k]
    OBVIOUS
  <2>2. b \in SUBSET kept /\ k \in b
    <3> HIDE DEF below
    <3> QED BY <1>2, <2>1 DEF TotalOrder
  <2>3. IsFiniteSet(b) /\ Cardinality(b) <= size /\ Cardinality(b) \in Nat
    BY <2>2, FS_Subset, FS_CardinalityType
  <2>4. Cardinality(b) # 0
    BY <2>2, <2>3, FS_EmptySet
  <2> HIDE DEF below, size
  <2> QED BY <1>1, <2>1, <2>3, <2>4
<1>5. \A j, k \in kept : j \in below[k] => Cardinality(below[j]) <= Cardinality(below[k])
  <2> SUFFICES ASSUME NEW j \in kept, NEW k \in kept, j \in below[k]
               PROVE  Cardinality(below[j]) <= Cardinality(below[k])
    OBVIOUS
  <2>1. below[j] \subseteq below[k]
    <3> HIDE DEF below
    <3> QED BY <1>2 DEF TotalOrder
  <2>2. PICK b : b = below[j]
    OBVIOUS
  <2>3. PICK c : c = below[k]
    OBVIOUS
  <2>4. IsFiniteSet(c) /\ b \in SUBSET c
    BY <1>4, <2>1, <2>2, <2>3
  <2>5. Cardinality(b) <= Cardinality(c)
    BY <2>4, FS_Subset
  <2> QED BY <2>2, <2>3, <2>5
<1>6. \A j, k \in kept : j \in below[k] /\ Cardinality(below[j]) = Cardinality(below[k]) => j = k
  <2> SUFFICES ASSUME NEW j \in kept, NEW k \in kept, j \in below[k], Cardinality(below[j]) = Cardinality(below[k])
               PROVE  j = k
    OBVIOUS
  <2>1. PICK b : b = below[j]
    OBVIOUS
  <2>2. PICK c : c = below[k]
    OBVIOUS
  <2>3. b \subseteq c /\ k \in c
    <3> HIDE DEF below
    <3> QED BY <1>2, <2>1, <2>2 DEF TotalOrder
  <2>4. IsFiniteSet(c) /\ b \in SUBSET c /\ Cardinality(b) = Cardinality(c)
    BY <1>4, <2>1, <2>2, <2>3
  <2>5. b = c
    BY <2>4, FS_Subset
  <2> HIDE DEF below
  <2> QED BY <1>2, <2>1, <2>2, <2>3, <2>5 DEF TotalOrder
<1>7. \A j, k \in kept : j \in below[k] <=> (key[j] < key[k] \/ (key[j] = key[k] /\ j <= k))
  OBVIOUS
<1>8. \A j, k \in kept : j \in below[k] \/ k \in below[j]
  BY <1>2 DEF TotalOrder
<1>9. Ordered(events, kept, key) = [n \in 1..Cardinality(kept) |-> events[At(n)]]
  BY Zenon DEF Ordered
<1>10. \A n \in 1..size : place[n] \in kept /\ Cardinality(below[place[n]]) = n
  <2> HIDE DEF At, below
  <2> QED BY <1>3
<1>11. Ordered(events, kept, key) = [n \in 1..size |-> events[place[n]]] /\ place \in [1..size -> kept]
  <2> HIDE DEF At, below
  <2> QED BY <1>3, <1>9
<1> HIDE DEF At, below, place
<1>12. \A k \in kept : \E n \in 1..size : place[n] = k
  <2> SUFFICES ASSUME NEW k \in kept PROVE \E n \in 1..size : place[n] = k
    OBVIOUS
  <2>1. PICK n \in 1..size : n = Cardinality(below[k])
    BY <1>4
  <2>2. place[n] \in kept /\ Cardinality(below[place[n]]) = Cardinality(below[k])
    BY <1>10, <2>1
  <2>3. place[n] \in below[k] \/ k \in below[place[n]]
    BY <1>8, <2>2
  <2> QED BY <1>6, <2>2, <2>3
<1>13. \A m, n \in 1..size :
         m < n => key[place[m]] < key[place[n]] \/ (key[place[m]] = key[place[n]] /\ place[m] < place[n])
  <2> SUFFICES ASSUME NEW m \in 1..size, NEW n \in 1..size, m < n
               PROVE  key[place[m]] < key[place[n]] \/ (key[place[m]] = key[place[n]] /\ place[m] < place[n])
    OBVIOUS
  <2>1. PICK j \in kept : j = place[m] /\ Cardinality(below[j]) = m
    BY <1>10
  <2>2. PICK k \in kept : k = place[n] /\ Cardinality(below[k]) = n
    BY <1>10
  <2>3. k \notin below[j]
    <3>1. m \in Nat /\ n \in Nat /\ ~(n <= m)
      BY <1>1
    <3> HIDE DEF size
    <3> QED BY <1>5, <2>1, <2>2, <3>1
  <2>4. key[j] \in Nat /\ key[k] \in Nat /\ j \in Nat /\ k \in Nat
    OBVIOUS
  <2>5. ~(key[k] < key[j] \/ (key[k] = key[j] /\ k <= j))
    BY <1>7, <2>3
  <2> QED BY <2>1, <2>2, <2>4, <2>5
<1> QED BY <1>1, <1>11, <1>12, <1>13 DEF InOrder

\* Notes and changes among the events of a file, at their ticks.
Event == [track : Nat, index : Nat, at : Nat, what : Notes \cup Metas \cup {"other"}, value : Nat]
FileEvent == [delta : Nat, what : Notes \cup Metas \cup {"other"}, value : Nat]

\* The tick of an event is a number.
LEMMA TickIs ==
  ASSUME NEW track \in Seq(FileEvent), NEW i \in 1..Len(track)
  PROVE  Tick(track, i) \in Nat
<1> DEFINE Solution(f) == f = [k \in 0..i |-> IF k = 0 THEN 0 ELSE f[k - 1] + track[k].delta]
           tick == CHOOSE f : Solution(f)
<1>0. Len(track) \in Nat /\ i \in Nat /\ \A k \in 1..i : k \in 1..Len(track) /\ track[k] \in FileEvent /\ track[k].delta \in Nat
  <2>1. Len(track) \in Nat /\ i \in Nat /\ \A k \in 1..i : k \in 1..Len(track)
    OBVIOUS
  <2>2. \A k \in 1..i : track[k] \in FileEvent
    BY <2>1
  <2>3. \A e \in FileEvent : e.delta \in Nat
    BY DEF FileEvent
  <2> QED BY <2>1, <2>2, <2>3
<1>1. Tick(track, i) = tick[i]
  BY Zenon DEF Tick
<1>2. \E f : Solution(f)
  <2>1. PICK turn : turn = [x \in (1..i) \X Nat |-> x[2] + track[x[1]].delta]
    OBVIOUS
  <2>2. \A k \in 1..i : \A x \in Nat : turn[<<k, x>>] = x + track[k].delta
    BY <2>1
  <2>3. PICK D : D = [k \in 0..i |-> Nat]
    OBVIOUS
  <2>4. \A k \in 1..i : D[k] = Nat /\ D[k - 1] = Nat
    BY <1>0, <2>3
  <2>5. \A k \in 1..i : \A x \in D[k - 1] : turn[<<k, x>>] \in D[k]
    <3> SUFFICES ASSUME NEW k \in 1..i, NEW x \in D[k - 1] PROVE turn[<<k, x>>] \in D[k]
      OBVIOUS
    <3>1. x \in Nat /\ turn[<<k, x>>] = x + track[k].delta /\ track[k].delta \in Nat
      BY <1>0, <2>2, <2>4
    <3>2. x + track[k].delta \in Nat
      BY <3>1
    <3>3. D[k] = Nat
      BY <2>4
    <3> QED BY <3>1, <3>2, <3>3
  <2>6. PICK f : Solves(f, i, D, turn, 0)
    <3>1. 0 \in D[0] /\ i \in Nat
      BY <1>0, <2>3
    <3> QED BY <2>5, <3>1, RecursionHasSolution
  <2> USE DEF Solves
  <2>7. \A k \in 0..i : f[k] = IF k = 0 THEN 0 ELSE f[k - 1] + track[k].delta
    <3> SUFFICES ASSUME NEW k \in 0..i, k # 0 PROVE f[k] = f[k - 1] + track[k].delta
      BY <2>6
    <3>1. k \in 1..i /\ k - 1 \in 0..i
      BY <1>0
    <3>2. f[k - 1] \in Nat
      BY <2>3, <2>6, <3>1
    <3> QED BY <2>2, <2>6, <3>1, <3>2
  <2>8. f = [k \in 0..i |-> IF k = 0 THEN 0 ELSE f[k - 1] + track[k].delta]
    BY <2>6, <2>7
  <2> QED BY <2>8
<1>3. Solution(tick)
  BY Zenon, <1>2
<1> HIDE DEF tick
<1>4. \A k \in 0..i : tick[k] = IF k = 0 THEN 0 ELSE tick[k - 1] + track[k].delta
  BY <1>3
<1> DEFINE T == {k \in Nat : k <= i => tick[k] \in Nat}
<1>5. 0 \in T
  BY <1>0, <1>4
<1>6. ASSUME NEW k \in Nat, k \in T PROVE k + 1 \in T
  <2>1. SUFFICES ASSUME k + 1 <= i PROVE tick[k + 1] \in Nat
    BY <1>6
  <2>2. k + 1 \in 1..i /\ k + 1 \in 0..i /\ (k + 1) - 1 = k
    BY <1>0, <2>1
  <2>3. tick[k + 1] = tick[k] + track[k + 1].delta /\ tick[k] \in Nat
    BY <1>0, <1>4, <1>6, <2>1, <2>2
  <2> QED BY <1>0, <2>2, <2>3
<1>7. i \in T
  <2> HIDE DEF T
  <2> QED BY <1>0, <1>5, <1>6, AllNaturals
<1> QED BY <1>0, <1>1, <1>7

LEMMA ListedIs ==
  ASSUME NEW file \in Seq(Tracks)
  PROVE  Listed(file) \in Seq(Event)
<1> DEFINE track(t) == [i \in 1..Len(file[t]) |->
                          [track |-> t, index |-> i, at |-> Tick(file[t], i), what |-> file[t][i].what, value |-> file[t][i].value]]
           Solution(f) == f = [t \in 0..Len(file) |-> IF t = 0 THEN <<>> ELSE f[t - 1] \o track(t)]
           all == CHOOSE f : Solution(f)
           n == Len(file)
<1>0. n \in Nat
  OBVIOUS
<1>1. Listed(file) = all[n]
  BY Zenon DEF Listed
<1>2. \A t \in 1..n : track(t) \in Seq(Event)
  <2> SUFFICES ASSUME NEW t \in 1..n PROVE track(t) \in Seq(Event)
    OBVIOUS
  <2>1. PICK events \in Seq(FileEvent) : events = file[t]
    BY DEF Tracks, FileEvent
  <2>2. Len(events) \in Nat /\ t \in Nat
    OBVIOUS
  <2>3. ASSUME NEW i \in 1..Len(events)
        PROVE  [track |-> t, index |-> i, at |-> Tick(events, i), what |-> events[i].what, value |-> events[i].value] \in Event
    <3>1. events[i] \in FileEvent /\ i \in Nat
      OBVIOUS
    <3>2. events[i].what \in Notes \cup Metas \cup {"other"} /\ events[i].value \in Nat
      BY <3>1 DEF FileEvent
    <3> QED BY <2>2, <3>1, <3>2, TickIs DEF Event
  <2> QED BY <2>1, <2>2, <2>3
<1>9. PICK part : part = [t \in 1..n |-> track(t)]
  OBVIOUS
<1>10. \A t \in 1..n : part[t] = track(t) /\ part[t] \in Seq(Event)
  BY <1>2, <1>9
<1> HIDE DEF track
<1>3. \E f : Solution(f)
  <2>1. PICK turn : turn = [x \in (1..n) \X Seq(Event) |-> x[2] \o part[x[1]]]
    OBVIOUS
  <2>2. PICK D : D = [t \in 0..n |-> Seq(Event)]
    OBVIOUS
  <2>3. ASSUME NEW t \in 1..n, NEW x \in Seq(Event)
        PROVE  turn[<<t, x>>] = x \o part[t] /\ x \o part[t] \in Seq(Event)
    <3>1. <<t, x>> \in (1..n) \X Seq(Event) /\ <<t, x>>[1] = t /\ <<t, x>>[2] = x
      OBVIOUS
    <3>2. turn[<<t, x>>] = x \o part[t]
      BY <2>1, <3>1
    <3>3. part[t] \in Seq(Event)
      BY <1>10
    <3> QED BY <3>2, <3>3
  <2>4. \A t \in 1..n : \A x \in D[t - 1] : turn[<<t, x>>] \in D[t]
    <3> SUFFICES ASSUME NEW t \in 1..n, NEW x \in D[t - 1] PROVE turn[<<t, x>>] \in D[t]
      OBVIOUS
    <3>1. D[t] = Seq(Event) /\ D[t - 1] = Seq(Event)
      BY <1>0, <2>2
    <3> QED BY <2>3, <3>1
  <2>5. PICK f : Solves(f, n, D, turn, <<>>)
    <3>1. PICK base : base = <<>>
      OBVIOUS
    <3>2. base \in D[0] /\ n \in Nat
      BY <1>0, <2>2, <3>1
    <3> HIDE DEF n, all
    <3>3. \E f : Solves(f, n, D, turn, base)
      BY <2>4, <3>2, RecursionHasSolution
    <3> QED BY <3>1, <3>3
  <2>6. \A t \in 0..n : f[t] = IF t = 0 THEN <<>> ELSE f[t - 1] \o track(t)
    <3> SUFFICES ASSUME NEW t \in 0..n, t # 0 PROVE f[t] = f[t - 1] \o track(t)
      BY <2>5 DEF Solves
    <3>1. t \in 1..n /\ t - 1 \in 0..n
      BY <1>0
    <3>2. f[t - 1] \in Seq(Event) /\ f[t] = turn[<<t, f[t - 1]>>]
      BY <2>2, <2>5, <3>1 DEF Solves
    <3> QED BY <1>10, <2>3, <3>1, <3>2
  <2>7. f = [t \in 0..n |-> IF t = 0 THEN <<>> ELSE f[t - 1] \o track(t)]
    BY <2>5, <2>6 DEF Solves
  <2> QED BY <2>7
<1>4. Solution(all)
  BY Zenon, <1>3
<1> HIDE DEF all
<1>5. all[0] = <<>> /\ \A t \in 1..n : all[t] = all[t - 1] \o part[t]
  <2>1. \A t \in 0..n : all[t] = IF t = 0 THEN <<>> ELSE all[t - 1] \o track(t)
    BY <1>4
  <2>2. \A t \in 1..n : t \in 0..n /\ t # 0
    BY <1>0
  <2>3. ASSUME NEW t \in 1..n PROVE all[t] = all[t - 1] \o part[t]
    <3>1. all[t] = all[t - 1] \o track(t)
      BY <2>1, <2>2
    <3>2. part[t] = track(t)
      BY <1>10
    <3> QED BY <3>1, <3>2
  <2>4. all[0] = <<>>
    <3>1. 0 \in 0..n
      BY <1>0
    <3> QED BY <2>1, <3>1
  <2> QED BY <2>3, <2>4
<1> DEFINE T == {t \in Nat : t <= n => all[t] \in Seq(Event)}
<1>6. 0 \in T
  <2>1. <<>> \in Seq(Event)
    OBVIOUS
  <2> QED BY <1>5, <2>1
<1>7. ASSUME NEW t \in Nat, t \in T PROVE t + 1 \in T
  <2>1. SUFFICES ASSUME t + 1 <= n PROVE all[t + 1] \in Seq(Event)
    BY <1>7
  <2>2. t + 1 \in 1..n /\ t + 1 \in 0..n /\ (t + 1) - 1 = t
    BY <1>0, <2>1
  <2>3. all[t + 1] = all[t] \o part[t + 1] /\ all[t] \in Seq(Event) /\ part[t + 1] \in Seq(Event)
    <3>1. all[t + 1] = all[(t + 1) - 1] \o part[t + 1]
      BY <1>5, <2>2
    <3>2. all[t] \in Seq(Event)
      <4>1. t <= n
        BY <1>0, <2>1
      <4> QED BY <1>7, <4>1
    <3> QED BY <1>10, <2>2, <3>1, <3>2
  <2> QED BY <2>2, <2>3
<1>8. n \in T
  <2> HIDE DEF T, n
  <2> QED BY <1>0, <1>6, <1>7, AllNaturals
<1> QED BY <1>0, <1>1, <1>8

(***************************************************************************)
(* A tempo map                                                             *)
(***************************************************************************)
Segment == [tick : Nat, at : Nat, tempo : Nat, meter : Nat]

\* Each segment begins after the one before it, when that one's tempo says.
GoodMap(segments) ==
  /\ segments \in Seq(Segment) /\ Len(segments) >= 1
  /\ segments[1].tick = 0 /\ segments[1].at = 0
  /\ \A i \in 1..Len(segments) - 1 :
       /\ segments[i].tick < segments[i + 1].tick
       /\ segments[i + 1].at = segments[i].at + (segments[i + 1].tick - segments[i].tick) * segments[i].tempo

\* Segment k is the one in force at a tick.
On(segments, tick, k) ==
  /\ k \in 1..Len(segments) /\ segments[k].tick <= tick
  /\ \A l \in k + 1..Len(segments) : segments[l].tick > tick

LEMMA ProductIs ==
  ASSUME NEW a \in Nat, NEW b \in Nat
  PROVE  a * b \in Nat /\ (a + 1) * b = a * b + b /\ 0 * b = 0
OBVIOUS

LEMMA SegmentIs ==
  ASSUME NEW segments \in Seq(Segment), NEW k \in 1..Len(segments)
  PROVE  /\ k \in Nat /\ segments[k] \in Segment
         /\ segments[k].tick \in Nat /\ segments[k].at \in Nat /\ segments[k].tempo \in Nat /\ segments[k].meter \in Nat
<1>1. segments[k] \in Segment /\ k \in Nat
  OBVIOUS
<1> QED BY <1>1 DEF Segment

LEMMA SegmentsGrow ==
  ASSUME NEW segments, GoodMap(segments), NEW j \in 1..Len(segments), NEW i \in 1..j
  PROVE  /\ segments[i].at <= segments[j].at
         /\ i < j => segments[i].tick < segments[j].tick
<1>0. segments \in Seq(Segment) /\ Len(segments) \in Nat /\ j \in Nat /\ i \in Nat /\ i <= j
  BY DEF GoodMap
<1> DEFINE Grows(d) == /\ segments[i].at <= segments[i + d].at
                       /\ (d > 0 => segments[i].tick < segments[i + d].tick)
           T == {d \in Nat : i + d <= Len(segments) => Grows(d)}
<1>1. 0 \in T
  <2>1. i + 0 = i /\ i \in 1..Len(segments)
    BY <1>0
  <2>2. segments[i].at \in Nat
    BY <1>0, <2>1, SegmentIs
  <2> QED BY <2>1, <2>2
<1>2. ASSUME NEW d \in Nat, d \in T PROVE d + 1 \in T
  <2>1. SUFFICES ASSUME i + (d + 1) <= Len(segments)
                 PROVE  /\ segments[i].at <= segments[i + (d + 1)].at
                        /\ segments[i].tick < segments[i + (d + 1)].tick
    <3>1. (/\ segments[i].at <= segments[i + (d + 1)].at
           /\ segments[i].tick < segments[i + (d + 1)].tick) => Grows(d + 1)
      OBVIOUS
    <3> HIDE DEF Grows
    <3> QED BY <1>2, <3>1
  <2>2. PICK m : m = i + d
    OBVIOUS
  <2>3. m \in 1..Len(segments) - 1 /\ m \in 1..Len(segments) /\ m + 1 \in 1..Len(segments) /\ i \in 1..Len(segments)
        /\ m + 1 = i + (d + 1) /\ (d = 0 => m = i)
    BY <1>0, <2>1, <2>2
  <2>4. /\ segments[m].tick \in Nat /\ segments[m + 1].tick \in Nat /\ segments[i].tick \in Nat
        /\ segments[m].at \in Nat /\ segments[m + 1].at \in Nat /\ segments[i].at \in Nat /\ segments[m].tempo \in Nat
    BY <1>0, <2>3, SegmentIs
  <2>5. /\ segments[m].tick < segments[m + 1].tick
        /\ segments[m + 1].at = segments[m].at + (segments[m + 1].tick - segments[m].tick) * segments[m].tempo
    BY <2>3 DEF GoodMap
  <2>6. (segments[m + 1].tick - segments[m].tick) * segments[m].tempo \in Nat
    <3>1. segments[m + 1].tick - segments[m].tick \in Nat
      BY SMTT(30), <2>4, <2>5
    <3> QED BY <2>4, <3>1, ProductIs
  <2>7. segments[m].at <= segments[m + 1].at
    BY SMTT(30), <2>4, <2>5, <2>6
  <2>8. segments[i].at <= segments[m].at /\ (d > 0 => segments[i].tick < segments[m].tick)
    <3>1. i + d <= Len(segments)
      BY <1>0, <2>1
    <3>2. Grows(d)
      BY <1>2, <3>1
    <3> QED BY <2>2, <3>2
  <2>9. segments[i].at <= segments[m + 1].at /\ segments[i].tick < segments[m + 1].tick
    BY SMTT(30), <2>3, <2>4, <2>5, <2>7, <2>8
  <2> QED BY <2>3, <2>9
<1>3. j - i \in T
  <2>1. j - i \in Nat
    BY <1>0
  <2> HIDE DEF T
  <2> QED BY <1>1, <1>2, <2>1, AllNaturals
<1>4. i + (j - i) = j /\ j <= Len(segments) /\ (i < j => j - i > 0)
  BY <1>0
<1>5. Grows(j - i)
  BY <1>0, <1>3, <1>4
<1> QED BY <1>4, <1>5

\* One segment is in force at a tick.
LEMMA SegmentThere ==
  ASSUME NEW segments, GoodMap(segments), NEW tick \in Nat
  PROVE  \E k \in 1..Len(segments) : On(segments, tick, k)
<1>0. segments \in Seq(Segment) /\ Len(segments) \in Nat /\ 1 \in 1..Len(segments) /\ segments[1].tick = 0
  BY DEF GoodMap
<1> DEFINE begun == {k \in 1..Len(segments) : segments[k].tick <= tick}
<1>1. begun \in SUBSET (0..Len(segments)) /\ 1 \in begun
  BY <1>0
<1>2. PICK k \in begun : \A m \in begun : m <= k
  <2> HIDE DEF begun
  <2> QED BY <1>0, <1>1, LargestNatural
<1>3. ASSUME NEW l \in k + 1..Len(segments) PROVE segments[l].tick > tick
  <2>1. l \in 1..Len(segments) /\ ~(l <= k)
    BY <1>0
  <2>2. segments[l].tick \in Nat
    BY <1>0, <2>1, SegmentIs
  <2> QED BY <1>2, <2>1, <2>2
<1> QED BY <1>2, <1>3 DEF On

LEMMA OneSegment ==
  ASSUME NEW segments \in Seq(Segment), NEW tick \in Nat, NEW j, NEW k, On(segments, tick, j), On(segments, tick, k)
  PROVE  j = k
<1>0. Len(segments) \in Nat /\ j \in 1..Len(segments) /\ k \in 1..Len(segments)
  BY DEF On
<1>1. segments[j].tick \in Nat /\ segments[k].tick \in Nat
  BY <1>0, SegmentIs
<1>2. j < k => k \in j + 1..Len(segments)
  BY <1>0
<1>3. k < j => j \in k + 1..Len(segments)
  BY <1>0
<1> QED BY <1>0, <1>1, <1>2, <1>3 DEF On

LEMMA SecondsAtIs ==
  ASSUME NEW segments \in Seq(Segment), NEW tick \in Nat, NEW k, On(segments, tick, k)
  PROVE  /\ SecondsAt(segments, tick) = segments[k].at + (tick - segments[k].tick) * segments[k].tempo
         /\ SecondsAt(segments, tick) \in Nat
<1> DEFINE i == CHOOSE m \in 1..Len(segments) :
                  /\ segments[m].tick <= tick
                  /\ \A l \in m + 1..Len(segments) : segments[l].tick > tick
<1>1. SecondsAt(segments, tick) = segments[i].at + (tick - segments[i].tick) * segments[i].tempo
  BY Zenon DEF SecondsAt
<1>2. On(segments, tick, i)
  BY DEF On
<1> HIDE DEF i
<1>3. i = k
  BY <1>2, OneSegment
<1>4. k \in 1..Len(segments) /\ segments[k].tick <= tick
  BY DEF On
<1>5. segments[k].at \in Nat /\ segments[k].tick \in Nat /\ segments[k].tempo \in Nat
  BY <1>4, SegmentIs
<1>6. tick - segments[k].tick \in Nat
  BY <1>4, <1>5
<1>7. (tick - segments[k].tick) * segments[k].tempo \in Nat
  BY <1>5, <1>6, ProductIs
<1> QED BY <1>1, <1>3, <1>5, <1>7

\* From one tick to the next goes the tempo in force.
LEMMA SecondsAtGrows ==
  ASSUME NEW segments, GoodMap(segments), NEW tick \in Nat, NEW k, On(segments, tick, k)
  PROVE  SecondsAt(segments, tick + 1) = SecondsAt(segments, tick) + segments[k].tempo
<1>0. segments \in Seq(Segment) /\ Len(segments) \in Nat /\ k \in 1..Len(segments) /\ segments[k].tick <= tick /\ k \in Nat
  BY DEF GoodMap, On
<1>1. segments[k].at \in Nat /\ segments[k].tick \in Nat /\ segments[k].tempo \in Nat
  BY <1>0, SegmentIs
<1>2. PICK a \in Nat : a = tick - segments[k].tick
  BY <1>0, <1>1
<1>3. (a + 1) * segments[k].tempo = a * segments[k].tempo + segments[k].tempo /\ a * segments[k].tempo \in Nat
  BY <1>1, <1>2, ProductIs
<1>4. SecondsAt(segments, tick) = segments[k].at + a * segments[k].tempo
  BY <1>0, <1>2, SecondsAtIs
<1>5. CASE \A l \in k + 1..Len(segments) : segments[l].tick > tick + 1
  <2>1. On(segments, tick + 1, k)
    BY <1>0, <1>1, <1>5 DEF On
  <2>2. SecondsAt(segments, tick + 1) = segments[k].at + ((tick + 1) - segments[k].tick) * segments[k].tempo
    BY <1>0, <2>1, SecondsAtIs
  <2>3. (tick + 1) - segments[k].tick = a + 1
    BY <1>1, <1>2
  <2>4. SecondsAt(segments, tick + 1) = segments[k].at + (a + 1) * segments[k].tempo
    BY <2>2, <2>3
  <2> QED BY <1>1, <1>3, <1>4, <2>4
<1>6. CASE \E l \in k + 1..Len(segments) : segments[l].tick <= tick + 1
  <2>1. PICK l \in k + 1..Len(segments) : segments[l].tick <= tick + 1
    BY <1>6
  <2>2. k + 1 \in 1..Len(segments) /\ l \in 1..Len(segments) /\ k + 1 \in 1..l /\ k \in 1..Len(segments) - 1
        /\ k + 1 \in k + 1..Len(segments)
    BY <1>0
  <2>3. segments[l].tick \in Nat /\ segments[k + 1].tick \in Nat /\ segments[k + 1].at \in Nat /\ segments[k + 1].tempo \in Nat
    BY <1>0, <2>2, SegmentIs
  <2>4. segments[k + 1].tick = tick + 1
    <3>1. segments[k + 1].tick > tick
      BY <2>2 DEF On
    <3>2. segments[k + 1].tick <= segments[l].tick
      <4>1. k + 1 < l \/ k + 1 = l
        BY <1>0, <2>2
      <4>2. k + 1 < l => segments[k + 1].tick < segments[l].tick
        BY <2>2, SegmentsGrow
      <4> QED BY <2>3, <4>1, <4>2
    <3> QED BY <2>1, <2>3, <3>1, <3>2
  <2>5. ASSUME NEW m \in (k + 1) + 1..Len(segments) PROVE segments[m].tick > tick + 1
    <3>1. m \in 1..Len(segments) /\ k + 1 \in 1..m /\ k + 1 < m
      BY <1>0
    <3>2. segments[k + 1].tick < segments[m].tick
      BY <3>1, SegmentsGrow
    <3> QED BY <2>4, <3>2
  <2>6. On(segments, tick + 1, k + 1)
    BY <2>2, <2>3, <2>4, <2>5 DEF On
  <2>7. SecondsAt(segments, tick + 1) = segments[k + 1].at + ((tick + 1) - segments[k + 1].tick) * segments[k + 1].tempo
    BY <1>0, <2>6, SecondsAtIs
  <2>8. (tick + 1) - segments[k + 1].tick = 0
    BY <2>4
  <2>9. SecondsAt(segments, tick + 1) = segments[k + 1].at
    <3>1. 0 * segments[k + 1].tempo = 0
      BY <2>3, ProductIs
    <3> QED BY <2>3, <2>7, <2>8, <3>1
  <2>10. segments[k + 1].at = segments[k].at + (segments[k + 1].tick - segments[k].tick) * segments[k].tempo
    BY <2>2 DEF GoodMap
  <2>11. segments[k + 1].tick - segments[k].tick = a + 1
    BY SMTT(30), <1>1, <1>2, <2>4
  <2>12. segments[k + 1].at = segments[k].at + (a + 1) * segments[k].tempo
    BY <2>10, <2>11
  <2>13. PICK p \in Nat : p = a * segments[k].tempo
    BY <1>3
  <2>14. (a + 1) * segments[k].tempo = p + segments[k].tempo
    BY <1>3, <2>13
  <2>15. SecondsAt(segments, tick + 1) = segments[k].at + (p + segments[k].tempo)
    BY <2>9, <2>12, <2>14
  <2>16. SecondsAt(segments, tick) = segments[k].at + p
    BY <1>4, <2>13
  <2> QED BY <1>1, <2>15, <2>16
<1>7. \A l \in k + 1..Len(segments) : segments[l].tick \in Nat
  <2> SUFFICES ASSUME NEW l \in k + 1..Len(segments) PROVE segments[l].tick \in Nat
    OBVIOUS
  <2>1. l \in 1..Len(segments)
    BY <1>0
  <2> QED BY <1>0, <2>1, SegmentIs
<1> QED BY <1>5, <1>6, <1>7

LEMMA SecondsAtStart ==
  ASSUME NEW segments, GoodMap(segments)
  PROVE  SecondsAt(segments, 0) = 0
<1>0. segments \in Seq(Segment) /\ Len(segments) \in Nat /\ 1 \in 1..Len(segments) /\ segments[1].tick = 0 /\ segments[1].at = 0
  BY DEF GoodMap
<1>1. ASSUME NEW l \in 1 + 1..Len(segments) PROVE segments[l].tick > 0
  <2>1. l \in 1..Len(segments) /\ 1 \in 1..l /\ 1 < l
    BY <1>0
  <2>2. segments[1].tick < segments[l].tick
    BY <2>1, SegmentsGrow
  <2> QED BY <1>0, <2>2
<1>2. On(segments, 0, 1)
  BY <1>0, <1>1 DEF On
<1>3. SecondsAt(segments, 0) = segments[1].at + (0 - segments[1].tick) * segments[1].tempo
  BY <1>0, <1>2, SecondsAtIs
<1>4. segments[1].tempo \in Nat
  BY <1>0, SegmentIs
<1>5. 0 * segments[1].tempo = 0
  BY <1>4, ProductIs
<1> QED BY <1>0, <1>3, <1>5

\* A change leaves a tempo map that tells the change's tempo from its tick on, and the
\* old tempo before it.
LEMMA WithChangeIs ==
  ASSUME NEW segments, GoodMap(segments), NEW change \in Event, change.what \in Metas,
         segments[Len(segments)].tick <= change.at
  PROVE  LET after == WithChange(segments, change)
         IN  /\ GoodMap(after) /\ after[Len(after)].tick <= change.at
             /\ \A tick \in Nat : \A k \in 1..Len(segments), l \in 1..Len(after) :
                  On(segments, tick, k) /\ On(after, tick, l) =>
                    after[l].tempo = IF change.what = "tempo" /\ tick >= change.at THEN change.value ELSE segments[k].tempo
<1> DEFINE N == Len(segments)
           last == segments[N]
           renewed == [last EXCEPT !.tick = change.at, !.at = SecondsAt(segments, change.at), ![change.what] = change.value]
           after == WithChange(segments, change)
           Tells(s) == \A tick \in Nat : \A k \in 1..N, l \in 1..Len(s) :
                         On(segments, tick, k) /\ On(s, tick, l) =>
                           s[l].tempo = IF change.what = "tempo" /\ tick >= change.at THEN change.value ELSE segments[k].tempo
<1>0. /\ segments \in Seq(Segment) /\ N \in Nat /\ N >= 1 /\ N \in 1..N
      /\ change.at \in Nat /\ change.value \in Nat
  BY DEF GoodMap, Event
<1>1. last \in Segment /\ last.tick \in Nat /\ last.at \in Nat /\ last.tempo \in Nat /\ last.meter \in Nat /\ last.tick <= change.at
  BY <1>0, SegmentIs
<1>2. On(segments, change.at, N)
  BY <1>0, <1>1 DEF On
<1>3. /\ SecondsAt(segments, change.at) = last.at + (change.at - last.tick) * last.tempo
      /\ SecondsAt(segments, change.at) \in Nat
  BY <1>0, <1>2, SecondsAtIs
<1>4. /\ renewed.tick = change.at /\ renewed.at = SecondsAt(segments, change.at) /\ renewed \in Segment
      /\ renewed.tempo = IF change.what = "tempo" THEN change.value ELSE last.tempo
  <2>1. PICK new : new = renewed
    OBVIOUS
  <2>2. /\ new \in Segment /\ new.tick = change.at /\ new.at = SecondsAt(segments, change.at)
        /\ new.tempo = IF change.what = "tempo" THEN change.value ELSE last.tempo
    <3>1. new = [last EXCEPT !.tick = change.at, !.at = SecondsAt(segments, change.at), ![change.what] = change.value]
      BY Zenon, <2>1
    <3>2. PICK old \in Segment : old = last
      BY <1>1
    <3>3. PICK time \in Nat : time = SecondsAt(segments, change.at)
      BY <1>3
    <3>4. PICK tick \in Nat : tick = change.at
      BY <1>0
    <3>5. PICK value \in Nat : value = change.value
      BY <1>0
    <3>6. PICK field \in Metas : field = change.what
      OBVIOUS
    <3> HIDE DEF last, renewed
    <3>7. new = [old EXCEPT !.tick = tick, !.at = time, ![field] = value]
      BY <3>1, <3>2, <3>3, <3>4, <3>5, <3>6
    <3>8. new \in Segment /\ new.tick = tick /\ new.at = time /\ new.tempo = IF field = "tempo" THEN value ELSE old.tempo
      <4>1. CASE field = "tempo"
        BY <3>7, <4>1 DEF Segment
      <4>2. CASE field = "meter"
        BY <3>7, <4>2 DEF Segment
      <4> QED BY <4>1, <4>2 DEF Metas
    <3> QED BY <3>2, <3>3, <3>4, <3>5, <3>6, <3>8
  <2> HIDE DEF renewed
  <2> QED BY <2>1, <2>2
<1>5. after = IF renewed.tempo = last.tempo /\ renewed.meter = last.meter THEN segments
              ELSE IF change.at = last.tick THEN [segments EXCEPT ![N] = renewed] ELSE Append(segments, renewed)
  BY Zenon DEF WithChange, Newest
<1> HIDE DEF renewed
\* Where a tick is on the map, against the change.
<1>6. ASSUME NEW tick \in Nat, NEW k \in 1..N, On(segments, tick, k)
      PROVE  /\ tick >= change.at => k = N
             /\ tick < last.tick => k < N
  <2>1. tick >= change.at => On(segments, tick, N)
    BY <1>0, <1>1 DEF On
  <2>2. tick >= change.at => k = N
    BY <1>0, <1>6, <2>1, OneSegment
  <2>3. k = N => last.tick <= tick
    BY <1>6 DEF On
  <2> QED BY <1>0, <1>1, <2>2, <2>3
<1>7. CASE after = segments /\ renewed.tempo = last.tempo
  <2>1. ASSUME NEW tick \in Nat, NEW k \in 1..N, NEW l \in 1..N, On(segments, tick, k), On(segments, tick, l)
        PROVE  segments[l].tempo = IF change.what = "tempo" /\ tick >= change.at THEN change.value ELSE segments[k].tempo
    <3>1. k = l
      BY <1>0, <2>1, OneSegment
    <3>2. tick >= change.at => k = N
      BY <1>6, <2>1
    <3> QED BY <1>4, <1>7, <3>1, <3>2
  <2>2. Tells(segments)
    BY <2>1
  <2> HIDE DEF after, Tells
  <2>3. GoodMap(after) /\ after[Len(after)].tick <= change.at /\ Tells(after)
    BY <1>1, <1>7, <2>2
  <2> QED BY <2>3 DEF after, Tells
<1>8. CASE after = [segments EXCEPT ![N] = renewed] /\ change.at = last.tick
  <2>0. PICK s : s = [segments EXCEPT ![N] = renewed]
    OBVIOUS
  <2>1. s \in Seq(Segment) /\ Len(s) = N /\ s[N] = renewed /\ \A i \in 1..N - 1 : s[i] = segments[i]
    BY <1>0, <1>4, <2>0
  <2>2. renewed.tick = last.tick /\ renewed.at = last.at
    <3>1. change.at - last.tick = 0
      BY <1>1, <1>8
    <3>2. 0 * last.tempo = 0
      BY <1>1, ProductIs
    <3> QED BY <1>1, <1>3, <1>4, <1>8, <3>1, <3>2
  <2>3. \A i \in 1..N : s[i].tick = segments[i].tick /\ s[i].at = segments[i].at /\ (i < N => s[i].tempo = segments[i].tempo)
    <3> SUFFICES ASSUME NEW i \in 1..N
                 PROVE  s[i].tick = segments[i].tick /\ s[i].at = segments[i].at /\ (i < N => s[i].tempo = segments[i].tempo)
      OBVIOUS
    <3>1. i = N \/ i \in 1..N - 1
      BY <1>0
    <3> QED BY <1>0, <2>1, <2>2, <3>1
  <2>4. GoodMap(s)
    <3>1. s[1].tick = 0 /\ s[1].at = 0
      BY <1>0, <2>3 DEF GoodMap
    <3>2. ASSUME NEW i \in 1..N - 1
          PROVE s[i].tick < s[i + 1].tick /\ s[i + 1].at = s[i].at + (s[i + 1].tick - s[i].tick) * s[i].tempo
      <4>1. i \in 1..N /\ i + 1 \in 1..N /\ i < N
        BY <1>0
      <4>2. /\ segments[i].tick < segments[i + 1].tick
            /\ segments[i + 1].at = segments[i].at + (segments[i + 1].tick - segments[i].tick) * segments[i].tempo
        BY <3>2 DEF GoodMap
      <4>3. /\ s[i].tick = segments[i].tick /\ s[i].at = segments[i].at /\ s[i].tempo = segments[i].tempo
            /\ s[i + 1].tick = segments[i + 1].tick /\ s[i + 1].at = segments[i + 1].at
        BY <2>3, <4>1
      <4> QED BY <4>2, <4>3
    <3> QED BY <1>0, <2>1, <3>1, <3>2 DEF GoodMap
  <2>5. s[Len(s)].tick <= change.at
    BY <1>0, <1>4, <2>1
  <2>6. ASSUME NEW tick \in Nat, NEW k \in 1..N, NEW l \in 1..N, On(segments, tick, k), On(s, tick, l)
        PROVE  s[l].tempo = IF change.what = "tempo" /\ tick >= change.at THEN change.value ELSE segments[k].tempo
    <3>1. On(segments, tick, l)
      <4>1. segments[l].tick <= tick
        BY <2>3, <2>6 DEF On
      <4>2. ASSUME NEW m \in l + 1..N PROVE segments[m].tick > tick
        <5>1. m \in 1..N /\ m \in l + 1..Len(s)
          BY <1>0, <2>1
        <5>2. s[m].tick > tick
          BY <2>6, <5>1 DEF On
        <5> QED BY <2>3, <5>1, <5>2
      <4> QED BY <4>1, <4>2 DEF On
    <3>2. k = l
      BY <1>0, <2>6, <3>1, OneSegment
    <3>3. CASE tick >= change.at
      <4>1. l = N
        BY <1>6, <3>1, <3>3
      <4>2. k = N /\ s[l] = renewed
        BY <2>1, <3>2, <4>1
      <4> QED BY <1>4, <3>3, <4>2
    <3>4. CASE tick < change.at
      <4>1. l < N
        BY <1>6, <1>8, <3>1, <3>4
      <4>2. s[l].tempo = segments[l].tempo
        BY <2>3, <4>1
      <4> QED BY <1>0, <3>2, <3>4, <4>2
    <3> QED BY <1>0, <3>3, <3>4
  <2>7. Tells(s)
    BY <2>1, <2>6
  <2>8. after = s
    BY <1>8, <2>0
  <2> HIDE DEF after, Tells
  <2>9. GoodMap(after) /\ after[Len(after)].tick <= change.at /\ Tells(after)
    BY <2>4, <2>5, <2>7, <2>8
  <2> QED BY <2>9 DEF after, Tells
<1>9. CASE after = Append(segments, renewed) /\ change.at # last.tick
  <2>0. PICK s : s = Append(segments, renewed)
    OBVIOUS
  <2>1. s \in Seq(Segment) /\ Len(s) = N + 1 /\ s[N + 1] = renewed /\ \A i \in 1..N : s[i] = segments[i]
    BY <1>0, <1>4, <2>0
  <2>2. GoodMap(s)
    <3>1. s[1].tick = 0 /\ s[1].at = 0
      BY <1>0, <2>1 DEF GoodMap
    <3>2. ASSUME NEW i \in 1..N
          PROVE s[i].tick < s[i + 1].tick /\ s[i + 1].at = s[i].at + (s[i + 1].tick - s[i].tick) * s[i].tempo
      <4>1. CASE i = N
        BY SMTT(30), <1>0, <1>1, <1>3, <1>4, <1>9, <2>1, <4>1
      <4>2. CASE i # N
        <5>1. i \in 1..N - 1 /\ i + 1 \in 1..N
          BY <1>0, <4>2
        <5>2. /\ segments[i].tick < segments[i + 1].tick
              /\ segments[i + 1].at = segments[i].at + (segments[i + 1].tick - segments[i].tick) * segments[i].tempo
          BY <5>1 DEF GoodMap
        <5>3. s[i] = segments[i] /\ s[i + 1] = segments[i + 1]
          BY <2>1, <5>1
        <5> QED BY <5>2, <5>3
      <4> QED BY <4>1, <4>2
    <3>3. Len(s) - 1 = N
      BY <1>0, <2>1
    <3> QED BY <1>0, <2>1, <3>1, <3>2, <3>3 DEF GoodMap
  <2>3. s[Len(s)].tick <= change.at
    BY <1>0, <1>4, <2>1
  <2>4. ASSUME NEW tick \in Nat, NEW k \in 1..N, NEW l \in 1..N + 1, On(segments, tick, k), On(s, tick, l)
        PROVE  s[l].tempo = IF change.what = "tempo" /\ tick >= change.at THEN change.value ELSE segments[k].tempo
    <3>1. CASE tick >= change.at
      <4>1. On(s, tick, N + 1)
        <5>1. N + 1 \in 1..Len(s) /\ (N + 1) + 1..Len(s) = {}
          BY <1>0, <2>1
        <5>2. s[N + 1].tick <= tick
          BY <1>4, <2>1, <3>1
        <5> QED BY <5>1, <5>2 DEF On
      <4>2. l = N + 1
        BY <2>1, <2>4, <4>1, OneSegment
      <4>3. k = N
        BY <1>6, <2>4, <3>1
      <4>4. s[l].tempo = renewed.tempo
        BY <2>1, <4>2
      <4> QED BY <1>4, <3>1, <4>3, <4>4
    <3>2. CASE tick < change.at
      <4>1. l # N + 1
        <5>1. l = N + 1 => renewed.tick <= tick
          BY <2>1, <2>4 DEF On
        <5> QED BY <1>0, <1>4, <3>2, <5>1
      <4>2. l \in 1..N /\ s[l] = segments[l]
        BY <1>0, <2>1, <4>1
      <4>3. On(segments, tick, l)
        <5>1. segments[l].tick <= tick
          BY <2>4, <4>2 DEF On
        <5>2. ASSUME NEW m \in l + 1..N PROVE segments[m].tick > tick
          <6>1. m \in 1..N /\ m \in l + 1..Len(s)
            BY <1>0, <2>1, <4>2
          <6>2. s[m].tick > tick
            BY <2>4, <6>1 DEF On
          <6> QED BY <2>1, <6>1, <6>2
        <5> QED BY <4>2, <5>1, <5>2 DEF On
      <4>4. k = l
        BY <1>0, <2>4, <4>3, OneSegment
      <4> QED BY <1>0, <3>2, <4>2, <4>4
    <3> QED BY <1>0, <3>1, <3>2
  <2>5. Tells(s)
    BY <2>1, <2>4
  <2>6. after = s
    BY <1>9, <2>0
  <2> HIDE DEF after, Tells
  <2>7. GoodMap(after) /\ after[Len(after)].tick <= change.at /\ Tells(after)
    BY <2>2, <2>3, <2>5, <2>6
  <2> QED BY <2>7 DEF after, Tells
<1> QED BY <1>5, <1>7, <1>8, <1>9

(***************************************************************************)
(* The tempo map of a file                                                 *)
(***************************************************************************)
SortedChanges(changes) ==
  /\ changes \in Seq(Event) /\ \A n \in 1..Len(changes) : changes[n].what \in Metas
  /\ \A m, n \in 1..Len(changes) : m < n => changes[m].at <= changes[n].at

\* The tempo that the first k changes put in force at a tick.
TempoAfter(changes, k, tick, tempo) ==
  \/ \E n \in 1..k : /\ changes[n].what = "tempo" /\ changes[n].at <= tick /\ changes[n].value = tempo
                     /\ \A m \in n + 1..k : changes[m].what = "tempo" => changes[m].at > tick
  \/ /\ tempo = DefaultTempo
     /\ \A m \in 1..k : changes[m].what = "tempo" => changes[m].at > tick

MapsAfter(changes, k) ==
  {s \in Seq(Segment) :
     /\ GoodMap(s)
     /\ s[Len(s)].tick <= IF k = 0 THEN 0 ELSE changes[k].at
     /\ \A tick \in Nat, l \in 1..Len(s) : On(s, tick, l) => TempoAfter(changes, k, tick, s[l].tempo)}

LEMMA MapBegins ==
  ASSUME NEW changes
  PROVE  <<FirstSegment>> \in MapsAfter(changes, 0)
<1> DEFINE s == <<FirstSegment>>
<1>1. FirstSegment \in Segment /\ FirstSegment.tick = 0 /\ FirstSegment.at = 0 /\ FirstSegment.tempo = DefaultTempo
  BY SmfAssumption DEF FirstSegment, Segment
<1>2. s \in Seq(Segment) /\ Len(s) = 1 /\ s[1] = FirstSegment
  BY <1>1
<1> HIDE DEF s
<1>3. GoodMap(s)
  BY <1>1, <1>2 DEF GoodMap
<1>4. ASSUME NEW tick \in Nat, NEW l \in 1..Len(s) PROVE TempoAfter(changes, 0, tick, s[l].tempo)
  <2>1. l = 1
    BY <1>2
  <2>2. s[l].tempo = DefaultTempo
    BY <1>1, <1>2, <2>1
  <2> QED BY <2>2 DEF TempoAfter
<1>5. s[Len(s)].tick <= 0
  BY <1>1, <1>2
<1>6. s \in MapsAfter(changes, 0)
  BY <1>2, <1>3, <1>4, <1>5 DEF MapsAfter
<1> QED BY <1>6 DEF s

LEMMA MapStep ==
  ASSUME NEW changes, SortedChanges(changes), NEW k \in 1..Len(changes), NEW s \in MapsAfter(changes, k - 1)
  PROVE  WithChange(s, changes[k]) \in MapsAfter(changes, k)
<1>0. /\ changes \in Seq(Event) /\ Len(changes) \in Nat /\ k \in Nat /\ k >= 1
      /\ \A n \in 1..Len(changes) : changes[n] \in Event /\ changes[n].at \in Nat /\ changes[n].what \in Metas
      /\ \A m, n \in 1..Len(changes) : m < n => changes[m].at <= changes[n].at
  <2>1. \A e \in Event : e.at \in Nat
    BY DEF Event
  <2>2. changes \in Seq(Event)
    BY DEF SortedChanges
  <2>3. \A n \in 1..Len(changes) : changes[n] \in Event
    BY <2>2
  <2> QED BY <2>1, <2>2, <2>3 DEF SortedChanges
<1>1. /\ GoodMap(s) /\ s \in Seq(Segment)
      /\ s[Len(s)].tick <= IF k - 1 = 0 THEN 0 ELSE changes[k - 1].at
      /\ \A tick \in Nat, l \in 1..Len(s) : On(s, tick, l) => TempoAfter(changes, k - 1, tick, s[l].tempo)
  BY DEF MapsAfter
<1>2. PICK change \in Event : change = changes[k] /\ change.what \in Metas /\ change.at \in Nat
  BY <1>0
<1>3. s[Len(s)].tick <= change.at
  <2>1. Len(s) \in 1..Len(s)
    BY <1>1 DEF GoodMap
  <2>2. s[Len(s)].tick \in Nat
    BY <1>1, <2>1, SegmentIs
  <2>3. CASE k = 1
    BY <1>1, <1>2, <2>2, <2>3
  <2>4. CASE k # 1
    <3>1. k - 1 \in 1..Len(changes) /\ k - 1 < k /\ k - 1 # 0
      BY <1>0, <2>4
    <3>2. changes[k - 1].at <= change.at /\ changes[k - 1].at \in Nat
      BY <1>0, <1>2, <3>1
    <3> QED BY <1>1, <1>2, <2>2, <3>1, <3>2
  <2> QED BY <2>3, <2>4
<1>4. PICK after : after = WithChange(s, change)
  OBVIOUS
<1>5. /\ GoodMap(after) /\ after[Len(after)].tick <= change.at
      /\ \A tick \in Nat : \A j \in 1..Len(s), l \in 1..Len(after) :
           On(s, tick, j) /\ On(after, tick, l) =>
             after[l].tempo = IF change.what = "tempo" /\ tick >= change.at THEN change.value ELSE s[j].tempo
  BY SMTT(30), <1>1, <1>2, <1>3, <1>4, WithChangeIs
<1>6. ASSUME NEW tick \in Nat, NEW l \in 1..Len(after), On(after, tick, l)
      PROVE  TempoAfter(changes, k, tick, after[l].tempo)
  <2>1. PICK j \in 1..Len(s) : On(s, tick, j)
    BY <1>1, SegmentThere
  <2>2. after[l].tempo = IF change.what = "tempo" /\ tick >= change.at THEN change.value ELSE s[j].tempo
    BY <1>5, <1>6, <2>1
  <2>3. TempoAfter(changes, k - 1, tick, s[j].tempo)
    BY <1>1, <2>1
  <2>4. CASE change.what = "tempo" /\ tick >= change.at
    <3>1. k \in 1..k /\ k + 1..k = {}
      BY <1>0
    <3>2. after[l].tempo = changes[k].value /\ changes[k].what = "tempo" /\ changes[k].at <= tick
      BY <1>2, <2>2, <2>4
    <3> QED BY <3>1, <3>2 DEF TempoAfter
  <2>5. CASE ~(change.what = "tempo" /\ tick >= change.at)
    <3>1. after[l].tempo = s[j].tempo
      BY <2>2, <2>5
    <3>2. changes[k].what = "tempo" => changes[k].at > tick
      BY <1>2, <2>5
    <3>3. \A m \in 1..k : m = k \/ m \in 1..k - 1
      BY <1>0
    <3>4. CASE \E n \in 1..k - 1 : /\ changes[n].what = "tempo" /\ changes[n].at <= tick /\ changes[n].value = s[j].tempo
                                   /\ \A m \in n + 1..k - 1 : changes[m].what = "tempo" => changes[m].at > tick
      <4>1. PICK n \in 1..k - 1 : /\ changes[n].what = "tempo" /\ changes[n].at <= tick /\ changes[n].value = s[j].tempo
                                  /\ \A m \in n + 1..k - 1 : changes[m].what = "tempo" => changes[m].at > tick
        BY <3>4
      <4>2. n \in 1..k /\ \A m \in n + 1..k : m = k \/ m \in n + 1..k - 1
        BY <1>0
      <4>3. \A m \in n + 1..k : changes[m].what = "tempo" => changes[m].at > tick
        BY <3>2, <4>1, <4>2
      <4> QED BY <3>1, <4>1, <4>2, <4>3 DEF TempoAfter
    <3>5. CASE /\ s[j].tempo = DefaultTempo
               /\ \A m \in 1..k - 1 : changes[m].what = "tempo" => changes[m].at > tick
      BY <3>1, <3>2, <3>3, <3>5 DEF TempoAfter
    <3> QED BY <2>3, <3>4, <3>5 DEF TempoAfter
  <2> QED BY <2>4, <2>5
<1>7. after \in Seq(Segment)
  BY <1>5 DEF GoodMap
<1>8. after[Len(after)].tick <= IF k = 0 THEN 0 ELSE changes[k].at
  BY <1>0, <1>2, <1>5
<1> QED BY <1>2, <1>4, <1>5, <1>6, <1>7, <1>8 DEF MapsAfter

\* The map after all the changes.
LEMMA MapIsBuilt ==
  ASSUME NEW changes, SortedChanges(changes)
  PROVE  LET upTo[k \in 0..Len(changes)] == IF k = 0 THEN <<FirstSegment>> ELSE WithChange(upTo[k - 1], changes[k])
         IN  upTo[Len(changes)] \in MapsAfter(changes, Len(changes))
<1> DEFINE n == Len(changes)
           Solution(f) == f = [k \in 0..Len(changes) |-> IF k = 0 THEN <<FirstSegment>> ELSE WithChange(f[k - 1], changes[k])]
           upTo == CHOOSE f : Solution(f)
<1>0. n \in Nat
  BY DEF SortedChanges
<1>1. \E f : Solution(f)
  <2>1. PICK turn : turn = [x \in (1..n) \X Seq(Segment) |-> WithChange(x[2], changes[x[1]])]
    OBVIOUS
  <2>2. PICK D : D = [k \in 0..n |-> MapsAfter(changes, k)]
    OBVIOUS
  <2>3. ASSUME NEW k \in 1..n, NEW x \in D[k - 1]
        PROVE  turn[<<k, x>>] = WithChange(x, changes[k]) /\ turn[<<k, x>>] \in D[k]
    <3>1. x \in MapsAfter(changes, k - 1) /\ D[k] = MapsAfter(changes, k)
      BY <1>0, <2>2
    <3>2. x \in Seq(Segment)
      BY <3>1 DEF MapsAfter
    <3>3. <<k, x>> \in (1..n) \X Seq(Segment)
      BY <3>2
    <3>4. turn[<<k, x>>] = WithChange(x, changes[k])
      BY <2>1, <3>3
    <3>5. WithChange(x, changes[k]) \in MapsAfter(changes, k)
      BY <3>1, MapStep
    <3> QED BY <3>1, <3>4, <3>5
  <2>4. PICK f : Solves(f, n, D, turn, <<FirstSegment>>)
    <3>1. PICK base : base = <<FirstSegment>>
      OBVIOUS
    <3>2. base \in D[0] /\ n \in Nat
      BY <1>0, <2>2, <3>1, MapBegins
    <3> HIDE DEF n, upTo
    <3>3. \E f : Solves(f, n, D, turn, base)
      BY <2>3, <3>2, RecursionHasSolution
    <3> QED BY <3>1, <3>3
  <2>5. \A k \in 0..n : f[k] = IF k = 0 THEN <<FirstSegment>> ELSE WithChange(f[k - 1], changes[k])
    <3> SUFFICES ASSUME NEW k \in 0..n, k # 0 PROVE f[k] = WithChange(f[k - 1], changes[k])
      BY <2>4 DEF Solves
    <3>1. k \in 1..n /\ k - 1 \in 0..n
      BY <1>0
    <3>2. f[k - 1] \in D[k - 1] /\ f[k] = turn[<<k, f[k - 1]>>]
      BY <2>4, <3>1 DEF Solves
    <3> QED BY <2>3, <3>1, <3>2
  <2>6. f = [k \in 0..n |-> IF k = 0 THEN <<FirstSegment>> ELSE WithChange(f[k - 1], changes[k])]
    BY <2>4, <2>5 DEF Solves
  <2> QED BY <2>6
<1>2. Solution(upTo)
  BY Zenon, <1>1
<1>3. upTo[n] \in MapsAfter(changes, n)
  <2> HIDE DEF upTo
  <2>1. \A k \in 0..n : upTo[k] = IF k = 0 THEN <<FirstSegment>> ELSE WithChange(upTo[k - 1], changes[k])
    BY <1>2
  <2> DEFINE T == {k \in Nat : k <= n => upTo[k] \in MapsAfter(changes, k)}
  <2>2. 0 \in T
    BY <1>0, <2>1, MapBegins
  <2>3. ASSUME NEW k \in Nat, k \in T PROVE k + 1 \in T
    <3>1. SUFFICES ASSUME k + 1 <= n PROVE upTo[k + 1] \in MapsAfter(changes, k + 1)
      BY <2>3
    <3>2. k + 1 \in 1..n /\ k + 1 \in 0..n /\ (k + 1) - 1 = k /\ k + 1 # 0 /\ k <= n
      BY <1>0, <3>1
    <3>3. upTo[k + 1] = WithChange(upTo[k], changes[k + 1])
      BY <2>1, <3>2
    <3>4. upTo[k] \in MapsAfter(changes, k)
      BY <2>3, <3>2
    <3>5. PICK j \in 1..n : j = k + 1 /\ j - 1 = k
      BY <3>2
    <3>6. WithChange(upTo[k], changes[j]) \in MapsAfter(changes, j)
      BY <3>4, <3>5, MapStep
    <3> QED BY <3>3, <3>5, <3>6
  <2>4. n \in T
    <3> HIDE DEF T, n
    <3> QED BY <1>0, <2>2, <2>3, AllNaturals
  <2> QED BY <1>0, <2>4
<1> QED BY Zenon, <1>3

\* The last change of tempo in the order of the ticks, the latest of those at one tick
\* last, tells the tempo that the file means.
LEMMA TempoInIs ==
  ASSUME NEW file \in Seq(Tracks), NEW size \in Nat, NEW place \in [1..size -> 1..Len(Listed(file))],
         NEW changes, Len(changes) = size, \A n \in 1..size : changes[n] = Listed(file)[place[n]],
         \A i \in 1..Len(Listed(file)) : Listed(file)[i].what \in Metas => \E n \in 1..size : place[n] = i,
         \A m, n \in 1..size :
           m < n => \/ Listed(file)[place[m]].at < Listed(file)[place[n]].at
                    \/ Listed(file)[place[m]].at = Listed(file)[place[n]].at /\ place[m] < place[n],
         NEW tick \in Nat, NEW tempo, TempoAfter(changes, size, tick, tempo)
  PROVE  tempo = TempoIn(file, tick)
<1> DEFINE all == Listed(file)
           past == {i \in 1..Len(all) : all[i].what = "tempo" /\ all[i].at <= tick}
           latest == {i \in past : \A k \in past : all[k].at < all[i].at \/ (all[k].at = all[i].at /\ k <= i)}
<1>0. all \in Seq(Event) /\ Len(all) \in Nat
  BY ListedIs
<1>1. TempoIn(file, tick) = IF past = {} THEN DefaultTempo ELSE all[CHOOSE i \in latest : TRUE].value
  BY Zenon DEF TempoIn
<1>2. \A i \in 1..Len(all) : all[i].at \in Nat /\ i \in Nat
  <2>1. \A e \in Event : e.at \in Nat
    BY DEF Event
  <2> QED BY <1>0, <2>1
<1>3. ASSUME NEW i \in past PROVE \E n \in 1..size : place[n] = i /\ changes[n] = all[i]
  <2>1. all[i].what \in Metas
    BY DEF Metas
  <2>2. PICK n \in 1..size : place[n] = i
    BY <2>1
  <2> QED BY <2>2
<1>4. CASE \E n \in 1..size : /\ changes[n].what = "tempo" /\ changes[n].at <= tick /\ changes[n].value = tempo
                              /\ \A m \in n + 1..size : changes[m].what = "tempo" => changes[m].at > tick
  <2>1. PICK n \in 1..size : /\ changes[n].what = "tempo" /\ changes[n].at <= tick /\ changes[n].value = tempo
                             /\ \A m \in n + 1..size : changes[m].what = "tempo" => changes[m].at > tick
    BY <1>4
  <2>2. PICK i \in 1..Len(all) : i = place[n]
    OBVIOUS
  <2>3. changes[n] = all[i] /\ i \in past
    BY <2>1, <2>2
  <2>4. ASSUME NEW k \in past PROVE all[k].at < all[i].at \/ (all[k].at = all[i].at /\ k <= i)
    <3>1. PICK m \in 1..size : place[m] = k /\ changes[m] = all[k]
      BY <1>3
    <3>2. ~(m > n)
      <4>1. SUFFICES ASSUME m > n PROVE FALSE
        OBVIOUS
      <4>2. m \in n + 1..size
        BY <4>1
      <4>3. changes[m].at > tick
        BY <2>1, <3>1, <4>2
      <4> QED BY <1>2, <3>1, <4>3
    <3>3. m = n \/ m < n
      BY <3>2
    <3>4. m < n => all[k].at < all[i].at \/ (all[k].at = all[i].at /\ k < i)
      BY <2>2, <3>1
    <3>5. m = n => k = i
      BY <2>2, <3>1
    <3> QED BY <1>2, <3>3, <3>4, <3>5
  <2>5. i \in latest
    BY <2>3, <2>4
  <2>6. \A j \in latest : j = i
    <3> SUFFICES ASSUME NEW j \in latest PROVE j = i
      OBVIOUS
    <3>1. j \in past /\ (all[i].at < all[j].at \/ (all[i].at = all[j].at /\ i <= j))
      BY <2>3
    <3>2. all[j].at < all[i].at \/ (all[j].at = all[i].at /\ j <= i)
      BY <2>4, <3>1
    <3>3. all[i].at \in Nat /\ all[j].at \in Nat /\ i \in Nat /\ j \in Nat
      BY <1>2, <3>1
    <3> HIDE DEF latest, past, all
    <3> QED BY <3>1, <3>2, <3>3
  <2>7. (CHOOSE j \in latest : TRUE) = i
    <3> HIDE DEF latest, past, all
    <3> QED BY <2>5, <2>6
  <2>8. past # {}
    BY <2>3
  <2> HIDE DEF latest, past
  <2> QED BY <1>1, <2>1, <2>3, <2>7, <2>8
<1>5. CASE tempo = DefaultTempo /\ \A m \in 1..size : changes[m].what = "tempo" => changes[m].at > tick
  <2>1. ASSUME NEW i \in past PROVE FALSE
    <3>1. PICK m \in 1..size : place[m] = i /\ changes[m] = all[i]
      BY <1>3
    <3>2. changes[m].at > tick
      BY <1>5, <3>1
    <3> QED BY <1>2, <3>1, <3>2
  <2>2. past = {}
    <3> HIDE DEF past
    <3> QED BY <2>1
  <2> HIDE DEF past, latest
  <2> QED BY <1>1, <1>5, <2>2
<1> QED BY <1>4, <1>5 DEF TempoAfter

LEMMA TempoMapIs ==
  ASSUME NEW file \in Seq(Tracks)
  PROVE  /\ GoodMap(TempoMap(file))
         /\ \A tick \in Nat, l \in 1..Len(TempoMap(file)) :
              On(TempoMap(file), tick, l) => TempoMap(file)[l].tempo = TempoIn(file, tick)
<1> DEFINE all == Listed(file)
           metas == {i \in 1..Len(all) : all[i].what \in Metas}
           ticks == [i \in 1..Len(all) |-> all[i].at]
           changes == Ordered(all, metas, ticks)
           size == Cardinality(metas)
<1>0. all \in Seq(Event) /\ Len(all) \in Nat /\ \A i \in 1..Len(all) : all[i] \in Event /\ all[i].at \in Nat /\ ticks[i] = all[i].at
  <2>1. \A e \in Event : e.at \in Nat
    BY DEF Event
  <2> QED BY <2>1, ListedIs
<1>1. IsFiniteSet(metas) /\ metas \subseteq Nat /\ \A k \in metas : ticks[k] \in Nat
  <2>1. IsFiniteSet(1..Len(all))
    BY <1>0, FS_Interval
  <2>2. metas \in SUBSET (1..Len(all))
    OBVIOUS
  <2>3. IsFiniteSet(metas)
    <3> HIDE DEF metas
    <3> QED BY <2>1, <2>2, FS_Subset
  <2> QED BY <1>0, <2>2, <2>3
<1>2. size \in Nat /\ \E place : InOrder(all, metas, ticks, place)
  <2> HIDE DEF all, metas, ticks
  <2> QED BY <1>1, OrderedIs
<1>3. PICK place \in [1..size -> metas] :
        /\ changes = [n \in 1..size |-> all[place[n]]]
        /\ \A k \in metas : \E n \in 1..size : place[n] = k
        /\ \A m, n \in 1..size :
             m < n => ticks[place[m]] < ticks[place[n]] \/ (ticks[place[m]] = ticks[place[n]] /\ place[m] < place[n])
  <2> HIDE DEF all, metas, ticks
  <2> QED BY <1>2 DEF InOrder
<1>4. PICK c : c = changes
  OBVIOUS
<1>5. c = [n \in 1..size |-> all[place[n]]]
  BY <1>3, <1>4
<1>6. TempoMap(file) = LET upTo[k \in 0..Len(changes)] == IF k = 0 THEN <<FirstSegment>> ELSE WithChange(upTo[k - 1], changes[k])
                       IN  upTo[Len(changes)]
  BY Zenon DEF TempoMap
<1>7. TempoMap(file) = LET upTo[k \in 0..Len(c)] == IF k = 0 THEN <<FirstSegment>> ELSE WithChange(upTo[k - 1], c[k])
                       IN  upTo[Len(c)]
  BY Zenon, <1>4, <1>6
<1> HIDE DEF changes, size
<1>8. \A n \in 1..size : /\ place[n] \in metas /\ place[n] \in 1..Len(all) /\ all[place[n]].what \in Metas
                         /\ all[place[n]] \in Event /\ c[n] = all[place[n]]
  <2>1. \A k \in metas : k \in 1..Len(all) /\ all[k].what \in Metas
    OBVIOUS
  <2> HIDE DEF metas, all
  <2> QED BY <1>0, <1>5, <2>1
<1>9. Len(c) = size /\ c \in Seq(Event)
  <2> HIDE DEF all, metas, ticks
  <2> QED BY <1>2, <1>5, <1>8
<1>10. \A m, n \in 1..size : m < n => \/ all[place[m]].at < all[place[n]].at
                                      \/ all[place[m]].at = all[place[n]].at /\ place[m] < place[n]
  <2> HIDE DEF metas
  <2>1. \A n \in 1..size : ticks[place[n]] = all[place[n]].at
    BY <1>0, <1>8
  <2> HIDE DEF all, ticks
  <2> QED BY <1>3, <2>1
<1>11. SortedChanges(c)
  <2> HIDE DEF all, metas, ticks
  <2>1. \A m, n \in 1..size : m < n => c[m].at <= c[n].at
    <3> SUFFICES ASSUME NEW m \in 1..size, NEW n \in 1..size, m < n PROVE c[m].at <= c[n].at
      OBVIOUS
    <3>1. c[m] = all[place[m]] /\ c[n] = all[place[n]] /\ all[place[m]].at \in Nat /\ all[place[n]].at \in Nat
      BY <1>0, <1>8
    <3>2. all[place[m]].at < all[place[n]].at \/ all[place[m]].at = all[place[n]].at
      BY <1>10
    <3> QED BY <3>1, <3>2
  <2> QED BY <1>8, <1>9, <2>1 DEF SortedChanges
<1>12. TempoMap(file) \in MapsAfter(c, size)
  <2> HIDE DEF all, metas, ticks
  <2>1. (LET upTo[k \in 0..Len(c)] == IF k = 0 THEN <<FirstSegment>> ELSE WithChange(upTo[k - 1], c[k])
         IN  upTo[Len(c)]) \in MapsAfter(c, Len(c))
    BY <1>11, MapIsBuilt
  <2>2. TempoMap(file) \in MapsAfter(c, Len(c))
    BY Zenon, <1>7, <2>1
  <2> QED BY <1>9, <2>2
<1>13. ASSUME NEW tick \in Nat, NEW l \in 1..Len(TempoMap(file)), On(TempoMap(file), tick, l)
       PROVE  TempoMap(file)[l].tempo = TempoIn(file, tick)
  <2>1. PICK tempo : tempo = TempoMap(file)[l].tempo
    OBVIOUS
  <2>2. TempoAfter(c, size, tick, tempo)
    BY <1>12, <1>13, <2>1 DEF MapsAfter
  <2>3. place \in [1..size -> 1..Len(Listed(file))]
    OBVIOUS
  <2>4. \A i \in 1..Len(Listed(file)) : Listed(file)[i].what \in Metas => \E n \in 1..size : place[n] = i
    BY <1>3
  <2>5. \A n \in 1..size : c[n] = Listed(file)[place[n]]
    BY <1>8
  <2>6. \A m, n \in 1..size : m < n => \/ Listed(file)[place[m]].at < Listed(file)[place[n]].at
                                       \/ Listed(file)[place[m]].at = Listed(file)[place[n]].at /\ place[m] < place[n]
    BY Zenon, <1>10
  <2> HIDE DEF all, metas, ticks
  <2>7. tempo = TempoIn(file, tick)
    <3>1. size \in Nat /\ Len(c) = size
      BY <1>2, <1>9
    <3> QED BY ZenonT(60), <3>1, <2>2, <2>3, <2>4, <2>5, <2>6, TempoInIs
  <2> QED BY <2>1, <2>7
<1>14. GoodMap(TempoMap(file))
  BY <1>12 DEF MapsAfter
<1> QED BY <1>13, <1>14

\* The map counts the time as the file means it, tick for tick.
LEMMA TimeIs ==
  ASSUME NEW file \in Seq(Tracks), NEW tick \in Nat
  PROVE  TimeAt(file, tick) = SecondsAt(TempoMap(file), tick) /\ TimeAt(file, tick) \in Nat
<1> DEFINE Solution(f) == f = [k \in 0..tick |-> IF k = 0 THEN 0 ELSE f[k - 1] + TempoIn(file, k - 1)]
           gone == CHOOSE f : Solution(f)
<1>1. TimeAt(file, tick) = gone[tick]
  BY Zenon DEF TimeAt
<1>2. PICK map : map = TempoMap(file)
  OBVIOUS
<1>3. GoodMap(map) /\ map \in Seq(Segment)
  BY <1>2, TempoMapIs DEF GoodMap
<1>4. ASSUME NEW k \in Nat PROVE SecondsAt(map, k + 1) = SecondsAt(map, k) + TempoIn(file, k) /\ SecondsAt(map, k) \in Nat
  <2>1. PICK l \in 1..Len(map) : On(map, k, l)
    BY <1>3, SegmentThere
  <2>2. map[l].tempo = TempoIn(file, k)
    BY <1>2, <2>1, TempoMapIs
  <2> QED BY <1>3, <2>1, <2>2, SecondsAtGrows, SecondsAtIs
<1>5. SecondsAt(map, 0) = 0
  BY <1>3, SecondsAtStart
<1>6. \E f : Solution(f)
  <2>1. PICK f : f = [k \in 0..tick |-> SecondsAt(map, k)]
    OBVIOUS
  <2>2. \A k \in 0..tick : f[k] = IF k = 0 THEN 0 ELSE f[k - 1] + TempoIn(file, k - 1)
    <3> SUFFICES ASSUME NEW k \in 0..tick PROVE f[k] = IF k = 0 THEN 0 ELSE f[k - 1] + TempoIn(file, k - 1)
      OBVIOUS
    <3>1. CASE k = 0
      BY <1>5, <2>1, <3>1
    <3>2. CASE k # 0
      <4>1. PICK j \in Nat : j = k - 1 /\ j + 1 = k /\ j \in 0..tick
        BY <3>2
      <4>2. f[k] = SecondsAt(map, j + 1) /\ f[j] = SecondsAt(map, j)
        BY <2>1, <4>1
      <4> QED BY <1>4, <3>2, <4>1, <4>2
    <3> QED BY <3>1, <3>2
  <2>3. f = [k \in 0..tick |-> IF k = 0 THEN 0 ELSE f[k - 1] + TempoIn(file, k - 1)]
    BY <2>1, <2>2
  <2> QED BY <2>3
<1>7. Solution(gone)
  BY Zenon, <1>6
<1> HIDE DEF gone
<1>8. \A k \in 0..tick : gone[k] = IF k = 0 THEN 0 ELSE gone[k - 1] + TempoIn(file, k - 1)
  BY <1>7
<1> DEFINE T == {k \in Nat : k <= tick => gone[k] = SecondsAt(map, k)}
<1>9. 0 \in T
  BY <1>5, <1>8
<1>10. ASSUME NEW k \in Nat, k \in T PROVE k + 1 \in T
  <2>1. SUFFICES ASSUME k + 1 <= tick PROVE gone[k + 1] = SecondsAt(map, k + 1)
    BY <1>10
  <2>2. k + 1 \in 0..tick /\ (k + 1) - 1 = k /\ k + 1 # 0 /\ k <= tick
    BY <2>1
  <2>3. gone[k + 1] = gone[k] + TempoIn(file, k)
    BY <1>8, <2>2
  <2>4. gone[k] = SecondsAt(map, k)
    BY <1>10, <2>2
  <2> QED BY <1>4, <2>3, <2>4
<1>11. tick \in T
  <2> HIDE DEF T
  <2> QED BY <1>9, <1>10, AllNaturals
<1>12. gone[tick] = SecondsAt(map, tick)
  BY <1>11
<1> QED BY <1>1, <1>2, <1>4, <1>12

(***************************************************************************)
(* The schedule of a file                                                  *)
(***************************************************************************)
Played == [track : Nat, index : Nat, at : Nat, on : BOOLEAN]

LEMMA SampleIs ==
  ASSUME NEW time \in Nat
  PROVE  Sample(time) \in Nat
<1>1. Rate \in Nat /\ Scale \in Nat /\ Scale > 0
  BY SmfAssumption
<1>2. PICK p \in Nat : p = time * Rate
  BY <1>1, ProductIs
<1>3. p \div Scale \in Nat
  BY <1>1
<1> QED BY <1>2, <1>3 DEF Sample

LEMMA BoundThere ==
  ASSUME NEW n \in Nat, NEW f, \A i \in 1..n : f[i] \in Nat
  PROVE  \E bound \in Nat : \A i \in 1..n : f[i] <= bound
<1> DEFINE T == {m \in Nat : m <= n => \E bound \in Nat : \A i \in 1..m : f[i] <= bound}
<1>1. 0 \in T
  <2>1. \A i \in 1..0 : f[i] <= 0
    OBVIOUS
  <2> QED BY <2>1
<1>2. ASSUME NEW m \in Nat, m \in T PROVE m + 1 \in T
  <2>1. SUFFICES ASSUME m + 1 <= n PROVE \E bound \in Nat : \A i \in 1..m + 1 : f[i] <= bound
    BY <1>2
  <2>2. PICK b \in Nat : \A i \in 1..m : f[i] <= b
    BY <1>2, <2>1
  <2>3. f[m + 1] \in Nat
    BY <2>1
  <2>4. PICK c \in Nat : c = b + f[m + 1]
    BY <2>3
  <2>5. ASSUME NEW i \in 1..m + 1 PROVE f[i] <= c
    <3>1. CASE i = m + 1
      BY <2>3, <2>4, <3>1
    <3>2. CASE i # m + 1
      <4>1. i \in 1..m /\ f[i] \in Nat
        BY <2>1, <3>2
      <4> QED BY <2>2, <2>3, <2>4, <4>1
    <3> QED BY <3>1, <3>2
  <2> QED BY <2>5
<1>3. n \in T
  <2> HIDE DEF T
  <2> QED BY <1>1, <1>2, AllNaturals
<1> QED BY <1>3

LEMMA LargestIs ==
  ASSUME NEW n \in Nat, NEW f, \A i \in 1..n : f[i] \in Nat
  PROVE  /\ Largest({0} \cup {f[i] : i \in 1..n}) \in Nat
         /\ \A i \in 1..n : f[i] <= Largest({0} \cup {f[i_1] : i_1 \in 1..n})
<1> DEFINE S == {0} \cup {f[i] : i \in 1..n}
<1>1. PICK bound \in Nat : \A i \in 1..n : f[i] <= bound
  BY BoundThere
<1>2. S \in SUBSET (0..bound) /\ S # {}
  BY <1>1
<1>3. \E m \in S : \A k \in S : k <= m
  <2> HIDE DEF S
  <2> QED BY <1>2, LargestNatural
<1>4. Largest(S) \in S /\ \A k \in S : k <= Largest(S)
  <2> HIDE DEF S
  <2> QED BY <1>3 DEF Largest
<1>5. \A i \in 1..n : f[i] \in S
  OBVIOUS
<1>6. Largest(S) \in Nat /\ \A i \in 1..n : f[i] <= Largest(S)
  <2>1. PICK top : top = Largest(S)
    OBVIOUS
  <2> HIDE DEF S
  <2>2. top \in 0..bound
    BY <1>2, <1>4, <2>1
  <2>3. \A i \in 1..n : f[i] <= top
    BY <1>4, <1>5, <2>1
  <2> QED BY <2>1, <2>2, <2>3
<1> QED BY <1>6

\* The segments without their ticks.
Entry == [at : Nat, tempo : Nat, meter : Nat]
EntriesOf(segments) == [i \in 1..Len(segments) |-> [at |-> segments[i].at, tempo |-> segments[i].tempo, meter |-> segments[i].meter]]

\* The events are the notes of the file, each once the preroll is over at its time.
PlaysNotes(events, file, preroll) ==
  /\ \A n \in 1..Len(events) : \E i \in 1..Len(Listed(file)) :
       /\ Listed(file)[i].what \in Notes
       /\ events[n].track = Listed(file)[i].track /\ events[n].index = Listed(file)[i].index
       /\ events[n].at = Sample(TimeAt(file, Listed(file)[i].at)) + preroll
  /\ \A i \in 1..Len(Listed(file)) : Listed(file)[i].what \in Notes =>
       \E n \in 1..Len(events) :
         /\ events[n].track = Listed(file)[i].track /\ events[n].index = Listed(file)[i].index
         /\ events[n].at = Sample(TimeAt(file, Listed(file)[i].at)) + preroll

\* The notes of a file are scheduled in order, each at the sample its tick gives, and
\* the song goes on after the last of them.
LEMMA ScheduleIs ==
  ASSUME NEW file \in Seq(Tracks), NEW preroll \in Nat, NEW song, song = ScheduleOf(file, preroll)
  PROVE  /\ song.events \in Seq(Played) /\ song.total \in Nat /\ song.total >= preroll
         /\ song.map = EntriesOf(TempoMap(file))
         /\ song.origin = preroll
         /\ \A m, n \in 1..Len(song.events) : m < n => song.events[m].at <= song.events[n].at
         /\ \A n \in 1..Len(song.events) : song.events[n].at < song.total
         /\ PlaysNotes(song.events, file, preroll)
<1> DEFINE map == TempoMap(file)
           all == Listed(file)
           notes == {i \in 1..Len(all) : all[i].what \in Notes}
           sample == [i \in 1..Len(all) |-> Sample(SecondsAt(map, all[i].at))]
           shifted == [i \in 1..Len(all) |-> [track |-> all[i].track, index |-> all[i].index, at |-> sample[i] + preroll,
                                              on |-> all[i].what = "on"]]
           largest == Largest({0} \cup {sample[i] : i \in 1..Len(all)})
<1>1. song = [events |-> Ordered(shifted, notes, sample),
              total |-> largest + TailFrames + preroll,
              map |-> EntriesOf(map),
              origin |-> preroll]
  BY Zenon DEF ScheduleOf, EntriesOf
<1>2. /\ song.events = Ordered(shifted, notes, sample) /\ song.total = largest + TailFrames + preroll
      /\ song.map = EntriesOf(map) /\ song.origin = preroll
  <2> HIDE DEF map, notes, sample, shifted, largest
  <2> QED BY <1>1
<1>0. /\ all \in Seq(Event) /\ Len(all) \in Nat
      /\ \A i \in 1..Len(all) : /\ all[i].at \in Nat /\ all[i].track \in Nat /\ all[i].index \in Nat /\ i \in Nat
  <2>1. \A e \in Event : e.at \in Nat /\ e.track \in Nat /\ e.index \in Nat
    BY DEF Event
  <2> QED BY <2>1, ListedIs
<1>3. \A i \in 1..Len(all) : sample[i] = Sample(TimeAt(file, all[i].at)) /\ sample[i] \in Nat
  <2> SUFFICES ASSUME NEW i \in 1..Len(all) PROVE sample[i] = Sample(TimeAt(file, all[i].at)) /\ sample[i] \in Nat
    OBVIOUS
  <2>1. PICK tick \in Nat : tick = all[i].at
    BY <1>0
  <2>2. TimeAt(file, tick) = SecondsAt(map, tick) /\ TimeAt(file, tick) \in Nat
    BY TimeIs
  <2>3. sample[i] = Sample(SecondsAt(map, tick))
    BY <2>1
  <2> QED BY <2>1, <2>2, <2>3, SampleIs
<1>4. /\ largest \in Nat
      /\ \A i \in 1..Len(all) : sample[i] <= largest
  <2> HIDE DEF all, sample
  <2> QED BY <1>0, <1>3, LargestIs
<1>5. TailFrames \in Nat /\ TailFrames > 0
  BY SmfAssumption
<1>6. IsFiniteSet(notes) /\ notes \subseteq Nat /\ \A k \in notes : sample[k] \in Nat
  <2>1. IsFiniteSet(1..Len(all))
    BY <1>0, FS_Interval
  <2>2. notes \in SUBSET (1..Len(all))
    OBVIOUS
  <2> HIDE DEF notes, sample
  <2>3. IsFiniteSet(notes)
    BY <2>1, <2>2, FS_Subset
  <2> QED BY <1>0, <1>3, <2>2, <2>3
<1> DEFINE size == Cardinality(notes)
<1>7. size \in Nat /\ \E place : InOrder(shifted, notes, sample, place)
  <2> HIDE DEF all, notes, sample, shifted
  <2> QED BY <1>6, OrderedIs
<1>8. PICK place \in [1..size -> notes] :
        /\ song.events = [n \in 1..size |-> shifted[place[n]]]
        /\ \A k \in notes : \E n \in 1..size : place[n] = k
        /\ \A m, n \in 1..size :
             m < n => sample[place[m]] < sample[place[n]] \/ (sample[place[m]] = sample[place[n]] /\ place[m] < place[n])
  <2> HIDE DEF all, notes, sample, shifted
  <2> QED BY <1>2, <1>7 DEF InOrder
<1>9. \A i \in 1..Len(all) : /\ shifted[i] \in Played /\ shifted[i].track = all[i].track /\ shifted[i].index = all[i].index
                             /\ shifted[i].at = sample[i] + preroll
  <2> SUFFICES ASSUME NEW i \in 1..Len(all)
               PROVE  /\ shifted[i] \in Played /\ shifted[i].track = all[i].track /\ shifted[i].index = all[i].index
                      /\ shifted[i].at = sample[i] + preroll
    OBVIOUS
  <2>1. shifted[i] = [track |-> all[i].track, index |-> all[i].index, at |-> sample[i] + preroll, on |-> all[i].what = "on"]
    OBVIOUS
  <2>2. sample[i] + preroll \in Nat
    BY <1>3
  <2>3. (all[i].what = "on") \in BOOLEAN
    OBVIOUS
  <2>4. [track |-> all[i].track, index |-> all[i].index, at |-> sample[i] + preroll, on |-> all[i].what = "on"] \in Played
    BY <1>0, <2>2, <2>3 DEF Played
  <2> HIDE DEF shifted, sample, all
  <2> QED BY <2>1, <2>4
<1>10. \A k \in notes : k \in 1..Len(all) /\ all[k].what \in Notes
  OBVIOUS
<1>11. \A i \in 1..Len(all) : all[i].what \in Notes => i \in notes
  OBVIOUS
<1> HIDE DEF map, all, notes, sample, shifted, largest, size
<1>12. \A n \in 1..size : song.events[n] = shifted[place[n]] /\ place[n] \in notes /\ place[n] \in 1..Len(all)
  BY <1>8, <1>10
<1>13. song.events \in Seq(Played) /\ Len(song.events) = size
  <2>1. \A n \in 1..size : shifted[place[n]] \in Played
    BY <1>9, <1>12
  <2>2. PICK events : events = [n \in 1..size |-> shifted[place[n]]]
    OBVIOUS
  <2>3. events \in Seq(Played) /\ Len(events) = size
    BY <1>7, <2>1, <2>2
  <2> QED BY <1>8, <2>2, <2>3
<1>14. ASSUME NEW m \in 1..size, NEW n \in 1..size, m < n PROVE song.events[m].at <= song.events[n].at
  <2>1. song.events[m].at = sample[place[m]] + preroll /\ song.events[n].at = sample[place[n]] + preroll
    BY <1>9, <1>12
  <2>2. sample[place[m]] \in Nat /\ sample[place[n]] \in Nat
    BY <1>3, <1>12
  <2>3. sample[place[m]] < sample[place[n]] \/ sample[place[m]] = sample[place[n]]
    BY <1>8, <1>14
  <2> QED BY <2>1, <2>2, <2>3
<1>15. ASSUME NEW n \in 1..size PROVE song.events[n].at < song.total
  <2>1. song.events[n].at = sample[place[n]] + preroll /\ sample[place[n]] <= largest /\ sample[place[n]] \in Nat
    BY <1>3, <1>4, <1>9, <1>12
  <2> QED BY <1>2, <1>4, <1>5, <2>1
<1>16. ASSUME NEW n \in 1..size
       PROVE  \E i \in 1..Len(all) :
                /\ all[i].what \in Notes
                /\ song.events[n].track = all[i].track /\ song.events[n].index = all[i].index
                /\ song.events[n].at = Sample(TimeAt(file, all[i].at)) + preroll
  BY SMTT(30), <1>3, <1>9, <1>10, <1>12
<1>17. ASSUME NEW i \in 1..Len(all), all[i].what \in Notes
       PROVE  \E n \in 1..size :
                /\ song.events[n].track = all[i].track /\ song.events[n].index = all[i].index
                /\ song.events[n].at = Sample(TimeAt(file, all[i].at)) + preroll
  <2>1. PICK n \in 1..size : place[n] = i
    BY <1>8, <1>11, <1>17
  <2> QED BY <1>3, <1>9, <1>12, <2>1
<1>18. song.total \in Nat /\ song.total >= preroll
  BY <1>2, <1>4, <1>5
<1> QED BY <1>2, <1>13, <1>14, <1>15, <1>16, <1>17, <1>18 DEF all, map, PlaysNotes

(***************************************************************************)
(* The transport of a song                                                 *)
(***************************************************************************)
\* The segments in seconds: one of a valid tempo takes its time.
GoodEntries(map) ==
  /\ map \in Seq(Entry) /\ Len(map) >= 1
  /\ \A i, j \in 1..Len(map) : i < j => map[i].at <= map[j].at
  /\ \A i, j \in 1..Len(map) : i < j /\ map[i].tempo > 0 => map[i].at < map[j].at

LEMMA EntryIs ==
  ASSUME NEW map \in Seq(Entry), NEW i \in 1..Len(map)
  PROVE  i \in Nat /\ map[i] \in Entry /\ map[i].at \in Nat /\ map[i].tempo \in Nat /\ map[i].meter \in Nat
<1>1. map[i] \in Entry /\ i \in Nat
  OBVIOUS
<1> QED BY <1>1 DEF Entry

LEMMA EntriesAre ==
  ASSUME NEW segments, GoodMap(segments), NEW map, map = EntriesOf(segments)
  PROVE  /\ GoodEntries(map) /\ Len(map) = Len(segments)
         /\ \A i \in 1..Len(map) : map[i].at = segments[i].at /\ map[i].tempo = segments[i].tempo
<1> DEFINE n == Len(segments)
<1>1. segments \in Seq(Segment) /\ n \in Nat /\ n >= 1
  BY DEF GoodMap
<1>2. Len(map) = n /\ map \in Seq(Entry) /\ \A i \in 1..n : map[i].at = segments[i].at /\ map[i].tempo = segments[i].tempo
  <2>1. ASSUME NEW i \in 1..n
        PROVE  [at |-> segments[i].at, tempo |-> segments[i].tempo, meter |-> segments[i].meter] \in Entry
    BY <1>1, SegmentIs DEF Entry
  <2>2. PICK entry : entry = [i \in 1..n |-> [at |-> segments[i].at, tempo |-> segments[i].tempo, meter |-> segments[i].meter]]
    OBVIOUS
  <2>3. \A i \in 1..n : /\ entry[i] \in Entry
                         /\ entry[i].at = segments[i].at /\ entry[i].tempo = segments[i].tempo
    BY <2>1, <2>2
  <2>4. map = [i \in 1..n |-> entry[i]]
    BY <2>2 DEF EntriesOf
  <2> HIDE DEF n
  <2>5. map \in Seq(Entry) /\ Len(map) = n /\ \A i \in 1..n : map[i] = entry[i]
    BY SMTT(30), <1>1, <2>3, <2>4
  <2> QED BY ZenonT(60), <2>3, <2>5
<1>3. ASSUME NEW i \in 1..n, NEW j \in 1..n, i < j PROVE map[i].at <= map[j].at
  <2>1. i \in 1..j
    BY <1>1, <1>3
  <2>2. segments[i].at <= segments[j].at
    BY <2>1, SegmentsGrow
  <2> QED BY <1>2, <2>2
<1>4. ASSUME NEW i \in 1..n, NEW j \in 1..n, i < j, map[i].tempo > 0 PROVE map[i].at < map[j].at
  <2>1. i \in 1..n - 1 /\ i + 1 \in 1..n /\ i + 1 \in 1..j
    BY <1>1, <1>4
  <2>2. segments[i + 1].at <= segments[j].at
    BY <2>1, SegmentsGrow
  <2>3. /\ segments[i].tick < segments[i + 1].tick
        /\ segments[i + 1].at = segments[i].at + (segments[i + 1].tick - segments[i].tick) * segments[i].tempo
    BY <2>1 DEF GoodMap
  <2>4. /\ segments[i].tick \in Nat /\ segments[i + 1].tick \in Nat /\ segments[i].at \in Nat /\ segments[j].at \in Nat
        /\ segments[i + 1].at \in Nat /\ segments[i].tempo \in Nat /\ segments[i].tempo > 0
    BY <1>1, <1>2, <1>4, <2>1, SegmentIs
  <2>5. PICK d \in Nat : d + 1 = segments[i + 1].tick - segments[i].tick
    <3>1. PICK x \in Nat : x = segments[i].tick
      BY <2>4
    <3>2. PICK y \in Nat : y = segments[i + 1].tick
      BY <2>4
    <3>3. x < y
      BY <2>3, <3>1, <3>2
    <3>4. PICK d \in Nat : d = (y - x) - 1
      BY <3>3
    <3>5. d + 1 = y - x
      BY <3>4
    <3> QED BY <3>1, <3>2, <3>5
  <2>6. PICK v \in Nat : v = segments[i].tempo
    BY <2>4
  <2>7. (d + 1) * v = d * v + v /\ d * v \in Nat
    BY ProductIs
  <2>8. segments[i + 1].at = segments[i].at + (d * v + v)
    BY <2>3, <2>5, <2>6, <2>7
  <2>9. segments[i].at < segments[i + 1].at
    <3>1. PICK x \in Nat : x = segments[i].at
      BY <2>4
    <3>2. PICK q \in Nat : q = d * v
      BY <2>7
    <3>3. segments[i + 1].at = x + (q + v) /\ v > 0
      BY <2>4, <2>6, <2>8, <3>1, <3>2
    <3>4. x < x + (q + v)
      BY <3>3
    <3> QED BY <3>1, <3>3, <3>4
  <2> QED BY <1>2, <2>2, <2>4, <2>9
<1> QED BY <1>1, <1>2, <1>3, <1>4 DEF GoodEntries

\* What of the first k segments a transport holds: the kept ones at their places, in order,
\* and each segment of a valid tempo from the first of them on told by the latest of them.
\* It has lost segments only if it is full.
Holds(map, kept, k, size, place) ==
  /\ kept \in Seq(Entry) /\ Len(kept) = size /\ size \in 1..MaxSegments
  /\ place \in [1..size -> 1..k]
  /\ \A j \in 1..size : kept[j] = map[place[j]] /\ map[place[j]].tempo > 0 /\ place[j] + (size - j) <= k
  /\ \A i, j \in 1..size : i < j => place[i] < place[j]
  /\ size < MaxSegments => place[1] = 1
  /\ \A i \in place[1]..k : map[i].tempo > 0 =>
       \E j \in 1..size : /\ place[j] <= i /\ \A l \in j + 1..size : place[l] > i
                          /\ map[i].tempo = map[place[j]].tempo

Keeps(map, kept, k) == \E size, place : Holds(map, kept, k, size, place)

LEMMA TransportBegins ==
  ASSUME NEW map, GoodEntries(map), map[1].tempo > 0
  PROVE  Keeps(map, <<map[1]>>, 1)
<1> DEFINE kept == <<map[1]>>
<1>0. MaxSegments \in Nat /\ MaxSegments > 0
  BY SmfAssumption
<1>1. map[1] \in Entry
  BY EntryIs DEF GoodEntries
<1>2. kept \in Seq(Entry) /\ Len(kept) = 1 /\ kept[1] = map[1]
  BY <1>1
<1>3. PICK place : place = [j \in 1..1 |-> 1]
  OBVIOUS
<1>4. place \in [1..1 -> 1..1] /\ place[1] = 1
  BY <1>3
<1> HIDE DEF kept
<1>5. Holds(map, kept, 1, 1, place)
  BY <1>0, <1>2, <1>4 DEF Holds
<1>6. Keeps(map, kept, 1)
  BY <1>5 DEF Keeps
<1> QED BY <1>6 DEF kept

\* A push keeps it so: a refused segment is one of no tempo or of the tempo there is, and
\* the first of a full transport goes.
LEMMA PushKeeps ==
  ASSUME NEW map, GoodEntries(map), NEW k \in 1..Len(map) - 1, NEW kept, Keeps(map, kept, k)
  PROVE  Keeps(map, Pushed(kept, map[k + 1]), k + 1)
<1>0. MaxSegments \in Nat /\ MaxSegments > 0 /\ map \in Seq(Entry) /\ Len(map) \in Nat /\ k \in Nat /\ k + 1 \in 1..Len(map)
  BY SmfAssumption DEF GoodEntries
<1>1. PICK size, place : Holds(map, kept, k, size, place)
  BY DEF Keeps
<1>2. /\ kept \in Seq(Entry) /\ Len(kept) = size /\ size \in 1..MaxSegments /\ size \in Nat
      /\ place \in [1..size -> 1..k]
      /\ \A j \in 1..size : kept[j] = map[place[j]] /\ map[place[j]].tempo > 0 /\ place[j] + (size - j) <= k
      /\ \A i, j \in 1..size : i < j => place[i] < place[j]
      /\ size < MaxSegments => place[1] = 1
      /\ \A i \in place[1]..k : map[i].tempo > 0 =>
           \E j \in 1..size : /\ place[j] <= i /\ \A l \in j + 1..size : place[l] > i
                              /\ map[i].tempo = map[place[j]].tempo
  <2>1. size \in 1..MaxSegments
    BY <1>1 DEF Holds
  <2>2. size \in Nat
    BY <1>0, <2>1
  <2> QED BY Zenon, <1>1, <2>2 DEF Holds
<1>3. 1 \in 1..size /\ size \in 1..size /\ \A j \in 1..size : place[j] \in 1..k /\ place[j] \in Nat /\ place[j] \in 1..Len(map)
  <2>1. 1 \in 1..size /\ size \in 1..size
    BY <1>0, <1>2
  <2>2. \A j \in 1..size : place[j] \in 1..k
    BY <1>2
  <2>3. \A x \in 1..k : x \in Nat /\ x \in 1..Len(map)
    BY <1>0
  <2> QED BY <2>1, <2>2, <2>3
<1>4. PICK change : change = map[k + 1]
  OBVIOUS
<1>5. change \in Entry /\ change.at \in Nat /\ change.tempo \in Nat /\ change.meter \in Nat
  BY <1>0, <1>4, EntryIs
<1>6. PICK last : last = Newest(kept)
  OBVIOUS
<1>7. last = map[place[size]] /\ last.at \in Nat /\ last.tempo \in Nat /\ last.tempo > 0 /\ last.at < change.at
  <2>1. last = map[place[size]]
    BY <1>2, <1>3, <1>6 DEF Newest
  <2>2. place[size] < k + 1 /\ place[size] \in 1..Len(map)
    BY <1>0, <1>3
  <2>3. map[place[size]].tempo > 0
    BY <1>2, <1>3
  <2>4. map[place[size]].at < map[k + 1].at
    BY <1>0, <2>2, <2>3 DEF GoodEntries
  <2>5. map[place[size]].at \in Nat /\ map[place[size]].tempo \in Nat
    BY <1>0, <2>2, EntryIs
  <2> QED BY <1>4, <2>1, <2>3, <2>4, <2>5
<1>8. PICK new : new = Pushed(kept, change)
  OBVIOUS
<1>9. new = IF change.tempo = 0 \/ (change.tempo = last.tempo /\ change.meter = last.meter) THEN kept
            ELSE Append(IF size = MaxSegments THEN Tail(kept) ELSE kept, change)
  <2>1. ~(change.at < last.at) /\ change.at # last.at
    BY <1>5, <1>7
  <2> QED BY <1>2, <1>6, <1>8, <2>1 DEF Pushed, NoTempo
<1>10. CASE change.tempo = 0 \/ (change.tempo = last.tempo /\ change.meter = last.meter)
  <2>1. new = kept
    BY <1>9, <1>10
  <2>2. place \in [1..size -> 1..k + 1]
    BY <1>0, <1>2, <1>3
  <2>3. \A j \in 1..size : kept[j] = map[place[j]] /\ map[place[j]].tempo > 0 /\ place[j] + (size - j) <= k + 1
    <3> SUFFICES ASSUME NEW j \in 1..size
                 PROVE  kept[j] = map[place[j]] /\ map[place[j]].tempo > 0 /\ place[j] + (size - j) <= k + 1
      OBVIOUS
    <3>1. kept[j] = map[place[j]] /\ map[place[j]].tempo > 0 /\ place[j] + (size - j) <= k
      BY <1>2
    <3>2. place[j] \in Nat /\ j \in Nat
      BY <1>3
    <3> QED BY <1>0, <1>2, <3>1, <3>2
  <2>4. ASSUME NEW i \in place[1]..k + 1, map[i].tempo > 0
        PROVE  \E j \in 1..size : /\ place[j] <= i /\ \A l \in j + 1..size : place[l] > i
                                  /\ map[i].tempo = map[place[j]].tempo
    <3>1. CASE i = k + 1
      <4>1. place[size] <= i /\ \A l \in size + 1..size : place[l] > i
        BY <1>0, <1>2, <1>3, <3>1
      <4>2. map[i].tempo = map[place[size]].tempo
        BY <1>4, <1>5, <1>7, <1>10, <2>4, <3>1
      <4> QED BY <1>3, <4>1, <4>2
    <3>2. CASE i # k + 1
      <4>1. i \in place[1]..k
        BY <1>0, <1>3, <3>2
      <4> QED BY <1>2, <2>4, <4>1
    <3> QED BY <3>1, <3>2
  <2>5. Holds(map, new, k + 1, size, place)
    BY <1>2, <2>1, <2>2, <2>3, <2>4 DEF Holds
  <2> QED BY <1>4, <1>8, <2>5 DEF Keeps
<1>11. CASE ~(change.tempo = 0 \/ (change.tempo = last.tempo /\ change.meter = last.meter)) /\ size # MaxSegments
  <2>1. new = Append(kept, change) /\ change.tempo > 0 /\ size < MaxSegments
    BY <1>0, <1>2, <1>5, <1>9, <1>11
  <2>2. PICK more : more = [j \in 1..size + 1 |-> IF j = size + 1 THEN k + 1 ELSE place[j]]
    OBVIOUS
  <2>3. more[size + 1] = k + 1 /\ \A j \in 1..size : more[j] = place[j] /\ more[j] \in 1..k /\ more[j] \in Nat
    BY <1>2, <1>3, <2>2
  <2>4. new \in Seq(Entry) /\ Len(new) = size + 1 /\ new[size + 1] = change /\ \A j \in 1..size : new[j] = kept[j]
    BY <1>2, <1>5, <2>1
  <2>5. size + 1 \in 1..MaxSegments
    BY <1>0, <1>2, <2>1
  <2>6. more \in [1..size + 1 -> 1..k + 1]
    <3>1. \A j \in 1..size + 1 : j = size + 1 \/ j \in 1..size
      BY <1>2
    <3>2. \A j \in 1..size + 1 : more[j] \in 1..k + 1
      BY <1>0, <2>3, <3>1
    <3> QED BY <2>2, <3>2
  <2>7. ASSUME NEW j \in 1..size + 1
        PROVE  new[j] = map[more[j]] /\ map[more[j]].tempo > 0 /\ more[j] + ((size + 1) - j) <= k + 1
    <3>1. CASE j = size + 1
      BY <1>0, <1>2, <1>4, <2>1, <2>3, <2>4, <3>1
    <3>2. CASE j # size + 1
      <4>1. j \in 1..size /\ j \in Nat
        BY <1>2, <3>2
      <4>2. kept[j] = map[place[j]] /\ map[place[j]].tempo > 0 /\ place[j] + (size - j) <= k
        BY <1>2, <4>1
      <4>3. place[j] + ((size + 1) - j) <= k + 1
        <5>1. place[j] \in Nat
          BY <1>3, <4>1
        <5> QED BY <1>0, <1>2, <4>1, <4>2, <5>1
      <4> QED BY <2>3, <2>4, <4>1, <4>2, <4>3
    <3> QED BY <3>1, <3>2
  <2>8. ASSUME NEW i \in 1..size + 1, NEW j \in 1..size + 1, i < j PROVE more[i] < more[j]
    <3>1. i \in 1..size
      BY <1>2, <2>8
    <3>2. CASE j = size + 1
      BY <1>0, <2>3, <3>1, <3>2
    <3>3. CASE j # size + 1
      <4>1. j \in 1..size
        BY <1>2, <3>3
      <4> QED BY <1>2, <2>3, <2>8, <3>1, <4>1
    <3> QED BY <3>2, <3>3
  <2>9. more[1] = 1
    BY <1>2, <1>3, <2>1, <2>3
  <2>10. ASSUME NEW i \in more[1]..k + 1, map[i].tempo > 0
         PROVE  \E j \in 1..size + 1 : /\ more[j] <= i /\ \A l \in j + 1..size + 1 : more[l] > i
                                       /\ map[i].tempo = map[more[j]].tempo
    <3>1. CASE i = k + 1
      <4>1. \A l \in (size + 1) + 1..size + 1 : more[l] > i
        BY <1>2
      <4>2. size + 1 \in 1..size + 1 /\ more[size + 1] <= i /\ map[i].tempo = map[more[size + 1]].tempo
        BY <1>0, <1>2, <2>3, <3>1
      <4> QED BY <4>1, <4>2
    <3>2. CASE i # k + 1
      <4>1. i \in place[1]..k /\ i \in Nat
        BY <1>0, <1>3, <2>3, <3>2
      <4>2. PICK j \in 1..size : /\ place[j] <= i /\ \A l \in j + 1..size : place[l] > i
                                 /\ map[i].tempo = map[place[j]].tempo
        BY <1>2, <2>10, <4>1
      <4>3. ASSUME NEW l \in j + 1..size + 1 PROVE more[l] > i
        <5>1. CASE l = size + 1
          BY <1>0, <2>3, <4>1, <5>1
        <5>2. CASE l # size + 1
          <6>1. l \in j + 1..size /\ l \in 1..size
            BY <1>2, <5>2
          <6> QED BY <2>3, <4>2, <6>1
        <5> QED BY <5>1, <5>2
      <4>4. j \in 1..size + 1 /\ more[j] <= i /\ map[i].tempo = map[more[j]].tempo
        BY <1>2, <2>3, <4>2
      <4> QED BY <4>3, <4>4
    <3> QED BY <3>1, <3>2
  <2>11. Holds(map, new, k + 1, size + 1, more)
    BY <2>4, <2>5, <2>6, <2>7, <2>8, <2>9, <2>10 DEF Holds
  <2> QED BY <1>4, <1>8, <2>11 DEF Keeps
<1>12. CASE ~(change.tempo = 0 \/ (change.tempo = last.tempo /\ change.meter = last.meter)) /\ size = MaxSegments
  <2>1. new = Append(Tail(kept), change) /\ change.tempo > 0
    BY <1>0, <1>2, <1>5, <1>9, <1>12
  <2>2. PICK later : later = [j \in 1..size |-> IF j = size THEN k + 1 ELSE place[j + 1]]
    OBVIOUS
  <2>3. later[size] = k + 1
    BY <1>3, <2>2
  <2>4. \A j \in 1..size : j # size => /\ j + 1 \in 1..size /\ j \in Nat /\ later[j] = place[j + 1]
                                       /\ later[j] \in 1..k /\ later[j] \in Nat
    BY <1>2, <1>3, <2>2
  <2>5. new \in Seq(Entry) /\ Len(new) = size /\ new[size] = change /\ \A j \in 1..size : j # size => new[j] = kept[j + 1]
    <3>1. PICK rest : rest = Tail(kept)
      OBVIOUS
    <3>2. kept # <<>>
      BY <1>2
    <3>3. rest \in Seq(Entry) /\ Len(rest) = size - 1 /\ \A j \in 1..size - 1 : rest[j] = kept[j + 1]
      BY <1>2, <3>1, <3>2
    <3>4. new = Append(rest, change)
      BY <2>1, <3>1
    <3>5. new \in Seq(Entry) /\ Len(new) = Len(rest) + 1 /\ new[Len(rest) + 1] = change /\ \A j \in 1..Len(rest) : new[j] = rest[j]
      BY <1>5, <3>3, <3>4
    <3>6. Len(rest) + 1 = size /\ Len(rest) = size - 1
      BY <1>2, <3>3
    <3>7. \A j \in 1..size : j # size => j \in 1..size - 1
      BY <1>2
    <3> QED BY <3>3, <3>5, <3>6, <3>7
  <2>6. later \in [1..size -> 1..k + 1]
    <3>1. \A j \in 1..size : later[j] \in 1..k + 1
      BY <1>0, <2>3, <2>4
    <3> QED BY <2>2, <3>1
  <2>7. ASSUME NEW j \in 1..size
        PROVE  new[j] = map[later[j]] /\ map[later[j]].tempo > 0 /\ later[j] + (size - j) <= k + 1
    <3>1. CASE j = size
      <4>1. new[j] = map[later[j]]
        BY <1>4, <2>3, <2>5, <3>1
      <4>2. map[later[j]].tempo > 0
        BY <1>4, <2>1, <2>3, <3>1
      <4>3. later[j] + (size - j) <= k + 1
        BY <1>0, <1>2, <2>3, <3>1
      <4> QED BY <4>1, <4>2, <4>3
    <3>2. CASE j # size
      <4>1. j + 1 \in 1..size /\ j \in Nat /\ later[j] = place[j + 1] /\ later[j] \in Nat
        BY <2>4, <3>2
      <4>2. kept[j + 1] = map[place[j + 1]] /\ map[place[j + 1]].tempo > 0 /\ place[j + 1] + (size - (j + 1)) <= k
        BY <1>2, <4>1
      <4>3. later[j] + (size - j) <= k + 1
        <5>1. PICK p \in Nat : p = later[j]
          BY <4>1
        <5>2. p + (size - (j + 1)) <= k
          BY <4>1, <4>2, <5>1
        <5> QED BY <1>0, <1>2, <4>1, <5>1, <5>2
      <4> QED BY <2>5, <3>2, <4>1, <4>2, <4>3
    <3> QED BY <3>1, <3>2
  <2>8. ASSUME NEW i \in 1..size, NEW j \in 1..size, i < j PROVE later[i] < later[j]
    <3>1. i # size
      BY <1>2, <2>8
    <3>2. CASE j = size
      BY <1>0, <2>3, <2>4, <3>1, <3>2
    <3>3. CASE j # size
      <4>1. i + 1 < j + 1 /\ i + 1 \in 1..size /\ j + 1 \in 1..size
        BY <1>2, <2>4, <2>8, <3>1, <3>3
      <4> QED BY <1>2, <2>4, <3>1, <3>3, <4>1
    <3> QED BY <3>2, <3>3
  <2>9. ASSUME NEW i \in later[1]..k + 1, map[i].tempo > 0
        PROVE  \E j \in 1..size : /\ later[j] <= i /\ \A l \in j + 1..size : later[l] > i
                                  /\ map[i].tempo = map[later[j]].tempo
    <3>1. CASE i = k + 1
      <4>1. \A l \in size + 1..size : later[l] > i
        BY <1>2
      <4> QED BY <1>0, <1>3, <2>3, <3>1, <4>1
    <3>2. CASE i # k + 1
      <4>1. later[1] \in Nat /\ later[1] <= k + 1 /\ later[1] <= i /\ i \in Nat /\ i <= k
        <5>1. later[1] \in 1..k + 1
          BY <1>3, <2>6
        <5> QED BY <1>0, <3>2, <5>1
      <4>2. 1 # size
        BY <1>0, <2>3, <4>1
      <4>3. 2 \in 1..size /\ later[1] = place[2] /\ place[1] < place[2]
        <5>1. 1 + 1 \in 1..size /\ later[1] = place[1 + 1]
          BY <1>3, <2>4, <4>2
        <5> QED BY <1>2, <1>3, <5>1
      <4>4. i \in place[1]..k
        BY <1>0, <1>3, <4>1, <4>3
      <4>5. PICK j \in 1..size : /\ place[j] <= i /\ \A l \in j + 1..size : place[l] > i
                                 /\ map[i].tempo = map[place[j]].tempo
        BY <1>2, <2>9, <4>4
      <4>6. j # 1
        <5>1. j = 1 => 2 \in j + 1..size
          BY <1>2, <4>3
        <5>2. place[2] \in Nat
          BY <1>3, <4>3
        <5> QED BY <4>1, <4>3, <4>5, <5>1, <5>2
      <4>7. PICK h \in 1..size : h + 1 = j /\ h # size
        <5>1. j - 1 \in 1..size /\ (j - 1) + 1 = j /\ j - 1 # size
          BY <1>2, <4>6
        <5> QED BY <5>1
      <4>8. later[h] = place[j] /\ later[h] <= i /\ map[i].tempo = map[later[h]].tempo
        BY <2>4, <4>5, <4>7
      <4>9. ASSUME NEW l \in h + 1..size PROVE later[l] > i
        <5>1. l \in 1..size
          BY <1>2
        <5>2. CASE l = size
          BY <1>0, <2>3, <4>1, <5>2
        <5>3. CASE l # size
          <6>1. l + 1 \in 1..size /\ later[l] = place[l + 1]
            BY <2>4, <5>1, <5>3
          <6>2. l + 1 \in j + 1..size
            BY <1>2, <4>7, <6>1
          <6> QED BY <4>5, <6>1, <6>2
        <5> QED BY <5>2, <5>3
      <4> QED BY <4>8, <4>9
    <3> QED BY <3>1, <3>2
  <2>10. ~(size < MaxSegments)
    BY <1>0, <1>12
  <2>11. Holds(map, new, k + 1, size, later)
    BY <1>2, <2>5, <2>6, <2>7, <2>8, <2>9, <2>10 DEF Holds
  <2> QED BY <1>4, <1>8, <2>11 DEF Keeps
<1> QED BY <1>10, <1>11, <1>12

LEMMA TransportIs ==
  ASSUME NEW map, GoodEntries(map), map[1].tempo > 0
  PROVE  Keeps(map, Transport(map), Len(map))
<1> DEFINE rest == Tail(map)
           n == Len(rest)
           Solution(f) == f = [k \in 0..n |-> IF k = 0 THEN <<map[1]>> ELSE Pushed(f[k - 1], rest[k])]
           upTo == CHOOSE f : Solution(f)
<1>0. /\ map \in Seq(Entry) /\ Len(map) \in Nat /\ n \in Nat /\ n + 1 = Len(map)
      /\ \A k \in 1..n : rest[k] = map[k + 1] /\ k \in 1..Len(map) - 1
  <2>1. map \in Seq(Entry) /\ Len(map) \in Nat /\ Len(map) >= 1 /\ map # <<>>
    BY DEF GoodEntries
  <2>2. Len(rest) = Len(map) - 1 /\ \A k \in 1..Len(map) - 1 : rest[k] = map[k + 1]
    BY <2>1
  <2> QED BY <2>1, <2>2
<1> DEFINE KeptAt(k) == {kept \in Seq(Entry) : Keeps(map, kept, k + 1)}
<1>1. <<map[1]>> \in KeptAt(0)
  <2>1. Keeps(map, <<map[1]>>, 0 + 1) /\ map[1] \in Entry
    BY TransportBegins, EntryIs DEF GoodEntries
  <2> QED BY <2>1
<1>2. ASSUME NEW k \in 1..n, NEW x \in KeptAt(k - 1) PROVE Pushed(x, rest[k]) \in KeptAt(k)
  <2>1. Keeps(map, x, k) /\ k \in 1..Len(map) - 1 /\ rest[k] = map[k + 1]
    <3>1. (k - 1) + 1 = k
      BY <1>0
    <3> QED BY <1>0, <1>2, <3>1
  <2>2. Keeps(map, Pushed(x, rest[k]), k + 1)
    BY <2>1, PushKeeps
  <2>3. Pushed(x, rest[k]) \in Seq(Entry)
    BY <2>2 DEF Keeps, Holds
  <2> QED BY <2>2, <2>3
<1>3. \E f : Solution(f)
  <2>1. PICK turn : turn = [x \in (1..n) \X Seq(Entry) |-> Pushed(x[2], rest[x[1]])]
    OBVIOUS
  <2>2. PICK D : D = [k \in 0..n |-> KeptAt(k)]
    OBVIOUS
  <2>3. ASSUME NEW k \in 1..n, NEW x \in D[k - 1]
        PROVE  turn[<<k, x>>] = Pushed(x, rest[k]) /\ turn[<<k, x>>] \in D[k]
    <3>1. k \in 0..n /\ k - 1 \in 0..n
      BY <1>0
    <3>2. x \in KeptAt(k - 1) /\ D[k] = KeptAt(k)
      BY <2>2, <3>1
    <3>3. x \in Seq(Entry)
      BY <3>2
    <3>4. <<k, x>> \in (1..n) \X Seq(Entry)
      BY <3>3
    <3>5. turn[<<k, x>>] = Pushed(x, rest[k])
      BY <2>1, <3>4
    <3>6. Pushed(x, rest[k]) \in KeptAt(k)
      <4> HIDE DEF KeptAt, rest, n
      <4> QED BY <1>2, <3>2
    <3> QED BY <3>2, <3>5, <3>6
  <2>4. PICK f : Solves(f, n, D, turn, <<map[1]>>)
    <3>1. PICK base : base = <<map[1]>>
      OBVIOUS
    <3>2. base \in D[0] /\ n \in Nat
      <4>1. 0 \in 0..n
        BY <1>0
      <4> HIDE DEF KeptAt, n
      <4> QED BY <1>0, <1>1, <2>2, <3>1, <4>1
    <3> HIDE DEF n, upTo, KeptAt, rest
    <3>3. \E f : Solves(f, n, D, turn, base)
      BY <2>3, <3>2, RecursionHasSolution
    <3> QED BY <3>1, <3>3
  <2>5. \A k \in 0..n : f[k] = IF k = 0 THEN <<map[1]>> ELSE Pushed(f[k - 1], rest[k])
    <3> HIDE DEF rest, KeptAt
    <3> SUFFICES ASSUME NEW k \in 0..n, k # 0 PROVE f[k] = Pushed(f[k - 1], rest[k])
      BY <2>4 DEF Solves
    <3>1. k \in 1..n /\ k - 1 \in 0..n
      BY <1>0
    <3>2. f[k - 1] \in D[k - 1] /\ f[k] = turn[<<k, f[k - 1]>>]
      BY <2>4, <3>1 DEF Solves
    <3> QED BY <2>3, <3>1, <3>2
  <2>6. f = [k \in 0..n |-> IF k = 0 THEN <<map[1]>> ELSE Pushed(f[k - 1], rest[k])]
    <3> HIDE DEF rest
    <3> QED BY <2>4, <2>5 DEF Solves
  <2> QED BY <2>6
<1>4. Solution(upTo)
  BY Zenon, <1>3
<1>5. upTo[n] \in KeptAt(n)
  <2> HIDE DEF upTo
  <2>1. \A k \in 0..n : upTo[k] = IF k = 0 THEN <<map[1]>> ELSE Pushed(upTo[k - 1], rest[k])
    BY <1>4
  <2> DEFINE T == {k \in Nat : k <= n => upTo[k] \in KeptAt(k)}
  <2> HIDE DEF KeptAt, rest, n
  <2>2. 0 \in T
    BY <1>0, <1>1, <2>1
  <2>3. ASSUME NEW k \in Nat, k \in T PROVE k + 1 \in T
    <3>1. SUFFICES ASSUME k + 1 <= n PROVE upTo[k + 1] \in KeptAt(k + 1)
      BY <2>3
    <3>2. k + 1 \in 0..n /\ k + 1 # 0 /\ k <= n
      BY <1>0, <3>1
    <3>3. PICK j \in 1..n : j = k + 1 /\ j - 1 = k
      BY <1>0, <3>1
    <3>4. upTo[j] = Pushed(upTo[j - 1], rest[j])
      BY <2>1, <3>2, <3>3
    <3>5. upTo[j - 1] \in KeptAt(j - 1)
      BY <2>3, <3>2, <3>3
    <3>6. Pushed(upTo[j - 1], rest[j]) \in KeptAt(j)
      BY <1>2, <3>5
    <3> QED BY <3>3, <3>4, <3>6
  <2>4. n \in T
    <3> HIDE DEF T
    <3> QED BY <1>0, <2>2, <2>3, AllNaturals
  <2> QED BY <1>0, <2>4
<1>6. Transport(map) = upTo[n]
  <2>1. Transport(map) = IF map[1].tempo = NoTempo THEN <<>> ELSE upTo[n]
    BY Zenon DEF Transport
  <2>2. map[1].tempo # NoTempo
    BY DEF NoTempo
  <2> HIDE DEF upTo, n
  <2> QED BY <2>1, <2>2
<1>7. Keeps(map, upTo[n], n + 1)
  <2> HIDE DEF upTo, n
  <2> QED BY <1>5
<1> HIDE DEF upTo, n
<1> QED BY <1>0, <1>6, <1>7

\* The segment of the tick that a position is in has begun there, and none after it has.
LEMMA SegmentHere ==
  ASSUME NEW file \in Seq(Tracks), NEW segments, segments = TempoMap(file),
         NEW position \in Nat, NEW tick \in Nat,
         TimeAt(file, tick) * Rate <= position, position < TimeAt(file, tick + 1) * Rate
  PROVE  \E k \in 1..Len(segments) :
           /\ segments[k].tempo = TempoIn(file, tick) /\ segments[k].tempo > 0
           /\ segments[k].at * Rate <= position
           /\ \A l \in k + 1..Len(segments) : segments[l].at * Rate > position
<1> DEFINE n == Len(segments)
<1>1. segments = TempoMap(file)
  OBVIOUS
<1>2. GoodMap(segments) /\ segments \in Seq(Segment) /\ n \in Nat /\ n >= 1
  <2>1. GoodMap(TempoMap(file))
    BY TempoMapIs
  <2>2. GoodMap(segments)
    BY <1>1, <2>1, Zenon
  <2>3. segments \in Seq(Segment) /\ n >= 1
    BY <2>2 DEF GoodMap
  <2>4. n \in Nat
    BY <2>3
  <2> QED BY <2>2, <2>3, <2>4
<1>3. Rate \in Nat
  BY SmfAssumption
<1>6. PICK k \in 1..n : On(segments, tick, k)
  BY <1>2, SegmentThere
<1>7. segments[k].tempo = TempoIn(file, tick)
  BY <1>1, <1>6, TempoMapIs
<1>8. PICK here \in Nat : here = TimeAt(file, tick)
  BY TimeIs
<1>9. PICK there \in Nat : there = TimeAt(file, tick + 1)
  BY TimeIs
<1>18. segments[k].at \in Nat /\ segments[k].tick \in Nat /\ segments[k].tempo \in Nat /\ segments[k].tick <= tick
  <2>1. segments[k].at \in Nat /\ segments[k].tick \in Nat /\ segments[k].tempo \in Nat
    BY <1>2, SegmentIs
  <2>2. segments[k].tick <= tick
    BY <1>6 DEF On
  <2> QED BY <2>1, <2>2
<1>19. PICK v \in Nat : v = segments[k].tempo
  BY <1>18
<1>20. PICK a \in Nat : a = tick - segments[k].tick
  BY <1>18
<1>10. here = segments[k].at + a * v /\ there = here + v /\ a * v \in Nat
  <2>1. here = SecondsAt(segments, tick) /\ there = SecondsAt(segments, tick + 1)
    BY <1>1, <1>8, <1>9, TimeIs
  <2>2. SecondsAt(segments, tick) = segments[k].at + (tick - segments[k].tick) * segments[k].tempo
    BY <1>2, <1>6, SecondsAtIs
  <2>3. SecondsAt(segments, tick + 1) = SecondsAt(segments, tick) + segments[k].tempo
    BY <1>2, <1>6, SecondsAtGrows
  <2>4. a * v \in Nat
    BY ProductIs
  <2> QED BY <1>19, <1>20, <2>1, <2>2, <2>3, <2>4
<1>11. segments[k].at <= here
  BY SMTT(30), <1>10, <1>18
<1>12. ASSUME NEW l \in k + 1..n PROVE there <= segments[l].at /\ segments[l].at \in Nat
  <2>1. k \in 1..n - 1 /\ k + 1 \in 1..n /\ l \in 1..n /\ k + 1 \in 1..l /\ k + 1 \in k + 1..n
    BY <1>2
  <2>2. segments[k + 1].tick \in Nat /\ segments[k + 1].at \in Nat /\ segments[l].at \in Nat
    BY <1>2, <2>1, SegmentIs
  <2>3. segments[k + 1].tick > tick
    BY <1>6, <2>1 DEF On
  <2>4. segments[k + 1].at = segments[k].at + (segments[k + 1].tick - segments[k].tick) * segments[k].tempo
    BY <1>2, <2>1 DEF GoodMap
  <2>6. PICK d \in Nat : d = segments[k + 1].tick - (tick + 1)
    BY <2>2, <2>3
  <2>7. segments[k + 1].tick - segments[k].tick = (a + 1) + d
    <3>1. PICK x \in Nat : x = segments[k].tick
      BY <1>18
    <3>2. PICK y \in Nat : y = segments[k + 1].tick
      BY <2>2
    <3>3. a = tick - x /\ d = y - (tick + 1)
      BY <1>20, <2>6, <3>1, <3>2
    <3>4. y - x = (a + 1) + d
      BY <3>3
    <3> QED BY <3>1, <3>2, <3>4
  <2>9. ((a + 1) + d) * v = (a + 1) * v + d * v /\ (a + 1) * v = a * v + v /\ d * v \in Nat /\ a * v \in Nat
    <3>1. d * v \in Nat /\ a * v \in Nat /\ (a + 1) * v = a * v + v
      BY ProductIs
    <3>2. ((a + 1) + d) * v = (a + 1) * v + d * v
      OBVIOUS
    <3> QED BY <3>1, <3>2
  <2>10. segments[k + 1].at = segments[k].at + ((a + 1) + d) * v
    BY <1>19, <2>4, <2>7
  <2>11. PICK p \in Nat : p = a * v
    BY <1>10
  <2>5. PICK q \in Nat : q = d * v
    BY <2>9
  <2>8. segments[k + 1].at = segments[k].at + ((p + v) + q) /\ here = segments[k].at + p /\ there = here + v
    BY <1>10, <2>5, <2>9, <2>10, <2>11
  <2>12. there <= segments[k + 1].at
    <3>1. PICK x \in Nat : x = segments[k].at
      BY <1>18
    <3>2. segments[k + 1].at = x + ((p + v) + q) /\ there = (x + p) + v
      BY <2>8, <3>1
    <3>3. (x + p) + v <= x + ((p + v) + q)
      OBVIOUS
    <3> QED BY <3>2, <3>3
  <2>13. segments[k + 1].at <= segments[l].at
    BY <1>2, <2>1, SegmentsGrow
  <2> QED BY SMTT(30), <2>2, <2>12, <2>13
<1> HIDE DEF n
<1>13. segments[k].at * Rate <= position
  <2>1. PICK b \in Nat : b = segments[k].at
    BY <1>18
  <2>2. PICK d \in Nat : here = b + d
    <3>1. here - b \in Nat /\ here = b + (here - b)
      BY <1>11, <2>1
    <3> QED BY <3>1
  <2>3. (b + d) * Rate = b * Rate + d * Rate /\ d * Rate \in Nat /\ b * Rate \in Nat
    BY <1>3, ProductIs
  <2>4. here * Rate <= position
    BY <1>8
  <2>5. PICK x \in Nat : x = b * Rate
    BY <2>3
  <2>6. PICK y \in Nat : y = d * Rate
    BY <2>3
  <2>7. here * Rate = x + y
    BY <2>2, <2>3, <2>5, <2>6
  <2>8. x <= position
    BY <2>4, <2>5, <2>6, <2>7
  <2> QED BY <2>1, <2>5, <2>8
<1>14. ASSUME NEW l \in k + 1..n PROVE segments[l].at * Rate > position
  <2>1. PICK b \in Nat : b = segments[l].at
    BY <1>12
  <2>2. PICK d \in Nat : b = there + d
    <3>1. there <= b
      BY <1>12, <2>1
    <3>2. b - there \in Nat /\ b = there + (b - there)
      BY <3>1
    <3> QED BY <3>2
  <2>3. (there + d) * Rate = there * Rate + d * Rate /\ d * Rate \in Nat /\ there * Rate \in Nat
    BY <1>3, ProductIs
  <2>4. position < there * Rate
    BY <1>9
  <2>5. PICK x \in Nat : x = there * Rate
    BY <2>3
  <2>6. PICK y \in Nat : y = d * Rate
    BY <2>3
  <2>7. b * Rate = x + y
    BY <2>2, <2>3, <2>5, <2>6
  <2>8. b * Rate > position
    BY <2>4, <2>5, <2>6, <2>7
  <2> QED BY <2>1, <2>8
<1>15. segments[k].tempo > 0
  <2>1. SUFFICES ASSUME v = 0 PROVE FALSE
    BY <1>18, <1>19
  <2>2. here = there
    BY <1>10, <2>1
  <2>3. here * Rate <= position /\ position < here * Rate
    BY <1>8, <1>9, <2>2
  <2>4. PICK x \in Nat : x = here * Rate
    BY <1>3, ProductIs
  <2> QED BY <2>3, <2>4
<1> QED BY <1>7, <1>13, <1>14, <1>15 DEF n

\* The first segment tells the tempo that the song begins with.
LEMMA FirstTempoIs ==
  ASSUME NEW file \in Seq(Tracks), NEW map, map = EntriesOf(TempoMap(file))
  PROVE  map[1].tempo = TempoIn(file, 0)
<1>1. PICK segments : segments = TempoMap(file)
  OBVIOUS
<1>2. GoodMap(segments)
  BY <1>1, TempoMapIs
<1>3. segments \in Seq(Segment) /\ Len(segments) \in Nat /\ 1 \in 1..Len(segments) /\ segments[1].tick = 0
  BY <1>2 DEF GoodMap
<1>4. \A l \in 1 + 1..Len(segments) : segments[l].tick > 0
  <2> SUFFICES ASSUME NEW l \in 1 + 1..Len(segments) PROVE segments[l].tick > 0
    OBVIOUS
  <2>1. l \in 1..Len(segments) /\ 1 \in 1..l /\ 1 < l
    BY <1>3
  <2>2. segments[1].tick < segments[l].tick
    BY <1>2, <2>1, SegmentsGrow
  <2> QED BY <1>3, <2>2
<1>5. On(segments, 0, 1)
  BY <1>3, <1>4 DEF On
<1>6. segments[1].tempo = TempoIn(file, 0)
  BY <1>1, <1>3, <1>5, TempoMapIs
<1>7. map[1].tempo = segments[1].tempo
  <2>1. /\ Len(map) = Len(segments)
        /\ \A i \in 1..Len(map) : map[i].at = segments[i].at /\ map[i].tempo = segments[i].tempo
    BY <1>1, <1>2, EntriesAre
  <2> QED BY <1>3, <2>1
<1> QED BY <1>6, <1>7

LEMMA LastTickIs ==
  ASSUME NEW file \in Seq(Tracks)
  PROVE  LastTick(file) \in Nat
<1>1. PICK all : all = Listed(file)
  OBVIOUS
<1>2. all \in Seq(Event) /\ Len(all) \in Nat
  BY <1>1, ListedIs
<1>3. PICK n \in Nat : n = Len(all)
  BY <1>2
<1>4. PICK f : f = [i \in 1..n |-> all[i].at]
  OBVIOUS
<1>5. \A i \in 1..n : f[i] \in Nat /\ f[i] = all[i].at
  <2>1. \A e \in Event : e.at \in Nat
    BY DEF Event
  <2>2. \A i \in 1..n : all[i] \in Event
    BY <1>2, <1>3
  <2> QED BY <1>4, <2>1, <2>2
<1>6. Largest({0} \cup {f[i] : i \in 1..n}) \in Nat
  BY <1>5, LargestIs
<1>7. {f[i] : i \in 1..n} = {all[i].at : i \in 1..n}
  BY <1>5
<1>8. LastTick(file) = Largest({0} \cup {all[i].at : i \in 1..n})
  BY <1>1, <1>3 DEF LastTick
<1> QED BY <1>6, <1>7, <1>8

\* The transport tells the tempo of the tick that a position is in, or, where that segment
\* has been dropped, the tempo of the first it has kept.
LEMMA TransportTells ==
  ASSUME NEW file \in Seq(Tracks), NEW map, map = EntriesOf(TempoMap(file)), TempoIn(file, 0) # NoTempo,
         NEW position \in Nat, NEW tick \in Nat,
         TimeAt(file, tick) * Rate <= position * Scale, position * Scale < TimeAt(file, tick + 1) * Rate
  PROVE  \/ TempoAt(Transport(map), position) = TempoIn(file, tick)
         \/ \E i \in 1..Len(map) - MaxSegments + 1 :
              map[i].at * Rate > position * Scale /\ TempoAt(Transport(map), position) = map[i].tempo
<1> DEFINE n == Len(map)
           p == position * Scale
<1>1. PICK segments : segments = TempoMap(file)
  OBVIOUS
<1>2. /\ GoodMap(segments) /\ GoodEntries(map) /\ n = Len(segments) /\ n \in Nat /\ n >= 1 /\ map \in Seq(Entry)
      /\ \A i \in 1..n : map[i].at = segments[i].at /\ map[i].tempo = segments[i].tempo
  <2>1. GoodMap(segments)
    BY <1>1, TempoMapIs
  <2>2. /\ GoodEntries(map) /\ Len(map) = Len(segments)
        /\ \A i \in 1..Len(map) : map[i].at = segments[i].at /\ map[i].tempo = segments[i].tempo
    BY <1>1, <2>1, EntriesAre
  <2> QED BY <2>1, <2>2 DEF GoodEntries
<1>3. MaxSegments \in Nat /\ Rate \in Nat /\ Scale \in Nat /\ p \in Nat
  BY SmfAssumption, ProductIs
<1>4. map[1].tempo > 0
  <2>1. map[1].tempo = TempoIn(file, 0) /\ map[1].tempo \in Nat
    BY <1>2, EntryIs, FirstTempoIs
  <2> QED BY <2>1 DEF NoTempo
<1>5. PICK kept : kept = Transport(map)
  OBVIOUS
<1>6. PICK size, place : Holds(map, kept, n, size, place)
  BY <1>2, <1>4, <1>5, TransportIs DEF Keeps
<1>7. /\ Len(kept) = size /\ size \in 1..MaxSegments /\ size \in Nat /\ 1 \in 1..size /\ kept # <<>>
      /\ \A j \in 1..size : place[j] \in 1..n /\ place[j] \in Nat
      /\ \A j \in 1..size : kept[j] = map[place[j]] /\ place[j] + (size - j) <= n
      /\ \A i, j \in 1..size : i < j => place[i] < place[j]
      /\ size < MaxSegments => place[1] = 1
      /\ \A i \in place[1]..n : map[i].tempo > 0 =>
           \E j \in 1..size : /\ place[j] <= i /\ \A l \in j + 1..size : place[l] > i
                              /\ map[i].tempo = map[place[j]].tempo
  BY <1>2, <1>3, <1>6 DEF Holds
<1>8. PICK k \in 1..n :
        /\ segments[k].tempo = TempoIn(file, tick) /\ segments[k].tempo > 0
        /\ segments[k].at * Rate <= p
        /\ \A l \in k + 1..n : segments[l].at * Rate > p
  <2> HIDE DEF n
  <2>1. \E k \in 1..Len(segments) :
           /\ segments[k].tempo = TempoIn(file, tick) /\ segments[k].tempo > 0
           /\ segments[k].at * Rate <= p
           /\ \A l \in k + 1..Len(segments) : segments[l].at * Rate > p
    <3>1. PICK here \in Nat : here = p
      BY <1>3
    <3>2. TimeAt(file, tick) * Rate <= here /\ here < TimeAt(file, tick + 1) * Rate
      BY <3>1
    <3> HIDE DEF p
    <3>3. \E k \in 1..Len(segments) :
             /\ segments[k].tempo = TempoIn(file, tick) /\ segments[k].tempo > 0
             /\ segments[k].at * Rate <= here
             /\ \A l \in k + 1..Len(segments) : segments[l].at * Rate > here
      BY ZenonT(40), <1>1, <3>2, SegmentHere
    <3> QED BY <3>1, <3>3
  <2> QED BY <1>2, <2>1
<1> HIDE DEF p
<1>9. \A i \in 1..n : map[i].at * Rate <= p <=> i <= k
  <2> SUFFICES ASSUME NEW i \in 1..n PROVE map[i].at * Rate <= p <=> i <= k
    OBVIOUS
  <2>1. map[i].at \in Nat /\ map[i].at * Rate \in Nat /\ i \in Nat /\ k \in Nat
    BY <1>2, <1>3, EntryIs, ProductIs
  <2>2. CASE i <= k
    <3>1. i \in 1..k
      BY <2>1, <2>2
    <3>2. segments[i].at <= segments[k].at
      BY <1>2, <3>1, SegmentsGrow
    <3>3. PICK a \in Nat : a = map[i].at
      BY <2>1
    <3>4. PICK b \in Nat : b = segments[k].at
      BY <1>2 , SegmentIs DEF GoodMap
    <3>5. PICK d \in Nat : b = a + d
      <4>1. a <= b
        BY <1>2, <3>2, <3>3, <3>4
      <4>2. b - a \in Nat /\ b = a + (b - a)
        BY <4>1
      <4> QED BY <4>2
    <3>6. (a + d) * Rate = a * Rate + d * Rate /\ a * Rate \in Nat /\ d * Rate \in Nat
      BY <1>3, ProductIs
    <3>7. PICK x \in Nat : x = a * Rate
      BY <3>6
    <3>8. PICK y \in Nat : y = d * Rate
      BY <3>6
    <3>9. x + y <= p
      BY <1>8, <3>4, <3>5, <3>6, <3>7, <3>8
    <3>10. x <= p
      BY <1>3, <3>9
    <3> QED BY <2>2, <3>3, <3>7, <3>10
  <2>3. CASE ~(i <= k)
    <3>1. i \in k + 1..n
      BY <1>2, <2>1, <2>3
    <3>2. segments[i].at * Rate > p
      BY <1>8, <3>1
    <3>3. map[i].at = segments[i].at
      BY <1>2
    <3>4. PICK x \in Nat : x = map[i].at * Rate
      BY <2>1
    <3>5. x > p
      BY <3>2, <3>3, <3>4
    <3> QED BY <1>3, <2>3, <3>4, <3>5
  <2> QED BY <2>2, <2>3
<1>10. map[k].tempo = TempoIn(file, tick) /\ map[k].tempo > 0 /\ k \in Nat
  BY <1>2, <1>8
<1> DEFINE begun == {j \in 1..Len(kept) : kept[j].at * Rate <= position * Scale}
<1>11. \A j \in 1..size : j \in begun <=> place[j] <= k
  <2> SUFFICES ASSUME NEW j \in 1..size PROVE j \in begun <=> place[j] <= k
    OBVIOUS
  <2>1. kept[j].at = map[place[j]].at /\ place[j] \in 1..n
    BY <1>7
  <2>2. map[place[j]].at * Rate <= p <=> place[j] <= k
    BY <1>9, <2>1
  <2>3. j \in begun <=> kept[j].at * Rate <= p
    BY <1>7 DEF p
  <2> HIDE DEF begun
  <2> QED BY <2>1, <2>2, <2>3
<1>12. begun \in SUBSET (1..size)
  BY <1>7
<1>13. TempoAt(kept, position) = kept[IF begun = {} THEN 1 ELSE Largest(begun)].tempo
  BY Zenon, <1>7 DEF TempoAt
<1> HIDE DEF begun
<1>14. CASE place[1] <= k
  <2>1. k \in place[1]..n
    BY <1>7, <1>10, <1>14
  <2>2. PICK j \in 1..size : /\ place[j] <= k /\ \A l \in j + 1..size : place[l] > k
                             /\ map[k].tempo = map[place[j]].tempo
    BY <1>7, <1>10, <2>1
  <2>3. j \in begun
    BY <1>11, <2>2
  <2>4. \A l \in begun : l <= j /\ l \in Nat
    <3> SUFFICES ASSUME NEW l \in begun PROVE l <= j /\ l \in Nat
      OBVIOUS
    <3>1. l \in 1..size /\ place[l] <= k /\ place[l] \in Nat /\ l \in Nat
      BY <1>7, <1>11, <1>12
    <3>2. ~(l <= j) => l \in j + 1..size
      BY <1>7, <3>1
    <3> QED BY <1>10, <2>2, <3>1, <3>2
  <2>5. Largest(begun) = j
    <3>1. PICK top : top = Largest(begun)
      OBVIOUS
    <3>2. top \in begun /\ \A l \in begun : l <= top
      BY <2>3, <2>4, <3>1 DEF Largest
    <3>3. top <= j /\ j <= top /\ top \in Nat /\ j \in Nat
      BY <2>3, <2>4, <3>2
    <3> QED BY <3>1, <3>3
  <2>6. TempoAt(kept, position) = kept[j].tempo
    BY <1>13, <2>3, <2>5
  <2>7. kept[j].tempo = map[k].tempo
    BY <1>7, <2>2
  <2> QED BY <1>5, <1>10, <2>6, <2>7
<1>15. CASE ~(place[1] <= k)
  <2>1. PICK first \in Nat : first = place[1] /\ first \in 1..n
    BY <1>7
  <2>2. begun = {}
    <3> SUFFICES ASSUME NEW j \in begun PROVE FALSE
      OBVIOUS
    <3>1. j \in 1..size /\ place[j] <= k /\ place[j] \in Nat /\ j \in Nat
      BY <1>7, <1>11, <1>12
    <3>2. 1 < j => place[1] < place[j]
      BY <1>7, <3>1
    <3>3. j = 1 \/ 1 < j
      BY <3>1
    <3> QED BY <1>10, <1>15, <2>1, <3>1, <3>2, <3>3
  <2>3. TempoAt(kept, position) = map[first].tempo
    BY <1>7, <1>13, <2>1, <2>2
  <2>4. size = MaxSegments
    <3>1. first # 1
      BY <1>8, <1>10, <1>15, <2>1
    <3> QED BY <1>3, <1>7, <2>1, <3>1
  <2>5. first \in 1..n - MaxSegments + 1
    <3>1. first + (size - 1) <= n
      BY <1>7, <2>1
    <3> QED BY <1>2, <1>3, <2>1, <2>4, <3>1
  <2>6. map[first].at * Rate > p
    <3>1. map[first].at * Rate \in Nat
      BY <1>2, <1>3, <2>1, EntryIs, ProductIs
    <3>2. ~(map[first].at * Rate <= p)
      BY <1>9, <1>15, <2>1
    <3>3. PICK x \in Nat : x = map[first].at * Rate
      BY <3>1
    <3> QED BY <1>3, <3>2, <3>3
  <2> QED BY <1>5, <2>3, <2>5, <2>6 DEF p
<1> QED BY <1>14, <1>15

\* The events due before the end of a block are the next ones, and those after them
\* are not due.
LEMMA DueIs ==
  ASSUME NEW events \in Seq(Played), NEW first \in 1..Len(events) + 1, NEW end \in Nat
  PROVE  LET due == {i \in first..Len(events) : \A k \in first..i : events[k].at < end}
         IN  \E last \in first - 1..Len(events) :
               /\ due = first..last /\ first + Cardinality(due) = last + 1
               /\ \A k \in first..last : events[k].at < end
               /\ last < Len(events) => events[last + 1].at >= end
<1> DEFINE due == {i \in first..Len(events) : \A k \in first..i : events[k].at < end}
<1>0. Len(events) \in Nat /\ first \in Nat /\ first - 1 \in Nat
  OBVIOUS
<1>1. {first - 1} \cup due \in SUBSET (0..Len(events)) /\ {first - 1} \cup due # {}
  BY <1>0
<1>2. PICK last \in {first - 1} \cup due : \A i \in {first - 1} \cup due : i <= last
  <2> HIDE DEF due
  <2> QED BY <1>0, <1>1, LargestNatural
<1>3. last \in first - 1..Len(events)
  BY <1>0, <1>1, <1>2
<1>4. \A k \in first..last : events[k].at < end
  <2>1. CASE last = first - 1
    BY <1>0, <2>1
  <2>2. CASE last \in due
    BY <2>2
  <2> QED BY <2>1, <2>2
<1>5. due = first..last
  <2>1. ASSUME NEW i \in first..last PROVE i \in due
    <3>1. i \in first..Len(events) /\ \A k \in first..i : k \in first..last
      BY <1>0, <1>3
    <3> QED BY <1>4, <3>1
  <2>2. ASSUME NEW i \in due PROVE i \in first..last
    <3>1. i \in first..Len(events) /\ i <= last
      BY <1>2
    <3> QED BY <1>0, <1>3, <3>1
  <2> HIDE DEF due
  <2> QED BY <2>1, <2>2
<1>6. Cardinality(due) = last - first + 1
  <2>1. Cardinality(first..last) = IF first > last THEN 0 ELSE last - first + 1
    BY <1>0, <1>3, FS_Interval
  <2> HIDE DEF due
  <2> QED BY <1>0, <1>3, <1>5, <2>1
<1>7. last < Len(events) => events[last + 1].at >= end
  <2> SUFFICES ASSUME last < Len(events), ~(events[last + 1].at >= end) PROVE FALSE
    OBVIOUS
  <2>1. last + 1 \in 1..Len(events) /\ last + 1 \in first..Len(events)
    BY <1>0, <1>3
  <2>2. events[last + 1].at \in Nat
    <3>1. events[last + 1] \in Played
      BY <2>1
    <3> QED BY <3>1 DEF Played
  <2>3. \A k \in first..last + 1 : k = last + 1 \/ k \in first..last
    BY <1>0, <1>3
  <2>4. \A k \in first..last + 1 : events[k].at < end
    BY <1>4, <2>2, <2>3
  <2>5. last + 1 \in due
    BY <2>1, <2>4
  <2>6. last + 1 <= last
    BY <1>2, <2>5
  <2> QED BY <1>0, <1>3, <2>6
<1>8. first + Cardinality(due) = last + 1
  <2> HIDE DEF due
  <2> QED BY <1>0, <1>3, <1>6
<1> QED BY <1>3, <1>4, <1>5, <1>7, <1>8

(***************************************************************************)
(* The song: what the instrument has heard                                 *)
(***************************************************************************)
Steps == {"prepare", "handed", "create", "render", "build", "apply", "trim", "done", "failed"}

\* The events before one, each at its own place.
HeardBefore(song, n) == {[event |-> song.events[i], position |-> song.events[i].at] : i \in 1..n - 1}

SongInv ==
  /\ job \in Jobs /\ step \in Steps /\ block \in Nat
  /\ step \in {"prepare", "create"} => at = 0 /\ next = 1 /\ heard = {}
  /\ step \notin {"prepare", "failed"} => schedule = ScheduleOf(job.file, ask.preroll)
  /\ step = "render" =>
       /\ at \in 0..schedule.total /\ next \in 1..Len(schedule.events) + 1
       /\ heard = HeardBefore(schedule, next)
       /\ \A i \in 1..next - 1 : schedule.events[i].at < at
       /\ \A i \in next..Len(schedule.events) : schedule.events[i].at >= at
  /\ step \in {"build", "apply", "trim", "done"} => heard = HeardBefore(schedule, Len(schedule.events) + 1)
  /\ at > 0 /\ step \in {"render", "build", "apply"} =>
       known.at \in Nat /\ known.tempo = TempoAt(Transport(schedule.map), Musical(known.at))

LEMMA JobIs ==
  ASSUME NEW j \in Jobs
  PROVE  /\ j.file \in Seq(Tracks) /\ j.ask.preroll \in Nat
         /\ j.ask.elements \in Seq([plugin : STRING, bypass : BOOLEAN, keys : Nat, matches : Nat])
         /\ j.ask.route = "smf" => j.ask.json # "chain"
BY OfflineAssumption

LEMMA SongIs ==
  ASSUME SongInv, step \notin {"prepare", "failed"}
  PROVE  /\ job.file \in Seq(Tracks) /\ ask.preroll \in Nat /\ schedule = ScheduleOf(job.file, ask.preroll)
         /\ schedule.events \in Seq(Played) /\ schedule.total \in Nat /\ schedule.total >= ask.preroll
         /\ \A m, n \in 1..Len(schedule.events) : m < n => schedule.events[m].at <= schedule.events[n].at
         /\ \A n \in 1..Len(schedule.events) : schedule.events[n].at < schedule.total /\ schedule.events[n].at \in Nat
<1>1. job.file \in Seq(Tracks) /\ ask.preroll \in Nat /\ schedule = ScheduleOf(job.file, ask.preroll)
  BY JobIs DEF SongInv, ask
<1>2. /\ schedule.events \in Seq(Played) /\ schedule.total \in Nat /\ schedule.total >= ask.preroll
      /\ \A m, n \in 1..Len(schedule.events) : m < n => schedule.events[m].at <= schedule.events[n].at
      /\ \A n \in 1..Len(schedule.events) : schedule.events[n].at < schedule.total
  BY ZenonT(60), <1>1, ScheduleIs
<1>3. \A e \in Played : e.at \in Nat
  BY DEF Played
<1>4. \A n \in 1..Len(schedule.events) : schedule.events[n] \in Played
  BY <1>2
<1> QED BY <1>1, <1>2, <1>3, <1>4

LEMMA SongInitially == OfflineInit => SongInv
<1> SUFFICES ASSUME OfflineInit PROVE SongInv
  OBVIOUS
<1>1. job \in Jobs /\ step = "prepare" /\ at = 0 /\ next = 1 /\ heard = {} /\ block = 0
  BY DEF OfflineInit
<1> QED BY <1>1 DEF SongInv, Steps

\* A block takes the events due in it, and no other.
LEMMA BlockKeepsSong ==
  ASSUME SongInv, RendersBlock
  PROVE  SongInv'
<1> DEFINE L == Len(schedule.events)
           end == at + Smaller(BufferFrames, schedule.total - at)
           due == {i \in next..L : \A k \in next..i : schedule.events[k].at < end}
<1>1. /\ step = "render" /\ at < schedule.total
      /\ UNCHANGED <<job, step, schedule, block>>
      /\ at' = end
      /\ next' = next + Cardinality(due)
      /\ heard' = heard \cup {[event |-> schedule.events[i], position |-> IF schedule.events[i].at < at THEN at ELSE schedule.events[i].at] : i \in due}
      /\ known' = [at |-> at, tempo |-> TempoAt(Transport(schedule.map), Musical(at))]
  BY Zenon DEF RendersBlock, chainVars
<1>2. /\ schedule.events \in Seq(Played) /\ L \in Nat /\ schedule.total \in Nat
      /\ \A m, n \in 1..L : m < n => schedule.events[m].at <= schedule.events[n].at
      /\ \A n \in 1..L : schedule.events[n].at \in Nat
  <2>1. step \notin {"prepare", "failed"}
    BY <1>1
  <2>2. /\ schedule.events \in Seq(Played) /\ schedule.total \in Nat
        /\ \A m, n \in 1..L : m < n => schedule.events[m].at <= schedule.events[n].at
        /\ \A n \in 1..L : schedule.events[n].at < schedule.total /\ schedule.events[n].at \in Nat
    BY ZenonT(60), <2>1, SongIs
  <2>3. L \in Nat
    BY <2>2
  <2> QED BY Zenon, <2>2, <2>3
<1>3. /\ at \in 0..schedule.total /\ next \in 1..L + 1
      /\ heard = HeardBefore(schedule, next)
      /\ \A i \in 1..next - 1 : schedule.events[i].at < at
      /\ \A i \in next..L : schedule.events[i].at >= at
  BY <1>1 DEF SongInv
<1>4. end \in Nat /\ end > at /\ end <= schedule.total /\ at \in Nat
  BY SMTT(30), <1>1, <1>2, <1>3, OfflineAssumption DEF Smaller
<1>5. PICK last \in next - 1..L :
        /\ due = next..last /\ next + Cardinality(due) = last + 1
        /\ \A k \in next..last : schedule.events[k].at < end
        /\ last < L => schedule.events[last + 1].at >= end
  <2>1. PICK events \in Seq(Played) : events = schedule.events
    BY <1>2
  <2>2. PICK first \in 1..Len(events) + 1 : first = next
    BY <1>3, <2>1
  <2>3. PICK bound \in Nat : bound = end
    BY <1>4
  <2>4. \E last \in first - 1..Len(events) :
          /\ {i \in first..Len(events) : \A k \in first..i : events[k].at < bound} = first..last
          /\ first + Cardinality({i \in first..Len(events) : \A k \in first..i : events[k].at < bound}) = last + 1
          /\ \A k \in first..last : events[k].at < bound
          /\ last < Len(events) => events[last + 1].at >= bound
    BY Zenon, DueIs
  <2> HIDE DEF end
  <2> QED BY <2>1, <2>2, <2>3, <2>4
<1> HIDE DEF end, due
<1>6. next' = last + 1 /\ last \in Nat /\ next \in Nat
  BY <1>1, <1>2, <1>3, <1>5
<1>7. heard' = HeardBefore(schedule, last + 1)
  <2>1. \A i \in due : (IF schedule.events[i].at < at THEN at ELSE schedule.events[i].at) = schedule.events[i].at
    <3> SUFFICES ASSUME NEW i \in due PROVE ~(schedule.events[i].at < at)
      OBVIOUS
    <3>1. i \in next..L /\ i \in 1..L
      BY <1>2, <1>3, <1>5
    <3> QED BY <1>2, <1>3, <1>4, <3>1
  <2>2. heard' = heard \cup {[event |-> schedule.events[i], position |-> schedule.events[i].at] : i \in due}
    BY <1>1, <2>1
  <2>3. \A i : i \in 1..(last + 1) - 1 <=> i \in 1..next - 1 \/ i \in due
    BY <1>2, <1>3, <1>5, <1>6
  <2>4. heard = {[event |-> schedule.events[i], position |-> schedule.events[i].at] : i \in 1..next - 1}
    BY <1>3 DEF HeardBefore
  <2>5. HeardBefore(schedule, last + 1) = {[event |-> schedule.events[i], position |-> schedule.events[i].at] : i \in 1..(last + 1) - 1}
    BY DEF HeardBefore
  <2> HIDE DEF L
  <2> QED BY <2>2, <2>3, <2>4, <2>5
<1>8. \A i \in 1..last : schedule.events[i].at < end
  <2> SUFFICES ASSUME NEW i \in 1..last PROVE schedule.events[i].at < end
    OBVIOUS
  <2>1. i \in 1..next - 1 \/ i \in next..last
    BY <1>6
  <2>2. i \in 1..L
    BY <1>2, <1>5
  <2> QED BY <1>2, <1>3, <1>4, <1>5, <2>1, <2>2
<1>9. \A i \in last + 1..L : schedule.events[i].at >= end
  <2> SUFFICES ASSUME NEW i \in last + 1..L PROVE schedule.events[i].at >= end
    OBVIOUS
  <2>1. last + 1 \in 1..L /\ i \in 1..L /\ (i = last + 1 \/ last + 1 < i) /\ last < L
    BY <1>2, <1>6
  <2>2. schedule.events[last + 1].at >= end
    BY <1>5, <2>1
  <2>3. schedule.events[last + 1].at <= schedule.events[i].at
    BY <1>2, <2>1
  <2> QED BY <1>2, <1>4, <2>1, <2>2, <2>3
<1>10. job' \in Jobs /\ step' = "render" /\ block' \in Nat /\ schedule' = ScheduleOf(job'.file, job'.ask.preroll) /\ schedule' = schedule
  BY <1>1 DEF SongInv, ask
<1>11. at' \in 0..schedule'.total /\ next' \in 1..Len(schedule'.events) + 1
  BY <1>1, <1>2, <1>4, <1>5, <1>6, <1>10
<1>12. known'.at \in Nat /\ known'.tempo = TempoAt(Transport(schedule.map), Musical(known'.at))
  <2>1. known'.at = at /\ known'.tempo = TempoAt(Transport(schedule.map), Musical(at))
    BY <1>1
  <2> QED BY <1>4, <2>1
<1>13. known'.tempo = TempoAt(Transport(schedule'.map), (IF known'.at < schedule'.origin THEN 0 ELSE known'.at - schedule'.origin))
  BY <1>10, <1>12 DEF Musical
<1>14. heard' = HeardBefore(schedule', next')
  BY <1>6, <1>7, <1>10
<1>15. /\ \A i \in 1..next' - 1 : schedule'.events[i].at < at'
       /\ \A i \in next'..Len(schedule'.events) : schedule'.events[i].at >= at'
  <2>1. next' - 1 = last
    BY <1>6
  <2> QED BY <1>1, <1>6, <1>8, <1>9, <1>10, <2>1
<1> QED BY <1>10, <1>11, <1>12, <1>13, <1>14, <1>15 DEF SongInv, Steps, ask, Musical

LEMMA SongStep == SongInv /\ [OfflineNext]_offlineVars => SongInv'
<1> SUFFICES ASSUME SongInv, [OfflineNext]_offlineVars PROVE SongInv'
  OBVIOUS
<1> USE DEF ask, Musical
<1>1. CASE Prepares
  <2>1. /\ step = "prepare" /\ step' \in {"handed", "create"} /\ schedule' = ScheduleOf(job.file, job.ask.preroll)
        /\ UNCHANGED <<job, at, next, heard, known, block>>
    BY <1>1 DEF Prepares, renderVars, chainVars
  <2> QED BY <2>1 DEF SongInv, Steps
<1>2. CASE PreparationFails \/ RenderFails \/ ChainFails \/ WavFails
  <2>1. step' = "failed" /\ UNCHANGED <<job, block>>
    BY <1>2 DEF PreparationFails, RenderFails, ChainFails, WavFails, Fails, chainVars
  <2> QED BY <2>1 DEF SongInv, Steps
<1>3. CASE Creates
  <2>1. step = "create" /\ step' = "render" /\ UNCHANGED <<job, schedule, at, next, heard, known, block>>
    BY <1>3 DEF Creates, renderVars, chainVars
  <2>2. at = 0 /\ next = 1 /\ heard = {} /\ job \in Jobs /\ block \in Nat /\ schedule = ScheduleOf(job.file, job.ask.preroll)
    BY <2>1 DEF SongInv
  <2>3. /\ schedule.events \in Seq(Played) /\ schedule.total \in Nat
        /\ \A n \in 1..Len(schedule.events) : schedule.events[n].at \in Nat
    BY <2>1, SongIs
  <2>4. at' \in 0..schedule.total /\ next' \in 1..Len(schedule.events) + 1
    BY <2>1, <2>2, <2>3
  <2>5. HeardBefore(schedule, 1) = {}
    BY DEF HeardBefore
  <2>6. \A i \in 1..Len(schedule.events) : schedule.events[i].at >= 0
    BY <2>3
  <2> QED BY <2>1, <2>2, <2>4, <2>5, <2>6 DEF SongInv, Steps
<1>4. CASE RendersBlock
  BY <1>4, BlockKeepsSong
<1>5. CASE InstrumentIsDone
  <2>1. step = "render" /\ at = schedule.total /\ step' \in {"trim", "build"} /\ UNCHANGED <<job, schedule, at, next, heard, known, block>>
    BY <1>5 DEF InstrumentIsDone, renderVars, chainVars
  <2>2. /\ schedule.events \in Seq(Played) /\ schedule.total \in Nat
        /\ \A n \in 1..Len(schedule.events) : schedule.events[n].at < schedule.total /\ schedule.events[n].at \in Nat
    BY <2>1, SongIs
  <2>3. next = Len(schedule.events) + 1
    <3>1. next \in 1..Len(schedule.events) + 1 /\ \A i \in next..Len(schedule.events) : schedule.events[i].at >= at
      BY <2>1 DEF SongInv
    <3>2. SUFFICES ASSUME next <= Len(schedule.events) PROVE FALSE
      BY <2>2, <3>1
    <3>3. next \in next..Len(schedule.events) /\ next \in 1..Len(schedule.events)
      BY <2>2, <3>1, <3>2
    <3> QED BY <2>1, <2>2, <3>1, <3>3
  <2>4. heard = HeardBefore(schedule, Len(schedule.events) + 1) /\ at \in Nat
    BY <2>1, <2>2, <2>3 DEF SongInv
  <2> QED BY <2>1, <2>4 DEF SongInv, Steps
<1>6. CASE BuildsStage \/ StageIsHeard \/ StageIsSilent
  <2>1. step = "build" /\ UNCHANGED <<job, step, schedule, at, next, heard, known, block>>
    BY <1>6 DEF BuildsStage, StageIsHeard, StageIsSilent, Waiting, Building, renderVars
  <2> QED BY <2>1 DEF SongInv
<1>7. CASE ChainBegins
  <2>1. step = "build" /\ step' = "apply" /\ block' = 0 /\ UNCHANGED <<job, schedule, at, next, heard, known>>
    BY <1>7 DEF ChainBegins, renderVars
  <2> QED BY <2>1 DEF SongInv, Steps
<1>8. CASE ProcessesBlock
  <2>1. /\ step = "apply" /\ block' = block + 1 /\ UNCHANGED <<job, step, schedule, at, next, heard>>
        /\ known' = [at |-> block * BufferFrames, tempo |-> TempoAt(Transport(schedule.map), Musical(block * BufferFrames))]
    BY <1>8 DEF ProcessesBlock
  <2>2. block \in Nat /\ block * BufferFrames \in Nat
    <3>1. block \in Nat /\ BufferFrames \in Nat
      BY OfflineAssumption DEF SongInv
    <3> QED BY <3>1, ProductIs
  <2>3. PICK position \in Nat : position = block * BufferFrames
    BY <2>2
  <2>4. known'.at = position /\ known'.tempo = TempoAt(Transport(schedule.map), Musical(position))
    BY <2>1, <2>3
  <2> QED BY <2>1, <2>2, <2>4 DEF SongInv
<1>9. CASE ChainEnds
  <2>1. step = "apply" /\ step' = "trim" /\ UNCHANGED <<job, schedule, at, next, heard, known, block>>
    BY <1>9 DEF ChainEnds, renderVars, chainVars
  <2> QED BY <2>1 DEF SongInv, Steps
<1>10. CASE Trims
  <2>1. step = "trim" /\ step' = "done" /\ UNCHANGED <<job, schedule, at, next, heard, known, block>>
    BY <1>10 DEF Trims, renderVars, chainVars
  <2> QED BY <2>1 DEF SongInv, Steps
<1>11. CASE UNCHANGED offlineVars
  BY <1>11 DEF SongInv, offlineVars
<1> QED BY <1>1, <1>2, <1>3, <1>4, <1>5, <1>6, <1>7, <1>8, <1>9, <1>10, <1>11 DEF OfflineNext

\* Whatever the file and the request, the events before the cursor have been heard at
\* their places, and the last block was told the tempo that the map gives there.
THEOREM SongInvCorrect == OfflineSpec => []SongInv
BY SongInitially, SongStep, PTL DEF OfflineSpec

LEMMA NotesAreInTime == SongInv => NotesFallInTime
<1> SUFFICES ASSUME SongInv, step \in {"trim", "done"}
             PROVE  LET all == Listed(job.file)
                    IN {<<h.event.track, h.event.index, h.position>> : h \in heard}
                         = {<<all[i].track, all[i].index, Sample(TimeAt(job.file, all[i].at)) + ask.preroll>> :
                              i \in {k \in 1..Len(all) : all[k].what \in Notes}}
  BY DEF NotesFallInTime
<1>1. PICK all : all = Listed(job.file)
  OBVIOUS
<1>2. PICK events : events = schedule.events
  OBVIOUS
<1>3. heard = HeardBefore(schedule, Len(schedule.events) + 1)
  BY DEF SongInv
<1>4. job.file \in Seq(Tracks) /\ ask.preroll \in Nat /\ schedule = ScheduleOf(job.file, ask.preroll) /\ Len(events) \in Nat
  BY <1>2, SongIs
<1>5. heard = {[event |-> events[n], position |-> events[n].at] : n \in 1..Len(events)}
  <2>1. (Len(events) + 1) - 1 = Len(events)
    BY <1>4
  <2> QED BY <1>2, <1>3, <2>1 DEF HeardBefore
<1> DEFINE Played3(n) == <<events[n].track, events[n].index, events[n].at>>
           Meant(i) == <<all[i].track, all[i].index, Sample(TimeAt(job.file, all[i].at)) + ask.preroll>>
           notes == {k \in 1..Len(all) : all[k].what \in Notes}
<1>6. {<<h.event.track, h.event.index, h.position>> : h \in heard} = {Played3(n) : n \in 1..Len(events)}
  <2>1. \A x : x \in {<<h.event.track, h.event.index, h.position>> : h \in heard} => x \in {Played3(n) : n \in 1..Len(events)}
    BY <1>5
  <2>2. ASSUME NEW n \in 1..Len(events) PROVE Played3(n) \in {<<h.event.track, h.event.index, h.position>> : h \in heard}
    <3>1. PICK h \in heard : h = [event |-> events[n], position |-> events[n].at]
      BY <1>5
    <3>2. h.event = events[n] /\ h.position = events[n].at
      BY <3>1
    <3>3. Played3(n) = <<h.event.track, h.event.index, h.position>>
      BY <3>2
    <3> QED BY <3>3
  <2> HIDE DEF Played3
  <2> QED BY <2>1, <2>2
<1>0. PlaysNotes(events, job.file, ask.preroll)
  BY <1>2, <1>4, ScheduleIs
<1>7. ASSUME NEW n \in 1..Len(events) PROVE \E i \in notes : Played3(n) = Meant(i)
  <2>1. PICK i \in 1..Len(all) :
          /\ all[i].what \in Notes
          /\ events[n].track = all[i].track /\ events[n].index = all[i].index
          /\ events[n].at = Sample(TimeAt(job.file, all[i].at)) + ask.preroll
    BY <1>0, <1>1 DEF PlaysNotes
  <2>2. i \in notes /\ Played3(n) = Meant(i)
    BY <2>1
  <2> QED BY <2>2
<1>8. ASSUME NEW i \in notes PROVE \E n \in 1..Len(events) : Played3(n) = Meant(i)
  <2>1. PICK n \in 1..Len(events) :
          /\ events[n].track = all[i].track /\ events[n].index = all[i].index
          /\ events[n].at = Sample(TimeAt(job.file, all[i].at)) + ask.preroll
    BY <1>0, <1>1 DEF PlaysNotes
  <2> QED BY <2>1
<1>9. {Played3(n) : n \in 1..Len(events)} = {Meant(i) : i \in notes}
  <2> HIDE DEF Played3, Meant, notes
  <2> QED BY <1>7, <1>8
<1> QED BY <1>1, <1>6, <1>9

\* Over any file, any changes of tempo and any size of the blocks, each note reaches the
\* instrument once, at the sample its tick means (midi.rs parse_smf_playback,
\* render_next_chunk).
THEOREM NotesFallInTimeCorrect == OfflineSpec => []NotesFallInTime
BY SongInvCorrect, NotesAreInTime, PTL

LEMMA BlocksAreTold ==
  ASSUME SongInv
  PROVE  BlocksKnowTheirTempo
<1> SUFFICES ASSUME BlockIsRendered
             PROVE  IF TempoIn(job.file, 0) = NoTempo THEN known.tempo = NoTempo
                    ELSE \A tick \in TicksThere :
                           \/ known.tempo = TempoIn(job.file, tick)
                           \/ \E i \in 1..Len(schedule.map) - MaxSegments + 1 :
                                schedule.map[i].at * Rate > SongPosition /\ known.tempo = schedule.map[i].tempo
  BY DEF BlocksKnowTheirTempo
<1>0. at > 0 /\ step \in {"render", "apply"}
  BY DEF BlockIsRendered
<1>1. known.at \in Nat /\ known.tempo = TempoAt(Transport(schedule.map), Musical(known.at)) /\ job \in Jobs
  BY <1>0 DEF SongInv
<1>2. job.file \in Seq(Tracks) /\ ask.preroll \in Nat /\ schedule = ScheduleOf(job.file, ask.preroll)
  BY <1>0, SongIs
<1>3. schedule.map = EntriesOf(TempoMap(job.file)) /\ schedule.origin = ask.preroll
  BY <1>2, ScheduleIs
<1>4. PICK m \in Nat : m = known.at
  BY <1>1
<1>5. PICK origin \in Nat : origin = ask.preroll
  BY <1>2
<1>6. Largest({0, m - origin}) = IF m < origin THEN 0 ELSE m - origin
  <2>1. PICK top : top = IF m < origin THEN 0 ELSE m - origin
    OBVIOUS
  <2>2. top \in {0, m - origin} /\ \A n \in {0, m - origin} : n <= top
    BY <2>1
  <2>3. \A n \in {0, m - origin} : (\A k \in {0, m - origin} : k <= n) => n = top
    BY <2>1
  <2> QED BY <2>1, <2>2, <2>3 DEF Largest
<1>7. PICK position \in Nat : position = Largest({0, known.at - ask.preroll})
  BY <1>4, <1>5, <1>6
<1>8. Musical(known.at) = position
  BY <1>3, <1>4, <1>5, <1>6, <1>7 DEF Musical
<1>9. SongPosition = position * Scale /\ position * Scale \in Nat
  <2>1. Scale \in Nat
    BY SmfAssumption
  <2> QED BY <1>7, <2>1, ProductIs DEF SongPosition
<1>10. CASE TempoIn(job.file, 0) = NoTempo
  <2>1. PICK map : map = schedule.map
    OBVIOUS
  <2>2. map[1].tempo = NoTempo
    BY <1>2, <1>3, <1>10, <2>1, FirstTempoIs
  <2>3. Transport(map) = <<>>
    <3> DEFINE upTo == CHOOSE f : f = [k \in 0..Len(Tail(map)) |-> IF k = 0 THEN <<map[1]>> ELSE Pushed(f[k - 1], Tail(map)[k])]
    <3>1. Transport(map) = IF map[1].tempo = NoTempo THEN <<>> ELSE upTo[Len(Tail(map))]
      BY Zenon DEF Transport
    <3> HIDE DEF upTo
    <3> QED BY <2>2, <3>1
  <2>4. known.tempo = TempoAt(<<>>, position)
    BY <1>1, <1>8, <2>1, <2>3
  <2>5. TempoAt(<<>>, position) = NoTempo
    <3> DEFINE kept == <<>>
               begun == {i \in 1..Len(kept) : kept[i].at * Rate <= position * Scale}
    <3>1. TempoAt(kept, position) = IF kept = <<>> THEN NoTempo ELSE kept[IF begun = {} THEN 1 ELSE Largest(begun)].tempo
      BY Zenon DEF TempoAt
    <3> HIDE DEF begun
    <3> QED BY <3>1
  <2> QED BY <1>10, <2>4, <2>5
<1>11. CASE TempoIn(job.file, 0) # NoTempo
  <2> SUFFICES ASSUME NEW tick \in TicksThere
               PROVE  \/ known.tempo = TempoIn(job.file, tick)
                      \/ \E i \in 1..Len(schedule.map) - MaxSegments + 1 :
                           schedule.map[i].at * Rate > SongPosition /\ known.tempo = schedule.map[i].tempo
    BY <1>11
  <2>1. /\ tick \in 0..SongPosition + LastTick(job.file)
        /\ TimeAt(job.file, tick) * Rate <= position * Scale /\ position * Scale < TimeAt(job.file, tick + 1) * Rate
    BY <1>9 DEF TicksThere
  <2>2. tick \in Nat
    <3>1. LastTick(job.file) \in Nat
      BY <1>2, LastTickIs
    <3> QED BY <1>9, <2>1, <3>1
  <2>3. PICK map : map = schedule.map
    OBVIOUS
  <2>4. \/ TempoAt(Transport(map), position) = TempoIn(job.file, tick)
        \/ \E i \in 1..Len(map) - MaxSegments + 1 :
             map[i].at * Rate > position * Scale /\ TempoAt(Transport(map), position) = map[i].tempo
    BY <1>2, <1>3, <1>11, <2>1, <2>2, <2>3, TransportTells
  <2> QED BY <1>1, <1>8, <1>9, <2>3, <2>4
<1> QED BY <1>10, <1>11

\* In any file, every block, of the instrument as of the effects, is told the tempo in
\* force where it begins; where the segment in force has been dropped, that of a later one
\* with MaxSegments left from it to the end, and no tempo if the song begins with an invalid
\* one (playback.rs build_transport, transport.rs push and segment_at,
\* musical_sample).
THEOREM BlocksKnowTheirTempoCorrect == OfflineSpec => []BlocksKnowTheirTempo
<1>1. SongInv => BlocksKnowTheirTempo
  BY BlocksAreTold
<1> QED BY <1>1, SongInvCorrect, PTL

(***************************************************************************)
(* The sound: what the chain of effects does to it                         *)
(***************************************************************************)
Marks == Plugins \X {"preset"}
Sounds == [number : Int, through : Seq(Marks)]
Stage == [plugin : Plugins, state : {"init", "measure", "preset"}, active : BOOLEAN, line : Seq(Sounds)]

\* How far behind the instrument the sound is after each of the plugins.
Delay(plugins) ==
  LET sum[k \in 0..Len(plugins)] == IF k = 0 THEN 0 ELSE sum[k - 1] + Latency[plugins[k]]
  IN sum

Delays(D, plugins) ==
  /\ D \in [0..Len(plugins) -> Nat] /\ D[0] = 0
  /\ \A k \in 1..Len(plugins) : D[k] = D[k - 1] + Latency[plugins[k]]

\* A frame of a song of this length behind the first k plugins.
Sound(plugins, total, i, k) ==
  [number |-> IF i \in 1..total THEN i ELSE 0, through |-> [m \in 1..k |-> <<plugins[m], "preset">>]]

Song(n) == [i \in 1..n |-> Frame(i)]

\* A stage of this plugin with its preset.
StageOf(stage, plugin) == stage \in Stage /\ stage.plugin = plugin /\ stage.state = "preset" /\ Len(stage.line) = Latency[plugin]

Built(stages, plugins) ==
  /\ stages \in Seq(Stage) /\ Len(stages) <= Len(plugins)
  /\ \A k \in 1..Len(stages) : StageOf(stages[k], plugins[k])

\* These frames, the first of them at this place, are as they should be after k plugins:
\* those at the places that the delay leaves empty may be anything.
SoundsAfter(frames, first, plugins, total, k, delay) ==
  /\ frames \in Seq(Sounds)
  /\ \A j \in 1..Len(frames) : first + j - delay >= 1 => frames[j] = Sound(plugins, total, first + j - delay, k)

\* What a stage's line holds when so many frames have gone in.
LineAfter(stage, plugins, total, k, done) ==
  StageOf(stage, plugins[k]) /\ SoundsAfter(stage.line, done, plugins, total, k - 1, Delay(plugins)[k])

\* The chain in the middle of its work: so many frames are through.
InPlace(plugins, total, frames, stages, done) ==
  /\ frames \in Seq(Sounds) /\ done \in Nat /\ \E m \in Nat : Len(frames) = done + m * BufferFrames
  /\ Len(frames) >= total + Delay(plugins)[Len(plugins)]
  /\ \A i \in 1..Len(frames) : i > done => frames[i] = Sound(plugins, total, i, 0)
  /\ SoundsAfter(SubSeq(frames, 1, done), 0, plugins, total, Len(plugins), Delay(plugins)[Len(plugins)])
  /\ stages \in Seq(Stage) /\ Len(stages) = Len(plugins)
  /\ \A k \in 1..Len(stages) : LineAfter(stages[k], plugins, total, k, done)

ChainInv ==
  /\ step \in {"prepare", "create", "render"} => chain = <<>> /\ probes = 0
  /\ step \in {"prepare", "create"} => audio = <<>>
  /\ step \notin {"prepare", "handed", "failed"} => spec = Wanted /\ spec \in Seq(Plugins)
  /\ step = "render" => audio = Song(at)
  /\ step = "build" =>
       /\ audio = Song(schedule.total) /\ Built(chain, spec)
       /\ probes \in Nat /\ (probes > 0 => Len(chain) < Len(spec) /\ spec[Len(chain) + 1] = SlowPlugin)
  /\ step = "apply" => InPlace(spec, schedule.total, audio, chain, block * BufferFrames)
  /\ step = "trim" => audio = [i \in 1..schedule.total |-> Sound(spec, schedule.total, i, Len(spec))]
  /\ SoundStaysInPlace

\* The stages asked for are plugins of the catalog.
LEMMA StagesAre ==
  ASSUME NEW elements \in Seq([plugin : STRING, bypass : BOOLEAN, keys : Nat, matches : Nat]),
         \A i \in 1..Len(elements) : ~ElementFails(elements[i])
  PROVE  Stages(elements) \in Seq(Plugins)
<1> DEFINE kept == {i \in 1..Len(elements) : ~elements[i].bypass}
           names == [i \in 1..Len(elements) |-> elements[i].plugin]
           key == [i \in kept |-> i]
           size == Cardinality(kept)
<1>1. Len(elements) \in Nat /\ \A i \in kept : i \in 1..Len(elements) /\ names[i] \in Plugins
  <2>1. ASSUME NEW i \in kept PROVE names[i] \in Plugins
    <3>1. ~ElementFails(elements[i]) /\ ~elements[i].bypass
      OBVIOUS
    <3> QED BY <3>1 DEF ElementFails
  <2> QED BY <2>1
<1>2. IsFiniteSet(kept) /\ kept \subseteq Nat /\ \A k \in kept : key[k] \in Nat
  <2>1. IsFiniteSet(1..Len(elements))
    BY <1>1, FS_Interval
  <2>2. kept \in SUBSET (1..Len(elements))
    OBVIOUS
  <2>3. IsFiniteSet(kept)
    <3> HIDE DEF kept
    <3> QED BY <2>1, <2>2, FS_Subset
  <2>4. \A k \in kept : key[k] = k /\ k \in Nat
    BY <1>1
  <2> HIDE DEF kept, key
  <2> QED BY <2>3, <2>4
<1>3. size \in Nat /\ \E place : InOrder(names, kept, key, place)
  <2> HIDE DEF kept, names, key
  <2> QED BY <1>2, OrderedIs
<1>4. PICK place : InOrder(names, kept, key, place)
  BY <1>3
<1>5. Stages(elements) = Ordered(names, kept, key)
  BY Zenon DEF Stages
<1>6. Ordered(names, kept, key) = [n \in 1..size |-> names[place[n]]] /\ place \in [1..size -> kept]
  BY <1>4 DEF InOrder
<1> HIDE DEF kept, names, key, size
<1>7. \A n \in 1..size : names[place[n]] \in Plugins
  BY <1>1, <1>6
<1> QED BY <1>3, <1>5, <1>6, <1>7

LEMMA LatencyIs ==
  ASSUME NEW plugin \in Plugins
  PROVE  Latency[plugin] \in Nat
BY OfflineAssumption

LEMMA DelayIs ==
  ASSUME NEW plugins \in Seq(Plugins)
  PROVE  Delays(Delay(plugins), plugins)
<1> DEFINE n == Len(plugins)
           Solution(f) == f = [k \in 0..n |-> IF k = 0 THEN 0 ELSE f[k - 1] + Latency[plugins[k]]]
           sum == CHOOSE f : Solution(f)
<1>0. n \in Nat /\ \A k \in 1..n : Latency[plugins[k]] \in Nat
  <2>1. \A k \in 1..n : plugins[k] \in Plugins
    OBVIOUS
  <2> QED BY <2>1, LatencyIs
<1>1. Delay(plugins) = sum
  BY Zenon DEF Delay
<1>2. \E f : Solution(f) /\ \A k \in 0..n : f[k] \in Nat
  <2>1. PICK turn : turn = [x \in (1..n) \X Nat |-> x[2] + Latency[plugins[x[1]]]]
    OBVIOUS
  <2>2. PICK D : D = [k \in 0..n |-> Nat]
    OBVIOUS
  <2>3. ASSUME NEW k \in 1..n, NEW x \in D[k - 1]
        PROVE  turn[<<k, x>>] = x + Latency[plugins[k]] /\ turn[<<k, x>>] \in D[k]
    <3>1. x \in Nat /\ D[k] = Nat
      BY <1>0, <2>2
    <3>2. turn[<<k, x>>] = x + Latency[plugins[k]]
      BY <2>1, <3>1
    <3> QED BY <1>0, <3>1, <3>2
  <2>4. PICK f : Solves(f, n, D, turn, 0)
    <3>1. PICK base : base = 0
      OBVIOUS
    <3>2. base \in D[0] /\ n \in Nat
      BY <1>0, <2>2, <3>1
    <3> HIDE DEF n, sum
    <3>3. \E f : Solves(f, n, D, turn, base)
      BY <2>3, <3>2, RecursionHasSolution
    <3> QED BY <3>1, <3>3
  <2>5. \A k \in 0..n : f[k] \in Nat /\ f[k] = IF k = 0 THEN 0 ELSE f[k - 1] + Latency[plugins[k]]
    <3> SUFFICES ASSUME NEW k \in 0..n PROVE f[k] \in Nat /\ (k # 0 => f[k] = f[k - 1] + Latency[plugins[k]])
      BY <2>4 DEF Solves
    <3>1. f[k] \in Nat
      BY <2>2, <2>4 DEF Solves
    <3>2. ASSUME k # 0 PROVE f[k] = f[k - 1] + Latency[plugins[k]]
      <4>1. k \in 1..n /\ k - 1 \in 0..n
        BY <1>0, <3>2
      <4>2. f[k - 1] \in D[k - 1] /\ f[k] = turn[<<k, f[k - 1]>>]
        BY <2>4, <4>1 DEF Solves
      <4> QED BY <2>3, <4>1, <4>2
    <3> QED BY <3>1, <3>2
  <2>6. f = [k \in 0..n |-> IF k = 0 THEN 0 ELSE f[k - 1] + Latency[plugins[k]]]
    BY <2>4, <2>5 DEF Solves
  <2> QED BY <2>5, <2>6
<1>3. Solution(sum)
  BY Zenon, <1>2
<1> HIDE DEF sum
<1>4. \A k \in 0..n : sum[k] = IF k = 0 THEN 0 ELSE sum[k - 1] + Latency[plugins[k]]
  BY <1>3
<1>5. sum[0] = 0
  BY <1>0, <1>4
<1>6. ASSUME NEW k \in 1..n PROVE sum[k] = sum[k - 1] + Latency[plugins[k]]
  <2>1. k \in 0..n /\ k # 0
    BY <1>0
  <2> QED BY <1>4, <2>1
<1> DEFINE T == {k \in Nat : k <= n => sum[k] \in Nat}
<1>7. 0 \in T
  BY <1>5
<1>8. ASSUME NEW k \in Nat, k \in T PROVE k + 1 \in T
  <2>1. SUFFICES ASSUME k + 1 <= n PROVE sum[k + 1] \in Nat
    BY <1>8
  <2>2. k + 1 \in 1..n /\ (k + 1) - 1 = k /\ sum[k] \in Nat
    BY <1>0, <1>8, <2>1
  <2>3. sum[k + 1] = sum[k] + Latency[plugins[k + 1]]
    BY <1>6, <2>2
  <2> QED BY <1>0, <2>2, <2>3
<1>9. \A k \in 0..n : sum[k] \in Nat
  <2>1. Nat \subseteq T
    <3> HIDE DEF T
    <3> QED BY <1>7, <1>8, AllNaturals
  <2> QED BY <1>0, <2>1
<1>10. sum \in [0..n -> Nat]
  BY <1>3, <1>9
<1> QED BY <1>1, <1>5, <1>6, <1>10 DEF Delays

\* The latency of a chain is the delay behind the last of its plugins.
LEMMA TotalLatencyIs ==
  ASSUME NEW plugins \in Seq(Plugins), NEW stages, Len(stages) = Len(plugins),
         \A k \in 1..Len(plugins) : stages[k].plugin = plugins[k]
  PROVE  TotalLatency(stages) = Delay(plugins)[Len(plugins)]
<1> DEFINE n == Len(stages)
           Solution(f) == f = [k \in 0..n |-> IF k = 0 THEN 0 ELSE f[k - 1] + Latency[stages[k].plugin]]
           sum == CHOOSE f : Solution(f)
<1>0. n \in Nat
  OBVIOUS
<1>1. TotalLatency(stages) = sum[n]
  BY Zenon DEF TotalLatency
<1>2. PICK D : D = Delay(plugins)
  OBVIOUS
<1>3. /\ D \in [0..n -> Nat] /\ D[0] = 0
      /\ \A k \in 1..n : D[k] = D[k - 1] + Latency[stages[k].plugin]
  BY <1>2, DelayIs DEF Delays
<1>4. \A k \in 0..n : D[k] = IF k = 0 THEN 0 ELSE D[k - 1] + Latency[stages[k].plugin]
  <2> SUFFICES ASSUME NEW k \in 0..n, k # 0 PROVE D[k] = D[k - 1] + Latency[stages[k].plugin]
    BY <1>3
  <2>1. k \in 1..n
    BY <1>0
  <2> QED BY <1>3, <2>1
<1>5. D = [k \in 0..n |-> IF k = 0 THEN 0 ELSE D[k - 1] + Latency[stages[k].plugin]]
  BY <1>3, <1>4
<1>6. Solution(sum)
  <2>1. Solution(D)
    BY <1>5
  <2> QED BY Zenon, <2>1
<1> HIDE DEF sum
<1>7. \A k \in 0..n : sum[k] = IF k = 0 THEN 0 ELSE sum[k - 1] + Latency[stages[k].plugin]
  BY <1>6
<1> DEFINE T == {k \in Nat : k <= n => sum[k] = D[k]}
<1>8. 0 \in T
  BY <1>0, <1>3, <1>7
<1>9. ASSUME NEW k \in Nat, k \in T PROVE k + 1 \in T
  <2>1. SUFFICES ASSUME k + 1 <= n PROVE sum[k + 1] = D[k + 1]
    BY <1>9
  <2>2. k + 1 \in 0..n /\ k + 1 # 0 /\ (k + 1) - 1 = k /\ sum[k] = D[k]
    BY <1>0, <1>9, <2>1
  <2>3. sum[k + 1] = sum[k] + Latency[stages[k + 1].plugin]
    BY <1>7, <2>2
  <2>4. D[k + 1] = D[k] + Latency[stages[k + 1].plugin]
    BY <1>4, <2>2
  <2> QED BY <2>2, <2>3, <2>4
<1>10. n \in T
  <2> HIDE DEF T, n
  <2> QED BY <1>0, <1>8, <1>9, AllNaturals
<1>11. sum[n] = D[n]
  BY <1>0, <1>10
<1> QED BY <1>1, <1>2, <1>11

LEMMA SoundIs ==
  ASSUME NEW plugins \in Seq(Plugins), NEW total, NEW i \in Int, NEW k \in 0..Len(plugins)
  PROVE  Sound(plugins, total, i, k) \in Sounds /\ Len(Sound(plugins, total, i, k).through) = k
<1>1. PICK through : through = [m \in 1..k |-> <<plugins[m], "preset">>]
  OBVIOUS
<1>2. Len(plugins) \in Nat /\ k \in Nat /\ \A m \in 1..k : m \in 1..Len(plugins)
  OBVIOUS
<1>3. \A m \in 1..k : <<plugins[m], "preset">> \in Marks
  BY <1>2 DEF Marks
<1>4. through \in Seq(Marks) /\ Len(through) = k
  BY <1>1, <1>2, <1>3
<1>5. PICK number \in Int : number = IF i \in 1..total THEN i ELSE 0
  OBVIOUS
<1> QED BY <1>1, <1>4, <1>5 DEF Sound, Sounds

Marked(f, plugin) == [f EXCEPT !.through = Append(@, <<plugin, "preset">>)]

\* A stage with its preset marks what goes through it.
LEMMA SoundGoesThrough ==
  ASSUME NEW plugins \in Seq(Plugins), NEW total, NEW i \in Int, NEW k \in 1..Len(plugins), NEW f, f = Sound(plugins, total, i, k - 1)
  PROVE  Marked(f, plugins[k]) = Sound(plugins, total, i, k)
<1>1. PICK before : before = [m \in 1..k - 1 |-> <<plugins[m], "preset">>]
  OBVIOUS
<1>2. PICK after : after = [m \in 1..k |-> <<plugins[m], "preset">>]
  OBVIOUS
<1>3. Len(plugins) \in Nat /\ k \in Nat /\ k - 1 \in Nat /\ \A m \in 1..k : m \in 1..Len(plugins)
  OBVIOUS
<1>4. \A m \in 1..k : <<plugins[m], "preset">> \in Marks
  BY <1>3 DEF Marks
<1>5. PICK mark \in Marks : mark = <<plugins[k], "preset">>
  <2>1. k \in 1..k
    BY <1>3
  <2> QED BY <1>4, <2>1
<1>6. before \in Seq(Marks) /\ Len(before) = k - 1 /\ \A m \in 1..k - 1 : before[m] = <<plugins[m], "preset">>
  <2>1. \A m \in 1..k - 1 : m \in 1..k
    BY <1>3
  <2> QED BY <1>1, <1>3, <1>4, <2>1
<1>7. after \in Seq(Marks) /\ Len(after) = k /\ \A m \in 1..k : after[m] = <<plugins[m], "preset">>
  BY <1>2, <1>3, <1>4
<1>8. Append(before, mark) = after
  <2>1. Append(before, mark) \in Seq(Marks) /\ Len(Append(before, mark)) = k
    BY <1>3, <1>6
  <2>2. ASSUME NEW m \in 1..k PROVE Append(before, mark)[m] = after[m]
    <3>1. CASE m = k
      BY <1>3, <1>5, <1>6, <1>7, <3>1
    <3>2. CASE m # k
      <4>1. m \in 1..k - 1
        BY <1>3, <3>2
      <4>2. Append(before, mark)[m] = before[m]
        BY <1>3, <1>6, <4>1
      <4> QED BY <1>6, <1>7, <4>1, <4>2
    <3> QED BY <3>1, <3>2
  <2>3. PICK longer \in Seq(Marks) : longer = Append(before, mark)
    BY <2>1
  <2> QED BY <1>7, <2>1, <2>2, <2>3, SeqEqual
<1>9. PICK number : number = IF i \in 1..total THEN i ELSE 0
  OBVIOUS
<1>10. f = [number |-> number, through |-> before]
  BY <1>1, <1>9 DEF Sound
<1>11. Marked(f, plugins[k]) = [f EXCEPT !.through = after]
  <2>1. f.through = before
    BY <1>10
  <2> QED BY <1>5, <1>8, <2>1 DEF Marked
<1>12. [f EXCEPT !.through = after] = [number |-> number, through |-> after]
  BY <1>10
<1> QED BY <1>2, <1>9, <1>11, <1>12 DEF Sound

\* A stage gives back its line and then what enters, and keeps the rest.
LEMMA ThroughIs ==
  ASSUME NEW plugins \in Seq(Plugins), NEW total, NEW k \in 1..Len(plugins), NEW done \in Nat,
         NEW stage, LineAfter(stage, plugins, total, k, done),
         NEW frames, SoundsAfter(frames, done, plugins, total, k - 1, Delay(plugins)[k - 1])
  PROVE  /\ SoundsAfter(Through(stage, frames).out, done, plugins, total, k, Delay(plugins)[k])
         /\ Len(Through(stage, frames).out) = Len(frames)
         /\ LineAfter(Through(stage, frames).stage, plugins, total, k, done + Len(frames))
<1>1. PICK late \in Nat : late = Delay(plugins)[k]
  BY DelayIs DEF Delays
<1>2. PICK early \in Nat : early = Delay(plugins)[k - 1]
  <2>1. k - 1 \in 0..Len(plugins)
    OBVIOUS
  <2> QED BY <2>1, DelayIs DEF Delays
<1>3. PICK width \in Nat : width = Latency[plugins[k]]
  BY LatencyIs
<1>4. late = early + width
  BY <1>1, <1>2, <1>3, DelayIs DEF Delays
<1>5. PICK held \in Seq(Sounds) : held = stage.line
  BY DEF LineAfter, SoundsAfter
<1>6. /\ StageOf(stage, plugins[k]) /\ Len(held) = width
      /\ \A j \in 1..width : done + j - late >= 1 => held[j] = Sound(plugins, total, done + j - late, k - 1)
  BY <1>1, <1>3, <1>5 DEF LineAfter, SoundsAfter, StageOf
<1>7. /\ frames \in Seq(Sounds) /\ Len(frames) \in Nat
      /\ \A j \in 1..Len(frames) : done + j - early >= 1 => frames[j] = Sound(plugins, total, done + j - early, k - 1)
  BY <1>2 DEF SoundsAfter
<1>8. PICK size \in Nat : size = Len(frames)
  BY <1>7
<1>9. PICK all : all = held \o frames
  OBVIOUS
<1>10. /\ all \in Seq(Sounds) /\ Len(all) = width + size
       /\ \A j \in 1..width : all[j] = held[j]
       /\ \A j \in width + 1..width + size : all[j] = frames[j - width]
  BY <1>6, <1>7, <1>8, <1>9
<1>11. ASSUME NEW j \in 1..width + size, done + j - late >= 1
       PROVE  all[j] = Sound(plugins, total, done + j - late, k - 1)
  <2>1. CASE j <= width
    <3>1. j \in 1..width
      BY <2>1
    <3> QED BY <1>6, <1>10, <1>11, <3>1
  <2>2. CASE j > width
    <3>1. PICK l \in 1..size : l = j - width
      BY <2>2
    <3>2. all[j] = frames[l] /\ done + l - early = done + j - late
      BY <1>4, <1>10, <2>2, <3>1
    <3> QED BY <1>7, <1>8, <1>11, <3>1, <3>2
  <2> QED BY <2>1, <2>2
<1> DEFINE mark(f) == [f EXCEPT !.through = Append(@, <<stage.plugin, stage.state>>)]
<1>12. PICK given : given = [j \in 1..size |-> mark(all[j])]
  OBVIOUS
<1>13. PICK kept : kept = SubSeq(all, size + 1, width + size)
  OBVIOUS
<1>14. PICK after : after = [stage EXCEPT !.line = kept]
  OBVIOUS
<1>15. Through(stage, frames).out = given /\ Through(stage, frames).stage = after
  <2>1. Through(stage, frames) = [out |-> given, stage |-> after]
    BY <1>5, <1>8, <1>9, <1>10, <1>12, <1>13, <1>14 DEF Through
  <2> QED BY <2>1
<1>16. stage.plugin = plugins[k] /\ stage.state = "preset" /\ stage \in Stage /\ plugins[k] \in Plugins
  BY <1>6 DEF StageOf
<1>17. ASSUME NEW f \in Sounds PROVE mark(f) \in Sounds
  <2>1. <<stage.plugin, stage.state>> \in Marks
    BY <1>16 DEF Marks
  <2>2. f.through \in Seq(Marks)
    BY DEF Sounds
  <2>0. PICK new \in Marks : new = <<stage.plugin, stage.state>>
    BY <2>1
  <2>6. PICK before \in Seq(Marks) : before = f.through
    BY <2>2
  <2>5. Append(before, new) \in Seq(Marks)
    BY <2>0, <2>6
  <2>3. PICK more \in Seq(Marks) : more = Append(before, new)
    BY <2>5
  <2>4. mark(f) = [f EXCEPT !.through = more]
    BY <2>0, <2>3, <2>6
  <2> HIDE DEF mark
  <2> QED BY <2>4 DEF Sounds
<1>18. given \in Seq(Sounds) /\ Len(given) = size /\ \A j \in 1..size : given[j] = mark(all[j])
  <2>1. \A j \in 1..size : mark(all[j]) \in Sounds
    <3> HIDE DEF mark
    <3>1. \A j \in 1..size : all[j] \in Sounds
      BY <1>10
    <3> QED BY <1>17, <3>1
  <2> HIDE DEF mark
  <2> QED BY <1>12, <2>1
<1>19. ASSUME NEW j \in 1..size, done + j - late >= 1 PROVE given[j] = Sound(plugins, total, done + j - late, k)
  <2>1. j \in 1..width + size
    OBVIOUS
  <2>2. all[j] = Sound(plugins, total, done + j - late, k - 1)
    BY <1>11, <1>19, <2>1
  <2>3. PICK i \in Int : i = done + j - late
    OBVIOUS
  <2>4. PICK f : f = all[j]
    OBVIOUS
  <2>7. f = Sound(plugins, total, i, k - 1)
    BY <2>2, <2>3, <2>4
  <2>5. Marked(f, plugins[k]) = Sound(plugins, total, i, k)
    BY <2>7, SoundGoesThrough
  <2>6. mark(all[j]) = Sound(plugins, total, i, k)
    BY <1>16, <2>4, <2>5 DEF Marked
  <2> HIDE DEF mark
  <2> QED BY <1>18, <2>3, <2>6
<1>20. SoundsAfter(given, done, plugins, total, k, late)
  BY <1>18, <1>19 DEF SoundsAfter
<1>21. kept \in Seq(Sounds) /\ Len(kept) = width /\ \A j \in 1..width : kept[j] = all[size + j]
  BY <1>10, <1>13
<1>22. ASSUME NEW j \in 1..width, (done + size) + j - late >= 1
       PROVE  kept[j] = Sound(plugins, total, (done + size) + j - late, k - 1)
  <2>1. PICK l \in 1..width + size : l = size + j
    OBVIOUS
  <2>2. done + l - late = (done + size) + j - late
    BY <2>1
  <2> QED BY <1>11, <1>21, <1>22, <2>1, <2>2
<1>23. StageOf(after, plugins[k]) /\ after.line = kept
  <2>1. after.plugin = stage.plugin /\ after.state = stage.state /\ after.line = kept
    BY <1>14, <1>16 DEF Stage
  <2>2. after \in Stage
    BY <1>14, <1>16, <1>21 DEF Stage
  <2> QED BY <1>3, <1>16, <1>21, <2>1, <2>2 DEF StageOf
<1>24. SoundsAfter(kept, done + size, plugins, total, k - 1, late)
  BY <1>21, <1>22 DEF SoundsAfter
<1> QED BY <1>1, <1>8, <1>15, <1>18, <1>20, <1>23, <1>24 DEF LineAfter

\* A block that is through k of the stages.
RunAfter(plugins, total, done, size, k) ==
  {r \in [out : Seq(Sounds), stages : Seq(Stage)] :
     /\ Len(r.out) = size /\ SoundsAfter(r.out, done, plugins, total, k, Delay(plugins)[k])
     /\ Len(r.stages) = k /\ \A m \in 1..k : LineAfter(r.stages[m], plugins, total, m, done + size)}

Turned(stage, r) == [out |-> Through(stage, r.out).out, stages |-> Append(r.stages, Through(stage, r.out).stage)]

LEMMA RunStep ==
  ASSUME NEW plugins \in Seq(Plugins), NEW total, NEW done \in Nat, NEW size \in Nat, NEW k \in 1..Len(plugins),
         NEW stage, LineAfter(stage, plugins, total, k, done), NEW r \in RunAfter(plugins, total, done, size, k - 1)
  PROVE  Turned(stage, r) \in RunAfter(plugins, total, done, size, k)
<1>1. /\ r.out \in Seq(Sounds) /\ r.stages \in Seq(Stage) /\ Len(r.out) = size /\ Len(r.stages) = k - 1
      /\ SoundsAfter(r.out, done, plugins, total, k - 1, Delay(plugins)[k - 1])
      /\ \A m \in 1..k - 1 : LineAfter(r.stages[m], plugins, total, m, done + size)
  BY DEF RunAfter
<1>2. PICK frames \in Seq(Sounds) : frames = r.out
  BY <1>1
<1>3. /\ SoundsAfter(Through(stage, frames).out, done, plugins, total, k, Delay(plugins)[k])
      /\ Len(Through(stage, frames).out) = Len(frames)
      /\ LineAfter(Through(stage, frames).stage, plugins, total, k, done + Len(frames))
  <2>1. SoundsAfter(frames, done, plugins, total, k - 1, Delay(plugins)[k - 1])
    BY <1>1, <1>2
  <2> QED BY ZenonT(60), <2>1, ThroughIs
<1>4. PICK after : after = Through(stage, r.out).stage
  OBVIOUS
<1>5. PICK out : out = Through(stage, r.out).out
  OBVIOUS
<1>6. /\ out \in Seq(Sounds) /\ Len(out) = size /\ SoundsAfter(out, done, plugins, total, k, Delay(plugins)[k])
      /\ after \in Stage /\ LineAfter(after, plugins, total, k, done + size)
  BY <1>1, <1>2, <1>3, <1>4, <1>5 DEF SoundsAfter, LineAfter, StageOf
<1>7. PICK before \in Seq(Stage) : before = r.stages /\ Len(before) = k - 1
  BY <1>1
<1>8. PICK stages \in Seq(Stage) : stages = Append(before, after)
  <2>1. Append(before, after) \in Seq(Stage)
    BY <1>6, <1>7
  <2> QED BY <2>1
<1>9. Len(stages) = k /\ stages[k] = after /\ \A m \in 1..k - 1 : stages[m] = before[m]
  BY <1>6, <1>7, <1>8
<1>10. ASSUME NEW m \in 1..k PROVE LineAfter(stages[m], plugins, total, m, done + size)
  <2>1. CASE m = k
    BY <1>6, <1>9, <2>1
  <2>2. CASE m # k
    <3>1. m \in 1..k - 1
      BY <2>2
    <3> QED BY <1>1, <1>7, <1>9, <3>1
  <2> QED BY <2>1, <2>2
<1>11. Turned(stage, r) = [out |-> out, stages |-> stages]
  BY <1>4, <1>5, <1>7, <1>8 DEF Turned
<1>12. PICK result : result = [out |-> out, stages |-> stages]
  OBVIOUS
<1>13. result.out = out /\ result.stages = stages /\ result \in [out : Seq(Sounds), stages : Seq(Stage)]
  BY <1>6, <1>12
<1>14. result \in RunAfter(plugins, total, done, size, k)
  BY <1>6, <1>9, <1>10, <1>13 DEF RunAfter
<1> QED BY <1>11, <1>12, <1>14

LEMMA RunIs ==
  ASSUME NEW plugins \in Seq(Plugins), NEW total, NEW done \in Nat, NEW size \in Nat,
         NEW stages, Len(stages) = Len(plugins),
         \A k \in 1..Len(plugins) : LineAfter(stages[k], plugins, total, k, done),
         NEW given, Len(given) = size, SoundsAfter(given, done, plugins, total, 0, 0)
  PROVE  LET run[k \in 0..Len(stages)] ==
               IF k = 0 THEN [out |-> given, stages |-> <<>>]
               ELSE LET r == Through(stages[k], run[k - 1].out)
                    IN [out |-> r.out, stages |-> Append(run[k - 1].stages, r.stage)]
         IN  run[Len(stages)] \in RunAfter(plugins, total, done, size, Len(plugins))
<1> DEFINE n == Len(stages)
           After(k) == RunAfter(plugins, total, done, size, k)
           Begun == [out |-> given, stages |-> <<>>]
           Solution(f) == f = [k \in 0..n |->
                                 IF k = 0 THEN Begun
                                 ELSE LET r == Through(stages[k], f[k - 1].out)
                                      IN [out |-> r.out, stages |-> Append(f[k - 1].stages, r.stage)]]
           run == CHOOSE f : Solution(f)
<1>0. n \in Nat /\ n = Len(plugins)
  OBVIOUS
<1>1. \A f : Solution(f) <=> f = [k \in 0..n |-> IF k = 0 THEN Begun ELSE Turned(stages[k], f[k - 1])]
  BY DEF Turned
<1>2. Begun \in After(0)
  <2>1. PICK base : base = Begun
    OBVIOUS
  <2>2. base.out = given /\ base.stages = <<>> /\ base \in [out : Seq(Sounds), stages : Seq(Stage)]
    <3>1. given \in Seq(Sounds) /\ <<>> \in Seq(Stage)
      BY DEF SoundsAfter
    <3> QED BY <2>1, <3>1
  <2>3. Delay(plugins)[0] = 0
    BY DelayIs DEF Delays
  <2>4. Len(base.stages) = 0
    BY <2>2
  <2> QED BY <2>1, <2>2, <2>3, <2>4 DEF RunAfter
<1>3. ASSUME NEW k \in 1..n, NEW r \in After(k - 1) PROVE Turned(stages[k], r) \in After(k)
  <2>1. k \in 1..Len(plugins) /\ LineAfter(stages[k], plugins, total, k, done)
    OBVIOUS
  <2> QED BY <1>3, <2>1, RunStep
<1> DEFINE Runs == [out : Seq(Sounds), stages : Seq(Stage)]
<1>4. \A k : After(k) \subseteq Runs
  BY DEF RunAfter
<1>5. \E f : Solution(f)
  <2>1. PICK turn : turn = [x \in (1..n) \X Runs |-> Turned(stages[x[1]], x[2])]
    OBVIOUS
  <2>2. PICK D : D = [k \in 0..n |-> After(k)]
    OBVIOUS
  <2> HIDE DEF Runs, After
  <2>3. ASSUME NEW k \in 1..n, NEW r \in D[k - 1]
        PROVE  turn[<<k, r>>] = Turned(stages[k], r) /\ turn[<<k, r>>] \in D[k]
    <3>1. r \in After(k - 1) /\ D[k] = After(k)
      BY <1>0, <2>2
    <3>2. <<k, r>> \in (1..n) \X Runs
      BY <1>4, <3>1
    <3>3. turn[<<k, r>>] = Turned(stages[k], r)
      BY <2>1, <3>2
    <3> QED BY <1>3, <3>1, <3>3
  <2>4. PICK f : Solves(f, n, D, turn, Begun)
    <3>1. PICK base : base = Begun
      OBVIOUS
    <3>2. base \in D[0] /\ n \in Nat
      BY <1>0, <1>2, <2>2, <3>1
    <3> HIDE DEF n, run
    <3>3. \E f : Solves(f, n, D, turn, base)
      BY <2>3, <3>2, RecursionHasSolution
    <3> QED BY <3>1, <3>3
  <2> HIDE DEF Begun
  <2>5. \A k \in 0..n : f[k] = IF k = 0 THEN Begun ELSE Turned(stages[k], f[k - 1])
    <3> SUFFICES ASSUME NEW k \in 0..n, k # 0 PROVE f[k] = Turned(stages[k], f[k - 1])
      BY <2>4 DEF Solves
    <3>1. k \in 1..n /\ k - 1 \in 0..n
      BY <1>0
    <3>2. f[k - 1] \in D[k - 1] /\ f[k] = turn[<<k, f[k - 1]>>]
      BY <2>4, <3>1 DEF Solves
    <3> QED BY <2>3, <3>1, <3>2
  <2>6. f = [k \in 0..n |-> IF k = 0 THEN Begun ELSE Turned(stages[k], f[k - 1])]
    BY <2>4, <2>5 DEF Solves
  <2> HIDE DEF Solution
  <2> QED BY <1>1, <2>6
<1>6. Solution(run)
  BY Zenon, <1>5
<1>7. run[n] \in After(n)
  <2>1. run = [k \in 0..n |-> IF k = 0 THEN Begun ELSE Turned(stages[k], run[k - 1])]
    <3> HIDE DEF Solution, run, Begun
    <3> QED BY <1>1, <1>6
  <2> HIDE DEF run, Begun, After
  <2>2. \A k \in 0..n : run[k] = IF k = 0 THEN Begun ELSE Turned(stages[k], run[k - 1])
    BY <2>1
  <2> DEFINE T == {k \in Nat : k <= n => run[k] \in After(k)}
  <2>3. 0 \in T
    BY <1>0, <1>2, <2>2
  <2>4. ASSUME NEW k \in Nat, k \in T PROVE k + 1 \in T
    <3>1. SUFFICES ASSUME k + 1 <= n PROVE run[k + 1] \in After(k + 1)
      BY <2>4
    <3>2. PICK j \in 1..n : j = k + 1 /\ j - 1 = k /\ j \in 0..n /\ j # 0
      BY <1>0, <3>1
    <3>3. run[j] = Turned(stages[j], run[j - 1])
      BY <2>2, <3>2
    <3>4. run[j - 1] \in After(j - 1)
      BY <1>0, <2>4, <3>1, <3>2
    <3> QED BY <1>3, <3>2, <3>3, <3>4
  <2>5. n \in T
    <3> HIDE DEF T, n
    <3> QED BY <1>0, <2>3, <2>4, AllNaturals
  <2> QED BY <1>0, <2>5
<1>8. run[n] \in RunAfter(plugins, total, done, size, Len(plugins))
  BY <1>0, <1>7
<1> QED BY Zenon, <1>8

LEMMA CutIs ==
  ASSUME NEW S, NEW s \in Seq(S), NEW m \in Nat, NEW n \in Nat, m <= n, n <= Len(s)
  PROVE  /\ SubSeq(s, m + 1, n) \in Seq(S) /\ Len(SubSeq(s, m + 1, n)) = n - m
         /\ \A j \in 1..n - m : SubSeq(s, m + 1, n)[j] = s[m + j]
<1>1. Len(s) \in Nat /\ \A i \in 1..Len(s) : s[i] \in S
  OBVIOUS
<1>2. SubSeq(s, m + 1, n) = [i \in 1..(n - (m + 1) + 1) |-> s[(m + 1) + i - 1]]
  OBVIOUS
<1>3. n - (m + 1) + 1 = n - m /\ n - m \in Nat
  OBVIOUS
<1>4. \A j \in 1..n - m : (m + 1) + j - 1 = m + j /\ m + j \in 1..Len(s)
  BY <1>1
<1>5. SubSeq(s, m + 1, n) = [j \in 1..n - m |-> s[m + j]]
  BY <1>2, <1>3, <1>4
<1>6. \A j \in 1..n - m : s[m + j] \in S
  BY <1>1, <1>4
<1> QED BY <1>3, <1>5, <1>6

LEMMA JoinIs ==
  ASSUME NEW S, NEW s \in Seq(S), NEW t \in Seq(S), NEW m, m = Len(s), NEW n, n = Len(t)
  PROVE  /\ s \o t \in Seq(S) /\ Len(s \o t) = m + n
         /\ \A i \in 1..m : (s \o t)[i] = s[i]
         /\ \A j \in 1..n : (s \o t)[m + j] = t[j]
<1>1. m \in Nat /\ n \in Nat
  OBVIOUS
<1>2. s \o t \in Seq(S) /\ Len(s \o t) = m + n /\ \A i \in 1..m + n : (s \o t)[i] = IF i <= m THEN s[i] ELSE t[i - m]
  BY ConcatProperties
<1>3. \A j \in 1..n : m + j \in 1..m + n /\ ~(m + j <= m) /\ (m + j) - m = j
  BY <1>1
<1>4. \A i \in 1..m : i \in 1..m + n /\ i <= m
  BY <1>1
<1> QED BY <1>2, <1>3, <1>4

\* A block of the chain puts its frames in their place.
LEMMA BlockKeepsPlace ==
  ASSUME NEW plugins \in Seq(Plugins), NEW total \in Nat, NEW frames, NEW stages, NEW done,
         InPlace(plugins, total, frames, stages, done), done + BufferFrames <= Len(frames)
  PROVE  /\ SoundsAfter(SubSeq(frames, done + 1, done + BufferFrames), done, plugins, total, 0, 0)
         /\ Len(SubSeq(frames, done + 1, done + BufferFrames)) = BufferFrames
         /\ \A r \in RunAfter(plugins, total, done, BufferFrames, Len(plugins)) :
              InPlace(plugins, total, SubSeq(frames, 1, done) \o r.out \o SubSeq(frames, done + BufferFrames + 1, Len(frames)),
                      r.stages, done + BufferFrames)
<1>1. PICK size \in Nat : size = BufferFrames /\ size > 0
  BY OfflineAssumption
<1>2. PICK m \in Nat : Len(frames) = done + m * size
  BY <1>1 DEF InPlace
<1>3. PICK whole \in Nat : whole = Len(frames)
  BY DEF InPlace
<1>4. /\ frames \in Seq(Sounds) /\ done \in Nat /\ done + size <= whole
      /\ \A i \in 1..whole : i > done => frames[i] = Sound(plugins, total, i, 0)
      /\ stages \in Seq(Stage) /\ Len(stages) = Len(plugins)
  BY <1>1, <1>3 DEF InPlace
<1>5. PICK late \in Nat : late = Delay(plugins)[Len(plugins)]
  <2>1. Len(plugins) \in 0..Len(plugins)
    OBVIOUS
  <2> QED BY <2>1, DelayIs DEF Delays
<1>6. PICK past \in Seq(Sounds) : past = SubSeq(frames, 1, done) /\ Len(past) = done /\ \A i \in 1..done : past[i] = frames[i]
  <2>1. SubSeq(frames, 1, done) \in Seq(Sounds) /\ Len(SubSeq(frames, 1, done)) = done
        /\ \A i \in 1..done : SubSeq(frames, 1, done)[i] = frames[i]
    BY <1>3, <1>4
  <2> QED BY <2>1
<1>7. whole >= total + late /\ \A i \in 1..done : i - late >= 1 => past[i] = Sound(plugins, total, i - late, Len(plugins))
  <2>1. SoundsAfter(past, 0, plugins, total, Len(plugins), late) /\ whole >= total + late
    BY <1>3, <1>5, <1>6 DEF InPlace
  <2>2. \A i \in 1..done : 0 + i - late = i - late
    BY <1>4
  <2> QED BY <1>6, <2>1, <2>2 DEF SoundsAfter
<1>8. PICK given \in Seq(Sounds) :
        /\ given = SubSeq(frames, done + 1, done + size) /\ Len(given) = size
        /\ \A j \in 1..size : given[j] = frames[done + j]
  <2>1. /\ SubSeq(frames, done + 1, done + size) \in Seq(Sounds) /\ Len(SubSeq(frames, done + 1, done + size)) = size
        /\ \A j \in 1..size : SubSeq(frames, done + 1, done + size)[j] = frames[done + j]
    <3>1. PICK stop \in Nat : stop = done + size /\ done <= stop /\ stop <= Len(frames) /\ stop - done = size
      BY <1>3, <1>4
    <3> QED BY SMTT(30), <1>4, <3>1, CutIs
  <2> QED BY <2>1
<1>9. SoundsAfter(given, done, plugins, total, 0, 0)
  <2>1. ASSUME NEW j \in 1..size PROVE given[j] = Sound(plugins, total, done + j - 0, 0)
    <3>1. PICK i \in 1..whole : i = done + j /\ i > done /\ i = done + j - 0
      BY <1>4
    <3> QED BY <1>4, <1>8, <3>1
  <2> QED BY <1>8, <2>1 DEF SoundsAfter
<1>10. ASSUME NEW r \in RunAfter(plugins, total, done, size, Len(plugins))
       PROVE  InPlace(plugins, total, SubSeq(frames, 1, done) \o r.out \o SubSeq(frames, done + size + 1, Len(frames)),
                      r.stages, done + size)
  <2>1. /\ SoundsAfter(r.out, done, plugins, total, Len(plugins), late) /\ Len(r.out) = size
        /\ r.stages \in Seq(Stage) /\ Len(r.stages) = Len(plugins)
        /\ \A k \in 1..Len(plugins) : LineAfter(r.stages[k], plugins, total, k, done + size)
    BY <1>5 DEF RunAfter
  <2>2. PICK out \in Seq(Sounds) :
          /\ out = r.out /\ Len(out) = size
          /\ \A j \in 1..size : done + j - late >= 1 => out[j] = Sound(plugins, total, done + j - late, Len(plugins))
    BY <2>1 DEF SoundsAfter
  <2>3. PICK rest \in Seq(Sounds) :
          /\ rest = SubSeq(frames, done + size + 1, whole) /\ Len(rest) = whole - (done + size)
          /\ \A j \in 1..whole - (done + size) : rest[j] = frames[done + size + j]
    <3>1. /\ SubSeq(frames, done + size + 1, whole) \in Seq(Sounds) /\ Len(SubSeq(frames, done + size + 1, whole)) = whole - (done + size)
          /\ \A j \in 1..whole - (done + size) : SubSeq(frames, done + size + 1, whole)[j] = frames[done + size + j]
      BY <1>3, <1>4
    <3> QED BY <3>1
  <2>4. PICK front \in Seq(Sounds) : front = past \o out /\ Len(front) = done + size
          /\ (\A i \in 1..done : front[i] = past[i]) /\ (\A j \in 1..size : front[done + j] = out[j])
    <3>1. past \o out \in Seq(Sounds) /\ Len(past \o out) = done + size
          /\ (\A i \in 1..done : (past \o out)[i] = past[i]) /\ (\A j \in 1..size : (past \o out)[done + j] = out[j])
      <4>1. past \in Seq(Sounds) /\ out \in Seq(Sounds) /\ done = Len(past) /\ size = Len(out)
        BY <1>6, <2>2
      <4> QED BY <4>1, JoinIs
    <3> QED BY <3>1
  <2>5. PICK new \in Seq(Sounds) : new = front \o rest /\ Len(new) = whole
          /\ (\A i \in 1..done + size : new[i] = front[i])
          /\ (\A j \in 1..whole - (done + size) : new[done + size + j] = rest[j])
    <3>1. front \o rest \in Seq(Sounds) /\ Len(front \o rest) = whole
          /\ (\A i \in 1..done + size : (front \o rest)[i] = front[i])
          /\ (\A j \in 1..whole - (done + size) : (front \o rest)[done + size + j] = rest[j])
      <4>1. PICK width \in Nat : width = Len(rest) /\ width = whole - (done + size)
        BY <2>3
      <4>2. PICK stop \in Nat : stop = done + size /\ stop = Len(front) /\ stop + width = whole
        BY <1>3, <1>4, <2>4, <4>1
      <4>3. /\ front \o rest \in Seq(Sounds) /\ Len(front \o rest) = stop + width
            /\ \A i \in 1..stop : (front \o rest)[i] = front[i]
            /\ \A j \in 1..width : (front \o rest)[stop + j] = rest[j]
        <5>1. front \in Seq(Sounds) /\ rest \in Seq(Sounds) /\ stop = Len(front) /\ width = Len(rest)
          BY <2>3, <2>4, <4>1, <4>2
        <5> QED BY <5>1, JoinIs
      <4> QED BY <4>1, <4>2, <4>3
    <3> QED BY <3>1
  <2>6. new = SubSeq(frames, 1, done) \o r.out \o SubSeq(frames, done + size + 1, Len(frames))
    BY <1>3, <1>6, <2>2, <2>3, <2>4, <2>5
  <2>7. \E l \in Nat : Len(new) = (done + size) + l * size
    <3>1. m # 0
      BY <1>1, <1>2, <1>3, <1>4
    <3>2. PICK l \in Nat : m = l + 1
      BY <3>1
    <3>3. m * size = l * size + size /\ l * size \in Nat
      BY <3>2, ProductIs
    <3>4. PICK p \in Nat : p = l * size
      BY <3>3
    <3>5. PICK o \in Nat : o = m * size /\ o = p + size
      BY <3>3, <3>4
    <3>6. whole = done + o
      BY <1>2, <1>3, <3>5
    <3>7. whole = (done + size) + p
      BY <1>4, <3>4, <3>5, <3>6
    <3>8. Len(new) = (done + size) + p
      BY <2>5, <3>7
    <3> QED BY <3>4, <3>8
  <2>8. ASSUME NEW i \in 1..whole, i > done + size PROVE new[i] = Sound(plugins, total, i, 0)
    <3>1. PICK j \in 1..whole - (done + size) : i = done + size + j
      BY <1>4, <2>8
    <3>2. new[i] = frames[i]
      BY <2>3, <2>5, <3>1
    <3> QED BY <1>4, <2>8, <3>2
  <2>9. ASSUME NEW i \in 1..done + size, i - late >= 1 PROVE new[i] = Sound(plugins, total, i - late, Len(plugins))
    <3>1. CASE i \in 1..done
      <4>1. new[i] = past[i]
        BY <2>4, <2>5, <3>1
      <4> QED BY <1>7, <2>9, <3>1, <4>1
    <3>2. CASE i \notin 1..done
      <4>1. PICK j \in 1..size : i = done + j
        BY <1>4, <3>2
      <4>2. new[i] = out[j]
        BY <2>4, <2>5, <4>1
      <4>3. done + j - late >= 1 /\ done + j - late = i - late
        BY SMTT(30), <1>4, <1>5, <2>9, <4>1
      <4> QED BY <2>2, <4>1, <4>2, <4>3
    <3> QED BY <3>1, <3>2
  <2>10. SoundsAfter(SubSeq(new, 1, done + size), 0, plugins, total, Len(plugins), late)
    <3>1. PICK now \in Seq(Sounds) : now = SubSeq(new, 1, done + size) /\ Len(now) = done + size /\ \A i \in 1..done + size : now[i] = new[i]
      <4>1. /\ SubSeq(new, 1, done + size) \in Seq(Sounds) /\ Len(SubSeq(new, 1, done + size)) = done + size
            /\ \A i \in 1..done + size : SubSeq(new, 1, done + size)[i] = new[i]
        BY SMTT(30), <1>4, <2>5
      <4> QED BY <4>1
    <3>2. \A i \in 1..done + size : 0 + i - late = i - late
      BY <1>4
    <3> QED BY <2>9, <3>1, <3>2 DEF SoundsAfter
  <2>11. InPlace(plugins, total, new, r.stages, done + size)
    <3>1. done + size \in Nat
      BY <1>4
    <3> QED BY <1>1, <1>5, <1>7, <2>1, <2>5, <2>7, <2>8, <2>10, <3>1 DEF InPlace
  <2> QED BY <2>6, <2>11
<1> QED BY <1>1, <1>8, <1>9, <1>10

LEMMA SongOf ==
  ASSUME NEW n \in Nat
  PROVE  Song(n) \in Seq(Sounds) /\ Len(Song(n)) = n /\ \A i \in 1..n : Song(n)[i] = Frame(i)
<1>1. \A i \in Int : Frame(i) \in Sounds
  <2>1. <<>> \in Seq(Marks)
    OBVIOUS
  <2> QED BY <2>1 DEF Frame, Sounds
<1>2. \A i \in 1..n : Frame(i) \in Sounds
  BY <1>1
<1> QED BY <1>2 DEF Song

LEMMA SongGrows ==
  ASSUME NEW m \in Nat, NEW n \in Nat
  PROVE  Song(m) \o [i \in 1..n |-> Frame(m + i)] = Song(m + n)
<1>1. \A i \in Int : Frame(i) \in Sounds
  <2>1. <<>> \in Seq(Marks)
    OBVIOUS
  <2> QED BY <2>1 DEF Frame, Sounds
<1>2. PICK old \in Seq(Sounds) : old = Song(m) /\ Len(old) = m /\ \A i \in 1..m : old[i] = Frame(i)
  BY SongOf
<1>3. PICK more \in Seq(Sounds) : more = [i \in 1..n |-> Frame(m + i)] /\ Len(more) = n /\ \A i \in 1..n : more[i] = Frame(m + i)
  <2>1. \A i \in 1..n : Frame(m + i) \in Sounds
    BY <1>1
  <2>2. [i \in 1..n |-> Frame(m + i)] \in Seq(Sounds)
    BY <2>1
  <2>3. PICK more \in Seq(Sounds) : more = [i \in 1..n |-> Frame(m + i)]
    BY <2>2
  <2>4. Len(more) = n
    BY <2>3
  <2>5. \A i \in 1..n : more[i] = Frame(m + i)
    BY <2>3
  <2> QED BY <2>3, <2>4, <2>5
<1>4. PICK new \in Seq(Sounds) : new = Song(m + n) /\ Len(new) = m + n /\ \A i \in 1..m + n : new[i] = Frame(i)
  <2>1. m + n \in Nat
    OBVIOUS
  <2> QED BY <2>1, SongOf
<1>5. PICK both \in Seq(Sounds) :
        /\ both = old \o more /\ Len(both) = m + n
        /\ \A i \in 1..m : both[i] = old[i]
        /\ \A j \in 1..n : both[m + j] = more[j]
  <2>1. old \in Seq(Sounds) /\ more \in Seq(Sounds) /\ m = Len(old) /\ n = Len(more)
    BY <1>2, <1>3
  <2>2. /\ old \o more \in Seq(Sounds) /\ Len(old \o more) = m + n
        /\ \A i \in 1..m : (old \o more)[i] = old[i]
        /\ \A j \in 1..n : (old \o more)[m + j] = more[j]
    BY <2>1, JoinIs
  <2> QED BY <2>2
<1>6. ASSUME NEW i \in 1..m + n PROVE both[i] = new[i]
  <2>1. CASE i <= m
    <3>1. i \in 1..m
      BY <2>1
    <3> QED BY <1>2, <1>4, <1>5, <3>1
  <2>2. CASE i > m
    <3>1. PICK j \in 1..n : i = m + j
      BY <2>2
    <3> QED BY <1>3, <1>4, <1>5, <3>1
  <2> QED BY <2>1, <2>2
<1>7. both = new
  BY <1>4, <1>5, <1>6, SeqEqual
<1> QED BY <1>2, <1>3, <1>4, <1>5, <1>7

\* The blocks of the chain hold the sound and its delay.
LEMMA PaddedIs ==
  ASSUME NEW frames \in Nat, NEW late \in Nat
  PROVE  /\ Padded(frames, late) \in Nat /\ Padded(frames, late) >= frames + late
         /\ \E m \in Nat : Padded(frames, late) = m * BufferFrames
<1>1. PICK size \in Nat : size = BufferFrames /\ size > 0
  BY OfflineAssumption
<1>2. PICK n \in Nat : n = frames + late
  OBVIOUS
<1>3. PICK q \in Nat, r \in 0..size - 1 : n % size = r /\ n = q * size + r
  <2>1. n % size \in 0..size - 1 /\ n \div size \in Nat /\ n = size * (n \div size) + (n % size)
    BY <1>1
  <2>2. PICK q \in Nat : q = n \div size
    BY <2>1
  <2>3. size * q = q * size
    BY <2>2
  <2> QED BY <2>1, <2>2, <2>3
<1>4. q * size \in Nat /\ (q + 1) * size = q * size + size
  BY ProductIs
<1>5. PICK p \in Nat : p = q * size
  BY <1>4
<1>6. CASE r = 0
  BY <1>1, <1>2, <1>3, <1>5, <1>6 DEF Padded
<1>7. CASE r # 0
  <2>1. Padded(frames, late) = n + size - r
    BY <1>1, <1>2, <1>3, <1>7 DEF Padded
  <2>2. n + size - r = p + size
    BY <1>3, <1>5
  <2>3. Padded(frames, late) = (q + 1) * size
    BY <1>4, <1>5, <2>1, <2>2
  <2>4. q + 1 \in Nat
    OBVIOUS
  <2> QED BY <1>1, <1>2, <1>3, <2>1, <2>3, <2>4
<1> QED BY <1>6, <1>7

\* What a request asks for is the stages of its chain.
LEMMA WantedIs ==
  ASSUME job \in Jobs, ChainSpec(ask).ok, ask.route # "play"
  PROVE  ChainSpec(ask).stages = Wanted /\ Wanted \in Seq(Plugins)
<1>1. /\ ask.elements \in Seq([plugin : STRING, bypass : BOOLEAN, keys : Nat, matches : Nat])
      /\ ask.route = "smf" => ask.json # "chain"
  BY JobIs DEF ask
<1>2. <<>> \in Seq(Plugins)
  OBVIOUS
<1>3. CASE ask.route = "smf" \/ ask.json \notin {"chain", "noList"}
  <2>1. ChainSpec(ask) = Chain(<<>>)
    BY <1>3 DEF ChainSpec
  <2>2. ChainSpec(ask).stages = <<>>
    BY <2>1 DEF Chain
  <2>3. Wanted = <<>>
    BY <1>1, <1>3 DEF Wanted
  <2> QED BY <1>2, <2>2, <2>3
<1>4. CASE ask.route # "smf" /\ ask.json \in {"chain", "noList"}
  <2>1. ~(ask.route \in {"smf", "play"} \/ ask.json \notin {"chain", "noList"})
    BY <1>4
  <2>2. ~Wrong.ok
    BY DEF Wrong
  <2>3. /\ ~(~ask.effects \/ ask.json = "noList" \/ \E i \in 1..Len(ask.elements) : ElementFails(ask.elements[i]))
        /\ ChainSpec(ask) = Chain(Stages(ask.elements))
    BY <2>1, <2>2 DEF ChainSpec
  <2>4. ChainSpec(ask).stages = Stages(ask.elements) /\ Wanted = Stages(ask.elements)
    BY <1>4, <2>3 DEF Chain, Wanted
  <2>5. Stages(ask.elements) \in Seq(Plugins)
    BY <1>1, <2>3, StagesAre
  <2> QED BY <2>4, <2>5
<1> QED BY <1>3, <1>4

LEMMA ChainInitially == OfflineInit => ChainInv
<1> SUFFICES ASSUME OfflineInit PROVE ChainInv
  OBVIOUS
<1>1. step = "prepare" /\ chain = <<>> /\ probes = 0 /\ audio = <<>>
  BY DEF OfflineInit
<1> QED BY <1>1 DEF ChainInv, SoundStaysInPlace

\* A stage as it is built.
LEMMA NewStageIs ==
  ASSUME NEW plugin \in Plugins
  PROVE  /\ StageOf(LoadPreset(NewStage(plugin)), plugin)
         /\ LET loaded == Activate(LoadPreset(NewStage(plugin)))
            IN  StageOf(Reset([loaded EXCEPT !.line = Line(Probe, plugin)]), plugin)
<1>1. PICK width \in Nat : width = Latency[plugin]
  BY LatencyIs
<1>2. ASSUME NEW i \in Int PROVE Line(Frame(i), plugin) \in Seq(Sounds) /\ Len(Line(Frame(i), plugin)) = width
  <2>1. Frame(i) \in Sounds
    <3>1. <<>> \in Seq(Marks)
      OBVIOUS
    <3> QED BY <3>1 DEF Frame, Sounds
  <2>2. PICK f \in Sounds : f = Frame(i)
    BY <2>1
  <2>3. [j \in 1..width |-> f] \in Seq(Sounds)
    BY <2>2
  <2>4. Len([j \in 1..width |-> f]) = width
    OBVIOUS
  <2>5. Line(Frame(i), plugin) = [j \in 1..width |-> f]
    BY <1>1, <2>2 DEF Line
  <2> QED BY <2>3, <2>4, <2>5
<1>3. PICK quiet \in Seq(Sounds) : quiet = Line(Silent, plugin) /\ Len(quiet) = width
  BY <1>2 DEF Silent
<1>4. PICK tone \in Seq(Sounds) : tone = Line(Probe, plugin) /\ Len(tone) = width
  <2>1. -1 \in Int
    OBVIOUS
  <2> QED BY <1>2, <2>1 DEF Probe
<1>5. PICK new : new = NewStage(plugin)
  OBVIOUS
<1>6. new \in Stage /\ new.plugin = plugin /\ new.line = quiet /\ new.active = FALSE
  <2>1. new = [plugin |-> plugin, state |-> "init", active |-> FALSE, line |-> quiet]
    BY <1>3, <1>5 DEF NewStage
  <2> QED BY <1>3, <2>1 DEF Stage
<1>7. PICK loaded : loaded = LoadPreset(new)
  OBVIOUS
<1>8. loaded \in Stage /\ loaded.plugin = plugin /\ loaded.state = "preset" /\ loaded.line = quiet
  <2>1. CASE new.plugin = Measured
    <3>1. PICK probed : probed = [new EXCEPT !.state = "measure"]
      OBVIOUS
    <3>2. probed \in Stage /\ probed.plugin = plugin /\ probed.line = quiet
      BY <1>6, <3>1 DEF Stage
    <3>3. loaded = [probed EXCEPT !.state = "preset"]
      BY <1>7, <2>1, <3>1 DEF LoadPreset
    <3> QED BY <3>2, <3>3 DEF Stage
  <2>2. CASE new.plugin # Measured
    <3>1. loaded = [new EXCEPT !.state = "preset"]
      BY <1>7, <2>2 DEF LoadPreset
    <3> QED BY <1>6, <3>1 DEF Stage
  <2> QED BY <2>1, <2>2
<1>9. PICK working : working = Activate(loaded)
  OBVIOUS
<1>10. working \in Stage /\ working.plugin = plugin /\ working.state = "preset" /\ working.active = TRUE
  BY <1>8, <1>9 DEF Stage, Activate
<1>11. PICK toned : toned = [working EXCEPT !.line = Line(Probe, plugin)]
  OBVIOUS
<1>12. toned \in Stage /\ toned.plugin = plugin /\ toned.state = "preset" /\ toned.active = TRUE
  BY <1>4, <1>10, <1>11 DEF Stage
<1>13. PICK calm : calm = Reset(toned)
  OBVIOUS
<1>14. calm \in Stage /\ calm.plugin = plugin /\ calm.state = "preset" /\ calm.line = quiet
  <2>1. calm = [toned EXCEPT !.line = quiet]
    BY <1>3, <1>12, <1>13 DEF Reset
  <2> QED BY <1>12, <2>1 DEF Stage
<1> QED BY <1>1, <1>3, <1>5, <1>7, <1>8, <1>9, <1>11, <1>13, <1>14 DEF StageOf

\* The chain begins with the song in front of it and nothing of it in its lines.
LEMMA ChainBeginsInPlace ==
  ASSUME NEW plugins \in Seq(Plugins), NEW total \in Nat, NEW stages, Built(stages, plugins), Len(stages) = Len(plugins)
  PROVE  LET size == Padded(Len(Song(total)), TotalLatency(stages))
         IN  InPlace(plugins, total, [i \in 1..size |-> IF i <= Len(Song(total)) THEN Song(total)[i] ELSE Silent],
                     [i \in 1..Len(stages) |-> Activate(stages[i])], 0)
<1>1. PICK n \in Nat : n = Len(plugins) /\ n = Len(stages)
  OBVIOUS
<1>2. stages \in Seq(Stage) /\ \A k \in 1..n : StageOf(stages[k], plugins[k])
  BY <1>1 DEF Built
<1>3. PICK D : D = Delay(plugins) /\ D \in [0..n -> Nat] /\ D[0] = 0 /\ \A k \in 1..n : D[k] = D[k - 1] + Latency[plugins[k]]
  BY <1>1, DelayIs DEF Delays
<1>4. PICK late \in Nat : late = D[n]
  <2>1. n \in 0..n
    OBVIOUS
  <2> QED BY <1>3, <2>1
<1>5. TotalLatency(stages) = late
  <2>1. \A k \in 1..Len(plugins) : stages[k].plugin = plugins[k]
    BY <1>1, <1>2 DEF StageOf
  <2> QED BY <1>1, <1>3, <1>4, <2>1, TotalLatencyIs
<1>6. PICK old \in Seq(Sounds) : old = Song(total) /\ Len(old) = total /\ \A i \in 1..total : old[i] = Frame(i)
  BY SongOf
<1>7. PICK size \in Nat : size = Padded(Len(Song(total)), TotalLatency(stages)) /\ size >= total + late /\ \E m \in Nat : size = m * BufferFrames
  <2>1. Padded(total, late) \in Nat /\ Padded(total, late) >= total + late /\ \E m \in Nat : Padded(total, late) = m * BufferFrames
    BY PaddedIs
  <2>2. Padded(Len(Song(total)), TotalLatency(stages)) = Padded(total, late)
    BY <1>5, <1>6
  <2> QED BY <2>1, <2>2
<1>8. PICK frames : frames = [i \in 1..size |-> IF i <= Len(Song(total)) THEN Song(total)[i] ELSE Silent]
  OBVIOUS
<1>9. ASSUME NEW i \in 1..size PROVE frames[i] = Sound(plugins, total, i, 0)
  <2>1. Sound(plugins, total, i, 0) = Frame(IF i \in 1..total THEN i ELSE 0)
    <3>1. [m \in 1..0 |-> <<plugins[m], "preset">>] = <<>>
      OBVIOUS
    <3> QED BY <3>1 DEF Sound, Frame
  <2>2. CASE i <= total
    <3>1. i \in 1..total
      BY <2>2
    <3>2. frames[i] = Frame(i)
      BY <1>6, <1>8, <2>2, <3>1
    <3> QED BY <2>1, <3>1, <3>2
  <2>3. CASE ~(i <= total)
    <3>1. i \notin 1..total
      BY <2>3
    <3>2. frames[i] = Frame(0)
      BY <1>6, <1>8, <2>3 DEF Silent
    <3> QED BY <2>1, <3>1, <3>2
  <2> QED BY <2>2, <2>3
<1>10. frames \in Seq(Sounds) /\ Len(frames) = size
  <2>1. \A i \in 1..size : frames[i] \in Sounds
    <3> SUFFICES ASSUME NEW i \in 1..size PROVE frames[i] \in Sounds
      OBVIOUS
    <3>1. i \in Int /\ 0 \in 0..Len(plugins)
      BY <1>1
    <3>2. Sound(plugins, total, i, 0) \in Sounds
      BY <3>1, SoundIs
    <3> QED BY <1>9, <3>2
  <2>2. PICK f : f = [i \in 1..size |-> frames[i]]
    OBVIOUS
  <2>3. f = frames
    BY <1>8, <2>2
  <2>4. f \in Seq(Sounds)
    BY <2>1, <2>2
  <2>5. Len(f) = size
    BY <2>2
  <2> QED BY <2>3, <2>4, <2>5
<1>11. PICK working : working = [i \in 1..Len(stages) |-> Activate(stages[i])]
  OBVIOUS
<1>12. ASSUME NEW k \in 1..n PROVE StageOf(Activate(stages[k]), plugins[k]) /\ Activate(stages[k]).line = stages[k].line
  <2>1. PICK stage : stage = stages[k] /\ stage \in Stage
    BY <1>2 DEF StageOf
  <2>2. StageOf(stage, plugins[k])
    BY <1>2, <2>1
  <2>3. PICK active : active = Activate(stage)
    OBVIOUS
  <2>4. active \in Stage /\ active.plugin = stage.plugin /\ active.state = stage.state /\ active.line = stage.line
    BY <2>1, <2>3 DEF Activate, Stage
  <2> QED BY <2>1, <2>2, <2>3, <2>4 DEF StageOf
<1>13. working \in Seq(Stage) /\ Len(working) = n /\ \A k \in 1..n : working[k] = Activate(stages[k])
  <2>1. \A k \in 1..n : Activate(stages[k]) \in Stage
    BY <1>12 DEF StageOf
  <2>2. working = [k \in 1..n |-> Activate(stages[k])]
    BY <1>1, <1>11
  <2> QED BY <2>1, <2>2
<1>14. ASSUME NEW k \in 1..n PROVE LineAfter(working[k], plugins, total, k, 0)
  <2>1. PICK line \in Seq(Sounds) : line = working[k].line /\ Len(line) = Latency[plugins[k]]
    BY <1>12, <1>13 DEF StageOf, Stage
  <2>2. D[k] = D[k - 1] + Len(line) /\ D[k - 1] \in Nat /\ Len(line) \in Nat
    <3>1. k - 1 \in 0..n
      OBVIOUS
    <3>2. D[k - 1] \in Nat
      BY <1>3, <3>1
    <3>3. D[k] = D[k - 1] + Len(line)
      BY <1>3, <2>1
    <3>4. Len(line) \in Nat
      BY <2>1
    <3> QED BY <3>2, <3>3, <3>4
  <2>3. PICK early \in Nat : early = D[k - 1]
    BY <2>2
  <2>4. \A j \in 1..Len(line) : ~(0 + j - D[k] >= 1)
    BY <2>2, <2>3
  <2>5. SoundsAfter(line, 0, plugins, total, k - 1, D[k])
    BY <2>4 DEF SoundsAfter
  <2> QED BY <1>3, <1>12, <1>13, <2>1, <2>5 DEF LineAfter
<1>15. SoundsAfter(SubSeq(frames, 1, 0), 0, plugins, total, n, late)
  <2>1. SubSeq(frames, 1, 0) = <<>>
    BY <1>10
  <2>2. <<>> \in Seq(Sounds) /\ Len(<<>>) = 0
    OBVIOUS
  <2> QED BY <2>1, <2>2 DEF SoundsAfter
<1>16. \E m \in Nat : Len(frames) = 0 + m * BufferFrames
  <2>1. PICK m \in Nat : size = m * BufferFrames
    BY <1>7
  <2>2. size = 0 + size
    OBVIOUS
  <2> QED BY <1>10, <2>1, <2>2
<1>17. InPlace(plugins, total, frames, working, 0)
  <2>1. Len(frames) >= total + Delay(plugins)[Len(plugins)]
    BY <1>1, <1>3, <1>4, <1>7, <1>10
  <2>2. SoundsAfter(SubSeq(frames, 1, 0), 0, plugins, total, Len(plugins), Delay(plugins)[Len(plugins)])
    BY <1>1, <1>3, <1>4, <1>15
  <2> QED BY <1>1, <1>9, <1>10, <1>13, <1>14, <1>16, <2>1, <2>2 DEF InPlace
<1> QED BY <1>7, <1>8, <1>11, <1>17

\* When no whole block is left every frame is through.
LEMMA ChainEndsInPlace ==
  ASSUME NEW plugins \in Seq(Plugins), NEW total \in Nat, NEW frames, NEW stages, NEW done,
         InPlace(plugins, total, frames, stages, done), ~(done + BufferFrames <= Len(frames))
  PROVE  SubSeq(frames, TotalLatency(stages) + 1, TotalLatency(stages) + total) = [i \in 1..total |-> Sound(plugins, total, i, Len(plugins))]
<1>1. PICK size \in Nat : size = BufferFrames /\ size > 0
  BY OfflineAssumption
<1>2. PICK m \in Nat : Len(frames) = done + m * size
  BY <1>1 DEF InPlace
<1>3. PICK whole \in Nat : whole = Len(frames)
  BY DEF InPlace
<1>4. PICK late \in Nat : late = Delay(plugins)[Len(plugins)]
  <2>1. Len(plugins) \in 0..Len(plugins)
    OBVIOUS
  <2> QED BY <2>1, DelayIs DEF Delays
<1>5. TotalLatency(stages) = late
  <2>1. \A k \in 1..Len(plugins) : stages[k].plugin = plugins[k]
    BY DEF InPlace, LineAfter, StageOf
  <2>2. Len(stages) = Len(plugins)
    BY DEF InPlace
  <2> QED BY <1>4, <2>1, <2>2, TotalLatencyIs
<1>6. done \in Nat /\ frames \in Seq(Sounds) /\ whole >= total + late /\ ~(done + size <= whole)
  BY <1>1, <1>3, <1>4 DEF InPlace
<1>7. done = whole
  <2>1. CASE m = 0
    <3>1. m * size = 0
      BY <2>1, ProductIs
    <3> QED BY <1>2, <1>3, <1>6, <3>1
  <2>2. CASE m # 0
    <3>1. PICK l \in Nat : m = l + 1
      BY <2>2
    <3>2. m * size = l * size + size /\ l * size \in Nat
      BY <3>1, ProductIs
    <3>3. PICK p \in Nat : p = l * size
      BY <3>2
    <3>4. whole = done + p + size
      BY <1>2, <1>3, <1>6, <3>2, <3>3
    <3> QED BY <1>6, <3>4
  <2> QED BY <2>1, <2>2
<1>8. \A i \in 1..whole : i - late >= 1 => frames[i] = Sound(plugins, total, i - late, Len(plugins))
  <2>1. SoundsAfter(SubSeq(frames, 1, done), 0, plugins, total, Len(plugins), late)
    BY <1>4 DEF InPlace
  <2>2. SubSeq(frames, 1, done) = frames
    BY <1>3, <1>6, <1>7
  <2>3. \A i \in 1..whole : 0 + i - late = i - late
    OBVIOUS
  <2> QED BY <1>3, <2>1, <2>2, <2>3 DEF SoundsAfter
<1>9. PICK stop \in Nat : stop = late + total /\ late <= stop /\ stop <= Len(frames) /\ stop - late = total
  BY <1>3, <1>6
<1>10. PICK cut \in Seq(Sounds) : cut = SubSeq(frames, late + 1, stop) /\ Len(cut) = total /\ \A j \in 1..total : cut[j] = frames[late + j]
  <2>1. /\ SubSeq(frames, late + 1, stop) \in Seq(Sounds) /\ Len(SubSeq(frames, late + 1, stop)) = stop - late
        /\ \A j \in 1..stop - late : SubSeq(frames, late + 1, stop)[j] = frames[late + j]
    BY <1>6, <1>9, CutIs
  <2> QED BY <1>9, <2>1
<1>11. ASSUME NEW j \in 1..total PROVE cut[j] = Sound(plugins, total, j, Len(plugins))
  <2>1. PICK i \in 1..whole : i = late + j /\ i - late = j
    BY <1>3, <1>9
  <2> QED BY <1>8, <1>10, <2>1
<1>12. cut = [j \in 1..total |-> cut[j]]
  <2>1. cut = [j \in 1..Len(cut) |-> cut[j]]
    OBVIOUS
  <2> QED BY <1>10, <2>1
<1>13. cut = [j \in 1..total |-> Sound(plugins, total, j, Len(plugins))]
  BY <1>11, <1>12
<1> QED BY <1>5, <1>9, <1>10, <1>13

\* The steps of the chain that change the sound, each from the lemma about it.
LEMMA StageIsBuilt ==
  ASSUME SongInv, ChainInv, BuildsStage \/ StageIsHeard
  PROVE  ChainInv'
<1>1. /\ step = "build" /\ UNCHANGED <<job, step, schedule, spec, audio>> /\ Len(chain) < Len(spec)
      /\ probes' \in {0, 1} /\ (probes' = 1 => spec[Len(chain) + 1] = SlowPlugin /\ chain' = chain)
  BY DEF BuildsStage, StageIsHeard, Waiting, Building, LoadPreset, NewStage
<1>2. /\ audio = Song(schedule.total) /\ Built(chain, spec) /\ spec = Wanted /\ spec \in Seq(Plugins)
      /\ (probes > 0 => spec[Len(chain) + 1] = SlowPlugin)
  BY <1>1 DEF ChainInv
<1>3. PICK plugins \in Seq(Plugins) : plugins = spec
  BY <1>2
<1>4. PICK stages \in Seq(Stage) : stages = chain /\ Len(stages) < Len(plugins) /\ \A k \in 1..Len(stages) : StageOf(stages[k], plugins[k])
  BY <1>1, <1>2, <1>3 DEF Built
<1>5. PICK n \in Nat : n = Len(stages)
  BY <1>4
<1>6. plugins[n + 1] \in Plugins
  BY <1>4, <1>5
<1>7. chain' = stages \/ \E stage : StageOf(stage, plugins[n + 1]) /\ chain' = Append(stages, stage)
  <2>1. CASE BuildsStage
    <3>1. chain' = chain \/ chain' = Append(chain, LoadPreset(NewStage(spec[Len(chain) + 1])))
      BY <2>1 DEF BuildsStage
    <3>2. StageOf(LoadPreset(NewStage(plugins[n + 1])), plugins[n + 1])
      BY <1>6, NewStageIs
    <3> QED BY <1>3, <1>4, <1>5, <3>1, <3>2
  <2>2. CASE StageIsHeard
    <3>1. probes > 0 /\ chain' = Append(chain, Reset([Activate(LoadPreset(NewStage(SlowPlugin))) EXCEPT !.line = Line(Probe, SlowPlugin)]))
      BY <2>2 DEF StageIsHeard, Waiting
    <3>2. plugins[n + 1] = SlowPlugin
      BY <1>2, <1>3, <1>4, <1>5, <3>1
    <3>3. StageOf(Reset([Activate(LoadPreset(NewStage(SlowPlugin))) EXCEPT !.line = Line(Probe, SlowPlugin)]), SlowPlugin)
      BY <1>6, <3>2, NewStageIs
    <3> QED BY <1>4, <3>1, <3>2, <3>3
  <2> QED BY <2>1, <2>2
<1>8. Built(chain', spec)
  <2>1. CASE chain' = stages
    BY <1>2, <1>4, <2>1
  <2>2. ASSUME NEW stage, StageOf(stage, plugins[n + 1]), chain' = Append(stages, stage) PROVE Built(chain', spec)
    <3>1. stage \in Stage
      BY <2>2 DEF StageOf
    <3>2. PICK longer \in Seq(Stage) : longer = Append(stages, stage)
      <4>1. Append(stages, stage) \in Seq(Stage)
        BY <1>4, <3>1
      <4> QED BY <4>1
    <3>3. Len(longer) = n + 1 /\ longer[n + 1] = stage /\ \A k \in 1..n : longer[k] = stages[k]
      BY <1>4, <1>5, <3>1, <3>2
    <3>4. ASSUME NEW k \in 1..n + 1 PROVE StageOf(longer[k], plugins[k])
      <4>1. CASE k = n + 1
        BY <2>2, <3>3, <4>1
      <4>2. CASE k # n + 1
        <5>1. k \in 1..n
          BY <1>5, <4>2
        <5> QED BY <1>4, <1>5, <3>3, <5>1
      <4> QED BY <4>1, <4>2
    <3>5. n + 1 <= Len(plugins)
      BY <1>4, <1>5
    <3> QED BY <1>3, <2>2, <3>2, <3>3, <3>4, <3>5 DEF Built
  <2> QED BY <1>7, <2>1, <2>2
<1> QED BY <1>1, <1>2, <1>8 DEF ChainInv, SoundStaysInPlace, Wanted, ask

LEMMA BlockIsThrough ==
  ASSUME SongInv, ChainInv, ProcessesBlock
  PROVE  ChainInv'
<1>1. /\ step = "apply" /\ UNCHANGED <<job, step, schedule, spec>> /\ (block + 1) * BufferFrames <= Len(audio) /\ block' = block + 1
  BY DEF ProcessesBlock
<1>2. InPlace(spec, schedule.total, audio, chain, block * BufferFrames) /\ spec = Wanted /\ spec \in Seq(Plugins)
  BY <1>1 DEF ChainInv
<1>3. block \in Nat /\ schedule.total \in Nat
  BY <1>1, SongIs DEF SongInv
<1>4. PICK plugins \in Seq(Plugins) : plugins = spec
  BY <1>2
<1>5. PICK total \in Nat : total = schedule.total
  BY <1>3
<1>6. PICK size \in Nat : size = BufferFrames
  BY OfflineAssumption
<1>7. PICK done \in Nat : done = block * BufferFrames /\ (block + 1) * BufferFrames = done + size
  BY <1>3, <1>6, ProductIs
<1>8. PICK frames : frames = audio
  OBVIOUS
<1>9. PICK stages : stages = chain
  OBVIOUS
<1>10. InPlace(plugins, total, frames, stages, done) /\ done + BufferFrames <= Len(frames)
  BY <1>1, <1>2, <1>4, <1>5, <1>6, <1>7, <1>8, <1>9
<1>11. PICK given : given = SubSeq(frames, done + 1, done + size)
  OBVIOUS
<1>12. SoundsAfter(given, done, plugins, total, 0, 0) /\ Len(given) = size
  BY <1>6, <1>10, <1>11, BlockKeepsPlace
<1>13. ASSUME NEW r \in RunAfter(plugins, total, done, size, Len(plugins))
       PROVE  InPlace(plugins, total, SubSeq(frames, 1, done) \o r.out \o SubSeq(frames, done + size + 1, Len(frames)),
                      r.stages, done + size)
  BY <1>6, <1>10, BlockKeepsPlace
<1> DEFINE Run == LET run[k \in 0..Len(stages)] ==
                        IF k = 0 THEN [out |-> given, stages |-> <<>>]
                        ELSE LET r == Through(stages[k], run[k - 1].out)
                             IN [out |-> r.out, stages |-> Append(run[k - 1].stages, r.stage)]
                  IN  run[Len(stages)]
<1>14. Run \in RunAfter(plugins, total, done, size, Len(plugins))
  <2>1. Len(stages) = Len(plugins) /\ \A k \in 1..Len(plugins) : LineAfter(stages[k], plugins, total, k, done)
    BY <1>10 DEF InPlace
  <2> QED BY ZenonT(60), <1>12, <2>1, RunIs
<1>15. /\ audio' = SubSeq(frames, 1, done) \o Run.out \o SubSeq(frames, done + size + 1, Len(frames))
       /\ chain' = Run.stages
  BY ZenonT(60), <1>6, <1>7, <1>8, <1>9, <1>11 DEF ProcessesBlock
<1> HIDE DEF Run
<1>16. InPlace(plugins, total, audio', chain', done + size)
  BY <1>13, <1>14, <1>15
<1>17. InPlace(spec', schedule'.total, audio', chain', block' * BufferFrames)
  BY <1>1, <1>4, <1>5, <1>7, <1>16
<1> QED BY <1>1, <1>2, <1>17 DEF ChainInv, SoundStaysInPlace, Wanted, ask

LEMMA ChainStep == SongInv /\ ChainInv /\ [OfflineNext]_offlineVars => ChainInv'
<1> SUFFICES ASSUME SongInv, ChainInv, [OfflineNext]_offlineVars PROVE ChainInv'
  OBVIOUS
<1> USE DEF SoundStaysInPlace
<1>1. CASE Prepares
  <2>1. /\ step = "prepare" /\ ChainSpec(ask).ok /\ spec' = ChainSpec(ask).stages
        /\ step' = IF ask.route = "play" THEN "handed" ELSE "create"
        /\ UNCHANGED <<job, chain, probes, audio>>
    BY <1>1 DEF Prepares, chainVars
  <2>2. job \in Jobs
    BY DEF SongInv
  <2>3. step' = "create" => spec' = Wanted' /\ spec' \in Seq(Plugins)
    BY <2>1, <2>2, WantedIs DEF Wanted, ask
  <2> QED BY <2>1, <2>3 DEF ChainInv
<1>2. CASE PreparationFails \/ RenderFails \/ ChainFails \/ WavFails
  <2>1. step' = "failed"
    BY <1>2 DEF PreparationFails, RenderFails, ChainFails, WavFails, Fails
  <2> QED BY <2>1 DEF ChainInv
<1>3. CASE Creates
  <2>1. step = "create" /\ step' = "render" /\ UNCHANGED <<job, spec, at, chain, probes, audio>> /\ at = 0
    BY <1>3 DEF Creates, renderVars, chainVars, SongInv
  <2>2. Song(0) = <<>>
    BY DEF Song
  <2> QED BY <2>1, <2>2 DEF ChainInv, Wanted, ask
<1>4. CASE RendersBlock
  <2> DEFINE end == at + Smaller(BufferFrames, schedule.total - at)
  <2>1. /\ step = "render" /\ UNCHANGED <<job, step, spec, chain, probes>>
        /\ at < schedule.total /\ at' = end /\ audio' = audio \o [i \in 1..end - at |-> Frame(at + i)]
    BY <1>4 DEF RendersBlock, chainVars
  <2>2. at \in Nat /\ schedule.total \in Nat
    <3>1. schedule.total \in Nat
      BY ZenonT(60), <2>1, SongIs
    <3>2. at \in 0..schedule.total
      BY <2>1 DEF SongInv
    <3> QED BY <3>1, <3>2
  <2>3. PICK n \in Nat : n = end - at /\ end = at + n
    BY <2>1, <2>2, OfflineAssumption DEF Smaller
  <2>4. audio = Song(at)
    BY <2>1 DEF ChainInv
  <2>5. PICK m \in Nat : m = at
    BY <2>2
  <2>6. Song(m) \o [i \in 1..n |-> Frame(m + i)] = Song(m + n)
    BY SongGrows
  <2> HIDE DEF end
  <2>7. audio' = Song(at')
    BY <2>1, <2>3, <2>4, <2>5, <2>6
  <2> QED BY <2>1, <2>7 DEF ChainInv, Wanted, ask
<1>5. CASE InstrumentIsDone
  <2>1. /\ step = "render" /\ at = schedule.total /\ step' = (IF spec = <<>> THEN "trim" ELSE "build")
        /\ UNCHANGED <<job, schedule, spec, chain, probes, audio>>
    BY <1>5 DEF InstrumentIsDone, chainVars
  <2>2. audio = Song(schedule.total) /\ chain = <<>> /\ probes = 0 /\ spec = Wanted /\ spec \in Seq(Plugins)
    BY <2>1 DEF ChainInv
  <2>3. CASE spec = <<>>
    <3>1. PICK total \in Nat : total = schedule.total
      BY <2>1, SongIs
    <3>2. ASSUME NEW i \in 1..total PROVE Frame(i) = Sound(<<>>, total, i, 0)
      <4>1. [m \in 1..0 |-> <<<<>>[m], "preset">>] = <<>>
        OBVIOUS
      <4> QED BY <4>1 DEF Frame, Sound
    <3>3. Song(total) = [i \in 1..total |-> Sound(<<>>, total, i, 0)]
      BY <3>2 DEF Song
    <3>4. Len(spec) = 0
      BY <2>3
    <3> QED BY <2>1, <2>2, <2>3, <3>1, <3>3, <3>4 DEF ChainInv, Wanted, ask
  <2>4. CASE spec # <<>>
    <3>1. Built(chain, spec)
      <4>1. <<>> \in Seq(Stage) /\ Len(<<>>) = 0 /\ Len(spec) \in Nat
        BY <2>2
      <4> QED BY <2>2, <4>1 DEF Built
    <3> QED BY <2>1, <2>2, <2>4, <3>1 DEF ChainInv, Wanted, ask
  <2> QED BY <2>3, <2>4
<1>6. CASE BuildsStage \/ StageIsHeard
  BY <1>6, StageIsBuilt
<1>7. CASE StageIsSilent
  <2>1. step = "build" /\ probes > 0 /\ probes' = probes + 1 /\ UNCHANGED <<job, step, schedule, spec, chain, audio>>
    BY <1>7 DEF StageIsSilent, Waiting, Building
  <2>2. probes' \in Nat /\ (probes' > 0 => Len(chain) < Len(spec) /\ spec[Len(chain) + 1] = SlowPlugin)
    BY <2>1 DEF ChainInv
  <2> QED BY <2>1, <2>2 DEF ChainInv, Wanted, ask
<1>8. CASE ChainBegins
  <2>1. /\ step = "build" /\ Len(chain) = Len(spec) /\ step' = "apply" /\ block' = 0
        /\ UNCHANGED <<job, schedule, spec>>
    BY <1>8 DEF ChainBegins
  <2>2. audio = Song(schedule.total) /\ Built(chain, spec) /\ spec = Wanted /\ spec \in Seq(Plugins) /\ schedule.total \in Nat
    BY <2>1, SongIs DEF ChainInv
  <2>3. PICK plugins \in Seq(Plugins) : plugins = spec
    BY <2>2
  <2>4. PICK total \in Nat : total = schedule.total
    BY <2>2
  <2>5. PICK stages : stages = chain
    OBVIOUS
  <2>6. PICK size : size = Padded(Len(Song(total)), TotalLatency(stages))
    OBVIOUS
  <2>7. InPlace(plugins, total, [i \in 1..size |-> IF i <= Len(Song(total)) THEN Song(total)[i] ELSE Silent],
                [i \in 1..Len(stages) |-> Activate(stages[i])], 0)
    BY <2>1, <2>2, <2>3, <2>5, <2>6, ChainBeginsInPlace
  <2>8. /\ chain' = [i \in 1..Len(stages) |-> Activate(stages[i])]
        /\ audio' = [i \in 1..size |-> IF i <= Len(Song(total)) THEN Song(total)[i] ELSE Silent]
    BY <1>8, <2>2, <2>4, <2>5, <2>6 DEF ChainBegins
  <2>9. block' * BufferFrames = 0
    BY <2>1, OfflineAssumption, ProductIs
  <2>10. InPlace(spec', schedule'.total, audio', chain', block' * BufferFrames)
    BY <2>1, <2>3, <2>4, <2>7, <2>8, <2>9
  <2> QED BY <2>1, <2>2, <2>10 DEF ChainInv, Wanted, ask
<1>9. CASE ProcessesBlock
  BY <1>9, BlockIsThrough
<1>10. CASE ChainEnds
  <2>1. /\ step = "apply" /\ step' = "trim" /\ UNCHANGED <<job, schedule, spec>> /\ (block + 1) * BufferFrames > Len(audio)
        /\ audio' = SubSeq(audio, TotalLatency(chain) + 1, TotalLatency(chain) + schedule.total)
    BY <1>10 DEF ChainEnds
  <2>2. /\ InPlace(spec, schedule.total, audio, chain, block * BufferFrames) /\ spec = Wanted /\ spec \in Seq(Plugins)
        /\ block \in Nat /\ schedule.total \in Nat
    BY <2>1, SongIs DEF ChainInv, SongInv
  <2>3. PICK plugins \in Seq(Plugins) : plugins = spec
    BY <2>2
  <2>4. PICK total \in Nat : total = schedule.total
    BY <2>2
  <2>5. PICK size \in Nat : size = BufferFrames
    BY OfflineAssumption
  <2>6. PICK done \in Nat : done = block * BufferFrames /\ (block + 1) * BufferFrames = done + size
    BY <2>2, <2>5, ProductIs
  <2>7. PICK frames : frames = audio
    OBVIOUS
  <2>8. PICK stages : stages = chain
    OBVIOUS
  <2>9. InPlace(plugins, total, frames, stages, done)
    BY <2>2, <2>3, <2>4, <2>6, <2>7, <2>8
  <2>10. ~(done + BufferFrames <= Len(frames))
    <3>1. PICK whole \in Nat : whole = Len(frames)
      BY <2>9 DEF InPlace
    <3> QED BY <2>1, <2>5, <2>6, <2>7, <3>1
  <2>11. SubSeq(frames, TotalLatency(stages) + 1, TotalLatency(stages) + total) = [i \in 1..total |-> Sound(plugins, total, i, Len(plugins))]
    BY <2>9, <2>10, ChainEndsInPlace
  <2>12. audio' = [i \in 1..schedule'.total |-> Sound(spec', schedule'.total, i, Len(spec'))]
    BY <2>1, <2>3, <2>4, <2>7, <2>8, <2>11
  <2> QED BY <2>1, <2>2, <2>12 DEF ChainInv, Wanted, ask
<1>11. CASE Trims
  <2>1. step = "trim" /\ step' = "done" /\ UNCHANGED <<job, schedule, spec>> /\ audio' = SubSeq(audio, ask.preroll + 1, Len(audio))
    BY <1>11 DEF Trims
  <2>2. audio = [i \in 1..schedule.total |-> Sound(spec, schedule.total, i, Len(spec))] /\ spec = Wanted /\ spec \in Seq(Plugins)
    BY <2>1 DEF ChainInv
  <2>3. PICK total \in Nat : total = schedule.total
    BY <2>1, SongIs
  <2>4. PICK preroll \in Nat : preroll = ask.preroll /\ preroll <= total
    BY <2>1, <2>3, SongIs
  <2>5. PICK plugins \in Seq(Plugins) : plugins = spec
    BY <2>2
  <2>6. PICK frames \in Seq(Sounds) : frames = audio /\ Len(frames) = total /\ \A i \in 1..total : frames[i] = Sound(plugins, total, i, Len(plugins))
    <3>1. Len(plugins) \in 0..Len(plugins)
      OBVIOUS
    <3>2. \A i \in 1..total : Sound(plugins, total, i, Len(plugins)) \in Sounds
      BY <3>1, SoundIs
    <3>3. PICK f : f = [i \in 1..total |-> Sound(plugins, total, i, Len(plugins))]
      OBVIOUS
    <3>4. f \in Seq(Sounds) /\ Len(f) = total /\ \A i \in 1..total : f[i] = Sound(plugins, total, i, Len(plugins))
      BY <3>2, <3>3
    <3> QED BY <2>2, <2>3, <2>5, <3>3, <3>4
  <2>7. PICK cut \in Seq(Sounds) : cut = SubSeq(frames, preroll + 1, total) /\ Len(cut) = total - preroll /\ \A j \in 1..total - preroll : cut[j] = frames[preroll + j]
    <3>1. /\ SubSeq(frames, preroll + 1, total) \in Seq(Sounds) /\ Len(SubSeq(frames, preroll + 1, total)) = total - preroll
          /\ \A j \in 1..total - preroll : SubSeq(frames, preroll + 1, total)[j] = frames[preroll + j]
      BY <2>4, <2>6, CutIs
    <3> QED BY <3>1
  <2>8. ASSUME NEW j \in 1..total - preroll
        PROVE  cut[j] = [number |-> preroll + j, through |-> [k \in 1..Len(plugins) |-> <<plugins[k], "preset">>]]
    <3>1. PICK i \in 1..total : i = preroll + j
      BY <2>3, <2>4
    <3>2. cut[j] = Sound(plugins, total, i, Len(plugins))
      BY <2>6, <2>7, <3>1
    <3> QED BY <3>1, <3>2 DEF Sound
  <2>9. cut = [j \in 1..total - preroll |-> [number |-> preroll + j, through |-> [k \in 1..Len(plugins) |-> <<plugins[k], "preset">>]]]
    <3>1. cut = [j \in 1..Len(cut) |-> cut[j]]
      BY <2>7
    <3>2. cut = [j \in 1..total - preroll |-> cut[j]]
      BY <2>7, <3>1
    <3> QED BY <2>8, <3>2
  <2>10. audio' = [i \in 1..schedule'.total - ask'.preroll |->
                     [number |-> ask'.preroll + i, through |-> [k \in 1..Len(Wanted') |-> <<Wanted'[k], "preset">>]]]
    <3>1. ask' = ask /\ Wanted' = plugins /\ schedule'.total = total /\ ask.preroll = preroll
      BY <2>1, <2>2, <2>3, <2>4, <2>5 DEF Wanted, ask
    <3>2. audio' = cut
      BY <2>1, <2>4, <2>6, <2>7
    <3> QED BY <2>9, <3>1, <3>2
  <2> QED BY <2>1, <2>2, <2>10 DEF ChainInv, Wanted, ask
<1>12. CASE UNCHANGED offlineVars
  BY <1>12 DEF ChainInv, offlineVars, Wanted, ask
<1> QED BY <1>1, <1>2, <1>3, <1>4, <1>5, <1>6, <1>7, <1>8, <1>9, <1>10, <1>11, <1>12 DEF OfflineNext

\* For any chain of plugins, any latencies, any size of the blocks and any preroll, the
\* sound of every render has each frame of the song at its own place, through every stage
\* asked for (effect/chain.rs process_all, trim_render_preroll).
THEOREM SoundStaysInPlaceCorrect == OfflineSpec => []SoundStaysInPlace
<1>1. ChainInv => SoundStaysInPlace
  BY DEF ChainInv
<1>2. OfflineInit => SongInv /\ ChainInv
  BY SongInitially, ChainInitially
<1>3. (SongInv /\ ChainInv) /\ [OfflineNext]_offlineVars => (SongInv /\ ChainInv)'
  BY SongStep, ChainStep
<1> QED BY <1>1, <1>2, <1>3, PTL DEF OfflineSpec

===============================================================================
