----------------------------- MODULE CatalogProofs -----------------------------
(***************************************************************************)
(* The catalog of patches, for any profiles, configurations, roots,        *)
(* manifests and files: a saved patch string reaches its file or is        *)
(* refused.                                                                *)
(***************************************************************************)
EXTENDS PatchCatalog, RenderProofs

(***************************************************************************)
(* Paths                                                                   *)
(***************************************************************************)
Path == Seq(STRING)

LEMMA FolderIs == ASSUME NEW d \in Folder PROVE d \in Path
BY DEF Folder, Path

\* A path is what it begins with and the rest.
LEMMA PrefixIs ==
  ASSUME NEW a \in Path, NEW p \in Path, IsPrefix(a, p)
  PROVE  /\ Len(a) \in Nat /\ Len(p) \in Nat /\ Len(a) <= Len(p) /\ \A i \in 1..Len(a) : a[i] = p[i]
         /\ SubSeq(p, Len(a) + 1, Len(p)) \in Path /\ Len(SubSeq(p, Len(a) + 1, Len(p))) = Len(p) - Len(a)
         /\ a \o SubSeq(p, Len(a) + 1, Len(p)) = p
<1> USE DEF Path
<1>1. Len(a) \in Nat /\ Len(p) \in Nat /\ Len(a) <= Len(p) /\ SubSeq(a, 1, Len(a)) = SubSeq(p, 1, Len(a))
  BY DEF IsPrefix
<1>2. PICK m \in Nat : m = Len(a)
  BY <1>1
<1>3. PICK n \in Nat : n = Len(p)
  BY <1>1
<1>4. \A i \in 1..m : a[i] = p[i]
  <2>1. Len(SubSeq(a, 0 + 1, m)) = m - 0 /\ \A j \in 1..m - 0 : SubSeq(a, 0 + 1, m)[j] = a[0 + j]
    BY <1>1, <1>2, CutIs
  <2>2. Len(SubSeq(p, 0 + 1, m)) = m - 0 /\ \A j \in 1..m - 0 : SubSeq(p, 0 + 1, m)[j] = p[0 + j]
    BY <1>1, <1>2, <1>3, CutIs
  <2>3. SubSeq(a, 0 + 1, m) = SubSeq(p, 0 + 1, m)
    BY <1>1, <1>2
  <2> QED BY <2>1, <2>2, <2>3
<1>5. PICK rest : rest = SubSeq(p, m + 1, n)
  OBVIOUS
<1>6. rest \in Seq(STRING) /\ Len(rest) = n - m /\ \A j \in 1..n - m : rest[j] = p[m + j]
  BY <1>1, <1>2, <1>3, <1>5, CutIs
<1>7. a \o rest = p
  <2>1. a \o rest \in Seq(STRING) /\ Len(a \o rest) = m + (n - m)
        /\ (\A i \in 1..m : (a \o rest)[i] = a[i]) /\ \A j \in 1..n - m : (a \o rest)[m + j] = rest[j]
    BY <1>2, <1>6, JoinIs
  <2>2. Len(a \o rest) = n
    BY <2>1
  <2>3. ASSUME NEW i \in 1..n PROVE (a \o rest)[i] = p[i]
    <3>1. CASE i <= m
      BY <2>1, <1>4, <3>1
    <3>2. CASE ~(i <= m)
      <4>1. PICK j \in 1..n - m : m + j = i
        <5>1. i - m \in 1..n - m /\ m + (i - m) = i
          BY <3>2
        <5> QED BY <5>1
      <4> QED BY <1>6, <2>1, <4>1
    <3> QED BY <3>1, <3>2
  <2>4. PICK j : j = a \o rest
    OBVIOUS
  <2>5. j \in Seq(STRING) /\ Len(j) = Len(p) /\ \A i \in 1..Len(p) : j[i] = p[i]
    BY <1>3, <2>1, <2>2, <2>3, <2>4
  <2>6. j = p
    BY <2>5
  <2> QED BY <2>4, <2>6
<1> QED BY <1>1, <1>2, <1>3, <1>4, <1>5, <1>6, <1>7

\* The form of a path depends on what is in it and on its end.
LEMMA SameForm ==
  ASSUME NEW p, NEW q, FormsIn(p) = FormsIn(q), Last(p) = Last(q)
  PROVE  PatchFormOfPath(p) = PatchFormOfPath(q)
BY DEF PatchFormOfPath

\* The directory in front of a path says nothing of its form.
LEMMA FormOfRest ==
  ASSUME NEW a \in Folder, NEW b \in Path, Len(b) > 0
  PROVE  FormsIn(a \o b) = FormsIn(b) /\ Last(a \o b) = Last(b) /\ PatchFormOfPath(a \o b) = PatchFormOfPath(b)
<1>0. PICK m : m = Len(a)
  OBVIOUS
<1>1. PICK n : n = Len(b)
  OBVIOUS
<1>2. m \in Nat /\ n \in Nat /\ n > 0
  BY <1>0, <1>1 DEF Folder, Path
<1>3. a \in Path
  BY FolderIs
<1>4. a \o b \in Path /\ Len(a \o b) = m + n
      /\ (\A i \in 1..m : (a \o b)[i] = a[i]) /\ \A j \in 1..n : (a \o b)[m + j] = b[j]
  BY <1>0, <1>1, <1>3, JoinIs DEF Path
<1>5. PICK c \in Path : c = a \o b
  BY <1>4
<1>6. DOMAIN c = 1..m + n /\ DOMAIN b = 1..n
  BY <1>1, <1>4, <1>5 DEF Path
<1>7. \A i \in 1..m : c[i] \notin DOMAIN Extension
  <2>1. \A i \in 1..m : a[i] \in STRING \ DOMAIN Extension
    BY <1>0 DEF Folder
  <2> QED BY <1>4, <1>5, <2>1
<1>8. FormsIn(c) \subseteq FormsIn(b)
  <2> SUFFICES ASSUME NEW i \in 1..m + n, c[i] \in DOMAIN Extension PROVE Extension[c[i]] \in FormsIn(b)
    BY <1>6 DEF FormsIn
  <2>1. ~(i <= m)
    BY <1>2, <1>7
  <2>2. PICK j \in 1..n : m + j = i
    <3>1. i - m \in 1..n /\ m + (i - m) = i
      BY <1>2, <2>1
    <3> QED BY <3>1
  <2>3. c[i] = b[j]
    BY <1>4, <1>5, <2>2
  <2> QED BY <1>6, <2>3 DEF FormsIn
<1>9. FormsIn(b) \subseteq FormsIn(c)
  <2> SUFFICES ASSUME NEW j \in 1..n, b[j] \in DOMAIN Extension PROVE Extension[b[j]] \in FormsIn(c)
    BY <1>6 DEF FormsIn
  <2>1. m + j \in 1..m + n
    BY <1>2
  <2>2. c[m + j] = b[j]
    BY <1>4, <1>5
  <2> QED BY <1>6, <2>1, <2>2 DEF FormsIn
<1>10. Last(c) = Last(b)
  <2>1. n \in 1..n /\ Len(c) = m + n
    BY <1>2, <1>4, <1>5
  <2> QED BY <1>1, <1>4, <1>5, <2>1 DEF Last
<1>11. FormsIn(c) = FormsIn(b)
  BY <1>8, <1>9
<1> QED BY <1>5, <1>10, <1>11, SameForm

\* The spelling of a path under a root: the folder of the root and what is in it.
Spells(parts, root, file) ==
  /\ parts \in Path /\ Len(parts) > 0 /\ Head(parts) = Last(root)
  /\ Tail(parts) \in Path /\ Len(Tail(parts)) > 0 /\ root \o Tail(parts) = file
  /\ PatchFormOfPath(parts) = PatchFormOfPath(file) /\ PatchFormOfPath(Tail(parts)) = PatchFormOfPath(file)

LEMMA PartsAre ==
  ASSUME NEW root \in Folder, Len(root) > 1, NEW file \in Path, IsPrefix(root, file), Len(root) < Len(file),
         NEW parts, parts = SubSeq(file, Len(Front(root)) + 1, Len(file))
  PROVE  Spells(parts, root, file)
<1>0. root \in Path
  BY FolderIs
<1>1. PICK rest \in Path : rest = SubSeq(file, Len(root) + 1, Len(file))
  BY <1>0, PrefixIs
<1>2. PICK m \in Nat : m = Len(root)
  BY <1>0, PrefixIs
<1>3. PICK n \in Nat : n = Len(file)
  BY <1>0, PrefixIs
<1>4. m > 1 /\ m < n /\ (\A i \in 1..m : root[i] = file[i]) /\ Len(rest) = n - m /\ root \o rest = file
  BY <1>0, <1>1, <1>2, <1>3, PrefixIs
<1>5. PICK front : front \in Folder /\ front = Front(root) /\ Len(front) = m - 1
  <2>1. SubSeq(root, 0 + 1, m - 1) \in Seq(STRING \ DOMAIN Extension) /\ Len(SubSeq(root, 0 + 1, m - 1)) = (m - 1) - 0
    <3>1. m - 1 \in Nat /\ 0 <= m - 1 /\ m - 1 <= Len(root) /\ root \in Seq(STRING \ DOMAIN Extension)
      BY <1>2, <1>4 DEF Folder
    <3> QED BY <3>1, CutIs
  <2>2. Front(root) = SubSeq(root, 0 + 1, m - 1)
    BY <1>2 DEF Front
  <2>3. (m - 1) - 0 = m - 1 /\ 0 + 1 = 1
    OBVIOUS
  <2>4. Front(root) \in Folder /\ Len(Front(root)) = m - 1
    BY <2>1, <2>2, <2>3 DEF Folder
  <2> QED BY <2>4
<1>6. /\ parts \in Path /\ Len(parts) = n - (m - 1)
      /\ \A j \in 1..n - (m - 1) : parts[j] = file[(m - 1) + j]
  <2>1. m - 1 \in Nat /\ m - 1 <= n /\ n <= Len(file) /\ file \in Seq(STRING)
    BY <1>3, <1>4 DEF Path
  <2>2. PICK k \in Nat : k = m - 1
    BY <2>1
  <2>3. parts = SubSeq(file, k + 1, n)
    BY <1>3, <1>5, <2>2
  <2>4. SubSeq(file, k + 1, n) \in Seq(STRING) /\ Len(SubSeq(file, k + 1, n)) = n - k
        /\ \A j \in 1..n - k : SubSeq(file, k + 1, n)[j] = file[k + j]
    BY <2>1, <2>2, CutIs
  <2> QED BY <2>2, <2>3, <2>4 DEF Path
<1>7. Len(parts) > 1
  BY <1>4, <1>6
<1>8. Head(parts) = Last(root)
  <2>1. 1 \in 1..n - (m - 1) /\ (m - 1) + 1 = m /\ m \in 1..m
    BY <1>4
  <2>2. parts[1] = file[m] /\ file[m] = root[m]
    BY <1>4, <1>6, <2>1
  <2>3. Head(parts) = parts[1]
    BY <1>6, <1>7 DEF Path
  <2> QED BY <1>2, <2>2, <2>3 DEF Last
<1>9. Tail(parts) = rest
  <2>1. Tail(parts) \in Seq(STRING) /\ Len(Tail(parts)) = Len(parts) - 1 /\ \A j \in 1..Len(parts) - 1 : Tail(parts)[j] = parts[j + 1]
    <3>1. parts \in Seq(STRING) /\ Len(<<>>) = 0
      BY <1>6 DEF Path
    <3>2. parts # <<>>
      <4>1. ASSUME parts = <<>> PROVE FALSE
        <5>1. Len(parts) = 0
          BY <3>1, <4>1
        <5> QED BY <1>7, <5>1
      <4> QED BY <4>1
    <3> QED BY <3>1, <3>2, HeadTailProperties
  <2>2. PICK tail \in Seq(STRING) : tail = Tail(parts)
    BY <2>1
  <2>3. Len(tail) = n - m
    <3>1. Len(tail) = (n - (m - 1)) - 1
      BY <1>6, <2>1, <2>2
    <3> QED BY <3>1
  <2>4. ASSUME NEW j \in 1..n - m PROVE tail[j] = rest[j]
    <3>1. j \in 1..Len(parts) - 1 /\ j + 1 \in 1..n - (m - 1) /\ (m - 1) + (j + 1) = m + j
      BY <1>6
    <3>2. tail[j] = file[m + j]
      <4>1. tail[j] = parts[j + 1]
        BY <2>1, <2>2, <3>1
      <4>2. parts[j + 1] = file[(m - 1) + (j + 1)]
        BY <1>6, <3>1
      <4> QED BY <3>1, <4>1, <4>2
    <3>3. rest[j] = file[m + j]
      <4>1. m <= n /\ n <= Len(file) /\ file \in Seq(STRING)
        BY <1>3, <1>4 DEF Path
      <4>2. \A k \in 1..n - m : SubSeq(file, m + 1, n)[k] = file[m + k]
        BY <4>1, CutIs
      <4> QED BY <1>1, <1>2, <1>3, <4>2
    <3> QED BY <3>2, <3>3
  <2>5. rest \in Seq(STRING) /\ Len(rest) = Len(tail) /\ \A j \in 1..Len(rest) : tail[j] = rest[j]
    BY <1>4, <2>3, <2>4 DEF Path
  <2>6. tail = rest
    BY <2>5
  <2> QED BY <2>2, <2>6
<1>10. Len(rest) > 0
  BY <1>4
<1>11. PatchFormOfPath(file) = PatchFormOfPath(rest)
  BY <1>4, <1>10, FormOfRest
<1>12. PatchFormOfPath(file) = PatchFormOfPath(parts)
  <2>1. front \in Path /\ IsPrefix(front, file)
    <3>1. front \in Path
      BY <1>5, FolderIs
    <3>2. front = SubSeq(root, 0 + 1, m - 1)
      BY <1>2, <1>5 DEF Front
    <3>3. m - 1 \in Nat /\ m - 1 <= m /\ m <= n
      BY <1>4
    <3>4. PICK k \in Nat : k = m - 1 /\ k <= m /\ k <= n /\ 0 <= k
      BY <3>3
    <3>5. Len(front) = k - 0 /\ \A j \in 1..k - 0 : front[j] = root[0 + j]
      <4>1. root \in Seq(STRING) /\ k <= Len(root)
        BY <1>0, <1>2, <3>4 DEF Path
      <4> QED BY <3>2, <3>4, <4>1, CutIs
    <3>6. /\ SubSeq(file, 0 + 1, k) \in Seq(STRING) /\ Len(SubSeq(file, 0 + 1, k)) = k - 0
          /\ \A j \in 1..k - 0 : SubSeq(file, 0 + 1, k)[j] = file[0 + j]
      <4>1. file \in Seq(STRING) /\ k <= Len(file)
        BY <1>3, <3>4 DEF Path
      <4> QED BY <3>4, <4>1, CutIs
    <3>7. PICK g \in Seq(STRING) : g = SubSeq(file, 0 + 1, k)
      BY <3>6
    <3>8. front = g
      <4>1. \A j \in 1..k : front[j] = root[j] /\ g[j] = file[j] /\ root[j] = file[j]
        BY <1>4, <3>4, <3>5, <3>6, <3>7
      <4>2. front \in Seq(STRING) /\ Len(front) = k /\ Len(g) = k
        BY <3>1, <3>5, <3>6, <3>7 DEF Path
      <4> QED BY <4>1, <4>2
    <3>9. SubSeq(front, 1, Len(front)) = front
      BY <3>1 DEF Path
    <3> QED BY <1>3, <1>5, <3>1, <3>4, <3>7, <3>8, <3>9 DEF IsPrefix
  <2>2. front \o parts = file
    BY <1>5, <2>1, PrefixIs
  <2>3. Len(parts) > 0
    BY <1>7, <1>6
  <2> QED BY <1>5, <1>6, <2>2, <2>3, FormOfRest
<1>13. Tail(parts) \in Path /\ Len(Tail(parts)) > 0 /\ root \o Tail(parts) = file
  BY <1>4, <1>9, <1>10
<1>14. PatchFormOfPath(parts) = PatchFormOfPath(file) /\ PatchFormOfPath(Tail(parts)) = PatchFormOfPath(file)
  BY <1>9, <1>11, <1>12
<1>15. parts \in Path /\ Len(parts) > 0
  <2>1. PICK k : k = Len(parts)
    OBVIOUS
  <2>2. k > 0
    BY <1>6, <1>7, <2>1
  <2> QED BY <1>6, <2>1, <2>2
<1> QED BY <1>8, <1>13, <1>14, <1>15 DEF Spells

\* The directory above all of them is above each, or there is none.
IsShared(base, dirs) ==
  \/ base = NoBase
  \/ \E q \in Folder : base = [how |-> "shared", dirs |-> {q}] /\ dirs # {} /\ \A d \in dirs : IsPrefix(q, d)

LEMMA SharedIs ==
  ASSUME NEW dirs \in SUBSET Folder
  PROVE  IsShared(Shared(dirs), dirs)
<1> DEFINE above == {q \in UNION {{SubSeq(d, 1, n) : n \in 1..Len(d)} : d \in dirs} : \A d \in dirs : IsPrefix(q, d)}
           deepest == CHOOSE q \in above : \A p \in above : Len(p) <= Len(q)
<1>1. Shared(dirs) = IF above = {} THEN NoBase ELSE [how |-> "shared", dirs |-> {deepest}]
  BY DEF Shared
<1>2. SUFFICES ASSUME above # {} PROVE IsShared(Shared(dirs), dirs)
  BY <1>1 DEF IsShared
<1>3. \A q \in above : q \in Folder /\ \A d \in dirs : IsPrefix(q, d)
  <2> SUFFICES ASSUME NEW q \in above PROVE q \in Folder /\ \A d \in dirs : IsPrefix(q, d)
    BY Zenon
  <2>0. PICK d \in dirs : \E n \in 1..Len(d) : q = SubSeq(d, 1, n)
    OBVIOUS
  <2>00. PICK n \in 1..Len(d) : q = SubSeq(d, 1, n)
    BY <2>0
  <2>1. d \in Seq(STRING \ DOMAIN Extension) /\ n \in Nat /\ 0 <= n /\ n <= Len(d)
    BY DEF Folder
  <2>2. SubSeq(d, 0 + 1, n) \in Seq(STRING \ DOMAIN Extension)
    BY <2>1, CutIs
  <2>3. q \in Folder
    BY <2>00, <2>2 DEF Folder
  <2>4. \A e \in dirs : IsPrefix(q, e)
    OBVIOUS
  <2> QED BY <2>3, <2>4
<1>4. PICK top \in dirs : TRUE
  BY <1>2
<1>5. Len(top) \in Nat
  BY DEF Folder
<1> DEFINE lengths == {Len(q) : q \in above}
<1>6. lengths \in SUBSET (0..Len(top)) /\ lengths # {}
  <2>1. ASSUME NEW q \in above PROVE Len(q) \in 0..Len(top)
    <3>1. q \in Folder /\ IsPrefix(q, top)
      BY <1>3
    <3>2. Len(q) \in Nat /\ Len(q) <= Len(top)
      BY <3>1 DEF Folder, IsPrefix
    <3> QED BY <1>5, <3>2
  <2> HIDE DEF above
  <2> QED BY <1>2, <2>1
<1>7. PICK longest \in lengths : \A k \in lengths : k <= longest
  <2> HIDE DEF lengths
  <2> QED BY <1>5, <1>6, LargestNatural
<1>8. \E q \in above : \A p \in above : Len(p) <= Len(q)
  <2> HIDE DEF above
  <2> QED BY <1>7
<1>9. deepest \in above
  <2> HIDE DEF above
  <2> QED BY <1>8
<1> HIDE DEF above, deepest
<1>10. deepest \in Folder /\ \A d \in dirs : IsPrefix(deepest, d)
  BY <1>3, <1>9
<1> QED BY <1>1, <1>2, <1>4, <1>10 DEF IsShared

\* The first of some roots is one of them, and so is that of a single directory.
LEMMA FirstIs ==
  ASSUME NEW dirs, dirs # {}, dirs \subseteq Range(RootOrder) \/ \E d : dirs = {d}
  PROVE  First(dirs) \in dirs
<1>1. RootOrder \in Seq(Folder) /\ \A i, k \in DOMAIN RootOrder : RootOrder[i] = RootOrder[k] => i = k
  BY CatalogAssumption
<1>2. \E d \in dirs : \A i, k \in DOMAIN RootOrder : RootOrder[i] = d /\ RootOrder[k] \in dirs => i <= k
  <2>1. CASE \E d : dirs = {d}
    <3>1. PICK d : dirs = {d}
      BY <2>1
    <3>2. ASSUME NEW i \in DOMAIN RootOrder, NEW k \in DOMAIN RootOrder, RootOrder[i] = d, RootOrder[k] \in dirs
          PROVE  i <= k
      <4>1. i = k /\ i \in Nat
        BY <1>1, <3>1, <3>2
      <4> QED BY <4>1
    <3> QED BY <3>1, <3>2
  <2>2. CASE dirs \subseteq Range(RootOrder)
    <3> DEFINE taken == {i \in DOMAIN RootOrder : RootOrder[i] \in dirs}
    <3>1. taken \in SUBSET Nat /\ taken # {}
      <4>1. DOMAIN RootOrder \subseteq Nat
        BY <1>1
      <4>2. PICK d \in dirs : TRUE
        OBVIOUS
      <4>3. PICK i \in DOMAIN RootOrder : RootOrder[i] = d
        BY <2>2 DEF Range
      <4> QED BY <4>1, <4>2, <4>3
    <3>2. PICK n \in taken : \A k \in taken : n <= k
      <4> HIDE DEF taken
      <4> QED BY <3>1, LeastNatural
    <3>3. ASSUME NEW i \in DOMAIN RootOrder, NEW k \in DOMAIN RootOrder, RootOrder[i] = RootOrder[n], RootOrder[k] \in dirs
          PROVE  i <= k
      BY <1>1, <3>2, <3>3
    <3> QED BY <3>2, <3>3
  <2> QED BY <2>1, <2>2
<1> QED BY <1>2 DEF First


(***************************************************************************)
(* Profiles                                                                *)
(***************************************************************************)
Entries == [name : Range(NameOrder), over : Profile]

\* Profiles by name, the default plugin's among them.
Catalogs == {p \in UNION {[N -> Profile] : N \in SUBSET Range(NameOrder)} : Surge \in DOMAIN p}

LEMMA CatalogIs ==
  ASSUME NEW p
  PROVE  p \in Catalogs <=> /\ p = [n \in DOMAIN p |-> p[n]] /\ DOMAIN p \subseteq Range(NameOrder) /\ Surge \in DOMAIN p
                            /\ \A n \in DOMAIN p : p[n] \in Profile
<1>1. ASSUME p \in Catalogs
      PROVE  /\ p = [n \in DOMAIN p |-> p[n]] /\ DOMAIN p \subseteq Range(NameOrder) /\ Surge \in DOMAIN p
             /\ \A n \in DOMAIN p : p[n] \in Profile
  <2>1. PICK N \in SUBSET Range(NameOrder) : p \in [N -> Profile]
    BY <1>1 DEF Catalogs
  <2> QED BY <1>1, <2>1 DEF Catalogs
<1>2. ASSUME p = [n \in DOMAIN p |-> p[n]], DOMAIN p \subseteq Range(NameOrder), Surge \in DOMAIN p,
             \A n \in DOMAIN p : p[n] \in Profile
      PROVE  p \in Catalogs
  <2>1. p \in [DOMAIN p -> Profile] /\ DOMAIN p \in SUBSET Range(NameOrder)
    BY <1>2
  <2> QED BY <1>2, <2>1 DEF Catalogs
<1> QED BY <1>1, <1>2

LEMMA OverriddenIs ==
  ASSUME NEW p \in Profile, NEW q \in Profile
  PROVE  OverriddenBy(p, q) \in Profile
BY DEF OverriddenBy, Or, Profile

LEMMA MergedIs ==
  ASSUME NEW profiles \in Catalogs, NEW entry \in Entries
  PROVE  MergedWith(profiles, entry) \in Catalogs
<1> DEFINE same == {n \in DOMAIN profiles : Normal[n] = Normal[entry.name]}
           key == IF same = {} THEN entry.name ELSE CHOOSE n \in same : TRUE
           base == IF same = {} THEN NoProfile ELSE profiles[key]
<1>1. entry.name \in Range(NameOrder) /\ entry.over \in Profile
  BY DEF Entries
<1>2. /\ DOMAIN profiles \subseteq Range(NameOrder) /\ Surge \in DOMAIN profiles
      /\ \A n \in DOMAIN profiles : profiles[n] \in Profile
  BY CatalogIs
<1>3. same # {} => key \in DOMAIN profiles
  OBVIOUS
<1>4. key \in Range(NameOrder)
  BY <1>1, <1>2, <1>3
<1>5. base \in Profile
  <2>1. NoProfile \in Profile
    BY DEF NoProfile, Profile, None
  <2> QED BY <1>2, <1>3, <2>1
<1>6. OverriddenBy(base, entry.over) \in Profile
  BY <1>1, <1>5, OverriddenIs
<1>7. MergedWith(profiles, entry) = [n \in DOMAIN profiles \cup {key} |-> IF n = key THEN OverriddenBy(base, entry.over) ELSE profiles[n]]
  BY DEF MergedWith
<1> HIDE DEF same, key, base
<1>8. PICK p : p = MergedWith(profiles, entry)
  OBVIOUS
<1>9. DOMAIN p = DOMAIN profiles \cup {key} /\ p = [n \in DOMAIN p |-> p[n]]
  BY <1>7, <1>8
<1>10. ASSUME NEW n \in DOMAIN p PROVE p[n] \in Profile
  <2>1. p[n] = IF n = key THEN OverriddenBy(base, entry.over) ELSE profiles[n]
    BY <1>7, <1>8, <1>9
  <2> QED BY <1>2, <1>6, <1>9, <2>1
<1> QED BY <1>2, <1>4, <1>8, <1>9, <1>10, CatalogIs

LEMMA ProfilesAre ==
  ASSUME config \in Configs \cup {<<>>}
  PROVE  Profiles \in Catalogs
<1> DEFINE n == Len(config)
           Solution(f) == f = [k \in 0..Len(config) |-> IF k = 0 THEN Builtin ELSE MergedWith(f[k - 1], config[k])]
           merged == CHOOSE f : Solution(f)
<1>0. n \in Nat /\ \A k \in 1..n : config[k] \in Entries
  <2>1. config \in Seq(Entries)
    <3>1. \A c \in Configs : c \in Seq(Entries)
      BY Zenon, CatalogAssumption DEF Entries
    <3>2. <<>> \in Seq(Entries)
      OBVIOUS
    <3> QED BY Zenon, <3>1, <3>2
  <2> QED BY <2>1
<1>1. Builtin \in Catalogs
  BY CatalogAssumption, CatalogIs
<1>2. \E f : Solution(f)
  <2>1. PICK turn : turn = [x \in (1..n) \X Catalogs |-> MergedWith(x[2], config[x[1]])]
    OBVIOUS
  <2>2. PICK D : D = [k \in 0..n |-> Catalogs]
    OBVIOUS
  <2>3. ASSUME NEW k \in 1..n, NEW x \in D[k - 1]
        PROVE  turn[<<k, x>>] = MergedWith(x, config[k]) /\ turn[<<k, x>>] \in D[k]
    <3>1. x \in Catalogs /\ D[k] = Catalogs
      BY <1>0, <2>2
    <3>2. turn[<<k, x>>] = MergedWith(x, config[k])
      BY <2>1, <3>1
    <3>3. MergedWith(x, config[k]) \in Catalogs
      BY <1>0, <3>1, MergedIs
    <3> QED BY <3>1, <3>2, <3>3
  <2>4. PICK f : Solves(f, n, D, turn, Builtin)
    <3>1. Builtin \in D[0] /\ n \in Nat
      BY <1>0, <1>1, <2>2
    <3> HIDE DEF n, merged
    <3> QED BY <2>3, <3>1, RecursionHasSolution
  <2>5. \A k \in 0..n : f[k] = IF k = 0 THEN Builtin ELSE MergedWith(f[k - 1], config[k])
    <3> SUFFICES ASSUME NEW k \in 0..n, k # 0 PROVE f[k] = MergedWith(f[k - 1], config[k])
      BY <2>4 DEF Solves
    <3>1. k \in 1..n /\ k - 1 \in 0..n
      BY <1>0
    <3>2. f[k - 1] \in D[k - 1] /\ f[k] = turn[<<k, f[k - 1]>>]
      BY <2>4, <3>1 DEF Solves
    <3> QED BY <2>3, <3>1, <3>2
  <2>6. f = [k \in 0..n |-> IF k = 0 THEN Builtin ELSE MergedWith(f[k - 1], config[k])]
    BY <2>4, <2>5 DEF Solves
  <2> QED BY <2>6
<1>3. Solution(merged)
  BY Zenon, <1>2
<1>4. merged[n] \in Catalogs
  <2> HIDE DEF merged
  <2>1. \A k \in 0..n : merged[k] = IF k = 0 THEN Builtin ELSE MergedWith(merged[k - 1], config[k])
    BY <1>3
  <2> DEFINE T == {k \in Nat : k <= n => merged[k] \in Catalogs}
  <2>2. 0 \in T
    BY <1>0, <1>1, <2>1
  <2>3. ASSUME NEW k \in Nat, k \in T PROVE k + 1 \in T
    <3>1. SUFFICES ASSUME k + 1 <= n PROVE merged[k + 1] \in Catalogs
      BY <2>3
    <3>2. k + 1 \in 1..n /\ k + 1 \in 0..n /\ (k + 1) - 1 = k /\ k + 1 # 0 /\ k <= n
      BY <1>0, <3>1
    <3>3. merged[k + 1] = MergedWith(merged[k], config[k + 1])
      BY <2>1, <3>2
    <3>4. merged[k] \in Catalogs /\ config[k + 1] \in Entries
      BY <1>0, <2>3, <3>2
    <3> QED BY <3>3, <3>4, MergedIs
  <2>4. n \in T
    <3> HIDE DEF T, n
    <3> QED BY <1>0, <2>2, <2>3, AllNaturals
  <2> QED BY <1>0, <2>4
<1>5. PICK all \in Catalogs : all = merged[n]
  BY <1>4
<1>6. Profiles = [k \in DOMAIN all |-> WithOwnDirs(all[k])]
  <2>1. Profiles = [k \in DOMAIN merged[n] |-> WithOwnDirs(merged[n][k])]
    BY Zenon DEF Profiles
  <2> HIDE DEF merged, n
  <2> QED BY <1>5, <2>1
<1> HIDE DEF merged, n
<1>7. ASSUME NEW p \in Profile PROVE WithOwnDirs(p) \in Profile
  <2>1. ASSUME NEW form \in DOMAIN OwnDirs PROVE [p EXCEPT !.dirs = Some(OwnDirs[form])] \in Profile
    <3>1. Some(OwnDirs[form]) \in Seq(SUBSET Folder)
      BY CatalogAssumption DEF Some
    <3> QED BY <3>1 DEF Profile
  <2> QED BY <2>1 DEF WithOwnDirs
<1>8. DOMAIN all \subseteq Range(NameOrder) /\ Surge \in DOMAIN all /\ \A k \in DOMAIN all : all[k] \in Profile
  BY <1>5, CatalogIs
<1>9. PICK p : p = Profiles
  OBVIOUS
<1>10. DOMAIN p = DOMAIN all /\ p = [k \in DOMAIN p |-> p[k]] /\ \A k \in DOMAIN p : p[k] \in Profile
  BY <1>6, <1>7, <1>8, <1>9
<1> QED BY <1>8, <1>9, <1>10, CatalogIs

\* The directories of a profile are directories.
LEMMA DirsAre ==
  ASSUME NEW p \in Profile
  PROVE  PatchDirs(p) \subseteq Folder
<1>1. p.dirs \in Seq(SUBSET Folder)
  BY DEF Profile
<1>2. p.dirs # None => p.dirs[1] \in SUBSET Folder
  BY <1>1 DEF None
<1> QED BY <1>2 DEF PatchDirs


(***************************************************************************)
(* What a server knows, and what is saved                                  *)
(***************************************************************************)
\* A kind of a server, against the plugin and the roots there were at its start.
KindIs(kind, plugin, roots) ==
  /\ kind.form = plugin.form /\ plugin.dirs \subseteq Folder
  /\ kind.base = IF plugin.form = "sfz" THEN PerRoot(IF plugin.there THEN roots ELSE {}) ELSE Shared(plugin.dirs)

\* A server has a kind for each plugin there was at its start.
ServerInv ==
  started # None =>
    /\ started = Some(started[1]) /\ started[1].registered \subseteq Range(RootOrder)
    /\ DOMAIN kinds = DOMAIN started[1].plugins /\ DOMAIN kinds \subseteq 0..BuiltinPlace
    /\ \A i \in DOMAIN kinds : KindIs(kinds[i], started[1].plugins[i], started[1].registered)

\* A program of the user bank or of a manifest that a loader finds from the file.
StandsFor(s) ==
  \/ UserRoot \in s.roots /\ IsPrefix(UserRoot, s.file) /\ IsSfz(s.file)
  \/ \E m \in Manifests : IsPrefix(m.dir, Front(s.file)) /\ s.file \in ReadManifest(m)

SavedProgram(s) ==
  /\ s.how = "perRoot" /\ s.place \in s.roots /\ IsPrefix(s.place, s.file) /\ Len(s.place) < Len(s.file)
  /\ s.display = [absolute |-> FALSE, parts |-> SubSeq(s.file, Len(Front(s.place)) + 1, Len(s.file))]
  /\ StandsFor(s)

SavedPath(s) == s.how \in {"none", "shared"} /\ s.display = [absolute |-> TRUE, parts |-> s.file]

SavedBelow(s) ==
  /\ s.how = "shared" /\ s.dirs \subseteq Folder
  /\ \E q \in Folder :
       /\ Shared(s.dirs \cap Directories) = [how |-> "shared", dirs |-> {q}]
       /\ IsPrefix(q, s.file) /\ Len(q) < Len(s.file)
       /\ s.display = [absolute |-> FALSE, parts |-> SubSeq(s.file, Len(q) + 1, Len(s.file))]

SavedInv ==
  bookmark # None =>
    /\ bookmark = Some(bookmark[1]) /\ bookmark[1].file \in PatchFiles /\ bookmark[1].roots \subseteq Range(RootOrder)
    /\ IF PatchFormOfPath(bookmark[1].file) = "sfz" THEN SavedProgram(bookmark[1])
       ELSE SavedPath(bookmark[1]) \/ SavedBelow(bookmark[1])

CatalogInv ==
  /\ config \in Configs \cup {<<>>} /\ registered \subseteq Range(RootOrder)
  /\ ServerInv /\ SavedInv

LEMMA CatalogInitially == CatalogInit => CatalogInv
<1> SUFFICES ASSUME CatalogInit PROVE CatalogInv
  OBVIOUS
<1>1. UserRoot \in Range(RootOrder)
  BY CatalogAssumption
<1> QED BY <1>1 DEF CatalogInit, CatalogInv, ServerInv, SavedInv, None

\* A path of one form has no other.
LEMMA OneForm ==
  ASSUME NEW f \in PatchFiles
  PROVE  f \in Path /\ \A x, y \in FormsIn(f) : x = y
BY CatalogAssumption DEF Path


\* A path that begins with another and is as long is the same, and one that is longer
\* begins with it without its end, too.
LEMMA PrefixEnds ==
  ASSUME NEW a \in Path, NEW p \in Path, IsPrefix(a, p)
  PROVE  (Len(a) = Len(p) => a = p) /\ (Len(a) < Len(p) => IsPrefix(a, Front(p)))
<1>1. Len(a) \in Nat /\ Len(p) \in Nat /\ Len(a) <= Len(p) /\ \A i \in 1..Len(a) : a[i] = p[i]
  BY PrefixIs
<1>2. ASSUME Len(a) = Len(p) PROVE a = p
  BY <1>1, <1>2 DEF Path
<1>3. ASSUME Len(a) < Len(p) PROVE IsPrefix(a, Front(p))
  <2>1. PICK m \in Nat : m = Len(a)
    BY <1>1
  <2>2. PICK n \in Nat : n = Len(p) - 1 /\ m <= n
    <3>1. PICK l \in Nat : l = Len(p) /\ m < l
      BY <1>1, <1>3, <2>1
    <3>2. l - 1 \in Nat /\ m <= l - 1
      BY <3>1
    <3> QED BY <3>1, <3>2
  <2>3. /\ SubSeq(p, 0 + 1, n) \in Seq(STRING) /\ Len(SubSeq(p, 0 + 1, n)) = n - 0
        /\ \A j \in 1..n - 0 : SubSeq(p, 0 + 1, n)[j] = p[0 + j]
    BY <2>2, CutIs DEF Path
  <2>4. PICK front : front \in Seq(STRING) /\ front = SubSeq(p, 0 + 1, n)
    BY <2>3
  <2>5. front = Front(p) /\ Len(front) = n /\ \A j \in 1..n : front[j] = p[j]
    BY <2>2, <2>3, <2>4 DEF Front
  <2>6. /\ SubSeq(front, 0 + 1, m) \in Seq(STRING) /\ Len(SubSeq(front, 0 + 1, m)) = m - 0
        /\ \A j \in 1..m - 0 : SubSeq(front, 0 + 1, m)[j] = front[0 + j]
    BY <2>2, <2>4, <2>5, CutIs
  <2>7. PICK g : g \in Seq(STRING) /\ g = SubSeq(front, 0 + 1, m)
    BY <2>6
  <2>8. Len(g) = m /\ \A j \in 1..m : g[j] = a[j]
    <3>1. Len(g) = m /\ \A j \in 1..m : g[j] = front[j]
      BY <2>6, <2>7
    <3>2. \A j \in 1..m : front[j] = p[j] /\ p[j] = a[j]
      BY <1>1, <2>1, <2>2, <2>5
    <3> QED BY <3>1, <3>2
  <2>9. g = a
    BY <2>1, <2>7, <2>8 DEF Path
  <2>10. SubSeq(a, 1, Len(a)) = a
    BY DEF Path
  <2> QED BY <2>1, <2>2, <2>5, <2>7, <2>9, <2>10 DEF IsPrefix
<1> QED BY <1>2, <1>3

\* A program lies below the directories it is in, and its form is that of its end.
LEMMA SfzIs ==
  ASSUME NEW f \in PatchFiles, IsSfz(f), NEW d \in Folder, IsPrefix(d, f), Len(d) > 1 \/ Len(f) > 0
  PROVE  Len(d) < Len(f) /\ PatchFormOfPath(f) = "sfz"
<1>1. f \in Path /\ d \in Path /\ \A x, y \in FormsIn(f) : x = y
  BY OneForm, FolderIs
<1>2. Len(d) \in Nat /\ Len(f) \in Nat /\ Len(d) <= Len(f) /\ \A i \in 1..Len(d) : d[i] = f[i]
  BY <1>1, PrefixIs
<1>3. Len(f) > 0 /\ Len(f) \in DOMAIN f
  BY <1>1, <1>2 DEF Path
<1>4. Last(f) \in DOMAIN Extension /\ Extension[Last(f)] = "sfz"
  <2>1. FormsIn(<<Last(f)>>) = {"sfz"}
    BY DEF IsSfz
  <2>2. PICK i \in DOMAIN <<Last(f)>> : <<Last(f)>>[i] \in DOMAIN Extension /\ Extension[<<Last(f)>>[i]] = "sfz"
    BY <2>1 DEF FormsIn
  <2> QED BY <2>2
<1>5. Len(d) < Len(f)
  <2>1. ASSUME Len(d) = Len(f) PROVE FALSE
    <3>1. d[Len(f)] = Last(f)
      BY <1>2, <1>3, <2>1 DEF Last
    <3>2. d[Len(f)] \in STRING \ DOMAIN Extension
      BY <1>2, <1>3, <2>1 DEF Folder
    <3> QED BY <1>4, <3>1, <3>2
  <2> QED BY <1>2, <2>1
<1>6. "sfz" \in FormsIn(f)
  BY <1>3, <1>4 DEF FormsIn, Last
<1>7. "cartridge" \notin FormsIn(f)
  BY <1>1, <1>6
<1> QED BY <1>5, <1>6, <1>7 DEF PatchFormOfPath

LEMMA ProgramIsSaved ==
  ASSUME registered \subseteq Range(RootOrder), NEW profile \in Profile, IsPresent(profile), PatchFormOf(profile) = "sfz",
         NEW file \in ListedPatches(profile), NEW s, s = Saving(profile, CatalogBase(profile), file)
  PROVE  /\ file \in PatchFiles /\ s.file = file /\ s.roots = registered
         /\ PatchFormOfPath(file) = "sfz" /\ SavedProgram(s)
<1>1. /\ file \in PatchFiles /\ (\E r \in registered : IsPrefix(r, file))
      /\ Cardinality(ProgramsOf(file, registered)) = 1
  BY DEF ListedPatches, ListedPrograms, CatalogRoots
<1>2. \A r \in Range(RootOrder) : r \in Folder /\ Len(r) > 1
  BY CatalogAssumption DEF Range
<1>3. ProgramsOf(file, registered) # {}
  BY <1>1, FS_EmptySet
<1>4. IsUserProgram(file) \/ \E m \in Manifests : file \in ReadManifest(m)
  BY <1>3 DEF ProgramsOf
<1>5. IsSfz(file)
  BY <1>4 DEF IsUserProgram, ReadManifest
<1>6. \A r \in registered : IsPrefix(r, file) => Len(r) < Len(file) /\ PatchFormOfPath(file) = "sfz"
  BY <1>1, <1>2, <1>5, SfzIs
<1>7. PatchFormOfPath(file) = "sfz"
  BY <1>1, <1>6
<1>8. PICK base : base = [how |-> "perRoot", dirs |-> registered]
  OBVIOUS
<1>9. CatalogBase(profile) = base
  BY <1>1, <1>8 DEF CatalogBase, CatalogRoots, PerRoot
<1>10. Places(base, file) # {} /\ Places(base, file) \subseteq registered
  BY <1>1, <1>8 DEF Places
<1>11. PICK place \in registered : place = First(Places(base, file)) /\ IsPrefix(place, file)
  <2>1. First(Places(base, file)) \in Places(base, file)
    BY <1>10, FirstIs
  <2> QED BY <1>8, <2>1 DEF Places
<1>12. s.how = "perRoot" /\ s.place = place /\ s.roots = registered /\ s.file = file
       /\ s.display = Display(base, file)
  BY <1>8, <1>9, <1>10, <1>11 DEF Saving
<1>13. s.display = [absolute |-> FALSE, parts |-> SubSeq(file, Len(Front(place)) + 1, Len(file))]
  BY <1>2, <1>8, <1>10, <1>11, <1>12 DEF Display, Anchor
<1>14. StandsFor(s)
  <2>1. CASE IsUserProgram(file)
    BY <1>12, <2>1 DEF StandsFor, IsUserProgram
  <2>2. CASE \E m \in Manifests : file \in ReadManifest(m)
    <3>1. PICK m \in Manifests : file \in ReadManifest(m)
      BY <2>2
    <3>2. IsPrefix(m.dir, file) /\ m.dir \in Folder
      BY <3>1, CatalogAssumption DEF ReadManifest
    <3>3. Len(file) > 0
      <4>1. place \in Folder /\ file \in Path
        BY <1>1, <1>2, <1>11, OneForm
      <4>2. Len(place) \in Nat /\ Len(file) \in Nat /\ Len(place) <= Len(file)
        BY <1>11, <4>1, FolderIs, PrefixIs
      <4> QED BY <1>2, <1>11, <4>2
    <3>4. Len(m.dir) < Len(file)
      BY <1>1, <1>5, <3>2, <3>3, SfzIs
    <3>5. IsPrefix(m.dir, Front(file))
      BY <1>1, <3>2, <3>4, FolderIs, OneForm, PrefixEnds
    <3> QED BY <1>12, <3>1, <3>5 DEF StandsFor
  <2> QED BY <1>4, <2>1, <2>2
<1> QED BY <1>1, <1>6, <1>7, <1>11, <1>12, <1>13, <1>14 DEF SavedProgram

LEMMA PathIsSaved ==
  ASSUME NEW profile \in Profile, PatchFormOf(profile) # "sfz",
         NEW file \in ListedPatches(profile), NEW s, s = Saving(profile, CatalogBase(profile), file)
  PROVE  /\ file \in PatchFiles /\ s.file = file /\ s.roots = registered
         /\ PatchFormOfPath(file) # "sfz" /\ (SavedPath(s) \/ SavedBelow(s))
<1>1. file \in PatchFiles /\ PatchFormOfPath(file) # "sfz"
  BY DEF ListedPatches
<1>2. PICK base : base = Shared(PatchDirs(profile) \cap Directories)
  OBVIOUS
<1>3. CatalogBase(profile) = base
  BY <1>2 DEF CatalogBase
<1>4. s.file = file /\ s.roots = registered /\ s.how = base.how /\ s.dirs = PatchDirs(profile) /\ s.display = Display(base, file)
  BY <1>3 DEF Saving
<1>5. PatchDirs(profile) \subseteq Folder
  BY DirsAre
<1>6. IsShared(base, PatchDirs(profile) \cap Directories)
  BY <1>2, <1>5, SharedIs
<1>7. base.how \in {"none", "shared"}
  BY <1>6 DEF IsShared, NoBase
<1>8. CASE Places(base, file) = {}
  BY <1>1, <1>4, <1>7, <1>8 DEF Display, SavedPath
<1>9. CASE Places(base, file) # {}
  <2>1. PICK q \in Folder : /\ base = [how |-> "shared", dirs |-> {q}] /\ PatchDirs(profile) \cap Directories # {}
                            /\ \A d \in PatchDirs(profile) \cap Directories : IsPrefix(q, d)
    BY <1>6, <1>9 DEF IsShared, NoBase, Places
  <2>2. IsPrefix(q, file) /\ Places(base, file) = {q}
    BY <1>9, <2>1 DEF Places
  <2>3. First(Places(base, file)) = q
    BY <2>2, FirstIs
  <2>4. s.display = [absolute |-> FALSE, parts |-> SubSeq(file, Len(q) + 1, Len(file))]
    BY <1>4, <1>9, <2>1, <2>3 DEF Display, Anchor
  <2>5. Len(q) < Len(file)
    <3>1. q \in Path /\ file \in Path
      BY <1>1, FolderIs, OneForm
    <3>2. q # file
      BY <1>1, <2>1, CatalogAssumption
    <3>3. Len(q) \in Nat /\ Len(file) \in Nat /\ Len(q) <= Len(file) /\ Len(q) # Len(file)
      BY <2>2, <3>1, <3>2, PrefixIs, PrefixEnds
    <3> QED BY <3>3
  <2>6. s.how = "shared" /\ s.dirs \subseteq Folder
    BY <1>4, <1>5, <2>1
  <2>7. Shared(s.dirs \cap Directories) = [how |-> "shared", dirs |-> {q}]
    BY <1>2, <1>4, <2>1
  <2>8. SavedBelow(s)
    BY <1>4, <2>2, <2>4, <2>5, <2>6, <2>7 DEF SavedBelow
  <2> QED BY <1>1, <1>4, <2>8
<1> QED BY <1>8, <1>9

LEMMA RecordingIsSaved ==
  ASSUME NEW file \in PatchFiles, PatchFormOfPath(file) = "wav", NEW s, s = Saving(NoProfile, NoBase, file)
  PROVE  s.file = file /\ s.roots = registered /\ SavedPath(s)
<1>1. Places(NoBase, file) = {}
  BY DEF Places, NoBase
<1> QED BY <1>1 DEF Saving, SavedPath, Display, NoBase

\* What the server makes of a profile.
LEMMA KindOfIs ==
  ASSUME NEW p \in Profile
  PROVE  KindIs(KindOf(p), [form |-> PatchFormOf(p), dirs |-> PatchDirs(p), there |-> IsPresent(p)], registered)
<1>1. PatchDirs(p) \subseteq Folder
  BY DirsAre
<1>2. SforzandoBase(p) = PerRoot(IF IsPresent(p) THEN registered ELSE {})
  BY DEF SforzandoBase, CatalogRoots, SameDirs
<1> QED BY <1>1, <1>2 DEF KindIs, KindOf

LEMMA CachePlayerIs == KindIs(CachePlayerKind, [form |-> "wav", dirs |-> {}, there |-> TRUE], registered)
<1>1. Shared({}) = NoBase
  BY DEF Shared
<1> QED BY <1>1 DEF KindIs, CachePlayerKind

LEMMA ListingIs ==
  ASSUME config \in Configs \cup {<<>>}
  PROVE  DOMAIN Listing \subseteq 0..Len(NameOrder) /\ Len(NameOrder) \in Nat /\ \A i \in DOMAIN Listing : Listing[i] \in Profile
<1>1. PICK p : p = Profiles
  OBVIOUS
<1>2. Surge \in DOMAIN p /\ \A n \in DOMAIN p : p[n] \in Profile
  BY <1>1, ProfilesAre, CatalogIs
<1>3. Len(NameOrder) \in Nat /\ DOMAIN NameOrder = 1..Len(NameOrder)
  BY CatalogAssumption
<1> DEFINE others == {i \in DOMAIN NameOrder : /\ NameOrder[i] \in DOMAIN p /\ IsPresent(p[NameOrder[i]])
                                               /\ p[NameOrder[i]].path # p[Surge].path}
<1>4. Listing = [i \in {0} \cup others |-> IF i = 0 THEN p[Surge] ELSE p[NameOrder[i]]]
  BY <1>1 DEF Listing
<1>5. \A i \in others : NameOrder[i] \in DOMAIN p /\ i \in 1..Len(NameOrder)
  BY <1>3
<1> HIDE DEF others
<1>6. DOMAIN Listing \subseteq 0..Len(NameOrder)
  BY <1>3, <1>4, <1>5
<1>7. \A i \in DOMAIN Listing : Listing[i] \in Profile
  BY <1>2, <1>4, <1>5
<1> QED BY <1>3, <1>6, <1>7

LEMMA ServerStarts ==
  ASSUME CatalogInv, Starts
  PROVE  ServerInv'
<1>1. PICK all : all = Listing
  OBVIOUS
<1>2. config \in Configs \cup {<<>>} /\ registered \subseteq Range(RootOrder) /\ UNCHANGED <<config, present, registered>>
  BY DEF CatalogInv, Starts, worldVars
<1>3. DOMAIN all \subseteq 0..Len(NameOrder) /\ Len(NameOrder) \in Nat /\ \A i \in DOMAIN all : all[i] \in Profile
  BY <1>1, <1>2, ListingIs
<1>4. PICK places : places = DOMAIN all \cup {BuiltinPlace}
  OBVIOUS
<1>5. places \subseteq 0..BuiltinPlace
  BY <1>3, <1>4 DEF BuiltinPlace
<1>6. kinds' = [i \in places |-> IF i \in DOMAIN all THEN KindOf(all[i]) ELSE CachePlayerKind]
  BY <1>1, <1>4 DEF Starts, PluginKinds
<1>7. PICK plugins : plugins = [i \in places |-> IF i \in DOMAIN all
                                THEN [form |-> PatchFormOf(all[i]), dirs |-> PatchDirs(all[i]), there |-> IsPresent(all[i])]
                                ELSE [form |-> "wav", dirs |-> {}, there |-> TRUE]]
  OBVIOUS
<1>8. started' = Some([registered |-> registered, plugins |-> plugins])
  BY <1>1, <1>4, <1>7 DEF Starts
<1>9. PICK start : start = [registered |-> registered, plugins |-> plugins]
  OBVIOUS
<1>10. started' = Some(start) /\ started'[1] = start /\ start.registered = registered /\ start.plugins = plugins
  BY <1>8, <1>9 DEF Some
<1>11. ASSUME NEW i \in places PROVE KindIs(kinds'[i], plugins[i], registered)
  <2>1. CASE i \in DOMAIN all
    <3>1. kinds'[i] = KindOf(all[i])
          /\ plugins[i] = [form |-> PatchFormOf(all[i]), dirs |-> PatchDirs(all[i]), there |-> IsPresent(all[i])]
      BY <1>6, <1>7, <2>1
    <3>2. all[i] \in Profile
      BY <1>3, <2>1
    <3> QED BY <3>1, <3>2, KindOfIs
  <2>2. CASE i \notin DOMAIN all
    <3>1. kinds'[i] = CachePlayerKind /\ plugins[i] = [form |-> "wav", dirs |-> {}, there |-> TRUE]
      BY <1>6, <1>7, <2>2
    <3> QED BY <3>1, CachePlayerIs
  <2> QED BY <2>1, <2>2
<1>12. DOMAIN kinds' = places /\ DOMAIN plugins = places
  BY <1>6, <1>7
<1>13. /\ started' = Some(started'[1]) /\ started'[1].registered \subseteq Range(RootOrder)
       /\ DOMAIN kinds' = DOMAIN started'[1].plugins /\ DOMAIN kinds' \subseteq 0..BuiltinPlace
  BY <1>2, <1>5, <1>10, <1>12
<1>14. \A i \in DOMAIN kinds' : KindIs(kinds'[i], started'[1].plugins[i], started'[1].registered)
  BY <1>10, <1>11, <1>12
<1> QED BY <1>13, <1>14 DEF ServerInv


LEMMA CatalogStep == CatalogInv /\ [CatalogNext]_catalogVars => CatalogInv'
<1> SUFFICES ASSUME CatalogInv, [CatalogNext]_catalogVars PROVE CatalogInv'
  OBVIOUS
<1>1. ASSUME UNCHANGED serverVars PROVE ServerInv'
  BY <1>1 DEF CatalogInv, ServerInv, serverVars
<1>2. ASSUME UNCHANGED bookmark PROVE SavedInv'
  <2>1. bookmark' = bookmark /\ SavedInv
    BY <1>2 DEF CatalogInv
  <2> QED BY <2>1 DEF SavedInv
<1>3. ASSUME UNCHANGED worldVars PROVE config' \in Configs \cup {<<>>} /\ registered' \subseteq Range(RootOrder)
  BY <1>3 DEF CatalogInv, worldVars
<1>4. ASSUME NEW profile \in Range(Profiles), Saves(profile) PROVE CatalogInv'
  <2>1. profile \in Profile
    <3>1. PICK p : p = Profiles
      OBVIOUS
    <3>2. \A n \in DOMAIN p : p[n] \in Profile
      BY <3>1, ProfilesAre, CatalogIs DEF CatalogInv
    <3> QED BY <3>1, <3>2 DEF Range
  <2>2. PICK file \in ListedPatches(profile) : bookmark' = Some(Saving(profile, CatalogBase(profile), file))
    BY <1>4 DEF Saves
  <2>3. PICK s : s = Saving(profile, CatalogBase(profile), file)
    OBVIOUS
  <2>4. IsPresent(profile) /\ UNCHANGED worldVars /\ UNCHANGED serverVars /\ registered \subseteq Range(RootOrder)
    BY <1>4 DEF Saves, CatalogInv
  <2>5. bookmark' = Some(s) /\ bookmark'[1] = s
    BY <2>2, <2>3 DEF Some
  <2>6. /\ file \in PatchFiles /\ s.file = file /\ s.roots = registered
        /\ IF PatchFormOfPath(file) = "sfz" THEN SavedProgram(s) ELSE SavedPath(s) \/ SavedBelow(s)
    <3>1. CASE PatchFormOf(profile) = "sfz"
      BY <2>1, <2>3, <2>4, <3>1, ProgramIsSaved
    <3>2. CASE PatchFormOf(profile) # "sfz"
      BY <2>1, <2>3, <3>2, PathIsSaved
    <3> QED BY <3>1, <3>2
  <2>7. SavedInv'
    BY <2>4, <2>5, <2>6 DEF SavedInv
  <2> QED BY <1>1, <1>3, <2>4, <2>7 DEF CatalogInv
<1>5. ASSUME NEW file \in PatchFiles, SavesRecording(file) PROVE CatalogInv'
  <2>1. PICK s : s = Saving(NoProfile, NoBase, file)
    OBVIOUS
  <2>2. /\ PatchFormOfPath(file) = "wav" /\ bookmark' = Some(s) /\ bookmark'[1] = s
        /\ UNCHANGED worldVars /\ UNCHANGED serverVars /\ registered \subseteq Range(RootOrder)
    BY <1>5, <2>1 DEF SavesRecording, Some, CatalogInv
  <2>3. s.file = file /\ s.roots = registered /\ SavedPath(s)
    BY <2>1, <2>2, RecordingIsSaved
  <2>4. SavedInv'
    BY <2>2, <2>3 DEF SavedInv
  <2> QED BY <1>1, <1>3, <2>2, <2>4 DEF CatalogInv
<1>6. CASE Starts
  <2>1. UNCHANGED worldVars /\ UNCHANGED bookmark
    BY <1>6 DEF Starts
  <2> QED BY <1>2, <1>3, <1>6, <2>1, ServerStarts DEF CatalogInv
<1>7. ASSUME NEW c \in Configs, Configures(c) PROVE CatalogInv'
  <2>1. config' = c /\ registered' = registered /\ UNCHANGED serverVars /\ UNCHANGED bookmark
    BY <1>7 DEF Configures, Changes
  <2> QED BY <1>1, <1>2, <2>1 DEF CatalogInv
<1>8. ASSUME NEW f, Installs(f) PROVE CatalogInv'
  <2>1. config' = config /\ registered' = registered /\ UNCHANGED serverVars /\ UNCHANGED bookmark
    BY <1>8 DEF Installs, Changes
  <2> QED BY <1>1, <1>2, <2>1 DEF CatalogInv
<1>9. ASSUME NEW r \in Range(RootOrder), Registers(r) PROVE CatalogInv'
  <2>1. config' = config /\ registered' = Toggled(registered, r) /\ UNCHANGED serverVars /\ UNCHANGED bookmark
    BY <1>9 DEF Registers, Changes
  <2>2. registered' \subseteq Range(RootOrder)
    BY <2>1 DEF Toggled, CatalogInv
  <2> QED BY <1>1, <1>2, <2>1, <2>2 DEF CatalogInv
<1>10. ASSUME NEW profile \in Range(Profiles), BuildsCache(profile) PROVE CatalogInv'
  <2>1. config' = config /\ registered' = registered /\ UNCHANGED serverVars /\ UNCHANGED bookmark
    BY <1>10 DEF BuildsCache, Changes
  <2> QED BY <1>1, <1>2, <2>1 DEF CatalogInv
<1>11. CASE UNCHANGED catalogVars
  BY <1>1, <1>2, <1>3, <1>11 DEF CatalogInv, catalogVars
<1> QED BY <1>4, <1>5, <1>6, <1>7, <1>8, <1>9, <1>10, <1>11 DEF CatalogNext

(***************************************************************************)
(* Loading what was saved                                                  *)
(***************************************************************************)
\* A base that a kind of this form may have.
BaseFor(base, form) ==
  \/ base = NoBase
  \/ form = "sfz" /\ \E roots \in SUBSET Range(RootOrder) : base = PerRoot(roots)
  \/ form # "sfz" /\ \E q \in Folder : base = [how |-> "shared", dirs |-> {q}]

LEMMA KindHasBase ==
  ASSUME NEW kind, NEW plugin, NEW roots \in SUBSET Range(RootOrder), KindIs(kind, plugin, roots)
  PROVE  BaseFor(kind.base, plugin.form)
<1>1. CASE plugin.form = "sfz"
  <2>1. PICK given \in SUBSET Range(RootOrder) : given = IF plugin.there THEN roots ELSE {}
    OBVIOUS
  <2>2. kind.base = PerRoot(given)
    BY <1>1, <2>1 DEF KindIs
  <2> QED BY <1>1, <2>2 DEF BaseFor
<1>2. CASE plugin.form # "sfz"
  <2>1. kind.base = Shared(plugin.dirs) /\ plugin.dirs \subseteq Folder
    BY <1>2 DEF KindIs
  <2>2. IsShared(kind.base, plugin.dirs)
    BY <2>1, SharedIs
  <2> QED BY <1>2, <2>2 DEF BaseFor, IsShared
<1> QED BY <1>1, <1>2

SavedIs(s) ==
  /\ s.file \in PatchFiles /\ s.roots \subseteq Range(RootOrder)
  /\ IF PatchFormOfPath(s.file) = "sfz" THEN SavedProgram(s) ELSE SavedPath(s) \/ SavedBelow(s)

\* A saved program, by its parts.
LEMMA ProgramParts ==
  ASSUME NEW s, SavedIs(s), PatchFormOfPath(s.file) = "sfz", NEW parts, parts = s.display.parts
  PROVE  /\ s.display = [absolute |-> FALSE, parts |-> parts] /\ PatchFormOfPath(parts) = "sfz"
         /\ s.place \in Folder /\ Len(s.place) > 1 /\ Head(parts) = Last(s.place)
         /\ Tail(parts) \in Path /\ Len(Tail(parts)) > 0 /\ s.place \o Tail(parts) = s.file
         /\ PatchFormOfPath(Tail(parts)) = "sfz"
<1>0. PICK cut : cut = SubSeq(s.file, Len(Front(s.place)) + 1, Len(s.file))
  OBVIOUS
<1>00. s.place \in Range(RootOrder) /\ IsPrefix(s.place, s.file) /\ Len(s.place) < Len(s.file)
       /\ s.display = [absolute |-> FALSE, parts |-> cut]
  BY <1>0 DEF SavedIs, SavedProgram
<1>000. parts = cut
  BY <1>00
<1>1. /\ s.place \in Range(RootOrder) /\ IsPrefix(s.place, s.file) /\ Len(s.place) < Len(s.file)
      /\ s.display = [absolute |-> FALSE, parts |-> parts] /\ parts = SubSeq(s.file, Len(Front(s.place)) + 1, Len(s.file))
  BY <1>0, <1>00, <1>000
<1>2. s.place \in Folder /\ Len(s.place) > 1
  BY <1>1, CatalogAssumption DEF Range
<1>3. s.file \in Path
  BY OneForm DEF SavedIs
<1>4. Spells(parts, s.place, s.file)
  <2>1. PICK place \in Folder : place = s.place
    BY <1>2
  <2>2. PICK file \in Path : file = s.file
    BY <1>3
  <2>3. Len(place) > 1 /\ IsPrefix(place, file) /\ Len(place) < Len(file) /\ parts = SubSeq(file, Len(Front(place)) + 1, Len(file))
    BY <1>1, <1>2, <2>1, <2>2
  <2>4. Spells(parts, place, file)
    <3>1. place \in Folder
      BY <2>1
    <3>2. file \in Path
      BY <2>2
    <3> QED BY Zenon, <2>3, <3>1, <3>2, PartsAre
  <2> QED BY <2>1, <2>2, <2>4
<1> QED BY <1>1, <1>2, <1>4 DEF Spells

\* Whatever the base, a saved string and what becomes of it have the form of the file.
LEMMA ResolvedForm ==
  ASSUME NEW s, SavedIs(s), NEW base, BaseFor(base, PatchFormOfPath(s.file))
  PROVE  /\ PatchFormOfPath(s.display.parts) = PatchFormOfPath(s.file)
         /\ PatchFormOfPath(Resolve(base, s.display).parts) = PatchFormOfPath(s.file)
<1>1. CASE PatchFormOfPath(s.file) = "sfz"
  <2>1. PICK parts : parts = s.display.parts
    OBVIOUS
  <2>2. PatchFormOfPath(parts) = "sfz" /\ s.display = [absolute |-> FALSE, parts |-> parts]
        /\ Tail(parts) \in Path /\ Len(Tail(parts)) > 0 /\ PatchFormOfPath(Tail(parts)) = "sfz"
    BY <1>1, <2>1, ProgramParts
  <2>3. base = NoBase \/ \E roots \in SUBSET Range(RootOrder) : base = PerRoot(roots)
    BY <1>1 DEF BaseFor
  <2>4. CASE base = NoBase
    BY <1>1, <2>1, <2>2, <2>4 DEF Resolve, NoBase
  <2>5. CASE base # NoBase
    <3>1. PICK roots \in SUBSET Range(RootOrder) : base = [how |-> "perRoot", dirs |-> roots]
      BY <2>3, <2>5 DEF PerRoot
    <3>2. PICK named : named = {d \in roots : Len(d) > 1 /\ Last(d) = Head(parts)}
      OBVIOUS
    <3>3. Resolve(base, s.display) = IF named = {} THEN s.display ELSE [absolute |-> TRUE, parts |-> First(named) \o Tail(parts)]
      BY <2>2, <3>1, <3>2 DEF Resolve
    <3>4. CASE named = {}
      BY <1>1, <2>1, <2>2, <3>3, <3>4
    <3>5. CASE named # {}
      <4>1. First(named) \in Range(RootOrder)
        BY <3>2, <3>5, FirstIs
      <4>2. First(named) \in Folder
        BY <4>1, CatalogAssumption DEF Range
      <4>3. PatchFormOfPath(First(named) \o Tail(parts)) = "sfz"
        BY <2>2, <4>2, FormOfRest
      <4>4. PICK path : path = First(named) \o Tail(parts)
        OBVIOUS
      <4>5. Resolve(base, s.display) = [absolute |-> TRUE, parts |-> path]
        BY <3>3, <3>5, <4>4
      <4>6. Resolve(base, s.display).parts = path
        BY <4>5
      <4> QED BY <1>1, <2>1, <2>2, <4>3, <4>4, <4>6
    <3> QED BY <3>4, <3>5
  <2> QED BY <2>4, <2>5
<1>2. CASE PatchFormOfPath(s.file) # "sfz" /\ SavedPath(s)
  BY <1>2 DEF SavedPath, Resolve
<1>3. CASE PatchFormOfPath(s.file) # "sfz" /\ SavedBelow(s)
  <2>1. PICK q \in Folder : /\ IsPrefix(q, s.file) /\ Len(q) < Len(s.file)
                            /\ s.display = [absolute |-> FALSE, parts |-> SubSeq(s.file, Len(q) + 1, Len(s.file))]
    BY <1>3 DEF SavedBelow
  <2>2. PICK parts : parts = SubSeq(s.file, Len(q) + 1, Len(s.file))
    OBVIOUS
  <2>3. parts \in Path /\ Len(parts) > 0 /\ q \o parts = s.file
    <3>1. q \in Path /\ s.file \in Path
      BY FolderIs, OneForm DEF SavedIs
    <3>2. parts \in Path /\ Len(parts) = Len(s.file) - Len(q) /\ Len(q) \in Nat /\ Len(s.file) \in Nat /\ q \o parts = s.file
      BY <2>1, <2>2, <3>1, PrefixIs
    <3> QED BY <2>1, <3>2
  <2>4. PatchFormOfPath(parts) = PatchFormOfPath(s.file)
    BY <2>3, FormOfRest
  <2>5. s.display = [absolute |-> FALSE, parts |-> parts]
    BY <2>1, <2>2
  <2>6. CASE base = NoBase
    BY <2>4, <2>5, <2>6 DEF Resolve, NoBase
  <2>7. CASE base # NoBase
    <3>1. PICK d \in Folder : base = [how |-> "shared", dirs |-> {d}]
      BY <1>3, <2>7 DEF BaseFor
    <3>2. First({d}) = d
      BY FirstIs
    <3>3. Resolve(base, s.display) = [absolute |-> TRUE, parts |-> d \o parts]
      <4>1. ~s.display.absolute /\ s.display.parts = parts /\ base.how = "shared" /\ base.dirs = {d}
        BY <2>5, <3>1
      <4>2. Resolve(base, s.display) = [absolute |-> TRUE, parts |-> First(base.dirs) \o s.display.parts]
        BY <4>1 DEF Resolve
      <4> QED BY <3>2, <4>1, <4>2
    <3>4. PatchFormOfPath(d \o parts) = PatchFormOfPath(parts)
      BY <2>3, FormOfRest
    <3>5. s.display.parts = parts
      BY <2>5
    <3>6. PICK path : path = d \o parts
      OBVIOUS
    <3>7. Resolve(base, s.display).parts = path
      BY <3>3, <3>6
    <3> QED BY <2>4, <3>4, <3>5, <3>6, <3>7
  <2> QED BY <2>6, <2>7
<1> QED BY <1>1, <1>2, <1>3 DEF SavedIs


\* The plugins that read the file are those the servers find for a path of its form.
LEMMA ReadersAre ==
  ASSUME ServerInv, started # None, NEW s
  PROVE  /\ IsFiniteSet(Readers(s)) /\ Readers(s) \subseteq Nat
         /\ \A parts : PatchFormOfPath(parts) = PatchFormOfPath(s.file) => KindsFor(parts) = Readers(s)
         /\ \A i \in Readers(s) : BaseFor(kinds[i].base, PatchFormOfPath(s.file))
<1>1. /\ started[1].registered \subseteq Range(RootOrder)
      /\ DOMAIN kinds = DOMAIN started[1].plugins /\ DOMAIN kinds \subseteq 0..BuiltinPlace
      /\ \A i \in DOMAIN kinds : KindIs(kinds[i], started[1].plugins[i], started[1].registered)
  BY DEF ServerInv
<1>2. \A i \in DOMAIN kinds : kinds[i].form = started[1].plugins[i].form
  BY <1>1 DEF KindIs
<1>3. BuiltinPlace \in Nat
  BY CatalogAssumption DEF BuiltinPlace
<1>4. Readers(s) \subseteq 0..BuiltinPlace
  BY <1>1 DEF Readers
<1>5. IsFiniteSet(Readers(s))
  <2>1. IsFiniteSet(0..BuiltinPlace)
    BY <1>3, FS_Interval
  <2> QED BY <1>4, <2>1, FS_Subset
<1>6. Readers(s) \subseteq Nat
  BY <1>3, <1>4
<1>7. ASSUME NEW parts, PatchFormOfPath(parts) = PatchFormOfPath(s.file) PROVE KindsFor(parts) = Readers(s)
  BY <1>1, <1>2, <1>7 DEF KindsFor, Readers
<1>8. ASSUME NEW i \in Readers(s) PROVE BaseFor(kinds[i].base, PatchFormOfPath(s.file))
  <2>1. i \in DOMAIN kinds /\ started[1].plugins[i].form = PatchFormOfPath(s.file)
    BY <1>1 DEF Readers
  <2>2. PICK plugin : plugin = started[1].plugins[i]
    OBVIOUS
  <2>3. PICK kind : kind = kinds[i]
    OBVIOUS
  <2>4. KindIs(kind, plugin, started[1].registered)
    BY <1>1, <2>1, <2>2, <2>3
  <2>5. BaseFor(kind.base, plugin.form)
    BY <1>1, <2>4, KindHasBase
  <2> QED BY <2>1, <2>2, <2>3, <2>5
<1> QED BY <1>5, <1>6, <1>7, <1>8

\* The play server resolves by the base of one of them, the only one if there is one.
LEMMA LivePathIs ==
  ASSUME ServerInv, started # None, NEW s, SavedIs(s)
  PROVE  \E base : /\ LivePath(s.display) = Resolve(base, s.display) /\ BaseFor(base, PatchFormOfPath(s.file))
                   /\ \A r : Readers(s) = {r} => base = kinds[r].base
<1>1. PICK parts : parts = s.display.parts
  OBVIOUS
<1>2. PatchFormOfPath(parts) = PatchFormOfPath(s.file)
  <2>1. BaseFor(NoBase, PatchFormOfPath(s.file))
    BY DEF BaseFor
  <2> QED BY <1>1, <2>1, ResolvedForm
<1>3. KindsFor(parts) = Readers(s)
  BY <1>2, ReadersAre
<1>4. PICK based : based = {i \in Readers(s) : kinds[i].base # NoBase}
  OBVIOUS
<1>5. LivePath(s.display) = Resolve(IF based = {} THEN NoBase ELSE kinds[CHOOSE i \in based : \A k \in based : i <= k].base, s.display)
  BY <1>1, <1>3, <1>4 DEF LivePath
<1>6. CASE based = {}
  <2>1. LivePath(s.display) = Resolve(NoBase, s.display)
    BY <1>5, <1>6
  <2>2. BaseFor(NoBase, PatchFormOfPath(s.file))
    BY DEF BaseFor
  <2>3. ASSUME NEW r, Readers(s) = {r} PROVE NoBase = kinds[r].base
    BY <1>4, <1>6, <2>3
  <2> QED BY <2>1, <2>2, <2>3
<1>7. CASE based # {}
  <2>1. based \in SUBSET Nat
    BY <1>4, ReadersAre
  <2>2. \E i \in based : \A k \in based : i <= k
    BY <1>7, <2>1, LeastNatural
  <2>3. PICK least \in based : least = CHOOSE i \in based : \A k \in based : i <= k
    BY <2>2
  <2>4. LivePath(s.display) = Resolve(kinds[least].base, s.display)
    BY <1>5, <1>7, <2>3
  <2>5. BaseFor(kinds[least].base, PatchFormOfPath(s.file))
    BY <1>4, <2>3, ReadersAre
  <2>6. ASSUME NEW r, Readers(s) = {r} PROVE kinds[least].base = kinds[r].base
    <3>1. least \in {r}
      BY <1>4, <2>3, <2>6
    <3>2. least = r
      BY <3>1
    <3> QED BY <3>2
  <2> QED BY <2>4, <2>5, <2>6
<1> QED BY <1>6, <1>7

\* Both servers open what the only reader of the form makes of it, or nothing.
LEMMA LoadsAre ==
  ASSUME ServerInv, started # None, NEW s, SavedIs(s)
  PROVE  \A got \in {PlayLoads(s.display), RenderLoads(s.display)} :
           /\ Cardinality(Readers(s)) # 1 => got = Refused
           /\ \A r : Readers(s) = {r} => got = Opens(kinds[r], Resolve(kinds[r].base, s.display))
<1>1. PICK base : /\ LivePath(s.display) = Resolve(base, s.display) /\ BaseFor(base, PatchFormOfPath(s.file))
                  /\ \A r : Readers(s) = {r} => base = kinds[r].base
  BY LivePathIs
<1>2. /\ PatchFormOfPath(s.display.parts) = PatchFormOfPath(s.file)
      /\ PatchFormOfPath(Resolve(base, s.display).parts) = PatchFormOfPath(s.file)
  BY <1>1, ResolvedForm
<1>3. KindsFor(s.display.parts) = Readers(s) /\ KindsFor(LivePath(s.display).parts) = Readers(s)
  BY <1>1, <1>2, ReadersAre
<1>4. PICK readers : readers = Readers(s)
  OBVIOUS
<1>5. /\ PlayLoads(s.display) = Opened(readers, Resolve(base, s.display))
      /\ RenderLoads(s.display) = Opened(readers, Resolve(kinds[CHOOSE i \in readers : TRUE].base, s.display))
  BY <1>1, <1>3, <1>4 DEF PlayLoads, RenderLoads
<1>6. ASSUME Cardinality(readers) # 1 PROVE PlayLoads(s.display) = Refused /\ RenderLoads(s.display) = Refused
  BY <1>5, <1>6 DEF Opened
<1>7. ASSUME NEW r, readers = {r}
      PROVE  /\ PlayLoads(s.display) = Opens(kinds[r], Resolve(kinds[r].base, s.display))
             /\ RenderLoads(s.display) = Opens(kinds[r], Resolve(kinds[r].base, s.display))
  <2>1. Cardinality(readers) = 1
    BY <1>7, FS_Singleton
  <2>2. (CHOOSE i \in readers : TRUE) = r
    BY <1>7
  <2>3. base = kinds[r].base
    BY <1>1, <1>4, <1>7
  <2>4. \A path : Opened(readers, path) = Opens(kinds[r], path)
    BY <2>1, <2>2 DEF Opened
  <2> QED BY <1>5, <2>2, <2>3, <2>4
<1> QED BY <1>4, <1>6, <1>7

\* The only reader of a file has its form.
LEMMA ReaderIs ==
  ASSUME ServerInv, started # None, NEW s, NEW r, Readers(s) = {r},
         NEW plugin, plugin = started[1].plugins[r], NEW roots, roots = started[1].registered
  PROVE  /\ kinds[r].form = PatchFormOfPath(s.file) /\ plugin.form = PatchFormOfPath(s.file)
         /\ KindIs(kinds[r], plugin, roots) /\ roots \subseteq Range(RootOrder)
<1>1. /\ DOMAIN kinds = DOMAIN started[1].plugins /\ roots \subseteq Range(RootOrder)
      /\ \A i \in DOMAIN kinds : KindIs(kinds[i], started[1].plugins[i], started[1].registered)
  BY DEF ServerInv
<1>2. r \in DOMAIN started[1].plugins /\ plugin.form = PatchFormOfPath(s.file)
  <2>1. r \in Readers(s)
    OBVIOUS
  <2> QED BY <2>1 DEF Readers
<1>3. KindIs(kinds[r], plugin, roots)
  BY <1>1, <1>2
<1> QED BY <1>1, <1>2, <1>3 DEF KindIs

\* A program whose place none of the roots has the folder name of is refused.
LEMMA GoneIsRefused ==
  ASSUME ServerInv, started # None, NEW s, SavedIs(s), NEW r, Readers(s) = {r},
         s.how = "perRoot", FolderOf(s, started[1].registered) = {}
  PROVE  Opens(kinds[r], Resolve(kinds[r].base, s.display)) = Refused
<1>1. PICK plugin : plugin = started[1].plugins[r]
  OBVIOUS
<1>2. PICK roots : roots = started[1].registered
  OBVIOUS
<1>3. PatchFormOfPath(s.file) = "sfz"
  BY DEF SavedIs, SavedPath, SavedBelow
<1>4. plugin.form = "sfz" /\ KindIs(kinds[r], plugin, roots)
  BY <1>1, <1>2, <1>3, ReaderIs
<1>5. PICK given \in SUBSET roots : kinds[r].base = PerRoot(given)
  BY <1>4 DEF KindIs
<1>6. PICK parts : parts = s.display.parts
  OBVIOUS
<1>7. s.display = [absolute |-> FALSE, parts |-> parts] /\ Head(parts) = Last(s.place)
  BY <1>3, <1>6, ProgramParts
<1>8. Resolve(kinds[r].base, s.display) = s.display
  <2>1. CASE given = {}
    <3>1. kinds[r].base.how = "none"
      BY <1>5, <2>1 DEF PerRoot, NoBase
    <3> QED BY <3>1 DEF Resolve
  <2>2. CASE given # {}
    <3>1. kinds[r].base.how = "perRoot" /\ kinds[r].base.dirs = given
      BY <1>5, <2>2 DEF PerRoot
    <3>2. {d \in given : Len(d) > 1 /\ Last(d) = Head(s.display.parts)} = {}
      BY <1>2, <1>6, <1>7 DEF FolderOf
    <3> QED BY <3>1, <3>2 DEF Resolve
  <2> QED BY <2>1, <2>2
<1>9. ~s.display.absolute
  BY <1>7
<1> QED BY <1>8, <1>9 DEF Opens

\* A program at its place is opened, or it was one of a user bank that is gone.
LEMMA ProgramIsReached ==
  ASSUME ServerInv, started # None, NEW s, SavedIs(s), NEW r, Readers(s) = {r}, PatchFormOfPath(s.file) = "sfz",
         KeepsPlace(s, started[1].plugins[r], started[1].registered),
         NEW got, got = Opens(kinds[r], Resolve(kinds[r].base, s.display))
  PROVE  got = s.file \/ (got = Refused /\ ~(s.roots \subseteq registered))
<1>1. PICK plugin : plugin = started[1].plugins[r]
  OBVIOUS
<1>2. PICK roots : roots = started[1].registered
  OBVIOUS
<1>3. /\ plugin.form = "sfz" /\ kinds[r].form = "sfz" /\ KindIs(kinds[r], plugin, roots) /\ roots \subseteq Range(RootOrder)
  BY <1>1, <1>2, ReaderIs
<1>4. s.how = "perRoot" /\ StandsFor(s) /\ s.file \in PatchFiles
  BY DEF SavedIs, SavedProgram
<1>5. plugin.there /\ FolderOf(s, roots) = {s.place}
  BY <1>1, <1>2, <1>4 DEF KeepsPlace
<1>6. PICK parts : parts = s.display.parts
  OBVIOUS
<1>7. /\ s.display = [absolute |-> FALSE, parts |-> parts] /\ Head(parts) = Last(s.place)
      /\ s.place \o Tail(parts) = s.file
  BY <1>6, ProgramParts
<1>8. s.place \in roots
  BY <1>5 DEF FolderOf
<1>9. kinds[r].base.how = "perRoot" /\ kinds[r].base.dirs = roots
  <2>1. kinds[r].base = PerRoot(roots)
    BY <1>3, <1>5 DEF KindIs
  <2> QED BY <1>8, <2>1 DEF PerRoot
<1>10. {d \in roots : Len(d) > 1 /\ Last(d) = Head(parts)} = {s.place}
  <2>1. \A d \in roots : Len(d) > 1
    BY <1>3, CatalogAssumption DEF Range
  <2> QED BY <1>5, <1>7, <2>1 DEF FolderOf
<1>11. First({s.place}) = s.place
  BY FirstIs
<1>12. PICK path : path = [absolute |-> TRUE, parts |-> s.file]
  OBVIOUS
<1>13. Resolve(kinds[r].base, s.display) = path
  <2>1. ~s.display.absolute /\ s.display.parts = parts
    BY <1>7
  <2>2. Resolve(kinds[r].base, s.display) = [absolute |-> TRUE, parts |-> First({s.place}) \o Tail(parts)]
    BY <1>9, <1>10, <2>1 DEF Resolve
  <2> QED BY <1>7, <1>11, <1>12, <2>2
<1>14. got = IF IsProgram(s.file) THEN s.file ELSE Refused
  <2>1. path.absolute /\ path.parts = s.file
    BY <1>12
  <2> QED BY <1>3, <1>4, <1>13, <2>1 DEF Opens
<1>15. ASSUME ~IsProgram(s.file) PROVE ~(s.roots \subseteq registered)
  <2>1. ~IsUserProgram(s.file)
    BY <1>15 DEF IsProgram, ProgramsNear
  <2>2. \A m \in Manifests : ~(IsPrefix(m.dir, Front(s.file)) /\ s.file \in ReadManifest(m))
    <3>1. ASSUME NEW m \in Manifests, IsPrefix(m.dir, Front(s.file)) /\ s.file \in ReadManifest(m) PROVE FALSE
      <4>1. m.bank \in ProgramsNear(s.file)
        BY <3>1 DEF ProgramsNear
      <4> QED BY <1>15, <4>1 DEF IsProgram
    <3> QED BY <3>1
  <2>3. UserRoot \in s.roots /\ IsPrefix(UserRoot, s.file) /\ IsSfz(s.file)
    BY <1>4, <2>2 DEF StandsFor
  <2>4. UserRoot \notin registered
    BY <2>1, <2>3 DEF IsUserProgram
  <2> QED BY <2>3, <2>4
<1> QED BY <1>14, <1>15

\* A file of another form is opened.
LEMMA PathIsReached ==
  ASSUME ServerInv, started # None, NEW s, SavedIs(s), NEW r, Readers(s) = {r}, PatchFormOfPath(s.file) # "sfz",
         KeepsPlace(s, started[1].plugins[r], started[1].registered)
  PROVE  Opens(kinds[r], Resolve(kinds[r].base, s.display)) = s.file
<1>1. PICK plugin : plugin = started[1].plugins[r]
  OBVIOUS
<1>2. PICK roots : roots = started[1].registered
  OBVIOUS
<1>3. plugin.form # "sfz" /\ kinds[r].form # "sfz" /\ KindIs(kinds[r], plugin, roots)
  BY <1>1, <1>2, ReaderIs
<1>4. s.file \in PatchFiles /\ (SavedPath(s) \/ SavedBelow(s))
  BY DEF SavedIs
<1>5. PICK path : path = [absolute |-> TRUE, parts |-> s.file]
  OBVIOUS
<1>6. CASE SavedPath(s)
  <2>1. s.display = path
    BY <1>5, <1>6 DEF SavedPath
  <2>2. path.absolute /\ path.parts = s.file
    BY <1>5
  <2>3. Resolve(kinds[r].base, s.display) = path
    BY <2>1, <2>2 DEF Resolve
  <2> QED BY <1>3, <1>4, <2>2, <2>3 DEF Opens
<1>7. CASE SavedBelow(s)
  <2>1. PICK q \in Folder : /\ Shared(s.dirs \cap Directories) = [how |-> "shared", dirs |-> {q}]
                            /\ IsPrefix(q, s.file) /\ Len(q) < Len(s.file)
                            /\ s.display = [absolute |-> FALSE, parts |-> SubSeq(s.file, Len(q) + 1, Len(s.file))]
    BY <1>7 DEF SavedBelow
  <2>2. plugin.dirs = s.dirs /\ s.dirs \subseteq Directories
    BY <1>1, <1>7 DEF SavedBelow, KeepsPlace
  <2>3. s.dirs \cap Directories = s.dirs
    BY <2>2
  <2>4. kinds[r].base = [how |-> "shared", dirs |-> {q}]
    BY <1>3, <2>1, <2>2, <2>3 DEF KindIs
  <2>5. kinds[r].base.how = "shared" /\ kinds[r].base.dirs = {q}
    BY <2>4
  <2>6. PICK parts : parts = SubSeq(s.file, Len(q) + 1, Len(s.file))
    OBVIOUS
  <2>7. s.display = [absolute |-> FALSE, parts |-> parts]
    BY <2>1, <2>6
  <2>8. q \o parts = s.file
    <3>1. q \in Path /\ s.file \in Path
      BY <1>4, FolderIs, OneForm
    <3> QED BY <2>1, <2>6, <3>1, PrefixIs
  <2>9. First({q}) = q
    BY FirstIs
  <2>10. Resolve(kinds[r].base, s.display) = path
    <3>1. ~s.display.absolute /\ s.display.parts = parts
      BY <2>7
    <3>2. Resolve(kinds[r].base, s.display) = [absolute |-> TRUE, parts |-> First({q}) \o parts]
      BY <2>5, <3>1 DEF Resolve
    <3> QED BY <1>5, <2>8, <2>9, <3>2
  <2>11. path.absolute /\ path.parts = s.file
    BY <1>5
  <2> QED BY <1>3, <1>4, <2>10, <2>11 DEF Opens
<1> QED BY <1>4, <1>6, <1>7

LEMMA SavedIsReached == CatalogInv => SavedPatchReachesItsFile
<1> SUFFICES ASSUME CatalogInv, NEW i \in DOMAIN bookmark \cap DOMAIN started,
                    NEW got \in {PlayLoads(bookmark[i].display), RenderLoads(bookmark[i].display)}
             PROVE  /\ Cardinality(Readers(bookmark[i])) # 1 => got = Refused
                    /\ (bookmark[i].how = "perRoot" /\ FolderOf(bookmark[i], started[i].registered) = {}) => got = Refused
                    /\ (Cardinality(Readers(bookmark[i])) = 1
                         /\ \A k \in Readers(bookmark[i]) : KeepsPlace(bookmark[i], started[i].plugins[k], started[i].registered)) =>
                         got = bookmark[i].file \/ (got = Refused /\ ~(bookmark[i].roots \subseteq registered))
  BY DEF SavedPatchReachesItsFile
<1>1. ServerInv /\ SavedInv
  BY DEF CatalogInv
<1>2. bookmark # None /\ started # None
  BY DEF None
<1>3. bookmark = Some(bookmark[1])
  BY <1>1, <1>2 DEF SavedInv
<1>4. i = 1
  BY <1>3 DEF Some
<1>5. PICK s : s = bookmark[1]
  OBVIOUS
<1>6. SavedIs(s)
  BY <1>1, <1>2, <1>5 DEF SavedInv, SavedIs
<1>7. /\ Cardinality(Readers(s)) # 1 => got = Refused
      /\ \A r : Readers(s) = {r} => got = Opens(kinds[r], Resolve(kinds[r].base, s.display))
  <2>1. got \in {PlayLoads(s.display), RenderLoads(s.display)}
    BY <1>4, <1>5
  <2> QED BY <1>1, <1>2, <1>6, <2>1, LoadsAre
<1>8. IsFiniteSet(Readers(s))
  BY <1>1, <1>2, ReadersAre
<1>9. ASSUME s.how = "perRoot", FolderOf(s, started[1].registered) = {} PROVE got = Refused
  <2>1. SUFFICES ASSUME Cardinality(Readers(s)) = 1 PROVE got = Refused
    BY <1>7
  <2>2. PICK r : Readers(s) = {r}
    BY <1>8, <2>1, FS_Singleton
  <2> QED BY <1>1, <1>2, <1>6, <1>7, <1>9, <2>2, GoneIsRefused
<1>10. ASSUME Cardinality(Readers(s)) = 1,
              \A k \in Readers(s) : KeepsPlace(s, started[1].plugins[k], started[1].registered)
       PROVE  got = s.file \/ (got = Refused /\ ~(s.roots \subseteq registered))
  <2>1. PICK r : Readers(s) = {r}
    BY <1>8, <1>10, FS_Singleton
  <2>2. KeepsPlace(s, started[1].plugins[r], started[1].registered)
    BY <1>10, <2>1
  <2>3. got = Opens(kinds[r], Resolve(kinds[r].base, s.display))
    BY <1>7, <2>1
  <2>4. CASE PatchFormOfPath(s.file) = "sfz"
    BY <1>1, <1>2, <1>6, <2>1, <2>2, <2>3, <2>4, ProgramIsReached
  <2>5. CASE PatchFormOfPath(s.file) # "sfz"
    BY <1>1, <1>2, <1>6, <2>1, <2>2, <2>3, <2>5, PathIsReached
  <2> QED BY <2>4, <2>5
<1> QED BY <1>4, <1>5, <1>7, <1>9, <1>10

(***************************************************************************)
(* The theorems                                                            *)
(***************************************************************************)
\* What a server knows is what there was at its start, and what is saved spells its
\* file, whatever the clients, the user and the servers do.
THEOREM CatalogInvCorrect == CatalogSpec => []CatalogInv
<1>1. CatalogInit => CatalogInv
  BY CatalogInitially
<1>2. CatalogInv /\ [CatalogNext]_catalogVars => CatalogInv'
  BY CatalogStep
<1> QED BY <1>1, <1>2, PTL DEF CatalogSpec

\* A saved patch string reaches, in both servers, the file it was saved for as long as
\* the directory it was listed in is one of the server's, and is refused when nobody or
\* more than one plugin reads its form or its root is gone.
THEOREM SavedPatchReachesItsFileCorrect == CatalogSpec => []SavedPatchReachesItsFile
<1>1. CatalogInv => SavedPatchReachesItsFile
  BY SavedIsReached
<1> QED BY <1>1, CatalogInvCorrect, PTL

===============================================================================
