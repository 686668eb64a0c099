----------------------------- MODULE ServersProofs -----------------------------
(***************************************************************************)
(* What stands around the player and its tools: the data directory that    *)
(* several processes build at the same time, and the servers that answer   *)
(* connections until they are told to end.                                 *)
(***************************************************************************)
EXTENDS PlayServer, DataHome, TLAPS, FiniteSetTheorems

(***************************************************************************)
(* The data directory                                                      *)
(***************************************************************************)
Kinds == {"none", "dir", "link", "file", "filled"}
Stations == AtWork \union {"new", "looking", "applied", "default"}
Work == [clear : SUBSET Places, seen : [place : Places, as : {"link", "file", "dir"}] \union {Nowhere}, create : SUBSET Places]

\* What the program makes of a place, whichever tree it builds.
Made(place) == Built({place} \cap Names)[place]

HomeTypeOK ==
  /\ source \in SUBSET Names
  /\ tree \in [Places -> Kinds]
  /\ at \in [Processes -> Stations]
  /\ from \in [Processes -> {"minimal", "original"}]
  /\ todo \in [Processes -> Work]
  /\ disturbed \in [Processes -> BOOLEAN]

\* What stands at a place is what the program makes of it, but for the wavetables of an
\* older version or with a file in them.
MadeHere == \A q \in Places : tree[q] \in {"none", Made(q)} \/ (q = Wavetables /\ tree[q] \in {"link", "filled"})

\* What a process has taken for a directory is not replaced by a link.
StaysDirectory(p) ==
  LET seen == todo[p].seen
  IN seen.as = "dir" => seen.place \in Places /\ tree[seen.place] # "link" /\ Made(seen.place) # "link"

\* How far an undisturbed process has come.
Progress(p) ==
  /\ at[p] = "clearing" => /\ \A q \in Places : tree[q] # "none" => q \in todo[p].clear
                           /\ from[p] = "original" => todo[p].create = source \union Fixed
  /\ at[p] = "creating" /\ from[p] = "original" =>
       \A q \in Places : tree[q] = IF q \in todo[p].create THEN "none" ELSE Built(source)[q]
  /\ at[p] = "checking" => tree = Built(source)

\* Whoever takes the minimal directory for the source has removed what it wants to link.
HasNothingToLink(p) == at[p] \in {"clearing", "creating"} /\ from[p] = "minimal" => todo[p].create \cap Names # {}

HomeInv ==
  /\ HomeTypeOK /\ MadeHere /\ vanished = {}
  /\ \A p \in Processes : StaysDirectory(p) /\ HasNothingToLink(p) /\ (~disturbed[p] => Progress(p))

LEMMA PlacesAre ==
  /\ Names \subseteq Places /\ Fixed \subseteq Places /\ Wavetables \in EmptyDirs /\ EmptyDirs \subseteq Names
  /\ {"factory", "Templates", "3rdparty", "marker"} = Fixed
BY DEF Places, Fixed, Names, EmptyDirs

LEMMA BuiltIs ==
  ASSUME NEW entries, entries \subseteq Names
  PROVE  /\ Built(entries) = [q \in Places |-> Built(entries)[q]]
         /\ \A q \in Places :
              /\ q \in entries => Built(entries)[q] = KindOf(q)
              /\ q \notin entries =>
                   /\ q = "factory" => Built(entries)[q] = "dir"
                   /\ q = "3rdparty" => Built(entries)[q] = "dir"
                   /\ q = "Templates" => Built(entries)[q] = "link"
                   /\ q = "marker" => Built(entries)[q] = "file"
                   /\ q \notin Fixed => Built(entries)[q] = "none"
<1>1. Built(entries) = [q \in Places |-> Built(entries)[q]]
  BY DEF Built
<1>2. ASSUME NEW q \in Places, q \in entries PROVE Built(entries)[q] = KindOf(q)
  <2>1. ~(q \in {"factory", "3rdparty"}) /\ ~(q = "Templates") /\ ~(q = "marker")
    BY <1>2, DataHomeAssumption DEF Fixed
  <2> QED BY Zenon, <1>2, <2>1 DEF Built
<1>3. ASSUME NEW q \in Places, q \notin entries
      PROVE  /\ q = "factory" => Built(entries)[q] = "dir"
             /\ q = "3rdparty" => Built(entries)[q] = "dir"
             /\ q = "Templates" => Built(entries)[q] = "link"
             /\ q = "marker" => Built(entries)[q] = "file"
             /\ q \notin Fixed => Built(entries)[q] = "none"
  <2>1. Built(entries)[q] =
          CASE q \in entries -> KindOf(q)
            [] q \in {"factory", "3rdparty"} -> "dir"
            [] q = "Templates" -> "link"
            [] q = "marker" -> "file"
            [] OTHER -> "none"
    BY Zenon DEF Built
  <2>2. /\ q = "factory" => ~(q = "Templates") /\ ~(q = "marker")
        /\ q = "3rdparty" => ~(q = "Templates") /\ ~(q = "marker")
        /\ q = "Templates" => ~(q \in {"factory", "3rdparty"}) /\ ~(q = "marker")
        /\ q = "marker" => ~(q \in {"factory", "3rdparty"}) /\ ~(q = "Templates")
        /\ q \notin Fixed => ~(q \in {"factory", "3rdparty"}) /\ ~(q = "Templates") /\ ~(q = "marker")
    BY DEF Fixed
  <2> QED BY Zenon, <1>3, <2>1, <2>2
<1> QED BY Zenon, <1>1, <1>2, <1>3

LEMMA KindIs ==
  ASSUME NEW q
  PROVE  KindOf(q) \in {"dir", "link", "file"} /\ (q \in EmptyDirs => KindOf(q) = "dir")
<1>1. ~(q \in EmptyDirs /\ q \in Linked)
  BY DataHomeAssumption
<1> QED BY Zenon, <1>1 DEF KindOf

LEMMA MadeIs ==
  ASSUME NEW q \in Places
  PROVE  /\ Made(q) \in {"dir", "link", "file"}
         /\ q = Wavetables => Made(q) = "dir"
         /\ \A entries : entries \subseteq Names /\ (q \in entries \/ q \notin Names) => Built(entries)[q] = Made(q)
<1>1. CASE q \in Names
  <2>1. Made(q) = KindOf(q)
    <3>1. {q} \cap Names \subseteq Names /\ q \in {q} \cap Names
      BY <1>1
    <3> QED BY Zenon, <3>1, BuiltIs DEF Made
  <2> QED BY Zenon, <1>1, <2>1, KindIs, BuiltIs, PlacesAre
<1>2. CASE q \notin Names
  <2>1. {q} \cap Names \subseteq Names /\ q \notin {q} \cap Names /\ q \in Fixed /\ q # Wavetables
    BY <1>2, PlacesAre DEF Places
  <2>2. Made(q) \in {"dir", "link", "file"}
    BY <2>1, BuiltIs, PlacesAre DEF Made
  <2>3. ASSUME NEW entries, entries \subseteq Names, q \in entries \/ q \notin Names
        PROVE  Built(entries)[q] = Made(q)
    <3>1. q \notin entries
      BY <1>2, <2>3
    <3> QED BY <2>1, <2>3, <3>1, BuiltIs, PlacesAre DEF Made
  <2> QED BY <2>1, <2>2, <2>3
<1> QED BY <1>1, <1>2

\* The comparison tells a whole tree.
LEMMA CurrentTreeIsWhole ==
  ASSUME HomeTypeOK, MadeHere, TreeIsCurrent(source)
  PROVE  tree = Built(source)
<1>0. source \subseteq Names
  BY DEF HomeTypeOK
<1>1. ASSUME NEW q \in Places PROVE tree[q] = Built(source)[q]
  <2>1. CASE q \in source
    <3>1. Made(q) = Built(source)[q]
      BY <1>0, <2>1, MadeIs
    <3>2. tree[q] # "none" /\ (q \in EmptyDirs => tree[q] = "dir")
      BY <2>1 DEF TreeIsCurrent, Exists, StillEmpty
    <3>3. q = Wavetables => tree[q] = Made(q)
      BY <3>2, MadeIs, PlacesAre
    <3> QED BY <3>1, <3>2, <3>3 DEF MadeHere
  <2>2. CASE q \notin source
    <3>1. CASE q \in Fixed
      BY <1>0, <2>2, <3>1, BuiltIs DEF TreeIsCurrent, Fixed
    <3>2. CASE q \notin Fixed
      <4>1. Built(source)[q] = "none"
        BY <1>0, <2>2, <3>2, BuiltIs
      <4>2. q \in TopLevel /\ q \notin Expected(source)
        BY <2>2, <3>2 DEF TopLevel, Expected, Fixed
      <4>3. tree[q] = "none"
        BY <4>2 DEF TreeIsCurrent
      <4> QED BY <4>1, <4>3
    <3> QED BY <3>1, <3>2
  <2> QED BY <2>1, <2>2
<1>2. tree = [q \in Places |-> tree[q]] /\ Built(source) = [q \in Places |-> Built(source)[q]]
  BY <1>0, BuiltIs DEF HomeTypeOK
<1> QED BY <1>1, <1>2

LEMMA NothingToDoIs == NothingToDo \in Work /\ NothingToDo.seen = Nowhere /\ Nowhere.as # "dir"
BY DEF NothingToDo, Nowhere, Work

LEMMA HomeInitially == HomeInit => HomeInv
<1> SUFFICES ASSUME HomeInit PROVE HomeInv
  OBVIOUS
<1>1. Names \subseteq Names /\ Built(Names) = [q \in Places |-> Built(Names)[q]]
  BY BuiltIs
<1>2. ASSUME NEW q \in Places PROVE Built(Names)[q] = Made(q) /\ Made(q) \in Kinds
  <2>1. Built(Names)[q] = Made(q)
    BY Zenon, <1>1, MadeIs
  <2> QED BY <2>1, MadeIs DEF Kinds
<1>3. tree \in [Places -> Kinds] /\ MadeHere
  <2>1. CASE tree = [q \in Places |-> "none"]
    BY <2>1 DEF Kinds, MadeHere
  <2>2. CASE tree = Built(Names)
    BY <1>1, <1>2, <2>2 DEF Kinds, MadeHere
  <2>3. CASE tree \in {Linking, Filled}
    <3>1. PICK kind \in {"link", "filled"} : tree = [Built(Names) EXCEPT ![Wavetables] = kind]
      BY <2>3 DEF Linking, Filled
    <3>2. ASSUME NEW q \in Places PROVE tree[q] = IF q = Wavetables THEN kind ELSE Made(q)
      BY <1>1, <1>2, <3>1
    <3>3. tree = [q \in Places |-> tree[q]]
      BY <1>1, <3>1
    <3> QED BY <1>2, <3>2, <3>3 DEF Kinds, MadeHere
  <2> QED BY <2>1, <2>2, <2>3 DEF HomeInit
<1>4. HomeTypeOK
  BY <1>3, NothingToDoIs DEF HomeInit, HomeTypeOK, Stations
<1>5. ASSUME NEW p \in Processes PROVE StaysDirectory(p) /\ HasNothingToLink(p) /\ Progress(p)
  <2>1. todo[p].seen = Nowhere /\ at[p] = "new"
    BY NothingToDoIs DEF HomeInit
  <2> QED BY <2>1, NothingToDoIs DEF StaysDirectory, HasNothingToLink, Progress
<1> QED BY <1>3, <1>4, <1>5 DEF HomeInv, HomeInit

LEMMA HomeFieldsAre ==
  ASSUME HomeTypeOK, NEW p \in Processes
  PROVE  /\ at[p] \in Stations /\ from[p] \in {"minimal", "original"} /\ disturbed[p] \in BOOLEAN
         /\ todo[p].clear \subseteq Places /\ todo[p].create \subseteq Places
         /\ todo[p].seen \in [place : Places, as : {"link", "file", "dir"}] \union {Nowhere}
         /\ todo[p] = [clear |-> todo[p].clear, seen |-> todo[p].seen, create |-> todo[p].create]
<1>1. todo[p] \in Work
  BY DEF HomeTypeOK
<1>2. at[p] \in Stations /\ from[p] \in {"minimal", "original"}
  BY DEF HomeTypeOK
<1>3. disturbed[p] \in BOOLEAN
  BY DEF HomeTypeOK
<1> QED BY <1>1, <1>2, <1>3 DEF Work

LEMMA OthersStay ==
  ASSUME HomeInv, NEW q \in Processes, UNCHANGED <<tree, source>>,
         todo'[q] = todo[q], at'[q] = at[q], from'[q] = from[q], disturbed'[q] = disturbed[q]
  PROVE  StaysDirectory(q)' /\ HasNothingToLink(q)' /\ (~disturbed'[q] => Progress(q)')
<1>1. StaysDirectory(q) /\ HasNothingToLink(q) /\ (~disturbed[q] => Progress(q))
  BY DEF HomeInv
<1>2. tree' = tree /\ source' = source
  OBVIOUS
<1>3. StaysDirectory(q)'
  BY Zenon, <1>1, <1>2 DEF StaysDirectory
<1>4. HasNothingToLink(q)'
  BY Zenon, <1>1 DEF HasNothingToLink
<1>5. Progress(q) => Progress(q)'
  BY Zenon, <1>2 DEF Progress
<1> QED BY Zenon, <1>1, <1>3, <1>4, <1>5

\* A process that gets out, whatever it was at.
LEMMA GettingOut ==
  ASSUME HomeInv, NEW p \in Processes, NEW result \in {"applied", "default"}, GetsOut(p, result),
         UNCHANGED <<treeVars, source>>
  PROVE  HomeInv'
<1>1. HomeTypeOK /\ MadeHere /\ vanished = {}
  BY DEF HomeInv
<1>2. HomeTypeOK'
  <2>1. at' \in [Processes -> Stations] /\ from' \in [Processes -> {"minimal", "original"}]
    BY <1>1 DEF HomeTypeOK, GetsOut, Stations
  <2>2. todo' \in [Processes -> Work]
    BY <1>1, NothingToDoIs DEF HomeTypeOK, GetsOut
  <2>3. disturbed' \in [Processes -> BOOLEAN]
    BY <1>1 DEF HomeTypeOK, GetsOut
  <2> QED BY <1>1, <2>1, <2>2, <2>3 DEF HomeTypeOK, treeVars
<1>3. MadeHere' /\ vanished' = {}
  BY <1>1 DEF MadeHere, treeVars
<1>4. ASSUME NEW q \in Processes
      PROVE  StaysDirectory(q)' /\ HasNothingToLink(q)' /\ (~disturbed'[q] => Progress(q)')
  <2>1. CASE q = p
    <3>1. todo'[q].seen = Nowhere /\ at'[q] \in {"applied", "default"}
      BY <1>1, <2>1, NothingToDoIs DEF GetsOut, HomeTypeOK
    <3> QED BY <3>1, NothingToDoIs DEF StaysDirectory, HasNothingToLink, Progress
  <2>2. CASE q # p
    <3>1. todo'[q] = todo[q] /\ at'[q] = at[q] /\ from'[q] = from[q] /\ disturbed'[q] = disturbed[q]
      BY <1>1, <2>2 DEF GetsOut, HomeTypeOK
    <3>2. UNCHANGED <<tree, source>>
      BY DEF treeVars
    <3> QED BY Zenon, <3>1, <3>2, OthersStay
  <2> QED BY <2>1, <2>2
<1> QED BY Zenon, <1>2, <1>3, <1>4 DEF HomeInv

\* A process that goes on, the tree as it was.
LEMMA GoingOn ==
  ASSUME HomeInv, NEW p \in Processes, UNCHANGED <<treeVars, source>>, HomeTypeOK',
         \A q \in Processes \ {p} :
           todo'[q] = todo[q] /\ at'[q] = at[q] /\ from'[q] = from[q] /\ disturbed'[q] = disturbed[q],
         StaysDirectory(p)', HasNothingToLink(p)', ~disturbed'[p] => Progress(p)'
  PROVE  HomeInv'
<1>1. MadeHere' /\ vanished' = {}
  BY DEF HomeInv, MadeHere, treeVars
<1>2. ASSUME NEW q \in Processes
      PROVE  StaysDirectory(q)' /\ HasNothingToLink(q)' /\ (~disturbed'[q] => Progress(q)')
  <2>1. CASE q # p
    <3>1. todo'[q] = todo[q] /\ at'[q] = at[q] /\ from'[q] = from[q] /\ disturbed'[q] = disturbed[q]
      BY <2>1
    <3>2. UNCHANGED <<tree, source>>
      BY DEF treeVars
    <3> QED BY Zenon, <3>1, <3>2, OthersStay
  <2> QED BY Zenon, <2>1
<1> QED BY Zenon, <1>1, <1>2 DEF HomeInv

LEMMA OnlyTheStation ==
  ASSUME HomeInv, NEW p \in Processes, NEW station \in Stations, at' = [at EXCEPT ![p] = station],
         UNCHANGED <<treeVars, source, from, todo, disturbed>>, HasNothingToLink(p)', ~disturbed[p] => Progress(p)'
  PROVE  HomeInv'
<1>1. HomeTypeOK'
  BY DEF HomeInv, HomeTypeOK, treeVars
<1>2. \A q \in Processes \ {p} : todo'[q] = todo[q] /\ at'[q] = at[q] /\ from'[q] = from[q] /\ disturbed'[q] = disturbed[q]
  BY DEF HomeInv, HomeTypeOK
<1>3. StaysDirectory(p)'
  BY Zenon DEF HomeInv, StaysDirectory, treeVars
<1>4. UNCHANGED <<treeVars, source>> /\ disturbed' = disturbed
  OBVIOUS
<1> QED BY Zenon, <1>1, <1>2, <1>3, <1>4, GoingOn

LEMMA StationSteps ==
  ASSUME HomeInv, NEW p \in Processes,
         Starts(p) \/ TakesTheEnvironment(p) \/ StartsToCreate(p) \/ HasCreated(p)
  PROVE  HomeInv'
<1>0. HomeTypeOK /\ (~disturbed[p] => Progress(p)) /\ HasNothingToLink(p)
  BY DEF HomeInv
<1>1. CASE Starts(p) \/ TakesTheEnvironment(p)
  <2>1. PICK station \in {"looking", "applied"} : at' = [at EXCEPT ![p] = station]
    BY <1>1 DEF Starts, TakesTheEnvironment
  <2>2. at'[p] \in {"looking", "applied"} /\ station \in Stations
    BY <1>0, <2>1 DEF HomeTypeOK, Stations
  <2>3. HasNothingToLink(p)' /\ Progress(p)'
    BY <2>2 DEF HasNothingToLink, Progress
  <2>4. UNCHANGED <<treeVars, source, from, todo, disturbed>>
    BY <1>1 DEF Starts, TakesTheEnvironment, sourceVars
  <2> QED BY Zenon, <2>1, <2>2, <2>3, <2>4, OnlyTheStation
<1>2. CASE StartsToCreate(p)
  <2>1. at' = [at EXCEPT ![p] = "creating"] /\ "creating" \in Stations /\ at'[p] = "creating" /\ at[p] = "clearing"
    BY <1>0, <1>2 DEF StartsToCreate, HomeTypeOK, Stations, AtWork
  <2>2. UNCHANGED <<treeVars, source, from, todo, disturbed>>
    BY <1>2 DEF StartsToCreate, sourceVars
  <2>3. HasNothingToLink(p)'
    BY Zenon, <1>0, <2>1, <2>2 DEF HasNothingToLink
  <2>4. ASSUME ~disturbed[p] PROVE Progress(p)'
    <3>1. ASSUME from[p] = "original", NEW q \in Places
          PROVE  tree[q] = IF q \in todo[p].create THEN "none" ELSE Built(source)[q]
      <4>1. tree[q] = "none" /\ todo[p].create = source \union Fixed
        BY <1>0, <1>2, <2>1, <2>4, <3>1 DEF Progress, StartsToCreate
      <4>2. source \subseteq Names
        BY <1>0 DEF HomeTypeOK
      <4> QED BY <4>1, <4>2, BuiltIs
    <3> QED BY <2>1, <2>2, <3>1 DEF Progress, treeVars
  <2> QED BY Zenon, <2>1, <2>2, <2>3, <2>4, OnlyTheStation
<1>3. CASE HasCreated(p)
  <2>1. at' = [at EXCEPT ![p] = "checking"] /\ "checking" \in Stations /\ at'[p] = "checking" /\ at[p] = "creating"
    BY <1>0, <1>3 DEF HasCreated, HomeTypeOK, Stations, AtWork
  <2>2. UNCHANGED <<treeVars, source, from, todo, disturbed>> /\ todo[p].create = {}
    BY <1>3 DEF HasCreated, sourceVars
  <2>3. HasNothingToLink(p)'
    BY <2>1 DEF HasNothingToLink
  <2>4. ASSUME ~disturbed[p] PROVE Progress(p)'
    <3>1. from[p] = "original"
      <4>1. from[p] # "minimal"
        BY <1>0, <2>1, <2>2 DEF HasNothingToLink
      <4> QED BY <1>0, <4>1, HomeFieldsAre
    <3>2. \A q \in Places : tree[q] = Built(source)[q]
      BY <1>0, <2>1, <2>2, <2>4, <3>1 DEF Progress
    <3>3. tree = [q \in Places |-> tree[q]] /\ Built(source) = [q \in Places |-> Built(source)[q]]
      BY <1>0, BuiltIs DEF HomeTypeOK
    <3>4. tree = Built(source)
      BY <3>2, <3>3
    <3> QED BY Zenon, <2>1, <2>2, <3>4 DEF Progress, treeVars
  <2> QED BY Zenon, <2>1, <2>2, <2>3, <2>4, OnlyTheStation
<1> QED BY <1>1, <1>2, <1>3

\* A process begins its work undisturbed.
LEMMA ComparesIsGood ==
  ASSUME HomeInv, NEW p \in Processes, Compares(p)
  PROVE  HomeInv'
<1>0. HomeTypeOK /\ MadeHere /\ UNCHANGED <<treeVars, source>> /\ at[p] = "looking"
  BY DEF HomeInv, Compares, sourceVars
<1>1. PICK home \in {"minimal", "original"} : home = Candidate(p)
  BY Zenon DEF Candidate
<1>2. CASE ~LooksLikeDataHome(home)
  <2>1. GetsOut(p, "default")
    BY Zenon, <1>1, <1>2 DEF Compares
  <2> QED BY <1>0, <2>1, GettingOut
<1>3. CASE LooksLikeDataHome(home)
  <2>0. /\ from' = [from EXCEPT ![p] = home]
        /\ disturbed' = [disturbed EXCEPT ![p] = FALSE]
        /\ IF TreeIsCurrent(EntriesOf(home)) /\ home = "original"
           THEN at' = [at EXCEPT ![p] = "checking"] /\ UNCHANGED todo
           ELSE /\ at' = [at EXCEPT ![p] = "clearing"]
                /\ todo' = [todo EXCEPT ![p] =
                     [clear |-> {q \in Places : tree[q] # "none"}, seen |-> Nowhere,
                      create |-> EntriesOf(home) \cup Fixed]]
    BY Zenon, <1>1, <1>3 DEF Compares
  <2>1. from' \in [Processes -> {"minimal", "original"}] /\ from'[p] = home
    BY <1>0, <2>0 DEF HomeTypeOK
  <2>2. disturbed' \in [Processes -> BOOLEAN]
    BY <1>0, <2>0 DEF HomeTypeOK
  <2>3. CASE TreeIsCurrent(EntriesOf(home)) /\ home = "original"
    <3>1. at' = [at EXCEPT ![p] = "checking"] /\ todo' = todo
      BY Zenon, <2>0, <2>3
    <3>2. HomeTypeOK'
      <4>1. at' \in [Processes -> Stations] /\ todo' \in [Processes -> Work]
        BY <1>0, <3>1 DEF HomeTypeOK, Stations, AtWork
      <4> QED BY <1>0, <2>1, <2>2, <4>1 DEF HomeTypeOK, treeVars
    <3>3. at'[p] = "checking"
      BY <1>0, <3>1 DEF HomeTypeOK
    <3>4. tree = Built(source)
      BY Zenon, <1>0, <2>3, CurrentTreeIsWhole DEF EntriesOf
    <3>5. Progress(p)'
      BY <1>0, <3>3, <3>4 DEF Progress, treeVars
    <3>6. HasNothingToLink(p)'
      BY <3>3 DEF HasNothingToLink
    <3>7. StaysDirectory(p)'
      BY Zenon, <1>0, <3>1 DEF HomeInv, StaysDirectory, treeVars
    <3>8. \A q \in Processes \ {p} :
             todo'[q] = todo[q] /\ at'[q] = at[q] /\ from'[q] = from[q] /\ disturbed'[q] = disturbed[q]
      BY <1>0, <2>0, <3>1 DEF HomeTypeOK
    <3> QED BY Zenon, <1>0, <3>2, <3>5, <3>6, <3>7, <3>8, GoingOn
  <2>4. CASE ~(TreeIsCurrent(EntriesOf(home)) /\ home = "original")
    <3>0. PICK work : work = [clear |-> {q \in Places : tree[q] # "none"}, seen |-> Nowhere,
                              create |-> EntriesOf(home) \cup Fixed]
      OBVIOUS
    <3>1. at' = [at EXCEPT ![p] = "clearing"] /\ todo' = [todo EXCEPT ![p] = work]
      BY Zenon, <2>0, <2>4, <3>0
    <3>2. EntriesOf(home) \subseteq Names /\ (home = "original" => EntriesOf(home) = source)
      BY <1>0, <1>1 DEF EntriesOf, HomeTypeOK
    <3>3. work \in Work /\ work.seen = Nowhere
      BY <3>0, <3>2, PlacesAre DEF Work
    <3>4. HomeTypeOK'
      <4>1. at' \in [Processes -> Stations]
        BY <1>0, <3>1 DEF HomeTypeOK, Stations, AtWork
      <4>2. todo' \in [Processes -> Work]
        BY <1>0, <3>1, <3>3 DEF HomeTypeOK
      <4> QED BY <1>0, <2>1, <2>2, <4>1, <4>2 DEF HomeTypeOK, treeVars
    <3>5. at'[p] = "clearing" /\ todo'[p] = work
      BY <1>0, <3>1 DEF HomeTypeOK
    <3>6. Progress(p)'
      <4>1. \A q \in Places : tree[q] # "none" => q \in work.clear
        BY <3>0
      <4>2. home = "original" => work.create = source \union Fixed
        BY <3>0, <3>2
      <4> QED BY <1>0, <2>1, <3>5, <4>1, <4>2 DEF Progress, treeVars
    <3>7. HasNothingToLink(p)'
      <4>1. ASSUME home = "minimal" PROVE Wavetables \in work.create \cap Names
        <5>1. tree[Wavetables] # "none"
          BY <1>3, <4>1 DEF LooksLikeDataHome
        <5> QED BY <3>0, <4>1, <5>1, PlacesAre DEF EntriesOf
      <4> QED BY <2>1, <3>5, <4>1 DEF HasNothingToLink
    <3>8. StaysDirectory(p)'
      BY <3>3, <3>5, NothingToDoIs DEF StaysDirectory
    <3>9. \A q \in Processes \ {p} :
             todo'[q] = todo[q] /\ at'[q] = at[q] /\ from'[q] = from[q] /\ disturbed'[q] = disturbed[q]
      BY <1>0, <2>0, <3>1 DEF HomeTypeOK
    <3>10. UNCHANGED <<treeVars, source>>
      BY <1>0
    <3> QED BY Zenon, <3>4, <3>6, <3>7, <3>8, <3>9, <3>10, GoingOn
  <2> QED BY <2>3, <2>4
<1> QED BY <1>2, <1>3

LEMMA LooksAtIsGood ==
  ASSUME HomeInv, NEW p \in Processes, NEW place \in Places, LooksAt(p, place)
  PROVE  HomeInv'
<1>0. /\ HomeTypeOK /\ MadeHere /\ UNCHANGED <<treeVars, source>> /\ at[p] = "clearing"
      /\ UNCHANGED <<at, from, disturbed>>
  BY DEF HomeInv, LooksAt, sourceVars
<1>1. /\ HasNothingToLink(p) /\ (~disturbed[p] => Progress(p)) /\ StaysDirectory(p)
  BY DEF HomeInv
<1>2. CASE tree[place] = "none"
  <2>1. PICK work : work = [todo[p] EXCEPT !.clear = @ \ {place}]
    OBVIOUS
  <2>2. todo' = [todo EXCEPT ![p] = work]
    BY <1>2, <2>1 DEF LooksAt
  <2>3. /\ work \in Work /\ work.seen = todo[p].seen /\ work.create = todo[p].create
        /\ work.clear = todo[p].clear \ {place}
    <3>1. todo[p] \in Work
      BY <1>0 DEF HomeTypeOK
    <3> QED BY <2>1, <3>1 DEF Work
  <2>4. todo'[p] = work /\ todo' \in [Processes -> Work]
    BY <1>0, <2>2, <2>3 DEF HomeTypeOK
  <2>5. HomeTypeOK'
    BY <1>0, <2>4 DEF HomeTypeOK, treeVars
  <2>6. \A q \in Processes \ {p} :
           todo'[q] = todo[q] /\ at'[q] = at[q] /\ from'[q] = from[q] /\ disturbed'[q] = disturbed[q]
    BY <1>0, <2>2 DEF HomeTypeOK
  <2>7. StaysDirectory(p)'
    BY Zenon, <1>0, <1>1, <2>3, <2>4 DEF StaysDirectory, treeVars
  <2>8. HasNothingToLink(p)'
    BY <1>0, <1>1, <2>3, <2>4 DEF HasNothingToLink
  <2>9. ASSUME ~disturbed[p] PROVE Progress(p)'
    <3>1. /\ \A q \in Places : tree[q] # "none" => q \in work.clear
          /\ from[p] = "original" => work.create = source \union Fixed
      BY <1>0, <1>1, <1>2, <2>3, <2>9 DEF Progress
    <3> QED BY <1>0, <2>4, <3>1 DEF Progress, treeVars
  <2> QED BY Zenon, <1>0, <2>5, <2>6, <2>7, <2>8, <2>9, GoingOn
<1>3. CASE tree[place] # "none"
  <2>0. PICK kind : kind = TakenFor(tree[place])
    OBVIOUS
  <2>1. PICK work : work = [todo[p] EXCEPT !.seen = [place |-> place, as |-> kind]]
    OBVIOUS
  <2>2. todo' = [todo EXCEPT ![p] = work]
    BY <1>3, <2>0, <2>1 DEF LooksAt
  <2>3. kind \in {"link", "file", "dir"} /\ (kind = "dir" => tree[place] # "link" /\ Made(place) # "link")
    <3>1. kind \in {"link", "file", "dir"} /\ (kind = "dir" => tree[place] # "link" /\ tree[place] # "file")
      BY <2>0 DEF TakenFor, IsLink
    <3>2. kind = "dir" => Made(place) # "link"
      BY <1>0, <1>3, <3>1, MadeIs DEF MadeHere
    <3> QED BY <3>1, <3>2
  <2>4. /\ work \in Work /\ work.seen = [place |-> place, as |-> kind] /\ work.create = todo[p].create
        /\ work.clear = todo[p].clear
    <3>1. todo[p] \in Work
      BY <1>0 DEF HomeTypeOK
    <3> QED BY <2>1, <2>3, <3>1 DEF Work
  <2>5. todo'[p] = work /\ todo' \in [Processes -> Work]
    BY <1>0, <2>2, <2>4 DEF HomeTypeOK
  <2>6. HomeTypeOK'
    BY <1>0, <2>5 DEF HomeTypeOK, treeVars
  <2>7. \A q \in Processes \ {p} :
           todo'[q] = todo[q] /\ at'[q] = at[q] /\ from'[q] = from[q] /\ disturbed'[q] = disturbed[q]
    BY <1>0, <2>2 DEF HomeTypeOK
  <2>8. StaysDirectory(p)'
    BY <1>0, <2>3, <2>4, <2>5 DEF StaysDirectory, treeVars
  <2>9. HasNothingToLink(p)'
    BY <1>0, <1>1, <2>4, <2>5 DEF HasNothingToLink
  <2>10. ASSUME ~disturbed[p] PROVE Progress(p)'
    <3>1. /\ \A q \in Places : tree[q] # "none" => q \in work.clear
          /\ from[p] = "original" => work.create = source \union Fixed
      BY <1>0, <1>1, <2>4, <2>10 DEF Progress
    <3> QED BY <1>0, <2>5, <3>1 DEF Progress, treeVars
  <2> QED BY Zenon, <1>0, <2>6, <2>7, <2>8, <2>9, <2>10, GoingOn
<1> QED BY <1>2, <1>3

\* A process changes one place of the tree, and disturbs the others.
LEMMA TreeChanges ==
  ASSUME HomeInv, NEW p \in Processes, NEW place \in Places, NEW kind \in {"none", Made(place)}, NEW work \in Work,
         tree' = [tree EXCEPT ![place] = kind], todo' = [todo EXCEPT ![p] = work], Disturbs(p),
         UNCHANGED <<vanished, source, at, from>>, StaysDirectory(p)', HasNothingToLink(p)', ~disturbed[p] => Progress(p)'
  PROVE  HomeInv'
<1>0. HomeTypeOK /\ MadeHere /\ vanished = {}
  BY DEF HomeInv
<1>1. kind \in Kinds /\ (Made(place) # "link" => kind # "link")
  BY MadeIs DEF Kinds
<1>2. tree' \in [Places -> Kinds] /\ \A q \in Places : tree'[q] = IF q = place THEN kind ELSE tree[q]
  BY <1>0, <1>1 DEF HomeTypeOK
<1>3. todo' \in [Processes -> Work] /\ \A q \in Processes : todo'[q] = IF q = p THEN work ELSE todo[q]
  BY <1>0 DEF HomeTypeOK
<1>4. disturbed' \in [Processes -> BOOLEAN]
  <2>1. \A q \in Processes : (disturbed[q] \/ (q # p /\ at[q] \in AtWork)) \in BOOLEAN
    BY Zenon
  <2> QED BY Zenon, <2>1 DEF Disturbs
<1>5. \A q \in Processes : disturbed'[q] <=> (disturbed[q] \/ (q # p /\ at[q] \in AtWork))
  BY Zenon DEF Disturbs
<1>6. HomeTypeOK'
  BY <1>0, <1>2, <1>3, <1>4 DEF HomeTypeOK
<1>7. MadeHere' /\ vanished' = {}
  BY <1>0, <1>2 DEF MadeHere
<1>8. ASSUME NEW q \in Processes
      PROVE  StaysDirectory(q)' /\ HasNothingToLink(q)' /\ (~disturbed'[q] => Progress(q)')
  <2>1. CASE q = p
    <3>1. ~disturbed'[q] => ~disturbed[p]
      BY Zenon, <1>5, <2>1
    <3> QED BY Zenon, <2>1, <3>1
  <2>2. CASE q # p
    <3>1. todo'[q] = todo[q] /\ at'[q] = at[q]
      BY <1>3, <2>2
    <3>2. StaysDirectory(q) /\ HasNothingToLink(q)
      BY DEF HomeInv
    <3>3. StaysDirectory(q)'
      BY <1>1, <1>2, <3>1, <3>2 DEF StaysDirectory
    <3>4. HasNothingToLink(q)'
      BY <3>1, <3>2 DEF HasNothingToLink
    <3>5. ~disturbed'[q] => at'[q] \notin AtWork
      BY Zenon, <1>5, <2>2, <3>1
    <3>6. at'[q] \notin AtWork => Progress(q)'
      BY DEF Progress, AtWork
    <3> QED BY Zenon, <3>3, <3>4, <3>5, <3>6
  <2> QED BY <2>1, <2>2
<1> QED BY Zenon, <1>6, <1>7, <1>8 DEF HomeInv

LEMMA RemovesIsGood ==
  ASSUME HomeInv, NEW p \in Processes, Removes(p)
  PROVE  HomeInv'
<1>0. HomeTypeOK /\ StaysDirectory(p) /\ HasNothingToLink(p) /\ (~disturbed[p] => Progress(p))
  BY DEF HomeInv
<1>1. PICK seen : seen = todo[p].seen
  OBVIOUS
<1>2. seen.place \in Places /\ at[p] = "clearing" /\ UNCHANGED source
  <2>1. seen \in [place : Places, as : {"link", "file", "dir"}]
    BY <1>0, <1>1, HomeFieldsAre DEF Removes
  <2> QED BY <2>1 DEF Removes, sourceVars
<1>3. CASE CanRemove(seen)
  <2>1. /\ tree' = [tree EXCEPT ![seen.place] = "none"]
        /\ vanished' = IF seen.as = "dir" /\ tree[seen.place] = "link" THEN vanished \cup {seen.place} ELSE vanished
        /\ todo' = [todo EXCEPT ![p].clear = @ \ {seen.place}, ![p].seen = Nowhere]
        /\ Disturbs(p) /\ UNCHANGED <<at, from>>
    BY Zenon, <1>1, <1>3 DEF Removes
  <2>2. vanished' = vanished
    <3>1. ~(seen.as = "dir" /\ tree[seen.place] = "link")
      BY Zenon, <1>0, <1>1 DEF StaysDirectory
    <3> QED BY <2>1, <3>1
  <2>3. PICK work : work = [todo[p] EXCEPT !.clear = @ \ {seen.place}, !.seen = Nowhere]
    OBVIOUS
  <2>4. todo' = [todo EXCEPT ![p] = work]
    BY <1>0, <2>1, <2>3 DEF HomeTypeOK
  <2>5. /\ work \in Work /\ work.seen = Nowhere /\ work.create = todo[p].create
        /\ work.clear = todo[p].clear \ {seen.place}
    <3>1. todo[p] \in Work
      BY <1>0 DEF HomeTypeOK
    <3> QED BY <2>3, <3>1 DEF Work
  <2>6. todo'[p] = work
    BY <1>0, <2>4 DEF HomeTypeOK
  <2>7. HasNothingToLink(p)'
    BY <1>0, <2>1, <2>5, <2>6 DEF HasNothingToLink
  <2>8. ASSUME ~disturbed[p] PROVE Progress(p)'
    <3>1. ASSUME NEW q \in Places, tree'[q] # "none" PROVE q \in work.clear
      <4>1. q # seen.place /\ tree'[q] = tree[q]
        BY <1>0, <1>2, <2>1, <3>1 DEF HomeTypeOK
      <4> QED BY <1>0, <1>2, <2>5, <2>8, <3>1, <4>1 DEF Progress
    <3>2. from[p] = "original" => work.create = source \union Fixed
      BY <1>0, <1>2, <2>5, <2>8 DEF Progress
    <3> QED BY <1>2, <2>1, <2>6, <3>1, <3>2 DEF Progress
  <2>9. StaysDirectory(p)'
    BY <2>5, <2>6, NothingToDoIs DEF StaysDirectory
  <2>10. PICK place \in Places : place = seen.place
    BY <1>2
  <2>11. PICK kind \in {"none", Made(place)} : kind = "none"
    OBVIOUS
  <2>12. tree' = [tree EXCEPT ![place] = kind] /\ Disturbs(p) /\ UNCHANGED <<vanished, source, at, from>>
    BY <1>2, <2>1, <2>2, <2>10, <2>11
  <2> QED BY Zenon, <2>4, <2>5, <2>7, <2>8, <2>9, <2>10, <2>11, <2>12, TreeChanges
<1>4. CASE ~CanRemove(seen)
  <2>1. GetsOut(p, "default") /\ UNCHANGED <<treeVars, source>>
    BY <1>1, <1>2, <1>4 DEF Removes
  <2> QED BY <2>1, GettingOut
<1> QED BY <1>3, <1>4

LEMMA CreatesIsGood ==
  ASSUME HomeInv, NEW p \in Processes, Creates(p)
  PROVE  HomeInv'
<1>0. HomeTypeOK /\ HasNothingToLink(p) /\ (~disturbed[p] => Progress(p)) /\ at[p] = "creating"
  BY DEF HomeInv, Creates
<1>1. PICK place \in ClearedFirst(todo[p].create) :
       IF CanCreate(p, place)
       THEN /\ tree' = [tree EXCEPT ![place] = Built({place} \cap Names)[place]]
            /\ todo' = [todo EXCEPT ![p].create = @ \ {place}]
            /\ Disturbs(p)
            /\ UNCHANGED <<at, from>>
       ELSE GetsOut(p, "default") /\ UNCHANGED tree
  BY Zenon DEF Creates
<1>2. UNCHANGED <<vanished, source>>
  BY DEF Creates, sourceVars
<1>3. place \in todo[p].create /\ place \in Places
  <2>1. place \in todo[p].create
    BY DEF ClearedFirst
  <2> QED BY <1>0, <2>1, HomeFieldsAre
<1>4. CASE CanCreate(p, place)
  <2>1. /\ tree' = [tree EXCEPT ![place] = Made(place)] /\ todo' = [todo EXCEPT ![p].create = @ \ {place}]
        /\ Disturbs(p) /\ UNCHANGED <<at, from>>
    BY Zenon, <1>1, <1>4 DEF Made
  <2>2. PICK work : work = [todo[p] EXCEPT !.create = @ \ {place}]
    OBVIOUS
  <2>3. todo' = [todo EXCEPT ![p] = work]
    BY <1>0, <2>1, <2>2 DEF HomeTypeOK
  <2>4. /\ work \in Work /\ work.seen = todo[p].seen /\ work.create = todo[p].create \ {place}
    <3>1. todo[p] \in Work
      BY <1>0 DEF HomeTypeOK
    <3> QED BY <2>2, <3>1 DEF Work
  <2>5. todo'[p] = work
    BY <1>0, <2>3 DEF HomeTypeOK
  <2>6. \A q \in Places : tree'[q] = IF q = place THEN Made(place) ELSE tree[q]
    BY <1>0, <2>1 DEF HomeTypeOK
  <2>7. StaysDirectory(p)'
    <3>1. StaysDirectory(p)
      BY DEF HomeInv
    <3> QED BY <1>3, <2>4, <2>5, <2>6, <3>1 DEF StaysDirectory
  <2>8. place \in Names => from[p] = "original" /\ place \in source
    BY <1>4 DEF CanCreate
  <2>9. ASSUME from[p] = "minimal" PROVE FALSE
    <3>1. place \in Names
      BY <1>0, <2>9 DEF HasNothingToLink, ClearedFirst
    <3> QED BY <2>8, <2>9, <3>1
  <2>10. HasNothingToLink(p)'
    BY <2>1, <2>9 DEF HasNothingToLink
  <2>11. ASSUME ~disturbed[p] PROVE Progress(p)'
    <3>1. from[p] = "original"
      BY <1>0, <2>9, HomeFieldsAre
    <3>2. ASSUME NEW q \in Places PROVE tree'[q] = IF q \in work.create THEN "none" ELSE Built(source)[q]
      <4>1. tree[q] = IF q \in todo[p].create THEN "none" ELSE Built(source)[q]
        BY <1>0, <2>11, <3>1 DEF Progress
      <4>2. q = place => Made(q) = Built(source)[q]
        <5>1. source \subseteq Names
          BY <1>0 DEF HomeTypeOK
        <5> QED BY <2>8, <5>1, MadeIs
      <4> QED BY <2>4, <2>6, <4>1, <4>2
    <3> QED BY <1>0, <1>2, <2>1, <2>5, <3>2 DEF Progress
  <2>12. PICK kind \in {"none", Made(place)} : kind = Made(place)
    OBVIOUS
  <2>13. tree' = [tree EXCEPT ![place] = kind] /\ UNCHANGED <<vanished, source, at, from>>
    BY <1>2, <2>1, <2>12
  <2> QED BY Zenon, <1>3, <2>1, <2>3, <2>4, <2>7, <2>10, <2>11, <2>12, <2>13, TreeChanges
<1>5. CASE ~CanCreate(p, place)
  <2>1. GetsOut(p, "default") /\ UNCHANGED <<treeVars, source>>
    BY <1>1, <1>2, <1>5 DEF treeVars
  <2> QED BY <2>1, GettingOut
<1> QED BY <1>4, <1>5

LEMMA HomeStep ==
  ASSUME HomeInv, [HomeNext]_homeVars
  PROVE  HomeInv'
<1>1. CASE UNCHANGED homeVars
  <2>1. UNCHANGED <<tree, source, todo, at, from, disturbed, vanished>>
    BY <1>1 DEF homeVars, treeVars, sourceVars, processVars
  <2>2. HomeTypeOK' /\ MadeHere' /\ vanished' = {}
    BY <2>1 DEF HomeInv, HomeTypeOK, MadeHere
  <2>3. \A q \in Processes : StaysDirectory(q)' /\ HasNothingToLink(q)' /\ (~disturbed'[q] => Progress(q)')
    BY Zenon, <2>1, OthersStay
  <2> QED BY Zenon, <2>2, <2>3 DEF HomeInv
<1>2. ASSUME NEW p \in Processes,
             \/ Starts(p) \/ TakesTheEnvironment(p) \/ Compares(p)
             \/ Removes(p) \/ StartsToCreate(p) \/ Creates(p) \/ HasCreated(p)
             \/ Applies(p) \/ Fails(p)
             \/ \E place \in Places : LooksAt(p, place)
      PROVE  HomeInv'
  <2>1. CASE Starts(p) \/ TakesTheEnvironment(p) \/ StartsToCreate(p) \/ HasCreated(p)
    BY Zenon, <2>1, StationSteps
  <2>2. CASE Applies(p) \/ Fails(p)
    <3>1. PICK result \in {"applied", "default"} : GetsOut(p, result)
      BY <2>2 DEF Applies, Fails
    <3>2. UNCHANGED <<treeVars, source>>
      BY <2>2 DEF Applies, Fails, sourceVars
    <3> QED BY Zenon, <3>1, <3>2, GettingOut
  <2> QED BY Zenon, <1>2, <2>1, <2>2, ComparesIsGood, RemovesIsGood, CreatesIsGood, LooksAtIsGood
<1>3. CASE UpdatesSource
  <2>1. UNCHANGED <<tree, todo, at, from, vanished>> /\ HomeTypeOK /\ MadeHere /\ vanished = {}
    BY <1>3 DEF UpdatesSource, treeVars, HomeInv
  <2>2. source' \subseteq Names
    BY <1>3, <2>1 DEF UpdatesSource, HomeTypeOK
  <2>3. disturbed' \in [Processes -> BOOLEAN]
    <3>1. \A q \in Processes : (disturbed[q] \/ at[q] \in AtWork) \in BOOLEAN
      BY Zenon
    <3> QED BY Zenon, <1>3, <3>1 DEF UpdatesSource
  <2>4. \A q \in Processes : ~disturbed'[q] => at[q] \notin AtWork
    BY Zenon, <1>3 DEF UpdatesSource
  <2>5. HomeTypeOK' /\ MadeHere' /\ vanished' = {}
    BY <2>1, <2>2, <2>3 DEF HomeTypeOK, MadeHere
  <2>6. ASSUME NEW q \in Processes
        PROVE  StaysDirectory(q)' /\ HasNothingToLink(q)' /\ (~disturbed'[q] => Progress(q)')
    <3>1. StaysDirectory(q) /\ HasNothingToLink(q)
      BY DEF HomeInv
    <3>2. StaysDirectory(q)'
      BY Zenon, <2>1, <3>1 DEF StaysDirectory
    <3>3. HasNothingToLink(q)'
      BY Zenon, <2>1, <3>1 DEF HasNothingToLink
    <3>4. at[q] \notin AtWork => Progress(q)'
      BY <2>1 DEF Progress, AtWork
    <3> QED BY Zenon, <2>4, <3>2, <3>3, <3>4
  <2> QED BY Zenon, <2>5, <2>6 DEF HomeInv
<1>4. CASE AllSet
  BY Zenon, <1>1, <1>4 DEF AllSet
<1> QED BY Zenon, <1>1, <1>2, <1>3, <1>4 DEF HomeNext

\* The inductive invariant of the data directory: what stands at a place is what the
\* program makes of it, what was taken for a directory never becomes a link, and how
\* far a process is that nobody has disturbed.
THEOREM HomeInvCorrect == HomeSpec => []HomeInv
<1>1. HomeInit => HomeInv
  BY HomeInitially
<1>2. HomeInv /\ [HomeNext]_homeVars => HomeInv'
  BY HomeStep
<1> QED BY <1>1, <1>2, PTL DEF HomeSpec

\* No step of any process, stopped wherever it was, deletes a file behind a link.
THEOREM SourceIsIntactCorrect == HomeSpec => []SourceIsIntact
<1>1. HomeInv => SourceIsIntact
  BY DEF HomeInv, SourceIsIntact
<1> QED BY <1>1, HomeInvCorrect, PTL

\* A process that was alone points Surge at a tree that is whole.
THEOREM AppliedTreeIsWholeCorrect == HomeSpec => AppliedTreeIsWhole
<1>1. HomeInv /\ [HomeNext]_homeVars =>
        [\A p \in Processes : (at[p] = "checking" /\ at'[p] = "applied" /\ ~disturbed[p]) => tree = Built(source)]_homeVars
  BY Zenon DEF HomeInv, Progress
<1> QED BY <1>1, HomeInvCorrect, PTL DEF HomeSpec, AppliedTreeIsWhole

(***************************************************************************)
(* The end of a server                                                     *)
(***************************************************************************)
Busy(w) == workerAt[w] \in {"reads", "renders", "writes"}
Serving(c) == \E w \in Pool : Busy(w) /\ serves[w][1] = c
Queued(c) == \E k \in 1 .. Len(queue) : queue[k] = c
NobodyPanicked == \A w \in Pool : workerAt[w] # "panicked"

ServerTypeOK ==
  /\ listener \in {"spawning", "listens", "holds", "joins", "joins ipc", "failed", "done"}
  /\ queue \in Seq(Clients)
  /\ workerAt \in [Pool -> {"none", "waits", "reads", "renders", "writes", "ended", "panicked"}]
  /\ serves \in [Pool -> Seq(Clients)]
  /\ joined \subseteq Pool
  /\ client \in [Clients -> {"new", "connected", "queued", "held", "served", "answered", "dropped"}]
  /\ receiver \in BOOLEAN /\ stopping \in BOOLEAN

\* Whoever has a connection in its hands.
HandsAreKnown ==
  /\ \A c \in Clients : client[c] = "queued" => Queued(c)
  /\ \A c \in Clients : client[c] = "served" => Serving(c)
  /\ \A c \in Clients : client[c] = "held" => listener = "holds"
  /\ \A c, d \in Clients : client[c] = "held" /\ client[d] = "held" => c = d

\* No thread goes before its work is done.
EndsInOrder ==
  /\ listener = "spawning" => joined = {} /\ queue = <<>> /\ \A w \in Pool : workerAt[w] \in {"none", "waits"}
  /\ \A w \in Pool : workerAt[w] = "ended" => SenderGone /\ queue = <<>>
  /\ \A w \in joined : listener = "failed" \/ workerAt[w] = "ended"
  /\ listener \in {"joins ipc", "done"} => queue = <<>> /\ \A w \in Pool : workerAt[w] = "ended"

\* At most the connection that was held when the shutdown came is closed unanswered.
DropsAreKnown ==
  /\ ~receiver => ~NobodyPanicked
  /\ NobodyPanicked =>
       /\ \A c, d \in Clients : client[c] = "dropped" /\ client[d] = "dropped" => c = d
       /\ \A c \in Clients : client[c] = "dropped" => stopping /\ listener \notin {"spawning", "holds"}

DrainInv == ServerTypeOK /\ HandsAreKnown /\ EndsInOrder /\ DropsAreKnown

LEMMA DrainInitially == ServerInit => DrainInv
<1> SUFFICES ASSUME ServerInit PROVE DrainInv OBVIOUS
<1>1. /\ queue = <<>> /\ queue \in Seq(Clients)
      /\ workerAt \in [Pool -> {"none", "waits", "reads", "renders", "writes", "ended", "panicked"}]
      /\ serves \in [Pool -> Seq(Clients)]
      /\ client \in [Clients -> {"new", "connected", "queued", "held", "served", "answered", "dropped"}]
      /\ \A w \in Pool : workerAt[w] = "none"
      /\ \A c \in Clients : client[c] = "new"
  BY DEF ServerInit
<1>2. listener = "spawning" /\ joined = {}
  BY DEF ServerInit
<1>3. receiver = TRUE /\ stopping = FALSE
  BY DEF ServerInit
<1>4. ServerTypeOK
  BY <1>1, <1>2, <1>3, Zenon DEF ServerTypeOK
<1>5. HandsAreKnown /\ EndsInOrder
  BY <1>1, <1>2 DEF HandsAreKnown, EndsInOrder
<1>6. DropsAreKnown
  <2>1. \A c \in Clients : client[c] # "dropped"
    BY <1>1
  <2> QED BY <2>1, <1>3, Zenon DEF DropsAreKnown
<1> QED BY <1>4, <1>5, <1>6 DEF DrainInv

LEMMA SpawnDrains ==
  ASSUME DrainInv, NEW ok, Spawn(ok)
  PROVE  DrainInv'
<1>1. CASE ~ok
  <2>1. listener' = "failed" /\ listener = "spawning" /\ UNCHANGED <<spawned, workerAt, queue, receiver, serves, joined, stopping, client>>
    BY <1>1 DEF Spawn
  <2> QED BY <2>1 DEF DrainInv, ServerTypeOK, HandsAreKnown, EndsInOrder, DropsAreKnown, SenderGone, NobodyPanicked, Queued, Serving, Busy
<1>2. CASE ok
  <2>1. PICK w \in Pool \ spawned : workerAt' = [workerAt EXCEPT ![w] = "waits"]
    BY <1>2 DEF Spawn
  <2>2. listener = "spawning" /\ UNCHANGED <<listener, queue, receiver, serves, joined, stopping, client>>
    BY <1>2 DEF Spawn
  <2>3. workerAt' \in [Pool -> {"none", "waits", "reads", "renders", "writes", "ended", "panicked"}]
        /\ \A v \in Pool : workerAt'[v] = IF v = w THEN "waits" ELSE workerAt[v]
    BY <2>1 DEF DrainInv, ServerTypeOK
  <2>4. ServerTypeOK'
    BY <2>2, <2>3 DEF DrainInv, ServerTypeOK
  <2>5. \A v \in Pool : workerAt[v] \in {"none", "waits"} /\ workerAt'[v] \in {"none", "waits"}
    BY <2>2, <2>3 DEF DrainInv, EndsInOrder
  <2>6. HandsAreKnown'
    BY <2>2, <2>5 DEF DrainInv, HandsAreKnown, Queued, Serving, Busy
  <2>7. EndsInOrder'
    BY <2>2, <2>5 DEF DrainInv, EndsInOrder, SenderGone
  <2>8. DropsAreKnown'
    BY <2>2, <2>5 DEF DrainInv, DropsAreKnown, NobodyPanicked
  <2> QED BY <2>4, <2>6, <2>7, <2>8 DEF DrainInv
<1> QED BY <1>1, <1>2

\* The accepting thread goes from one station to the next.
LEMMA ListenerDrains ==
  ASSUME DrainInv, Listen \/ StopsListening \/ AcceptFails
  PROVE  DrainInv'
<1>1. UNCHANGED <<queue, receiver, workerAt, serves, joined, stopping, client>>
      /\ (\/ listener = "spawning" /\ listener' = "listens"
          \/ listener = "listens" /\ listener' = "joins")
  BY DEF Listen, StopsListening, AcceptFails
<1>2. ServerTypeOK' /\ HandsAreKnown'
  BY ZenonT(60), <1>1 DEF DrainInv, ServerTypeOK, HandsAreKnown, Queued, Serving, Busy
<1>3. EndsInOrder'
  BY <1>1 DEF DrainInv, EndsInOrder, SenderGone
<1>4. DropsAreKnown'
  BY <1>1 DEF DrainInv, DropsAreKnown, NobodyPanicked
<1> QED BY <1>2, <1>3, <1>4 DEF DrainInv

\* A connection is offered to the channel.
LEMMA OfferedDrains ==
  ASSUME DrainInv, NEW c \in Clients, listener \in {"listens", "holds"}, Offered(c),
         listener = "listens" => client[c] # "held" /\ ~stopping, listener = "holds" => client[c] = "held",
         UNCHANGED <<receiver, workerAt, serves, joined, stopping>>
  PROVE  DrainInv'
<1>0. PICK state \in {"dropped", "queued", "held"} :
        /\ client' = [client EXCEPT ![c] = state]
        /\ \/ state = "dropped" /\ listener' \in {"joins", "listens"} /\ queue' = queue /\ (~receiver \/ (stopping /\ listener' = "listens"))
           \/ state = "queued" /\ listener' = "listens" /\ queue' = Append(queue, c) /\ receiver
           \/ state = "held" /\ listener' = "holds" /\ queue' = queue
  BY DEF Offered
<1>1. client' \in [Clients -> {"new", "connected", "queued", "held", "served", "answered", "dropped"}]
      /\ \A d \in Clients : client'[d] = IF d = c THEN state ELSE client[d]
  BY <1>0 DEF DrainInv, ServerTypeOK
<1>2. queue \in Seq(Clients) /\ queue' \in Seq(Clients)
      /\ (queue' = queue \/ (queue' = Append(queue, c) /\ state = "queued"))
  <2>1. queue \in Seq(Clients)
    BY DEF DrainInv, ServerTypeOK
  <2>2. Append(queue, c) \in Seq(Clients)
    BY <2>1
  <2>3. queue' = queue \/ (queue' = Append(queue, c) /\ state = "queued")
    BY <1>0, Zenon
  <2> QED BY <2>1, <2>2, <2>3, Zenon
<1>3. listener' \in {"joins", "listens", "holds"} /\ (listener' = "holds" <=> state = "held")
  BY <1>0
<1>4. ServerTypeOK'
  <2>1. listener' \in {"spawning", "listens", "holds", "joins", "joins ipc", "failed", "done"}
    BY <1>3
  <2> QED BY <2>1, <1>1, <1>2, Zenon DEF DrainInv, ServerTypeOK
<1>5. HandsAreKnown'
  <2>1. \A d \in Clients : client'[d] = "queued" => Queued(d)'
    <3> SUFFICES ASSUME NEW d \in Clients, client'[d] = "queued" PROVE \E k \in 1 .. Len(queue') : queue'[k] = d
      BY DEF Queued
    <3>1. CASE d = c
      <4>1. queue' = Append(queue, c)
        BY <1>0, <1>1, <3>1
      <4> QED BY <4>1, <1>2, <3>1
    <3>2. CASE d # c
      <4>1. PICK k \in 1 .. Len(queue) : queue[k] = d
        BY <1>1, <3>2 DEF DrainInv, HandsAreKnown, Queued
      <4> QED BY <4>1, <1>2
    <3> QED BY <3>1, <3>2
  <2>2. \A d \in Clients : client'[d] = "served" => Serving(d)'
    BY <1>1 DEF DrainInv, HandsAreKnown, Serving, Busy
  <2>3. \A d \in Clients : client'[d] = "held" => (d = c /\ listener' = "holds")
    <3> SUFFICES ASSUME NEW d \in Clients, client'[d] = "held" PROVE d = c /\ listener' = "holds"
      OBVIOUS
    <3>1. CASE d # c
      BY <1>1, <3>1 DEF DrainInv, HandsAreKnown
    <3> QED BY <3>1, <1>1, <1>3
  <2> QED BY <2>1, <2>2, <2>3 DEF HandsAreKnown
<1>6. EndsInOrder'
  <2>1. \A w \in Pool : workerAt[w] # "ended"
    BY DEF DrainInv, EndsInOrder, SenderGone
  <2> QED BY <2>1, <1>3 DEF DrainInv, EndsInOrder
<1>7. DropsAreKnown'
  <2>1. ~receiver' => ~NobodyPanicked'
    BY Zenon DEF DrainInv, DropsAreKnown, NobodyPanicked
  <2>2. ASSUME NobodyPanicked
        PROVE  /\ \A d \in Clients : client'[d] = "dropped" => d = c
               /\ \A d \in Clients : client'[d] = "dropped" => (stopping /\ listener' \notin {"spawning", "holds"})
    <3>1. receiver
      BY <2>2, Zenon DEF DrainInv, DropsAreKnown
    <3>2. \A d \in Clients : client[d] # "dropped"
      <4> SUFFICES ASSUME NEW d \in Clients, client[d] = "dropped" PROVE FALSE
        OBVIOUS
      <4>1. stopping /\ listener \notin {"spawning", "holds"}
        BY <2>2, Zenon DEF DrainInv, DropsAreKnown
      <4>2. listener = "listens"
        BY <4>1
      <4> QED BY <4>1, <4>2, Zenon
    <3>3. \A d \in Clients : client'[d] = "dropped" => (d = c /\ state = "dropped")
      BY <3>2, <1>1
    <3>4. state = "dropped" => (stopping /\ listener' = "listens")
      <4>1. "dropped" # "queued" /\ "dropped" # "held"
        OBVIOUS
      <4> QED BY <4>1, <1>0, <3>1, Zenon
    <3>5. "listens" \notin {"spawning", "holds"}
      OBVIOUS
    <3> QED BY <3>3, <3>4, <3>5, Zenon
  <2>3. NobodyPanicked' => NobodyPanicked
    BY DEF NobodyPanicked
  <2> QED BY <2>1, <2>2, <2>3, Zenon DEF DropsAreKnown
<1> QED BY <1>4, <1>5, <1>6, <1>7 DEF DrainInv
LEMMA OffersDrain ==
  ASSUME DrainInv, NEW c \in Clients, Accept(c) \/ Retry(c)
  PROVE  DrainInv'
<1>1. CASE Accept(c)
  <2>1. listener = "listens" /\ ~stopping /\ client[c] = "connected"
    BY <1>1, Zenon DEF Accept
  <2>2. Offered(c) /\ UNCHANGED <<receiver, workerAt, serves, joined, stopping>>
    BY <1>1 DEF Accept
  <2>3. listener \in {"listens", "holds"} /\ client[c] # "held" /\ listener # "holds"
    BY <2>1
  <2> QED BY <2>1, <2>2, <2>3, OfferedDrains, Zenon
<1>2. CASE Retry(c)
  <2>1. listener = "holds" /\ client[c] = "held"
    BY <1>2, Zenon DEF Retry
  <2>2. Offered(c) /\ UNCHANGED <<receiver, workerAt, serves, joined, stopping>>
    BY <1>2 DEF Retry
  <2>3. listener \in {"listens", "holds"} /\ listener # "listens"
    BY <2>1
  <2> QED BY <2>1, <2>2, <2>3, OfferedDrains, Zenon
<1> QED BY <1>1, <1>2

\* A worker is joined; with the last of them the accepting thread has nothing left to wait
\* for but `next`: the end, or the thread that serves the shared memory.
LEMMA JoinsDrain ==
  ASSUME DrainInv, NEW w \in Pool, NEW next \in {"done", "joins ipc"},
         listener = "joins", Joins(w), joined' = joined \cup {w},
         listener' = IF workerAt[w] = "panicked" THEN "failed" ELSE IF joined' = Pool THEN next ELSE "joins",
         UNCHANGED <<queue, receiver, workerAt, serves, stopping, client>>
  PROVE  DrainInv'
<1>1. workerAt[w] \in {"ended", "panicked"}
  BY DEF Joins, Ended
<1>2. listener' \in {"failed", "joins", next}
  OBVIOUS
<1>3. ServerTypeOK'
  <2>1. listener' \in {"spawning", "listens", "holds", "joins", "joins ipc", "failed", "done"}
    BY <1>2
  <2>2. joined' \subseteq Pool
    BY DEF DrainInv, ServerTypeOK
  <2> QED BY <2>1, <2>2, Zenon DEF DrainInv, ServerTypeOK
<1>4. HandsAreKnown'
  BY <1>2 DEF DrainInv, HandsAreKnown, Queued, Serving, Busy
<1>5. EndsInOrder'
  <2>1. \A v \in Pool : workerAt[v] = "ended" => queue = <<>>
    BY DEF DrainInv, EndsInOrder
  <2>2. \A v \in joined' : listener' = "failed" \/ workerAt[v] = "ended"
    BY <1>1 DEF DrainInv, EndsInOrder
  <2>3. listener' \in {"joins ipc", "done"} => joined' = Pool /\ workerAt[w] = "ended"
    BY <1>1
  <2>4. listener' \in {"joins ipc", "done"} => queue = <<>> /\ \A v \in Pool : workerAt[v] = "ended"
    BY <2>1, <2>2, <2>3
  <2>5. SenderGone' /\ listener' # "spawning"
    BY <1>2 DEF SenderGone
  <2> QED BY <2>1, <2>2, <2>4, <2>5 DEF EndsInOrder
<1>6. DropsAreKnown'
  BY <1>2 DEF DrainInv, DropsAreKnown, NobodyPanicked
<1> QED BY <1>3, <1>4, <1>5, <1>6 DEF DrainInv

LEMMA TakeDrains ==
  ASSUME DrainInv, NEW w \in Pool, Take(w)
  PROVE  DrainInv'
<1>0. queue \in Seq(Clients) /\ queue # <<>>
  BY DEF DrainInv, ServerTypeOK, Take
<1>1. PICK c \in Clients : c = Head(queue)
  BY <1>0
<1>2. /\ queue' = Tail(queue) /\ queue' \in Seq(Clients)
      /\ \A k \in 1 .. Len(queue) : queue[k] = c \/ (k - 1 \in 1 .. Len(queue') /\ queue'[k - 1] = queue[k])
  BY <1>0, <1>1 DEF Take
<1>3. /\ serves' \in [Pool -> Seq(Clients)] /\ serves'[w] = <<c>>
      /\ \A v \in Pool : v # w => serves'[v] = serves[v]
  <2>1. serves' = [serves EXCEPT ![w] = <<c>>] /\ serves \in [Pool -> Seq(Clients)]
    BY <1>1 DEF Take, DrainInv, ServerTypeOK
  <2>2. <<c>> \in Seq(Clients)
    OBVIOUS
  <2> QED BY <2>1, <2>2
<1>4. /\ workerAt' \in [Pool -> {"none", "waits", "reads", "renders", "writes", "ended", "panicked"}]
      /\ workerAt[w] = "waits" /\ \A v \in Pool : workerAt'[v] = IF v = w THEN "reads" ELSE workerAt[v]
  BY DEF Take, DrainInv, ServerTypeOK
<1>5. /\ client' \in [Clients -> {"new", "connected", "queued", "held", "served", "answered", "dropped"}]
      /\ \A d \in Clients : client'[d] = IF d = c THEN "served" ELSE client[d]
  BY <1>1 DEF Take, DrainInv, ServerTypeOK
<1>6. UNCHANGED <<listener, receiver, joined, stopping>>
  BY DEF Take
<1>7. ServerTypeOK'
  BY <1>2, <1>3, <1>4, <1>5, <1>6, Zenon DEF DrainInv, ServerTypeOK
<1>8. HandsAreKnown'
  <2>1. \A d \in Clients : client'[d] = "queued" => Queued(d)'
    <3> SUFFICES ASSUME NEW d \in Clients, client'[d] = "queued" PROVE \E k \in 1 .. Len(queue') : queue'[k] = d
      BY DEF Queued
    <3>1. d # c /\ client[d] = "queued"
      BY <1>5
    <3>2. PICK k \in 1 .. Len(queue) : queue[k] = d
      BY <3>1 DEF DrainInv, HandsAreKnown, Queued
    <3>3. k - 1 \in 1 .. Len(queue') /\ queue'[k - 1] = d
      BY <3>1, <3>2, <1>2
    <3> QED BY <3>3
  <2>2. \A d \in Clients : client'[d] = "served" => Serving(d)'
    <3> SUFFICES ASSUME NEW d \in Clients, client'[d] = "served"
                 PROVE \E v \in Pool : workerAt'[v] \in {"reads", "renders", "writes"} /\ serves'[v][1] = d
      BY DEF Serving, Busy
    <3>1. CASE d = c
      <4>1. serves'[w][1] = c
        BY <1>3
      <4> QED BY <3>1, <4>1, <1>4
    <3>2. CASE d # c
      <4>1. PICK v \in Pool : workerAt[v] \in {"reads", "renders", "writes"} /\ serves[v][1] = d
        BY <3>2, <1>5 DEF DrainInv, HandsAreKnown, Serving, Busy
      <4>2. v # w
        BY <4>1, <1>4
      <4> QED BY <4>1, <4>2, <1>3, <1>4
    <3> QED BY <3>1, <3>2
  <2>3. \A d \in Clients : client'[d] = "held" => client[d] = "held"
    BY <1>5
  <2> QED BY <2>1, <2>2, <2>3, <1>6 DEF DrainInv, HandsAreKnown
<1>9. EndsInOrder'
  <2>1. listener # "spawning" /\ \A v \in Pool : workerAt[v] # "ended"
    BY <1>0 DEF DrainInv, EndsInOrder
  <2>2. \A v \in Pool : workerAt'[v] # "ended"
    BY <2>1, <1>4
  <2>3. listener \notin {"joins ipc", "done"}
    BY <1>0 DEF DrainInv, EndsInOrder
  <2>4. joined \subseteq Pool /\ \A v \in joined : listener = "failed"
    BY <2>1 DEF DrainInv, EndsInOrder, ServerTypeOK
  <2> QED BY <2>1, <2>2, <2>3, <2>4, <1>6 DEF EndsInOrder
<1>10. DropsAreKnown'
  <2>1. NobodyPanicked' => NobodyPanicked
    BY <1>4 DEF NobodyPanicked
  <2>2. \A d \in Clients : client'[d] = "dropped" => client[d] = "dropped"
    BY <1>5
  <2>3. NobodyPanicked => NobodyPanicked'
    BY <1>4 DEF NobodyPanicked
  <2> QED BY <2>1, <2>2, <2>3, <1>6, Zenon DEF DrainInv, DropsAreKnown
<1> QED BY <1>7, <1>8, <1>9, <1>10 DEF DrainInv

LEMMA EndDrains ==
  ASSUME DrainInv, NEW w \in Pool, End(w)
  PROVE  DrainInv'
<1>1. /\ workerAt' \in [Pool -> {"none", "waits", "reads", "renders", "writes", "ended", "panicked"}]
      /\ workerAt[w] = "waits" /\ \A v \in Pool : workerAt'[v] = IF v = w THEN "ended" ELSE workerAt[v]
  BY DEF End, DrainInv, ServerTypeOK
<1>2. SenderGone /\ queue = <<>> /\ UNCHANGED <<listener, queue, receiver, serves, joined, stopping, client>>
  BY DEF End, MayEnd
<1>3. ServerTypeOK'
  BY <1>1, <1>2, Zenon DEF DrainInv, ServerTypeOK
<1>4. HandsAreKnown'
  <2>1. \A v \in Pool : Busy(v) => Busy(v)'
    BY <1>1 DEF Busy
  <2> QED BY <2>1, <1>2 DEF DrainInv, HandsAreKnown, Queued, Serving
<1>5. EndsInOrder'
  <2>1. listener \notin {"spawning", "joins ipc", "done"} /\ joined \subseteq Pool
    BY <1>1, <1>2 DEF DrainInv, EndsInOrder, SenderGone, ServerTypeOK
  <2>2. \A v \in joined : listener = "failed" \/ workerAt'[v] = "ended"
    BY <2>1, <1>1 DEF DrainInv, EndsInOrder
  <2>3. SenderGone'
    BY <1>2 DEF SenderGone
  <2> QED BY <2>1, <2>2, <2>3, <1>2 DEF EndsInOrder
<1>6. DropsAreKnown'
  <2>1. NobodyPanicked' <=> NobodyPanicked
    BY <1>1 DEF NobodyPanicked
  <2> QED BY <2>1, <1>2, Zenon DEF DrainInv, DropsAreKnown
<1> QED BY <1>3, <1>4, <1>5, <1>6 DEF DrainInv

\* A worker goes on with its request, or answers it.
LEMMA WorksDrain ==
  ASSUME DrainInv, NEW w \in Pool, Busy(w), NEW code,
         \/ Answered(w, code)
         \/ \E on \in {"renders", "writes"} : workerAt' = [workerAt EXCEPT ![w] = on] /\ UNCHANGED <<serves, client>>,
         UNCHANGED <<listener, queue, receiver, joined, stopping>>
  PROVE  DrainInv'
<1>0. PICK station \in {"waits", "renders", "writes"} :
        /\ workerAt' = [workerAt EXCEPT ![w] = station]
        /\ \/ station # "waits" /\ UNCHANGED <<serves, client>>
           \/ /\ station = "waits" /\ serves' = [serves EXCEPT ![w] = <<>>]
              /\ client' = [client EXCEPT ![serves[w][1]] = "answered"]
  BY DEF Answered
<1>1. /\ workerAt' \in [Pool -> {"none", "waits", "reads", "renders", "writes", "ended", "panicked"}]
      /\ \A v \in Pool : workerAt'[v] = IF v = w THEN station ELSE workerAt[v]
      /\ workerAt[w] \in {"reads", "renders", "writes"}
  BY <1>0 DEF DrainInv, ServerTypeOK, Busy
<1>2. serves' \in [Pool -> Seq(Clients)] /\ \A v \in Pool : v # w => serves'[v] = serves[v]
  <2>1. CASE UNCHANGED serves
    BY <2>1 DEF DrainInv, ServerTypeOK
  <2>2. CASE serves' = [serves EXCEPT ![w] = <<>>]
    <3>1. serves \in [Pool -> Seq(Clients)]
      BY Zenon DEF DrainInv, ServerTypeOK
    <3>2. <<>> \in Seq(Clients)
      OBVIOUS
    <3> QED BY <2>2, <3>1, <3>2
  <2> QED BY <2>1, <2>2, <1>0
<1>3. /\ client' \in [Clients -> {"new", "connected", "queued", "held", "served", "answered", "dropped"}]
      /\ \A d \in Clients : client'[d] = client[d] \/ client'[d] = "answered"
      /\ \A d \in Clients : d # serves[w][1] => client'[d] = client[d]
      /\ station = "waits" => \A d \in Clients : d = serves[w][1] => client'[d] = "answered"
      /\ station # "waits" => UNCHANGED <<client, serves>>
  <2>1. CASE station # "waits"
    BY <2>1, <1>0 DEF DrainInv, ServerTypeOK
  <2>2. CASE station = "waits"
    <3>1. client' = [client EXCEPT ![serves[w][1]] = "answered"]
      BY <2>2, <1>0
    <3> QED BY <2>2, <3>1 DEF DrainInv, ServerTypeOK
  <2> QED BY <2>1, <2>2
<1>4. ServerTypeOK'
  BY <1>1, <1>2, <1>3, Zenon DEF DrainInv, ServerTypeOK
<1>5. HandsAreKnown'
  <2>1. \A d \in Clients : client'[d] = "served" => Serving(d)'
    <3> SUFFICES ASSUME NEW d \in Clients, client'[d] = "served"
                 PROVE \E v \in Pool : workerAt'[v] \in {"reads", "renders", "writes"} /\ serves'[v][1] = d
      BY DEF Serving, Busy
    <3>1. client[d] = "served"
      BY <1>3
    <3>2. PICK v \in Pool : workerAt[v] \in {"reads", "renders", "writes"} /\ serves[v][1] = d
      BY <3>1 DEF DrainInv, HandsAreKnown, Serving, Busy
    <3>3. CASE v # w
      BY <3>2, <3>3, <1>1, <1>2
    <3>4. CASE v = w
      <4>1. station # "waits" /\ serves' = serves
        BY <3>2, <3>4, <1>3
      <4> QED BY <4>1, <3>2, <3>4, <1>1
    <3> QED BY <3>3, <3>4
  <2>2. \A d \in Clients : client'[d] \in {"queued", "held"} => client[d] = client'[d]
    BY <1>3
  <2> QED BY <2>1, <2>2 DEF DrainInv, HandsAreKnown, Queued
<1>6. EndsInOrder'
  <2>1. listener # "spawning" /\ listener \notin {"joins ipc", "done"}
    BY <1>1 DEF DrainInv, EndsInOrder
  <2>2. \A v \in Pool : workerAt'[v] = "ended" <=> workerAt[v] = "ended"
    BY <1>1
  <2>3. joined \subseteq Pool
    BY DEF DrainInv, ServerTypeOK
  <2> QED BY <2>1, <2>2, <2>3 DEF DrainInv, EndsInOrder, SenderGone
<1>7. DropsAreKnown'
  <2>1. NobodyPanicked' <=> NobodyPanicked
    BY <1>1 DEF NobodyPanicked
  <2>2. \A d \in Clients : client'[d] = "dropped" => client[d] = "dropped"
    BY <1>3
  <2> QED BY <2>1, <2>2, Zenon DEF DrainInv, DropsAreKnown
<1> QED BY <1>4, <1>5, <1>6, <1>7 DEF DrainInv

LEMMA PanicDrains ==
  ASSUME DrainInv, NEW w \in Pool, RenderPanics(w)
  PROVE  DrainInv'
<1> DEFINE last == TakesChannelAlong(w)
<1>0. queue \in Seq(Clients)
  BY DEF DrainInv, ServerTypeOK
<1>1. /\ workerAt' \in [Pool -> {"none", "waits", "reads", "renders", "writes", "ended", "panicked"}]
      /\ workerAt[w] = "renders" /\ \A v \in Pool : workerAt'[v] = IF v = w THEN "panicked" ELSE workerAt[v]
  BY DEF RenderPanics, DrainInv, ServerTypeOK
<1>2. serves' \in [Pool -> Seq(Clients)] /\ \A v \in Pool : v # w => serves'[v] = serves[v]
  <2>1. serves \in [Pool -> Seq(Clients)] /\ serves' = [serves EXCEPT ![w] = <<>>]
    BY Zenon DEF RenderPanics, DrainInv, ServerTypeOK
  <2>2. <<>> \in Seq(Clients)
    OBVIOUS
  <2> QED BY <2>1, <2>2
<1>3. UNCHANGED <<listener, joined, stopping>>
  BY DEF RenderPanics
<1>4. /\ queue' = IF last THEN <<>> ELSE queue
      /\ client' = [c \in Clients |-> IF c = serves[w][1] \/ (last /\ c \in Range(queue)) THEN "dropped" ELSE client[c]]
  BY DEF RenderPanics
<1>5. receiver' \in BOOLEAN
  <2>1. receiver' = ~TakesChannelAlong(w)
    BY DEF RenderPanics
  <2>2. TakesChannelAlong(w) \in BOOLEAN
    BY DEF TakesChannelAlong
  <2> QED BY <2>1, <2>2
<1> HIDE DEF last
<1>6. queue' \in Seq(Clients) /\ (queue' = queue \/ (last /\ queue' = <<>>))
  BY <1>0, <1>4
<1>7. /\ client' \in [Clients -> {"new", "connected", "queued", "held", "served", "answered", "dropped"}]
      /\ \A d \in Clients : client'[d] = client[d] \/ client'[d] = "dropped"
      /\ \A d \in Clients : d = serves[w][1] => client'[d] = "dropped"
      /\ \A d \in Clients : last /\ d \in Range(queue) => client'[d] = "dropped"
  BY <1>4 DEF DrainInv, ServerTypeOK
<1>8. ServerTypeOK'
  BY <1>1, <1>2, <1>3, <1>5, <1>6, <1>7, Zenon DEF DrainInv, ServerTypeOK
<1>9. HandsAreKnown'
  <2>1. \A d \in Clients : client'[d] = "queued" => Queued(d)'
    <3> SUFFICES ASSUME NEW d \in Clients, client'[d] = "queued" PROVE Queued(d)'
      OBVIOUS
    <3>1. client[d] = "queued" /\ ~(last /\ d \in Range(queue))
      BY <1>7
    <3>2. PICK k \in 1 .. Len(queue) : queue[k] = d
      BY <3>1 DEF DrainInv, HandsAreKnown, Queued
    <3>3. d \in Range(queue)
      BY <3>2, <1>0 DEF Range
    <3>4. queue' = queue
      BY <3>1, <3>3, <1>6
    <3> QED BY <3>2, <3>4 DEF Queued
  <2>2. \A d \in Clients : client'[d] = "served" => Serving(d)'
    <3> SUFFICES ASSUME NEW d \in Clients, client'[d] = "served"
                 PROVE \E v \in Pool : workerAt'[v] \in {"reads", "renders", "writes"} /\ serves'[v][1] = d
      BY DEF Serving, Busy
    <3>1. client[d] = "served" /\ d # serves[w][1]
      BY <1>7
    <3>2. PICK v \in Pool : workerAt[v] \in {"reads", "renders", "writes"} /\ serves[v][1] = d
      BY <3>1 DEF DrainInv, HandsAreKnown, Serving, Busy
    <3>3. v # w
      BY <3>1, <3>2
    <3> QED BY <3>2, <3>3, <1>1, <1>2
  <2>3. \A d \in Clients : client'[d] = "held" => client[d] = "held"
    BY <1>7
  <2> QED BY <2>1, <2>2, <2>3, <1>3 DEF DrainInv, HandsAreKnown
<1>10. EndsInOrder'
  <2>1. listener # "spawning" /\ listener \notin {"joins ipc", "done"}
    BY <1>1 DEF DrainInv, EndsInOrder
  <2>2. \A v \in Pool : workerAt'[v] = "ended" <=> workerAt[v] = "ended"
    BY <1>1
  <2>3. joined \subseteq Pool
    BY DEF DrainInv, ServerTypeOK
  <2> QED BY <2>1, <2>2, <2>3, <1>3, <1>6 DEF DrainInv, EndsInOrder, SenderGone
<1>11. DropsAreKnown'
  <2>1. ~NobodyPanicked'
    BY <1>1 DEF NobodyPanicked
  <2> QED BY <2>1, Zenon DEF DropsAreKnown
<1> QED BY <1>8, <1>9, <1>10, <1>11 DEF DrainInv

LEMMA OutsideDrains ==
  ASSUME DrainInv, UNCHANGED renderServerVars \/ Interrupt \/ \E c \in Clients : Connect(c)
  PROVE  DrainInv'
<1>1. CASE UNCHANGED renderServerVars
  <2>1. UNCHANGED <<listener, queue, receiver, workerAt, serves, joined, stopping, client>>
    BY <1>1, Zenon DEF renderServerVars
  <2>2. ServerTypeOK'
    BY <2>1, Zenon DEF DrainInv, ServerTypeOK
  <2>3. HandsAreKnown'
    BY <2>1 DEF DrainInv, HandsAreKnown, Queued, Serving, Busy
  <2>4. EndsInOrder'
    BY <2>1 DEF DrainInv, EndsInOrder, SenderGone
  <2>5. DropsAreKnown'
    BY <2>1, Zenon DEF DrainInv, DropsAreKnown, NobodyPanicked
  <2> QED BY <2>2, <2>3, <2>4, <2>5 DEF DrainInv
<1>2. CASE Interrupt
  <2>1. stopping' = TRUE /\ UNCHANGED <<listener, queue, receiver, workerAt, serves, joined, client>>
    BY <1>2, Zenon DEF Interrupt
  <2>2. ServerTypeOK'
    BY <2>1, Zenon DEF DrainInv, ServerTypeOK
  <2>3. HandsAreKnown'
    BY <2>1 DEF DrainInv, HandsAreKnown, Queued, Serving, Busy
  <2>4. EndsInOrder'
    BY <2>1 DEF DrainInv, EndsInOrder, SenderGone
  <2>5. DropsAreKnown'
    BY <2>1, Zenon DEF DrainInv, DropsAreKnown, NobodyPanicked
  <2> QED BY <2>2, <2>3, <2>4, <2>5 DEF DrainInv
<1>3. ASSUME NEW c \in Clients, Connect(c) PROVE DrainInv'
  <2>1. /\ client' \in [Clients -> {"new", "connected", "queued", "held", "served", "answered", "dropped"}]
        /\ \A d \in Clients : client'[d] = client[d] \/ client'[d] = "connected"
    BY <1>3 DEF Connect, DrainInv, ServerTypeOK
  <2>2. UNCHANGED <<listener, queue, receiver, workerAt, serves, joined, stopping>>
    BY <1>3 DEF Connect
  <2>3. ServerTypeOK'
    BY <2>1, <2>2, Zenon DEF DrainInv, ServerTypeOK
  <2>4. HandsAreKnown'
    BY <2>1, <2>2 DEF DrainInv, HandsAreKnown, Queued, Serving, Busy
  <2>5. EndsInOrder'
    BY <2>2 DEF DrainInv, EndsInOrder, SenderGone
  <2>6. \A d \in Clients : client'[d] = "dropped" => client[d] = "dropped"
    BY <2>1
  <2>7. DropsAreKnown'
    BY <2>2, <2>6, Zenon DEF DrainInv, DropsAreKnown, NobodyPanicked
  <2> QED BY <2>3, <2>4, <2>5, <2>7 DEF DrainInv
<1> QED BY <1>1, <1>2, <1>3, Zenon

LEMMA DrainStep ==
  ASSUME DrainInv, [ServerNext]_renderServerVars
  PROVE  DrainInv'
<1>1. CASE UNCHANGED renderServerVars
  BY <1>1, OutsideDrains
<1>2. ASSUME NEW ok \in BOOLEAN, Spawn(ok) PROVE DrainInv'
  BY <1>2, SpawnDrains
<1>3. CASE Listen \/ StopsListening \/ AcceptFails
  BY <1>3, ListenerDrains
<1>4. ASSUME NEW c \in Clients, Accept(c) \/ Retry(c) PROVE DrainInv'
  BY <1>4, OffersDrain
<1>5. ASSUME NEW w \in Pool, Join(w) PROVE DrainInv'
  <2>1. /\ listener = "joins" /\ Joins(w) /\ joined' = joined \cup {w}
        /\ listener' = IF workerAt[w] = "panicked" THEN "failed" ELSE IF joined' = Pool THEN "done" ELSE "joins"
        /\ UNCHANGED <<queue, receiver, workerAt, serves, stopping, client>>
    BY <1>5, Zenon DEF Join
  <2>2. "done" \in {"done", "joins ipc"}
    OBVIOUS
  <2> QED BY <2>1, <2>2, JoinsDrain, Zenon
<1>6. ASSUME NEW w \in Pool, Take(w) PROVE DrainInv'
  BY <1>6, TakeDrains
<1>7. ASSUME NEW w \in Pool, End(w) PROVE DrainInv'
  BY <1>7, EndDrains
<1>8. ASSUME NEW w \in Pool, Read(w) PROVE DrainInv'
  <2>1. Busy(w) /\ UNCHANGED <<listener, queue, receiver, joined, stopping>>
    BY <1>8 DEF Read, Busy
  <2>2. \/ Answered(w, RefusalStatus(request[serves[w][1]]))
        \/ \E on \in {"renders", "writes"} : workerAt' = [workerAt EXCEPT ![w] = on] /\ UNCHANGED <<serves, client>>
    BY <1>8, Zenon DEF Read
  <2> QED BY <2>1, <2>2, WorksDrain, Zenon
<1>9. ASSUME NEW w \in Pool, (\E wav \in Wavs : Rendered(w, wav)) \/ Writes(w) PROVE DrainInv'
  <2>1. Busy(w) /\ UNCHANGED <<listener, queue, receiver, joined, stopping>>
    BY <1>9 DEF Rendered, Writes, Busy
  <2>2. PICK code \in Nat :
          \/ Answered(w, code)
          \/ \E on \in {"renders", "writes"} : workerAt' = [workerAt EXCEPT ![w] = on] /\ UNCHANGED <<serves, client>>
    <3>1. CASE Writes(w)
      BY <3>1, Zenon DEF Writes
    <3>2. ASSUME NEW wav \in Wavs, Rendered(w, wav)
          PROVE  \/ Answered(w, IF wav = "none" THEN 500 ELSE 200)
                 \/ \E on \in {"renders", "writes"} : workerAt' = [workerAt EXCEPT ![w] = on] /\ UNCHANGED <<serves, client>>
      BY <3>2, Zenon DEF Rendered
    <3>3. 200 \in Nat /\ \A wav \in Wavs : (IF wav = "none" THEN 500 ELSE 200) \in Nat
      OBVIOUS
    <3> QED BY <1>9, <3>1, <3>2, <3>3, Zenon
  <2> QED BY <2>1, <2>2, WorksDrain, Zenon
<1>10. ASSUME NEW w \in Pool, RenderPanics(w) PROVE DrainInv'
  BY <1>10, PanicDrains
<1>11. CASE Interrupt \/ \E c \in Clients : Connect(c)
  BY <1>11, OutsideDrains, Zenon
<1> QED
  BY <1>1, <1>2, <1>3, <1>4, <1>5, <1>6, <1>7, <1>8, <1>9, <1>10, <1>11, Zenon
  DEF ServerNext, AcceptorStep, WorkerStep

\* The play server goes the same way, with one station more before the end.
LEMMA PlayDrainStep ==
  ASSUME DrainInv, [PlayNext]_playServerVars
  PROVE  DrainInv'
<1>1. CASE UNCHANGED playServerVars \/ EndsIpc
  <2>1. UNCHANGED renderServerVars
    BY <1>1, Zenon DEF playServerVars, EndsIpc
  <2> QED BY <2>1, OutsideDrains
<1>2. ASSUME NEW ok \in BOOLEAN, SpawnsWorker(ok) PROVE DrainInv'
  BY <1>2, SpawnDrains, Zenon DEF SpawnsWorker
<1>3. ASSUME NEW ok \in BOOLEAN, SpawnsIpc(ok) PROVE DrainInv'
  <2>1. CASE ok
    BY <1>3, <2>1, ListenerDrains, Zenon DEF SpawnsIpc
  <2>2. CASE ~ok
    <3>1. listener' = "failed" /\ listener = "spawning"
          /\ UNCHANGED <<spawned, workerAt, queue, receiver, serves, joined, stopping, client>>
      BY <1>3, <2>2, Zenon DEF SpawnsIpc
    <3> QED
      BY <3>1 DEF DrainInv, ServerTypeOK, HandsAreKnown, EndsInOrder, DropsAreKnown, SenderGone, NobodyPanicked, Queued,
        Serving, Busy
  <2> QED BY <2>1, <2>2, Zenon
<1>4. ASSUME NEW well \in BOOLEAN, EndsAccepting(well) PROVE DrainInv'
  <2>1. StopsListening \/ AcceptFails
    BY <1>4, Zenon DEF EndsAccepting
  <2> QED BY <2>1, ListenerDrains
<1>5. ASSUME NEW c \in Clients, Accepts(c) \/ Enqueues(c) PROVE DrainInv'
  BY <1>5, OffersDrain, Zenon DEF Accepts, Enqueues
<1>6. ASSUME NEW w \in Pool, JoinsWorker(w) PROVE DrainInv'
  <2>1. /\ listener = "joins" /\ Joins(w) /\ joined' = joined \cup {w}
        /\ listener' = IF workerAt[w] = "panicked" THEN "failed" ELSE IF joined' = Pool THEN "joins ipc" ELSE "joins"
        /\ UNCHANGED <<queue, receiver, workerAt, serves, stopping, client>>
    BY <1>6, Zenon DEF JoinsWorker
  <2>2. "joins ipc" \in {"done", "joins ipc"}
    OBVIOUS
  <2> QED BY <2>1, <2>2, JoinsDrain, Zenon
<1>7. CASE JoinsIpc
  <2>1. listener = "joins ipc" /\ listener' = "done"
        /\ UNCHANGED <<spawned, workerAt, queue, receiver, serves, joined, stopping, client>>
    BY <1>7, Zenon DEF JoinsIpc
  <2>2. ServerTypeOK' /\ HandsAreKnown'
    BY ZenonT(60), <2>1 DEF DrainInv, ServerTypeOK, HandsAreKnown, Queued, Serving, Busy
  <2>3. EndsInOrder'
    BY <2>1 DEF DrainInv, EndsInOrder, SenderGone
  <2>4. DropsAreKnown'
    BY <2>1 DEF DrainInv, DropsAreKnown, NobodyPanicked
  <2> QED BY <2>2, <2>3, <2>4 DEF DrainInv
<1>8. ASSUME NEW w \in Pool, WorkerGoes(w) PROVE DrainInv'
  BY <1>8, TakeDrains, EndDrains, Zenon DEF WorkerGoes
<1>9. ASSUME NEW w \in Pool, ReadsRequest(w) PROVE DrainInv'
  <2>1. Busy(w) /\ UNCHANGED <<listener, queue, receiver, joined, stopping>>
    BY <1>9 DEF ReadsRequest, Busy
  <2>2. \/ Answered(w, PlayStatus(request[serves[w][1]]))
        \/ \E on \in {"renders", "writes"} : workerAt' = [workerAt EXCEPT ![w] = on] /\ UNCHANGED <<serves, client>>
    BY <1>9, Zenon DEF ReadsRequest
  <2> QED BY <2>1, <2>2, WorksDrain, Zenon
<1>10. ASSUME NEW w \in Pool, NEW ok \in BOOLEAN, CallsPlayer(w, ok) PROVE DrainInv'
  <2>1. Busy(w) /\ UNCHANGED <<listener, queue, receiver, joined, stopping>>
    BY <1>10 DEF CallsPlayer, Busy
  <2>2. Answered(w, IF ok THEN DoneStatus(request[serves[w][1]]) ELSE 500)
    BY <1>10, Zenon DEF CallsPlayer
  <2> QED BY <2>1, <2>2, WorksDrain, Zenon
<1>11. ASSUME NEW w \in Pool, CallPanics(w) PROVE DrainInv'
  BY <1>11, PanicDrains, Zenon DEF CallPanics
<1>12. CASE Interrupt \/ \E c \in Clients : Connect(c)
  BY <1>12, OutsideDrains, Zenon
<1> QED
  BY <1>1, <1>2, <1>3, <1>4, <1>5, <1>6, <1>7, <1>8, <1>9, <1>10, <1>11, <1>12, Zenon
  DEF PlayNext, PlayAcceptorStep, PlayWorkerStep

LEMMA DrainedAtTheEnd == DrainInv => ShutdownDrains
<1> SUFFICES ASSUME DrainInv, listener = "done"
             PROVE  /\ InHand = {}
                    /\ NobodyPanicked => Cardinality({c \in Clients : client[c] = "dropped"}) <= 1
  BY Zenon DEF ShutdownDrains, NobodyPanicked
<1>1. queue = <<>> /\ \A w \in Pool : workerAt[w] = "ended"
  BY DEF DrainInv, EndsInOrder
<1>2. \A c \in Clients : ~Queued(c) /\ ~Serving(c)
  BY <1>1 DEF Queued, Serving, Busy
<1>3. \A c \in Clients : client[c] \notin {"queued", "served", "held"}
  BY <1>2 DEF DrainInv, HandsAreKnown
<1>4. InHand = {}
  BY <1>3 DEF InHand
<1>5. ASSUME NobodyPanicked PROVE Cardinality({c \in Clients : client[c] = "dropped"}) <= 1
  <2> DEFINE dropped == {c \in Clients : client[c] = "dropped"}
  <2>1. CASE dropped = {}
    <3>1. Cardinality(dropped) = 0
      BY <2>1, FS_EmptySet
    <3> QED BY <3>1
  <2>2. CASE dropped # {}
    <3>1. PICK c \in Clients : c \in dropped
      BY <2>2
    <3>2. \A d \in dropped : d = c
      BY <1>5, <3>1, Zenon DEF DrainInv, DropsAreKnown
    <3>3. dropped = {c}
      BY <3>1, <3>2
    <3>4. Cardinality(dropped) = 1
      BY <3>3, FS_Singleton
    <3> QED BY <3>4
  <2> QED BY <2>1, <2>2
<1> QED BY <1>4, <1>5

\* The render server: each worker that has ended left the channel empty with nobody to fill
\* it, and a connection is dropped by the shutdown from the accepting thread's hand only.
THEOREM DrainInvCorrect == ServerSpec => []DrainInv
<1> QED BY DrainInitially, DrainStep, PTL DEF ServerSpec

\* A render server that ends well has answered every connection it queued, whatever the
\* number of its workers and clients, and closed at most one unanswered.
THEOREM ShutdownDrainsCorrect == ServerSpec => []ShutdownDrains
<1> QED BY DrainInvCorrect, DrainedAtTheEnd, PTL

\* The same of the play server's HTTP side.
THEOREM PlayShutdownDrainsCorrect == PlaySpec => []ShutdownDrains
<1>1. PlayInit => DrainInv
  BY DrainInitially DEF PlayInit
<1> QED BY <1>1, PlayDrainStep, DrainedAtTheEnd, PTL DEF PlaySpec
================================================================================
