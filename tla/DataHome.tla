------------------------------ MODULE DataHome ------------------------------
(***************************************************************************)
(* The minimal data directory of Surge XT (core-lib/src/surge_data.rs).    *)
(* Every server process, before it starts a thread, makes sure that a      *)
(* directory of links to the user's data directory is up to date, builds   *)
(* it again when it is not, and points SURGE_DATA_HOME at it.  All share   *)
(* the one directory; a process may be killed between any two steps, any   *)
(* step may fail, and an update of Surge may change the data directory.    *)
(*                                                                         *)
(* Contents of files are left out: what counts is which entries there are, *)
(* of what kind, and whether the files behind a link are still there.      *)
(***************************************************************************)
EXTENDS Naturals

CONSTANTS
  Processes,  \* the server processes that start, one entry per start
  Wavetables, \* the entry whose presence makes a directory look like Surge's
  Emptied,    \* EMPTIED: the other directories replaced by an empty one
  Linked,     \* directories shared by a link
  Copied,     \* plain files, copied
  MaxUpdates  \* bound: updates of the data directory

EmptyDirs == {Wavetables} \cup Emptied
Names == EmptyDirs \cup Linked \cup Copied

\* What the program puts there besides: patches_factory with the one link
\* Templates in it, patches_3rdparty, and last the marker with the source's path.
Fixed == {"factory", "Templates", "3rdparty", "marker"}
Places == Names \cup Fixed

ASSUME DataHomeAssumption ==
  /\ MaxUpdates \in Nat
  /\ EmptyDirs \cap Linked = {} /\ (EmptyDirs \cup Linked) \cap Copied = {}
  /\ Names \cap Fixed = {}

VARIABLES
  source,    \* entries of the data directory but for the patches
  patches,   \* its patches_factory/Templates holds an .fxp file
  vanished,  \* entries behind links whose files were deleted
  tree,      \* the minimal directory
  env,       \* process -> SURGE_DATA_HOME names the minimal directory
  at,        \* process -> where apply_minimal_surge_data_home is
  from,      \* process -> what it takes for the data directory
  todo,      \* process -> places still to clear, the one it has looked at, places to create
  disturbed, \* process -> something changed under it while it was at work
  updates    \* updates so far

treeVars == <<vanished, tree>>
sourceVars == <<source, patches, updates>>
processVars == <<env, at, from, todo, disturbed>>
homeVars == <<treeVars, sourceVars, processVars>>

AtWork == {"clearing", "creating", "checking"}

(***************************************************************************)
(* What makes a tree current                                               *)
(***************************************************************************)
KindOf(name) ==
  CASE name \in EmptyDirs -> "dir" [] name \in Linked -> "link" [] OTHER -> "file"

TopLevel == Places \ {"Templates"}

\* The tree that rebuild_tree makes of entries, from nothing to the end.
Built(entries) ==
  [p \in Places |->
    CASE p \in entries -> KindOf(p)
      [] p \in {"factory", "3rdparty"} -> "dir"
      [] p = "Templates" -> "link"
      [] p = "marker" -> "file"
      [] OTHER -> "none"]

\* exists() follows a link to what is no longer there.
Exists(name) == tree[name] # "none" /\ (tree[name] = "link" => name \in source)

Expected(entries) == entries \cup {"factory", "3rdparty", "marker"}

\* Seeded fault: an entry that is there is taken for the empty directory.
AnyWillDo(name) == tree[name] # "none"

\* Links of an older version stand where directories are now left empty.
StillEmpty(name) == tree[name] = "dir"

TreeIsCurrent(entries) ==
  /\ tree["marker"] = "file"
  /\ tree["3rdparty"] = "dir" /\ tree["factory"] = "dir" /\ tree["Templates"] = "link"
  /\ \A n \in entries : Exists(n)
  /\ \A n \in entries \cap EmptyDirs : StillEmpty(n)
  /\ {p \in TopLevel : tree[p] # "none"} = Expected(entries)

\* The minimal directory looks like a data directory, too.
LooksLikeDataHome(home) ==
  IF home = "minimal" THEN tree["Templates"] = "link" /\ tree[Wavetables] # "none"
                      ELSE Wavetables \in source

EntriesOf(home) ==
  IF home = "minimal" THEN {n \in Names : tree[n] # "none"} ELSE source

\* Seeded fault: a junction is entered like a directory.
NoLinks(kind) == kind = "-"

IsLink(kind) == kind = "link"

TakenFor(kind) == IF IsLink(kind) THEN "link" ELSE IF kind = "file" THEN "file" ELSE "dir"
Nowhere == [place |-> "none", as |-> "no"]

(***************************************************************************)
(* Steps of one process                                                    *)
(***************************************************************************)
\* Whoever else is at work finds the directory changed under its hands.
Disturbs(p) ==
  disturbed' = [q \in Processes |-> disturbed[q] \/ (q # p /\ at[q] \in AtWork)]

\* With the directory applied, or with Surge's own: nothing is left to do.
NothingToDo == [clear |-> {}, seen |-> Nowhere, create |-> {}]

GetsOut(p, result) ==
  /\ at' = [at EXCEPT ![p] = result]
  /\ from' = [from EXCEPT ![p] = "original"]
  /\ todo' = [todo EXCEPT ![p] = NothingToDo]
  /\ disturbed' = [disturbed EXCEPT ![p] = FALSE]

\* An environment inherited from a process that pointed it at the minimal
\* directory is taken as it is, as long as the marker is there.
AlreadyApplied(p) == env[p] /\ tree["marker"] = "file"

Candidate(p) == IF env[p] THEN "minimal" ELSE "original"

Starts(p) ==
  /\ at[p] = "new"
  /\ \E inherited \in BOOLEAN :
       /\ inherited => \E q \in Processes : at[q] = "applied"
       /\ env' = [env EXCEPT ![p] = inherited]
  /\ at' = [at EXCEPT ![p] = "looking"]
  /\ UNCHANGED <<treeVars, sourceVars, from, todo, disturbed>>

TakesTheEnvironment(p) ==
  /\ at[p] = "looking" /\ AlreadyApplied(p)
  /\ at' = [at EXCEPT ![p] = "applied"]
  /\ UNCHANGED <<treeVars, sourceVars, env, from, todo, disturbed>>

\* sync_minimal_tree: nothing to do, or clear_dir lists what is there.
Compares(p) ==
  /\ at[p] = "looking" /\ ~AlreadyApplied(p)
  /\ LET home == Candidate(p)
         current == TreeIsCurrent(EntriesOf(home)) /\ home = "original"
     IN IF ~LooksLikeDataHome(home)
        THEN GetsOut(p, "default")
        ELSE /\ from' = [from EXCEPT ![p] = home]
             /\ disturbed' = [disturbed EXCEPT ![p] = FALSE]
             /\ IF current
                THEN at' = [at EXCEPT ![p] = "checking"] /\ UNCHANGED todo
                ELSE /\ at' = [at EXCEPT ![p] = "clearing"]
                     /\ todo' = [todo EXCEPT ![p] =
                          [clear |-> {q \in Places : tree[q] # "none"}, seen |-> Nowhere,
                           create |-> EntriesOf(home) \cup Fixed]]
  /\ UNCHANGED <<treeVars, sourceVars, env>>

\* remove_entry looks at an entry: what is gone is done with.  In any order, as the
\* directory is read; Templates before the directory it is in.
LooksAt(p, place) ==
  /\ at[p] = "clearing" /\ todo[p].seen = Nowhere
  /\ place \in todo[p].clear /\ (place = "factory" => "Templates" \notin todo[p].clear)
  /\ todo' = IF tree[place] = "none" THEN [todo EXCEPT ![p].clear = @ \ {place}]
             ELSE [todo EXCEPT ![p].seen = [place |-> place, as |-> TakenFor(tree[place])]]
  /\ UNCHANGED <<treeVars, sourceVars, env, at, from, disturbed>>

\* What it took for a link or a file goes, if it is one still; in place of a link Windows
\* removes an empty directory, too, and elsewhere that Fails.  A directory goes with all
\* that is in it, and if a link stands there by now, that is the source's.
CanRemove(seen) ==
  CASE seen.as = "link" -> tree[seen.place] \in {"link", "dir"}
    [] seen.as = "dir" -> /\ tree[seen.place] \in {"dir", "filled", "link"}
                          /\ seen.place = "factory" => tree["Templates"] = "none"
    [] OTHER -> tree[seen.place] = "file"

Removes(p) ==
  /\ at[p] = "clearing" /\ todo[p].seen # Nowhere
  /\ LET seen == todo[p].seen
     IN IF CanRemove(seen)
        THEN /\ tree' = [tree EXCEPT ![seen.place] = "none"]
             /\ vanished' = IF seen.as = "dir" /\ tree[seen.place] = "link"
                            THEN vanished \cup {seen.place} ELSE vanished
             /\ todo' = [todo EXCEPT ![p].clear = @ \ {seen.place}, ![p].seen = Nowhere]
             /\ Disturbs(p)
             /\ UNCHANGED <<at, from>>
        ELSE GetsOut(p, "default") /\ UNCHANGED treeVars
  /\ UNCHANGED <<sourceVars, env>>

StartsToCreate(p) ==
  /\ at[p] = "clearing" /\ todo[p].clear = {}
  /\ at' = [at EXCEPT ![p] = "creating"]
  /\ UNCHANGED <<treeVars, sourceVars, env, from, todo, disturbed>>

\* The entries of the source come first, the marker last.
ClearedFirst(entries) ==
  IF entries \cap Names # {} THEN entries \cap Names
  ELSE IF "factory" \in entries THEN {"factory"}
  ELSE IF "Templates" \in entries THEN {"Templates"}
  ELSE IF "3rdparty" \in entries THEN {"3rdparty"}
  ELSE entries

\* What is to be made must not be there, unless it is a file, and what it is made
\* from must; one that takes the minimal directory for the source has removed it.
CanCreate(p, place) ==
  /\ tree[place] = "none" \/ place \in Copied \cup {"marker"}
  /\ place = "Templates" => tree["factory"] = "dir"
  /\ place \in Names => from[p] = "original" /\ place \in source

Creates(p) ==
  /\ at[p] = "creating" /\ todo[p].create # {}
  /\ \E place \in ClearedFirst(todo[p].create) :
       IF CanCreate(p, place)
       THEN /\ tree' = [tree EXCEPT ![place] = Built({place} \cap Names)[place]]
            /\ todo' = [todo EXCEPT ![p].create = @ \ {place}]
            /\ Disturbs(p)
            /\ UNCHANGED <<at, from>>
       ELSE GetsOut(p, "default") /\ UNCHANGED tree
  /\ UNCHANGED <<vanished, sourceVars, env>>

HasCreated(p) ==
  /\ at[p] = "creating" /\ todo[p].create = {}
  /\ at' = [at EXCEPT ![p] = "checking"]
  /\ UNCHANGED <<treeVars, sourceVars, env, from, todo, disturbed>>

\* ensure_templates_not_empty, and set_var.
Applies(p) ==
  /\ at[p] = "checking"
  /\ IF tree["Templates"] = "link" /\ patches
     THEN GetsOut(p, "applied") /\ env' = [env EXCEPT ![p] = TRUE]
     ELSE GetsOut(p, "default") /\ UNCHANGED env
  /\ UNCHANGED <<treeVars, sourceVars>>

\* An error of the file system at any step, or the end of the process.
Fails(p) ==
  /\ at[p] \in AtWork \cup {"looking"}
  /\ GetsOut(p, "default")
  /\ UNCHANGED <<treeVars, sourceVars, env>>

\* Surge is updated, or its data directory loses an entry.
UpdatesSource ==
  /\ updates < MaxUpdates
  /\ updates' = updates + 1
  /\ \E n \in Names :
       source' = IF n \in source THEN source \ {n} ELSE source \cup {n}
  /\ disturbed' = [q \in Processes |-> disturbed[q] \/ at[q] \in AtWork]
  /\ UNCHANGED <<treeVars, patches, env, at, from, todo>>

\* All have started and are done with it.
AllSet ==
  /\ \A p \in Processes : at[p] \in {"applied", "default"}
  /\ UNCHANGED homeVars

(***************************************************************************)
(* Beginning and specification                                             *)
(***************************************************************************)
\* No directory yet, one that is complete, or one made by the version that still
\* linked the directories left empty now; and someone may have put a file there.
Linking == [Built(Names) EXCEPT ![Wavetables] = "link"]
Filled == [Built(Names) EXCEPT ![Wavetables] = "filled"]

HomeInit ==
  /\ source = Names /\ patches \in BOOLEAN /\ vanished = {} /\ updates = 0
  /\ tree \in {[p \in Places |-> "none"], Built(Names), Linking, Filled}
  /\ env = [p \in Processes |-> FALSE]
  /\ at = [p \in Processes |-> "new"]
  /\ from = [p \in Processes |-> "original"]
  /\ todo = [p \in Processes |-> NothingToDo]
  /\ disturbed = [p \in Processes |-> FALSE]

HomeNext ==
  \/ \E p \in Processes :
       \/ Starts(p) \/ TakesTheEnvironment(p) \/ Compares(p)
       \/ Removes(p) \/ StartsToCreate(p) \/ Creates(p) \/ HasCreated(p)
       \/ Applies(p) \/ Fails(p)
       \/ \E place \in Places : LooksAt(p, place)
  \/ UpdatesSource
  \/ AllSet

HomeSpec == HomeInit /\ [][HomeNext]_homeVars

(***************************************************************************)
(* Properties                                                              *)
(***************************************************************************)
\* Whatever tree a process finds, and wherever an earlier one was stopped, the
\* files of the user's data directory stay: remove_entry never goes through a link.
SourceIsIntact == vanished = {}

\* A process that found the directory current or built it, with nobody else at work
\* on it meanwhile, points Surge at a whole one: what a stopped process left half
\* built is told from what is complete (tree_is_current, the marker written last).
AppliedTreeIsWhole ==
  [][\A p \in Processes :
       (at[p] = "checking" /\ at'[p] = "applied" /\ ~disturbed[p]) => tree = Built(source)]_homeVars

=============================================================================
