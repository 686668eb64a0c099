---------------------------- MODULE PatchCatalog ----------------------------
(***************************************************************************)
(* Which plugin and which file a saved patch string stands for             *)
(* (server-config patch_base.rs, plugin_profile.rs; core-lib               *)
(* plugin_catalog.rs; plugin-presets sforzando.rs).  A client lists the    *)
(* patches of a plugin and saves one by its display string.  Later, after  *)
(* changes of the configuration, of what is installed and of what ARIA has *)
(* registered, a server takes stock once, at its start, and from then on   *)
(* turns display strings into a plugin and a path.                         *)
(*                                                                         *)
(* A path is the sequence of its components, the drive first.  An Option   *)
(* is a sequence of at most one element.  Directories stand in sets: where *)
(* the code takes the first of several, it is the first in RootOrder.      *)
(***************************************************************************)
EXTENDS Naturals, Sequences, FiniteSets, SequencesExt

CONSTANTS
  Builtin,     \* builtin_plugin_profiles: name -> profile
  NameOrder,   \* the names a profile may have, in the order of a BTreeMap
  Normal,      \* name -> what normalized makes of it
  Configs,     \* what may stand under [plugins]: sequences of [name, over]
  FormOfId,    \* plugin id -> form of its patches
  FormOfStem,  \* plugin file -> form its file name tells
  OwnDirs,     \* form -> directories the plugin's own settings name
  Extension,   \* component of a path -> form its extension stands for
  PatchFiles,  \* the files there are
  Directories, \* the directories there are
  RootOrder,   \* the roots ARIA may have registered, in the order of their paths
  UserRoot,    \* the user bank among them
  Manifests,   \* bank manifests, each with its directory, bank and elements
  MaxChanges   \* bound: changes between saving and loading

None == <<>>
Some(x) == <<x>>
Surge == "Surge XT"
NoProfile == [path |-> None, id |-> None, dirs |-> None]

\* No directory is named like a patch file.
Folder == Seq(STRING \ DOMAIN Extension)
Profile == [path : Seq(STRING), id : Seq(STRING), dirs : Seq(SUBSET Folder)]
FormsIn(parts) == {Extension[parts[i]] : i \in {j \in DOMAIN parts : parts[j] \in DOMAIN Extension}}

ASSUME CatalogAssumption ==
  /\ NameOrder \in Seq(STRING) /\ Surge \in DOMAIN Builtin /\ DOMAIN Builtin \subseteq Range(NameOrder)
  /\ Builtin \in [DOMAIN Builtin -> Profile]
  /\ \A c \in Configs : c \in Seq([name : Range(NameOrder), over : Profile])
  /\ OwnDirs \in [DOMAIN OwnDirs -> SUBSET Folder]
  /\ RootOrder \in Seq(Folder) /\ UserRoot \in Range(RootOrder)
  /\ \A i, k \in DOMAIN RootOrder : (RootOrder[i] = RootOrder[k] => i = k) /\ Len(RootOrder[i]) > 1
  /\ \A m \in Manifests : m.dir \in Folder
  /\ \A f \in PatchFiles : f \in Seq(STRING) /\ \A x, y \in FormsIn(f) : x = y
  /\ \A f \in PatchFiles, d \in Directories : ~IsPrefix(f, d)
  /\ MaxChanges \in Nat

VARIABLES
  config,     \* the [plugins] of config.toml
  present,    \* the plugin files that exist
  registered, \* the roots ARIA has registered
  sources,    \* the catalog source cache: an Option
  kinds,      \* the server's PluginKinds; none before its start
  started,    \* what there was at its start, which no action looks at: an Option
  bookmark,   \* a saved display string, with what it was saved for: an Option
  changes     \* changes so far

worldVars == <<config, present, registered, sources>>
serverVars == <<kinds, started>>
catalogVars == <<worldVars, serverVars, bookmark, changes>>

(***************************************************************************)
(* Profiles                                                                *)
(***************************************************************************)
Or(over, own) == IF over = None THEN own ELSE over

OverriddenBy(profile, over) ==
  [path |-> Or(over.path, profile.path), id |-> Or(over.id, profile.id), dirs |-> Or(over.dirs, profile.dirs)]

MergedWith(profiles, entry) ==
  LET same == {n \in DOMAIN profiles : Normal[n] = Normal[entry.name]}
      key == IF same = {} THEN entry.name ELSE CHOOSE n \in same : TRUE
      base == IF same = {} THEN NoProfile ELSE profiles[key]
  IN  [n \in DOMAIN profiles \cup {key} |-> IF n = key THEN OverriddenBy(base, entry.over) ELSE profiles[n]]

PatchFormOf(profile) ==
  IF profile.id # None
  THEN IF profile.id[1] \in DOMAIN FormOfId THEN FormOfId[profile.id[1]] ELSE "state"
  ELSE IF profile.path # None /\ profile.path[1] \in DOMAIN FormOfStem THEN FormOfStem[profile.path[1]] ELSE "state"

\* Vaporizer2, Floe, TyrellN6 and Six Sines: config's directories do not count.
WithOwnDirs(profile) ==
  LET form == PatchFormOf(profile)
  IN  IF form \in DOMAIN OwnDirs THEN [profile EXCEPT !.dirs = Some(OwnDirs[form])] ELSE profile

Profiles ==
  LET merged[k \in 0..Len(config)] == IF k = 0 THEN Builtin ELSE MergedWith(merged[k - 1], config[k])
      all == merged[Len(config)]
  IN  [n \in DOMAIN all |-> WithOwnDirs(all[n])]

IsPresent(profile) == profile.path # None /\ profile.path[1] \in present

PatchDirs(profile) == IF profile.dirs = None THEN {} ELSE profile.dirs[1]

(***************************************************************************)
(* Bases: what a display string is relative to                             *)
(***************************************************************************)
NoBase == [how |-> "none", dirs |-> {}]

\* shared_patch_root_dir: the deepest directory above all of them.
Shared(dirs) ==
  LET above == {q \in UNION {{SubSeq(d, 1, n) : n \in 1..Len(d)} : d \in dirs} : \A d \in dirs : IsPrefix(q, d)}
  IN  IF above = {} THEN NoBase
      ELSE [how |-> "shared", dirs |-> {CHOOSE q \in above : \A p \in above : Len(p) <= Len(q)}]

PerRoot(roots) == IF roots = {} THEN NoBase ELSE [how |-> "perRoot", dirs |-> roots]

First(dirs) == CHOOSE d \in dirs : \A i, k \in DOMAIN RootOrder : RootOrder[i] = d /\ RootOrder[k] \in dirs => i <= k

\* Those of the base's directories the path is in: its place is the first.
Places(base, path) == {d \in base.dirs : IsPrefix(d, path)}

\* display_anchor: the display begins with the folder name of its root.
Anchor(base, place) == IF base.how = "perRoot" /\ Len(place) > 1 THEN Front(place) ELSE place

Display(base, path) ==
  IF Places(base, path) = {} THEN [absolute |-> TRUE, parts |-> path]
  ELSE [absolute |-> FALSE,
        parts |-> SubSeq(path, Len(Anchor(base, First(Places(base, path)))) + 1, Len(path))]

\* Of several roots of the same folder name the first.
Resolve(base, display) ==
  LET named == {d \in base.dirs : Len(d) > 1 /\ Last(d) = Head(display.parts)}
      at(parts) == [absolute |-> TRUE, parts |-> parts]
  IN  IF display.absolute \/ base.how = "none" THEN display
      ELSE IF base.how = "shared" THEN at(First(base.dirs) \o display.parts)
      ELSE IF named = {} THEN display
      ELSE at(First(named) \o Tail(display.parts))

(***************************************************************************)
(* Sforzando: roots and programs                                           *)
(***************************************************************************)
\* catalog_roots.  Without the plugin the registry is not read.
CatalogRoots(profile) ==
  IF IsPresent(profile) THEN registered ELSE {}

\* Seeded fault: a cache of other roots will do.
AnyDirs(left, right) == TRUE

SameDirs(left, right) == left = right

SforzandoBase(profile) ==
  LET current == CatalogRoots(profile)
      fits == sources # None /\ sources[1].path = profile.path /\ SameDirs(sources[1].dirs, current)
  IN  PerRoot(IF fits THEN sources[1].dirs ELSE current)

\* patch_form_of_path: an extension anywhere in the path, .wav at its end only.
PatchFormOfPath(parts) ==
  IF "cartridge" \in FormsIn(parts) THEN "cartridge"
  ELSE IF "sfz" \in FormsIn(parts) THEN "sfz"
  ELSE IF "floe" \in FormsIn(parts) THEN "floe"
  ELSE IF "vvp" \in FormsIn(parts) THEN "vvp"
  ELSE IF "sixSines" \in FormsIn(parts) THEN "sixSines"
  ELSE IF "tyrellN6" \in FormsIn(parts) THEN "tyrellN6"
  ELSE IF "wav" \in FormsIn(<<Last(parts)>>) THEN "wav"
  ELSE "state"

IsSfz(file) == file \in PatchFiles /\ FormsIn(<<Last(file)>>) = {"sfz"}

\* read_manifest: elements that are missing, elsewhere or no SFZ are left out.
ReadManifest(m) == {f \in m.elements : IsSfz(f) /\ IsPrefix(m.dir, f)}

IsUserProgram(file) == UserRoot \in registered /\ IsPrefix(UserRoot, file) /\ IsSfz(file)

\* resolve_catalog: what the file is a program of, by the user bank and by the
\* manifests at the roots or above.  Two different answers exclude each other.
ProgramsOf(file, roots) ==
  (IF IsUserProgram(file) THEN {"user"} ELSE {})
    \cup {m.bank : m \in {n \in Manifests : file \in ReadManifest(n) /\ \E r \in roots : IsPrefix(n.dir, r)}}

ListedPrograms(roots) ==
  {f \in PatchFiles : (\E r \in roots : IsPrefix(r, f)) /\ Cardinality(ProgramsOf(f, roots)) = 1}

\* resolve_sforzando_program, at the load: the user bank, then the manifests at the
\* file or above.  The first answer is taken; the others are not looked for.
ProgramsNear(file) ==
  (IF IsUserProgram(file) THEN {"user"} ELSE {})
    \cup {m.bank : m \in {n \in Manifests : IsPrefix(n.dir, Front(file)) /\ file \in ReadManifest(n)}}

IsProgram(file) == ProgramsNear(file) # {}

(***************************************************************************)
(* Kinds of plugins                                                        *)
(***************************************************************************)
\* All configured directories, be they there or not.
KindOf(profile) ==
  LET form == PatchFormOf(profile)
  IN  [form |-> form, base |-> IF form = "sfz" THEN SforzandoBase(profile) ELSE Shared(PatchDirs(profile))]

CachePlayerKind == [form |-> "wav", base |-> NoBase]

\* The places in the list: the default plugin's, those of the others that are there, in
\* the order of their names, and after them the Cache Player's.
BuiltinPlace == Len(NameOrder) + 1

Listing ==
  LET profiles == Profiles
      others == {i \in DOMAIN NameOrder : /\ NameOrder[i] \in DOMAIN profiles /\ IsPresent(profiles[NameOrder[i]])
                                          /\ profiles[NameOrder[i]].path # profiles[Surge].path}
  IN  [i \in {0} \cup others |-> IF i = 0 THEN profiles[Surge] ELSE profiles[NameOrder[i]]]

PluginKinds ==
  [i \in DOMAIN Listing \cup {BuiltinPlace} |-> IF i \in DOMAIN Listing THEN KindOf(Listing[i]) ELSE CachePlayerKind]

KindsFor(parts) == {i \in DOMAIN kinds : kinds[i].form = PatchFormOfPath(parts)}

Refused == <<>>

Opens(kind, patch) ==
  IF patch.absolute /\ patch.parts \in PatchFiles /\ (kind.form = "sfz" => IsProgram(patch.parts))
  THEN patch.parts ELSE Refused

\* PatchBases::resolve: the base of the first kind of that form that has one.
LivePath(display) ==
  LET based == {i \in KindsFor(display.parts) : kinds[i].base # NoBase}
  IN  Resolve(IF based = {} THEN NoBase ELSE kinds[CHOOSE i \in based : \A k \in based : i <= k].base, display)

\* kind_for_patch: the one that reads the form, or nobody.
Opened(found, path) ==
  IF Cardinality(found) = 1 THEN Opens(kinds[CHOOSE i \in found : TRUE], path) ELSE Refused

\* The play server makes a path of the string and chooses the plugin by the path,
\* the render server chooses the plugin by the string and then makes the path.
PlayLoads(display) == Opened(KindsFor(LivePath(display).parts), LivePath(display))

RenderLoads(display) ==
  LET found == KindsFor(display.parts)
  IN  Opened(found, Resolve(kinds[CHOOSE i \in found : TRUE].base, display))

(***************************************************************************)
(* The client, the user and the start of a server                          *)
(***************************************************************************)
CatalogInit ==
  /\ config = <<>> /\ sources = None
  /\ present = {Builtin[n].path[1] : n \in DOMAIN Builtin}
  /\ registered = {UserRoot}
  /\ kinds = <<>> /\ started = None /\ bookmark = None /\ changes = 0

\* resolve_patch_catalog: its base is that of the directories that are there.
CatalogBase(profile) ==
  IF PatchFormOf(profile) = "sfz" THEN PerRoot(CatalogRoots(profile))
  ELSE Shared(PatchDirs(profile) \cap Directories)

ListedPatches(profile) ==
  LET form == PatchFormOf(profile)
  IN  IF form = "sfz" THEN ListedPrograms(CatalogRoots(profile))
      ELSE {f \in PatchFiles : /\ PatchFormOfPath(f) = form
                               /\ \E d \in PatchDirs(profile) : IsPrefix(d, f)}

Saving(profile, base, file) ==
  [display |-> Display(base, file), file |-> file, how |-> base.how,
   place |-> IF Places(base, file) = {} THEN <<>> ELSE First(Places(base, file)),
   dirs |-> PatchDirs(profile), roots |-> registered]

Saves(profile) ==
  /\ bookmark = None
  /\ IsPresent(profile)
  /\ \E file \in ListedPatches(profile) : bookmark' = Some(Saving(profile, CatalogBase(profile), file))
  /\ UNCHANGED <<worldVars, serverVars, changes>>

\* The DAW names the recordings of its cells by their paths.
SavesRecording(file) ==
  /\ bookmark = None
  /\ PatchFormOfPath(file) = "wav"
  /\ bookmark' = Some(Saving(NoProfile, NoBase, file))
  /\ UNCHANGED <<worldVars, serverVars, changes>>

\* ServerConfig::load, plugin_kinds.
Starts ==
  /\ Profiles[Surge].path # None
  /\ kinds' = PluginKinds
  /\ started' = Some([registered |-> registered,
                      plugins |-> [i \in DOMAIN Listing \cup {BuiltinPlace} |->
                                     IF i \in DOMAIN Listing
                                     THEN [form |-> PatchFormOf(Listing[i]), dirs |-> PatchDirs(Listing[i]),
                                           there |-> IsPresent(Listing[i])]
                                     ELSE [form |-> "wav", dirs |-> {}, there |-> TRUE]]])
  /\ UNCHANGED <<worldVars, bookmark, changes>>

Changes ==
  /\ changes < MaxChanges /\ changes' = changes + 1
  /\ UNCHANGED <<serverVars, bookmark>>

Configures(c) ==
  /\ config # c /\ config' = c /\ Changes
  /\ UNCHANGED <<present, registered, sources>>

Toggled(set, x) == IF x \in set THEN set \ {x} ELSE set \cup {x}

Installs(file) ==
  /\ present' = Toggled(present, file) /\ Changes
  /\ UNCHANGED <<config, registered, sources>>

Registers(root) ==
  /\ registered' = Toggled(registered, root) /\ Changes
  /\ UNCHANGED <<config, present, sources>>

\* cmrt build-patch-catalog-cache
BuildsCache(profile) ==
  /\ PatchFormOf(profile) = "sfz" /\ IsPresent(profile)
  /\ sources' = Some([path |-> profile.path, dirs |-> CatalogRoots(profile)])
  /\ Changes /\ UNCHANGED <<config, present, registered>>

CatalogNext ==
  \/ \E profile \in Range(Profiles) : BuildsCache(profile) \/ Saves(profile)
  \/ \E f \in PatchFiles : SavesRecording(f)
  \/ Starts
  \/ \E c \in Configs : Configures(c)
  \/ \E f \in DOMAIN FormOfStem : Installs(f)
  \/ \E r \in Range(RootOrder) : Registers(r)

CatalogSpec == CatalogInit /\ [][CatalogNext]_catalogVars

(***************************************************************************)
(* Properties                                                              *)
(***************************************************************************)
FolderOf(s, roots) == {r \in roots : Last(r) = Last(s.place)}

\* The directory the patch was listed in is one of the server's: registered, with no
\* other of its folder name (docs/adr/0015: the first of them is taken), for a plugin
\* that is there, or one of the same directories as before, all of them there.
KeepsPlace(s, plugin, roots) ==
  CASE s.how = "none" -> TRUE
    [] s.how = "shared" -> plugin.dirs = s.dirs /\ s.dirs \subseteq Directories
    [] s.how = "perRoot" -> plugin.there /\ FolderOf(s, roots) = {s.place}

Readers(s) == {i \in DOMAIN started[1].plugins : started[1].plugins[i].form = PatchFormOfPath(s.file)}

\* A display string is a permanent ID (patch_base.rs:3).  In both servers it reaches
\* the file it was saved for as long as the directory it was listed in is one of the
\* server's, whatever else was installed, registered, unregistered, cached or
\* configured meanwhile (adr/0015); it may be refused then only if a root it may have
\* been listed by is gone.  It is always refused when no plugin or more than one
\* reads that form (adr/0007), and when no root has its folder name any more.
SavedPatchReachesItsFile ==
  \A i \in DOMAIN bookmark \cap DOMAIN started :
    LET s == bookmark[i]
        roots == started[i].registered
    IN  \A got \in {PlayLoads(s.display), RenderLoads(s.display)} :
          /\ Cardinality(Readers(s)) # 1 => got = Refused
          /\ (s.how = "perRoot" /\ FolderOf(s, roots) = {}) => got = Refused
          /\ (Cardinality(Readers(s)) = 1 /\ \A k \in Readers(s) : KeepsPlace(s, started[i].plugins[k], roots)) =>
               got = s.file \/ (got = Refused /\ ~(s.roots \subseteq registered))

\* A file that two different programs stand for, which the catalog leaves out for that,
\* is refused by the loader as well (docs/adr/0015:17).  The loader takes the first
\* program it finds.
ConflictsAreRefused ==
  \A i \in DOMAIN bookmark \cap DOMAIN started :
    Cardinality(ProgramsOf(bookmark[i].file, registered)) > 1 =>
      PlayLoads(bookmark[i].display) = Refused /\ RenderLoads(bookmark[i].display) = Refused
=============================================================================
