---------------------------- MODULE BankInstance ----------------------------
(***************************************************************************)
(* The instances of one bank as its worker thread drives them              *)
(* (player/worker/bank/state.rs): the renderer that holds a plugin         *)
(* (core-lib/src/render), the effect chain behind it and the fadeout.      *)
(*                                                                         *)
(* The thread is sequential; what is hard is the history.  A renderer      *)
(* knows its notes and its patch only from a ledger of its own, an         *)
(* instance is exchanged for a spare, a load may fail half-way, a fade     *)
(* holds back the events of the line that follows it.                      *)
(*                                                                         *)
(* A plugin is what the renderer's comments expect of it: a NoteOff ends   *)
(* one voice of its key, reset() ends none, except that of the cache       *)
(* player, which ignores NoteOffs and is silenced by reset().  A call it   *)
(* refuses to process leaves its voices as they are.  Samples, gains and   *)
(* the length of a block are left out: a fade lasts a number of blocks.    *)
(***************************************************************************)
EXTENDS Naturals, Sequences, FiniteSets, SequencesExt

CONSTANTS
  Instances,   \* local indices of the bank
  Patches,     \* patches other than the initial one
  FormOf,      \* the PatchTarget of each of them, which also tells the plugin
  InitPatch,   \* None: the state taken when the plugin was created
  DefaultForm, \* the plugin of the bank's slots at the start, and that of None
  Unknown,     \* nobody knows which
  Keys,        \* notes
  Chains,      \* effect chains
  NoChain,     \* the empty chain
  MaxFade,     \* bound: blocks a fadeout takes
  MaxDepth,    \* bound: notes of a key at a time
  MaxCommands  \* bound: commands in a behaviour

\* The formats of switch_patch that load differently: one state.load, one with
\* blocks to apply it, a load the plugin finishes by itself, a voice sent through
\* process(), two states between a stop and a restart of the processor, a path that
\* replaces a slot.
PatchTargets == {"state", "applied", "pending", "cartridge", "sfz", "cache"}

ASSUME InstanceAssumption ==
  /\ IsFiniteSet(Keys)
  /\ FormOf \in [Patches -> PatchTargets] /\ DefaultForm \in PatchTargets
  /\ InitPatch \notin Patches /\ Unknown \notin Patches \union {InitPatch}
  /\ NoChain \notin Chains

VARIABLES
  renderers, \* BankState.renderers
  shelf,     \* the renderer of each plugin that was exchanged last
  loaded,    \* InstanceChains.loaded
  post,      \* InstancePostProcesses.slots
  fades,     \* InstanceFades.slots
  line,      \* history: number of the line the client plays on an instance
  faded,     \* history: the line a fadeout has ended, 0 if none
  due,       \* history: events of a later line the renderer has not had before
  passed,    \* history: events the last block gave to the renderer
  commands   \* bound: number of commands so far

bankVars == <<renderers, shelf, loaded, post, fades>>
historyVars == <<line, faded, due, passed>>
instanceVars == <<bankVars, historyVars, commands>>

Requested == Patches \union {InitPatch}
PluginOf(patch) == IF patch = InitPatch THEN DefaultForm ELSE FormOf[patch]
Events == [key: Keys, what: {"on", "off", "all_off"}]
NoNotes == [k \in Keys |-> 0]

\* What RealtimeRenderer remembers (current, program, running, depth, release),
\* what is in its plugin (actual, sounding), whether its thread has panicked over
\* it, and history (spoilt, lost).
Fresh(plugin) ==
  [plugin |-> plugin, current |-> InitPatch, program |-> Unknown, running |-> TRUE,
   depth |-> NoNotes, release |-> FALSE, actual |-> InitPatch, sounding |-> NoNotes,
   crashed |-> FALSE, spoilt |-> FALSE, lost |-> FALSE]

NoFade == [remaining |-> 0, silenced |-> FALSE, newLine |-> FALSE, held |-> <<>>, released |-> FALSE]

InstanceInit ==
  /\ renderers = [i \in Instances |-> Fresh(DefaultForm)]
  /\ shelf = [f \in PatchTargets |-> Fresh(f)]
  /\ loaded = [i \in Instances |-> [patch |-> Unknown, chain |-> NoChain]]
  /\ post = [i \in Instances |-> NoChain]
  /\ fades = [i \in Instances |-> NoFade]
  /\ line = [i \in Instances |-> 1]
  /\ faded = [i \in Instances |-> 0]
  /\ due = [i \in Instances |-> <<>>]
  /\ passed = [i \in Instances |-> <<>>]
  /\ commands = 0

(***************************************************************************)
(* The renderer: notes                                                     *)
(***************************************************************************)
KeepsVoices(r) == r.plugin = "cache"

\* The ledger counts down whatever the plugin does, ...
Recorded(depth, e) ==
  CASE e.what = "on" -> [depth EXCEPT ![e.key] = @ + 1]
    [] e.what = "off" -> [depth EXCEPT ![e.key] = IF @ = 0 THEN 0 ELSE @ - 1]
    [] e.what = "all_off" -> NoNotes

\* ... and a plugin other than the cache player does the same with its voices.
Played(plugin, sounding, e) ==
  IF plugin = "cache" /\ e.what # "on" THEN sounding ELSE Recorded(sounding, e)

\* Seeded fault: the ledger is not told of the events of a block.
RecordNothing(r, events) == r.depth
Ledger(r, events) ==
  LET after[n \in 0 .. Len(events)] == IF n = 0 THEN r.depth ELSE Recorded(after[n - 1], events[n])
  IN after[Len(events)]

Voices(r, events) ==
  LET after[n \in 0 .. Len(events)] == IF n = 0 THEN r.sounding ELSE Played(r.plugin, after[n - 1], events[n])
  IN after[Len(events)]

\* process(): the plugin plays the events and the ledger records them, or it
\* refuses the block.  Without a processor the thread panics.
GivenEvents(r, events) ==
  [r EXCEPT !.sounding = Voices(r, events), !.depth = Ledger(r, events)]

Blocks(r, events) ==
  IF r.running THEN {[r |-> GivenEvents(r, events), ok |-> TRUE], [r |-> r, ok |-> FALSE]}
  ELSE {[r |-> [r EXCEPT !.crashed = TRUE], ok |-> FALSE]}

\* note_off_events: one for each note in the ledger; the order of the keys is left open.
NoteOffs(r) ==
  LET notes == SetToSeq(UNION {{k} \X (1 .. r.depth[k]) : k \in Keys})
  IN [n \in 1 .. Len(notes) |-> [key |-> notes[n][1], what |-> "off"]]

\* take_pending_release
WithRelease(r, events) == IF r.release THEN NoteOffs(r) \o events ELSE events
LiveBlock(r, events) == Blocks([r EXCEPT !.release = FALSE], WithRelease(r, events))

Silenced(r) == [r EXCEPT !.release = FALSE, !.sounding = NoNotes, !.depth = NoNotes]

\* The renderers release_all_notes() may leave.
ReleasedNow(r) ==
  IF ~r.running \/ (r.depth = NoNotes /\ ~KeepsVoices(r)) THEN {[r EXCEPT !.release = FALSE]}
  ELSE IF KeepsVoices(r) THEN {Silenced(r)}
  ELSE {b.r : b \in Blocks([r EXCEPT !.release = FALSE], NoteOffs(r))}

ReleasedNext(r) ==
  IF r.running /\ KeepsVoices(r) THEN ReleasedNow(r) ELSE {[r EXCEPT !.release = @ \/ r.running]}

\* reset() clears the ledger although the plugin may have refused the NoteOffs.
WasReset(r) == {[x EXCEPT !.depth = NoNotes, !.lost = @ \/ x.depth # NoNotes] : x \in ReleasedNow(r)}

(***************************************************************************)
(* The renderer: patches.  A load ends in one of several ways; "spoilt"    *)
(* tells that a failed one has changed what the plugin plays although      *)
(* current_patch still names the patch before.                             *)
(***************************************************************************)
Done(r, patch) == [r |-> [r EXCEPT !.actual = patch, !.current = patch, !.spoilt = FALSE], ok |-> TRUE]
Untouched(r) == [r |-> r, ok |-> FALSE]
Spoilt(r, actual) == [r |-> [r EXCEPT !.actual = actual, !.spoilt = TRUE], ok |-> FALSE]

\* Seeded fault: the voice of a cartridge counts as loaded after another state.
KeepsProgram(r) == r
Forgotten(r) == [r EXCEPT !.program = Unknown]

\* load_plugin_state: a file that cannot be read is found before, a state the
\* plugin refuses is not.
Refused(r) == {Untouched(r), Spoilt(r, Unknown)}
LoadState(r, patch) == Refused(r) \union {Done(r, patch)}

\* Six Sines and TyrellN6: the state is in the plugin before the blocks that
\* apply it, which may be refused.
LoadApplied(r, patch) == Refused(r) \union {Spoilt(r, patch), Done(r, patch)}

\* Floe: the plugin may still be at it when the wait ends.
LoadPending(r, patch) == Refused(r) \union {Spoilt(r, patch), Done(r, patch)}

\* Dexed: one voice is sent as an event, then a block lets it settle.
LoadCartridge(r, patch) ==
  IF r.program = patch THEN {[r |-> [r EXCEPT !.current = patch, !.spoilt = FALSE], ok |-> TRUE]}
  ELSE UNION {LET sent == [x EXCEPT !.program = patch]
              IN {Untouched(Forgotten(x)), Spoilt(sent, patch), Done(sent, patch)} : x \in ReleasedNow(r)}

\* sforzando: the initial state, then the state of the patch, between a stop and
\* a restart of the processor.
LoadSfz(r, patch) ==
  LET loads == {Spoilt(r, Unknown), Spoilt(r, InitPatch), Done(r, patch)}
      notRestarted(e) == Spoilt([r EXCEPT !.running = FALSE], e.r.actual)
  IN {Untouched(r)} \union IF r.running THEN loads \union {notRestarted(e) : e \in loads} ELSE {}

LoadOther(r, patch) ==
  CASE patch # InitPatch /\ PluginOf(patch) = "applied" -> LoadApplied(r, patch)
    [] patch # InitPatch /\ PluginOf(patch) = "pending" -> LoadPending(r, patch)
    [] patch # InitPatch /\ PluginOf(patch) = "sfz" -> LoadSfz(r, patch)
    [] OTHER -> LoadState(r, patch)

ReloadsOnSamePatch(patch) == patch # InitPatch /\ PluginOf(patch) = "cache"

SetPatch(r, patch) ==
  IF r.current = patch /\ ~ReloadsOnSamePatch(patch) THEN {[r |-> r, ok |-> TRUE]}
  ELSE IF patch # InitPatch /\ PluginOf(patch) = "cartridge" THEN LoadCartridge(r, patch)
  ELSE LoadOther(Forgotten(r), patch)

MaySpin(r) == ~KeepsVoices(r)

\* switch_patch
SwitchPatch(r, patch, resetBefore, settle) ==
  LET set == UNION {SetPatch(x, patch) : x \in IF resetBefore /\ MaySpin(r) THEN WasReset(r) ELSE {r}}
  IN UNION {IF s.ok /\ settle /\ MaySpin(r) THEN LiveBlock(s.r, <<>>) ELSE {s} : s \in set}

\* probe_voicing: blocks to settle, blocks with two notes and their NoteOffs, and a
\* reset, which knows nothing of these notes when the plugin refuses one of the blocks.
ProbeVoicing(r) ==
  IF ~r.running THEN Blocks(r, <<>>)
  ELSE {Untouched(r)}
       \union {[r |-> x, ok |-> TRUE] : x \in WasReset(r)}
       \union {[r |-> [x EXCEPT !.sounding = [k \in Keys |-> @[k] + 1], !.lost = TRUE], ok |-> FALSE] : x \in WasReset(r)}

Slotted(i, patch) ==
  LET old == renderers[i]
      plugin == PluginOf(patch)
  IN IF old.plugin = plugin THEN {[r |-> old, shelf |-> shelf, ok |-> TRUE]}
     ELSE {[r |-> old, shelf |-> shelf, ok |-> FALSE]}
          \union {[r |-> spare, shelf |-> [shelf EXCEPT ![old.plugin] = x], ok |-> TRUE]
                    : spare \in {Fresh(plugin), shelf[plugin]}, x \in WasReset(old)}

\* load_patch, and the same with a probe
LoadPatch(i, patch, resetBefore, settle) ==
  UNION {IF s.ok THEN {[r |-> x.r, shelf |-> s.shelf, ok |-> x.ok]
                         : x \in SwitchPatch(s.r, patch, resetBefore, settle)}
         ELSE {s} : s \in Slotted(i, patch)}

ProbedPatch(i, patch) ==
  UNION {IF s.ok THEN {[r |-> x.r, shelf |-> s.shelf, ok |-> x.ok] : x \in ProbeVoicing(s.r)}
         ELSE {s} : s \in LoadPatch(i, patch, TRUE, FALSE)}

(***************************************************************************)
(* Fadeouts                                                                *)
(***************************************************************************)
Fading(f) == f.remaining > 0
Held(f) == IF f.released THEN <<>> ELSE f.held

\* start: over a fade it fades again, over a silence it only drops what was held.
Started(f, blocks) ==
  [f EXCEPT !.held = <<>>, !.released = FALSE, !.newLine = FALSE,
            !.remaining = IF f.silenced THEN @ ELSE blocks]

NewLine(f) == [f EXCEPT !.newLine = TRUE]

\* Seeded fault: the block that ends the silence leaves behind what was held before it.
LeavesHeld(f, events) ==
  LET g == [f EXCEPT !.held = Held(f), !.released = FALSE]
      all == g.held \o events
  IN IF ~Fading(f) /\ ~f.silenced THEN [f |-> g, events |-> events]
     ELSE IF ~f.newLine THEN [f |-> g, events |-> <<>>]
     ELSE IF Fading(f) \/ all = <<>> THEN [f |-> [g EXCEPT !.held = all], events |-> <<>>]
     ELSE [f |-> [g EXCEPT !.held = <<>>, !.silenced = FALSE, !.newLine = FALSE], events |-> events]

\* block_events: the fade after it and the events the renderer gets.
BlockEvents(f, events) ==
  LET g == [f EXCEPT !.held = Held(f), !.released = FALSE]
      all == g.held \o events
  IN IF ~Fading(f) /\ ~f.silenced THEN [f |-> g, events |-> events]
     ELSE IF ~f.newLine THEN [f |-> g, events |-> <<>>]
     ELSE IF Fading(f) \/ all = <<>> THEN [f |-> [g EXCEPT !.held = all], events |-> <<>>]
     ELSE [f |-> [g EXCEPT !.held = all, !.released = TRUE, !.silenced = FALSE, !.newLine = FALSE],
           events |-> all]

\* apply: one block of the ramp; TRUE when it has come to 0.
Applied(f) == IF f.silenced \/ ~Fading(f) THEN f
              ELSE [f EXCEPT !.remaining = @ - 1, !.silenced = @ \/ f.remaining = 1]
HasEnded(f) == ~f.silenced /\ f.remaining = 1

(***************************************************************************)
(* The commands of the bank                                                *)
(***************************************************************************)
\* A thread that has panicked takes no command; a release never makes one panic.
Served ==
  /\ commands < MaxCommands /\ \A i \in Instances: ~renderers[i].crashed
  /\ commands' = commands + 1

\* History of an instance whose fade is dropped, and of one that begins a line.
Unfaded(is) ==
  /\ faded' = [i \in Instances |-> IF i \in is THEN 0 ELSE faded[i]]
  /\ due' = [i \in Instances |-> IF i \in is THEN <<>> ELSE due[i]]
  /\ passed' = [i \in Instances |-> IF i \in is THEN <<>> ELSE passed[i]]

BeginsLine(is) ==
  /\ fades' = [i \in Instances |-> IF i \in is THEN NewLine(fades[i]) ELSE fades[i]]
  /\ line' = [i \in Instances |-> IF i \in is THEN line[i] + 1 ELSE line[i]]
  /\ UNCHANGED <<faded, due, passed>>

\* release_all, reset_all, release_instance: the renderers of some instances are
\* silenced, each with one of its outcomes, and their fades cleared.
Stops(outcomes) ==
  /\ Served
  /\ renderers' \in {f \in [Instances -> UNION ({outcomes[i] : i \in DOMAIN outcomes} \cup {{renderers[i]} : i \in Instances})] :
                       \A i \in Instances: IF i \in DOMAIN outcomes THEN f[i] \in outcomes[i] ELSE f[i] = renderers[i]}
  /\ fades' = [i \in Instances |-> IF i \in DOMAIN outcomes THEN NoFade ELSE fades[i]]
  /\ Unfaded(DOMAIN outcomes)
  /\ UNCHANGED <<shelf, loaded, post, line>>

ReleaseAll == Stops([i \in Instances |-> ReleasedNow(renderers[i])])
ResetAll == Stops([i \in Instances |-> WasReset(renderers[i])])
ReleaseInstance(i) == Stops([j \in {i} |-> ReleasedNow(renderers[j])])

\* release_all_in_next_block: a new timeline over notes that go on.
ReleaseAllInNextBlock ==
  /\ Served
  /\ renderers' \in {f \in [Instances -> UNION {ReleasedNext(renderers[i]) : i \in Instances}] :
                       \A i \in Instances: f[i] \in ReleasedNext(renderers[i])}
  /\ BeginsLine(Instances)
  /\ UNCHANGED <<shelf, loaded, post>>

FadeOut(i, blocks) ==
  /\ Served
  /\ fades' = [fades EXCEPT ![i] = Started(@, blocks)]
  /\ faded' = [faded EXCEPT ![i] = line[i]]
  /\ due' = [due EXCEPT ![i] = <<>>]
  /\ passed' = [passed EXCEPT ![i] = <<>>]
  /\ UNCHANGED <<renderers, shelf, loaded, post, line>>

\* What the chain makes of a block that was rendered.
ChainFails(i) == IF post[i] = NoChain THEN {FALSE} ELSE BOOLEAN

\* finish_instance_output: a broken instance loses its fade, and it and one whose fade
\* has ended are reset.
Finished(block, x, fails) ==
  LET broken == ~x.ok \/ fails
  IN [broken |-> broken,
      r |-> IF x.r.crashed \/ ~(broken \/ HasEnded(block.f)) THEN {x.r} ELSE WasReset(x.r),
      f |-> IF broken THEN NoFade ELSE Applied(block.f)]

\* One instance of render_block.
RenderBlock(i, events) ==
  LET block == BlockEvents(fades[i], events)
      heard == (IF passed[i] = <<>> THEN due[i] ELSE <<>>) \o IF line[i] > faded[i] THEN events ELSE <<>>
  IN /\ Served
     /\ \E x \in LiveBlock(renderers[i], block.events), fails \in ChainFails(i):
          LET end == Finished(block, x, fails)
          IN /\ \E r \in end.r: renderers' = [renderers EXCEPT ![i] = r]
             /\ fades' = [fades EXCEPT ![i] = end.f]
             /\ IF end.broken THEN Unfaded({i})
                ELSE /\ due' = [due EXCEPT ![i] = heard]
                     /\ passed' = [passed EXCEPT ![i] = block.events]
                     /\ UNCHANGED faded
     /\ UNCHANGED <<shelf, loaded, post, line>>

\* render_scheduled: no fade, no chain, and no pending release is taken.
RenderScheduled(i, events) ==
  /\ Served
  /\ \E x \in Blocks(renderers[i], events): renderers' = [renderers EXCEPT ![i] = x.r]
  /\ UNCHANGED <<shelf, loaded, post, fades, historyVars>>

\* build_chain: fails, or gives a chain, or none when no stage of it is enabled.
Built(chain) == IF chain = NoChain THEN {NoChain} ELSE {chain, NoChain}

\* Seeded fault: after a failed load the slot still names the patch before.
KeepsPatch(was) == was
Forgets(was) == [was EXCEPT !.patch = Unknown]

\* InstanceChains.prepare: the chain is built first; a request that only changes the
\* chain loads nothing; after a failed load the chain stays and the patch is not
\* known.
Prepared(i, patch, chain, resetBefore, settle) ==
  LET was == loaded[i]
      changes == chain # was.chain
      loads == IF changes /\ patch = was.patch
               THEN {[r |-> renderers[i], shelf |-> shelf, ok |-> TRUE]}
               ELSE LoadPatch(i, patch, resetBefore, settle)
      notBuilt == IF changes /\ chain # NoChain
                  THEN {[r |-> renderers[i], shelf |-> shelf, loaded |-> was, post |-> post[i]]} ELSE {}
  IN notBuilt \union
     {[r |-> x.r, shelf |-> x.shelf, loaded |-> Forgets(was), post |-> post[i]] : x \in {y \in loads: ~y.ok}} \union
     {[r |-> x.r, shelf |-> x.shelf, loaded |-> [patch |-> patch, chain |-> chain],
       post |-> IF changes THEN c ELSE post[i]] : x \in {y \in loads: y.ok}, c \in Built(chain)}

PreparePatch(i, patch, chain, resetBefore, settle) ==
  /\ Served
  /\ \E p \in Prepared(i, patch, chain, resetBefore, settle):
       /\ renderers' = [renderers EXCEPT ![i] = p.r]
       /\ shelf' = p.shelf
       /\ loaded' = [loaded EXCEPT ![i] = p.loaded]
       /\ post' = [post EXCEPT ![i] = p.post]
  /\ BeginsLine({i})

ProbePatch(i, patch) ==
  /\ Served
  /\ \E p \in ProbedPatch(i, patch):
       /\ renderers' = [renderers EXCEPT ![i] = p.r]
       /\ shelf' = p.shelf
  /\ loaded' = [loaded EXCEPT ![i] = Forgets(@)]
  /\ BeginsLine({i})
  /\ UNCHANGED post

\* Events of a block: none, or one.
Batches == {<<>>} \union {<<e>> : e \in Events}

Fits(r, events) ==
  \A k \in Keys: LET ons == Len(SelectSeq(events, LAMBDA e: e = [key |-> k, what |-> "on"]))
                 IN r.sounding[k] + ons <= MaxDepth /\ r.depth[k] + ons <= MaxDepth

\* prepare_patch, the load of a scheduled playback, which always has instance 0, and
\* the probe.
Prepares(i) ==
  \E patch \in Requested:
    \/ \E chain \in Chains \union {NoChain}, settle \in BOOLEAN: PreparePatch(i, patch, chain, TRUE, settle)
    \/ PreparePatch(i, patch, NoChain, FALSE, FALSE)

RendersBlock(i) ==
  \E events \in Batches:
    /\ Fits(renderers[i], fades[i].held \o events)
    /\ RenderBlock(i, events) \/ RenderScheduled(i, events)

InstanceNext ==
  \/ ReleaseAll
  \/ ReleaseAllInNextBlock
  \/ ResetAll
  \/ \E i \in Instances: ReleaseInstance(i)
  \/ \E i \in Instances, blocks \in 1 .. MaxFade: FadeOut(i, blocks)
  \/ \E i \in Instances: RendersBlock(i)
  \/ \E i \in Instances: Prepares(i)
  \/ \E i \in Instances, patch \in Requested: ProbePatch(i, patch)

InstanceSpec == InstanceInit /\ [][InstanceNext]_instanceVars

(***************************************************************************)
(* Properties                                                              *)
(***************************************************************************)
\* The fade ends one line and never touches the next: while an instance fades or is
\* silent its renderer gets no event, and the block that sounds again brings the events
\* of the new line, all of them, in the order they came (fade.rs:7-14).
NewLineSoundsInFull ==
  \A i \in Instances:
    IF Fading(fades[i]) \/ fades[i].silenced THEN passed[i] = <<>>
    ELSE faded[i] = 0 \/ passed[i] = due[i]

\* What sounds can be released: the ledger holds every voice of a plugin that obeys
\* NoteOffs, after any failed block, release or load, on an instance as on the shelf;
\* only a reset whose NoteOffs the plugin refused and a probe that failed after its
\* NoteOns have lost some (silence.rs:1-14).
SoundingIsKnown ==
  \A r \in {renderers[i] : i \in Instances} \union {shelf[f] : f \in PatchTargets}:
    KeepsVoices(r) \/ r.lost \/ \A k \in Keys: r.sounding[k] <= r.depth[k]

\* A patch on record is the one that plays, unless a load has failed half-way since,
\* and the chain on record is the one behind it (instance_chain.rs:16-22).
LoadedPatchIsInPlace ==
  \A i \in Instances:
    /\ loaded[i].patch # Unknown /\ ~renderers[i].spoilt => renderers[i].actual = loaded[i].patch
    /\ post[i] \in {loaded[i].chain, NoChain}

\* A voice of a cartridge is taken for loaded only while it is what the plugin plays.
SentVoiceIsPlayed ==
  \A i \in Instances: LET r == renderers[i] IN r.program \in {Unknown, r.actual}

=============================================================================
