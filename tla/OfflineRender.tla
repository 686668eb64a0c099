--------------------------- MODULE OfflineRender ---------------------------
(***************************************************************************)
(* One offline render from the request to the WAV: the preparation of each *)
(* route (core-lib pipeline.rs and pipeline/), the blocks of the instrument*)
(* (render/offline.rs, render.rs), the chain of effects over them          *)
(* (pipeline/effects.rs, effect/) and the trim of the preroll.             *)
(*                                                                         *)
(* A frame of sound is its number in the instrument's output, with what it *)
(* went through.  An effect is a delay line of as many frames as it says.  *)
(* The construction of the instrument is the module InstanceCreation.      *)
(***************************************************************************)
EXTENDS SmfTiming

CONSTANTS
  Jobs,        \* what is asked: a file and a request
  BufferFrames,
  Plugins,     \* the effect plugins of the catalog
  Latency,     \* what each says of itself in clap.latency
  SlowPlugin,  \* the plugin that reads its model in the background (TONE3000)
  Measured,    \* the plugin whose ranges are measured first (Surge XT Effects)
  MaxProbes    \* blocks of the probe tone before the time is up

Routes == {"phrase", "cache", "stateless", "smf", "play"}

ASSUME OfflineAssumption ==
  /\ {BufferFrames, MaxProbes} \subseteq Nat \ {0}
  /\ Latency \in [Plugins -> Nat] /\ {SlowPlugin, Measured} \subseteq Plugins
  /\ \A j \in Jobs :
       /\ j.file \in Seq(Tracks)
       /\ j.ask.route \in Routes /\ j.ask.preroll \in Nat /\ j.ask.effects \in BOOLEAN
       /\ j.ask.elements \in Seq([plugin : STRING, bypass : BOOLEAN, keys : Nat, matches : Nat])
       /\ j.ask.route = "smf" => j.ask.json # "chain" \* a MIDI file comes without the JSON of an MML

VARIABLES
  job,      \* the file and the request
  step,     \* where the render is
  patch,    \* the patch it uses
  saved,    \* what it has written: "history", "mid", "wav"
  schedule, \* RealtimePlaybackSchedule
  at,       \* current_sample
  next,     \* event_cursor
  heard,    \* history: events given to the instrument, with their positions
  known,    \* the block just rendered and the tempo of its transport
  spec,     \* EffectChainSpec
  chain,    \* EffectChain: the stages built so far
  probes,   \* blocks of probe tone the stage being built has had
  block,    \* blocks of the chain so far
  audio     \* the samples

offlineVars == <<job, step, patch, saved, schedule, at, next, heard, known, spec, chain, probes, block, audio>>
renderVars == <<at, next, heard, known>>
chainVars == <<chain, probes, block>>

Frame(n) == [number |-> n, through |-> <<>>]
Silent == Frame(0)
Probe == Frame(-1)
NoSong == [events |-> <<>>, total |-> 0, map |-> <<>>, origin |-> 0]

OfflineInit ==
  /\ job \in Jobs
  /\ step = "prepare" /\ patch = "none" /\ saved = {} /\ schedule = NoSong
  /\ at = 0 /\ next = 1 /\ heard = {} /\ known = [at |-> 0, tempo |-> DefaultTempo]
  /\ spec = <<>> /\ chain = <<>> /\ probes = 0 /\ block = 0 /\ audio = <<>>

ask == job.ask
Smaller(m, n) == IF m < n THEN m ELSE n

(***************************************************************************)
(* The preparation                                                         *)
(***************************************************************************)
\* resolve_effective_patch: the JSON's, else a random one where that is allowed, else
\* the configuration's.
Patches ==
  IF ask.json = "patch" THEN {"named"}
  ELSE IF ask.random /\ ask.route \in {"phrase", "play"} THEN {"random", "none"} \* none: nothing to pick from
  ELSE {"configured"}

Wrong == [ok |-> FALSE, stages |-> <<>>]
Chain(stages) == [ok |-> TRUE, stages |-> stages]

\* stage_from_element: a bypassed element drops out before its preset is looked up.
ElementFails(e) == e.keys # 1 \/ (~e.bypass /\ (e.plugin \notin Plugins \/ e.matches # 1))

Stages(elements) ==
  LET in == {i \in 1..Len(elements) : ~elements[i].bypass}
  IN Ordered([i \in 1..Len(elements) |-> elements[i].plugin], in, [i \in in |-> i])

ChainSpec(request) ==
  IF request.route \in {"smf", "play"} \/ request.json \notin {"chain", "noList"} THEN Chain(<<>>)
  ELSE IF ~request.effects \/ request.json = "noList" \/ \E i \in 1..Len(request.elements) : ElementFails(request.elements[i])
  THEN Wrong
  ELSE Chain(Stages(request.elements))

Fails ==
  /\ step' = "failed"
  /\ UNCHANGED <<job, patch, schedule, renderVars, spec, chainVars, audio>>

\* What a route writes before it renders, in this order.
Written == CASE ask.route = "phrase" -> <<"history", "mid">>
             [] ask.route = "cache" -> <<"mid">>
             [] OTHER -> <<>>

Prepares ==
  /\ step = "prepare"
  /\ ChainSpec(ask).ok
  /\ patch' \in Patches
  /\ spec' = ChainSpec(ask).stages
  /\ saved' = {Written[i] : i \in 1..Len(Written)}
  /\ schedule' = ScheduleOf(job.file, ask.preroll)
  /\ step' = IF ask.route = "play" THEN "handed" ELSE "create"
  /\ UNCHANGED <<job, renderVars, chainVars, audio>>

\* Any step of the preparation may fail; what was written by then stays.
PreparationFails ==
  /\ step = "prepare"
  /\ \E done \in 0..(IF ChainSpec(ask).ok THEN Len(Written) ELSE 0) : saved' = {Written[i] : i \in 1..done}
  /\ Fails

(***************************************************************************)
(* The instrument                                                          *)
(***************************************************************************)
Creates ==
  /\ step = "create" /\ step' = "render"
  /\ UNCHANGED <<job, patch, saved, schedule, renderVars, spec, chainVars, audio>>

\* musical_sample
Musical(position) == IF position < schedule.origin THEN 0 ELSE position - schedule.origin

\* render_next_chunk: the events due before the end of the block, each at its offset.
RendersBlock ==
  /\ step = "render" /\ at < schedule.total
  /\ LET end == at + Smaller(BufferFrames, schedule.total - at)
         due == {i \in next..Len(schedule.events) : \A k \in next..i : schedule.events[k].at < end}
     IN /\ at' = end
        /\ next' = next + Cardinality(due)
        /\ heard' = heard \cup {[event |-> schedule.events[i], position |-> IF schedule.events[i].at < at THEN at ELSE schedule.events[i].at] : i \in due}
        /\ known' = [at |-> at, tempo |-> TempoAt(Transport(schedule.map), Musical(at))]
        /\ audio' = audio \o [i \in 1..end - at |-> Frame(at + i)]
  /\ UNCHANGED <<job, step, patch, saved, schedule, spec, chainVars>>

InstrumentIsDone ==
  /\ step = "render" /\ at = schedule.total
  /\ step' = IF spec = <<>> THEN "trim" ELSE "build"
  /\ UNCHANGED <<job, patch, saved, schedule, renderVars, spec, chainVars, audio>>

RenderFails == step \in {"create", "render"} /\ UNCHANGED saved /\ Fails

(***************************************************************************)
(* The chain of effects                                                    *)
(***************************************************************************)
Line(frame, plugin) == [i \in 1..Latency[plugin] |-> frame]

\* EffectRenderer::new: an instance with the state it was born with, not yet active.
NewStage(plugin) == [plugin |-> plugin, state |-> "init", active |-> FALSE, line |-> Line(Silent, plugin)]

\* load_preset: the ranges of the Measured plugin are read from two states of its own
\* before the preset's is loaded.
LoadPreset(stage) ==
  LET probed == IF stage.plugin = Measured THEN [stage EXCEPT !.state = "measure"] ELSE stage
  IN [probed EXCEPT !.state = "preset"]

Activate(stage) == [stage EXCEPT !.active = TRUE]

Reset(stage) == IF stage.active THEN [stage EXCEPT !.line = Line(Silent, stage.plugin)] ELSE stage

Building == step = "build" /\ Len(chain) < Len(spec)
Waiting == Building /\ probes > 0

BuildsStage ==
  /\ Building /\ probes = 0
  /\ LET stage == LoadPreset(NewStage(spec[Len(chain) + 1]))
     IN IF stage.plugin = SlowPlugin
          THEN probes' = 1 /\ UNCHANGED chain
          ELSE chain' = Append(chain, stage) /\ UNCHANGED probes
  /\ UNCHANGED <<job, step, patch, saved, schedule, renderVars, spec, block, audio>>

\* wait_until_audible: blocks of tone until one is heard, then a reset.
StageIsHeard ==
  /\ Waiting
  /\ LET loaded == Activate(LoadPreset(NewStage(SlowPlugin)))
     IN chain' = Append(chain, Reset([loaded EXCEPT !.line = Line(Probe, SlowPlugin)]))
  /\ probes' = 0
  /\ UNCHANGED <<job, step, patch, saved, schedule, renderVars, spec, block, audio>>

StageIsSilent ==
  /\ Waiting /\ probes < MaxProbes
  /\ probes' = probes + 1
  /\ UNCHANGED <<job, step, patch, saved, schedule, renderVars, spec, chain, block, audio>>

\* The entry, the instance, the preset or the wait fails, or the chain itself.
ChainFails == step \in {"build", "apply"} /\ UNCHANGED saved /\ Fails

\* Seeded fault: only the first stage's latency is taken out.
FirstLatency(stages) == Latency[stages[1].plugin]

\* latency: of all the stages together.
TotalLatency(stages) ==
  LET sum[k \in 0..Len(stages)] == IF k = 0 THEN 0 ELSE sum[k - 1] + Latency[stages[k].plugin]
  IN sum[Len(stages)]

Padded(frames, latency) ==
  LET n == frames + latency IN IF n % BufferFrames = 0 THEN n ELSE n + BufferFrames - (n % BufferFrames)

\* process_all begins: every stage is active, and silence follows the sound.
ChainBegins ==
  /\ step = "build" /\ Len(chain) = Len(spec)
  /\ chain' = [i \in 1..Len(chain) |-> Activate(chain[i])]
  /\ LET size == Padded(Len(audio), TotalLatency(chain))
     IN audio' = [i \in 1..size |-> IF i <= Len(audio) THEN audio[i] ELSE Silent]
  /\ step' = "apply" /\ block' = 0
  /\ UNCHANGED <<job, patch, saved, schedule, renderVars, spec, probes>>

\* A stage takes a block: the oldest frames leave its line as the new ones enter.
Through(stage, frames) ==
  LET all == stage.line \o frames
      mark(f) == [f EXCEPT !.through = Append(@, <<stage.plugin, stage.state>>)]
  IN [out |-> [i \in 1..Len(frames) |-> mark(all[i])],
      stage |-> [stage EXCEPT !.line = SubSeq(all, Len(frames) + 1, Len(all))]]

\* process_block: all the stages, one after the other, over one whole block.
ProcessesBlock ==
  /\ step = "apply" /\ (block + 1) * BufferFrames <= Len(audio)
  /\ LET first == block * BufferFrames
         given == SubSeq(audio, first + 1, first + BufferFrames)
         run[k \in 0..Len(chain)] ==
           IF k = 0 THEN [out |-> given, stages |-> <<>>]
           ELSE LET r == Through(chain[k], run[k - 1].out)
                IN [out |-> r.out, stages |-> Append(run[k - 1].stages, r.stage)]
         end == run[Len(chain)]
     IN /\ audio' = SubSeq(audio, 1, first) \o end.out \o SubSeq(audio, first + BufferFrames + 1, Len(audio))
        /\ chain' = end.stages
        /\ known' = [at |-> first, tempo |-> TempoAt(Transport(schedule.map), Musical(first))]
  /\ block' = block + 1
  /\ UNCHANGED <<job, step, patch, saved, schedule, at, next, heard, spec, probes>>

\* The chain is through: the latency goes from the front, the padding from the end.
ChainEnds ==
  /\ step = "apply" /\ (block + 1) * BufferFrames > Len(audio)
  /\ audio' = SubSeq(audio, TotalLatency(chain) + 1, TotalLatency(chain) + schedule.total)
  /\ step' = "trim"
  /\ UNCHANGED <<job, patch, saved, schedule, renderVars, spec, chainVars>>

\* trim_render_preroll, and the WAV of the routes that write one.
Trims ==
  /\ step = "trim" /\ step' = "done"
  /\ audio' = SubSeq(audio, ask.preroll + 1, Len(audio))
  /\ saved' = IF ask.route \in {"phrase", "cache"} THEN saved \cup {"wav"} ELSE saved
  /\ UNCHANGED <<job, patch, schedule, renderVars, spec, chainVars>>

\* write_wav fails.
WavFails == step = "trim" /\ ask.route \in {"phrase", "cache"} /\ UNCHANGED saved /\ Fails

OfflineNext ==
  \/ Prepares \/ PreparationFails
  \/ Creates \/ RendersBlock \/ InstrumentIsDone \/ RenderFails
  \/ BuildsStage \/ StageIsHeard \/ StageIsSilent \/ ChainBegins \/ ProcessesBlock \/ ChainEnds \/ ChainFails
  \/ Trims \/ WavFails

OfflineSpec == OfflineInit /\ [][OfflineNext]_offlineVars

(***************************************************************************)
(* Properties                                                              *)
(***************************************************************************)
\* Over any changes of tempo, on any track, each note of the file reaches the instrument
\* once, at the sample that the tempo in force at every tick before it gives, with the
\* preroll added and whatever block it falls in.
NotesFallInTime ==
  step \in {"trim", "done"} =>
    LET all == Listed(job.file)
    IN {<<h.event.track, h.event.index, h.position>> : h \in heard}
         = {<<all[i].track, all[i].index, Sample(TimeAt(job.file, all[i].at)) + ask.preroll>> :
              i \in {k \in 1..Len(all) : all[k].what \in Notes}}

\* Where in the song the block just rendered begins, and the ticks that time may be in: none
\* of a tempo that takes no time.
SongPosition == Largest({0, known.at - ask.preroll}) * Scale
TicksThere ==
  {tick \in 0..SongPosition + LastTick(job.file) :
     TimeAt(job.file, tick) * Rate <= SongPosition /\ SongPosition < TimeAt(job.file, tick + 1) * Rate}

BlockIsRendered == at > 0 /\ step \in {"render", "apply"}

\* The tempo that a block's transport tells, to the instrument as to the effects, is the
\* one in force in the song where the block begins, preroll or not; or that of a later
\* segment, while that one is ahead and MaxSegments, itself included, are left from it to
\* the end.  A song whose first tempo is invalid has none.
BlocksKnowTheirTempo ==
  BlockIsRendered =>
    IF TempoIn(job.file, 0) = NoTempo THEN known.tempo = NoTempo
    ELSE \A tick \in TicksThere :
           \/ known.tempo = TempoIn(job.file, tick)
           \/ \E i \in 1..Len(schedule.map) - MaxSegments + 1 :
                schedule.map[i].at * Rate > SongPosition /\ known.tempo = schedule.map[i].tempo

\* What the transport says of its limit: a segment that is dropped is over, and the tempo
\* where the song is stays the one in force (transport.rs:62-68, 204-205).  It holds for
\* a transport that is pushed to while it plays; build_transport pushes the whole song
\* before.
DroppedSegmentsAreOver ==
  BlockIsRendered /\ known.tempo # NoTempo => \A tick \in TicksThere : known.tempo = TempoIn(job.file, tick)

\* What the request asks to be put after the instrument.
Wanted == IF ask.json = "chain" THEN Stages(ask.elements) ELSE <<>>

\* Through any chain of delaying effects, the sound that comes out has every frame of the
\* song at its own place, none of the preroll, and each frame has gone through every stage
\* that the request asks for, in order and with its preset (effect/chain.rs:81-84: the
\* latency of the stages is made up for).
SoundStaysInPlace ==
  step = "done" =>
    audio = [i \in 1..schedule.total - ask.preroll |->
               [number |-> ask.preroll + i, through |-> [k \in 1..Len(Wanted) |-> <<Wanted[k], "preset">>]]]

=============================================================================
