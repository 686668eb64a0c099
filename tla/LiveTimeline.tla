---------------------------- MODULE LiveTimeline ----------------------------
(***************************************************************************)
(* A live, block by block: the queues of MIDI events of its instances, the *)
(* timeline with its scheduler and tempo map (timeline/src), and the block *)
(* that the render loop makes of them (player/worker/live_mix.rs).         *)
(*                                                                         *)
(* Times are whole samples; what f64 rounds is left to seconds_to_sample,  *)
(* whose one refusal is a position that does not fit.  Beats are counted   *)
(* in tempo * samples, and of a time signature only its validity matters.  *)
(* The live itself, its generation and its commands are the module Player. *)
(***************************************************************************)
EXTENDS Naturals, Sequences, FiniteSets, SequencesExt

CONSTANTS
  Instances, BankOf,   \* instances of the live, and the bank each is in
  BufferFrames,        \* frames of a block
  Times,               \* positions a client asks for
  TooFar,              \* a position no u64 holds
  Tempos,              \* valid tempos, with their signatures
  QueueLimit,          \* MAX_LIVE_QUEUE_EVENTS
  MaxSegments,         \* MAX_TEMPO_SEGMENTS
  MaxClock, MaxSubmits \* bounds: where the clock stops, submits of the clients

ASSUME TimelineAssumption ==
  /\ DOMAIN BankOf = Instances
  /\ {BufferFrames, MaxSegments, QueueLimit} \subseteq Nat \ {0}
  /\ Times \subseteq Nat /\ TooFar \notin Times
  /\ Tempos \subseteq Nat \ {0} /\ Tempos # {}
  /\ {MaxClock, MaxSubmits} \subseteq Nat

VARIABLES
  live,      \* playback_mode is Live
  clock,     \* clock_samples
  running,   \* a timeline is there
  origin, started, pending, segments, \* LiveTimelineState
  instanceActive, queue, \* LiveInstanceState
  busy,      \* banks whose instance is being loaded
  submits,   \* submits so far: they number the events
  heard,     \* the last block: where it starts, its beats, what its instances were given
  excused,   \* history: events that came late, or whose bank was loading
  lost,      \* history: events of a loading bank taken out and given to nobody
  begun,     \* history: where in the live the timeline was begun
  changes    \* history: every tempo change accepted

timelineVars == <<live, clock, running, origin, started, pending, segments, instanceActive, queue, busy, submits, heard, excused, lost, begun, changes>>
transportVars == <<running, origin, started, segments, begun, changes>>
historyVars == <<excused, lost, heard>>

Segment(at, beats, tempo) == [start |-> at, beats |-> beats, tempo |-> tempo]
Nothing == [i \in Instances |-> <<>>]

LiveInit ==
  /\ live = FALSE /\ clock = 0 /\ running = FALSE /\ origin = 0 /\ begun = 0 /\ started = FALSE
  /\ pending = <<>> /\ segments = <<>> /\ changes = <<>>
  /\ instanceActive = {} /\ queue = Nothing /\ busy = {} /\ submits = 0
  /\ heard = [start |-> 0, begun |-> 0, beats |-> 0, given |-> Nothing]
  /\ excused = {} /\ lost = {}

Smaller(a, b) == IF a < b THEN a ELSE b
Monus(a, b) == IF a < b THEN 0 ELSE a - b
Position == Monus(clock, origin)

\* enqueue_live_event, schedule: behind all that are due no later.
Inserted(events, event) ==
  LET n == Cardinality({k \in 1 .. Len(events): events[k].at <= event.at})
  IN SubSeq(events, 1, n) \o <<event>> \o SubSeq(events, n + 1, Len(events))

Submit == submits < MaxSubmits /\ submits' = submits + 1

(***************************************************************************)
(* The commands                                                            *)
(***************************************************************************)
\* PlayerCommand::Midi: a full queue drops the event.
LiveMidi(i, offset) ==
  /\ Submit
  /\ live' = TRUE /\ instanceActive' = instanceActive \cup {i}
  /\ queue' = IF Len(queue[i]) >= QueueLimit THEN queue
              ELSE [queue EXCEPT ![i] = Inserted(@, [no |-> submits, at |-> clock + offset])]
  /\ UNCHANGED <<clock, transportVars, pending, busy, historyVars>>

\* Seeded fault: a timeline begins with its live.
WithTheLive(at) == 0

\* starting_at
Anchor(at) == at

\* begin_live_timeline: into the live that goes on, or into a new one.
BeginTimeline(tempo, continued) ==
  /\ Submit
  /\ live' = TRUE /\ (continued => live)
  /\ running' = TRUE /\ started' = FALSE /\ pending' = <<>>
  /\ segments' = <<Segment(0, 0, tempo)>> /\ changes' = segments'
  /\ queue' = Nothing
  /\ clock' = (IF continued THEN clock ELSE 0) /\ begun' = clock' /\ origin' = Anchor(clock')
  /\ instanceActive' = IF continued THEN instanceActive ELSE {}
  /\ UNCHANGED <<busy, historyVars>>

\* Seeded fault: the beats of a segment start where those of the last one did.
ForgetsBeats(segment, at) == segment.beats
BeatsAt(segment, at) == segment.beats + (at - segment.start) * segment.tempo

\* TempoMapTimeline::push; at the limit the oldest segment goes.
Pushed(at, tempo) ==
  LET last == Last(segments)
      added == Segment(at, BeatsAt(last, at), tempo)
      kept == IF at = last.start THEN Front(segments)
              ELSE IF Len(segments) = MaxSegments THEN Tail(segments) ELSE segments
  IN IF at < last.start \/ tempo = last.tempo THEN segments ELSE Append(kept, added)

SetTempo(at, tempo) ==
  /\ Submit /\ running
  /\ segments' = Pushed(at, tempo)
  /\ changes' = IF segments' = segments THEN changes ELSE Append(changes, Segment(at, 0, tempo))
  /\ UNCHANGED <<live, clock, running, origin, begun, started, pending, instanceActive, queue, busy, historyVars>>

\* schedule_timeline_midi of one event: dropped at the limit, refused if it is too far, and
\* then its instance sounds all the same.
TimelineMidi(i, at) ==
  /\ Submit /\ running
  /\ IF Len(pending) >= QueueLimit THEN UNCHANGED <<instanceActive, pending, started, excused>>
     ELSE /\ instanceActive' = instanceActive \cup {i}
          /\ IF at = TooFar THEN UNCHANGED <<pending, started, excused>>
             ELSE /\ pending' = Inserted(pending, [no |-> submits, at |-> at, for |-> i])
                  /\ started' = TRUE
                  /\ excused' = IF begun + at < clock THEN excused \cup {submits} ELSE excused
  /\ UNCHANGED <<live, clock, running, origin, segments, begun, changes, queue, busy, heard, lost>>

\* playback_mode is None again: the next command begins with a new live.
NoLive ==
  /\ live' = FALSE /\ clock' = 0 /\ running' = FALSE /\ origin' = 0 /\ begun' = 0 /\ started' = FALSE
  /\ pending' = <<>> /\ segments' = <<>> /\ changes' = <<>> /\ instanceActive' = {} /\ queue' = Nothing

\* StopAll, a timeline that is not valid, a block that fails.
EndLive == live /\ NoLive /\ UNCHANGED <<busy, submits, historyVars>>

\* An instance falls silent, its queue as given, and with the last one the live ends.
Falls(i, left) ==
  IF instanceActive \subseteq {i} THEN NoLive
  ELSE instanceActive' = instanceActive \ {i} /\ queue' = left /\ UNCHANGED <<live, clock, transportVars, pending>>

\* StopInstance, and PrepareLivePatch or ProbeLivePatch when the load fails.
StopInstance(i) ==
  /\ Submit /\ Falls(i, [queue EXCEPT ![i] = <<>>])
  /\ UNCHANGED <<busy, historyVars>>

\* PrepareLivePatch, and ProbeLivePatch, after which the instance sounds.
PreparePatch(i, sounds) ==
  /\ busy = {} /\ Submit
  /\ live' = TRUE /\ queue' = [queue EXCEPT ![i] = <<>>]
  /\ instanceActive' = instanceActive \cup sounds
  /\ UNCHANGED <<clock, transportVars, pending, busy, historyVars>>

\* standby::begin and complete: what the bank has still to play is thrown away.
StandbyBegins(b) ==
  /\ busy = {} /\ Submit
  /\ live' = TRUE /\ busy' = {b}
  /\ queue' = [i \in Instances |-> IF BankOf[i] = b THEN <<>> ELSE queue[i]]
  /\ UNCHANGED <<clock, transportVars, pending, instanceActive, historyVars>>

StandbyEnds(i, ok) ==
  /\ BankOf[i] \in busy
  /\ busy' = {}
  /\ IF ok \/ ~live THEN UNCHANGED <<live, clock, transportVars, pending, instanceActive, queue>>
     ELSE Falls(i, queue)
  /\ UNCHANGED <<submits, historyVars>>

(***************************************************************************)
(* A block                                                                 *)
(***************************************************************************)
\* take_block, take_chunk_events: what is due before the block's end.
Due(events, start) == Cardinality({k \in 1 .. Len(events): events[k].at < start + BufferFrames})
Taken(events, start) == SubSeq(events, 1, Due(events, start))
Left(events, start) == SubSeq(events, Due(events, start) + 1, Len(events))

\* LateEventPolicy::ClampToBlockStart
OffsetOf(at, start) == Smaller(Monus(at, start), BufferFrames - 1)

Placed(events, start, source) ==
  [k \in 1 .. Len(events) |-> [no |-> events[k].no, at |-> events[k].at, from |-> source, offset |-> OffsetOf(events[k].at, start)]]

\* The events at the places kept, by their keys; equal keys keep their order.
Ordered(events, kept, key) ==
  LET Rank(k) == Cardinality({j \in kept: key[j] < key[k] \/ (key[j] = key[k] /\ j <= k)})
  IN [n \in 1 .. Cardinality(kept) |-> events[CHOOSE k \in kept: Rank(k) = n]]

\* sort_by_key
ByOffset(events) == Ordered(events, 1 .. Len(events), [k \in 1 .. Len(events) |-> events[k].offset])

Sounds(i) == i \in instanceActive /\ BankOf[i] \notin busy

Scheduled == Taken(pending, Position)
EventsFor(i) ==
  LET kept == {k \in 1 .. Len(Scheduled): Scheduled[k].for = i}
  IN Ordered(Scheduled, kept, [k \in kept |-> k])

\* live_render_requests
Given(i) ==
  IF ~Sounds(i) THEN <<>>
  ELSE ByOffset(Placed(Taken(queue[i], clock), clock, "queue") \o Placed(EventsFor(i), Position, "timeline"))

\* snapshot_at: the last segment that has begun, or the first one there is.
SegmentAt(at) ==
  LET passed == {k \in 1 .. Len(segments): segments[k].start <= at}
  IN segments[IF passed = {} THEN 1 ELSE CHOOSE k \in passed: \A j \in passed: j <= k]

Beats(at) == LET s == SegmentAt(at)
             IN IF at < s.start THEN Monus(s.beats, (s.start - at) * s.tempo) ELSE BeatsAt(s, at)

Numbers(events) == {events[k].no: k \in 1 .. Len(events)}

\* render_live_mix; a timeline waits for its first event.  An instance whose rendering
\* fails falls silent.
RenderBlock(fails) ==
  /\ live /\ (running => started)
  /\ clock < MaxClock
  /\ fails \subseteq {i \in Instances: Sounds(i)}
  /\ clock' = clock + BufferFrames
  /\ pending' = Left(pending, Position)
  /\ queue' = [i \in Instances |-> IF i \in fails THEN <<>> ELSE IF Sounds(i) THEN Left(queue[i], clock) ELSE queue[i]]
  /\ instanceActive' = instanceActive \ fails
  /\ heard' = [start |-> clock, begun |-> begun, beats |-> IF running THEN Beats(Position) ELSE 0,
               given |-> [i \in Instances |-> Given(i)]]
  /\ excused' = excused \cup UNION {Numbers(Taken(queue[i], clock)): i \in {j \in Instances: ~Sounds(j)}}
  /\ lost' = lost \cup UNION {Numbers(EventsFor(i)): i \in {j \in instanceActive: ~Sounds(j)}}
  /\ UNCHANGED <<live, transportVars, busy, submits>>

LiveNext ==
  \/ \E i \in Instances:
       \/ \E offset \in 0 .. BufferFrames: LiveMidi(i, offset)
       \/ \E at \in Times \cup {TooFar}: TimelineMidi(i, at)
       \/ StopInstance(i)
       \/ \E sounds \in SUBSET {i}: PreparePatch(i, sounds)
       \/ \E ok \in BOOLEAN: StandbyEnds(i, ok)
  \/ \E tempo \in Tempos:
       \/ \E continued \in BOOLEAN: BeginTimeline(tempo, continued)
       \/ \E at \in Times: SetTempo(at, tempo)
  \/ \E i \in Instances: StandbyBegins(BankOf[i])
  \/ EndLive
  \/ \E fails \in SUBSET Instances: RenderBlock(fails)

LiveSpec == LiveInit /\ [][LiveNext]_timelineVars

(***************************************************************************)
(* Properties                                                              *)
(***************************************************************************)
\* live_mix.rs, scheduler.rs: whatever is begun, loaded, stopped or skipped in between, an
\* event that came in time is given to its instance in its own block at its own sample; only
\* one that came late, or whose instance could not be rendered, sounds at a block's start.
EventsKeepTheirTime ==
  \A i \in Instances: \A e \in ToSet(heard.given[i]):
    \/ e.no \in excused /\ e.offset = 0
    \/ heard.start + e.offset = (IF e.from = "queue" THEN e.at ELSE heard.begun + e.at)

\* transport.rs: the beats told to the plugins are the integral of every tempo change that
\* was accepted, wherever a segment of the map is left to answer: neither replacing the last
\* segment nor dropping the oldest one moves a beat.
Gain(accepted, at, k) ==
  LET end == IF k = Len(accepted) THEN at ELSE Smaller(at, accepted[k + 1].start)
  IN Monus(end, accepted[k].start) * accepted[k].tempo

Integral(accepted, at) ==
  LET Sum[k \in 0 .. Len(accepted)] == IF k = 0 THEN 0 ELSE Sum[k - 1] + Gain(accepted, at, k)
  IN Sum[Len(accepted)]

BeatsAreTheIntegral ==
  segments # <<>> => \A at \in Times: at >= segments[1].start => Beats(at) = Integral(changes, at)

\* live_mix.rs:114 says of an instance whose bank is loading that no request is made for
\* it but its events are not thrown away.
LoadingBankKeepsEvents == lost = {}
=============================================================================
