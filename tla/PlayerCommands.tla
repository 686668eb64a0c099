--------------------------- MODULE PlayerCommands ---------------------------
(***************************************************************************)
(* The command queue of the realtime player                                *)
(* (realtime-play-server/src/player/commands.rs).  HTTP worker threads and *)
(* the IPC receive thread submit commands; the player worker takes them    *)
(* one by one.  Every submit runs under the queue's mutex, so it is one    *)
(* step.  A submit decides which generation the command belongs to: a new  *)
(* generation makes the audio thread throw away every frame rendered so    *)
(* far.                                                                    *)
(*                                                                         *)
(* The audio output's own copy of the generation is stored inside the same *)
(* critical section and nowhere else, so one variable stands for both.     *)
(* A submit after shutdown fails and changes nothing: shutdown is a guard. *)
(*                                                                         *)
(* An operator marked "seeded fault" is no part of the specification: it   *)
(* is put in the place of the operator after it to show that a property    *)
(* notices the fault.                                                      *)
(***************************************************************************)
EXTENDS Naturals, Sequences

CONSTANTS
  Instances,   \* the live instances, i.e. the valid instance IDs
  Timelines,   \* the timeline IDs clients choose
  None         \* "no instance", "no timeline"

ASSUME NoneAssumption == None \notin Instances /\ None \notin Timelines

VARIABLES
  generation,    \* PlayerState.generation, equal to AudioOutputControl.generation
  pending,       \* PlayerState.pending
  liveRequested, \* PlayerState.live_requested
  liveTimeline,  \* PlayerState.live_timeline_id
  shutdown,      \* PlayerState.shutdown and AudioOutputControl.shutdown
  outActive      \* AudioOutputControl.active

queueVars == <<generation, pending, liveRequested, liveTimeline, shutdown, outActive>>

(***************************************************************************)
(* Commands.  flag is enter_live of a Midi command and, for                *)
(* BeginLiveTimeline, whether the config is one LiveTimelineState::new     *)
(* accepts.  Event batches are one event long: the worker applies the      *)
(* events of a batch one after the other, in one go.                       *)
(***************************************************************************)
LiveOps == {"Midi", "BeginLiveTimeline", "SetLiveTempo", "TimelineMidi",
            "PrepareLivePatch", "PrepareStandbyLivePatch", "FadeOutInstances",
            "ProbeLivePatch"}

Ops == LiveOps \cup {"Play", "StopAll", "StopInstance"}

Command == [op: Ops, gen: Nat, inst: Instances \cup {None},
            tl: Timelines \cup {None}, flag: BOOLEAN]

Cmd(op, gen, inst, tl, flag) ==
  [op |-> op, gen |-> gen, inst |-> inst, tl |-> tl, flag |-> flag]

IsFadeOut(command) == command.op = "FadeOutInstances"

NextGeneration == generation + 1

QueueInit ==
  /\ generation = 0
  /\ pending = <<>>
  /\ liveRequested = FALSE
  /\ liveTimeline = None
  /\ shutdown = FALSE
  /\ outActive = FALSE

(***************************************************************************)
(* Submits                                                                 *)
(***************************************************************************)
\* begin_new_generation
NewGeneration == generation' = NextGeneration

\* pending.clear()
Cleared == <<>>

EndLive == liveRequested' = FALSE /\ liveTimeline' = None

\* Seeded fault: a new generation every time.
AlwaysNewGeneration == NextGeneration

\* Over a running live the generation stays, so that the frames already
\* rendered are still heard.
LiveGeneration == IF liveRequested THEN generation ELSE NextGeneration

SubmitPlay ==
  /\ ~shutdown
  /\ NewGeneration
  /\ outActive' = TRUE
  /\ EndLive
  /\ pending' = Append(Cleared, Cmd("Play", NextGeneration, None, None, FALSE))
  /\ UNCHANGED shutdown

SubmitStop ==
  /\ ~shutdown
  /\ NewGeneration
  /\ outActive' = FALSE
  /\ EndLive
  /\ pending' = Append(Cleared, Cmd("StopAll", NextGeneration, None, None, FALSE))
  /\ UNCHANGED shutdown

SubmitStopInstance(i) ==
  /\ ~shutdown
  /\ NewGeneration
  /\ outActive' = TRUE
  /\ pending' = Append(pending, Cmd("StopInstance", NextGeneration, i, None, FALSE))
  /\ UNCHANGED <<liveRequested, liveTimeline, shutdown>>

\* The first MIDI after a play or a stop enters live mode: it starts a new
\* generation and forgets what was queued before it.
SubmitMidi(i) ==
  /\ ~shutdown
  /\ \/ /\ ~liveRequested
        /\ NewGeneration
        /\ outActive' = TRUE
        /\ pending' = Append(Cleared, Cmd("Midi", NextGeneration, i, None, TRUE))
     \/ /\ liveRequested
        /\ pending' = Append(pending, Cmd("Midi", generation, i, None, FALSE))
        /\ UNCHANGED <<generation, outActive>>
  /\ liveRequested' = TRUE
  /\ UNCHANGED <<liveTimeline, shutdown>>

\* Seeded fault: nothing is thrown out.
RetainKeepsAll == 1..Len(pending)

\* What the start of a timeline retains: a fadeout is about the sound of the
\* timeline before it.
Retained == {n \in 1..Len(pending) : IsFadeOut(pending[n])}

\* The retained positions in their order.
InOrder ==
  {f \in UNION {[1..k -> Retained] : k \in 0..Len(pending)} :
     /\ \A n \in Retained : \E k \in DOMAIN f : f[k] = n
     /\ \A k, l \in DOMAIN f : k < l => f[k] < f[l]}

SubmitBeginLiveTimeline(t, valid) ==
  /\ ~shutdown
  /\ generation' = LiveGeneration
  /\ outActive' = TRUE
  /\ \E f \in InOrder :
       pending' = Append([k \in DOMAIN f |-> pending[f[k]]],
                         Cmd("BeginLiveTimeline", LiveGeneration, None, t, valid))
  /\ liveRequested' = TRUE
  /\ liveTimeline' = t
  /\ UNCHANGED shutdown

\* Seeded fault: any open timeline will do.
AnyTimeline(t) == liveTimeline # None

\* The timeline a command names has to be the open one.
IsOpen(t) == liveTimeline = t

SubmitSetLiveTempo(t) ==
  /\ ~shutdown
  /\ IsOpen(t)
  /\ pending' = Append(pending, Cmd("SetLiveTempo", generation, None, t, FALSE))
  /\ UNCHANGED <<generation, liveRequested, liveTimeline, shutdown, outActive>>

SubmitTimelineMidi(t, i) ==
  /\ ~shutdown
  /\ IsOpen(t)
  /\ pending' = Append(pending, Cmd("TimelineMidi", generation, i, t, FALSE))
  /\ UNCHANGED <<generation, liveRequested, liveTimeline, shutdown, outActive>>

SubmitFadeOutInstances(i) ==
  /\ ~shutdown
  /\ liveRequested
  /\ pending' = Append(pending, Cmd("FadeOutInstances", 0, i, None, FALSE))
  /\ UNCHANGED <<generation, liveRequested, liveTimeline, shutdown, outActive>>

\* PrepareLivePatch and PrepareStandbyLivePatch: over a running live the
\* generation stays, because only the target instance is touched.
SubmitPatch(op, i) ==
  /\ ~shutdown
  /\ generation' = LiveGeneration
  /\ outActive' = (liveRequested => outActive)
  /\ liveRequested' = TRUE
  /\ pending' = Append(pending, Cmd(op, LiveGeneration, i, None, FALSE))
  /\ UNCHANGED <<liveTimeline, shutdown>>

SubmitPrepareLivePatch(i) == SubmitPatch("PrepareLivePatch", i)

SubmitPrepareStandbyLivePatch(i) == SubmitPatch("PrepareStandbyLivePatch", i)

SubmitProbeLivePatch(i) ==
  /\ ~shutdown
  /\ NewGeneration
  /\ outActive' = TRUE
  /\ liveRequested' = TRUE
  /\ pending' = Append(pending, Cmd("ProbeLivePatch", NextGeneration, i, None, FALSE))
  /\ UNCHANGED <<liveTimeline, shutdown>>

Shutdown ==
  /\ ~shutdown
  /\ shutdown' = TRUE
  /\ outActive' = FALSE
  /\ UNCHANGED <<generation, pending, liveRequested, liveTimeline>>

(***************************************************************************)
(* The worker's side                                                       *)
(***************************************************************************)
\* wait_for_command, wait_for_command_timeout and pop_pending_command: after
\* shutdown none of them hands out a command.
CanTake == ~shutdown /\ pending # <<>>

TakeCommand ==
  /\ CanTake
  /\ pending' = Tail(pending)
  /\ UNCHANGED <<generation, liveRequested, liveTimeline, shutdown, outActive>>

\* AudioOutputControl::finish, called by the worker when playback ends.
Finish ==
  /\ outActive' = FALSE
  /\ UNCHANGED <<generation, pending, liveRequested, liveTimeline, shutdown>>

Submit ==
  \/ SubmitPlay
  \/ SubmitStop
  \/ \E i \in Instances :
       \/ SubmitStopInstance(i)
       \/ SubmitMidi(i)
       \/ SubmitFadeOutInstances(i)
       \/ SubmitPrepareLivePatch(i)
       \/ SubmitPrepareStandbyLivePatch(i)
       \/ SubmitProbeLivePatch(i)
  \/ \E t \in Timelines :
       \/ \E valid \in BOOLEAN : SubmitBeginLiveTimeline(t, valid)
       \/ SubmitSetLiveTempo(t)
       \/ \E i \in Instances : SubmitTimelineMidi(t, i)

QueueNext == Submit \/ Shutdown \/ TakeCommand \/ Finish

QueueSpec == QueueInit /\ [][QueueNext]_queueVars

-----------------------------------------------------------------------------
(***************************************************************************)
(* Properties                                                              *)
(***************************************************************************)
QueueTypeOK ==
  /\ generation \in Nat
  /\ pending \in Seq(Command)
  /\ liveRequested \in BOOLEAN
  /\ liveTimeline \in Timelines \cup {None}
  /\ shutdown \in BOOLEAN
  /\ outActive \in BOOLEAN

\* A live command is queued only while live is requested: no submit that ends
\* live playback (play, stop) leaves work of the live it ended behind itself.
LiveCommandsNeedLive ==
  \A n \in 1..Len(pending) : pending[n].op \in LiveOps => liveRequested

\* A timeline is open only while live is requested, so the first MIDI after a
\* play or a stop can never run into the timeline of the performance before.
TimelineNeedsLive == liveTimeline # None => liveRequested

\* Every queued timeline command is for the timeline that is open now, and a
\* queued begin of that timeline stands before them: starting another timeline
\* leaves no event of the old one in the queue to be played at the wrong place.
TimelineCommandsAreCurrent ==
  \A n \in 1..Len(pending) :
    /\ pending[n].op \in {"BeginLiveTimeline", "SetLiveTempo", "TimelineMidi"}
         => pending[n].tl = liveTimeline
    /\ pending[n].op = "BeginLiveTimeline"
         => \A m \in 1..(n - 1) : IsFadeOut(pending[m])

\* The queue is ordered by generation and never runs ahead of the audio
\* output: the worker cannot go back to a generation it has left.
GenerationsAreOrdered ==
  \A n \in 1..Len(pending) :
    ~IsFadeOut(pending[n]) =>
      /\ pending[n].gen <= generation
      /\ \A m \in 1..(n - 1) : IsFadeOut(pending[m]) \/ pending[m].gen <= pending[n].gen

\* The MIDI batch that enters live mode is the oldest command of the queue: the
\* reset it causes cannot cut off anything submitted after live was entered.
EnterLiveComesFirst ==
  \A n \in 1..Len(pending) : (pending[n].op = "Midi" /\ pending[n].flag) => n = 1

\* What is queued belongs together, and to the live that is requested.
QueueInv ==
  /\ LiveCommandsNeedLive
  /\ TimelineNeedsLive
  /\ TimelineCommandsAreCurrent
  /\ GenerationsAreOrdered
  /\ EnterLiveComesFirst

\* The frames in the output ring survive a live timeline restart, a tempo
\* change, timeline events, a fadeout and a patch load for another instance:
\* while live, only a stop, a play or a probe starts a new generation.
OnlyTheseDropFrames ==
  [][(liveRequested /\ generation' # generation) =>
       pending' # <<>> /\ pending'[Len(pending')].op \in
         {"Play", "StopAll", "StopInstance", "ProbeLivePatch"}]_queueVars
=============================================================================
