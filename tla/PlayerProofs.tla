---------------------------- MODULE PlayerProofs ----------------------------
(***************************************************************************)
(* Proofs about the player, in five parts.                                 *)
(*                                                                         *)
(* The queue: its type invariant, the invariants of the queued commands    *)
(* and the one about the frames a submit may drop.  Every step of the      *)
(* player is a step of PlayerCommands or leaves the queue alone, so what   *)
(* is proved of the queue holds of the whole player.                       *)
(*                                                                         *)
(* The channels (PlayerInv): one request per bank, and a preload gets its  *)
(* own reply.                                                              *)
(*                                                                         *)
(* The preload (PreloadInv): the player implements StandbyLoad.            *)
(*                                                                         *)
(* The commands (CommandsInv): which timeline and which generation the     *)
(* mode will have when the commands on their way to it are applied.        *)
(*                                                                         *)
(* The notes (NotesInv): no block is rendered over an old note.            *)
(***************************************************************************)
EXTENDS Player, TLAPS, FiniteSetTheorems

(***************************************************************************)
(* The queue after a submit or a take                                      *)
(***************************************************************************)
\* A command built from instances and timelines is a command.
LEMMA CmdType ==
  ASSUME NEW op \in Ops, NEW gen \in Nat, NEW inst \in Instances \cup {None},
         NEW tl \in Timelines \cup {None}, NEW flag \in BOOLEAN
  PROVE  /\ Cmd(op, gen, inst, tl, flag) \in Command
         /\ Cmd(op, gen, inst, tl, flag).op = op
         /\ Cmd(op, gen, inst, tl, flag).gen = gen
         /\ Cmd(op, gen, inst, tl, flag).inst = inst
         /\ Cmd(op, gen, inst, tl, flag).tl = tl
         /\ Cmd(op, gen, inst, tl, flag).flag = flag
BY DEF Cmd, Command

\* A command for an instance names one.
Addressed == {"StopInstance", "Midi", "TimelineMidi", "PrepareLivePatch",
              "PrepareStandbyLivePatch", "FadeOutInstances", "ProbeLivePatch"}

NamesInstance(c) == c.op \in Addressed => c.inst \in Instances

QueueAddressed == \A n \in 1..Len(pending) : NamesInstance(pending[n])

Picked(kept) == \A k \in 1..Len(kept) : \E n \in 1..Len(pending) : kept[k] = pending[n]

\* What the start of a timeline leaves of the queue (SubmitBeginLiveTimeline)
\* is a queue of its fadeouts.
LEMMA RetainedAreFadeOuts ==
  ASSUME pending \in Seq(Command), NEW f \in InOrder
  PROVE  /\ [k \in DOMAIN f |-> pending[f[k]]] \in Seq(Command)
         /\ \A k \in 1..Len([k \in DOMAIN f |-> pending[f[k]]]) :
              IsFadeOut([l \in DOMAIN f |-> pending[f[l]]][k])
         /\ Picked([k \in DOMAIN f |-> pending[f[k]]])
<1> DEFINE kept == [k \in DOMAIN f |-> pending[f[k]]]
<1>1. PICK len \in Nat : f \in [1..len -> Retained]
  BY DEF InOrder
<1>2. ASSUME NEW k \in 1..len
      PROVE  f[k] \in 1..Len(pending) /\ pending[f[k]] \in Command /\ IsFadeOut(pending[f[k]])
  <2>1. f[k] \in Retained
    BY <1>1
  <2>2. f[k] \in 1..Len(pending) /\ IsFadeOut(pending[f[k]])
    BY <2>1 DEF Retained
  <2> QED BY <2>2
<1>3. kept = [k \in 1..len |-> pending[f[k]]]
  BY <1>1
<1>4. kept \in Seq(Command) /\ Len(kept) = len
  BY <1>2, <1>3
<1> QED BY <1>2, <1>3, <1>4 DEF Picked

(***************************************************************************)
(* Types.  The flags and the rest are proved apart.                        *)
(***************************************************************************)
FlagsOK == shutdown \in BOOLEAN /\ liveRequested \in BOOLEAN /\ outActive \in BOOLEAN

DataOK ==
  /\ generation \in Nat
  /\ pending \in Seq(Command)
  /\ liveTimeline \in Timelines \cup {None}

LEMMA TypeParts == QueueTypeOK <=> FlagsOK /\ DataOK
BY Zenon DEF QueueTypeOK, FlagsOK, DataOK

LEMMA InitType == QueueInit => QueueTypeOK
<1> SUFFICES ASSUME QueueInit PROVE QueueTypeOK
  OBVIOUS
<1>1. FlagsOK
  BY Zenon DEF QueueInit, FlagsOK
<1>2. DataOK
  BY DEF QueueInit, DataOK
<1> QED BY <1>1, <1>2, TypeParts

\* Flags are only ever set to a truth value.
LEMMA NextFlags == FlagsOK /\ [QueueNext]_queueVars => FlagsOK'
BY Zenon DEF FlagsOK, QueueNext, queueVars, Submit, SubmitPlay, SubmitStop, EndLive,
     SubmitStopInstance, SubmitMidi, SubmitFadeOutInstances, SubmitPatch,
     SubmitPrepareLivePatch, SubmitPrepareStandbyLivePatch, SubmitProbeLivePatch,
     SubmitBeginLiveTimeline, SubmitSetLiveTempo, SubmitTimelineMidi, Shutdown,
     TakeCommand, Finish

\* A command appended to a queue.
LEMMA AppendType ==
  ASSUME NEW queue \in Seq(Command), NEW command \in Command
  PROVE  Append(queue, command) \in Seq(Command)
OBVIOUS

(***************************************************************************)
(* The five shapes of a step                                               *)
(***************************************************************************)
\* The queue is thrown away (play, stop, the MIDI that enters live).
Restarted(c) ==
  /\ c \in Command /\ c.op \in {"Play", "StopAll", "Midi"} /\ NamesInstance(c)
  /\ pending' = Append(<<>>, c)
  /\ generation' = generation + 1 /\ c.gen = generation'
  /\ c.op = "Midi" => liveRequested' /\ ~liveRequested /\ c.flag = TRUE
  /\ liveTimeline' # None => liveRequested'
  /\ liveTimeline' \in Timelines \cup {None}

\* A command joins the others.
Appended(c) ==
  /\ c \in Command /\ c.op \notin {"Play", "StopAll", "BeginLiveTimeline"} /\ NamesInstance(c)
  /\ pending' = Append(pending, c)
  /\ generation' \in {generation, generation + 1}
  /\ IsFadeOut(c) \/ c.gen = generation'
  /\ generation' # generation => c.op \in {"StopInstance", "ProbeLivePatch"} \/ ~liveRequested
  /\ c.op \in {"SetLiveTempo", "TimelineMidi"} => c.tl = liveTimeline
  /\ c.op \in {"SetLiveTempo", "TimelineMidi", "FadeOutInstances"} => generation' = generation
  /\ c.op = "Midi" => c.flag = FALSE
  /\ c.op \in LiveOps => liveRequested' \/ liveTimeline \in Timelines
  /\ liveRequested => liveRequested'
  /\ liveTimeline' = liveTimeline

\* A timeline begins: of the others only fadeouts are kept.
Begun(kept, c) ==
  /\ c \in Command /\ c.op = "BeginLiveTimeline"
  /\ kept \in Seq(Command) /\ \A k \in 1..Len(kept) : IsFadeOut(kept[k])
  /\ Picked(kept)
  /\ pending' = Append(kept, c)
  /\ generation' \in {generation, generation + 1} /\ c.gen = generation'
  /\ generation' # generation => ~liveRequested
  /\ c.tl = liveTimeline' /\ liveTimeline' \in Timelines
  /\ liveRequested'

Kept ==
  /\ generation' = generation
  /\ liveRequested => liveRequested'
  /\ liveTimeline' = liveTimeline

Taken == pending # <<>> /\ pending' = Tail(pending) /\ Kept

Quiet == pending' = pending /\ Kept

Submitted ==
  \/ \E c : Restarted(c) \/ Appended(c)
  \/ \E kept, c : Begun(kept, c)

Step == Submitted \/ Taken \/ Quiet

\* Every submit has one of the first three shapes.
LEMMA SubmitShape == DataOK /\ Submit => Submitted
<1> SUFFICES ASSUME DataOK, Submit PROVE Submitted
  OBVIOUS
<1>0. /\ generation \in Nat /\ generation + 1 \in Nat
      /\ LiveGeneration \in {generation, generation + 1}
      /\ LiveGeneration # generation => ~liveRequested
      /\ LiveGeneration \in Nat
      /\ liveTimeline \in Timelines \cup {None}
  BY DEF DataOK, LiveGeneration, NextGeneration
<1>1. CASE SubmitPlay
  <2> DEFINE c == Cmd("Play", generation + 1, None, None, FALSE)
  <2>1. c \in Command
    BY <1>0, CmdType DEF Ops, LiveOps
  <2>2. c.op = "Play" /\ c.gen = generation + 1 /\ c.tl = None
    BY Zenon DEF Cmd
  <2>3. /\ pending' = Append(<<>>, c)
        /\ generation' = generation + 1
        /\ liveTimeline' = None
    BY Zenon, <1>1 DEF SubmitPlay, NewGeneration, NextGeneration, EndLive, Cleared
  <2> HIDE DEF c
  <2> QED BY <1>0, <2>1, <2>2, <2>3 DEF Submitted, Restarted, IsFadeOut, LiveOps, NamesInstance, Addressed
<1>2. CASE SubmitStop
  <2> DEFINE c == Cmd("StopAll", generation + 1, None, None, FALSE)
  <2>1. c \in Command
    BY <1>0, CmdType DEF Ops, LiveOps
  <2>2. c.op = "StopAll" /\ c.gen = generation + 1 /\ c.tl = None
    BY Zenon DEF Cmd
  <2>3. /\ pending' = Append(<<>>, c)
        /\ generation' = generation + 1
        /\ liveTimeline' = None
    BY Zenon, <1>2 DEF SubmitStop, NewGeneration, NextGeneration, EndLive, Cleared
  <2> HIDE DEF c
  <2> QED BY <1>0, <2>1, <2>2, <2>3 DEF Submitted, Restarted, IsFadeOut, LiveOps, NamesInstance, Addressed
<1>3. ASSUME NEW i \in Instances, SubmitStopInstance(i) PROVE Submitted
  <2> DEFINE c == Cmd("StopInstance", generation + 1, i, None, FALSE)
  <2>1. c \in Command
    BY <1>0, CmdType DEF Ops, LiveOps
  <2>2. c.op = "StopInstance" /\ c.gen = generation + 1 /\ c.tl = None /\ c.inst = i
    BY Zenon DEF Cmd
  <2>3. /\ pending' = Append(pending, c)
        /\ generation' = generation + 1
        /\ liveTimeline' = liveTimeline
        /\ liveRequested => liveRequested'
    BY Zenon, <1>3 DEF SubmitStopInstance, NewGeneration, NextGeneration
  <2> HIDE DEF c
  <2> QED BY <1>0, <2>1, <2>2, <2>3 DEF Submitted, Appended, IsFadeOut, LiveOps, NamesInstance, Addressed
<1>4. ASSUME NEW i \in Instances, SubmitMidi(i), ~liveRequested PROVE Submitted
  <2> DEFINE c == Cmd("Midi", generation + 1, i, None, TRUE)
  <2>1. c \in Command
    BY <1>0, CmdType DEF Ops, LiveOps
  <2>2. c.op = "Midi" /\ c.gen = generation + 1 /\ c.tl = None /\ c.inst = i /\ c.flag = TRUE
    BY Zenon DEF Cmd
  <2>3. /\ pending' = Append(<<>>, c)
        /\ generation' = generation + 1
        /\ liveTimeline' = liveTimeline
        /\ liveRequested'
        /\ ~liveRequested
    BY Zenon, <1>4 DEF SubmitMidi, NewGeneration, NextGeneration, Cleared
  <2> HIDE DEF c
  <2> QED BY <1>0, <2>1, <2>2, <2>3 DEF Submitted, Restarted, IsFadeOut, LiveOps, NamesInstance, Addressed
<1>5. ASSUME NEW i \in Instances, SubmitMidi(i), liveRequested PROVE Submitted
  <2> DEFINE c == Cmd("Midi", generation, i, None, FALSE)
  <2>1. c \in Command
    BY <1>0, CmdType DEF Ops, LiveOps
  <2>2. c.op = "Midi" /\ c.gen = generation /\ c.tl = None /\ c.inst = i /\ c.flag = FALSE
    BY Zenon DEF Cmd
  <2>3. /\ pending' = Append(pending, c)
        /\ generation' = generation
        /\ liveTimeline' = liveTimeline
        /\ liveRequested'
    BY Zenon, <1>5 DEF SubmitMidi
  <2> HIDE DEF c
  <2> QED BY <1>0, <2>1, <2>2, <2>3 DEF Submitted, Appended, IsFadeOut, LiveOps, NamesInstance, Addressed
<1>6. ASSUME NEW i \in Instances, SubmitFadeOutInstances(i) PROVE Submitted
  <2> DEFINE c == Cmd("FadeOutInstances", 0, i, None, FALSE)
  <2>1. c \in Command
    BY <1>0, CmdType DEF Ops, LiveOps
  <2>2. c.op = "FadeOutInstances" /\ c.gen = 0 /\ c.tl = None /\ c.inst = i
    BY Zenon DEF Cmd
  <2>3. /\ pending' = Append(pending, c)
        /\ generation' = generation
        /\ liveTimeline' = liveTimeline
        /\ liveRequested'
    BY Zenon, <1>6 DEF SubmitFadeOutInstances
  <2> HIDE DEF c
  <2> QED BY <1>0, <2>1, <2>2, <2>3 DEF Submitted, Appended, IsFadeOut, LiveOps, NamesInstance, Addressed
<1>7. ASSUME NEW i \in Instances, SubmitPrepareLivePatch(i) PROVE Submitted
  <2> DEFINE c == Cmd("PrepareLivePatch", LiveGeneration, i, None, FALSE)
  <2>1. c \in Command
    BY <1>0, CmdType DEF Ops, LiveOps
  <2>2. c.op = "PrepareLivePatch" /\ c.gen = LiveGeneration /\ c.tl = None /\ c.inst = i
    BY Zenon DEF Cmd
  <2>3. /\ pending' = Append(pending, c)
        /\ generation' = LiveGeneration
        /\ liveTimeline' = liveTimeline
        /\ liveRequested'
    BY Zenon, <1>7 DEF SubmitPrepareLivePatch, SubmitPatch
  <2> HIDE DEF c
  <2> QED BY <1>0, <2>1, <2>2, <2>3 DEF Submitted, Appended, IsFadeOut, LiveOps, NamesInstance, Addressed
<1>8. ASSUME NEW i \in Instances, SubmitPrepareStandbyLivePatch(i) PROVE Submitted
  <2> DEFINE c == Cmd("PrepareStandbyLivePatch", LiveGeneration, i, None, FALSE)
  <2>1. c \in Command
    BY <1>0, CmdType DEF Ops, LiveOps
  <2>2. c.op = "PrepareStandbyLivePatch" /\ c.gen = LiveGeneration /\ c.tl = None /\ c.inst = i
    BY Zenon DEF Cmd
  <2>3. /\ pending' = Append(pending, c)
        /\ generation' = LiveGeneration
        /\ liveTimeline' = liveTimeline
        /\ liveRequested'
    BY Zenon, <1>8 DEF SubmitPrepareStandbyLivePatch, SubmitPatch
  <2> HIDE DEF c
  <2> QED BY <1>0, <2>1, <2>2, <2>3 DEF Submitted, Appended, IsFadeOut, LiveOps, NamesInstance, Addressed
<1>9. ASSUME NEW i \in Instances, SubmitProbeLivePatch(i) PROVE Submitted
  <2> DEFINE c == Cmd("ProbeLivePatch", generation + 1, i, None, FALSE)
  <2>1. c \in Command
    BY <1>0, CmdType DEF Ops, LiveOps
  <2>2. c.op = "ProbeLivePatch" /\ c.gen = generation + 1 /\ c.tl = None /\ c.inst = i
    BY Zenon DEF Cmd
  <2>3. /\ pending' = Append(pending, c)
        /\ generation' = generation + 1
        /\ liveTimeline' = liveTimeline
        /\ liveRequested'
    BY Zenon, <1>9 DEF SubmitProbeLivePatch, NewGeneration, NextGeneration
  <2> HIDE DEF c
  <2> QED BY <1>0, <2>1, <2>2, <2>3 DEF Submitted, Appended, IsFadeOut, LiveOps, NamesInstance, Addressed
<1>10. ASSUME NEW t \in Timelines, NEW valid \in BOOLEAN, SubmitBeginLiveTimeline(t, valid)
       PROVE  Submitted
  <2> DEFINE c == Cmd("BeginLiveTimeline", LiveGeneration, None, t, valid)
  <2>1. c \in Command
    BY <1>0, CmdType DEF Ops, LiveOps
  <2>5. c.op = "BeginLiveTimeline" /\ c.gen = LiveGeneration /\ c.tl = t
    BY Zenon DEF Cmd
  <2>2. /\ generation' = LiveGeneration
        /\ liveTimeline' = t
        /\ liveRequested'
    BY Zenon, <1>10 DEF SubmitBeginLiveTimeline
  <2>3. PICK f \in InOrder : pending' = Append([k \in DOMAIN f |-> pending[f[k]]], c)
    BY <1>10 DEF SubmitBeginLiveTimeline
  <2>4. PICK kept \in Seq(Command) :
          /\ pending' = Append(kept, c) /\ Picked(kept)
          /\ \A k \in 1..Len(kept) : IsFadeOut(kept[k])
    BY <2>3, RetainedAreFadeOuts DEF DataOK
  <2> HIDE DEF c
  <2> QED BY <1>0, <2>1, <2>2, <2>4, <2>5 DEF Submitted, Begun
<1>11. ASSUME NEW t \in Timelines, SubmitSetLiveTempo(t) PROVE Submitted
  <2> DEFINE c == Cmd("SetLiveTempo", generation, None, t, FALSE)
  <2>1. c \in Command
    BY <1>0, CmdType DEF Ops, LiveOps
  <2>2. c.op = "SetLiveTempo" /\ c.gen = generation /\ c.tl = t
    BY Zenon DEF Cmd
  <2>3. /\ pending' = Append(pending, c)
        /\ generation' = generation
        /\ liveTimeline' = liveTimeline
        /\ liveTimeline = t
        /\ liveRequested => liveRequested'
    BY Zenon, <1>11 DEF SubmitSetLiveTempo, IsOpen
  <2> HIDE DEF c
  <2> QED BY <1>0, <2>1, <2>2, <2>3 DEF Submitted, Appended, IsFadeOut, LiveOps, NamesInstance, Addressed
<1>12. ASSUME NEW t \in Timelines, NEW i \in Instances, SubmitTimelineMidi(t, i)
       PROVE  Submitted
  <2> DEFINE c == Cmd("TimelineMidi", generation, i, t, FALSE)
  <2>1. c \in Command
    BY <1>0, CmdType DEF Ops, LiveOps
  <2>2. c.op = "TimelineMidi" /\ c.gen = generation /\ c.tl = t /\ c.inst = i
    BY Zenon DEF Cmd
  <2>3. /\ pending' = Append(pending, c)
        /\ generation' = generation
        /\ liveTimeline' = liveTimeline
        /\ liveTimeline = t
        /\ liveRequested => liveRequested'
    BY Zenon, <1>12 DEF SubmitTimelineMidi, IsOpen
  <2> HIDE DEF c
  <2> QED BY <1>0, <2>1, <2>2, <2>3 DEF Submitted, Appended, IsFadeOut, LiveOps, NamesInstance, Addressed
<1> QED
  BY Zenon, <1>1, <1>2, <1>3, <1>4, <1>5, <1>6, <1>7, <1>8, <1>9, <1>10, <1>11, <1>12 DEF Submit

\* Every step of the queue has one of the five.
LEMMA StepShape == DataOK /\ [QueueNext]_queueVars => Step
<1> SUFFICES ASSUME DataOK, [QueueNext]_queueVars PROVE Step
  OBVIOUS
<1>1. CASE Submit
  BY <1>1, SubmitShape DEF Step
<1>2. CASE TakeCommand
  BY Zenon, <1>2 DEF TakeCommand, CanTake, Step, Taken, Kept
<1>3. CASE Shutdown \/ Finish \/ UNCHANGED queueVars
  BY Zenon, <1>3 DEF Shutdown, Finish, queueVars, Step, Quiet, Kept
<1> QED BY Zenon, <1>1, <1>2, <1>3 DEF QueueNext

(***************************************************************************)
(* Types: the rest                                                         *)
(***************************************************************************)
\* Every submit puts a command into the queue, and a take leaves commands.
LEMMA StepData == DataOK /\ Step => DataOK'
<1> SUFFICES ASSUME DataOK, Step PROVE DataOK'
  OBVIOUS
<1> USE DEF DataOK
<1>1. ASSUME NEW c, Restarted(c) PROVE DataOK'
  BY <1>1 DEF Restarted
<1>2. ASSUME NEW c, Appended(c) PROVE DataOK'
  BY <1>2, AppendType DEF Appended
<1>3. ASSUME NEW kept, NEW c, Begun(kept, c) PROVE DataOK'
  BY <1>3, AppendType DEF Begun
<1>4. CASE Taken
  BY <1>4 DEF Taken, Kept
<1>5. CASE Quiet
  BY <1>5 DEF Quiet, Kept
<1> QED BY <1>1, <1>2, <1>3, <1>4, <1>5 DEF Step, Submitted

LEMMA NextType == QueueTypeOK /\ [QueueNext]_queueVars => QueueTypeOK'
<1> SUFFICES ASSUME QueueTypeOK, [QueueNext]_queueVars PROVE QueueTypeOK'
  OBVIOUS
<1>1. FlagsOK /\ DataOK
  BY TypeParts
<1>2. FlagsOK' /\ DataOK'
  BY <1>1, NextFlags, StepShape, StepData
<1> QED BY <1>2, TypeParts DEF QueueTypeOK, FlagsOK, DataOK

\* The queue only ever holds commands, its generation is a natural number, and
\* the open timeline is one that a client named.
THEOREM QueueTypeCorrect == QueueSpec => []QueueTypeOK
BY InitType, NextType, PTL DEF QueueSpec

(***************************************************************************)
(* The queued commands                                                     *)
(***************************************************************************)
\* An element of a queue a command was appended to.
LEMMA AppendElements ==
  ASSUME NEW queue \in Seq(Command), NEW command \in Command
  PROVE  /\ Len(Append(queue, command)) = Len(queue) + 1
         /\ Append(queue, command)[Len(queue) + 1] = command
         /\ \A n \in 1..Len(queue) : Append(queue, command)[n] = queue[n]
OBVIOUS

\* An element of a queue the oldest command was taken from.
LEMMA TailElements ==
  ASSUME NEW queue \in Seq(Command), queue # <<>>
  PROVE  /\ Len(Tail(queue)) = Len(queue) - 1
         /\ Len(queue) \in Nat
         /\ \A n \in 1..(Len(queue) - 1) : Tail(queue)[n] = queue[n + 1]
OBVIOUS

LEMMA InitQueue == QueueInit => QueueInv
BY DEF QueueInit, QueueInv, LiveCommandsNeedLive, TimelineNeedsLive,
     TimelineCommandsAreCurrent, GenerationsAreOrdered, EnterLiveComesFirst

\* The fadeouts the start of a timeline keeps are those of the queue.
LEMMA StepAddressed == DataOK /\ QueueAddressed /\ Step => QueueAddressed'
<1> SUFFICES ASSUME DataOK, QueueAddressed, Step PROVE QueueAddressed'
  OBVIOUS
<1> USE DEF DataOK, QueueAddressed
<1>1. ASSUME NEW c, Restarted(c) PROVE QueueAddressed'
  BY <1>1 DEF Restarted
<1>2. ASSUME NEW c, Appended(c) PROVE QueueAddressed'
  <2>1. pending' = Append(pending, c) /\ c \in Command /\ Len(pending) \in Nat
    BY <1>2 DEF Appended
  <2>2. /\ Len(pending') = Len(pending) + 1
        /\ pending'[Len(pending) + 1] = c
        /\ \A n \in 1..Len(pending) : pending'[n] = pending[n]
    BY <2>1, AppendElements
  <2> QED BY <1>2, <2>1, <2>2 DEF Appended
<1>3. ASSUME NEW kept, NEW c, Begun(kept, c) PROVE QueueAddressed'
  <2>1. /\ kept \in Seq(Command) /\ Len(kept) \in Nat
        /\ pending' = Append(kept, c) /\ c \in Command
    BY <1>3 DEF Begun
  <2>2. /\ Len(pending') = Len(kept) + 1
        /\ pending'[Len(kept) + 1] = c
        /\ \A n \in 1..Len(kept) : pending'[n] = kept[n]
    BY <2>1, AppendElements
  <2>3. NamesInstance(c) /\ \A k \in 1..Len(kept) : NamesInstance(kept[k])
    BY <1>3 DEF Begun, NamesInstance, Addressed, Picked
  <2> QED BY <2>1, <2>2, <2>3
<1>4. CASE Taken
  <2>1. pending # <<>> /\ pending' = Tail(pending) /\ Len(pending) \in Nat \ {0}
    BY <1>4 DEF Taken
  <2>2. /\ Len(pending') = Len(pending) - 1
        /\ \A n \in 1..(Len(pending) - 1) : pending'[n] = pending[n + 1]
    BY <2>1, TailElements
  <2> QED BY <1>4, <2>1, <2>2 DEF Taken, Kept
<1>5. CASE Quiet
  BY <1>5 DEF Quiet, Kept
<1> QED BY <1>1, <1>2, <1>3, <1>4, <1>5 DEF Step, Submitted

LEMMA StepTimelineNeedsLive == DataOK /\ TimelineNeedsLive /\ Step => TimelineNeedsLive'
BY NoneAssumption DEF DataOK, TimelineNeedsLive, Step, Submitted, Restarted, Appended, Begun, Taken, Quiet, Kept

LEMMA StepLiveCommandsNeedLive ==
  DataOK /\ TimelineNeedsLive /\ LiveCommandsNeedLive /\ Step => LiveCommandsNeedLive'
<1> SUFFICES ASSUME DataOK, TimelineNeedsLive, LiveCommandsNeedLive, Step PROVE LiveCommandsNeedLive'
  OBVIOUS
<1> USE DEF DataOK, LiveCommandsNeedLive, TimelineNeedsLive
<1>1. ASSUME NEW c, Restarted(c) PROVE LiveCommandsNeedLive'
  BY <1>1 DEF Restarted, LiveOps
<1>2. ASSUME NEW c, Appended(c) PROVE LiveCommandsNeedLive'
  <2>1. pending' = Append(pending, c) /\ c \in Command /\ Len(pending) \in Nat
    BY <1>2 DEF Appended
  <2>2. /\ Len(pending') = Len(pending) + 1
        /\ pending'[Len(pending) + 1] = c
        /\ \A n \in 1..Len(pending) : pending'[n] = pending[n]
    BY <2>1, AppendElements
  <2> QED BY <1>2, <2>1, <2>2 , NoneAssumption DEF Appended
<1>3. ASSUME NEW kept, NEW c, Begun(kept, c) PROVE LiveCommandsNeedLive'
  <2>1. /\ kept \in Seq(Command) /\ Len(kept) \in Nat
        /\ pending' = Append(kept, c) /\ c \in Command
    BY <1>3 DEF Begun
  <2>2. /\ Len(pending') = Len(kept) + 1
        /\ pending'[Len(kept) + 1] = c
        /\ \A n \in 1..Len(kept) : pending'[n] = kept[n]
    BY <2>1, AppendElements
  <2> QED BY <1>3, <2>1, <2>2 DEF Begun, IsFadeOut, LiveOps
<1>4. CASE Taken
  <2>1. pending # <<>> /\ pending' = Tail(pending) /\ Len(pending) \in Nat \ {0}
    BY <1>4 DEF Taken
  <2>2. /\ Len(pending') = Len(pending) - 1
        /\ \A n \in 1..(Len(pending) - 1) : pending'[n] = pending[n + 1]
    BY <2>1, TailElements
  <2> QED BY <1>4, <2>1, <2>2 DEF Taken, Kept
<1>5. CASE Quiet
  BY <1>5 DEF Quiet, Kept
<1> QED BY <1>1, <1>2, <1>3, <1>4, <1>5 DEF Step, Submitted

LEMMA StepTimelineCommandsAreCurrent ==
  DataOK /\ TimelineCommandsAreCurrent /\ Step => TimelineCommandsAreCurrent'
<1> SUFFICES ASSUME DataOK, TimelineCommandsAreCurrent, Step PROVE TimelineCommandsAreCurrent'
  OBVIOUS
<1> USE DEF DataOK, TimelineCommandsAreCurrent
<1>1. ASSUME NEW c, Restarted(c) PROVE TimelineCommandsAreCurrent'
  BY <1>1 DEF Restarted, LiveOps
<1>2. ASSUME NEW c, Appended(c) PROVE TimelineCommandsAreCurrent'
  <2>1. pending' = Append(pending, c) /\ c \in Command /\ Len(pending) \in Nat
    BY <1>2 DEF Appended
  <2>2. /\ Len(pending') = Len(pending) + 1
        /\ pending'[Len(pending) + 1] = c
        /\ \A n \in 1..Len(pending) : pending'[n] = pending[n]
    BY <2>1, AppendElements
  <2> QED BY <1>2, <2>1, <2>2 DEF Appended
<1>3. ASSUME NEW kept, NEW c, Begun(kept, c) PROVE TimelineCommandsAreCurrent'
  <2>1. /\ kept \in Seq(Command) /\ Len(kept) \in Nat
        /\ pending' = Append(kept, c) /\ c \in Command
    BY <1>3 DEF Begun
  <2>2. /\ Len(pending') = Len(kept) + 1
        /\ pending'[Len(kept) + 1] = c
        /\ \A n \in 1..Len(kept) : pending'[n] = kept[n]
    BY <2>1, AppendElements
  <2> QED BY <1>3, <2>1, <2>2 DEF Begun, IsFadeOut, LiveOps
<1>4. CASE Taken
  <2>1. pending # <<>> /\ pending' = Tail(pending) /\ Len(pending) \in Nat \ {0}
    BY <1>4 DEF Taken
  <2>2. /\ Len(pending') = Len(pending) - 1
        /\ \A n \in 1..(Len(pending) - 1) : pending'[n] = pending[n + 1]
    BY <2>1, TailElements
  <2> QED BY <1>4, <2>1, <2>2 DEF Taken, Kept
<1>5. CASE Quiet
  BY <1>5 DEF Quiet, Kept
<1> QED BY <1>1, <1>2, <1>3, <1>4, <1>5 DEF Step, Submitted

LEMMA StepGenerationsAreOrdered ==
  DataOK /\ GenerationsAreOrdered /\ Step => GenerationsAreOrdered'
<1> SUFFICES ASSUME DataOK, GenerationsAreOrdered, Step PROVE GenerationsAreOrdered'
  OBVIOUS
<1> USE DEF DataOK, GenerationsAreOrdered
<1>1. ASSUME NEW c, Restarted(c) PROVE GenerationsAreOrdered'
  BY <1>1 DEF Restarted, LiveOps
<1>2. ASSUME NEW c, Appended(c) PROVE GenerationsAreOrdered'
  <2>1. pending' = Append(pending, c) /\ c \in Command /\ Len(pending) \in Nat
    BY <1>2 DEF Appended
  <2>2. /\ Len(pending') = Len(pending) + 1
        /\ pending'[Len(pending) + 1] = c
        /\ \A n \in 1..Len(pending) : pending'[n] = pending[n]
    BY <2>1, AppendElements
  <2>3. ASSUME NEW n \in 1..Len(pending)
        PROVE  pending[n].gen \in Nat /\ (IsFadeOut(pending[n]) \/ pending[n].gen <= generation')
    <3>1. pending[n] \in Command
      OBVIOUS
    <3>2. pending[n].gen \in Nat
      BY <3>1 DEF Command
    <3>3. generation \in Nat /\ generation' \in {generation, generation + 1}
      BY <1>2 DEF Appended
    <3>4. IsFadeOut(pending[n]) \/ pending[n].gen <= generation
      OBVIOUS
    <3> QED BY <3>2, <3>3, <3>4
  <2>4. \A n \in 1..Len(pending) : ~IsFadeOut(pending[n]) =>
          \A m \in 1..(n - 1) : IsFadeOut(pending[m]) \/ pending[m].gen <= pending[n].gen
    OBVIOUS
  <2>5. (IsFadeOut(c) \/ c.gen = generation') /\ generation' \in Nat
    BY <1>2 DEF Appended
  <2> SUFFICES ASSUME NEW n \in 1..(Len(pending) + 1), ~IsFadeOut(pending'[n])
               PROVE  /\ pending'[n].gen <= generation'
                      /\ \A m \in 1..(n - 1) :
                           IsFadeOut(pending'[m]) \/ pending'[m].gen <= pending'[n].gen
    BY <2>2 DEF IsFadeOut
  <2>6. CASE n \in 1..Len(pending)
    BY <2>1, <2>2, <2>3, <2>4, <2>6
  <2>7. CASE n = Len(pending) + 1
    BY <2>1, <2>2, <2>3, <2>5, <2>7
  <2> QED BY <2>1, <2>6, <2>7
<1>3. ASSUME NEW kept, NEW c, Begun(kept, c) PROVE GenerationsAreOrdered'
  <2>1. /\ kept \in Seq(Command) /\ Len(kept) \in Nat
        /\ pending' = Append(kept, c) /\ c \in Command
    BY <1>3 DEF Begun
  <2>2. /\ Len(pending') = Len(kept) + 1
        /\ pending'[Len(kept) + 1] = c
        /\ \A n \in 1..Len(kept) : pending'[n] = kept[n]
    BY <2>1, AppendElements
  <2> QED BY <1>3, <2>1, <2>2 DEF Begun, IsFadeOut, LiveOps
<1>4. CASE Taken
  <2>1. pending # <<>> /\ pending' = Tail(pending) /\ Len(pending) \in Nat \ {0}
    BY <1>4 DEF Taken
  <2>2. /\ Len(pending') = Len(pending) - 1
        /\ \A n \in 1..(Len(pending) - 1) : pending'[n] = pending[n + 1]
    BY <2>1, TailElements
  <2> QED BY <1>4, <2>1, <2>2 DEF Taken, Kept
<1>5. CASE Quiet
  BY <1>5 DEF Quiet, Kept
<1> QED BY <1>1, <1>2, <1>3, <1>4, <1>5 DEF Step, Submitted

LEMMA StepEnterLiveComesFirst ==
  DataOK /\ EnterLiveComesFirst /\ Step => EnterLiveComesFirst'
<1> SUFFICES ASSUME DataOK, EnterLiveComesFirst, Step PROVE EnterLiveComesFirst'
  OBVIOUS
<1> USE DEF DataOK, EnterLiveComesFirst
<1>1. ASSUME NEW c, Restarted(c) PROVE EnterLiveComesFirst'
  BY <1>1 DEF Restarted, LiveOps
<1>2. ASSUME NEW c, Appended(c) PROVE EnterLiveComesFirst'
  <2>1. pending' = Append(pending, c) /\ c \in Command /\ Len(pending) \in Nat
    BY <1>2 DEF Appended
  <2>2. /\ Len(pending') = Len(pending) + 1
        /\ pending'[Len(pending) + 1] = c
        /\ \A n \in 1..Len(pending) : pending'[n] = pending[n]
    BY <2>1, AppendElements
  <2> QED BY <1>2, <2>1, <2>2 DEF Appended
<1>3. ASSUME NEW kept, NEW c, Begun(kept, c) PROVE EnterLiveComesFirst'
  <2>1. /\ kept \in Seq(Command) /\ Len(kept) \in Nat
        /\ pending' = Append(kept, c) /\ c \in Command
    BY <1>3 DEF Begun
  <2>2. /\ Len(pending') = Len(kept) + 1
        /\ pending'[Len(kept) + 1] = c
        /\ \A n \in 1..Len(kept) : pending'[n] = kept[n]
    BY <2>1, AppendElements
  <2> QED BY <1>3, <2>1, <2>2 DEF Begun, IsFadeOut, LiveOps
<1>4. CASE Taken
  <2>1. pending # <<>> /\ pending' = Tail(pending) /\ Len(pending) \in Nat \ {0}
    BY <1>4 DEF Taken
  <2>2. /\ Len(pending') = Len(pending) - 1
        /\ \A n \in 1..(Len(pending) - 1) : pending'[n] = pending[n + 1]
    BY <2>1, TailElements
  <2> QED BY <1>4, <2>1, <2>2 DEF Taken, Kept
<1>5. CASE Quiet
  BY <1>5 DEF Quiet, Kept
<1> QED BY <1>1, <1>2, <1>3, <1>4, <1>5 DEF Step, Submitted

LEMMA NextQueue == QueueTypeOK /\ QueueInv /\ [QueueNext]_queueVars => QueueInv'
<1> SUFFICES ASSUME QueueTypeOK, QueueInv, [QueueNext]_queueVars PROVE QueueInv'
  OBVIOUS
<1>1. DataOK /\ Step
  BY TypeParts, StepShape
<1>2. /\ LiveCommandsNeedLive /\ TimelineNeedsLive /\ TimelineCommandsAreCurrent
      /\ GenerationsAreOrdered /\ EnterLiveComesFirst
  BY DEF QueueInv
<1>3. LiveCommandsNeedLive' /\ TimelineNeedsLive'
  BY <1>1, <1>2, StepLiveCommandsNeedLive, StepTimelineNeedsLive
<1>4. TimelineCommandsAreCurrent' /\ GenerationsAreOrdered' /\ EnterLiveComesFirst'
  BY <1>1, <1>2, StepTimelineCommandsAreCurrent, StepGenerationsAreOrdered,
     StepEnterLiveComesFirst
<1> QED BY <1>3, <1>4 DEF QueueInv

\* Whatever the clients submit and however far the worker has got: the queued
\* live commands belong to a live that is still requested, the queued timeline
\* commands to the open timeline, the generations never go back, and nothing
\* stands before the MIDI that enters live.
THEOREM QueueInvCorrect == QueueSpec => []QueueInv
<1>1. QueueInit => QueueTypeOK /\ QueueInv
  BY InitType, InitQueue
<1>2. QueueTypeOK /\ QueueInv /\ [QueueNext]_queueVars => (QueueTypeOK /\ QueueInv)'
  BY NextType, NextQueue
<1> QED BY <1>1, <1>2, PTL DEF QueueSpec

\* No play or stop leaves work of the live it ended behind itself.
COROLLARY LiveCommandsNeedLiveCorrect == QueueSpec => []LiveCommandsNeedLive
<1>1. QueueInv => LiveCommandsNeedLive
  BY DEF QueueInv
<1> QED BY <1>1, QueueInvCorrect, PTL

\* No play or stop leaves the timeline of the live it ended open.
COROLLARY TimelineNeedsLiveCorrect == QueueSpec => []TimelineNeedsLive
<1>1. QueueInv => TimelineNeedsLive
  BY DEF QueueInv
<1> QED BY <1>1, QueueInvCorrect, PTL

\* The queue never mixes the events of two timelines, however often one is
\* replaced by another before the worker gets to it.
COROLLARY TimelineCommandsAreCurrentCorrect == QueueSpec => []TimelineCommandsAreCurrent
<1>1. QueueInv => TimelineCommandsAreCurrent
  BY DEF QueueInv
<1> QED BY <1>1, QueueInvCorrect, PTL

\* The worker takes commands in the order of their generations and never one of
\* a generation the audio thread has not been told about.
COROLLARY GenerationsAreOrderedCorrect == QueueSpec => []GenerationsAreOrdered
<1>1. QueueInv => GenerationsAreOrdered
  BY DEF QueueInv
<1> QED BY <1>1, QueueInvCorrect, PTL

\* The reset at the entry into live cuts off nothing submitted after it.
COROLLARY EnterLiveComesFirstCorrect == QueueSpec => []EnterLiveComesFirst
<1>1. QueueInv => EnterLiveComesFirst
  BY DEF QueueInv
<1> QED BY <1>1, QueueInvCorrect, PTL

(***************************************************************************)
(* The frames a submit drops                                               *)
(***************************************************************************)
DropStep ==
  (liveRequested /\ generation' # generation) =>
    pending' # <<>> /\ pending'[Len(pending')].op \in
      {"Play", "StopAll", "StopInstance", "ProbeLivePatch"}

LEMMA StepDrops == DataOK /\ Step => DropStep
<1> SUFFICES ASSUME DataOK, Step, liveRequested, generation' # generation PROVE DropStep
  BY DEF DropStep
<1> USE DEF DataOK, DropStep
<1>1. ASSUME NEW c, Restarted(c) PROVE DropStep
  BY <1>1 DEF Restarted
<1>2. ASSUME NEW c, Appended(c) PROVE DropStep
  <2>1. /\ pending' = Append(pending, c) /\ c \in Command
        /\ c.op \in {"StopInstance", "ProbeLivePatch"}
    BY <1>2 DEF Appended
  <2> QED BY <2>1
<1>3. ASSUME NEW kept, NEW c, Begun(kept, c) PROVE DropStep
  BY <1>3 DEF Begun
<1>4. CASE Taken \/ Quiet
  BY <1>4 DEF Taken, Quiet, Kept
<1> QED BY <1>1, <1>2, <1>3, <1>4 DEF Step, Submitted

\* While a live goes on, none of its rendered frames is thrown away by the start
\* of a timeline, a tempo change, timeline events, a fadeout or a patch load.
THEOREM OnlyTheseDropFramesCorrect == QueueSpec => OnlyTheseDropFrames
<1>1. QueueTypeOK /\ [QueueNext]_queueVars =>
        [(liveRequested /\ generation' # generation) =>
           pending' # <<>> /\ pending'[Len(pending')].op \in
             {"Play", "StopAll", "StopInstance", "ProbeLivePatch"}]_queueVars
  BY TypeParts, StepShape, StepDrops DEF DropStep
<1> QED BY <1>1, QueueTypeCorrect, PTL DEF QueueSpec, OnlyTheseDropFrames

LEMMA ClientUsesQueue == ClientStep => [QueueNext]_queueVars
BY Zenon DEF ClientStep, HttpSubmit, IpcSubmit, IpcSubmitAndWait, IpcAcceptStandby,
     IpcCallFails, IpcPollStandby, DropPlayer, QueueNext, Submit

LEMMA WorkerUsesQueue == WorkerStep => [QueueNext]_queueVars
<1> SUFFICES ASSUME WorkerStep PROVE [QueueNext]_queueVars
  OBVIOUS
<1>1. CASE PollStandby \/ Settle
  BY Zenon, <1>1 DEF PollStandby, Settle, TakeStandbyReply, Complete, FinishIf, QueueNext
<1>2. CASE Fetch \/ NoFetch
  BY Zenon, <1>2 DEF Fetch, NoFetch, QueueNext
<1>3. CASE ApplyStopAll \/ ApplyMidi \/ ApplyFadeOutInstances \/ ApplySetLiveTempo
  BY Zenon, <1>3 DEF ApplyStopAll, ApplyMidi, ApplyFadeOutInstances, ApplySetLiveTempo
<1>4. CASE ApplyTimelineMidi \/ ApplyPrepareStandby
  BY Zenon, <1>4 DEF ApplyTimelineMidi, ApplyPrepareStandby
<1>5. CASE ApplyStopInstance
  BY Zenon, <1>5 DEF ApplyStopInstance, FinishIf, QueueNext
<1>6. CASE ApplyBeginLiveTimeline
  BY Zenon, <1>6 DEF ApplyBeginLiveTimeline, QueueNext
<1>7. CASE BeginPlay \/ BeginPatch \/ FinishPlay
  BY Zenon, <1>7 DEF BeginPlay, BeginPatch, FinishPlay, Wait
<1>8. CASE FinishPatch
  BY Zenon, <1>8 DEF FinishPatch, FinishIf, QueueNext
<1>9. CASE SendRender \/ PushChunk \/ ShutdownBanks \/ JoinBanks
  BY Zenon, <1>9 DEF SendRender, PushChunk, ShutdownBanks, JoinBanks
<1>10. CASE CollectRender
  BY Zenon, <1>10 DEF CollectRender, QueueNext
<1> QED
  BY Zenon, <1>1, <1>2, <1>3, <1>4, <1>5, <1>6, <1>7, <1>8, <1>9, <1>10 DEF WorkerStep

LEMMA NextUsesQueue == [Next]_vars => [QueueNext]_queueVars
<1> SUFFICES ASSUME [Next]_vars PROVE [QueueNext]_queueVars
  OBVIOUS
<1>1. ASSUME NEW b \in Banks, BankWorks(b) \/ BankPanics(b) PROVE UNCHANGED queueVars
  BY Zenon, <1>1 DEF BankWorks, BankPanics
<1>2. CASE Done \/ UNCHANGED vars
  BY Zenon, <1>2 DEF Done, vars
<1> QED BY Zenon, <1>1, <1>2, ClientUsesQueue, WorkerUsesQueue DEF Next

\* The player implements its command queue: whatever the clients, the worker and
\* the banks do, the queue takes only the steps PlayerCommands describes.
THEOREM PlayerImplementsQueue == Spec => QueueSpec
<1>1. Init => QueueInit
  BY Zenon DEF Init
<1> QED BY <1>1, NextUsesQueue, PTL DEF Spec, QueueSpec

\* So in the running player, too, the worker is never handed a live command of
\* a live that ended, a timeline command of a timeline that was replaced, or a
\* generation older than one it has seen.
THEOREM PlayerKeepsQueueInv == Spec => [](QueueTypeOK /\ QueueInv)
BY PlayerImplementsQueue, QueueTypeCorrect, QueueInvCorrect, PTL

(***************************************************************************)
(* The channel of a bank                                                   *)
(***************************************************************************)
NoticeOps == {"none", "ResetAll", "ReleaseAll", "ReleaseInstance", "ReleaseAllInNextBlock",
              "FadeOut", "Shutdown"}
RequestOps == {"RenderBlock", "RenderScheduled", "PreparePatch", "ProbePatch"}

Notices == [op: NoticeOps, who: {"none"}, insts: SUBSET Instances]
Requests == [op: RequestOps, who: {"render", "standby", "sync"}, insts: SUBSET Instances]
BankCommand == Notices \cup Requests
BankReply == [request: Requests \cup Notices, result: {"ok", "err", "end"}, failed: SUBSET Instances]

ChannelType ==
  /\ commands \in [Banks -> Seq(BankCommand)]
  /\ replies \in [Banks -> Seq(BankReply)]
  /\ busy \in [Banks -> BOOLEAN]
  /\ asked \in [Banks -> BankCommand]
  /\ dead \subseteq Banks

\* Without a request, and with one request r among notices.
NoneWaits(queue) == \A n \in 1..Len(queue) : ~IsRequest(queue[n])
Waits(queue, r) ==
  \E n \in 1..Len(queue) :
    /\ queue[n] = r /\ IsRequest(r)
    /\ \A m \in 1..Len(queue) : IsRequest(queue[m]) => m = n

LEMMA Kinds == /\ \A c \in Notices : ~IsRequest(c)
               /\ \A c \in Requests : IsRequest(c)
BY DEF Notices, Requests, IsRequest

LEMMA AppendNotice ==
  ASSUME NEW q \in Seq(BankCommand), NEW c \in Notices
  PROVE  /\ Append(q, c) \in Seq(BankCommand)
         /\ NoneWaits(q) => NoneWaits(Append(q, c))
         /\ \A r : Waits(q, r) => Waits(Append(q, c), r)
<1>1. ~IsRequest(c)
  BY Kinds
<1> QED BY <1>1 DEF NoneWaits, Waits, BankCommand

LEMMA AppendRequest ==
  ASSUME NEW q \in Seq(BankCommand), NEW r \in Requests
  PROVE  /\ Append(q, r) \in Seq(BankCommand)
         /\ NoneWaits(q) => Waits(Append(q, r), r)
<1>1. IsRequest(r)
  BY Kinds
<1>2. Append(q, r)[Len(q) + 1] = r /\ Len(Append(q, r)) = Len(q) + 1
  OBVIOUS
<1> QED BY <1>1, <1>2 DEF NoneWaits, Waits, BankCommand

LEMMA TakeNotice ==
  ASSUME NEW q \in Seq(BankCommand), q # <<>>, ~IsRequest(Head(q))
  PROVE  /\ NoneWaits(q) => NoneWaits(Tail(q))
         /\ \A r : Waits(q, r) => Waits(Tail(q), r)
<1>1. NoneWaits(q) => NoneWaits(Tail(q))
  BY DEF NoneWaits
<1>2. ASSUME NEW r, Waits(q, r) PROVE Waits(Tail(q), r)
  <2>1. PICK n \in 1..Len(q) : /\ q[n] = r /\ IsRequest(r)
                               /\ \A m \in 1..Len(q) : IsRequest(q[m]) => m = n
    BY <1>2 DEF Waits
  <2>2. n # 1
    BY <2>1
  <2>3. n - 1 \in 1..Len(Tail(q)) /\ Tail(q)[n - 1] = r
    BY <2>1, <2>2
  <2>4. \A m \in 1..Len(Tail(q)) : IsRequest(Tail(q)[m]) => m = n - 1
    BY <2>1
  <2> QED BY <2>1, <2>3, <2>4 DEF Waits
<1> QED BY <1>1, <1>2

LEMMA TakeRequest ==
  ASSUME NEW q \in Seq(BankCommand), q # <<>>, IsRequest(Head(q))
  PROVE  /\ ~NoneWaits(q)
         /\ \A r : Waits(q, r) => Head(q) = r /\ NoneWaits(Tail(q))
BY DEF NoneWaits, Waits

\* The state of the channel of bank b: nothing is asked, the request waits, its
\* reply waits, or the bank died over it.
ChannelInv(b) ==
  /\ b \in dead => commands[b] = <<>>
  /\ \/ ~busy[b] /\ NoneWaits(commands[b]) /\ replies[b] = <<>>
     \/ busy[b] /\ Waits(commands[b], asked[b]) /\ replies[b] = <<>>
     \/ /\ busy[b] /\ NoneWaits(commands[b])
        /\ Len(replies[b]) = 1 /\ replies[b][1].request = asked[b]
     \/ busy[b] /\ b \in dead /\ replies[b] = <<>>

(***************************************************************************)
(* What a step does to one bank                                            *)
(***************************************************************************)
\* A queue of commands with or without one more notice.
Noted(b, queue) ==
  \/ queue = commands[b]
  \/ b \notin dead /\ \E c \in Notices : queue = Append(commands[b], c)

Keeps(b) == replies'[b] = replies[b] /\ (busy'[b] <=> busy[b]) /\ asked'[b] = asked[b]

\* The reply that is late is taken first.
TakesLate(b) ==
  /\ busy[b] => CanReceive(b)
  /\ replies'[b] = IF busy[b] THEN Rest(b) ELSE replies[b]

Coordinator(b) ==
  /\ b \in dead' <=> b \in dead
  /\ \/ Noted(b, commands'[b]) /\ Keeps(b)
     \/ Noted(b, commands'[b]) /\ CanReceive(b) /\ replies'[b] = Rest(b) /\ ~busy'[b]
     \/ /\ b \notin dead /\ TakesLate(b) /\ busy'[b] /\ asked'[b] \in Requests
        /\ \E q : Noted(b, q) /\ commands'[b] = Append(q, asked'[b])
     \/ b \in dead /\ TakesLate(b) /\ ~busy'[b] /\ commands'[b] = commands[b]

Thread(b) ==
  /\ b \notin dead /\ commands[b] # <<>>
  /\ busy'[b] <=> busy[b]
  /\ asked'[b] = asked[b]
  /\ \/ /\ b \notin dead' /\ commands'[b] = Tail(commands[b])
        /\ \/ ~IsRequest(Head(commands[b])) /\ replies'[b] = replies[b]
           \/ /\ IsRequest(Head(commands[b]))
              /\ \E reply : /\ replies'[b] = Append(replies[b], reply)
                            /\ reply.request = Head(commands[b])
     \/ b \in dead' /\ commands'[b] = <<>> /\ replies'[b] = replies[b]

LEMMA RestIsEmpty ==
  ASSUME ChannelType, NEW b \in Banks, ChannelInv(b)
  PROVE  Rest(b) = <<>>
<1>1. replies[b] \in Seq(BankReply)
  BY DEF ChannelType
<1>2. CASE replies[b] = <<>>
  BY <1>2 DEF Rest
<1>3. CASE Len(replies[b]) = 1
  <2>1. Rest(b) = Tail(replies[b])
    BY <1>1, <1>3 DEF Rest
  <2>2. Tail(replies[b]) \in Seq(BankReply) /\ Len(Tail(replies[b])) = 0
    BY <1>1, <1>3
  <2> QED BY <2>1, <2>2
<1> QED BY <1>2, <1>3 DEF ChannelInv

LEMMA NotedKeeps ==
  ASSUME ChannelType, NEW b \in Banks, NEW q, Noted(b, q), b \in dead => commands[b] = <<>>
  PROVE  /\ q \in Seq(BankCommand)
         /\ b \in dead => q = <<>>
         /\ NoneWaits(commands[b]) => NoneWaits(q)
         /\ \A r : Waits(commands[b], r) => Waits(q, r)
<1>1. commands[b] \in Seq(BankCommand)
  BY DEF ChannelType
<1> QED BY <1>1, AppendNotice DEF Noted

LEMMA CoordinatorKeepsChannel ==
  ASSUME ChannelType, NEW b \in Banks, ChannelInv(b), Coordinator(b)
  PROVE  ChannelInv(b)'
<1> USE DEF ChannelInv, Coordinator
<1>0. /\ commands[b] \in Seq(BankCommand) /\ replies[b] \in Seq(BankReply)
      /\ busy[b] \in BOOLEAN
  BY DEF ChannelType
<1>1. CASE Noted(b, commands'[b]) /\ Keeps(b)
  BY <1>0, <1>1, NotedKeeps DEF Keeps
<1>2. CASE Noted(b, commands'[b]) /\ CanReceive(b) /\ replies'[b] = Rest(b) /\ ~busy'[b]
  <2>1. NoneWaits(commands[b])
    BY <1>0, <1>2 DEF CanReceive, NoneWaits
  <2>2. replies'[b] = <<>>
    BY <1>2, RestIsEmpty
  <2> QED BY <1>0, <1>2, <2>1, <2>2, NotedKeeps
<1>3. CASE /\ b \notin dead /\ TakesLate(b) /\ busy'[b] /\ asked'[b] \in Requests
           /\ \E q : Noted(b, q) /\ commands'[b] = Append(q, asked'[b])
  <2>1. PICK q : Noted(b, q) /\ commands'[b] = Append(q, asked'[b])
    BY <1>3
  <2>2. NoneWaits(commands[b]) /\ replies'[b] = <<>>
    BY <1>0, <1>3, RestIsEmpty DEF TakesLate, CanReceive
  <2>3. Waits(commands'[b], asked'[b])
    BY <2>1, <2>2, <1>3, NotedKeeps, AppendRequest
  <2> QED BY <1>3, <2>2, <2>3
<1>4. CASE b \in dead /\ TakesLate(b) /\ ~busy'[b] /\ commands'[b] = commands[b]
  <2>1. NoneWaits(commands[b])
    BY <1>0, <1>4 DEF NoneWaits
  <2>2. replies'[b] = <<>>
    BY <1>0, <1>4, RestIsEmpty DEF TakesLate
  <2> QED BY <1>4, <2>1, <2>2
<1> QED BY <1>1, <1>2, <1>3, <1>4

LEMMA ThreadKeepsChannel ==
  ASSUME ChannelType, NEW b \in Banks, ChannelInv(b), Thread(b)
  PROVE  ChannelInv(b)'
<1> USE DEF ChannelInv, Thread
<1>0. /\ commands[b] \in Seq(BankCommand) /\ replies[b] \in Seq(BankReply)
      /\ busy[b] \in BOOLEAN
  BY DEF ChannelType
<1>1. CASE /\ b \notin dead' /\ commands'[b] = Tail(commands[b])
           /\ ~IsRequest(Head(commands[b])) /\ replies'[b] = replies[b]
  BY <1>0, <1>1, TakeNotice
<1>2. CASE /\ b \notin dead' /\ commands'[b] = Tail(commands[b])
           /\ IsRequest(Head(commands[b]))
           /\ \E reply : replies'[b] = Append(replies[b], reply) /\ reply.request = Head(commands[b])
  <2>1. /\ busy[b] /\ replies[b] = <<>>
        /\ Head(commands[b]) = asked[b] /\ NoneWaits(Tail(commands[b]))
    BY <1>0, <1>2, TakeRequest
  <2>2. Len(replies'[b]) = 1 /\ replies'[b][1].request = asked[b]
    BY <1>0, <1>2, <2>1
  <2> QED BY <1>2, <2>1, <2>2
<1>3. CASE b \in dead' /\ commands'[b] = <<>> /\ replies'[b] = replies[b]
  <2>1. NoneWaits(commands'[b])
    BY <1>3 DEF NoneWaits
  <2> QED BY <1>0, <1>3, <2>1
<1> QED BY <1>1, <1>2, <1>3

(***************************************************************************)
(* What each operation on the channels does to one bank                    *)
(***************************************************************************)
ChannelsRest == UNCHANGED <<commands, replies, busy, asked, dead>>

LEMMA NoticeTyped ==
  ASSUME NEW op \in NoticeOps, NEW insts \in SUBSET Instances
  PROVE  Notice(op, insts) \in Notices
BY DEF Notice, Request, Notices

LEMMA NoRequestTyped == NoRequest \in Notices
BY NoticeTyped DEF NoRequest, NoticeOps

LEMMA NotifiedBank ==
  ASSUME ChannelType, NEW c \in Notices, NEW bs \in SUBSET Banks
  PROVE  /\ Notified(bs, c) \in [Banks -> Seq(BankCommand)]
         /\ \A b \in Banks : Noted(b, Notified(bs, c)[b])
<1>1. \A b \in Banks : commands[b] \in Seq(BankCommand) /\ Append(commands[b], c) \in Seq(BankCommand)
  BY AppendNotice DEF ChannelType
<1> QED BY <1>1 DEF Notified, Noted

Coordinated == ChannelType' /\ \A b \in Banks : Coordinator(b)

LEMMA RestStep ==
  ASSUME ChannelType, ChannelsRest
  PROVE  ChannelType' /\ \A b \in Banks : Coordinator(b)
BY Zenon DEF ChannelType, ChannelsRest, Coordinator, Noted, Keeps

LEMMA NotifyStep ==
  ASSUME ChannelType, NEW c \in Notices, NEW bs \in SUBSET Banks, Notify(bs, c)
  PROVE  ChannelType' /\ \A b \in Banks : Coordinator(b)
BY NotifiedBank DEF ChannelType, Notify, Coordinator, Keeps

LEMMA RestTyped ==
  ASSUME ChannelType, NEW b \in Banks
  PROVE  replies[b] \in Seq(BankReply) /\ Rest(b) \in Seq(BankReply)
BY DEF ChannelType, Rest

\* The command channels as they are, or with a reset for every bank.
Reset == Notified(Banks, Notice("ResetAll", {}))

LEMMA QueuesStep ==
  ASSUME ChannelType, NEW queues, queues = commands \/ queues = Reset
  PROVE  /\ queues \in [Banks -> Seq(BankCommand)]
         /\ \A b \in Banks : Noted(b, queues[b])
         /\ \A b \in dead : b \in Banks => queues[b] = commands[b]
<1>1. Notice("ResetAll", {}) \in Notices /\ Banks \in SUBSET Banks
  BY NoticeTyped DEF NoticeOps
<1>2. CASE queues = commands
  BY <1>2 DEF ChannelType, Noted
<1>3. CASE queues = Reset
  <2>1. /\ queues \in [Banks -> Seq(BankCommand)]
        /\ \A b \in Banks : Noted(b, queues[b])
    BY <1>1, <1>3, NotifiedBank DEF Reset
  <2>2. \A b \in dead : b \in Banks => queues[b] = commands[b]
    BY <1>3 DEF Reset, Notified
  <2> QED BY <2>1, <2>2
<1> QED BY <1>2, <1>3

LEMMA ReceiveStep ==
  ASSUME ChannelType, NEW bs \in SUBSET Banks, ReceiveFrom(bs),
         commands' = commands \/ commands' = Reset
  PROVE  ChannelType' /\ \A b \in Banks : Coordinator(b)
<1> USE DEF ChannelType
<1>1. /\ commands' \in [Banks -> Seq(BankCommand)]
      /\ \A b \in Banks : Noted(b, commands'[b])
  BY QueuesStep
<1>2. replies' \in [Banks -> Seq(BankReply)]
  BY RestTyped DEF ReceiveFrom
<1>3. asked' \in [Banks -> BankCommand]
  BY NoRequestTyped DEF ReceiveFrom, BankCommand
<1>4. busy' \in [Banks -> BOOLEAN] /\ dead' = dead
  BY DEF ReceiveFrom
<1>5. ASSUME NEW b \in Banks, b \in bs PROVE Coordinator(b)
  BY <1>1, <1>4, <1>5 DEF ReceiveFrom, Coordinator
<1>6. ASSUME NEW b \in Banks, b \notin bs PROVE Coordinator(b)
  BY <1>1, <1>4, <1>6 DEF ReceiveFrom, Coordinator, Keeps
<1> QED BY <1>1, <1>2, <1>3, <1>4, <1>5, <1>6

LEMMA SendStep ==
  ASSUME ChannelType, NEW queues, NEW requests,
         queues = commands \/ queues = Reset,
         DOMAIN requests \subseteq Banks, \A b \in DOMAIN requests : requests[b] \in Requests,
         SendTo(queues, requests)
  PROVE  ChannelType' /\ \A b \in Banks : Coordinator(b)
<1> USE DEF ChannelType
<1>1. /\ queues \in [Banks -> Seq(BankCommand)]
      /\ \A b \in Banks : Noted(b, queues[b])
      /\ \A b \in dead : b \in Banks => queues[b] = commands[b]
  BY QueuesStep
<1>2. commands' \in [Banks -> Seq(BankCommand)]
  BY <1>1, AppendRequest DEF SendTo, SendFails
<1>3. replies' \in [Banks -> Seq(BankReply)]
  BY RestTyped DEF SendTo
<1>4. asked' \in [Banks -> BankCommand]
  BY DEF SendTo, BankCommand
<1>5. busy' \in [Banks -> BOOLEAN]
  <2> DEFINE to == {b \in DOMAIN requests : ~SendFails(b)}
             late == {b \in DOMAIN requests : busy[b]}
             after(b) == IF b \in late \cup to THEN b \in to ELSE busy[b]
  <2>1. \A b \in Banks : busy[b] \in BOOLEAN
    OBVIOUS
  <2>2. \A b \in Banks : after(b) \in BOOLEAN
    <3> HIDE DEF to, late
    <3>1. ASSUME NEW b \in Banks PROVE after(b) = (b \in to) \/ after(b) = busy[b]
      BY Zenon
    <3>2. ASSUME NEW b \in Banks PROVE (b \in to) = TRUE \/ (b \in to) = FALSE
      BY SMT
    <3> QED BY Zenon, <2>1, <3>1, <3>2
  <2>3. busy' = [b \in Banks |-> after(b)]
    BY Zenon DEF SendTo
  <2> HIDE DEF after
  <2> QED BY Zenon, <2>2, <2>3
<1>6. dead' = dead
  BY DEF SendTo
<1>7. ASSUME NEW b \in Banks, b \in DOMAIN requests, b \notin dead PROVE Coordinator(b)
  <2>1. commands'[b] = Append(queues[b], asked'[b]) /\ asked'[b] \in Requests /\ busy'[b]
    BY <1>7 DEF SendTo, SendFails
  <2>2. TakesLate(b)
    BY <1>7 DEF SendTo, TakesLate
  <2> QED BY <1>1, <1>6, <1>7, <2>1, <2>2 DEF Coordinator
<1>8. ASSUME NEW b \in Banks, b \in DOMAIN requests, b \in dead PROVE Coordinator(b)
  <2>1. commands'[b] = commands[b] /\ ~busy'[b]
    BY <1>1, <1>8 DEF SendTo, SendFails
  <2>2. TakesLate(b)
    BY <1>8 DEF SendTo, TakesLate
  <2> QED BY <1>6, <1>8, <2>1, <2>2 DEF Coordinator
<1>9. ASSUME NEW b \in Banks, b \notin DOMAIN requests PROVE Coordinator(b)
  <2>1. commands'[b] = queues[b] /\ replies'[b] = replies[b] /\ asked'[b] = asked[b]
    BY <1>1, <1>9 DEF SendTo
  <2>2. busy'[b] <=> busy[b]
    BY <1>9 DEF SendTo
  <2> QED BY <1>1, <1>6, <2>1, <2>2 DEF Coordinator, Keeps
<1> QED BY <1>2, <1>3, <1>4, <1>5, <1>6, <1>7, <1>8, <1>9

(***************************************************************************)
(* What a bank thread does                                                 *)
(***************************************************************************)
LEMMA KindOfOp ==
  ASSUME NEW c \in BankCommand
  PROVE  /\ c.op \in RequestOps => IsRequest(c)
         /\ c.op \in NoticeOps => ~IsRequest(c)
BY DEF BankCommand, Notices, Requests, RequestOps, NoticeOps, IsRequest

LEMMA FirstCommand ==
  ASSUME ChannelType, NEW b \in Banks, commands[b] # <<>>
  PROVE  /\ Head(commands[b]) \in BankCommand
         /\ Tail(commands[b]) \in Seq(BankCommand)
         /\ Head(commands[b]).insts \in SUBSET Instances
<1>1. commands[b] \in Seq(BankCommand)
  BY DEF ChannelType
<1>2. Head(commands[b]) \in BankCommand /\ Tail(commands[b]) \in Seq(BankCommand)
  BY <1>1
<1> QED BY <1>2 DEF BankCommand, Notices, Requests

\* A bank thread that takes a notice, answers a request, or ends.
LEMMA NoticeTaken ==
  ASSUME ChannelType, NEW b \in Banks, NEW op \in NoticeOps, Handle(b, op), replies' = replies
  PROVE  ChannelType' /\ Thread(b) /\ \A c \in Banks \ {b} : Coordinator(c)
<1> USE DEF Handle
<1>1. ~IsRequest(Head(commands[b])) /\ Tail(commands[b]) \in Seq(BankCommand)
  BY FirstCommand, KindOfOp
<1>2. Thread(b)
  BY <1>1 DEF Thread, ChannelType
<1>3. ChannelType'
  BY <1>1 DEF ChannelType
<1>4. ASSUME NEW c \in Banks \ {b} PROVE Coordinator(c)
  BY DEF Coordinator, Noted, Keeps, ChannelType
<1> QED BY <1>2, <1>3, <1>4

LEMMA RequestAnswered ==
  ASSUME ChannelType, NEW b \in Banks, NEW op \in RequestOps, Handle(b, op),
         NEW result \in {"ok", "err", "end"}, NEW failed \in SUBSET Instances,
         Answer(b, result, failed)
  PROVE  ChannelType' /\ Thread(b) /\ \A c \in Banks \ {b} : Coordinator(c)
<1> USE DEF Handle, Answer
<1> DEFINE reply == Reply(Head(commands[b]), result, failed)
<1>1. /\ IsRequest(Head(commands[b])) /\ Tail(commands[b]) \in Seq(BankCommand)
      /\ reply \in BankReply /\ reply.request = Head(commands[b])
  BY FirstCommand, KindOfOp DEF Reply, BankReply, BankCommand
<1>2. replies'[b] = Append(replies[b], reply) /\ replies[b] \in Seq(BankReply)
  BY DEF ChannelType
<1>3. Thread(b)
  BY <1>1, <1>2 DEF Thread, ChannelType
<1>4. ChannelType'
  <2> HIDE DEF reply
  <2>1. replies' = [replies EXCEPT ![b] = Append(@, reply)]
    BY DEF reply
  <2> QED BY <1>1, <1>2, <2>1 DEF ChannelType
<1>5. ASSUME NEW c \in Banks \ {b} PROVE Coordinator(c)
  BY DEF Coordinator, Noted, Keeps, ChannelType
<1> QED BY <1>3, <1>4, <1>5

LEMMA ThreadEnds ==
  ASSUME ChannelType, NEW b \in Banks, EndThread(b)
  PROVE  ChannelType' /\ Thread(b) /\ \A c \in Banks \ {b} : Coordinator(c)
<1> USE DEF EndThread
<1>1. Thread(b)
  BY DEF Thread, ChannelType
<1>2. ChannelType'
  BY DEF ChannelType
<1>3. ASSUME NEW c \in Banks \ {b} PROVE Coordinator(c)
  BY DEF Coordinator, Noted, Keeps, ChannelType
<1> QED BY <1>1, <1>2, <1>3

LEMMA ThreadKeepsRequests ==
  ASSUME NEW b, BankStep(b) \/ BankDies(b)
  PROVE  UNCHANGED <<busy, asked>>
BY Zenon DEF BankStep, BankResetAll, BankReleaseAll, BankReleaseInstance,
     BankReleaseAllInNextBlock, BankFadeOut, BankRenderBlock, BankRenderScheduled, BankPatch,
     BankShutdown, BankDies, Handle, EndThread

LEMMA BankThreadStep ==
  ASSUME ChannelType, NEW b \in Banks, BankStep(b) \/ BankDies(b)
  PROVE  ChannelType' /\ Thread(b) /\ \A c \in Banks \ {b} : Coordinator(c)
<1>1. CASE BankResetAll(b)
  BY <1>1, NoticeTaken DEF BankResetAll, NoticeOps
<1>2. CASE BankReleaseAll(b)
  BY <1>2, NoticeTaken DEF BankReleaseAll, NoticeOps
<1>3. CASE BankReleaseInstance(b)
  BY <1>3, NoticeTaken DEF BankReleaseInstance, NoticeOps
<1>4. CASE BankReleaseAllInNextBlock(b)
  BY <1>4, NoticeTaken DEF BankReleaseAllInNextBlock, NoticeOps
<1>5. CASE BankFadeOut(b)
  BY <1>5, NoticeTaken DEF BankFadeOut, NoticeOps
<1>6. CASE BankRenderBlock(b)
  <2>1. Handle(b, "RenderBlock") /\ "RenderBlock" \in RequestOps
    BY <1>6 DEF BankRenderBlock, RequestOps
  <2>2. PICK failed \in SUBSET (Head(commands[b]).insts \cap Faulty) : Answer(b, "ok", failed)
    BY <1>6 DEF BankRenderBlock
  <2>3. failed \in SUBSET Instances
    BY BankAssumption
  <2> QED BY <2>1, <2>2, <2>3, RequestAnswered
<1>7. CASE BankRenderScheduled(b)
  <2>1. Handle(b, "RenderScheduled") /\ "RenderScheduled" \in RequestOps
    BY <1>7 DEF BankRenderScheduled, RequestOps
  <2>2. PICK result \in {"ok", "err", "end"} : Answer(b, result, {})
    BY <1>7 DEF BankRenderScheduled, ErrorsOf
  <2> QED BY <2>1, <2>2, RequestAnswered
<1>8. CASE BankPatch(b)
  <2>1. PICK op \in RequestOps : Handle(b, op)
    BY <1>8 DEF BankPatch, RequestOps
  <2>2. PICK result \in {"ok", "err", "end"} : Answer(b, result, {})
    BY <1>8 DEF BankPatch, ErrorsOf
  <2> QED BY <2>1, <2>2, RequestAnswered
<1>9. CASE BankShutdown(b) \/ BankDies(b)
  BY <1>9, ThreadEnds DEF BankShutdown, BankDies
<1> QED BY <1>1, <1>2, <1>3, <1>4, <1>5, <1>6, <1>7, <1>8, <1>9 DEF BankStep

(***************************************************************************)
(* The state of the worker                                                 *)
(***************************************************************************)
Pcs == {"top", "fetch", "apply", "wait", "collect", "push", "exit", "join", "done"}

ModeType ==
  [kind: {"none", "scheduled", "live"}, gen: Nat, timeline: Timelines \cup {None},
   started: BOOLEAN, active: SUBSET Instances]

ModeOK(m) == m \in ModeType /\ (m.kind = "none" => m = NoMode)

WorkerType ==
  /\ pc \in Pcs
  /\ cur \in Command \cup {NoCommand} /\ NamesInstance(cur)
  /\ pc \notin {"apply", "wait"} => cur = NoCommand
  /\ ModeOK(mode)
  /\ pc = "wait" /\ cur.op \in SyncOps => IsLive(mode)
  /\ standby \in Instances \cup {None}
  /\ rendering \in [banks: SUBSET Banks, failed: BOOLEAN]

LEMMA NoModeType == ModeOK(NoMode) /\ NoMode.kind = "none" /\ NoMode.active = {}
BY DEF ModeOK, ModeType, NoMode

LEMMA NewModeType ==
  ASSUME NEW gen \in Nat
  PROVE  /\ ModeOK(Scheduled(gen)) /\ Scheduled(gen).kind = "scheduled"
         /\ ModeOK(NewLiveMode(gen)) /\ NewLiveMode(gen).kind = "live"
BY DEF ModeOK, ModeType, NoMode, Scheduled, NewLiveMode

LEMMA CurType ==
  ASSUME WorkerType, cur # NoCommand
  PROVE  cur \in Command /\ cur.gen \in Nat /\ cur.tl \in Timelines \cup {None}
BY DEF WorkerType, Command

LEMMA CurNotNone ==
  ASSUME cur.op # "none" PROVE cur # NoCommand
BY DEF NoCommand, Cmd

LEMMA EnsureLiveType ==
  ASSUME ModeOK(mode), NEW gen \in Nat
  PROVE  ModeOK(EnsureLiveMode(gen)) /\ EnsureLiveMode(gen).kind = "live"
BY NewModeType DEF EnsureLiveMode, IsLive

LEMMA WithoutType ==
  ASSUME NEW m, ModeOK(m), m.kind = "live", NEW i
  PROVE  ModeOK(Without(m, i)) /\ Without(m, i).kind \in {"none", "live"}
BY NoModeType DEF Without, ModeOK, ModeType

LEMMA GenType ==
  ASSUME NEW m, ModeOK(m), m.kind # "none", NEW gen \in Nat
  PROVE  ModeOK([m EXCEPT !.gen = gen]) /\ [m EXCEPT !.gen = gen].kind = m.kind
BY DEF ModeOK, ModeType

LEMMA ActiveType ==
  ASSUME NEW m, ModeOK(m), m.kind # "none", NEW insts \in SUBSET Instances
  PROVE  /\ ModeOK([m EXCEPT !.active = @ \cup insts])
         /\ [m EXCEPT !.active = @ \cup insts].kind = m.kind
BY DEF ModeOK, ModeType

LEMMA InactiveType ==
  ASSUME NEW m, ModeOK(m), NEW insts
  PROVE  /\ ModeOK([m EXCEPT !.active = @ \ insts])
         /\ [m EXCEPT !.active = @ \ insts].kind = m.kind
<1>1. CASE m.kind = "none"
  <2> DEFINE after == [m EXCEPT !.active = @ \ insts]
  <2>1. m = NoMode /\ m.active = {} /\ m \in ModeType
    BY <1>1, NoModeType DEF ModeOK
  <2>2. after \in ModeType
    BY <2>1 DEF ModeType
  <2>3. /\ after.kind = m.kind /\ after.gen = m.gen /\ after.timeline = m.timeline
        /\ after.started = m.started /\ after.active = m.active
    BY <2>1 DEF ModeType
  <2>4. after = m
    <3> HIDE DEF after
    <3> QED BY <2>1, <2>2, <2>3 DEF ModeType
  <2> QED BY <2>1, <2>4 DEF ModeOK
<1>2. CASE m.kind # "none"
  BY <1>2 DEF ModeOK, ModeType
<1> QED BY <1>1, <1>2

\* The bookkeeping of an applied command.
LEMMA AppliedType ==
  ASSUME WorkerType, Applied, ModeOK(mode')
  PROVE  WorkerType'
<1>1. NoCommand \in Command \cup {NoCommand} /\ NamesInstance(NoCommand)
  BY DEF NamesInstance, Addressed, NoCommand, Cmd
<1> QED BY <1>1 DEF WorkerType, Applied, Pcs

\* The end of a preload.
LEMMA CompleteMode ==
  ASSUME WorkerType, NEW result, Complete(result)
  PROVE  /\ ModeOK(mode') /\ standby' = None
         /\ mode' # mode => mode.kind = "live"
         /\ mode.kind # "live" => mode' = mode
         /\ mode'.kind \in {"none", mode.kind}
<1>1. ModeOK(mode) /\ (mode.kind = "live" => ModeOK(Without(mode, standby))
                          /\ Without(mode, standby).kind \in {"none", "live"})
  BY WithoutType DEF WorkerType
<1>2. mode' = IF result # "ok" /\ mode.kind = "live" THEN Without(mode, standby) ELSE mode
  BY Zenon DEF Complete, IsLive
<1>3. standby' = None
  BY Zenon DEF Complete
<1> QED BY <1>1, <1>2, <1>3

\* What a block is asked of: in a live, of banks that owe no reply.
LEMMA RequestsType ==
  ASSUME WorkerType
  PROVE  /\ DOMAIN RenderRequests \subseteq Banks
         /\ \A b \in DOMAIN RenderRequests :
              /\ RenderRequests[b] \in Requests /\ RenderRequests[b].who = "render"
              /\ IsLive(mode) => ~busy[b]
<1>1. CASE IsLive(mode)
  <2>1. mode.active \subseteq Instances
    BY DEF WorkerType, ModeOK, ModeType
  <2>2. ASSUME NEW b
        PROVE  /\ Render(mode.active \cap Owned(b)) \in Requests
               /\ Render(mode.active \cap Owned(b)).who = "render"
    BY <2>1 DEF Render, Request, Requests, RequestOps
  <2>3. RenderRequests = [b \in {c \in Banks : RenderEnabled(c) /\ mode.active \cap Owned(c) # {}}
                            |-> Render(mode.active \cap Owned(b))]
    BY <1>1 DEF RenderRequests
  <2> QED BY <1>1, <2>2, <2>3 DEF RenderEnabled
<1>2. CASE ~IsLive(mode)
  <2>1. RenderRequests = [b \in {FirstBank} |-> RenderScheduled]
    BY <1>2 DEF RenderRequests
  <2>2. FirstBank \in Banks /\ RenderScheduled \in Requests /\ RenderScheduled.who = "render"
    BY BankAssumption DEF FirstBank, RenderScheduled, Request, Requests, RequestOps
  <2> QED BY <1>2, <2>1, <2>2
<1> QED BY <1>1, <1>2

LEMMA WorkerTypeStep ==
  ASSUME WorkerType, QueueTypeOK, QueueAddressed, WorkerStep
  PROVE  WorkerType'
<1>0. /\ ModeOK(mode)
      /\ \A op : pc = "apply" /\ op # "none" /\ cur.op = op =>
           cur \in Command /\ cur.gen \in Nat /\ cur.tl \in Timelines \cup {None}
  BY CurType, CurNotNone DEF WorkerType
<1>1. CASE PollStandby
  <2>1. CASE UNCHANGED <<cur, mode, standby, rendering>>
    BY <1>1, <2>1, Zenon DEF PollStandby, WorkerType, Pcs
  <2>2. CASE TakeStandbyReply
    <3>1. ModeOK(mode') /\ standby' = None /\ cur' = cur /\ rendering' = rendering
      BY <2>2, CompleteMode DEF TakeStandbyReply
    <3> QED BY <1>1, <3>1 DEF PollStandby, WorkerType, Pcs
  <2> QED BY <1>1, <2>1, <2>2 DEF PollStandby
<1>2. CASE Settle
  <2>1. ModeOK(mode') /\ standby' = None /\ cur' = cur /\ rendering' = rendering
    BY <1>2, CompleteMode DEF Settle, TakeStandbyReply
  <2>2. pc' = pc /\ pc \in {"apply", "exit"}
    BY <1>2, Zenon DEF Settle, MustSettle
  <2> QED BY <2>1, <2>2 DEF WorkerType, Pcs
<1>3. CASE Fetch
  <2>1. Head(pending) \in Command /\ NamesInstance(Head(pending))
    BY <1>3 DEF Fetch, TakeCommand, CanTake, QueueTypeOK, QueueAddressed
  <2> QED BY <1>3, <2>1 DEF Fetch, WorkerType, Pcs
<1>4. CASE NoFetch
  BY <1>4, Zenon DEF NoFetch, WorkerType, Pcs
<1>5. CASE ApplyStopAll
  BY <1>5, NoModeType, AppliedType DEF ApplyStopAll, Return
<1>6. CASE ApplyStopInstance
  <2>1. cur.gen \in Nat
    BY <1>0, <1>6 DEF ApplyStopInstance, Applying
  <2>2. LET live == [EnsureLiveMode(cur.gen) EXCEPT !.gen = cur.gen]
        IN  ModeOK(live) /\ live.kind = "live"
    BY <1>0, <2>1, EnsureLiveType, GenType
  <2>3. ModeOK(mode')
    BY <1>6, <2>2, WithoutType DEF ApplyStopInstance
  <2> QED BY <1>6, <2>3, AppliedType DEF ApplyStopInstance, Return
<1>7. CASE ApplyMidi
  <2>1. cur.gen \in Nat /\ cur.inst \in Instances
    BY <1>0, <1>7 DEF ApplyMidi, Applying, WorkerType, NamesInstance, Addressed
  <2>2. PICK live : /\ live \in {NewLiveMode(cur.gen), mode} /\ live.kind = "live"
                    /\ mode' = [live EXCEPT !.gen = cur.gen, !.active = @ \cup {cur.inst}]
    BY <1>7, <2>1, NewModeType DEF ApplyMidi, IsLive
  <2>3. ModeOK(live)
    BY <1>0, <2>1, <2>2, NewModeType
  <2>4. ModeOK(mode')
    BY <2>1, <2>2, <2>3 DEF ModeOK, ModeType
  <2> QED BY <1>7, <2>4, AppliedType DEF ApplyMidi, Return
<1>8. CASE ApplyBeginLiveTimeline
  <2>1. cur.gen \in Nat /\ cur.tl \in Timelines \cup {None}
    BY <1>0, <1>8 DEF ApplyBeginLiveTimeline, Applying
  <2>2. \/ mode' = NoMode
        \/ \E live \in {NewLiveMode(cur.gen), mode} :
             live.kind = "live" /\ mode' = [live EXCEPT !.timeline = cur.tl, !.started = FALSE]
    BY <1>8, <2>1, NewModeType DEF ApplyBeginLiveTimeline, Continues, IsLive
  <2>3. ASSUME NEW live, ModeOK(live), live.kind = "live"
        PROVE  ModeOK([live EXCEPT !.timeline = cur.tl, !.started = FALSE])
    BY <2>1, <2>3 DEF ModeOK, ModeType
  <2>4. ModeOK(mode')
    BY ZenonT(60), <1>0, <2>1, <2>2, <2>3, NewModeType, NoModeType
  <2> QED BY <1>8, <2>4, AppliedType DEF ApplyBeginLiveTimeline, Return
<1>9. CASE ApplyFadeOutInstances
  BY <1>0, <1>9, AppliedType DEF ApplyFadeOutInstances, Return
<1>10. CASE ApplySetLiveTempo
  <2>1. cur.gen \in Nat
    BY <1>0, <1>10 DEF ApplySetLiveTempo, Applying
  <2>2. ModeOK(mode')
    BY <1>0, <1>10, <2>1, GenType DEF ApplySetLiveTempo, IsLive
  <2> QED BY <1>10, <2>2, AppliedType DEF ApplySetLiveTempo, Return
<1>11. CASE ApplyTimelineMidi
  <2>1. cur.gen \in Nat /\ cur.inst \in Instances
    BY <1>0, <1>11 DEF ApplyTimelineMidi, Applying, WorkerType, NamesInstance, Addressed
  <2>2. CASE mode' = mode
    BY <1>0, <1>11, <2>2, AppliedType DEF ApplyTimelineMidi, Return
  <2>3. CASE IsLive(mode) /\ \E accepted \in {FALSE, mode.timeline = cur.tl} :
                mode' = [mode EXCEPT !.gen = cur.gen, !.active = @ \cup {cur.inst},
                                     !.started = @ \/ accepted]
    <3>1. PICK accepted \in BOOLEAN :
                mode' = [mode EXCEPT !.gen = cur.gen, !.active = @ \cup {cur.inst},
                                     !.started = @ \/ accepted]
      BY <2>3
    <3>2. ModeOK(mode')
      BY <1>0, <2>1, <2>3, <3>1 DEF ModeOK, ModeType, IsLive
    <3> QED BY <1>11, <3>2, AppliedType DEF ApplyTimelineMidi, Return
  <2> QED BY <1>11, <2>2, <2>3 DEF ApplyTimelineMidi
<1>12. CASE ApplyPrepareStandby
  <2>1. cur.gen \in Nat /\ cur.inst \in Instances
    BY <1>0, <1>12 DEF ApplyPrepareStandby, Applying, WorkerType, NamesInstance, Addressed
  <2>2. ModeOK(mode') /\ standby' \in Instances \cup {None}
    BY <1>0, <1>12, <2>1, EnsureLiveType DEF ApplyPrepareStandby
  <2>3. NamesInstance(NoCommand)
    BY DEF NamesInstance, Addressed, NoCommand, Cmd
  <2> QED BY <1>12, <2>2, <2>3 DEF ApplyPrepareStandby, WorkerType, Pcs
<1>13. CASE BeginPlay
  BY <1>13 DEF BeginPlay, Wait, Applying, WorkerType, Pcs, SyncOps
<1>14. CASE BeginPatch
  <2>1. cur.gen \in Nat
    BY <1>0, <1>14 DEF BeginPatch, Applying
  <2>2. ModeOK(mode') /\ IsLive(mode')
    BY <1>0, <1>14, <2>1, EnsureLiveType DEF BeginPatch, IsLive
  <2> QED BY <1>14, <2>2 DEF BeginPatch, Wait, WorkerType, Pcs
<1>15. CASE FinishPlay
  <2>1. cur.gen \in Nat
    BY <1>15, CurType, CurNotNone DEF FinishPlay
  <2> QED BY <1>15, <2>1, NewModeType, AppliedType DEF FinishPlay, Return
<1>16. CASE FinishPatch
  <2>1. cur.gen \in Nat /\ cur.inst \in Instances /\ mode.kind = "live"
    BY <1>16, CurType, CurNotNone DEF FinishPatch, SyncOps, WorkerType, NamesInstance, Addressed, IsLive
  <2> DEFINE live == [mode EXCEPT !.gen = cur.gen]
  <2>2. ModeOK(live) /\ live.kind = "live"
    BY <1>0, <2>1, GenType
  <2>3. mode' \in {live, Without(live, cur.inst), [live EXCEPT !.active = @ \cup {cur.inst}]}
    <3> HIDE DEF live
    <3> QED BY <1>16 DEF FinishPatch, live
  <2>4. ModeOK(mode')
    <3> HIDE DEF live
    <3>1. {cur.inst} \in SUBSET Instances
      BY <2>1
    <3>2. ModeOK(Without(live, cur.inst)) /\ ModeOK([live EXCEPT !.active = @ \cup {cur.inst}])
      BY <2>2, <3>1, WithoutType, ActiveType
    <3> QED BY <2>2, <2>3, <3>2
  <2> QED BY <1>16, <2>4, AppliedType DEF FinishPatch
<1>17. CASE SendRender
  <2>1. rendering' \in [banks: SUBSET Banks, failed: BOOLEAN]
    <3>1. DOMAIN RenderRequests \subseteq Banks
      BY RequestsType
    <3>2. rendering'.banks \subseteq Banks
      BY <1>17, <3>1 DEF SendRender
    <3> QED BY <1>17, <3>2 DEF SendRender
  <2> QED BY <1>17, <2>1 DEF SendRender, WorkerType, Pcs
<1>18. CASE CollectRender
  <2>1. ModeOK(mode') /\ pc' \in {"push", "top"} /\ cur' = cur /\ standby' = standby
    BY <1>0, <1>18, InactiveType, NoModeType DEF CollectRender
  <2>2. rendering' \in [banks: SUBSET Banks, failed: BOOLEAN]
    BY <1>18 DEF CollectRender, NoRender
  <2> QED BY <1>18, <2>1, <2>2 DEF CollectRender, WorkerType, Pcs
<1>19. CASE PushChunk
  BY <1>0, <1>19, NoModeType DEF PushChunk, WorkerType, Pcs
<1>20. CASE ShutdownBanks \/ JoinBanks
  BY <1>20 DEF ShutdownBanks, JoinBanks, WorkerType, Pcs
<1> QED
  BY <1>1, <1>2, <1>3, <1>4, <1>5, <1>6, <1>7, <1>8, <1>9, <1>10, <1>11, <1>12, <1>13,
     <1>14, <1>15, <1>16, <1>17, <1>18, <1>19, <1>20 DEF WorkerStep

\* What the loop does to the channels of every bank.
LEMMA WorkerChannelStep ==
  ASSUME ChannelType, WorkerType, WorkerStep
  PROVE  Coordinated
<1>0. /\ \A op \in Addressed : cur.op = op => BankOf[cur.inst] \in Banks
      /\ cur.op \in Addressed => cur.inst \in Instances
      /\ standby # None => BankOf[standby] \in Banks
      /\ FirstBank \in Banks
  BY BankAssumption DEF WorkerType, NamesInstance, FirstBank
<1>1. ASSUME ChannelsRest PROVE Coordinated
  BY <1>1, RestStep DEF Coordinated
<1>2. ASSUME TakeStandbyReply, standby # None PROVE Coordinated
  <2>1. ReceiveFrom({BankOf[standby]}) /\ commands' = commands
    BY <1>2 DEF TakeStandbyReply
  <2> QED BY <1>0, <1>2, <2>1, ReceiveStep DEF Coordinated
<1>3. ASSUME NEW bs \in SUBSET Banks, NEW op \in NoticeOps, NEW insts \in SUBSET Instances,
             Notify(bs, Notice(op, insts))
      PROVE  Coordinated
  BY <1>3, NoticeTyped, NotifyStep DEF Coordinated
<1>4. CASE PollStandby
  <2>1. CASE TakeStandbyReply /\ standby # None
    BY <2>1, <1>2
  <2>2. CASE UNCHANGED bankVars
    BY <1>1, <2>2 DEF bankVars, ChannelsRest
  <2> QED BY <1>4, <2>1, <2>2 DEF PollStandby
<1>5. CASE Settle
  BY <1>2, <1>5 DEF Settle, MustSettle
<1>6. CASE Fetch \/ NoFetch \/ ApplySetLiveTempo \/ ApplyTimelineMidi \/ PushChunk \/ JoinBanks
  BY Zenon, <1>1, <1>6 DEF Fetch, NoFetch, ApplySetLiveTempo, ApplyTimelineMidi, PushChunk,
     JoinBanks, bankVars, ChannelsRest
<1>7. CASE ApplyStopAll
  BY <1>3, <1>7 DEF ApplyStopAll, NoticeOps
<1>8. CASE ApplyStopInstance
  <2>1. {BankOf[cur.inst]} \in SUBSET Banks /\ {cur.inst} \in SUBSET Instances
    BY <1>0, <1>8 DEF ApplyStopInstance, Applying, Addressed
  <2> QED BY <1>3, <1>8, <2>1 DEF ApplyStopInstance, NoticeOps
<1>9. CASE ApplyMidi
  BY <1>1, <1>3, <1>9 DEF ApplyMidi, NoticeOps, bankVars, ChannelsRest
<1>10. CASE ApplyBeginLiveTimeline
  BY <1>3, <1>10 DEF ApplyBeginLiveTimeline, ContinuedRelease, NoticeOps
<1>11. CASE ApplyFadeOutInstances
  <2>1. {BankOf[cur.inst]} \in SUBSET Banks /\ {cur.inst} \in SUBSET Instances
    BY <1>0, <1>11 DEF ApplyFadeOutInstances, Applying, Addressed
  <2> QED BY <1>1, <1>3, <1>11, <2>1 DEF ApplyFadeOutInstances, NoticeOps, ChannelsRest
<1>12. CASE ApplyPrepareStandby
  <2>1. BankOf[cur.inst] \in Banks /\ PreparePatch("standby", cur.inst) \in Requests
    BY <1>0, <1>12 DEF ApplyPrepareStandby, Applying, Addressed, PreparePatch, Request, Requests, RequestOps
  <2>2. SendTo(commands, [c \in {BankOf[cur.inst]} |-> PreparePatch("standby", cur.inst)])
    BY <1>12 DEF ApplyPrepareStandby
  <2> QED BY <2>1, <2>2, SendStep DEF Coordinated
<1>13. CASE BeginPlay
  <2>1. First \in Instances /\ PreparePatch("sync", First) \in Requests
    BY BankAssumption DEF PreparePatch, Request, Requests, RequestOps
  <2>2. SendTo(Reset, [b \in {FirstBank} |-> PreparePatch("sync", First)])
    BY <1>13 DEF BeginPlay, Reset
  <2> QED BY <1>0, <2>1, <2>2, SendStep DEF Coordinated
<1>14. CASE BeginPatch
  <2> DEFINE request == IF cur.op = "ProbeLivePatch" THEN ProbePatch(cur.inst)
                        ELSE PreparePatch("sync", cur.inst)
  <2>1. BankOf[cur.inst] \in Banks /\ cur.inst \in Instances
    BY <1>0, <1>14 DEF BeginPatch, Applying, Addressed
  <2>2. request \in Requests
    BY <2>1 DEF PreparePatch, ProbePatch, Request, Requests, RequestOps
  <2>3. SendTo(commands, [b \in {BankOf[cur.inst]} |-> request])
    BY <1>14 DEF BeginPatch
  <2> HIDE DEF request
  <2> QED BY <2>1, <2>2, <2>3, SendStep DEF Coordinated
<1>15. ASSUME NEW b \in Banks, ReceiveIfSent(b), commands' = commands PROVE Coordinated
  BY <1>1, <1>15, ReceiveStep DEF ReceiveIfSent, ChannelsRest, Coordinated
<1>16. CASE FinishPlay
  BY <1>0, <1>15, <1>16 DEF FinishPlay
<1>17. CASE FinishPatch
  BY <1>0, <1>15, <1>17 DEF FinishPatch, SyncOps, Addressed
<1>18. CASE SendRender
  <2>1. PICK requests : /\ DOMAIN requests \subseteq Banks
                        /\ \A b \in DOMAIN requests : requests[b] \in Requests
                        /\ SendTo(commands, requests)
    <3> DEFINE wanted == RenderRequests
               reached == {b \in DOMAIN wanted : \A c \in DOMAIN wanted : c < b => ~SendFails(c)}
    <3>1. SendTo(commands, [b \in reached |-> wanted[b]])
      BY <1>18 DEF SendRender
    <3>2. reached \subseteq Banks /\ \A b \in reached : wanted[b] \in Requests
      BY RequestsType
    <3> HIDE DEF wanted, reached
    <3> QED BY <3>1, <3>2
  <2> QED BY <2>1, SendStep DEF Coordinated
<1>19. CASE CollectRender
  <2>1. rendering.banks \in SUBSET Banks
    BY DEF WorkerType
  <2>2. ReceiveFrom(rendering.banks) /\ (commands' = commands \/ commands' = Reset)
    BY <1>19 DEF CollectRender, Reset
  <2> QED BY <2>1, <2>2, ReceiveStep DEF Coordinated
<1>20. CASE ShutdownBanks
  BY <1>3, <1>20 DEF ShutdownBanks, NoticeOps
<1> QED
  BY <1>4, <1>5, <1>6, <1>7, <1>8, <1>9, <1>10, <1>11, <1>12, <1>13, <1>14, <1>16, <1>17,
     <1>18, <1>19, <1>20 DEF WorkerStep, Coordinated

(***************************************************************************)
(* The preload in flight                                                   *)
(***************************************************************************)
\* The loop waits for no other bank while a preload is in flight, no scheduled
\* playback goes on beside it, and the replies a render waits for are its own.
StandbyInv ==
  /\ pc = "wait" => standby = None
  /\ standby # None => mode.kind # "scheduled"
  /\ pc = "collect" => \A b \in rendering.banks : busy[b] /\ asked[b].who = "render"
  /\ StandbyReplyIsItsOwn

\* A step that leaves busy, asked and the preload alone.
Untouched ==
  /\ standby' = standby
  /\ \A b \in Banks : (busy'[b] <=> busy[b]) /\ asked'[b] = asked[b]

LEMMA UntouchedKeeps ==
  ASSUME WorkerType, StandbyInv, Untouched
  PROVE  StandbyReplyIsItsOwn'
<1>1. standby # None => BankOf[standby] \in Banks
  BY BankAssumption DEF WorkerType
<1> QED BY <1>1 DEF StandbyInv, StandbyReplyIsItsOwn, Untouched

LEMMA StandbyInvStep ==
  ASSUME ChannelType, WorkerType, StandbyInv, WorkerStep
  PROVE  StandbyInv'
<1> USE DEF StandbyInv
<1>0. /\ standby # None => BankOf[standby] \in Banks /\ standby \in Instances
      /\ busy \in [Banks -> BOOLEAN] /\ asked \in [Banks -> BankCommand]
      /\ FirstBank \in Banks
  BY BankAssumption DEF WorkerType, ChannelType, FirstBank
<1>1. ASSUME UNCHANGED <<busy, asked, standby>> PROVE StandbyReplyIsItsOwn'
  BY Zenon, <1>1 DEF StandbyReplyIsItsOwn
<1>2. ASSUME TakeStandbyReply PROVE standby' = None /\ StandbyReplyIsItsOwn'
  BY <1>2 DEF TakeStandbyReply, Complete, StandbyReplyIsItsOwn
<1>3. CASE PollStandby
  <2>1. CASE TakeStandbyReply
    BY <1>2, <1>3, <2>1 DEF PollStandby
  <2>2. CASE UNCHANGED <<bankVars, standby, mode>>
    BY <1>1, <1>3, <2>2 DEF PollStandby, bankVars
  <2> QED BY <1>3, <2>1, <2>2 DEF PollStandby
<1>4. CASE Settle
  BY <1>2, <1>4 DEF Settle, MustSettle
<1>5. CASE Fetch \/ NoFetch
  BY <1>1, <1>5 DEF Fetch, NoFetch, bankVars
<1>6. CASE PushChunk \/ JoinBanks
  BY <1>1, <1>6, NoModeType DEF PushChunk, JoinBanks, bankVars
<1>7. ASSUME Applied, UNCHANGED <<busy, asked>>, mode'.kind # "scheduled" \/ mode' = mode PROVE StandbyInv'
  BY <1>1, <1>7 DEF Applied
<1>8. CASE ApplyStopAll
  BY <1>7, <1>8, NoModeType DEF ApplyStopAll, Return, Notify
<1>9. CASE ApplyStopInstance
  <2>1. cur.gen \in Nat
    BY <1>9, CurType, CurNotNone DEF ApplyStopInstance, Applying
  <2>2. LET live == [EnsureLiveMode(cur.gen) EXCEPT !.gen = cur.gen]
        IN  ModeOK(live) /\ live.kind = "live"
    BY <2>1, EnsureLiveType, GenType DEF WorkerType
  <2>3. mode'.kind # "scheduled"
    BY <1>9, <2>2, WithoutType DEF ApplyStopInstance
  <2> QED BY <1>7, <1>9, <2>3 DEF ApplyStopInstance, Return, Notify
<1>10. CASE ApplyMidi
  <2>1. cur.gen \in Nat
    BY <1>10, CurType, CurNotNone DEF ApplyMidi, Applying
  <2>2. PICK live : /\ live \in {NewLiveMode(cur.gen), mode} /\ live.kind = "live"
                    /\ mode' = [live EXCEPT !.gen = cur.gen, !.active = @ \cup {cur.inst}]
    BY <1>10, <2>1, NewModeType DEF ApplyMidi, IsLive
  <2>3. live \in ModeType
    BY <2>1, <2>2, NewModeType DEF WorkerType, ModeOK
  <2>4. mode'.kind = "live"
    BY <2>2, <2>3 DEF ModeType
  <2> QED BY <1>7, <1>10, <2>4 DEF ApplyMidi, Return, Notify, bankVars
<1>11. CASE ApplyBeginLiveTimeline
  <2>1. cur.gen \in Nat
    BY <1>11, CurType, CurNotNone DEF ApplyBeginLiveTimeline, Applying
  <2>2. \/ mode' = NoMode
        \/ \E live \in {NewLiveMode(cur.gen), mode} :
             live.kind = "live" /\ mode' = [live EXCEPT !.timeline = cur.tl, !.started = FALSE]
    BY <1>11, <2>1, NewModeType DEF ApplyBeginLiveTimeline, Continues, IsLive
  <2>3. NewLiveMode(cur.gen) \in ModeType /\ mode \in ModeType
    BY <2>1, NewModeType DEF WorkerType, ModeOK
  <2>4. mode'.kind # "scheduled"
    BY <2>2, <2>3, NoModeType DEF ModeType
  <2> QED BY <1>7, <1>11, <2>4 DEF ApplyBeginLiveTimeline, ContinuedRelease, Return, Notify
<1>12. CASE ApplyFadeOutInstances
  BY <1>7, <1>12 DEF ApplyFadeOutInstances, Return, Notify
<1>13. CASE ApplySetLiveTempo
  <2>1. mode'.kind = mode.kind
    BY <1>13 DEF ApplySetLiveTempo, WorkerType, ModeOK, ModeType
  <2>2. Applied /\ UNCHANGED <<busy, asked>>
    BY <1>13 DEF ApplySetLiveTempo, Return, bankVars
  <2>3. mode.kind = "scheduled" => mode' = mode
    BY <1>13 DEF ApplySetLiveTempo, IsLive
  <2> QED BY <1>7, <2>1, <2>2, <2>3
<1>14. CASE ApplyTimelineMidi
  <2>1. mode' = mode \/ (mode'.kind = mode.kind /\ IsLive(mode))
    BY <1>14 DEF ApplyTimelineMidi, WorkerType, ModeOK, ModeType
  <2>2. Applied /\ UNCHANGED <<busy, asked>>
    BY <1>14 DEF ApplyTimelineMidi, Return, bankVars
  <2> QED BY <1>7, <2>1, <2>2 DEF IsLive
<1>15. CASE ApplyPrepareStandby
  <2>1. cur.inst \in Instances /\ BankOf[cur.inst] \in Banks /\ cur.gen \in Nat
    BY <1>15, CurType, CurNotNone, BankAssumption
       DEF ApplyPrepareStandby, Applying, WorkerType, NamesInstance, Addressed
  <2>2. mode'.kind = "live" /\ pc' = "top"
    BY <1>15, <2>1, EnsureLiveType DEF ApplyPrepareStandby, WorkerType
  <2>3. CASE SendFails(BankOf[cur.inst])
    BY <1>15, <2>2, <2>3 DEF ApplyPrepareStandby, StandbyReplyIsItsOwn
  <2>4. CASE ~SendFails(BankOf[cur.inst])
    <3>1. /\ standby' = cur.inst
          /\ SendTo(commands, [c \in {BankOf[cur.inst]} |-> PreparePatch("standby", cur.inst)])
      BY <1>15, <2>4 DEF ApplyPrepareStandby
    <3>2. busy'[BankOf[cur.inst]] /\ asked'[BankOf[cur.inst]] = PreparePatch("standby", cur.inst)
      BY <2>1, <2>4, <3>1 DEF SendTo
    <3> QED BY <2>2, <3>1, <3>2 DEF StandbyReplyIsItsOwn
  <2> QED BY <2>3, <2>4
<1>16. CASE BeginPlay
  <2>1. standby = None /\ standby' = None
    BY <1>16 DEF BeginPlay, Applying, MustSettle, NeedsIdleBanks, Wait
  <2> QED BY <1>16, <2>1 DEF BeginPlay, Wait, StandbyReplyIsItsOwn
<1>17. CASE BeginPatch
  <2>1. standby = None /\ standby' = None
    BY <1>17 DEF BeginPatch, Applying, MustSettle, NeedsIdleBanks, Wait
  <2> QED BY <1>17, <2>1 DEF BeginPatch, Wait, StandbyReplyIsItsOwn
<1>18. CASE FinishPlay \/ FinishPatch
  <2>1. standby = None /\ standby' = None /\ pc' = "top"
    BY <1>18 DEF FinishPlay, FinishPatch, Return, Applied
  <2> QED BY <2>1 DEF StandbyReplyIsItsOwn
<1>19. CASE SendRender
  <2> DEFINE wanted == RenderRequests
             reached == {b \in DOMAIN wanted : \A c \in DOMAIN wanted : c < b => ~SendFails(c)}
             requests == [b \in reached |-> wanted[b]]
  <2>1. /\ SendTo(commands, requests)
        /\ rendering'.banks = reached \ dead
        /\ standby' = standby /\ mode' = mode /\ pc' = "collect"
    BY <1>19 DEF SendRender
  <2>2. /\ reached \subseteq Banks /\ DOMAIN requests = reached
        /\ \A b \in reached : /\ requests[b].who = "render"
                              /\ IsLive(mode) => ~busy[b]
    BY RequestsType
  <2>3. mode.kind # "none"
    BY <1>19 DEF SendRender, Idle, WorkerType, ModeOK
  <2> HIDE DEF wanted, reached, requests
  <2>4. ASSUME NEW b \in rendering'.banks PROVE busy'[b] /\ asked'[b].who = "render"
    BY <2>1, <2>2 DEF SendTo, SendFails
  <2>5. ASSUME standby # None
        PROVE  busy'[BankOf[standby]] /\ asked'[BankOf[standby]] = asked[BankOf[standby]]
    <3>1. IsLive(mode)
      BY <2>3, <2>5 DEF WorkerType, ModeOK, ModeType, IsLive
    <3>2. busy[BankOf[standby]] /\ BankOf[standby] \notin reached
      BY <1>0, <2>2, <2>5, <3>1 DEF StandbyReplyIsItsOwn
    <3> QED BY <1>0, <2>1, <2>2, <2>5, <3>2 DEF SendTo
  <2> QED BY <2>1, <2>4, <2>5 DEF StandbyReplyIsItsOwn
<1>20. CASE CollectRender
  <2>1. /\ ReceiveFrom(rendering.banks) /\ pc = "collect" /\ pc' \in {"push", "top"}
        /\ standby' = standby
    BY <1>20 DEF CollectRender
  <2>2. mode'.kind # "scheduled" \/ mode'.kind = mode.kind
    <3>1. mode' = NoMode \/ mode' = [mode EXCEPT !.active = @ \ FailedInstances]
      BY <1>20 DEF CollectRender
    <3>2. [mode EXCEPT !.active = @ \ FailedInstances].kind = mode.kind
      BY InactiveType DEF WorkerType
    <3> QED BY <3>1, <3>2, NoModeType
  <2>3. ASSUME standby # None
        PROVE  busy'[BankOf[standby]] /\ asked'[BankOf[standby]] = asked[BankOf[standby]]
    <3>1. asked[BankOf[standby]].who = "standby" /\ busy[BankOf[standby]]
      BY <2>3 DEF StandbyReplyIsItsOwn, PreparePatch, Request
    <3>2. BankOf[standby] \notin rendering.banks
      BY <2>1, <3>1
    <3> QED BY <1>0, <2>1, <2>3, <3>1, <3>2 DEF ReceiveFrom
  <2> QED BY <2>1, <2>2, <2>3 DEF StandbyReplyIsItsOwn
<1>21. CASE ShutdownBanks
  BY <1>1, <1>21 DEF ShutdownBanks, Notify
<1> QED
  BY <1>3, <1>4, <1>5, <1>6, <1>8, <1>9, <1>10, <1>11, <1>12, <1>13, <1>14, <1>15, <1>16, <1>17,
     <1>18, <1>19, <1>20, <1>21 DEF WorkerStep

(***************************************************************************)
(* The inductive invariant of the worker and its banks                     *)
(***************************************************************************)
WorkerInv ==
  /\ ChannelType
  /\ \A b \in Banks : ChannelInv(b)
  /\ WorkerType
  /\ StandbyInv

PlayerInv == QueueTypeOK /\ QueueAddressed /\ WorkerInv

LEMMA PlayerInit == Init => PlayerInv
<1> SUFFICES ASSUME Init PROVE PlayerInv
  OBVIOUS
<1> USE DEF Init
<1>1. QueueTypeOK /\ QueueAddressed
  BY InitType DEF QueueInit, QueueAddressed
<1>2. ChannelType
  BY NoRequestTyped DEF BankInit, ChannelType, BankCommand
<1>3. \A b \in Banks : ChannelInv(b)
  BY DEF BankInit, ChannelInv, NoneWaits
<1>4. WorkerType
  <2>1. NamesInstance(NoCommand)
    BY DEF NamesInstance, Addressed, NoCommand, Cmd
  <2>2. NoRender \in [banks: SUBSET Banks, failed: BOOLEAN]
    BY DEF NoRender
  <2> QED BY <2>1, <2>2, NoModeType DEF WorkerType, Pcs
<1>5. StandbyInv
  BY DEF StandbyInv, StandbyReplyIsItsOwn
<1> QED BY <1>1, <1>2, <1>3, <1>4, <1>5 DEF PlayerInv, WorkerInv

\* The queue's part of the invariant.
LEMMA QueuePart ==
  ASSUME PlayerInv, [Next]_vars
  PROVE  (QueueTypeOK /\ QueueAddressed)'
<1>1. [QueueNext]_queueVars
  BY NextUsesQueue
<1> QED BY <1>1, TypeParts, NextType, StepShape, StepAddressed DEF PlayerInv

LEMMA PlayerNext == PlayerInv /\ [Next]_vars => PlayerInv'
<1> SUFFICES ASSUME PlayerInv, [Next]_vars PROVE PlayerInv'
  OBVIOUS
<1> USE DEF PlayerInv
<1>0. (QueueTypeOK /\ QueueAddressed)'
  BY QueuePart
<1>1. CASE WorkerStep
  <2>1. ChannelType' /\ \A b \in Banks : ChannelInv(b)'
    BY <1>1, WorkerChannelStep, CoordinatorKeepsChannel DEF WorkerInv, Coordinated
  <2>2. WorkerType' /\ StandbyInv'
    BY <1>1, WorkerTypeStep, StandbyInvStep DEF WorkerInv
  <2> QED BY <1>0, <2>1, <2>2 DEF WorkerInv
<1>2. ASSUME NEW b \in Banks, BankWorks(b) \/ BankPanics(b) PROVE PlayerInv'
  <2>1. ChannelType' /\ Thread(b) /\ \A c \in Banks \ {b} : Coordinator(c)
    BY <1>2, BankThreadStep DEF WorkerInv, BankWorks, BankPanics
  <2>2. \A c \in Banks : ChannelInv(c)'
    BY <2>1, ThreadKeepsChannel, CoordinatorKeepsChannel DEF WorkerInv
  <2>3. WorkerType'
    BY <1>2 DEF WorkerInv, BankWorks, BankPanics, workerVars, WorkerType
  <2>4. UNCHANGED <<pc, mode, standby, rendering, busy, asked>>
    BY Zenon, <1>2, ThreadKeepsRequests DEF BankWorks, BankPanics, workerVars
  <2>5. StandbyInv'
    BY <2>4 DEF WorkerInv, StandbyInv, StandbyReplyIsItsOwn
  <2> QED BY <1>0, <2>1, <2>2, <2>3, <2>5 DEF WorkerInv
<1>3. ASSUME UNCHANGED <<bankVars, workerVars>> PROVE WorkerInv'
  <2> USE <1>3 DEF bankVars, workerVars, WorkerInv
  <2>1. ChannelType' /\ \A b \in Banks : ChannelInv(b)'
    BY Zenon DEF ChannelType, ChannelInv
  <2>2. WorkerType' /\ StandbyInv'
    BY Zenon DEF WorkerType, StandbyInv, StandbyReplyIsItsOwn
  <2> QED BY <2>1, <2>2
<1>4. CASE ClientStep
  BY Zenon, <1>0, <1>3, <1>4 DEF ClientStep, HttpSubmit, IpcSubmit, IpcSubmitAndWait,
     IpcAcceptStandby, IpcCallFails, IpcPollStandby, DropPlayer, AnySubmit
<1>5. CASE Done \/ UNCHANGED vars
  BY Zenon, <1>0, <1>3, <1>5 DEF Done, vars
<1> QED BY <1>1, <1>2, <1>4, <1>5 DEF Next

(***************************************************************************)
(* What follows from it                                                    *)
(***************************************************************************)
LEMMA RequestsWaiting ==
  ASSUME NEW queue \in Seq(BankCommand)
  PROVE  LET waiting == {n \in 1..Len(queue) : IsRequest(queue[n])}
         IN  /\ NoneWaits(queue) => waiting = {}
             /\ \A r : Waits(queue, r) => \E n \in 1..Len(queue) : waiting = {n} /\ queue[n] = r
BY DEF NoneWaits, Waits

LEMMA ChannelHasOneRequest ==
  ASSUME ChannelType, \A b \in Banks : ChannelInv(b)
  PROVE  OneRequestPerBank
<1> SUFFICES ASSUME NEW b \in Banks
             PROVE  LET waiting == {n \in 1..Len(commands[b]) : IsRequest(commands[b][n])}
                    IN  /\ Cardinality(waiting) + Len(replies[b]) <= (IF busy[b] THEN 1 ELSE 0)
                        /\ b \notin dead /\ busy[b] => Cardinality(waiting) + Len(replies[b]) = 1
                        /\ \A n \in waiting : commands[b][n] = asked[b]
                        /\ replies[b] # <<>> => replies[b][1].request = asked[b]
  BY DEF OneRequestPerBank
<1> DEFINE waiting == {n \in 1..Len(commands[b]) : IsRequest(commands[b][n])}
<1>1. commands[b] \in Seq(BankCommand) /\ replies[b] \in Seq(BankReply)
  BY DEF ChannelType
<1>2. /\ NoneWaits(commands[b]) => waiting = {}
      /\ \A r : Waits(commands[b], r) =>
           \E n \in 1..Len(commands[b]) : waiting = {n} /\ commands[b][n] = r
  BY <1>1, RequestsWaiting
<1> HIDE DEF waiting
<1>3. Cardinality({}) = 0 /\ \A n : Cardinality({n}) = 1
  BY FS_EmptySet, FS_Singleton
<1>4. \/ /\ waiting = {} /\ replies[b] = <<>>
         /\ ~busy[b] \/ b \in dead
      \/ /\ \E n \in 1..Len(commands[b]) : waiting = {n} /\ commands[b][n] = asked[b]
         /\ replies[b] = <<>> /\ busy[b]
      \/ /\ waiting = {} /\ Len(replies[b]) = 1 /\ replies[b][1].request = asked[b]
         /\ busy[b]
  <2>1. ChannelInv(b)
    OBVIOUS
  <2>2. b \in dead => NoneWaits(commands[b])
    BY <2>1 DEF ChannelInv, NoneWaits
  <2> QED BY <1>2, <2>1, <2>2 DEF ChannelInv
<1> SUFFICES /\ Cardinality(waiting) + Len(replies[b]) <= (IF busy[b] THEN 1 ELSE 0)
             /\ b \notin dead /\ busy[b] => Cardinality(waiting) + Len(replies[b]) = 1
             /\ \A n \in waiting : commands[b][n] = asked[b]
             /\ replies[b] # <<>> => replies[b][1].request = asked[b]
  BY DEF waiting
<1>5. Len(<<>>) = 0 /\ (replies[b] # <<>> <=> Len(replies[b]) # 0)
  BY <1>1
<1>6. CASE waiting = {} /\ replies[b] = <<>> /\ (~busy[b] \/ b \in dead)
  <2>1. Cardinality(waiting) + Len(replies[b]) = 0
    BY <1>3, <1>5, <1>6
  <2> QED BY <1>6, <2>1
<1>7. CASE /\ \E n \in 1..Len(commands[b]) : waiting = {n} /\ commands[b][n] = asked[b]
           /\ replies[b] = <<>> /\ busy[b]
  <2>1. Cardinality(waiting) + Len(replies[b]) = 1
    <3>1. PICK n : waiting = {n}
      BY <1>7
    <3>2. Cardinality(waiting) = 1 /\ Len(replies[b]) = 0
      BY <1>3, <1>5, <1>7, <3>1
    <3> QED BY <3>2
  <2> QED BY <1>7, <2>1
<1>8. CASE /\ waiting = {} /\ Len(replies[b]) = 1 /\ replies[b][1].request = asked[b]
           /\ busy[b]
  <2>1. Cardinality(waiting) + Len(replies[b]) = 1
    BY <1>3, <1>8
  <2> QED BY <1>8, <2>1
<1> QED BY <1>4, <1>6, <1>7, <1>8

\* Whatever is played, stopped, loaded and rendered, and whichever bank dies
\* meanwhile, the worker never has two requests under way at one bank.
THEOREM OneRequestPerBankCorrect == Spec => []OneRequestPerBank
<1>1. PlayerInv => OneRequestPerBank
  BY ChannelHasOneRequest DEF PlayerInv, WorkerInv
<1> QED BY <1>1, PlayerInit, PlayerNext, PTL DEF Spec

\* The reply a preload's poll or settle receives is the reply to that preload.
THEOREM StandbyReplyIsItsOwnCorrect == Spec => []StandbyReplyIsItsOwn
<1>1. PlayerInv => StandbyReplyIsItsOwn
  BY DEF PlayerInv, WorkerInv, StandbyInv
<1> QED BY <1>1, PlayerInit, PlayerNext, PTL DEF Spec

(***************************************************************************)
(* The preload and its ticket                                              *)
(***************************************************************************)
IsPreload(c) == c.op = "PrepareStandbyLivePatch"
Carried == Carries({"PrepareStandbyLivePatch"})
QueuesPreload == \E n \in 1..Len(pending) : IsPreload(pending[n])

\* There is one preload at a time: waiting in the queue, being applied or in
\* flight; and somebody holds its ticket, which has no result yet, unless the
\* player was shut down.
PreloadInv ==
  /\ \A m, n \in 1..Len(pending) : IsPreload(pending[m]) /\ IsPreload(pending[n]) => m = n
  /\ IsPreload(cur) => ~QueuesPreload
  /\ standby # None => ~Carried
  /\ standby # None \/ Carried => shutdown \/ (ticket /\ outcome = "none")
  /\ shutdown => ~ticket

LEMMA CarriedIs == Carried <=> IsPreload(cur) \/ QueuesPreload
BY DEF Carried, Carries, IsPreload, QueuesPreload

Load == IF ~ticket THEN "idle"
        ELSE IF outcome # "none" THEN "resolved"
        ELSE IF standby # None THEN "loading"
        ELSE IF SenderGone THEN "lost"
        ELSE "queued"

\* A step of the preload as its ticket shows it.
LoadStep ==
  \/ Load' = Load
  \/ Load = "idle" /\ Load' = "queued"
  \/ Load = "queued" /\ Load' \in {"lost", "loading"}
  \/ Load \in {"queued", "loading"} /\ Load' = "resolved"
  \/ Load # "idle" /\ Load' = "idle"

(***************************************************************************)
(* The preloads in the queue                                               *)
(***************************************************************************)
\* What a submit other than a preload's leaves of the preloads in the queue.
PlainSubmit ==
  \/ \A n \in 1..Len(pending') : ~IsPreload(pending'[n])
  \/ \E c \in Command : ~IsPreload(c) /\ pending' = Append(pending, c)

LEMMA PlainSubmits ==
  ASSUME QueueTypeOK, HttpSubmit \/ IpcSubmit \/ IpcSubmitAndWait
  PROVE  PlainSubmit
<1>0. pending \in Seq(Command) /\ generation \in Nat /\ NextGeneration \in Nat /\ LiveGeneration \in Nat
  BY DEF QueueTypeOK, NextGeneration, LiveGeneration
<1>1. ASSUME NEW op \in Ops, NEW gen \in Nat, NEW inst \in Instances \cup {None},
             NEW tl \in Timelines \cup {None}, NEW flag \in BOOLEAN, op # "PrepareStandbyLivePatch"
      PROVE  /\ pending' = Append(pending, Cmd(op, gen, inst, tl, flag)) => PlainSubmit
             /\ pending' = Append(<<>>, Cmd(op, gen, inst, tl, flag)) => PlainSubmit
  <2> DEFINE c == Cmd(op, gen, inst, tl, flag)
  <2>1. c \in Command
    BY <1>1, CmdType
  <2>3. ~IsPreload(c)
    BY Zenon, <1>1 DEF IsPreload, Cmd
  <2> HIDE DEF c
  <2>2. pending' = Append(<<>>, c) => \A n \in 1..Len(pending') : ~IsPreload(pending'[n])
    BY <2>1, <2>3
  <2> QED BY <2>1, <2>2, <2>3 DEF PlainSubmit, c
<1>2. CASE SubmitPlay \/ SubmitStop
  BY <1>0, <1>1, <1>2 DEF SubmitPlay, SubmitStop, Cleared, Ops, LiveOps
<1>3. ASSUME NEW i \in Instances, SubmitStopInstance(i) \/ SubmitMidi(i) \/ SubmitFadeOutInstances(i)
      PROVE  PlainSubmit
  BY <1>0, <1>1, <1>3 DEF SubmitStopInstance, SubmitMidi, SubmitFadeOutInstances, Cleared, Ops, LiveOps
<1>4. ASSUME NEW i \in Instances, SubmitPrepareLivePatch(i) \/ SubmitProbeLivePatch(i)
      PROVE  PlainSubmit
  BY <1>0, <1>1, <1>4 DEF SubmitPrepareLivePatch, SubmitProbeLivePatch, SubmitPatch, Ops, LiveOps
<1>5. ASSUME NEW t \in Timelines, SubmitSetLiveTempo(t) PROVE PlainSubmit
  BY <1>0, <1>1, <1>5 DEF SubmitSetLiveTempo, Ops, LiveOps
<1>6. ASSUME NEW t \in Timelines, NEW i \in Instances, SubmitTimelineMidi(t, i) PROVE PlainSubmit
  BY <1>0, <1>1, <1>6 DEF SubmitTimelineMidi, Ops, LiveOps
<1>7. ASSUME NEW t \in Timelines, NEW valid \in BOOLEAN, SubmitBeginLiveTimeline(t, valid)
      PROVE  PlainSubmit
  <2> DEFINE c == Cmd("BeginLiveTimeline", LiveGeneration, None, t, valid)
  <2>1. c \in Command
    BY <1>0, CmdType DEF Ops, LiveOps
  <2>5. ~IsPreload(c)
    BY Zenon DEF IsPreload, Cmd
  <2>2. PICK f \in InOrder : pending' = Append([k \in DOMAIN f |-> pending[f[k]]], c)
    BY <1>7 DEF SubmitBeginLiveTimeline
  <2>3. PICK kept \in Seq(Command) :
          /\ pending' = Append(kept, c)
          /\ \A k \in 1..Len(kept) : IsFadeOut(kept[k])
    BY <1>0, <2>2, RetainedAreFadeOuts
  <2> HIDE DEF c
  <2>4. /\ Len(pending') = Len(kept) + 1
        /\ pending'[Len(kept) + 1] = c
        /\ \A k \in 1..Len(kept) : pending'[k] = kept[k]
    BY <2>1, <2>3, AppendElements
  <2> QED BY <2>1, <2>3, <2>4, <2>5 DEF PlainSubmit, IsFadeOut, IsPreload
<1> QED BY <1>2, <1>3, <1>4, <1>5, <1>6, <1>7 DEF HttpSubmit, IpcSubmit, IpcSubmitAndWait

\* The client steps that are no submit, and the worker's.
LEMMA PlainKeeps ==
  ASSUME PreloadInv, pending \in Seq(Command), PlainSubmit
  PROVE  /\ \A m, n \in 1..Len(pending') : IsPreload(pending'[m]) /\ IsPreload(pending'[n]) => m = n
         /\ QueuesPreload' => QueuesPreload
<1>1. CASE \A n \in 1..Len(pending') : ~IsPreload(pending'[n])
  BY <1>1 DEF QueuesPreload
<1>2. CASE \E c \in Command : ~IsPreload(c) /\ pending' = Append(pending, c)
  <2>1. PICK c \in Command : ~IsPreload(c) /\ pending' = Append(pending, c)
    BY <1>2
  <2>2. /\ Len(pending') = Len(pending) + 1
        /\ pending'[Len(pending) + 1] = c
        /\ \A n \in 1..Len(pending) : pending'[n] = pending[n]
    BY <2>1, AppendElements
  <2>3. \A n \in 1..Len(pending') : IsPreload(pending'[n]) =>
           n \in 1..Len(pending) /\ IsPreload(pending[n])
    BY <2>1, <2>2
  <2> QED BY <2>2, <2>3 DEF PreloadInv, QueuesPreload
<1> QED BY <1>1, <1>2 DEF PlainSubmit

LEMMA PreloadJoins ==
  ASSUME pending \in Seq(Command), ~QueuesPreload, NEW c \in Command, IsPreload(c),
         pending' = Append(pending, c)
  PROVE  /\ \A m, n \in 1..Len(pending') : IsPreload(pending'[m]) /\ IsPreload(pending'[n]) => m = n
         /\ QueuesPreload'
<1>1. /\ Len(pending') = Len(pending) + 1
      /\ pending'[Len(pending) + 1] = c
      /\ \A n \in 1..Len(pending) : pending'[n] = pending[n]
  BY AppendElements
<1> QED BY <1>1 DEF QueuesPreload

LEMMA PreloadTaken ==
  ASSUME PreloadInv, pending \in Seq(Command), pending # <<>>, pending' = Tail(pending)
  PROVE  /\ \A m, n \in 1..Len(pending') : IsPreload(pending'[m]) /\ IsPreload(pending'[n]) => m = n
         /\ IsPreload(Head(pending)) => ~QueuesPreload'
         /\ QueuesPreload <=> IsPreload(Head(pending)) \/ QueuesPreload'
<1>1. /\ Len(pending') = Len(pending) - 1 /\ Len(pending) \in Nat \ {0}
      /\ \A n \in 1..(Len(pending) - 1) : pending'[n] = pending[n + 1]
      /\ Head(pending) = pending[1]
  BY TailElements
<1>2. \A n \in 1..Len(pending) : n = 1 \/ (n - 1 \in 1..Len(pending') /\ pending'[n - 1] = pending[n])
  BY <1>1
<1>3. QueuesPreload <=> IsPreload(Head(pending)) \/ QueuesPreload'
  <2>1. ASSUME QueuesPreload PROVE IsPreload(Head(pending)) \/ QueuesPreload'
    <3>1. PICK n \in 1..Len(pending) : IsPreload(pending[n])
      BY <2>1 DEF QueuesPreload
    <3> QED BY <1>1, <1>2, <3>1 DEF QueuesPreload
  <2>2. ASSUME QueuesPreload' PROVE QueuesPreload
    <3>1. PICK n \in 1..Len(pending') : IsPreload(pending'[n])
      BY <2>2 DEF QueuesPreload
    <3>2. n + 1 \in 1..Len(pending) /\ pending'[n] = pending[n + 1]
      BY <1>1
    <3> QED BY <3>1, <3>2 DEF QueuesPreload
  <2>3. IsPreload(Head(pending)) => QueuesPreload
    BY <1>1 DEF QueuesPreload
  <2> QED BY <2>1, <2>2, <2>3
<1>4. \A n \in 1..Len(pending') : n + 1 \in 1..Len(pending) /\ n + 1 # 1 /\ pending'[n] = pending[n + 1]
  BY <1>1
<1>5. 1 \in 1..Len(pending)
  BY <1>1
<1>6. IsPreload(Head(pending)) => ~QueuesPreload'
  BY <1>1, <1>4, <1>5 DEF PreloadInv, QueuesPreload
<1>7. \A m, n \in 1..Len(pending') : IsPreload(pending'[m]) /\ IsPreload(pending'[n]) => m = n
  <2> TAKE m, n \in 1..Len(pending')
  <2> HAVE IsPreload(pending'[m]) /\ IsPreload(pending'[n])
  <2>1. m + 1 = n + 1
    BY <1>4 DEF PreloadInv
  <2> QED BY <1>1, <2>1
<1> QED BY <1>3, <1>6, <1>7

(***************************************************************************)
(* The kinds of step the preload sees                                      *)
(***************************************************************************)
PreloadKept == PreloadInv' /\ LoadStep

LEMMA SenderGoneIs == SenderGone <=> standby = None /\ ~Carried
BY Zenon DEF SenderGone, Carried

LEMMA LoadFacts ==
  ASSUME PreloadInv
  PROVE  /\ ~ticket <=> Load = "idle"
         /\ ticket /\ outcome # "none" <=> Load = "resolved"
         /\ ticket /\ outcome = "none" /\ standby # None <=> Load = "loading"
         /\ ticket /\ outcome = "none" /\ Carried <=> Load = "queued"
         /\ ticket /\ outcome = "none" /\ standby = None /\ ~Carried <=> Load = "lost"
BY SenderGoneIs DEF PreloadInv, Load

LEMMA LoadFactsAfter ==
  ASSUME PreloadInv'
  PROVE  /\ ~ticket' <=> Load' = "idle"
         /\ ticket' /\ outcome' # "none" <=> Load' = "resolved"
         /\ ticket' /\ outcome' = "none" /\ standby' # None <=> Load' = "loading"
         /\ ticket' /\ outcome' = "none" /\ Carried' <=> Load' = "queued"
         /\ ticket' /\ outcome' = "none" /\ standby' = None /\ ~Carried' <=> Load' = "lost"
BY SenderGoneIs DEF PreloadInv, Load, SenderGone, Carried

LEMMA CarriedAfter == Carried' <=> IsPreload(cur)' \/ QueuesPreload'
BY DEF Carried, Carries, IsPreload, QueuesPreload

\* Nothing that concerns the preload changes.
LEMMA PreloadRests ==
  ASSUME PreloadInv, UNCHANGED <<cur, pending, standby, ticket, outcome, shutdown>>
  PROVE  PreloadKept
<1>1. PreloadInv'
  BY Zenon DEF PreloadInv, Carried, Carries, QueuesPreload
<1>2. Load' = Load
  BY Zenon DEF Load, SenderGone, Carries
<1> QED BY <1>1, <1>2 DEF PreloadKept, LoadStep

\* Another command is submitted: it may throw the preload out of the queue.
LEMMA PreloadIsQueuedOrLost ==
  ASSUME PreloadInv, pending \in Seq(Command), PlainSubmit,
         UNCHANGED <<cur, standby, ticket, outcome, shutdown>>
  PROVE  PreloadKept
<1>1. /\ \A m, n \in 1..Len(pending') : IsPreload(pending'[m]) /\ IsPreload(pending'[n]) => m = n
      /\ QueuesPreload' => QueuesPreload
  BY PlainKeeps
<1>2. IsPreload(cur)' <=> IsPreload(cur)
  BY DEF IsPreload
<1>3. Carried' => Carried
  BY <1>1, <1>2, CarriedIs, CarriedAfter
<1>4. PreloadInv'
  BY <1>1, <1>2, <1>3 DEF PreloadInv
<1> QED BY <1>3, <1>4, LoadFacts, LoadFactsAfter DEF PreloadKept, LoadStep

\* Another command is done with.
LEMMA PreloadStays ==
  ASSUME PreloadInv, ~IsPreload(cur), ~IsPreload(cur'),
         UNCHANGED <<pending, standby, ticket, outcome, shutdown>>
  PROVE  PreloadKept
<1>1. (QueuesPreload' <=> QueuesPreload) /\ (IsPreload(cur)' <=> IsPreload(cur))
  BY DEF QueuesPreload, IsPreload
<1>2. Carried' <=> Carried
  BY <1>1, CarriedIs, CarriedAfter
<1>3. PreloadInv'
  BY <1>1, <1>2 DEF PreloadInv
<1> QED BY <1>2, <1>3, LoadFacts, LoadFactsAfter DEF PreloadKept, LoadStep

\* The reply to the preload in flight.
LEMMA PreloadIsAnswered ==
  ASSUME PreloadInv, standby # None, standby' = None, NEW result, result # "none",
         outcome' = IF ticket THEN result ELSE outcome,
         UNCHANGED <<cur, pending, ticket, shutdown>>
  PROVE  PreloadKept
<1>1. (QueuesPreload' <=> QueuesPreload) /\ (IsPreload(cur)' <=> IsPreload(cur))
  BY DEF QueuesPreload, IsPreload
<1>2. (Carried' <=> Carried) /\ ~Carried
  BY <1>1, CarriedIs, CarriedAfter DEF PreloadInv
<1>3. PreloadInv'
  BY <1>1, <1>2 DEF PreloadInv
<1> QED BY <1>2, <1>3, LoadFacts, LoadFactsAfter DEF PreloadInv, PreloadKept, LoadStep

\* The ticket is given back.
LEMMA TicketIsGone ==
  ASSUME PreloadInv, ~ticket', shutdown' \/ (standby = None /\ ~Carried),
         UNCHANGED <<cur, pending, standby>>
  PROVE  PreloadKept
<1>1. (QueuesPreload' <=> QueuesPreload) /\ (IsPreload(cur)' <=> IsPreload(cur))
  BY DEF QueuesPreload, IsPreload
<1>2. Carried' <=> Carried
  BY <1>1, CarriedIs, CarriedAfter
<1>3. PreloadInv'
  BY <1>1, <1>2 DEF PreloadInv
<1> QED BY <1>3, LoadFacts, LoadFactsAfter DEF PreloadKept, LoadStep

\* A preload enters the queue.
LEMMA AcceptStep ==
  ASSUME QueueTypeOK, PreloadInv, IpcAcceptStandby
  PROVE  PreloadKept
<1>1. PICK i \in Instances : SubmitPrepareStandbyLivePatch(i)
  BY DEF IpcAcceptStandby
<1> DEFINE c == Cmd("PrepareStandbyLivePatch", LiveGeneration, i, None, FALSE)
<1>2. c \in Command
  <2>1. LiveGeneration \in Nat
    BY DEF QueueTypeOK, LiveGeneration, NextGeneration
  <2> QED BY <2>1, CmdType DEF Ops, LiveOps
<1>3. IsPreload(c)
  BY Zenon DEF IsPreload, Cmd
<1>4. ~shutdown /\ ~shutdown' /\ pending' = Append(pending, c)
  BY <1>1 DEF SubmitPrepareStandbyLivePatch, SubmitPatch
<1> HIDE DEF c
<1>5. /\ ~ticket /\ ticket' /\ outcome' = "none"
      /\ UNCHANGED <<cur, standby>>
  BY DEF IpcAcceptStandby, CanAcceptStandby, AnySubmit, workerVars
<1>6. standby = None /\ ~Carried
  BY <1>4, <1>5 DEF PreloadInv
<1>7. ~QueuesPreload /\ ~IsPreload(cur)
  BY <1>6, CarriedIs
<1>8. /\ \A m, n \in 1..Len(pending') : IsPreload(pending'[m]) /\ IsPreload(pending'[n]) => m = n
      /\ QueuesPreload'
  BY <1>2, <1>3, <1>4, <1>7, PreloadJoins DEF QueueTypeOK
<1>9. ~IsPreload(cur)' /\ Carried'
  BY <1>5, <1>7, <1>8, CarriedAfter DEF IsPreload
<1>10. PreloadInv'
  BY <1>4, <1>5, <1>6, <1>8, <1>9 DEF PreloadInv
<1> QED BY <1>5, <1>9, <1>10, LoadFacts, LoadFactsAfter DEF PreloadKept, LoadStep

\* The worker takes a command, maybe the preload.
LEMMA FetchStep ==
  ASSUME QueueTypeOK, WorkerType, PreloadInv, Fetch
  PROVE  PreloadKept
<1>1. /\ pending # <<>> /\ pending' = Tail(pending) /\ cur' = Head(pending) /\ cur = NoCommand
      /\ UNCHANGED <<standby, ticket, outcome, shutdown>>
  BY DEF Fetch, TakeCommand, CanTake, WorkerType, ipcVars
<1>2. /\ \A m, n \in 1..Len(pending') : IsPreload(pending'[m]) /\ IsPreload(pending'[n]) => m = n
      /\ IsPreload(Head(pending)) => ~QueuesPreload'
      /\ QueuesPreload <=> IsPreload(Head(pending)) \/ QueuesPreload'
  BY <1>1, PreloadTaken DEF QueueTypeOK
<1>3. ~IsPreload(NoCommand)
  BY DEF IsPreload, NoCommand, Cmd
<1>4. IsPreload(cur)' <=> IsPreload(Head(pending))
  BY <1>1 DEF IsPreload
<1>5. Carried' <=> Carried
  BY <1>1, <1>2, <1>3, <1>4, CarriedIs, CarriedAfter
<1>6. PreloadInv'
  BY <1>1, <1>2, <1>4, <1>5 DEF PreloadInv
<1> QED BY <1>1, <1>5, <1>6, LoadFacts, LoadFactsAfter DEF PreloadKept, LoadStep

\* The preload begins, or fails at once when its bank is gone.
LEMMA BeginStep ==
  ASSUME WorkerType, PreloadInv, ApplyPrepareStandby
  PROVE  PreloadKept
<1>1. /\ IsPreload(cur) /\ cur' = NoCommand /\ standby = None
      /\ UNCHANGED <<pending, ticket, shutdown>>
      /\ cur.inst \in Instances
  BY DEF ApplyPrepareStandby, Applying, IsPreload, MustSettle, queueVars, WorkerType, NamesInstance, Addressed
<1>2. \/ standby' = None /\ outcome' = (IF ticket THEN "err" ELSE outcome)
      \/ standby' = cur.inst /\ outcome' = outcome
  BY DEF ApplyPrepareStandby
<1>3. ~QueuesPreload /\ ~QueuesPreload'
  BY <1>1 DEF PreloadInv, QueuesPreload
<1>4. ~IsPreload(cur)' /\ IsPreload(cur)
  BY <1>1 DEF IsPreload, NoCommand, Cmd
<1>5. Carried /\ ~Carried'
  BY <1>3, <1>4, CarriedIs, CarriedAfter
<1>6. PreloadInv'
  BY <1>1, <1>2, <1>3, <1>4, <1>5 DEF PreloadInv, QueuesPreload
<1> QED BY <1>1, <1>2, <1>5, <1>6, LoadFacts, LoadFactsAfter, NoneAssumption DEF PreloadInv, PreloadKept, LoadStep

\* The reply the loop takes for the preload is a result.
LEMMA ReplyStep ==
  ASSUME ChannelType, WorkerType, PreloadInv, standby # None, TakeStandbyReply
  PROVE  PreloadKept
<1> DEFINE b == BankOf[standby]
           result == ResultOf(b, "PreparePatch")
<1>1. b \in Banks
  BY BankAssumption DEF WorkerType
<1>2. result # "none"
  <2>1. replies[b] \in Seq(BankReply)
    BY <1>1 DEF ChannelType
  <2>2. replies[b] # <<>> => Head(replies[b]) \in BankReply
    BY <2>1
  <2> QED BY <2>2 DEF ResultOf, NextReply, BankReply, Reply
<1>3. Complete(result) /\ cur' = cur
  BY DEF TakeStandbyReply
<1>4. UNCHANGED <<pending, shutdown>>
  BY <1>3 DEF Complete, FinishIf, Finish, queueVars
<1> HIDE DEF result, b
<1>5. standby' = None /\ ticket' = ticket /\ outcome' = IF ticket THEN result ELSE outcome
  BY <1>3 DEF Complete
<1> QED BY <1>2, <1>3, <1>4, <1>5, PreloadIsAnswered

LEMMA PreloadWorkerStep ==
  ASSUME PlayerInv, PreloadInv, WorkerStep
  PROVE  PreloadKept
<1> USE DEF PlayerInv, WorkerInv
<1>1. ASSUME Applied, UNCHANGED <<pending, shutdown, ticket, outcome>>, ~IsPreload(cur) PROVE PreloadKept
  <2>1. ~IsPreload(cur')
    BY <1>1 DEF Applied, IsPreload, NoCommand, Cmd
  <2> QED BY <1>1, <2>1, PreloadStays DEF Applied
<1>2. CASE PollStandby
  <2>1. CASE standby # None /\ TakeStandbyReply
    BY <2>1, ReplyStep
  <2>2. CASE UNCHANGED <<queueVars, cur, standby, ipcVars>>
    BY <2>2, PreloadRests DEF queueVars, ipcVars
  <2> QED BY <1>2, <2>1, <2>2 DEF PollStandby
<1>3. CASE Settle
  BY <1>3, ReplyStep DEF Settle, MustSettle
<1>4. CASE Fetch
  BY <1>4, FetchStep
<1>5. CASE NoFetch \/ SendRender \/ PushChunk \/ ShutdownBanks \/ JoinBanks
  BY <1>5, PreloadRests DEF NoFetch, SendRender, PushChunk, ShutdownBanks, JoinBanks, queueVars, ipcVars
<1>6. CASE ApplyStopAll \/ ApplyMidi \/ ApplyFadeOutInstances \/ ApplySetLiveTempo \/ ApplyTimelineMidi
  BY <1>1, <1>6 DEF ApplyStopAll, ApplyMidi, ApplyFadeOutInstances, ApplySetLiveTempo,
     ApplyTimelineMidi, Applying, Return, queueVars, ipcVars, IsPreload
<1>7. CASE ApplyStopInstance
  BY <1>1, <1>7 DEF ApplyStopInstance, Applying, Return, FinishIf, Finish, queueVars, ipcVars, IsPreload
<1>8. CASE ApplyBeginLiveTimeline
  BY <1>1, <1>8 DEF ApplyBeginLiveTimeline, Applying, Return, Finish, queueVars, ipcVars, IsPreload
<1>9. CASE ApplyPrepareStandby
  BY <1>9, BeginStep
<1>10. CASE BeginPlay \/ BeginPatch
  BY <1>10, PreloadRests DEF BeginPlay, BeginPatch, Wait, queueVars, ipcVars
<1>11. CASE FinishPlay
  BY <1>1, <1>11 DEF FinishPlay, Return, queueVars, ipcVars, IsPreload
<1>12. CASE FinishPatch
  BY <1>1, <1>12 DEF FinishPatch, SyncOps, FinishIf, Finish, queueVars, IsPreload
<1>13. CASE CollectRender
  BY <1>13, PreloadRests DEF CollectRender, Finish, queueVars, ipcVars
<1> QED
  BY <1>2, <1>3, <1>4, <1>5, <1>6, <1>7, <1>8, <1>9, <1>10, <1>11, <1>12, <1>13 DEF WorkerStep

LEMMA PreloadClientStep ==
  ASSUME PlayerInv, PreloadInv, ClientStep
  PROVE  PreloadKept
<1> USE DEF PlayerInv
<1>1. CASE HttpSubmit \/ IpcSubmit \/ IpcSubmitAndWait
  <2>1. PlainSubmit
    BY <1>1, PlainSubmits
  <2>2. UNCHANGED <<cur, standby, ticket, outcome>>
    BY Zenon, <1>1 DEF HttpSubmit, IpcSubmit, IpcSubmitAndWait, AnySubmit, workerVars, ipcVars
  <2>3. shutdown' = shutdown
    BY Zenon, <1>1 DEF HttpSubmit, IpcSubmit, IpcSubmitAndWait, SubmitPlay, SubmitStop,
       SubmitStopInstance, SubmitMidi, SubmitFadeOutInstances, SubmitPatch, SubmitPrepareLivePatch,
       SubmitProbeLivePatch, SubmitBeginLiveTimeline, SubmitSetLiveTempo, SubmitTimelineMidi
  <2> QED BY <2>1, <2>2, <2>3, PreloadIsQueuedOrLost DEF QueueTypeOK
<1>2. CASE IpcAcceptStandby
  BY <1>2, AcceptStep
<1>3. CASE IpcCallFails
  BY <1>3, PreloadRests DEF IpcCallFails, queueVars, workerVars
<1>4. CASE IpcPollStandby
  <2>1. /\ ticket /\ ~ticket' /\ (outcome # "none" \/ (standby = None /\ ~Carried))
        /\ UNCHANGED <<cur, pending, standby, shutdown>>
    BY <1>4, SenderGoneIs DEF IpcPollStandby, queueVars, workerVars
  <2>2. standby = None /\ ~Carried
    BY <2>1 DEF PreloadInv
  <2> QED BY <2>1, <2>2, TicketIsGone
<1>5. CASE DropPlayer
  BY <1>5, TicketIsGone DEF DropPlayer, Shutdown, workerVars
<1> QED BY <1>1, <1>2, <1>3, <1>4, <1>5 DEF ClientStep

LEMMA PreloadNext == PlayerInv /\ PreloadInv /\ [Next]_vars => PreloadKept
<1> SUFFICES ASSUME PlayerInv, PreloadInv, [Next]_vars PROVE PreloadKept
  OBVIOUS
<1>1. ASSUME NEW b \in Banks, BankWorks(b) \/ BankPanics(b) PROVE PreloadKept
  BY <1>1, PreloadRests DEF BankWorks, BankPanics, queueVars, workerVars, ipcVars
<1>2. CASE Done \/ UNCHANGED vars
  BY <1>2, PreloadRests DEF Done, vars, queueVars, workerVars, ipcVars
<1> QED BY <1>1, <1>2, PreloadWorkerStep, PreloadClientStep DEF Next

LEMMA PreloadInit == Init => PreloadInv /\ Load = "idle"
<1> SUFFICES ASSUME Init PROVE PreloadInv /\ Load = "idle"
  OBVIOUS
<1>1. ~IsPreload(cur) /\ ~QueuesPreload
  BY DEF Init, QueueInit, IsPreload, NoCommand, Cmd, QueuesPreload
<1>2. ~Carried
  BY <1>1, CarriedIs
<1> QED BY <1>1, <1>2 DEF Init, QueueInit, PreloadInv, Load, QueuesPreload

\* The player keeps the promise of StandbyLoad for any number of instances,
\* banks and timelines: one preload at a time, lost only while it waits in the
\* queue, and answered with a result once its load has begun.
THEOREM PlayerImplementsStandbyLoad == Spec => PreloadSpec
<1>1. Init => PlayerInv /\ PreloadInv /\ Load = "idle"
  BY PlayerInit, PreloadInit
<1>2. PlayerInv /\ PreloadInv /\ [Next]_vars => (PlayerInv /\ PreloadInv)' /\ LoadStep
  BY PlayerNext, PreloadNext DEF PreloadKept
<1>3. LoadStep => [Preload!Next]_Load
  BY DEF LoadStep, Load, Preload!Next, Preload!Accept, Preload!Lose, Preload!Start, Preload!Resolve,
     Preload!Report, Preload!Abandon
<1> QED BY <1>1, <1>2, <1>3, PTL DEF Spec, PreloadSpec, Preload!Spec, Load

(***************************************************************************)
(* What a step of the loop does to the playback mode                       *)
(***************************************************************************)
Halts(c) == c.op \in {"Play", "StopAll"}
Stops(c) == c.op = "StopInstance"
Resets(c) == Halts(c) \/ c.op = "BeginLiveTimeline" \/ (c.op = "Midi" /\ c.flag)

TimelineOf(m) == IF IsLive(m) THEN m.timeline ELSE None

\* A command that need not set the generation of the mode finds it set.
CurFollows ==
  /\ cur.op \in {"SetLiveTempo", "TimelineMidi"} => mode = NoMode \/ mode.gen = cur.gen
  /\ cur.op = "PrepareStandbyLivePatch" => mode = NoMode \/ mode.gen = cur.gen \/ ~IsLive(mode)

QueueRests == UNCHANGED <<generation, pending, liveRequested, liveTimeline>>

\* No command is involved.
Passes ==
  /\ QueueRests /\ cur' = cur
  /\ \/ mode' = NoMode
     \/ mode'.gen = mode.gen /\ mode'.kind = mode.kind /\ mode'.timeline = mode.timeline

Fetches ==
  /\ cur = NoCommand /\ pending # <<>> /\ cur' = Head(pending) /\ pending' = Tail(pending)
  /\ UNCHANGED <<generation, liveRequested, liveTimeline, mode>>

\* A patch load or a probe begins.
Begins ==
  /\ QueueRests /\ cur' = cur /\ cur.op \in SyncOps
  /\ TimelineOf(mode') \in {TimelineOf(mode), None}

\* A command is applied, to its end.
Applies ==
  /\ QueueRests /\ cur.op # "none" /\ cur' = NoCommand
  /\ IF IsFadeOut(cur) THEN mode' = mode ELSE mode' = NoMode \/ mode'.gen = cur.gen
  /\ Halts(cur) => ~IsLive(mode')
  /\ Stops(cur) /\ ~IsLive(mode) => ~IsLive(mode')
  /\ TimelineOf(mode') \in
       IF cur.op = "BeginLiveTimeline" THEN {cur.tl, None}
       ELSE IF Resets(cur) THEN {None} ELSE {TimelineOf(mode), None}

LEMMA NoModeIs == ~IsLive(NoMode) /\ TimelineOf(NoMode) = None
BY NoModeType DEF IsLive, TimelineOf

LEMMA EnsureLiveIs ==
  ASSUME ModeOK(mode), NEW gen \in Nat
  PROVE  /\ EnsureLiveMode(gen) \in ModeType /\ EnsureLiveMode(gen).kind = "live"
         /\ EnsureLiveMode(gen).timeline = TimelineOf(mode)
         /\ IsLive(mode) => EnsureLiveMode(gen) = mode
         /\ ~IsLive(mode) => EnsureLiveMode(gen).gen = gen /\ EnsureLiveMode(gen).active = {}
BY DEF EnsureLiveMode, NewLiveMode, NoMode, IsLive, TimelineOf, ModeOK, ModeType

LEMMA WithoutIs ==
  ASSUME NEW m \in ModeType, NEW i
  PROVE  \/ Without(m, i) = NoMode
         \/ /\ Without(m, i).gen = m.gen /\ Without(m, i).kind = m.kind
            /\ Without(m, i).timeline = m.timeline /\ m.active # {}
BY DEF Without, ModeType

LEMMA WorkerShape ==
  ASSUME QueueTypeOK, WorkerType, CurFollows, WorkerStep
  PROVE  Passes \/ Fetches \/ Begins \/ Applies
<1>0. /\ ModeOK(mode) /\ mode \in ModeType
      /\ cur.op # "none" => cur.gen \in Nat
  BY CurType, CurNotNone DEF WorkerType, ModeOK
<1>1. ASSUME NEW result, Complete(result)
      PROVE  \/ mode' = NoMode
             \/ mode'.gen = mode.gen /\ mode'.kind = mode.kind /\ mode'.timeline = mode.timeline
  BY <1>0, <1>1, WithoutIs DEF Complete
<1>2. ASSUME TakeStandbyReply PROVE Passes
  <2>1. QueueRests /\ cur' = cur
    BY <1>2 DEF TakeStandbyReply, Complete, FinishIf, Finish, queueVars, QueueRests
  <2> QED BY <1>1, <1>2, <2>1 DEF TakeStandbyReply, Passes
<1>3. ASSUME UNCHANGED <<queueVars, cur, mode>> PROVE Passes
  BY <1>3 DEF Passes, QueueRests, queueVars
<1>4. CASE PollStandby \/ Settle
  BY <1>2, <1>3, <1>4 DEF PollStandby, Settle
<1>5. CASE Fetch
  BY <1>5 DEF Fetch, TakeCommand, CanTake, WorkerType, Fetches
<1>6. CASE NoFetch \/ BeginPlay \/ SendRender \/ ShutdownBanks \/ JoinBanks
  BY <1>3, <1>6 DEF NoFetch, BeginPlay, Wait, SendRender, ShutdownBanks, JoinBanks
<1>7. CASE ApplyStopAll
  BY <1>7, NoModeIs DEF ApplyStopAll, Applying, Return, Applied, queueVars, QueueRests, Applies,
     IsFadeOut, Halts, Stops, Resets
<1>8. CASE ApplyStopInstance
  <2> DEFINE live == [EnsureLiveMode(cur.gen) EXCEPT !.gen = cur.gen]
  <2>1. cur.op = "StopInstance" /\ mode' = Without(live, cur.inst)
    BY <1>8 DEF ApplyStopInstance, Applying
  <2>2. /\ live \in ModeType /\ live.gen = cur.gen /\ live.timeline = TimelineOf(mode)
        /\ live.kind = "live"
        /\ ~IsLive(mode) => live.active = {}
    BY <1>0, <2>1, EnsureLiveIs DEF ModeType
  <2> HIDE DEF live
  <2>3. \/ mode' = NoMode
        \/ mode'.gen = cur.gen /\ mode'.timeline = TimelineOf(mode) /\ live.active # {}
    BY <2>1, <2>2, WithoutIs
  <2>4. /\ mode' = NoMode \/ mode'.gen = cur.gen
        /\ ~IsLive(mode) => ~IsLive(mode')
        /\ TimelineOf(mode') \in {TimelineOf(mode), None}
    BY <2>2, <2>3, NoModeIs DEF TimelineOf
  <2>5. QueueRests /\ cur' = NoCommand
    BY <1>8 DEF ApplyStopInstance, FinishIf, Finish, Return, Applied, queueVars, QueueRests
  <2> QED BY <2>1, <2>4, <2>5 DEF Applies, IsFadeOut, Halts, Stops, Resets
<1>9. CASE ApplyMidi
  <2> DEFINE entering == cur.flag \/ ~IsLive(mode)
             live == IF entering THEN NewLiveMode(cur.gen) ELSE mode
  <2>1. /\ cur.op = "Midi" /\ mode' = [live EXCEPT !.gen = cur.gen, !.active = @ \cup {cur.inst}]
    BY <1>9 DEF ApplyMidi, Applying
  <2>2. NewLiveMode(cur.gen) \in ModeType /\ NewLiveMode(cur.gen).timeline = None
    BY <1>0, <2>1, NewModeType DEF ModeOK, NewLiveMode, NoMode
  <2>3. live \in ModeType /\ live.timeline = IF cur.flag THEN None ELSE TimelineOf(mode)
    BY <1>0, <2>2 DEF TimelineOf
  <2> HIDE DEF live
  <2>4. mode'.gen = cur.gen /\ mode'.timeline = live.timeline
    BY <2>1, <2>3 DEF ModeType
  <2>5. QueueRests /\ cur' = NoCommand
    BY <1>9 DEF ApplyMidi, Return, Applied, queueVars, QueueRests
  <2> QED BY <2>1, <2>3, <2>4, <2>5 DEF Applies, IsFadeOut, Halts, Stops, Resets, TimelineOf
<1>10. CASE ApplyBeginLiveTimeline
  <2>1. cur.op = "BeginLiveTimeline" /\ QueueRests /\ cur' = NoCommand
    BY <1>10 DEF ApplyBeginLiveTimeline, Applying, Finish, Return, Applied, queueVars, QueueRests
  <2>2. \/ mode' = NoMode
        \/ \E live \in {NewLiveMode(cur.gen), mode} :
             /\ live.gen = cur.gen /\ live \in ModeType
             /\ mode' = [live EXCEPT !.timeline = cur.tl, !.started = FALSE]
    <3>1. NewLiveMode(cur.gen).gen = cur.gen /\ NewLiveMode(cur.gen) \in ModeType
      BY <1>0, <2>1, NewModeType DEF ModeOK, NewLiveMode, NoMode
    <3> QED BY <1>0, <1>10, <3>1 DEF ApplyBeginLiveTimeline, Continues
  <2>3. /\ mode' = NoMode \/ mode'.gen = cur.gen
        /\ TimelineOf(mode') \in {cur.tl, None}
    BY <2>2, NoModeIs DEF ModeType, TimelineOf
  <2> QED BY <2>1, <2>3 DEF Applies, IsFadeOut, Halts, Stops, Resets
<1>11. CASE ApplyFadeOutInstances
  BY <1>11 DEF ApplyFadeOutInstances, Applying, Return, Applied, queueVars, QueueRests, Applies,
     IsFadeOut, Halts, Stops, Resets
<1>12. CASE ApplySetLiveTempo
  <2>1. cur.op = "SetLiveTempo" /\ QueueRests /\ cur' = NoCommand
    BY <1>12 DEF ApplySetLiveTempo, Applying, Return, Applied, queueVars, QueueRests
  <2>2. mode' = mode \/ mode' = [mode EXCEPT !.gen = cur.gen]
    BY <1>12 DEF ApplySetLiveTempo
  <2>3. /\ mode' = NoMode \/ mode'.gen = cur.gen
        /\ TimelineOf(mode') = TimelineOf(mode)
    BY <1>0, <2>1, <2>2 DEF CurFollows, ModeType, TimelineOf, IsLive
  <2> QED BY <2>1, <2>3 DEF Applies, IsFadeOut, Halts, Stops, Resets
<1>13. CASE ApplyTimelineMidi
  <2>1. cur.op = "TimelineMidi" /\ QueueRests /\ cur' = NoCommand
    BY <1>13 DEF ApplyTimelineMidi, Applying, Return, Applied, queueVars, QueueRests
  <2>2. \/ mode' = mode
        \/ \E accepted : mode' = [mode EXCEPT !.gen = cur.gen, !.active = @ \cup {cur.inst},
                                              !.started = @ \/ accepted]
    BY <1>13 DEF ApplyTimelineMidi
  <2>3. /\ mode' = NoMode \/ mode'.gen = cur.gen
        /\ TimelineOf(mode') = TimelineOf(mode)
    BY <1>0, <2>1, <2>2 DEF CurFollows, ModeType, TimelineOf, IsLive
  <2> QED BY <2>1, <2>3 DEF Applies, IsFadeOut, Halts, Stops, Resets
<1>14. CASE ApplyPrepareStandby
  <2>1. /\ cur.op = "PrepareStandbyLivePatch" /\ QueueRests /\ cur' = NoCommand
        /\ mode' = EnsureLiveMode(cur.gen)
    BY <1>14 DEF ApplyPrepareStandby, Applying, queueVars, QueueRests
  <2>2. /\ mode' = NoMode \/ mode'.gen = cur.gen
        /\ TimelineOf(mode') = TimelineOf(mode)
    BY <1>0, <2>1, EnsureLiveIs, NoModeIs DEF CurFollows, TimelineOf, IsLive
  <2> QED BY <2>1, <2>2 DEF Applies, IsFadeOut, Halts, Stops, Resets
<1>15. CASE BeginPatch
  <2>1. cur.op \in SyncOps /\ QueueRests /\ cur' = cur /\ mode' = EnsureLiveMode(cur.gen)
    BY <1>15 DEF BeginPatch, Applying, Wait, SyncOps, queueVars, QueueRests
  <2>2. TimelineOf(mode') = TimelineOf(mode)
    BY <1>0, <2>1, EnsureLiveIs DEF SyncOps, TimelineOf, IsLive
  <2> QED BY <2>1, <2>2 DEF Begins
<1>16. CASE FinishPlay
  <2>1. cur.op = "Play" /\ QueueRests /\ cur' = NoCommand /\ mode' = Scheduled(cur.gen)
    BY <1>16 DEF FinishPlay, Return, Applied, queueVars, QueueRests
  <2>2. mode'.gen = cur.gen /\ ~IsLive(mode')
    BY <2>1 DEF Scheduled, NoMode, IsLive
  <2> QED BY <2>1, <2>2 DEF Applies, IsFadeOut, Halts, Stops, Resets, TimelineOf
<1>17. CASE FinishPatch
  <2> DEFINE live == [mode EXCEPT !.gen = cur.gen]
  <2>1. cur.op \in SyncOps /\ QueueRests /\ cur' = NoCommand
    BY <1>17 DEF FinishPatch, FinishIf, Finish, Applied, queueVars, QueueRests
  <2>2. live \in ModeType /\ live.gen = cur.gen /\ TimelineOf(live) = TimelineOf(mode)
    BY <1>0, <2>1 DEF SyncOps, ModeType, TimelineOf, IsLive
  <2>3. mode' \in {live, Without(live, cur.inst), [live EXCEPT !.active = @ \cup {cur.inst}]}
    <3> HIDE DEF live
    <3> QED BY <1>17 DEF FinishPatch, live
  <2> HIDE DEF live
  <2>4. [live EXCEPT !.active = @ \cup {cur.inst}].gen = live.gen
        /\ TimelineOf([live EXCEPT !.active = @ \cup {cur.inst}]) = TimelineOf(live)
    BY <2>2 DEF ModeType, TimelineOf, IsLive
  <2>5. /\ Without(live, cur.inst) = NoMode \/ Without(live, cur.inst).gen = live.gen
        /\ TimelineOf(Without(live, cur.inst)) \in {TimelineOf(live), None}
    BY <2>2, WithoutIs, NoModeIs DEF TimelineOf, IsLive
  <2>6. /\ mode' = NoMode \/ mode'.gen = cur.gen
        /\ TimelineOf(mode') \in {TimelineOf(mode), None}
    BY <2>2, <2>3, <2>4, <2>5
  <2> QED BY <2>1, <2>6 DEF Applies, IsFadeOut, Halts, Stops, Resets, SyncOps
<1>18. CASE CollectRender
  <2>1. QueueRests /\ cur' = cur
    BY <1>18 DEF CollectRender, Finish, queueVars, QueueRests
  <2>2. mode' = NoMode \/ mode' = [mode EXCEPT !.active = @ \ FailedInstances]
    BY <1>18 DEF CollectRender
  <2> QED BY <1>0, <2>1, <2>2 DEF Passes, ModeType
<1>19. CASE PushChunk
  BY <1>19 DEF PushChunk, Passes, QueueRests, queueVars
<1> QED
  BY <1>4, <1>5, <1>6, <1>7, <1>8, <1>9, <1>10, <1>11, <1>12, <1>13, <1>14, <1>15, <1>16,
     <1>17, <1>18, <1>19 DEF WorkerStep

\* A submit from one of the clients, or a step of the loop.
LEMMA NextShape ==
  ASSUME PlayerInv, CurFollows, [Next]_vars
  PROVE  (Submitted /\ UNCHANGED <<cur, mode>>) \/ Passes \/ Fetches \/ Begins \/ Applies
<1> USE DEF PlayerInv, WorkerInv
<1>1. ASSUME UNCHANGED <<queueVars, cur, mode>> PROVE Passes
  BY <1>1 DEF Passes, QueueRests, queueVars
<1>2. CASE WorkerStep
  BY <1>2, WorkerShape
<1>3. ASSUME NEW b \in Banks, BankWorks(b) \/ BankPanics(b) PROVE Passes
  BY <1>1, <1>3 DEF BankWorks, BankPanics, workerVars
<1>4. CASE HttpSubmit \/ IpcSubmit \/ IpcSubmitAndWait \/ IpcAcceptStandby
  <2>1. Submit /\ UNCHANGED <<cur, mode>>
    BY Zenon, <1>4 DEF HttpSubmit, IpcSubmit, IpcSubmitAndWait, IpcAcceptStandby, AnySubmit,
       workerVars, Submit
  <2> QED BY <2>1, TypeParts, SubmitShape
<1>5. CASE IpcCallFails \/ IpcPollStandby
  BY <1>1, <1>5 DEF IpcCallFails, IpcPollStandby, workerVars
<1>6. CASE DropPlayer
  BY <1>6 DEF DropPlayer, Shutdown, workerVars, Passes, QueueRests
<1>7. CASE Done \/ UNCHANGED vars
  BY <1>1, <1>7 DEF Done, vars, workerVars
<1> QED BY <1>2, <1>3, <1>4, <1>5, <1>6, <1>7 DEF Next, ClientStep

LEMMA NoCommandIs == /\ NoCommand.op = "none" /\ ~Resets(NoCommand) /\ ~Halts(NoCommand)
                     /\ ~Stops(NoCommand) /\ ~IsFadeOut(NoCommand)
BY DEF NoCommand, Cmd, Resets, Halts, Stops, IsFadeOut

(***************************************************************************)
(* The timeline of the mode                                                *)
(***************************************************************************)
QueuesReset == \E n \in 1..Len(pending) : Resets(pending[n])

\* The mode may still have a timeline that was replaced or ended, but then what
\* ends it is on its way, and nothing but a fadeout stands before that.
ResetsComeFirst ==
  \A n \in 1..Len(pending) : Resets(pending[n]) => \A m \in 1..(n - 1) : IsFadeOut(pending[m])

TimelineInv ==
  /\ ResetsComeFirst
  /\ TimelineOf(mode) = None \/ TimelineOf(mode) = liveTimeline \/ Resets(cur) \/ QueuesReset
  /\ cur.op = "BeginLiveTimeline" => cur.tl = liveTimeline \/ QueuesReset
  /\ TimelineEventsReachTheirTimeline

LEMMA SubmitResets ==
  ASSUME DataOK, ResetsComeFirst, Submitted
  PROVE  /\ ResetsComeFirst'
         /\ QueuesReset' \/ (liveTimeline' = liveTimeline /\ ~QueuesReset)
<1> USE DEF DataOK
<1>1. ASSUME NEW c, Restarted(c) PROVE ResetsComeFirst' /\ QueuesReset'
  <2>1. Len(pending') = 1 /\ pending'[1] = c /\ Resets(c)
    BY <1>1 DEF Restarted, Resets, Halts
  <2> QED BY <2>1 DEF ResetsComeFirst, QueuesReset
<1>2. ASSUME NEW c, Appended(c)
      PROVE  ResetsComeFirst' /\ (QueuesReset => QueuesReset') /\ liveTimeline' = liveTimeline
  <2>1. /\ pending' = Append(pending, c) /\ c \in Command /\ ~Resets(c)
        /\ liveTimeline' = liveTimeline
    BY <1>2 DEF Appended, Resets, Halts
  <2>2. /\ Len(pending') = Len(pending) + 1
        /\ pending'[Len(pending) + 1] = c
        /\ \A n \in 1..Len(pending) : pending'[n] = pending[n]
    BY <2>1, AppendElements
  <2>3. \A n \in 1..Len(pending') : Resets(pending'[n]) => n \in 1..Len(pending)
    BY <2>1, <2>2
  <2> QED BY <2>1, <2>2, <2>3 DEF ResetsComeFirst, QueuesReset
<1>3. ASSUME NEW kept, NEW c, Begun(kept, c) PROVE ResetsComeFirst' /\ QueuesReset'
  <2>1. /\ kept \in Seq(Command) /\ pending' = Append(kept, c) /\ c \in Command /\ Resets(c)
        /\ \A k \in 1..Len(kept) : IsFadeOut(kept[k])
    BY <1>3 DEF Begun, Resets
  <2>2. /\ Len(pending') = Len(kept) + 1
        /\ pending'[Len(kept) + 1] = c
        /\ \A n \in 1..Len(kept) : pending'[n] = kept[n]
    BY <2>1, AppendElements
  <2> QED BY <2>1, <2>2 DEF ResetsComeFirst, QueuesReset
<1> QED BY <1>1, <1>2, <1>3 DEF Submitted

LEMMA TakeResets ==
  ASSUME DataOK, ResetsComeFirst, pending # <<>>, pending' = Tail(pending)
  PROVE  /\ ResetsComeFirst'
         /\ QueuesReset => Resets(Head(pending)) \/ QueuesReset'
         /\ QueuesReset' => IsFadeOut(Head(pending))
<1> USE DEF DataOK
<1>1. /\ Len(pending') = Len(pending) - 1 /\ Len(pending) \in Nat \ {0}
      /\ \A n \in 1..(Len(pending) - 1) : pending'[n] = pending[n + 1]
      /\ Head(pending) = pending[1]
  BY TailElements
<1>2. \A n \in 1..Len(pending) : n = 1 \/ (n - 1 \in 1..Len(pending') /\ pending'[n - 1] = pending[n])
  BY <1>1
<1>3. \A n \in 1..Len(pending') : n + 1 \in 1..Len(pending) /\ 1 \in 1..n /\ pending'[n] = pending[n + 1]
  BY <1>1
<1>4. QueuesReset => Resets(Head(pending)) \/ QueuesReset'
  BY <1>1, <1>2 DEF QueuesReset
<1>5. ASSUME NEW n \in 1..Len(pending'), Resets(pending'[n])
      PROVE  IsFadeOut(Head(pending)) /\ \A m \in 1..(n - 1) : IsFadeOut(pending'[m])
  <2>1. \A m \in 1..n : IsFadeOut(pending[m])
    BY <1>3, <1>5 DEF ResetsComeFirst
  <2>2. \A m \in 1..(n - 1) : m + 1 \in 1..n /\ pending'[m] = pending[m + 1]
    BY <1>1
  <2> QED BY <1>1, <1>3, <2>1, <2>2
<1> QED BY <1>4, <1>5 DEF ResetsComeFirst, QueuesReset

\* A step that leaves the queue alone.
LEMMA RestResets ==
  ASSUME QueueRests
  PROVE  (ResetsComeFirst => ResetsComeFirst') /\ (QueuesReset' <=> QueuesReset)
BY DEF QueueRests, ResetsComeFirst, QueuesReset

LEMMA TimelineStep ==
  ASSUME PlayerInv, QueueInv, CurFollows, TimelineInv, [Next]_vars
  PROVE  TimelineInv'
<1> USE DEF PlayerInv, WorkerInv, TimelineInv, TimelineEventsReachTheirTimeline
<1>0. DataOK /\ (Resets(cur)' <=> Resets(cur'))
  BY TypeParts DEF Resets, Halts
<1>1. CASE Submitted /\ UNCHANGED <<cur, mode>>
  <2>1. ResetsComeFirst' /\ (QueuesReset' \/ (liveTimeline' = liveTimeline /\ ~QueuesReset))
    BY <1>0, <1>1, SubmitResets
  <2> QED BY <1>0, <1>1, <2>1 DEF TimelineOf, IsLive
<1>2. CASE Passes
  <2>1. TimelineOf(mode)' \in {TimelineOf(mode), None}
    BY <1>2, NoModeIs DEF Passes, TimelineOf, IsLive
  <2>2. ResetsComeFirst' /\ (QueuesReset' <=> QueuesReset) /\ liveTimeline' = liveTimeline /\ cur' = cur
    BY <1>2, RestResets DEF Passes, QueueRests
  <2>3. TimelineEventsReachTheirTimeline'
    BY <1>2, <2>2, NoModeIs DEF Passes, IsLive
  <2> QED BY <1>0, <2>1, <2>2, <2>3
<1>3. CASE Fetches
  <2>1. /\ ResetsComeFirst'
        /\ QueuesReset => Resets(Head(pending)) \/ QueuesReset'
        /\ QueuesReset' => IsFadeOut(Head(pending))
    BY <1>0, <1>3, TakeResets DEF Fetches
  <2>2. /\ cur' = Head(pending) /\ mode' = mode /\ liveTimeline' = liveTimeline
        /\ ~Resets(cur)
    BY <1>3, NoCommandIs DEF Fetches
  <2>3. Head(pending).op \in {"BeginLiveTimeline", "TimelineMidi"} => Head(pending).tl = liveTimeline
    BY <1>0, <1>3 DEF Fetches, QueueInv, TimelineCommandsAreCurrent, DataOK
  <2>4. TimelineOf(mode) = None \/ TimelineOf(mode) = liveTimeline \/ Resets(cur') \/ QueuesReset'
    BY <2>1, <2>2
  <2>5. TimelineOf(mode)' = TimelineOf(mode)
    BY <2>2 DEF TimelineOf, IsLive
  <2>6. ASSUME cur'.op = "TimelineMidi", IsLive(mode)' PROVE mode'.timeline \in {cur'.tl, None}
    <3>1. ~Resets(cur') /\ ~QueuesReset'
      BY <2>1, <2>2, <2>6 DEF Resets, Halts, IsFadeOut
    <3> QED BY <2>2, <2>3, <2>4, <2>6, <3>1 DEF TimelineOf, IsLive
  <2> QED BY <1>0, <2>1, <2>2, <2>3, <2>4, <2>5, <2>6
<1>4. CASE Begins
  <2>1. TimelineOf(mode)' \in {TimelineOf(mode), None}
    BY <1>4 DEF Begins, TimelineOf, IsLive
  <2>2. ResetsComeFirst' /\ (QueuesReset' <=> QueuesReset) /\ liveTimeline' = liveTimeline /\ cur' = cur
    BY <1>4, RestResets DEF Begins, QueueRests
  <2> QED BY <1>0, <1>4, <2>1, <2>2 DEF Begins, SyncOps
<1>5. CASE Applies
  <2>1. ResetsComeFirst' /\ (QueuesReset' <=> QueuesReset) /\ liveTimeline' = liveTimeline /\ cur' = NoCommand
    BY <1>5, RestResets DEF Applies, QueueRests
  <2>2. TimelineOf(mode)' = TimelineOf(mode')
    BY DEF TimelineOf, IsLive
  <2>3. TimelineOf(mode') = None \/ TimelineOf(mode') = liveTimeline \/ QueuesReset
    BY <1>5 DEF Applies
  <2> QED BY <1>0, <2>1, <2>2, <2>3, NoCommandIs
<1> QED BY <1>1, <1>2, <1>3, <1>4, <1>5, NextShape

(***************************************************************************)
(* The generation of the mode                                              *)
(***************************************************************************)
Before(n) == 1..(n - 1)

Silent(c) == c.op = "none" \/ IsFadeOut(c)

\* When the command in hand is applied, no live goes on.
NotLiveNow == Halts(cur) \/ (cur.op \in {"StopInstance", "none"} /\ ~IsLive(mode))

\* When it is applied, the generation of the mode, if there is one, is g.
GenNow(g) == IF Silent(cur) THEN mode = NoMode \/ mode.gen = g ELSE cur.gen = g

\* The same when the queued commands before position n are applied, too.
NotLiveBefore(n) ==
  \/ \E j \in Before(n) : Halts(pending[j]) /\ \A k \in Before(n) : k > j => Stops(pending[k])
  \/ (\A k \in Before(n) : Stops(pending[k])) /\ NotLiveNow

GenBefore(n, g) ==
  \/ \E j \in Before(n) : /\ ~IsFadeOut(pending[j]) /\ pending[j].gen = g
                          /\ \A k \in Before(n) : k > j => IsFadeOut(pending[k])
  \/ (\A k \in Before(n) : IsFadeOut(pending[k])) /\ GenNow(g)

\* A command that need not set the generation will find it set.
Follows(c, n) ==
  /\ c.op \in {"SetLiveTempo", "TimelineMidi"} => GenBefore(n, c.gen)
  /\ c.op = "PrepareStandbyLivePatch" => GenBefore(n, c.gen) \/ NotLiveBefore(n)

GenInv ==
  /\ ~liveRequested => NotLiveBefore(Len(pending) + 1)
  /\ GenBefore(Len(pending) + 1, generation)
  /\ \A n \in 1..Len(pending) : Follows(pending[n], n)
  /\ CurFollows

\* The same commands before n, and what comes before them ends the same way.
LEMMA SameBefore ==
  ASSUME NEW n \in Nat, NEW g, \A k \in Before(n) : pending'[k] = pending[k],
         UNCHANGED <<cur, mode>>
  PROVE  (GenBefore(n, g) => GenBefore(n, g)') /\ (NotLiveBefore(n) => NotLiveBefore(n)')
<1>1. GenBefore(n, g) => GenBefore(n, g)'
  BY DEF GenBefore, GenNow, Silent, IsFadeOut
<1>2. NotLiveBefore(n) => NotLiveBefore(n)'
  BY DEF NotLiveBefore, NotLiveNow, Halts, Stops, IsLive
<1> QED BY <1>1, <1>2

LEMMA RestartedGen ==
  ASSUME DataOK, GenInv, UNCHANGED <<cur, mode>>, NEW c, Restarted(c)
  PROVE  GenInv'
<1>1. /\ pending' = Append(<<>>, c) /\ c.gen = generation'
      /\ c.op \in {"Play", "StopAll", "Midi"} /\ (c.op = "Midi" => liveRequested')
  BY DEF Restarted
<1>2. Len(pending') = 1 /\ pending'[1] = c
  BY <1>1
<1>3. GenBefore(2, generation)'
  BY <1>1, <1>2 DEF GenBefore, Before, IsFadeOut
<1>4. ~liveRequested' => NotLiveBefore(2)'
  BY <1>1, <1>2 DEF NotLiveBefore, Before, Halts
<1>5. \A n \in 1..Len(pending') : Follows(pending[n], n)'
  BY <1>1, <1>2 DEF Follows
<1>6. CurFollows'
  BY DEF GenInv, CurFollows, IsLive
<1> QED BY <1>2, <1>3, <1>4, <1>5, <1>6 DEF GenInv

LEMMA AppendedGen ==
  ASSUME DataOK, TimelineNeedsLive, GenInv, UNCHANGED <<cur, mode>>, NEW c, Appended(c)
  PROVE  GenInv'
<1>1. PICK L \in Nat : L = Len(pending)
  BY DEF DataOK
<1>2. /\ Len(pending') = L + 1
      /\ pending'[L + 1] = c
      /\ \A k \in 1..L : pending'[k] = pending[k]
  BY <1>1, AppendElements DEF DataOK, Appended
<1>3. ASSUME NEW n \in 1..(L + 1), NEW g
      PROVE  (GenBefore(n, g) => GenBefore(n, g)') /\ (NotLiveBefore(n) => NotLiveBefore(n)')
  <2>1. n \in Nat /\ \A k \in Before(n) : pending'[k] = pending[k]
    BY <1>1, <1>2 DEF Before
  <2> QED BY <2>1, SameBefore
<1>4. PICK g \in Nat : g = generation
  BY DEF DataOK
<1>5. /\ GenBefore(L + 1, g)
      /\ ~liveRequested => NotLiveBefore(L + 1)
  BY <1>1, <1>4 DEF GenInv
<1>6. Follows(c, L + 1)'
  <2>1. c.op \in {"SetLiveTempo", "TimelineMidi"} => c.gen = g
    BY <1>4 DEF Appended, IsFadeOut
  <2>2. c.op = "PrepareStandbyLivePatch" => c.gen = g \/ NotLiveBefore(L + 1)
    BY <1>4, <1>5 DEF Appended, IsFadeOut
  <2> QED BY <1>1, <1>3, <1>5, <2>1, <2>2 DEF Follows
<1>7. ASSUME NEW n \in 1..(L + 1) PROVE Follows(pending[n], n)'
  <2>1. CASE n = L + 1
    BY <1>2, <1>6, <2>1 DEF Follows
  <2>2. CASE n \in 1..L
    <3>1. Follows(pending[n], n) /\ pending'[n] = pending[n]
      BY <1>1, <1>2, <2>2 DEF GenInv
    <3> QED BY <1>3, <3>1 DEF Follows
  <2> QED BY <1>1, <2>1, <2>2
<1>8. GenBefore(L + 2, generation)'
  <2>1. CASE IsFadeOut(c)
    <3>1. generation' = g
      BY <1>4, <2>1 DEF Appended, IsFadeOut
    <3>2. GenBefore(L + 1, g)'
      BY <1>1, <1>3, <1>5
    <3>3. \A k \in Before(L + 2) : k \in Before(L + 1) \/ k = L + 1
      BY <1>1 DEF Before
    <3>4. Before(L + 1) \subseteq Before(L + 2)
      BY <1>1 DEF Before
    <3>5. IsFadeOut(pending'[L + 1])
      BY <1>2, <2>1
    <3> QED BY <3>1, <3>2, <3>3, <3>4, <3>5 DEF GenBefore
  <2>2. CASE ~IsFadeOut(c)
    <3>1. c.gen = generation' /\ L + 1 \in Before(L + 2) /\ \A k \in Before(L + 2) : ~(k > L + 1)
      BY <1>1, <2>2 DEF Appended, Before
    <3> QED BY <1>2, <2>2, <3>1 DEF GenBefore, IsFadeOut
  <2> QED BY <2>1, <2>2
<1>9. ASSUME ~liveRequested' PROVE NotLiveBefore(L + 2)'
  <2>1. ~liveRequested /\ Stops(c)
    BY <1>9, NoneAssumption DEF Appended, TimelineNeedsLive, Stops, Command, Ops
  <2>2. NotLiveBefore(L + 1)'
    BY <1>1, <1>3, <1>5, <2>1
  <2>3. \A k \in Before(L + 2) : k \in Before(L + 1) \/ k = L + 1
    BY <1>1 DEF Before
  <2>4. Before(L + 1) \subseteq Before(L + 2)
    BY <1>1 DEF Before
  <2>5. Stops(pending'[L + 1])
    BY <1>2, <2>1
  <2> QED BY <2>2, <2>3, <2>4, <2>5 DEF NotLiveBefore, Stops
<1>10. CurFollows'
  BY DEF GenInv, CurFollows, IsLive
<1>11. Len(pending') + 1 = L + 2
  BY <1>1, <1>2
<1> QED BY <1>2, <1>7, <1>8, <1>9, <1>10, <1>11 DEF GenInv

LEMMA BegunGen ==
  ASSUME DataOK, GenInv, UNCHANGED <<cur, mode>>, NEW kept, NEW c, Begun(kept, c)
  PROVE  GenInv'
<1>1. PICK L \in Nat : L = Len(kept)
  BY DEF Begun
<1>2. /\ Len(pending') = L + 1
      /\ pending'[L + 1] = c /\ c.op = "BeginLiveTimeline" /\ c.gen = generation'
      /\ \A k \in 1..L : pending'[k] = kept[k] /\ IsFadeOut(kept[k])
      /\ liveRequested'
  BY <1>1, AppendElements DEF Begun
<1>3. GenBefore(L + 2, generation)'
  <2>1. L + 1 \in Before(L + 2) /\ \A k \in Before(L + 2) : ~(k > L + 1)
    BY <1>1 DEF Before
  <2> QED BY <1>2, <2>1 DEF GenBefore, IsFadeOut
<1>4. \A n \in 1..(L + 1) : n = L + 1 \/ n \in 1..L
  BY <1>1
<1>5. \A n \in 1..(L + 1) : Follows(pending[n], n)'
  BY <1>2, <1>4 DEF Follows, IsFadeOut
<1>6. CurFollows'
  BY DEF GenInv, CurFollows, IsLive
<1>7. Len(pending') + 1 = L + 2
  BY <1>1, <1>2
<1> QED BY <1>2, <1>3, <1>5, <1>6, <1>7 DEF GenInv

\* The queue stays as it is.
LEMMA RestGen ==
  ASSUME GenInv, QueueRests, \A g : GenNow(g) => GenNow(g)', NotLiveNow => NotLiveNow', CurFollows'
  PROVE  GenInv'
<1>1. pending' = pending /\ generation' = generation /\ liveRequested' = liveRequested
  BY DEF QueueRests
<1>2. ASSUME NEW n, NEW g, GenBefore(n, g) PROVE GenBefore(n, g)'
  BY <1>1, <1>2 DEF GenBefore
<1>3. ASSUME NEW n, NotLiveBefore(n) PROVE NotLiveBefore(n)'
  BY <1>1, <1>3 DEF NotLiveBefore
<1>4. GenBefore(Len(pending) + 1, generation)'
  BY <1>1, <1>2 DEF GenInv
<1>5. ~liveRequested' => NotLiveBefore(Len(pending) + 1)'
  BY <1>1, <1>3 DEF GenInv
<1>6. \A n \in 1..Len(pending') : Follows(pending[n], n)'
  BY <1>1, <1>2, <1>3 DEF GenInv, Follows
<1> QED BY <1>4, <1>5, <1>6 DEF GenInv

LEMMA PassesGen ==
  ASSUME GenInv, Passes, WorkerType, WorkerType'
  PROVE  GenInv'
<1>1. mode = NoMode => mode' = NoMode
  BY NoModeType DEF Passes, WorkerType, ModeOK, NoMode
<1>2. \A g : GenNow(g) => GenNow(g)'
  BY <1>1 DEF Passes, GenNow, Silent, IsFadeOut
<1>3. IsLive(mode) \/ ~IsLive(mode')
  BY NoModeIs DEF Passes, IsLive
<1>4. NotLiveNow => NotLiveNow'
  BY <1>3 DEF Passes, NotLiveNow, Halts, IsLive
<1>5. CurFollows'
  BY <1>1, <1>3 DEF Passes, GenInv, CurFollows, IsLive
<1> QED BY <1>2, <1>4, <1>5, RestGen DEF Passes

LEMMA BeginsGen ==
  ASSUME GenInv, Begins
  PROVE  GenInv'
<1>1. \A g : GenNow(g) => GenNow(g)'
  BY DEF Begins, SyncOps, GenNow, Silent, IsFadeOut
<1>2. NotLiveNow => NotLiveNow'
  BY DEF Begins, SyncOps, NotLiveNow, Halts
<1>3. CurFollows'
  BY DEF Begins, SyncOps, CurFollows
<1> QED BY <1>1, <1>2, <1>3, RestGen DEF Begins

LEMMA AppliesGen ==
  ASSUME GenInv, Applies
  PROVE  GenInv'
<1>1. cur' = NoCommand /\ cur'.op = "none"
  BY NoCommandIs DEF Applies
<1>2. \A g : GenNow(g) => GenNow(g)'
  BY <1>1 DEF Applies, GenNow, Silent, IsFadeOut
<1>3. NotLiveNow => NotLiveNow'
  BY <1>1 DEF Applies, NotLiveNow, Halts, Stops, IsLive
<1>4. CurFollows'
  BY <1>1 DEF CurFollows
<1> QED BY <1>2, <1>3, <1>4, RestGen DEF Applies

LEMMA FetchesGen ==
  ASSUME DataOK, GenInv, Fetches
  PROVE  GenInv'
<1>1. PICK L \in Nat : Len(pending) = L + 1
  <2>1. Len(pending) \in Nat \ {0}
    BY TailElements DEF DataOK, Fetches
  <2>2. Len(pending) - 1 \in Nat /\ Len(pending) = (Len(pending) - 1) + 1
    BY <2>1
  <2> QED BY <2>2
<1>2. /\ Len(pending') = L
      /\ \A n \in 1..L : pending'[n] = pending[n + 1]
      /\ cur' = pending[1] /\ pending[1] \in Command /\ mode' = mode /\ cur = NoCommand
      /\ generation' = generation /\ liveRequested' = liveRequested
  BY <1>1, TailElements DEF DataOK, Fetches
<1>3. ASSUME NEW n \in 1..(L + 1) PROVE 1 \in Before(n + 1)
  BY DEF Before
<1>4. ASSUME NEW n \in 1..(L + 1), NEW j \in Before(n + 1), j # 1
      PROVE  /\ j - 1 \in Before(n) /\ pending'[j - 1] = pending[j]
             /\ \A k \in Before(n) : k > j - 1 => k + 1 > j
  BY <1>1, <1>2, <1>4 DEF Before
<1>5. ASSUME NEW n \in 1..(L + 1), NEW k \in Before(n)
      PROVE  k + 1 \in Before(n + 1) /\ pending'[k] = pending[k + 1] /\ k + 1 > 1
  BY <1>1, <1>2, <1>5 DEF Before
<1>6. cur'.op # "none"
  BY <1>2 DEF Command, Ops, LiveOps
<1>7. ASSUME NEW n \in 1..(L + 1), NEW g, GenBefore(n + 1, g) PROVE GenBefore(n, g)'
  <2>1. CASE \E j \in Before(n + 1) : /\ j # 1 /\ ~IsFadeOut(pending[j]) /\ pending[j].gen = g
                                      /\ \A k \in Before(n + 1) : k > j => IsFadeOut(pending[k])
    <3>1. PICK j \in Before(n + 1) : /\ j # 1 /\ ~IsFadeOut(pending[j]) /\ pending[j].gen = g
                                     /\ \A k \in Before(n + 1) : k > j => IsFadeOut(pending[k])
      BY <2>1
    <3>2. \A k \in Before(n) : k > j - 1 => IsFadeOut(pending'[k])
      BY <1>4, <1>5, <3>1
    <3> QED BY <1>4, <3>1, <3>2 DEF GenBefore, IsFadeOut
  <2>2. CASE /\ ~IsFadeOut(pending[1]) /\ pending[1].gen = g
             /\ \A k \in Before(n + 1) : k > 1 => IsFadeOut(pending[k])
    <3>1. \A k \in Before(n) : IsFadeOut(pending'[k])
      BY <1>5, <2>2
    <3>2. GenNow(g)'
      BY <1>2, <1>6, <2>2 DEF GenNow, Silent, IsFadeOut
    <3> QED BY <3>1, <3>2 DEF GenBefore, IsFadeOut
  <2>3. CASE (\A k \in Before(n + 1) : IsFadeOut(pending[k])) /\ GenNow(g)
    <3>1. \A k \in Before(n) : IsFadeOut(pending'[k])
      BY <1>5, <2>3
    <3>2. IsFadeOut(cur')
      BY <1>2, <1>3, <2>3
    <3>3. GenNow(g)'
      BY <1>2, <2>3, <3>2, NoCommandIs DEF GenNow, Silent, IsFadeOut
    <3> QED BY <3>1, <3>3 DEF GenBefore, IsFadeOut
  <2> QED BY <1>7, <2>1, <2>2, <2>3 DEF GenBefore
<1>8. ASSUME NEW n \in 1..(L + 1), NotLiveBefore(n + 1) PROVE NotLiveBefore(n)'
  <2>1. CASE \E j \in Before(n + 1) : /\ j # 1 /\ Halts(pending[j])
                                      /\ \A k \in Before(n + 1) : k > j => Stops(pending[k])
    <3>1. PICK j \in Before(n + 1) : /\ j # 1 /\ Halts(pending[j])
                                     /\ \A k \in Before(n + 1) : k > j => Stops(pending[k])
      BY <2>1
    <3>2. \A k \in Before(n) : k > j - 1 => Stops(pending'[k])
      BY <1>4, <1>5, <3>1
    <3> QED BY <1>4, <3>1, <3>2 DEF NotLiveBefore, Halts, Stops
  <2>2. CASE Halts(pending[1]) /\ \A k \in Before(n + 1) : k > 1 => Stops(pending[k])
    <3>1. \A k \in Before(n) : Stops(pending'[k])
      BY <1>5, <2>2
    <3> QED BY <1>2, <2>2, <3>1 DEF NotLiveBefore, NotLiveNow, Halts, Stops
  <2>3. CASE (\A k \in Before(n + 1) : Stops(pending[k])) /\ NotLiveNow
    <3>1. \A k \in Before(n) : Stops(pending'[k])
      BY <1>5, <2>3
    <3>2. Stops(cur') /\ ~IsLive(mode)
      BY <1>2, <1>3, <2>3, NoCommandIs DEF NotLiveNow
    <3> QED BY <1>2, <3>1, <3>2 DEF NotLiveBefore, NotLiveNow, Stops, IsLive
  <2> QED BY <1>8, <2>1, <2>2, <2>3 DEF NotLiveBefore
<1>9. ASSUME NEW n \in 1..L PROVE Follows(pending[n], n)'
  <2>1. n \in 1..(L + 1) /\ n + 1 \in 1..Len(pending) /\ pending'[n] = pending[n + 1]
    BY <1>1, <1>2
  <2>2. Follows(pending[n + 1], n + 1)
    BY <2>1 DEF GenInv
  <2> QED BY <1>7, <1>8, <2>1, <2>2 DEF Follows
<1>10. GenBefore(L + 1, generation)' /\ (~liveRequested' => NotLiveBefore(L + 1)')
  <2>1. L + 1 \in 1..(L + 1) /\ Len(pending) + 1 = (L + 1) + 1
    BY <1>1
  <2>2. GenBefore((L + 1) + 1, generation) /\ (~liveRequested => NotLiveBefore((L + 1) + 1))
    BY <2>1 DEF GenInv
  <2> QED BY <1>2, <1>7, <1>8, <2>1, <2>2
<1>11. CurFollows'
  <2>1. Before(1) = {} /\ Follows(pending[1], 1)
    BY <1>1 DEF Before, GenInv
  <2>2. \A g : GenBefore(1, g) => mode = NoMode \/ mode.gen = g
    BY <1>2, <2>1, NoCommandIs DEF GenBefore, GenNow, Silent
  <2>3. NotLiveBefore(1) => ~IsLive(mode)
    BY <1>2, <2>1, NoCommandIs DEF NotLiveBefore, NotLiveNow
  <2> QED BY <1>2, <2>1, <2>2, <2>3 DEF CurFollows, Follows, IsLive
<1> QED BY <1>2, <1>9, <1>10, <1>11 DEF GenInv

LEMMA GenStep ==
  ASSUME PlayerInv, TimelineNeedsLive, GenInv, [Next]_vars
  PROVE  GenInv'
<1>1. DataOK /\ CurFollows /\ WorkerType
  BY TypeParts DEF PlayerInv, WorkerInv, GenInv
<1>2. WorkerType'
  BY PlayerNext DEF PlayerInv, WorkerInv
<1>3. CASE Submitted /\ UNCHANGED <<cur, mode>>
  BY <1>1, <1>3, RestartedGen, AppendedGen, BegunGen DEF Submitted
<1>4. CASE Passes \/ Fetches \/ Begins \/ Applies
  BY <1>1, <1>2, <1>4, PassesGen, FetchesGen, BeginsGen, AppliesGen
<1> QED BY <1>1, <1>3, <1>4, NextShape

(***************************************************************************)
(* The inductive invariant of the queue and the loop                       *)
(***************************************************************************)
CommandsInv == PlayerInv /\ QueueInv /\ TimelineInv /\ GenInv

LEMMA CommandsInit == Init => CommandsInv
<1> SUFFICES ASSUME Init PROVE CommandsInv
  OBVIOUS
<1> USE DEF Init
<1>1. PlayerInv
  BY PlayerInit
<1>2. QueueInv
  BY InitQueue
<1>3. pending = <<>> /\ generation = 0 /\ cur = NoCommand /\ mode = NoMode
  BY DEF QueueInit
<1>4. TimelineInv
  BY <1>3, NoCommandIs, NoModeIs DEF TimelineInv, ResetsComeFirst, TimelineEventsReachTheirTimeline
<1>5. Before(1) = {} /\ Len(pending) + 1 = 1
  BY <1>3 DEF Before
<1>6. GenInv
  <2>1. GenBefore(1, generation)
    BY <1>3, <1>5, NoCommandIs DEF GenBefore, GenNow, Silent
  <2>2. NotLiveBefore(1)
    BY <1>3, <1>5, NoCommandIs, NoModeIs DEF NotLiveBefore, NotLiveNow
  <2>3. CurFollows
    BY <1>3 DEF CurFollows
  <2> QED BY <1>3, <1>5, <2>1, <2>2, <2>3 DEF GenInv
<1> QED BY <1>1, <1>2, <1>4, <1>6 DEF CommandsInv

LEMMA CommandsNext == CommandsInv /\ [Next]_vars => CommandsInv'
<1> SUFFICES ASSUME CommandsInv, [Next]_vars PROVE CommandsInv'
  OBVIOUS
<1> USE DEF CommandsInv
<1>1. PlayerInv'
  BY PlayerNext
<1>2. QueueInv'
  BY NextUsesQueue, NextQueue DEF PlayerInv
<1>3. TimelineNeedsLive /\ CurFollows
  BY DEF QueueInv, GenInv
<1>4. TimelineInv' /\ GenInv'
  BY <1>3, TimelineStep, GenStep
<1> QED BY <1>1, <1>2, <1>4

\* A timeline event is handed to the scheduler of its own timeline, or to none.
THEOREM TimelineEventsReachTheirTimelineCorrect == Spec => []TimelineEventsReachTheirTimeline
<1>1. CommandsInv => TimelineEventsReachTheirTimeline
  BY DEF CommandsInv, TimelineInv
<1> QED BY <1>1, CommandsInit, CommandsNext, PTL DEF Spec

\* Whoever submitted what, a worker that has caught up with its queue renders
\* frames of the generation the audio thread plays.
THEOREM WorkerCatchesUpCorrect == Spec => []WorkerCatchesUp
<1>1. ASSUME CommandsInv PROVE WorkerCatchesUp
  <2>1. SUFFICES ASSUME pc \in {"top", "fetch"}, mode # NoMode,
                        \A n \in 1..Len(pending) : IsFadeOut(pending[n])
                 PROVE  mode.gen = generation
    BY DEF WorkerCatchesUp
  <2>2. cur = NoCommand
    BY <1>1, <2>1 DEF CommandsInv, PlayerInv, WorkerInv, WorkerType
  <2>3. Len(pending) \in Nat
    BY <1>1 DEF CommandsInv, PlayerInv, QueueTypeOK
  <2>4. Before(Len(pending) + 1) = 1..Len(pending)
    BY <2>3 DEF Before
  <2>5. GenBefore(Len(pending) + 1, generation)
    BY <1>1 DEF CommandsInv, GenInv
  <2> QED BY <2>1, <2>2, <2>4, <2>5, NoCommandIs DEF GenBefore, GenNow, Silent
<1> QED BY <1>1, CommandsInit, CommandsNext, PTL DEF Spec

(***************************************************************************)
(* The notes of an earlier performance                                     *)
(***************************************************************************)
IsRelease(c) == c.op \in {"ResetAll", "ReleaseAll", "ReleaseAllInNextBlock"}

\* The queue releases every note before it renders a block.
Clears(q) ==
  \E n \in 1..Len(q) : IsRelease(q[n]) /\ \A m \in 1..(n - 1) : q[m].who # "render"

HeldType == held \in [Instances -> {"no", "cur", "old"}]

\* A bank is asked about its own instances, and a block it owes is waited for.
RendersCollected ==
  \A b \in Banks : busy[b] =>
    /\ asked[b].insts \subseteq Owned(b)
    /\ asked[b].who = "render" => pc = "collect" /\ b \in rendering.banks

NotesRelease ==
  \A b \in Banks : b \notin dead =>
    \A i \in Owned(b) : held[i] = "old" => i \in releaseNext \/ Clears(commands[b])

NotesInv == HeldType /\ RendersCollected /\ NotesRelease

\* The request in the channel of a bank is the one it was asked.
LEMMA QueuedIsAsked ==
  ASSUME ChannelType, NEW b \in Banks, ChannelInv(b), NEW n \in 1..Len(commands[b]),
         IsRequest(commands[b][n])
  PROVE  b \notin dead /\ busy[b] /\ commands[b][n] = asked[b]
BY DEF ChannelInv, NoneWaits, Waits

LEMMA ClearsAppended ==
  ASSUME NEW q \in Seq(BankCommand), NEW c
  PROVE  /\ Clears(q) => Clears(Append(q, c))
         /\ IsRelease(c) /\ (\A n \in 1..Len(q) : q[n].who # "render") => Clears(Append(q, c))
<1>1. /\ Len(Append(q, c)) = Len(q) + 1 /\ Append(q, c)[Len(q) + 1] = c
      /\ \A n \in 1..Len(q) : Append(q, c)[n] = q[n]
  OBVIOUS
<1>2. ASSUME Clears(q) PROVE Clears(Append(q, c))
  <2>1. PICK n \in 1..Len(q) : IsRelease(q[n]) /\ \A m \in 1..(n - 1) : q[m].who # "render"
    BY <1>2 DEF Clears
  <2>2. n \in 1..(Len(q) + 1) /\ \A m \in 1..(n - 1) : m \in 1..Len(q)
    OBVIOUS
  <2> QED BY <1>1, <2>1, <2>2 DEF Clears, IsRelease
<1>3. ASSUME IsRelease(c), \A n \in 1..Len(q) : q[n].who # "render" PROVE Clears(Append(q, c))
  <2>1. Len(q) + 1 \in 1..(Len(q) + 1) /\ \A m \in 1..(Len(q) + 1 - 1) : m \in 1..Len(q)
    OBVIOUS
  <2> QED BY <1>1, <1>3, <2>1 DEF Clears, IsRelease
<1> QED BY <1>2, <1>3

\* A bank takes a command that neither releases nor renders ahead of a release.
LEMMA ClearsTaken ==
  ASSUME NEW q \in Seq(BankCommand), q # <<>>, Clears(q), ~IsRelease(Head(q))
  PROVE  Clears(Tail(q)) /\ Head(q).who # "render"
<1>1. PICK n \in 1..Len(q) : IsRelease(q[n]) /\ \A m \in 1..(n - 1) : q[m].who # "render"
  BY DEF Clears
<1>2. n # 1 /\ n - 1 \in 1..Len(Tail(q)) /\ Head(q) = q[1] /\ 1 \in 1..(n - 1)
  BY <1>1
<1>3. /\ Tail(q)[n - 1] = q[n]
      /\ \A m \in 1..(n - 2) : Tail(q)[m] = q[m + 1] /\ m + 1 \in 1..(n - 1)
  BY <1>2
<1>4. \A m \in 1..((n - 1) - 1) : m \in 1..(n - 2)
  BY <1>2
<1> QED BY <1>1, <1>2, <1>3, <1>4 DEF Clears, IsRelease

(***************************************************************************)
(* What the loop does to the notes                                         *)
(***************************************************************************)
\* The queue of a bank grows; a release comes first of what is new.
Grows(b) == Clears(commands[b]) => Clears(commands'[b])
Releases(b) ==
  b \notin dead /\ (\A n \in 1..Len(commands[b]) : commands[b][n].who # "render") => Clears(commands'[b])

LEMMA CoordinatorGrows ==
  ASSUME ChannelType, NEW b \in Banks, Coordinator(b)
  PROVE  Grows(b)
<1>1. commands[b] \in Seq(BankCommand)
  BY DEF ChannelType
<1>2. \A q : Noted(b, q) => q \in Seq(BankCommand) /\ (Clears(commands[b]) => Clears(q))
  BY <1>1, ClearsAppended, AppendNotice DEF Noted
<1> QED BY <1>2, ClearsAppended DEF Coordinator, Grows

LEMMA NotifyReleases ==
  ASSUME ChannelType, NEW op \in {"ResetAll", "ReleaseAll", "ReleaseAllInNextBlock"}, NEW b \in Banks,
         b \notin dead, \A n \in 1..Len(commands[b]) : commands[b][n].who # "render"
  PROVE  /\ Clears(Notified(Banks, Notice(op, {}))[b])
         /\ Notified(Banks, Notice(op, {}))[b] \in Seq(BankCommand)
<1>1. commands[b] \in Seq(BankCommand) /\ op \in NoticeOps
  BY DEF ChannelType, NoticeOps
<1>2. Notified(Banks, Notice(op, {}))[b] = Append(commands[b], Notice(op, {}))
  BY DEF Notified
<1>3. IsRelease(Notice(op, {})) /\ Notice(op, {}) \in Notices
  BY <1>1, NoticeTyped DEF IsRelease, Notice, Request
<1> QED BY <1>1, <1>2, <1>3, ClearsAppended, AppendNotice

\* Notes become old only together with the order to release them.
HeldStays == held' = held
HeldAges == NewLine /\ pc # "collect" /\ \A b \in Banks : Releases(b)

LEMMA WorkerHeld ==
  ASSUME ChannelType, WorkerType, WorkerStep
  PROVE  /\ releaseNext' = releaseNext /\ dead' = dead
         /\ HeldStays \/ HeldAges
<1>1. CASE \/ PollStandby \/ Settle \/ Fetch \/ NoFetch \/ ApplySetLiveTempo \/ ApplyTimelineMidi
           \/ PushChunk \/ JoinBanks \/ FinishPlay \/ FinishPatch \/ CollectRender
  BY Zenon, <1>1 DEF PollStandby, Settle, TakeStandbyReply, Fetch, NoFetch, ApplySetLiveTempo,
     ApplyTimelineMidi, PushChunk, JoinBanks, FinishPlay, FinishPatch, CollectRender,
     ReceiveIfSent, ReceiveFrom, bankVars, HeldStays
<1>2. CASE \/ ApplyStopInstance \/ ApplyFadeOutInstances \/ ApplyPrepareStandby \/ BeginPatch
           \/ SendRender \/ ShutdownBanks
  BY Zenon, <1>2 DEF ApplyStopInstance, ApplyFadeOutInstances, ApplyPrepareStandby, BeginPatch,
     SendRender, ShutdownBanks, Notify, SendTo, HeldStays
<1>3. ASSUME pc = "apply", NewLine,
             NEW op \in {"ReleaseAll", "ReleaseAllInNextBlock"}, Notify(Banks, Notice(op, {}))
      PROVE  HeldAges /\ releaseNext' = releaseNext /\ dead' = dead
  <2>1. \A b \in Banks : Releases(b)
    BY <1>3, NotifyReleases DEF Notify, Releases
  <2> QED BY <1>3, <2>1 DEF HeldAges, Notify
<1>4. CASE ApplyStopAll
  BY <1>3, <1>4 DEF ApplyStopAll, Applying
<1>5. CASE ApplyMidi
  <2>1. CASE UNCHANGED bankVars
    BY <2>1 DEF bankVars, HeldStays
  <2>2. CASE Notify(Banks, Notice("ReleaseAll", {})) /\ NewLine
    BY <1>3, <1>5, <2>2 DEF ApplyMidi, Applying
  <2> QED BY <1>5, <2>1, <2>2 DEF ApplyMidi
<1>6. CASE ApplyBeginLiveTimeline
  <2>1. pc = "apply" /\ NewLine
    BY <1>6 DEF ApplyBeginLiveTimeline, Applying
  <2>2. \E op \in {"ReleaseAll", "ReleaseAllInNextBlock"} : Notify(Banks, Notice(op, {}))
    BY <1>6 DEF ApplyBeginLiveTimeline, ContinuedRelease
  <2> QED BY <1>3, <2>1, <2>2
<1>7. CASE BeginPlay
  <2> DEFINE requests == [b \in {FirstBank} |-> PreparePatch("sync", First)]
  <2>1. SendTo(Notified(Banks, Notice("ResetAll", {})), requests) /\ NewLine /\ pc = "apply"
    BY <1>7 DEF BeginPlay, Applying
  <2>2. ASSUME NEW b \in Banks, b \notin dead,
               \A n \in 1..Len(commands[b]) : commands[b][n].who # "render"
        PROVE  Clears(commands'[b])
    <3> DEFINE q == Notified(Banks, Notice("ResetAll", {}))[b]
    <3>1. Clears(q) /\ q \in Seq(BankCommand)
      BY <2>2, NotifyReleases
    <3>2. commands'[b] = q \/ commands'[b] = Append(q, requests[b])
      BY <2>1 DEF SendTo
    <3> HIDE DEF q, requests
    <3> QED BY <3>1, <3>2, ClearsAppended
  <2>3. releaseNext' = releaseNext /\ dead' = dead
    BY <2>1 DEF SendTo
  <2> QED BY <2>1, <2>2, <2>3 DEF HeldAges, Releases
<1> QED BY <1>1, <1>2, <1>4, <1>5, <1>6, <1>7 DEF WorkerStep

\* When no block is owed, what is owed next is none either, or of the bank's own.
Plain(b) ==
  busy'[b] => \/ busy[b] /\ asked'[b] = asked[b]
              \/ asked'[b].who # "render" /\ asked'[b].insts \subseteq Owned(b)

LEMMA PlainCollected ==
  ASSUME RendersCollected, pc # "collect", \A b \in Banks : Plain(b)
  PROVE  RendersCollected'
BY DEF RendersCollected, Plain, Owned

LEMMA RendersStep ==
  ASSUME ChannelType, WorkerType, RendersCollected, WorkerStep
  PROVE  RendersCollected'
<1>0. /\ \A i \in Instances : BankOf[i] \in Banks /\ i \in Owned(BankOf[i])
      /\ First \in Instances
      /\ pc = "apply" /\ cur.op \in Addressed => cur.inst \in Instances
  BY BankAssumption DEF WorkerType, NamesInstance, Owned
<1>1. ASSUME UNCHANGED <<busy, asked>>, pc # "collect" PROVE RendersCollected'
  BY <1>1, PlainCollected DEF Plain
<1>2. ASSUME NEW bs, ReceiveFrom(bs), pc # "collect" PROVE RendersCollected'
  BY <1>2, PlainCollected DEF Plain, ReceiveFrom
<1>3. ASSUME NEW queues, NEW i \in Instances, NEW c, SendTo(queues, [b \in {BankOf[i]} |-> c]),
             c.who # "render", c.insts = {i}, pc # "collect"
      PROVE  RendersCollected'
  <2> DEFINE requests == [b \in {BankOf[i]} |-> c]
  <2>1. DOMAIN requests = {BankOf[i]} /\ requests[BankOf[i]] = c
    OBVIOUS
  <2> HIDE DEF requests
  <2>2. \A b \in Banks : Plain(b)
    <3>1. SendTo(queues, requests)
      BY <1>3 DEF requests
    <3> QED BY <1>0, <1>3, <2>1, <3>1 DEF SendTo, Plain
  <2> QED BY <1>3, <2>2, PlainCollected
<1>4. CASE \/ Fetch \/ NoFetch \/ ApplyStopAll \/ ApplyStopInstance \/ ApplyMidi
           \/ ApplyBeginLiveTimeline \/ ApplyFadeOutInstances \/ ApplySetLiveTempo
           \/ ApplyTimelineMidi \/ PushChunk \/ ShutdownBanks \/ JoinBanks
  <2>1. UNCHANGED <<busy, asked>>
    BY Zenon, <1>4 DEF Fetch, NoFetch, ApplyStopAll, ApplyStopInstance, ApplyMidi,
       ApplyBeginLiveTimeline, ContinuedRelease, ApplyFadeOutInstances, ApplySetLiveTempo,
       ApplyTimelineMidi, PushChunk, ShutdownBanks, JoinBanks, Notify, bankVars
  <2>2. pc # "collect"
    BY <1>4 DEF Fetch, NoFetch, ApplyStopAll, ApplyStopInstance, ApplyMidi,
       ApplyBeginLiveTimeline, ApplyFadeOutInstances, ApplySetLiveTempo, ApplyTimelineMidi,
       PushChunk, ShutdownBanks, JoinBanks, Applying
  <2> QED BY <1>1, <2>1, <2>2
<1>5. CASE PollStandby \/ Settle
  <2>1. pc # "collect"
    BY <1>5 DEF PollStandby, Settle, MustSettle
  <2> QED BY <1>1, <1>2, <1>5, <2>1 DEF PollStandby, Settle, TakeStandbyReply, bankVars
<1>6. CASE FinishPlay \/ FinishPatch
  BY <1>1, <1>2, <1>6 DEF FinishPlay, FinishPatch, ReceiveIfSent
<1>7. CASE ApplyPrepareStandby
  <2>1. /\ cur.inst \in Instances /\ pc # "collect"
        /\ SendTo(commands, [c \in {BankOf[cur.inst]} |-> PreparePatch("standby", cur.inst)])
    BY <1>0, <1>7 DEF ApplyPrepareStandby, Applying, Addressed
  <2>2. /\ PreparePatch("standby", cur.inst).who # "render"
        /\ PreparePatch("standby", cur.inst).insts = {cur.inst}
    BY DEF PreparePatch, Request
  <2> QED BY <1>3, <2>1, <2>2
<1>8. CASE BeginPlay
  <2>1. /\ pc # "collect"
        /\ SendTo(Notified(Banks, Notice("ResetAll", {})),
                  [b \in {BankOf[First]} |-> PreparePatch("sync", First)])
    BY <1>8 DEF BeginPlay, Applying, FirstBank
  <2>2. PreparePatch("sync", First).who # "render" /\ PreparePatch("sync", First).insts = {First}
    BY DEF PreparePatch, Request
  <2> QED BY <1>0, <1>3, <2>1, <2>2
<1>9. CASE BeginPatch
  <2> DEFINE request == IF cur.op = "ProbeLivePatch" THEN ProbePatch(cur.inst)
                        ELSE PreparePatch("sync", cur.inst)
  <2>1. /\ cur.inst \in Instances /\ pc # "collect"
        /\ SendTo(commands, [b \in {BankOf[cur.inst]} |-> request])
    BY <1>0, <1>9 DEF BeginPatch, Applying, Addressed
  <2>2. request.who # "render" /\ request.insts = {cur.inst}
    BY DEF ProbePatch, PreparePatch, Request
  <2> HIDE DEF request
  <2> QED BY <1>3, <2>1, <2>2
<1>10. CASE SendRender
  <2> DEFINE wanted == RenderRequests
             reached == {b \in DOMAIN wanted : \A c \in DOMAIN wanted : c < b => ~SendFails(c)}
             requests == [b \in reached |-> wanted[b]]
  <2>1. /\ SendTo(commands, requests)
        /\ rendering'.banks = reached \ dead /\ pc = "fetch" /\ pc' = "collect"
    BY <1>10 DEF SendRender
  <2>2. /\ DOMAIN requests = reached
        /\ \A b \in reached : requests[b].insts \subseteq Owned(b)
    <3>1. ASSUME NEW b \in DOMAIN wanted PROVE wanted[b].insts \subseteq Owned(b)
      <4>1. CASE IsLive(mode)
        BY <3>1, <4>1 DEF RenderRequests, Render, Request
      <4>2. CASE ~IsLive(mode)
        BY <1>0, <3>1, <4>2 DEF RenderRequests, RenderScheduled, Request, FirstBank
      <4> QED BY <4>1, <4>2
    <3> HIDE DEF wanted
    <3> QED BY <3>1
  <2> HIDE DEF wanted, reached, requests
  <2>3. ASSUME NEW b \in Banks, busy'[b]
        PROVE  \/ busy[b] /\ asked'[b] = asked[b]
               \/ b \in rendering'.banks /\ asked'[b] = requests[b] /\ b \in reached
    BY <2>1, <2>2, <2>3 DEF SendTo, SendFails
  <2>4. \A b \in Banks : busy'[b] =>
           /\ asked'[b].insts \subseteq Owned(b)
           /\ asked'[b].who = "render" => b \in rendering'.banks
    BY <2>1, <2>2, <2>3 DEF RendersCollected
  <2> QED BY <2>1, <2>4 DEF RendersCollected, Owned
<1>11. CASE CollectRender
  <2>1. ReceiveFrom(rendering.banks)
    BY <1>11 DEF CollectRender
  <2> QED BY <2>1 DEF ReceiveFrom, RendersCollected, Owned
<1> QED BY <1>4, <1>5, <1>6, <1>7, <1>8, <1>9, <1>10, <1>11 DEF WorkerStep

LEMMA WorkerNotes ==
  ASSUME WorkerInv, NotesInv, WorkerStep
  PROVE  NotesInv'
<1> USE DEF WorkerInv, NotesInv
<1>1. RendersCollected'
  BY RendersStep
<1>2. /\ releaseNext' = releaseNext /\ dead' = dead
      /\ HeldStays \/ HeldAges
  BY WorkerHeld
<1>3. \A b \in Banks : Grows(b)
  BY WorkerChannelStep, CoordinatorGrows DEF Coordinated
<1>4. CASE HeldStays
  BY <1>1, <1>2, <1>3, <1>4 DEF HeldStays, HeldType, NotesRelease, Grows, Owned
<1>5. CASE HeldAges
  <2>1. held' = [i \in Instances |-> IF held[i] = "cur" THEN "old" ELSE held[i]] /\ HeldType'
    BY <1>5 DEF HeldAges, NewLine, HeldType
  <2>2. ASSUME NEW b \in Banks, b \notin dead PROVE Clears(commands'[b])
    <3>1. ASSUME NEW n \in 1..Len(commands[b]), commands[b][n].who = "render" PROVE FALSE
      <4>1. IsRequest(commands[b][n])
        BY <3>1 DEF IsRequest
      <4>2. busy[b] /\ asked[b].who = "render"
        BY <3>1, <4>1, QueuedIsAsked
      <4> QED BY <1>5, <4>2 DEF HeldAges, RendersCollected
    <3> QED BY <1>5, <2>2, <3>1 DEF HeldAges, Releases
  <2> QED BY <1>1, <1>2, <2>1, <2>2 DEF NotesRelease
<1> QED BY <1>2, <1>4, <1>5

(***************************************************************************)
(* What a bank thread does to the notes                                    *)
(***************************************************************************)
LEMMA SilenceType ==
  ASSUME HeldType, NEW insts, Silence(insts)
  PROVE  /\ HeldType'
         /\ \A i \in Instances : held'[i] = "old" => held[i] = "old" /\ i \notin insts
BY DEF HeldType, Silence

\* The other banks are left alone.
LEMMA OthersNotes ==
  ASSUME NotesRelease, NEW b \in Banks,
         \A c \in Banks \ {b} : commands'[c] = commands[c] /\ (c \in dead <=> c \in dead'),
         \A i \in Instances : held'[i] = "old" => held[i] = "old",
         \A i \in Instances : i \in releaseNext /\ i \notin releaseNext' =>
                                i \in Owned(b) \/ held'[i] # "old",
         b \notin dead' => \A i \in Owned(b) : held'[i] = "old" =>
                                i \in releaseNext' \/ Clears(commands'[b])
  PROVE  NotesRelease'
<1>1. ASSUME NEW c \in Banks \ {b}, NEW i \in Owned(c)
      PROVE  i \in Instances /\ i \notin Owned(b)
  BY BankAssumption DEF Owned
<1>2. Owned(b)' = Owned(b) /\ \A c \in Banks : Owned(c)' = Owned(c)
  BY DEF Owned
<1> QED BY <1>1, <1>2 DEF NotesRelease

LEMMA BankNotes ==
  ASSUME ChannelType, NEW b \in Banks, ChannelInv(b), NotesInv, BankStep(b) \/ BankDies(b),
         UNCHANGED <<pc, rendering>>
  PROVE  NotesInv'
<1> USE DEF NotesInv
<1>0. /\ Owned(b) \subseteq Instances
      /\ \A c \in Banks : c # b => Owned(c) \cap Owned(b) = {}
  BY BankAssumption DEF Owned
<1>1. RendersCollected'
  BY ThreadKeepsRequests DEF RendersCollected, Owned
<1>2. ASSUME NEW op, Handle(b, op)
      PROVE  /\ \A c \in Banks \ {b} : commands'[c] = commands[c]
             /\ commands'[b] = Tail(commands[b]) /\ dead' = dead /\ b \notin dead
             /\ Head(commands[b]).op = op /\ commands[b] # <<>>
             /\ commands[b] \in Seq(BankCommand)
  BY <1>2 DEF Handle, ChannelType
<1>3. ASSUME NEW op, op \notin {"ResetAll", "ReleaseAll", "ReleaseAllInNextBlock"}, Handle(b, op)
      PROVE  Clears(commands[b]) => Clears(commands'[b])
  <2>1. ~IsRelease(Head(commands[b]))
    BY <1>3, <1>2 DEF IsRelease
  <2> QED BY <1>2, <1>3, <2>1, ClearsTaken
<1>4. CASE BankResetAll(b) \/ BankReleaseAll(b)
  <2>1. PICK op : Handle(b, op) /\ Silence(Owned(b)) /\ releaseNext' = releaseNext
    BY <1>4 DEF BankResetAll, BankReleaseAll
  <2> QED BY <1>0, <1>1, <1>2, <2>1, SilenceType, OthersNotes
<1>5. CASE BankReleaseInstance(b)
  <2>1. /\ Handle(b, "ReleaseInstance") /\ releaseNext' = releaseNext
        /\ Silence(Head(commands[b]).insts)
    BY <1>5 DEF BankReleaseInstance
  <2>2. Clears(commands[b]) => Clears(commands'[b])
    BY <1>3, <2>1
  <2>3. \A i \in Owned(b) : held[i] = "old" => i \in releaseNext \/ Clears(commands[b])
    BY <1>2, <2>1 DEF NotesRelease
  <2> QED BY <1>0, <1>1, <1>2, <2>1, <2>2, <2>3, SilenceType, OthersNotes
<1>6. CASE BankReleaseAllInNextBlock(b)
  <2>1. Handle(b, "ReleaseAllInNextBlock") /\ releaseNext' = releaseNext \cup Owned(b) /\ held' = held
    BY <1>6 DEF BankReleaseAllInNextBlock
  <2>2. HeldType'
    BY <2>1 DEF HeldType
  <2> QED BY <1>1, <1>2, <2>1, <2>2, OthersNotes
<1>7. CASE BankFadeOut(b)
  <2>1. Handle(b, "FadeOut") /\ releaseNext' = releaseNext /\ held' = held
    BY <1>7 DEF BankFadeOut
  <2>2. Clears(commands[b]) => Clears(commands'[b])
    BY <1>3, <2>1
  <2>3. \A i \in Owned(b) : held[i] = "old" => i \in releaseNext \/ Clears(commands[b])
    BY <1>2, <2>1 DEF NotesRelease
  <2>4. HeldType'
    BY <2>1 DEF HeldType
  <2> QED BY <1>1, <1>2, <2>1, <2>2, <2>3, <2>4, OthersNotes
<1>8. CASE BankRenderBlock(b)
  <2> DEFINE insts == Head(commands[b]).insts
  <2>1. Handle(b, "RenderBlock") /\ releaseNext' = releaseNext \ insts
    BY <1>8 DEF BankRenderBlock
  <2>2. PICK failed \in SUBSET insts :
          held' = [i \in DOMAIN held |->
                     IF i \in failed THEN "no" ELSE IF i \in insts THEN "cur" ELSE held[i]]
    BY <1>8 DEF BankRenderBlock
  <2> HIDE DEF insts
  <2>3. HeldType' /\ \A i \in Instances : held'[i] = "old" => held[i] = "old" /\ i \notin insts
    BY <2>2 DEF HeldType
  <2>4. Clears(commands[b]) => Clears(commands'[b])
    BY <1>3, <2>1
  <2>5. \A i \in Owned(b) : held[i] = "old" => i \in releaseNext \/ Clears(commands[b])
    BY <1>2, <2>1 DEF NotesRelease
  <2> QED BY <1>0, <1>1, <1>2, <2>1, <2>3, <2>4, <2>5, OthersNotes
<1>9. CASE BankRenderScheduled(b)
  <2>1. /\ Handle(b, "RenderScheduled") /\ releaseNext' = releaseNext \ {First}
        /\ held' = [held EXCEPT ![First] = "cur"]
    BY <1>9 DEF BankRenderScheduled
  <2>2. HeldType' /\ \A i \in Instances : held'[i] = "old" => held[i] = "old" /\ i # First
    BY <2>1 DEF HeldType
  <2>3. Clears(commands[b]) => Clears(commands'[b])
    BY <1>3, <2>1
  <2>4. \A i \in Owned(b) : held[i] = "old" => i \in releaseNext \/ Clears(commands[b])
    BY <1>2, <2>1 DEF NotesRelease
  <2> QED BY <1>0, <1>1, <1>2, <2>1, <2>2, <2>3, <2>4, OthersNotes
<1>10. CASE BankPatch(b)
  <2>1. PICK op \in {"PreparePatch", "ProbePatch"} : Handle(b, op)
    BY <1>10 DEF BankPatch
  <2>2. releaseNext' = releaseNext /\ (held' = held \/ \E insts : Silence(insts))
    BY <1>10 DEF BankPatch
  <2>3. HeldType' /\ \A i \in Instances : held'[i] = "old" => held[i] = "old"
    BY <2>2, SilenceType DEF HeldType
  <2>4. Clears(commands[b]) => Clears(commands'[b])
    BY <1>3, <2>1
  <2>5. \A i \in Owned(b) : held[i] = "old" => i \in releaseNext \/ Clears(commands[b])
    BY <1>2, <2>1 DEF NotesRelease
  <2> QED BY <1>0, <1>1, <1>2, <2>1, <2>2, <2>3, <2>4, <2>5, OthersNotes
<1>11. CASE BankShutdown(b) \/ BankDies(b)
  <2>1. /\ dead' = dead \cup {b} /\ held' = held /\ releaseNext' = releaseNext
        /\ \A c \in Banks \ {b} : commands'[c] = commands[c]
    BY <1>11 DEF BankShutdown, BankDies, EndThread, ChannelType
  <2>2. HeldType'
    BY <2>1 DEF HeldType
  <2> QED BY <1>1, <2>1, <2>2, OthersNotes
<1> QED BY <1>4, <1>5, <1>6, <1>7, <1>8, <1>9, <1>10, <1>11 DEF BankStep

LEMMA NotesNext ==
  ASSUME WorkerInv, NotesInv, [Next]_vars
  PROVE  NotesInv'
<1>1. ASSUME UNCHANGED <<bankVars, pc, rendering>> PROVE NotesInv'
  BY <1>1 DEF bankVars, NotesInv, HeldType, RendersCollected, NotesRelease, Owned
<1>2. CASE WorkerStep
  BY <1>2, WorkerNotes
<1>3. ASSUME NEW b \in Banks, BankWorks(b) \/ BankPanics(b) PROVE NotesInv'
  BY <1>3, BankNotes DEF BankWorks, BankPanics, workerVars, WorkerInv
<1>4. CASE ClientStep
  BY Zenon, <1>1, <1>4 DEF ClientStep, HttpSubmit, IpcSubmit, IpcSubmitAndWait, IpcAcceptStandby,
     AnySubmit, IpcCallFails, IpcPollStandby, DropPlayer, workerVars
<1>5. CASE Done \/ UNCHANGED vars
  BY Zenon, <1>1, <1>5 DEF Done, vars, workerVars
<1> QED BY <1>2, <1>3, <1>4, <1>5 DEF Next

\* However plays, stops, lives and timelines follow each other, no block is
\* rendered over a note of an earlier performance.
THEOREM NoStaleNoteCorrect == Spec => []NoStaleNote
<1>1. Init => NotesInv
  BY BankAssumption DEF Init, BankInit, NotesInv, HeldType, RendersCollected, NotesRelease, Owned
<1>2. PlayerInv /\ NotesInv /\ [Next]_vars => (PlayerInv /\ NotesInv)'
  BY PlayerNext, NotesNext DEF PlayerInv
<1>3. ASSUME PlayerInv, NotesInv PROVE NoStaleNote
  <2>1. SUFFICES ASSUME NEW b \in Banks, commands[b] # <<>>, Head(commands[b]).who = "render",
                        NEW i \in Head(commands[b]).insts, held[i] = "old"
                 PROVE  i \in releaseNext
    BY DEF NoStaleNote
  <2>2. ChannelType /\ ChannelInv(b) /\ commands[b] \in Seq(BankCommand)
    BY <1>3 DEF PlayerInv, WorkerInv, ChannelType
  <2>3. /\ 1 \in 1..Len(commands[b]) /\ Head(commands[b]) = commands[b][1]
        /\ Head(commands[b]) \in BankCommand
    BY <2>1, <2>2
  <2>4. IsRequest(commands[b][1])
    BY <2>1, <2>3 DEF IsRequest
  <2>5. b \notin dead /\ busy[b] /\ Head(commands[b]) = asked[b]
    BY <2>2, <2>3, <2>4, QueuedIsAsked
  <2>6. i \in Owned(b)
    BY <1>3, <2>1, <2>5 DEF NotesInv, RendersCollected
  <2>7. ~IsRelease(Head(commands[b]))
    BY <2>3, <2>4, KindOfOp DEF IsRelease, NoticeOps
  <2>8. ~Clears(commands[b])
    BY <2>1, <2>2, <2>7, ClearsTaken
  <2> QED BY <1>3, <2>1, <2>5, <2>6, <2>8 DEF NotesInv, NotesRelease
<1> QED BY <1>1, <1>2, <1>3, PlayerInit, PTL DEF Spec
=============================================================================
