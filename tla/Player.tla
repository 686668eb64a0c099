------------------------------- MODULE Player -------------------------------
(***************************************************************************)
(* The realtime player: the render loop of the player worker               *)
(* (realtime-play-server/src/player/worker.rs and worker/*.rs), between    *)
(* the command queue it is fed from (PlayerCommands) and the bank threads  *)
(* it drives (BankChannel).  The clients of the queue are the HTTP workers *)
(* (play, stop) and the IPC receive thread (fast_ipc.rs), which waits for  *)
(* a patch load or a probe but only polls the ticket of a standby preload. *)
(*                                                                         *)
(* The sample clock, gains and limiter are left out.  Of the event queues  *)
(* of a live the model keeps what the loop branches on: which instances    *)
(* are active and whether the timeline has received its first event.       *)
(***************************************************************************)
EXTENDS PlayerCommands, BankChannel

CONSTANT MaxSubmits  \* bound: the submits of a behaviour

ASSUME BankAssumption ==
  /\ DOMAIN BankOf = Instances
  /\ \A i \in Instances : BankOf[i] \in Banks
  /\ First \in Instances
  /\ Banks \subseteq Nat
  /\ Crashable \subseteq Banks
  /\ Faulty \subseteq Instances

VARIABLES
  pc,       \* where the render loop stands
  cur,      \* the command being applied
  mode,     \* playback_mode
  standby,  \* the instance whose preload is in flight (StandbyLoad), or None
  rendering,\* the banks a render was sent to, and whether a send failed
  ipcWait,  \* the IPC thread is blocked in completion_rx.recv()
  ticket,   \* the IPC thread holds a StandbyLoadTicket
  outcome,  \* what the ticket's channel holds: "none", "ok" or "err"
  submits   \* the submits so far

workerVars == <<pc, cur, mode, standby, rendering>>
ipcVars == <<ipcWait, ticket, outcome>>
vars == <<queueVars, bankVars, workerVars, ipcVars, submits>>

NoMode == [kind |-> "none", gen |-> 0, timeline |-> None, started |-> FALSE, active |-> {}]
Scheduled(gen) == [NoMode EXCEPT !.kind = "scheduled", !.gen = gen]
NewLiveMode(gen) == [NoMode EXCEPT !.kind = "live", !.gen = gen]
IsLive(m) == m.kind = "live"
EnsureLiveMode(gen) == IF IsLive(mode) THEN mode ELSE NewLiveMode(gen)

NoCommand == Cmd("none", 0, None, None, FALSE)
NoRender == [banks |-> {}, failed |-> FALSE]
FirstBank == BankOf[First]

Init ==
  /\ QueueInit
  /\ BankInit
  /\ pc = "top"
  /\ cur = NoCommand
  /\ mode = NoMode
  /\ standby = None
  /\ rendering = NoRender
  /\ ipcWait = FALSE
  /\ ticket = FALSE
  /\ outcome = "none"
  /\ submits = 0

(***************************************************************************)
(* The clients                                                             *)
(***************************************************************************)
AnySubmit ==
  /\ submits < MaxSubmits
  /\ submits' = submits + 1
  /\ UNCHANGED <<bankVars, workerVars>>

HttpSubmit ==
  /\ SubmitPlay \/ SubmitStop
  /\ AnySubmit
  /\ UNCHANGED ipcVars

\* dispatch() of a command the IPC thread does not wait for.
IpcSubmit ==
  /\ ~ipcWait
  /\ \/ \E i \in Instances :
          \/ SubmitStopInstance(i)
          \/ SubmitMidi(i)
          \/ SubmitFadeOutInstances(i)
     \/ \E t \in Timelines :
          \/ \E valid \in BOOLEAN : SubmitBeginLiveTimeline(t, valid)
          \/ SubmitSetLiveTempo(t)
          \/ \E i \in Instances : SubmitTimelineMidi(t, i)
  /\ AnySubmit
  /\ UNCHANGED ipcVars

\* prepare_live_patch and prepare_live_patch_with_voicing.
IpcSubmitAndWait ==
  /\ ~ipcWait
  /\ \E i \in Instances : SubmitPrepareLivePatch(i) \/ SubmitProbeLivePatch(i)
  /\ AnySubmit
  /\ ipcWait' = TRUE
  /\ UNCHANGED <<ticket, outcome>>

\* accept_standby: a second preload is refused while a ticket is held.
CanAcceptStandby == ~ticket

IpcAcceptStandby ==
  /\ ~ipcWait
  /\ CanAcceptStandby
  /\ \E i \in Instances : SubmitPrepareStandbyLivePatch(i)
  /\ AnySubmit
  /\ ticket' = TRUE
  /\ outcome' = "none"
  /\ UNCHANGED ipcWait

\* Some command still carries a completion sender.
Carries(ops) ==
  \/ cur.op \in ops
  \/ \E n \in 1..Len(pending) : pending[n].op \in ops

SyncOps == {"PrepareLivePatch", "ProbeLivePatch"}

\* The command was thrown out of the queue and its sender with it: recv() fails.
IpcCallFails ==
  /\ ipcWait
  /\ ~Carries(SyncOps)
  /\ ipcWait' = FALSE
  /\ UNCHANGED <<queueVars, bankVars, workerVars, ticket, outcome, submits>>

SenderGone == standby = None /\ ~Carries({"PrepareStandbyLivePatch"})

\* publish_ready_standby: a result, or an error when the sender is gone.
IpcPollStandby ==
  /\ ~ipcWait
  /\ ticket
  /\ outcome # "none" \/ SenderGone
  /\ ticket' = FALSE
  /\ outcome' = "none"
  /\ UNCHANGED <<queueVars, bankVars, workerVars, ipcWait, submits>>

\* The server stops: the IPC thread returns, failing a standby it still waits
\* for, and the last reference to the player is dropped.
DropPlayer ==
  /\ ~ipcWait
  /\ Shutdown
  /\ ticket' = FALSE
  /\ outcome' = "none"
  /\ UNCHANGED <<bankVars, workerVars, ipcWait, submits>>

(***************************************************************************)
(* The standby preload (worker/standby.rs)                                 *)
(***************************************************************************)
\* A live mode without a failed instance.  When it was the last active one the
\* live is over.
Without(m, i) ==
  IF m.active \subseteq {i} THEN NoMode ELSE [m EXCEPT !.active = @ \ {i}]

\* AudioOutputControl::finish when over holds.
FinishIf(over) == (over /\ Finish) \/ (~over /\ UNCHANGED queueVars)

\* Seeded fault: only a success is sent to the ticket.
CompleteOnlySuccess(result) ==
  LET failed == result # "ok" /\ IsLive(mode)
  IN  /\ mode' = IF failed THEN Without(mode, standby) ELSE mode
      /\ FinishIf(failed /\ mode' = NoMode)
      /\ standby' = None
      /\ outcome' = IF ticket /\ result = "ok" THEN result ELSE outcome
      /\ UNCHANGED <<ipcWait, ticket>>

\* complete(): the result goes to the ticket, whether anybody holds it or not.
Complete(result) ==
  LET failed == result # "ok" /\ IsLive(mode)
  IN  /\ mode' = IF failed THEN Without(mode, standby) ELSE mode
      /\ FinishIf(failed /\ mode' = NoMode)
      /\ standby' = None
      /\ outcome' = IF ticket THEN result ELSE outcome
      /\ UNCHANGED <<ipcWait, ticket>>

\* try_finish_patch and finish_patch of the preload in flight.
TakeStandbyReply ==
  LET b == BankOf[standby]
  IN  /\ ReceiveFrom({b})
      /\ Complete(ResultOf(b, "PreparePatch"))
      /\ UNCHANGED <<commands, cur, rendering, submits>>

\* The head of the loop: standby::poll.
PollStandby ==
  /\ pc = "top"
  /\ pc' = "fetch"
  /\ IF standby # None /\ CanReceive(BankOf[standby])
       THEN TakeStandbyReply
       ELSE UNCHANGED <<queueVars, bankVars, cur, mode, standby, rendering, ipcVars, submits>>

\* Seeded fault: a play is not counted among the commands that wait for a bank.
PlayNeedsNoIdleBanks(command) == command.op \in {"PrepareLivePatch", "ProbeLivePatch"}

NeedsIdleBanks(command) ==
  command.op \in {"Play", "PrepareLivePatch", "ProbeLivePatch"}

\* Before such a command, at the begin of another preload and at the end of the
\* worker, the preload in flight is settled.
MustSettle ==
  /\ standby # None
  /\ \/ pc = "apply" /\ (NeedsIdleBanks(cur) \/ cur.op = "PrepareStandbyLivePatch")
     \/ pc = "exit"

\* settle(): the loop stands still until the preload is done.
Settle ==
  /\ MustSettle
  /\ TakeStandbyReply
  /\ UNCHANGED pc

(***************************************************************************)
(* Getting a command                                                       *)
(***************************************************************************)
WaitingForTimelineEvents == IsLive(mode) /\ mode.timeline # None /\ ~mode.started

Idle == mode = NoMode \/ WaitingForTimelineEvents

Fetch ==
  /\ pc = "fetch"
  /\ TakeCommand
  /\ cur' = Head(pending)
  /\ pc' = "apply"
  /\ UNCHANGED <<bankVars, mode, standby, rendering, ipcVars, submits>>

\* Seeded fault: the idle loop always sleeps until a command comes.
NeverWakes == FALSE

\* wait_while_idle sleeps without a timeout only when no preload is in flight.
WakesByTimeout == standby # None

\* Nothing to take: an idle loop sleeps until a command, a shutdown or the
\* timeout; a playing one waits for room in the output ring, and goes round
\* again when there is none in time or the player was shut down.
NoFetch ==
  /\ pc = "fetch"
  /\ ~CanTake
  /\ \/ Idle /\ shutdown /\ pc' = "exit"
     \/ Idle /\ ~shutdown /\ WakesByTimeout /\ pc' = "top"
     \/ ~Idle /\ pc' = "top"
  /\ UNCHANGED <<queueVars, bankVars, cur, mode, standby, rendering, ipcVars, submits>>

(***************************************************************************)
(* Applying a command (worker/command.rs)                                  *)
(***************************************************************************)
Applying(op) == pc = "apply" /\ cur.op = op

Applied ==
  /\ pc' = "top"
  /\ cur' = NoCommand
  /\ UNCHANGED <<standby, rendering, submits>>

\* The ways a command ends without an answer to anybody.
Return == Applied /\ UNCHANGED ipcVars

ApplyStopAll ==
  /\ Applying("StopAll")
  /\ Notify(Banks, Notice("ReleaseAll", {}))
  /\ NewLine
  /\ mode' = NoMode
  /\ Return
  /\ UNCHANGED queueVars

\* Seeded fault: a live that goes on keeps the generation it had.
StopInstanceKeepsGeneration ==
  /\ Applying("StopInstance")
  /\ Notify({BankOf[cur.inst]}, Notice("ReleaseInstance", {cur.inst}))
  /\ mode' = Without(EnsureLiveMode(cur.gen), cur.inst)
  /\ FinishIf(mode' = NoMode)
  /\ Return
  /\ UNCHANGED held

ApplyStopInstance ==
  /\ Applying("StopInstance")
  /\ Notify({BankOf[cur.inst]}, Notice("ReleaseInstance", {cur.inst}))
  /\ mode' = Without([EnsureLiveMode(cur.gen) EXCEPT !.gen = cur.gen], cur.inst)
  /\ FinishIf(mode' = NoMode)
  /\ Return
  /\ UNCHANGED held

\* Entering live drops whatever mode there was.
ApplyMidi ==
  /\ Applying("Midi")
  /\ LET entering == cur.flag \/ ~IsLive(mode)
         live == IF entering THEN NewLiveMode(cur.gen) ELSE mode
     IN  /\ IF entering THEN Notify(Banks, Notice("ReleaseAll", {})) /\ NewLine
                        ELSE UNCHANGED bankVars
         /\ mode' = [live EXCEPT !.gen = cur.gen, !.active = @ \cup {cur.inst}]
  /\ Return
  /\ UNCHANGED queueVars

\* begin_live_timeline: a live of the same generation goes on under the new
\* timeline, with its clock, its instances and the frames already rendered.
Continues == IsLive(mode) /\ mode.gen = cur.gen

\* Seeded fault: the notes of the timeline before are left alone.
NoRelease == UNCHANGED <<commands, replies, busy, asked, dead, releaseNext>>

ContinuedRelease == Notify(Banks, Notice("ReleaseAllInNextBlock", {}))

ApplyBeginLiveTimeline ==
  /\ Applying("BeginLiveTimeline")
  /\ LET live == IF Continues THEN mode ELSE NewLiveMode(cur.gen)
     IN  IF cur.flag
           THEN /\ mode' = [live EXCEPT !.timeline = cur.tl, !.started = FALSE]
                /\ IF Continues THEN ContinuedRelease
                                ELSE Notify(Banks, Notice("ReleaseAll", {}))
                /\ UNCHANGED queueVars
           ELSE /\ mode' = NoMode
                /\ Notify(Banks, Notice("ReleaseAll", {}))
                /\ Finish
  /\ NewLine
  /\ Return

ApplyFadeOutInstances ==
  /\ Applying("FadeOutInstances")
  /\ IF IsLive(mode) THEN Notify({BankOf[cur.inst]}, Notice("FadeOut", {cur.inst}))
                     ELSE UNCHANGED <<commands, replies, busy, asked, dead, releaseNext>>
  /\ Return
  /\ UNCHANGED <<queueVars, mode, held>>

ApplySetLiveTempo ==
  /\ Applying("SetLiveTempo")
  /\ mode' = IF IsLive(mode) /\ mode.timeline = cur.tl
               THEN [mode EXCEPT !.gen = cur.gen] ELSE mode
  /\ Return
  /\ UNCHANGED <<queueVars, bankVars>>

\* The scheduler may reject an event, and does if it is for another timeline:
\* the instance is active all the same.
ApplyTimelineMidi ==
  /\ Applying("TimelineMidi")
  /\ \/ /\ IsLive(mode) /\ mode.timeline # None
        /\ \E accepted \in {FALSE, mode.timeline = cur.tl} :
             mode' = [mode EXCEPT !.gen = cur.gen, !.active = @ \cup {cur.inst},
                                  !.started = @ \/ accepted]
     \/ /\ ~IsLive(mode) \/ mode.timeline = None
        /\ UNCHANGED mode
  /\ Return
  /\ UNCHANGED <<queueVars, bankVars>>

\* begin() of a standby preload, once an earlier one is settled: it is sent and
\* the loop goes on.
ApplyPrepareStandby ==
  LET b == BankOf[cur.inst]
  IN  /\ Applying("PrepareStandbyLivePatch")
      /\ ~MustSettle
      /\ SendTo(commands, [c \in {b} |-> PreparePatch("standby", cur.inst)])
      /\ mode' = EnsureLiveMode(cur.gen)
      /\ standby' = IF SendFails(b) THEN None ELSE cur.inst
      /\ outcome' = IF SendFails(b) /\ ticket THEN "err" ELSE outcome
      /\ pc' = "top"
      /\ cur' = NoCommand
      /\ UNCHANGED <<queueVars, held, rendering, ipcWait, ticket, submits>>

\* Commands that wait for their bank: first the request is sent ...
Wait == pc' = "wait" /\ UNCHANGED <<queueVars, cur, standby, rendering, ipcVars, submits>>

BeginPlay ==
  /\ Applying("Play")
  /\ ~MustSettle
  /\ SendTo(Notified(Banks, Notice("ResetAll", {})),
            [b \in {FirstBank} |-> PreparePatch("sync", First)])
  /\ NewLine
  /\ Wait
  /\ UNCHANGED mode

BeginPatch ==
  /\ Applying("PrepareLivePatch") \/ Applying("ProbeLivePatch")
  /\ ~MustSettle
  /\ SendTo(commands, [b \in {BankOf[cur.inst]} |->
                         IF cur.op = "ProbeLivePatch" THEN ProbePatch(cur.inst)
                         ELSE PreparePatch("sync", cur.inst)])
  /\ mode' = EnsureLiveMode(cur.gen)
  /\ Wait
  /\ UNCHANGED held

\* ... then its reply is received, unless the send failed.
ReceiveIfSent(b) ==
  \/ busy[b] /\ ReceiveFrom({b})
  \/ ~busy[b] /\ UNCHANGED <<replies, busy, asked, dead, held, releaseNext>>

Result(b, op) == IF busy[b] THEN ResultOf(b, op) ELSE "err"

\* A patch that does not load is only logged.
FinishPlay ==
  /\ pc = "wait"
  /\ cur.op = "Play"
  /\ ReceiveIfSent(FirstBank)
  /\ mode' = Scheduled(cur.gen)
  /\ Return
  /\ UNCHANGED <<queueVars, commands>>

\* completion.send is a rendezvous with the IPC thread waiting in recv().
FinishPatch ==
  LET b == BankOf[cur.inst]
      live == [mode EXCEPT !.gen = cur.gen]
      probe == cur.op = "ProbeLivePatch"
      ok == Result(b, IF probe THEN "ProbePatch" ELSE "PreparePatch") = "ok"
  IN  /\ pc = "wait"
      /\ cur.op \in SyncOps
      /\ ReceiveIfSent(b)
      /\ mode' = IF ~ok THEN Without(live, cur.inst)
                  ELSE IF probe THEN [live EXCEPT !.active = @ \cup {cur.inst}] ELSE live
      /\ FinishIf(mode' = NoMode)
      /\ ipcWait' = FALSE
      /\ Applied
      /\ UNCHANGED <<commands, ticket, outcome>>

(***************************************************************************)
(* Rendering a block                                                       *)
(***************************************************************************)
\* live_render_requests: a bank with a request outstanding is left out.
RenderEnabled(b) == ~busy[b]

RenderRequests ==
  IF IsLive(mode)
    THEN LET sounding(b) == mode.active \cap Owned(b)
         IN  [b \in {c \in Banks : RenderEnabled(c) /\ sounding(c) # {}} |-> Render(sounding(b))]
    ELSE [b \in {FirstBank} |-> RenderScheduled]

\* Nothing to take and room in the ring.  render_instances and render_scheduled
\* send to the banks in order, up to the first that fails.
SendRender ==
  LET wanted == RenderRequests
      reached == {b \in DOMAIN wanted : \A c \in DOMAIN wanted : c < b => ~SendFails(c)}
  IN  /\ pc = "fetch"
      /\ ~CanTake /\ ~Idle /\ ~shutdown
      /\ SendTo(commands, [b \in reached |-> wanted[b]])
      /\ rendering' = [banks |-> reached \ dead, failed |-> reached \cap dead # {}]
      /\ pc' = "collect"
      /\ UNCHANGED <<queueVars, held, cur, mode, standby, ipcVars, submits>>

\* The replies of all the banks a request was sent to are received.
RenderResult ==
  LET op == IF IsLive(mode) THEN "RenderBlock" ELSE "RenderScheduled"
      results == {ResultOf(b, op) : b \in rendering.banks}
  IN  IF rendering.failed \/ "err" \in results THEN "err"
      ELSE IF "end" \in results THEN "end" ELSE "ok"

FailedInstances == UNION {NextReply(b).failed : b \in rendering.banks}

CollectRender ==
  /\ pc = "collect"
  /\ ReceiveFrom(rendering.banks)
  /\ \/ /\ RenderResult = "ok"
        /\ mode' = [mode EXCEPT !.active = @ \ FailedInstances]
        /\ pc' = "push"
        /\ UNCHANGED <<queueVars, commands>>
     \/ /\ RenderResult = "end"
        /\ mode' = NoMode
        /\ pc' = "top"
        /\ Finish
        /\ UNCHANGED commands
     \/ /\ RenderResult = "err"
        /\ mode' = NoMode
        /\ pc' = "top"
        /\ commands' = Notified(Banks, Notice("ResetAll", {}))
        /\ Finish
  /\ rendering' = NoRender
  /\ UNCHANGED <<cur, standby, ipcVars, submits>>

\* push_chunk: the generation was left behind by a submit, or a shutdown came
\* while the output ring was full.
PushChunk ==
  /\ pc = "push"
  /\ pc' = "top"
  /\ \/ mode.gen = generation /\ UNCHANGED mode
     \/ (mode.gen # generation \/ shutdown) /\ mode' = NoMode
  /\ UNCHANGED <<queueVars, bankVars, cur, standby, rendering, ipcVars, submits>>

(***************************************************************************)
(* The end of the worker                                                   *)
(***************************************************************************)
ShutdownBanks ==
  /\ pc = "exit"
  /\ ~MustSettle
  /\ Notify(Banks, Notice("Shutdown", {}))
  /\ pc' = "join"
  /\ UNCHANGED <<queueVars, held, cur, mode, standby, rendering, ipcVars, submits>>

JoinBanks ==
  /\ pc = "join"
  /\ Banks \subseteq dead
  /\ pc' = "done"
  /\ UNCHANGED <<queueVars, bankVars, cur, mode, standby, rendering, ipcVars, submits>>

Done == pc = "done" /\ UNCHANGED vars

-----------------------------------------------------------------------------
WorkerStep ==
  \/ PollStandby
  \/ Settle
  \/ Fetch
  \/ NoFetch
  \/ ApplyStopAll
  \/ ApplyStopInstance
  \/ ApplyMidi
  \/ ApplyBeginLiveTimeline
  \/ ApplyFadeOutInstances
  \/ ApplySetLiveTempo
  \/ ApplyTimelineMidi
  \/ ApplyPrepareStandby
  \/ BeginPlay
  \/ BeginPatch
  \/ FinishPlay
  \/ FinishPatch
  \/ SendRender
  \/ CollectRender
  \/ PushChunk
  \/ ShutdownBanks
  \/ JoinBanks

ClientStep ==
  \/ HttpSubmit
  \/ IpcSubmit
  \/ IpcSubmitAndWait
  \/ IpcAcceptStandby
  \/ IpcCallFails
  \/ IpcPollStandby
  \/ DropPlayer

BankWorks(b) ==
  /\ BankStep(b)
  /\ UNCHANGED <<queueVars, workerVars, ipcVars, submits>>

BankPanics(b) ==
  /\ BankDies(b)
  /\ UNCHANGED <<queueVars, workerVars, ipcVars, submits>>

Next ==
  \/ ClientStep
  \/ WorkerStep
  \/ \E b \in Banks : BankWorks(b) \/ BankPanics(b)
  \/ Done

Spec == Init /\ [][Next]_vars

\* Every thread keeps running; clients need not submit anything.
Fairness ==
  /\ WF_vars(WorkerStep)
  /\ \A b \in Banks : WF_vars(BankWorks(b))
  /\ WF_vars(IpcCallFails)
  /\ WF_vars(IpcPollStandby)

FairSpec == Spec /\ Fairness

-----------------------------------------------------------------------------
(***************************************************************************)
(* Properties                                                              *)
(***************************************************************************)
IsRequest(command) == command.who # "none"

\* A bank has one request under way exactly when the coordinator takes it for
\* busy, so no reply is ever thrown away or taken for the answer to another
\* request.  (A bank that died keeps only the replies it had sent.)
OneRequestPerBank ==
  \A b \in Banks :
    LET waiting == {n \in 1..Len(commands[b]) : IsRequest(commands[b][n])}
    IN  /\ Cardinality(waiting) + Len(replies[b]) <= (IF busy[b] THEN 1 ELSE 0)
        /\ b \notin dead /\ busy[b] => Cardinality(waiting) + Len(replies[b]) = 1
        /\ \A n \in waiting : commands[b][n] = asked[b]
        /\ replies[b] # <<>> => replies[b][1].request = asked[b]

\* While a preload is in flight its bank owes the reply to that very preload:
\* the poll and the settle that end it can only ever receive its own result,
\* whatever was rendered, loaded, started or stopped in between.
StandbyReplyIsItsOwn ==
  standby # None =>
    /\ busy[BankOf[standby]]
    /\ asked[BankOf[standby]] = PreparePatch("standby", standby)

\* No block is rendered over a note of an earlier performance: after a play, a
\* stop, the entry into live or the start of a timeline, every instance drops
\* what it held before it sounds again, or does so at the head of that block.
NoStaleNote ==
  \A b \in Banks :
    commands[b] # <<>> /\ Head(commands[b]).who = "render" =>
      \A i \in Head(commands[b]).insts : held[i] = "old" => i \in releaseNext

\* The scheduler of a timeline throws the events of another away, when their
\* instance is active already (runtime.rs:81): the queue has to see to it that
\* none ever gets there.
TimelineEventsReachTheirTimeline ==
  cur.op = "TimelineMidi" /\ IsLive(mode) => mode.timeline \in {cur.tl, None}

\* When the worker has caught up with its queue, the frames it renders carry
\* the generation the audio thread plays: a live never goes on with all its
\* frames silently thrown away.
WorkerCatchesUp ==
  pc \in {"top", "fetch"} /\ mode # NoMode /\ (\A n \in 1..Len(pending) : IsFadeOut(pending[n]))
    => mode.gen = generation

\* Every standby ticket is answered: with the result of the load or, when its
\* command was dropped, with an error.
TicketIsAnswered == ticket ~> ~ticket

\* The IPC thread never waits for ever in a patch load or a probe, though a
\* play or a stop may drop the command and the bank may die under it.
CallReturns == ipcWait ~> ~ipcWait

\* The player keeps the promise of StandbyLoad.
Preload == INSTANCE StandbyLoad WITH
  load <- IF ~ticket THEN "idle"
          ELSE IF outcome # "none" THEN "resolved"
          ELSE IF standby # None THEN "loading"
          ELSE IF SenderGone THEN "lost"
          ELSE "queued"

PreloadSpec == Preload!Spec

-----------------------------------------------------------------------------
(***************************************************************************)
(* What the code's comments say and its behaviours contradict              *)
(***************************************************************************)
\* "send Shutdown to both banks and join them" (worker.rs:297): the end of the
\* worker, which the drop of the player waits for.
ShutdownEndsWorker == shutdown ~> pc = "done"
=============================================================================
