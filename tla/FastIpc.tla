------------------------------- MODULE FastIpc -------------------------------
(***************************************************************************)
(* The shared-memory channel between a client process and the player:      *)
(* CommandRing, the response slot of synchronous requests, the completion  *)
(* slot of standby preloads, and the server's receive loop over them       *)
(* (realtime-ipc/src/windows.rs, windows/{server,standby}.rs,              *)
(* realtime-play-server/src/fast_ipc.rs).                                  *)
(*                                                                         *)
(* Both slots are plain memory written field by field: first the request   *)
(* ID, then the result.  The response slot is guarded by nothing but the   *)
(* ID, the completion slot by a sequence that is odd while it is written.  *)
(* Each half of a slot is modelled as the command it was written for; a    *)
(* reader sees of the first half only the request ID.                      *)
(***************************************************************************)
EXTENDS CommandRing

VARIABLES
  call,              \* what each client's method is at
  observed,          \* the response sequence wait_for_response has loaded
  watermark,         \* standby_watermark, read before a standby request
  expecting,         \* the accepted standby command whose completion is awaited
  before,            \* the sequence read_standby_completion has loaded
  snapshot,          \* the halves of the completion slot it has copied
  task,              \* where the receive loop stands
  standby,           \* the PendingStandbyLoad
  leaving,           \* the loop has seen the shutdown flag
  responseSequence,  \* SharedRing.response_sequence
  response,          \* SharedRing.response
  outcome,           \* what the server is about to respond
  responseEvent,     \* the auto-reset event that wakes the client
  standbySequence,   \* SharedRing.standby_sequence
  completion         \* SharedRing.standby

callVars == <<call, observed, watermark, expecting, before, snapshot>>
loopVars == <<task, standby, leaving, outcome>>
slotVars == <<responseSequence, response, responseEvent, standbySequence, completion>>
ipcVars == <<callVars, loopVars, slotVars>>
vars == <<ringVars, ipcVars>>

NoSnapshot == [id |-> NoCommand, body |-> NoCommand]

Init ==
  /\ RingInit
  /\ call = [c \in Clients |-> "none"]
  /\ observed = [c \in Clients |-> 0]
  /\ watermark = [c \in Clients |-> 0]
  /\ expecting = [c \in Clients |-> NoCommand]
  /\ before = [c \in Clients |-> 0]
  /\ snapshot = [c \in Clients |-> NoSnapshot]
  /\ task = "top"
  /\ standby = NoCommand
  /\ leaving = FALSE
  /\ responseSequence = 0
  /\ response = [id |-> NoCommand, body |-> NoCommand, ok |-> FALSE]
  /\ outcome = FALSE
  /\ responseEvent = FALSE
  /\ standbySequence = 0
  /\ completion = NoSnapshot

In(c, step) == c \in alive /\ call[c] = step
Step(c, next) == call' = [call EXCEPT ![c] = next]

(***************************************************************************)
(* The client's methods                                                    *)
(***************************************************************************)
Idle(c) == In(c, "none") /\ pc[c] = "connected"

\* standby_watermark: rounded up, so that a publication under way is past.
RoundedUp(sequence) == sequence + (sequence % 2)

ReadWatermark(c) ==
  /\ Idle(c)
  /\ begun < MaxBegun
  /\ expecting[c] = NoCommand
  /\ watermark' = [watermark EXCEPT ![c] = RoundedUp(standbySequence)]
  /\ Step(c, "watermark")
  /\ UNCHANGED <<ringVars, observed, expecting, before, snapshot, loopVars, slotVars>>

BeginCall(c) ==
  /\ \/ Idle(c) /\ \E kind \in {"event", "patch"} : BeginPush(c, kind)
     \/ In(c, "watermark") /\ BeginPush(c, "standby")
  /\ Step(c, "push")
  /\ UNCHANGED <<observed, watermark, expecting, before, snapshot, loopVars, slotVars>>

\* push() returns an error: so does the method.
CallFails(c) ==
  /\ PushFails(c)
  /\ Step(c, "none")
  /\ UNCHANGED <<observed, watermark, expecting, before, snapshot, loopVars, slotVars>>

\* push() has set the event; a request goes on to wait_for_response.
CallIsSent(c) ==
  /\ SignalCommand(c)
  /\ Step(c, IF command[c].kind \in Requests THEN "observe" ELSE "none")
  /\ UNCHANGED <<observed, watermark, expecting, before, snapshot, loopVars, slotVars>>

ObserveSequence(c) ==
  /\ In(c, "observe")
  /\ observed' = [observed EXCEPT ![c] = responseSequence]
  /\ Step(c, "look")
  /\ UNCHANGED <<ringVars, watermark, expecting, before, snapshot, loopVars, slotVars>>

\* read_response: the request ID first ...
LookAtResponse(c) ==
  /\ In(c, "look")
  /\ Step(c, IF observed[c] # 0 /\ response.id.request = command[c].request
               THEN "body" ELSE "wait")
  /\ UNCHANGED <<ringVars, observed, watermark, expecting, before, snapshot, loopVars,
                 slotVars>>

\* ... then status and payload, which are returned.  A standby request that is
\* accepted is polled for from now on.
ReadResponse(c) ==
  /\ In(c, "body")
  /\ Step(c, "none")
  /\ expecting' = IF command[c].kind = "standby" /\ response.ok
                    THEN [expecting EXCEPT ![c] = command[c]] ELSE expecting
  /\ observed' = [observed EXCEPT ![c] = 0]
  /\ UNCHANGED <<ringVars, watermark, before, snapshot, loopVars, slotVars>>

\* Seeded fault: the sequence is loaded only once.
LookAgain == "look"

ObserveAgain == "observe"

WakeForResponse(c) ==
  /\ In(c, "wait")
  /\ responseEvent
  /\ responseEvent' = FALSE
  /\ Step(c, ObserveAgain)
  /\ UNCHANGED <<ringVars, observed, watermark, expecting, before, snapshot, loopVars,
                 responseSequence, response, standbySequence, completion>>

\* RESPONSE_TIMEOUT
ResponseTimesOut(c) ==
  /\ In(c, "wait")
  /\ Step(c, "none")
  /\ observed' = [observed EXCEPT ![c] = 0]
  /\ UNCHANGED <<ringVars, watermark, expecting, before, snapshot, loopVars, slotVars>>

\* Seeded fault: an odd sequence will do.
AnySequence == TRUE

Settled == standbySequence % 2 = 0

\* read_standby_completion: an even sequence other than 0 ...
PollBefore(c) ==
  /\ Idle(c)
  /\ expecting[c] # NoCommand
  /\ Settled
  /\ standbySequence # 0
  /\ before' = [before EXCEPT ![c] = standbySequence]
  /\ Step(c, "copyId")
  /\ UNCHANGED <<ringVars, observed, watermark, expecting, snapshot, loopVars, slotVars>>

\* ... the slot ...
CopyId(c) ==
  /\ In(c, "copyId")
  /\ snapshot' = [snapshot EXCEPT ![c].id = completion.id]
  /\ Step(c, "copyBody")
  /\ UNCHANGED <<ringVars, observed, watermark, expecting, before, loopVars, slotVars>>

CopyBody(c) ==
  /\ In(c, "copyBody")
  /\ snapshot' = [snapshot EXCEPT ![c].body = completion.body]
  /\ Step(c, "after")
  /\ UNCHANGED <<ringVars, observed, watermark, expecting, before, loopVars, slotVars>>

\* ... and the same sequence again, without which it begins anew.
SnapshotIsStable(c) == standbySequence = before[c]

IsCompletion(c) ==
  /\ before[c] > watermark[c]
  /\ snapshot[c].id.request = expecting[c].request

Accepts(c) == In(c, "after") /\ SnapshotIsStable(c) /\ IsCompletion(c)

PollAfter(c) ==
  /\ In(c, "after")
  /\ expecting' = IF Accepts(c) THEN [expecting EXCEPT ![c] = NoCommand] ELSE expecting
  /\ before' = [before EXCEPT ![c] = 0]
  /\ snapshot' = [snapshot EXCEPT ![c] = NoSnapshot]
  /\ Step(c, "none")
  /\ UNCHANGED <<ringVars, observed, watermark, loopVars, slotVars>>

DropClient(c) ==
  /\ In(c, "none")
  /\ Disconnect(c)
  /\ expecting' = [expecting EXCEPT ![c] = NoCommand]
  /\ watermark' = [watermark EXCEPT ![c] = 0]
  /\ UNCHANGED <<call, observed, before, snapshot, loopVars, slotVars>>

\* Die, in the middle of any method.
ClientDies(c) ==
  /\ Die(c)
  /\ call' = [call EXCEPT ![c] = "none"]
  /\ observed' = [observed EXCEPT ![c] = 0]
  /\ watermark' = [watermark EXCEPT ![c] = 0]
  /\ expecting' = [expecting EXCEPT ![c] = NoCommand]
  /\ before' = [before EXCEPT ![c] = 0]
  /\ snapshot' = [snapshot EXCEPT ![c] = NoSnapshot]
  /\ UNCHANGED <<loopVars, slotVars>>

(***************************************************************************)
(* run_fast_midi_server                                                    *)
(***************************************************************************)
\* Seeded fault: at the end of the loop only what is ready is published.
OnlyEnded(ended) == standby # NoCommand /\ ended

\* publish_ready_standby polls the ticket; at the end of the loop
\* fail_pending_standby does not.
HasCompletion(ended) == standby # NoCommand /\ (ended \/ leaving')

\* The flag may have been set, and the preload have ended, at any time before.
BeginRound ==
  /\ task = "top"
  /\ leaving' \in BOOLEAN
  /\ \E ended \in BOOLEAN :
       task' = IF HasCompletion(ended) THEN "odd" ELSE IF leaving' THEN "stopped" ELSE "receive"
  /\ UNCHANGED <<ringVars, callVars, standby, outcome, slotVars>>

\* publish_standby_completion: odd ...
BeginCompletion ==
  /\ task = "odd"
  /\ standbySequence' = standbySequence + 1
  /\ task' = "completionId"
  /\ UNCHANGED <<ringVars, callVars, standby, leaving, outcome,
                 responseSequence, response, responseEvent, completion>>

\* ... the slot ...
WriteCompletionId ==
  /\ task = "completionId"
  /\ completion' = [completion EXCEPT !.id = standby]
  /\ task' = "completionBody"
  /\ UNCHANGED <<ringVars, callVars, standby, leaving, outcome,
                 responseSequence, response, responseEvent, standbySequence>>

WriteCompletionBody ==
  /\ task = "completionBody"
  /\ completion' = [completion EXCEPT !.body = standby]
  /\ task' = "even"
  /\ UNCHANGED <<ringVars, callVars, standby, leaving, outcome,
                 responseSequence, response, responseEvent, standbySequence>>

\* ... even.
EndCompletion ==
  /\ task = "even"
  /\ standbySequence' = standbySequence + 1
  /\ task' = "hint"
  /\ UNCHANGED <<ringVars, callVars, standby, leaving, outcome,
                 responseSequence, response, responseEvent, completion>>

\* The response event, "only a hint".
SignalCompletion ==
  /\ task = "hint"
  /\ responseEvent' = TRUE
  /\ standby' = NoCommand
  /\ task' = IF leaving THEN "stopped" ELSE "receive"
  /\ UNCHANGED <<ringVars, callVars, leaving, outcome, responseSequence, response,
                 standbySequence, completion>>

\* recv_timeout: a command, or the event, or IPC_WAIT_TIMEOUT.
Receive ==
  /\ task = "receive"
  /\ \/ LoadReadIndex /\ UNCHANGED task
     \/ FindEmpty /\ task' = "wait"
     \/ CopySlot /\ UNCHANGED task
     \/ StoreReadIndex /\ task' = "dispatch"
  /\ UNCHANGED <<callVars, standby, leaving, outcome, slotVars>>

WaitForCommand ==
  /\ task = "wait"
  /\ \/ ConsumeSignal /\ task' = "receive"
     \/ UNCHANGED ringVars /\ task' = "top"
  /\ UNCHANGED <<callVars, standby, leaving, outcome, slotVars>>

\* A command without a response is submitted to the player.  (One that cannot
\* be decoded is dropped.)
DispatchEvent ==
  /\ task = "dispatch"
  /\ taken.kind \notin Requests
  /\ task' = "top"
  /\ UNCHANGED <<ringVars, callVars, standby, leaving, outcome, slotVars>>

\* A patch load or probe is waited for.
DispatchPatch ==
  /\ task = "dispatch"
  /\ taken.kind = "patch"
  /\ outcome' \in BOOLEAN
  /\ task' = "responseId"
  /\ UNCHANGED <<ringVars, callVars, standby, leaving, slotVars>>

\* For longer than SERVER_STALE_MS: a patch takes its time, or the server is gone.
ServerIsSilent ==
  /\ \/ task = "dispatch" /\ taken.kind = "patch"
     \/ task = "stopped"
  /\ HeartbeatAges
  /\ UNCHANGED ipcVars

Vacant == standby = NoCommand

\* accept_standby: busy, or the player takes it, or it fails.
DispatchStandby ==
  /\ task = "dispatch"
  /\ taken.kind = "standby"
  /\ \/ /\ Vacant
        /\ standby' = taken
        /\ outcome' = TRUE
     \/ /\ outcome' = FALSE
        /\ UNCHANGED standby
  /\ task' = "responseId"
  /\ UNCHANGED <<ringVars, callVars, leaving, slotVars>>

\* complete_request refuses a payload that is too long, be it a report or an
\* error, and nothing is written.
ResponseTooLong ==
  /\ task = "responseId"
  /\ taken.kind = "patch" \/ ~outcome
  /\ task' = "top"
  /\ outcome' = FALSE
  /\ UNCHANGED <<ringVars, callVars, standby, leaving, slotVars>>

WriteResponseId ==
  /\ task = "responseId"
  /\ response' = [response EXCEPT !.id = taken]
  /\ task' = "responseBody"
  /\ UNCHANGED <<ringVars, callVars, standby, leaving, outcome,
                 responseSequence, responseEvent, standbySequence, completion>>

WriteResponseBody ==
  /\ task = "responseBody"
  /\ response' = [response EXCEPT !.body = taken, !.ok = outcome]
  /\ outcome' = FALSE
  /\ task' = "responseSequence"
  /\ UNCHANGED <<ringVars, callVars, standby, leaving,
                 responseSequence, responseEvent, standbySequence, completion>>

AdvanceResponse ==
  /\ task = "responseSequence"
  /\ responseSequence' = responseSequence + 1
  /\ task' = "responseEvent"
  /\ UNCHANGED <<ringVars, callVars, standby, leaving, outcome, response,
                 responseEvent, standbySequence, completion>>

SignalResponse ==
  /\ task = "responseEvent"
  /\ responseEvent' = TRUE
  /\ task' = "top"
  /\ UNCHANGED <<ringVars, callVars, standby, leaving, outcome,
                 responseSequence, response, standbySequence, completion>>

-----------------------------------------------------------------------------
\* Steps that concern the ring alone.
RingStep(c) ==
  /\ \/ BeginConnect(c)
     \/ ConnectStep(c)
     \/ WriteSlot(c)
     \/ Publish(c)
  /\ UNCHANGED ipcVars

CallStep(c) ==
  \/ ReadWatermark(c)
  \/ BeginCall(c)
  \/ CallFails(c)
  \/ CallIsSent(c)
  \/ ObserveSequence(c)
  \/ LookAtResponse(c)
  \/ ReadResponse(c)
  \/ WakeForResponse(c)
  \/ ResponseTimesOut(c)

PollStep(c) ==
  \/ PollBefore(c)
  \/ CopyId(c)
  \/ CopyBody(c)
  \/ PollAfter(c)

ClientStep(c) ==
  \/ RingStep(c)
  \/ CallStep(c)
  \/ PollStep(c)
  \/ DropClient(c)
  \/ ClientDies(c)

PublishStep ==
  \/ BeginCompletion
  \/ WriteCompletionId
  \/ WriteCompletionBody
  \/ EndCompletion
  \/ SignalCompletion

RespondStep ==
  \/ ResponseTooLong
  \/ WriteResponseId
  \/ WriteResponseBody
  \/ AdvanceResponse
  \/ SignalResponse

ServerStep ==
  \/ BeginRound
  \/ PublishStep
  \/ Receive
  \/ WaitForCommand
  \/ DispatchEvent
  \/ DispatchPatch
  \/ DispatchStandby
  \/ RespondStep

Next ==
  \/ \E c \in Clients : ClientStep(c)
  \/ ServerStep
  \/ ServerIsSilent

Spec == Init /\ [][Next]_vars

-----------------------------------------------------------------------------
(***************************************************************************)
(* Properties                                                              *)
(***************************************************************************)
Calls == {"none", "watermark", "push", "observe", "look", "body", "wait",
          "copyId", "copyBody", "after"}
Tasks == {"top", "odd", "completionId", "completionBody", "even", "hint", "receive", "wait",
          "dispatch", "responseId", "responseBody", "responseSequence", "responseEvent",
          "stopped"}
Halves == [id : AnyCommands, body : AnyCommands]

IpcTypeOK ==
  /\ RingTypeOK
  /\ ~overtaken => Distance(readIndex, writeIndex) <= SlotCount
  /\ call \in [Clients -> Calls]
  /\ observed \in [Clients -> Nat]
  /\ watermark \in [Clients -> Nat]
  /\ expecting \in [Clients -> AnyCommands]
  /\ before \in [Clients -> Nat]
  /\ snapshot \in [Clients -> Halves]
  /\ task \in Tasks
  /\ standby \in AnyCommands
  /\ response \in [id : AnyCommands, body : AnyCommands, ok : BOOLEAN]
  /\ completion \in Halves
  /\ {leaving, outcome, responseEvent} \subseteq BOOLEAN
  /\ responseSequence \in Nat /\ standbySequence \in Nat
  /\ task # "receive" => serverPc = "idle"

\* A client that sleeps although its response is there is about to be woken:
\* it does not sit through the timeout of 30 seconds, whatever else sets or
\* consumes the event.  (Unless old commands came back and are answered too.)
ResponseIsSignalled ==
  ~overtaken =>
    \A c \in alive :
      call[c] = "wait" /\ response.body = command[c] =>
        responseEvent \/ task \in {"responseSequence", "responseEvent"}

\* A completion that a client accepts was read whole: its ID and its result
\* were written for the same preload, though the server writes while the
\* client reads.
CompletionIsWhole ==
  \A c \in Clients : Accepts(c) => snapshot[c].id = snapshot[c].body

Completed(n) == completion.id.no = n /\ completion.body.no = n /\ standbySequence % 2 = 0

\* The server takes one preload at a time and lets go of it only when its
\* completion is there for the client to read whole, be it that the load ended,
\* or that the server is shut down: a client that waits for the completion of a
\* preload the server took does not wait for ever.
PreloadIsCompleted ==
  [][standby # NoCommand /\ (standby' # standby \/ task' = "stopped")
       => Completed(standby.no)]_vars
=============================================================================
