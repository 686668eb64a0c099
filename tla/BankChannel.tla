----------------------------- MODULE BankChannel -----------------------------
(***************************************************************************)
(* The bank workers and the channels to them                               *)
(* (realtime-play-server/src/player/worker/bank/{handle,state,protocol}.rs *)
(* and bank.rs).  Each bank thread owns the plugin instances of its bank   *)
(* and handles one command at a time.  Requests are answered over a single *)
(* reply channel per bank, so the coordinator may have one request         *)
(* outstanding per bank: BankWorker.busy.                                  *)
(*                                                                         *)
(* Of an instance the model keeps whether a note of it may still be        *)
(* sounding: "cur" when the note belongs to the performance being played,  *)
(* "old" when it belongs to an earlier one.  A rendered instance counts as *)
(* sounding until it is released or reset; its note offs only make it      *)
(* quieter than the model thinks.                                          *)
(*                                                                         *)
(* As in PlayerCommands, a "seeded fault" is no part of the specification. *)
(***************************************************************************)
EXTENDS Naturals, Sequences, FiniteSets

CONSTANTS
  Banks,      \* the bank indices
  BankOf,     \* instance -> the bank that owns it (BankLayout)
  Crashable,  \* the banks whose thread may die (spawn failure, plugin panic)
  Faulty,     \* the instances whose plugin may fail to render or to load
  First       \* the instance scheduled playback uses: bank 0, local index 0

Owned(b) == {i \in DOMAIN BankOf : BankOf[i] = b}

VARIABLES
  commands,   \* bank -> the command channel
  replies,    \* bank -> the reply channel
  busy,       \* bank -> BankWorker.busy
  asked,      \* bank -> the request whose reply has not been received
  dead,       \* the banks whose thread has ended, by Shutdown or by a panic
  held,       \* instance -> "no", "cur" or "old"
  releaseNext \* the instances that release their notes in the next block

bankVars == <<commands, replies, busy, asked, dead, held, releaseNext>>

\* Requests that are answered.  who tells apart the patch loads: "standby" for
\* a preload nobody waits for, "sync" for one the coordinator waits for.
Request(op, who, insts) == [op |-> op, who |-> who, insts |-> insts]
Render(insts) == Request("RenderBlock", "render", insts)
RenderScheduled == Request("RenderScheduled", "render", {First})
PreparePatch(who, i) == Request("PreparePatch", who, {i})
ProbePatch(i) == Request("ProbePatch", "sync", {i})

\* Notifications, which are not answered.
Notice(op, insts) == Request(op, "none", insts)

NoRequest == Notice("none", {})

\* failed is the set of instances a render failed for, one by one.
Reply(request, result, failed) ==
  [request |-> request, result |-> result, failed |-> failed]

BankInit ==
  /\ commands = [b \in Banks |-> <<>>]
  /\ replies = [b \in Banks |-> <<>>]
  /\ busy = [b \in Banks |-> FALSE]
  /\ asked = [b \in Banks |-> NoRequest]
  /\ dead = {}
  /\ held = [i \in DOMAIN BankOf |-> "no"]
  /\ releaseNext = {}

(***************************************************************************)
(* The coordinator's side (BankWorker in handle.rs)                        *)
(***************************************************************************)
\* Seeded fault: the end of a bank thread goes unnoticed.
CanReceiveReply(b) == replies[b] # <<>>

\* receive(): a bank that died answers what it had sent, then nothing.
CanReceive(b) == replies[b] # <<>> \/ b \in dead

\* The reply receive() returns: the next one of the channel, or an error.
NextReply(b) ==
  IF replies[b] # <<>> THEN Head(replies[b]) ELSE Reply(NoRequest, "err", {})

\* What the coordinator makes of it: a reply to another kind of request than op
\* is an error too.
ResultOf(b, op) == IF NextReply(b).request.op = op THEN NextReply(b).result ELSE "err"

Rest(b) == IF replies[b] # <<>> THEN Tail(replies[b]) ELSE <<>>

\* Seeded fault: the bank stays busy after its reply was taken.
ReceiveKeepsBusy(bs) ==
  /\ \A b \in bs : CanReceive(b)
  /\ replies' = [b \in Banks |-> IF b \in bs THEN Rest(b) ELSE replies[b]]
  /\ asked' = [b \in Banks |-> IF b \in bs THEN NoRequest ELSE asked[b]]
  /\ UNCHANGED <<busy, dead, held, releaseNext>>

ReceiveFrom(bs) ==
  /\ \A b \in bs : CanReceive(b)
  /\ replies' = [b \in Banks |-> IF b \in bs THEN Rest(b) ELSE replies[b]]
  /\ busy' = [b \in Banks |-> b \notin bs /\ busy[b]]
  /\ asked' = [b \in Banks |-> IF b \in bs THEN NoRequest ELSE asked[b]]
  /\ UNCHANGED <<dead, held, releaseNext>>

\* Sending to a bank that died fails and leaves it not busy.
SendFails(b) == b \in dead

\* send() to all the banks of a function bank -> request, the command channels
\* being queues.  A reply that is still outstanding is waited for and thrown
\* away first.
SendTo(queues, requests) ==
  LET to == {b \in DOMAIN requests : ~SendFails(b)}
      late == {b \in DOMAIN requests : busy[b]}
  IN  /\ \A b \in late : CanReceive(b)
      /\ replies' = [b \in Banks |-> IF b \in late THEN Rest(b) ELSE replies[b]]
      /\ commands' = [b \in Banks |->
                        IF b \in to THEN Append(queues[b], requests[b]) ELSE queues[b]]
      /\ busy' = [b \in Banks |-> IF b \in late \cup to THEN b \in to ELSE busy[b]]
      /\ asked' = [b \in Banks |-> IF b \in to THEN requests[b] ELSE asked[b]]
      /\ UNCHANGED <<dead, releaseNext>>

\* The command channels after notify(): one notice to every bank of bs.  It is
\* lost when the bank died.
Notified(bs, notice) ==
  [b \in Banks |-> IF b \in bs \ dead THEN Append(commands[b], notice) ELSE commands[b]]

Notify(bs, notice) ==
  /\ commands' = Notified(bs, notice)
  /\ UNCHANGED <<replies, busy, asked, dead, releaseNext>>

\* Every note sounding now belongs to an earlier performance from here on.
NewLine == held' = [i \in DOMAIN held |-> IF held[i] = "cur" THEN "old" ELSE held[i]]

(***************************************************************************)
(* The bank thread (run_bank_worker)                                       *)
(***************************************************************************)
Answer(b, result, failed) ==
  replies' = [replies EXCEPT ![b] = Append(@, Reply(Head(commands[b]), result, failed))]

Handle(b, op) ==
  /\ b \notin dead
  /\ commands[b] # <<>>
  /\ Head(commands[b]).op = op
  /\ commands' = [commands EXCEPT ![b] = Tail(@)]
  /\ UNCHANGED <<busy, asked, dead>>

ErrorsOf(insts) == IF insts \cap Faulty # {} THEN {"err"} ELSE {}

Silence(insts) == held' = [i \in DOMAIN held |-> IF i \in insts THEN "no" ELSE held[i]]

BankResetAll(b) ==
  /\ Handle(b, "ResetAll")
  /\ Silence(Owned(b))
  /\ UNCHANGED <<replies, releaseNext>>

BankReleaseAll(b) ==
  /\ Handle(b, "ReleaseAll")
  /\ Silence(Owned(b))
  /\ UNCHANGED <<replies, releaseNext>>

BankReleaseInstance(b) ==
  /\ Handle(b, "ReleaseInstance")
  /\ Silence(Head(commands[b]).insts)
  /\ UNCHANGED <<replies, releaseNext>>

BankReleaseAllInNextBlock(b) ==
  /\ Handle(b, "ReleaseAllInNextBlock")
  /\ releaseNext' = releaseNext \cup Owned(b)
  /\ UNCHANGED <<replies, held>>

\* The ramp runs over the following blocks; the notes under it stay held until
\* it reaches silence, which this model does not wait for.
BankFadeOut(b) ==
  /\ Handle(b, "FadeOut")
  /\ UNCHANGED <<replies, held, releaseNext>>

\* Instances fail one by one: a failed one is reset, the others sound.
BankRenderBlock(b) ==
  /\ Handle(b, "RenderBlock")
  /\ LET insts == Head(commands[b]).insts
     IN  \E failed \in SUBSET (insts \cap Faulty) :
           /\ held' = [i \in DOMAIN held |->
                         IF i \in failed THEN "no" ELSE IF i \in insts THEN "cur" ELSE held[i]]
           /\ releaseNext' = releaseNext \ insts
           /\ Answer(b, "ok", failed)

\* "end" is Ok(None), the end of the schedule.
BankRenderScheduled(b) ==
  /\ Handle(b, "RenderScheduled")
  /\ held' = [held EXCEPT ![First] = "cur"]
  /\ releaseNext' = releaseNext \ {First}
  /\ \E result \in {"ok", "end"} \cup ErrorsOf({First}) : Answer(b, result, {})

\* A load may fail before or after it reset the instance, and a plugin that
\* keeps its voices across a load is not reset at all.
BankPatch(b) ==
  /\ \/ Handle(b, "PreparePatch")
     \/ Handle(b, "ProbePatch")
  /\ \/ UNCHANGED held
     \/ Silence(Head(commands[b]).insts)
  /\ \E result \in {"ok"} \cup ErrorsOf(Head(commands[b]).insts) : Answer(b, result, {})
  /\ UNCHANGED releaseNext

\* The thread ends: its queue goes with it, the replies it had sent can still be
\* received.
EndThread(b) ==
  /\ b \notin dead
  /\ commands[b] # <<>>
  /\ dead' = dead \cup {b}
  /\ commands' = [commands EXCEPT ![b] = <<>>]
  /\ UNCHANGED <<replies, busy, asked, held, releaseNext>>

BankShutdown(b) ==
  /\ EndThread(b)
  /\ Head(commands[b]).op = "Shutdown"

\* A panic while it works on a command.
BankDies(b) ==
  /\ EndThread(b)
  /\ b \in Crashable

BankStep(b) ==
  \/ BankResetAll(b)
  \/ BankReleaseAll(b)
  \/ BankReleaseInstance(b)
  \/ BankReleaseAllInNextBlock(b)
  \/ BankFadeOut(b)
  \/ BankRenderBlock(b)
  \/ BankRenderScheduled(b)
  \/ BankPatch(b)
  \/ BankShutdown(b)
=============================================================================
