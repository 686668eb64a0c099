-------------------------------- MODULE Meters --------------------------------
(***************************************************************************)
(* What a client sees of the sound, on its way from the render loop        *)
(* (player/auto_gain.rs, timing_diagnostics.rs, runtime.rs) over the       *)
(* receive thread of the IPC to the client (realtime-ipc/src/windows/      *)
(* meters.rs): the trim of an instance, the limiter's reduction and the    *)
(* timing metrics.  Nothing is locked: every load, store, swap and         *)
(* compare-exchange is a step of its own, in one order for all threads.    *)
(*                                                                         *)
(* The three share no cell, so a behaviour follows one of them.  One       *)
(* instance stands for all, and two of the nine metrics, the events of a   *)
(* window and the late ones among them, for the others.                    *)
(***************************************************************************)
EXTENDS Integers, FiniteSets

CONSTANTS
  Levels,             \* gain that a sound asks for, as target_rms_db says
  MinGain, MaxGain,   \* MIN_GAIN_DB, MAX_GAIN_DB
  Attack, Release,    \* most that the gain falls or rises in a block
  MaxReduction,       \* bound: reductions of the limiter
  MaxBlocks, MaxReads \* bounds: blocks of a behaviour; reads, publications and switches

ASSUME MeterAssumption ==
  /\ Levels \subseteq Int /\ {MinGain, MaxGain} \subseteq Int
  /\ MinGain <= 0 /\ 0 <= MaxGain
  /\ {Attack, Release, MaxReduction, MaxBlocks, MaxReads} \subseteq Nat

VARIABLES
  follows,   \* the reading that is followed
  blocks, reads,
  loop, receiver, client,      \* where each thread is, and what it has in hand
  enabled, trim, gain, quiet,  \* the auto gain, its copy; history: blocks mixed since it is off
  peak, ringPeak, told,        \* the limiter's peak, its copy in the ring; what the client was told
  window, metric, ringMetric, sequence, \* the metrics, on their way to the client
  published, taken             \* history: metrics published; those the client took last

trimVars == <<enabled, trim, gain, quiet>>
peakVars == <<peak, ringPeak, told>>
metricVars == <<window, metric, ringMetric, sequence, published, taken>>
meterVars == <<follows, blocks, reads, loop, receiver, client, trimVars, peakVars, metricVars>>

NoMetric == [events |-> 0, late |-> 0]
Idle == [at |-> "idle", peak |-> 0, seen |-> 0, metric |-> NoMetric]
Unmeasured == [gain |-> 0, measured |-> FALSE]

MeterInit ==
  /\ follows \in {"trim", "peak", "metric"} /\ blocks = 0 /\ reads = 0
  /\ loop = Idle /\ receiver = Idle /\ client = Idle
  /\ enabled = FALSE /\ trim = Unmeasured /\ gain = 0 /\ quiet = 0
  /\ peak = 0 /\ ringPeak = 0 /\ told = 0
  /\ window = NoMetric /\ metric = NoMetric /\ ringMetric = NoMetric /\ sequence = 0
  /\ published = {NoMetric} /\ taken = NoMetric

Lower(a, b) == IF a < b THEN a ELSE b
Larger(a, b) == IF a < b THEN b ELSE a
Within(x, low, high) == Larger(low, Lower(x, high))

Block(what) == follows = what /\ loop.at = "idle" /\ blocks < MaxBlocks /\ blocks' = blocks + 1 /\ UNCHANGED <<follows, reads>>
Goes(what) == follows = what /\ UNCHANGED <<follows, blocks, reads>>
Asks(what) == follows = what /\ reads < MaxReads /\ reads' = reads + 1 /\ UNCHANGED <<follows, blocks>>

(***************************************************************************)
(* The trim                                                                *)
(***************************************************************************)
\* process_block, slew_gain_db: silence and what is not finite keep the trim, a first block
\* only lowers it, and the others move it by a bounded amount.
Trimmed(level) ==
  LET desired == Within(level, MinGain, MaxGain)
  IN IF level \notin Levels THEN trim
     ELSE IF ~trim.measured THEN [gain |-> Lower(desired, 0), measured |-> TRUE]
     ELSE [trim EXCEPT !.gain = @ + Within(desired - @, -Attack, Release)]

\* Seeded fault: switched off, the trim is bypassed but not forgotten.
BypassesTrim(on, level) == IF on THEN Trimmed(level) ELSE trim

TrimAfter(on, level) == IF on THEN Trimmed(level) ELSE Unmeasured

\* render_live_mix reads the switch once, before the block.
ReadSwitch ==
  /\ Block("trim")
  /\ loop' = [loop EXCEPT !.at = IF enabled THEN "trims" ELSE "bypasses"]
  /\ UNCHANGED <<receiver, client, trimVars, peakVars, metricVars>>

\* process_block and set_gain_db
MixBlock(level) ==
  /\ Goes("trim") /\ loop.at \in {"trims", "bypasses"}
  /\ trim' = TrimAfter(loop.at = "trims", level) /\ gain' = trim'.gain
  /\ quiet' = IF loop.at = "bypasses" THEN 1 ELSE quiet
  /\ loop' = Idle
  /\ UNCHANGED <<receiver, client, enabled, peakVars, metricVars>>

\* clear_gains, and the trim of a live goes with it.
EndTrim ==
  /\ Goes("trim") /\ loop.at = "idle"
  /\ trim' = Unmeasured /\ gain' = 0
  /\ UNCHANGED <<loop, receiver, client, enabled, quiet, peakVars, metricVars>>

\* AutoGainControl::set_enabled stores the switch, and clears the gains if it is off.
SetEnabled(on) ==
  /\ Asks("trim") /\ receiver.at = "idle" /\ enabled # on
  /\ enabled' = on /\ quiet' = 0
  /\ receiver' = [receiver EXCEPT !.at = IF on THEN "idle" ELSE "clears"]
  /\ UNCHANGED <<loop, client, trim, gain, peakVars, metricVars>>

ClearGains ==
  /\ Goes("trim") /\ receiver.at = "clears"
  /\ gain' = 0 /\ receiver' = Idle
  /\ UNCHANGED <<loop, client, enabled, trim, quiet, peakVars, metricVars>>

TrimNext ==
  \/ ReadSwitch \/ EndTrim \/ ClearGains
  \/ \E level \in Levels \cup {MaxGain + 100}: MixBlock(level)
  \/ \E on \in BOOLEAN: SetEnabled(on)

(***************************************************************************)
(* The limiter's peak                                                      *)
(***************************************************************************)
\* Seeded fault: a later peak replaces the larger one.
ReplacesPeak(hand, cell, high) == [hand EXCEPT !.at = "raises", !.peak = high, !.seen = cell]

\* update_atomic_max: a load, then a compare-exchange that may have to try again.
Loads(hand, cell, high) ==
  IF cell >= high THEN Idle ELSE [hand EXCEPT !.at = "raises", !.peak = high, !.seen = cell]

Swaps(hand, cell) == cell = hand.seen
AfterRaise(hand, cell) == IF Swaps(hand, cell) THEN Idle ELSE Loads(hand, cell, hand.peak)

LimitBlock(reduction) ==
  /\ Block("peak") /\ loop' = Loads(loop, peak, reduction)
  /\ UNCHANGED <<receiver, client, trimVars, peakVars, metricVars>>

RaisePeak ==
  /\ Goes("peak") /\ loop.at = "raises"
  /\ peak' = (IF Swaps(loop, peak) THEN loop.peak ELSE peak) /\ loop' = AfterRaise(loop, peak)
  /\ UNCHANGED <<receiver, client, ringPeak, told, trimVars, metricVars>>

\* LimiterMeterState::reset
ResetPeak ==
  /\ Goes("peak") /\ loop.at = "idle"
  /\ peak' = 0
  /\ UNCHANGED <<loop, receiver, client, ringPeak, told, trimVars, metricVars>>

\* LimiterMeterState::snapshot swaps the peak out.
TakePeak ==
  /\ Goes("peak") /\ receiver.at = "idle"
  /\ receiver' = [receiver EXCEPT !.at = "offers", !.peak = peak]
  /\ peak' = 0
  /\ UNCHANGED <<loop, client, ringPeak, told, trimVars, metricVars>>

OfferPeak ==
  /\ Goes("peak") /\ receiver.at = "offers"
  /\ receiver' = Loads(receiver, ringPeak, receiver.peak)
  /\ UNCHANGED <<loop, client, peakVars, trimVars, metricVars>>

RingAfter(hand, cell) == IF Swaps(hand, cell) THEN hand.peak ELSE cell

PublishPeak ==
  /\ Goes("peak") /\ receiver.at = "raises"
  /\ ringPeak' = RingAfter(receiver, ringPeak) /\ receiver' = AfterRaise(receiver, ringPeak)
  /\ UNCHANGED <<loop, client, peak, told, trimVars, metricVars>>

\* limiter_meter: the client swaps it out of the ring.
ReadPeak ==
  /\ Asks("peak")
  /\ told' = ringPeak /\ ringPeak' = 0
  /\ UNCHANGED <<loop, receiver, client, peak, trimVars, metricVars>>

PeakNext ==
  \/ \E reduction \in 0 .. MaxReduction: LimitBlock(reduction)
  \/ RaisePeak \/ ResetPeak \/ TakePeak \/ OfferPeak \/ PublishPeak \/ ReadPeak

(***************************************************************************)
(* The timing metrics                                                      *)
(***************************************************************************)
\* observe_events, observe_block of an event that may be late; publish_if_due.
CountBlock(late, due) ==
  /\ Block("metric")
  /\ window' = [events |-> window.events + 1, late |-> window.late + late]
  /\ loop' = IF due THEN [loop EXCEPT !.at = "storesEvents"] ELSE loop
  /\ UNCHANGED <<receiver, client, metric, ringMetric, sequence, published, taken, trimVars, peakVars>>

\* TimingMetricsState::update, one store after the other.
StoreEvents ==
  /\ Goes("metric") /\ loop.at = "storesEvents"
  /\ metric' = [metric EXCEPT !.events = window.events]
  /\ loop' = [loop EXCEPT !.at = "storesLate"]
  /\ UNCHANGED <<receiver, client, window, ringMetric, sequence, published, taken, trimVars, peakVars>>

StoreLate ==
  /\ Goes("metric") /\ loop.at = "storesLate"
  /\ metric' = [metric EXCEPT !.late = window.late]
  /\ window' = NoMetric /\ loop' = Idle
  /\ UNCHANGED <<receiver, client, ringMetric, sequence, published, taken, trimVars, peakVars>>

\* snapshot and publish_timing_metrics, the cells in this order.  The snapshot may mix two
\* windows; the sequence is odd while it is stored.
Then(at, next) == receiver.at = at /\ receiver' = [receiver EXCEPT !.at = next]
Ring == UNCHANGED <<loop, client, window, metric, taken, trimVars, peakVars>>

SnapshotEvents ==
  /\ Goes("metric") /\ receiver.at = "idle" /\ sequence < 2 * MaxReads
  /\ receiver' = [receiver EXCEPT !.at = "late", !.metric.events = metric.events]
  /\ UNCHANGED <<ringMetric, sequence, published>> /\ Ring

SnapshotLate ==
  /\ Goes("metric") /\ receiver.at = "late"
  /\ receiver' = [receiver EXCEPT !.at = "begins", !.metric.late = metric.late]
  /\ UNCHANGED <<ringMetric, sequence, published>> /\ Ring

BeginPublish ==
  /\ Goes("metric") /\ Then("begins", "publishesEvents")
  /\ sequence' = sequence + 1 /\ published' = published \cup {receiver.metric}
  /\ UNCHANGED ringMetric /\ Ring

PublishEvents ==
  /\ Goes("metric") /\ Then("publishesEvents", "publishesLate")
  /\ ringMetric' = [ringMetric EXCEPT !.events = receiver.metric.events]
  /\ UNCHANGED <<sequence, published>> /\ Ring

PublishLate ==
  /\ Goes("metric") /\ Then("publishesLate", "ends")
  /\ ringMetric' = [ringMetric EXCEPT !.late = receiver.metric.late]
  /\ UNCHANGED <<sequence, published>> /\ Ring

EndPublish ==
  /\ Goes("metric") /\ receiver.at = "ends"
  /\ sequence' = sequence + 1 /\ receiver' = Idle
  /\ UNCHANGED <<ringMetric, published>> /\ Ring

\* timing_metrics of the client, which tries again until nothing was stored meanwhile.
Reads == UNCHANGED <<loop, receiver, window, metric, ringMetric, sequence, published, trimVars, peakVars>>

BeginRead ==
  /\ Asks("metric") /\ client.at = "idle" /\ sequence % 2 = 0
  /\ client' = [client EXCEPT !.at = "events", !.seen = sequence]
  /\ UNCHANGED taken /\ Reads

ReadEvents ==
  /\ Goes("metric") /\ client.at = "events"
  /\ client' = [client EXCEPT !.at = "late", !.metric.events = ringMetric.events]
  /\ UNCHANGED taken /\ Reads

ReadLate ==
  /\ Goes("metric") /\ client.at = "late"
  /\ client' = [client EXCEPT !.at = "checks", !.metric.late = ringMetric.late]
  /\ UNCHANGED taken /\ Reads

\* Seeded fault: whatever was read is taken.
AlwaysAgrees(seen) == TRUE

Agrees(seen) == sequence = seen

EndRead ==
  /\ Goes("metric") /\ client.at = "checks"
  /\ client' = Idle
  /\ taken' = IF Agrees(client.seen) THEN client.metric ELSE taken
  /\ Reads

MetricNext ==
  \/ \E late \in 0 .. 1, due \in BOOLEAN: CountBlock(late, due)
  \/ StoreEvents \/ StoreLate
  \/ SnapshotEvents \/ SnapshotLate \/ BeginPublish \/ PublishEvents \/ PublishLate \/ EndPublish
  \/ BeginRead \/ ReadEvents \/ ReadLate \/ EndRead

MeterNext == TrimNext \/ PeakNext \/ MetricNext

MeterSpec == MeterInit /\ [][MeterNext]_meterVars

(***************************************************************************)
(* Properties                                                              *)
(***************************************************************************)
Loudest == Larger(Larger(loop.peak, peak), Larger(receiver.peak, ringPeak))

\* meters.rs: the client is told the largest reduction since it last asked.  None is lost on
\* the way, however the swaps and raises of three threads fall together: the loudest one
\* under way only goes when the client is told it, or when the live it belongs to has ended.
PeaksAreReported ==
  [][follows = "peak" /\ Loudest' < Loudest => told' = Loudest \/ (loop.at = "idle" /\ peak' = 0 /\ peak = Loudest)]_meterVars

\* meters.rs: the metrics that a client takes are those of one publication.
MetricsAreOfOnePublication == taken \in published

\* runtime.rs:227: when the auto gain is switched off no trim is left over.  The block that
\* is being mixed may still store its own, and the next one takes it away.
TrimLeavesWithTheSwitch == ~enabled /\ quiet = 1 => gain = 0 /\ trim = Unmeasured
=============================================================================
