----------------------------- MODULE OutputProofs -----------------------------
(***************************************************************************)
(* The sound and its way out of the player: the events of a live are given *)
(* to their instances at their own samples and its tempo map tells the     *)
(* beats; frames reach the device in order, under the limiter's ceiling,   *)
(* recorded without a gap, and what a client is told of them is what was   *)
(* measured.  The five components share no variable; each has its own      *)
(* invariant.                                                              *)
(***************************************************************************)
EXTENDS AudioOutput, MasterLimiter, CaptureTaps, Meters, LiveTimeline, TLAPS, WellFoundedInduction, FiniteSetTheorems

(***************************************************************************)
(* Natural numbers                                                         *)
(***************************************************************************)
\* A set of natural numbers has a least one, and one with a bound a largest.
LEMMA LeastNatural ==
  ASSUME NEW T \in SUBSET Nat, T # {}
  PROVE  \E n \in T : \A m \in T : n <= m
<1> DEFINE R == {ss \in Nat \X Nat : ss[1] < ss[2]}
<1>1. IsWellFoundedOn(R, Nat)
  <2>1. R = OpToRel(<, Nat)
    BY DEF OpToRel
  <2> QED BY <2>1, NatLessThanWellFounded
<1>2. PICK n \in T : \A m \in T : <<m, n>> \notin R
  <2> HIDE DEF R
  <2> QED BY <1>1, WFMin
<1>3. ASSUME NEW m \in T PROVE n <= m
  <2>1. n \in Nat /\ m \in Nat
    OBVIOUS
  <2>2. m < n => <<m, n>> \in R
    BY <2>1
  <2>3. ~(m < n)
    BY <1>2, <2>2
  <2> QED BY <2>1, <2>3
<1> QED BY <1>3

LEMMA LargestNatural ==
  ASSUME NEW bound \in Nat, NEW T \in SUBSET (0 .. bound), T # {}
  PROVE  \E n \in T : \A m \in T : m <= n
<1> DEFINE S == {bound - n : n \in T}
<1>1. S \in SUBSET Nat /\ S # {}
  <2>1. \A n \in T : bound - n \in Nat
    OBVIOUS
  <2> QED BY <2>1
<1>2. PICK k \in S : \A m \in S : k <= m
  <2> HIDE DEF S
  <2> QED BY <1>1, LeastNatural
<1>3. PICK n \in T : k = bound - n
  BY <1>2
<1>4. ASSUME NEW m \in T PROVE m <= n
  <2>1. k <= bound - m
    BY <1>2
  <2> QED BY <1>3, <2>1
<1> QED BY <1>4

\* Positions less than a ring apart have slots of their own.
LEMMA SlotsApart ==
  ASSUME NEW n \in Nat \ {0}, NEW x \in Nat, NEW y \in Nat, x < y, y < x + n
  PROVE  x % n # y % n
<1>1. /\ x = n * (x \div n) + (x % n) /\ x \div n \in Int
      /\ y = n * (y \div n) + (y % n) /\ y \div n \in Int
      /\ x % n \in Int /\ y % n \in Int
  BY SMT
<1> DEFINE p == x \div n
           q == y \div n
<1>2. SUFFICES ASSUME x % n = y % n PROVE FALSE
  OBVIOUS
<1>3. p \in Int /\ q \in Int /\ 0 < n * q - n * p /\ n * q - n * p < n
  BY <1>1, <1>2, SMT
<1> HIDE DEF p, q
<1>4. q - p \in Int /\ n * (q - p) = n * q - n * p
  BY <1>3, SMT
<1>5. q - p <= 0 \/ q - p >= 1
  BY <1>3
<1>6. q - p <= 0 => n * (q - p) <= 0
  BY <1>3, SMT
<1>7. q - p >= 1 => n * (q - p) >= n
  BY <1>3, SMT
<1>8. n * (q - p) \in Int /\ n * q \in Int /\ n * p \in Int
  BY <1>3, SMT
<1> QED BY <1>3, <1>4, <1>5, <1>6, <1>7, <1>8

(***************************************************************************)
(* The ring to the device                                                  *)
(***************************************************************************)
Frames == [generation : Nat, no : Nat]

OutputTypeOK ==
  /\ slots \in [0 .. Capacity - 1 -> Frames] /\ write \in Nat /\ read \in Nat
  /\ producer \in [at : {"waiting", "stopped", "push", "publish", "check"}, generation : Nat, left : Int]
  /\ consumer \in [at : {"idle", "read", "check", "plays"}, frame : Frames]
  /\ generation \in Nat /\ renders \in Nat

\* The ring holds what was pushed and not yet taken, and the frame in the hand of
\* either side is the next one.
RingIsInOrder ==
  /\ read <= write /\ Lead <= Capacity
  /\ \A k \in Nat : read <= k /\ k < write => slots[k % Capacity].no = k + 1
  /\ producer.at = "publish" => Lead < Capacity /\ slots[write % Capacity].no = write + 1
  /\ consumer.at = "read" => read < write /\ consumer.frame.no = read + 1
  /\ consumer.at = "check" => consumer.frame.no = read

OutputInv == OutputTypeOK /\ RingIsInOrder

LEMMA CapacityIsPositive == Capacity \in Nat \ {0}
BY OutputAssumption, SMT DEF Capacity

LEMMA SlotExists ==
  ASSUME NEW k \in Nat
  PROVE  k % Capacity \in 0 .. Capacity - 1
<1> DEFINE C == Capacity
<1>1. C \in Nat \ {0}
  BY CapacityIsPositive
<1> HIDE DEF C
<1>2. k % C \in 0 .. C - 1
  BY <1>1, SMT
<1> QED BY <1>2 DEF C

LEMMA OutputInitially == OutputInit => OutputInv
<1> SUFFICES ASSUME OutputInit PROVE OutputInv
  OBVIOUS
<1>1. NoFrame \in Frames
  BY DEF NoFrame, Frames
<1>2. OutputTypeOK
  BY <1>1 DEF OutputInit, OutputTypeOK
<1>3. RingIsInOrder
  BY CapacityIsPositive DEF OutputInit, RingIsInOrder, Lead
<1> QED BY <1>2, <1>3 DEF OutputInv

\* A step that leaves the ring and both sides alone.
LEMMA OutputRests ==
  ASSUME OutputInv, UNCHANGED <<ringVars, producer, consumer>>, generation' \in Nat, renders' \in Nat
  PROVE  OutputInv'
BY DEF OutputInv, OutputTypeOK, RingIsInOrder, Lead, ringVars, Capacity

LEMMA ProducerKeepsOrder ==
  ASSUME OutputInv, Produce
  PROVE  OutputInv'
<1> USE DEF OutputInv, OutputTypeOK, ringVars, controlVars, ProducerAt
<1>0. Capacity \in Nat \ {0} /\ ChunkFrames \in Nat /\ Capacity' = Capacity
  BY CapacityIsPositive, OutputAssumption DEF Capacity
<1>1. CASE HasSpace
  BY <1>0, <1>1 DEF HasSpace, RingIsInOrder, Lead
<1>2. CASE StopsPushing \/ Full \/ NextFrame
  BY <1>0, <1>2 DEF StopsPushing, Full, NextFrame, RingIsInOrder, Lead
<1>3. CASE WriteSlot
  <2> DEFINE new == [generation |-> producer.generation, no |-> write + 1]
             w == write % Capacity
  <2>1. new \in Frames /\ w \in 0 .. Capacity - 1
    <3>1. producer.generation \in Nat /\ write \in Nat
      OBVIOUS
    <3>2. new \in Frames
      BY <3>1 DEF Frames
    <3> QED BY <3>1, <3>2, SlotExists
  <2>2. OutputTypeOK'
    BY <1>0, <1>3, <2>1 DEF WriteSlot
  <2>3. write' = write /\ read' = read /\ consumer' = consumer /\ producer'.at = "publish"
    BY <1>3 DEF WriteSlot
  <2>4. slots'[w] = new /\ \A i \in 0 .. Capacity - 1 : i # w => slots'[i] = slots[i]
    BY <1>3, <2>1 DEF WriteSlot
  <2>5. ASSUME NEW k \in Nat, read <= k, k < write PROVE slots'[k % Capacity].no = k + 1
    <3>1. write < k + Capacity
      BY <1>0, <1>3, <2>5 DEF WriteSlot, HasRoom, Lead
    <3>2. k % Capacity # w
      BY <1>0, <2>5, <3>1, SlotsApart
    <3> QED BY <2>4, <2>5, <3>2, SlotExists DEF RingIsInOrder
  <2>6. slots'[write % Capacity].no = write + 1
    BY <2>4
  <2>7. Lead < Capacity
    BY <1>3 DEF WriteSlot, HasRoom
  <2> HIDE DEF new, w
  <2> QED BY <1>0, <2>2, <2>3, <2>5, <2>6, <2>7 DEF RingIsInOrder, Lead
<1>4. CASE Publish
  <2>1. OutputTypeOK'
    <3>1. producer.left - 1 \in Int /\ write + 1 \in Nat
      OBVIOUS
    <3>2. producer' \in [at : {"waiting", "stopped", "push", "publish", "check"}, generation : Nat, left : Int]
      BY <1>4, <3>1 DEF Publish
    <3> QED BY <1>0, <1>4, <3>1, <3>2 DEF Publish
  <2>2. /\ write' = write + 1 /\ read' = read /\ consumer' = consumer /\ producer'.at = "check"
        /\ slots' = slots /\ producer.at = "publish"
    BY <1>4 DEF Publish
  <2>3. \A k \in Nat : read <= k /\ k < write' => slots[k % Capacity].no = k + 1
    <3>1. ASSUME NEW k \in Nat, read <= k, k < write' PROVE k < write \/ k = write
      BY <2>2, <3>1
    <3> QED BY <2>2, <3>1 DEF RingIsInOrder
  <2> QED BY <1>0, <2>1, <2>2, <2>3 DEF RingIsInOrder, Lead
<1> QED BY <1>1, <1>2, <1>3, <1>4 DEF Produce

LEMMA ConsumerKeepsOrder ==
  ASSUME OutputInv, Consume
  PROVE  OutputInv'
<1> USE DEF OutputInv, OutputTypeOK, ringVars, controlVars
<1>0. Capacity \in Nat \ {0} /\ Capacity' = Capacity /\ NoFrame \in Frames
  BY CapacityIsPositive DEF Capacity, NoFrame, Frames
<1>1. CASE ReadSlot
  <2>1. read < write /\ slots[read % Capacity].no = read + 1 /\ slots[read % Capacity] \in Frames
    BY <1>1, SlotExists DEF ReadSlot, RingIsInOrder
  <2>2. consumer'.at = "read" /\ consumer'.frame = slots[read % Capacity]
        /\ consumer' \in [at : {"idle", "read", "check", "plays"}, frame : Frames]
    BY <1>1, <2>1 DEF ReadSlot
  <2>3. UNCHANGED <<slots, write, read, producer, generation, renders>>
    BY <1>1 DEF ReadSlot
  <2> QED BY <1>0, <2>1, <2>2, <2>3 DEF RingIsInOrder, Lead
<1>2. CASE FreeSlot
  BY SMTT(30), <1>0, <1>2 DEF FreeSlot, RingIsInOrder, Lead
<1>3. CASE CheckFrame \/ Underrun \/ Play
  <2>1. /\ consumer'.at \in {"idle", "plays"}
        /\ consumer' \in [at : {"idle", "read", "check", "plays"}, frame : Frames]
    BY <1>0, <1>3 DEF CheckFrame, Underrun, Play
  <2>2. UNCHANGED <<slots, write, read, producer, generation, renders>>
    BY <1>3 DEF CheckFrame, Underrun, Play
  <2> QED BY <1>0, <2>1, <2>2 DEF RingIsInOrder, Lead
<1> QED BY <1>1, <1>2, <1>3 DEF Consume

LEMMA OutputStep == OutputInv /\ [OutputNext]_outputVars => OutputInv'
<1> SUFFICES ASSUME OutputInv, [OutputNext]_outputVars PROVE OutputInv'
  OBVIOUS
<1> USE DEF controlVars
<1>0. generation \in Nat /\ renders \in Nat
  BY DEF OutputInv, OutputTypeOK
<1>1. ASSUME NEW playing \in BOOLEAN, Generation(playing) PROVE OutputInv'
  BY <1>0, <1>1, OutputRests DEF Generation
<1>2. CASE Activity \/ Finish \/ Shutdown
  BY <1>0, <1>2, OutputRests DEF Activity, Finish, Shutdown
<1>3. ASSUME NEW m \in Multipliers, SetMultiplier(m) PROVE OutputInv'
  BY <1>0, <1>3, OutputRests DEF SetMultiplier
<1>4. ASSUME NEW g \in 1 .. MaxGeneration, Follow(g) PROVE OutputInv'
  BY <1>0, <1>4, OutputRests DEF Follow
<1>5. CASE UNCHANGED outputVars
  BY <1>0, <1>5, OutputRests DEF outputVars
<1> QED BY <1>1, <1>2, <1>3, <1>4, <1>5, ProducerKeepsOrder, ConsumerKeepsOrder DEF OutputNext

\* What the ring holds is in order at any time.
THEOREM OutputInvCorrect == OutputSpec => []OutputInv
BY OutputInitially, OutputStep, PTL DEF OutputSpec

\* So the device gets every frame once and in the order of the pushes, whatever
\* either side is at and however often the generation changes.
THEOREM FramesArriveInOrderCorrect == OutputSpec => []FramesArriveInOrder
<1>1. OutputInv => FramesArriveInOrder
  BY DEF OutputInv, RingIsInOrder, FramesArriveInOrder
<1> QED BY <1>1, OutputInvCorrect, PTL

(***************************************************************************)
(* The limiter                                                             *)
(***************************************************************************)
Entries == [no : Nat, peak : Peaks]

LimiterTypeOK ==
  /\ delay \in Seq(Peaks) /\ detector \in Seq(Entries) /\ nextFrame \in Nat
  /\ cut \in Nat \ {0} /\ out \in Peaks \cup {Silence}

\* The number of the first frame in the delay line.
Oldest == nextFrame - Len(delay)

DelayIsFull ==
  /\ Len(delay) <= nextFrame /\ Len(delay) <= Lookahead
  /\ nextFrame <= Lookahead => Len(delay) = nextFrame
  /\ nextFrame >= Lookahead => Len(delay) = Lookahead

Rising(entries) == \A j, k \in 1 .. Len(entries) : j < k => entries[j].no < entries[k].no

\* The first entry from a frame on is its own, or that of a peak that took its place
\* and is as loud.
Covers(entries, no, level) ==
  \E k \in 1 .. Len(entries) :
    /\ entries[k].no >= no /\ \A j \in 1 .. k - 1 : entries[j].no < no
    /\ entries[k].peak = level \/ AtMost(level, entries[k].peak)

DetectorCovers ==
  /\ Rising(detector)
  /\ \A k \in 1 .. Len(detector) : detector[k].no < nextFrame /\ detector[k].no + Lookahead >= nextFrame
  /\ \A i \in 1 .. Len(delay) : Covers(detector, Oldest + i - 1, delay[i])

LimiterInv == LimiterTypeOK /\ DelayIsFull /\ DetectorCovers /\ OutputUnderCeiling

LEMMA PeaksAreNat ==
  /\ Lookahead \in Nat \ {0} /\ MaxPeak \in Nat /\ NaN \in Nat /\ Peaks \subseteq Nat
  /\ Silence \notin 0 .. MaxPeak /\ NaN \notin 0 .. MaxPeak
BY LimiterAssumption DEF Peaks, Silence

LEMMA QueuedAfter ==
  ASSUME NEW entries \in Seq(Entries), NEW level \in Peaks
  PROVE  \E last \in 0 .. Len(entries) :
           /\ Queued(entries, level) = Append(SubSeq(entries, 1, last), [no |-> nextFrame, peak |-> level])
           /\ \A i \in last + 1 .. Len(entries) : AtMost(entries[i].peak, level)
<1> DEFINE kept == {n \in 0 .. Len(entries) : \A i \in n + 1 .. Len(entries) : AtMost(entries[i].peak, level)}
           last == CHOOSE n \in kept : \A m \in kept : n <= m
<1>1. Len(entries) \in Nat
  OBVIOUS
<1>2. Len(entries) \in kept
  BY <1>1
<1>3. kept \in SUBSET Nat
  BY <1>1
<1>4. \E n \in kept : \A m \in kept : n <= m
  <2> HIDE DEF kept
  <2> QED BY <1>2, <1>3, LeastNatural
<1>5. last \in kept
  <2> HIDE DEF kept
  <2> QED BY <1>4
<1>6. Queued(entries, level) = Append(SubSeq(entries, 1, last), [no |-> nextFrame, peak |-> level])
  BY DEF Queued
<1> HIDE DEF last
<1>7. last \in 0 .. Len(entries) /\ \A i \in last + 1 .. Len(entries) : AtMost(entries[i].peak, level)
  BY <1>5
<1> QED BY <1>6, <1>7

LEMMA RestAfter ==
  ASSUME NEW entries \in Seq(Entries)
  PROVE  \E last \in 0 .. Len(entries) :
           /\ Rest(entries) = SubSeq(entries, last + 1, Len(entries))
           /\ \A i \in 1 .. last : Expired(entries[i].no)
           /\ last < Len(entries) => ~Expired(entries[last + 1].no)
<1> DEFINE gone == {n \in 0 .. Len(entries) : \A i \in 1 .. n : Expired(entries[i].no)}
           last == CHOOSE n \in gone : \A m \in gone : m <= n
<1>1. Len(entries) \in Nat
  OBVIOUS
<1>2. 0 \in gone
  BY <1>1
<1>3. gone \in SUBSET (0 .. Len(entries))
  OBVIOUS
<1>4. \E n \in gone : \A m \in gone : m <= n
  <2> HIDE DEF gone
  <2> QED BY <1>1, <1>2, <1>3, LargestNatural
<1>5. last \in gone /\ \A m \in gone : m <= last
  <2> HIDE DEF gone
  <2> QED BY <1>4
<1>6. Rest(entries) = SubSeq(entries, last + 1, Len(entries))
  BY DEF Rest
<1> HIDE DEF last
<1>7. last \in 0 .. Len(entries) /\ \A i \in 1 .. last : Expired(entries[i].no)
  BY <1>5
<1>8. ASSUME last < Len(entries), Expired(entries[last + 1].no) PROVE FALSE
  <2>1. last + 1 \in 0 .. Len(entries) /\ \A i \in 1 .. last + 1 : i \in 1 .. last \/ i = last + 1
    BY <1>1, <1>7, <1>8
  <2>2. last + 1 \in gone
    BY <1>7, <1>8, <2>1
  <2> QED
    <3> HIDE DEF gone
    <3>1. last + 1 <= last
      BY <1>5, <2>2
    <3> QED BY <1>7, <3>1
<1> QED BY <1>6, <1>7, <1>8

LEMMA LimiterInitially == LimiterInit => LimiterInv
<1> USE DEF LimiterInit
<1> SUFFICES ASSUME LimiterInit PROVE LimiterInv
  OBVIOUS
<1>1. LimiterTypeOK
  BY DEF LimiterTypeOK
<1>2. DelayIsFull
  BY PeaksAreNat DEF DelayIsFull
<1>3. DetectorCovers
  BY DEF DetectorCovers, Rising
<1>4. OutputUnderCeiling
  BY PeaksAreNat DEF OutputUnderCeiling
<1> QED BY <1>1, <1>2, <1>3, <1>4 DEF LimiterInv

\* push_detector: what was covered still is, and so is the new frame.
LEMMA QueuedCovers ==
  ASSUME LimiterTypeOK, Rising(detector), NEW level \in Peaks,
         \A k \in 1 .. Len(detector) : detector[k].no < nextFrame /\ detector[k].no + Lookahead >= nextFrame
  PROVE  LET entries == Queued(detector, level)
         IN /\ entries \in Seq(Entries) /\ Len(entries) \in Nat \ {0} /\ Rising(entries)
            /\ \A k \in 1 .. Len(entries) :
                 entries[k].no <= nextFrame /\ entries[k].no + Lookahead >= nextFrame
            /\ Covers(entries, nextFrame, level)
            /\ \A no \in Nat, p \in Peaks :
                 no < nextFrame /\ Covers(detector, no, p) => Covers(entries, no, p)
<1> DEFINE new == [no |-> nextFrame, peak |-> level]
<1>0. detector \in Seq(Entries) /\ nextFrame \in Nat /\ new \in Entries /\ Lookahead \in Nat
      /\ \A e \in Entries : e.no \in Nat /\ e.peak \in Peaks
  BY PeaksAreNat DEF LimiterTypeOK, Entries
<1>1. PICK last \in 0 .. Len(detector) :
        /\ Queued(detector, level) = Append(SubSeq(detector, 1, last), new)
        /\ \A i \in last + 1 .. Len(detector) : AtMost(detector[i].peak, level)
  BY <1>0, QueuedAfter
<1> DEFINE entries == Queued(detector, level)
<1>2. new.no = nextFrame /\ new.peak = level
  OBVIOUS
<1> HIDE DEF new
<1>3. /\ entries \in Seq(Entries) /\ Len(entries) = last + 1 /\ entries[last + 1] = new
      /\ \A k \in 1 .. last : entries[k] = detector[k]
  BY <1>0, <1>1
<1> HIDE DEF entries
<1>4. last \in Nat /\ Len(entries) \in Nat \ {0} /\ \A k \in 1 .. Len(entries) : k \in 1 .. last \/ k = last + 1
  BY <1>0, <1>1, <1>3
<1>5. \A k \in 1 .. last : k \in 1 .. Len(detector) /\ detector[k].no < nextFrame
        /\ detector[k].no + Lookahead >= nextFrame /\ detector[k].no \in Nat
  BY <1>0, <1>1
<1>6. \A k \in 1 .. Len(entries) : entries[k].no <= nextFrame /\ entries[k].no + Lookahead >= nextFrame
  <2> SUFFICES ASSUME NEW k \in 1 .. Len(entries)
               PROVE  entries[k].no <= nextFrame /\ entries[k].no + Lookahead >= nextFrame
    OBVIOUS
  <2>1. CASE k \in 1 .. last
    BY SMTT(30), <1>0, <1>3, <1>5, <2>1
  <2>2. CASE k = last + 1
    BY <1>0, <1>2, <1>3, <2>2
  <2> QED BY <1>4, <2>1, <2>2
<1>7. Rising(entries)
  <2> SUFFICES ASSUME NEW j \in 1 .. Len(entries), NEW k \in 1 .. Len(entries), j < k
               PROVE  entries[j].no < entries[k].no
    BY DEF Rising
  <2>1. j \in 1 .. last
    BY <1>3, <1>4
  <2>2. CASE k \in 1 .. last
    BY <1>3, <1>5, <2>1, <2>2 DEF Rising
  <2>3. CASE k = last + 1
    BY <1>2, <1>3, <1>5, <2>1, <2>3
  <2> QED BY <1>4, <2>2, <2>3
<1>8. Covers(entries, nextFrame, level)
  <2>1. last + 1 \in 1 .. Len(entries) /\ \A j \in 1 .. (last + 1) - 1 : j \in 1 .. last
    BY <1>3, <1>4
  <2>2. entries[last + 1].no >= nextFrame /\ entries[last + 1].peak = level
    BY <1>0, <1>2, <1>3
  <2>3. \A j \in 1 .. (last + 1) - 1 : entries[j].no < nextFrame
    BY <1>3, <1>5, <2>1
  <2> QED BY <2>1, <2>2, <2>3 DEF Covers
<1>9. ASSUME NEW no \in Nat, NEW p \in Peaks, no < nextFrame, Covers(detector, no, p)
      PROVE  Covers(entries, no, p)
  <2>1. PICK k \in 1 .. Len(detector) :
          /\ detector[k].no >= no /\ \A j \in 1 .. k - 1 : detector[j].no < no
          /\ detector[k].peak = p \/ AtMost(p, detector[k].peak)
    BY <1>9 DEF Covers
  <2>2. CASE k <= last
    <3>1. k \in 1 .. Len(entries) /\ k \in 1 .. last /\ \A j \in 1 .. k - 1 : j \in 1 .. last
      BY <1>3, <1>4, <2>2
    <3>2. entries[k] = detector[k] /\ \A j \in 1 .. k - 1 : entries[j] = detector[j]
      BY <1>3, <3>1
    <3> QED BY <2>1, <3>1, <3>2 DEF Covers
  <2>3. CASE k > last
    <3>1. AtMost(detector[k].peak, level)
      BY <1>0, <1>1, <2>3
    <3>2. AtMost(p, level)
      <4>1. detector[k] \in Entries
        BY <1>0
      <4>2. p \in Nat /\ level \in Nat /\ detector[k].peak \in Nat
        BY <1>0, <4>1, PeaksAreNat
      <4> QED BY <2>1, <3>1, <4>2 DEF AtMost
    <3>3. last + 1 \in 1 .. Len(entries) /\ entries[last + 1].no >= no /\ entries[last + 1].peak = level
      BY <1>0, <1>2, <1>3, <1>4, <1>9
    <3>4. \A j \in 1 .. (last + 1) - 1 : j \in 1 .. k - 1 /\ j \in 1 .. last
      BY <1>4, <2>3
    <3>5. \A j \in 1 .. (last + 1) - 1 : entries[j].no < no
      BY <1>3, <2>1, <3>4
    <3> QED BY <3>2, <3>3, <3>5 DEF Covers
  <2> QED BY <1>4, <2>2, <2>3
<1> QED BY <1>3, <1>4, <1>6, <1>7, <1>8, <1>9 DEF entries

\* expire_detector: what covers a frame that stays in the line stays.
LEMMA RestCovers ==
  ASSUME nextFrame \in Nat, NEW entries \in Seq(Entries), Rising(entries)
  PROVE  /\ Rest(entries) \in Seq(Entries) /\ Rising(Rest(entries))
         /\ \A k \in 1 .. Len(Rest(entries)) :
              /\ \E i \in 1 .. Len(entries) : Rest(entries)[k] = entries[i]
              /\ Rest(entries)[k].no + Lookahead >= nextFrame + 1
         /\ \A no \in Nat, p \in Peaks :
              no + Lookahead >= nextFrame + 1 /\ Covers(entries, no, p) => Covers(Rest(entries), no, p)
<1>0. /\ Lookahead \in Nat /\ Len(entries) \in Nat
      /\ \A e \in Entries : e.no \in Nat
      /\ \A k \in 1 .. Len(entries) : entries[k] \in Entries
  <2>1. \A e \in Entries : e.no \in Nat
    BY DEF Entries
  <2>2. Len(entries) \in Nat /\ \A k \in 1 .. Len(entries) : entries[k] \in Entries
    OBVIOUS
  <2> QED BY <2>1, <2>2, PeaksAreNat
<1>1. PICK last \in 0 .. Len(entries) :
        /\ Rest(entries) = SubSeq(entries, last + 1, Len(entries))
        /\ \A i \in 1 .. last : Expired(entries[i].no)
        /\ last < Len(entries) => ~Expired(entries[last + 1].no)
  BY RestAfter
<1> DEFINE rest == Rest(entries)
<1>2. /\ rest \in Seq(Entries) /\ Len(rest) = Len(entries) - last
      /\ \A k \in 1 .. Len(rest) : rest[k] = entries[k + last]
  BY <1>0, <1>1
<1> HIDE DEF rest
<1>3. /\ last \in Nat /\ last <= Len(entries) /\ Len(rest) \in Nat
      /\ \A k \in 1 .. Len(rest) : k + last \in 1 .. Len(entries) /\ k + last >= last + 1 /\ last < Len(entries)
  BY <1>0, <1>2
<1>4. Rising(rest)
  <2> SUFFICES ASSUME NEW j \in 1 .. Len(rest), NEW k \in 1 .. Len(rest), j < k
               PROVE  rest[j].no < rest[k].no
    BY DEF Rising
  <2>1. j + last < k + last
    BY <1>3
  <2> QED BY <1>2, <1>3, <2>1 DEF Rising
<1>5. ASSUME NEW k \in 1 .. Len(rest)
      PROVE  /\ \E i \in 1 .. Len(entries) : rest[k] = entries[i]
             /\ rest[k].no + Lookahead >= nextFrame + 1
  <2>1. last + 1 \in 1 .. Len(entries) /\ entries[last + 1].no + Lookahead >= nextFrame + 1
    BY <1>0, <1>1, <1>3 DEF Expired
  <2>2. entries[k + last].no >= entries[last + 1].no
    <3>1. k + last = last + 1 \/ last + 1 < k + last
      BY <1>3
    <3>2. entries[k + last].no \in Nat /\ entries[last + 1].no \in Nat
      BY <1>0, <1>3, <2>1
    <3> QED BY <1>3, <2>1, <3>1, <3>2 DEF Rising
  <2> QED BY SMTT(30), <1>0, <1>2, <1>3, <2>1, <2>2
<1>6. ASSUME NEW no \in Nat, NEW p \in Peaks, no + Lookahead >= nextFrame + 1, Covers(entries, no, p)
      PROVE  Covers(rest, no, p)
  <2>1. PICK k \in 1 .. Len(entries) :
          /\ entries[k].no >= no /\ \A j \in 1 .. k - 1 : entries[j].no < no
          /\ entries[k].peak = p \/ AtMost(p, entries[k].peak)
    BY <1>6 DEF Covers
  <2>2. k > last
    <3> SUFFICES ASSUME k <= last PROVE FALSE
      BY <1>0, <1>3
    <3>1. Expired(entries[k].no)
      BY <1>0, <1>1, <1>3
    <3> QED BY <1>0, <1>6, <2>1, <3>1 DEF Expired
  <2>3. /\ k - last \in 1 .. Len(rest) /\ rest[k - last] = entries[k]
        /\ \A j \in 1 .. (k - last) - 1 : j \in 1 .. Len(rest) /\ j + last \in 1 .. k - 1
    BY <1>0, <1>2, <1>3, <2>2
  <2>4. \A j \in 1 .. (k - last) - 1 : rest[j].no < no
    BY <1>2, <2>1, <2>3
  <2> QED BY <2>1, <2>3, <2>4 DEF Covers
<1> QED BY <1>2, <1>4, <1>5, <1>6 DEF rest

\* The cut is never less than what the first entry asks for.
LEMMA CutIsWanted ==
  ASSUME NEW entries \in Seq(Entries), Len(entries) \in Nat \ {0}, cut \in Nat \ {0}, NEW next \in Cuts(entries)
  PROVE  /\ next \in Nat \ {0}
         /\ \A p \in 0 .. MaxPeak : p = entries[1].peak \/ AtMost(p, entries[1].peak) => p <= next
<1>1. entries[1] \in Entries /\ Head(entries) = entries[1]
  OBVIOUS
<1>2. entries[1].peak \in Nat
  BY <1>1, PeaksAreNat DEF Entries
<1>3. /\ Wanted(entries) \in Nat \ {0}
      /\ \A p \in 0 .. MaxPeak : p = entries[1].peak \/ AtMost(p, entries[1].peak) => p <= Wanted(entries)
  BY <1>1, <1>2, PeaksAreNat DEF Wanted, Above, AtMost
<1>4. next \in Nat \ {0} /\ Wanted(entries) <= next
  BY <1>3 DEF Cuts
<1>5. ASSUME NEW p \in 0 .. MaxPeak, p = entries[1].peak \/ AtMost(p, entries[1].peak) PROVE p <= next
  <2>1. p <= Wanted(entries) /\ p \in Nat
    BY <1>3, <1>5, PeaksAreNat
  <2> QED BY <1>3, <1>4, <2>1
<1> QED BY <1>4, <1>5

LEMMA ProcessKeepsCeiling ==
  ASSUME LimiterInv, NEW level \in Peaks, Process(level)
  PROVE  LimiterInv'
<1> DEFINE entries == Queued(detector, level)
           line == Append(delay, level)
<1>0. /\ LimiterTypeOK /\ DelayIsFull /\ DetectorCovers
      /\ delay \in Seq(Peaks) /\ detector \in Seq(Entries) /\ nextFrame \in Nat /\ cut \in Nat \ {0}
      /\ Lookahead \in Nat \ {0} /\ Len(delay) \in Nat
  BY PeaksAreNat DEF LimiterInv, LimiterTypeOK
<1>1. /\ cut' \in Cuts(entries) /\ detector' = Rest(entries) /\ nextFrame' = nextFrame + 1
      /\ IF Len(line) > Lookahead
           THEN out' = Head(line) /\ delay' = Tail(line)
           ELSE out' = Silence /\ delay' = line
  BY DEF Process
<1>2. /\ entries \in Seq(Entries) /\ Len(entries) \in Nat \ {0} /\ Rising(entries)
      /\ \A k \in 1 .. Len(entries) : entries[k].no <= nextFrame /\ entries[k].no + Lookahead >= nextFrame
      /\ Covers(entries, nextFrame, level)
      /\ \A no \in Nat, p \in Peaks :
           no < nextFrame /\ Covers(detector, no, p) => Covers(entries, no, p)
  BY <1>0, QueuedCovers DEF DetectorCovers
<1> HIDE DEF entries
<1>3. /\ Rest(entries) \in Seq(Entries) /\ Rising(Rest(entries))
      /\ \A k \in 1 .. Len(Rest(entries)) :
           /\ \E i \in 1 .. Len(entries) : Rest(entries)[k] = entries[i]
           /\ Rest(entries)[k].no + Lookahead >= nextFrame + 1
      /\ \A no \in Nat, p \in Peaks :
           no + Lookahead >= nextFrame + 1 /\ Covers(entries, no, p) => Covers(Rest(entries), no, p)
  BY <1>0, <1>2, RestCovers
<1>4. /\ line \in Seq(Peaks) /\ Len(line) = Len(delay) + 1 /\ line[Len(delay) + 1] = level
      /\ \A i \in 1 .. Len(delay) : line[i] = delay[i]
      /\ Head(line) = line[1] /\ Tail(line) \in Seq(Peaks) /\ Len(Tail(line)) = Len(delay)
      /\ \A i \in 1 .. Len(delay) : Tail(line)[i] = line[i + 1]
  BY <1>0
<1> HIDE DEF line
\* Every frame of the longer line is covered.
<1>5. ASSUME NEW i \in 1 .. Len(line) PROVE Covers(entries, Oldest + i - 1, line[i])
  <2>1. Len(delay) <= nextFrame
    BY <1>0 DEF DelayIsFull
  <2>2. CASE i \in 1 .. Len(delay)
    <3>1. Oldest + i - 1 \in Nat /\ Oldest + i - 1 < nextFrame /\ delay[i] \in Peaks
      BY <1>0, <2>1, <2>2 DEF Oldest
    <3>2. Covers(detector, Oldest + i - 1, delay[i])
      BY <1>0, <2>2 DEF DetectorCovers
    <3> QED BY <1>2, <1>4, <2>2, <3>1, <3>2
  <2>3. CASE i = Len(delay) + 1
    <3>1. Oldest + i - 1 = nextFrame
      BY <1>0, <2>3 DEF Oldest
    <3> QED BY <1>2, <1>4, <2>3, <3>1
  <2> QED BY <1>0, <1>4, <2>2, <2>3
<1>6. /\ delay' \in Seq(Peaks) /\ Len(delay') \in Nat
      /\ Len(line) > Lookahead => Len(delay') = Len(delay)
      /\ ~(Len(line) > Lookahead) => Len(delay') = Len(delay) + 1
  <2>1. CASE Len(line) > Lookahead
    <3>1. delay' = Tail(line)
      BY <1>1, <2>1
    <3> QED BY <1>0, <1>4, <2>1, <3>1
  <2>2. CASE ~(Len(line) > Lookahead)
    <3>1. delay' = line
      BY <1>1, <2>2
    <3> QED BY <1>0, <1>4, <2>2, <3>1
  <2> QED BY <2>1, <2>2
<1>7. DelayIsFull'
  BY <1>0, <1>1, <1>4, <1>6 DEF DelayIsFull
<1>8. cut' \in Nat \ {0} /\ \A p \in 0 .. MaxPeak : p = entries[1].peak \/ AtMost(p, entries[1].peak) => p <= cut'
  BY <1>0, <1>1, <1>2, CutIsWanted
<1>9. LimiterTypeOK'
  <2>1. out' \in Peaks \cup {Silence}'
    <3>1. Silence' = Silence
      BY DEF Silence
    <3>2. line[1] \in Peaks
      BY <1>0, <1>4
    <3> QED BY <1>1, <1>4, <3>1, <3>2
  <2> QED BY <1>0, <1>1, <1>3, <1>6, <1>8, <2>1 DEF LimiterTypeOK
<1>10. DetectorCovers'
  <2>1. ASSUME NEW k \in 1 .. Len(detector')
        PROVE  detector'[k].no < nextFrame' /\ detector'[k].no + Lookahead >= nextFrame'
    <3>1. PICK i \in 1 .. Len(entries) : detector'[k] = entries[i]
      BY <1>1, <1>3, <2>1
    <3>2. entries[i].no <= nextFrame /\ entries[i].no \in Nat
      <4>1. entries[i] \in Entries
        BY <1>2
      <4> QED BY <1>2, <4>1 DEF Entries
    <3> QED BY SMTT(30), <1>0, <1>1, <1>3, <2>1, <3>1, <3>2
  <2>2. ASSUME NEW i \in 1 .. Len(delay') PROVE Covers(detector', Oldest' + i - 1, delay'[i])
    <3>1. CASE Len(line) > Lookahead
      <4>1. Len(delay) = Lookahead /\ Len(delay') = Lookahead /\ Lookahead <= nextFrame
        BY <1>0, <1>4, <1>6, <3>1 DEF DelayIsFull
      <4>2. i \in Nat /\ i + 1 \in 1 .. Len(line) /\ delay'[i] = line[i + 1] /\ i \in 1 .. Len(delay)
        BY SMTT(30), <1>0, <1>1, <1>4, <2>2, <3>1, <4>1
      <4>3. Oldest' + i - 1 = Oldest + (i + 1) - 1 /\ Oldest + (i + 1) - 1 \in Nat
            /\ (Oldest + (i + 1) - 1) + Lookahead >= nextFrame + 1
        BY <1>0, <1>1, <4>1, <4>2 DEF Oldest
      <4>4. Covers(entries, Oldest + (i + 1) - 1, line[i + 1]) /\ line[i + 1] \in Peaks
        <5>1. line[i + 1] \in Peaks
          BY <1>4, <4>2
        <5> QED BY <1>5, <4>2, <5>1
      <4> QED BY <1>1, <1>3, <4>2, <4>3, <4>4
    <3>2. CASE ~(Len(line) > Lookahead)
      <4>1. nextFrame + 1 <= Lookahead /\ Len(delay) = nextFrame /\ Len(delay') = nextFrame + 1
        BY <1>0, <1>4, <1>6, <3>2 DEF DelayIsFull
      <4>2. i \in Nat /\ i \in 1 .. Len(line) /\ delay'[i] = line[i] /\ line[i] \in Peaks
        BY <1>0, <1>1, <1>4, <2>2, <3>2, <4>1
      <4>3. Oldest' + i - 1 = Oldest + i - 1 /\ Oldest + i - 1 \in Nat
            /\ (Oldest + i - 1) + Lookahead >= nextFrame + 1
        BY <1>0, <1>1, <4>1, <4>2 DEF Oldest
      <4> QED BY <1>1, <1>3, <1>5, <4>2, <4>3
    <3> QED BY <3>1, <3>2
  <2> QED BY <1>1, <1>3, <2>1, <2>2 DEF DetectorCovers
<1>11. OutputUnderCeiling'
  <2> SUFFICES ASSUME out' \in 0 .. MaxPeak PROVE out' <= cut'
    BY DEF OutputUnderCeiling
  <2>1. Len(line) > Lookahead /\ out' = line[1]
    BY <1>1, <1>4, PeaksAreNat
  <2>2. Len(delay) = Lookahead /\ Lookahead <= nextFrame /\ 1 \in 1 .. Len(line)
    BY <1>0, <1>4, <2>1 DEF DelayIsFull
  <2>3. Covers(entries, nextFrame - Lookahead, line[1])
    <3>1. Oldest + 1 - 1 = nextFrame - Lookahead
      BY <1>0, <2>2 DEF Oldest
    <3> QED BY <1>5, <2>2, <3>1
  <2>4. PICK k \in 1 .. Len(entries) :
          /\ \A j \in 1 .. k - 1 : entries[j].no < nextFrame - Lookahead
          /\ entries[k].peak = line[1] \/ AtMost(line[1], entries[k].peak)
    BY <2>3 DEF Covers
  <2>5. k = 1
    <3> SUFFICES ASSUME k # 1 PROVE FALSE
      OBVIOUS
    <3>1. 1 \in 1 .. k - 1 /\ 1 \in 1 .. Len(entries)
      BY <1>2
    <3>2. entries[1].no < nextFrame - Lookahead /\ entries[1].no + Lookahead >= nextFrame /\ entries[1].no \in Nat
      <4>1. entries[1] \in Entries
        BY <1>2, <3>1
      <4>2. entries[1].no \in Nat
        BY <4>1 DEF Entries
      <4> QED BY <1>2, <2>4, <3>1, <4>2
    <3> QED BY <1>0, <3>2
  <2> QED BY <1>8, <2>1, <2>4, <2>5
<1> QED BY <1>7, <1>9, <1>10, <1>11 DEF LimiterInv

LEMMA LimiterStep == LimiterInv /\ [LimiterNext]_limiterVars => LimiterInv'
<1> SUFFICES ASSUME LimiterInv, [LimiterNext]_limiterVars PROVE LimiterInv'
  OBVIOUS
<1>1. CASE Reset
  <2>1. LimiterInit'
    BY <1>1 DEF Reset, LimiterInit, Silence
  <2>2. LimiterTypeOK' /\ DelayIsFull' /\ DetectorCovers' /\ OutputUnderCeiling'
    <3> USE <2>1 DEF LimiterInit
    <3>1. LimiterTypeOK'
      BY DEF LimiterTypeOK
    <3>2. DelayIsFull'
      BY PeaksAreNat DEF DelayIsFull
    <3>3. DetectorCovers'
      BY DEF DetectorCovers, Rising
    <3>4. OutputUnderCeiling'
      BY PeaksAreNat DEF OutputUnderCeiling, Silence
    <3> QED BY <3>1, <3>2, <3>3, <3>4
  <2> QED BY <2>2 DEF LimiterInv
<1>2. CASE UNCHANGED limiterVars
  BY <1>2 DEF limiterVars, LimiterInv, LimiterTypeOK, DelayIsFull, DetectorCovers, Oldest, Rising, Covers,
     OutputUnderCeiling, Silence
<1> QED BY <1>1, <1>2, ProcessKeepsCeiling DEF LimiterNext

THEOREM LimiterInvCorrect == LimiterSpec => []LimiterInv
BY LimiterInitially, LimiterStep, PTL DEF LimiterSpec

\* No frame comes out above the ceiling, whatever peaks come in and however long
\* the line is: the queue covers every frame until it has left the line.
THEOREM OutputUnderCeilingCorrect == LimiterSpec => []OutputUnderCeiling
<1>1. LimiterInv => OutputUnderCeiling
  BY DEF LimiterInv
<1> QED BY <1>1, LimiterInvCorrect, PTL

(***************************************************************************)
(* The recorders                                                           *)
(***************************************************************************)
CaptureTypeOK ==
  /\ samples \in Seq(Nat) /\ lives \in Seq(Nat) /\ ring \in Seq(Nat)
  /\ recorded \in Seq(Nat) /\ played \in Seq(Nat)
  /\ written \in BOOLEAN /\ begunAt \in BOOLEAN /\ sent \in BOOLEAN /\ active \in BOOLEAN
  /\ rendered \in Nat

\* The device's recorder has begun when something was played, and is done at the limit.
RecorderKnows ==
  /\ begunAt <=> played # <<>>
  /\ sent <=> Len(recorded) >= OutputLimit

\* The same frames, told by their places.
LivesAreTaken ==
  /\ Len(samples) <= Len(lives) /\ \A k \in 1 .. Len(samples) : samples[k] = lives[k]
  /\ ~written => Len(samples) = Least(Len(lives), LiveCapacity)

PlayedIsTaken ==
  /\ Len(recorded) = Least(Len(played), OutputLimit)
  /\ \A k \in 1 .. Len(recorded) : recorded[k] = played[k]

CaptureInv == CaptureTypeOK /\ RecorderKnows /\ LivesAreTaken /\ PlayedIsTaken

LEMMA LeastIs ==
  ASSUME NEW a \in Int, NEW b \in Int
  PROVE  Least(a, b) \in {a, b} /\ Least(a, b) <= a /\ Least(a, b) <= b
BY DEF Least

\* What Append and concatenation make of a sequence of frames.
LEMMA AppendIs ==
  ASSUME NEW s \in Seq(Nat), NEW x \in Nat
  PROVE  /\ Append(s, x) \in Seq(Nat) /\ Append(s, x) # <<>> /\ Len(Append(s, x)) = Len(s) + 1
         /\ Append(s, x)[Len(s) + 1] = x
         /\ \A k \in 1 .. Len(s) : Append(s, x)[k] = s[k]
OBVIOUS

LEMMA ConcatIs ==
  ASSUME NEW s \in Seq(Nat), NEW r \in Seq(Nat)
  PROVE  /\ s \o r \in Seq(Nat) /\ Len(s \o r) = Len(s) + Len(r)
         /\ \A k \in 1 .. Len(s) : (s \o r)[k] = s[k]
         /\ \A k \in Len(s) + 1 .. Len(s \o r) : (s \o r)[k] = r[k - Len(s)]
OBVIOUS

LEMMA CaptureInitially == CaptureInit => CaptureInv
<1> SUFFICES ASSUME CaptureInit PROVE CaptureInv
  OBVIOUS
<1>1. CaptureTypeOK
  <2>1. /\ samples \in Seq(Nat) /\ lives \in Seq(Nat) /\ ring \in Seq(Nat)
        /\ recorded \in Seq(Nat) /\ played \in Seq(Nat)
    BY DEF CaptureInit
  <2>2. rendered \in Nat /\ {written, begunAt, sent, active} \subseteq BOOLEAN
    BY DEF CaptureInit
  <2> QED BY <2>1, <2>2 DEF CaptureTypeOK
<1>2. RecorderKnows /\ LivesAreTaken /\ PlayedIsTaken
  BY CaptureAssumption DEF CaptureInit, RecorderKnows, LivesAreTaken, PlayedIsTaken, Least
<1> QED BY <1>1, <1>2 DEF CaptureInv

LEMMA BlockIsOfNumbers ==
  ASSUME rendered \in Nat
  PROVE  BlockOf(rendered) \in Seq(Nat) /\ Len(BlockOf(rendered)) = BlockFrames /\ BlockFrames \in Nat \ {0}
<1>1. BlockFrames \in Nat \ {0}
  BY CaptureAssumption
<1>2. \A i \in 1 .. BlockFrames : rendered * BlockFrames + i \in Nat
  BY <1>1, SMT
<1> QED BY <1>1, <1>2 DEF BlockOf

\* push: what is taken of a block continues what was taken before.
LEMMA CaptureContinues ==
  ASSUME CaptureTypeOK, LivesAreTaken, NEW block \in Seq(Nat), Captures(block), written' = written
  PROVE  LivesAreTaken' /\ samples' \in Seq(Nat) /\ lives' \in Seq(Nat)
<1> DEFINE room == LiveCapacity - Len(samples)
<1>0. /\ samples \in Seq(Nat) /\ lives \in Seq(Nat) /\ Len(samples) \in Nat /\ Len(lives) \in Nat
      /\ Len(block) \in Nat /\ LiveCapacity \in Nat \ {0} /\ LiveCapacity' = LiveCapacity
  BY CaptureAssumption DEF CaptureTypeOK
<1>1. CASE mode # "live"
  BY <1>0, <1>1 DEF Captures, LivesAreTaken, Least
<1>2. CASE mode = "live" /\ written
  <2>1. samples' = samples /\ lives' = lives \o block
    BY <1>2 DEF Captures
  <2>2. lives' \in Seq(Nat) /\ Len(lives') = Len(lives) + Len(block)
        /\ \A k \in 1 .. Len(lives) : lives'[k] = lives[k]
    BY <1>0, <2>1
  <2> QED BY <1>0, <1>2, <2>1, <2>2 DEF LivesAreTaken
<1>3. CASE mode = "live" /\ ~written
  <2> DEFINE part == TakenOut(block, room)
             size == Least(Len(block), room)
  <2>1. samples' = samples \o part /\ lives' = lives \o block
    BY <1>3 DEF Captures
  <2>2. room \in Nat /\ size \in Nat /\ size <= Len(block)
    BY <1>0, <1>3 DEF LivesAreTaken, Least
  <2>3. part \in Seq(Nat) /\ Len(part) = size /\ \A k \in 1 .. size : part[k] = block[k]
    <3>1. part = SubSeq(block, 1, size)
      BY DEF TakenOut
    <3> HIDE DEF part, size
    <3> QED BY <1>0, <2>2, <3>1
  <2> HIDE DEF part
  <2>4. /\ samples' \in Seq(Nat) /\ Len(samples') = Len(samples) + size
        /\ \A k \in 1 .. Len(samples) : samples'[k] = samples[k]
        /\ \A k \in Len(samples) + 1 .. Len(samples') : samples'[k] = part[k - Len(samples)]
    <3> HIDE DEF size
    <3>1. /\ samples \o part \in Seq(Nat) /\ Len(samples \o part) = Len(samples) + Len(part)
          /\ \A k \in 1 .. Len(samples) : (samples \o part)[k] = samples[k]
          /\ \A k \in Len(samples) + 1 .. Len(samples \o part) : (samples \o part)[k] = part[k - Len(samples)]
      BY Zenon, <1>0, <2>3, ConcatIs
    <3> QED BY <2>1, <2>3, <3>1
  <2>5. /\ lives' \in Seq(Nat) /\ Len(lives') = Len(lives) + Len(block)
        /\ \A k \in 1 .. Len(lives) : lives'[k] = lives[k]
        /\ \A k \in Len(lives) + 1 .. Len(lives') : lives'[k] = block[k - Len(lives)]
    BY <1>0, <2>1
  <2>6. Len(samples') = Least(Len(lives'), LiveCapacity) /\ Len(samples') <= Len(lives')
    <3>1. Len(samples) = Least(Len(lives), LiveCapacity)
      BY <1>3 DEF LivesAreTaken
    <3>2. size \in {Len(block), room} /\ size <= Len(block) /\ size <= room /\ room \in Nat
      BY <1>0, <2>2, LeastIs
    <3>3. Len(samples') = Len(samples) + size /\ Len(lives') = Len(lives) + Len(block)
      BY <2>4, <2>5
    <3> HIDE DEF size
    <3>4. Len(samples) = Len(lives) \/ Len(samples) = LiveCapacity
      BY <1>0, <3>1 DEF Least
    <3>5. Len(samples) <= Len(lives) /\ Len(samples) <= LiveCapacity
      BY <1>0, <3>1, LeastIs
    <3> QED BY <1>0, <3>2, <3>3, <3>4, <3>5 DEF Least
  <2>7. size # 0 => Len(samples) = Len(lives)
    BY <1>0, <1>3 DEF LivesAreTaken, Least
  <2>8. ASSUME NEW k \in 1 .. Len(samples') PROVE samples'[k] = lives'[k]
    <3> HIDE DEF size
    <3>1. CASE k \in 1 .. Len(samples)
      <4>1. samples[k] = lives[k] /\ k \in 1 .. Len(lives)
        BY <1>0, <3>1 DEF LivesAreTaken
      <4> QED BY <2>4, <2>5, <3>1, <4>1
    <3>2. CASE k > Len(samples)
      <4>1. Len(samples) = Len(lives) /\ k - Len(samples) \in 1 .. size
        BY <1>0, <2>2, <2>4, <2>7, <3>2
      <4>2. samples'[k] = block[k - Len(samples)]
        <5>1. k \in Len(samples) + 1 .. Len(samples')
          BY <1>0, <2>4, <3>2
        <5>2. samples'[k] = part[k - Len(samples)]
          BY <2>4, <5>1
        <5>3. part[k - Len(samples)] = block[k - Len(samples)]
          BY <2>3, <4>1
        <5> QED BY <5>2, <5>3
      <4>3. k \in Len(lives) + 1 .. Len(lives')
        BY <1>0, <2>2, <2>5, <3>2, <4>1
      <4> QED BY <2>5, <4>1, <4>2, <4>3
    <3> QED BY <1>0, <2>4, <3>1, <3>2
  <2> QED BY <1>0, <2>4, <2>5, <2>6, <2>8 DEF LivesAreTaken
<1> QED BY <1>1, <1>2, <1>3

LEMMA RecorderContinues ==
  ASSUME CaptureInv, DeviceTakes
  PROVE  CaptureInv'
<1> DEFINE frame == IF ring = <<>> THEN 0 ELSE Head(ring)
<1>0. /\ samples \in Seq(Nat) /\ lives \in Seq(Nat) /\ ring \in Seq(Nat)
      /\ recorded \in Seq(Nat) /\ played \in Seq(Nat)
      /\ written \in BOOLEAN /\ begunAt \in BOOLEAN /\ sent \in BOOLEAN /\ active \in BOOLEAN
      /\ rendered \in Nat
      /\ OutputLimit \in Nat \ {0} /\ Len(played) \in Nat /\ Len(recorded) \in Nat
  BY CaptureAssumption DEF CaptureInv, CaptureTypeOK
<1>1. frame \in Nat /\ ring' \in Seq(Nat)
  BY <1>0 DEF DeviceTakes
<1>2. UNCHANGED <<mode, rendered, active, samples, written, file, lives>>
  BY DEF DeviceTakes, liveCaptureVars
<1>3. /\ IF ~sent /\ Records(begunAt)
           THEN begunAt' = TRUE /\ recorded' = Append(recorded, frame)
                /\ sent' = (Len(recorded) + 1 >= OutputLimit)
           ELSE UNCHANGED outputCaptureVars
      /\ played' = IF played # <<>> \/ active THEN Append(played, frame) ELSE played
  BY DEF DeviceTakes
<1> HIDE DEF frame
<1>4. RecorderKnows /\ PlayedIsTaken
  BY DEF CaptureInv
<1>5. LivesAreTaken'
  BY <1>2 DEF CaptureInv, LivesAreTaken
<1>6. CASE ~sent /\ Records(begunAt)
  <2>1. /\ recorded' = Append(recorded, frame) /\ played' = Append(played, frame)
        /\ begunAt' = TRUE /\ sent' = (Len(recorded) + 1 >= OutputLimit)
    BY <1>3, <1>4, <1>6 DEF Records, RecorderKnows
  <2>2. Len(recorded) = Len(played) /\ Len(recorded) < OutputLimit
    BY <1>0, <1>4, <1>6 DEF RecorderKnows, PlayedIsTaken, Least
  <2>3. /\ recorded' \in Seq(Nat) /\ Len(recorded') = Len(recorded) + 1
        /\ played' \in Seq(Nat) /\ Len(played') = Len(played) + 1 /\ played' # <<>>
        /\ \A k \in 1 .. Len(recorded) : recorded'[k] = recorded[k] /\ played'[k] = played[k]
        /\ recorded'[Len(recorded) + 1] = frame /\ played'[Len(played) + 1] = frame
    <3>1. /\ recorded' \in Seq(Nat) /\ Len(recorded') = Len(recorded) + 1
          /\ \A k \in 1 .. Len(recorded) : recorded'[k] = recorded[k]
          /\ recorded'[Len(recorded) + 1] = frame
      BY Zenon, <1>0, <1>1, <2>1, AppendIs
    <3>2. /\ played' \in Seq(Nat) /\ Len(played') = Len(played) + 1 /\ played' # <<>>
          /\ \A k \in 1 .. Len(played) : played'[k] = played[k]
          /\ played'[Len(played) + 1] = frame
      BY Zenon, <1>0, <1>1, <2>1, AppendIs
    <3> QED BY <2>2, <3>1, <3>2
  <2>4. CaptureTypeOK'
    BY <1>0, <1>1, <1>2, <2>1, <2>3 DEF CaptureTypeOK
  <2>5. RecorderKnows'
    BY <2>1, <2>3 DEF RecorderKnows
  <2>6. PlayedIsTaken'
    <3>1. Len(recorded') = Least(Len(played'), OutputLimit)
      BY <1>0, <2>2, <2>3 DEF Least
    <3>2. ASSUME NEW k \in 1 .. Len(recorded') PROVE recorded'[k] = played'[k]
      <4>1. k \in 1 .. Len(recorded) \/ k = Len(recorded) + 1
        BY <1>0, <2>3
      <4> QED BY <1>4, <2>2, <2>3, <4>1 DEF PlayedIsTaken
    <3> QED BY <3>1, <3>2 DEF PlayedIsTaken
  <2> QED BY <1>5, <2>4, <2>5, <2>6 DEF CaptureInv
<1>7. CASE ~(~sent /\ Records(begunAt))
  <2>1. recorded' = recorded /\ begunAt' = begunAt /\ sent' = sent
    BY <1>3, <1>7 DEF outputCaptureVars
  <2>2. CASE played' = played
    BY <1>0, <1>1, <1>2, <1>4, <1>5, <2>1, <2>2 DEF CaptureInv, CaptureTypeOK, RecorderKnows, PlayedIsTaken
  <2>3. CASE played' = Append(played, frame) /\ (played # <<>> \/ active)
    <3>1. sent /\ begunAt
      <4>1. sent
        BY <1>4, <1>7, <2>3 DEF Records, RecorderKnows
      <4>2. Len(recorded) > 0
        BY <1>0, <1>4, <4>1 DEF RecorderKnows
      <4>3. played # <<>>
        BY <1>0, <1>4, <4>2 DEF PlayedIsTaken, Least
      <4> QED BY <1>4, <4>1, <4>3 DEF RecorderKnows
    <3>2. Len(recorded) >= OutputLimit
      BY <1>4, <3>1 DEF RecorderKnows
    <3>3. /\ played' \in Seq(Nat) /\ Len(played') = Len(played) + 1 /\ played' # <<>>
          /\ \A k \in 1 .. Len(played) : played'[k] = played[k]
      BY Zenon, <1>0, <1>1, <2>3, AppendIs
    <3>4. Len(recorded) = Least(Len(played), OutputLimit)
      BY <1>4 DEF PlayedIsTaken
    <3>5. Len(recorded) = Least(Len(played'), OutputLimit) /\ Len(recorded) <= Len(played)
      BY <1>0, <3>2, <3>3, <3>4 DEF Least
    <3>6. \A k \in 1 .. Len(recorded) : recorded[k] = played'[k]
      <4> SUFFICES ASSUME NEW k \in 1 .. Len(recorded) PROVE recorded[k] = played'[k]
        OBVIOUS
      <4>1. k \in 1 .. Len(played)
        BY <1>0, <3>5
      <4> QED BY <1>4, <3>3, <4>1 DEF PlayedIsTaken
    <3>7. RecorderKnows' /\ PlayedIsTaken'
      BY <1>4, <2>1, <3>1, <3>3, <3>5, <3>6 DEF RecorderKnows, PlayedIsTaken
    <3>8. CaptureTypeOK'
      BY <1>0, <1>1, <1>2, <2>1, <3>3 DEF CaptureTypeOK
    <3> QED BY <1>5, <3>7, <3>8 DEF CaptureInv
  <2> QED BY <1>3, <2>2, <2>3
<1> QED BY <1>6, <1>7

LEMMA CaptureStep == CaptureInv /\ [CaptureNext]_captureVars => CaptureInv'
<1> SUFFICES ASSUME CaptureInv, [CaptureNext]_captureVars PROVE CaptureInv'
  OBVIOUS
<1> USE DEF liveCaptureVars, outputCaptureVars
<1>0. CaptureTypeOK /\ RecorderKnows /\ LivesAreTaken /\ PlayedIsTaken
  BY DEF CaptureInv
<1>1. CASE Renders
  <2>1. BlockOf(rendered) \in Seq(Nat)
    BY <1>0, BlockIsOfNumbers DEF CaptureTypeOK
  <2>2. LivesAreTaken' /\ samples' \in Seq(Nat) /\ lives' \in Seq(Nat)
    BY <1>0, <1>1, <2>1, CaptureContinues DEF Renders
  <2>3. UNCHANGED <<active, written, begunAt, sent, recorded, played>> /\ ring' \in Seq(Nat)
        /\ rendered' = rendered + 1
    BY <1>1, <2>1 DEF Renders
  <2>4. CaptureTypeOK' /\ RecorderKnows' /\ PlayedIsTaken'
    BY <1>0, <2>2, <2>3 DEF CaptureTypeOK, RecorderKnows, PlayedIsTaken
  <2> QED BY <2>2, <2>4 DEF CaptureInv
<1>2. ASSUME \/ UNCHANGED captureVars \/ StopsAll \/ EndsPlaying \/ EndsLoop
             \/ \E kind \in {"live", "scheduled"} : Plays(kind)
      PROVE  CaptureInv'
  <2>1. /\ UNCHANGED <<samples, begunAt, sent, recorded, played, lives, rendered>>
        /\ written' \in BOOLEAN /\ active' \in BOOLEAN
        /\ ring' \in Seq(Nat) /\ (written => written')
    <3>1. CASE UNCHANGED captureVars
      BY <1>0, <3>1 DEF captureVars, CaptureTypeOK
    <3>2. Finishes => samples' = samples /\ written' \in BOOLEAN /\ (written => written')
      BY <1>0 DEF Finishes, CaptureTypeOK
    <3>3. CASE StopsAll
      <4>1. samples' = samples /\ written' \in BOOLEAN /\ (written => written')
        BY <1>0, <3>2, <3>3 DEF StopsAll, CaptureTypeOK
      <4>2. /\ UNCHANGED <<begunAt, sent, recorded, played, lives, rendered>>
            /\ active' = FALSE /\ ring' = <<>>
        BY <3>3 DEF StopsAll
      <4>3. ring' \in Seq(Nat)
        BY SMT, <4>2
      <4>4. active' \in BOOLEAN
        BY Zenon, <4>2
      <4> QED BY Zenon, <4>1, <4>2, <4>3, <4>4
    <3>4. CASE EndsPlaying \/ EndsLoop
      BY <1>0, <3>2, <3>4 DEF EndsPlaying, EndsLoop, CaptureTypeOK
    <3>5. ASSUME NEW kind \in {"live", "scheduled"}, Plays(kind)
          PROVE  /\ UNCHANGED <<samples, begunAt, sent, recorded, played, lives, rendered, written>>
                 /\ active' \in BOOLEAN /\ ring' \in Seq(Nat)
      BY <3>5 DEF Plays
    <3> QED BY <1>0, <1>2, <3>1, <3>3, <3>4, <3>5 DEF CaptureTypeOK
  <2>2. CaptureTypeOK' /\ RecorderKnows' /\ PlayedIsTaken'
    BY <1>0, <2>1 DEF CaptureTypeOK, RecorderKnows, PlayedIsTaken
  <2>3. LivesAreTaken'
    BY <1>0, <2>1 DEF LivesAreTaken
  <2> QED BY <2>2, <2>3 DEF CaptureInv
<1> QED BY <1>1, <1>2, RecorderContinues DEF CaptureNext

THEOREM CaptureInvCorrect == CaptureSpec => []CaptureInv
BY CaptureInitially, CaptureStep, PTL DEF CaptureSpec

\* What is recorded is what was heard, from the beginning and without a gap, for
\* every length of a block and of the buffers.
THEOREM RecordingsHaveNoGapCorrect == CaptureSpec => []RecordingsHaveNoGap
<1>1. ASSUME CaptureInv PROVE RecordingsHaveNoGap
  <2>0. /\ samples \in Seq(Nat) /\ lives \in Seq(Nat) /\ recorded \in Seq(Nat) /\ played \in Seq(Nat)
        /\ LivesAreTaken /\ PlayedIsTaken /\ OutputLimit \in Nat
    BY <1>1, CaptureAssumption DEF CaptureInv, CaptureTypeOK
  <2>1. IsPrefix(samples, lives)
    BY <2>0 DEF IsPrefix, LivesAreTaken
  <2>2. recorded = SubSeq(played, 1, Least(Len(played), OutputLimit))
    BY <2>0 DEF PlayedIsTaken, Least
  <2> QED BY <2>0, <2>1, <2>2 DEF RecordingsHaveNoGap, LivesAreTaken
<1> QED BY <1>1, CaptureInvCorrect, PTL

(***************************************************************************)
(* The meters                                                              *)
(***************************************************************************)
Metrics == [events : Nat, late : Nat]
Hands ==
  [at : {"idle", "trims", "bypasses", "clears", "raises", "offers", "storesEvents", "storesLate",
         "late", "begins", "publishesEvents", "publishesLate", "ends", "events", "checks"},
   peak : Nat, seen : Nat, metric : Metrics]

MeterTypeOK ==
  /\ loop \in Hands /\ receiver \in Hands /\ client \in Hands
  /\ peak \in Nat /\ ringPeak \in Nat
  /\ window \in Metrics /\ metric \in Metrics /\ ringMetric \in Metrics /\ sequence \in Nat

\* A thread that raises a peak has seen a lower one; at rest it has none in hand.
Raising(hand) ==
  /\ hand.at = "idle" => hand.peak = 0
  /\ hand.at = "raises" => hand.seen < hand.peak

HandsRaise == Raising(loop) /\ Raising(receiver)

\* No block that still has the trim of before is under way.
TrimIsForgotten ==
  ~enabled /\ quiet = 1 => loop.at # "trims" /\ gain = 0 /\ trim = Unmeasured

Publishing == receiver.at \in {"publishesEvents", "publishesLate", "ends"}

\* The sequence is odd while the cells are stored, and they are one publication else.
CellsAreWhole ==
  /\ sequence % 2 = (IF Publishing THEN 1 ELSE 0)
  /\ Publishing => receiver.metric \in published
  /\ receiver.at = "publishesLate" => ringMetric.events = receiver.metric.events
  /\ receiver.at = "ends" => ringMetric = receiver.metric
  /\ ~Publishing => ringMetric \in published

\* What a client has read is in the cells, as long as the sequence is what it was.
ReadIsOfCells ==
  /\ client.at \in {"events", "late", "checks"} => client.seen % 2 = 0 /\ client.seen <= sequence
  /\ client.at \in {"late", "checks"} /\ client.seen = sequence => client.metric.events = ringMetric.events
  /\ client.at = "checks" /\ client.seen = sequence => client.metric.late = ringMetric.late
  /\ taken \in published

MeterInv == MeterTypeOK /\ HandsRaise /\ TrimIsForgotten /\ CellsAreWhole /\ ReadIsOfCells

LEMMA IdleIsHand == Idle \in Hands /\ Raising(Idle) /\ Idle.at = "idle" /\ Idle.peak = 0 /\ NoMetric \in Metrics
BY DEF Idle, Hands, Raising, NoMetric, Metrics

LEMMA MeterInitially == MeterInit => MeterInv
<1> SUFFICES ASSUME MeterInit PROVE MeterInv
  OBVIOUS
<1> USE DEF MeterInit
<1>1. MeterTypeOK
  BY IdleIsHand DEF MeterTypeOK
<1>2. HandsRaise /\ TrimIsForgotten
  BY IdleIsHand DEF HandsRaise, TrimIsForgotten
<1>3. CellsAreWhole
  BY IdleIsHand DEF CellsAreWhole, Publishing
<1>4. ReadIsOfCells
  BY IdleIsHand DEF ReadIsOfCells
<1> QED BY <1>1, <1>2, <1>3, <1>4 DEF MeterInv

\* update_atomic_max: the hand is at rest, or has seen a lower cell.
LEMMA LoadsRaises ==
  ASSUME NEW hand \in Hands, NEW cell \in Nat, NEW high \in Nat
  PROVE  /\ Loads(hand, cell, high) \in Hands /\ Raising(Loads(hand, cell, high))
         /\ Loads(hand, cell, high).at \in {"idle", "raises"}
         /\ Loads(hand, cell, high).peak = (IF cell >= high THEN 0 ELSE high)
<1>1. CASE cell >= high
  BY <1>1, IdleIsHand DEF Loads
<1>2. CASE ~(cell >= high)
  <2> DEFINE new == [hand EXCEPT !.at = "raises", !.peak = high, !.seen = cell]
  <2>1. new \in Hands /\ new.at = "raises" /\ new.peak = high /\ new.seen = cell
    BY DEF Hands
  <2>2. Loads(hand, cell, high) = new
    BY <1>2 DEF Loads
  <2> HIDE DEF new
  <2> QED BY <1>2, <2>1, <2>2 DEF Raising
<1> QED BY <1>1, <1>2

LEMMA TrimKeepsMeters ==
  ASSUME MeterInv, TrimNext
  PROVE  MeterInv'
<1> USE DEF trimVars, peakVars, metricVars
<1>0. MeterTypeOK /\ HandsRaise /\ TrimIsForgotten /\ CellsAreWhole /\ ReadIsOfCells
  BY DEF MeterInv
<1>1. UNCHANGED <<client, peakVars, metricVars>>
  BY Zenon DEF TrimNext, ReadSwitch, EndTrim, ClearGains, MixBlock, SetEnabled
\* The hands change their place, and none that publishes.
<1>2. /\ loop' \in Hands /\ Raising(loop')
      /\ loop'.at = "trims" => (enabled /\ enabled' = enabled) \/ loop'.at = loop.at
  <2>1. CASE ReadSwitch
    <3> DEFINE place == IF enabled THEN "trims" ELSE "bypasses"
    <3>1. loop' = [loop EXCEPT !.at = place] /\ enabled' = enabled /\ place \in {"trims", "bypasses"}
      BY <2>1 DEF ReadSwitch
    <3>2. place = "trims" => enabled
      OBVIOUS
    <3> HIDE DEF place
    <3> QED BY <1>0, <3>1, <3>2 DEF MeterTypeOK, Hands, Raising
  <2>2. ASSUME NEW level, MixBlock(level) PROVE loop' = Idle
    BY <2>2 DEF MixBlock
  <2>3. CASE EndTrim \/ ClearGains \/ \E on \in BOOLEAN : SetEnabled(on)
    BY <1>0, <2>3 DEF EndTrim, ClearGains, SetEnabled, MeterTypeOK, HandsRaise
  <2> QED BY <2>1, <2>2, <2>3, IdleIsHand DEF TrimNext
<1>3. /\ receiver' \in Hands /\ Raising(receiver') /\ (receiver' = receiver \/ (~Publishing /\ ~Publishing'))
  <2>1. CASE ReadSwitch \/ EndTrim \/ \E level \in Levels \cup {MaxGain + 100} : MixBlock(level)
    BY <1>0, <2>1 DEF ReadSwitch, EndTrim, MixBlock, MeterTypeOK, HandsRaise
  <2>2. CASE ClearGains
    BY <2>2, IdleIsHand DEF ClearGains, Publishing
  <2>3. ASSUME NEW on \in BOOLEAN, SetEnabled(on)
        PROVE  receiver' \in Hands /\ Raising(receiver') /\ ~Publishing /\ ~Publishing'
    <3> DEFINE place == IF on THEN "idle" ELSE "clears"
    <3>1. receiver' = [receiver EXCEPT !.at = place] /\ receiver.at = "idle" /\ place \in {"idle", "clears"}
      BY <2>3 DEF SetEnabled
    <3> HIDE DEF place
    <3> QED BY <1>0, <3>1 DEF MeterTypeOK, HandsRaise, Hands, Raising, Publishing
  <2> QED BY <2>1, <2>2, <2>3 DEF TrimNext
<1>4. MeterTypeOK' /\ HandsRaise'
  BY <1>0, <1>1, <1>2, <1>3 DEF MeterTypeOK, HandsRaise
<1>5. TrimIsForgotten'
  <2>1. CASE ReadSwitch
    BY <1>0, <1>2, <2>1 DEF ReadSwitch, TrimIsForgotten
  <2>2. ASSUME NEW level, MixBlock(level) PROVE TrimIsForgotten'
    <3>1. CASE loop.at = "trims"
      BY <1>0, <2>2, <3>1 DEF MixBlock, TrimIsForgotten, Idle
    <3>2. CASE loop.at = "bypasses"
      <4>1. trim' = Unmeasured /\ gain' = trim'.gain /\ loop' = Idle
        BY <2>2, <3>2 DEF MixBlock, TrimAfter
      <4> QED BY <4>1, IdleIsHand DEF TrimIsForgotten, Unmeasured
    <3> QED BY <2>2, <3>1, <3>2 DEF MixBlock
  <2>3. CASE EndTrim
    BY <1>0, <2>3 DEF EndTrim, TrimIsForgotten, Unmeasured
  <2>4. CASE ClearGains
    BY <1>0, <2>4 DEF ClearGains, TrimIsForgotten, Unmeasured
  <2>5. ASSUME NEW on \in BOOLEAN, SetEnabled(on) PROVE TrimIsForgotten'
    BY <2>5 DEF SetEnabled, TrimIsForgotten
  <2> QED BY <2>1, <2>2, <2>3, <2>4, <2>5 DEF TrimNext
<1>6. CellsAreWhole' /\ ReadIsOfCells'
  <2>1. UNCHANGED <<sequence, ringMetric, published, client, taken>> /\ (Publishing' <=> Publishing)
        /\ (Publishing => receiver' = receiver)
    BY <1>1, <1>3 DEF Publishing
  <2>2. receiver'.at \in {"publishesLate", "ends"} => receiver' = receiver
    BY <2>1 DEF Publishing
  <2> QED BY <1>0, <2>1, <2>2 DEF CellsAreWhole, ReadIsOfCells
<1> QED BY <1>4, <1>5, <1>6 DEF MeterInv

LEMMA PeaksKeepMeters ==
  ASSUME MeterInv, PeakNext
  PROVE  MeterInv'
<1> USE DEF trimVars, peakVars, metricVars
<1>0. MeterTypeOK /\ HandsRaise /\ TrimIsForgotten /\ CellsAreWhole /\ ReadIsOfCells
  BY DEF MeterInv
<1>1. UNCHANGED <<client, trimVars, metricVars>>
  BY Zenon DEF PeakNext, LimitBlock, RaisePeak, ResetPeak, TakePeak, OfferPeak, PublishPeak, ReadPeak
<1>2. loop \in Hands /\ receiver \in Hands /\ peak \in Nat /\ ringPeak \in Nat
      /\ loop.peak \in Nat /\ receiver.peak \in Nat /\ Raising(loop) /\ Raising(receiver)
  BY <1>0 DEF MeterTypeOK, HandsRaise, Hands
<1>3. /\ loop' \in Hands /\ Raising(loop') /\ (loop'.at = "trims" => loop' = loop)
      /\ receiver' \in Hands /\ Raising(receiver') /\ (receiver' = receiver \/ (~Publishing /\ ~Publishing'))
      /\ peak' \in Nat /\ ringPeak' \in Nat
  <2>1. ASSUME NEW reduction \in 0 .. MaxReduction, LimitBlock(reduction)
        PROVE  /\ loop' \in Hands /\ Raising(loop') /\ loop'.at \in {"idle", "raises"}
               /\ UNCHANGED <<receiver, peak, ringPeak>>
    <3>1. reduction \in Nat
      BY MeterAssumption
    <3> QED BY <1>2, <2>1, <3>1, LoadsRaises DEF LimitBlock
  <2>2. ASSUME RaisePeak
        PROVE  /\ loop' \in Hands /\ Raising(loop') /\ loop'.at \in {"idle", "raises"}
               /\ peak' \in Nat /\ UNCHANGED <<receiver, ringPeak>>
    BY <1>2, <2>2, LoadsRaises, IdleIsHand DEF RaisePeak, AfterRaise
  <2>3. ASSUME ResetPeak \/ ReadPeak
        PROVE  UNCHANGED <<loop, receiver>> /\ peak' \in Nat /\ ringPeak' \in Nat
    BY <1>2, <2>3 DEF ResetPeak, ReadPeak
  <2>4. ASSUME TakePeak
        PROVE  /\ receiver' \in Hands /\ Raising(receiver') /\ ~Publishing /\ ~Publishing'
               /\ peak' \in Nat /\ UNCHANGED <<loop, ringPeak>>
    <3>1. receiver' = [receiver EXCEPT !.at = "offers", !.peak = peak] /\ receiver.at = "idle"
          /\ peak' = 0 /\ UNCHANGED <<loop, ringPeak>>
      BY <2>4 DEF TakePeak
    <3>2. receiver' \in Hands /\ receiver'.at = "offers"
      BY <1>2, <3>1 DEF Hands
    <3> QED BY <3>1, <3>2 DEF Raising, Publishing
  <2>5. ASSUME OfferPeak \/ PublishPeak
        PROVE  /\ receiver' \in Hands /\ Raising(receiver') /\ ~Publishing /\ ~Publishing'
               /\ ringPeak' \in Nat /\ UNCHANGED <<loop, peak>>
    <3>1. receiver'.at \in {"idle", "raises"} /\ receiver' \in Hands /\ Raising(receiver')
          /\ receiver.at \in {"offers", "raises"}
      <4>1. receiver.at \in {"offers", "raises"}
        BY <2>5 DEF OfferPeak, PublishPeak
      <4>2. receiver' = Loads(receiver, ringPeak, receiver.peak) \/ receiver' = Idle
        BY <2>5 DEF OfferPeak, PublishPeak, AfterRaise
      <4>3. CASE receiver' = Loads(receiver, ringPeak, receiver.peak)
        BY <1>2, <4>1, <4>3, LoadsRaises
      <4>4. CASE receiver' = Idle
        BY <4>1, <4>4, IdleIsHand
      <4> QED BY <4>2, <4>3, <4>4
    <3>2. ringPeak' \in Nat /\ UNCHANGED <<loop, peak>>
      BY <1>2, <2>5 DEF OfferPeak, PublishPeak, RingAfter
    <3> QED BY <3>1, <3>2 DEF Publishing
  <2> QED BY <1>2, <2>1, <2>2, <2>3, <2>4, <2>5 DEF PeakNext
<1>4. MeterTypeOK' /\ HandsRaise'
  BY <1>0, <1>1, <1>3 DEF MeterTypeOK, HandsRaise
<1>5. TrimIsForgotten'
  BY <1>0, <1>1, <1>3 DEF TrimIsForgotten
<1>6. CellsAreWhole' /\ ReadIsOfCells'
  <2>1. UNCHANGED <<sequence, ringMetric, published, client, taken>> /\ (Publishing' <=> Publishing)
        /\ (Publishing => receiver' = receiver)
    BY <1>1, <1>3 DEF Publishing
  <2>2. receiver'.at \in {"publishesLate", "ends"} => receiver' = receiver
    BY <2>1 DEF Publishing
  <2> QED BY <1>0, <2>1, <2>2 DEF CellsAreWhole, ReadIsOfCells
<1> QED BY <1>4, <1>5, <1>6 DEF MeterInv

LEMMA SequenceTurns ==
  ASSUME NEW n \in Nat
  PROVE  /\ n % 2 = 0 => (n + 1) % 2 = 1
         /\ n % 2 = 1 => (n + 1) % 2 = 0
BY SMT

LEMMA LoopCountsBlocks ==
  ASSUME MeterInv, follows = "metric",
         StoreEvents \/ StoreLate \/ \E late \in 0 .. 1, due \in BOOLEAN : CountBlock(late, due)
  PROVE  MeterInv'
<1> USE DEF trimVars, peakVars, metricVars
<1>0. MeterTypeOK /\ HandsRaise /\ TrimIsForgotten /\ CellsAreWhole /\ ReadIsOfCells
      /\ loop \in Hands /\ metric \in Metrics /\ window \in Metrics
  BY DEF MeterInv, MeterTypeOK
<1>1. UNCHANGED <<receiver, client, trimVars, peakVars, ringMetric, sequence, published, taken>>
  BY Zenon DEF StoreEvents, StoreLate, CountBlock
<1>2. /\ loop' \in Hands /\ Raising(loop') /\ (loop'.at = "trims" => loop' = loop)
      /\ metric' \in Metrics /\ window' \in Metrics
  <2>1. ASSUME NEW late \in 0 .. 1, NEW due \in BOOLEAN, CountBlock(late, due)
        PROVE  /\ loop' \in Hands /\ Raising(loop') /\ (loop'.at = "trims" => loop' = loop)
               /\ metric' \in Metrics /\ window' \in Metrics
    <3>1. window' \in Metrics /\ metric' = metric
      BY <1>0, <2>1 DEF CountBlock, Metrics
    <3>2. loop' = loop \/ loop' = [loop EXCEPT !.at = "storesEvents"]
      BY <2>1 DEF CountBlock
    <3>3. [loop EXCEPT !.at = "storesEvents"] \in Hands
      BY <1>0 DEF Hands
    <3>4. [loop EXCEPT !.at = "storesEvents"].at = "storesEvents"
      BY <1>0 DEF Hands
    <3> QED BY <1>0, <3>1, <3>2, <3>3, <3>4 DEF Raising, HandsRaise
  <2>2. CASE StoreEvents
    <3>1. loop' = [loop EXCEPT !.at = "storesLate"] /\ window' = window
          /\ metric' = [metric EXCEPT !.events = window.events]
      BY <2>2 DEF StoreEvents
    <3>2. loop' \in Hands /\ loop'.at = "storesLate"
      BY <1>0, <3>1 DEF Hands
    <3>3. metric' \in Metrics
      BY <1>0, <3>1 DEF Metrics
    <3> QED BY <1>0, <3>1, <3>2, <3>3 DEF Raising
  <2>3. CASE StoreLate
    <3>1. loop' = Idle /\ window' = NoMetric /\ metric' = [metric EXCEPT !.late = window.late]
      BY <2>3 DEF StoreLate
    <3>2. metric' \in Metrics
      BY <1>0, <3>1 DEF Metrics
    <3> QED BY <3>1, <3>2, IdleIsHand
  <2> QED BY <2>1, <2>2, <2>3
<1>3. MeterTypeOK' /\ HandsRaise' /\ TrimIsForgotten'
  BY <1>0, <1>1, <1>2 DEF MeterTypeOK, HandsRaise, TrimIsForgotten
<1>4. CellsAreWhole' /\ ReadIsOfCells'
  BY <1>0, <1>1 DEF CellsAreWhole, Publishing, ReadIsOfCells
<1> QED BY <1>3, <1>4 DEF MeterInv

LEMMA ReceiverPublishes ==
  ASSUME MeterInv, SnapshotEvents \/ SnapshotLate \/ BeginPublish \/ PublishEvents \/ PublishLate \/ EndPublish
  PROVE  MeterInv'
<1> USE DEF trimVars, peakVars, metricVars, Ring, Then
<1>0. MeterTypeOK /\ HandsRaise /\ TrimIsForgotten /\ CellsAreWhole /\ ReadIsOfCells
      /\ receiver \in Hands /\ metric \in Metrics /\ ringMetric \in Metrics /\ sequence \in Nat
  BY DEF MeterInv, MeterTypeOK
<1>m. receiver.metric \in Metrics
  BY <1>0 DEF Hands
<1>1. UNCHANGED <<loop, client, window, metric, taken, trimVars, peakVars>>
  BY Zenon DEF SnapshotEvents, SnapshotLate, BeginPublish, PublishEvents, PublishLate, EndPublish
\* The receiver's next place, and what it does to the cells there.
<1>2. ASSUME NEW place \in {"late", "begins", "publishesEvents", "publishesLate", "ends"},
             NEW m \in Metrics, receiver' = [receiver EXCEPT !.at = place, !.metric = m]
      PROVE  receiver' \in Hands /\ receiver'.at = place /\ receiver'.metric = m /\ Raising(receiver')
  <2>1. receiver' \in Hands /\ receiver'.at = place /\ receiver'.metric = m
    BY <1>0, <1>2 DEF Hands
  <2> QED BY <2>1 DEF Raising
<1>3. CASE SnapshotEvents
  <2>1. PICK m \in Metrics : receiver' = [receiver EXCEPT !.at = "late", !.metric = m]
    <3>1. [receiver.metric EXCEPT !.events = metric.events] \in Metrics
      BY <1>0, <1>m DEF Metrics
    <3>2. receiver' = [receiver EXCEPT !.at = "late", !.metric = [receiver.metric EXCEPT !.events = metric.events]]
      BY <1>0, <1>3 DEF SnapshotEvents, Hands
    <3> QED BY <3>1, <3>2
  <2>2. receiver.at = "idle" /\ UNCHANGED <<ringMetric, sequence, published>>
    BY <1>3 DEF SnapshotEvents
  <2>3. receiver' \in Hands /\ receiver'.at = "late" /\ Raising(receiver')
    BY <1>2, <2>1
  <2> QED BY <1>0, <1>1, <2>2, <2>3 DEF MeterInv, MeterTypeOK, HandsRaise, TrimIsForgotten, CellsAreWhole,
          Publishing, ReadIsOfCells
<1>4. CASE SnapshotLate
  <2>1. PICK m \in Metrics : receiver' = [receiver EXCEPT !.at = "begins", !.metric = m]
    <3>1. [receiver.metric EXCEPT !.late = metric.late] \in Metrics
      BY <1>0, <1>m DEF Metrics
    <3>2. receiver' = [receiver EXCEPT !.at = "begins", !.metric = [receiver.metric EXCEPT !.late = metric.late]]
      BY <1>0, <1>4 DEF SnapshotLate, Hands
    <3> QED BY <3>1, <3>2
  <2>2. receiver.at = "late" /\ UNCHANGED <<ringMetric, sequence, published>>
    BY <1>4 DEF SnapshotLate
  <2>3. receiver' \in Hands /\ receiver'.at = "begins" /\ Raising(receiver')
    BY <1>2, <2>1
  <2> QED BY <1>0, <1>1, <2>2, <2>3 DEF MeterInv, MeterTypeOK, HandsRaise, TrimIsForgotten, CellsAreWhole,
          Publishing, ReadIsOfCells
<1>5. CASE BeginPublish
  <2>1. receiver.at = "begins" /\ receiver' = [receiver EXCEPT !.at = "publishesEvents", !.metric = receiver.metric]
        /\ sequence' = sequence + 1 /\ published' = published \cup {receiver.metric} /\ ringMetric' = ringMetric
    BY <1>0, <1>5 DEF BeginPublish, Hands
  <2>2. receiver' \in Hands /\ receiver'.at = "publishesEvents" /\ Raising(receiver') /\ receiver'.metric = receiver.metric
    BY <1>2, <1>m, <2>1
  <2>3. MeterTypeOK' /\ HandsRaise' /\ TrimIsForgotten'
    BY <1>0, <1>1, <2>1, <2>2 DEF MeterTypeOK, HandsRaise, TrimIsForgotten
  <2>4. CellsAreWhole'
    BY <1>0, <2>1, <2>2, SequenceTurns DEF CellsAreWhole, Publishing
  <2>5. ReadIsOfCells'
    <3>1. client' = client /\ taken' = taken /\ taken \in published'
      BY <1>0, <1>1, <2>1 DEF ReadIsOfCells
    <3>2. client.at \in {"events", "late", "checks"} => client.seen # sequence' /\ client.seen <= sequence'
      BY <1>0, <2>1 DEF ReadIsOfCells, MeterTypeOK, Hands
    <3> QED BY <1>0, <2>1, <3>1, <3>2 DEF ReadIsOfCells
  <2> QED BY <2>3, <2>4, <2>5 DEF MeterInv
<1>6. CASE PublishEvents \/ PublishLate
  <2>1. ASSUME PublishEvents
        PROVE  /\ Publishing /\ Publishing' /\ receiver' \in Hands /\ Raising(receiver') /\ ringMetric' \in Metrics
               /\ UNCHANGED <<sequence, published>> /\ CellsAreWhole'
    <3>1. receiver.at = "publishesEvents" /\ receiver' = [receiver EXCEPT !.at = "publishesLate", !.metric = receiver.metric]
          /\ ringMetric' = [ringMetric EXCEPT !.events = receiver.metric.events] /\ UNCHANGED <<sequence, published>>
      BY <1>0, <2>1 DEF PublishEvents, Hands
    <3>2. receiver' \in Hands /\ receiver'.at = "publishesLate" /\ Raising(receiver') /\ receiver'.metric = receiver.metric
      BY <1>2, <1>m, <3>1
    <3>3. ringMetric' \in Metrics /\ ringMetric'.events = receiver.metric.events
      BY <1>0, <1>m, <3>1 DEF Metrics
    <3>4. CellsAreWhole'
      BY <1>0, <3>1, <3>2, <3>3 DEF CellsAreWhole, Publishing
    <3> QED BY <3>1, <3>2, <3>3, <3>4 DEF Publishing
  <2>2. ASSUME PublishLate
        PROVE  /\ Publishing /\ Publishing' /\ receiver' \in Hands /\ Raising(receiver') /\ ringMetric' \in Metrics
               /\ UNCHANGED <<sequence, published>> /\ CellsAreWhole'
    <3>1. receiver.at = "publishesLate" /\ receiver' = [receiver EXCEPT !.at = "ends", !.metric = receiver.metric]
          /\ ringMetric' = [ringMetric EXCEPT !.late = receiver.metric.late] /\ UNCHANGED <<sequence, published>>
      BY <1>0, <2>2 DEF PublishLate, Hands
    <3>2. receiver' \in Hands /\ receiver'.at = "ends" /\ Raising(receiver') /\ receiver'.metric = receiver.metric
      BY <1>2, <1>m, <3>1
    <3>3. ringMetric' \in Metrics /\ ringMetric' = receiver.metric
      <4>1. ringMetric.events = receiver.metric.events
        BY <1>0, <3>1 DEF CellsAreWhole
      <4> QED BY <1>0, <1>m, <3>1, <4>1 DEF Metrics
    <3>4. CellsAreWhole'
      BY <1>0, <3>1, <3>2, <3>3 DEF CellsAreWhole, Publishing
    <3> QED BY <3>1, <3>2, <3>3, <3>4 DEF Publishing
  <2>3. /\ Publishing /\ Publishing' /\ receiver' \in Hands /\ Raising(receiver') /\ ringMetric' \in Metrics
        /\ UNCHANGED <<sequence, published>> /\ CellsAreWhole'
    BY <1>6, <2>1, <2>2
  <2>4. MeterTypeOK' /\ HandsRaise' /\ TrimIsForgotten'
    BY <1>0, <1>1, <2>3 DEF MeterTypeOK, HandsRaise, TrimIsForgotten
  <2>5. ReadIsOfCells'
    <3>1. sequence % 2 = 1
      BY <1>0, <2>3 DEF CellsAreWhole
    <3>2. client.at \in {"events", "late", "checks"} => client.seen # sequence
      BY <1>0, <3>1 DEF ReadIsOfCells
    <3> QED BY <1>0, <1>1, <2>3, <3>2 DEF ReadIsOfCells
  <2> QED BY <2>3, <2>4, <2>5 DEF MeterInv
<1>7. CASE EndPublish
  <2>1. receiver.at = "ends" /\ receiver' = Idle /\ sequence' = sequence + 1 /\ UNCHANGED <<ringMetric, published>>
    BY <1>7 DEF EndPublish
  <2>2. MeterTypeOK' /\ HandsRaise' /\ TrimIsForgotten'
    BY <1>0, <1>1, <2>1, IdleIsHand DEF MeterTypeOK, HandsRaise, TrimIsForgotten
  <2>3. CellsAreWhole'
    BY <1>0, <2>1, SequenceTurns, IdleIsHand DEF CellsAreWhole, Publishing
  <2>4. ReadIsOfCells'
    <3>1. client.at \in {"events", "late", "checks"} => client.seen # sequence' /\ client.seen <= sequence'
      BY <1>0, <2>1 DEF ReadIsOfCells, MeterTypeOK, Hands
    <3> QED BY <1>0, <1>1, <2>1, <3>1 DEF ReadIsOfCells
  <2> QED BY <2>2, <2>3, <2>4 DEF MeterInv
<1> QED BY <1>3, <1>4, <1>5, <1>6, <1>7

LEMMA ClientReads ==
  ASSUME MeterInv, BeginRead \/ ReadEvents \/ ReadLate \/ EndRead
  PROVE  MeterInv'
<1> USE DEF trimVars, peakVars, metricVars, Reads
<1>0. MeterTypeOK /\ HandsRaise /\ TrimIsForgotten /\ CellsAreWhole /\ ReadIsOfCells
      /\ client \in Hands /\ ringMetric \in Metrics /\ sequence \in Nat
  BY DEF MeterInv, MeterTypeOK
<1>m. client.metric \in Metrics /\ client.seen \in Nat
  BY <1>0 DEF Hands
<1>1. UNCHANGED <<loop, receiver, window, metric, ringMetric, sequence, published, trimVars, peakVars>>
  BY Zenon DEF BeginRead, ReadEvents, ReadLate, EndRead
<1>2. HandsRaise' /\ TrimIsForgotten' /\ CellsAreWhole'
  BY <1>0, <1>1 DEF HandsRaise, TrimIsForgotten, CellsAreWhole, Publishing
<1>3. client' \in Hands /\ ReadIsOfCells'
  <2>1. CASE BeginRead
    <3>1. client' = [client EXCEPT !.at = "events", !.seen = sequence] /\ taken' = taken /\ sequence % 2 = 0
      BY <2>1 DEF BeginRead
    <3>2. client' \in Hands /\ client'.at = "events" /\ client'.seen = sequence
      BY <1>0, <3>1 DEF Hands
    <3> QED BY <1>0, <1>1, <3>1, <3>2 DEF ReadIsOfCells
  <2>2. CASE ReadEvents
    <3>1. /\ client.at = "events" /\ taken' = taken
          /\ client' = [client EXCEPT !.at = "late", !.metric = [client.metric EXCEPT !.events = ringMetric.events]]
      BY <1>0, <2>2 DEF ReadEvents, Hands
    <3>2. [client.metric EXCEPT !.events = ringMetric.events] \in Metrics
          /\ [client.metric EXCEPT !.events = ringMetric.events].events = ringMetric.events
      BY <1>0, <1>m DEF Metrics
    <3>3. client' \in Hands /\ client'.at = "late" /\ client'.seen = client.seen
          /\ client'.metric.events = ringMetric.events
      BY <1>0, <3>1, <3>2 DEF Hands
    <3> QED BY <1>0, <1>1, <3>1, <3>3 DEF ReadIsOfCells
  <2>3. CASE ReadLate
    <3>1. /\ client.at = "late" /\ taken' = taken
          /\ client' = [client EXCEPT !.at = "checks", !.metric = [client.metric EXCEPT !.late = ringMetric.late]]
      BY <1>0, <2>3 DEF ReadLate, Hands
    <3>2. [client.metric EXCEPT !.late = ringMetric.late] \in Metrics
          /\ [client.metric EXCEPT !.late = ringMetric.late].late = ringMetric.late
          /\ [client.metric EXCEPT !.late = ringMetric.late].events = client.metric.events
      BY <1>0, <1>m DEF Metrics
    <3>3. client' \in Hands /\ client'.at = "checks" /\ client'.seen = client.seen
          /\ client'.metric.late = ringMetric.late /\ client'.metric.events = client.metric.events
      BY <1>0, <3>1, <3>2 DEF Hands
    <3> QED BY <1>0, <1>1, <3>1, <3>3 DEF ReadIsOfCells
  <2>4. CASE EndRead
    <3>1. client.at = "checks" /\ client' = Idle
          /\ taken' = (IF Agrees(client.seen) THEN client.metric ELSE taken)
      BY <2>4 DEF EndRead
    <3>2. ASSUME sequence = client.seen PROVE client.metric \in published
      <4>1. client.metric.events = ringMetric.events /\ client.metric.late = ringMetric.late
        BY <1>0, <3>1, <3>2 DEF ReadIsOfCells
      <4>2. client.metric = ringMetric
        BY <1>0, <1>m, <4>1 DEF Metrics
      <4>3. ~Publishing
        BY <1>0, <3>1, <3>2 DEF ReadIsOfCells, CellsAreWhole
      <4> QED BY <1>0, <4>2, <4>3 DEF CellsAreWhole
    <3>3. taken' \in published
      BY <1>0, <3>1, <3>2 DEF Agrees, ReadIsOfCells
    <3> QED BY <1>1, <3>1, <3>3, IdleIsHand DEF ReadIsOfCells
  <2> QED BY <2>1, <2>2, <2>3, <2>4
<1>4. MeterTypeOK'
  BY <1>0, <1>1, <1>3 DEF MeterTypeOK
<1> QED BY <1>2, <1>3, <1>4 DEF MeterInv

LEMMA MeterStep == MeterInv /\ [MeterNext]_meterVars => MeterInv'
<1> SUFFICES ASSUME MeterInv, [MeterNext]_meterVars PROVE MeterInv'
  OBVIOUS
<1>1. CASE MetricNext
  <2>1. follows = "metric"
    BY <1>1 DEF MetricNext, CountBlock, StoreEvents, StoreLate, SnapshotEvents, SnapshotLate, BeginPublish,
       PublishEvents, PublishLate, EndPublish, BeginRead, ReadEvents, ReadLate, EndRead, Block, Goes, Asks
  <2> QED BY Zenon, <1>1, <2>1, LoopCountsBlocks, ReceiverPublishes, ClientReads DEF MetricNext
<1>2. CASE UNCHANGED meterVars
  BY <1>2 DEF meterVars, trimVars, peakVars, metricVars, MeterInv, MeterTypeOK, HandsRaise, TrimIsForgotten,
     CellsAreWhole, Publishing, ReadIsOfCells
<1> QED BY <1>1, <1>2, TrimKeepsMeters, PeaksKeepMeters DEF MeterNext

THEOREM MeterInvCorrect == MeterSpec => []MeterInv
BY MeterInitially, MeterStep, PTL DEF MeterSpec

\* When the auto gain is switched off no trim is left over, whenever the switch falls.
THEOREM TrimLeavesWithTheSwitchCorrect == MeterSpec => []TrimLeavesWithTheSwitch
<1>1. MeterInv => TrimLeavesWithTheSwitch
  BY DEF MeterInv, TrimIsForgotten, TrimLeavesWithTheSwitch
<1> QED BY <1>1, MeterInvCorrect, PTL

\* The metrics that a client takes are those of one publication.
THEOREM MetricsAreOfOnePublicationCorrect == MeterSpec => []MetricsAreOfOnePublication
<1>1. MeterInv => MetricsAreOfOnePublication
  BY DEF MeterInv, ReadIsOfCells, MetricsAreOfOnePublication
<1> QED BY <1>1, MeterInvCorrect, PTL

\* No peak is lost on its way: one step of the three threads.
LEMMA LoudestIs ==
  ASSUME NEW a \in Nat, NEW b \in Nat
  PROVE  Larger(a, b) \in Nat /\ Larger(a, b) = (IF a < b THEN b ELSE a)
BY DEF Larger

LEMMA PeakStep ==
  ASSUME MeterInv, PeakNext, Loudest' < Loudest
  PROVE  told' = Loudest \/ (loop.at = "idle" /\ peak' = 0 /\ peak = Loudest)
<1>0. /\ loop \in Hands /\ receiver \in Hands /\ peak \in Nat /\ ringPeak \in Nat
      /\ loop.peak \in Nat /\ receiver.peak \in Nat /\ Raising(loop) /\ Raising(receiver)
  BY DEF MeterInv, MeterTypeOK, HandsRaise, Hands
<1>1. MeterInv'
  BY PeaksKeepMeters
<1>2. loop'.peak \in Nat /\ receiver'.peak \in Nat /\ peak' \in Nat /\ ringPeak' \in Nat
  BY <1>1 DEF MeterInv, MeterTypeOK, Hands
\* The loudest of four, as what bounds them and is one of them.
<1>3. /\ Loudest \in {loop.peak, peak, receiver.peak, ringPeak}
      /\ loop.peak <= Loudest /\ peak <= Loudest /\ receiver.peak <= Loudest /\ ringPeak <= Loudest
  BY <1>0 DEF Loudest, Larger
<1>4. /\ Loudest' \in Nat /\ loop'.peak <= Loudest' /\ peak' <= Loudest'
      /\ receiver'.peak <= Loudest' /\ ringPeak' <= Loudest'
  BY <1>2 DEF Loudest, Larger
<1>5. Loudest \in Nat
  BY <1>0, <1>3
<1>6. ASSUME NEW reduction \in 0 .. MaxReduction, LimitBlock(reduction) PROVE FALSE
  <2>1. loop.peak = 0 /\ UNCHANGED <<peak, receiver, ringPeak>>
    BY <1>0, <1>6 DEF LimitBlock, Block, Raising, peakVars
  <2> QED BY <1>0, <1>2, <1>3, <1>4, <2>1
<1>7. CASE RaisePeak
  <2>1. loop.at = "raises" /\ loop.seen < loop.peak /\ UNCHANGED <<receiver, ringPeak>>
    BY <1>0, <1>7 DEF RaisePeak, Raising
  <2>2. (peak' >= loop.peak /\ peak' >= peak) \/ (peak' = peak /\ loop'.peak >= loop.peak)
    <3>1. CASE peak = loop.seen
      <4>1. peak' = loop.peak
        BY <1>7, <3>1 DEF RaisePeak, Swaps
      <4> QED BY <1>0, <2>1, <3>1, <4>1
    <3>2. CASE peak # loop.seen
      <4>1. peak' = peak /\ loop' = Loads(loop, peak, loop.peak)
        BY <1>7, <3>2 DEF RaisePeak, Swaps, AfterRaise
      <4>2. loop'.peak = (IF peak >= loop.peak THEN 0 ELSE loop.peak)
        BY <1>0, <4>1, LoadsRaises
      <4> QED BY <1>0, <4>1, <4>2
    <3> QED BY <3>1, <3>2
  <2> QED BY <1>0, <1>2, <1>3, <1>4, <2>1, <2>2
<1>8. CASE ResetPeak
  <2>1. loop.at = "idle" /\ peak' = 0 /\ UNCHANGED <<loop, receiver, ringPeak>>
    BY <1>8 DEF ResetPeak
  <2>2. peak = Loudest
    BY <1>0, <1>3, <1>4, <1>5, <2>1
  <2> QED BY <2>1, <2>2
<1>9. CASE TakePeak
  <2>1. receiver.peak = 0 /\ receiver'.peak = peak /\ UNCHANGED <<loop, ringPeak>>
    BY <1>0, <1>9 DEF TakePeak, Raising, Hands
  <2> QED BY <1>0, <1>2, <1>3, <1>4, <2>1
<1>10. CASE OfferPeak
  <2>1. receiver' = Loads(receiver, ringPeak, receiver.peak) /\ UNCHANGED <<loop, peak, ringPeak>>
    BY <1>10 DEF OfferPeak, peakVars
  <2>2. receiver'.peak = (IF ringPeak >= receiver.peak THEN 0 ELSE receiver.peak)
    BY <1>0, <2>1, LoadsRaises
  <2> QED BY <1>0, <1>2, <1>3, <1>4, <2>1, <2>2
<1>11. CASE PublishPeak
  <2>1. receiver.at = "raises" /\ receiver.seen < receiver.peak /\ UNCHANGED <<loop, peak>>
    BY <1>0, <1>11 DEF PublishPeak, Raising
  <2>2. (ringPeak' >= receiver.peak /\ ringPeak' >= ringPeak) \/ (ringPeak' = ringPeak /\ receiver'.peak >= receiver.peak)
    <3>1. CASE ringPeak = receiver.seen
      <4>1. ringPeak' = receiver.peak
        BY <1>11, <3>1 DEF PublishPeak, RingAfter, Swaps
      <4> QED BY <1>0, <2>1, <3>1, <4>1
    <3>2. CASE ringPeak # receiver.seen
      <4>1. ringPeak' = ringPeak /\ receiver' = Loads(receiver, ringPeak, receiver.peak)
        BY <1>11, <3>2 DEF PublishPeak, RingAfter, Swaps, AfterRaise
      <4>2. receiver'.peak = (IF ringPeak >= receiver.peak THEN 0 ELSE receiver.peak)
        BY <1>0, <4>1, LoadsRaises
      <4> QED BY <1>0, <4>1, <4>2
    <3> QED BY <3>1, <3>2
  <2> QED BY <1>0, <1>2, <1>3, <1>4, <2>1, <2>2
<1>12. CASE ReadPeak
  <2>1. told' = ringPeak /\ UNCHANGED <<loop, receiver, peak>>
    BY <1>12 DEF ReadPeak
  <2>2. ringPeak = Loudest
    BY <1>0, <1>3, <1>4, <1>5, <2>1
  <2> QED BY <2>1, <2>2
<1> QED BY <1>6, <1>7, <1>8, <1>9, <1>10, <1>11, <1>12 DEF PeakNext

\* The loudest peak under way only goes when the client is told it, or with the live
\* it belongs to.
THEOREM PeaksAreReportedCorrect == MeterSpec => PeaksAreReported
<1> DEFINE Told == follows = "peak" /\ Loudest' < Loudest =>
                     told' = Loudest \/ (loop.at = "idle" /\ peak' = 0 /\ peak = Loudest)
<1>1. ASSUME MeterInv, [MeterNext]_meterVars PROVE [Told]_meterVars
  <2>1. SUFFICES ASSUME MeterNext, follows = "peak", Loudest' < Loudest
                 PROVE  told' = Loudest \/ (loop.at = "idle" /\ peak' = 0 /\ peak = Loudest)
    BY <1>1
  <2>2. PeakNext
    BY <2>1 DEF MeterNext, TrimNext, ReadSwitch, EndTrim, ClearGains, MixBlock, SetEnabled, MetricNext,
       CountBlock, StoreEvents, StoreLate, SnapshotEvents, SnapshotLate, BeginPublish, PublishEvents,
       PublishLate, EndPublish, BeginRead, ReadEvents, ReadLate, EndRead, Block, Goes, Asks
  <2> QED BY <1>1, <2>1, <2>2, PeakStep
<1> QED BY <1>1, MeterInvCorrect, PTL DEF MeterSpec, PeaksAreReported

(***************************************************************************)
(* The live timeline                                                       *)
(***************************************************************************)
\* A total order: what stands no higher than each.
TotalOrder(S, below) ==
  /\ \A k \in S : k \in below[k]
  /\ \A j, k \in S : j \in below[k] \/ k \in below[j]
  /\ \A j, k \in S : j \in below[k] => below[j] \subseteq below[k]
  /\ \A j, k \in S : j \in below[k] /\ k \in below[j] => j = k

\* In a finite total order every rank is taken.
LEMMA RanksAreTaken ==
  ASSUME NEW S, IsFiniteSet(S), NEW below \in [S -> SUBSET S], TotalOrder(S, below),
         NEW n \in 1 .. Cardinality(S)
  PROVE  \E k \in S : Cardinality(below[k]) = n
<1> DEFINE rank == [k \in S |-> Cardinality(below[k])]
<1>1. Cardinality(S) \in Nat
  BY FS_CardinalityType
<1>0. /\ \A k \in S : k \in below[k]
      /\ \A j, k \in S : j \in below[k] \/ k \in below[j]
      /\ \A j, k \in S : j \in below[k] => below[j] \subseteq below[k]
      /\ \A j, k \in S : j \in below[k] /\ k \in below[j] => j = k
  BY DEF TotalOrder
<1>2. ASSUME NEW k \in S PROVE IsFiniteSet(below[k]) /\ rank[k] = Cardinality(below[k]) /\ rank[k] \in 1 .. Cardinality(S)
  <2>1. below[k] \in SUBSET S
    OBVIOUS
  <2>2. IsFiniteSet(below[k]) /\ Cardinality(below[k]) <= Cardinality(S)
    BY <2>1, FS_Subset
  <2>3. Cardinality(below[k]) \in Nat
    BY <2>2, FS_CardinalityType
  <2>4. Cardinality(below[k]) # 0
    <3>1. below[k] # {}
      BY <1>0
    <3> QED BY <2>2, <3>1, FS_EmptySet
  <2> QED BY <1>1, <2>2, <2>3, <2>4
<1>3. ASSUME NEW j \in S, NEW k \in S, rank[j] = rank[k], j \in below[k] PROVE j = k
  <2>1. below[j] \in SUBSET below[k]
    BY <1>0, <1>3
  <2>2. Cardinality(below[k]) = Cardinality(below[j])
    BY <1>2, <1>3
  <2>3. below[k] = below[j]
    BY <1>2, <2>1, <2>2, FS_Subset
  <2> QED BY <1>0, <1>3, <2>3
<1>4. SUFFICES ASSUME \A k \in S : rank[k] # n PROVE FALSE
  BY <1>2
<1> DEFINE others == (1 .. Cardinality(S)) \ {n}
<1>5. IsFiniteSet(others) /\ Cardinality(others) < Cardinality(S)
  <2>1. IsFiniteSet(1 .. Cardinality(S)) /\ Cardinality(1 .. Cardinality(S)) = Cardinality(S)
    BY <1>1, FS_Interval
  <2>2. PICK all : all = 1 .. Cardinality(S)
    OBVIOUS
  <2>3. IsFiniteSet(all) /\ n \in all /\ Cardinality(all) = Cardinality(S)
    BY <2>1, <2>2
  <2>4. IsFiniteSet(all \ {n}) /\ Cardinality(all \ {n}) = Cardinality(all) - 1
    BY <2>3, FS_RemoveElement
  <2>5. others = all \ {n}
    BY <2>2
  <2> HIDE DEF others
  <2>6. Cardinality(others) = Cardinality(S) - 1 /\ IsFiniteSet(others)
    BY <2>3, <2>4, <2>5
  <2> QED BY <1>1, <2>6
<1>6. rank \in [S -> others]
  BY <1>2, <1>4
<1> HIDE DEF rank, others
<1>7. PICK j, k \in S : j # k /\ rank[j] = rank[k]
  BY <1>5, <1>6, FS_PigeonHole
<1>8. j \in below[k] \/ k \in below[j]
  BY <1>0, <1>7
<1> QED BY <1>3, <1>7, <1>8

\* An event of a reordered selection is one of those selected.
LEMMA OrderedIs ==
  ASSUME NEW events, NEW kept, IsFiniteSet(kept), \A k \in kept : k \in Nat, NEW key, \A k \in kept : key[k] \in Nat
  PROVE  /\ Ordered(events, kept, key) = [n \in 1 .. Cardinality(kept) |-> Ordered(events, kept, key)[n]]
         /\ Cardinality(kept) \in Nat
         /\ \A n \in 1 .. Cardinality(kept) : \E k \in kept : Ordered(events, kept, key)[n] = events[k]
<1> DEFINE Below(k) == {j \in kept : key[j] < key[k] \/ (key[j] = key[k] /\ j <= k)}
           below == [k \in kept |-> Below(k)]
           At(n) == CHOOSE k \in kept : Cardinality(Below(k)) = n
<1>1. IsFiniteSet(kept) /\ Cardinality(kept) \in Nat
  BY FS_CardinalityType
<1>2. below \in [kept -> SUBSET kept] /\ TotalOrder(kept, below)
  <2>1. \A k \in kept : k \in Nat /\ key[k] \in Nat
    OBVIOUS
  <2>2. below \in [kept -> SUBSET kept]
    OBVIOUS
  <2>3. \A j, k \in kept : j \in below[k] <=> (key[j] < key[k] \/ (key[j] = key[k] /\ j <= k))
    OBVIOUS
  <2> HIDE DEF below
  <2>4. \A j, k \in kept : j \in below[k] => below[j] \subseteq below[k]
    <3> SUFFICES ASSUME NEW j \in kept, NEW k \in kept, j \in below[k], NEW i \in below[j] PROVE i \in below[k]
      OBVIOUS
    <3>1. i \in kept
      BY <2>2
    <3> QED BY <2>1, <2>3, <3>1
  <2>5. \A j, k \in kept : j \in below[k] /\ k \in below[j] => j = k
    BY <2>1, <2>3
  <2>6. \A j, k \in kept : k \in below[k] /\ (j \in below[k] \/ k \in below[j])
    BY <2>1, <2>3
  <2> QED BY <2>2, <2>4, <2>5, <2>6 DEF TotalOrder
<1>3. ASSUME NEW n \in 1 .. Cardinality(kept) PROVE At(n) \in kept
  <2>1. \E k \in kept : Cardinality(below[k]) = n
    <3>1. PICK b : b = below
      OBVIOUS
    <3> HIDE DEF below
    <3>2. TotalOrder(kept, b)
      BY <1>2, <3>1
    <3>3. IsFiniteSet(kept) /\ n \in 1 .. Cardinality(kept) /\ b \in [kept -> SUBSET kept]
      BY <1>1, <1>2, <3>1
    <3>4. \E k \in kept : Cardinality(b[k]) = n
      BY <3>2, <3>3, RanksAreTaken
    <3> QED BY <3>1, <3>4
  <2>2. \E k \in kept : Cardinality(Below(k)) = n
    BY <2>1
  <2> HIDE DEF Below
  <2> QED BY <2>2
<1>4. Ordered(events, kept, key) = [n \in 1 .. Cardinality(kept) |-> events[At(n)]]
  BY Zenon DEF Ordered
<1> HIDE DEF At
<1> QED BY <1>1, <1>3, <1>4

QueueEvents == [no : Nat, at : Nat]
PendingEvents == [no : Nat, at : Nat, for : Instances]
Timed(E) == \A e \in E : e.at \in Nat
ByTime(events) == \A j, k \in 1 .. Len(events) : j < k => events[j].at <= events[k].at

\* A set of indices that holds all below each of its own is a prefix.
LEMMA PrefixIs ==
  ASSUME NEW length \in Nat, NEW K \in SUBSET (1 .. length),
         \A j \in 1 .. length, k \in K : j < k => j \in K
  PROVE  Cardinality(K) \in 0 .. length /\ K = 1 .. Cardinality(K)
<1>1. CASE K = {}
  <2>1. Cardinality(K) = 0
    BY <1>1, FS_EmptySet
  <2> QED BY <1>1, <2>1
<1>2. CASE K # {}
  <2>1. PICK m \in K : \A k \in K : k <= m
    <3>1. K \in SUBSET (0 .. length)
      OBVIOUS
    <3> QED BY <1>2, <3>1, LargestNatural
  <2>2. m \in 1 .. length
    BY <2>1
  <2>3. K = 1 .. m
    <3>1. ASSUME NEW j \in 1 .. m PROVE j \in K
      <4>1. j \in 1 .. length /\ (j < m \/ j = m)
        BY <2>2
      <4> QED BY <2>1, <4>1
    <3>2. ASSUME NEW j \in K PROVE j \in 1 .. m
      <4>1. j \in 1 .. length /\ j <= m
        BY <2>1
      <4> QED BY <2>2, <4>1
    <3> QED BY <3>1, <3>2
  <2>4. Cardinality(1 .. m) = m
    BY <2>2, FS_Interval
  <2> QED BY <2>2, <2>3, <2>4
<1> QED BY <1>1, <1>2

\* An event is put behind all that are due no later.
LEMMA InsertedIs ==
  ASSUME NEW E, Timed(E), NEW events \in Seq(E), NEW event \in E, ByTime(events)
  PROVE  /\ Inserted(events, event) \in Seq(E)
         /\ ByTime(Inserted(events, event))
         /\ \A k \in 1 .. Len(Inserted(events, event)) :
              \/ Inserted(events, event)[k] = event
              \/ \E j \in 1 .. Len(events) : Inserted(events, event)[k] = events[j]
<1> USE DEF Timed
<1> DEFINE K == {k \in 1 .. Len(events) : events[k].at <= event.at}
           n == Cardinality(K)
<1>0. Len(events) \in Nat /\ \A k \in 1 .. Len(events) : events[k] \in E
  OBVIOUS
<1>1. n \in 0 .. Len(events) /\ K = 1 .. n
  <2>1. \A j \in 1 .. Len(events), k \in K : j < k => j \in K
    BY <1>0 DEF ByTime
  <2>2. K \in SUBSET (1 .. Len(events))
    OBVIOUS
  <2> HIDE DEF K
  <2> QED BY <1>0, <2>1, <2>2, PrefixIs
<1>2. \A k \in 1 .. Len(events) : k <= n <=> events[k].at <= event.at
  BY <1>0, <1>1
<1>3. Inserted(events, event) = SubSeq(events, 1, n) \o <<event>> \o SubSeq(events, n + 1, Len(events))
  BY Zenon DEF Inserted
<1> HIDE DEF K, n
<1>4. PICK result : result = SubSeq(events, 1, n) \o <<event>> \o SubSeq(events, n + 1, Len(events))
  OBVIOUS
<1>5. /\ result \in Seq(E) /\ Len(result) = Len(events) + 1
      /\ \A k \in 1 .. n : result[k] = events[k]
      /\ result[n + 1] = event
      /\ \A k \in n + 2 .. Len(events) + 1 : result[k] = events[k - 1]
  <2>1. PICK front : front = SubSeq(events, 1, n)
    OBVIOUS
  <2>2. PICK back : back = SubSeq(events, n + 1, Len(events))
    OBVIOUS
  <2>3. front \in Seq(E) /\ Len(front) = n /\ \A k \in 1 .. n : front[k] = events[k]
    BY <1>0, <1>1, <2>1
  <2>4. back \in Seq(E) /\ Len(back) = Len(events) - n /\ \A k \in 1 .. Len(events) - n : back[k] = events[n + k]
    BY <1>0, <1>1, <2>2
  <2>5. PICK middle : middle = front \o <<event>>
    OBVIOUS
  <2>6. middle \in Seq(E) /\ Len(middle) = n + 1 /\ middle[n + 1] = event /\ \A k \in 1 .. n : middle[k] = events[k]
    BY SMTT(30), <1>1, <2>3, <2>5
  <2>7. result = middle \o back
    BY <1>4, <2>1, <2>2, <2>5
  <2>8. result \in Seq(E) /\ Len(result) = Len(events) + 1
    BY <1>0, <1>1, <2>4, <2>6, <2>7
  <2>9. \A k \in 1 .. n + 1 : result[k] = middle[k]
    BY <1>0, <1>1, <2>4, <2>6, <2>7
  <2>10. ASSUME NEW k \in n + 2 .. Len(events) + 1 PROVE result[k] = events[k - 1]
    <3>1. k - (n + 1) \in 1 .. Len(back) /\ n + (k - (n + 1)) = k - 1
      BY <1>0, <1>1, <2>4
    <3>2. result[k] = back[k - (n + 1)]
      BY <1>0, <1>1, <2>4, <2>6, <2>7, <3>1
    <3> QED BY <2>4, <3>1, <3>2
  <2>11. (\A k \in 1 .. n : result[k] = events[k]) /\ result[n + 1] = event
    BY <1>1, <2>6, <2>9
  <2> QED BY <2>8, <2>10, <2>11
<1>6. ByTime(result)
  <2> SUFFICES ASSUME NEW j \in 1 .. Len(events) + 1, NEW k \in 1 .. Len(events) + 1, j < k
               PROVE  result[j].at <= result[k].at
    BY <1>0, <1>5 DEF ByTime
  <2>1. CASE k <= n
    <3>1. j \in 1 .. n /\ k \in 1 .. n /\ j \in 1 .. Len(events) /\ k \in 1 .. Len(events)
      BY <1>0, <1>1, <2>1
    <3>2. result[j] = events[j] /\ result[k] = events[k]
      BY <1>5, <3>1
    <3> QED BY <3>1, <3>2 DEF ByTime
  <2>2. CASE k = n + 1
    <3>1. j \in 1 .. n /\ j \in 1 .. Len(events)
      BY <1>0, <1>1, <2>2
    <3>2. result[j] = events[j] /\ result[k] = event
      BY <1>5, <2>2, <3>1
    <3> QED BY <1>2, <3>1, <3>2
  <2>3. CASE k > n + 1
    <3>1. result[k] = events[k - 1] /\ k - 1 \in 1 .. Len(events) /\ k - 1 > n
      BY <1>0, <1>1, <1>5, <2>3
    <3>2. CASE j <= n
      <4>1. j \in 1 .. n /\ j \in 1 .. Len(events) /\ j < k - 1
        BY <1>0, <1>1, <3>1, <3>2
      <4>2. result[j] = events[j]
        BY <1>5, <4>1
      <4> QED BY <3>1, <4>1, <4>2 DEF ByTime
    <3>3. CASE j = n + 1
      <4>1. events[k - 1].at > event.at
        BY <1>0, <1>1, <1>2, <3>1
      <4> QED BY <1>0, <1>5, <3>1, <3>3, <4>1
    <3>4. CASE j > n + 1
      <4>1. result[j] = events[j - 1] /\ j - 1 \in 1 .. Len(events) /\ j - 1 < k - 1
        BY <1>0, <1>1, <1>5, <3>4
      <4> QED BY <3>1, <4>1 DEF ByTime
    <3> QED BY <1>1, <3>2, <3>3, <3>4
  <2> QED BY <1>0, <1>1, <2>1, <2>2, <2>3
<1>7. ASSUME NEW k \in 1 .. Len(result)
      PROVE  result[k] = event \/ \E j \in 1 .. Len(events) : result[k] = events[j]
  <2>1. CASE k <= n
    <3>1. k \in 1 .. n /\ k \in 1 .. Len(events)
      BY <1>0, <1>1, <1>5, <2>1
    <3> QED BY <1>5, <3>1
  <2>2. CASE k = n + 1
    BY <1>5, <2>2
  <2>3. CASE k > n + 1
    <3>1. k - 1 \in 1 .. Len(events) /\ result[k] = events[k - 1]
      BY <1>0, <1>1, <1>5, <2>3
    <3> QED BY <3>1
  <2> QED BY <1>0, <1>1, <1>5, <2>1, <2>2, <2>3
<1> QED BY <1>3, <1>4, <1>5, <1>6, <1>7

\* What is due before a block's end is taken, and the rest is left.
LEMMA TakenIs ==
  ASSUME NEW E, NEW events \in Seq(E), NEW start \in Nat, \A e \in E : e.at \in Nat, ByTime(events)
  PROVE  /\ Taken(events, start) \in Seq(E) /\ Left(events, start) \in Seq(E) /\ ByTime(Left(events, start))
         /\ \A k \in 1 .. Len(Taken(events, start)) :
              k \in 1 .. Len(events) /\ Taken(events, start)[k] = events[k] /\ events[k].at < start + BufferFrames
         /\ \A k \in 1 .. Len(Left(events, start)) :
              \E j \in 1 .. Len(events) : Left(events, start)[k] = events[j] /\ events[j].at >= start + BufferFrames
         /\ \A k \in 1 .. Len(events) :
              events[k].at < start + BufferFrames => k \in 1 .. Len(Taken(events, start)) /\ Taken(events, start)[k] = events[k]
<1> DEFINE K == {k \in 1 .. Len(events) : events[k].at < start + BufferFrames}
<1>0. Len(events) \in Nat /\ BufferFrames \in Nat /\ \A k \in 1 .. Len(events) : events[k] \in E /\ events[k].at \in Nat
  BY TimelineAssumption
<1>1. Cardinality(K) \in 0 .. Len(events) /\ K = 1 .. Cardinality(K)
  <2>1. \A j \in 1 .. Len(events), k \in K : j < k => j \in K
    BY <1>0 DEF ByTime
  <2>2. K \in SUBSET (1 .. Len(events))
    OBVIOUS
  <2> HIDE DEF K
  <2> QED BY <1>0, <2>1, <2>2, PrefixIs
<1>2. PICK n : n = Due(events, start)
  OBVIOUS
<1>3. n = Cardinality(K)
  BY <1>2, Zenon DEF Due
<1>4. n \in 0 .. Len(events) /\ \A k \in 1 .. Len(events) : k <= n <=> events[k].at < start + BufferFrames
  BY <1>0, <1>1, <1>3
<1> HIDE DEF K
<1>5. PICK handed, left : handed = Taken(events, start) /\ left = Left(events, start)
  OBVIOUS
<1>6. handed \in Seq(E) /\ Len(handed) = n /\ \A k \in 1 .. n : handed[k] = events[k]
  BY <1>0, <1>2, <1>4, <1>5 DEF Taken
<1>7. left \in Seq(E) /\ Len(left) = Len(events) - n /\ \A k \in 1 .. Len(events) - n : left[k] = events[n + k]
  BY <1>0, <1>2, <1>4, <1>5 DEF Left
<1>8. ByTime(left)
  <2> SUFFICES ASSUME NEW j \in 1 .. Len(left), NEW k \in 1 .. Len(left), j < k PROVE left[j].at <= left[k].at
    BY DEF ByTime
  <2>1. left[j] = events[n + j] /\ left[k] = events[n + k] /\ n + j < n + k
    BY <1>0, <1>4, <1>7
  <2>2. n + j \in 1 .. Len(events) /\ n + k \in 1 .. Len(events)
    BY <1>0, <1>4, <1>7
  <2> QED BY <2>1, <2>2 DEF ByTime
<1>9. ASSUME NEW k \in 1 .. Len(left)
      PROVE  \E j \in 1 .. Len(events) : left[k] = events[j] /\ events[j].at >= start + BufferFrames
  <2>1. n + k \in 1 .. Len(events) /\ left[k] = events[n + k] /\ ~(n + k <= n)
    BY <1>0, <1>4, <1>7
  <2>2. events[n + k].at >= start + BufferFrames
    BY <1>0, <1>4, <2>1
  <2> QED BY <2>1, <2>2
<1>10. \A k \in 1 .. Len(handed) : k \in 1 .. Len(events) /\ handed[k] = events[k] /\ events[k].at < start + BufferFrames
  BY <1>0, <1>4, <1>6
<1>11. \A k \in 1 .. Len(events) : events[k].at < start + BufferFrames => k \in 1 .. Len(handed) /\ handed[k] = events[k]
  BY <1>0, <1>4, <1>6
<1> QED BY <1>5, <1>6, <1>7, <1>8, <1>9, <1>10, <1>11

TimesTypeOK ==
  /\ clock \in Nat /\ begun \in Nat /\ origin = begun /\ begun <= clock /\ submits \in Nat
  /\ queue \in [Instances -> Seq(QueueEvents)]
  /\ pending \in Seq(PendingEvents)

InOrder == (\A i \in Instances : ByTime(queue[i])) /\ ByTime(pending)

\* What is still to be played lies ahead, but for what came late or was skipped.
LiesAhead ==
  /\ \A i \in Instances : \A k \in 1 .. Len(queue[i]) : queue[i][k].at >= clock \/ queue[i][k].no \in excused
  /\ \A k \in 1 .. Len(pending) : begun + pending[k].at >= clock \/ pending[k].no \in excused

TimelineInv == TimesTypeOK /\ InOrder /\ LiesAhead /\ EventsKeepTheirTime

LEMMA EventsHaveTimes ==
  /\ \A e \in QueueEvents : e.at \in Nat /\ e.no \in Nat
  /\ \A e \in PendingEvents : e.at \in Nat /\ e.no \in Nat
BY DEF QueueEvents, PendingEvents

LEMMA OffsetIs ==
  ASSUME NEW at \in Nat, NEW start \in Nat
  PROVE  /\ OffsetOf(at, start) \in Nat
         /\ at < start + BufferFrames => OffsetOf(at, start) = IF at < start THEN 0 ELSE at - start
<1>1. BufferFrames \in Nat \ {0}
  BY TimelineAssumption
<1> QED BY <1>1 DEF OffsetOf, Smaller, Monus

LEMMA PositionIs == TimesTypeOK => Position \in Nat /\ begun + Position = clock
BY DEF TimesTypeOK, Position, Monus

Placement == [no : Nat, at : Nat, from : {"queue", "timeline"}, offset : Nat]

LEMMA PlacedIs ==
  ASSUME NEW E, \A e \in E : e.at \in Nat /\ e.no \in Nat, NEW events \in Seq(E), NEW start \in Nat,
         NEW source \in {"queue", "timeline"}
  PROVE  /\ Placed(events, start, source) \in Seq(Placement) /\ Len(Placed(events, start, source)) = Len(events)
         /\ \A k \in 1 .. Len(events) :
              Placed(events, start, source)[k]
                = [no |-> events[k].no, at |-> events[k].at, from |-> source, offset |-> OffsetOf(events[k].at, start)]
<1> DEFINE At(k) == [no |-> events[k].no, at |-> events[k].at, from |-> source, offset |-> OffsetOf(events[k].at, start)]
<1>1. \A k \in 1 .. Len(events) : events[k].at \in Nat /\ events[k].no \in Nat
  OBVIOUS
<1>2. ASSUME NEW k \in 1 .. Len(events) PROVE At(k) \in Placement
  <2>1. OffsetOf(events[k].at, start) \in Nat
    BY <1>1, OffsetIs
  <2> QED BY <1>1, <2>1 DEF Placement
<1>3. Placed(events, start, source) = [k \in 1 .. Len(events) |-> At(k)]
  BY Zenon DEF Placed
<1> HIDE DEF At
<1>4. Placed(events, start, source) \in Seq(Placement) /\ Len(Placed(events, start, source)) = Len(events)
      /\ \A k \in 1 .. Len(events) : Placed(events, start, source)[k] = At(k)
  <2>1. Len(events) \in Nat
    OBVIOUS
  <2> QED BY <1>2, <1>3, <2>1
<1> QED BY <1>4 DEF At

\* sort_by_key: nothing comes in.
LEMMA ByOffsetIs ==
  ASSUME NEW events \in Seq(Placement)
  PROVE  \A e \in ToSet(ByOffset(events)) : \E k \in 1 .. Len(events) : e = events[k]
<1> DEFINE kept == 1 .. Len(events)
           key == [k \in kept |-> events[k].offset]
<1>1. \A k \in kept : k \in Nat /\ key[k] \in Nat
  <2>1. \A k \in 1 .. Len(events) : events[k] \in Placement
    OBVIOUS
  <2>2. \A e \in Placement : e.offset \in Nat
    BY DEF Placement
  <2> QED BY <2>1, <2>2
<1>2. IsFiniteSet(kept)
  BY FS_Interval
<1>3. PICK result : result = Ordered(events, kept, key)
  OBVIOUS
<1>4. ByOffset(events) = result
  BY <1>3, Zenon DEF ByOffset
<1> HIDE DEF kept, key
<1>5. /\ result = [n \in 1 .. Cardinality(kept) |-> result[n]]
      /\ \A n \in 1 .. Cardinality(kept) : \E k \in kept : result[n] = events[k]
  BY <1>1, <1>2, <1>3, OrderedIs
<1>6. DOMAIN result = 1 .. Cardinality(kept)
  BY <1>5
<1> QED BY <1>4, <1>5, <1>6 DEF ToSet, kept

LEMMA EventsForIs ==
  ASSUME NEW i \in Instances, Scheduled \in Seq(PendingEvents)
  PROVE  /\ EventsFor(i) \in Seq(PendingEvents)
         /\ \A k \in 1 .. Len(EventsFor(i)) : \E j \in 1 .. Len(Scheduled) : EventsFor(i)[k] = Scheduled[j]
<1>1. PICK events \in Seq(PendingEvents) : events = Scheduled
  OBVIOUS
<1> DEFINE kept == {k \in 1 .. Len(events) : events[k].for = i}
           key == [k \in kept |-> k]
<1>2. \A k \in kept : k \in Nat /\ key[k] \in Nat /\ k \in 1 .. Len(events) /\ events[k] \in PendingEvents
  BY <1>1
<1>3. IsFiniteSet(kept)
  <2>1. Len(events) \in Nat
    BY <1>1
  <2>2. IsFiniteSet(1 .. Len(events))
    BY <2>1, FS_Interval
  <2> QED BY <2>2, FS_Subset
<1>4. PICK result : result = Ordered(events, kept, key)
  OBVIOUS
<1>5. EventsFor(i) = result
  BY <1>1, <1>4, Zenon DEF EventsFor
<1> HIDE DEF kept, key
<1>6. /\ result = [n \in 1 .. Cardinality(kept) |-> result[n]] /\ Cardinality(kept) \in Nat
      /\ \A n \in 1 .. Cardinality(kept) : \E k \in kept : result[n] = events[k]
  BY <1>2, <1>3, <1>4, OrderedIs
<1>7. \A n \in 1 .. Cardinality(kept) : result[n] \in PendingEvents
  BY <1>2, <1>6
<1>8. result \in Seq(PendingEvents) /\ Len(result) = Cardinality(kept)
  BY <1>6, <1>7
<1> QED BY <1>1, <1>2, <1>5, <1>6, <1>8

LEMMA BothAre ==
  ASSUME NEW E, NEW s \in Seq(E), NEW r \in Seq(E)
  PROVE  /\ s \o r \in Seq(E)
         /\ \A n \in 1 .. Len(s \o r) :
              IF n <= Len(s) THEN n \in 1 .. Len(s) /\ (s \o r)[n] = s[n]
              ELSE n - Len(s) \in 1 .. Len(r) /\ (s \o r)[n] = r[n - Len(s)]
OBVIOUS

\* What an instance is given of a block was due in it.
LEMMA GivenIs ==
  ASSUME TimesTypeOK, InOrder, NEW i \in Instances, NEW e \in ToSet(Given(i))
  PROVE  \/ \E k \in 1 .. Len(queue[i]) :
              /\ queue[i][k].at < clock + BufferFrames
              /\ e = [no |-> queue[i][k].no, at |-> queue[i][k].at, from |-> "queue", offset |-> OffsetOf(queue[i][k].at, clock)]
         \/ \E k \in 1 .. Len(pending) :
              /\ pending[k].at < Position + BufferFrames
              /\ e = [no |-> pending[k].no, at |-> pending[k].at, from |-> "timeline", offset |-> OffsetOf(pending[k].at, Position)]
<1>1. PICK mine \in Seq(QueueEvents) : mine = queue[i] /\ ByTime(mine)
  BY DEF TimesTypeOK, InOrder
<1>2. PICK handed \in Seq(QueueEvents) :
        /\ handed = Taken(mine, clock)
        /\ \A k \in 1 .. Len(handed) : k \in 1 .. Len(mine) /\ handed[k] = mine[k] /\ mine[k].at < clock + BufferFrames
  <2>1. clock \in Nat
    BY DEF TimesTypeOK
  <2>2. mine \in Seq(QueueEvents) /\ ByTime(mine) /\ \A q \in QueueEvents : q.at \in Nat
    BY <1>1, EventsHaveTimes
  <2>3. /\ Taken(mine, clock) \in Seq(QueueEvents)
        /\ \A k \in 1 .. Len(Taken(mine, clock)) :
             k \in 1 .. Len(mine) /\ Taken(mine, clock)[k] = mine[k] /\ mine[k].at < clock + BufferFrames
    BY <2>1, <2>2, TakenIs
  <2> QED BY <2>3
<1>3. /\ Scheduled \in Seq(PendingEvents)
      /\ \A k \in 1 .. Len(Scheduled) :
           k \in 1 .. Len(pending) /\ Scheduled[k] = pending[k] /\ pending[k].at < Position + BufferFrames
  <2>1. Position \in Nat /\ pending \in Seq(PendingEvents) /\ ByTime(pending)
    BY PositionIs DEF TimesTypeOK, InOrder
  <2> QED BY <2>1, EventsHaveTimes, TakenIs DEF Scheduled
<1>4. PICK others \in Seq(PendingEvents) :
        /\ others = EventsFor(i)
        /\ \A k \in 1 .. Len(others) :
             \E j \in 1 .. Len(pending) : others[k] = pending[j] /\ pending[j].at < Position + BufferFrames
  BY <1>3, EventsForIs
<1>5. PICK first \in Seq(Placement) :
        /\ first = Placed(handed, clock, "queue") /\ Len(first) = Len(handed)
        /\ \A k \in 1 .. Len(handed) :
             first[k] = [no |-> handed[k].no, at |-> handed[k].at, from |-> "queue", offset |-> OffsetOf(handed[k].at, clock)]
  <2>1. clock \in Nat /\ "queue" \in {"queue", "timeline"}
    BY DEF TimesTypeOK
  <2> QED BY <1>2, <2>1, EventsHaveTimes, PlacedIs
<1>6. PICK second \in Seq(Placement) :
        /\ second = Placed(others, Position, "timeline") /\ Len(second) = Len(others)
        /\ \A k \in 1 .. Len(others) :
             second[k] = [no |-> others[k].no, at |-> others[k].at, from |-> "timeline", offset |-> OffsetOf(others[k].at, Position)]
  <2>1. Position \in Nat /\ "timeline" \in {"queue", "timeline"}
    BY PositionIs
  <2> QED BY SMTT(30), <1>4, <2>1, EventsHaveTimes, PlacedIs
<1>7. PICK all \in Seq(Placement) :
        /\ all = first \o second
        /\ \A n \in 1 .. Len(all) :
             IF n <= Len(first) THEN n \in 1 .. Len(first) /\ all[n] = first[n]
             ELSE n - Len(first) \in 1 .. Len(second) /\ all[n] = second[n - Len(first)]
  <2>1. first \in Seq(Placement) /\ second \in Seq(Placement)
    BY <1>5, <1>6
  <2>2. /\ first \o second \in Seq(Placement)
        /\ \A n \in 1 .. Len(first \o second) :
             IF n <= Len(first) THEN n \in 1 .. Len(first) /\ (first \o second)[n] = first[n]
             ELSE n - Len(first) \in 1 .. Len(second) /\ (first \o second)[n] = second[n - Len(first)]
    BY <2>1, BothAre, Zenon
  <2> QED BY <2>2, Zenon
<1>8. e \in ToSet(ByOffset(all))
  <2>1. Given(i) = <<>> \/ Given(i) = ByOffset(all)
    BY <1>1, <1>2, <1>4, <1>5, <1>6, <1>7, Zenon DEF Given
  <2>2. Given(i) # <<>>
    BY DEF ToSet
  <2> QED BY <2>1, <2>2
<1>9. PICK n \in 1 .. Len(all) : e = all[n]
  BY <1>7, <1>8, ByOffsetIs
<1>10. CASE n <= Len(first)
  <2>1. n \in 1 .. Len(handed) /\ e = first[n]
    BY <1>5, <1>6, <1>7, <1>9, <1>10
  <2>2. n \in 1 .. Len(mine) /\ handed[n] = mine[n] /\ mine[n].at < clock + BufferFrames
    BY <1>2, <2>1, Zenon
  <2>3. e = [no |-> handed[n].no, at |-> handed[n].at, from |-> "queue", offset |-> OffsetOf(handed[n].at, clock)]
    BY <1>5, <2>1, Zenon
  <2>4. mine = queue[i]
    BY <1>1
  <2>5. /\ n \in 1 .. Len(queue[i]) /\ queue[i][n].at < clock + BufferFrames
        /\ e = [no |-> queue[i][n].no, at |-> queue[i][n].at, from |-> "queue", offset |-> OffsetOf(queue[i][n].at, clock)]
    BY <2>2, <2>3, <2>4, Zenon
  <2> QED BY <2>5, Zenon
<1>11. CASE n > Len(first)
  <2>1. n - Len(first) \in 1 .. Len(others) /\ e = second[n - Len(first)]
    BY <1>5, <1>6, <1>7, <1>9, <1>11
  <2>2. PICK m \in 1 .. Len(others) : e = second[m]
    BY <2>1
  <2>3. PICK j \in 1 .. Len(pending) : others[m] = pending[j] /\ pending[j].at < Position + BufferFrames
    BY <1>4, <2>2
  <2> QED BY <1>6, <2>2, <2>3
<1>12. n \in Int /\ Len(first) \in Int
  BY <1>5, <1>9
<1>13. n <= Len(first) \/ n > Len(first)
  BY <1>12
<1> QED BY <1>10, <1>11, <1>13, Zenon

LEMMA EmptyIs ==
  ASSUME NEW E
  PROVE  <<>> \in Seq(E) /\ Len(<<>>) = 0 /\ ByTime(<<>>)
BY DEF ByTime

LEMMA NothingIs ==
  /\ Nothing \in [Instances -> Seq(QueueEvents)]
  /\ \A i \in Instances : Nothing[i] = <<>>
BY EmptyIs, Zenon DEF Nothing

LEMMA TimelineInitially == LiveInit => TimelineInv
<1> SUFFICES ASSUME LiveInit PROVE TimelineInv
  OBVIOUS
<1>1. TimesTypeOK
  BY EmptyIs, NothingIs DEF LiveInit, TimesTypeOK
<1>2. InOrder
  BY EmptyIs, NothingIs, Zenon DEF LiveInit, InOrder
<1>3. LiesAhead
  BY EmptyIs, NothingIs DEF LiveInit, LiesAhead
<1>4. EventsKeepTheirTime
  <2>1. \A i \in Instances : heard.given[i] = <<>>
    BY NothingIs DEF LiveInit
  <2>2. ToSet(<<>>) = {}
    BY DEF ToSet
  <2> QED BY <2>1, <2>2, Zenon DEF EventsKeepTheirTime
<1> QED BY <1>1, <1>2, <1>3, <1>4 DEF TimelineInv

LEMMA HeardStays ==
  ASSUME EventsKeepTheirTime, heard' = heard, excused \subseteq excused'
  PROVE  EventsKeepTheirTime'
BY Zenon DEF EventsKeepTheirTime

\* Nothing new is to be played, and the clock stands.
LEMMA TimesKeep ==
  ASSUME TimelineInv, UNCHANGED <<clock, begun, origin, heard, pending>>, submits' \in Nat, excused \subseteq excused',
         queue' \in [Instances -> Seq(QueueEvents)], \A i \in Instances : queue'[i] \in {queue[i], <<>>}
  PROVE  TimelineInv'
<1>1. TimesTypeOK'
  BY DEF TimelineInv, TimesTypeOK
<1>2. InOrder'
  BY EmptyIs, Zenon DEF TimelineInv, InOrder
<1>3. LiesAhead'
  <2>1. ASSUME NEW i \in Instances, NEW k \in 1 .. Len(queue'[i])
        PROVE  queue'[i][k].at >= clock \/ queue'[i][k].no \in excused'
    <3>1. queue'[i] = queue[i]
      <4>1. queue'[i] # <<>>
        BY <2>1, EmptyIs
      <4> QED BY <4>1
    <3> QED BY <2>1, <3>1 DEF TimelineInv, LiesAhead
  <2>2. \A k \in 1 .. Len(pending) : begun + pending[k].at >= clock \/ pending[k].no \in excused'
    BY DEF TimelineInv, LiesAhead
  <2> QED BY <2>1, <2>2 DEF LiesAhead
<1> QED BY <1>1, <1>2, <1>3, HeardStays DEF TimelineInv

\* Nothing at all is left to be played.
LEMMA TimesBegin ==
  ASSUME TimelineInv, UNCHANGED <<heard, excused>>, submits' \in Nat, clock' \in Nat, begun' \in Nat, origin' = begun',
         begun' <= clock', pending' = <<>>, queue' = Nothing
  PROVE  TimelineInv'
<1>1. TimesTypeOK'
  BY EmptyIs, NothingIs DEF TimesTypeOK
<1>2. InOrder'
  BY EmptyIs, NothingIs, Zenon DEF InOrder
<1>3. LiesAhead'
  BY EmptyIs, NothingIs DEF LiesAhead
<1> QED BY <1>1, <1>2, <1>3, HeardStays DEF TimelineInv

LEMMA SubmitCounts == TimelineInv /\ Submit => submits' \in Nat
BY DEF TimelineInv, TimesTypeOK, Submit

\* The queues of some instances are emptied.
LEMMA SomeEmptied ==
  ASSUME TimelineInv, NEW emptied \in SUBSET Instances,
         queue' = [i \in Instances |-> IF i \in emptied THEN <<>> ELSE queue[i]]
  PROVE  queue' \in [Instances -> Seq(QueueEvents)] /\ \A i \in Instances : queue'[i] \in {queue[i], <<>>}
<1>1. \A i \in Instances : queue[i] \in Seq(QueueEvents)
  BY DEF TimelineInv, TimesTypeOK
<1>2. <<>> \in Seq(QueueEvents)
  BY EmptyIs
<1> QED BY <1>1, <1>2

LEMMA OneEmptied ==
  ASSUME TimelineInv, NEW i \in Instances
  PROVE  [queue EXCEPT ![i] = <<>>] = [j \in Instances |-> IF j \in {i} THEN <<>> ELSE queue[j]]
BY DEF TimelineInv, TimesTypeOK

LEMMA FallsKeepsTimes ==
  ASSUME TimelineInv, NEW i \in Instances, NEW left, Falls(i, left), UNCHANGED <<heard, excused>>, submits' \in Nat,
         left \in [Instances -> Seq(QueueEvents)], \A j \in Instances : left[j] \in {queue[j], <<>>}
  PROVE  TimelineInv'
<1>1. CASE NoLive
  <2>1. clock' = 0 /\ begun' = 0 /\ origin' = 0 /\ pending' = <<>> /\ queue' = Nothing
    BY <1>1, Zenon DEF NoLive
  <2> QED BY <2>1, TimesBegin
<1>2. CASE ~(instanceActive \subseteq {i})
  <2>1. queue' = left /\ UNCHANGED <<clock, begun, origin, pending>>
    BY <1>2, Zenon DEF Falls, transportVars
  <2> QED BY <2>1, TimesKeep
<1> QED BY <1>1, <1>2, Zenon DEF Falls

LEMMA CommandsKeepTimes ==
  ASSUME TimelineInv,
         \/ EndLive
         \/ \E tempo \in Tempos : (\E continued \in BOOLEAN : BeginTimeline(tempo, continued)) \/ \E at \in Times : SetTempo(at, tempo)
         \/ \E i \in Instances : \/ StopInstance(i) \/ StandbyBegins(BankOf[i])
                                 \/ \E sounds \in SUBSET {i} : PreparePatch(i, sounds)
                                 \/ \E ok \in BOOLEAN : StandbyEnds(i, ok)
  PROVE  TimelineInv'
<1>0. queue \in [Instances -> Seq(QueueEvents)] /\ submits \in Nat
  BY DEF TimelineInv, TimesTypeOK
<1>1. CASE EndLive
  <2>1. /\ clock' = 0 /\ begun' = 0 /\ origin' = 0 /\ pending' = <<>> /\ queue' = Nothing
        /\ UNCHANGED <<submits, heard, excused>>
    BY <1>1, Zenon DEF EndLive, NoLive, historyVars
  <2> QED BY <1>0, <2>1, TimesBegin
<1>2. ASSUME NEW tempo \in Tempos, NEW continued \in BOOLEAN, BeginTimeline(tempo, continued) PROVE TimelineInv'
  <2>1. /\ Submit /\ pending' = <<>> /\ queue' = Nothing /\ begun' = clock' /\ origin' = clock'
        /\ (clock' = clock \/ clock' = 0) /\ UNCHANGED <<heard, excused>>
    BY <1>2, Zenon DEF BeginTimeline, Anchor, historyVars
  <2>2. clock' \in Nat
    BY <2>1 DEF TimelineInv, TimesTypeOK
  <2>3. begun' <= clock' /\ begun' \in Nat /\ origin' = begun'
    BY <2>1, <2>2
  <2> QED BY <2>1, <2>2, <2>3, SubmitCounts, TimesBegin
<1>3. ASSUME NEW tempo \in Tempos, NEW at \in Times, SetTempo(at, tempo) PROVE TimelineInv'
  <2>1. Submit /\ UNCHANGED <<clock, begun, origin, heard, excused, pending, queue>>
    BY <1>3, Zenon DEF SetTempo, historyVars
  <2> QED BY <1>0, <2>1, SubmitCounts, TimesKeep
<1>4. ASSUME NEW i \in Instances, StopInstance(i) PROVE TimelineInv'
  <2>1. PICK left : left = [queue EXCEPT ![i] = <<>>]
    OBVIOUS
  <2>2. Submit /\ Falls(i, left) /\ UNCHANGED <<heard, excused>>
    BY <1>4, <2>1, Zenon DEF StopInstance, historyVars
  <2>3. left \in [Instances -> Seq(QueueEvents)] /\ \A j \in Instances : left[j] \in {queue[j], <<>>}
    BY <1>0, <2>1, EmptyIs
  <2> QED BY <2>2, <2>3, SubmitCounts, FallsKeepsTimes
<1>5. ASSUME NEW i \in Instances, NEW sounds \in SUBSET {i}, PreparePatch(i, sounds) PROVE TimelineInv'
  <2>1. Submit /\ queue' = [queue EXCEPT ![i] = <<>>] /\ UNCHANGED <<clock, begun, origin, heard, excused, pending>>
    BY <1>5, Zenon DEF PreparePatch, historyVars, transportVars
  <2>2. queue' \in [Instances -> Seq(QueueEvents)] /\ \A j \in Instances : queue'[j] \in {queue[j], <<>>}
    BY <1>0, <2>1, EmptyIs
  <2> QED BY <2>1, <2>2, SubmitCounts, TimesKeep
<1>6. ASSUME NEW b, StandbyBegins(b) PROVE TimelineInv'
  <2>1. /\ Submit /\ queue' = [i \in Instances |-> IF BankOf[i] = b THEN <<>> ELSE queue[i]]
        /\ UNCHANGED <<clock, begun, origin, heard, excused, pending>>
    BY <1>6, Zenon DEF StandbyBegins, historyVars, transportVars
  <2>2. queue' \in [Instances -> Seq(QueueEvents)] /\ \A i \in Instances : queue'[i] \in {queue[i], <<>>}
    BY <1>0, <2>1, EmptyIs
  <2> QED BY <2>1, <2>2, SubmitCounts, TimesKeep
<1>7. ASSUME NEW i \in Instances, NEW ok \in BOOLEAN, StandbyEnds(i, ok) PROVE TimelineInv'
  <2>1. UNCHANGED <<submits, heard, excused>>
    BY <1>7, Zenon DEF StandbyEnds, historyVars
  <2>2. CASE Falls(i, queue)
    BY <1>0, <2>1, <2>2, FallsKeepsTimes
  <2>3. CASE UNCHANGED <<live, clock, transportVars, pending, instanceActive, queue>>
    <3>1. UNCHANGED <<clock, begun, origin, pending, queue>>
      BY <2>3, Zenon DEF transportVars
    <3> QED BY <1>0, <2>1, <3>1, TimesKeep
  <2> QED BY <1>7, <2>2, <2>3, Zenon DEF StandbyEnds
<1> QED BY <1>1, <1>2, <1>3, <1>4, <1>5, <1>6, <1>7, Zenon

\* An event comes to the queue of an instance.
LEMMA LiveMidiKeepsTimes ==
  ASSUME TimelineInv, NEW i \in Instances, NEW offset \in Nat, LiveMidi(i, offset)
  PROVE  TimelineInv'
<1>0. queue \in [Instances -> Seq(QueueEvents)] /\ submits \in Nat /\ clock \in Nat
  BY DEF TimelineInv, TimesTypeOK
<1>1. Submit /\ UNCHANGED <<clock, begun, origin, heard, excused, pending>>
  BY Zenon DEF LiveMidi, historyVars, transportVars
<1>2. CASE queue' = queue
  BY <1>0, <1>1, <1>2, SubmitCounts, TimesKeep
<1>3. CASE queue' = [queue EXCEPT ![i] = Inserted(@, [no |-> submits, at |-> clock + offset])]
  <2>1. PICK event \in QueueEvents : event = [no |-> submits, at |-> clock + offset]
    <3>1. clock + offset \in Nat
      BY <1>0
    <3>2. [no |-> submits, at |-> clock + offset] \in QueueEvents
      BY <1>0, <3>1 DEF QueueEvents
    <3> QED BY <3>2
  <2>2. PICK mine : mine = queue[i] /\ mine \in Seq(QueueEvents) /\ ByTime(mine)
    BY <1>0 DEF TimelineInv, InOrder
  <2>3. PICK result \in Seq(QueueEvents) :
          /\ result = Inserted(queue[i], event) /\ ByTime(result)
          /\ \A k \in 1 .. Len(result) : result[k] = event \/ \E j \in 1 .. Len(queue[i]) : result[k] = queue[i][j]
    <3>1. Timed(QueueEvents)
      BY EventsHaveTimes DEF Timed
    <3>2. event \in QueueEvents
      BY <2>1
    <3>3. /\ Inserted(mine, event) \in Seq(QueueEvents) /\ ByTime(Inserted(mine, event))
          /\ \A k \in 1 .. Len(Inserted(mine, event)) :
               \/ Inserted(mine, event)[k] = event
               \/ \E j \in 1 .. Len(mine) : Inserted(mine, event)[k] = mine[j]
      <4>1. mine \in Seq(QueueEvents) /\ ByTime(mine)
        BY <2>2
      <4> QED BY <3>1, <3>2, <4>1, InsertedIs
    <3> QED BY <2>2, <3>3, Zenon
  <2>4. queue' = [queue EXCEPT ![i] = result]
    BY <1>3, <2>1, <2>3, Zenon
  <2>5. /\ queue' \in [Instances -> Seq(QueueEvents)]
        /\ \A j \in Instances : queue'[j] = IF j = i THEN result ELSE queue[j]
    BY <1>0, <2>3, <2>4
  <2>6. TimesTypeOK'
    BY <1>0, <1>1, <2>5, SubmitCounts DEF TimelineInv, TimesTypeOK
  <2>7. InOrder'
    BY <1>1, <2>3, <2>5 DEF TimelineInv, InOrder
  <2>8. ASSUME NEW j \in Instances, NEW k \in 1 .. Len(queue'[j])
        PROVE  queue'[j][k].at >= clock \/ queue'[j][k].no \in excused
    <3>1. CASE j # i
      BY <2>5, <2>8, <3>1 DEF TimelineInv, LiesAhead
    <3>2. CASE j = i
      <4>1. k \in 1 .. Len(result) /\ queue'[j] = result
        BY <2>5, <2>8, <3>2
      <4>2. CASE result[k] = event
        BY <1>0, <2>1, <4>1, <4>2
      <4>3. ASSUME NEW m \in 1 .. Len(queue[i]), result[k] = queue[i][m]
            PROVE  queue'[j][k].at >= clock \/ queue'[j][k].no \in excused
        BY <4>1, <4>3 DEF TimelineInv, LiesAhead
      <4> QED BY <2>3, <4>1, <4>2, <4>3
    <3> QED BY <3>1, <3>2
  <2>9. LiesAhead'
    BY <1>1, <2>8 DEF TimelineInv, LiesAhead
  <2> QED BY <1>1, <2>6, <2>7, <2>9, HeardStays DEF TimelineInv
<1> QED BY <1>2, <1>3, Zenon DEF LiveMidi

\* An event comes to the timeline.
LEMMA TimelineMidiKeepsTimes ==
  ASSUME TimelineInv, NEW i \in Instances, NEW at \in Times \union {TooFar}, TimelineMidi(i, at)
  PROVE  TimelineInv'
<1>0. queue \in [Instances -> Seq(QueueEvents)] /\ submits \in Nat /\ clock \in Nat /\ begun \in Nat
      /\ pending \in Seq(PendingEvents) /\ ByTime(pending)
  BY DEF TimelineInv, TimesTypeOK, InOrder
<1>1. Submit /\ UNCHANGED <<clock, begun, origin, heard, queue>>
  BY Zenon DEF TimelineMidi
<1>2. CASE UNCHANGED <<pending, excused>>
  BY <1>0, <1>1, <1>2, SubmitCounts, TimesKeep
<1>3. CASE /\ at # TooFar /\ pending' = Inserted(pending, [no |-> submits, at |-> at, for |-> i])
           /\ excused' = IF begun + at < clock THEN excused \cup {submits} ELSE excused
  <2>1. PICK event \in PendingEvents : event = [no |-> submits, at |-> at, for |-> i]
    BY <1>0, <1>3, TimelineAssumption DEF PendingEvents
  <2>2. /\ pending' \in Seq(PendingEvents) /\ ByTime(pending)'
        /\ \A k \in 1 .. Len(pending') : pending'[k] = event \/ \E j \in 1 .. Len(pending) : pending'[k] = pending[j]
    <3>1. event \in PendingEvents /\ pending' = Inserted(pending, event)
      BY <1>3, <2>1, Zenon
    <3>2. Timed(PendingEvents)
      BY EventsHaveTimes DEF Timed
    <3>3. /\ Inserted(pending, event) \in Seq(PendingEvents) /\ ByTime(Inserted(pending, event))
          /\ \A k \in 1 .. Len(Inserted(pending, event)) :
               \/ Inserted(pending, event)[k] = event
               \/ \E j \in 1 .. Len(pending) : Inserted(pending, event)[k] = pending[j]
      <4>1. PICK mine : mine = pending /\ mine \in Seq(PendingEvents) /\ ByTime(mine)
        BY <1>0
      <4>2. mine \in Seq(PendingEvents) /\ ByTime(mine)
        BY <4>1
      <4>3. /\ Inserted(mine, event) \in Seq(PendingEvents) /\ ByTime(Inserted(mine, event))
            /\ \A k \in 1 .. Len(Inserted(mine, event)) :
                 \/ Inserted(mine, event)[k] = event
                 \/ \E j \in 1 .. Len(mine) : Inserted(mine, event)[k] = mine[j]
        <5>1. event \in PendingEvents
          BY <2>1
        <5> QED BY <3>2, <4>2, <5>1, InsertedIs
      <4> QED BY <4>1, <4>3, Zenon
    <3> QED BY <3>1, <3>3, Zenon DEF ByTime
  <2>3. excused \subseteq excused' /\ (begun + event.at >= clock \/ event.no \in excused')
    <3>1. event.at \in Nat /\ event.at = at /\ event.no = submits
      BY <2>1, EventsHaveTimes
    <3>2. begun + event.at < clock \/ begun + event.at >= clock
      BY <1>0, <3>1
    <3> QED BY <1>3, <3>1, <3>2
  <2>4. TimesTypeOK'
    BY <1>0, <1>1, <2>2, SubmitCounts DEF TimelineInv, TimesTypeOK
  <2>5. InOrder'
    BY <1>1, <2>2, Zenon DEF TimelineInv, InOrder, ByTime
  <2>6. LiesAhead'
    <3>1. ASSUME NEW k \in 1 .. Len(pending') PROVE begun + pending'[k].at >= clock \/ pending'[k].no \in excused'
      BY <2>2, <2>3, <3>1 DEF TimelineInv, LiesAhead
    <3>2. \A j \in Instances : \A k \in 1 .. Len(queue[j]) : queue[j][k].at >= clock \/ queue[j][k].no \in excused'
      BY <2>3 DEF TimelineInv, LiesAhead
    <3> QED BY <1>1, <3>1, <3>2 DEF LiesAhead
  <2> QED BY <1>1, <2>3, <2>4, <2>5, <2>6, HeardStays DEF TimelineInv
<1> QED BY <1>2, <1>3, Zenon DEF TimelineMidi

\* A block is rendered.
LEMMA RenderBlockKeepsTimes ==
  ASSUME TimelineInv, NEW fails, RenderBlock(fails)
  PROVE  TimelineInv'
<1>0. /\ queue \in [Instances -> Seq(QueueEvents)] /\ submits \in Nat /\ clock \in Nat /\ begun \in Nat
      /\ pending \in Seq(PendingEvents) /\ ByTime(pending) /\ BufferFrames \in Nat \ {0}
      /\ Position \in Nat /\ begun + Position = clock
  BY PositionIs, TimelineAssumption DEF TimelineInv, TimesTypeOK, InOrder
<1>1. /\ clock' = clock + BufferFrames /\ UNCHANGED <<begun, origin, submits>>
      /\ pending' = Left(pending, Position)
      /\ queue' = [i \in Instances |-> IF i \in fails THEN <<>> ELSE IF Sounds(i) THEN Left(queue[i], clock) ELSE queue[i]]
      /\ excused' = excused \cup UNION {Numbers(Taken(queue[i], clock)) : i \in {j \in Instances : ~Sounds(j)}}
  BY Zenon DEF RenderBlock, transportVars
<1>2. /\ pending' \in Seq(PendingEvents) /\ ByTime(pending)'
      /\ \A k \in 1 .. Len(pending') :
           \E j \in 1 .. Len(pending) : pending'[k] = pending[j] /\ pending[j].at >= Position + BufferFrames
  <2>1. /\ Left(pending, Position) \in Seq(PendingEvents) /\ ByTime(Left(pending, Position))
        /\ \A k \in 1 .. Len(Left(pending, Position)) :
             \E j \in 1 .. Len(pending) : Left(pending, Position)[k] = pending[j] /\ pending[j].at >= Position + BufferFrames
    BY <1>0, EventsHaveTimes, TakenIs
  <2> QED BY <1>1, <2>1, Zenon DEF ByTime
<1>3. ASSUME NEW i \in Instances
      PROVE  /\ queue'[i] \in Seq(QueueEvents) /\ ByTime(queue'[i])
             /\ \A k \in 1 .. Len(queue'[i]) : queue'[i][k].at >= clock + BufferFrames \/ queue'[i][k].no \in excused'
  <2>1. PICK mine : mine = queue[i] /\ mine \in Seq(QueueEvents) /\ ByTime(mine)
    BY <1>0 DEF TimelineInv, InOrder
  <2>2. PICK left, handed :
          /\ left = Left(mine, clock) /\ left \in Seq(QueueEvents) /\ ByTime(left)
          /\ handed = Taken(mine, clock)
          /\ \A k \in 1 .. Len(left) : \E j \in 1 .. Len(mine) : left[k] = mine[j] /\ mine[j].at >= clock + BufferFrames
          /\ \A k \in 1 .. Len(mine) :
               mine[k].at < clock + BufferFrames => k \in 1 .. Len(handed) /\ handed[k] = mine[k]
    <3>1. /\ Left(mine, clock) \in Seq(QueueEvents) /\ ByTime(Left(mine, clock))
          /\ \A k \in 1 .. Len(Left(mine, clock)) :
               \E j \in 1 .. Len(mine) : Left(mine, clock)[k] = mine[j] /\ mine[j].at >= clock + BufferFrames
          /\ \A k \in 1 .. Len(mine) :
               mine[k].at < clock + BufferFrames => k \in 1 .. Len(Taken(mine, clock)) /\ Taken(mine, clock)[k] = mine[k]
      <4>1. mine \in Seq(QueueEvents) /\ ByTime(mine) /\ clock \in Nat /\ \A q \in QueueEvents : q.at \in Nat
        BY <1>0, <2>1, EventsHaveTimes
      <4> QED BY <4>1, TakenIs
    <3> QED BY <3>1, Zenon
  <2>3. queue'[i] = IF i \in fails THEN <<>> ELSE IF Sounds(i) THEN left ELSE mine
    BY <1>1, <2>1, <2>2, Zenon
  <2>4. CASE i \in fails
    <3>1. queue'[i] = <<>>
      BY <2>3, <2>4, Zenon
    <3> QED BY <3>1, EmptyIs
  <2>5. CASE i \notin fails /\ Sounds(i)
    <3>1. queue'[i] = left
      BY <2>3, <2>5, Zenon
    <3> QED BY <2>2, <3>1
  <2>6. CASE i \notin fails /\ ~Sounds(i)
    <3>1. queue'[i] = mine
      BY <2>3, <2>6, Zenon
    <3>2. Numbers(handed) \subseteq excused'
      <4>1. Numbers(Taken(queue[i], clock)) \subseteq excused'
        BY <1>1, <2>6
      <4> QED BY <2>1, <2>2, <4>1, Zenon
    <3>3. ASSUME NEW k \in 1 .. Len(mine) PROVE mine[k].at >= clock + BufferFrames \/ mine[k].no \in excused'
      <4>1. mine[k].at \in Nat
        BY <2>1, EventsHaveTimes
      <4>2. mine[k].at < clock + BufferFrames => mine[k].no \in Numbers(handed)
        BY <2>2 DEF Numbers
      <4> QED BY <1>0, <3>2, <4>1, <4>2
    <3> QED BY <2>1, <3>1, <3>3
  <2> QED BY <2>4, <2>5, <2>6
<1>4. TimesTypeOK'
  <2>1. clock' \in Nat /\ begun' <= clock'
    BY <1>0, <1>1 DEF TimelineInv, TimesTypeOK
  <2>2. queue' \in [Instances -> Seq(QueueEvents)]
    <3>1. queue' = [i \in Instances |-> queue'[i]]
      BY <1>1
    <3> QED BY <1>3, <3>1
  <2> QED BY <1>0, <1>1, <1>2, <2>1, <2>2 DEF TimelineInv, TimesTypeOK
<1>5. InOrder'
  BY <1>2, <1>3 DEF InOrder, ByTime
<1>6. LiesAhead'
  <2>1. ASSUME NEW k \in 1 .. Len(pending') PROVE begun + pending'[k].at >= clock + BufferFrames
    <3>1. PICK j \in 1 .. Len(pending) : pending'[k] = pending[j] /\ pending[j].at >= Position + BufferFrames
      BY <1>2
    <3>2. pending[j].at \in Nat
      BY <1>0, EventsHaveTimes
    <3> QED BY <1>0, <3>1, <3>2
  <2> QED BY <1>1, <1>3, <2>1 DEF LiesAhead
<1>7. EventsKeepTheirTime'
  <2>1. heard'.start = clock /\ heard'.begun = begun /\ excused \subseteq excused'
    BY <1>1 DEF RenderBlock
  <2>2. \A i \in Instances : heard'.given[i] = Given(i)
    BY DEF RenderBlock
  <2> SUFFICES ASSUME NEW i \in Instances, NEW e \in ToSet(Given(i))
               PROVE  \/ e.no \in excused' /\ e.offset = 0
                      \/ clock + e.offset = (IF e.from = "queue" THEN e.at ELSE begun + e.at)
    BY <2>1, <2>2, Zenon DEF EventsKeepTheirTime
  <2>3. CASE \E k \in 1 .. Len(queue[i]) :
               /\ queue[i][k].at < clock + BufferFrames
               /\ e = [no |-> queue[i][k].no, at |-> queue[i][k].at, from |-> "queue", offset |-> OffsetOf(queue[i][k].at, clock)]
    <3>1. PICK k \in 1 .. Len(queue[i]) :
             /\ queue[i][k].at < clock + BufferFrames
             /\ e = [no |-> queue[i][k].no, at |-> queue[i][k].at, from |-> "queue", offset |-> OffsetOf(queue[i][k].at, clock)]
      BY <2>3, Zenon
    <3>2. PICK q \in QueueEvents : q = queue[i][k]
      BY <1>0
    <3>3. /\ q.at \in Nat /\ q.at < clock + BufferFrames /\ (q.at >= clock \/ q.no \in excused)
      BY <3>1, <3>2, EventsHaveTimes DEF TimelineInv, LiesAhead
    <3>4. e.no = q.no /\ e.at = q.at /\ e.from = "queue" /\ e.offset = OffsetOf(q.at, clock)
      BY <3>1, <3>2
    <3>5. e.offset = IF q.at < clock THEN 0 ELSE q.at - clock
      BY <1>0, <3>3, <3>4, OffsetIs
    <3> QED BY <1>0, <2>1, <3>3, <3>4, <3>5
  <2>4. CASE \E k \in 1 .. Len(pending) :
               /\ pending[k].at < Position + BufferFrames
               /\ e = [no |-> pending[k].no, at |-> pending[k].at, from |-> "timeline", offset |-> OffsetOf(pending[k].at, Position)]
    <3>1. PICK k \in 1 .. Len(pending) :
             /\ pending[k].at < Position + BufferFrames
             /\ e = [no |-> pending[k].no, at |-> pending[k].at, from |-> "timeline", offset |-> OffsetOf(pending[k].at, Position)]
      BY <2>4, Zenon
    <3>2. PICK q \in PendingEvents : q = pending[k]
      BY <1>0
    <3>3. /\ q.at \in Nat /\ q.at < Position + BufferFrames /\ (begun + q.at >= clock \/ q.no \in excused)
      BY <3>1, <3>2, EventsHaveTimes DEF TimelineInv, LiesAhead
    <3>4. e.no = q.no /\ e.at = q.at /\ e.from = "timeline" /\ e.offset = OffsetOf(q.at, Position)
      BY <3>1, <3>2
    <3>5. e.offset = IF q.at < Position THEN 0 ELSE q.at - Position
      BY <1>0, <3>3, <3>4, OffsetIs
    <3>6. "timeline" # "queue"
      OBVIOUS
    <3> QED BY <1>0, <2>1, <3>3, <3>4, <3>5, <3>6
  <2> QED BY <2>3, <2>4, GivenIs, Zenon DEF TimelineInv
<1> QED BY <1>4, <1>5, <1>6, <1>7 DEF TimelineInv

LEMMA TimelineStep == TimelineInv /\ [LiveNext]_timelineVars => TimelineInv'
<1> SUFFICES ASSUME TimelineInv, [LiveNext]_timelineVars PROVE TimelineInv'
  OBVIOUS
<1>1. CASE UNCHANGED timelineVars
  <2>1. UNCHANGED <<clock, begun, origin, heard, pending, submits, excused, queue>>
    BY <1>1, Zenon DEF timelineVars
  <2>2. queue \in [Instances -> Seq(QueueEvents)] /\ submits \in Nat
    BY DEF TimelineInv, TimesTypeOK
  <2> QED BY <2>1, <2>2, TimesKeep
<1>2. ASSUME NEW i \in Instances, NEW offset \in 0 .. BufferFrames, LiveMidi(i, offset) PROVE TimelineInv'
  <2>1. offset \in Nat
    OBVIOUS
  <2> QED BY <1>2, <2>1, LiveMidiKeepsTimes
<1>3. ASSUME NEW i \in Instances, NEW at \in Times \union {TooFar}, TimelineMidi(i, at) PROVE TimelineInv'
  BY <1>3, TimelineMidiKeepsTimes
<1>4. ASSUME NEW fails, RenderBlock(fails) PROVE TimelineInv'
  BY <1>4, RenderBlockKeepsTimes
<1> QED BY <1>1, <1>2, <1>3, <1>4, CommandsKeepTimes, Zenon DEF LiveNext

\* What is to be played lies ahead of the clock, in the order of its times, but for what came
\* late or could not be rendered.
THEOREM TimelineInvCorrect == LiveSpec => []TimelineInv
<1> QED BY TimelineInitially, TimelineStep, PTL DEF LiveSpec

\* Whatever is begun, loaded, stopped or skipped in between, an event that came in time sounds
\* at its own sample.
THEOREM EventsKeepTheirTimeCorrect == LiveSpec => []EventsKeepTheirTime
<1>1. TimelineInv => EventsKeepTheirTime
  BY DEF TimelineInv
<1> QED BY <1>1, TimelineInvCorrect, PTL

Segments == [start : Nat, beats : Nat, tempo : Nat]

\* snapshot_at, of any map.
BeatsIn(map, at) ==
  LET passed == {k \in 1 .. Len(map) : map[k].start <= at}
      s == map[IF passed = {} THEN 1 ELSE CHOOSE k \in passed : \A j \in passed : j <= k]
  IN IF at < s.start THEN Monus(s.beats, (s.start - at) * s.tempo) ELSE BeatsAt(s, at)

Climbs(map) == \A j, k \in 1 .. Len(map) : j < k => map[j].start < map[k].start

\* The segment that answers is the last one that has begun.
LEMMA BeatsInIs ==
  ASSUME NEW map \in Seq(Segments), Climbs(map), NEW at \in Nat, NEW k \in 1 .. Len(map), map[k].start <= at,
         k = Len(map) \/ map[k + 1].start > at
  PROVE  BeatsIn(map, at) = BeatsAt(map[k], at)
<1> DEFINE passed == {j \in 1 .. Len(map) : map[j].start <= at}
           chosen == CHOOSE j \in passed : \A i \in passed : i <= j
<1>0. Len(map) \in Nat /\ \A j \in 1 .. Len(map) : map[j].start \in Nat
  <2>1. \A s \in Segments : s.start \in Nat
    BY DEF Segments
  <2> QED BY <2>1
<1>1. k \in passed
  OBVIOUS
<1>2. ASSUME NEW j \in passed PROVE j <= k
  <2>1. CASE k = Len(map)
    BY <1>0, <2>1
  <2>2. CASE k # Len(map)
    <3>1. k + 1 \in 1 .. Len(map) /\ map[k + 1].start > at
      BY <1>0, <2>2
    <3>2. j > k + 1 => map[k + 1].start < map[j].start
      BY <3>1 DEF Climbs
    <3>3. j # k + 1 /\ ~(j > k + 1)
      BY <1>0, <3>1, <3>2
    <3> QED BY <1>0, <3>1, <3>3
  <2> QED BY <2>1, <2>2
<1>3. \A j \in passed : j \in Nat
  BY <1>0
<1> HIDE DEF passed
<1>4. chosen \in passed /\ \A i \in passed : i <= chosen
  BY <1>1, <1>2
<1>5. chosen = k
  <2>1. chosen <= k /\ k <= chosen /\ chosen \in Nat /\ k \in Nat
    BY <1>1, <1>2, <1>3, <1>4
  <2> QED BY <2>1
<1> HIDE DEF chosen
<1>6. passed # {} /\ BeatsIn(map, at) = LET s == map[IF passed = {} THEN 1 ELSE chosen]
                                     IN IF at < s.start THEN Monus(s.beats, (s.start - at) * s.tempo) ELSE BeatsAt(s, at)
  BY <1>1, Zenon DEF BeatsIn, passed, chosen
<1>7. BeatsIn(map, at) = IF at < map[k].start THEN Monus(map[k].beats, (map[k].start - at) * map[k].tempo) ELSE BeatsAt(map[k], at)
  BY <1>5, <1>6, Zenon
<1>8. ~(at < map[k].start)
  BY <1>0
<1> QED BY <1>7, <1>8, Zenon

LEMMA LastBegun ==
  ASSUME NEW map \in Seq(Segments), NEW at \in Nat, map # <<>>, at >= map[1].start
  PROVE  \E k \in 1 .. Len(map) : map[k].start <= at /\ (k = Len(map) \/ map[k + 1].start > at)
<1> DEFINE passed == {j \in 1 .. Len(map) : map[j].start <= at}
<1>0. Len(map) \in Nat \ {0} /\ \A j \in 1 .. Len(map) : map[j].start \in Nat
  <2>1. \A s \in Segments : s.start \in Nat
    BY DEF Segments
  <2> QED BY <2>1
<1>1. 1 \in passed /\ passed \in SUBSET (0 .. Len(map))
  BY <1>0
<1>2. PICK k \in passed : \A j \in passed : j <= k
  <2> HIDE DEF passed
  <2> QED BY <1>0, <1>1, LargestNatural
<1>3. k # Len(map) => map[k + 1].start > at
  <2> SUFFICES ASSUME k # Len(map), map[k + 1].start <= at PROVE FALSE
    BY <1>0, <1>2
  <2>1. k + 1 \in passed
    BY <1>0, <1>2
  <2> QED BY <1>0, <1>2, <2>1
<1> QED BY <1>2, <1>3

(***************************************************************************)
(* Sums                                                                    *)
(***************************************************************************)
\* Induction, for a set.
LEMMA AllOfNat ==
  ASSUME NEW T, 0 \in T, \A n \in Nat : n \in T => n + 1 \in T
  PROVE  Nat \subseteq T
<1> DEFINE Bad == Nat \ T
<1>1. SUFFICES ASSUME Bad # {} PROVE FALSE
  OBVIOUS
<1>2. PICK n \in Bad : \A m \in Bad : n <= m
  <2>1. Bad \in SUBSET Nat
    OBVIOUS
  <2> HIDE DEF Bad
  <2> QED BY <1>1, <2>1, LeastNatural
<1>3. n - 1 \in Nat /\ n - 1 \notin Bad
  BY <1>2
<1>4. n - 1 \in T /\ (n - 1) + 1 = n
  BY <1>2, <1>3
<1> QED BY <1>2, <1>3, <1>4

\* f is the running sum of n terms.
SumsUp(f, term, n) == f[0] = 0 /\ \A k \in 1 .. n : f[k] = f[k - 1] + term[k]

LEMMA SumExists ==
  ASSUME NEW n \in Nat, NEW term \in [1 .. n -> Nat]
  PROVE  \E f \in [0 .. n -> Nat] : SumsUp(f, term, n)
<1> DEFINE T == {m \in Nat : m <= n => \E f \in [0 .. m -> Nat] : SumsUp(f, term, m)}
<1>1. 0 \in T
  <2>1. [k \in 0 .. 0 |-> 0] \in [0 .. 0 -> Nat] /\ SumsUp([k \in 0 .. 0 |-> 0], term, 0)
    BY DEF SumsUp
  <2> QED BY <2>1
<1>2. ASSUME NEW m \in Nat, m \in T PROVE m + 1 \in T
  <2>1. SUFFICES ASSUME m + 1 <= n PROVE \E f \in [0 .. m + 1 -> Nat] : SumsUp(f, term, m + 1)
    <3>1. m + 1 \in Nat
      OBVIOUS
    <3> QED BY <3>1, Zenon
  <2>2. PICK g \in [0 .. m -> Nat] : SumsUp(g, term, m)
    <3>1. m <= n
      BY <2>1
    <3> QED BY <1>2, <3>1, Zenon
  <2>3. PICK total \in Nat : total = g[m] + term[m + 1]
    <3>1. g[m] \in Nat /\ term[m + 1] \in Nat
      BY <2>1
    <3> QED BY <3>1
  <2>4. PICK f : f = [k \in 0 .. m + 1 |-> IF k = m + 1 THEN total ELSE g[k]]
    OBVIOUS
  <2>5. f \in [0 .. m + 1 -> Nat] /\ f[m + 1] = total /\ \A k \in 0 .. m : f[k] = g[k]
    BY <2>4
  <2>6. f[0] = 0
    BY <2>2, <2>5 DEF SumsUp
  <2>7. ASSUME NEW k \in 1 .. m + 1 PROVE f[k] = f[k - 1] + term[k]
    <3>1. CASE k = m + 1
      <4>1. k - 1 = m /\ m \in 0 .. m /\ f[k - 1] = g[m] /\ f[k] = total
        BY <2>5, <3>1
      <4> QED BY <2>3, <3>1, <4>1
    <3>2. CASE k # m + 1
      <4>1. k \in 1 .. m /\ k \in 0 .. m /\ k - 1 \in 0 .. m
        BY <3>2
      <4> QED BY <2>2, <2>5, <4>1 DEF SumsUp
    <3> QED BY <3>1, <3>2
  <2> QED BY <2>5, <2>6, <2>7 DEF SumsUp
<1>3. n \in T
  <2> HIDE DEF T
  <2> QED BY <1>1, <1>2, AllOfNat
<1> QED BY <1>3

\* Sums of the same terms are the same.
LEMMA SumsAgree ==
  ASSUME NEW n \in Nat, NEW f, NEW g, NEW term, SumsUp(f, term, n), SumsUp(g, term, n)
  PROVE  f[n] = g[n]
<1> DEFINE T == {m \in Nat : m <= n => f[m] = g[m]}
<1>1. 0 \in T
  BY DEF SumsUp
<1>2. ASSUME NEW m \in Nat, m \in T PROVE m + 1 \in T
  <2>1. SUFFICES ASSUME m + 1 <= n PROVE f[m + 1] = g[m + 1]
    BY <1>2
  <2>2. f[m] = g[m] /\ m + 1 \in 1 .. n /\ (m + 1) - 1 = m
    BY <1>2, <2>1
  <2>3. f[m + 1] = f[m] + term[m + 1] /\ g[m + 1] = g[m] + term[m + 1]
    BY <2>2 DEF SumsUp
  <2> QED BY <2>2, <2>3
<1>3. n \in T
  <2> HIDE DEF T
  <2> QED BY <1>1, <1>2, AllOfNat
<1> QED BY <1>3

Terms(accepted, at) == [k \in 1 .. Len(accepted) |-> Gain(accepted, at, k)]

LEMMA GainIsNat ==
  ASSUME NEW accepted \in Seq(Segments), NEW at \in Nat, NEW k \in 1 .. Len(accepted)
  PROVE  Gain(accepted, at, k) \in Nat
<1>1. Len(accepted) \in Nat /\ accepted[k].start \in Nat /\ accepted[k].tempo \in Nat
  <2>1. \A s \in Segments : s.start \in Nat /\ s.tempo \in Nat
    BY DEF Segments
  <2> QED BY <2>1
<1>2. k # Len(accepted) => accepted[k + 1].start \in Nat
  <2>1. \A s \in Segments : s.start \in Nat
    BY DEF Segments
  <2>2. k # Len(accepted) => accepted[k + 1] \in Segments
    OBVIOUS
  <2> QED BY <2>1, <2>2
<1>3. PICK end : end = IF k = Len(accepted) THEN at ELSE Smaller(at, accepted[k + 1].start)
  OBVIOUS
<1>4. end \in Nat
  BY <1>2, <1>3 DEF Smaller
<1>5. Monus(end, accepted[k].start) \in Nat
  BY <1>1, <1>4 DEF Monus
<1>6. Gain(accepted, at, k) = Monus(end, accepted[k].start) * accepted[k].tempo
  BY <1>3, Zenon DEF Gain
<1> QED BY <1>1, <1>5, <1>6

\* The integral, as the last of its running sums.
LEMMA IntegralIs ==
  ASSUME NEW accepted \in Seq(Segments), NEW at \in Nat
  PROVE  \E f \in [0 .. Len(accepted) -> Nat] :
           SumsUp(f, Terms(accepted, at), Len(accepted)) /\ Integral(accepted, at) = f[Len(accepted)]
<1> DEFINE n == Len(accepted)
           Solution(f) == f = [k \in 0 .. n |-> IF k = 0 THEN 0 ELSE f[k - 1] + Gain(accepted, at, k)]
           f == CHOOSE f : Solution(f)
<1>0. n \in Nat /\ Terms(accepted, at) \in [1 .. n -> Nat] /\ \A k \in 1 .. n : Terms(accepted, at)[k] = Gain(accepted, at, k)
  <2>1. n \in Nat
    OBVIOUS
  <2> QED BY <2>1, GainIsNat DEF Terms
<1>1. Integral(accepted, at) = f[n]
  BY Zenon DEF Integral
<1>2. PICK term \in [1 .. n -> Nat] : term = Terms(accepted, at)
  BY <1>0
<1>3. PICK g \in [0 .. n -> Nat] : SumsUp(g, term, n)
  <2> HIDE DEF n
  <2> QED BY <1>0, <1>2, SumExists
<1>4. Solution(g)
  <2>1. ASSUME NEW k \in 0 .. n PROVE g[k] = IF k = 0 THEN 0 ELSE g[k - 1] + Gain(accepted, at, k)
    <3>1. CASE k = 0
      BY <1>3, <3>1 DEF SumsUp
    <3>2. CASE k # 0
      <4>1. k \in 1 .. n
        BY <1>0, <3>2
      <4>2. term[k] = Gain(accepted, at, k)
        BY <1>0, <1>2, <4>1
      <4> QED BY <1>3, <3>2, <4>1, <4>2 DEF SumsUp
    <3> QED BY <3>1, <3>2
  <2> HIDE DEF n
  <2> QED BY <1>3, <2>1
<1>5. Solution(f)
  BY <1>4, Zenon
<1> HIDE DEF f
<1>6. SumsUp(f, term, n)
  <2>1. f[0] = 0
    BY <1>0, <1>5
  <2>2. ASSUME NEW k \in 1 .. n PROVE f[k] = f[k - 1] + term[k]
    <3>1. k \in 0 .. n /\ k # 0 /\ term[k] = Gain(accepted, at, k)
      BY <1>0, <1>2
    <3> QED BY <1>5, <3>1
  <2> QED BY <2>1, <2>2 DEF SumsUp
<1>7. f[n] = g[n]
  <2> HIDE DEF n
  <2> QED BY <1>0, <1>3, <1>6, SumsAgree
<1> QED BY <1>1, <1>2, <1>3, <1>7

\* One more tempo: up to it nothing changes, and from there on it counts alone.
LEMMA IntegralGrows ==
  ASSUME NEW accepted \in Seq(Segments), accepted # <<>>, NEW added \in Segments, NEW at \in Nat,
         \A j, k \in 1 .. Len(accepted) : j < k => accepted[j].start <= accepted[k].start,
         accepted[Len(accepted)].start <= added.start
  PROVE  Integral(Append(accepted, added), at)
           = Integral(accepted, Smaller(at, added.start)) + Monus(at, added.start) * added.tempo
<1>1. PICK longer \in Seq(Segments) : longer = Append(accepted, added)
  <2>1. Append(accepted, added) \in Seq(Segments)
    OBVIOUS
  <2> QED BY <2>1
<1>2. PICK n \in Nat \ {0} : n = Len(accepted)
  OBVIOUS
<1>3. Len(longer) = n + 1 /\ longer[n + 1] = added /\ \A k \in 1 .. n : longer[k] = accepted[k]
  BY <1>1, <1>2
<1>4. /\ added.start \in Nat /\ added.tempo \in Nat
      /\ \A k \in 1 .. n : accepted[k].start \in Nat /\ accepted[k].start <= added.start
  <2>1. \A s \in Segments : s.start \in Nat /\ s.tempo \in Nat
    BY DEF Segments
  <2>2. ASSUME NEW k \in 1 .. n PROVE accepted[k].start \in Nat /\ accepted[k].start <= added.start
    <3>1. accepted[k].start \in Nat /\ accepted[n].start \in Nat /\ added.start \in Nat
      BY <1>2, <2>1
    <3>2. k = n \/ (k < n /\ n \in 1 .. Len(accepted) /\ k \in 1 .. Len(accepted))
      BY <1>2
    <3> QED BY <1>2, <3>1, <3>2
  <2> QED BY <2>1, <2>2
<1>5. PICK until \in Nat : until = Smaller(at, added.start)
  BY <1>4 DEF Smaller
<1>6. ASSUME NEW k \in 1 .. n PROVE Gain(longer, at, k) = Gain(accepted, until, k)
  <2>1. k # n + 1 /\ longer[k] = accepted[k]
    BY <1>3
  <2>2. CASE k = n
    <3>1. longer[k + 1].start = added.start
      BY <1>3, <2>2
    <3>2. Gain(longer, at, k) = Monus(Smaller(at, added.start), accepted[k].start) * accepted[k].tempo
      BY <1>3, <2>1, <3>1, Zenon DEF Gain
    <3>3. Gain(accepted, until, k) = Monus(until, accepted[k].start) * accepted[k].tempo
      BY <1>2, <2>2, Zenon DEF Gain
    <3> QED BY <1>5, <3>2, <3>3
  <2>3. CASE k # n
    <3>1. k + 1 \in 1 .. n
      BY <2>3
    <3>2. longer[k + 1] = accepted[k + 1] /\ accepted[k + 1].start <= added.start /\ accepted[k + 1].start \in Nat
      BY <1>3, <1>4, <3>1
    <3>3. Smaller(at, accepted[k + 1].start) = Smaller(until, accepted[k + 1].start)
      BY <1>4, <1>5, <3>2 DEF Smaller
    <3>4. Gain(longer, at, k) = Monus(Smaller(at, accepted[k + 1].start), accepted[k].start) * accepted[k].tempo
      BY <1>3, <2>1, <3>2, Zenon DEF Gain
    <3>5. Gain(accepted, until, k) = Monus(Smaller(until, accepted[k + 1].start), accepted[k].start) * accepted[k].tempo
      BY <1>2, <2>3, Zenon DEF Gain
    <3> QED BY <3>3, <3>4, <3>5
  <2> QED BY <2>2, <2>3
<1>7. Gain(longer, at, n + 1) = Monus(at, added.start) * added.tempo
  BY <1>3, Zenon DEF Gain
<1>8. PICK f : SumsUp(f, Terms(longer, at), n + 1) /\ Integral(longer, at) = f[n + 1]
  <2>1. longer \in Seq(Segments)
    BY <1>1
  <2>2. PICK h : SumsUp(h, Terms(longer, at), Len(longer)) /\ Integral(longer, at) = h[Len(longer)]
    BY <2>1, IntegralIs, Zenon
  <2> QED BY <1>3, <2>2, Zenon
<1>9. PICK g : SumsUp(g, Terms(accepted, until), n) /\ Integral(accepted, until) = g[n]
  BY <1>2, <1>5, IntegralIs
<1>10. \A k \in 1 .. n : Terms(longer, at)[k] = Terms(accepted, until)[k]
  BY <1>2, <1>3, <1>6 DEF Terms
<1>11. Terms(longer, at)[n + 1] = Monus(at, added.start) * added.tempo
  BY <1>3, <1>7 DEF Terms
<1>12. SumsUp(f, Terms(accepted, until), n) /\ f[n + 1] = f[n] + Terms(longer, at)[n + 1]
  <2>1. n + 1 \in 1 .. n + 1 /\ (n + 1) - 1 = n /\ \A k \in 1 .. n : k \in 1 .. n + 1
    OBVIOUS
  <2> QED BY <1>8, <1>10, <2>1 DEF SumsUp
<1>13. f[n] = g[n]
  BY <1>9, <1>12, SumsAgree
<1> QED BY <1>1, <1>5, <1>8, <1>9, <1>11, <1>12, <1>13

BeatsTypeOK == segments \in Seq(Segments) /\ changes \in Seq(Segments) /\ (running => segments # <<>>)

\* The map ends with the last change, and its segments begin one after the other.
MapIsKept ==
  segments # <<>> =>
    /\ changes # <<>>
    /\ changes[Len(changes)].start = segments[Len(segments)].start
    /\ Climbs(segments)
    /\ \A j, k \in 1 .. Len(changes) : j < k => changes[j].start <= changes[k].start

BeatsAreExact ==
  segments # <<>> => \A at \in Nat : at >= segments[1].start => BeatsIn(segments, at) = Integral(changes, at)

BeatsInv == BeatsTypeOK /\ MapIsKept /\ BeatsAreExact

LEMMA BeatsAreIn == ASSUME NEW at PROVE Beats(at) = BeatsIn(segments, at)
BY Zenon DEF Beats, BeatsIn, SegmentAt

LEMMA SegmentsHave == \A s \in Segments : s.start \in Nat /\ s.beats \in Nat /\ s.tempo \in Nat
BY DEF Segments

LEMMA SegmentIs ==
  ASSUME NEW at \in Nat, NEW b \in Nat, NEW tempo \in Nat
  PROVE  Segment(at, b, tempo) \in Segments /\ Segment(at, b, tempo).start = at /\ Segment(at, b, tempo).beats = b
         /\ Segment(at, b, tempo).tempo = tempo
BY DEF Segment, Segments

\* A map and a change of it: all but the replaced last or the dropped first segment stay.
LEMMA PushedIs ==
  ASSUME segments \in Seq(Segments), segments # <<>>, NEW at \in Nat, NEW tempo \in Nat
  PROVE  \/ Pushed(at, tempo) = segments
         \/ /\ tempo # segments[Len(segments)].tempo /\ at >= segments[Len(segments)].start
            /\ \E dropped \in {0, 1}, kept \in {Len(segments) - 1, Len(segments)} :
                 /\ kept >= dropped /\ (dropped = 1 => kept = Len(segments))
                 /\ kept = Len(segments) - 1 => at = segments[Len(segments)].start
                 /\ kept = Len(segments) => at > segments[Len(segments)].start
                 /\ Pushed(at, tempo) \in Seq(Segments) /\ Len(Pushed(at, tempo)) = kept - dropped + 1
                 /\ \A k \in 1 .. kept - dropped : Pushed(at, tempo)[k] = segments[k + dropped]
                 /\ Pushed(at, tempo)[kept - dropped + 1]
                      = Segment(at, BeatsAt(segments[Len(segments)], at), tempo)
<1>1. PICK map \in Seq(Segments) : map = segments
  OBVIOUS
<1>2. PICK m \in Nat \ {0} : m = Len(map) /\ m = Len(segments)
  BY <1>1
<1>3. PICK last \in Segments : last = map[m] /\ last = Last(segments)
  BY <1>1, <1>2 DEF Last
<1>4. last.start \in Nat /\ last.beats \in Nat /\ last.tempo \in Nat
  BY SegmentsHave
<1>5. CASE at < last.start \/ tempo = last.tempo
  <2>1. Pushed(at, tempo) = segments
    BY <1>3, <1>5, Zenon DEF Pushed
  <2> QED BY <2>1
<1>6. CASE ~(at < last.start) /\ tempo # last.tempo
  <2>1. at >= last.start /\ BeatsAt(last, at) \in Nat
    <3>1. at >= last.start
      BY <1>4, <1>6
    <3>2. PICK passed \in Nat : passed = at - last.start
      BY <1>4, <3>1
    <3>3. passed * last.tempo \in Nat
      BY <1>4, <3>2
    <3>4. BeatsAt(last, at) = last.beats + passed * last.tempo
      BY <3>2, Zenon DEF BeatsAt
    <3>5. last.beats + passed * last.tempo \in Nat
      BY <1>4, <3>3
    <3> QED BY <3>1, <3>4, <3>5, Zenon
  <2>2. PICK added \in Segments : added = Segment(at, BeatsAt(last, at), tempo)
    BY <2>1, SegmentIs
  <2>3. CASE at = last.start
    <3>1. Pushed(at, tempo) = Append(Front(segments), added)
      BY <1>3, <1>6, <2>2, <2>3, Zenon DEF Pushed
    <3>2. Append(Front(segments), added) = Append(SubSeq(map, 1, m - 1), added)
      BY <1>1, <1>2 DEF Front
    <3>3. PICK result : result = Append(SubSeq(map, 1, m - 1), added)
      OBVIOUS
    <3>4. result \in Seq(Segments) /\ Len(result) = m /\ result[m] = added /\ \A k \in 1 .. m - 1 : result[k] = map[k]
      <4>1. PICK front : front = SubSeq(map, 1, m - 1)
        OBVIOUS
      <4>2. front \in Seq(Segments) /\ Len(front) = m - 1 /\ \A k \in 1 .. m - 1 : front[k] = map[k]
        BY <1>1, <1>2, <4>1
      <4> QED BY <1>2, <2>2, <3>3, <4>1, <4>2
    <3>5. PICK kept : kept = m - 1
      OBVIOUS
    <3>6. /\ kept \in {m - 1, m} /\ kept >= 0 /\ kept # m /\ Len(result) = kept - 0 + 1
          /\ \A k \in 1 .. kept - 0 : result[k] = segments[k + 0]
          /\ result[kept - 0 + 1] = added
      BY <1>1, <1>2, <3>4, <3>5
    <3>7. result = Pushed(at, tempo)
      BY <3>1, <3>2, <3>3
    <3> QED BY <1>1, <1>2, <1>3, <1>6, <2>1, <2>2, <2>3, <3>4, <3>6, <3>7
  <2>4. CASE at # last.start
    <3>1. Pushed(at, tempo) = Append(IF Len(segments) = MaxSegments THEN Tail(segments) ELSE segments, added)
      BY <1>3, <1>6, <2>2, <2>4, Zenon DEF Pushed
    <3>2. at > last.start
      BY <1>4, <2>1, <2>4
    <3>3. CASE Len(segments) = MaxSegments
      <4>1. PICK result : result = Append(Tail(map), added)
        OBVIOUS
      <4>2. Pushed(at, tempo) = result
        BY <1>1, <3>1, <3>3, <4>1, Zenon
      <4>3. result \in Seq(Segments) /\ Len(result) = m /\ result[m] = added /\ \A k \in 1 .. m - 1 : result[k] = map[k + 1]
        <5>1. PICK back : back = Tail(map)
          OBVIOUS
        <5>2. back \in Seq(Segments) /\ Len(back) = m - 1 /\ \A k \in 1 .. m - 1 : back[k] = map[k + 1]
          BY <1>1, <1>2, <5>1
        <5> QED BY <1>2, <2>2, <4>1, <5>1, <5>2
      <4>4. /\ m \in {m - 1, m} /\ m >= 1 /\ m # m - 1 /\ Len(result) = m - 1 + 1
            /\ \A k \in 1 .. m - 1 : result[k] = segments[k + 1]
            /\ result[m - 1 + 1] = added
        BY <1>1, <1>2, <4>3
      <4> QED BY <1>1, <1>2, <1>3, <1>6, <2>1, <2>2, <3>2, <4>2, <4>3, <4>4
    <3>4. CASE Len(segments) # MaxSegments
      <4>1. PICK result : result = Append(map, added)
        OBVIOUS
      <4>2. Pushed(at, tempo) = result
        BY <1>1, <3>1, <3>4, <4>1, Zenon
      <4>3. result \in Seq(Segments) /\ Len(result) = m + 1 /\ result[m + 1] = added /\ \A k \in 1 .. m : result[k] = map[k]
        BY <1>1, <1>2, <2>2, <4>1
      <4>4. /\ m \in {m - 1, m} /\ m >= 0 /\ m # m - 1 /\ Len(result) = m - 0 + 1
            /\ \A k \in 1 .. m - 0 : result[k] = segments[k + 0]
            /\ result[m - 0 + 1] = added
        BY <1>1, <1>2, <4>3
      <4> QED BY <1>1, <1>2, <1>3, <1>6, <2>1, <2>2, <3>2, <4>2, <4>3, <4>4
    <3> QED BY <3>3, <3>4
  <2> QED BY <2>3, <2>4
<1> QED BY <1>5, <1>6

LEMMA BeatsInitially == LiveInit => BeatsInv
<1> SUFFICES ASSUME LiveInit PROVE BeatsInv
  OBVIOUS
<1>1. segments = <<>> /\ changes = <<>> /\ running = FALSE
  BY DEF LiveInit
<1>2. <<>> \in Seq(Segments)
  OBVIOUS
<1>3. BeatsTypeOK
  BY <1>1, <1>2, Zenon DEF BeatsTypeOK
<1> QED BY <1>1, <1>3, Zenon DEF BeatsInv, MapIsKept, BeatsAreExact

LEMMA BeatsRest ==
  ASSUME BeatsInv, UNCHANGED <<segments, changes, running>>
  PROVE  BeatsInv'
BY Zenon DEF BeatsInv, BeatsTypeOK, MapIsKept, BeatsAreExact

LEMMA BeatsEnd ==
  ASSUME segments' = <<>>, changes' = <<>>, running' = FALSE
  PROVE  BeatsInv'
<1>1. <<>> \in Seq(Segments)
  OBVIOUS
<1>2. BeatsTypeOK'
  BY <1>1, Zenon DEF BeatsTypeOK
<1> QED BY <1>2, Zenon DEF BeatsInv, MapIsKept, BeatsAreExact

LEMMA BeatsBegin ==
  ASSUME TimelineAssumption, NEW tempo \in Tempos, NEW continued, BeginTimeline(tempo, continued)
  PROVE  BeatsInv'
<1> DEFINE first == Segment(0, 0, tempo)
<1>1. tempo \in Nat
  BY DEF TimelineAssumption
<1>2. segments' = <<first>> /\ changes' = <<first>> /\ running' = TRUE
  BY Zenon DEF BeginTimeline
<1>3. first \in Segments /\ first.start = 0 /\ first.beats = 0 /\ first.tempo = tempo
  BY <1>1, SegmentIs
<1> HIDE DEF first
<1>4. PICK map \in Seq(Segments) : map = <<first>>
  <2>1. <<first>> \in Seq(Segments)
    BY <1>3
  <2> QED BY <2>1
<1>5. map # <<>> /\ Len(map) = 1 /\ map[1] = first
  BY <1>4
<1>6. segments' = map /\ changes' = map
  BY <1>2, <1>4
<1>7. BeatsTypeOK'
  BY <1>2, <1>4, <1>5, <1>6, Zenon DEF BeatsTypeOK
<1>8. Climbs(map) /\ \A j, k \in 1 .. Len(map) : j < k => map[j].start <= map[k].start
  BY <1>5 DEF Climbs
<1>9. MapIsKept'
  BY <1>5, <1>6, <1>8, Zenon DEF MapIsKept
<1>10. ASSUME NEW at \in Nat PROVE BeatsIn(map, at) = Integral(map, at)
  <2>1. PICK product \in Nat : product = at * tempo
    BY <1>1
  <2>2. BeatsIn(map, at) = BeatsAt(first, at)
    <3>1. 1 \in 1 .. Len(map) /\ map[1].start <= at
      BY <1>3, <1>5
    <3>2. BeatsIn(map, at) = BeatsAt(map[1], at)
      BY <1>4, <1>5, <1>8, <3>1, BeatsInIs
    <3> QED BY <1>5, <3>2
  <2>3. BeatsAt(first, at) = product
    <3>1. BeatsAt(first, at) = 0 + (at - 0) * tempo
      BY <1>3, Zenon DEF BeatsAt
    <3>2. at - 0 = at
      OBVIOUS
    <3> QED BY <2>1, <3>1, <3>2
  <2>4. Gain(map, at, 1) = product
    <3>1. Gain(map, at, 1) = Monus(at, 0) * tempo
      BY <1>3, <1>5, Zenon DEF Gain
    <3>2. Monus(at, 0) = at
      BY DEF Monus
    <3> QED BY <2>1, <3>1, <3>2
  <2>5. PICK f \in [0 .. 1 -> Nat] : SumsUp(f, Terms(map, at), 1) /\ Integral(map, at) = f[1]
    BY <1>4, <1>5, IntegralIs
  <2>6. Terms(map, at)[1] = product
    BY <1>5, <2>4 DEF Terms
  <2>7. f[1] = f[0] + product /\ f[0] = 0
    BY <2>5, <2>6 DEF SumsUp
  <2> QED BY <2>2, <2>3, <2>5, <2>7
<1>11. BeatsAreExact'
  BY <1>6, <1>10, Zenon DEF BeatsAreExact
<1> QED BY <1>7, <1>9, <1>11, Zenon DEF BeatsInv

\* The map tells the integral of the changes accepted.
Tells(map, accepted) ==
  /\ map # <<>> /\ Climbs(map)
  /\ accepted # <<>> /\ accepted[Len(accepted)].start = map[Len(map)].start
  /\ \A j, k \in 1 .. Len(accepted) : j < k => accepted[j].start <= accepted[k].start
  /\ \A x \in Nat : x >= map[1].start => BeatsIn(map, x) = Integral(accepted, x)

\* The segments from dropped to kept of the map, and one more.
IsPushed(result, map, dropped, kept, added) ==
  /\ dropped \in {0, 1} /\ kept \in {Len(map) - 1, Len(map)} /\ kept >= dropped
  /\ kept = Len(map) - 1 => added.start = map[Len(map)].start
  /\ kept = Len(map) => added.start > map[Len(map)].start
  /\ added.start >= map[Len(map)].start /\ added.beats = BeatsAt(map[Len(map)], added.start)
  /\ Len(result) = kept - dropped + 1
  /\ \A k \in 1 .. kept - dropped : result[k] = map[k + dropped]
  /\ result[kept - dropped + 1] = added

\* A tempo change of the map: up to it the segments answer as before, and from there on the
\* new one goes on from the beats of the last.
LEMMA PushKeepsBeats ==
  ASSUME NEW map \in Seq(Segments), NEW accepted \in Seq(Segments), Tells(map, accepted),
         NEW added \in Segments, NEW change \in Segments, change.start = added.start, change.tempo = added.tempo,
         NEW result \in Seq(Segments), NEW dropped, NEW kept, IsPushed(result, map, dropped, kept, added)
  PROVE  /\ Climbs(result)
         /\ \A x \in Nat : x >= result[1].start => BeatsIn(result, x) = Integral(Append(accepted, change), x)
<1>1. PICK at \in Nat, tempo \in Nat : at = added.start /\ tempo = added.tempo
  BY SegmentsHave
<1>2. /\ map # <<>> /\ Climbs(map) /\ accepted # <<>> /\ accepted[Len(accepted)].start = map[Len(map)].start
      /\ \A j, k \in 1 .. Len(accepted) : j < k => accepted[j].start <= accepted[k].start
      /\ \A x \in Nat : x >= map[1].start => BeatsIn(map, x) = Integral(accepted, x)
  BY Zenon DEF Tells
<1>3. /\ dropped \in {0, 1} /\ kept \in {Len(map) - 1, Len(map)} /\ kept >= dropped
      /\ kept = Len(map) - 1 => at = map[Len(map)].start
      /\ kept = Len(map) => at > map[Len(map)].start
      /\ at >= map[Len(map)].start /\ added.beats = BeatsAt(map[Len(map)], at)
      /\ Len(result) = kept - dropped + 1
      /\ \A k \in 1 .. kept - dropped : result[k] = map[k + dropped]
      /\ result[kept - dropped + 1] = added
  BY <1>1, Zenon DEF IsPushed
<1>4. added.start = at /\ added.tempo = tempo /\ change.start = at /\ change.tempo = tempo
  BY <1>1
<1> USE <1>1, <1>2, <1>3, <1>4
<1>5. PICK m \in Nat \ {0} : m = Len(map)
  OBVIOUS
<1>6. PICK n \in Nat : n = kept - dropped
  BY <1>5
<1>7. Len(result) = n + 1 /\ result[n + 1] = added /\ kept \in Nat /\ dropped \in Nat /\ kept <= m
      /\ n + dropped = kept /\ \A k \in 1 .. n : result[k] = map[k + dropped] /\ k + dropped \in 1 .. kept
  BY <1>5, <1>6
<1>8. \A k \in 1 .. m : map[k].start \in Nat /\ map[k].beats \in Nat /\ map[k].tempo \in Nat /\ map[k].start <= at
  <2>1. ASSUME NEW k \in 1 .. m PROVE map[k].start <= at
    <3>1. map[k].start \in Nat /\ map[m].start \in Nat /\ map[m].start <= at
      BY <1>5, SegmentsHave
    <3>2. k = m \/ (k < m /\ k \in 1 .. Len(map) /\ m \in 1 .. Len(map))
      BY <1>5
    <3>3. k < m => map[k].start < map[m].start
      BY <3>2 DEF Climbs
    <3> QED BY SMTT(30), <3>1, <3>2, <3>3
  <2> QED BY <1>5, <2>1, SegmentsHave
<1>9. ASSUME NEW k \in 1 .. kept PROVE map[k].start < at
  <2>1. CASE kept = m
    <3>1. at > map[m].start
      BY <1>5, <2>1
    <3>2. k = m \/ (k < m /\ k \in 1 .. Len(map) /\ m \in 1 .. Len(map))
      BY <1>5, <2>1
    <3>3. k < m => map[k].start < map[m].start
      BY <3>2 DEF Climbs
    <3>4. map[k].start \in Nat /\ map[m].start \in Nat
      BY <1>5, <1>8, <2>1
    <3> QED BY SMTT(30), <3>1, <3>2, <3>3, <3>4
  <2>2. CASE kept # m
    <3>1. at = map[m].start /\ k < m /\ k \in 1 .. Len(map) /\ m \in 1 .. Len(map)
      BY <1>5, <2>2
    <3>2. map[k].start < map[m].start
      BY <3>1 DEF Climbs
    <3> QED BY <3>1, <3>2
  <2> QED BY <2>1, <2>2
<1>10. Climbs(result)
  <2>1. ASSUME NEW j \in 1 .. n + 1, NEW k \in 1 .. n + 1, j < k PROVE result[j].start < result[k].start
    <3>1. j \in 1 .. n /\ result[j] = map[j + dropped] /\ j + dropped \in 1 .. kept
      <4>1. j \in 1 .. n
        BY <1>6, <2>1
      <4> QED BY <1>7, <4>1
    <3>2. CASE k = n + 1
      BY <1>7, <1>9, <3>1, <3>2
    <3>3. CASE k # n + 1
      <4>1. k \in 1 .. n /\ result[k] = map[k + dropped] /\ k + dropped \in 1 .. kept
        <5>1. k \in 1 .. n
          BY <1>6, <3>3
        <5> QED BY <1>7, <5>1
      <4>2. j + dropped < k + dropped /\ j + dropped \in 1 .. Len(map) /\ k + dropped \in 1 .. Len(map)
        <5>1. j \in Nat /\ k \in Nat
          BY <1>6
        <5>2. dropped \in Nat
          OBVIOUS
        <5>3. j + dropped < k + dropped
          BY <2>1, <5>1, <5>2
        <5>4. \A i \in 1 .. kept : i \in 1 .. Len(map)
          BY <1>5, <1>7
        <5> QED BY <3>1, <4>1, <5>3, <5>4
      <4>3. map[j + dropped].start < map[k + dropped].start
        BY <4>2 DEF Climbs
      <4> QED BY <3>1, <4>1, <4>3
    <3> QED BY <3>2, <3>3
  <2> QED BY <1>7, <2>1 DEF Climbs
<1>11. ASSUME NEW x \in Nat, x >= result[1].start PROVE BeatsIn(result, x) = Integral(Append(accepted, change), x)
  <2>1. Integral(Append(accepted, change), x) = Integral(accepted, Smaller(x, at)) + Monus(x, at) * tempo
    <3>1. accepted[Len(accepted)].start <= change.start
      BY <1>5
    <3>2. Integral(Append(accepted, change), x)
            = Integral(accepted, Smaller(x, change.start)) + Monus(x, change.start) * change.tempo
      BY <3>1, IntegralGrows
    <3> QED BY <3>2
  <2>2. CASE x >= at
    <3>1. PICK later \in Nat : later = x - at
      BY <2>2
    <3>2. Smaller(x, at) = at /\ Monus(x, at) = later
      BY SMTT(30), <2>2, <3>1 DEF Smaller, Monus
    <3>3. BeatsIn(result, x) = BeatsAt(added, x)
      <4>1. n + 1 \in 1 .. Len(result) /\ result[n + 1].start <= x /\ n + 1 = Len(result)
        BY <1>7, <2>2
      <4>2. BeatsIn(result, x) = BeatsAt(result[n + 1], x)
        BY <1>10, <4>1, BeatsInIs
      <4> QED BY <1>7, <4>2
    <3>4. BeatsAt(added, x) = BeatsAt(map[m], at) + later * tempo
      <4>1. BeatsAt(added, x) = added.beats + (x - added.start) * added.tempo
        BY Zenon DEF BeatsAt
      <4> QED BY <1>5, <3>1, <4>1
    <3>5. BeatsIn(map, at) = BeatsAt(map[m], at)
      <4>1. m \in 1 .. Len(map) /\ map[m].start <= at /\ m = Len(map)
        BY <1>5, <1>8
      <4> QED BY <4>1, BeatsInIs
    <3>6. BeatsIn(map, at) = Integral(accepted, at)
      <4>1. at >= map[1].start
        BY <1>5, <1>8
      <4> QED BY <4>1
    <3> QED BY <2>1, <3>2, <3>3, <3>4, <3>5, <3>6, Zenon
  <2>3. CASE x < at
    <3>1. PICK k \in 1 .. n + 1 : result[k].start <= x /\ (k = n + 1 \/ result[k + 1].start > x)
      <4>1. result # <<>>
        BY <1>7
      <4> QED BY <1>7, <1>11, <4>1, LastBegun
    <3>2. k \in 1 .. n /\ result[k] = map[k + dropped] /\ k + dropped \in 1 .. kept
      <4>1. k # n + 1
        <5>1. k = n + 1 => result[k].start = at
          BY <1>7
        <5> QED BY <2>3, <3>1, <5>1
      <4>2. k \in 1 .. n
        BY <1>6, <4>1
      <4> QED BY <1>7, <4>2
    <3>3. PICK i \in 1 .. kept : i = k + dropped /\ result[k] = map[i]
      BY <3>2
    <3>4. i \in 1 .. m /\ map[i].start <= x
      BY <1>7, <3>1, <3>3
    <3>5. i = m \/ map[i + 1].start > x
      <4>1. CASE k = n
        <5>1. i = kept
          BY <1>7, <3>3, <4>1
        <5>2. kept = m \/ (kept + 1 = m /\ at = map[m].start)
          BY <1>5
        <5> QED BY <2>3, <5>1, <5>2
      <4>2. CASE k # n
        <5>1. k + 1 \in 1 .. n /\ result[k + 1] = map[(k + 1) + dropped] /\ (k + 1) + dropped = i + 1
          BY <1>7, <3>2, <3>3, <4>2
        <5>2. k # n + 1
          BY <3>2
        <5> QED BY <3>1, <5>1, <5>2
      <4> QED BY <4>1, <4>2
    <3>6. BeatsIn(map, x) = BeatsAt(map[i], x)
      BY <1>5, <3>4, <3>5, BeatsInIs
    <3>7. BeatsIn(result, x) = BeatsAt(result[k], x)
      <4>1. k \in 1 .. Len(result) /\ (k = Len(result) \/ result[k + 1].start > x)
        BY <1>7, <3>1
      <4> QED BY <1>10, <3>1, <4>1, BeatsInIs
    <3>8. BeatsIn(map, x) = Integral(accepted, x)
      <4>1. 1 \in 1 .. m /\ (i = 1 \/ (1 < i /\ 1 \in 1 .. Len(map) /\ i \in 1 .. Len(map)))
        BY SMTT(30), <1>5, <3>4
      <4>2. 1 < i => map[1].start < map[i].start
        BY <4>1 DEF Climbs
      <4>3. x >= map[1].start
        BY <1>8, <3>4, <4>1, <4>2
      <4> QED BY <4>3
    <3>9. Smaller(x, at) = x /\ Monus(x, at) = 0
      BY <2>3 DEF Smaller, Monus
    <3>10. PICK whole \in Nat : whole = Integral(accepted, x)
      <4>1. PICK f \in [0 .. Len(accepted) -> Nat] : Integral(accepted, x) = f[Len(accepted)]
        BY IntegralIs
      <4>2. Len(accepted) \in 0 .. Len(accepted)
        OBVIOUS
      <4> QED BY <4>1, <4>2
    <3>11. Integral(Append(accepted, change), x) = whole + 0 * tempo
      BY <2>1, <3>9, <3>10, Zenon
    <3>12. whole + 0 * tempo = whole
      OBVIOUS
    <3> QED BY <3>3, <3>6, <3>7, <3>8, <3>10, <3>11, <3>12, Zenon
  <2> QED BY <2>2, <2>3
<1> QED BY <1>10, <1>11

LEMMA BeatsChange ==
  ASSUME TimelineAssumption, BeatsInv, NEW at \in Times, NEW tempo \in Tempos, SetTempo(at, tempo)
  PROVE  BeatsInv'
<1>1. at \in Nat /\ tempo \in Nat
  BY DEF TimelineAssumption
<1>2. segments' = Pushed(at, tempo) /\ running /\ running' = running
      /\ changes' = IF segments' = segments THEN changes ELSE Append(changes, Segment(at, 0, tempo))
  BY Zenon DEF SetTempo
<1>3. BeatsTypeOK /\ MapIsKept /\ BeatsAreExact
  BY Zenon DEF BeatsInv
<1>4. segments \in Seq(Segments) /\ changes \in Seq(Segments) /\ segments # <<>>
  BY <1>2, <1>3, Zenon DEF BeatsTypeOK
<1>5. /\ changes # <<>> /\ changes[Len(changes)].start = segments[Len(segments)].start /\ Climbs(segments)
      /\ \A j, k \in 1 .. Len(changes) : j < k => changes[j].start <= changes[k].start
  BY <1>3, <1>4, Zenon DEF MapIsKept
<1>6. \A x \in Nat : x >= segments[1].start => BeatsIn(segments, x) = Integral(changes, x)
  BY <1>3, <1>4, Zenon DEF BeatsAreExact
<1>7. CASE Pushed(at, tempo) = segments
  <2>1. UNCHANGED <<segments, changes, running>>
    BY <1>2, <1>7, Zenon
  <2> QED BY <2>1, BeatsRest
<1>8. CASE Pushed(at, tempo) # segments
  <2>1. PICK map \in Seq(Segments) : map = segments
    BY <1>4
  <2>2. PICK m \in Nat \ {0} : m = Len(map) /\ m = Len(segments)
    BY <1>4, <2>1
  <2>3. PICK result : result = Pushed(at, tempo)
    OBVIOUS
  <2>4. /\ tempo # map[m].tempo /\ at >= map[m].start
        /\ \E dropped \in {0, 1}, kept \in {m - 1, m} :
             /\ kept >= dropped /\ (dropped = 1 => kept = m)
             /\ kept = m - 1 => at = map[m].start
             /\ kept = m => at > map[m].start
             /\ result \in Seq(Segments) /\ Len(result) = kept - dropped + 1
             /\ \A k \in 1 .. kept - dropped : result[k] = map[k + dropped]
             /\ result[kept - dropped + 1] = Segment(at, BeatsAt(map[m], at), tempo)
    <3>1. segments \in Seq(Segments) /\ segments # <<>>
      BY <1>4
    <3>2. /\ tempo # segments[Len(segments)].tempo /\ at >= segments[Len(segments)].start
          /\ \E dropped \in {0, 1}, kept \in {Len(segments) - 1, Len(segments)} :
               /\ kept >= dropped /\ (dropped = 1 => kept = Len(segments))
               /\ kept = Len(segments) - 1 => at = segments[Len(segments)].start
               /\ kept = Len(segments) => at > segments[Len(segments)].start
               /\ Pushed(at, tempo) \in Seq(Segments) /\ Len(Pushed(at, tempo)) = kept - dropped + 1
               /\ \A k \in 1 .. kept - dropped : Pushed(at, tempo)[k] = segments[k + dropped]
               /\ Pushed(at, tempo)[kept - dropped + 1]
                    = Segment(at, BeatsAt(segments[Len(segments)], at), tempo)
      BY <1>1, <1>8, <3>1, PushedIs, Zenon
    <3>3. map = segments /\ Len(segments) = m /\ Pushed(at, tempo) = result
      BY <2>1, <2>2, <2>3
    <3> QED BY <3>2, <3>3
  <2>5. PICK dropped \in {0, 1}, kept \in {m - 1, m} :
             /\ kept >= dropped
             /\ kept = m - 1 => at = map[m].start
             /\ kept = m => at > map[m].start
             /\ result \in Seq(Segments) /\ Len(result) = kept - dropped + 1
             /\ \A k \in 1 .. kept - dropped : result[k] = map[k + dropped]
             /\ result[kept - dropped + 1] = Segment(at, BeatsAt(map[m], at), tempo)
    BY <2>4, Zenon
  <2>6. BeatsAt(map[m], at) \in Nat
    <3>1. PICK last \in Segments : last = map[m]
      BY <2>1, <2>2
    <3>2. last.start \in Nat /\ last.beats \in Nat /\ last.tempo \in Nat
      BY <3>1, SegmentsHave
    <3>3. PICK passed \in Nat : passed = at - last.start
      BY SMTT(30), <1>1, <2>4, <3>1, <3>2
    <3>4. passed * last.tempo \in Nat
      BY SMTT(30), <3>2, <3>3
    <3>5. BeatsAt(last, at) = last.beats + passed * last.tempo
      BY <3>3, Zenon DEF BeatsAt
    <3>6. last.beats + passed * last.tempo \in Nat
      BY SMTT(30), <3>2, <3>3, <3>4
    <3> QED BY <3>1, <3>5, <3>6, Zenon
  <2>7. PICK added \in Segments : added = Segment(at, BeatsAt(map[m], at), tempo) /\ added.start = at
                                  /\ added.beats = BeatsAt(map[m], at) /\ added.tempo = tempo
    <3>1. PICK b \in Nat : b = BeatsAt(map[m], at)
      BY <2>6
    <3>2. Segment(at, b, tempo) \in Segments /\ Segment(at, b, tempo).start = at /\ Segment(at, b, tempo).beats = b
          /\ Segment(at, b, tempo).tempo = tempo
      BY <1>1, <3>1 DEF Segment, Segments
    <3> QED BY <3>1, <3>2, Zenon
  <2>8. PICK change \in Segments : change = Segment(at, 0, tempo) /\ change.start = at /\ change.tempo = tempo
    <3>1. 0 \in Nat
      OBVIOUS
    <3> QED BY <1>1, <3>1, SegmentIs
  <2>9. PICK accepted \in Seq(Segments) : accepted = changes
    BY <1>4
  <2>10. accepted # <<>> /\ accepted[Len(accepted)].start = map[Len(map)].start
         /\ \A j, k \in 1 .. Len(accepted) : j < k => accepted[j].start <= accepted[k].start
    BY <1>5, <2>1, <2>9, Zenon
  <2>11. map # <<>> /\ Climbs(map) /\ \A x \in Nat : x >= map[1].start => BeatsIn(map, x) = Integral(accepted, x)
    BY <1>4, <1>5, <1>6, <2>1, <2>9, Zenon
  <2>12. result[kept - dropped + 1] = added
    BY <2>5, <2>7
  <2>13. /\ Climbs(result)
         /\ \A x \in Nat : x >= result[1].start => BeatsIn(result, x) = Integral(Append(accepted, change), x)
    <3>1. Tells(map, accepted)
      BY <2>10, <2>11, Zenon DEF Tells
    <3>2. m = Len(map) /\ dropped \in {0, 1} /\ kept \in {m - 1, m}
      BY <2>2, <2>5
    <3>3. IsPushed(result, map, dropped, kept, added)
      BY <2>4, <2>5, <2>7, <2>12, <3>2, Zenon DEF IsPushed
    <3>4. map \in Seq(Segments) /\ accepted \in Seq(Segments) /\ added \in Segments /\ change \in Segments
          /\ change.start = added.start /\ change.tempo = added.tempo /\ result \in Seq(Segments)
      BY <2>1, <2>5, <2>7, <2>8, <2>9, Zenon
    <3> QED BY <3>1, <3>3, <3>4, PushKeepsBeats
  <2>14. Append(accepted, change) \in Seq(Segments)
    OBVIOUS
  <2>15. PICK longer \in Seq(Segments) : longer = Append(accepted, change)
    BY <2>14
  <2>16. segments' = result /\ changes' = longer
    BY <1>2, <1>8, <2>3, <2>8, <2>9, <2>15, Zenon
  <2>17. result \in Seq(Segments) /\ Len(result) \in Nat \ {0} /\ result[Len(result)] = added
    BY <2>2, <2>5, <2>12
  <2>18. result # <<>>
    BY <2>17
  <2>19. /\ longer # <<>> /\ longer[Len(longer)] = change
         /\ \A j, k \in 1 .. Len(longer) : j < k => longer[j].start <= longer[k].start
    <3>1. PICK n \in Nat \ {0} : n = Len(accepted)
      BY <2>10
    <3>2. Len(longer) = n + 1 /\ longer[n + 1] = change /\ \A k \in 1 .. n : longer[k] = accepted[k]
      BY <2>15, <3>1
    <3>3. map[m].start \in Nat /\ map[m].start <= at /\ accepted[n].start = map[m].start
      BY SMTT(30), <2>2, <2>4, <2>10, <3>1, SegmentsHave
    <3>4. ASSUME NEW j \in 1 .. n PROVE accepted[j].start <= at
      <4>1. accepted[j].start \in Nat /\ accepted[n].start \in Nat
        BY <2>9, <3>1, SegmentsHave
      <4>2. j = n \/ (j < n /\ j \in 1 .. Len(accepted) /\ n \in 1 .. Len(accepted))
        BY <3>1
      <4>3. j = n \/ accepted[j].start <= accepted[n].start
        BY <2>10, <4>2
      <4>4. accepted[n].start <= at
        BY <3>3
      <4>5. CASE j = n
        BY <4>4, <4>5
      <4>6. CASE j # n
        <5>1. accepted[j].start <= accepted[n].start
          BY <4>3, <4>6
        <5> QED BY SMTT(30), <1>1, <4>1, <4>4, <5>1
      <4> QED BY <4>5, <4>6
    <3>5. ASSUME NEW j \in 1 .. n + 1, NEW k \in 1 .. n + 1, j < k PROVE longer[j].start <= longer[k].start
      <4>1. j \in 1 .. n
        BY <3>5
      <4>2. CASE k = n + 1
        BY <2>8, <3>2, <3>4, <4>1, <4>2
      <4>3. CASE k # n + 1
        <5>1. k \in 1 .. n
          BY <4>3
        <5>2. accepted[j].start <= accepted[k].start
          BY <2>10, <3>1, <3>5, <4>1, <5>1
        <5> QED BY <3>2, <4>1, <5>1, <5>2
      <4> QED BY <4>2, <4>3
    <3>6. longer # <<>>
      BY <3>2
    <3> QED BY <3>2, <3>5, <3>6
  <2>20. BeatsTypeOK'
    BY <2>15, <2>16, <2>17, <2>18, Zenon DEF BeatsTypeOK
  <2>21. MapIsKept'
    <3>1. longer[Len(longer)].start = result[Len(result)].start
      BY <2>7, <2>8, <2>17, <2>19
    <3> QED BY <2>13, <2>16, <2>19, <3>1, Zenon DEF MapIsKept
  <2>22. BeatsAreExact'
    BY <2>13, <2>15, <2>16, Zenon DEF BeatsAreExact
  <2> QED BY <2>20, <2>21, <2>22, Zenon DEF BeatsInv
<1> QED BY <1>7, <1>8

LEMMA BeatsStep == TimelineAssumption /\ BeatsInv /\ [LiveNext]_timelineVars => BeatsInv'
<1> SUFFICES ASSUME TimelineAssumption, BeatsInv, [LiveNext]_timelineVars PROVE BeatsInv'
  OBVIOUS
<1>0. NoLive => BeatsInv'
  BY BeatsEnd, Zenon DEF NoLive
<1>1. ASSUME NEW i, NEW left, Falls(i, left) PROVE BeatsInv'
  <2>1. CASE NoLive
    BY <1>0, <2>1
  <2>2. CASE UNCHANGED transportVars
    BY <2>2, BeatsRest, Zenon DEF transportVars
  <2> QED BY <1>1, <2>1, <2>2, Zenon DEF Falls
<1>2. UNCHANGED transportVars => BeatsInv'
  BY BeatsRest, Zenon DEF transportVars
<1>3. ASSUME NEW i \in Instances, NEW offset, LiveMidi(i, offset) PROVE BeatsInv'
  BY <1>2, <1>3, Zenon DEF LiveMidi
<1>4. ASSUME NEW i \in Instances, NEW at, TimelineMidi(i, at) PROVE BeatsInv'
  BY <1>4, BeatsRest, Zenon DEF TimelineMidi
<1>5. ASSUME NEW i \in Instances, StopInstance(i) PROVE BeatsInv'
  BY <1>1, <1>5, Zenon DEF StopInstance
<1>6. ASSUME NEW i \in Instances, NEW sounds, PreparePatch(i, sounds) PROVE BeatsInv'
  BY <1>2, <1>6, Zenon DEF PreparePatch
<1>7. ASSUME NEW i \in Instances, NEW ok, StandbyEnds(i, ok) PROVE BeatsInv'
  <2>1. UNCHANGED transportVars \/ Falls(i, queue)
    BY <1>7, Zenon DEF StandbyEnds
  <2> QED BY <1>1, <1>2, <2>1, Zenon
<1>8. ASSUME NEW b, StandbyBegins(b) PROVE BeatsInv'
  BY <1>2, <1>8, Zenon DEF StandbyBegins
<1>9. ASSUME EndLive PROVE BeatsInv'
  BY <1>0, <1>9, Zenon DEF EndLive
<1>10. ASSUME NEW fails, RenderBlock(fails) PROVE BeatsInv'
  BY <1>2, <1>10, Zenon DEF RenderBlock
<1>11. UNCHANGED timelineVars => BeatsInv'
  BY BeatsRest, Zenon DEF timelineVars
<1> QED BY <1>3, <1>4, <1>5, <1>6, <1>7, <1>8, <1>9, <1>10, <1>11, BeatsBegin, BeatsChange, Zenon DEF LiveNext

\* What the tempo map keeps: its segments begin one after the other, and each goes on from
\* the beats of the one before (TempoMapTimeline::push).
THEOREM BeatsInvCorrect == LiveSpec => []BeatsInv
<1>1. BeatsInv /\ [LiveNext]_timelineVars => BeatsInv'
  BY BeatsStep, TimelineAssumption
<1> QED BY <1>1, BeatsInitially, PTL DEF LiveSpec

\* transport.rs: for every number of segments and of changes, the beats told are the integral
\* of the tempo changes accepted.
THEOREM BeatsAreTheIntegralCorrect == LiveSpec => []BeatsAreTheIntegral
<1>1. BeatsInv => BeatsAreTheIntegral
  <2> SUFFICES ASSUME BeatsInv, segments # <<>>, NEW at \in Times, at >= segments[1].start
               PROVE  Beats(at) = Integral(changes, at)
    BY Zenon DEF BeatsAreTheIntegral
  <2>1. at \in Nat
    BY TimelineAssumption DEF TimelineAssumption
  <2>2. BeatsIn(segments, at) = Integral(changes, at)
    BY <2>1, Zenon DEF BeatsInv, BeatsAreExact
  <2> QED BY <2>2, BeatsAreIn
<1> QED BY <1>1, BeatsInvCorrect, TimelineAssumption, PTL
================================================================================
