---------------------------- MODULE MasterLimiter ----------------------------
(***************************************************************************)
(* The peak limiter at the end of the mix (player/limiter.rs): a delay     *)
(* line, and a queue of falling peaks whose front is the loudest frame     *)
(* still in the line.                                                      *)
(*                                                                         *)
(* A frame is its louder channel, in multiples of the ceiling; NaN stands  *)
(* for a frame that is not a number in both channels.  The gain is kept as *)
(* what it divides by, `cut`; while it recovers it may be anything between *)
(* what it was and what the queue asks for.                                *)
(***************************************************************************)
EXTENDS Naturals, Sequences

CONSTANTS
  Lookahead,  \* lookahead_frames
  MaxPeak,    \* the loudest frame
  NaN,        \* not a number
  MaxTaken    \* bound: frames between two resets

ASSUME LimiterAssumption ==
  /\ {Lookahead, MaxPeak} \subseteq Nat \ {0} /\ MaxTaken \in Nat
  /\ NaN \in Nat /\ NaN > MaxPeak

Peaks == 0 .. MaxPeak \cup {NaN}

VARIABLES
  delay,      \* frames on their way
  detector,   \* [no, peak], falling
  nextFrame,  \* next_frame
  cut,        \* 1 / gain
  out         \* the frame that came out last, -1 (none) being silence

limiterVars == <<delay, detector, nextFrame, cut, out>>

Silence == MaxPeak + NaN + 1

LimiterInit ==
  /\ delay = <<>> /\ detector = <<>> /\ nextFrame = 0 /\ cut = 1 /\ out = Silence

\* Comparisons with NaN are false.
AtMost(p, q) == p # NaN /\ q # NaN /\ p <= q
Above(p, q) == p # NaN /\ q # NaN /\ p > q

\* push_detector: from the back, as long as they are no louder; a NaN stops it.
Queued(queue, peak) ==
  LET kept == {n \in 0 .. Len(queue) : \A i \in n + 1 .. Len(queue) : AtMost(queue[i].peak, peak)}
      last == CHOOSE n \in kept : \A m \in kept : n <= m
  IN Append(SubSeq(queue, 1, last), [no |-> nextFrame, peak |-> peak])

\* Seeded fault: a peak is forgotten one frame before it leaves the delay line.
LeavesEarly(no) == no + Lookahead <= nextFrame + 1

\* expire_detector, at the frame after this one: from the front.
Expired(no) == no + Lookahead < nextFrame + 1

Rest(queue) ==
  LET gone == {n \in 0 .. Len(queue) : \A i \in 1 .. n : Expired(queue[i].no)}
      last == CHOOSE n \in gone : \A m \in gone : m <= n
  IN SubSeq(queue, last + 1, Len(queue))

\* The front of the queue tells what the gain must be.
Wanted(queue) ==
  IF Above(Head(queue).peak, 1) THEN Head(queue).peak ELSE 1

\* Attack at once, release slowly.
Cuts(queue) ==
  LET wanted == Wanted(queue) IN IF wanted > cut THEN {wanted} ELSE wanted .. cut

Process(peak) ==
  /\ nextFrame < MaxTaken
  /\ LET queue == Queued(detector, peak)
         line == Append(delay, peak)
     IN /\ cut' \in Cuts(queue)
        /\ IF Len(line) > Lookahead
           THEN out' = Head(line) /\ delay' = Tail(line)
           ELSE out' = Silence /\ delay' = line
        /\ detector' = Rest(queue)
  /\ nextFrame' = nextFrame + 1

\* A stop, a new line, a failed block: the render loop starts over.
Reset ==
  /\ nextFrame > 0
  /\ delay' = <<>> /\ detector' = <<>> /\ nextFrame' = 0 /\ cut' = 1
  /\ out' = Silence

LimiterNext == Reset \/ \E peak \in Peaks : Process(peak)

LimiterSpec == LimiterInit /\ [][LimiterNext]_limiterVars

(***************************************************************************)
(* Properties                                                              *)
(***************************************************************************)
\* No frame comes out above the ceiling: the queue remembers every peak until the frame
\* has left the delay line, also when frames that are no number pass through.
OutputUnderCeiling == out \in 0 .. MaxPeak => out <= cut

=============================================================================
