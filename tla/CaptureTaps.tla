----------------------------- MODULE CaptureTaps -----------------------------
(***************************************************************************)
(* The two recorders of what is played: one in the render loop, behind the *)
(* limiter, for the blocks of a live (player/live_capture.rs), one in the  *)
(* callback of the device, for all it was given (player/output_capture.rs, *)
(* fill_output).  Both have their buffer from the start and never grow it. *)
(*                                                                         *)
(* Frames are numbered as they are rendered, 0 is silence.  The modules    *)
(* Player and AudioOutput have the render loop and the ring in full; here  *)
(* a block that is rendered is in the ring, and a change of what is played *)
(* empties it.                                                             *)
(***************************************************************************)
EXTENDS Naturals, Sequences, SequencesExt

CONSTANTS
  BlockFrames,    \* frames of a block
  LiveCapacity,   \* frames that CMRT_LIVE_CAPTURE_SECONDS makes room for
  MinimumFrames,  \* the same of CMRT_LIVE_CAPTURE_MIN_SECONDS
  OutputLimit,    \* frames of CMRT_OUTPUT_CAPTURE_SECONDS
  MaxRendered,    \* bound: blocks
  MaxSilence      \* bound: frames of silence the device was given

ASSUME CaptureAssumption ==
  /\ {BlockFrames, LiveCapacity, OutputLimit} \subseteq Nat \ {0}
  /\ {MinimumFrames, MaxRendered, MaxSilence} \subseteq Nat

VARIABLES
  mode,                     \* what is played: "none", "live", "scheduled", "stopped"
  rendered,                 \* blocks rendered so far
  ring, active,             \* frames on their way, AudioOutputControl.active
  samples, written, file,   \* LiveCapture, and the file it wrote (it may fail)
  recorded, begunAt, sent,  \* OutputCapture
  lives, played             \* history: frames of lives; frames the device got once active

liveCaptureVars == <<samples, written, file>>
outputCaptureVars == <<recorded, begunAt, sent>>
captureVars == <<mode, rendered, ring, active, liveCaptureVars, outputCaptureVars, lives, played>>

CaptureInit ==
  /\ mode = "none" /\ rendered = 0 /\ ring = <<>> /\ active = FALSE
  /\ samples = <<>> /\ written = FALSE /\ file = <<>>
  /\ recorded = <<>> /\ begunAt = FALSE /\ sent = FALSE
  /\ lives = <<>> /\ played = <<>>

Least(a, b) == IF a < b THEN a ELSE b

(***************************************************************************)
(* The render loop                                                         *)
(***************************************************************************)
BlockOf(n) == [i \in 1 .. BlockFrames |-> n * BlockFrames + i]

\* Seeded fault: of a block too long for the rest of the buffer the end is kept.
TakenFromEnd(block, room) == SubSeq(block, Len(block) - Least(Len(block), room) + 1, Len(block))

\* What of a block finds room in the buffer.
TakenOut(block, room) == SubSeq(block, 1, Least(Len(block), room))

\* push, for a block of a live.
Captures(block) ==
  IF mode = "live"
  THEN /\ samples' = IF written THEN samples ELSE samples \o TakenOut(block, LiveCapacity - Len(samples))
       /\ lives' = lives \o block
  ELSE UNCHANGED <<samples, lives>>

Renders ==
  /\ mode \in {"live", "scheduled"} /\ rendered < MaxRendered /\ ring = <<>>
  /\ Captures(BlockOf(rendered))
  /\ ring' = BlockOf(rendered)
  /\ rendered' = rendered + 1
  /\ UNCHANGED <<mode, active, written, file, outputCaptureVars, played>>

\* finish: once, whether or not the file can be written.
Finishes ==
  IF written \/ samples = <<>>
  THEN UNCHANGED liveCaptureVars
  ELSE /\ written' = TRUE
       /\ file' \in {file, samples}
       /\ UNCHANGED samples

\* A command that stops everything: finish_on_stop waits for the minimum.
StopsAll ==
  /\ mode \in {"live", "scheduled"}
  /\ mode' = "none" /\ active' = FALSE /\ ring' = <<>>
  /\ IF Len(samples) < MinimumFrames THEN UNCHANGED liveCaptureVars ELSE Finishes
  /\ UNCHANGED <<rendered, outputCaptureVars, lives, played>>

\* A live or a playback begins, in the place of what is played.
Plays(kind) ==
  /\ mode # "stopped"
  /\ mode' = kind /\ active' = TRUE /\ ring' = <<>>
  /\ UNCHANGED <<rendered, liveCaptureVars, outputCaptureVars, lives, played>>

\* A playback is over, or a block cannot be rendered.
EndsPlaying ==
  /\ mode \in {"live", "scheduled"}
  /\ mode' = "none" /\ active' = FALSE
  /\ Finishes
  /\ UNCHANGED <<rendered, ring, outputCaptureVars, lives, played>>

\* The render loop ends.
EndsLoop ==
  /\ mode # "stopped"
  /\ mode' = "stopped" /\ active' = FALSE
  /\ Finishes
  /\ UNCHANGED <<rendered, ring, outputCaptureVars, lives, played>>

(***************************************************************************)
(* The device                                                              *)
(***************************************************************************)
\* Recording begins with the first frame while active, and goes on through silence.
Records(begun) == begun \/ active

DeviceTakes ==
  LET frame == IF ring = <<>> THEN 0 ELSE Head(ring)
  IN /\ Len(played) < MaxRendered * BlockFrames + MaxSilence
     /\ ring' = IF ring = <<>> THEN ring ELSE Tail(ring)
     /\ IF ~sent /\ Records(begunAt)
        THEN /\ begunAt' = TRUE
             /\ recorded' = Append(recorded, frame)
             /\ sent' = (Len(recorded) + 1 >= OutputLimit)
        ELSE UNCHANGED outputCaptureVars
     /\ played' = IF played # <<>> \/ active THEN Append(played, frame) ELSE played
     /\ UNCHANGED <<mode, rendered, active, liveCaptureVars, lives>>

CaptureNext ==
  \/ Renders \/ StopsAll \/ EndsPlaying \/ EndsLoop
  \/ \E kind \in {"live", "scheduled"} : Plays(kind)
  \/ DeviceTakes

CaptureSpec == CaptureInit /\ [][CaptureNext]_captureVars

(***************************************************************************)
(* Properties                                                              *)
(***************************************************************************)
\* What is recorded is what was heard, from the beginning and without a gap: of the lives
\* until the file is written or the buffer full, of the device until the limit.
RecordingsHaveNoGap ==
  /\ IsPrefix(samples, lives)
  /\ ~written => Len(samples) = Least(Len(lives), LiveCapacity)
  /\ recorded = SubSeq(played, 1, Least(Len(played), OutputLimit))

=============================================================================
