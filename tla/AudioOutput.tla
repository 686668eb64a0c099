----------------------------- MODULE AudioOutput -----------------------------
(***************************************************************************)
(* The way of a frame from the render loop to the sound device             *)
(* (player/audio_output.rs): a ring with one producer and one consumer, a  *)
(* generation that tells old frames from new ones.                         *)
(*                                                                         *)
(* A push is two steps, the slot and the index, and so is a pop; between   *)
(* any two steps the generation may change.  Release and acquire order     *)
(* make the memory sequentially consistent, and the 64-bit indices never   *)
(* wrap around.  Underruns are not counted: nothing but a status reads     *)
(* their number.                                                           *)
(***************************************************************************)
EXTENDS Naturals, Sequences, SequencesExt

CONSTANTS
  ChunkFrames,   \* frames of a chunk
  Multipliers,    \* buffer multipliers a client may ask for
  MaxMultiplier,  \* MAX_BUFFER_MULTIPLIER: the ring holds so many chunks
  MaxGeneration,  \* bound: generations
  MaxFrames       \* bound: frames pushed

ASSUME OutputAssumption ==
  /\ ChunkFrames \in Nat \ {0} /\ MaxMultiplier \in Nat \ {0}
  /\ Multipliers \subseteq 1 .. MaxMultiplier /\ Multipliers # {}
  /\ {MaxGeneration, MaxFrames} \subseteq Nat

Capacity == ChunkFrames * MaxMultiplier

\* A frame is numbered in the order of the pushes; 0 is no frame, and silence.
NoFrame == [generation |-> 0, no |-> 0]

VARIABLES
  slots, write, read,                      \* FrameRing
  generation, outputActive, shutdown, multiplier, \* AudioOutputControl
  setting,    \* what start_generation or stop_generation still has to store
  renders,    \* generation the render loop works at
  producer,   \* where push_chunk is, its generation and what is left of the chunk
  consumer    \* where fill_output is, and the frame in its hand

ringVars == <<slots, write, read>>
controlVars == <<generation, outputActive, shutdown, multiplier, setting>>
outputVars == <<ringVars, controlVars, renders, producer, consumer>>

OutputInit ==
  /\ slots = [i \in 0 .. Capacity - 1 |-> NoFrame] /\ write = 0 /\ read = 0
  /\ generation = 0 /\ outputActive = FALSE /\ shutdown = FALSE /\ multiplier \in Multipliers
  /\ setting = <<>>
  /\ renders = 0
  /\ producer = [at |-> "waiting", generation |-> 0, left |-> 0]
  /\ consumer = [at |-> "idle", frame |-> NoFrame]

Lead == write - read
Target == ChunkFrames * multiplier

(***************************************************************************)
(* The control, used by the threads that take commands                     *)
(***************************************************************************)
\* start_generation and stop_generation store the generation first.
Generation(playing) ==
  /\ setting = <<>> /\ ~shutdown /\ generation < MaxGeneration
  /\ generation' = generation + 1
  /\ setting' = <<playing>>
  /\ UNCHANGED <<ringVars, outputActive, shutdown, multiplier, renders, producer, consumer>>

Activity ==
  /\ setting # <<>>
  /\ outputActive' = setting[1]
  /\ setting' = <<>>
  /\ UNCHANGED <<ringVars, generation, shutdown, multiplier, renders, producer, consumer>>

\* finish: a playback has ended by itself.
Finish ==
  /\ outputActive
  /\ outputActive' = FALSE
  /\ UNCHANGED <<ringVars, generation, shutdown, multiplier, setting, renders, producer, consumer>>

SetMultiplier(m) ==
  /\ m # multiplier
  /\ multiplier' = m
  /\ UNCHANGED <<ringVars, generation, outputActive, shutdown, setting, renders, producer, consumer>>

Shutdown ==
  /\ ~shutdown
  /\ shutdown' = TRUE
  /\ outputActive' = FALSE
  /\ UNCHANGED <<ringVars, generation, multiplier, setting, renders, producer, consumer>>

(***************************************************************************)
(* The producer                                                            *)
(***************************************************************************)
\* The render loop takes a command of a later generation.
Follow(g) ==
  /\ producer.at = "waiting" /\ g \in renders + 1 .. generation
  /\ renders' = g
  /\ UNCHANGED <<ringVars, controlVars, producer, consumer>>

ProducerAt(where) == producer' = [producer EXCEPT !.at = where]

\* wait_for_space_timeout; a full ring is waited for and looked at again.
HasSpace ==
  /\ producer.at = "waiting" /\ ~shutdown /\ Lead < Target
  /\ write + ChunkFrames <= MaxFrames
  /\ producer' = [at |-> "push", generation |-> renders, left |-> ChunkFrames]
  /\ UNCHANGED <<ringVars, controlVars, renders, consumer>>

\* After the shutdown there is never space, whether the loop of the worker ends or not.
StopsPushing ==
  /\ producer.at = "waiting" /\ shutdown /\ ProducerAt("stopped")
  /\ UNCHANGED <<ringVars, controlVars, renders, consumer>>

\* Seeded fault: one frame too many is taken for free.
HasRoomTooMany == Lead <= Capacity
HasRoom == Lead < Capacity

\* try_push writes the slot ...
WriteSlot ==
  /\ producer.at = "push" /\ HasRoom
  /\ slots' = [slots EXCEPT ![write % Capacity] = [generation |-> producer.generation, no |-> write + 1]]
  /\ ProducerAt("publish")
  /\ UNCHANGED <<write, read, controlVars, renders, consumer>>

\* ... and the index.
Publish ==
  /\ producer.at = "publish"
  /\ write' = write + 1
  /\ producer' = [producer EXCEPT !.at = "check", !.left = @ - 1]
  /\ UNCHANGED <<slots, read, controlVars, renders, consumer>>

Outdated == generation # producer.generation

Leaves == shutdown \/ Outdated

\* push_chunk: the ring is full; a chunk that nobody wants any more is given up.
Full ==
  /\ producer.at = "push" /\ ~HasRoom /\ Leaves
  /\ ProducerAt("waiting")
  /\ UNCHANGED <<ringVars, controlVars, renders, consumer>>

NextFrame ==
  /\ producer.at = "check"
  /\ ProducerAt(IF Outdated \/ producer.left = 0 THEN "waiting" ELSE "push")
  /\ UNCHANGED <<ringVars, controlVars, renders, consumer>>

Produce == HasSpace \/ StopsPushing \/ WriteSlot \/ Publish \/ Full \/ NextFrame

(***************************************************************************)
(* The consumer: the callback of the device                                *)
(***************************************************************************)
\* try_pop takes the frame out of the slot ...
ReadSlot ==
  /\ consumer.at = "idle" /\ write # read
  /\ consumer' = [at |-> "read", frame |-> slots[read % Capacity]]
  /\ UNCHANGED <<ringVars, controlVars, renders, producer>>

\* ... and frees it.
FreeSlot ==
  /\ consumer.at = "read"
  /\ read' = read + 1
  /\ consumer' = [consumer EXCEPT !.at = "check"]
  /\ UNCHANGED <<slots, write, controlVars, renders, producer>>

IsCurrent(f) == f.generation = generation

\* next_current_frame: an old frame is dropped and the next one taken.
CheckFrame ==
  /\ consumer.at = "check"
  /\ consumer' = IF IsCurrent(consumer.frame) THEN [consumer EXCEPT !.at = "plays"]
                 ELSE [at |-> "idle", frame |-> NoFrame]
  /\ UNCHANGED <<ringVars, controlVars, renders, producer>>

\* The ring is empty: silence.
Underrun ==
  /\ consumer.at = "idle" /\ write = read
  /\ consumer' = [at |-> "plays", frame |-> NoFrame]
  /\ UNCHANGED <<ringVars, controlVars, renders, producer>>

\* The frame, or silence, goes to the device.
Play ==
  /\ consumer.at = "plays"
  /\ consumer' = [at |-> "idle", frame |-> NoFrame]
  /\ UNCHANGED <<ringVars, controlVars, renders, producer>>

Consume == ReadSlot \/ FreeSlot \/ CheckFrame \/ Underrun \/ Play

OutputNext ==
  \/ \E playing \in BOOLEAN: Generation(playing)
  \/ Activity \/ Finish \/ Shutdown
  \/ \E m \in Multipliers: SetMultiplier(m)
  \/ \E g \in 1 .. MaxGeneration: Follow(g)
  \/ Produce
  \/ Consume

OutputSpec == OutputInit /\ [][OutputNext]_outputVars

(***************************************************************************)
(* Properties                                                              *)
(***************************************************************************)
\* The consumer takes every frame once, in the order of the pushes, and never one that is
\* half written or written over, although neither side ever waits for the other.
FramesArriveInOrder ==
  consumer.at \in {"read", "check"} =>
    consumer.frame.no = IF consumer.at = "read" THEN read + 1 ELSE read

=============================================================================
