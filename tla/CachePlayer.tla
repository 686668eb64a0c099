----------------------------- MODULE CachePlayer -----------------------------
(***************************************************************************)
(* The cache player plugin (cache-player/src): the host's main thread      *)
(* loads rendered parts into slots, its audio thread plays them.           *)
(*                                                                         *)
(* A part is a reference-counted buffer of several megabytes.  Whoever     *)
(* drops the last reference frees it, which the audio thread must not do:  *)
(* it puts what it no longer needs into a graveyard of its own, moves that *)
(* into a shared one, and the main thread drops it there.  Neither waits   *)
(* for the other's locks on the audio thread's side: it only tries them.   *)
(*                                                                         *)
(* A buffer is the number of the load that made it.  Samples and positions *)
(* are left out: a voice ends at some time.  The audio thread's graveyard  *)
(* is its own, so one reference is buried per step.                        *)
(***************************************************************************)
EXTENDS Naturals

CONSTANTS
  SlotCount,   \* SLOT_COUNT
  MaxVoices,   \* MAX_VOICES
  Capacity,    \* GRAVEYARD_CAPACITY
  MaxChanges   \* bound: changes of the slots in a behaviour

ASSUME SizeAssumption ==
  /\ SlotCount \in Nat \ {0}
  /\ MaxVoices \in Nat \ {0}
  /\ Capacity \in Nat \ {0}

VARIABLES
  slots,           \* CachePlayerShared.slots
  slotsGeneration, \* CachePlayerShared.generation
  graves,          \* CachePlayerShared.graveyard
  mainPc,          \* where PluginStateImpl::load stands
  change,          \* the slots it is about to set, with their new buffers
  reclaimed,       \* the buffers it has reclaimed and not yet dropped
  loads,           \* the buffers made so far
  audioPc,         \* where the audio thread stands
  read,            \* the generation refresh_slots has read
  seen,            \* seen_generation
  mine,            \* CachePlayerAudioProcessor.slots
  previous,        \* the slots refresh_slots has replaced and not yet buried
  voices,          \* VoiceBank.voices
  nextSlot,        \* VoiceBank.next_slot
  returns          \* CachePlayerAudioProcessor.returns

sharedVars == <<slots, slotsGeneration, graves>>
mainVars == <<mainPc, change, reclaimed, loads>>
voiceVars == <<voices, nextSlot>>
audioVars == <<audioPc, read, seen, mine, previous, returns, voiceVars>>
vars == <<sharedVars, mainVars, audioVars>>

Slots == 0 .. SlotCount - 1
Voices == 0 .. MaxVoices - 1
Places == 1 .. Capacity

NoBuffer == 0
Buffers == Nat \ {NoBuffer}
EmptySlots == [s \in Slots |-> NoBuffer]
EmptyGraves == [n \in Places |-> NoBuffer]
EmptyVoices == [v \in Voices |-> NoBuffer]

\* The entries of a slot, voice or graveyard table that hold, or do not hold,
\* a reference.
Taken(table) == {n \in DOMAIN table : table[n] # NoBuffer}
Free(table) == DOMAIN table \ Taken(table)

Init ==
  /\ slots = EmptySlots
  /\ slotsGeneration = 0
  /\ graves = EmptyGraves
  /\ mainPc = "idle"
  /\ change = <<>>
  /\ reclaimed = {}
  /\ loads = 0
  /\ audioPc = "start"
  /\ read = 0
  /\ seen = 0
  /\ mine = EmptySlots
  /\ previous = EmptySlots
  /\ voices = EmptyVoices
  /\ nextSlot = 0
  /\ returns = EmptyGraves

(***************************************************************************)
(* Locks.  A thread holds a lock exactly in the states named here.  The    *)
(* audio thread's hold of the slots is a single step.                      *)
(***************************************************************************)
MainHoldsSlots == mainPc = "store"
MainHoldsGraves == mainPc = "take"
AudioHoldsGraves == audioPc = "move"

(***************************************************************************)
(* The main thread: PluginStateImpl::load                                  *)
(***************************************************************************)
\* graveyard.reclaim() takes the lock ...
BeginLoad ==
  /\ mainPc = "idle"
  /\ ~AudioHoldsGraves
  /\ mainPc' = "take"
  /\ UNCHANGED <<sharedVars, change, reclaimed, loads, audioVars>>

\* ... take_all() ...
TakeGraves ==
  /\ mainPc = "take"
  /\ reclaimed' = {graves[n] : n \in Taken(graves)}
  /\ graves' = EmptyGraves
  /\ mainPc' = "drop"
  /\ UNCHANGED <<slots, slotsGeneration, change, loads, audioVars>>

\* ... and drops the references once the lock is released.
DropReclaimed ==
  /\ mainPc = "drop"
  /\ reclaimed' = {}
  /\ mainPc' = "parse"
  /\ UNCHANGED <<sharedVars, change, loads, audioVars>>

\* The state cannot be read, spelled or decoded: nothing is changed.
LoadFails ==
  /\ mainPc = "parse"
  /\ mainPc' = "idle"
  /\ UNCHANGED <<sharedVars, change, reclaimed, loads, audioVars>>

\* StateRequest, as the slots to be set: all or one of them to nothing, or one
\* to a new buffer.
ClearAll == [s \in Slots |-> NoBuffer]
Clear(slot) == [s \in {slot} |-> NoBuffer]
Load(slot) == [s \in {slot} |-> loads + 1]

\* set_slot and clear_slots: the lock ...
LockSlots ==
  /\ mainPc = "parse"
  /\ slotsGeneration < MaxChanges
  /\ \/ /\ change' \in {ClearAll} \cup {Clear(s) : s \in Slots}
        /\ UNCHANGED loads
     \/ /\ change' \in {Load(s) : s \in Slots}
        /\ loads' = loads + 1
  /\ mainPc' = "store"
  /\ UNCHANGED <<sharedVars, reclaimed, audioVars>>

\* ... the change, with which the old buffer's reference goes ...
StoreSlots ==
  /\ mainPc = "store"
  /\ slots' = [s \in Slots |-> IF s \in DOMAIN change THEN change[s] ELSE slots[s]]
  /\ change' = <<>>
  /\ mainPc' = "bump"
  /\ UNCHANGED <<slotsGeneration, graves, reclaimed, loads, audioVars>>

\* Seeded fault: a slot that is cleared keeps the generation.
BumpForBuffers == slotsGeneration' = IF \A s \in Slots : slots[s] = NoBuffer
                                       THEN slotsGeneration ELSE slotsGeneration + 1

Bump == slotsGeneration' = slotsGeneration + 1

\* ... and, after the unlock, the generation.
BumpGeneration ==
  /\ mainPc = "bump"
  /\ Bump
  /\ mainPc' = "idle"
  /\ UNCHANGED <<slots, graves, change, reclaimed, loads, audioVars>>

\* Deactivation and a new activate(), on the main thread while no block is
\* processed: everything the audio thread had goes.
Reactivate ==
  /\ mainPc = "idle"
  /\ audioPc = "start"
  /\ seen' = 0
  /\ mine' = EmptySlots
  /\ voices' = EmptyVoices
  /\ nextSlot' = 0
  /\ returns' = EmptyGraves
  /\ UNCHANGED <<sharedVars, mainVars, audioPc, read, previous>>

(***************************************************************************)
(* The audio thread: process(), reset(), stop_processing()                 *)
(***************************************************************************)
\* BufferGraveyard::bury: with no place left the reference is dropped there
\* and then.  (It is counted, for diagnosis only.)
Buried(buffer) ==
  IF buffer = NoBuffer \/ Free(returns) = {} THEN returns
  ELSE [returns EXCEPT ![CHOOSE n \in Free(returns) : TRUE] = buffer]

\* refresh_slots reads the generation; only a new one makes it go on.
ReadGeneration ==
  /\ audioPc = "start"
  /\ read' = slotsGeneration
  /\ audioPc' = IF slotsGeneration = seen THEN "ports" ELSE "lock"
  /\ UNCHANGED <<sharedVars, mainVars, seen, mine, previous, returns, voiceVars>>

\* try_lock failed: the block goes on with the old slots.
SlotsAreBusy ==
  /\ audioPc = "lock"
  /\ MainHoldsSlots
  /\ audioPc' = "ports"
  /\ UNCHANGED <<sharedVars, mainVars, read, seen, mine, previous, returns, voiceVars>>

\* Seeded fault: the slots replaced are dropped.
ReplacedDropped == EmptySlots

\* The slots replaced, to be buried next.
Replaced == mine

RefreshSlots ==
  /\ audioPc = "lock"
  /\ ~MainHoldsSlots
  /\ mine' = slots
  /\ previous' = Replaced
  /\ seen' = read
  /\ audioPc' = "bury"
  /\ UNCHANGED <<sharedVars, mainVars, read, returns, voiceVars>>

\* bury_into
BuryPrevious ==
  /\ audioPc = "bury"
  /\ \/ \E s \in Taken(previous) :
          /\ returns' = Buried(previous[s])
          /\ previous' = [previous EXCEPT ![s] = NoBuffer]
          /\ UNCHANGED audioPc
     \/ /\ Taken(previous) = {}
        /\ audioPc' = "ports"
        /\ UNCHANGED <<returns, previous>>
  /\ UNCHANGED <<sharedVars, mainVars, read, seen, mine, voiceVars>>

\* An output port that is missing or of another format ends the block, and
\* with it the call, at once.
FindPorts ==
  /\ audioPc = "ports"
  /\ audioPc' \in {"events", "start"}
  /\ UNCHANGED <<sharedVars, mainVars, read, seen, mine, previous, returns, voiceVars>>

NextTurn == (nextSlot + 1) % MaxVoices

\* VoiceBank::note_on takes a free voice or, when there is none, the one whose
\* turn it is.
TakesVoice(v) ==
  \/ /\ Free(voices) # {}
     /\ v = CHOOSE u \in Free(voices) : \A w \in Free(voices) : u <= w
     /\ UNCHANGED nextSlot
  \/ /\ Free(voices) = {}
     /\ v = nextSlot
     /\ nextSlot' = NextTurn

\* A note whose slot is empty plays nothing.  Every note number selects a slot.
NoteOn ==
  /\ audioPc = "events"
  /\ \E s \in Taken(mine), v \in Voices :
       /\ TakesVoice(v)
       /\ returns' = Buried(voices[v])
       /\ voices' = [voices EXCEPT ![v] = mine[s]]
  /\ UNCHANGED <<sharedVars, mainVars, audioPc, read, seen, mine, previous>>

Silence(v) ==
  /\ returns' = Buried(voices[v])
  /\ voices' = [voices EXCEPT ![v] = NoBuffer]
  /\ UNCHANGED nextSlot

\* VoiceBank::advance, for a voice that has come to the end of its buffer.
EndVoice ==
  /\ audioPc = "events"
  /\ \E v \in Taken(voices) : Silence(v)
  /\ UNCHANGED <<sharedVars, mainVars, audioPc, read, seen, mine, previous>>

EndEvents ==
  /\ audioPc = "events"
  /\ audioPc' = "collect"
  /\ UNCHANGED <<sharedVars, mainVars, read, seen, mine, previous, returns, voiceVars>>

\* reset() and stop_processing() stop all voices, then collect.
BeginStop ==
  /\ audioPc = "start"
  /\ audioPc' = "stop"
  /\ UNCHANGED <<sharedVars, mainVars, read, seen, mine, previous, returns, voiceVars>>

StopVoices ==
  /\ audioPc = "stop"
  /\ \/ /\ \E v \in Taken(voices) : Silence(v)
        /\ UNCHANGED audioPc
     \/ /\ Taken(voices) = {}
        /\ audioPc' = "collect"
        /\ UNCHANGED <<returns, voiceVars>>
  /\ UNCHANGED <<sharedVars, mainVars, read, seen, mine, previous>>

\* SharedGraveyard::try_collect: nothing to do, or nothing done when the lock
\* is not to be had.
TryCollect ==
  /\ audioPc = "collect"
  /\ audioPc' = IF Taken(returns) = {} \/ MainHoldsGraves THEN "start" ELSE "move"
  /\ UNCHANGED <<sharedVars, mainVars, read, seen, mine, previous, returns, voiceVars>>

\* move_into ends early when the shared graveyard is full.
CanMove == Free(graves) # {}

MoveReturns ==
  /\ audioPc = "move"
  /\ \/ \E n \in Taken(returns) :
          /\ CanMove
          /\ graves' = [graves EXCEPT ![CHOOSE m \in Free(graves) : TRUE] = returns[n]]
          /\ returns' = [returns EXCEPT ![n] = NoBuffer]
          /\ UNCHANGED audioPc
     \/ /\ Taken(returns) = {} \/ ~CanMove
        /\ audioPc' = "start"
        /\ UNCHANGED <<graves, returns>>
  /\ UNCHANGED <<slots, slotsGeneration, mainVars, read, seen, mine, previous, voiceVars>>

-----------------------------------------------------------------------------
\* One call of PluginStateImpl::load, once begun.
LoadStep ==
  \/ TakeGraves
  \/ DropReclaimed
  \/ LoadFails
  \/ LockSlots
  \/ StoreSlots
  \/ BumpGeneration

\* What the host calls on the audio thread ...
ProcessStep ==
  \/ SlotsAreBusy
  \/ RefreshSlots
  \/ BuryPrevious
  \/ FindPorts
  \/ EndEvents
  \/ StopVoices
  \/ TryCollect
  \/ MoveReturns

AudioStep ==
  \/ ReadGeneration
  \/ BeginStop
  \/ NoteOn
  \/ EndVoice
  \/ ProcessStep

Next ==
  \/ BeginLoad
  \/ LoadStep
  \/ Reactivate
  \/ AudioStep

Spec == Init /\ [][Next]_vars

\* A call that has begun goes on.  The host processes one block after the
\* other, whatever else it calls between them.
Fairness ==
  /\ WF_vars(LoadStep)
  /\ WF_vars(ProcessStep)
  /\ WF_vars(EndEvents)
  /\ SF_vars(ReadGeneration)

FairSpec == Spec /\ Fairness

-----------------------------------------------------------------------------
(***************************************************************************)
(* Properties                                                              *)
(***************************************************************************)
Tables(entries) == [entries -> Nat]

CacheTypeOK ==
  /\ slots \in Tables(Slots) /\ mine \in Tables(Slots) /\ previous \in Tables(Slots)
  /\ graves \in Tables(Places) /\ returns \in Tables(Places)
  /\ voices \in Tables(Voices)
  /\ slotsGeneration \in Nat /\ read \in Nat /\ seen \in Nat /\ loads \in Nat
  /\ nextSlot \in Voices
  /\ reclaimed \subseteq Buffers
  /\ DOMAIN change \subseteq Slots /\ change \in Tables(DOMAIN change)
  /\ mainPc \in {"idle", "take", "drop", "parse", "store", "bump"}
  /\ audioPc \in {"start", "lock", "bury", "ports", "events", "stop", "collect", "move"}

\* An audio thread that has seen the current generation has the current slots,
\* except while the main thread is between the two stores: it never goes on
\* playing a part that was replaced in the belief to be up to date
\* (refresh_slots reads the generation before it tries the lock).
SeenSlotsAreCurrent ==
  seen = slotsGeneration /\ mainPc # "bump" => mine = slots

HoldsIn(table, buffer) == \E n \in DOMAIN table : table[n] = buffer

\* Some reference to the buffer exists.
Referenced(buffer) ==
  \/ HoldsIn(slots, buffer)
  \/ HoldsIn(mine, buffer)
  \/ HoldsIn(previous, buffer)
  \/ HoldsIn(voices, buffer)
  \/ HoldsIn(returns, buffer)
  \/ HoldsIn(graves, buffer)
  \/ HoldsIn(change, buffer)
  \/ buffer \in reclaimed

\* The audio thread never drops the last reference to a buffer, and so never
\* frees it, as long as its graveyard has a place left: not when it refreshes
\* its slots, when a voice ends, is taken over or stopped, nor when it hands
\* its graveyard on to one that is full.
AudioThreadFreesNothing ==
  [][AudioStep /\ Free(returns) # {} =>
       \A b \in 1 .. loads : Referenced(b) => Referenced(b)']_vars

\* The audio thread catches up with the slots of the main thread, cleared ones
\* included, though it never waits for their lock.
SlotsAreTakenOver == mine # slots ~> mine = slots
=============================================================================
