-------------------------- MODULE CachePlayerProofs --------------------------
(***************************************************************************)
(* Theorems about CachePlayer for any number of slots and voices, any size *)
(* of the graveyards and any number of loads.                              *)
(***************************************************************************)
EXTENDS CachePlayer, TLAPS

-----------------------------------------------------------------------------
(***************************************************************************)
(* Tables                                                                  *)
(***************************************************************************)
\* A buried reference is somewhere in the graveyard of the audio thread, and
\* none that was there before is lost: a graveyard that has a place left keeps
\* everything.
LEMMA BuryingKeeps ==
  ASSUME returns \in Tables(Places), NEW buffer \in Nat
  PROVE  /\ Buried(buffer) \in Tables(Places)
         /\ \A b \in Buffers : HoldsIn(returns, b) => HoldsIn(Buried(buffer), b)
         /\ Free(returns) # {} /\ buffer # NoBuffer => HoldsIn(Buried(buffer), buffer)
<1>1. CASE buffer = NoBuffer \/ Free(returns) = {}
  BY <1>1 DEF Buried
<1>2. CASE buffer # NoBuffer /\ Free(returns) # {}
  <2> DEFINE place == CHOOSE n \in Free(returns) : TRUE
  <2>1. place \in Places /\ returns[place] = NoBuffer
    BY <1>2 DEF Free, Taken, Tables
  <2>2. Buried(buffer) = [returns EXCEPT ![place] = buffer]
    BY <1>2 DEF Buried
  <2> QED
    BY <2>1, <2>2 DEF Tables, HoldsIn, Buffers
<1> QED
  BY <1>1, <1>2

\* A reference that is moved to a free place of the shared graveyard is there,
\* and nothing of the shared graveyard is overwritten.
LEMMA MovingKeeps ==
  ASSUME graves \in Tables(Places), returns \in Tables(Places), CanMove,
         NEW n \in Taken(returns)
  PROVE  LET to == [graves EXCEPT ![CHOOSE m \in Free(graves) : TRUE] = returns[n]]
             from == [returns EXCEPT ![n] = NoBuffer]
         IN  /\ to \in Tables(Places) /\ from \in Tables(Places)
             /\ \A b \in Buffers : HoldsIn(graves, b) => HoldsIn(to, b)
             /\ \A b \in Buffers : HoldsIn(returns, b) => HoldsIn(from, b) \/ HoldsIn(to, b)
<1> DEFINE place == CHOOSE m \in Free(graves) : TRUE
<1>1. place \in Places /\ graves[place] = NoBuffer
  BY DEF CanMove, Free, Taken, Tables
<1>2. n \in Places /\ returns[n] \in Nat
  BY DEF Taken, Tables
<1> QED
  BY <1>1, <1>2 DEF Tables, HoldsIn, Buffers, NoBuffer

-----------------------------------------------------------------------------
(***************************************************************************)
(* Types                                                                   *)
(***************************************************************************)
LEMMA TurnIsAVoice ==
  ASSUME nextSlot \in Voices
  PROVE  NextTurn \in Voices
BY SizeAssumption DEF NextTurn, Voices

LEMMA NoteTakesAVoice ==
  ASSUME nextSlot \in Voices, NEW v \in Voices, TakesVoice(v)
  PROVE  nextSlot' \in Voices
BY TurnIsAVoice DEF TakesVoice

\* The type invariant of the plugin.
THEOREM CacheTypeCorrect == Spec => []CacheTypeOK
<1>1. Init => CacheTypeOK
  BY SizeAssumption DEF Init, CacheTypeOK, Tables, EmptySlots, EmptyGraves, EmptyVoices,
     NoBuffer, Buffers, Voices, Slots, Places
<1>2. CacheTypeOK /\ [Next]_vars => CacheTypeOK'
  <2> SUFFICES ASSUME CacheTypeOK, [Next]_vars
               PROVE  CacheTypeOK'
    OBVIOUS
  <2> USE DEF CacheTypeOK, sharedVars, mainVars, audioVars, voiceVars
  <2>1. CASE BeginLoad
    BY <2>1 DEF BeginLoad
  <2>2. CASE TakeGraves
    BY <2>2 DEF TakeGraves, EmptyGraves, Taken, Tables, Buffers, NoBuffer
  <2>3. CASE DropReclaimed
    BY <2>3 DEF DropReclaimed
  <2>4. CASE LoadFails
    BY <2>4 DEF LoadFails
  <2>5. CASE LockSlots
    <3> DEFINE Change(c) == DOMAIN c \subseteq Slots /\ c \in Tables(DOMAIN c)
    <3>1. Change(ClearAll)
      BY DEF ClearAll, Tables, NoBuffer
    <3>2. \A s \in Slots : Change(Clear(s)) /\ Change(Load(s))
      BY DEF Clear, Load, Tables, NoBuffer
    <3>3. Change(change') /\ loads' \in Nat
      <4> HIDE DEF Change
      <4> QED
        BY <2>5, <3>1, <3>2 DEF LockSlots
    <3> QED
      BY <2>5, <3>3 DEF LockSlots
  <2>6. CASE StoreSlots
    BY <2>6 DEF StoreSlots, Tables
  <2>7. CASE BumpGeneration
    BY <2>7 DEF BumpGeneration, Bump
  <2>8. CASE Reactivate
    BY <2>8, SizeAssumption DEF Reactivate, EmptySlots, EmptyGraves, EmptyVoices, Tables, NoBuffer, Voices
  <2>9. CASE ReadGeneration
    BY <2>9 DEF ReadGeneration
  <2>10. CASE SlotsAreBusy
    BY <2>10 DEF SlotsAreBusy
  <2>11. CASE RefreshSlots
    BY <2>11 DEF RefreshSlots, Replaced
  <2>12. CASE BuryPrevious
    <3>1. CASE \E s \in Taken(previous) :
                 /\ returns' = Buried(previous[s])
                 /\ previous' = [previous EXCEPT ![s] = NoBuffer]
                 /\ UNCHANGED audioPc
      <4>1. PICK s \in Taken(previous) :
              /\ returns' = Buried(previous[s])
              /\ previous' = [previous EXCEPT ![s] = NoBuffer]
              /\ UNCHANGED audioPc
        BY <3>1
      <4>2. returns' \in Tables(Places) /\ previous' \in Tables(Slots)
        BY <4>1, BuryingKeeps DEF Taken, Tables, NoBuffer
      <4> QED
        BY <2>12, <4>1, <4>2 DEF BuryPrevious
    <3>2. CASE audioPc' = "ports" /\ UNCHANGED <<returns, previous>>
      BY <2>12, <3>2 DEF BuryPrevious
    <3> QED
      BY <2>12, <3>1, <3>2 DEF BuryPrevious
  <2>13. CASE FindPorts
    BY <2>13 DEF FindPorts
  <2>14. CASE NoteOn
    <3>1. PICK s \in Taken(mine), v \in Voices :
            /\ TakesVoice(v)
            /\ returns' = Buried(voices[v])
            /\ voices' = [voices EXCEPT ![v] = mine[s]]
      BY <2>14 DEF NoteOn
    <3>2. returns' \in Tables(Places)
      BY <3>1, BuryingKeeps DEF Tables
    <3>3. voices' \in Tables(Voices)
      BY <3>1 DEF Taken, Tables
    <3>4. nextSlot' \in Voices
      BY <3>1, NoteTakesAVoice
    <3> QED
      BY <2>14, <3>2, <3>3, <3>4 DEF NoteOn
  <2>15. ASSUME NEW v \in Taken(voices), Silence(v)
         PROVE  /\ returns' \in Tables(Places) /\ voices' \in Tables(Voices)
                /\ nextSlot' \in Voices
    BY <2>15, BuryingKeeps DEF Silence, Taken, Tables, NoBuffer
  <2>16. CASE EndVoice
    BY <2>15, <2>16 DEF EndVoice
  <2>17. CASE EndEvents
    BY <2>17 DEF EndEvents
  <2>18. CASE BeginStop
    BY <2>18 DEF BeginStop
  <2>19. CASE StopVoices
    BY <2>15, <2>19 DEF StopVoices
  <2>20. CASE TryCollect
    BY <2>20 DEF TryCollect
  <2>21. CASE MoveReturns
    BY <2>21, MovingKeeps DEF MoveReturns
  <2>22. CASE UNCHANGED vars
    BY <2>22 DEF vars
  <2> QED
    BY <2>1, <2>2, <2>3, <2>4, <2>5, <2>6, <2>7, <2>8, <2>9, <2>10, <2>11, <2>12, <2>13,
       <2>14, <2>16, <2>17, <2>18, <2>19, <2>20, <2>21, <2>22
       DEF Next, LoadStep, AudioStep, ProcessStep
<1> QED
  BY <1>1, <1>2, PTL DEF Spec

-----------------------------------------------------------------------------
(***************************************************************************)
(* The slots the audio thread has seen                                     *)
(***************************************************************************)
\* SeenSlotsAreCurrent is inductive with the bounds of the generations read
\* and, for a new activation, with what generation 0 means.
SeenInv ==
  /\ SeenSlotsAreCurrent
  /\ read <= slotsGeneration
  /\ seen <= slotsGeneration
  /\ slotsGeneration = 0 /\ mainPc # "bump" => slots = EmptySlots

\* The audio thread never takes replaced slots for the current ones, whatever
\* the order of its reads and the main thread's writes.
THEOREM SeenSlotsAreCurrentCorrect == Spec => []SeenSlotsAreCurrent
<1>1. Init => SeenInv
  BY DEF Init, SeenInv, SeenSlotsAreCurrent
<1>2. CacheTypeOK /\ SeenInv /\ [Next]_vars => SeenInv'
  <2> SUFFICES ASSUME CacheTypeOK, SeenInv, [Next]_vars
               PROVE  SeenInv'
    OBVIOUS
  <2>t. slotsGeneration \in Nat /\ read \in Nat /\ seen \in Nat
    BY DEF CacheTypeOK
  <2> USE DEF SeenInv, SeenSlotsAreCurrent
  <2>1. CASE BeginLoad \/ TakeGraves \/ DropReclaimed \/ LoadFails \/ LockSlots
    BY <2>1 DEF BeginLoad, TakeGraves, DropReclaimed, LoadFails, LockSlots, sharedVars, audioVars
  <2>2. CASE StoreSlots
    BY <2>2 DEF StoreSlots, audioVars
  <2>3. CASE BumpGeneration
    BY <2>3, <2>t DEF BumpGeneration, Bump, audioVars
  <2>4. CASE Reactivate
    BY <2>4, <2>t DEF Reactivate, sharedVars, mainVars
  <2>5. CASE ReadGeneration
    BY <2>5, <2>t DEF ReadGeneration, sharedVars, mainVars
  <2>6. CASE RefreshSlots
    BY <2>6, <2>t DEF RefreshSlots, sharedVars, mainVars
  <2>7. CASE \/ SlotsAreBusy \/ BuryPrevious \/ FindPorts \/ EndEvents
             \/ StopVoices \/ TryCollect \/ BeginStop \/ NoteOn \/ EndVoice
    BY <2>7 DEF SlotsAreBusy, BuryPrevious, FindPorts, EndEvents, StopVoices, TryCollect,
       BeginStop, NoteOn, EndVoice, sharedVars, mainVars
  <2>8. CASE MoveReturns
    BY <2>8 DEF MoveReturns, mainVars
  <2>9. CASE UNCHANGED vars
    BY <2>9 DEF vars, sharedVars, mainVars, audioVars
  <2> QED
    BY <2>1, <2>2, <2>3, <2>4, <2>5, <2>6, <2>7, <2>8, <2>9
       DEF Next, LoadStep, AudioStep, ProcessStep
<1>3. SeenInv => SeenSlotsAreCurrent
  BY DEF SeenInv
<1> QED
  BY <1>1, <1>2, <1>3, CacheTypeCorrect, PTL DEF Spec

-----------------------------------------------------------------------------
(***************************************************************************)
(* What the audio thread drops                                             *)
(***************************************************************************)
\* The slots a refresh replaced are buried before anything else happens: a
\* second refresh cannot overwrite them.
PreviousIsBuried == audioPc # "bury" => previous = EmptySlots

LEMMA PreviousIsBuriedCorrect == Spec => []PreviousIsBuried
<1>1. Init => PreviousIsBuried
  BY DEF Init, PreviousIsBuried
<1>2. CacheTypeOK /\ PreviousIsBuried /\ [Next]_vars => PreviousIsBuried'
  <2> SUFFICES ASSUME CacheTypeOK, PreviousIsBuried, [Next]_vars
               PROVE  PreviousIsBuried'
    OBVIOUS
  <2> USE DEF PreviousIsBuried
  <2>1. CASE BeginLoad \/ LoadStep
    BY <2>1 DEF BeginLoad, LoadStep, TakeGraves, DropReclaimed, LoadFails, LockSlots,
       StoreSlots, BumpGeneration, audioVars
  <2>2. CASE Reactivate
    BY <2>2 DEF Reactivate
  <2>3. CASE BuryPrevious
    BY <2>3 DEF BuryPrevious, CacheTypeOK, Tables, Taken, EmptySlots
  <2>4. CASE \/ ReadGeneration \/ BeginStop \/ NoteOn \/ EndVoice \/ SlotsAreBusy
             \/ RefreshSlots \/ FindPorts \/ EndEvents \/ StopVoices \/ TryCollect
             \/ MoveReturns
    BY <2>4 DEF ReadGeneration, BeginStop, NoteOn, EndVoice, SlotsAreBusy, RefreshSlots,
       FindPorts, EndEvents, StopVoices, TryCollect, MoveReturns
  <2>5. CASE UNCHANGED vars
    BY <2>5 DEF vars, audioVars
  <2> QED
    BY <2>1, <2>2, <2>3, <2>4, <2>5 DEF Next, AudioStep, ProcessStep
<1> QED
  BY <1>1, <1>2, CacheTypeCorrect, PTL DEF Spec
\* The steps of the audio thread that touch no table.
QuietStep ==
  \/ ReadGeneration \/ BeginStop \/ SlotsAreBusy \/ FindPorts \/ EndEvents \/ TryCollect

\* What a voice plays is buried when the voice ends.
LEMMA SilencingKeeps ==
  ASSUME CacheTypeOK, Free(returns) # {}, NEW v \in Voices, NEW b \in Buffers,
         NEW buffer \in Nat,
         returns' = Buried(voices[v]), voices' = [voices EXCEPT ![v] = buffer],
         HoldsIn(voices, b) \/ HoldsIn(returns, b)
  PROVE  HoldsIn(voices', b) \/ HoldsIn(returns', b)
<1>1. voices \in Tables(Voices) /\ returns \in Tables(Places) /\ voices[v] \in Nat
  BY DEF CacheTypeOK, Tables
<1>2. CASE HoldsIn(returns, b)
  BY <1>1, <1>2, BuryingKeeps
<1>3. CASE HoldsIn(voices, b)
  <2>1. PICK w \in Voices : voices[w] = b
    BY <1>1, <1>3 DEF HoldsIn, Tables
  <2>2. CASE w = v
    BY <1>1, <2>1, <2>2, BuryingKeeps DEF Buffers
  <2>3. CASE w # v
    BY <1>1, <2>1, <2>3 DEF HoldsIn, Tables
  <2> QED
    BY <2>2, <2>3
<1> QED
  BY <1>2, <1>3

\* No step of the audio thread loses the last reference to a buffer while its
\* graveyard has a place left.
LEMMA AudioStepKeepsReferences ==
  ASSUME CacheTypeOK, PreviousIsBuried, AudioStep, Free(returns) # {},
         NEW b \in Buffers, Referenced(b)
  PROVE  Referenced(b)'
<1> USE DEF Referenced
<1>t. /\ mine \in Tables(Slots) /\ previous \in Tables(Slots) /\ slots \in Tables(Slots)
      /\ voices \in Tables(Voices)
      /\ returns \in Tables(Places) /\ graves \in Tables(Places)
  BY DEF CacheTypeOK
<1>1. CASE QuietStep
  BY <1>1 DEF QuietStep, ReadGeneration, BeginStop, SlotsAreBusy, FindPorts, EndEvents,
     TryCollect, sharedVars, mainVars, voiceVars, HoldsIn
<1>2. CASE RefreshSlots
  <2>1. /\ mine' = slots /\ previous' = mine
        /\ UNCHANGED <<slots, graves, change, reclaimed, voices, returns>>
    BY <1>2 DEF RefreshSlots, Replaced, sharedVars, mainVars, voiceVars
  <2>2. ~HoldsIn(previous, b)
    BY <1>2 DEF RefreshSlots, PreviousIsBuried, EmptySlots, HoldsIn, Buffers
  <2> QED
    BY <2>1, <2>2 DEF HoldsIn
<1>3. CASE BuryPrevious
  <2>1. UNCHANGED <<slots, mine, graves, change, reclaimed, voices>>
    BY <1>3 DEF BuryPrevious, sharedVars, mainVars, voiceVars
  <2>2. CASE UNCHANGED <<returns, previous>>
    BY <2>1, <2>2 DEF HoldsIn
  <2>3. CASE \E s \in Taken(previous) :
               /\ returns' = Buried(previous[s])
               /\ previous' = [previous EXCEPT ![s] = NoBuffer]
    <3>1. PICK s \in Taken(previous) :
            /\ returns' = Buried(previous[s])
            /\ previous' = [previous EXCEPT ![s] = NoBuffer]
      BY <2>3
    <3>2. s \in Slots /\ previous[s] \in Nat /\ previous[s] # NoBuffer
      BY <1>t DEF Taken, Tables
    <3>3. HoldsIn(returns, b) => HoldsIn(returns', b)
      BY <1>t, <3>1, <3>2, BuryingKeeps
    <3>4. HoldsIn(previous, b) => HoldsIn(previous', b) \/ HoldsIn(returns', b)
      <4>1. SUFFICES ASSUME NEW r \in Slots, previous[r] = b
                     PROVE  HoldsIn(previous', b) \/ HoldsIn(returns', b)
        BY <1>t DEF HoldsIn, Tables
      <4>2. CASE r = s
        BY <1>t, <3>1, <3>2, <4>1, <4>2, BuryingKeeps
      <4>3. CASE r # s
        BY <1>t, <3>1, <3>2, <4>1, <4>3 DEF HoldsIn, Tables
      <4> QED
        BY <4>2, <4>3
    <3> QED
      BY <2>1, <3>3, <3>4 DEF HoldsIn
  <2> QED
    BY <1>3, <2>2, <2>3 DEF BuryPrevious
<1>4. CASE NoteOn
  <2>1. UNCHANGED <<slots, mine, previous, graves, change, reclaimed>>
    BY <1>4 DEF NoteOn, sharedVars, mainVars
  <2>2. PICK s \in Taken(mine), v \in Voices :
          /\ returns' = Buried(voices[v])
          /\ voices' = [voices EXCEPT ![v] = mine[s]]
    BY <1>4 DEF NoteOn
  <2>3. mine[s] \in Nat
    BY <1>t DEF Taken, Tables
  <2>4. HoldsIn(voices, b) \/ HoldsIn(returns, b) => HoldsIn(voices', b) \/ HoldsIn(returns', b)
    BY <2>2, <2>3, SilencingKeeps
  <2> QED
    BY <2>1, <2>4 DEF HoldsIn
<1>5. CASE EndVoice \/ StopVoices
  <2>1. UNCHANGED <<slots, mine, previous, graves, change, reclaimed>>
    BY <1>5 DEF EndVoice, StopVoices, sharedVars, mainVars
  <2>2. CASE UNCHANGED <<returns, voices>>
    BY <2>1, <2>2 DEF HoldsIn
  <2>3. CASE \E v \in Taken(voices) : Silence(v)
    <3>1. PICK v \in Voices :
            /\ returns' = Buried(voices[v])
            /\ voices' = [voices EXCEPT ![v] = NoBuffer]
      BY <1>t, <2>3 DEF Silence, Taken, Tables
    <3>2. NoBuffer \in Nat
      BY DEF NoBuffer
    <3>3. HoldsIn(voices, b) \/ HoldsIn(returns, b) => HoldsIn(voices', b) \/ HoldsIn(returns', b)
      BY <3>1, <3>2, SilencingKeeps
    <3> QED
      BY <2>1, <3>3 DEF HoldsIn
  <2> QED
    BY <1>5, <2>2, <2>3 DEF EndVoice, StopVoices, voiceVars
<1>6. CASE MoveReturns
  <2>1. UNCHANGED <<slots, mine, previous, voices, change, reclaimed>>
    BY <1>6 DEF MoveReturns, mainVars, voiceVars
  <2>2. CASE UNCHANGED <<graves, returns>>
    BY <2>1, <2>2 DEF HoldsIn
  <2>3. CASE \E n \in Taken(returns) :
               /\ CanMove
               /\ graves' = [graves EXCEPT ![CHOOSE m \in Free(graves) : TRUE] = returns[n]]
               /\ returns' = [returns EXCEPT ![n] = NoBuffer]
    <3>1. /\ HoldsIn(graves, b) => HoldsIn(graves', b)
          /\ HoldsIn(returns, b) => HoldsIn(returns', b) \/ HoldsIn(graves', b)
      BY <1>t, <2>3, MovingKeeps
    <3> QED
      BY <2>1, <3>1 DEF HoldsIn
  <2> QED
    BY <1>6, <2>2, <2>3 DEF MoveReturns
<1> QED
  BY <1>1, <1>2, <1>3, <1>4, <1>5, <1>6 DEF AudioStep, ProcessStep, QuietStep

\* The audio thread frees no buffer while its graveyard has a place left.
THEOREM AudioThreadFreesNothingCorrect == Spec => AudioThreadFreesNothing
<1>1. CacheTypeOK /\ PreviousIsBuried /\ [Next]_vars
        => [AudioStep /\ Free(returns) # {} =>
              \A b \in 1 .. loads : Referenced(b) => Referenced(b)']_vars
  <2>1. CacheTypeOK => 1 .. loads \subseteq Buffers
    BY DEF CacheTypeOK, Buffers, NoBuffer
  <2> QED
    BY <2>1, AudioStepKeepsReferences
<1> QED
  BY <1>1, CacheTypeCorrect, PreviousIsBuriedCorrect, PTL DEF Spec, AudioThreadFreesNothing
=============================================================================
