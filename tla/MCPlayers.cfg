\* Two instances and two timelines: enough for a command to be about another
\* instance or another timeline than the one before it.
CONSTANTS
  Instances = {i0, i1}
  Timelines = {t1, t2}
  None = None
  MaxGeneration = 4
  MaxPending = 3
  SlotCount = 2
  MaxVoices = 2
  Capacity = 2
  MaxChanges = 2
SPECIFICATION MCSpec
INVARIANTS
  QueueInv
  SeenSlotsAreCurrent
PROPERTIES
  OnlyTheseDropFrames
  AudioThreadFreesNothing
  SlotsAreTakenOver
