CONSTANTS
  w1 = w1
  w2 = w2
  r1 = r1
  r2 = r2
  Workers <- MCWorkers
  Renders <- MCRenders
  Plans <- MCPlans
  SerialId = "vap"
  KindCount = 3
  SlotCounts <- MCSlots
  SpareTarget = 1
  MaxOrders = 2
  dx = dx
  sfz = sfz
  sixsines = sixsines
  wav = wav
  Instances = {0}
  Patches <- MCPatches
  FormOf <- MCFormOf
  InitPatch = InitPatch
  DefaultForm = "cartridge"
  Unknown = Unknown
  Keys = {60}
  Chains = {reverb}
  NoChain = NoChain
  MaxFade = 2
  MaxDepth = 1
  MaxCommands = 4
SPECIFICATION Spec
CHECK_DEADLOCK FALSE
INVARIANTS
  PoolBounded
  CreationsAreApart
  NewLineSoundsInFull
  SoundingIsKnown
  LoadedPatchIsInPlace
  SentVoiceIsPlayed
PROPERTIES
  WaitEnds
