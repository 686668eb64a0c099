CONSTANTS
  p1 = p1
  p2 = p2
  Instances = {0, 1}
  BankOf <- MCBankOf
  BufferFrames = 2
  Times = {0, 1, 3}
  TooFar = 99
  Tempos = {1, 2}
  QueueLimit = 2
  MaxSegments = 2
  MaxClock = 4
  MaxSubmits = 4
  Levels <- MCLevels
  MinGain <- MCMinGain
  MaxGain = 1
  Attack = 2
  Release = 1
  MaxReduction = 2
  MaxBlocks = 2
  MaxReads = 2
  Lookahead = 3
  MaxPeak = 3
  NaN = 4
  MaxTaken = 7
  BlockFrames = 2
  LiveCapacity = 3
  MinimumFrames = 2
  OutputLimit = 4
  MaxRendered = 3
  MaxSilence = 1
  ChunkFrames = 2
  Multipliers = {1, 2}
  MaxMultiplier = 2
  MaxGeneration = 2
  MaxFrames = 6
  Processes <- MCProcesses
  Wavetables = wavetables
  Emptied = {}
  Linked = {other}
  Copied = {}
  MaxUpdates = 1
SPECIFICATION Spec
CHECK_DEADLOCK FALSE
INVARIANTS
  EventsKeepTheirTime
  BeatsAreTheIntegral
  MetricsAreOfOnePublication
  TrimLeavesWithTheSwitch
  OutputUnderCeiling
  RecordingsHaveNoGap
  FramesArriveInOrder
  SourceIsIntact
PROPERTIES
  PeaksAreReported
  AppliedTreeIsWhole
