CONSTANTS
  w1 = w1
  w2 = w2
  c1 = c1
  c2 = c2
  c3 = c3
  Pool <- MCPool
  Clients <- MCClients
  RequestsSent <- MCRequests
  Rate = 1
  Scale = 2
  TailFrames = 2
  DefaultTempo = 2
  DefaultMeter = 4
  MaxSegments = 2
  BufferFrames = 2
  Plugins <- MCPlugins
  Latency <- MCLatency
  SlowPlugin = "tone"
  Measured = "surge"
  MaxProbes = 2
  Jobs <- MCJobs
  Builtin <- MCBuiltin
  NameOrder <- MCNameOrder
  Normal <- MCNormal
  Configs <- MCConfigs
  FormOfId <- MCFormOfId
  FormOfStem <- MCFormOfStem
  OwnDirs <- MCOwnDirs
  Extension <- MCSuffixes
  PatchFiles <- MCPatchFiles
  Directories <- MCDirectories
  RootOrder <- MCRootOrder
  UserRoot <- MCUserRoot
  Manifests <- MCManifests
  MaxChanges = 3
SPECIFICATION Spec
CHECK_DEADLOCK FALSE
INVARIANT
  DroppedSegmentsAreOver
