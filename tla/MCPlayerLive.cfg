\* Longer histories of a live with timelines and standby preloads.
CONSTANTS
  i0 = i0
  i1 = i1
  Instances <- MCInstances
  Timelines = {t1, t2}
  None = None
  Banks <- MCBanks
  BankOf <- MCBankOf
  Crashable = {}
  Faulty = {}
  First = i0
  MaxSubmits = 4
  Offered = {"Play", "StopAll", "Midi", "BeginLiveTimeline", "TimelineMidi", "PrepareStandbyLivePatch"}

SPECIFICATION MCSpec

INVARIANTS
  NoStaleNote
  TimelineEventsReachTheirTimeline
