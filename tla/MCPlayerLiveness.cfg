\* What the threads owe the clients, with banks that may die.
CONSTANTS
  i0 = i0
  i1 = i1
  Instances <- MCInstances
  Timelines = {t1}
  None = None
  Banks <- MCBanks
  BankOf <- MCBankOf
  Crashable = {0, 1}
  Faulty <- MCInstances
  First = i0
  MaxSubmits = 3
  Offered = {"Play", "StopAll", "BeginLiveTimeline", "PrepareLivePatch", "PrepareStandbyLivePatch"}

SPECIFICATION MCFairSpec

PROPERTIES
  TicketIsAnswered
  CallReturns

\* The player really stops after the drop; a thread that waits for ever shows as
\* a violated property here, and as a deadlock in the other runs.
CHECK_DEADLOCK FALSE
