\* Every command, and banks that may die.
CONSTANTS
  i0 = i0
  i1 = i1
  Instances <- MCInstances
  Timelines = {t1}
  None = None
  Banks <- MCBanks
  BankOf <- MCBankOf
  Crashable = {0, 1}
  Faulty <- MCInstances
  First = i0
  MaxSubmits = 3
  Offered <- Ops

SPECIFICATION MCSpec

INVARIANTS
  OneRequestPerBank
  StandbyReplyIsItsOwn
  WorkerCatchesUp

PROPERTY PreloadSpec
