CONSTANTS
  i0 = i0
  i1 = i1
  Instances <- MCInstances
  Timelines = {t1}
  None = None
  Banks <- MCBanks
  BankOf <- MCBankOf
  Crashable = {}
  Faulty <- MCInstances
  First = i0
  MaxSubmits = 1
  Offered = {"Play", "Midi"}

SPECIFICATION MCFairSpec

PROPERTY ShutdownEndsWorker
