SPECIFICATION FairSpec
CONSTANTS
  TimerId = {t1, t2, t3}
  NoTimer = none
  MaxRuns = 3
  MaxQueue = 3
  Kinds <- AllKinds
  QueueSize = 2
  MaxTracked = 3
  MaxCalls = 3
  MaxStrays = 1
INVARIANTS
  OneTurnPerRun
  NothingVanishes
  SentOnce
  DestroyFlushes
PROPERTIES
  KeepsPolling
  ImplementsPeriodicTask
  DeclinedSendsOnlyRetained
