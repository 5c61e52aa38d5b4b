CONSTANTS
  Workers = {w1, w2}
  Clients = {c1}
  None = None
  MaxJobs = 2
  MaxPauses = 1
  CanDestroy = TRUE
SPECIFICATION FairSpec
CHECK_DEADLOCK FALSE
INVARIANTS PoolInv SemInv WaitsEnd OnlyUnlockLeft
PROPERTIES WaitSound EveryJobRuns LoneWaitReturns DestroyReturns
