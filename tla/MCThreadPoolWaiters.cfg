CONSTANTS
  Workers = {w1}
  Clients = {c1, c2}
  None = None
  MaxJobs = 1
  MaxPauses = 0
  CanDestroy = FALSE
SPECIFICATION FairSpec
PROPERTIES WaitReturns
