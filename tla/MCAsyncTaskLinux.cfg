CONSTANTS
  Clients = {c1}
  Loop = Loop
  None = None
  Excludes = FALSE
  MaxTasks = 2
  CanQuit = FALSE
SPECIFICATION FairSpec
CHECK_DEADLOCK FALSE
PROPERTIES EveryTaskRuns
