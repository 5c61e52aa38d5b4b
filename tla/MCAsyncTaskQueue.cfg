CONSTANTS
  Clients = {c1, c2}
  Loop = Loop
  None = None
  Excludes = TRUE
  MaxTasks = 3
  CanQuit = TRUE
SPECIFICATION FairSpec
CHECK_DEADLOCK FALSE
INVARIANTS QueueInv NoLostWakeup
PROPERTIES EveryTaskRuns QuitEnds
