CONSTANTS
  Timers = {t1, t2}
  None = None
  Intervals = {1, 2}
  MaxWait = 2
  MaxTime = 3
SPECIFICATION FairSpec
CHECK_DEADLOCK FALSE
INVARIANTS OnePlace NoOversleep
PROPERTIES CancelledSilent EveryTimerFires
