CONSTANTS
  Writers = {w1}
  Consumers = {c1, c2}
  None = None
  Size = 2
  MaxSeq = 3
  Producers = {p1, p2}
  MaxNodes = 5
  Values = {v1, v2}
  RingSize = 4
  Wrap = 8
  Feeders = {f1, f2}
  MaxSize = 1
  MaxInput = 4
  Clients = {k1, k2}
  MaxLines = 2
  MaxMods = 1
  MaxStarts = 3
  MaxDays = 2
  MaxTry = 2
  Lockers = {t1, t2, t3}
  MaxTimers = 3
  max_steps = 3
  Asked = {0, 2, 5}
  MaxTicks = 3
SPECIFICATION Spec
CHECK_DEADLOCK FALSE
INVARIANTS NodesLive InTransit TasksLive DayFiles OnTime LocksExclude
PROPERTIES QueueSteps Progress LinesLogged
