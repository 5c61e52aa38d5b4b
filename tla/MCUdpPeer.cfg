CONSTANTS
  Peers = {a, b}
  Clients = {c1}
  MaxCalls = 1
  MaxIn = 2
  Chunks = 2
SPECIFICATION FairSpec
CHECK_DEADLOCK FALSE
INVARIANTS RefsCounted KnownFaults InterestAgrees
PROPERTIES DestroyFrees Heard
