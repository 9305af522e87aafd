SPECIFICATION FairSpec
CONSTANTS
  c1 = c1  None = None
  Clients = {c1}
  EventCap = 1
  OutCap = 2
  MaxRev = 3
  MaxCalls = 2
  MaxLives = 2
INVARIANTS NothingMissed
PROPERTIES EventuallyTold
CHECK_DEADLOCK FALSE
