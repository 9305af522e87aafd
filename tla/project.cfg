SPECIFICATION FairSpec
CONSTANTS
  c1 = c1  None = None
  Clients = {c1}
  EventCap = 4
  OutCap = 3
  MaxRev = 2
  MaxCalls = 1
  MaxLives = 1
PROPERTIES ProjectionsConverge
CHECK_DEADLOCK FALSE
