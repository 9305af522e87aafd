SPECIFICATION Spec
CONSTANTS
  Daemon = {d1, d2, d3}
  Client = {c1, c2}
  d1 = d1
  d2 = d2
  d3 = d3
  c1 = c1
  c2 = c2
  None = None
  MaxChanges = 3
  MaxStops = 3
  Stopping = {"trigger", "crash"}
  DiskFails = TRUE
SYMMETRY Alike
INVARIANTS TypeOK SocketMine AckedSurvives
PROPERTY FileOnlyGrows
CHECK_DEADLOCK FALSE
