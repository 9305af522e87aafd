SPECIFICATION MCSpec
CONSTANTS
  r1 = r1  r2 = r2  c1 = c1  c2 = c2
  Clients = {c1, c2}
  Rows = {r1, r2}
  Chunks <- AlarmChunk
  NoStall = NoStall
  AckWindow = 2
  SlowAfter = 1
  DisconnectAfter = 2
  OutCap = 8
  MaxWrites = 2
  MaxCalls = 2
  MaxTicks = 2
INVARIANTS NoFalseGap
PROPERTIES KeepsPromise Converges
CHECK_DEADLOCK FALSE
