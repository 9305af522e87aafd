SPECIFICATION SlowSpec
CONSTANTS
  r1 = r1  r2 = r2  c1 = c1
  Clients = {c1}
  Rows = {r1, r2}
  Chunks <- ContentChunks
  NoStall = NoStall
  AckWindow = 2
  SlowAfter = 2
  DisconnectAfter = 4
  OutCap = 1
  MaxWrites = 2
  MaxCalls = 2
  MaxTicks = 4
INVARIANTS TypeOK Coherent Consistent Quiescent LossShows NeverStarved SubscriptionOrder
CHECK_DEADLOCK FALSE
