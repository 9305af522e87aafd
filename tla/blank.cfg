SPECIFICATION Spec
CONSTANTS
  Parts = {"scroll"}
  Attempts = 5 Requests = 6 Failures = 2 Clicks = 1 Quits = 1
  Surface = {s1, s2} View = {v1, v2} Incidents = 2 QueueCap = 4 Blinks = TRUE
  TreeSurfaces = {1, 2, 3, 4} Ratios = {50, 700}
  Heights = {2} MaxHistory = 3 Cap = 3 Page = 4 Outputs = 3 Moves = 2 Breaks = 0 WireCap = 2
  Room = 1 Depth = 2 Unasked = 3 Queries = {1, 2} MaxTyped = 3
  MaxHosted = 2 Tempers = {"plain", "stubborn", "parent"}
  Items = {"magic", "junk", "hello", "attach", "detach", "cut", "huge", "greeting", "request", "endless",
           "input", "flat", "fetch", "ack", "view"}
  Rare = {"junk", "huge", "input", "flat", "fetch", "ack", "view"} MaxItems = 4 MaxFrame = 3 MaxLine = 3 Compact = 1
  Width = 2 Height = 2 MaxCoord = 1 MaxLines = 1 MaxEvents = 3
  ScreenLines = 3 ScreenCols = 3 Columns = 4
  StyleCap = 3 MaxWrites = 2 MaxCalls = 1
  MaxTabs = 3 MaxPanes = 4 MaxEdits = 1 MaxActs = 2
  Damaged = Damaged Providers = {"auto", "zen"} MaxZoom = 2 Level = 1 MaxChoices = 2 MaxRuns = 2 MaxTroubles = 1
  MaxCommands = 3 MaxSwitches = 3
  Daemon = {d1, d2} Client = {c1, c2} Nobody = Nobody
  MaxChanges = 1 MaxStops = 2 Stopping = {"trigger", "crash"} DiskFails = TRUE
PROPERTY Filled
CHECK_DEADLOCK FALSE
