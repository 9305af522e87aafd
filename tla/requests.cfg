SPECIFICATION ScopeSpec
CONSTANTS
  MaxId = 5
  MaxSurface = 3
  MaxLives = 3
  Events = {"exit", "child", "input"}
  Failing = {"reseed", "load"}
INVARIANTS WellFormed NoOrphans ProcessesMatch Announced IdsFresh
PROPERTIES ShapeSurvives
CHECK_DEADLOCK FALSE
