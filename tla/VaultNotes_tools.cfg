SPECIFICATION Spec
CONSTANTS
  t1 = t1
  t2 = t2
  Tool <- MCTool
  Source <- MCSource
  Line <- MCLine
  Memory0 <- MCMemory0
  KeepLines = 2
  Group <- MCGroup
  Period <- MCPeriod
  Recent = 1
  LastDay = 2
  MaxNotes = 1
  MaxLines = 1
  MaxRuns = 2
  MaxCrashes = 1
SYMMETRY Symmetry
INVARIANTS
  MigratedOnce
  LinesArrive
  DigestsTrue
  MapLinksExist
PROPERTIES
  DigestsGrow
CHECK_DEADLOCK FALSE
