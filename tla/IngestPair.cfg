SPECIFICATION Spec
CONSTANTS
  Ingesters = {p1, p2}
  Keys = {k1, k2}
  ToolUses <- OneShell
  MaxUses = 1
  MaxRecords = 1
  RunIds = {r1, r2}
  WatchPaths = {"a"}
  MaxLines = 3
  MaxWatch = 0
  MaxCrashes = 0
  SensitivePaths = {}
  k1 = k1
  k2 = k2
  p1 = p1
  p2 = p2
  r1 = r1
  r2 = r2
INVARIANTS
  
  SomeRunComplete
CHECK_DEADLOCK FALSE
