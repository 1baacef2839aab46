SPECIFICATION Spec
CONSTANTS
  Ingesters = {p1}
  Keys = {k1, k2}
  ToolUses <- TwoEdits
  MaxUses = 1
  MaxRecords = 2
  RunIds = {r1}
  WatchPaths = {"a"}
  MaxLines = 4
  MaxWatch = 0
  MaxCrashes = 1
  SensitivePaths = {}
  k1 = k1
  k2 = k2
  p1 = p1
  r1 = r1
INVARIANTS
  CapturesEveryUse
CHECK_DEADLOCK FALSE
