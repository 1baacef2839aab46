SPECIFICATION Spec
CONSTANTS
  Ingesters = {p1}
  Keys = {k1, k2}
  ToolUses <- Edits
  MaxUses = 1
  MaxRecords = 1
  RunIds = {r1}
  WatchPaths = {"a"}
  MaxLines = 3
  MaxWatch = 1
  MaxCrashes = 1
  SensitivePaths = {}
  k1 = k1
  k2 = k2
  p1 = p1
  r1 = r1
INVARIANTS
  CapturesEveryUse
PROPERTIES
  WatchRowsSurvive
  MirrorsTranscript
  EventuallyIngested
CHECK_DEADLOCK FALSE
