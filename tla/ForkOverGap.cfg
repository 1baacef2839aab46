SPECIFICATION ForkSpec
CONSTANTS
  FkOrigins <- GappedOrigins
  FkEdits = {"system", "user", "inject", "other"}
  FkReplies <- CallsAndSays
  FkResults = {"r2"}
  NoResult = NoResult
  NoParent = NoParent
  MaxIterations = 2
  MaxOriginSteps = 2
INVARIANTS
  ForkPointKept
CHECK_DEADLOCK FALSE
