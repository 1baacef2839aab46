SPECIFICATION WatchSpec
CONSTANTS
  Calls = {c1, c2}
  Paths = {"a"}
  Bytes <- Mixed
  Size <- MixedSize
  MaxFileBytes = 5
  CheckpointEvery = 1
  NoRef = NoRef
  Gone = Gone
  MaxParallel = 2
  MaxWrites = 2
  MaxKills = 1
  SentinelPaths = {"p"}
  Debounce = 1
  AttributionWindow = 1
  MaxFileWrites = 3
  MaxSteps = 2
  MaxDropped = 1
  c1 = c1
  c2 = c2
  ClRoots = {"a"}
  Lives = {"l1", "l2"}
  Watches = {"w1"}
  Star = Star
  Nobody = Nobody
  MayForce = {"l2"}
  FreshPeriods = 2
  MaxLaunches = 3
  MaxCrashes = 1
SYMMETRY Alike
INVARIANTS
  NoStaleBaseline
  ExactWhenQuiet
  BlamedOnce
  SentinelRowsTrue
  SentinelCaughtUp
  SentinelFlushBound
PROPERTIES
  ClaimsHold
CHECK_DEADLOCK FALSE
