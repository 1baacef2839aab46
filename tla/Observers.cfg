SPECIFICATION BenchSpec
CONSTANTS
  Operators = {"o1", "o2"}
  ModelCalls = {"k1", "k2"}
  Messages = {"m1"}
  NoMessage = NoMessage
  Sdk = Sdk
  MaxInFlight = 1
  MaxEvents = 9
  MaxOps = 3
  LiveRuns = {"r1"}
  LiveItems = {"step", "end"}
  MaxSession = 2
  LiveTicks = {"t1", "t2"}
  MaxRewinds = 1
  MaxStarts = 1
  MaxThrows = 1
  MaxRows = 1
  Step = s
  Drains = {d1, d2}
  Sentinels = {s1}
  Deltas <- CreateAndStub
  Observed <- SameChange
  ToolRows <- EditOfC
  MaxKills = 1
  d1 = d1
  d2 = d2
  s1 = s1
INVARIANTS
  EventsOnce
  LiveToldOnce
  UnlinkedMeansRecorded
  OneRowPerObservation
PROPERTIES
  LatestIsTold
  LiveAllTold
  EventuallyUnlinked
CHECK_DEADLOCK FALSE
