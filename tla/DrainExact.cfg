SPECIFICATION FairSpec
CONSTANTS
  Calls = {c1, c2}
  Drainers = {d1, d2}
  Lead <- Alone
  Command <- Distinct
  MinAge = 2
  Ttl = 3
  Slack = 1
  MaxLag = 1
  NoStep = NoStep
  MaxTime = 6
  MaxKills = 1
  MaxFails = 1
  c1 = c1
  c2 = c2
  d1 = d1
  d2 = d2
INVARIANTS
  RecordAccounted
  RowsOnOwnStep
PROPERTIES
  EventuallyDrained
CHECK_DEADLOCK FALSE
