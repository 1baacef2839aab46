SPECIFICATION Spec
CONSTANTS
  MaxPgWork = 2
  MaxPgSyncs = 1
  PgLimit = 2
INVARIANTS
  SyncGoesThrough
CHECK_DEADLOCK FALSE
