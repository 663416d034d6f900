SPECIFICATION FairSpec
CONSTANTS
  Tasks = {t1, t2, t3}
  Uuids = {1, 2, 3}
  NoUuid = NoUuid
  Backends = {"Memory", "Redis"}
  Limit = 1
  Duration = 1
  Second = 2
  Lag = 1
  MaxTime = 4
INVARIANTS WithinLimit
PROPERTIES RefusedOnlyWhenFull AcquireEnds
CHECK_DEADLOCK FALSE
