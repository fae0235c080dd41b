CONSTANTS
  Null = Null
  Viewer = {v1, v2}
  Thread = {t1, t2}
  MaxRecords = 2
SPECIFICATION FairSpec
CHECK_DEADLOCK FALSE
INVARIANTS
  NoRecordTwice
  WatcherMissesOnlyEarlyRecords
PROPERTIES
  ClosedSessionsAreForgotten
