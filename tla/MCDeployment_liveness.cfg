CONSTANTS
  Server = {s1}
  Thread = {t1}
  Handler = {h1, h2}
  Detail = {d1}
  Env = {e1}
  Null = Null
  ApprovalEnv = {}
  MergeEnv = {}
  Ops = {"submit", "approve", "rollback", "delete", "abort"}
  Serialized = FALSE
  QueueCap = 1
  MaxTries = 1
  MaxFaults = 1
SPECIFICATION FairSpec
CHECK_DEADLOCK FALSE
INVARIANTS
  TypeOK
  BusyRowHasOwner
  RunningThreadsRegistered
PROPERTIES
  EveryDeploymentEnds
