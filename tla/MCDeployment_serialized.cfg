CONSTANTS
  Server = {s1, s2}
  Thread = {t1, t2}
  Handler = {h1, h2}
  Detail = {d1, d2}
  Env = {e1, e2}
  Null = Null
  ApprovalEnv = {e1}
  MergeEnv = {e2}
  Ops = {"submit", "approve", "rollback"}
  Serialized = TRUE
  QueueCap = 1
  MaxTries = 1
  MaxFaults = 1
SYMMETRY Symmetry
SPECIFICATION Spec
CHECK_DEADLOCK FALSE
INVARIANTS
  EnvExclusive
  OneTaskPerEnv
  RolloutIsOwn
  WaitingRowHasNoTask
PROPERTIES
  ReservesEnv
  SuccessHasPods
  FollowsLifeCycle
