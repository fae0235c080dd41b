CONSTANTS
  Server = {s1}
  Thread = {t1}
  Handler = {h1, h2}
  Detail = {d1, d2}
  Env = {e1}
  Null = Null
  ApprovalEnv = {}
  MergeEnv = {}
  Ops = {"submit"}
  Serialized = FALSE
  QueueCap = 1
  MaxTries = 1
  MaxFaults = 0
SPECIFICATION Spec
CHECK_DEADLOCK FALSE
INVARIANTS
  EnvExclusive
