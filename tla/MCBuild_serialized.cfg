CONSTANTS
  Server = {s1, s2}
  Request = {r1, r2}
  Timer = {}
  App = {a1, a2}
  NodeApp = {a2}
  Null = Null
  Serialized = TRUE
  DeletesBuilding = FALSE
  MaxThreads = 1
  QueueCap = 1
  MaxFaults = 1
SPECIFICATION FairSpec
CHECK_DEADLOCK FALSE
INVARIANTS
  OneBuildUnlessUnknown
  BuildRowHasOwner
  SuccessHasImageUnlessNode
PROPERTIES
  EveryBuildEnds
  EveryRequestAnswered
