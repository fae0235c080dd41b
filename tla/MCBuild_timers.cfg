CONSTANTS
  Server = {s1, s2}
  Request = {r1, r2, r3}
  Timer = {r3}
  App = {a1, a2}
  NodeApp = {}
  Null = Null
  Serialized = TRUE
  DeletesBuilding = FALSE
  MaxThreads = 1
  QueueCap = 0
  MaxFaults = 1
SYMMETRY Symmetry
SPECIFICATION Spec
CHECK_DEADLOCK FALSE
INVARIANTS
  TypeOK
  OneRowPerRequest
  AcceptedIsNotDropped
  ImageIsOwnCode
PROPERTIES
  AutoDeploysAfterBuild
