CONSTANTS
  Server = {s1, s2}
  MaxPeriod = 2
  MaxLate = 1
  MaxCrashes = 1
  MaxSlow = 1
SPECIFICATION FairSpec
CHECK_DEADLOCK FALSE
INVARIANTS
  OneCollectorPerPeriod
  KeptServersAreListed
PROPERTIES
  RegistryFollowsServers
