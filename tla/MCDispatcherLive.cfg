SPECIFICATION FairSpec
CONSTANTS
  None = None
  use = use
  Spawn = use
  Threads = {t1, t2}
  DomainIds = {d1, d2}
  Capabilities = {use}
  Hosts = {}
  MaxSpawnDepth = 1
  MaxGoals = 0
  MaxOps = 1
  Needs <- MCNeeds
PROPERTIES
  ViolationSealsTree
CHECK_DEADLOCK FALSE
