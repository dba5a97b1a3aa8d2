SPECIFICATION Spec
CONSTANTS
  None = None
  use = use
  Spawn = use
  Threads = {t1, t2}
  DomainIds = {d1, d2}
  Capabilities = {use}
  Hosts = {h1}
  MaxSpawnDepth = 1
  MaxGoals = 1
  MaxOps = 2
  Needs <- MCNeeds
SYMMETRY Symmetric
INVARIANTS  OneLateEffect
CHECK_DEADLOCK FALSE
