SPECIFICATION MCSpec
CONSTANTS
  Clients = {"c1", "c2", "c3"}
  Foreign = {"c3"}
  Threads = {"t1"}
  Direct = "direct"
  Requests <- MCRequests
  Hosts = {"granted"}
  Addresses = {"public", "private"}
  Public = {"public"}
  Workers = {w1, w2}
  Steps = 2
  Attempts = 2
  MaxFaults = 3
INVARIANTS OnlyGrantedPublic OkIsAudited
PROPERTIES ClientsServed RunsFollowJournal 
CHECK_DEADLOCK FALSE
