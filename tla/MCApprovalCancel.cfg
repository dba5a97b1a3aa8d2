SPECIFICATION Spec
CONSTANTS
  a1 = a1
  a2 = a2
  d1 = d1
  d2 = d2
  p1 = p1
  p2 = p2
  Callers = {c1}
  RequestIds = {r1}
  Actions = {a1}
  Domains = {d1}
  Policies = {p1}
  DomainOf <- MCDomainOf
  Enrolled <- MCEnrolled
  Routine <- MCRoutine
  Ttl = 1
  MaxTime = 1
  MaxCounter = 1
INVARIANTS
  CancelledMeansNoAction
