SPECIFICATION MCSpec
CONSTANTS
  a1 = a1
  a2 = a2
  d1 = d1
  d2 = d2
  p1 = p1
  p2 = p2
  Callers = {c1, c2}
  RequestIds = {r1}
  Actions = {a1, a2}
  Domains = {d1, d2}
  Policies = {p1, p2}
  DomainOf <- MCDomainOf
  Enrolled <- MCEnrolled
  Routine <- MCRoutine
  Ttl = 1
  MaxTime = 1
  MaxCounter = 1
  Debounce = 1
  LongPress = 3
  Quiet = 3
  Deadline = 15
  ClickTime = 16
  ClickGap = 1
  Challenges = {c1, c2}
  None = None
  Hold = 3
  MaxTtl = 7
  ButtonTime = 8
  ButtonGap = 2
  Contents = {x1}
  Posts = {c1, c2, c3}
  Payloads = {1, 2}
  MaxLength = 2
SYMMETRY Interchangeable
INVARIANTS AtMostOneEffect EffectAuthorised AnswersAreGestures DecisionsAreDeliberate
PROPERTY ImplementsAckedLog
