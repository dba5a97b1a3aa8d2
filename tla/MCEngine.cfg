SPECIFICATION MCSpec
CONSTANTS
  Threads = {t1, t2}
  Sessions = {s1, s2}
  Proposals <- MCProposals
  Advice = {"SANDBOX"}
  MaxHistory = 3
  MaxEvaluations = 4
  MaxDisturbed = 3
  MaxClears = 1
SYMMETRY Symmetric
INVARIANTS SuspicionNeverHelps NeverWeaker RestartInvisible NoDetour
