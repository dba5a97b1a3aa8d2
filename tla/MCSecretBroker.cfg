SPECIFICATION MCSpec
CONSTANTS
  Tokens = {k1, k2}
  Callers = {c1, c2}
  Sandboxes = {s1}
  Names = {n1}
  MaxUses = 2
  MaxTime = 2
  MaxCount = 2
  Anyone = Anyone
  NoLimit = NoLimit
SYMMETRY Interchangeable
INVARIANTS UsesWithinLimit 
PROPERTY DeadStaysDead
