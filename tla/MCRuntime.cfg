SPECIFICATION MCSpec
CONSTANTS
  Callers = {c1, c2}
  Paths = {"a", "b", "d", "g"}
  Children <- MCChildren
  Depth <- MCDepth
  Ignored = {"g"}
  Root = "root"
  Sizes = {1, 2}
  Original <- MCOriginal
  MaxEdits = 2
  MaxFiles = 2
  MaxTotal = 3
  MaxFile = 2
  MaxDepth = 2
  Bundles <- MCBundles
  CriticalFiles = {"f1", "f2"}
  Releases = {"v1", "v2"}
  CapabilityNames = {"net", "run"}
  MaxChanges = 2
SYMMETRY CallerSymmetry
INVARIANTS RunCleared TraceIsTrue   ScratchIsBounded
  StartedIsChecked EffectsAreCurrent
CHECK_DEADLOCK FALSE
