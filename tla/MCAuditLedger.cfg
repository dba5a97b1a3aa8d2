SPECIFICATION Spec
CONSTANTS
  Writers = {w1, w2}
  Absent = Absent
  UseAnchor = TRUE
  StoreCapacity = 3
  MaxRecords = 4
  MaxStamp = 4
  MaxRestores = 1
SYMMETRY WriterSymmetry
INVARIANT AckedAnchored
PROPERTY ImplementsAckedLog
CHECK_DEADLOCK FALSE
