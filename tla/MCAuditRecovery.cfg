SPECIFICATION FairSpec
CONSTANTS
  Writers = {w1, w2}
  Absent = Absent
  UseAnchor = TRUE
  StoreCapacity = 3
  MaxRecords = 3
  MaxStamp = 3
  MaxRestores = 0
PROPERTIES
  ReconcileRestoresAppends
CHECK_DEADLOCK FALSE
