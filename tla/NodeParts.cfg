SPECIFICATION Spec
INVARIANTS
  
  TeardownIsSafe
  UpgradeKeepsTheNode
  
PROPERTIES
  
  Reconnects
  RangeIsSnapshotted
CHECK_DEADLOCK FALSE
