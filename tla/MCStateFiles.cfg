SPECIFICATION Spec
CONSTANTS
  MaxRecords = 4
  MaxValues = 3
INVARIANTS
  IInv
  LossIsLoud
  SnapshotIsWhole
CHECK_DEADLOCK FALSE
