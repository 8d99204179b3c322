SPECIFICATION Spec
CONSTANTS
  MaxRecords = 4
  MaxValues = 3
INVARIANTS
  AckedIsReadable
CHECK_DEADLOCK FALSE
