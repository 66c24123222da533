SPECIFICATION Spec
CONSTANTS
  Depth = 3
  Keys = {1, 2, 3}
  Values = {1, 2}
  MaxHash = 4
  Spent = {0, 5}
  MaxOps = 4
  MaxNumProofs = 16
INVARIANTS
  PanicsOnlyWhenFull
  RootOfData
  NextTraceAccepted
  AuditSound
  CircuitSatisfied
PROPERTIES
  IsAMap
CHECK_DEADLOCK FALSE
