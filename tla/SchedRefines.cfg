CONSTANTS
  N = 3
  MsgLen = 2
  Columns = 3
  MaxDepth = 4
  Accesses <- StrayingApps
  RedZone = FALSE
  EarlyTick = FALSE

SPECIFICATION Spec
INVARIANTS
  LineIntegrity
PROPERTIES
  Refines
  FaultIsFinal
