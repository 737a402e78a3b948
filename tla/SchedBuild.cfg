CONSTANTS
  N = 3
  MsgLen = 2
  Columns = 3
  MaxDepth = 4
  Accesses <- RepositoryApps
  RedZone = TRUE
  EarlyTick = FALSE

SPECIFICATION FairSpec
INVARIANTS
  TypeOK
  SavedFrames
  KernelNotPreempted
  OwnSpace
PROPERTIES
  EveryTaskRuns
  FaultResolved
