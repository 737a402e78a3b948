CONSTANTS
  N = 3
  MsgLen = 2
  Columns = 3
  MaxDepth = 4
  Accesses <- RepositoryApps
  RedZone = FALSE
  EarlyTick = TRUE

SPECIFICATION Spec
INVARIANTS
  SavedFrames
