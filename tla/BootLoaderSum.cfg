CONSTANTS
  Aps <- TwoAps
  Rounds = 2
  Disks <- OneDisk
  Sizes <- SmallSizes
  Segments <- OneSegment
  Sections <- KernelSections
  HeadSize = 2
  ReadUnit = 2
  MaxEvents = 1

SPECIFICATION Spec
INVARIANTS
  NothingLost
CHECK_DEADLOCK FALSE
