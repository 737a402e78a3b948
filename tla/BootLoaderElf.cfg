CONSTANTS
  Aps <- TwoAps
  Rounds = 1
  Disks <- OneDisk
  Sizes <- SmallSizes
  Segments <- ThreeSegments
  Sections <- KernelSections
  HeadSize = 2
  ReadUnit = 2
  MaxEvents = 1

SPECIFICATION Spec
INVARIANTS
  SegmentsPlaced
CHECK_DEADLOCK FALSE
