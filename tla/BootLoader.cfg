CONSTANTS
  Aps <- TwoAps
  Rounds = 3
  Disks <- SmallDisks
  Sizes <- SmallSizes
  Segments <- OneSegment
  Sections <- KernelSections
  HeadSize = 2
  ReadUnit = 2
  MaxEvents = 1

SPECIFICATION Spec
INVARIANTS
  TypeOK
  ImagesWhole
  KernelBssCleared
  SegmentsPlaced
  LostAtMost
PROPERTIES
  HandsOver
  Boots
CHECK_DEADLOCK FALSE
