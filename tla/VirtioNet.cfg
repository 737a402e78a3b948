CONSTANTS
  Messages <- TwoMessages
  Frames <- TwoFrames
  Calls <- AllCalls
  QueueSize = 4
  NRxBuffers = 3
  Slots <- TwoSlots

SPECIFICATION Spec
INVARIANTS
  TypeOK
  Negotiated
  NoStrayDma
  UnreadIntact
  NoWrap
PROPERTIES
  ReceiveReturns
  PortSpec
CHECK_DEADLOCK FALSE
