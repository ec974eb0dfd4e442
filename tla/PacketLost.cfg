CONSTANTS
  BufferSize = 10
  MaxPackets = 5
  MaxLost = 0

SPECIFICATION Spec

INVARIANT NewestDelivered

CHECK_DEADLOCK FALSE
