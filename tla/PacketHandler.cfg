CONSTANTS
  BufferSize = 12
  MaxPackets = 6
  MaxLost = 1

SPECIFICATION Spec

INVARIANT TypeOK
INVARIANT OnlyWholePackets
PROPERTY NewestUncutRead

CHECK_DEADLOCK FALSE
