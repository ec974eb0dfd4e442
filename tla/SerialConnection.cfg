CONSTANTS
  MaxIterationsWithoutReceive = 5
  BufferPackets = 16
  ReadPackets = 8
  CommandSlots = 2

SPECIFICATION Spec

INVARIANT TypeOK
INVARIANT NeverBlocks
PROPERTY ReportsFlow
PROPERTY CommandsTaken
