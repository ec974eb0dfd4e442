CONSTANTS
  proxy = proxy
  handler = handler
  NoThread = NoThread
  Threads <- MCThreads
  MayAppend <- MCMayAppend
  MayRead <- MCMayRead
  PacketSize = 3
  MaxPackets = 2
  Chunks <- MCChunks
  MaxAppends = 2

SPECIFICATION Spec

INVARIANT TypeOK
INVARIANT LatestStored
INVARIANT FreshRead
INVARIANT NewestUnlessCorrupt
INVARIANT LeavesOnlyOverCorrupt
PROPERTY CallsReturn

CHECK_DEADLOCK FALSE
