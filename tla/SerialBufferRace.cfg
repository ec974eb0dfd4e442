CONSTANTS
  proxy = proxy
  handler = handler
  NoThread = NoThread
  Threads <- MCThreads
  MayAppend <- MCMayAppend
  MayRead <- MCMayRead
  PacketSize = 3
  MaxPackets = 1
  Chunks <- MCChunks
  MaxAppends = 2

SPECIFICATION Spec

INVARIANT NonEmptyAfterTest

CHECK_DEADLOCK FALSE
