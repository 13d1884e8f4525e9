CONSTANTS
  MaxPackets = 5
  Lens <- MCLens
  QueueDepth = 2
  MaxBatchBytes = 8
  MaxBatchCount = 3
  Linger = TRUE
SPECIFICATION FairSpec
INVARIANTS
  NothingForgotten
  OneLateFrame
PROPERTIES
  FifoChannel
  EventuallyHanded
CHECK_DEADLOCK FALSE
