CONSTANTS
  MaxPackets = 2
  MaxConns = 2
  MaxQueueSize = 1
  MaxReconnectAttempts = 9
  AttemptBound = 0
  Workers = {w1, w2}
  QueueSize = 2
  BatchSize = 2
  MaxPosted = 3
SPECIFICATION RawSpec
PROPERTIES
  EventuallyWritten
  Recovers
  UnorderedChannel
  EventuallyPosted
  StopReturns
  OrderedRoom
  RoomMoves
CHECK_DEADLOCK FALSE
