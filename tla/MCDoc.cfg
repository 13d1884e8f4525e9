CONSTANTS
  MaxPackets = 3
  MaxConns = 3
  MaxQueueSize = 2
  MaxReconnectAttempts = 3
  AttemptBound = 3
SPECIFICATION Spec
INVARIANTS
  HeldUntilWritten
  OneConnection
  ConnectedIsServed
  OneLatePacket
PROPERTIES
  FifoToSocket
CHECK_DEADLOCK FALSE
