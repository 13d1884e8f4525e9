\* A byte of two bits stands for one of eight: the wrap of a length field is
\* at 16 instead of 65536.
CONSTANTS
  Base = 4
  Packets <- MCPackets
  MaxBatch = 3
SPECIFICATION Spec
INVARIANTS
  RoundTrip
  CutYieldsPrefix
CHECK_DEADLOCK FALSE
