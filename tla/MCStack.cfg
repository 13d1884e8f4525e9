CONSTANTS
  Hosts = {a, b}
  Keys = {k1, k2}
  NoKey = NoKey
  MaxPackets = 2
SPECIFICATION Spec
INVARIANTS
  Transparent
  KeyedHostIsStrict
  NothingRejected
CHECK_DEADLOCK FALSE
