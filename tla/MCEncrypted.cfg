CONSTANTS
  MaxPackets = 3
  MaxCopies = 6
  Window = 2
  Workers = {w1, w2}
SPECIFICATION Spec
SYMMETRY WorkerSymmetry
INVARIANTS
  FromPeer
  OncePerWindow
CHECK_DEADLOCK FALSE
