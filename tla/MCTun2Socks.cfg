CONSTANTS
  Window = 2
  SndBuf = 2
  RecvBuf = 2
  MaxUp = 3
  MaxDown = 3
  Locals = {l1, l2}
  Remotes = {r1, r2}
  MaxConnections = 2
  MaxFlows = 1
  Ports = {p1, p2}
  Servers = {s1, s2}
  MaxPackets = 4
SPECIFICATION FairSpec
INVARIANTS
  Accounts
  NothingLost
  NoStall
  Solicited
  RecentKept
  DnsAttributed
PROPERTIES
  Removed
CHECK_DEADLOCK FALSE
