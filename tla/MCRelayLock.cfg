SPECIFICATION Spec
CONSTANTS
  p1 = p1
  p2 = p2
  NoPeer = NoPeer
  Peers <- MCPeers
  MaxRequests = 2
  Supports <- MCSupports
  Asks <- MCAsksLocked
  Lease = 1
  ActionTimeout = 2
  StaleAfter = 2
  PullWait = 1
  MaxTime = 2
  MaxFaults = 0
INVARIANTS
  LockedPeerMayClaim
CHECK_DEADLOCK FALSE
