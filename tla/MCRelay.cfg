SPECIFICATION FairSpec
CONSTANTS
  p1 = p1
  p2 = p2
  NoPeer = NoPeer
  Peers <- MCPeers
  MaxRequests = 2
  Supports <- MCSupports
  Asks <- MCAsks
  Lease = 1
  ActionTimeout = 2
  StaleAfter = 2
  PullWait = 1
  MaxTime = 3
  MaxFaults = 1
INVARIANTS
  LastAttemptAnswers
  NotPassedOver
PROPERTIES
  KeptWhileBeating
  Settled
CHECK_DEADLOCK FALSE
