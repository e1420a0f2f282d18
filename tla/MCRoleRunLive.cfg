SPECIFICATION FairSpec
CONSTANTS
  Tasks = {t1}
  NoTask = NoTask
  MaxIterations = 2
  MaxInbox = 2
  MaxRetries = 1
  ShardRetries = 1
  FaultKinds = {"crash", "lapse", "store"}
  MaxFaults = 2
CHECK_DEADLOCK FALSE
INVARIANTS
  ActivationsBounded
PROPERTIES
  EveryHandoffDecided
