SPECIFICATION Spec
CONSTANTS
  Tasks = {t1, t2}
  NoTask = NoTask
  MaxIterations = 1
  MaxInbox = 1
  MaxRetries = 1
  ShardRetries = 1
  FaultKinds = {"crash", "lapse", "store"}
  MaxFaults = 1
SYMMETRY TaskSymmetry
CHECK_DEADLOCK FALSE
INVARIANTS
  TypeOK
  LoopOwnsRun
  CancelledNeverRuns
  NoUnexplainedStranding
PROPERTIES
  ClosedStaysClosed
