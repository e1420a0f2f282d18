SPECIFICATION FairSpec
CONSTANTS
  MaxCalls = 3
  MaxSpawns = 2
  MaxEvents = 2
  MaxWrites = 2
CHECK_DEADLOCK FALSE
INVARIANTS
  RunReachable
  RecoveryExact
PROPERTIES
  OvertakenNeverSettles
  DeadlineEndsRuns
