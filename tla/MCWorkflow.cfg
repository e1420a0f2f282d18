SPECIFICATION FairSpec
CONSTANTS
  MaxTime = 2
  Deadlines = {1}
  Turns = {t1}
  NoTurn = NoTurn
  MaxFaults = 1
  Steps <- MCSteps
  Trigger <- MCTrigger
  NextSteps <- MCNextSteps
  Detached = {"act"}
  NoEffects = {"report"}
  Retriable = {"act"}
  MaxRetries = 1
  ActiveTime = 1
  Tries = 2
  Callers = {c1, c2}
CHECK_DEADLOCK FALSE
INVARIANTS
  TypeOK
  PromisesKept
  StepFollowsJoin
  ConsumedByCarrier
PROPERTIES
  ResultsArrive
