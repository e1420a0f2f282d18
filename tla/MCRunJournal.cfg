SPECIFICATION Spec
CONSTANTS
  Tasks = {t1, t2}
  Ids = {i}
  Proposals = {p, q}
  NoTask = NoTask
  NoProposal = NoProposal
  MaxRounds = 3
  MaxActivations = 3
  FaultKinds = {"crash", "abort", "write"}
  MaxFaults = 2
SYMMETRY Symmetry
CONSTRAINT ThirdRoundAfterReplay
CHECK_DEADLOCK FALSE
INVARIANTS
  TypeOK
  DispatchDurable
  AtMostOnce
  AnsweredUnlessRecycled
  ReceiptsTrue
