SPECIFICATION Spec
CONSTANTS
  Batches = {b1, b2}
  Leases = {l1, l2, l3, l4, l5}
  NoBatch = NoBatch
  NoLease = NoLease
  LeaseDuration = 1
  MaxRetries = 1
  RetryDelay = 1
  Backoff = 2
  MaxRetryDelay = 2
  ClaimLimit = 2
  MaxFaults = 1
SYMMETRY MCSymmetry
INVARIANTS
  TypeOK
  NoSilentLoss
  DuplicateOnlyAfterFault
  DrainOwnsClaims
  ThrowOnlyWhenOvertaken
  DeadLetterEarned
  DeadLetterFinal
PROPERTY ImplementsAtLeastOnce
