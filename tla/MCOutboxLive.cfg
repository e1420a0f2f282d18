SPECIFICATION FairSpec
CONSTANTS
  Batches = {b1}
  Leases = {l1, l2, l3}
  NoBatch = NoBatch
  NoLease = NoLease
  LeaseDuration = 1
  MaxRetries = 1
  RetryDelay = 1
  Backoff = 2
  MaxRetryDelay = 2
  ClaimLimit = 2
  MaxFaults = 2
PROPERTY EventuallySettled
