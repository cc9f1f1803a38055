SPECIFICATION FairSpec
CONSTANTS
  None = None
  j1 = j1
  j2 = j2
  w1 = w1
  w2 = w2
  Jobs <- TwoJobs
  Workers <- Pair
  Endless = {}
  MaxAttempts <- Attempts
  Visibility = 1
  Extension = 1
  MaxDelay = 2
  MaxLeft = 2
  MaxLapses = 2
INVARIANTS LeaseHasRunner AttemptsBounded NoMissedWakeup
PROPERTIES KeepsPromise EverySettled
CHECK_DEADLOCK FALSE
