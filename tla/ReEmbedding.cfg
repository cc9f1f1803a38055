SPECIFICATION FairSpec
CONSTANTS
  None = None
  w1 = w1
  w2 = w2
  Workers <- TwoWorkers
  NumBatches = 2
  Concurrency = 2
  MaxAttempts = 2
  MaxEvents = 5
INVARIANTS ProgressHolds
PROPERTIES EverySettles
CHECK_DEADLOCK FALSE
