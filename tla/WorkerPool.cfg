SPECIFICATION FairSpec
CONSTANTS
  Workers = {w1, w2}
  NumQueues = 2
  Limit <- OnePermit
  Limiter = TRUE
  Handler = w2
  None = None
  MaxAttempts = 2
  MaxWaiting = 2
  MaxFaults = 2
INVARIANTS PermitsAccounted
PROPERTIES NoStarvation
CHECK_DEADLOCK FALSE
