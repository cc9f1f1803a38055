SPECIFICATION FairSpec
CONSTANTS
  None = None
  j1 = j1
  j2 = j2
  w1 = w1
  w2 = w2
  Jobs <- OneJob
  Workers <- Single
  MaxAttempts = 2
  Visibility = 1
  Buffer = 1
  Extension = 1
  MaxDelay = 1
  MaxLeft = 3
  MaxLapses = 2
  CrashAt <- Anywhere
  MaxCrashes = 2
  MaxFaults = 2
  Unpolled = FALSE
PROPERTIES EverySettled
CHECK_DEADLOCK FALSE
