SPECIFICATION Spec
CONSTANTS
  None = None
  j1 = j1
  j2 = j2
  w1 = w1
  w2 = w2
  Jobs <- TwoJobs
  Workers <- Pair
  MaxAttempts = 2
  Visibility = 1
  Buffer = 1
  Extension = 1
  MaxDelay = 0
  MaxLeft = 3
  MaxLapses = 2
  CrashAt <- Nowhere
  MaxCrashes = 0
  MaxFaults = 0
  Unpolled = FALSE
SYMMETRY Symmetry
PROPERTIES KeepsPromise
CHECK_DEADLOCK FALSE
