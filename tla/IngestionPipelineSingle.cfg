SPECIFICATION FairSpec
CONSTANTS
  None = None
  w1 = w1
  w2 = w2
  Workers <- Single
  Entry <- Scans
  Profiling = TRUE
  MaxAttempts <- Two
  Faulty <- MarkedFaults
  Deletable = TRUE
  MaxUploads = 2
  MaxLapses = 1
  MaxCrashes = 1
  MaxFaults = 1
  MaxDrops = 0
PROPERTIES EverySettled
CHECK_DEADLOCK FALSE
