SPECIFICATION Spec
CONSTANTS
  None = None
  w1 = w1
  w2 = w2
  Workers <- Pair
  Entry <- All
  Profiling = TRUE
  MaxAttempts <- Two
  Faulty <- AllFaults
  Deletable = FALSE
  MaxUploads = 1
  MaxLapses = 1
  MaxCrashes = 1
  MaxFaults = 1
  MaxDrops = 1
SYMMETRY Symmetry
INVARIANTS FilesFollowJobs StartedNotStuck
CHECK_DEADLOCK FALSE
