SPECIFICATION BothSpec
CONSTANTS
  None = None
  Unset = Unset
  w1 = w1
  w2 = w2
  r1 = r1
  v1 = v1
  v2 = v2
  s1 = s1
  Workers <- Pair
  Runners <- OneRunner
  MaxAttempts = 2
  Variants <- TwoVariants
  Streams <- OneStream
  Layouts <- TwoLayouts
  RegenMaxAttempts = 2
  MaxRounds = 1
  MaxFaults = 1
  MaxOthers = 2
  MaxRuns = 2
  MaxManual = 1
  MaxMishaps = 1
  MaxToggles = 1
INVARIANTS NoneRunsTwice PendingHasJob AnswersSaved
PROPERTIES EveryEnds StopGetsThrough
CHECK_DEADLOCK FALSE
