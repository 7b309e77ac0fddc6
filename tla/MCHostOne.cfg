CONSTANTS
  N = 1
  Readiers <- None
  Supervised <- None
  MaxAttempts <- OneMaxAttempts
  NTasks = 0
  StartTimeout = FALSE
  LateCap = 0
SPECIFICATION FairSpec
PROPERTIES
  PrematureExitReported
