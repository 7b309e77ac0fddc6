CONSTANTS
  N = 2
  Readiers <- None
  Supervised <- FirstSupervised
  MaxAttempts <- Unlimited
  NTasks = 0
  StartTimeout = FALSE
  LateCap = 0
SPECIFICATION FairSpec
PROPERTIES
  NoLeakedSupervisor
