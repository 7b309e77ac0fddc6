CONSTANTS
  N = 2
  Readiers <- TwoReadiers
  Supervised <- None
  MaxAttempts <- Unlimited
  NTasks = 1
  StartTimeout = FALSE
  LateCap = 0
SPECIFICATION HostSpec
PROPERTIES
  ShutdownTerminates
  FailureStopsHost
