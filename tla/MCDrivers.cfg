CONSTANTS
  N = 1
  DriverKinds <- AllDrivers
  Waiters = {w1, w2}
  MaxConfig = 2
  MaxAppReloads = 1
  MaxCheckpoint = 2
SPECIFICATION FairSpec
CHECK_DEADLOCK FALSE
INVARIANTS
  DriversTypeOK
  ScmIsToldTheTruth
  ResultNotLost
PROPERTIES
  StatusAdvances
  StopIsCarriedOut
  NoStaleReload
  ChangeIsLoaded
