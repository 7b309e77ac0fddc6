CONSTANTS
  N = 2
  Readiers <- TwoReadiers
  Supervised <- TwoSupervised
  MaxAttempts <- TwoMaxAttempts
  NTasks = 1
  StartTimeout = TRUE
  LateCap = 2
SPECIFICATION Spec
INVARIANTS
  TypeOK
  AtMostOneLateStart
  StartupGate
  ReverseStop
  AllLaunchedStopped
  NoLostFailure
  NoDoubleReport
  ErrorsJustified
  CauseIsFinal
  OutcomeAgrees
PROPERTIES
  CancelOneByOne
  ImplementsContract
