CONSTANTS
  N = 2
  Readiers <- NoReadiers
  Supervised <- SecondSupervised
  MaxAttempts <- TwoAttempts
  LateCap = 0
SPECIFICATION SupLiveSpec
PROPERTIES
  NoRestartWhileStopping
