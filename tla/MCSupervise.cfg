CONSTANTS
  N = 3
  Readiers <- MCReadiers
  Supervised <- MCSupervised
  MaxAttempts <- MCMaxAttempts
  LateCap = 0
SPECIFICATION SupLiveSpec
INVARIANTS
  ExitsNeverBlock
  DoneIsFinal
  ExitsMatchDone
  OnlyExhaustedGiveUp
PROPERTIES
  CancelledSupervisorEnds
