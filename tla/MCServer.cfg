CONSTANTS
  Kinds <- AllKinds
  MaxConns = 2
  MaxStarts = 2
SPECIFICATION FairSpec
CHECK_DEADLOCK FALSE
INVARIANTS
  ServerTypeOK
  DrainHonoured
  CleanExitIffNoFault
PROPERTIES
  NothingAcceptedAfterStop
  
