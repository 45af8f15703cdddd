SPECIFICATION FairSpec
CONSTANTS
  MaxRetries = 3
  MaxBatches = 2
CHECK_DEADLOCK FALSE
INVARIANTS
  RuntimeTypeOK
  CleanExitLeavesNothing
PROPERTIES
  NoClientClosedUnderItsUser
  ShutdownEnds
  LoopKeepsWatching
