SPECIFICATION Spec
CONSTANTS
  k1 = k1
  k2 = k2
  w1 = w1
  w2 = w2
  Key <- MCKey
  Writer <- OneWriter
  Options <- SyncLazy
  BatchSize = 0
  Checkpointed = TRUE
  CallsRecoverFull <- Never
  TearsTail = FALSE
  MaxLsn = 3
  MaxData = 5
  MaxCrashes = 0
  MaxFaults = 0
SYMMETRY Symmetry
INVARIANT RootComplete
CHECK_DEADLOCK FALSE
