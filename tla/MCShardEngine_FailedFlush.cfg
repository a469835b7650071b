SPECIFICATION Spec
CONSTANTS
  k1 = k1
  k2 = k2
  w1 = w1
  w2 = w2
  Key <- MCKey
  Writer <- OneWriter
  Options <- SyncFullReplay
  BatchSize = 0
  Checkpointed = TRUE
  CallsRecoverFull <- Never
  TearsTail = FALSE
  MaxLsn = 3
  MaxData = 5
  MaxCrashes = 0
  MaxFaults = 1
SYMMETRY Symmetry
INVARIANT AckedDurable
CHECK_DEADLOCK FALSE
