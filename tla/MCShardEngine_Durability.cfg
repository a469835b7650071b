SPECIFICATION Spec
CONSTANTS
  k1 = k1
  k2 = k2
  w1 = w1
  w2 = w2
  Key <- MCKey
  Writer <- TwoWriters
  Options <- DurabilityAndLazy
  BatchSize = 2
  Checkpointed = TRUE
  CallsRecoverFull <- FullReplayOnly
  TearsTail = TRUE
  MaxLsn = 3
  MaxData = 5
  MaxCrashes = 1
  MaxFaults = 1
SYMMETRY Symmetry
INVARIANT TypeOK
INVARIANT AckedDurableUnlessFailed
INVARIANT GroupCommitDurable
INVARIANT WriteAhead
INVARIANT StableBehindLog
INVARIANT CheckpointCoversLog
INVARIANT DataFileOrder
INVARIANT RootCompleteUnlessLazy
INVARIANT GetFresh
INVARIANT ScanFresh
CHECK_DEADLOCK FALSE
