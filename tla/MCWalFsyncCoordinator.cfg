SPECIFICATION FairSpec
CONSTANTS
  w1 = w1
  w2 = w2
  s1 = s1
  Writer <- TwoWriters
  Session <- OneSession
  Flusher = Flusher
  Maintenance = Maintenance
  BatchSizes = {1, 2}
  HasWait = TRUE
  MaxLsn = 3
  MaxFaults = 1
INVARIANT TypeOK
INVARIANT AckedOnDisk
INVARIANT OneFsync
PROPERTY FlushPendingComplete
PROPERTY AwaitReturns
PROPERTY ImplementsDurableLog
