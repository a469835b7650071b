SPECIFICATION FairSpec
CONSTANTS
  c1 = c1
  c2 = c2
  c3 = c3
  k1 = k1
  s1 = s1
  record = record
  worker = worker
  maintenance = maintenance
  Client <- ThreeClients
  Key <- OneKey
  Session <- OneSession
  Control = record
  Worker = worker
  Maintenance = maintenance
  MaxBatchSize = 2
  TakesCheckpoints = TRUE
  LargeValues = TRUE
  MaxLsn = 3
  MaxRounds = 1
  MaxFaults = 1
INVARIANT TypeOK
INVARIANT AckedDurableUnlessExcused
INVARIANT AppliedDurable
INVARIANT NewestWins
INVARIANT JobInOnePlace
PROPERTY PutReturns
CHECK_DEADLOCK FALSE
