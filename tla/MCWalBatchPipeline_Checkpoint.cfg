SPECIFICATION Spec
CONSTANTS
  c1 = c1
  c2 = c2
  c3 = c3
  k1 = k1
  s1 = s1
  record = record
  worker = worker
  maintenance = maintenance
  Client <- TwoClients
  Key <- OneKey
  Session <- NoSession
  Control = record
  Worker = worker
  Maintenance = maintenance
  MaxBatchSize = 2
  TakesCheckpoints = TRUE
  LargeValues = FALSE
  MaxLsn = 3
  MaxRounds = 1
  MaxFaults = 0
INVARIANT AckedDurable
CHECK_DEADLOCK FALSE
