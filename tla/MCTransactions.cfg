SPECIFICATION Spec
CONSTANTS
  k1 = k1
  s1 = s1
  s2 = s2
  Key <- OneKey
  Session <- TwoSessions
  RestartsAnyTime = FALSE
  MaxWork = 4
  MaxTxns = 2
SYMMETRY Symmetry
INVARIANT TypeOK
INVARIANT NoDirtyRead
INVARIANT AckedSurvives
PROPERTY NoLostUpdate
PROPERTY NoPhantom
CHECK_DEADLOCK FALSE
