SPECIFICATION Spec
CONSTANTS
  k1 = k1
  s1 = s1
  s2 = s2
  Key <- OneKey
  Session <- OneSession
  RestartsAnyTime = TRUE
  MaxTxns = 2
  MaxWork = 5
INVARIANT AckedSurvives
CHECK_DEADLOCK FALSE
