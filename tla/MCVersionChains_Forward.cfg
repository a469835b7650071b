SPECIFICATION Spec
CONSTANTS
  k1 = k1  k2 = k2  r1 = r1  r2 = r2
  Key <- OneKey
  Reader <- OneReader
  InlineMax = 1
  GcThreshold = 0
  PinsSerially = TRUE
  MaxLsn = 2
  MaxData = 2
  MaxCheckpoints = 1
  MaxCrashes = 1
CHECK_DEADLOCK FALSE
INVARIANT HeadForward
