SPECIFICATION Spec
CONSTANTS
  k1 = k1  k2 = k2  r1 = r1  r2 = r2
  Key <- TwoKeys
  Reader <- TwoReaders
  InlineMax = 1
  GcThreshold = 2
  PinsSerially = TRUE
  MaxLsn = 3
  MaxData = 3
  MaxCheckpoints = 2
  MaxCrashes = 1
SYMMETRY Symmetry
CHECK_DEADLOCK FALSE
INVARIANT TypeOK
INVARIANT PinnedLookup
INVARIANT FlashbackState
PROPERTY PinnedStays
