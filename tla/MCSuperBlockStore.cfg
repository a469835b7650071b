SPECIFICATION Spec
CONSTANTS
  MaxContent = 5
  Invalid = Invalid
  NoFile = NoFile
INVARIANT TypeOK
INVARIANT CommittedSurvives
INVARIANT ActiveSlotUntouched
PROPERTY LoadedEpochNeverRegresses
CHECK_DEADLOCK FALSE
