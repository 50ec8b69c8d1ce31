SPECIFICATION FairSpec
CONSTANTS
  EventIds = {a, b}
  Sizes = {1, 2, 4}
  Limits <- MCLimits
  MaxCaptured = 3
  MaxIntervals = 3
  MaxNotAccepted = 2
  OfferBeforeCleanup = FALSE
INVARIANTS
  TypeOK
  CaptureOrder
  NothingIsLost
PROPERTIES
  ImplementsEvidenceLog
  EveryOperationEnds
CHECK_DEADLOCK FALSE
