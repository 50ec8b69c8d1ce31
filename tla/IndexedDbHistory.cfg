SPECIFICATION FairSpec
CONSTANTS
  EventIds = {a, b}
  Sizes = {1, 2, 4}
  Limits <- MCLimits
  SoftBatchBytes = 2
  MaxCaptured = 3
  MaxIntervals = 2
  OfferBeforeCleanup = FALSE
INVARIANTS
  NothingIsLost
  JournalHoldsEvidence
PROPERTIES
  ImplementsEvidenceLog
  EveryOperationEnds
CHECK_DEADLOCK FALSE
