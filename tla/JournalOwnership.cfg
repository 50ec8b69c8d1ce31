SPECIFICATION FairOwnershipSpec
CONSTANTS
  p1 = p1
  p2 = p2
  p3 = p3
  d1 = d1
  d2 = d2
  NoPanel = NoPanel
  Panels = {p1, p2}
  Names = {d1, d2, newer}
  NameOf <- OwnNameOf
  NewerNames = {newer}
INVARIANTS
  OwnershipTypeOK
  RunningKeepsJournal
  EndedHoldsNothing
PROPERTIES
  ErasesOnlyUnused
  StartupsSettle
CHECK_DEADLOCK FALSE
