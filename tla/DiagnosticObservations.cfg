SPECIFICATION Spec
CONSTANTS
  MaxRetained = 3
  MaxBytes = 4
  MaxIdentities = 2
  ConditionIds = {c1, c2}
  OccurrenceIds = {o1}
  Contents = {x, y}
  MaxSequence = 4
  MaxIntervals = 2
SYMMETRY Symmetry
INVARIANTS
  JournalIsSound
  FeedIsTruthful
PROPERTIES
  RecordedIsFinal
