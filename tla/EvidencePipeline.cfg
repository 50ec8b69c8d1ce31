SPECIFICATION FairPipelineSpec
CONSTANTS
  ChunkSize = 2
  MaxRetained = 3
  LowWater = 2
  MaxSequence = 5
  MaxIntervals = 2
  MaxGaps = 1
  MaxRestarts = 1
INVARIANTS
  FollowerIsTruthful
PROPERTIES
  RecoveryIsHidden
  RecoveryEnds
CHECK_DEADLOCK FALSE
