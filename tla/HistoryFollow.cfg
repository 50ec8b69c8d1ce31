SPECIFICATION FairSpec
CONSTANTS
  ChunkSize = 1
  MaxRetained = 3
  LowWater = 2
  MaxSequence = 5
  MaxIntervals = 2
  MaxFollows = 2
INVARIANTS
  DeliveryIsOrdered
  NothingIsMissed
PROPERTY ReplayEnds
CHECK_DEADLOCK FALSE
