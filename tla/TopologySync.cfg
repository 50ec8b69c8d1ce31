CONSTANTS
  Entities = {e1, e2}
  MaxPages = 2
  MaxCaptures = 2
  MaxBreaks = 1
  MaxGaps = 1
  MaxClears = 1
  Coverages = {"complete", "partial"}
  Overtake = TRUE
SPECIFICATION TopologySpec
INVARIANTS ProjectionIsTrue BasisIsTrue
CHECK_DEADLOCK FALSE
