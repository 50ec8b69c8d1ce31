SPECIFICATION FairDiagnosticsSpec
CONSTANTS
  Kinds = {"partial", "snapshot", "live", "end-of-snapshot"}
  MaxRetained = 2
  MaxBytes = 5
  MaxIdentities = 3
  PresentationLimit = 2
  MaxLog = 3
  MaxResets = 1
  MaxQueue = 0
  MaxRecoveries = 1
  MaxToggles = 2
INVARIANTS
  PanelIsTruthful
PROPERTIES
  EndedConditionsAreResolved
