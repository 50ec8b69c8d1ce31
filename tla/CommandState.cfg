SPECIFICATION Spec
CONSTANTS
  Keys = {k1}
  Values = {x, y}
  Absent = Absent
  NoKey = NoKey
  HistoricalKeyLimit = 1
  MaxLog = 3
  MaxInjected = 1
SYMMETRY Symmetry
INVARIANTS
  PresenceIsTrue
  FieldsAreTrue
  InjectionsStayLocal
