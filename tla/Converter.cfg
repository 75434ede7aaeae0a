SPECIFICATION Spec
CONSTANTS
  Size = 5
  Reserve = 3
  Lengths = {3, 6}
  Numbers = 2
  MaxComing = 0
  Sources = {s1, s2}
  Nobody = Nobody
INVARIANTS
  MapInStep
  LinesInStep
  TrafficIsDated
PROPERTIES
  OnlyLongLinesLost
SYMMETRY Symmetry
CHECK_DEADLOCK FALSE
