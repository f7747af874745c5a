SPECIFICATION Spec
CONSTANTS
  c1 = c1
  c2 = c2
  k1 = k1
  k2 = k2
  Callers = {c1, c2}
  Keys = {k1, k2}
  Colliding = {}
  MaxTurns = 3
  MaxFaults = 2
INVARIANTS
  KeptSurvives
  UsageExact
PROPERTIES
  HistoryGrows
SYMMETRY Symmetry
CHECK_DEADLOCK FALSE
