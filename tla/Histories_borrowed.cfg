SPECIFICATION Spec
CONSTANTS
  c1 = c1
  k1 = k1
  Callers = {c1}
  Keys = {k1}
  Colliding = {}
  MaxTurns = 2
  MaxFaults = 1
PROPERTIES
  StartLoadsRecord
CHECK_DEADLOCK FALSE
