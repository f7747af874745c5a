SPECIFICATION Spec
CONSTANTS
  Readers = {"w1"}
  Limit = 0
  DefaultLimits = {1}
  Window = 2
  MaxTime = 3
  MaxCalls = 3
INVARIANT ConsumedAtomically
