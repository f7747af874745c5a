SPECIFICATION Spec
CONSTANTS
  Readers = {"w1"}
  Limit = 0
  DefaultLimits = {1, 2}
  Window = 2
  MaxTime = 4
  MaxCalls = 5
INVARIANTS UsageExact RateBounded RemainingNonNegative
