SPECIFICATION FairSpec
CONSTANTS
  Accts = {1, 2}
  DefaultPool = {}
  AnonPool = {}
  Weight <- Weights
  Priority <- Priorities
  Reqs = {r1, r2}
  BaseCooldown = 1
  MaxCooldown = 2
  FailResetAfter = 1
  MaxTime = 2
  MaxEdits = 1
  MaxDrops = 1
INVARIANTS InflightAccounted ConcAccounted FailsOnlyWhenExhausted
PROPERTIES NeverRestartsStream PrefersAvailable RequestsEnd
