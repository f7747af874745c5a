SPECIFICATION Spec
CONSTANTS
  Accts = {1}
  DefaultPool = {}
  AnonPool = {1}
  Weight <- Weights
  Priority <- Priorities
  Reqs = {r1}
  BaseCooldown = 1
  MaxCooldown = 3
  FailResetAfter = 2
  MaxTime = 0
  MaxEdits = 0
  MaxDrops = 1
INVARIANT InflightReleased
