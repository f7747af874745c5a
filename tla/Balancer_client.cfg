SPECIFICATION Spec
CONSTANTS
  Accts = {1}
  DefaultPool = {}
  AnonPool = {}
  Weight <- Weights
  Priority <- Priorities
  Reqs = {r1, r2}
  BaseCooldown = 1
  MaxCooldown = 3
  FailResetAfter = 2
  MaxTime = 0
  MaxEdits = 1
  MaxDrops = 0
INVARIANT ClientOfItsAccount
