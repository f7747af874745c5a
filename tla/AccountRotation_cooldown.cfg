SPECIFICATION Spec
CONSTANTS
    Accounts = {1}
    Tasks = {t1, t2}
    Upstream <- SmallErrors
    Refreshes = FALSE
    Anonymous = FALSE
    DefaultCooldown = 2
    MaxTime = 2
    MaxFaults = 0
INVARIANT CooldownHonoured
