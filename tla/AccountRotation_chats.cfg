SPECIFICATION Spec
CONSTANTS
    Accounts = {1, 2}
    Tasks = {t1, t2}
    Upstream <- AdapterErrors
    Refreshes = TRUE
    Anonymous = FALSE
    DefaultCooldown = 2
    MaxTime = 2
    MaxFaults = 0
INVARIANTS
    FailuresCounted
    NoEarlyGiveUp
    NoCredentialLost
