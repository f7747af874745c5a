SPECIFICATION FairSpec
CONSTANTS
    Accounts = {1}
    Tasks = {t1, t2}
    Upstream <- AdapterErrors
    Refreshes = TRUE
    Anonymous = TRUE
    DefaultCooldown = 2
    MaxTime = 2
    MaxFaults = 2
INVARIANTS
    HealthConsistent
    OutcomesPersisted
PROPERTIES
    ChatsEnd
