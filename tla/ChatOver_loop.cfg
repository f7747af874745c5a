SPECIFICATION FairSpec
CONSTANTS
    Upstream <- AdapterErrors
    MaxCands = 3
    MaxRetries = 2
    MaxIters = 2
INVARIANTS
    NoEarlySurrender
    LatestErrorReported
    NoRejectedCheckpoint
PROPERTIES
    KeepsFailoverPromise
    ChatEnds
