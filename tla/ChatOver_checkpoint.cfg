SPECIFICATION Spec
CONSTANTS
    Upstream <- AdapterErrors
    MaxCands = 2
    MaxRetries = 2
    MaxIters = 2
INVARIANT CheckpointOfOwnAccount
