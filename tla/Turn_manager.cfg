SPECIFICATION FairSpec
CONSTANTS
    Adapters <- Claude
    Entries <- Manager
    BaseChats <- Chats
    MaxIters = 2
    MaxRetries = 1
    MaxCalls = 2
INVARIANTS CheckpointBeforeChat
CHECK_DEADLOCK FALSE
