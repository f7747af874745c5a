SPECIFICATION FairSpec
CONSTANTS
    Adapters <- Kiro
    Entries <- Over
    BaseChats <- Chats
    MaxIters = 2
    MaxRetries = 1
    MaxCalls = 2
INVARIANTS ResultsSentOnce
CHECK_DEADLOCK FALSE
