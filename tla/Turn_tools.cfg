SPECIFICATION FairSpec
CONSTANTS
    Adapters <- AllAdapters
    Entries <- AllEntries
    BaseChats <- Chats
    MaxIters = 2
    MaxRetries = 1
    MaxCalls = 2
INVARIANTS ModelSeesTranscript WellFormed CallsHandled ResultsPostedWhereAsked
PROPERTIES TurnEnds
CHECK_DEADLOCK FALSE
