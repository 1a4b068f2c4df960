SPECIFICATION FairSpec
CONSTANTS
    Chats <- TwoChats
    Friends <- OneFriend
    Probeable <- TwoChats
    Reachable <- OneFriend
    Senders <- OneSender
    Threshold = 1
    ReconcileEvery = 1
    BatchSize = 1
    FailuresToBlock = 3
    NoChat = NoChat
INVARIANTS
    TypeOK
    SkipMatchesRows
    LastingEndsByName
PROPERTIES
    EventuallyHealed
CHECK_DEADLOCK FALSE
