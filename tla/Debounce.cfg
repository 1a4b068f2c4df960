SPECIFICATION FairSpec
CONSTANTS
    Delivery <- MCDelivery
    Key <- MCKey
    KeyOf <- MCKeyOf
    ChatOf <- MCChatOf
    MsgId <- MCMsgId
    Content <- MCContent
    Stamp <- MCStamp
    Traits <- MCTraits
    PlatformOf <- MCPlatformOf
    None = None
    DupWindow = 2
    StaleGap = 5
    ShortDelay = 1
    ImageDelay = 2
    IncompleteDelay = 2
    CapSlack = 0
    MinDelay = 1
    LastArrival = 2
    MaxTime = 4
INVARIANTS
    TypeOK
    LiveTimer
    OneHome
    NoTwinsPending
    PlatformCarried
    MetricsAddUp
    CappedWait
PROPERTIES
    Implements
    EventuallySettled
CHECK_DEADLOCK FALSE
