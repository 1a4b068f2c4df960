SPECIFICATION FairSpec
CONSTANTS
    None = None
    Msg = {"g1", "own0", "own", "g2"}
    Noise <- MCNoise
    Polite <- MCPolite
    Streamed = {}
    Conv = {"group", "friend"}
    ConvOf <- MCConvOf
    SenderOf <- MCSenderOf
    Stamp <- MCStamp
    Listed = {"friend"}
    Direct = {"group"}
    MergeWindow = 1
    PageSize = 2
    DispatchCap = 1
    MaxIds = 2
    PollConcurrency = 1
    FirstRun = 1
    Protection = 1
    MaxWindow = 2
    MaxAge = 1
    MaxTime = 2
PROPERTIES
    EventuallyHandled
CHECK_DEADLOCK FALSE
