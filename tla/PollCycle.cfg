SPECIFICATION Spec
CONSTANTS
    None = None
    Msg = {"p1", "p2", "q"}
    Noise <- MCNoise
    Polite <- MCPolite
    Streamed = {"q"}
    Conv = {"team", "friend"}
    ConvOf <- MCConvOf
    SenderOf <- MCSenderOf
    Stamp <- MCStamp
    Listed = {"team", "friend"}
    Direct = {"team"}
    MergeWindow = 1
    PageSize = 2
    DispatchCap = 1
    MaxIds = 3
    PollConcurrency = 1
    FirstRun = 1
    Protection = 1
    MaxWindow = 1
    MaxAge = 1
    MaxTime = 2
INVARIANTS
    TypeOK
    TwiceOnlyUnmarked
    MarkedOnlyIfHandled
    NothingPassedOver
CHECK_DEADLOCK FALSE
