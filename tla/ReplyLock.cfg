SPECIFICATION FairSpec
CONSTANTS
    None = None
    Job <- MCJob
    Chat <- OneChat
    ChatOf <- InOneChat
    Id <- MCId
    IdOf <- MCIdOf
    Media = {}
    Followup = {"other"}
    Hung = {"first"}
    Slots = 1
    MaxRetries = 1
INVARIANTS
    TypeOK
    SlotsConserved
    OwnerInside
    OneAtATime
PROPERTIES
    NoRepeatedAnswer
    CooldownSeparates
    EventuallyDone
CHECK_DEADLOCK FALSE
