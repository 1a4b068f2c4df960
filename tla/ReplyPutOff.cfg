SPECIFICATION Spec
CONSTANTS
    None = None
    Job <- MCJob
    Chat <- OneChat
    ChatOf <- InOneChat
    Id <- MCId
    IdOf <- MCIdOf
    Media = {}
    Followup = {}
    Hung = {}
    Slots = 1
    MaxRetries = 1
PROPERTIES
    PutOffIsNotDropped
CHECK_DEADLOCK FALSE
