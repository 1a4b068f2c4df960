\* One message, three rows, two requests.
CONSTANTS
    None = None
    m1 = m1
    d1 = d1  d2 = d2  d3 = d3
    q1 = q1  q2 = q2
    chat = chat
    Message <- MCMessage
    Row <- MCRow
    Request <- MCRequest
    Replay <- MCReplay
    Chat <- MCChat
    HomeOf <- MCHomeOf
    Slots = 1
    MaxRetries = 1
SPECIFICATION Spec
INVARIANTS
    TypeOK
    TwiceOnlyByName
    LostOnlyByName
    OneRowWaits
CHECK_DEADLOCK FALSE
