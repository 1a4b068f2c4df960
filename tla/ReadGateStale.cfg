\* As ReadGate.cfg: two chats with two messages and one; a page of unread chats holds both.
CONSTANTS
    c1 = c1
    c2 = c2
    Chats <- MCChats
    PerChat <- MCPerChat
    Most = 2
    Answered = {c1}
    ListSize = 2
SPECIFICATION Spec
INVARIANTS
    NewIsAnswered
CHECK_DEADLOCK FALSE
