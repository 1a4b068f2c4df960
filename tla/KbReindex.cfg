\* One thread that searches and embeds the same chunk anew.
CONSTANTS
    bot = bot
    web = web
    b1 = b1
    w1 = w1
    v1 = v1
    v2 = v2
    Procs = {bot}
    Web = {}
    Threads = {b1}
    Home <- MCAlone
    Chunks = {1}
    Versions = {v1, v2}
    Before = 1
    PhantomRatio = 30
    MaxRevision = 2
    MaxRestarts = 0
    NoVersion = NoVersion
    Nobody = Nobody
SPECIFICATION Spec
INVARIANTS
    ReindexIsSeen
