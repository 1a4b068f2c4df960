\* Two processes, two chunks with one embedding each, three writes, one restart.
CONSTANTS
    bot = bot
    web = web
    b1 = b1
    w1 = w1
    v1 = v1
    v2 = v2
    Procs = {bot, web}
    Web = {web}
    Threads = {b1, w1}
    Home <- MCHome
    Chunks = {1, 2}
    Versions = {v1}
    Before = 1
    PhantomRatio = 30
    MaxRevision = 3
    MaxRestarts = 1
    NoVersion = NoVersion
    Nobody = Nobody
CONSTRAINT MCNoAccident
SPECIFICATION Spec
INVARIANTS
    TypeOK
    FindsWhatIsThere
    VectorsBelong
