\* Two threads, two models of the provider, one of each fallback, two tries.
CONSTANTS
    t1 = t1
    t2 = t2
    m1 = m1
    m2 = m2
    f1 = f1
    s1 = s1
    Threads = {t1, t2}
    Primary <- MCPrimary
    Fallback <- MCFallback
    Secondary <- MCSecondary
    MaxRetries = 2
    Slots = 1
    NoModel = NoModel
SYMMETRY MCSymmetry
SPECIFICATION Spec
INVARIANTS
    TypeOK
    PoolKept
    AskedUnlessRaced
