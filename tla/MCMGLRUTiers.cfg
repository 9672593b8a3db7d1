SPECIFICATION Spec
CONSTANTS
    Pages = {p1, p2}
    Threads = {t1, t2}
    MAX_NR_TIERS = 2
    MIN_LRU_BATCH = 2
    NoPage = NoPage
    EvictBound = 3
    ProtectBound = 1
SYMMETRY Symmetry
INVARIANTS
    TypeOK
    RefaultsFollowEvictions
    SeenRefaultsBounded
