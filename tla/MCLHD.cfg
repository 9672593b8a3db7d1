SPECIFICATION FairSpec
CONSTANTS
    Folios = {f1, f2}
    Threads = {t1, t2}
    NoFolio = NoFolio
    MAX_AGE = 2
    REQS_PER_RECONFIG = 2
    Coarsenings = {1, 2}
    Initial = 1
    AdaptAt = {1}
    RingSize = 2
    MaxRequests = 4
    MaxLost = 1
INVARIANTS
    TypeOK
    NumObjectsConserved
    CountdownAlive
    TrackedIsListed
PROPERTIES
    RoundIsReconfigured
CHECK_DEADLOCK FALSE
