SPECIFICATION Spec
CONSTANTS
    Folios = {f1, f2}
    Threads = {t1, t2}
    CacheSize = 15
    GhostSize = 1
    Request = 1
    NoFolio = NoFolio
    FreqFloor = 1
    MaxDrift = 2
    MaxDebt = 1
    MaxLost = 1
SYMMETRY Symmetry
INVARIANTS
    TypeOK
    MetadataReleased
    InMainIsOnMainList
    TrackedIsNotGhost
    SmallNeverOvercounted
    MainNeverUndercounted
PROPERTIES
    ImplementsPagePolicy
