SPECIFICATION Spec
CONSTANTS
    Folios = {f1, f2}
    Threads = {t1, t2}
    Request = 1
    Thresholds = {0, 1}
    AlmostEmpty = 1
    NoFolio = NoFolio
    SeqBound = 5
    AccessBound = 2
    LeakBound = 0
PROPERTY PromotionStoresGen
