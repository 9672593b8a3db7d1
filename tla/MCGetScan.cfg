SPECIFICATION Spec
CONSTANTS
    Folios = {f1, f2, f3}
    Threads = {t1, t2, t3}
    ScanThreshold = 2
    NoFolio = NoFolio
    MaxLost = 1
SYMMETRY Symmetry
INVARIANTS
    TypeOK
    TouchedIsOnScanList
    ScanPagesConserved
PROPERTY SampledScanListIsLong
