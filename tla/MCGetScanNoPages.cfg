SPECIFICATION Spec
CONSTANTS
    Folios = {f1, f2, f3}
    Threads = {t1, t2}
    ScanThreshold = 2
    NoFolio = NoFolio
    MaxLost = 1
SYMMETRY Symmetry
PROPERTY NoPagesToEvict
