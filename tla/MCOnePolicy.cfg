SPECIFICATION FairSpec
CONSTANTS
    Folios = {f1, f2}
    Threads = {t1, t2}
    Servers = {s1, s2}
    NoFolio = NoFolio
    NoServer = NoServer
INVARIANTS
    TypeOK
    ListedIsTracked
PROPERTIES
    ImplementsPagePolicy
    NetOffersIdleFolios
