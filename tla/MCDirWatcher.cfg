SPECIFICATION FairSpec
CONSTANTS
    Files = {f1, f2}
    Nested = {f2}
    client1 = client1
    client2 = client2
    dots1 = dots1
    Hidden = {dots1}
    Roots <- TwoRoots
    Tag <- TwoTags
    Outside = Outside
    Removed = Removed
    Threads = {t1, t2}
    NoFile = NoFile
    MaxEntries = 1
    MaxMoves = 2
INVARIANTS
    TypeOK
    ScannedIsWatched
    TagFollowsLastOpen
PROPERTIES
    OpenLeadsToWatched
CHECK_DEADLOCK FALSE
