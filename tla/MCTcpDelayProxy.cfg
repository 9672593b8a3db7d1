SPECIFICATION ProxyFairSpec
CONSTANTS
    RequestSize = 5
    ResponseSize = 7
    ReadSize = 4
    Delay = 2
    Fill = 1
    TicksPerSec = 4
INVARIANTS
    ProxyTypeOK
    OneMessageInFlight
PROPERTIES
    ImplementsRateLimit
    ConnectionsProgress
