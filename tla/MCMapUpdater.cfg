SPECIFICATION Spec
CONSTANTS
    m1 = m1
    m2 = m2
    m3 = m3
    w1 = w1
    w2 = w2
    w3 = w3
    Maps <- MCMaps
    Workers <- MCWorkers
    NoRequest = NoRequest
    MaxTicks = 2
INVARIANTS
    TypeOK
    Barrier
    MapOwnership
    UpdatedOncePerTick
    NoNullRequestCalled
PROPERTIES
    WaitReturns
    ShutdownCompletes
