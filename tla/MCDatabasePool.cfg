SPECIFICATION Spec
CONSTANTS
    long = long
    short = short
    single = single
    c1 = c1
    c2 = c2
    d = d
    Tasks <- MCTasks
    Size <- MCSize
    Singles <- MCSingles
    Async <- MCAsync
    Sync <- MCSync
    NoTask = NoTask
    NoConnection = NoConnection
    Retries = 1
    MaxFailures = 2
    MaxLosses = 1
INVARIANTS
    AllOrNothing
    
    NoTransactionLeftOpen
PROPERTIES
    EveryTaskSettles
