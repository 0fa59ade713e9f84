SPECIFICATION Spec
CONSTANTS
    p1 = p1
    p2 = p2
    x1 = x1
    x2 = x2
    x3 = x3
    Producers <- MCProducers
    Items <- MCItems
    Dummy = Dummy
    Null = Null
INVARIANTS
    NoWriteAfterDelete
PROPERTIES
    ImplementsFifo
    EveryElementDelivered
