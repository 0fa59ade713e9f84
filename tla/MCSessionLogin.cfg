SPECIFICATION Spec
CONSTANTS
    Attempts = 2
    Limit = 1
    Patient = TRUE
    MaxLogins = 2
    MaxPackets = 3
    MaxMoves = 2

    
    
PROPERTIES
    HandledInOrder
    
CHECK_DEADLOCK FALSE
