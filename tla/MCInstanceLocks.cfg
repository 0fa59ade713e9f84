SPECIFICATION Spec
CONSTANTS
    p1 = p1
    p2 = p2
    d1 = d1
    d2 = d2
    e1 = e1
    Players <- MCPlayers
    Dungeons <- MCDungeons
    Cases <- MCCases
    Leader = p1
    RowOrder <- MCRowOrder
    Encounters <- MCEncounters
    NoLock = NoLock
    Outside = Outside
    OverflowId = 3
CONSTRAINT NoDefect
INVARIANTS
    TypeOK
    AllocatorSound
    
    SharedStateLeads
    ProgressSurvives
PROPERTIES
    
    OnlyStaleLocksDeleted
CHECK_DEADLOCK FALSE
