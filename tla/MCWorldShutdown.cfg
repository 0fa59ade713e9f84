SPECIFICATION ShutdownSpec
CONSTANTS
    a = a
    b = b
    a1 = a1
    b1 = b1
    Accounts <- MCAccounts
    Sessions <- MCSessions
    AccountOf <- MCAccountOf
    Staff <- MCStaff
    Limits <- MCLimits
    NoSession = NoSession
    NoTime = NoTime
    Tolerance = 0
    ExpireTime = 2
    MaxTime = 1
    Delays <- MCDelays
    Threshold = 2
    MaxElapsed = 2
    MaxCommands = 2
INVARIANTS
    StopsOnTime
    IdleStopInterruptsNobody
    CharactersSaved
PROPERTIES
    ShutdownHappens
    LostSessionLeaves
CHECK_DEADLOCK FALSE
