SPECIFICATION Spec
CONSTANTS
    a = a
    b = b
    c = c
    a1 = a1
    a2 = a2
    b1 = b1
    c1 = c1
    Accounts <- MCAccounts
    Sessions <- MCSessions
    AccountOf <- MCAccountOf
    Staff <- MCStaff
    Limits <- MCLimits
    NoSession = NoSession
    NoTime = NoTime
    Tolerance = 1
    ExpireTime = 2
    MaxTime = 1
INVARIANTS
    TypeOK
    NoDanglingSession
    PositionsTold
    NoIdleSlot
PROPERTIES
    AdmittedWithinLimit
SYMMETRY MCSymmetry
CHECK_DEADLOCK FALSE
