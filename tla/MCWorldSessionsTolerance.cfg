SPECIFICATION Spec
CONSTANTS
    a = a
    b = b
    c = c
    a1 = a1
    a2 = a2
    b1 = b1
    c1 = c1
    Accounts <- MCFewAccounts
    Sessions <- MCFewSessions
    AccountOf <- MCFewAccountOf
    Staff <- MCNoStaff
    Limits <- MCLimit1
    NoSession = NoSession
    NoTime = NoTime
    Tolerance = 1
    ExpireTime = 2
    MaxTime = 2
PROPERTIES
    ToleranceExpires
CHECK_DEADLOCK FALSE
