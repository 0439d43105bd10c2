CONSTANTS
    u1 = u1
    a1 = a1
    a2 = a2
    User = {u1}
    Adapter = {a1, a2}
    NULL = NULL
    Says = {"qr_pending"}
    MaxHeal = 1
    MaxWrites = 1
    MaxFaults = 0
    MaxCrashes = 1
SPECIFICATION FairSpec
PROPERTIES CallsEnd DeadIsHealed
CHECK_DEADLOCK FALSE
