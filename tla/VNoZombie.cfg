CONSTANTS
    u1 = u1
    u2 = u2
    a1 = a1
    a2 = a2
    User = {u1, u2}
    Adapter = {a1, a2}
    NULL = NULL
    Says = {"connecting", "connected"}
    MaxHeal = 2
    MaxWrites = 1
    MaxFaults = 0
    MaxCrashes = 0
SPECIFICATION Spec
INVARIANT NoZombie
CHECK_DEADLOCK FALSE
