CONSTANTS
    u1 = u1
    u2 = u2
    a1 = a1
    a2 = a2
    User = {u1, u2}
    Adapter = {a1, a2}
    NULL = NULL
    Says = {"connecting", "connected"}
    MaxHeal = 2
    MaxWrites = 1
    MaxFaults = 1
    MaxCrashes = 1
SPECIFICATION Spec
SYMMETRY Symmetry
INVARIANTS TypeOK RegisterIsFresh OneDial StoppedIsTakenDown
CHECK_DEADLOCK FALSE
