CONSTANTS
    u1 = u1
    a1 = a1
    a2 = a2
    User = {u1}
    Adapter = {a1, a2}
    NULL = NULL
    Says = {"connecting", "connected"}
    MaxHeal = 2
    MaxWrites = 1
    MaxFaults = 0
    MaxCrashes = 0
SPECIFICATION Spec
PROPERTY StoppedIsLeftAlone
CHECK_DEADLOCK FALSE
