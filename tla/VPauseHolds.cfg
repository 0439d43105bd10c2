CONSTANTS
    w1 = w1
    u1 = u1
    Worker = {w1}
    User = {u1}
    NULL = NULL
    Total = 4
    Segment = 3
    CheckEvery = 2
    MaxAttempts = 2
    MaxStalls = 0
    MaxFaults = 0
SPECIFICATION Spec
PROPERTIES PauseHolds
CHECK_DEADLOCK FALSE
