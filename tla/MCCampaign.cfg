CONSTANTS
    w1 = w1
    w2 = w2
    u1 = u1
    u2 = u2
    Worker = {w1, w2}
    User = {u1, u2}
    NULL = NULL
    Total = 4
    Segment = 3
    CheckEvery = 2
    MaxAttempts = 2
    MaxStalls = 1
    MaxFaults = 1
SPECIFICATION Spec
SYMMETRY Symmetry
INVARIANTS TypeOK NoneSkipped OneRun PauseIsSeen
CHECK_DEADLOCK FALSE
