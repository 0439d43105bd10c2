CONSTANTS
    m1 = m1
    m2 = m2
    j1 = j1
    j2 = j2
    j3 = j3
    j4 = j4
    m3 = m3
    Msg = {m1, m2, m3}
    Job = {j1, j2, j3, j4}
    NULL = NULL
    MinDelay = 2
    MaxDelay = 3
    MaxWait = 1
    KeyLife = 4
    MinTyping = 1
    MaxTyping = 2
    Backoff <- MCBackoff
    MaxAttempts = 2
    PurgeSeesReady = FALSE
    MaxTime = 6
    MaxFaults = 0
    MaxMishaps = 0
SPECIFICATION Spec
SYMMETRY Symmetry
PROPERTIES PurgeIsComplete
CHECK_DEADLOCK FALSE
