CONSTANTS
    m1 = m1
    m2 = m2
    j1 = j1
    j2 = j2
    j3 = j3
    Msg = {m1, m2}
    Job = {j1, j2, j3}
    NULL = NULL
    MinDelay = 2
    MaxDelay = 3
    MaxWait = 1
    KeyLife = 4
    MinTyping = 1
    MaxTyping = 2
    Backoff <- MCBackoff
    MaxAttempts = 2
    PurgeSeesReady = FALSE
    MaxTime = 6
    MaxFaults = 1
    MaxMishaps = 1
SPECIFICATION Spec
SYMMETRY Symmetry
INVARIANTS TypeOK SlotsApart SlotIsKept SentOnce
PROPERTIES KeepsDelivery
CHECK_DEADLOCK FALSE
