CONSTANTS
    s1 = s1
    s2 = s2
    Sock = {s1, s2}
    NULL = NULL
    MaxReconnect = 2
    MaxClosing = 1
    MaxRender = 1
    EndReportsClose = TRUE
SPECIFICATION Spec

INVARIANT NeverStranded
CHECK_DEADLOCK FALSE
