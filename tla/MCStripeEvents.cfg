SPECIFICATION Spec
CONSTANTS
    Delivery = {d1, d2}
    MaxEvents = 3
    MaxFaults = 1
    SessionNamesTenant = TRUE
    NULL = NULL
SYMMETRY Symmetric
INVARIANTS
    TypeOK
    HandledOnce
    CompletedIsWritten
    CopiesAgree
CHECK_DEADLOCK FALSE
