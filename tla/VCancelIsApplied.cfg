SPECIFICATION Spec
CONSTANTS
    Delivery = {d1}
    MaxEvents = 2
    MaxFaults = 0
    SessionNamesTenant = FALSE
    NULL = NULL
INVARIANT CancelIsApplied
CHECK_DEADLOCK FALSE
