SPECIFICATION Spec
CONSTANTS
    h1 = h1
    h2 = h2
    Handler = {h1, h2}
    NULL = NULL
    Letter <- Mail
    Flows = 2
    Waits = 2
    Skew = 1
    Ttl = 2
    Horizon = 4
SYMMETRY Symmetry
INVARIANTS
    TypeOK
    HandledOnce
    OneStepEach
