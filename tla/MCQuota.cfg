SPECIFICATION Spec
CONSTANTS
    Call = {c1, c2}
    Agent = {sys, a1, a2}
    System = sys
    Channel = {ch1, ch2}
    NULL = NULL
    Limit <- OneEach
    MaxFaults = 1
    MaxRevived = 1
SYMMETRY Symmetric
INVARIANTS
    TypeOK
    CountersAreTrue
    OvershootIsBounded
    NeverLost
    OneHome
