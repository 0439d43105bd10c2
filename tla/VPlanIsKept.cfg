SPECIFICATION Spec
CONSTANTS
    Call = {c1, c2}
    Agent = {sys}
    System = sys
    Channel = {ch1}
    NULL = NULL
    Limit <- OneEach
    MaxFaults = 0
    MaxRevived = 0
INVARIANT PlanIsKept
