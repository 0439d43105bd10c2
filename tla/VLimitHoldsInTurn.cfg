SPECIFICATION Spec
CONSTANTS
    Call = {c1}
    Agent = {sys, a1}
    System = sys
    Channel = {ch1, ch2}
    NULL = NULL
    Limit <- OneEach
    MaxFaults = 0
    MaxRevived = 1
INVARIANT LimitHoldsInTurn
