SPECIFICATION FairSpec
CONSTANTS
    Delivery = {d1, d2, d3}
    Threshold = 3
    ProbeLimit = 1
    MaxAttempts = 3
INVARIANTS
    TypeOK
    SlotIsOwned
    ProbeIsAlone
PROPERTIES
    KeepsContract
    Recovers

