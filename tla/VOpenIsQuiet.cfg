SPECIFICATION Spec
CONSTANTS
    Delivery = {d1, d2}
    Threshold = 1
    ProbeLimit = 1
    MaxAttempts = 3
PROPERTY OpenIsQuiet
