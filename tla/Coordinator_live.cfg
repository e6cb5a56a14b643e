CONSTANTS
    Keys = {k1, k2}
    Passes = {p1}
    MaxAttempts = 2
    LateWorkers = TRUE
    MaxTotalClaims = 4
    MaxOutages = 2
SPECIFICATION LiveSpec
PROPERTIES BatchEnds
\* A deleted batch stops.
CHECK_DEADLOCK FALSE
