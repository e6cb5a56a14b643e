CONSTANTS
    Keys = {k1, k2}
    Passes = {p1, p2}
    MaxAttempts = 2
    LateWorkers = FALSE
    MaxTotalClaims = 4
    MaxOutages = 1
SPECIFICATION Spec
CONSTRAINT Bounded
PROPERTIES OnlyMissingParentsAreRequeued
\* A deleted batch stops.
CHECK_DEADLOCK FALSE
