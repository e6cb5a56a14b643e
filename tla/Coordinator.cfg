CONSTANTS
    Keys = {k1, k2}
    Passes = {q1, q2}
    MaxAttempts = 2
    LateWorkers = TRUE
    MaxTotalClaims = 4
    MaxOutages = 2
SPECIFICATION Spec
SYMMETRY KeySymmetry
CONSTRAINT Bounded
INVARIANTS TypeOK LeasesMatchRunning EndedBatchIsQuiet RemainingDepsExact ReadyParentsAreDone
PROPERTIES LiveLeaseIsKept ImplementsLifecycle
\* A deleted batch stops.
CHECK_DEADLOCK FALSE
