CONSTANTS
    Parts = {"worker", "install", "time"}
    Lapse = 3
    Workers = {w1, w2, w3}
    Nobody = Nobody
    MaxTime = 6
    Unauthorised = FALSE
SPECIFICATION Spec
INVARIANTS NothingLeftRunning ProtectionMatchesWork RunsOnCompleteRelease TimeIsCovered
PROPERTIES RevokedActionEnds
\* A worker that got SIGTERM stops.
CHECK_DEADLOCK FALSE
