CONSTANTS
    Parts = {"worker"}
    Lapse = 3
    Workers = {w1}
    Nobody = Nobody
    MaxTime = 1
    Unauthorised = FALSE
SPECIFICATION Spec
INVARIANTS SigtermStopsAction
CHECK_DEADLOCK FALSE
