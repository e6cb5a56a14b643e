CONSTANTS
    Claims = {c1, c2, c3}
    Builds = {x1}
    Runs = {r1, r2, r3}
    Slots = 2
    NoClaim = NoClaim
    NoAction = NoAction
    ReadyActions = {a1, a2}
    MaxReady = 3
    Entries = {e1}
    Trust = 2
    MaxForgets = 1
    MaxTime = 2
    None = None
SPECIFICATION Spec
SYMMETRY Symmetry
INVARIANTS RunsWithinSlots NoLostWake
PROPERTIES FindingsAreFresh
\* Every action may be over.
CHECK_DEADLOCK FALSE
