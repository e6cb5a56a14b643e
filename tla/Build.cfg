CONSTANTS
    Parts = {"schedule", "memory", "gate"}
    None = None
    Nodes = {a, b, c, d, e}
    Deps <- JoinedPlan
    a = a
    b = b
    c = c
    d = d
    e = e
    Workers = {w1, w2, w3}
    Retained = {c}
    Checkpointed = {a, b, d, e}
    Inspecting = TRUE
    WarnRaises = TRUE
    Procs = {p1, p2}
    p1 = p1
    p2 = p2
    Leases = {l1, l2, l3, l4}
    Charge <- TwoCharges
    MaxMem <- FirstAsks
    Budgets = {9}
    Total = 8
    Reserve = 2
    LeastMargin = 1
    Other = 0
    Live = TRUE
    Interrupts = TRUE
    Looks = {g1}
    ChildCharge = 1
    LookCharge = 2
    GateBudgets = {None, 1, 3, 6}
    Totals = {None, 1, 8}
    Availables = {None, 3, 4}
SPECIFICATION Spec
SYMMETRY LeaseSymmetry
INVARIANTS DepsBuiltFirst ActiveFamiliesAreProtected MarginIsKept
PROPERTIES AdmissionsFitBudget GateFollowsAdmission
\* A build ends.
CHECK_DEADLOCK FALSE
