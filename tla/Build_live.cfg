CONSTANTS
    Parts = {"schedule", "memory"}
    None = None
    Nodes = {a, b, c, d, e}
    Deps <- JoinedPlan
    a = a
    b = b
    c = c
    d = d
    e = e
    Workers = {w1, w2, w3}
    Retained = {b}
    Checkpointed = {a, b, d, e}
    Inspecting = TRUE
    WarnRaises = FALSE
    Procs = {p1, p2}
    p1 = p1
    p2 = p2
    Leases = {l1, l2, l3}
    Charge <- TwoCharges
    MaxMem <- NobodyAsks
    Budgets = {4}
    Total = 8
    Reserve = 2
    LeastMargin = 1
    Other = 5
    Live = TRUE
    Interrupts = FALSE
    Looks = {g1}
    ChildCharge = 1
    LookCharge = 2
    GateBudgets = {None, 1, 3, 6}
    Totals = {None, 1, 8}
    Availables = {None, 3, 4}
SPECIFICATION Spec
INVARIANTS SuccessIsWhole
PROPERTIES BuildEnds DomainGetsOn
\* A build ends.
CHECK_DEADLOCK FALSE
