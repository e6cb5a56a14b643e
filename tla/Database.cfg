CONSTANTS
    k1 = k1
    k2 = k2
    Keys = {k1, k2}
    BuildEdges <- SecondOnFirst
    OtherBatches = {b1}
    Sessions = {s1, s2}
    NoKey = NoKey
    NoRow = NoRow
    Nodes = {i1, i2, i3, i4}
    MaxEdges = 5
    MaxAttempts = 3
    StandardMb = 2
    Peaks = {1, 2}
    Ttl = 2
    MaxClaims = 4
    MaxBatches = 3
    None = None
    BadNumber = BadNumber
SPECIFICATION PartsSpec
SYMMETRY Symmetry
INVARIANTS NoDeadlock AcceptedBatchCanBeStored PrioritiesAreExact
PROPERTIES CommitsAreSerial RetriesAsDocumented MemoryIsRemembered
\* A submission is answered, and batches end.
CHECK_DEADLOCK FALSE
