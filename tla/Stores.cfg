CONSTANTS
    None = None
    Keys = {k1, k2}
    BlobsOf <- TwoBuilds
    Timeouts = {1, 2}
    Procs = {p1, p2}
    Readers = {r1}
    k1 = k1
    x = x
    y = y
    z = z
    Family = {a, b, c}
    MaxSize = 2
    Limit = 3
    MaxStarts = 2
    JobCounts = {1, 2}
SPECIFICATION Spec
SYMMETRY Symmetry
INVARIANTS EntriesAreBacked RestoredIsWhole AcceptedIndexNeverUndercounts EndedWithinLimit
PROPERTIES ContractNeverWeakens GcKeepsLiveBlobs
