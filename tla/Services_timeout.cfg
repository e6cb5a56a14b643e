CONSTANTS
    Parts = {"scaling"}
    ReleaseBatches = {t1, t2}
    Every = Every
    MaxRequests = 4
    Keys = {k1, k2}
    States = {"waiting", "done"}
    MaxXid = 3
    b1 = b1
    b2 = b2
    warm = warm
    burst = burst
    MaxReady = 1
    NoJob = NoJob
    Replicas = {r1, r2}
    Scaler = r1
    MaxOpen = 1
    WarmWorkers = 1
    MaxBurst = 2
    RunSlots = 1
    Hold = 1
    MaxRestarts = 1
    LateEffect = TRUE
    Unknown = Unknown
SPECIFICATION Spec
PROPERTIES ScalerIsToldDemand
