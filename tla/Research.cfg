SPECIFICATION ResearchSpec
CONSTANTS
    k1 = k1
    k2 = k2
    k3 = k3
    Observed = {k1}
    Probe = {k2, k3}
    BucketOf <- Buckets
    MaxBucket = 2
    MaxActive = 1
    MaxBars = 2
    UpdateBatch = 1
    PerCycle = 1
    MaxMetricFaults = 1
    Symbol = {"s1", "s2"}
    MaxObs = 2
    Frame = 2
    MaxHold = 2
    LabelBatch = 1
    MaxBar = 4
    MaxLabelFaults = 1
    Proc = {"p1"}
    LockTtl = 1
    Replay = 1
    TailRows = 1
    FlushN = 2
    MaxTrades = 2
    MaxLosses = 1
INVARIANTS
    ResearchTypeOK
    ActiveBounded
    PathConsistent
    LabelIsDeserved
PROPERTIES
    PathOnlyGrows
    DeliveredIsSettled
    EveryMetricEnds
    EveryObservationIsLabelled
