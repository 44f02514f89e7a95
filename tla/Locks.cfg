SPECIFICATION LocksSpec
CONSTANTS
    Worker = {w1, w2}
    NoWorker = NoWorker
    Ttl = 1
    MaxTime = 3
    MaxCalls = 2
    Period = 3
    MaxClock = 11
    Watcher = {"w1", "w2", "w3"}
    Misled = {"w1", "w2", "w3"}
    Thread = {"worker", "health"}
    Requests = {"health"}
    Keep = 1
    MaxSecond = 3
    MaxFaults = 1
    Proc = {"p1", "p2"}
    LockTtl = 1
    Replay = 1
    TailRows = 1
    FlushN = 2
    MaxTrades = 2
    MaxLosses = 1
INVARIANTS
    TypeOK
    OwnedUnlessDisturbed
    WindowBounded
    WatcherOwnsFile
    PartsTypeOK
    RowsUnique
    StoredOrLost
PROPERTIES
    FreshLockRespected
    PruneKeepsAValid
