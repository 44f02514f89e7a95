SPECIFICATION Spec
CONSTANTS
    Proc = {"p1", "p2"}
    Ttl = 1
    Replay = 1
    TailRows = 1
    FlushN = 2
    MaxTrades = 1
    MaxFaults = 0
INVARIANT OneWriter
