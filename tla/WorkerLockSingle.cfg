SPECIFICATION Spec
CONSTANTS
    Worker = {w1, w2}
    NoWorker = NoWorker
    Ttl = 1
    MaxTime = 3
INVARIANT
    SingleWorker
