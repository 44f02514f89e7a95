SPECIFICATION Spec
CONSTANTS
    btc = btc
    eth = eth
    o1 = o1
    o2 = o2
    o3 = o3
    NoOid = NoOid
    Symbol = {btc, eth}
    Oid = {o1, o2, o3}
    SymbolOf <- TwoSymbols
    MaxPositions = 1
    MaxCrashes = 0
    CloseIfProtectionFails = FALSE
SYMMETRY Alike
INVARIANTS
    SlotsUnlessFailed
    DuplicateOnlyAfterFailed
