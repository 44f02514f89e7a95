SPECIFICATION Spec
CONSTANTS
    btc = btc
    eth = eth
    o1 = o1
    o2 = o2
    o3 = o3
    NoOid = NoOid
    Symbol = {btc}
    Oid = {o1, o2}
    SymbolOf <- OneSymbol
    MaxPositions = 2
    MaxCrashes = 0
    CloseIfProtectionFails = TRUE
INVARIANT
    AtMostOneLiveOrder
