SPECIFICATION Spec
CONSTANTS
  btc = btc
  eth = eth
  btcLow = btcLow
  ethLow = ethLow
  Symbol = {btc, eth}
  Key <- TwoKeys
  SymOf <- SymOfKey
  MaxTrades = 2
  MaxPositions = 2
  MaxCrashes = 1
  MaxCommands = 0
  DbFails = FALSE
  LabelBarriers = {"SL", "TP1", "TP2", "TIME"}
INVARIANTS TypeOK MemoryIsTable
PROPERTIES BookSpec
