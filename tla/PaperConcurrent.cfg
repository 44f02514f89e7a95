SPECIFICATION Spec
CONSTANTS
  btc = btc
  eth = eth
  btcLow = btcLow
  ethLow = ethLow
  Symbol = {btc}
  Key <- OneKey
  SymOf <- SymOfKey
  MaxTrades = 2
  MaxPositions = 1
  MaxCrashes = 0
  MaxCommands = 1
  DbFails = TRUE
  LabelBarriers = {"SL", "TP1", "TP2", "TIME"}
INVARIANTS ReasonMatchesStatus
