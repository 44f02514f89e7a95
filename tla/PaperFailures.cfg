SPECIFICATION FairSpec
CONSTANTS
  btc = btc
  eth = eth
  btcLow = btcLow
  ethLow = ethLow
  Symbol = {btc}
  Key <- OneKey
  SymOf <- SymOfKey
  MaxTrades = 2
  MaxPositions = 1
  MaxCrashes = 1
  MaxCommands = 0
  DbFails = TRUE
  LabelBarriers = {"TP1"}
PROPERTIES UntrackedIsFinal OpenIsEventuallyClosed
