SPECIFICATION Spec
CONSTANTS
  btc = btc
  eth = eth
  doge = doge
  Symbol = {btc, eth, doge}
  GroupOf <- Groups
  Signal <- SomeSignals
  Modes = {"live"}
  Capital = 40
  MaxOpen = 2
  SmallMaxOpen = 2
  AllowSecond = TRUE
  FixedMargin = 16
  MaxMargin = 17
  MinMargin = 5
  TradePct = 45
  TotalPct = 75
  FreePct = 35
  Buffer = 1
  DayPct = 8
  WeekPct = 18
  StopBelow = 20
  MaxApiFailures = 1
  Step = 1
  MaxLoss = 4
  Gain = 1
  DaysPerWeek = 2
  MaxDay = 2
  MaxTrades = 5
PROPERTY LossLimitBlocksEntries
