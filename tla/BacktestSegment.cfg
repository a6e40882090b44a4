SPECIFICATION Spec
CONSTANTS
  None = None
  D = 20
  Fee = 1
  Slippage = 1
  StopDistance = 4
  MaxRisk = 7
  MaxPosition = 20
  FixedRisk = 8
  MinQty = 1
  MaxQty = 0
  MinNotional = 24
  MaxPrice = 0
  MaxDrawdown = 9
  MaxDailyLoss = 5
  MaxTrades = 2
  CooldownBars = 2
  MinQuote <- LeastQuote
  Shapes <- MarketShapes
  Bars = 5
  BarsPerDay = 4
  StartEquity <- Money
  Parts = 5
  Train = 3
  Validation = 1
  WindowSize = 1
INVARIANTS BooksBalance DrawdownLatches CooldownRespected PlansAreAffordable LossesPlanned ReportReconciles
PROPERTIES EntriesWithinDay
CHECK_DEADLOCK FALSE
