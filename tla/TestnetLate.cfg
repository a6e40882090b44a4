SPECIFICATION FairSpec
CONSTANTS
  FeeDen = 10
  MaxCandle = 2
  CandlesPerDay = 2
  MaxLots = 2
  StepSize = 1
  MinQty = 1
  Prices <- OnePrice
  FeeAssets = {"quote"}
  FeeDens = {5}
  UnitCost = 12
  MaxApiErrors = 1
  Cooldown = 0
  LateDelivery = TRUE
  OddStatus = {}
PROPERTY SubmittedIsResolved
INVARIANT NeverOversold
