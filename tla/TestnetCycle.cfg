SPECIFICATION Spec
CONSTANTS
  FeeDen = 10
  MaxCandle = 2
  CandlesPerDay = 2
  MaxLots = 5
  StepSize = 2
  MinQty = 2
  Prices <- OnePrice
  FeeAssets = {"quote", "other"}
  FeeDens = {5, 10}
  UnitCost = 12
  MaxApiErrors = 2
  Cooldown = 1
  LateDelivery = FALSE
  OddStatus = {"EXPIRED_IN_MATCH"}
INVARIANTS TypeOK NoUnrecordedOrder ResolvedFullyBooked BooksFollowAccount JournalTruthful SellOnlyFromTrustedBooks QuoteNotOverstated
PROPERTIES RowsOnlyAdvance BooksEveryFillOnce
