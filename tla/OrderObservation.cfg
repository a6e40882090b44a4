SPECIFICATION Spec
CONSTANTS
  FeeDen = 10
  OddStatus = {"EXPIRED_IN_MATCH"}
  Quantity = 3
  Held = 3
  HeldCost = 12
  Funds = 50
  Prices <- TwoPrices
  FeeDens = {5, 10}
  BaseFee = 1
INVARIANTS BalancesFollowRow BookValueConserved EstimateFlagged
CHECK_DEADLOCK FALSE
