SPECIFICATION Spec
CONSTANTS
  None = None
  Cutoff = 10
  BlockCount = 2
  BlockLength = 2
  HoldoutParts = 5
  HoldoutTrain = 3
  HoldoutValidation = 1
  MinTrades = 15
  MinTraded = 2
  MaxFall = 15
  MaxBlockLoss = 10
  MaxBestShare = 50
  MinPositive = 60
  Registry = 2
  Warm <- Warmups
  BaselineWarm = 3
  Covered = {"semantics"}
  Uncovered = {"riskReward"}
  Series <- StoredSeries
  Results <- BlockResults
  MaxTime = 11
  MaxEdits = 2
  EditsDuringRun = FALSE
  ClockLag = 1
INVARIANTS TestedAsEvaluated
CHECK_DEADLOCK FALSE
