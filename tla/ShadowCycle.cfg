SPECIFICATION Spec
CONSTANTS
  c1 = c1
  c2 = c2
  Cycles = {c1, c2}
  MaxHour = 5
  Settle = 1
  PageSize = 3
  Required = 2
  Moves = {"missing", "quiet", "enter", "exit", "round"}
  FilterChanges = FALSE
SYMMETRY EitherCycle
INVARIANTS RowsFollowOneRun ScoredWithHistory EveryTradeAnnounced
