SPECIFICATION FairSpec
CONSTANTS
  c1 = c1
  c2 = c2
  Cycles = {c1}
  MaxHour = 4
  Settle = 1
  PageSize = 2
  Required = 2
  Moves = {"quiet", "enter", "exit", "round"}
  FilterChanges = TRUE
INVARIANT EntryAccounted
PROPERTY EveryHourScored
