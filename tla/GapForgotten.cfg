SPECIFICATION Spec
CONSTANTS
  r1 = r1
  r2 = r2
  Runs = {r1}
  MaxHour = 4
  MinutesPerHour = 2
  PageLimit = 3
  Cutoff = 3
  AlwaysServed = {0, 4}
  OddHours = {2}
  MaxErrors = 0
  Audits = 1
PROPERTY GapsNotForgotten
