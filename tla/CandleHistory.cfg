SPECIFICATION Spec
CONSTANTS
  r1 = r1
  r2 = r2
  Runs = {r1, r2}
  MaxHour = 4
  MinutesPerHour = 2
  PageLimit = 3
  Cutoff = 3
  AlwaysServed = {0, 3, 4}
  OddHours = {2}
  MaxErrors = 1
  Audits = 2
SYMMETRY EitherRun
INVARIANTS VerdictsSound QuietAuditExact RebuiltIsComplete
PROPERTIES UndisturbedRecoveryExact EveryRowAnswered
