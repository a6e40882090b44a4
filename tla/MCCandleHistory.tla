-------------------------- MODULE MCCandleHistory --------------------------
EXTENDS CandleHistory, TLC

CONSTANTS r1, r2

EitherRun == Permutations({r1, r2})
=============================================================================
