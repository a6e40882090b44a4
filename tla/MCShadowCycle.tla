---------------------------- MODULE MCShadowCycle ----------------------------
EXTENDS ShadowCycle, TLC

CONSTANTS c1, c2

EitherCycle == Permutations({c1, c2})
=============================================================================
