--------------------------- MODULE MCTestnetCycle ---------------------------
(* TestnetCycle on small instances: values of the constants for TLC.       *)
EXTENDS TestnetCycle

OnePrice  == {10}
TwoPrices == {10, 20}
=============================================================================
