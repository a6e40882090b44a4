------------------------- MODULE MCOrderObservation -------------------------
(* OrderObservation on a small instance.                                    *)
EXTENDS OrderObservation

TwoPrices == {10, 20}
=============================================================================
