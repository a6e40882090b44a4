------------------------------- MODULE Scorecard -------------------------------
(***************************************************************************)
(* score_candidate (research/scorecard.py): the verdict on a candidate     *)
(* from what its evaluated blocks came to.  r gives for each block its     *)
(* closed trades, its realized return in percent of the starting equity,   *)
(* its largest drawdown and the share of its best trade.                   *)
(***************************************************************************)
EXTENDS Integers, FiniteSetsExt

CONSTANTS
  MinTrades,    \* MIN_TOTAL_TRADES_FOR_EVIDENCE
  MinTraded,    \* MIN_BLOCKS_WITH_A_TRADE
  MaxFall,      \* MAX_ACCEPTABLE_DRAWDOWN_PCT
  MaxBlockLoss, \* -MATERIALLY_NEGATIVE_BLOCK_REALIZED_RETURN_PCT
  MaxBestShare, \* MAX_BEST_TRADE_CONTRIBUTION_PCT
  MinPositive   \* MIN_POSITIVE_REALIZED_PNL_BLOCK_FRACTION, in percent

ASSUME ScoreAssumption ==
  {MinTrades, MinTraded, MaxFall, MaxBlockLoss, MaxBestShare, MinPositive} \subseteq Nat \ {0}

Outcomes == [trades : Nat, realized : Int, fall : Nat, best : Nat]

Evidence(r) ==
  /\ MapThenSumSet(LAMBDA b : r[b].trades, DOMAIN r) >= MinTrades
  /\ Cardinality({b \in DOMAIN r : r[b].trades > 0}) >= MinTraded

\* The k-th smallest realized return.
Ranked(r, k) ==
  CHOOSE v \in {r[b].realized : b \in DOMAIN r} :
    /\ Cardinality({b \in DOMAIN r : r[b].realized < v}) < k
    /\ Cardinality({b \in DOMAIN r : r[b].realized <= v}) >= k

\* statistics.median, times two.
TwiceMedian(r) ==
  LET n == Cardinality(DOMAIN r) IN Ranked(r, (n + 1) \div 2) + Ranked(r, n \div 2 + 1)

Gaining(r) == {b \in DOMAIN r : r[b].realized > 0}

\* Only closed trades count: neither the criteria nor the evidence look at an
\* open position's paper gain.
Robust(r) ==
  /\ TwiceMedian(r) > 0
  /\ MapThenSumSet(LAMBDA b : r[b].realized, DOMAIN r) > 0
  /\ \A b \in DOMAIN r : r[b].realized >= -MaxBlockLoss /\ r[b].fall <= MaxFall
  /\ Gaining(r) # {} /\ \A b \in Gaining(r) : r[b].best <= MaxBestShare
  /\ 100 * Cardinality(Gaining(r)) >= MinPositive * Cardinality(DOMAIN r)

Verdict(r) ==
  IF ~Evidence(r) THEN "INSUFFICIENT_EVIDENCE"
  ELSE IF Robust(r) THEN "RESEARCH_SURVIVOR" ELSE "REJECTED"
=============================================================================
