-------------------------- MODULE MCResearchProtocol --------------------------
EXTENDS ResearchProtocol

\* A gap with a block on either side; one whose second segment is a fragment;
\* one that cuts short the last block the other has.
StoredSeries == {(0..9) \ {5}, (0..9) \ {7}, (0..9) \ {8}}

Warmups == <<2, 3>>

Outcome(trades, realized, fall, best) ==
  [trades |-> trades, realized |-> realized, fall |-> fall, best |-> best]

BlockResults ==
  {Outcome(0, 0, 0, 0), Outcome(9, 4, 5, 40), Outcome(5, -2, 9, 0)}
=============================================================================
