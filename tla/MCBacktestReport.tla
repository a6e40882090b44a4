--------------------------- MODULE MCBacktestReport ---------------------------
EXTENDS BacktestReport

Candle(open, high, low, close) ==
  [open |-> open, high |-> high, low |-> low, close |-> close]

\* Prices in ticks.  A position entered at 10 has its stop near 8.4 and its
\* target near 21.
MarketShapes ==
  {Candle(10, 10, 10, 10),  \* quiet
   Candle(10, 11, 7, 9),    \* through the stop
   Candle(10, 24, 9, 20),   \* to the target
   Candle(3, 12, 3, 11)}    \* a gap down, then a recovery
Money == 85 * D4
LeastQuote == 5 * D4
=============================================================================
