---------------------------- MODULE BacktestReport ----------------------------
(***************************************************************************)
(* What is reported of a run: the figures of compute_performance_report    *)
(* (metrics/performance.py) and compute_extended_diagnostics               *)
(* (metrics/extended_report.py) that money and counts decide, and the      *)
(* train, validation and test labels run_backtest (backtest/engine.py)     *)
(* puts on one continuous run.  Ratios of floats, annualised figures and   *)
(* the bootstrap are left out.                                             *)
(***************************************************************************)
EXTENDS BacktestSegment, FiniteSetsExt

CONSTANTS
  Parts,      \* the fractions of the splits, as Train and Validation of Parts
  Train,
  Validation,
  WindowSize  \* _ROLLING_WINDOW_TRADE_COUNT

ASSUME ReportAssumption ==
  /\ {Parts, Train, Validation, WindowSize} \subseteq Nat \ {0}
  /\ Train + Validation < Parts

All == DOMAIN trades

Total(op(_), ks) == MapThenSumSet(op, ks)

-----------------------------------------------------------------------------
(* compute_pnl_breakdown over some of the trades and an open position.     *)

Realized(ks) == LET profit(k) == trades[k].profit IN Total(profit, ks)

EntrySlippage(price, quantity) == quantity * (BuyPrice(price) * D - price * D2) * D2

ExitSlippage(level, quantity) == quantity * (level * D - SellPrice(level)) * D

\* Marked at the price given, with the entry fee and no invented exit.
Unrealized(o, mark) ==
  IF o = None THEN 0
  ELSE (mark * D - BuyPrice(o.price)) * D2 * D * o.quantity - BuyFee(o.quantity, o.price)

Breakdown(ks, o, mark) ==
  LET entryFee(k) == trades[k].entryFee
      exitFee(k)  == trades[k].exitFee
      slip(k)     == EntrySlippage(trades[k].price, trades[k].quantity)
                     + ExitSlippage(trades[k].level, trades[k].quantity)
      open(f)     == IF o = None THEN 0 ELSE f
  IN  [realized  |-> Realized(ks),
       total     |-> Realized(ks) + Unrealized(o, mark),
       entryFees |-> Total(entryFee, ks) + open(BuyFee(o.quantity, o.price)),
       exitFees  |-> Total(exitFee, ks),
       slippage  |-> Total(slip, ks) + open(EntrySlippage(o.price, o.quantity))]

\* compute_accounting_identity.
IdentityHolds(cash, base, mark, reported) == cash + base * mark * D4 = reported

\* What the prices alone would have paid: no fee, no slippage.
PriceMove(ks, o, mark) ==
  LET move(k) == trades[k].quantity * (trades[k].level - trades[k].price * D2) * D2
  IN  Total(move, ks) + (IF o = None THEN 0 ELSE o.quantity * (mark - o.price) * D4)

-----------------------------------------------------------------------------
(* compute_performance_report and compute_trade_distribution.              *)

Exits(ks, reason) == Cardinality({k \in ks : trades[k].reason = reason})

Winners(ks) == {k \in ks : trades[k].profit > 0}

Losers(ks) == {k \in ks : trades[k].profit < 0}

\* The streak that ends with each trade; a trade without profit or loss ends
\* both kinds.
Streaks(winning) ==
  LET ends[k \in 0..Len(trades)] ==
        IF k = 0 THEN 0 ELSE IF k \in winning THEN ends[k - 1] + 1 ELSE 0
  IN  ends

LongestStreak(winning) == Max({Streaks(winning)[k] : k \in 0..Len(trades)})

\* _max_drawdown_pct and _max_drawdown_with_time keep the highest equity seen.
PeakOf(points) ==
  LET highest[k \in 1..Len(points)] ==
        IF k = 1 THEN points[1].equity ELSE Greater(highest[k - 1], points[k].equity)
  IN  highest

\* Fault: only a drought that has ended is measured.
UnderwaterEnded(points) ==
  LET loop[k \in 1..Len(points)] ==
        IF k = 1 THEN [peak |-> points[1].equity, at |-> 1, since |-> 0, best |-> 0]
        ELSE LET w == loop[k - 1]
                 e == points[k].equity
             IN  IF e >= w.peak
                 THEN [peak |-> e, at |-> k, since |-> 0,
                       best |-> IF w.since # 0 THEN Greater(w.best, k - w.since) ELSE w.best]
                 ELSE [w EXCEPT !.since = IF @ = 0 THEN w.at ELSE @]
  IN  loop[Len(points)].best

\* The longest time underwater, in candles: from the peak to the point that
\* regains it, or to the end of the run.
Underwater(points) ==
  LET loop[k \in 1..Len(points)] ==
        IF k = 1 THEN [peak |-> points[1].equity, at |-> 1, since |-> 0, best |-> 0]
        ELSE LET w == loop[k - 1]
                 e == points[k].equity
             IN  IF e >= w.peak
                 THEN [peak |-> e, at |-> k, since |-> 0,
                       best |-> IF w.since # 0 THEN Greater(w.best, k - w.since) ELSE w.best]
                 ELSE [w EXCEPT !.since = IF @ = 0 THEN w.at ELSE @]
      last == loop[Len(points)]
  IN  IF last.since # 0 THEN Greater(last.best, Len(points) - last.since) ELSE last.best

\* compute_rolling_window_diagnostics: the trades of each window.
RollingWindows ==
  {{k \in All : (k - 1) \div WindowSize = w} : w \in 0..((Len(trades) - 1) \div WindowSize)}

-----------------------------------------------------------------------------
(* The shutdown activations of run_segment and explain_window.             *)

RemainedLatched(g) ==
  shutdown[g].first # 0 /\ (lastBuy = 0 \/ lastBuy < shutdown[g].first)

\* Rejections counted in rejected_entries_by_reason.
Rejections == diag.refused + Total(LAMBDA g : shutdown[g].blocked, Gates)

\* The gate reported to have stopped the trading: the earliest that latched.
StoppedBy ==
  {g \in Gates : RemainedLatched(g)
                 /\ \A h \in Gates : RemainedLatched(h) => shutdown[g].first <= shutdown[h].first}

-----------------------------------------------------------------------------
(* run_backtest: chronological labels on the run.                          *)

SplitEnds ==
  LET n     == Len(curve)
      train == (n * Train) \div Parts
  IN  [train |-> train, validation |-> train + (n * Validation) \div Parts, test |-> n]

Labels == {"train", "validation", "test"}

First(label) ==
  CASE label = "train"      -> 1
    [] label = "validation" -> SplitEnds.train + 1
    [] label = "test"       -> SplitEnds.validation + 1

Last(label) == SplitEnds[label]

\* A trade belongs to the split its exit falls into.
SplitTrades(label) == {k \in All : trades[k].out \in First(label)..Last(label)}

\* The point whose snapshot, mark and equity the split's report ends with.
Snapshot(label) == curve[Last(label)]

-----------------------------------------------------------------------------
(* Properties of a finished run and of its report.                         *)

\* The equity an entry is sized against when k trades have closed.
EquityAfter(k) == StartEquity + Realized(1..k)

RiskShare == IF policy = "rr" THEN FixedRisk ELSE MaxRisk

StopOfTrade(t) == StopOf(BuyPrice(t.price))

PlannedLoss(t) == t.quantity * LossPerUnit(BuyPrice(t.price), StopOfTrade(t))

\* Sizing keeps its word: a trade stopped out without a gap loses no more than
\* the risk budget of the equity it was entered with, all costs included; one
\* closed at its target earns twice the planned loss; a loss beyond the budget
\* takes a gap, and under the policy the report counts exactly those.  No
\* position is held past a candle that reached its stop.
LossesPlanned ==
  /\ \A k \in All : LET t == trades[k] IN
       /\ t.reason = "STOP_LOSS" /\ t.level = StopOfTrade(t)
            => -t.profit * D <= RiskShare * EquityAfter(k - 1)
       /\ t.reason = "TAKE_PROFIT" => t.profit >= MinReward * PlannedLoss(t)
       /\ t.reason = "STOP_LOSS" => t.level <= StopOfTrade(t)
  /\ diag.gapLosses = IF policy = "rr"
                      THEN Cardinality({k \in All : /\ trades[k].reason = "STOP_LOSS"
                                                    /\ trades[k].level < StopOfTrade(trades[k])})
                      ELSE 0
  /\ phase \in {"mark", "next"} /\ opened # None => Level(candle.low) > stop

\* A day stops: no position is entered on a day whose own closed trades have
\* lost the daily limit, or which has seen max_trades_per_day fills.
EntriesWithinDay ==
  [][opened = None /\ opened' # None =>
       LET today == {k \in All : DayOf(trades[k].out) = DayOf(i)}
           fills == Cardinality(today) + Cardinality({k \in All : DayOf(trades[k].in) = DayOf(i)})
       IN  fills < MaxTrades /\ ~LostToday(Realized(today), day.start)]_vars

\* The breakdown accounts for every unit of money: it adds up to the change of
\* the equity, and with fees and slippage added back to the move of the prices.
MoneyReconciles ==
  LET b == Breakdown(All, opened, candle.close)
  IN  /\ b.realized = portfolio.realized
      /\ b.total = Equity(candle.close) - StartEquity
      /\ b.total + b.entryFees + b.exitFees + b.slippage = PriceMove(All, opened, candle.close)
      /\ IdentityHolds(portfolio.quote, portfolio.base, candle.close, curve[Len(curve)].equity)

\* The labels part the trades, and where a split has candles its report is
\* that of its own last candle.
SplitsReconcile ==
  /\ \A k \in All : Cardinality({l \in Labels : k \in SplitTrades(l)}) = 1
  /\ \A l \in Labels : First(l) <= Last(l) =>
       LET s == Snapshot(l)
           closed == {k \in All : trades[k].out <= Last(l)}
       IN  /\ IdentityHolds(s.cash, s.base, s.mark, s.equity)
           /\ Breakdown(closed, s.opened, s.mark).total = s.equity - StartEquity

\* Every BUY the strategy gave became an entry, was counted under the reason it
\* was refused for, or is the signal the last candle leaves unexecuted; every
\* entry was closed for one of three reasons or is the open position.  No plan
\* approved before its fill fails after it.
SignalsAccounted ==
  /\ diag.buys = diag.entries + Rejections + (IF pending = "BUY" THEN 1 ELSE 0)
  /\ diag.entries = Len(trades) + (IF opened = None THEN 0 ELSE 1)
  /\ Len(trades) = Exits(All, "STRATEGY") + Exits(All, "STOP_LOSS") + Exits(All, "TAKE_PROFIT")
  /\ Exits(All, "STRATEGY") + (IF pending = "EXIT" THEN 1 ELSE 0) <= diag.exits
  /\ policy = "baseline" => Exits(All, "TAKE_PROFIT") = 0
  /\ diag.afterFill = 0
  /\ StoppedBy # {} => Rejections > 0

\* Between s and e the equity stays below that of s, a peak of the run.
Drought(s, e) ==
  /\ s < e
  /\ \A k \in 1..s : curve[k].equity <= curve[s].equity
  /\ \A k \in (s + 1)..(e - 1) : curve[k].equity < curve[s].equity
  /\ e > s + 1 \/ curve[e].equity < curve[s].equity

\* The figures computed in one pass are those they are named for: the longest
\* drought, the longest streak, the peak so far, windows that part the trades.
FiguresExact ==
  LET ks == DOMAIN curve
      isStreak(a, b, win) == a..b \subseteq win
  IN  /\ Underwater(curve) = Max({0} \cup {p[2] - p[1] : p \in {q \in ks \X ks : Drought(q[1], q[2])}})
      /\ \A win \in {Winners(All), Losers(All)} :
           LongestStreak(win) =
             Max({0} \cup {p[2] - p[1] + 1 : p \in {q \in All \X All : q[1] <= q[2] /\ isStreak(q[1], q[2], win)}})
      /\ \A k \in ks : PeakOf(curve)[k] = Max({curve[j].equity : j \in 1..k})
      /\ UNION RollingWindows = All

\* A finished run's report is true of the run.
ReportReconciles ==
  phase = "done" => MoneyReconciles /\ SplitsReconcile /\ SignalsAccounted /\ FiguresExact
=============================================================================
