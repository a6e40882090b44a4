--------------------------- MODULE BacktestSegment ---------------------------
(***************************************************************************)
(* run_segment (backtest/engine.py): one simulation over the candles of a  *)
(* gap-free segment, from the first candle that has its warm-up.  Each     *)
(* candle rolls the day over, fills the signal pending from the candle     *)
(* before at its open, protects the position with its stop and, under the  *)
(* reward-to-risk policy, its target, marks the equity at its close and    *)
(* asks the strategy for the next signal.  The loop is sequential: phase   *)
(* is where in its body it stands.                                         *)
(*                                                                         *)
(* The candles are any of a set of shapes in any order, a gap between one  *)
(* candle's close and the next one's open included, and the strategy may   *)
(* signal whatever its position allows.                                    *)
(***************************************************************************)
EXTENDS EntrySizing, Sequences

CONSTANTS
  Shapes,      \* candles the market can bring: [open, high, low, close]
  Bars,        \* bound: candles in the segment
  BarsPerDay,  \* candles of a UTC day
  StartEquity, \* starting_equity
  None

Candles ==
  {c \in [open : Nat \ {0}, high : Nat, low : Nat, close : Nat \ {0}] :
     c.low <= c.open /\ c.open <= c.high /\ c.low <= c.close /\ c.close <= c.high}

ASSUME SegmentAssumption ==
  /\ Shapes \subseteq Candles
  /\ {Bars, BarsPerDay, StartEquity} \subseteq Nat \ {0}
  /\ None \notin Int /\ None \notin {"BUY", "EXIT"}
  /\ None \notin [at : Nat, price : Nat, quantity : Nat, risk : Int \cup {None}]

VARIABLES
  policy,    \* "baseline", or "rr": use_fixed_risk_reward_policy
  phase,     \* where the body of the loop stands
  i,         \* the current candle's number, 0 before the first
  candle,    \* the current candle
  portfolio, \* PortfolioState
  opened,    \* open_trade
  stop,      \* stop_price
  target,    \* target_price
  day,       \* trades_today, daily_realized_pnl, daily_start_equity
  cooldown,  \* cooldown_bars_remaining
  peak,      \* peak_equity
  pending,   \* pending_signal
  trades,    \* closed trades, oldest first
  curve,     \* equity_curve with portfolio_snapshots
  diag,      \* the counters of _DiagBuilder
  shutdown,  \* per risk gate: the first and last candle it refused an entry at, and how often
  lastBuy    \* candle of the last filled BUY, 0 for none

position == <<portfolio, opened, stop, target>>
vars == <<policy, phase, i, candle, position, day, cooldown, peak, pending,
          trades, curve, diag, shutdown, lastBuy>>

\* What is recorded of entries.
record == <<diag, shutdown, lastBuy>>

Gates == {"MAX_DRAWDOWN_SHUTDOWN", "MAX_DAILY_LOSS_SHUTDOWN",
          "MAX_TRADES_PER_DAY_REACHED", "COOLDOWN_AFTER_LOSS_ACTIVE",
          "BELOW_MIN_QUOTE_BALANCE", "INVALID_EQUITY", "EXCEEDS_MAX_POSITION_PCT"}

Flat(quote, realized) ==
  [side |-> "FLAT", quote |-> quote, base |-> 0, entry |-> 0, fee |-> 0,
   realized |-> realized]

Long(quote, base, entry, fee, realized) ==
  [side |-> "LONG", quote |-> quote, base |-> base, entry |-> entry, fee |-> fee,
   realized |-> realized]

Equity(price) == portfolio.quote + portfolio.base * price * D4

Greater(a, b) == IF a >= b THEN a ELSE b

DayOf(n) == (n - 1) \div BarsPerDay

Init ==
  /\ policy \in {"baseline", "rr"}
  /\ phase = "next"
  /\ i = 0
  /\ candle = None
  /\ portfolio = Flat(StartEquity, 0)
  /\ opened = None /\ stop = None /\ target = None
  /\ day = [fills |-> 0, profit |-> 0, start |-> StartEquity]
  /\ cooldown = 0
  /\ peak = StartEquity
  /\ pending = None
  /\ trades = <<>> /\ curve = <<>>
  /\ diag = [buys |-> 0, exits |-> 0, entries |-> 0, refused |-> 0,
             afterFill |-> 0, gapLosses |-> 0]
  /\ shutdown = [g \in Gates |-> [first |-> 0, last |-> 0, blocked |-> 0]]
  /\ lastBuy = 0

-----------------------------------------------------------------------------
(* The open of a candle.                                                   *)

\* Fault: the day's counters start anew at every candle.
NewDayAlways == TRUE

NewDay == i = 0 \/ DayOf(i + 1) # DayOf(i)

\* Fault: a new day forgets the drawdown.
PeakAtOpenForgetful(price) == IF NewDay THEN Equity(price) ELSE peak

PeakAtOpen(price) == peak

\* The day rolls over at the open, before anything is filled there.
NextCandle(c) ==
  /\ phase = "next"
  /\ i < Bars
  /\ i' = i + 1
  /\ candle' = c
  /\ day' = IF NewDay THEN [fills |-> 0, profit |-> 0, start |-> Equity(c.open)] ELSE day
  /\ cooldown' = Greater(0, cooldown - 1)
  /\ peak' = PeakAtOpen(c.open)
  /\ phase' = IF pending = None THEN "protect" ELSE "resolve"
  /\ UNCHANGED <<policy, position, pending, trades, curve, record>>

-----------------------------------------------------------------------------
(* _resolve_pending_signal, at the candle's open.                          *)

Sizing ==
  IF policy = "rr"
  THEN PlanSizing(Equity(candle.open), portfolio.quote, candle.open)
  ELSE BaselineSizing(Equity(candle.open), candle.open)

\* The peak the gates see includes the equity at this open.
PeakNow == Greater(peak, Equity(candle.open))

Gate ==
  BuyGate(Equity(candle.open), portfolio.quote, PeakNow, day.profit, day.start, day.fills,
          cooldown, Sizing.quantity, candle.open)

\* The first check a BUY fails: sizing, risk, validation, the plan of the fill.
BuyVerdict ==
  IF Sizing.reason # "SIZED_OK" THEN "unsized"
  ELSE IF Gate # "APPROVED" THEN Gate
  ELSE IF ValidationReason(candle.open, Sizing.quantity) # "VALIDATED" THEN "invalid"
  ELSE IF policy = "rr" /\ ~RealizedPlanHolds(Equity(candle.open), Sizing.quantity,
                                              BuyPrice(candle.open))
       THEN "plan fails after the fill"
  ELSE "filled"

\* A pending signal lives for one candle, whatever becomes of it.
Resolved ==
  /\ phase = "resolve"
  /\ pending' = None
  /\ peak' = PeakNow
  /\ UNCHANGED <<policy, i, candle, curve>>

\* Rejected by anything but a risk gate: only counted.
RejectBuy ==
  /\ Resolved /\ pending = "BUY"
  /\ BuyVerdict \in {"unsized", "invalid", "plan fails after the fill"}
  /\ phase' = "protect"
  /\ diag' = [diag EXCEPT !.refused = @ + 1,
                          !.afterFill = @ + (IF BuyVerdict = "plan fails after the fill"
                                             THEN 1 ELSE 0)]
  /\ UNCHANGED <<position, day, cooldown, trades, shutdown, lastBuy>>

\* record_risk_gate_rejection.
BlockBuy ==
  /\ Resolved /\ pending = "BUY"
  /\ BuyVerdict \in Gates
  /\ phase' = "protect"
  /\ shutdown' = [shutdown EXCEPT ![BuyVerdict] =
                    [first   |-> IF @.first = 0 THEN i ELSE @.first,
                     last    |-> i,
                     blocked |-> @.blocked + 1]]
  /\ UNCHANGED <<position, day, cooldown, trades, diag, lastBuy>>

\* apply_buy raises InvalidTransitionError and the run ends without a result.
AbortBuy ==
  /\ Resolved /\ pending = "BUY"
  /\ BuyVerdict = "filled"
  /\ BuyCost(Sizing.quantity, candle.open) > portfolio.quote
  /\ phase' = "aborted"
  /\ UNCHANGED <<position, day, cooldown, trades, record>>

FillBuy ==
  /\ Resolved /\ pending = "BUY"
  /\ BuyVerdict = "filled"
  /\ BuyCost(Sizing.quantity, candle.open) <= portfolio.quote
  /\ LET q    == Sizing.quantity
         fill == BuyPrice(candle.open)
         plan == RealizedPlan(q, fill)
     IN  /\ portfolio' = Long(portfolio.quote - BuyCost(q, candle.open), portfolio.base + q,
                              fill, BuyFee(q, candle.open), portfolio.realized)
         /\ opened' = [at |-> i, price |-> candle.open, quantity |-> q,
                       risk |-> IF policy = "rr" THEN plan.risk ELSE None]
         /\ stop' = plan.stop
         /\ target' = IF policy = "rr" THEN plan.target ELSE None
  /\ day' = [day EXCEPT !.fills = @ + 1]
  /\ diag' = [diag EXCEPT !.entries = @ + 1]
  /\ lastBuy' = i
  /\ phase' = "protect"
  /\ UNCHANGED <<cooldown, trades, shutdown>>

-----------------------------------------------------------------------------
(* apply_sell and _apply_exit_fill.                                        *)

\* Fault: the fee of the entry is forgotten.
SellProfitGross(quantity, level) ==
  quantity * (SellPrice(level) - portfolio.entry * D2) * D - SellFee(quantity, level)

SellProfit(quantity, level) ==
  quantity * (SellPrice(level) - portfolio.entry * D2) * D
    - SellFee(quantity, level) - portfolio.fee

\* Fault: the cooldown is not set.
CooldownNotSet(profit) == cooldown

CooldownAfter(profit) == IF profit < 0 THEN CooldownBars ELSE cooldown

\* The whole position is sold at level, for the reason given.
Close(level, reason) ==
  LET q      == portfolio.base
      profit == SellProfit(q, level)
  IN  /\ portfolio' = Flat(portfolio.quote + q * SellPrice(level) * D - SellFee(q, level),
                           portfolio.realized + profit)
      /\ trades' = Append(trades,
           [in |-> opened.at, out |-> i, price |-> opened.price, level |-> level,
            quantity |-> q, profit |-> profit, reason |-> reason,
            entryFee |-> portfolio.fee, exitFee |-> SellFee(q, level)])
      /\ diag' = IF reason = "STOP_LOSS" /\ opened.risk # None /\ -profit > opened.risk
                 THEN [diag EXCEPT !.gapLosses = @ + 1] ELSE diag
      /\ day' = [fills  |-> day.fills + 1,
                 profit |-> IF day.start > 0 THEN day.profit + profit ELSE day.profit,
                 start  |-> day.start]
      /\ cooldown' = CooldownAfter(profit)
      /\ opened' = None /\ stop' = None /\ target' = None
      /\ UNCHANGED <<shutdown, lastBuy>>

ExitVerdict ==
  LET s == SellSizing(portfolio.base, candle.open)
  IN  IF s.reason # "SIZED_OK" THEN s.reason
      ELSE ValidationReason(candle.open, s.quantity)

\* Too small to be sold at this price: the position stays, with its stop.
RejectExit ==
  /\ Resolved /\ pending = "EXIT"
  /\ ExitVerdict # "VALIDATED"
  /\ phase' = "protect"
  /\ UNCHANGED <<position, day, cooldown, trades, record>>

FillExit ==
  /\ Resolved /\ pending = "EXIT"
  /\ ExitVerdict = "VALIDATED"
  /\ Close(Level(candle.open), "STRATEGY")
  /\ phase' = "protect"

-----------------------------------------------------------------------------
(* Protection, from the candle of the fill on.                             *)

\* Fault: a position is protected from the candle after its fill only.
StopHitLater ==
  portfolio.side = "LONG" /\ stop # None /\ Level(candle.low) <= stop /\ opened.at < i

StopHit == portfolio.side = "LONG" /\ stop # None /\ Level(candle.low) <= stop

TargetHit ==
  /\ portfolio.side = "LONG" /\ policy = "rr" /\ target # None
  /\ candle.high >= target

\* A gap through the stop fills at the open.
StopFill == Least(stop, Level(candle.open))

\* _execute_stop_exit: when the candle reaches both, the stop is taken.
StopExit ==
  /\ phase = "protect"
  /\ StopHit
  /\ Close(StopFill, "STOP_LOSS")
  /\ phase' = "mark"
  /\ UNCHANGED <<policy, i, candle, peak, pending, curve>>

\* _execute_take_profit_exit: never better than the target.
TakeProfitExit ==
  /\ phase = "protect"
  /\ ~StopHit /\ TargetHit
  /\ Close(Level(target), "TAKE_PROFIT")
  /\ phase' = "mark"
  /\ UNCHANGED <<policy, i, candle, peak, pending, curve>>

NoProtection ==
  /\ phase = "protect"
  /\ ~StopHit /\ ~TargetHit
  /\ phase' = "mark"
  /\ UNCHANGED <<policy, i, candle, position, day, cooldown, peak, pending, trades, curve,
                 record>>

-----------------------------------------------------------------------------
(* The close of a candle.                                                  *)

\* generate_signal: a strategy enters when flat and exits when long.
Signals == IF portfolio.side = "FLAT" THEN {None, "BUY"} ELSE {None, "EXIT"}

Mark(signal) ==
  /\ phase = "mark"
  /\ peak' = Greater(peak, Equity(candle.close))
  /\ pending' = signal
  /\ curve' = Append(curve, [equity |-> Equity(candle.close), mark |-> candle.close,
                             cash |-> portfolio.quote, base |-> portfolio.base,
                             opened |-> opened])
  /\ diag' = [diag EXCEPT !.buys = @ + (IF signal = "BUY" THEN 1 ELSE 0),
                          !.exits = @ + (IF signal = "EXIT" THEN 1 ELSE 0)]
  /\ phase' = "next"
  /\ UNCHANGED <<policy, i, candle, position, day, cooldown, trades, shutdown, lastBuy>>

\* The segment ends after any candle; a signal still pending is not executed.
Finish ==
  /\ phase = "next" /\ i > 0
  /\ phase' = "done"
  /\ UNCHANGED <<policy, i, candle, position, day, cooldown, peak, pending, trades, curve,
                 record>>

Next ==
  \/ \E c \in Shapes : NextCandle(c)
  \/ RejectBuy \/ BlockBuy \/ AbortBuy \/ FillBuy
  \/ RejectExit \/ FillExit
  \/ StopExit \/ TakeProfitExit \/ NoProtection
  \/ \E s \in Signals : Mark(s)
  \/ Finish

Spec == Init /\ [][Next]_vars

-----------------------------------------------------------------------------
(* Properties.                                                             *)

\* The state keeps its types.
TypeOK ==
  /\ policy \in {"baseline", "rr"}
  /\ phase \in {"next", "resolve", "protect", "mark", "done", "aborted"}
  /\ i \in 0..Bars
  /\ i > 0 => candle \in Shapes
  /\ portfolio \in [side : {"FLAT", "LONG"}, quote : Int, base : Nat, entry : Nat,
                    fee : Nat, realized : Int]
  /\ opened # None => opened \in [at : 1..Bars, price : Nat, quantity : Nat, risk : Int \cup {None}]
  /\ stop \in Nat \cup {None}
  /\ target \in Int \cup {None}
  /\ day \in [fills : Nat, profit : Int, start : Int]
  /\ cooldown \in Nat
  /\ peak \in Int
  /\ pending \in {None, "BUY", "EXIT"}

\* The cash is the starting equity, what trading has earned and what the open
\* position has cost; a position, its record and its stop come and go together.
BooksBalance ==
  /\ portfolio.quote + portfolio.base * portfolio.entry * D2 * D + portfolio.fee
       = StartEquity + portfolio.realized
  /\ portfolio.quote >= 0
  /\ IF portfolio.side = "LONG"
     THEN /\ portfolio.base > 0
          /\ opened # None /\ opened.quantity = portfolio.base
          /\ stop = StopOf(portfolio.entry)
          /\ policy = "rr" <=> target # None
     ELSE /\ portfolio.base = 0 /\ portfolio.fee = 0
          /\ opened = None /\ stop = None /\ target = None

\* The drawdown shutdown never recovers within a run: a run that has refused
\* an entry for it enters no position any more.
DrawdownLatches ==
  LET first == shutdown["MAX_DRAWDOWN_SHUTDOWN"].first IN first # 0 => lastBuy < first

\* The entry that follows trade k, 0 for none.
NextEntry(k) ==
  IF k < Len(trades) THEN trades[k + 1].in ELSE IF opened # None THEN opened.at ELSE 0

\* After a losing trade cooldown_bars_after_loss candles pass, counted from
\* that of the exit, before the next entry.
CooldownRespected ==
  \A k \in DOMAIN trades : trades[k].profit < 0 /\ NextEntry(k) # 0 =>
     NextEntry(k) >= trades[k].out + Greater(1, CooldownBars)

\* Under the reward-to-risk policy the quantity leaves room for slippage and
\* fee: no entry costs more than the cash there is.
PlansAreAffordable == phase = "aborted" => policy = "baseline"
=============================================================================
