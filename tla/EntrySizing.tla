----------------------------- MODULE EntrySizing -----------------------------
(***************************************************************************)
(* How much the backtest buys, at what stop and target, and what a fill    *)
(* costs: sizing/position_sizer.py, sizing/exchange_filters.py,            *)
(* execution/order_validator.py, execution/backtest_broker.py, the gates   *)
(* of risk/engine.py and the fixed reward-to-risk policy of                *)
(* backtest/risk_reward.py.                                                *)
(*                                                                         *)
(* The code computes in Decimal.  Here every rate is a number of Dths and  *)
(* every value an integer: a price of the market counts ticks, the fill of *)
(* a purchase Dths of a tick, a level that is sold at 1/D^2, the fill of a *)
(* sale 1/D^3 and money 1/D^4, so that no operation but the code's own     *)
(* roundings rounds.  A quantity counts steps of the lot size.             *)
(***************************************************************************)
EXTENDS Integers

CONSTANTS
  D,            \* denominator of every rate
  Fee,          \* taker_fee_pct
  Slippage,     \* slippage_pct
  StopDistance, \* stop_distance_pct
  MaxRisk,      \* max_risk_per_trade_pct
  MaxPosition,  \* max_position_pct
  FixedRisk,    \* FIXED_MAX_RISK_PER_TRADE_PCT
  MinQty,       \* min_qty, in steps
  MaxQty,       \* max_qty, in steps, 0 for none
  MinNotional,  \* min_notional, in ticks times steps
  MaxPrice      \* max_price, in ticks, 0 for none

ASSUME SizingAssumption ==
  /\ D \in Nat \ {0}
  /\ Fee \in 0..(D - 1) /\ Slippage \in 0..(D - 1) /\ StopDistance \in 1..(D - 1)
  /\ MaxRisk \in 1..D /\ MaxPosition \in 1..D /\ FixedRisk \in 1..D
  /\ MinQty \in Nat /\ MaxQty \in Nat /\ MinNotional \in Nat /\ MaxPrice \in Nat

\* MIN_NET_REWARD_TO_RISK
MinReward == 2

D2 == D * D
D4 == D2 * D2

Least(a, b) == IF a <= b THEN a ELSE b

-----------------------------------------------------------------------------
(* The simulated fills.                                                    *)

BuyPrice(price) == price * (D + Slippage)

BuyFee(quantity, price) == quantity * BuyPrice(price) * Fee * D2

BuyCost(quantity, price) == quantity * BuyPrice(price) * (D + Fee) * D2

SellPrice(level) == level * (D - Slippage)

SellFee(quantity, level) == quantity * SellPrice(level) * Fee

\* A price of the market as a level that is sold at.
Level(price) == price * D2

\* The stop of a position filled at fill.
StopOf(fill) == fill * (D - StopDistance)

-----------------------------------------------------------------------------
(* The exchange's filters.                                                 *)

MeetsLotSize(quantity) == quantity >= MinQty /\ (MaxQty = 0 \/ quantity <= MaxQty)

MeetsMinNotional(price, quantity) == price * quantity >= MinNotional

\* What the filters find wrong with a quantity, if anything.
FilterReason(price, quantity, otherwise) ==
  IF ~MeetsLotSize(quantity) THEN "BELOW_MIN_LOT_SIZE"
  ELSE IF ~MeetsMinNotional(price, quantity) THEN "BELOW_MIN_NOTIONAL"
  ELSE otherwise

\* validate_order: the quantity is a whole number of steps already.
ValidationReason(price, quantity) ==
  IF quantity <= 0 THEN "ZERO_QUANTITY_AFTER_ROUNDING"
  ELSE FilterReason(price, quantity, "VALIDATED")

-----------------------------------------------------------------------------
(* What a position loses at its stop and gains at its target, per step of  *)
(* quantity and with every cost; fill is what was paid.                    *)

LossPerUnit(fill, stop) == fill * (D + Fee) * D2 - SellPrice(stop) * (D - Fee)

GainPerUnit(fill, target) ==
  SellPrice(Level(target)) * (D - Fee) - fill * (D + Fee) * D2

Ceiling(a, b) == -((-a) \div b)

\* _solve_target_price, then _round_target_up_to_tick.
Target(fill, loss) ==
  Ceiling(MinReward * loss + fill * (D + Fee) * D2, D2 * (D - Slippage) * (D - Fee))

TargetTooHigh(target) == MaxPrice > 0 /\ target > MaxPrice

-----------------------------------------------------------------------------
(* Sizing: a quantity and the reason it is or is not approved.             *)

Decision(quantity, reason) == [quantity |-> quantity, reason |-> reason]

BaselineQuantity(equity, price) ==
  Least((equity * MaxRisk) \div (D * LossPerUnit(BuyPrice(price), StopOf(price) * D)),
        (equity * MaxPosition) \div (D * price * D4))

\* compute_risk_based_buy_quantity.  With StopDistance > 0 the loss per unit
\* and the stop are positive.
BaselineSizing(equity, price) ==
  IF equity <= 0 THEN Decision(0, "INVALID_EQUITY")
  ELSE LET q == BaselineQuantity(equity, price)
       IN  Decision(q, FilterReason(price, q, "SIZED_OK"))

\* compute_sell_quantity.
SellSizing(held, price) ==
  IF held <= 0 THEN Decision(0, "NO_SELLABLE_QUANTITY")
  ELSE Decision(held, FilterReason(price, held, "SIZED_OK"))

\* Fault: the fee is not reserved.
PlannedQuantityUnreserved(equity, quote, price) ==
  Least((equity * FixedRisk) \div (D * LossPerUnit(BuyPrice(price), StopOf(price) * D)),
        quote \div (price * D4))

PlannedQuantity(equity, quote, price) ==
  Least((equity * FixedRisk) \div (D * LossPerUnit(BuyPrice(price), StopOf(price) * D)),
        quote \div (BuyPrice(price) * (D + Fee) * D2))

\* plan_risk_reward_entry: from the reference price, before the fill.
PlanReason(equity, quote, price) ==
  LET fill   == BuyPrice(price)
      loss   == LossPerUnit(fill, StopOf(price) * D)
      q      == PlannedQuantity(equity, quote, price)
      target == Target(fill, loss)
  IN  IF equity <= 0 THEN "INVALID_EQUITY"
      ELSE IF quote <= 0 THEN "INSUFFICIENT_QUOTE_BALANCE"
      ELSE IF q <= 0 \/ ~MeetsLotSize(q) THEN "BELOW_MIN_LOT_SIZE"
      ELSE IF ~MeetsMinNotional(price, q) THEN "BELOW_MIN_NOTIONAL"
      ELSE IF TargetTooHigh(target) \/ target <= price THEN "INVALID_TARGET"
      ELSE IF q * GainPerUnit(fill, target) < MinReward * q * loss
           THEN "NET_REWARD_TO_RISK_BELOW_MINIMUM"
      ELSE "SIZED_OK"

PlanSizing(equity, quote, price) ==
  Decision(PlannedQuantity(equity, quote, price), PlanReason(equity, quote, price))

\* build_realized_plan: the stop and target of the real fill.
RealizedPlan(quantity, fill) ==
  LET loss == LossPerUnit(fill, StopOf(fill))
  IN  [stop   |-> StopOf(fill),
       target |-> Target(fill, loss),
       risk   |-> quantity * loss]

\* What build_realized_plan checks of them, against the equity before the fill.
RealizedPlanHolds(equity, quantity, fill) ==
  LET plan == RealizedPlan(quantity, fill)
  IN  /\ ~TargetTooHigh(plan.target)
      /\ plan.target * D > fill
      /\ plan.risk * D <= equity * FixedRisk
      /\ quantity * GainPerUnit(fill, plan.target) >= MinReward * plan.risk

-----------------------------------------------------------------------------
(* RiskEngine.evaluate, in a backtest: the kill switch, the age of the     *)
(* data, duplicates, API errors and reconciliation are never against it,   *)
(* so an EXIT is always approved.                                          *)

CONSTANTS
  MaxDrawdown,  \* max_drawdown_pct
  MaxDailyLoss, \* max_daily_loss_pct
  MaxTrades,    \* max_trades_per_day
  CooldownBars, \* cooldown_bars_after_loss
  MinQuote      \* min_quote_balance

ASSUME GateAssumption ==
  /\ MaxDrawdown \in 1..D /\ MaxDailyLoss \in 1..D
  /\ MaxTrades \in Nat \ {0} /\ CooldownBars \in Nat /\ MinQuote \in Nat

\* Whether equity is at least the allowed share below the peak.
TooDeep(equity, peak) == peak > 0 /\ (peak - equity) * D >= MaxDrawdown * peak

\* A day's profit is kept in money and compared with the day's first equity.
LostToday(profit, start) == start > 0 /\ profit * D <= -(MaxDailyLoss * start)

BuyGate(equity, quote, peak, profit, start, fills, cooldown, quantity, price) ==
  IF TooDeep(equity, peak) THEN "MAX_DRAWDOWN_SHUTDOWN"
  ELSE IF LostToday(profit, start) THEN "MAX_DAILY_LOSS_SHUTDOWN"
  ELSE IF fills >= MaxTrades THEN "MAX_TRADES_PER_DAY_REACHED"
  ELSE IF cooldown > 0 THEN "COOLDOWN_AFTER_LOSS_ACTIVE"
  ELSE IF quote < MinQuote THEN "BELOW_MIN_QUOTE_BALANCE"
  ELSE IF equity <= 0 THEN "INVALID_EQUITY"
  ELSE IF quantity * price * D4 * D > MaxPosition * equity THEN "EXCEEDS_MAX_POSITION_PCT"
  ELSE "APPROVED"
=============================================================================
