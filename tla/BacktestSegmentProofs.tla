------------------------ MODULE BacktestSegmentProofs ------------------------
(***************************************************************************)
(* Theorems about BacktestSegment and BacktestReport, for every market,    *)
(* every strategy, every rate and every limit: the books balance, the      *)
(* drawdown shutdown latches, the cooldown is respected, a plan is never   *)
(* more than the cash, every trade keeps the plan it was entered with, the *)
(* limits of a day hold, and the report of a finished run is true of it.   *)
(***************************************************************************)
EXTENDS BacktestReport, Induction, TLAPS

-----------------------------------------------------------------------------
(* Arithmetic.                                                             *)

LEMMA ProductPositive ==
  ASSUME NEW a \in Nat \ {0}, NEW b \in Nat \ {0} PROVE a * b \in Nat \ {0}
OBVIOUS

LEMMA ProductNatural == ASSUME NEW a \in Nat, NEW b \in Nat PROVE a * b \in Nat
OBVIOUS

LEMMA ProductMonotone ==
  ASSUME NEW a \in Int, NEW b \in Int, NEW c \in Nat, a <= b
  PROVE  a * c <= b * c
<1>1. PICK d \in Nat : b = a + d
  <2>1. b - a \in Nat /\ b = a + (b - a) OBVIOUS
  <2> QED BY <2>1
<1>2. b * c = a * c + d * c BY <1>1
<1>3. a * c \in Int /\ d * c \in Nat OBVIOUS
<1> QED BY <1>2, <1>3

\* A quotient times its divisor is no more than what was divided.
LEMMA QuotientFits ==
  ASSUME NEW a \in Int, NEW u \in Nat \ {0}, NEW q \in Int, q <= a \div u
  PROVE  q * u <= a
<1> DEFINE n == a \div u
<1>1. n \in Int /\ n * u <= a OBVIOUS
<1> HIDE DEF n
<1>2. q * u <= n * u BY ProductMonotone DEF n
<1>3. q * u \in Int /\ n * u \in Int BY <1>1
<1> QED BY <1>1, <1>2, <1>3

LEMMA Denominators == D2 \in Nat \ {0} /\ D4 \in Nat \ {0}
<1>1. D2 \in Nat \ {0} BY SizingAssumption, ProductPositive DEF D2
<1> QED BY <1>1, ProductPositive DEF D4

LEMMA RatesTyped ==
  /\ D \in Nat \ {0} /\ Fee \in Nat /\ Slippage \in Nat /\ StopDistance \in Nat \ {0}
  /\ D + Fee \in Nat \ {0} /\ D - Fee \in Nat \ {0}
  /\ D + Slippage \in Nat \ {0} /\ D - Slippage \in Nat \ {0}
  /\ D - StopDistance \in Nat \ {0} /\ D - StopDistance < D
BY SizingAssumption

LEMMA BuyPriceTyped == ASSUME NEW p \in Nat \ {0} PROVE BuyPrice(p) \in Nat \ {0}
BY RatesTyped, ProductPositive DEF BuyPrice

\* What one step costs, with the fee.
LEMMA UnitCostPositive ==
  ASSUME NEW p \in Nat \ {0} PROVE BuyPrice(p) * (D + Fee) * D2 \in Nat \ {0}
<1>1. BuyPrice(p) * (D + Fee) \in Nat \ {0}
  BY BuyPriceTyped, RatesTyped, ProductPositive
<1> QED BY <1>1, Denominators, ProductPositive

\* A position that is stopped out loses: the stop lies below the fill.
LEMMA LossPositive ==
  ASSUME NEW p \in Nat \ {0}
  PROVE  LossPerUnit(BuyPrice(p), StopOf(p) * D) \in Nat \ {0}
<1> DEFINE f == BuyPrice(p)
           paid == f * (D + Fee)
           s == StopOf(p) * D
           got == SellPrice(s) * (D - Fee)
<1>1. f \in Nat \ {0} /\ p * D <= f
  <2>1. f = p * D + p * Slippage BY RatesTyped DEF BuyPrice
  <2>2. p * D \in Nat /\ p * Slippage \in Nat BY RatesTyped, ProductNatural
  <2> QED BY <2>1, <2>2, BuyPriceTyped
<1>2. paid \in Nat /\ p * D * D <= paid
  <2>1. paid = f * D + f * Fee BY <1>1, RatesTyped
  <2>2. f * D \in Nat /\ f * Fee \in Nat BY <1>1, RatesTyped, ProductNatural
  <2>3. (p * D) * D <= f * D BY <1>1, RatesTyped, ProductMonotone
  <2>4. (p * D) * D \in Nat BY RatesTyped, ProductNatural
  <2> QED BY <2>1, <2>2, <2>3, <2>4
<1>3. paid * D2 \in Nat /\ (p * D * D) * D2 <= paid * D2
  <2>1. p * D * D \in Nat BY RatesTyped, ProductNatural
  <2> QED BY <1>2, <2>1, Denominators, ProductMonotone, ProductNatural
<1>4. s \in Nat /\ s < p * D * D
  <2>1. StopOf(p) \in Nat /\ StopOf(p) + p * StopDistance = p * D
    BY RatesTyped, ProductNatural DEF StopOf
  <2>2. p * StopDistance \in Nat \ {0} BY RatesTyped, ProductPositive
  <2>3. (StopOf(p) + p * StopDistance) * D = s + (p * StopDistance) * D
    BY <2>1, <2>2, RatesTyped
  <2>4. (p * StopDistance) * D \in Nat \ {0} BY <2>2, RatesTyped, ProductPositive
  <2>5. s \in Nat BY <2>1, RatesTyped, ProductNatural
  <2>6. (p * D) * D = s + (p * StopDistance) * D BY <2>1, <2>3
  <2> QED BY <2>4, <2>5, <2>6
<1>5. SellPrice(s) \in Nat /\ SellPrice(s) <= s * D
  <2>1. s * D = SellPrice(s) + s * Slippage BY <1>4, RatesTyped DEF SellPrice
  <2>2. SellPrice(s) \in Nat /\ s * Slippage \in Nat
    BY <1>4, RatesTyped, ProductNatural DEF SellPrice
  <2> QED BY <2>1, <2>2
<1>6. got \in Nat /\ got <= SellPrice(s) * D
  <2>1. SellPrice(s) * D = got + SellPrice(s) * Fee BY <1>5, RatesTyped
  <2>2. got \in Nat /\ SellPrice(s) * Fee \in Nat BY <1>5, RatesTyped, ProductNatural
  <2> QED BY <2>1, <2>2
<1>7. SellPrice(s) * D <= s * D2
  <2>1. SellPrice(s) * D <= (s * D) * D
    <3>1. s * D \in Nat BY <1>4, RatesTyped, ProductNatural
    <3> QED BY <1>5, <3>1, RatesTyped, ProductMonotone
  <2>2. (s * D) * D = s * D2 BY <1>4, RatesTyped DEF D2
  <2> QED BY <2>1, <2>2
<1>8. s * D2 < (p * D * D) * D2
  <2>1. PICK g \in Nat \ {0} : p * D * D = s + g
    <3>1. p * D * D - s \in Nat \ {0} /\ p * D * D = s + (p * D * D - s)
      <4>1. p * D * D \in Nat BY RatesTyped, ProductNatural
      <4> QED BY <1>4, <4>1
    <3> QED BY <3>1
  <2>2. (s + g) * D2 = s * D2 + g * D2 BY <1>4, Denominators
  <2>3. g * D2 \in Nat \ {0} BY Denominators, ProductPositive
  <2>4. s * D2 \in Nat BY <1>4, Denominators, ProductNatural
  <2> QED BY <2>1, <2>2, <2>3, <2>4
<1>9. LossPerUnit(BuyPrice(p), StopOf(p) * D) = paid * D2 - got BY DEF LossPerUnit
<1>10. s * D2 \in Nat /\ SellPrice(s) * D \in Nat /\ (p * D * D) * D2 \in Int
  BY <1>4, <1>5, Denominators, RatesTyped, ProductNatural
<1> HIDE DEF f, paid, s, got
<1> QED BY <1>3, <1>6, <1>7, <1>8, <1>9, <1>10

-----------------------------------------------------------------------------
(* Fills.                                                                  *)

\* A purchase costs its value and its fee.
LEMMA PurchaseSplits ==
  ASSUME NEW q \in Nat, NEW p \in Nat \ {0}
  PROVE  /\ BuyCost(q, p) \in Nat /\ BuyFee(q, p) \in Nat
         /\ BuyCost(q, p) = q * BuyPrice(p) * D2 * D + BuyFee(q, p)
<1> DEFINE x == q * BuyPrice(p)
<1>1. x \in Nat BY BuyPriceTyped, ProductNatural
<1>2. BuyCost(q, p) = x * (D + Fee) * D2 /\ BuyFee(q, p) = x * Fee * D2
  BY DEF BuyCost, BuyFee
<1> HIDE DEF x
<1>3. x * (D + Fee) \in Nat /\ x * Fee \in Nat /\ x * D \in Nat
  BY <1>1, RatesTyped, ProductNatural
<1>4. x * (D + Fee) = x * D + x * Fee BY <1>1, RatesTyped
<1>5. (x * D + x * Fee) * D2 = (x * D) * D2 + (x * Fee) * D2
  BY <1>3, Denominators
<1>6. (x * D) * D2 = x * D2 * D BY <1>1, RatesTyped, Denominators
<1>7. x * (D + Fee) * D2 \in Nat /\ x * Fee * D2 \in Nat
  BY <1>3, Denominators, ProductNatural
<1>8. BuyCost(q, p) = x * D2 * D + BuyFee(q, p) BY <1>2, <1>4, <1>5, <1>6
<1> QED BY <1>2, <1>7, <1>8 DEF x

\* The purchase of a quantity within the cash over the unit cost is affordable.
LEMMA WithinCash ==
  ASSUME NEW quote \in Int, NEW p \in Nat \ {0}, NEW q \in Nat,
         q <= quote \div (BuyPrice(p) * (D + Fee) * D2)
  PROVE  BuyCost(q, p) <= quote
<1> DEFINE u == BuyPrice(p) * (D + Fee) * D2
<1>1. u \in Nat \ {0} BY UnitCostPositive
<1>2. BuyCost(q, p) = q * u
  BY BuyPriceTyped, RatesTyped, Denominators DEF BuyCost
<1> HIDE DEF u
<1>3. q <= quote \div u BY DEF u
<1> QED BY <1>1, <1>2, <1>3, QuotientFits

\* A sale brings in more than its fee.
LEMMA SaleTyped ==
  ASSUME NEW q \in Nat, NEW level \in Nat
  PROVE  /\ SellPrice(level) \in Nat /\ SellFee(q, level) \in Nat
         /\ q * SellPrice(level) * D \in Nat
         /\ SellFee(q, level) <= q * SellPrice(level) * D
<1> DEFINE x == q * SellPrice(level)
<1>1. SellPrice(level) \in Nat BY RatesTyped, ProductNatural DEF SellPrice
<1>2. x \in Nat BY <1>1, ProductNatural
<1>3. SellFee(q, level) = x * Fee BY DEF SellFee
<1> HIDE DEF x
<1>4. x * Fee \in Nat /\ x * D \in Nat BY <1>2, RatesTyped, ProductNatural
<1>5. x * D = x * Fee + x * (D - Fee) BY <1>2, RatesTyped
<1>6. x * (D - Fee) \in Nat BY <1>2, RatesTyped, ProductNatural
<1>7. x * Fee <= x * D BY <1>4, <1>5, <1>6
<1> QED BY <1>1, <1>3, <1>4, <1>7 DEF x

LEMMA ShapesTyped ==
  ASSUME NEW c \in Shapes
  PROVE  c.open \in Nat \ {0} /\ c.close \in Nat \ {0} /\ c.low \in Nat /\ c.high \in Nat
BY SegmentAssumption DEF Candles

LEMMA LevelTyped == ASSUME NEW p \in Nat PROVE Level(p) \in Nat
BY Denominators, ProductNatural DEF Level

LEMMA StopTyped == ASSUME NEW fill \in Nat PROVE StopOf(fill) \in Nat
BY RatesTyped, ProductNatural DEF StopOf

\* The divisor of the target's rounding.
LEMMA TargetTyped ==
  ASSUME NEW a \in Int PROVE Ceiling(a, D2 * (D - Slippage) * (D - Fee)) \in Int
<1> DEFINE b == D2 * (D - Slippage) * (D - Fee)
<1>1. D2 * (D - Slippage) \in Nat \ {0} BY Denominators, RatesTyped, ProductPositive
<1>2. b \in Nat \ {0} BY <1>1, RatesTyped, ProductPositive
<1> HIDE DEF b
<1>3. Ceiling(a, b) \in Int BY <1>2 DEF Ceiling
<1> QED BY <1>3 DEF b

LEMMA PlanTyped ==
  ASSUME NEW q \in Nat, NEW fill \in Nat
  PROVE  /\ RealizedPlan(q, fill).stop = StopOf(fill)
         /\ RealizedPlan(q, fill).target \in Int
         /\ RealizedPlan(q, fill).risk \in Int
<1> DEFINE loss == LossPerUnit(fill, StopOf(fill))
<1>1. loss \in Int
  <2>1. SellPrice(StopOf(fill)) \in Nat BY StopTyped, SaleTyped
  <2> QED BY <2>1, RatesTyped, Denominators DEF LossPerUnit
<1> HIDE DEF loss
<1>2. q * loss \in Int BY <1>1
<1>3. MinReward * loss + fill * (D + Fee) * D2 \in Int
  BY <1>1, RatesTyped, Denominators DEF MinReward
<1>4. Target(fill, loss) \in Int BY <1>3, TargetTyped DEF Target
<1> QED BY <1>2, <1>4 DEF RealizedPlan, loss

\* A plan that holds has its target above the fill.
LEMMA PlanAboveFill ==
  ASSUME NEW equity \in Int, NEW q \in Nat, NEW fill \in Nat,
         RealizedPlanHolds(equity, q, fill)
  PROVE  RealizedPlan(q, fill).target \in Nat
<1> DEFINE t == RealizedPlan(q, fill).target
<1>1. t \in Int /\ t * D > fill BY PlanTyped DEF RealizedPlanHolds
<1> HIDE DEF t
<1>2. CASE t < 0
  <2>1. -t \in Nat BY <1>1, <1>2
  <2>2. (-t) * D \in Nat BY <2>1, RatesTyped, ProductNatural
  <2>3. t * D = -((-t) * D) BY <1>1, RatesTyped
  <2> QED BY <1>1, <2>2, <2>3
<1> QED BY <1>1, <1>2 DEF t

-----------------------------------------------------------------------------
(* Quantities.                                                             *)

LEMMA LeastTyped ==
  ASSUME NEW a \in Int, NEW b \in Int
  PROVE  Least(a, b) \in {a, b} /\ Least(a, b) <= a /\ Least(a, b) <= b
BY DEF Least

\* Both policies size in whole steps, and a plan stays within the cash.
LEMMA QuantitiesTyped ==
  ASSUME NEW equity \in Int, NEW quote \in Int, NEW p \in Nat \ {0}
  PROVE  /\ BaselineQuantity(equity, p) \in Int
         /\ PlannedQuantity(equity, quote, p) \in Int
         /\ PlannedQuantity(equity, quote, p)
              <= quote \div (BuyPrice(p) * (D + Fee) * D2)
<1> DEFINE loss == LossPerUnit(BuyPrice(p), StopOf(p) * D)
           a1 == (equity * MaxRisk) \div (D * loss)
           a2 == (equity * MaxPosition) \div (D * p * D4)
           b1 == (equity * FixedRisk) \div (D * loss)
           b2 == quote \div (BuyPrice(p) * (D + Fee) * D2)
<1>1. loss \in Nat \ {0} BY LossPositive
<1> HIDE DEF loss
<1>2. D * loss \in Nat \ {0} BY <1>1, RatesTyped, ProductPositive
<1>3. D * p * D4 \in Nat \ {0}
  <2>1. D * p \in Nat \ {0} BY RatesTyped, ProductPositive
  <2> QED BY <2>1, Denominators, ProductPositive
<1>4. MaxRisk \in Nat /\ MaxPosition \in Nat /\ FixedRisk \in Nat BY SizingAssumption
<1>5. equity * MaxRisk \in Int /\ equity * MaxPosition \in Int /\ equity * FixedRisk \in Int
  BY <1>4
<1>6. a1 \in Int /\ a2 \in Int /\ b1 \in Int /\ b2 \in Int
  <2>1. \A x \in Int : \A y \in Nat \ {0} : x \div y \in Int OBVIOUS
  <2> QED BY <1>2, <1>3, <1>5, <2>1, UnitCostPositive
<1>7. BaselineQuantity(equity, p) = Least(a1, a2) BY DEF BaselineQuantity, loss
<1>8. PlannedQuantity(equity, quote, p) = Least(b1, b2) BY DEF PlannedQuantity, loss
<1> HIDE DEF a1, a2, b1, b2
<1>9. Least(a1, a2) \in Int /\ Least(b1, b2) \in Int /\ Least(b1, b2) <= b2
  BY <1>6, LeastTyped
<1> QED BY <1>7, <1>8, <1>9 DEF b2

-----------------------------------------------------------------------------
(* The state.                                                              *)

OpenTrades == [at : 1..Bars, price : Nat, quantity : Nat, risk : Int \cup {None}]

TradeRecords ==
  [in : 1..Bars, out : 1..Bars, price : Nat, level : Nat, quantity : Nat, profit : Int,
   reason : {"STRATEGY", "STOP_LOSS", "TAKE_PROFIT"}, entryFee : Nat, exitFee : Nat]

Shutdowns == [first : Nat, last : Nat, blocked : Nat]

SegmentType ==
  /\ policy \in {"baseline", "rr"}
  /\ phase \in {"next", "resolve", "protect", "mark", "done", "aborted"}
  /\ i \in 0..Bars
  /\ phase \in {"resolve", "protect", "mark"} => i > 0
  /\ i > 0 => candle \in Shapes
  /\ portfolio \in [side : {"FLAT", "LONG"}, quote : Int, base : Nat, entry : Nat,
                    fee : Nat, realized : Int]
  /\ opened \in OpenTrades \cup {None}
  /\ stop \in Nat \cup {None} /\ target \in Nat \cup {None}
  /\ day \in [fills : Nat, profit : Int, start : Int]
  /\ cooldown \in Nat /\ peak \in Int
  /\ pending \in {None, "BUY", "EXIT"}
  /\ trades \in Seq(TradeRecords)
  /\ shutdown \in [Gates -> Shutdowns] /\ lastBuy \in 0..Bars

\* A signal waits for the next open only, and fits the position.
PendingFits ==
  /\ phase = "resolve" => pending # None
  /\ phase \in {"protect", "mark"} => pending = None
  /\ pending = "BUY" => portfolio.side = "FLAT"
  /\ pending = "EXIT" => portfolio.side = "LONG"

LEMMA NoneApart ==
  None \notin Int /\ None # "BUY" /\ None # "EXIT" /\ None \notin OpenTrades
<1>1. OpenTrades \subseteq [at : Nat, price : Nat, quantity : Nat, risk : Int \cup {None}]
  BY SegmentAssumption DEF OpenTrades
<1> QED BY <1>1, SegmentAssumption

LEMMA EquityTyped ==
  ASSUME SegmentType, NEW p \in Nat PROVE Equity(p) \in Int
<1>1. portfolio.base * p \in Nat BY ProductNatural DEF SegmentType
<1>2. portfolio.base * p * D4 \in Nat BY <1>1, ProductNatural, Denominators
<1> QED BY <1>2 DEF Equity, SegmentType

\* What is known when a BUY is filled: every check has passed.
LEMMA FilledBuy ==
  ASSUME SegmentType, PendingFits, FillBuy
  PROVE  /\ phase = "resolve" /\ i > 0 /\ candle \in Shapes /\ portfolio.side = "FLAT"
         /\ Sizing.quantity \in Nat \ {0}
         /\ Gate = "APPROVED"
         /\ BuyCost(Sizing.quantity, candle.open) <= portfolio.quote
         /\ policy = "rr" =>
              RealizedPlanHolds(Equity(candle.open), Sizing.quantity, BuyPrice(candle.open))
<1>1. phase = "resolve" /\ pending = "BUY" /\ BuyVerdict = "filled"
  BY DEF FillBuy, Resolved
<1>2. i > 0 /\ candle \in Shapes /\ portfolio.side = "FLAT"
  BY <1>1 DEF SegmentType, PendingFits
<1>3. candle.open \in Nat \ {0} BY <1>2, ShapesTyped
<1>4. Equity(candle.open) \in Int BY <1>3, EquityTyped
<1>5. Sizing.quantity \in Int
  <2>1. BaselineQuantity(Equity(candle.open), candle.open) \in Int
    BY <1>3, <1>4, QuantitiesTyped DEF SegmentType
  <2>2. PlannedQuantity(Equity(candle.open), portfolio.quote, candle.open) \in Int
    BY <1>3, <1>4, QuantitiesTyped DEF SegmentType
  <2> QED BY <2>1, <2>2 DEF Sizing, PlanSizing, BaselineSizing, Decision
<1>6. Gate \in Gates \cup {"APPROVED"} BY DEF Gate, BuyGate, Gates
<1>7. Gate = "APPROVED" BY <1>1, <1>6 DEF BuyVerdict, Gates
<1>8. ValidationReason(candle.open, Sizing.quantity) = "VALIDATED"
  BY <1>1, <1>7 DEF BuyVerdict
<1>9. Sizing.quantity > 0 BY <1>5, <1>8 DEF ValidationReason
<1>10. policy = "rr" =>
         RealizedPlanHolds(Equity(candle.open), Sizing.quantity, BuyPrice(candle.open))
  BY <1>1, <1>7, <1>8 DEF BuyVerdict
<1>11. BuyCost(Sizing.quantity, candle.open) <= portfolio.quote BY DEF FillBuy
<1> QED BY <1>1, <1>2, <1>5, <1>7, <1>9, <1>10, <1>11

\* The next state of a fill, with its values typed.
LEMMA FilledState ==
  ASSUME SegmentType, PendingFits, FillBuy
  PROVE  /\ portfolio' \in [side : {"LONG"}, quote : Int, base : Nat, entry : Nat,
                            fee : Nat, realized : Int]
         /\ opened' \in OpenTrades /\ opened'.at = i
         /\ stop' = StopOf(BuyPrice(candle.open)) /\ stop' \in Nat
         /\ target' \in Nat \cup {None}
         /\ policy = "rr" <=> target' # None
<1> DEFINE q == Sizing.quantity
           o == candle.open
           fill == BuyPrice(o)
<1>1. q \in Nat /\ o \in Nat \ {0} /\ fill \in Nat /\ i \in 1..Bars
  <2>1. q \in Nat /\ i > 0 /\ candle \in Shapes BY FilledBuy
  <2>2. o \in Nat \ {0} BY <2>1, ShapesTyped
  <2>3. fill \in Nat BY <2>2, BuyPriceTyped
  <2>4. i \in 1..Bars BY <2>1, SegmentAssumption DEF SegmentType
  <2> QED BY <2>1, <2>2, <2>3, <2>4
<1>2. BuyCost(q, o) \in Nat /\ BuyFee(q, o) \in Nat BY <1>1, PurchaseSplits
<1>3. /\ RealizedPlan(q, fill).stop = StopOf(fill)
      /\ RealizedPlan(q, fill).target \in Int
      /\ RealizedPlan(q, fill).risk \in Int
      /\ StopOf(fill) \in Nat
  BY <1>1, PlanTyped, StopTyped
<1>4. policy = "rr" => RealizedPlan(q, fill).target \in Nat
  BY <1>1, FilledBuy, EquityTyped, PlanAboveFill DEF SegmentType
<1>5. /\ portfolio' = Long(portfolio.quote - BuyCost(q, o), portfolio.base + q, fill,
                           BuyFee(q, o), portfolio.realized)
      /\ opened' = [at |-> i, price |-> o, quantity |-> q,
                    risk |-> IF policy = "rr" THEN RealizedPlan(q, fill).risk ELSE None]
      /\ stop' = RealizedPlan(q, fill).stop
      /\ target' = IF policy = "rr" THEN RealizedPlan(q, fill).target ELSE None
  BY DEF FillBuy
<1> HIDE DEF q, o, fill
<1>6. portfolio.quote \in Int /\ portfolio.base \in Nat /\ portfolio.realized \in Int
  BY DEF SegmentType
<1>7. portfolio' \in [side : {"LONG"}, quote : Int, base : Nat, entry : Nat,
                      fee : Nat, realized : Int]
  BY <1>1, <1>2, <1>5, <1>6 DEF Long
<1>8. opened' \in OpenTrades /\ opened'.at = i BY <1>1, <1>3, <1>5 DEF OpenTrades
<1> QED BY <1>3, <1>4, <1>5, <1>7, <1>8, NoneApart DEF fill, o

\* What is known when a position is closed.
LEMMA Closed ==
  ASSUME SegmentType, BooksBalance, portfolio.side = "LONG", i > 0,
         NEW level \in Nat, NEW reason \in {"STRATEGY", "STOP_LOSS", "TAKE_PROFIT"},
         Close(level, reason)
  PROVE  /\ opened \in OpenTrades
         /\ SellProfit(portfolio.base, level) \in Int
         /\ portfolio' \in [side : {"FLAT"}, quote : Int, base : {0}, entry : {0},
                            fee : {0}, realized : Int]
         /\ portfolio'.quote >= 0
         /\ portfolio'.quote = StartEquity + portfolio'.realized
         /\ \E t \in TradeRecords :
              /\ trades' = Append(trades, t)
              /\ t.in = opened.at /\ t.out = i /\ t.profit = SellProfit(portfolio.base, level)
<1> DEFINE q == portfolio.base
           profit == SellProfit(q, level)
           gain == q * SellPrice(level) * D
           sf == SellFee(q, level)
           value == q * portfolio.entry * D2 * D
<1>1. q \in Nat /\ portfolio.entry \in Nat /\ portfolio.fee \in Nat
      /\ portfolio.quote \in Int /\ portfolio.realized \in Int
  BY DEF SegmentType
<1>2. opened \in OpenTrades BY DEF SegmentType, BooksBalance
<1>3. SellPrice(level) \in Nat /\ gain \in Nat /\ sf \in Nat /\ sf <= gain
  BY <1>1, SaleTyped
<1>4. value \in Nat
  <2>1. q * portfolio.entry \in Nat BY <1>1, ProductNatural
  <2>2. q * portfolio.entry * D2 \in Nat BY <2>1, ProductNatural, Denominators
  <2> QED BY <2>2, ProductNatural, RatesTyped
<1>5. profit = gain - value - sf - portfolio.fee
  <2>1. portfolio.entry * D2 \in Nat BY <1>1, ProductNatural, Denominators
  <2>2. q * (SellPrice(level) - portfolio.entry * D2)
          = q * SellPrice(level) - q * (portfolio.entry * D2)
    BY <1>1, <1>3, <2>1
  <2>3. q * SellPrice(level) \in Nat /\ q * (portfolio.entry * D2) \in Nat
    BY <1>1, <1>3, <2>1, ProductNatural
  <2>4. (q * SellPrice(level) - q * (portfolio.entry * D2)) * D
          = gain - (q * (portfolio.entry * D2)) * D
    BY <2>3, RatesTyped
  <2>5. (q * (portfolio.entry * D2)) * D = value BY <1>1, Denominators, RatesTyped
  <2> QED BY <2>2, <2>4, <2>5 DEF SellProfit
<1>6. portfolio.quote + value + portfolio.fee = StartEquity + portfolio.realized
      /\ portfolio.quote >= 0
  BY DEF BooksBalance
<1>7. portfolio' = Flat(portfolio.quote + gain - sf, portfolio.realized + profit)
  BY DEF Close
<1>8. trades' = Append(trades,
        [in |-> opened.at, out |-> i, price |-> opened.price, level |-> level,
         quantity |-> q, profit |-> profit, reason |-> reason,
         entryFee |-> portfolio.fee, exitFee |-> sf])
  BY DEF Close
<1> HIDE DEF profit, gain, sf, value, q
<1>9. StartEquity \in Int BY SegmentAssumption
<1>10. profit \in Int BY <1>1, <1>3, <1>4, <1>5
<1>11. portfolio' \in [side : {"FLAT"}, quote : Int, base : {0}, entry : {0}, fee : {0},
                       realized : Int]
  BY <1>1, <1>3, <1>7, <1>10 DEF Flat
<1>12. portfolio'.quote >= 0 /\ portfolio'.quote = StartEquity + portfolio'.realized
  BY <1>1, <1>3, <1>4, <1>5, <1>6, <1>7, <1>9 DEF Flat
<1>13. i \in 1..Bars BY DEF SegmentType
<1>14. [in |-> opened.at, out |-> i, price |-> opened.price, level |-> level,
        quantity |-> q, profit |-> profit, reason |-> reason,
        entryFee |-> portfolio.fee, exitFee |-> sf] \in TradeRecords
  BY <1>1, <1>2, <1>3, <1>10, <1>13 DEF TradeRecords, OpenTrades
<1>15. \E t \in TradeRecords :
         trades' = Append(trades, t) /\ t.in = opened.at /\ t.out = i /\ t.profit = profit
  BY <1>8, <1>14
<1> QED BY <1>2, <1>10, <1>11, <1>12, <1>15 DEF profit, q

\* Every exit closes a position at some level.
LEMMA ExitLevels ==
  ASSUME SegmentType, PendingFits, FillExit \/ StopExit \/ TakeProfitExit
  PROVE  /\ portfolio.side = "LONG" /\ i > 0
         /\ \E level \in Nat, reason \in {"STRATEGY", "STOP_LOSS", "TAKE_PROFIT"} :
              /\ Close(level, reason)
              /\ reason = "STOP_LOSS" => level <= stop
              /\ reason = "TAKE_PROFIT" => policy = "rr" /\ level = Level(target)
<1>1. CASE FillExit
  <2>1. phase = "resolve" /\ pending = "EXIT" /\ Close(Level(candle.open), "STRATEGY")
    BY <1>1 DEF FillExit, Resolved
  <2>2. i > 0 /\ candle \in Shapes BY <2>1 DEF SegmentType
  <2>3. Level(candle.open) \in Nat BY <2>2, ShapesTyped, LevelTyped
  <2> QED BY <2>1, <2>2, <2>3 DEF PendingFits
<1>2. CASE StopExit
  <2>1. phase = "protect" /\ StopHit /\ Close(StopFill, "STOP_LOSS") BY <1>2 DEF StopExit
  <2>2. i > 0 /\ candle \in Shapes BY <2>1 DEF SegmentType
  <2>3. Level(candle.open) \in Nat BY <2>2, ShapesTyped, LevelTyped
  <2>4. stop \in Nat /\ portfolio.side = "LONG" BY <2>1 DEF StopHit, SegmentType
  <2>5. StopFill \in Nat /\ StopFill <= stop BY <2>3, <2>4, LeastTyped DEF StopFill
  <2> QED BY <2>1, <2>2, <2>4, <2>5
<1>3. CASE TakeProfitExit
  <2>1. phase = "protect" /\ TargetHit /\ Close(Level(target), "TAKE_PROFIT")
    BY <1>3 DEF TakeProfitExit
  <2>2. i > 0 BY <2>1 DEF SegmentType
  <2>3. target \in Nat /\ portfolio.side = "LONG" /\ policy = "rr"
    BY <2>1 DEF TargetHit, SegmentType
  <2>4. Level(target) \in Nat BY <2>3, LevelTyped
  <2> QED BY <2>1, <2>2, <2>3, <2>4
<1> QED BY <1>1, <1>2, <1>3

\* An exit keeps the types, whatever else its step does.
LEMMA ExitType ==
  ASSUME SegmentType, PendingFits, BooksBalance, FillExit \/ StopExit \/ TakeProfitExit
  PROVE  SegmentType'
<1>1. portfolio.side = "LONG" /\ i > 0 /\ candle \in Shapes BY ExitLevels DEF SegmentType
<1>2. PICK level \in Nat, reason \in {"STRATEGY", "STOP_LOSS", "TAKE_PROFIT"} :
        Close(level, reason)
  BY ExitLevels
<1> DEFINE profit == SellProfit(portfolio.base, level)
<1>3. profit \in Int /\ (\E t \in TradeRecords : trades' = Append(trades, t))
      /\ portfolio' \in [side : {"FLAT", "LONG"}, quote : Int, base : Nat, entry : Nat,
                         fee : Nat, realized : Int]
  BY <1>1, <1>2, Closed
<1>4. trades' \in Seq(TradeRecords)
  <2>1. trades \in Seq(TradeRecords) BY DEF SegmentType
  <2> QED BY ONLY <1>3, <2>1
<1>5. day' = [fills  |-> day.fills + 1,
              profit |-> IF day.start > 0 THEN day.profit + profit ELSE day.profit,
              start  |-> day.start]
      /\ cooldown' = CooldownAfter(profit)
      /\ opened' = None /\ stop' = None /\ target' = None
  BY <1>2 DEF Close
<1>6. shutdown' = shutdown /\ lastBuy' = lastBuy BY <1>2 DEF Close
<1> HIDE DEF profit
<1>7. day' \in [fills : Nat, profit : Int, start : Int]
  <2>1. day.fills \in Nat /\ day.profit \in Int /\ day.start \in Int BY DEF SegmentType
  <2>2. day.fills + 1 \in Nat /\ (IF day.start > 0 THEN day.profit + profit ELSE day.profit) \in Int
    BY ONLY <1>3, <2>1
  <2> QED BY ONLY <1>5, <2>1, <2>2
<1>8. cooldown' \in Nat BY <1>5, GateAssumption DEF CooldownAfter, SegmentType
<1>9. /\ policy' = policy /\ i' = i /\ candle' = candle
      /\ phase' \in {"protect", "mark"}
      /\ peak' \in Int /\ pending' \in {None, "BUY", "EXIT"}
  <2>1. Equity(candle.open) \in Int BY <1>1, ShapesTyped, EquityTyped
  <2> peak \in Int /\ pending \in {None, "BUY", "EXIT"} BY DEF SegmentType
  <2>2. CASE FillExit BY <2>1, <2>2 DEF FillExit, Resolved, PeakNow, Greater
  <2>3. CASE StopExit BY <2>3 DEF StopExit
  <2>4. CASE TakeProfitExit BY <2>4 DEF TakeProfitExit
  <2> QED BY <2>2, <2>3, <2>4
<1> QED BY <1>1, <1>3, <1>4, <1>5, <1>6, <1>7, <1>8, <1>9 DEF SegmentType

\* What every resolution of a pending signal keeps.
LEMMA ResolvedType ==
  ASSUME SegmentType, Resolved
  PROVE  /\ policy' = policy /\ i' = i /\ candle' = candle /\ i > 0 /\ candle \in Shapes
         /\ peak' \in Int /\ peak' >= peak /\ pending' = None
         /\ phase = "resolve" /\ candle.open \in Nat \ {0}
<1>1. i > 0 /\ candle \in Shapes /\ candle.open \in Nat \ {0}
  BY ShapesTyped DEF Resolved, SegmentType
<1>2. Equity(candle.open) \in Int /\ peak \in Int BY <1>1, EquityTyped DEF SegmentType
<1>3. peak' \in Int /\ peak' >= peak BY <1>2 DEF Resolved, PeakNow, Greater
<1> QED BY <1>1, <1>3 DEF Resolved

LEMMA TypeStep ==
  ASSUME SegmentType, PendingFits, BooksBalance, [Next]_vars PROVE SegmentType'
<1> USE DEF SegmentType
<1>1. ASSUME NEW c \in Shapes, NextCandle(c) PROVE SegmentType'
  <2>1. c.open \in Nat /\ Equity(c.open) \in Int BY ShapesTyped, EquityTyped
  <2>2. i + 1 \in 0..Bars /\ i + 1 > 0 BY <1>1, SegmentAssumption DEF NextCandle
  <2>3. day' \in [fills : Nat, profit : Int, start : Int] BY <1>1, <2>1 DEF NextCandle
  <2>4. cooldown' \in Nat BY <1>1 DEF NextCandle, Greater
  <2>5. peak' \in Int BY <1>1 DEF NextCandle, PeakAtOpen
  <2> QED BY <1>1, <2>2, <2>3, <2>4, <2>5 DEF NextCandle, position, record
<1>2. CASE RejectBuy
  BY <1>2, ResolvedType DEF RejectBuy, position
<1>3. CASE BlockBuy
  <2>1. shutdown' = [shutdown EXCEPT ![BuyVerdict] =
                       [first   |-> IF shutdown[BuyVerdict].first = 0 THEN i
                                    ELSE shutdown[BuyVerdict].first,
                        last    |-> i,
                        blocked |-> shutdown[BuyVerdict].blocked + 1]]
        /\ BuyVerdict \in Gates
    BY <1>3 DEF BlockBuy
  <2>2. shutdown' \in [Gates -> Shutdowns]
    <3>1. shutdown \in [Gates -> Shutdowns] /\ i \in 0..Bars BY DEF SegmentType
    <3>2. Bars \in Nat /\ i \in Nat BY <3>1, SegmentAssumption
    <3>3. \A g \in Gates : shutdown[g].first \in Nat /\ shutdown[g].blocked \in Nat
      <4> HIDE DEF Gates
      <4> QED BY ONLY <3>1 DEF Shutdowns
    <3>4. shutdown[BuyVerdict].blocked + 1 \in Nat BY <2>1, <3>3
    <3>5. (IF shutdown[BuyVerdict].first = 0 THEN i ELSE shutdown[BuyVerdict].first) \in Nat
      BY <2>1, <3>2, <3>3
    <3> HIDE DEF Gates
    <3> QED BY ONLY <2>1, <3>1, <3>2, <3>4, <3>5 DEF Shutdowns
  <2> QED BY <1>3, <2>2, ResolvedType DEF BlockBuy, position
<1>4. CASE AbortBuy
  BY <1>4, ResolvedType DEF AbortBuy, position, record
<1>5. CASE FillBuy
  <2>1. /\ day' = [day EXCEPT !.fills = @ + 1]
        /\ phase' = "protect" /\ cooldown' = cooldown /\ trades' = trades
        /\ shutdown' = shutdown /\ lastBuy' = i
    BY <1>5 DEF FillBuy
  <2>2. day' \in [fills : Nat, profit : Int, start : Int]
    <3>1. day \in [fills : Nat, profit : Int, start : Int] BY DEF SegmentType
    <3> QED BY ONLY <2>1, <3>1
  <2>3. Resolved BY <1>5 DEF FillBuy
  <2>4. portfolio' \in [side : {"FLAT", "LONG"}, quote : Int, base : Nat, entry : Nat,
                        fee : Nat, realized : Int]
    BY <1>5, FilledState
  <2>5. opened' \in OpenTrades /\ stop' \in Nat /\ target' \in Nat \cup {None}
    BY <1>5, FilledState
  <2> QED BY <2>1, <2>2, <2>3, <2>4, <2>5, ResolvedType
<1>6. CASE RejectExit
  BY <1>6, ResolvedType DEF RejectExit, position, record
<1>7. CASE FillExit \/ StopExit \/ TakeProfitExit
  BY <1>7, ExitType
<1>8. CASE NoProtection
  BY <1>8 DEF NoProtection, position, record
<1>9. ASSUME NEW s \in Signals, Mark(s) PROVE SegmentType'
  <2>1. i > 0 /\ candle \in Shapes /\ candle.close \in Nat BY <1>9, ShapesTyped DEF Mark
  <2>2. peak' \in Int BY <1>9, <2>1, EquityTyped DEF Mark, Greater
  <2>3. s \in {None, "BUY", "EXIT"} BY DEF Signals
  <2> QED BY <1>9, <2>1, <2>2, <2>3 DEF Mark, position
<1>10. CASE Finish
  BY <1>10 DEF Finish, position, record
<1>11. CASE UNCHANGED vars
  BY <1>11 DEF vars, position
<1> QED
  BY <1>1, <1>2, <1>3, <1>4, <1>5, <1>6, <1>7, <1>8, <1>9, <1>10, <1>11 DEF Next

-----------------------------------------------------------------------------
(* Pending signals and the books.                                          *)

LEMMA PendingStep ==
  ASSUME SegmentType, PendingFits, BooksBalance, [Next]_vars PROVE PendingFits'
<1> USE NoneApart DEF PendingFits
<1>1. ASSUME NEW c \in Shapes, NextCandle(c) PROVE PendingFits'
  BY <1>1 DEF NextCandle, position
<1>2. CASE RejectBuy \/ BlockBuy \/ AbortBuy \/ FillBuy \/ RejectExit \/ FillExit
  <2>1. pending' = None /\ phase' \in {"protect", "aborted"}
    BY <1>2 DEF RejectBuy, BlockBuy, AbortBuy, FillBuy, RejectExit, FillExit, Resolved
  <2> QED BY <2>1
<1>3. CASE StopExit \/ TakeProfitExit \/ NoProtection
  <2>1. pending = None /\ pending' = None /\ phase' = "mark"
    BY <1>3 DEF StopExit, TakeProfitExit, NoProtection
  <2> QED BY <2>1
<1>4. ASSUME NEW s \in Signals, Mark(s) PROVE PendingFits'
  BY <1>4 DEF Mark, Signals, position, SegmentType
<1>5. CASE Finish BY <1>5 DEF Finish, position
<1>6. CASE UNCHANGED vars BY <1>6 DEF vars, position
<1> QED BY <1>1, <1>2, <1>3, <1>4, <1>5, <1>6 DEF Next

\* Nothing but a fill or an exit touches the books.
LEMMA BooksUntouched ==
  ASSUME BooksBalance, UNCHANGED <<policy, position>> PROVE BooksBalance'
BY DEF BooksBalance, position

LEMMA BooksStep ==
  ASSUME SegmentType, PendingFits, BooksBalance, [Next]_vars PROVE BooksBalance'
<1>1. ASSUME NEW c \in Shapes, NextCandle(c) PROVE BooksBalance'
  BY <1>1, BooksUntouched DEF NextCandle
<1>2. CASE RejectBuy \/ BlockBuy \/ AbortBuy \/ RejectExit
  BY <1>2, BooksUntouched DEF RejectBuy, BlockBuy, AbortBuy, RejectExit, Resolved
<1>3. CASE FillBuy
  <2> DEFINE q == Sizing.quantity
             o == candle.open
             value == q * BuyPrice(o) * D2 * D
  <2>1. q \in Nat \ {0} /\ o \in Nat \ {0} /\ BuyPrice(o) \in Nat
        /\ BuyCost(q, o) <= portfolio.quote /\ portfolio.side = "FLAT"
    BY <1>3, FilledBuy, ShapesTyped, BuyPriceTyped
  <2>2. BuyCost(q, o) \in Nat /\ BuyFee(q, o) \in Nat /\ BuyCost(q, o) = value + BuyFee(q, o)
    BY <2>1, PurchaseSplits
  <2>3. /\ portfolio' = Long(portfolio.quote - BuyCost(q, o), portfolio.base + q, BuyPrice(o),
                             BuyFee(q, o), portfolio.realized)
        /\ opened'.quantity = q /\ policy' = policy
    BY <1>3 DEF FillBuy, Resolved
  <2>4. value \in Nat
    <3>1. q * BuyPrice(o) \in Nat BY <2>1, ProductNatural
    <3>2. q * BuyPrice(o) * D2 \in Nat BY <3>1, Denominators, ProductNatural
    <3> QED BY <3>2, RatesTyped, ProductNatural
  <2>5. portfolio.base = 0 /\ portfolio.quote \in Int /\ portfolio.realized \in Int
        /\ portfolio.fee \in Nat /\ portfolio.entry \in Nat
    BY <2>1 DEF BooksBalance, SegmentType
  <2>6. portfolio.quote + portfolio.fee = StartEquity + portfolio.realized
    <3>1. portfolio.base * portfolio.entry * D2 * D = 0
      BY <2>5, Denominators, RatesTyped
    <3> QED BY <2>5, <3>1, SegmentAssumption DEF BooksBalance
  <2>7. portfolio.fee = 0 BY <2>1 DEF BooksBalance
  <2>8. portfolio'.base * portfolio'.entry * D2 * D = value
    BY <2>3, <2>5, <2>1 DEF Long
  <2>9. portfolio'.quote + portfolio'.base * portfolio'.entry * D2 * D + portfolio'.fee
          = StartEquity + portfolio'.realized
    <3> HIDE DEF q, o, value
    <3> QED BY <2>2, <2>3, <2>4, <2>5, <2>6, <2>7, <2>8, SegmentAssumption DEF Long
  <2>10. portfolio'.quote >= 0 BY <2>1, <2>2, <2>3, <2>5 DEF Long
  <2>11. /\ portfolio'.side = "LONG" /\ portfolio'.base = q /\ portfolio'.base > 0
         /\ portfolio'.entry = BuyPrice(o)
    BY <2>1, <2>3, <2>5 DEF Long
  <2>12. opened' # None /\ stop' = StopOf(BuyPrice(o)) /\ (policy = "rr" <=> target' # None)
    BY <1>3, FilledState, NoneApart
  <2> HIDE DEF q, o, value
  <2> QED BY <2>3, <2>9, <2>10, <2>11, <2>12 DEF BooksBalance
<1>4. CASE FillExit \/ StopExit \/ TakeProfitExit
  <2>1. PICK level \in Nat, reason \in {"STRATEGY", "STOP_LOSS", "TAKE_PROFIT"} :
          Close(level, reason)
    BY <1>4, ExitLevels
  <2>2. /\ portfolio' \in [side : {"FLAT"}, quote : Int, base : {0}, entry : {0}, fee : {0},
                           realized : Int]
        /\ portfolio'.quote >= 0 /\ portfolio'.quote = StartEquity + portfolio'.realized
    BY <1>4, <2>1, ExitLevels, Closed
  <2>3. opened' = None /\ stop' = None /\ target' = None BY <2>1 DEF Close
  <2>4. portfolio'.base * portfolio'.entry * D2 * D = 0
    BY <2>2, Denominators, RatesTyped
  <2> QED BY <2>2, <2>3, <2>4, SegmentAssumption DEF BooksBalance
<1>5. CASE NoProtection BY <1>5, BooksUntouched DEF NoProtection
<1>6. ASSUME NEW s \in Signals, Mark(s) PROVE BooksBalance'
  BY <1>6, BooksUntouched DEF Mark
<1>7. CASE Finish BY <1>7, BooksUntouched DEF Finish
<1>8. CASE UNCHANGED vars BY <1>8, BooksUntouched DEF vars
<1> QED BY <1>1, <1>2, <1>3, <1>4, <1>5, <1>6, <1>7, <1>8 DEF Next

-----------------------------------------------------------------------------
(* The drawdown shutdown.                                                  *)

Drawdown == shutdown["MAX_DRAWDOWN_SHUTDOWN"].first

\* After its first refusal there is no position, and the cash, which then
\* never changes, stays too far below a peak that never falls.
Latched ==
  /\ phase = "resolve" => lastBuy < i
  /\ lastBuy <= i
  /\ Drawdown # 0 =>
       portfolio.side = "FLAT" /\ TooDeep(portfolio.quote, peak) /\ lastBuy < Drawdown

LEMMA DeeperBelowHigherPeak ==
  ASSUME NEW e \in Int, NEW p \in Int, NEW r \in Int, p <= r, TooDeep(e, p)
  PROVE  TooDeep(e, r)
<1>1. PICK d \in Nat : r = p + d
  <2>1. r - p \in Nat /\ r = p + (r - p) OBVIOUS
  <2> QED BY <2>1
<1>2. MaxDrawdown \in Nat /\ MaxDrawdown <= D /\ D \in Nat BY GateAssumption, SizingAssumption
<1>3. MaxDrawdown * d <= D * d BY <1>1, <1>2, ProductMonotone
<1>4. (r - e) * D = (p - e) * D + D * d BY <1>1, <1>2
<1>5. MaxDrawdown * r = MaxDrawdown * p + MaxDrawdown * d BY <1>1, <1>2
<1>6. (p - e) * D \in Int /\ MaxDrawdown * p \in Int /\ D * d \in Int /\ MaxDrawdown * d \in Int
  BY <1>1, <1>2
<1>7. (p - e) * D >= MaxDrawdown * p /\ p > 0 BY DEF TooDeep
<1>8. (r - e) * D >= MaxDrawdown * r BY <1>3, <1>4, <1>5, <1>6, <1>7
<1> QED BY <1>7, <1>8 DEF TooDeep

LEMMA FlatEquity ==
  ASSUME SegmentType, BooksBalance, portfolio.side = "FLAT", NEW p \in Nat
  PROVE  Equity(p) = portfolio.quote
<1>1. portfolio.base = 0 /\ portfolio.quote \in Int BY DEF BooksBalance, SegmentType
<1>2. 0 * p * D4 = 0 BY Denominators
<1> QED BY <1>1, <1>2 DEF Equity

\* The peak of a flat portfolio only rises.
LEMMA LatchKept ==
  ASSUME SegmentType, Latched, UNCHANGED <<portfolio, shutdown, lastBuy>>,
         peak' \in Int, peak' >= peak, i' \in Int, i' >= i,
         phase' = "resolve" => lastBuy < i'
  PROVE  Latched'
<1>1. Drawdown # 0 => TooDeep(portfolio.quote, peak')
  BY DeeperBelowHigherPeak DEF Latched, SegmentType
<1> QED BY <1>1 DEF Latched, Drawdown, SegmentType

LEMMA LatchStep ==
  ASSUME SegmentType, PendingFits, BooksBalance, Latched, [Next]_vars PROVE Latched'
<1>0. i \in Nat /\ peak \in Int /\ lastBuy \in Nat BY SegmentAssumption DEF SegmentType
<1>1. ASSUME NEW c \in Shapes, NextCandle(c) PROVE Latched'
  <2>1. i' = i + 1 /\ peak' = peak /\ lastBuy < i'
    BY <1>0, <1>1 DEF NextCandle, PeakAtOpen, Latched
  <2> QED BY <1>0, <1>1, <2>1, LatchKept DEF NextCandle, position, record
<1>2. CASE RejectBuy \/ AbortBuy \/ RejectExit
  <2>1. Resolved /\ phase' # "resolve" /\ UNCHANGED <<portfolio, shutdown, lastBuy>>
    BY <1>2 DEF RejectBuy, AbortBuy, RejectExit, position, record
  <2> QED BY <1>0, <2>1, ResolvedType, LatchKept
<1>3. CASE BlockBuy
  <2>1. /\ Resolved /\ phase' = "protect" /\ pending = "BUY" /\ BuyVerdict \in Gates
        /\ shutdown' = [shutdown EXCEPT ![BuyVerdict] =
                          [first   |-> IF shutdown[BuyVerdict].first = 0 THEN i
                                       ELSE shutdown[BuyVerdict].first,
                           last    |-> i,
                           blocked |-> shutdown[BuyVerdict].blocked + 1]]
        /\ portfolio' = portfolio /\ lastBuy' = lastBuy
    BY <1>3 DEF BlockBuy, position
  <2>2. /\ peak' \in Int /\ peak' >= peak /\ i' = i /\ candle.open \in Nat
        /\ phase = "resolve" /\ portfolio.side = "FLAT"
    BY <2>1, ResolvedType DEF PendingFits
  <2>3. CASE Drawdown # 0
    <3>1. TooDeep(portfolio.quote, peak')
      BY <1>0, <2>2, <2>3, DeeperBelowHigherPeak DEF Latched, SegmentType
    <3>2. Drawdown' = Drawdown BY <2>1, <2>3 DEF Drawdown, SegmentType
    <3> QED BY <2>1, <2>2, <2>3, <3>1, <3>2 DEF Latched
  <2>4. CASE Drawdown = 0 /\ BuyVerdict = "MAX_DRAWDOWN_SHUTDOWN"
    <3>1. Gate = "MAX_DRAWDOWN_SHUTDOWN" BY <2>4 DEF BuyVerdict
    <3>2. TooDeep(Equity(candle.open), PeakNow)
      BY <3>1 DEF Gate, BuyGate
    <3>3. Equity(candle.open) = portfolio.quote BY <2>2, FlatEquity
    <3>4. peak' = PeakNow BY <2>1 DEF Resolved
    <3>5. Drawdown' = i BY <2>1, <2>4 DEF Drawdown, SegmentType
    <3>6. lastBuy < i BY <2>2 DEF Latched
    <3> QED BY <1>0, <2>1, <2>2, <3>2, <3>3, <3>4, <3>5, <3>6 DEF Latched
  <2>5. CASE Drawdown = 0 /\ BuyVerdict # "MAX_DRAWDOWN_SHUTDOWN"
    <3>1. Drawdown' = 0 BY <2>1, <2>5 DEF Drawdown, SegmentType
    <3> QED BY <2>1, <2>2, <3>1 DEF Latched
  <2> QED BY <2>3, <2>4, <2>5
<1>4. CASE FillBuy
  <2>1. /\ Gate = "APPROVED" /\ portfolio.side = "FLAT" /\ candle \in Shapes
    BY <1>4, FilledBuy
  <2>2. ~TooDeep(Equity(candle.open), PeakNow) BY <2>1 DEF Gate, BuyGate
  <2>3. Resolved /\ lastBuy' = i /\ shutdown' = shutdown /\ phase' = "protect"
    BY <1>4 DEF FillBuy
  <2>4. candle.open \in Nat /\ peak' = PeakNow /\ peak' \in Int /\ peak' >= peak /\ i' = i
    BY <2>3, ResolvedType DEF Resolved
  <2>5. Drawdown = 0
    <3>1. Equity(candle.open) = portfolio.quote BY <2>1, <2>4, FlatEquity
    <3>2. ~TooDeep(portfolio.quote, peak) \/ TooDeep(portfolio.quote, peak')
      BY <1>0, <2>4, DeeperBelowHigherPeak DEF SegmentType
    <3> QED BY <2>2, <2>4, <3>1, <3>2 DEF Latched
  <2> QED BY <1>0, <2>3, <2>4, <2>5 DEF Latched, Drawdown
<1>5. CASE FillExit \/ StopExit \/ TakeProfitExit
  <2>1. portfolio.side = "LONG" BY <1>5, ExitLevels
  <2>2. Drawdown = 0 BY <2>1 DEF Latched
  <2>3. shutdown' = shutdown /\ lastBuy' = lastBuy
    BY <1>5 DEF FillExit, StopExit, TakeProfitExit, Close
  <2>4. i' = i /\ phase' \in {"protect", "mark"}
    BY <1>5 DEF FillExit, StopExit, TakeProfitExit, Resolved
  <2> QED BY <2>2, <2>3, <2>4 DEF Latched, Drawdown
<1>6. CASE NoProtection
  BY <1>0, <1>6, LatchKept DEF NoProtection, position, record
<1>7. ASSUME NEW s \in Signals, Mark(s) PROVE Latched'
  <2>1. candle \in Shapes BY <1>7 DEF Mark, SegmentType
  <2>2. candle.close \in Nat BY <2>1, ShapesTyped
  <2>3. peak' \in Int /\ peak' >= peak BY <1>0, <1>7, <2>2, EquityTyped DEF Mark, Greater
  <2> QED BY <1>0, <1>7, <2>3, LatchKept DEF Mark, position
<1>8. CASE Finish BY <1>0, <1>8, LatchKept DEF Finish, position, record
<1>9. CASE UNCHANGED vars
  BY <1>9 DEF vars, position, record, Latched, Drawdown
<1> QED BY <1>1, <1>2, <1>3, <1>4, <1>5, <1>6, <1>7, <1>8, <1>9 DEF Next

-----------------------------------------------------------------------------
(* The cooldown.                                                           *)

LastTrade == trades[Len(trades)]

\* The counter is never below what the last losing trade has left to wait.
Cooling ==
  /\ \A k \in DOMAIN trades :
       trades[k].out <= i /\ (phase = "resolve" => trades[k].out < i)
  /\ Len(trades) > 0 /\ LastTrade.profit < 0 =>
       cooldown >= CooldownBars - (i - LastTrade.out)

LEMMA TradesTyped ==
  ASSUME SegmentType, NEW k \in DOMAIN trades
  PROVE  trades[k] \in TradeRecords /\ trades[k].out \in Int /\ trades[k].profit \in Int
         /\ k \in 1..Len(trades) /\ Len(trades) \in Nat
<1>1. trades \in Seq(TradeRecords) BY DEF SegmentType
<1>2. Len(trades) \in Nat /\ k \in 1..Len(trades) BY <1>1
<1>3. trades[k] \in TradeRecords BY <1>1, <1>2
<1>4. Bars \in Nat BY SegmentAssumption
<1>5. \A t \in TradeRecords : t.out \in Int /\ t.profit \in Int
  BY <1>4 DEF TradeRecords
<1> QED BY <1>2, <1>3, <1>5

\* Steps that keep the trades and the entry keep what is said of them.
LEMMA RespectKept ==
  ASSUME CooldownRespected, UNCHANGED <<trades, opened>> PROVE CooldownRespected'
BY DEF CooldownRespected, NextEntry

LEMMA CoolingKept ==
  ASSUME Cooling, UNCHANGED <<trades, cooldown, i>>, phase' = "resolve" => phase = "resolve"
  PROVE  Cooling'
BY DEF Cooling, LastTrade

\* A closed trade takes the place of the open one.
LEMMA ClosedTrade ==
  ASSUME SegmentType, BooksBalance, Cooling, CooldownRespected, portfolio.side = "LONG", i > 0,
         NEW level \in Nat, NEW reason \in {"STRATEGY", "STOP_LOSS", "TAKE_PROFIT"},
         Close(level, reason), i' = i, phase' # "resolve"
  PROVE  Cooling' /\ CooldownRespected'
<1>1. PICK t \in TradeRecords :
        /\ trades' = Append(trades, t)
        /\ t.in = opened.at /\ t.out = i /\ t.profit = SellProfit(portfolio.base, level)
  BY Closed
<1>2. opened \in OpenTrades /\ opened # None BY Closed, NoneApart
<1>3. opened' = None /\ cooldown' = CooldownAfter(t.profit) BY <1>1 DEF Close
<1>4. i \in Nat /\ CooldownBars \in Nat /\ Len(trades) \in Nat /\ trades \in Seq(TradeRecords)
  BY GateAssumption, SegmentAssumption DEF SegmentType
<1>5. /\ Len(trades') = Len(trades) + 1
      /\ trades'[Len(trades')] = t
      /\ \A k \in 1..Len(trades) : trades'[k] = trades[k]
      /\ DOMAIN trades' = 1..(Len(trades) + 1) /\ DOMAIN trades = 1..Len(trades)
  BY <1>1, <1>4
<1>6. \A k \in DOMAIN trades' : trades'[k].out <= i'
  BY <1>1, <1>4, <1>5 DEF Cooling
<1>7. LastTrade'.profit < 0 => cooldown' >= CooldownBars - (i' - LastTrade'.out)
  BY <1>1, <1>3, <1>4, <1>5 DEF CooldownAfter, LastTrade
<1>8. Cooling' BY <1>6, <1>7 DEF Cooling
<1>9. ASSUME NEW k \in DOMAIN trades', trades'[k].profit < 0, NextEntry(k)' # 0
      PROVE  NextEntry(k)' >= trades'[k].out + Greater(1, CooldownBars)
  <2>1. CASE k = Len(trades) + 1
    <3>1. NextEntry(k)' = 0 BY <1>3, <1>4, <1>5, <2>1 DEF NextEntry
    <3> QED BY <1>9, <3>1
  <2>2. CASE k = Len(trades)
    <3>1. NextEntry(k) = opened.at BY <1>2, <1>4, <2>2 DEF NextEntry
    <3>2. NextEntry(k)' = opened.at BY <1>1, <1>4, <1>5, <2>2 DEF NextEntry
    <3> QED BY <1>4, <1>5, <1>9, <2>2, <3>1, <3>2 DEF CooldownRespected
  <2>3. CASE k < Len(trades)
    <3>1. NextEntry(k)' = NextEntry(k) BY <1>4, <1>5, <2>3 DEF NextEntry
    <3> QED BY <1>4, <1>5, <1>9, <2>3, <3>1 DEF CooldownRespected
  <2> QED BY <1>4, <1>5, <2>1, <2>2, <2>3
<1>10. CooldownRespected' BY <1>9 DEF CooldownRespected
<1> QED BY <1>8, <1>10

\* An entry follows the last trade after its cooldown.
LEMMA EntryWaited ==
  ASSUME SegmentType, PendingFits, BooksBalance, Cooling, CooldownRespected, FillBuy
  PROVE  CooldownRespected'
<1>1. /\ phase = "resolve" /\ Gate = "APPROVED" /\ portfolio.side = "FLAT"
  BY FilledBuy
<1>2. cooldown = 0 BY <1>1 DEF Gate, BuyGate, SegmentType
<1>3. opened = None BY <1>1 DEF BooksBalance
<1>4. opened' # None /\ opened'.at = i /\ trades' = trades
  BY FilledState, NoneApart DEF FillBuy
<1>5. i \in Nat /\ CooldownBars \in Nat /\ Len(trades) \in Nat /\ DOMAIN trades = 1..Len(trades)
  BY GateAssumption, SegmentAssumption DEF SegmentType
<1>6. ASSUME NEW k \in DOMAIN trades', trades'[k].profit < 0, NextEntry(k)' # 0
      PROVE  NextEntry(k)' >= trades'[k].out + Greater(1, CooldownBars)
  <2>1. CASE k = Len(trades)
    <3>1. NextEntry(k)' = i BY <1>4, <1>5, <2>1 DEF NextEntry
    <3>2. trades[k].out < i /\ trades[k].out \in Int
      BY <1>1, <1>4, <1>5, <1>6, TradesTyped DEF Cooling
    <3>3. cooldown >= CooldownBars - (i - trades[k].out)
      BY <1>4, <1>5, <1>6, <2>1 DEF Cooling, LastTrade
    <3> QED BY <1>2, <1>4, <1>5, <3>1, <3>2, <3>3 DEF Greater
  <2>2. CASE k # Len(trades)
    <3>1. NextEntry(k)' = NextEntry(k) BY <1>4, <1>5, <1>6, <2>2 DEF NextEntry
    <3> QED BY <1>4, <1>6, <3>1 DEF CooldownRespected
  <2> QED BY <2>1, <2>2
<1> QED BY <1>6 DEF CooldownRespected

LEMMA CooldownStep ==
  ASSUME SegmentType, PendingFits, BooksBalance, Cooling, CooldownRespected, [Next]_vars
  PROVE  Cooling' /\ CooldownRespected'
<1>1. ASSUME NEW c \in Shapes, NextCandle(c) PROVE Cooling' /\ CooldownRespected'
  <2>1. i \in Nat /\ CooldownBars \in Nat /\ cooldown \in Nat /\ DOMAIN trades = 1..Len(trades)
        /\ Len(trades) \in Nat
    BY GateAssumption, SegmentAssumption DEF SegmentType
  <2>2. i' = i + 1 /\ trades' = trades /\ opened' = opened /\ cooldown' >= cooldown - 1
    BY <1>1, <2>1 DEF NextCandle, Greater, position
  <2>3. \A k \in DOMAIN trades' : trades'[k].out <= i' /\ trades'[k].out < i'
    BY <2>1, <2>2, TradesTyped DEF Cooling
  <2>4. cooldown' \in Int BY <1>1, <2>1 DEF NextCandle, Greater
  <2>5. Len(trades) > 0 => LastTrade.out \in Int
    <3>1. Len(trades) > 0 => Len(trades) \in DOMAIN trades BY <2>1
    <3> QED BY <3>1, TradesTyped DEF LastTrade
  <2>6. Len(trades') > 0 /\ LastTrade'.profit < 0 =>
          cooldown' >= CooldownBars - (i' - LastTrade'.out)
    BY <2>1, <2>2, <2>4, <2>5 DEF Cooling, LastTrade
  <2> QED BY <2>2, <2>3, <2>6, RespectKept DEF Cooling
<1>2. CASE RejectBuy \/ BlockBuy \/ AbortBuy \/ RejectExit
  <2>1. UNCHANGED <<trades, cooldown, i, opened>> /\ phase = "resolve"
    BY <1>2 DEF RejectBuy, BlockBuy, AbortBuy, RejectExit, Resolved, position
  <2> QED BY <2>1, CoolingKept, RespectKept
<1>3. CASE FillBuy
  <2>1. UNCHANGED <<trades, cooldown, i>> /\ phase = "resolve" BY <1>3 DEF FillBuy, Resolved
  <2> QED BY <1>3, <2>1, CoolingKept, EntryWaited
<1>4. CASE FillExit \/ StopExit \/ TakeProfitExit
  <2>1. PICK level \in Nat, reason \in {"STRATEGY", "STOP_LOSS", "TAKE_PROFIT"} :
          Close(level, reason)
    BY <1>4, ExitLevels
  <2>2. portfolio.side = "LONG" /\ i > 0 BY <1>4, ExitLevels
  <2>3. i' = i /\ phase' # "resolve"
    BY <1>4 DEF FillExit, StopExit, TakeProfitExit, Resolved
  <2> QED BY <2>1, <2>2, <2>3, ClosedTrade
<1>5. CASE NoProtection
  BY <1>5, CoolingKept, RespectKept DEF NoProtection, position
<1>6. ASSUME NEW s \in Signals, Mark(s) PROVE Cooling' /\ CooldownRespected'
  BY <1>6, CoolingKept, RespectKept DEF Mark, position
<1>7. CASE Finish BY <1>7, CoolingKept, RespectKept DEF Finish, position
<1>8. CASE UNCHANGED vars BY <1>8, CoolingKept, RespectKept DEF vars, position
<1> QED BY <1>1, <1>2, <1>3, <1>4, <1>5, <1>6, <1>7, <1>8 DEF Next

-----------------------------------------------------------------------------
(* Affordability.                                                          *)

LEMMA PlansStep ==
  ASSUME SegmentType, PendingFits, PlansAreAffordable, [Next]_vars PROVE PlansAreAffordable'
<1>1. CASE AbortBuy
  <2>1. Resolved /\ pending = "BUY" /\ BuyVerdict = "filled" /\ policy' = policy
        /\ BuyCost(Sizing.quantity, candle.open) > portfolio.quote
    BY <1>1 DEF AbortBuy, Resolved
  <2>2. candle.open \in Nat \ {0} /\ portfolio.quote \in Int
    BY <2>1, ResolvedType DEF SegmentType
  <2>3. SUFFICES ASSUME policy = "rr" PROVE FALSE
    BY <2>1 DEF PlansAreAffordable, SegmentType
  <2>4. Sizing.quantity = PlannedQuantity(Equity(candle.open), portfolio.quote, candle.open)
    BY <2>3 DEF Sizing, PlanSizing, Decision
  <2>5. /\ Sizing.quantity \in Int
        /\ Sizing.quantity <= portfolio.quote \div (BuyPrice(candle.open) * (D + Fee) * D2)
    BY <2>2, <2>4, EquityTyped, QuantitiesTyped
  <2>6. Gate \in Gates \cup {"APPROVED"} BY DEF Gate, BuyGate, Gates
  <2>7. ValidationReason(candle.open, Sizing.quantity) = "VALIDATED"
    BY <2>1, <2>6 DEF BuyVerdict, Gates
  <2>8. Sizing.quantity > 0 BY <2>5, <2>7 DEF ValidationReason
  <2>9. BuyCost(Sizing.quantity, candle.open) <= portfolio.quote
    BY <2>2, <2>5, <2>8, WithinCash
  <2>10. BuyCost(Sizing.quantity, candle.open) \in Nat BY <2>2, <2>5, <2>8, PurchaseSplits
  <2> QED BY <2>1, <2>2, <2>9, <2>10
<1>2. ASSUME NEW c \in Shapes, NextCandle(c) PROVE PlansAreAffordable'
  BY <1>2 DEF NextCandle, PlansAreAffordable
<1>3. CASE RejectBuy \/ BlockBuy \/ FillBuy \/ RejectExit \/ FillExit
  BY <1>3 DEF RejectBuy, BlockBuy, FillBuy, RejectExit, FillExit, PlansAreAffordable
<1>4. CASE StopExit \/ TakeProfitExit \/ NoProtection \/ Finish
  BY <1>4 DEF StopExit, TakeProfitExit, NoProtection, Finish, PlansAreAffordable
<1>5. ASSUME NEW s \in Signals, Mark(s) PROVE PlansAreAffordable'
  BY <1>5 DEF Mark, PlansAreAffordable
<1>6. CASE UNCHANGED vars BY <1>6 DEF vars, PlansAreAffordable
<1> QED BY <1>1, <1>2, <1>3, <1>4, <1>5, <1>6 DEF Next

-----------------------------------------------------------------------------
(* The books, the gates and the cash.                                      *)

Inv ==
  /\ SegmentType /\ PendingFits /\ BooksBalance
  /\ Latched
  /\ Cooling /\ CooldownRespected
  /\ PlansAreAffordable

LEMMA InvInit == Init => Inv
<1> SUFFICES ASSUME Init PROVE Inv OBVIOUS
<1> USE DEF Init
<1>0. StartEquity \in Nat \ {0} /\ Bars \in Nat BY SegmentAssumption
<1>1. SegmentType
  <2>1. shutdown \in [Gates -> Shutdowns] BY DEF Shutdowns
  <2>2. trades \in Seq(TradeRecords) OBVIOUS
  <2>3. portfolio \in [side : {"FLAT", "LONG"}, quote : Int, base : Nat, entry : Nat,
                       fee : Nat, realized : Int]
    BY <1>0 DEF Flat
  <2> QED BY <1>0, <2>1, <2>2, <2>3 DEF SegmentType
<1>2. PendingFits BY NoneApart DEF PendingFits
<1>3. BooksBalance
  <2>1. 0 * 0 * D2 * D = 0 BY Denominators, RatesTyped
  <2> QED BY <1>0, <2>1 DEF BooksBalance, Flat
<1>4. Latched
  <2>1. "MAX_DRAWDOWN_SHUTDOWN" \in Gates BY DEF Gates
  <2>2. Drawdown = 0 BY <2>1 DEF Drawdown
  <2> QED BY <2>2 DEF Latched
<1>5. DOMAIN trades = {} /\ Len(trades) = 0 OBVIOUS
<1>6. Cooling /\ CooldownRespected BY <1>5 DEF Cooling, CooldownRespected
<1>7. PlansAreAffordable BY DEF PlansAreAffordable
<1> QED BY <1>1, <1>2, <1>3, <1>4, <1>6, <1>7 DEF Inv

LEMMA InvNext == Inv /\ [Next]_vars => Inv'
<1> SUFFICES ASSUME Inv, [Next]_vars PROVE Inv' OBVIOUS
<1>1. SegmentType' /\ PendingFits' /\ BooksBalance'
  BY TypeStep, PendingStep, BooksStep DEF Inv
<1>2. Latched' BY LatchStep DEF Inv
<1>3. Cooling' /\ CooldownRespected' BY CooldownStep DEF Inv
<1>4. PlansAreAffordable' BY PlansStep DEF Inv
<1> QED BY <1>1, <1>2, <1>3, <1>4 DEF Inv

LEMMA InvAlways == Spec => []Inv
<1> QED BY InvInit, InvNext, PTL DEF Spec

\* The state of a run keeps its types (run_segment's _LoopState and _DiagBuilder).
THEOREM RunIsTyped == Spec => []TypeOK
<1>1. Inv => TypeOK
  <2> SUFFICES ASSUME Inv PROVE TypeOK OBVIOUS
  <2>1. opened # None => opened \in [at : 1..Bars, price : Nat, quantity : Nat, risk : Int \cup {None}]
    BY DEF Inv, SegmentType, OpenTrades
  <2> QED BY <2>1 DEF Inv, SegmentType, TypeOK
<1> QED BY <1>1, InvAlways, PTL

\* apply_buy, apply_sell and _apply_exit_fill keep the books: cash is never
\* negative, and is what the run started with plus what it has earned, less what
\* the open position cost.
THEOREM BooksAlwaysBalance == Spec => []BooksBalance
<1>1. Inv => BooksBalance BY DEF Inv
<1> QED BY <1>1, InvAlways, PTL

\* MAX_DRAWDOWN_SHUTDOWN of _check_buy_gates, once it has refused an entry,
\* refuses every later one.
THEOREM ShutdownLatches == Spec => []DrawdownLatches
<1>1. Inv => DrawdownLatches BY DEF Inv, Latched, DrawdownLatches, Drawdown
<1> QED BY <1>1, InvAlways, PTL

\* cooldown_bars_after_loss candles pass between a losing exit and an entry.
THEOREM CooldownHolds == Spec => []CooldownRespected
<1>1. Inv => CooldownRespected BY DEF Inv
<1> QED BY <1>1, InvAlways, PTL

\* plan_risk_reward_entry never plans more than the cash can pay for, with
\* slippage and fee: apply_buy does not raise under the policy.
THEOREM PlansAlwaysAffordable == Spec => []PlansAreAffordable
<1>1. Inv => PlansAreAffordable BY DEF Inv
<1> QED BY <1>1, InvAlways, PTL

-----------------------------------------------------------------------------
(* Sums over the trades.                                                   *)

\* The sum of the profits of any trades, by the recursion of Realized.
LEMMA ProfitsSummed ==
  ASSUME NEW ts, NEW ks \in SUBSET DOMAIN ts
  PROVE  (CHOOSE g : g = [T \in SUBSET ks |-> IF T = {} THEN 0
                                             ELSE ts[Some(T)].profit + g[T \ {Some(T)}]])[ks]
           = SumOver([k \in DOMAIN ts |-> ts[k].profit], ks)
<1> DEFINE profits == [k \in DOMAIN ts |-> ts[k].profit]
           step(g) == [T \in SUBSET ks |-> IF T = {} THEN 0
                                         ELSE ts[Some(T)].profit + g[T \ {Some(T)}]]
<1>1. ASSUME NEW g PROVE step(g) = SumStep(profits, ks, g)
  <2>1. \A T \in SUBSET ks : T # {} => ts[Some(T)].profit = profits[Some(T)]
    BY DEF Some
  <2> HIDE DEF profits
  <2> QED BY <2>1 DEF SumStep
<1>2. (CHOOSE g : g = step(g)) = SumsOf(profits, ks)
  <2> HIDE DEF step, profits
  <2> QED BY <1>1 DEF SumsOf
<1> HIDE DEF profits
<1>3. (CHOOSE g : g = step(g))[ks] = SumOver(profits, ks) BY <1>2, SumIsLast
<1> QED BY <1>3 DEF profits

ProfitsIn(ts) == [k \in DOMAIN ts |-> ts[k].profit]

LEMMA RealizedNow ==
  ASSUME NEW ks \in SUBSET All PROVE Realized(ks) = SumOver(ProfitsIn(trades), ks)
BY ProfitsSummed DEF Realized, Total, MapThenSumSet, MapThenFoldSet, Some, ProfitsIn, All

LEMMA RealizedNext ==
  ASSUME NEW ks \in SUBSET All' PROVE Realized(ks)' = SumOver(ProfitsIn(trades'), ks)
BY ProfitsSummed DEF Realized, Total, MapThenSumSet, MapThenFoldSet, Some, ProfitsIn, All

\* A trade is added to the sums that include it, and to no other.
LEMMA RealizedGrows ==
  ASSUME trades \in Seq(TradeRecords), NEW t \in TradeRecords, trades' = Append(trades, t),
         NEW m, m = Len(trades) + 1, NEW ks \in SUBSET All
  PROVE  /\ Realized(ks) \in Int /\ Realized(ks)' = Realized(ks)
         /\ Realized(ks \cup {m})' = Realized(ks) + t.profit
<1> DEFINE n == Len(trades)
           f == ProfitsIn(trades)
           g == ProfitsIn(trades')
<1>1. /\ n \in Nat /\ m = n + 1 /\ All = 1..n /\ All' = 1..m /\ IsFiniteSet(ks) /\ m \notin ks
      /\ ks \cup {m} \in SUBSET All' /\ ks \in SUBSET All'
  <2>1. n \in Nat /\ m = n + 1 /\ DOMAIN trades = 1..n OBVIOUS
  <2>2. Len(trades') = m /\ DOMAIN trades' = 1..m BY <2>1
  <2>3. All = 1..n /\ All' = 1..m BY <2>1, <2>2 DEF All
  <2>4. IsFiniteSet(1..n) BY <2>1, FS_Interval
  <2>5. IsFiniteSet(ks)
    <3>1. ks \subseteq 1..n BY <2>3
    <3> QED BY <2>4, <3>1, FS_Subset
  <2>6. ks \subseteq 1..n BY <2>3
  <2>7. m \notin ks /\ ks \cup {m} \subseteq 1..m /\ ks \subseteq 1..m 
    <3>1. \A j \in 1..n : j \in 1..m /\ j # m BY <2>1
    <3>2. m \in 1..m BY <2>1
    <3> HIDE DEF n
    <3> QED BY <2>6, <3>1, <3>2
  <2> QED BY <2>1, <2>3, <2>5, <2>7
<1>2. /\ \A k \in ks : f[k] \in Int /\ g[k] = f[k]
      /\ g[m] = t.profit /\ t.profit \in Int
  <2>1. \A k \in All : trades[k] \in TradeRecords /\ trades'[k] = trades[k] BY <1>1
  <2>2. \A r \in TradeRecords : r.profit \in Int BY DEF TradeRecords
  <2>3. trades'[m] = t BY <1>1
  <2>4. \A k \in All : f[k] = trades[k].profit BY DEF ProfitsIn, All
  <2>5. \A k \in All' : g[k] = trades'[k].profit BY DEF ProfitsIn, All
  <2> QED BY <1>1, <2>1, <2>2, <2>3, <2>4, <2>5
<1>3. /\ Realized(ks) = SumOver(f, ks) /\ Realized(ks)' = SumOver(g, ks)
      /\ Realized(ks \cup {m})' = SumOver(g, ks \cup {m})
  <2>1. Realized(ks) = SumOver(f, ks) BY RealizedNow
  <2>2. Realized(ks)' = SumOver(g, ks) BY <1>1, RealizedNext
  <2>3. Realized(ks \cup {m})' = SumOver(g, ks \cup {m})
    <3>1. \A more \in SUBSET All' : Realized(more)' = SumOver(g, more) BY RealizedNext
    <3> QED BY <1>1, <3>1
  <2> QED BY <2>1, <2>2, <2>3
<1> HIDE DEF n, f, g
<1>4. SumOver(f, ks) \in Int BY <1>1, <1>2, SumTyped
<1>5. SumOver(g, ks) = SumOver(f, ks) BY <1>1, <1>2, SumSame
<1>6. SumOver(g, ks \cup {m}) = SumOver(g, ks) + g[m]
  BY <1>1, <1>2, SumAdd
<1> QED BY <1>2, <1>3, <1>4, <1>5, <1>6 DEF n

-----------------------------------------------------------------------------
(* Profits.                                                                *)

\* What one step of quantity earns when it is sold at a level.
UnitProfit(fill, level) == SellPrice(level) * (D - Fee) - fill * (D + Fee) * D2

LEMMA ProfitIdentity ==
  ASSUME NEW q \in Int, NEW s \in Int, NEW e \in Int, NEW f \in Int, NEW d \in Int, NEW g \in Int
  PROVE  q * (s - e * g) * d - q * s * f - q * e * f * g = q * (s * (d - f) - e * (d + f) * g)
OBVIOUS

LEMMA UnitTyped ==
  ASSUME NEW fill \in Nat, NEW level \in Nat
  PROVE  UnitProfit(fill, level) \in Int /\ SellPrice(level) \in Nat
<1>1. SellPrice(level) \in Nat BY SaleTyped
<1> QED BY <1>1, RatesTyped, Denominators DEF UnitProfit

LEMMA ProfitPerUnit ==
  ASSUME NEW q \in Nat, NEW p \in Nat \ {0}, NEW level \in Nat,
         portfolio.entry = BuyPrice(p), portfolio.fee = BuyFee(q, p)
  PROVE  SellProfit(q, level) = q * UnitProfit(BuyPrice(p), level)
<1>1. SellPrice(level) \in Int /\ BuyPrice(p) \in Int /\ D2 \in Int /\ D \in Int /\ Fee \in Int
  BY SaleTyped, BuyPriceTyped, Denominators, RatesTyped
<1>2. SellProfit(q, level) =
        q * (SellPrice(level) - BuyPrice(p) * D2) * D - q * SellPrice(level) * Fee
          - q * BuyPrice(p) * Fee * D2
  BY DEF SellProfit, SellFee, BuyFee
<1>3. q \in Int OBVIOUS
<1> QED BY <1>1, <1>2, <1>3, ProfitIdentity DEF UnitProfit

\* A lower level earns less.
LEMMA UnitMonotone ==
  ASSUME NEW fill \in Nat, NEW a \in Nat, NEW b \in Nat, a < b
  PROVE  UnitProfit(fill, a) < UnitProfit(fill, b)
<1>1. PICK g \in Nat \ {0} : b = a + g
  <2>1. b - a \in Nat \ {0} /\ b = a + (b - a) OBVIOUS
  <2> QED BY <2>1
<1> DEFINE u == D - Slippage
           v == D - Fee
<1>2. u \in Nat \ {0} /\ v \in Nat \ {0} BY RatesTyped
<1>3. SellPrice(a) = a * u /\ SellPrice(b) = b * u BY DEF SellPrice
<1>4. fill * (D + Fee) * D2 \in Int BY RatesTyped, Denominators
<1> HIDE DEF u, v
<1>5. b * u = a * u + g * u BY <1>1, <1>2
<1>6. a * u \in Nat /\ g * u \in Nat \ {0} BY <1>2, ProductNatural, ProductPositive
<1>7. (a * u + g * u) * v = (a * u) * v + (g * u) * v BY <1>2, <1>6
<1>8. (a * u) * v \in Nat /\ (g * u) * v \in Nat \ {0}
  BY <1>2, <1>6, ProductNatural, ProductPositive
<1>9. SellPrice(a) * v < SellPrice(b) * v /\ SellPrice(a) * v \in Int /\ SellPrice(b) * v \in Int
  BY <1>3, <1>5, <1>7, <1>8
<1> QED BY <1>4, <1>9 DEF UnitProfit, v

\* And so does a position, and the other way round.
LEMMA PositionMonotone ==
  ASSUME NEW fill \in Nat, NEW q \in Nat \ {0}, NEW a \in Nat, NEW b \in Nat
  PROVE  a < b <=> q * UnitProfit(fill, a) < q * UnitProfit(fill, b)
<1>1. ASSUME NEW x \in Int, NEW y \in Int, x < y PROVE q * x < q * y
  <2>1. PICK g \in Nat \ {0} : y = x + g
    <3>1. y - x \in Nat \ {0} /\ y = x + (y - x) BY <1>1
    <3> QED BY <3>1
  <2>2. q * y = q * x + q * g /\ q * g \in Nat \ {0} BY <2>1, ProductPositive
  <2>3. q * x \in Int OBVIOUS
  <2> QED BY <2>2, <2>3
<1>2. UnitProfit(fill, a) \in Int /\ UnitProfit(fill, b) \in Int BY UnitTyped
<1>3. a < b => q * UnitProfit(fill, a) < q * UnitProfit(fill, b)
  BY <1>1, <1>2, UnitMonotone
<1>4. b < a => q * UnitProfit(fill, b) < q * UnitProfit(fill, a)
  BY <1>1, <1>2, UnitMonotone
<1>5. q * UnitProfit(fill, a) \in Int /\ q * UnitProfit(fill, b) \in Int BY <1>2
<1>6. a = b => q * UnitProfit(fill, a) = q * UnitProfit(fill, b) OBVIOUS
<1> QED BY <1>3, <1>4, <1>5, <1>6

\* The loss planned and the gain are profits at the stop and at the target.
LEMMA LossIsProfit ==
  ASSUME NEW fill \in Nat, NEW level \in Nat
  PROVE  LossPerUnit(fill, level) = -UnitProfit(fill, level)
<1>1. SellPrice(level) \in Nat BY SaleTyped
<1>2. SellPrice(level) * (D - Fee) \in Int /\ fill * (D + Fee) * D2 \in Int
  BY <1>1, RatesTyped, Denominators
<1> QED BY <1>2 DEF LossPerUnit, UnitProfit

LEMMA GainIsProfit ==
  ASSUME NEW fill, NEW price PROVE GainPerUnit(fill, price) = UnitProfit(fill, Level(price))
BY DEF GainPerUnit, UnitProfit

\* The stop of the fill is no lower than the one the quantity was sized for.
LEMMA StopNoLower ==
  ASSUME NEW p \in Nat \ {0}
  PROVE  /\ StopOf(p) * D \in Nat /\ StopOf(BuyPrice(p)) \in Nat
         /\ StopOf(p) * D <= StopOf(BuyPrice(p))
<1> DEFINE r == D - StopDistance
<1>1. r \in Nat \ {0} /\ D \in Nat /\ Slippage \in Nat BY RatesTyped
<1>2. StopOf(p) = p * r /\ StopOf(BuyPrice(p)) = p * (D + Slippage) * r
  BY DEF StopOf, BuyPrice
<1> HIDE DEF r
<1>3. p * (D + Slippage) * r = p * r * D + p * r * Slippage BY <1>1
<1>4. p * r * D \in Nat /\ p * r * Slippage \in Nat BY <1>1
<1> QED BY <1>1, <1>2, <1>3, <1>4

-----------------------------------------------------------------------------
(* The plan of an entry.                                                   *)

\* What is lost at the stop of the fill is no more than was sized for.
LEMMA LossNoHigher ==
  ASSUME NEW p \in Nat \ {0}
  PROVE  /\ LossPerUnit(BuyPrice(p), StopOf(BuyPrice(p))) \in Int
         /\ LossPerUnit(BuyPrice(p), StopOf(BuyPrice(p)))
              <= LossPerUnit(BuyPrice(p), StopOf(p) * D)
<1> DEFINE f == BuyPrice(p)
           a == StopOf(p) * D
           b == StopOf(BuyPrice(p))
<1>1. a \in Nat /\ b \in Nat /\ a <= b /\ f \in Nat BY StopNoLower, BuyPriceTyped
<1> HIDE DEF f, a, b
<1>2. UnitProfit(f, a) \in Int /\ UnitProfit(f, b) \in Int BY <1>1, UnitTyped
<1>3. UnitProfit(f, a) <= UnitProfit(f, b)
  <2>1. a < b => UnitProfit(f, a) < UnitProfit(f, b) BY <1>1, UnitMonotone
  <2> QED BY <1>1, <1>2, <2>1
<1>4. LossPerUnit(f, a) = -UnitProfit(f, a) /\ LossPerUnit(f, b) = -UnitProfit(f, b)
  BY <1>1, LossIsProfit
<1> QED BY <1>2, <1>3, <1>4 DEF f, a, b

\* A quantity within the risk share of the equity loses no more than that.
LEMMA WithinRisk ==
  ASSUME NEW e \in Int, NEW p \in Nat \ {0}, NEW share \in Nat, NEW q \in Nat,
         q <= (e * share) \div (D * LossPerUnit(BuyPrice(p), StopOf(p) * D))
  PROVE  q * LossPerUnit(BuyPrice(p), StopOf(BuyPrice(p))) * D <= share * e
<1> DEFINE sized == LossPerUnit(BuyPrice(p), StopOf(p) * D)
           loss == LossPerUnit(BuyPrice(p), StopOf(BuyPrice(p)))
<1>1. sized \in Nat \ {0} /\ loss \in Int /\ loss <= sized BY LossPositive, LossNoHigher
<1>2. q <= (e * share) \div (D * sized) OBVIOUS
<1> HIDE DEF sized, loss
<1>3. D * sized \in Nat \ {0} /\ D \in Nat BY <1>1, RatesTyped, ProductPositive
<1>4. e * share \in Int OBVIOUS
<1>5. q * (D * sized) <= e * share BY <1>2, <1>3, <1>4, QuotientFits
<1>6. q * D \in Nat BY <1>3, ProductNatural
<1>7. loss * (q * D) <= sized * (q * D) BY <1>1, <1>6, ProductMonotone
<1>8. sized * (q * D) = q * (D * sized) /\ loss * (q * D) = q * loss * D
      /\ e * share = share * e
  BY <1>1, <1>3
<1>9. q * loss * D \in Int /\ q * (D * sized) \in Int BY <1>1, <1>3
<1>10. q * loss * D <= share * e BY <1>4, <1>5, <1>7, <1>8, <1>9
<1> QED BY <1>10 DEF loss

\* Both policies size within their share of the equity.
LEMMA RiskBounds ==
  ASSUME NEW e \in Int, NEW quote \in Int, NEW p \in Nat \ {0}
  PROVE  /\ BaselineQuantity(e, p)
              <= (e * MaxRisk) \div (D * LossPerUnit(BuyPrice(p), StopOf(p) * D))
         /\ PlannedQuantity(e, quote, p)
              <= (e * FixedRisk) \div (D * LossPerUnit(BuyPrice(p), StopOf(p) * D))
<1> DEFINE sized == LossPerUnit(BuyPrice(p), StopOf(p) * D)
           a1 == (e * MaxRisk) \div (D * sized)
           a2 == (e * MaxPosition) \div (D * p * D4)
           b1 == (e * FixedRisk) \div (D * sized)
           b2 == quote \div (BuyPrice(p) * (D + Fee) * D2)
<1>1. sized \in Nat \ {0} BY LossPositive
<1>2. BaselineQuantity(e, p) = Least(a1, a2) /\ PlannedQuantity(e, quote, p) = Least(b1, b2)
  BY DEF BaselineQuantity, PlannedQuantity
<1> HIDE DEF sized
<1>3. D * sized \in Nat \ {0} BY <1>1, RatesTyped, ProductPositive
<1>4. D * p * D4 \in Nat \ {0}
  <2>1. D * p \in Nat \ {0} BY RatesTyped, ProductPositive
  <2> QED BY <2>1, Denominators, ProductPositive
<1>5. e * MaxRisk \in Int /\ e * MaxPosition \in Int /\ e * FixedRisk \in Int
  BY SizingAssumption
<1>6. a1 \in Int /\ a2 \in Int /\ b1 \in Int /\ b2 \in Int
  <2>1. \A x \in Int : \A y \in Nat \ {0} : x \div y \in Int OBVIOUS
  <2> QED BY <1>3, <1>4, <1>5, <2>1, UnitCostPositive
<1>7. BaselineQuantity(e, p) <= a1 /\ PlannedQuantity(e, quote, p) <= b1
  <2> HIDE DEF a1, a2, b1, b2
  <2> QED BY <1>2, <1>6, LeastTyped
<1> QED BY <1>7 DEF a1, b1, sized

\* The equity of a flat portfolio is what it started with and has realized.
LEMMA FlatFunds ==
  ASSUME SegmentType, BooksBalance, portfolio.side = "FLAT"
  PROVE  portfolio.quote = StartEquity + portfolio.realized
<1>1. /\ portfolio.base = 0 /\ portfolio.fee = 0 /\ portfolio.quote \in Int
      /\ portfolio.entry \in Nat /\ portfolio.realized \in Int
  BY DEF BooksBalance, SegmentType
<1>2. 0 * portfolio.entry * D2 * D = 0 BY <1>1, Denominators, RatesTyped
<1> QED BY <1>1, <1>2, SegmentAssumption DEF BooksBalance

\* The open position was entered with a plan: at most the risk budget of the
\* equity is lost at its stop, and under the policy its target pays.
EntryPlanned ==
  opened # None =>
    /\ opened.price \in Nat \ {0} /\ opened.quantity \in Nat \ {0}
    /\ portfolio.entry = BuyPrice(opened.price)
    /\ portfolio.fee = BuyFee(opened.quantity, opened.price)
    /\ PlannedLoss(opened) * D <= RiskShare * (StartEquity + portfolio.realized)
    /\ IF policy = "rr"
       THEN /\ opened.risk = PlannedLoss(opened)
            /\ opened.quantity * GainPerUnit(BuyPrice(opened.price), target)
                 >= MinReward * PlannedLoss(opened)
       ELSE opened.risk = None

LEMMA FillIsPlanned ==
  ASSUME SegmentType, PendingFits, BooksBalance, FillBuy PROVE EntryPlanned'
<1> DEFINE q == Sizing.quantity
           o == candle.open
           fill == BuyPrice(o)
           loss == LossPerUnit(fill, StopOf(fill))
           e == portfolio.quote
<1>1. /\ q \in Nat \ {0} /\ o \in Nat \ {0} /\ portfolio.side = "FLAT" /\ e \in Int
      /\ Equity(o) = e /\ e = StartEquity + portfolio.realized
      /\ policy = "rr" => RealizedPlanHolds(e, q, fill)
  <2>1. q \in Nat \ {0} /\ o \in Nat \ {0} /\ portfolio.side = "FLAT"
    BY FilledBuy, ShapesTyped
  <2>2. Equity(o) = e BY <2>1, FlatEquity
  <2>3. policy = "rr" => RealizedPlanHolds(e, q, fill) BY <2>2, FilledBuy
  <2> QED BY <2>1, <2>2, <2>3, FlatFunds DEF SegmentType
<1>2. /\ portfolio' = Long(e - BuyCost(q, o), portfolio.base + q, fill, BuyFee(q, o),
                           portfolio.realized)
      /\ opened' = [at |-> i, price |-> o, quantity |-> q,
                    risk |-> IF policy = "rr" THEN RealizedPlan(q, fill).risk ELSE None]
      /\ target' = IF policy = "rr" THEN RealizedPlan(q, fill).target ELSE None
      /\ policy' = policy /\ policy \in {"baseline", "rr"}
  BY DEF FillBuy, Resolved, SegmentType
<1>3. PlannedLoss(opened)' = q * loss BY <1>2 DEF PlannedLoss, StopOfTrade
<1>4. RealizedPlan(q, fill).risk = q * loss BY DEF RealizedPlan
<1>5. loss \in Int BY <1>1, LossNoHigher
<1>6. CASE policy = "rr"
  <2> DEFINE t == RealizedPlan(q, fill).target
  <2>1. q * loss * D <= e * FixedRisk /\ q * GainPerUnit(fill, t) >= MinReward * (q * loss)
    BY <1>1, <1>4, <1>6 DEF RealizedPlanHolds
  <2>2. RiskShare' = FixedRisk /\ opened'.risk = q * loss /\ target' = t
    BY <1>2, <1>4, <1>6 DEF RiskShare
  <2>3. e * FixedRisk = FixedRisk * e BY <1>1, SizingAssumption
  <2>4. /\ opened'.price = o /\ opened'.quantity = q
        /\ portfolio'.entry = fill /\ portfolio'.fee = BuyFee(q, o)
        /\ portfolio'.realized = portfolio.realized
    BY <1>2 DEF Long
  <2>5. PlannedLoss(opened)' * D <= RiskShare' * (StartEquity + portfolio'.realized)
    BY <1>1, <1>3, <2>1, <2>2, <2>3, <2>4
  <2>6. opened'.quantity * GainPerUnit(BuyPrice(opened'.price), target')
          >= MinReward * PlannedLoss(opened)'
    BY <1>3, <2>1, <2>2, <2>4
  <2> HIDE DEF q, o, loss, e, t
  <2> QED BY <1>1, <1>2, <1>3, <1>6, <2>2, <2>4, <2>5, <2>6 DEF EntryPlanned
<1>7. CASE policy = "baseline"
  <2>1. q = BaselineQuantity(e, o)
    BY <1>1, <1>7 DEF Sizing, BaselineSizing, Decision
  <2>2. q * loss * D <= MaxRisk * e
    <3>1. MaxRisk \in Nat BY SizingAssumption
    <3> QED BY <1>1, <2>1, <3>1, RiskBounds, WithinRisk
  <2>3. RiskShare' = MaxRisk /\ opened'.risk = None BY <1>2, <1>7 DEF RiskShare
  <2>4. /\ opened'.price = o /\ opened'.quantity = q
        /\ portfolio'.entry = fill /\ portfolio'.fee = BuyFee(q, o)
        /\ portfolio'.realized = portfolio.realized
    BY <1>2 DEF Long
  <2>5. PlannedLoss(opened)' * D <= RiskShare' * (StartEquity + portfolio'.realized)
    BY <1>1, <1>3, <2>2, <2>3, <2>4
  <2> HIDE DEF q, o, loss, e
  <2> QED BY <1>1, <1>2, <1>3, <1>7, <2>3, <2>4, <2>5 DEF EntryPlanned
<1> QED BY <1>2, <1>6, <1>7

-----------------------------------------------------------------------------
(* The trade an exit makes.                                                *)

\* What _apply_exit_fill records.
Outcome(level, reason) ==
  [in |-> opened.at, out |-> i, price |-> opened.price, level |-> level,
   quantity |-> portfolio.base, profit |-> SellProfit(portfolio.base, level),
   reason |-> reason, entryFee |-> portfolio.fee, exitFee |-> SellFee(portfolio.base, level)]

LEMMA OutcomeRecorded ==
  ASSUME SegmentType, BooksBalance, EntryPlanned, portfolio.side = "LONG", i > 0,
         NEW level \in Nat, NEW reason \in {"STRATEGY", "STOP_LOSS", "TAKE_PROFIT"},
         Close(level, reason)
  PROVE  /\ Outcome(level, reason) \in TradeRecords
         /\ trades' = Append(trades, Outcome(level, reason))
         /\ opened \in OpenTrades /\ opened.price \in Nat \ {0}
         /\ opened.quantity = portfolio.base /\ portfolio.base \in Nat \ {0}
         /\ stop = StopOf(BuyPrice(opened.price)) /\ stop \in Nat
         /\ SellProfit(portfolio.base, level)
              = opened.quantity * UnitProfit(BuyPrice(opened.price), level)
         /\ SellProfit(portfolio.base, level) \in Int
<1> DEFINE t == Outcome(level, reason)
           q == portfolio.base
<1>1. trades' = Append(trades, t) BY DEF Close, Outcome
<1>2. PICK r \in TradeRecords : trades' = Append(trades, r) BY Closed
<1>3. trades \in Seq(TradeRecords) BY DEF SegmentType
<1>4. Append(trades, t)[Len(trades) + 1] = t /\ Append(trades, r)[Len(trades) + 1] = r
  <2> HIDE DEF t
  <2> QED BY <1>3
<1>5. t = r BY <1>1, <1>2, <1>4
<1>6. /\ opened # None /\ opened \in OpenTrades /\ q > 0 /\ q \in Nat
      /\ opened.quantity = q /\ stop = StopOf(portfolio.entry)
  BY DEF BooksBalance, SegmentType
<1>7. /\ opened.price \in Nat \ {0} /\ portfolio.entry = BuyPrice(opened.price)
      /\ portfolio.fee = BuyFee(q, opened.price)
  BY <1>6 DEF EntryPlanned
<1>8. SellProfit(q, level) = q * UnitProfit(BuyPrice(opened.price), level)
  BY <1>6, <1>7, ProfitPerUnit
<1>9. stop \in Nat BY <1>6, <1>7, BuyPriceTyped, StopTyped
<1>10. SellProfit(q, level) \in Int BY Closed
<1> QED BY <1>1, <1>2, <1>5, <1>6, <1>7, <1>8, <1>9, <1>10

\* The realized profit of the portfolio is that of its trades.
RealizedKept == portfolio.realized = Realized(All)

LEMMA ExitRealizes ==
  ASSUME SegmentType, BooksBalance, EntryPlanned, RealizedKept, portfolio.side = "LONG", i > 0,
         NEW level \in Nat, NEW reason \in {"STRATEGY", "STOP_LOSS", "TAKE_PROFIT"},
         Close(level, reason)
  PROVE  RealizedKept'
<1> DEFINE t == Outcome(level, reason)
<1>1. t \in TradeRecords /\ trades' = Append(trades, t) BY OutcomeRecorded
<1>2. trades \in Seq(TradeRecords) BY DEF SegmentType
<1>3. PICK m : m = Len(trades) + 1 OBVIOUS
<1>4. t.profit = SellProfit(portfolio.base, level)
      /\ portfolio'.realized = portfolio.realized + SellProfit(portfolio.base, level)
  BY DEF Outcome, Close, Flat
<1> HIDE DEF t
<1>5. All' = All \cup {m}
  <2>1. DOMAIN trades = 1..Len(trades) /\ Len(trades) \in Nat BY <1>2
  <2>2. DOMAIN trades' = 1..(Len(trades) + 1) BY <1>1, <1>2
  <2> QED BY <1>3, <2>1, <2>2 DEF All
<1>6. PICK ks : ks = All OBVIOUS
<1>7. Realized(ks \cup {m})' = Realized(ks) + t.profit BY <1>1, <1>2, <1>3, <1>6, RealizedGrows
<1>8. Realized(All)' = Realized(ks \cup {m})' BY <1>5, <1>6
<1> QED BY <1>4, <1>6, <1>7, <1>8 DEF RealizedKept

\* Every trade was planned: the first part of LossesPlanned.
TradePlanned(k) ==
  LET t == trades[k] IN
    /\ t.reason = "STOP_LOSS" /\ t.level = StopOfTrade(t)
         => -t.profit * D <= RiskShare * EquityAfter(k - 1)
    /\ t.reason = "TAKE_PROFIT" => t.profit >= MinReward * PlannedLoss(t)
    /\ t.reason = "STOP_LOSS" => t.level <= StopOfTrade(t)

LEMMA ExitIsPlanned ==
  ASSUME SegmentType, BooksBalance, EntryPlanned, RealizedKept, portfolio.side = "LONG", i > 0,
         NEW level \in Nat, NEW reason \in {"STRATEGY", "STOP_LOSS", "TAKE_PROFIT"},
         Close(level, reason), policy' = policy,
         reason = "STOP_LOSS" => level <= stop,
         reason = "TAKE_PROFIT" => policy = "rr" /\ level = Level(target),
         \A k \in All : TradePlanned(k)
  PROVE  \A k \in All' : TradePlanned(k)'
<1> DEFINE t == Outcome(level, reason)
           fill == BuyPrice(opened.price)
           q == opened.quantity
<1>1. /\ t \in TradeRecords /\ trades' = Append(trades, t) /\ stop = StopOf(fill)
      /\ q \in Nat \ {0} /\ fill \in Nat /\ stop \in Nat /\ t.profit \in Int
      /\ t.profit = q * UnitProfit(fill, level) /\ t.level = level /\ t.reason = reason
      /\ StopOfTrade(t) = stop /\ PlannedLoss(t) = PlannedLoss(opened)
  BY OutcomeRecorded, BuyPriceTyped DEF Outcome, StopOfTrade, PlannedLoss
<1>2. trades \in Seq(TradeRecords) /\ Len(trades) \in Nat BY DEF SegmentType
<1>3. PICK m : m = Len(trades) + 1 OBVIOUS
<1>4. /\ PlannedLoss(opened) * D <= RiskShare * (StartEquity + portfolio.realized)
      /\ policy = "rr" => q * GainPerUnit(fill, target) >= MinReward * PlannedLoss(opened)
  BY DEF EntryPlanned, BooksBalance
<1>5. PlannedLoss(opened) = -(q * UnitProfit(fill, stop)) /\ UnitProfit(fill, stop) \in Int
  <2>1. PlannedLoss(opened) = q * LossPerUnit(fill, stop)
    BY <1>1 DEF PlannedLoss, StopOfTrade
  <2>2. LossPerUnit(fill, stop) = -UnitProfit(fill, stop) /\ UnitProfit(fill, stop) \in Int
    BY <1>1, LossIsProfit, UnitTyped
  <2> HIDE DEF q, fill
  <2> QED BY <1>1, <2>1, <2>2
<1>6. RiskShare' = RiskShare BY DEF RiskShare
<1> HIDE DEF t, fill, q
<1>7. /\ All = 1..(m - 1) /\ All' = 1..m /\ m \in Nat \ {0}
      /\ trades'[m] = t /\ \A k \in All : trades'[k] = trades[k]
  <2>1. DOMAIN trades = 1..Len(trades) BY <1>2
  <2>2. DOMAIN trades' = 1..(Len(trades) + 1) BY <1>1, <1>2
  <2>3. trades'[Len(trades) + 1] = t /\ \A k \in DOMAIN trades : trades'[k] = trades[k]
    BY <1>1, <1>2
  <2> QED BY <1>2, <1>3, <2>1, <2>2, <2>3 DEF All
<1>8. \A ks \in SUBSET All : Realized(ks)' = Realized(ks)
  BY <1>1, <1>2, <1>3, RealizedGrows
<1>9. ASSUME NEW k \in All PROVE TradePlanned(k)'
  <2>1. 1..(k - 1) \in SUBSET All BY <1>7
  <2>2. EquityAfter(k - 1)' = EquityAfter(k - 1) BY <1>8, <2>1 DEF EquityAfter
  <2>3. TradePlanned(k) OBVIOUS
  <2> QED BY <1>6, <1>7, <2>2, <2>3 DEF TradePlanned, StopOfTrade, PlannedLoss
<1>10. TradePlanned(m)'
  <2>1. EquityAfter(m - 1)' = StartEquity + portfolio.realized
    <3>1. 1..(m - 1) = All BY <1>7
    <3>2. PICK ks : ks = All OBVIOUS
    <3>3. Realized(ks)' = Realized(ks) BY <1>8, <3>2
    <3>4. Realized(1..(m - 1))' = Realized(ks)' BY <3>1, <3>2
    <3> QED BY <3>2, <3>3, <3>4 DEF EquityAfter, RealizedKept
  <2>2. level = stop => -t.profit * D <= RiskShare * (StartEquity + portfolio.realized)
    <3>1. level = stop => -t.profit = PlannedLoss(opened) BY <1>1, <1>5
    <3>2. -(t.profit * D) = (-t.profit) * D BY <1>1, RatesTyped
    <3> QED BY <1>4, <3>1, <3>2
  <2>3. reason = "TAKE_PROFIT" => t.profit >= MinReward * PlannedLoss(opened)
    BY <1>1, <1>4, GainIsProfit
  <2>4. /\ StopOfTrade(trades[m])' = stop /\ PlannedLoss(trades[m])' = PlannedLoss(opened)
    BY <1>1, <1>7 DEF StopOfTrade, PlannedLoss
  <2> QED BY <1>1, <1>6, <1>7, <2>1, <2>2, <2>3, <2>4 DEF TradePlanned
<1> QED
  <2>1. \A k \in All' : k \in All \/ k = m BY <1>7
  <2> QED BY <1>9, <1>10, <2>1

-----------------------------------------------------------------------------
(* Gap losses, and positions held past their stop.                         *)

Counters == [buys : Nat, exits : Nat, entries : Nat, refused : Nat, afterFill : Nat,
             gapLosses : Nat]

ThroughGap(k) == trades[k].reason = "STOP_LOSS" /\ trades[k].level < StopOfTrade(trades[k])

\* The report counts the stops filled below their level, under the policy.
GapsCounted ==
  /\ diag \in Counters
  /\ diag.gapLosses = IF policy = "rr" THEN Cardinality({k \in All : ThroughGap(k)}) ELSE 0

LEMMA ExitCountsGaps ==
  ASSUME SegmentType, BooksBalance, EntryPlanned, GapsCounted, portfolio.side = "LONG", i > 0,
         NEW level \in Nat, NEW reason \in {"STRATEGY", "STOP_LOSS", "TAKE_PROFIT"},
         Close(level, reason), policy' = policy
  PROVE  GapsCounted'
<1> DEFINE t == Outcome(level, reason)
           fill == BuyPrice(opened.price)
           q == opened.quantity
           old == {k \in All : ThroughGap(k)}
<1>1. /\ t \in TradeRecords /\ trades' = Append(trades, t) /\ stop = StopOf(fill)
      /\ q \in Nat \ {0} /\ fill \in Nat /\ stop \in Nat /\ t.profit \in Int
      /\ t.profit = q * UnitProfit(fill, level) /\ t.level = level /\ t.reason = reason
      /\ StopOfTrade(t) = stop /\ t.profit = SellProfit(portfolio.base, level)
  BY OutcomeRecorded, BuyPriceTyped DEF Outcome, StopOfTrade
<1>2. trades \in Seq(TradeRecords) /\ Len(trades) \in Nat BY DEF SegmentType
<1>3. PICK m : m = Len(trades) + 1 OBVIOUS
<1>4. /\ policy = "rr" => opened.risk = PlannedLoss(opened)
      /\ policy # "rr" => opened.risk = None
  BY DEF EntryPlanned, BooksBalance
<1>5. PlannedLoss(opened) = -(q * UnitProfit(fill, stop)) /\ UnitProfit(fill, stop) \in Int
      /\ PlannedLoss(opened) \in Int /\ q * UnitProfit(fill, stop) \in Int
  <2>1. PlannedLoss(opened) = q * LossPerUnit(fill, stop)
    BY <1>1 DEF PlannedLoss, StopOfTrade
  <2>2. LossPerUnit(fill, stop) = -UnitProfit(fill, stop) /\ UnitProfit(fill, stop) \in Int
    BY <1>1, LossIsProfit, UnitTyped
  <2> HIDE DEF q, fill
  <2>3. q * UnitProfit(fill, stop) \in Int BY <1>1, <2>2
  <2> QED BY <1>1, <2>1, <2>2, <2>3
<1>6. diag' = IF reason = "STOP_LOSS" /\ opened.risk # None /\ -t.profit > opened.risk
              THEN [diag EXCEPT !.gapLosses = @ + 1] ELSE diag
  BY <1>1 DEF Close
<1> HIDE DEF t, fill, q, old
<1>7. /\ All = 1..(m - 1) /\ All' = 1..m /\ m \in Nat \ {0}
      /\ trades'[m] = t /\ \A k \in All : trades'[k] = trades[k]
  <2>1. DOMAIN trades = 1..Len(trades) BY <1>2
  <2>2. DOMAIN trades' = 1..(Len(trades) + 1) BY <1>1, <1>2
  <2>3. trades'[Len(trades) + 1] = t /\ \A k \in DOMAIN trades : trades'[k] = trades[k]
    BY <1>1, <1>2
  <2> QED BY <1>2, <1>3, <2>1, <2>2, <2>3 DEF All
<1>8. PICK gap \in BOOLEAN : gap <=> reason = "STOP_LOSS" /\ level < stop OBVIOUS
<1>9. {k \in All' : ThroughGap(k)'} = IF gap THEN old \cup {m} ELSE old
  <2>1. \A k \in All : ThroughGap(k)' <=> ThroughGap(k) BY <1>7 DEF ThroughGap, StopOfTrade
  <2>2. ThroughGap(m)' <=> gap BY <1>1, <1>7, <1>8 DEF ThroughGap, StopOfTrade
  <2>3. \A k : k \in All' <=> k \in All \/ k = m BY <1>7
  <2>4. m \notin All BY <1>7
  <2> QED BY <2>1, <2>2, <2>3, <2>4 DEF old
<1>10. IsFiniteSet(old) /\ m \notin old /\ Cardinality(old) \in Nat
  <2>1. IsFiniteSet(1..(m - 1)) BY <1>7, FS_Interval
  <2>2. old \subseteq 1..(m - 1) BY <1>7 DEF old
  <2>3. IsFiniteSet(old) BY <2>1, <2>2, FS_Subset
  <2>4. m \notin old BY <1>7 DEF old
  <2> QED BY <2>3, <2>4, FS_CardinalityType
<1>11. Cardinality(old \cup {m}) = Cardinality(old) + 1 BY <1>10, FS_AddElement
<1>12. policy = "rr" =>
         (gap <=> reason = "STOP_LOSS" /\ opened.risk # None /\ -t.profit > opened.risk)
  <2>1. level < stop <=> q * UnitProfit(fill, level) < q * UnitProfit(fill, stop)
    BY <1>1, PositionMonotone
  <2>2. policy = "rr" => opened.risk # None BY <1>4, <1>5, NoneApart
  <2> QED BY <1>1, <1>4, <1>5, <1>8, <2>1, <2>2
<1>13. policy # "rr" => diag' = diag BY <1>4, <1>6
<1>14. policy = "rr" => diag' = IF gap THEN [diag EXCEPT !.gapLosses = @ + 1] ELSE diag
  BY <1>6, <1>12
<1>15. diag \in Counters BY DEF GapsCounted
<1>16. [diag EXCEPT !.gapLosses = @ + 1] \in Counters
       /\ [diag EXCEPT !.gapLosses = @ + 1].gapLosses = diag.gapLosses + 1
  BY <1>15 DEF Counters
<1>17. CASE policy = "rr"
  <2>1. diag.gapLosses = Cardinality(old) BY <1>17 DEF GapsCounted, old
  <2>2. diag' \in Counters
        /\ diag'.gapLosses = IF gap THEN Cardinality(old) + 1 ELSE Cardinality(old)
    BY <1>14, <1>15, <1>16, <1>17, <2>1
  <2>3. {k \in All : ThroughGap(k)}' = IF gap THEN old \cup {m} ELSE old BY <1>9
  <2>4. Cardinality({k \in All : ThroughGap(k)})'
          = IF gap THEN Cardinality(old) + 1 ELSE Cardinality(old)
    BY <1>11, <2>3
  <2> QED BY <1>17, <2>2, <2>4 DEF GapsCounted
<1>18. CASE policy # "rr" BY <1>13, <1>15, <1>18 DEF GapsCounted
<1> QED BY <1>17, <1>18

\* Past its protection, a position's candle has not reached its stop.
StopRespected == phase \in {"mark", "next"} /\ opened # None => Level(candle.low) > stop

LEMMA StopStep ==
  ASSUME SegmentType, BooksBalance, StopRespected, [Next]_vars PROVE StopRespected'
<1>1. ASSUME NEW c \in Shapes, NextCandle(c) PROVE StopRespected'
  <2>1. phase' \in {"protect", "resolve"} BY <1>1 DEF NextCandle
  <2> QED BY <2>1 DEF StopRespected
<1>2. CASE RejectBuy \/ BlockBuy \/ AbortBuy \/ FillBuy \/ RejectExit \/ FillExit
  <2>1. phase' \in {"protect", "aborted"}
    BY <1>2 DEF RejectBuy, BlockBuy, AbortBuy, FillBuy, RejectExit, FillExit
  <2> QED BY <2>1 DEF StopRespected
<1>3. CASE StopExit \/ TakeProfitExit
  <2>1. opened' = None BY <1>3 DEF StopExit, TakeProfitExit, Close
  <2> QED BY <2>1 DEF StopRespected
<1>4. CASE NoProtection
  <2>1. ~StopHit /\ UNCHANGED <<candle, opened, stop>> /\ i > 0
    BY <1>4 DEF NoProtection, position, SegmentType
  <2>2. SUFFICES ASSUME opened # None PROVE Level(candle.low) > stop
    BY <2>1 DEF StopRespected, Level
  <2>3. portfolio.side = "LONG" /\ stop = StopOf(portfolio.entry) /\ stop \in Nat
    BY <2>2, StopTyped DEF BooksBalance, SegmentType
  <2>4. stop # None BY <2>3, NoneApart
  <2>5. candle \in Shapes BY <2>1 DEF SegmentType
  <2>6. candle.low \in Nat BY <2>5, SegmentAssumption DEF Candles
  <2>7. Level(candle.low) \in Nat BY <2>6, LevelTyped
  <2> QED BY <2>1, <2>3, <2>4, <2>7 DEF StopHit
<1>5. ASSUME NEW s \in Signals, Mark(s) PROVE StopRespected'
  BY <1>5 DEF Mark, StopRespected, position, Level
<1>6. CASE Finish
  <2>1. phase' = "done" BY <1>6 DEF Finish
  <2> QED BY <2>1 DEF StopRespected
<1>7. CASE UNCHANGED vars BY <1>7 DEF vars, position, StopRespected, Level
<1> QED BY <1>1, <1>2, <1>3, <1>4, <1>5, <1>6, <1>7 DEF Next

-----------------------------------------------------------------------------
(* The plans of a run.                                                     *)

PlanInv ==
  /\ EntryPlanned
  /\ RealizedKept
  /\ \A k \in All : TradePlanned(k)
  /\ GapsCounted
  /\ StopRespected

LEMMA TradesUntouched ==
  ASSUME SegmentType, PlanInv, UNCHANGED <<policy, trades>>, portfolio'.realized = portfolio.realized,
         diag' \in Counters, diag'.gapLosses = diag.gapLosses
  PROVE  RealizedKept' /\ (\A k \in All : TradePlanned(k))' /\ GapsCounted'
<1>1. All' = All BY DEF All
<1>2. \A ks \in SUBSET All : Realized(ks)' = Realized(ks)
  BY <1>1, RealizedNow, RealizedNext DEF ProfitsIn
<1>3. RealizedKept'
  <2>1. PICK ks : ks = All OBVIOUS
  <2>2. Realized(ks)' = Realized(ks) BY <1>2, <2>1
  <2>3. Realized(All)' = Realized(ks)' BY <1>1, <2>1
  <2> QED BY <2>1, <2>2, <2>3 DEF PlanInv, RealizedKept
<1>4. ASSUME NEW k \in All PROVE TradePlanned(k)'
  <2>1. 1..(k - 1) \in SUBSET All
    <3>1. All = 1..Len(trades) /\ Len(trades) \in Nat BY DEF SegmentType, All
    <3> QED BY <3>1
  <2>3. EquityAfter(k - 1)' = EquityAfter(k - 1) BY <1>2, <2>1 DEF EquityAfter
  <2>2. TradePlanned(k) BY DEF PlanInv
  <2> QED BY <2>2, <2>3 DEF TradePlanned, StopOfTrade, PlannedLoss, RiskShare
<1>5. {k \in All : ThroughGap(k)}' = {k \in All : ThroughGap(k)}
  BY <1>1 DEF ThroughGap, StopOfTrade
<1>6. GapsCounted' BY <1>5 DEF PlanInv, GapsCounted
<1> QED BY <1>1, <1>3, <1>4, <1>6

LEMMA EntryUntouched ==
  ASSUME PlanInv, UNCHANGED <<policy, position>> PROVE EntryPlanned'
BY DEF PlanInv, EntryPlanned, PlannedLoss, StopOfTrade, RiskShare, position

\* The counters a step moves keep their types.
LEMMA CountersKept ==
  ASSUME SegmentType, diag \in Counters, [Next]_vars,
         ~(FillExit \/ StopExit \/ TakeProfitExit)
  PROVE  diag' \in Counters /\ diag'.gapLosses = diag.gapLosses
<1>1. ASSUME NEW f \in {"buys", "exits", "entries", "refused", "afterFill"}, NEW n \in Nat,
             NEW d \in Counters
      PROVE  [d EXCEPT ![f] = @ + n] \in Counters /\ [d EXCEPT ![f] = @ + n].gapLosses = d.gapLosses
  BY DEF Counters
<1>2. CASE RejectBuy
  <2> DEFINE n == IF BuyVerdict = "plan fails after the fill" THEN 1 ELSE 0
             d == [diag EXCEPT !.refused = @ + 1]
  <2>1. diag' = [d EXCEPT !.afterFill = @ + n] BY <1>2 DEF RejectBuy, Counters
  <2>2. d \in Counters /\ d.gapLosses = diag.gapLosses BY DEF Counters
  <2>3. n \in Nat OBVIOUS
  <2> HIDE DEF d, n
  <2> QED BY <1>1, <2>1, <2>2, <2>3
<1>3. CASE FillBuy
  <2>1. diag' = [diag EXCEPT !.entries = @ + 1] BY <1>3 DEF FillBuy
  <2> QED BY <1>1, <2>1
<1>4. ASSUME NEW s \in Signals, Mark(s) PROVE diag' \in Counters /\ diag'.gapLosses = diag.gapLosses
  <2> DEFINE m == IF s = "BUY" THEN 1 ELSE 0
             n == IF s = "EXIT" THEN 1 ELSE 0
             d == [diag EXCEPT !.buys = @ + m]
  <2>1. diag' = [d EXCEPT !.exits = @ + n] BY <1>4 DEF Mark, Counters
  <2>2. d \in Counters /\ d.gapLosses = diag.gapLosses BY DEF Counters
  <2>3. n \in Nat OBVIOUS
  <2> HIDE DEF d, n
  <2> QED BY <1>1, <2>1, <2>2, <2>3
<1>5. ASSUME NEW c \in Shapes, NextCandle(c) PROVE diag' = diag BY <1>5 DEF NextCandle, record
<1>6. CASE BlockBuy \/ AbortBuy \/ RejectExit \/ NoProtection \/ Finish \/ UNCHANGED vars
  BY <1>6 DEF BlockBuy, AbortBuy, RejectExit, NoProtection, Finish, vars, record
<1> QED BY <1>2, <1>3, <1>4, <1>5, <1>6 DEF Next

LEMMA PlanStep ==
  ASSUME SegmentType, PendingFits, BooksBalance, PlanInv, [Next]_vars PROVE PlanInv'
<1>1. StopRespected' BY StopStep DEF PlanInv
<1>2. CASE FillExit \/ StopExit \/ TakeProfitExit
  <2>1. portfolio.side = "LONG" /\ i > 0 BY <1>2, ExitLevels
  <2>2. PICK level \in Nat, reason \in {"STRATEGY", "STOP_LOSS", "TAKE_PROFIT"} :
          /\ Close(level, reason)
          /\ reason = "STOP_LOSS" => level <= stop
          /\ reason = "TAKE_PROFIT" => policy = "rr" /\ level = Level(target)
    BY <1>2, ExitLevels
  <2>3. policy' = policy BY <1>2 DEF FillExit, StopExit, TakeProfitExit, Resolved
  <2>4. opened' = None BY <2>2 DEF Close
  <2>5. EntryPlanned' BY <2>4 DEF EntryPlanned
  <2>6. RealizedKept' BY <2>1, <2>2, ExitRealizes DEF PlanInv
  <2>7. \A k \in All' : TradePlanned(k)' BY <2>1, <2>2, <2>3, ExitIsPlanned DEF PlanInv
  <2>8. GapsCounted' BY <2>1, <2>2, <2>3, ExitCountsGaps DEF PlanInv
  <2> QED BY <1>1, <2>5, <2>6, <2>7, <2>8 DEF PlanInv
<1>3. CASE FillBuy
  <2>1. /\ UNCHANGED <<policy, trades>> /\ ~(FillExit \/ StopExit \/ TakeProfitExit)
        /\ portfolio'.realized = portfolio.realized
    <3>1. phase = "resolve" /\ pending = "BUY" BY <1>3 DEF FillBuy, Resolved
    <3>2. ~(FillExit \/ StopExit \/ TakeProfitExit)
      BY <3>1 DEF FillExit, StopExit, TakeProfitExit
    <3> QED BY <1>3, <3>2 DEF FillBuy, Resolved, Long
  <2>2. diag' \in Counters /\ diag'.gapLosses = diag.gapLosses
    BY <2>1, CountersKept DEF PlanInv, GapsCounted
  <2>3. RealizedKept' /\ (\A k \in All : TradePlanned(k))' /\ GapsCounted'
    BY <2>1, <2>2, TradesUntouched
  <2>4. EntryPlanned' BY <1>3, FillIsPlanned
  <2> QED BY <1>1, <2>3, <2>4 DEF PlanInv
<1>4. CASE ~(FillExit \/ StopExit \/ TakeProfitExit \/ FillBuy)
  <2>1. UNCHANGED <<policy, position, trades>>
    BY <1>4 DEF Next, NextCandle, RejectBuy, BlockBuy, AbortBuy, RejectExit, NoProtection, Mark,
                Finish, vars, Resolved, record
  <2>2. portfolio' = portfolio BY <2>1 DEF position
  <2>3. diag' \in Counters /\ diag'.gapLosses = diag.gapLosses
    BY <1>4, CountersKept DEF PlanInv, GapsCounted
  <2>4. RealizedKept' /\ (\A k \in All : TradePlanned(k))' /\ GapsCounted'
    BY <2>1, <2>2, <2>3, TradesUntouched
  <2>5. EntryPlanned' BY <2>1, EntryUntouched
  <2> QED BY <1>1, <2>4, <2>5 DEF PlanInv
<1> QED BY <1>2, <1>3, <1>4

LEMMA RealizedNothing == ASSUME trades = <<>> PROVE Realized(All) = 0 /\ All = {}
<1>1. All = {} BY DEF All
<1>2. Realized(All) = SumOver(ProfitsIn(trades), All) BY RealizedNow
<1> QED BY <1>1, <1>2, SumEmpty

LEMMA PlanInit == Init => PlanInv
<1> SUFFICES ASSUME Init PROVE PlanInv OBVIOUS
<1>1. trades = <<>> /\ opened = None /\ portfolio.realized = 0 BY DEF Init, Flat
<1>2. Realized(All) = 0 /\ All = {} BY <1>1, RealizedNothing
<1>3. diag \in Counters /\ diag.gapLosses = 0 BY DEF Init, Counters
<1>4. {k \in All : ThroughGap(k)} = {} BY <1>2
<1>5. Cardinality({k \in All : ThroughGap(k)}) = 0 BY <1>4, FS_EmptySet
<1>6. GapsCounted BY <1>3, <1>5 DEF GapsCounted
<1> QED BY <1>1, <1>2, <1>6 DEF PlanInv, EntryPlanned, RealizedKept, StopRespected

\* The risk budget of compute_risk_based_buy_quantity and plan_risk_reward_entry
\* is kept to the exit of every trade, and gap losses are counted.
THEOREM LossesAlwaysPlanned == Spec => []LossesPlanned
<1>1. Inv /\ PlanInv /\ [Next]_vars => (Inv /\ PlanInv)' BY InvNext, PlanStep DEF Inv
<1>2. Inv /\ PlanInv => LossesPlanned
  <2> SUFFICES ASSUME PlanInv PROVE LossesPlanned OBVIOUS
  <2>1. {k \in All : ThroughGap(k)} = {k \in All : /\ trades[k].reason = "STOP_LOSS"
                                                   /\ trades[k].level < StopOfTrade(trades[k])}
    BY DEF ThroughGap
  <2> QED BY <2>1 DEF PlanInv, TradePlanned, GapsCounted, StopRespected, LossesPlanned
<1> QED BY <1>1, <1>2, InvInit, PlanInit, PTL DEF Spec

-----------------------------------------------------------------------------
(* The counts of a day.                                                    *)

LEMMA DaysOrdered ==
  ASSUME NEW a \in Int, NEW b \in Int, a <= b
  PROVE  DayOf(a) \in Int /\ DayOf(b) \in Int /\ DayOf(a) <= DayOf(b)
<1> DEFINE n == BarsPerDay
           x == (a - 1) \div n
           y == (b - 1) \div n
<1>1. n \in Nat \ {0} BY SegmentAssumption
<1> HIDE DEF n
<1>2. x \in Int /\ x * n <= a - 1 BY <1>1
<1>3. y \in Int /\ b - 1 < y * n + n BY <1>1
<1> HIDE DEF x, y
<1>4. (y + 1) * n = y * n + n /\ x * n \in Int /\ y * n \in Int BY <1>1, <1>2, <1>3
<1>5. y + 1 <= x => (y + 1) * n <= x * n BY <1>1, <1>2, <1>3, ProductMonotone
<1>6. x <= y BY <1>1, <1>2, <1>3, <1>4, <1>5
<1> QED BY <1>2, <1>3, <1>6 DEF DayOf, n, x, y

\* The trades closed on the day of the current candle, and those entered on it.
ClosedToday == {k \in All : DayOf(trades[k].out) = DayOf(i)}

EnteredToday == {k \in All : DayOf(trades[k].in) = DayOf(i)}

\* trades_today and daily_realized_pnl count the fills and profits of the day.
DayCounted ==
  /\ \A k \in All : trades[k].in <= i /\ trades[k].out <= i
  /\ opened # None => opened.at <= i
  /\ i > 0 =>
       /\ day.fills = Cardinality(ClosedToday) + Cardinality(EnteredToday)
                      + (IF opened # None /\ DayOf(opened.at) = DayOf(i) THEN 1 ELSE 0)
       /\ day.start > 0 => day.profit = Realized(ClosedToday)

LEMMA TodayFinite ==
  ASSUME SegmentType
  PROVE  /\ IsFiniteSet(ClosedToday) /\ Cardinality(ClosedToday) \in Nat
         /\ IsFiniteSet(EnteredToday) /\ Cardinality(EnteredToday) \in Nat
<1>1. All = 1..Len(trades) /\ Len(trades) \in Nat BY DEF SegmentType, All
<1>2. IsFiniteSet(All) BY <1>1, FS_Interval
<1>3. ClosedToday \subseteq All /\ EnteredToday \subseteq All BY DEF ClosedToday, EnteredToday
<1>4. IsFiniteSet(ClosedToday) /\ IsFiniteSet(EnteredToday) BY <1>2, <1>3, FS_Subset
<1> QED BY <1>4, FS_CardinalityType

\* A step within a candle that leaves trades, entries and the day alone.
LEMMA DayUntouched ==
  ASSUME SegmentType, DayCounted, UNCHANGED <<trades, i, opened, day>> PROVE DayCounted'
<1>1. ClosedToday' = ClosedToday /\ EnteredToday' = EnteredToday
  BY DEF ClosedToday, EnteredToday, All
<1>2. Realized(ClosedToday)' = Realized(ClosedToday)
  <2>1. PICK ks : ks = ClosedToday OBVIOUS
  <2>2. ks \in SUBSET All /\ All' = All BY <2>1 DEF ClosedToday, All
  <2>3. Realized(ks)' = Realized(ks) BY <2>2, RealizedNow, RealizedNext DEF ProfitsIn
  <2>4. Realized(ClosedToday)' = Realized(ks)' BY <1>1, <2>1
  <2> QED BY <2>1, <2>3, <2>4
<1> QED BY <1>1, <1>2 DEF DayCounted, All

LEMMA DayBegins ==
  ASSUME SegmentType, DayCounted, NEW c \in Shapes, NextCandle(c) PROVE DayCounted'
<1>1. i \in Nat /\ i' = i + 1 /\ trades' = trades /\ opened' = opened
  BY SegmentAssumption DEF SegmentType, NextCandle, position
<1>2. /\ All' = All
      /\ \A k \in All : /\ trades[k].in \in Nat /\ trades[k].out \in Nat
                        /\ trades[k].in <= i /\ trades[k].out <= i
      /\ opened # None => opened.at \in Nat /\ opened.at <= i
  <2>1. \A k \in All : trades[k].in \in 1..Bars /\ trades[k].out \in 1..Bars
    BY TradesTyped DEF SegmentType, All, TradeRecords
  <2>2. Bars \in Nat BY SegmentAssumption
  <2>3. opened # None => opened \in OpenTrades BY DEF SegmentType
  <2> QED BY <1>1, <2>1, <2>2, <2>3 DEF DayCounted, All, OpenTrades
<1>3. /\ \A k \in All' : trades'[k].in <= i' /\ trades'[k].out <= i'
      /\ opened' # None => opened'.at <= i'
  BY <1>1, <1>2
<1>4. /\ ClosedToday' = {k \in All : DayOf(trades[k].out) = DayOf(i + 1)}
      /\ EnteredToday' = {k \in All : DayOf(trades[k].in) = DayOf(i + 1)}
  BY <1>1, <1>2 DEF ClosedToday, EnteredToday, DayOf
<1>5. CASE NewDay
  <2>1. day' = [fills |-> 0, profit |-> 0, start |-> Equity(c.open)] BY <1>5 DEF NextCandle
  <2>2. ASSUME NEW b \in Nat, b <= i, b > 0 PROVE DayOf(b) # DayOf(i + 1)
    <3>1. i # 0 BY <1>1, <2>2
    <3>2. DayOf(i + 1) # DayOf(i) BY <1>5, <3>1 DEF NewDay
    <3>3. DayOf(b) <= DayOf(i) /\ DayOf(b) \in Int /\ DayOf(i) \in Int
      BY <1>1, <2>2, DaysOrdered
    <3>4. DayOf(i) <= DayOf(i + 1) /\ DayOf(i + 1) \in Int BY <1>1, DaysOrdered
    <3> QED BY <3>2, <3>3, <3>4
  <2>3. \A k \in All : trades[k].in > 0 /\ trades[k].out > 0
    <3>1. \A k \in All : trades[k].in \in 1..Bars /\ trades[k].out \in 1..Bars
      BY TradesTyped DEF All, TradeRecords
    <3> QED BY <3>1, SegmentAssumption
  <2>4. ClosedToday' = {} /\ EnteredToday' = {} BY <1>2, <1>4, <2>2, <2>3
  <2>5. opened # None => opened.at > 0 BY DEF SegmentType, OpenTrades
  <2>6. ~(opened' # None /\ DayOf(opened'.at) = DayOf(i')) BY <1>1, <1>2, <2>2, <2>5
  <2>7. Cardinality({}) = 0 BY FS_EmptySet
  <2>8. Realized(ClosedToday)' = 0
    <3>1. {} \in SUBSET All' OBVIOUS
    <3>2. Realized({})' = SumOver(ProfitsIn(trades'), {}) BY <3>1, RealizedNext
    <3>3. Realized({})' = 0 BY <3>2, SumEmpty
    <3>4. Realized(ClosedToday)' = Realized({})' BY <2>4
    <3> QED BY <3>3, <3>4
  <2>9. Cardinality(ClosedToday)' = 0 /\ Cardinality(EnteredToday)' = 0 BY <2>4, <2>7
  <2>10. day'.fills = 0 /\ day'.profit = 0 BY <2>1
  <2>11. (IF opened # None /\ DayOf(opened.at) = DayOf(i) THEN 1 ELSE 0)' = 0
    BY <2>6 DEF DayOf
  <2> QED BY <1>3, <2>8, <2>9, <2>10, <2>11 DEF DayCounted
<1>6. CASE ~NewDay
  <2>1. day' = day /\ i > 0 /\ DayOf(i + 1) = DayOf(i) BY <1>1, <1>6 DEF NextCandle, NewDay
  <2>2. ClosedToday' = ClosedToday /\ EnteredToday' = EnteredToday
    BY <1>4, <2>1 DEF ClosedToday, EnteredToday
  <2>3. Realized(ClosedToday)' = Realized(ClosedToday)
    <3>1. PICK ks : ks = ClosedToday OBVIOUS
    <3>2. ks \in SUBSET All BY <3>1 DEF ClosedToday
    <3>3. Realized(ks)' = Realized(ks)
      BY <1>1, <1>2, <3>2, RealizedNow, RealizedNext DEF ProfitsIn
    <3>4. Realized(ClosedToday)' = Realized(ks)' BY <2>2, <3>1
    <3> QED BY <3>1, <3>3, <3>4
  <2>4. (IF opened # None /\ DayOf(opened.at) = DayOf(i) THEN 1 ELSE 0)'
          = IF opened # None /\ DayOf(opened.at) = DayOf(i) THEN 1 ELSE 0
    BY <1>1, <2>1 DEF DayOf
  <2> QED BY <1>3, <2>1, <2>2, <2>3, <2>4 DEF DayCounted
<1> QED BY <1>5, <1>6

LEMMA DayOfFill ==
  ASSUME SegmentType, PendingFits, BooksBalance, DayCounted, FillBuy PROVE DayCounted'
<1>1. /\ i \in Nat /\ i > 0 /\ i' = i /\ trades' = trades /\ opened = None
      /\ opened' # None /\ opened'.at = i
  <2>1. portfolio.side = "FLAT" /\ i > 0 BY FilledBuy
  <2>2. opened = None BY <2>1 DEF BooksBalance
  <2>3. opened' # None /\ opened'.at = i BY FilledState, NoneApart
  <2> QED BY <2>1, <2>2, <2>3, SegmentAssumption DEF FillBuy, Resolved, SegmentType
<1>2. day.fills \in Nat /\ day' = [day EXCEPT !.fills = @ + 1] /\ day'.fills = day.fills + 1
      /\ day'.profit = day.profit /\ day'.start = day.start
  BY DEF FillBuy, SegmentType
<1>3. All' = All /\ ClosedToday' = ClosedToday /\ EnteredToday' = EnteredToday
  BY <1>1 DEF ClosedToday, EnteredToday, All, DayOf
<1>4. Realized(ClosedToday)' = Realized(ClosedToday)
  <2>1. PICK ks : ks = ClosedToday OBVIOUS
  <2>2. ks \in SUBSET All BY <2>1 DEF ClosedToday
  <2>3. Realized(ks)' = Realized(ks)
    BY <1>1, <1>3, <2>2, RealizedNow, RealizedNext DEF ProfitsIn
  <2>4. Realized(ClosedToday)' = Realized(ks)' BY <1>3, <2>1
  <2> QED BY <2>1, <2>3, <2>4
<1>5. (IF opened # None /\ DayOf(opened.at) = DayOf(i) THEN 1 ELSE 0)' = 1
  BY <1>1 DEF DayOf
<1>6. day.fills = Cardinality(ClosedToday) + Cardinality(EnteredToday) + 0
  BY <1>1 DEF DayCounted
<1>7. day'.fills = Cardinality(ClosedToday)' + Cardinality(EnteredToday)' + 1
  BY <1>2, <1>3, <1>6, TodayFinite
<1>8. day'.start > 0 => day'.profit = Realized(ClosedToday)'
  BY <1>1, <1>2, <1>4 DEF DayCounted
<1>9. /\ \A k \in All' : trades'[k].in <= i' /\ trades'[k].out <= i'
      /\ opened' # None => opened'.at <= i'
  BY <1>1, <1>3 DEF DayCounted
<1> QED BY <1>5, <1>7, <1>8, <1>9 DEF DayCounted

\* An exit is a fill of today; its entry may be of another day.
LEMMA DayOfExit ==
  ASSUME SegmentType, BooksBalance, EntryPlanned, DayCounted, portfolio.side = "LONG", i > 0,
         NEW level \in Nat, NEW reason \in {"STRATEGY", "STOP_LOSS", "TAKE_PROFIT"},
         Close(level, reason), i' = i
  PROVE  DayCounted'
<1> DEFINE t == Outcome(level, reason)
           closed == ClosedToday
           entered == EnteredToday
           now == DayOf(opened.at) = DayOf(i)
<1>1. /\ t \in TradeRecords /\ trades' = Append(trades, t) /\ t.profit \in Int
      /\ t.in = opened.at /\ t.out = i /\ t.profit = SellProfit(portfolio.base, level)
      /\ opened # None /\ opened.at <= i
  BY OutcomeRecorded DEF Outcome, BooksBalance, DayCounted
<1>2. trades \in Seq(TradeRecords) /\ Len(trades) \in Nat BY DEF SegmentType
<1>3. PICK m : m = Len(trades) + 1 OBVIOUS
<1>4. /\ day'.fills = day.fills + 1 /\ day'.start = day.start /\ opened' = None
      /\ day.start > 0 => day'.profit = day.profit + t.profit
      /\ day.fills \in Nat
  BY <1>1 DEF Close, SegmentType
<1>5. /\ day.fills = Cardinality(closed) + Cardinality(entered) + (IF now THEN 1 ELSE 0)
      /\ day.start > 0 => day.profit = Realized(closed)
  BY <1>1 DEF DayCounted
<1>6. /\ IsFiniteSet(closed) /\ Cardinality(closed) \in Nat
      /\ IsFiniteSet(entered) /\ Cardinality(entered) \in Nat
  BY TodayFinite
<1> HIDE DEF t
<1>7. /\ All = 1..(m - 1) /\ All' = 1..m /\ m \in Nat \ {0}
      /\ trades'[m] = t /\ \A k \in All : trades'[k] = trades[k]
  <2>1. DOMAIN trades = 1..Len(trades) BY <1>2
  <2>2. DOMAIN trades' = 1..(Len(trades) + 1) BY <1>1, <1>2
  <2>3. trades'[Len(trades) + 1] = t /\ \A k \in DOMAIN trades : trades'[k] = trades[k]
    BY <1>1, <1>2
  <2> QED BY <1>2, <1>3, <2>1, <2>2, <2>3 DEF All
<1>8. m \notin closed /\ m \notin entered /\ closed \in SUBSET All
  BY <1>7 DEF ClosedToday, EnteredToday
<1>9. \A k : k \in All' <=> k \in All \/ k = m BY <1>7
<1>10. ClosedToday' = closed \cup {m}
  <2>1. \A k \in All : DayOf(trades'[k].out) = DayOf(i) <=> DayOf(trades[k].out) = DayOf(i)
    BY <1>7
  <2>2. DayOf(trades'[m].out) = DayOf(i) BY <1>1, <1>7
  <2>3. ClosedToday' = {k \in All' : DayOf(trades'[k].out) = DayOf(i)}
    BY DEF ClosedToday, DayOf
  <2> QED BY <1>9, <2>1, <2>2, <2>3 DEF ClosedToday
<1>11. EnteredToday' = IF now THEN entered \cup {m} ELSE entered
  <2>1. \A k \in All : DayOf(trades'[k].in) = DayOf(i) <=> DayOf(trades[k].in) = DayOf(i)
    BY <1>7
  <2>2. DayOf(trades'[m].in) = DayOf(i) <=> now BY <1>1, <1>7
  <2>3. EnteredToday' = {k \in All' : DayOf(trades'[k].in) = DayOf(i)}
    BY DEF EnteredToday, DayOf
  <2> HIDE DEF now
  <2>4. CASE now BY <1>9, <2>1, <2>2, <2>3, <2>4 DEF EnteredToday
  <2>5. CASE ~now BY <1>9, <2>1, <2>2, <2>3, <2>5 DEF EnteredToday
  <2> QED BY <2>4, <2>5
<1>12. Cardinality(closed \cup {m}) = Cardinality(closed) + 1
       /\ Cardinality(entered \cup {m}) = Cardinality(entered) + 1
  <2> HIDE DEF closed, entered
  <2> QED BY <1>6, <1>8, FS_AddElement
<1>13. Cardinality(ClosedToday)' = Cardinality(closed) + 1 BY <1>10, <1>12
<1>14. Cardinality(EnteredToday)' = IF now THEN Cardinality(entered) + 1 ELSE Cardinality(entered)
  BY <1>11, <1>12
<1>15. day.start > 0 => Realized(ClosedToday)' = day'.profit
  <2>1. PICK ks : ks = closed OBVIOUS
  <2>2. ks \in SUBSET All BY <1>8, <2>1
  <2>3. Realized(ks \cup {m})' = Realized(ks) + t.profit
    BY <1>1, <1>2, <1>3, <2>2, RealizedGrows
  <2>4. Realized(ClosedToday)' = Realized(ks \cup {m})' BY <1>10, <2>1
  <2> QED BY <1>4, <1>5, <2>1, <2>3, <2>4
<1>16. /\ \A k \in All' : trades'[k].in <= i' /\ trades'[k].out <= i'
       /\ (IF opened # None /\ DayOf(opened.at) = DayOf(i) THEN 1 ELSE 0)' = 0
  <2>1. \A k \in All : trades'[k].in <= i' /\ trades'[k].out <= i' BY <1>7 DEF DayCounted
  <2>2. trades'[m].in <= i' /\ trades'[m].out <= i'
    <3>1. i \in Int BY SegmentAssumption DEF SegmentType
    <3> QED BY <1>1, <1>7, <3>1
  <2> QED BY <1>4, <1>9, <2>1, <2>2
<1>17. day'.fills = Cardinality(ClosedToday)' + Cardinality(EnteredToday)' + 0
  <2> HIDE DEF now, closed, entered
  <2> QED BY <1>4, <1>5, <1>6, <1>13, <1>14
<1> QED BY <1>4, <1>15, <1>16, <1>17 DEF DayCounted

LEMMA DayStep ==
  ASSUME SegmentType, PendingFits, BooksBalance, EntryPlanned, DayCounted, [Next]_vars
  PROVE  DayCounted'
<1>1. CASE FillExit \/ StopExit \/ TakeProfitExit
  <2>1. portfolio.side = "LONG" /\ i > 0 BY <1>1, ExitLevels
  <2>2. PICK level \in Nat, reason \in {"STRATEGY", "STOP_LOSS", "TAKE_PROFIT"} :
          Close(level, reason)
    BY <1>1, ExitLevels
  <2>3. i' = i BY <1>1 DEF FillExit, StopExit, TakeProfitExit, Resolved
  <2> QED BY <2>1, <2>2, <2>3, DayOfExit
<1>2. CASE FillBuy BY <1>2, DayOfFill
<1>3. ASSUME NEW c \in Shapes, NextCandle(c) PROVE DayCounted' BY <1>3, DayBegins
<1>4. CASE \/ RejectBuy \/ BlockBuy \/ AbortBuy \/ RejectExit \/ NoProtection \/ Finish
           \/ UNCHANGED vars \/ \E s \in Signals : Mark(s)
  <2>1. UNCHANGED <<trades, i, opened, day>>
    BY <1>4 DEF RejectBuy, BlockBuy, AbortBuy, RejectExit, NoProtection, Mark, Finish, vars,
                Resolved, position
  <2> QED BY <2>1, DayUntouched
<1> QED BY <1>1, <1>2, <1>3, <1>4 DEF Next

\* MAX_DAILY_LOSS_SHUTDOWN and MAX_TRADES_PER_DAY_REACHED of _check_buy_gates see
\* the day as it was traded: no entry passes them on a day that is over a limit.
THEOREM EntriesAlwaysWithinDay == Spec => EntriesWithinDay
<1> DEFINE Kept == Inv /\ PlanInv /\ DayCounted
<1>1. Init => DayCounted
  <2> SUFFICES ASSUME Init PROVE DayCounted OBVIOUS
  <2>1. trades = <<>> /\ i = 0 /\ opened = None BY DEF Init
  <2>2. All = {} BY <2>1 DEF All
  <2> QED BY <2>1, <2>2 DEF DayCounted
<1>2. Kept /\ [Next]_vars => Kept'
  BY InvNext, PlanStep, DayStep DEF Inv, PlanInv
<1>3. Kept /\ [Next]_vars =>
        [opened = None /\ opened' # None =>
           LET today == {k \in All : DayOf(trades[k].out) = DayOf(i)}
               fills == Cardinality(today) + Cardinality({k \in All : DayOf(trades[k].in) = DayOf(i)})
           IN  fills < MaxTrades /\ ~LostToday(Realized(today), day.start)]_vars
  <2> SUFFICES ASSUME Inv, DayCounted, Next, opened = None, opened' # None
               PROVE  /\ Cardinality(ClosedToday) + Cardinality(EnteredToday) < MaxTrades
                      /\ ~LostToday(Realized(ClosedToday), day.start)
    BY DEF ClosedToday, EnteredToday
  <2>1. FillBuy
    BY DEF Next, NextCandle, RejectBuy, BlockBuy, AbortBuy, RejectExit, FillExit, StopExit,
           TakeProfitExit, NoProtection, Mark, Finish, Close, position
  <2>2. Gate = "APPROVED" /\ i > 0 BY <2>1, FilledBuy DEF Inv
  <2>3. day.fills < MaxTrades /\ ~LostToday(day.profit, day.start)
    BY <2>2, GateAssumption DEF Gate, BuyGate, Inv, SegmentType
  <2>4. day.fills = Cardinality(ClosedToday) + Cardinality(EnteredToday) + 0
        /\ (day.start > 0 => day.profit = Realized(ClosedToday))
    BY <2>2 DEF DayCounted
  <2>5. Cardinality(ClosedToday) \in Nat /\ Cardinality(EnteredToday) \in Nat
    BY TodayFinite DEF Inv
  <2> QED BY <2>3, <2>4, <2>5 DEF LostToday
<1> HIDE DEF Kept
<1>4. Init => Kept BY <1>1, InvInit, PlanInit DEF Kept
<1> QED BY <1>2, <1>3, <1>4, PTL DEF Spec, EntriesWithinDay

-----------------------------------------------------------------------------
(* A plan approved before its fill holds after it.                         *)

LEMMA CeilingIs ==
  ASSUME NEW a \in Int, NEW b \in Nat \ {0}
  PROVE  /\ Ceiling(a, b) \in Int
         /\ a <= Ceiling(a, b) * b
         /\ Ceiling(a, b) * b < a + b
<1> DEFINE y == (-a) \div b
<1>1. y \in Int /\ y * b <= -a /\ -a < y * b + b OBVIOUS
<1>2. Ceiling(a, b) = -y BY DEF Ceiling
<1> HIDE DEF y
<1>3. (-y) * b = -(y * b) /\ y * b \in Int BY <1>1
<1> QED BY <1>1, <1>2, <1>3

LEMMA CeilingOrdered ==
  ASSUME NEW a \in Int, NEW c \in Int, NEW b \in Nat \ {0}, a <= c
  PROVE  Ceiling(a, b) <= Ceiling(c, b)
<1> DEFINE x == Ceiling(a, b)
           y == Ceiling(c, b)
<1>1. x \in Int /\ y \in Int /\ x * b < a + b /\ c <= y * b BY CeilingIs
<1> HIDE DEF x, y
<1>2. (y + 1) * b = y * b + b /\ x * b \in Int /\ y * b \in Int BY <1>1
<1>3. y + 1 <= x => (y + 1) * b <= x * b BY <1>1, ProductMonotone
<1>4. x <= y BY <1>1, <1>2, <1>3
<1> QED BY <1>4 DEF x, y

\* A stop below the fill loses, with every cost.
LEMMA LowStopLoses ==
  ASSUME NEW f \in Nat, NEW s \in Nat, s < f * D
  PROVE  LossPerUnit(f, s) \in Nat \ {0}
<1> DEFINE paid == f * (D + Fee)
           got == SellPrice(s) * (D - Fee)
<1>1. paid \in Nat /\ f * D <= paid /\ f * D \in Nat
  <2>1. paid = f * D + f * Fee BY RatesTyped
  <2>2. f * D \in Nat /\ f * Fee \in Nat BY RatesTyped, ProductNatural
  <2> QED BY <2>1, <2>2
<1>2. SellPrice(s) \in Nat /\ SellPrice(s) <= s * D
  <2>1. s * D = SellPrice(s) + s * Slippage BY RatesTyped DEF SellPrice
  <2>2. SellPrice(s) \in Nat /\ s * Slippage \in Nat
    BY RatesTyped, ProductNatural DEF SellPrice
  <2> QED BY <2>1, <2>2
<1>3. got \in Nat /\ got <= SellPrice(s) * D
  <2>1. SellPrice(s) * D = got + SellPrice(s) * Fee BY <1>2, RatesTyped
  <2>2. got \in Nat /\ SellPrice(s) * Fee \in Nat BY <1>2, RatesTyped, ProductNatural
  <2> QED BY <2>1, <2>2
<1>4. SellPrice(s) * D <= s * D2
  <2>1. SellPrice(s) * D <= (s * D) * D
    <3>1. s * D \in Nat BY RatesTyped, ProductNatural
    <3> QED BY <1>2, <3>1, RatesTyped, ProductMonotone
  <2>2. (s * D) * D = s * D2 BY RatesTyped DEF D2
  <2> QED BY <2>1, <2>2
<1>5. s * D2 < paid * D2 /\ paid * D2 \in Nat
  <2>1. PICK g \in Nat \ {0} : paid = s + g
    <3>1. paid - s \in Nat \ {0} /\ paid = s + (paid - s) BY <1>1
    <3> QED BY <3>1
  <2>2. (s + g) * D2 = s * D2 + g * D2 BY Denominators
  <2>3. g * D2 \in Nat \ {0} /\ s * D2 \in Nat BY Denominators, ProductPositive, ProductNatural
  <2>4. paid * D2 \in Nat BY <1>1, Denominators, ProductNatural
  <2> HIDE DEF paid
  <2> QED BY <2>1, <2>2, <2>3, <2>4
<1>6. LossPerUnit(f, s) = paid * D2 - got BY DEF LossPerUnit
<1>7. SellPrice(s) * D \in Nat /\ s * D2 \in Nat
  BY <1>2, RatesTyped, Denominators, ProductNatural
<1> HIDE DEF paid, got
<1> QED BY <1>3, <1>4, <1>5, <1>6, <1>7

\* What the target's rounding divides by: the proceeds of one tick.
Proceeds == D2 * (D - Slippage) * (D - Fee)

LEMMA ProceedsTyped == Proceeds \in Nat \ {0} /\ Proceeds <= D2 * D * D
<1> DEFINE u == D - Slippage
           v == D - Fee
<1>1. u \in Nat \ {0} /\ v \in Nat \ {0} /\ u <= D /\ v <= D /\ D \in Nat \ {0}
      /\ D2 \in Nat \ {0}
  BY RatesTyped, Denominators, SizingAssumption
<1>2. Proceeds = D2 * u * v BY DEF Proceeds
<1> HIDE DEF u, v
<1>3. D2 * u \in Nat \ {0} /\ D2 * D \in Nat BY <1>1, ProductPositive
<1>4. u * D2 <= D * D2 BY <1>1, ProductMonotone
<1>5. D2 * u <= D2 * D BY <1>1, <1>4
<1>6. (D2 * u) * v <= (D2 * D) * v BY <1>1, <1>3, <1>5, ProductMonotone
<1>7. v * (D2 * D) <= D * (D2 * D) BY <1>1, <1>3, ProductMonotone
<1>8. (D2 * D) * v = v * (D2 * D) /\ D2 * D * D = D * (D2 * D) BY <1>1
<1>9. (D2 * u) * v \in Nat \ {0} BY <1>1, <1>3, ProductPositive
<1>10. v * (D2 * D) \in Nat /\ D * (D2 * D) \in Nat BY <1>1, <1>3, ProductNatural
<1> QED BY <1>2, <1>6, <1>7, <1>8, <1>9, <1>10

\* The target is the first tick at which the position gains twice its loss.
LEMMA TargetPays ==
  ASSUME NEW fill \in Nat, NEW loss \in Int
  PROVE  /\ Target(fill, loss) \in Int
         /\ GainPerUnit(fill, Target(fill, loss)) >= MinReward * loss
         /\ MinReward * loss + fill * (D + Fee) * D2 <= Target(fill, loss) * Proceeds
<1> DEFINE x == MinReward * loss + fill * (D + Fee) * D2
           t == Target(fill, loss)
<1>1. x \in Int /\ fill * (D + Fee) * D2 \in Int /\ MinReward * loss \in Int
  BY RatesTyped, Denominators DEF MinReward
<1>2. t = Ceiling(x, Proceeds) BY DEF Target, Proceeds
<1> HIDE DEF x, t
<1>3. t \in Int /\ x <= t * Proceeds BY <1>1, <1>2, ProceedsTyped, CeilingIs
<1>4. GainPerUnit(fill, t) = t * Proceeds - fill * (D + Fee) * D2
  <2> DEFINE u == D - Slippage
             v == D - Fee
  <2>1. u \in Int /\ v \in Int /\ D2 \in Int BY RatesTyped, Denominators
  <2>2. GainPerUnit(fill, t) = t * D2 * u * v - fill * (D + Fee) * D2
    BY DEF GainPerUnit, SellPrice, Level
  <2>3. Proceeds = D2 * u * v BY DEF Proceeds
  <2> HIDE DEF u, v
  <2>4. t * D2 * u * v = t * (D2 * u * v) BY <1>3, <2>1
  <2> QED BY <2>2, <2>3, <2>4
<1>5. t * Proceeds \in Int BY <1>3, ProceedsTyped
<1>6. GainPerUnit(fill, t) >= MinReward * loss BY <1>1, <1>3, <1>4, <1>5 DEF x
<1> QED BY <1>3, <1>6 DEF x, t

\* And it lies above the fill.
LEMMA TargetAboveFill ==
  ASSUME NEW fill \in Nat \ {0}, NEW loss \in Nat \ {0}
  PROVE  Target(fill, loss) * D > fill
<1> DEFINE t == Target(fill, loss)
           cost == fill * (D + Fee) * D2
           w == D2 * D
<1>1. t \in Int /\ MinReward * loss + cost <= t * Proceeds BY TargetPays
<1>2. D \in Nat \ {0} /\ D2 \in Nat \ {0} /\ Fee \in Nat BY RatesTyped, Denominators
<1>3. w \in Nat \ {0} BY <1>2, ProductPositive
<1>4. cost = fill * w + fill * Fee * D2 /\ fill * w \in Nat /\ fill * Fee * D2 \in Nat
  <2>1. cost = fill * w + fill * Fee * D2 BY <1>2
  <2>2. fill * w \in Nat BY <1>3, ProductNatural
  <2>3. fill * Fee \in Nat BY <1>2, ProductNatural
  <2> QED BY <1>2, <2>1, <2>2, <2>3, ProductNatural
<1>5. MinReward * loss \in Nat \ {0} BY DEF MinReward
<1> HIDE DEF t, cost
<1>6. t * Proceeds \in Int /\ t * Proceeds > fill * w BY <1>1, <1>4, <1>5, ProceedsTyped
<1>7. t \in Nat
  <2>1. CASE t < 0
    <3>1. -t \in Nat BY <1>1, <2>1
    <3>2. (-t) * Proceeds \in Nat BY <3>1, ProceedsTyped, ProductNatural
    <3>3. t * Proceeds = -((-t) * Proceeds) BY <1>1, ProceedsTyped
    <3> QED BY <1>4, <1>6, <3>2, <3>3
  <2> QED BY <1>1, <2>1
<1>8. t * Proceeds <= (t * D) * w
  <2>1. Proceeds * t <= (D2 * D * D) * t
    <3>1. D2 * D * D \in Int BY <1>2
    <3> QED BY <1>7, <3>1, ProceedsTyped, ProductMonotone
  <2>2. Proceeds * t = t * Proceeds /\ (D2 * D * D) * t = (t * D) * w
    BY <1>2, <1>7, ProceedsTyped
  <2> QED BY <2>1, <2>2
<1>9. t * D \in Nat BY <1>2, <1>7, ProductNatural
<1> HIDE DEF w
<1>10. (t * D) * w \in Int /\ fill * w < (t * D) * w BY <1>3, <1>4, <1>6, <1>8, <1>9
<1>11. t * D <= fill => (t * D) * w <= fill * w BY <1>3, <1>9, ProductMonotone
<1>12. t * D > fill BY <1>4, <1>9, <1>10, <1>11
<1> QED BY <1>12 DEF t

\* plan_risk_reward_entry and build_realized_plan agree: no plan that is approved
\* at the reference price fails at the price of the fill.
LEMMA PlanSurvivesFill ==
  ASSUME NEW e \in Int, NEW quote \in Int, NEW p \in Nat \ {0}, NEW q \in Nat,
         q = PlannedQuantity(e, quote, p), PlanReason(e, quote, p) = "SIZED_OK"
  PROVE  RealizedPlanHolds(e, q, BuyPrice(p))
<1> DEFINE fill == BuyPrice(p)
           sized == LossPerUnit(fill, StopOf(p) * D)
           loss == LossPerUnit(fill, StopOf(fill))
           t == Target(fill, loss)
<1>1. fill \in Nat \ {0} /\ sized \in Nat \ {0} /\ loss \in Nat \ {0} /\ loss <= sized
  <2>1. fill \in Nat \ {0} BY BuyPriceTyped
  <2>2. StopOf(fill) \in Nat /\ StopOf(fill) < fill * D
    <3> DEFINE u == D - StopDistance
    <3>1. u \in Nat /\ StopDistance \in Nat \ {0} /\ D \in Nat /\ D = u + StopDistance
      BY RatesTyped
    <3>2. StopOf(fill) = fill * u BY DEF StopOf
    <3> HIDE DEF u, fill
    <3>3. fill * D = fill * u + fill * StopDistance BY <2>1, <3>1
    <3>4. fill * StopDistance \in Nat \ {0} /\ fill * u \in Nat
      BY <2>1, <3>1, ProductPositive, ProductNatural
    <3> QED BY <3>2, <3>3, <3>4
  <2>3. loss \in Nat \ {0} BY <2>1, <2>2, LowStopLoses
  <2> QED BY <2>1, <2>3, LossPositive, LossNoHigher
<1>2. t \in Int /\ GainPerUnit(fill, t) >= MinReward * loss /\ GainPerUnit(fill, t) \in Int
  <2>1. t \in Int /\ GainPerUnit(fill, t) >= MinReward * loss BY <1>1, TargetPays
  <2>2. SellPrice(Level(t)) \in Int BY <2>1, RatesTyped, Denominators DEF SellPrice, Level
  <2>3. GainPerUnit(fill, t) \in Int
    BY <1>1, <2>2, RatesTyped, Denominators DEF GainPerUnit
  <2> QED BY <2>1, <2>3
<1>3. t * D > fill BY <1>1, TargetAboveFill
<1>4. ~TargetTooHigh(t)
  <2> DEFINE x == MinReward * loss + fill * (D + Fee) * D2
             y == MinReward * sized + fill * (D + Fee) * D2
  <2>1. ~TargetTooHigh(Target(fill, sized)) BY DEF PlanReason
  <2>2. x \in Int /\ y \in Int /\ x <= y
    <3>1. fill * (D + Fee) * D2 \in Int BY <1>1, RatesTyped, Denominators
    <3> HIDE DEF fill, sized, loss
    <3> QED BY <1>1, <3>1 DEF MinReward
  <2>3. t = Ceiling(x, Proceeds) /\ Target(fill, sized) = Ceiling(y, Proceeds)
    BY DEF Target, Proceeds
  <2> HIDE DEF x, y, t, fill, sized
  <2>4. t <= Target(fill, sized) /\ Target(fill, sized) \in Int
    BY <2>2, <2>3, ProceedsTyped, CeilingOrdered, CeilingIs
  <2> QED BY <1>2, <2>1, <2>4, SizingAssumption DEF TargetTooHigh
<1>5. q * loss * D <= e * FixedRisk
  <2>1. FixedRisk \in Nat BY SizingAssumption
  <2>2. q * loss * D <= FixedRisk * e BY <2>1, RiskBounds, WithinRisk
  <2> QED BY <2>1, <2>2
<1>6. q * GainPerUnit(fill, t) >= MinReward * (q * loss)
  <2> DEFINE g == GainPerUnit(fill, t)
             r == MinReward * loss
  <2>1. g \in Int /\ r \in Int /\ r <= g BY <1>1, <1>2 DEF MinReward
  <2>3. MinReward * (q * loss) = r * q BY <1>1 DEF MinReward
  <2> HIDE DEF g, r, loss
  <2>2. r * q <= g * q BY <2>1, ProductMonotone
  <2>4. g * q = q * g /\ r * q \in Int /\ g * q \in Int BY <2>1
  <2> QED BY <2>2, <2>3, <2>4 DEF g
<1>7. /\ RealizedPlan(q, fill).target = t /\ RealizedPlan(q, fill).risk = q * loss
  BY DEF RealizedPlan
<1> HIDE DEF t, loss, sized
<1> QED BY <1>3, <1>4, <1>5, <1>6, <1>7 DEF RealizedPlanHolds

-----------------------------------------------------------------------------
(* Rejections.                                                             *)

LEMMA GatesFinite == IsFiniteSet(Gates)
<1>1. IsFiniteSet({"MAX_DRAWDOWN_SHUTDOWN"}) BY FS_Singleton
<1>2. IsFiniteSet({"MAX_DRAWDOWN_SHUTDOWN"} \cup {"MAX_DAILY_LOSS_SHUTDOWN"})
  BY <1>1, FS_AddElement
<1>3. IsFiniteSet({"MAX_DRAWDOWN_SHUTDOWN", "MAX_DAILY_LOSS_SHUTDOWN"}
                  \cup {"MAX_TRADES_PER_DAY_REACHED"})
  <2>1. {"MAX_DRAWDOWN_SHUTDOWN"} \cup {"MAX_DAILY_LOSS_SHUTDOWN"}
          = {"MAX_DRAWDOWN_SHUTDOWN", "MAX_DAILY_LOSS_SHUTDOWN"}
    OBVIOUS
  <2> QED BY <1>2, <2>1, FS_AddElement
<1>4. IsFiniteSet({"COOLDOWN_AFTER_LOSS_ACTIVE"} \cup {"BELOW_MIN_QUOTE_BALANCE"})
  BY FS_Singleton, FS_AddElement
<1>5. IsFiniteSet({"INVALID_EQUITY"} \cup {"EXCEEDS_MAX_POSITION_PCT"})
  BY FS_Singleton, FS_AddElement
<1>6. Gates = (({"MAX_DRAWDOWN_SHUTDOWN", "MAX_DAILY_LOSS_SHUTDOWN"}
                 \cup {"MAX_TRADES_PER_DAY_REACHED"})
                \cup ({"COOLDOWN_AFTER_LOSS_ACTIVE"} \cup {"BELOW_MIN_QUOTE_BALANCE"}))
               \cup ({"INVALID_EQUITY"} \cup {"EXCEEDS_MAX_POSITION_PCT"})
  BY DEF Gates
<1> QED BY <1>3, <1>4, <1>5, <1>6, FS_Union

Blocks(sd) == [g \in Gates |-> sd[g].blocked]

LEMMA BlocksSummed ==
  ASSUME NEW sd
  PROVE  (CHOOSE g : g = [T \in SUBSET Gates |-> IF T = {} THEN 0
                                               ELSE sd[Some(T)].blocked + g[T \ {Some(T)}]])[Gates]
           = SumOver(Blocks(sd), Gates)
<1> DEFINE step(g) == [T \in SUBSET Gates |-> IF T = {} THEN 0
                                            ELSE sd[Some(T)].blocked + g[T \ {Some(T)}]]
<1>1. ASSUME NEW g PROVE step(g) = SumStep(Blocks(sd), Gates, g)
  <2>1. \A T \in SUBSET Gates : T # {} => sd[Some(T)].blocked = Blocks(sd)[Some(T)]
    BY DEF Some, Blocks
  <2> QED BY <2>1 DEF SumStep
<1>2. (CHOOSE g : g = step(g)) = SumsOf(Blocks(sd), Gates)
  <2> HIDE DEF step
  <2> QED BY <1>1 DEF SumsOf
<1> QED BY <1>2, SumIsLast

LEMMA RejectionsAre ==
  /\ Rejections = diag.refused + SumOver(Blocks(shutdown), Gates)
  /\ Rejections' = diag'.refused + SumOver(Blocks(shutdown'), Gates)
<1>1. Rejections = diag.refused + SumOver(Blocks(shutdown), Gates)
  BY BlocksSummed DEF Rejections, Total, MapThenSumSet, MapThenFoldSet, Some
<1>2. Rejections' = diag'.refused + SumOver(Blocks(shutdown'), Gates)
  BY BlocksSummed DEF Rejections, Total, MapThenSumSet, MapThenFoldSet, Some
<1> QED BY <1>1, <1>2

LEMMA BlocksTyped ==
  ASSUME SegmentType
  PROVE  /\ \A g \in Gates : Blocks(shutdown)[g] \in Nat
         /\ SumOver(Blocks(shutdown), Gates) \in Nat
         /\ \A g \in Gates : shutdown[g].blocked <= SumOver(Blocks(shutdown), Gates)
<1>1. \A g \in Gates : Blocks(shutdown)[g] \in Nat /\ Blocks(shutdown)[g] = shutdown[g].blocked
  <2>1. shutdown \in [Gates -> Shutdowns] BY DEF SegmentType
  <2> HIDE DEF Gates
  <2> QED BY ONLY <2>1 DEF Blocks, Shutdowns
<1>2. /\ SumOver(Blocks(shutdown), Gates) \in Nat
      /\ \A g \in Gates : Blocks(shutdown)[g] <= SumOver(Blocks(shutdown), Gates)
  BY <1>1, GatesFinite, SumBounds
<1> QED BY <1>1, <1>2

\* A refusal is counted, once, by its gate.
LEMMA BlockCounts ==
  ASSUME SegmentType, BlockBuy
  PROVE  SumOver(Blocks(shutdown'), Gates) = SumOver(Blocks(shutdown), Gates) + 1
<1> DEFINE e == BuyVerdict
<1>1. e \in Gates /\ shutdown' = [shutdown EXCEPT ![e] = [first   |-> IF @.first = 0 THEN i ELSE @.first,
                                                         last    |-> i,
                                                         blocked |-> @.blocked + 1]]
  BY DEF BlockBuy
<1>2. shutdown \in [Gates -> Shutdowns] BY DEF SegmentType
<1> HIDE DEF e
<1>3. /\ Blocks(shutdown')[e] = Blocks(shutdown)[e] + 1
      /\ \A g \in Gates \ {e} : Blocks(shutdown')[g] = Blocks(shutdown)[g]
  BY ONLY <1>1, <1>2 DEF Blocks
<1>4. \A g \in Gates : Blocks(shutdown)[g] \in Int BY BlocksTyped
<1> DEFINE f == Blocks(shutdown)
           g == Blocks(shutdown')
<1>5. /\ \A x \in Gates : f[x] \in Int
      /\ g[e] = f[e] + 1 /\ \A x \in Gates \ {e} : g[x] = f[x]
  BY <1>3, <1>4
<1> HIDE DEF f, g
<1>6. PICK d \in Int : d = 1 OBVIOUS
<1>7. e \in Gates /\ g[e] = f[e] + d BY <1>1, <1>5, <1>6
<1>8. SumOver(g, Gates) = SumOver(f, Gates) + d
  BY <1>5, <1>7, GatesFinite, SumMoved
<1> QED BY <1>6, <1>8 DEF f, g

-----------------------------------------------------------------------------
(* What becomes of signals and of entries.                                 *)

OneIf(condition) == IF condition THEN 1 ELSE 0

SignalInv ==
  /\ diag \in Counters
  /\ phase # "aborted" => diag.buys = diag.entries + Rejections + OneIf(pending = "BUY")
  /\ diag.entries = Len(trades) + OneIf(opened # None)
  /\ Exits(All, "STRATEGY") + OneIf(pending = "EXIT") <= diag.exits
  /\ policy = "baseline" => Exits(All, "TAKE_PROFIT") = 0
  /\ diag.afterFill = 0
  /\ \A g \in Gates : shutdown[g].first # 0 => shutdown[g].blocked > 0

LEMMA ExitsTyped ==
  ASSUME SegmentType, NEW r PROVE IsFiniteSet({k \in All : trades[k].reason = r}) /\ Exits(All, r) \in Nat
<1>1. All = 1..Len(trades) /\ Len(trades) \in Nat BY DEF SegmentType, All
<1>2. IsFiniteSet(All) BY <1>1, FS_Interval
<1>3. {k \in All : trades[k].reason = r} \subseteq All OBVIOUS
<1>4. IsFiniteSet({k \in All : trades[k].reason = r}) BY <1>2, <1>3, FS_Subset
<1>5. Cardinality({k \in All : trades[k].reason = r}) \in Nat BY <1>4, FS_CardinalityType
<1> QED BY <1>4, <1>5 DEF Exits

LEMMA ExitsGrow ==
  ASSUME SegmentType, NEW t \in TradeRecords, trades' = Append(trades, t), NEW r
  PROVE  Exits(All, r)' = Exits(All, r) + OneIf(t.reason = r)
<1> DEFINE old == {k \in All : trades[k].reason = r}
<1>1. trades \in Seq(TradeRecords) /\ Len(trades) \in Nat BY DEF SegmentType
<1>2. PICK m : m = Len(trades) + 1 OBVIOUS
<1>3. /\ All = 1..(m - 1) /\ All' = 1..m /\ m \in Nat \ {0}
      /\ trades'[m] = t /\ \A k \in All : trades'[k] = trades[k]
  <2>1. DOMAIN trades = 1..Len(trades) BY <1>1
  <2>2. DOMAIN trades' = 1..(Len(trades) + 1) BY <1>1
  <2>3. trades'[Len(trades) + 1] = t /\ \A k \in DOMAIN trades : trades'[k] = trades[k]
    BY <1>1
  <2> QED BY <1>1, <1>2, <2>1, <2>2, <2>3 DEF All
<1>4. \A k : k \in All' <=> k \in All \/ k = m BY <1>3
<1>5. m \notin All BY <1>3
<1>6. {k \in All' : trades'[k].reason = r} = IF t.reason = r THEN old \cup {m} ELSE old
  BY <1>3, <1>4, <1>5
<1>7. IsFiniteSet(old) /\ Cardinality(old) = Exits(All, r) /\ Exits(All, r) \in Nat
  BY ExitsTyped DEF Exits
<1>8. m \notin old BY <1>5
<1>9. Exits(All, r)' = Cardinality({k \in All' : trades'[k].reason = r}) BY DEF Exits
<1> HIDE DEF old
<1>10. Cardinality(old \cup {m}) = Cardinality(old) + 1 BY <1>7, <1>8, FS_AddElement
<1>11. CASE t.reason = r
  <2>1. {k \in All' : trades'[k].reason = r} = old \cup {m} BY <1>6, <1>11
  <2>2. Exits(All, r)' = Cardinality(old) + 1 BY <1>9, <1>10, <2>1
  <2> QED BY <1>7, <1>11, <2>2 DEF OneIf
<1>12. CASE t.reason # r
  <2>1. {k \in All' : trades'[k].reason = r} = old BY <1>6, <1>12
  <2>2. Exits(All, r)' = Exits(All, r) BY <1>7, <1>9, <2>1
  <2> QED BY <1>7, <1>12, <2>2 DEF OneIf
<1> QED BY <1>11, <1>12

LEMMA ExitsUntouched == ASSUME trades' = trades, NEW r PROVE Exits(All, r)' = Exits(All, r)
<1>1. All' = All BY DEF All
<1> QED BY <1>1 DEF Exits

LEMMA RejectionsUntouched ==
  ASSUME shutdown' = shutdown, diag'.refused = diag.refused PROVE Rejections' = Rejections
BY RejectionsAre DEF Blocks

\* No verdict on a BUY is that its plan fails after the fill.
LEMMA NeverAfterFill ==
  ASSUME SegmentType, PendingFits, Resolved, pending = "BUY"
  PROVE  BuyVerdict # "plan fails after the fill"
<1> DEFINE o == candle.open
           e == Equity(o)
           q == Sizing.quantity
<1>1. SUFFICES ASSUME BuyVerdict = "plan fails after the fill" PROVE FALSE OBVIOUS
<1>2. Gate \in Gates \cup {"APPROVED"} BY DEF Gate, BuyGate, Gates
<1>3. /\ Sizing.reason = "SIZED_OK" /\ ValidationReason(o, q) = "VALIDATED"
      /\ policy = "rr" /\ ~RealizedPlanHolds(e, q, BuyPrice(o))
  BY <1>1, <1>2 DEF BuyVerdict, Gates
<1>4. o \in Nat \ {0} /\ e \in Int /\ portfolio.quote \in Int
  BY ResolvedType, EquityTyped DEF SegmentType
<1>5. q = PlannedQuantity(e, portfolio.quote, o) /\ PlanReason(e, portfolio.quote, o) = "SIZED_OK"
  BY <1>3 DEF Sizing, PlanSizing, Decision
<1>6. q \in Int BY <1>4, <1>5, QuantitiesTyped
<1>7. q > 0 BY <1>3, <1>6 DEF ValidationReason
<1>8. q \in Nat BY <1>6, <1>7
<1> HIDE DEF q, e, o
<1> QED BY <1>3, <1>4, <1>5, <1>8, PlanSurvivesFill

\* A step that counts nothing and changes nothing that is counted.
LEMMA SignalsUntouched ==
  ASSUME SignalInv, UNCHANGED <<trades, opened, policy, shutdown, diag, pending>>,
         phase' # "aborted" => phase # "aborted"
  PROVE  SignalInv'
<1>1. Rejections' = Rejections BY RejectionsUntouched
<1>2. \A r : Exits(All, r)' = Exits(All, r) BY ExitsUntouched
<1> QED BY <1>1, <1>2 DEF SignalInv, OneIf

WithRefusal(d, m, n) == [d EXCEPT !.refused = @ + m, !.afterFill = @ + n]

WithSignal(d, m, n) == [d EXCEPT !.buys = @ + m, !.exits = @ + n]

LEMMA RefusalCounted ==
  ASSUME NEW d \in Counters, NEW m \in Nat, NEW n \in Nat, NEW e, e = WithRefusal(d, m, n)
  PROVE  /\ e \in Counters /\ e.refused = d.refused + m /\ e.afterFill = d.afterFill + n
         /\ e.buys = d.buys /\ e.exits = d.exits /\ e.entries = d.entries
<1>1. PICK c : c = [d EXCEPT !.refused = @ + m] OBVIOUS
<1>2. /\ c \in Counters /\ c.refused = d.refused + m /\ c.afterFill = d.afterFill
      /\ c.buys = d.buys /\ c.exits = d.exits /\ c.entries = d.entries
  BY <1>1 DEF Counters
<1>3. e = [c EXCEPT !.afterFill = @ + n] BY <1>1 DEF Counters, WithRefusal
<1>4. /\ e \in Counters /\ e.refused = c.refused /\ e.afterFill = c.afterFill + n
      /\ e.buys = c.buys /\ e.exits = c.exits /\ e.entries = c.entries
  BY <1>2, <1>3 DEF Counters
<1> QED BY <1>2, <1>4

LEMMA SignalCounted ==
  ASSUME NEW d \in Counters, NEW m \in Nat, NEW n \in Nat, NEW e, e = WithSignal(d, m, n)
  PROVE  /\ e \in Counters /\ e.refused = d.refused /\ e.afterFill = d.afterFill
         /\ e.buys = d.buys + m /\ e.exits = d.exits + n /\ e.entries = d.entries
<1>1. PICK c : c = [d EXCEPT !.buys = @ + m] OBVIOUS
<1>2. /\ c \in Counters /\ c.refused = d.refused /\ c.afterFill = d.afterFill
      /\ c.buys = d.buys + m /\ c.exits = d.exits /\ c.entries = d.entries
  BY <1>1 DEF Counters
<1>3. e = [c EXCEPT !.exits = @ + n] BY <1>1 DEF Counters, WithSignal
<1>4. /\ e \in Counters /\ e.refused = c.refused /\ e.afterFill = c.afterFill
      /\ e.buys = c.buys /\ e.exits = c.exits + n /\ e.entries = c.entries
  BY <1>2, <1>3 DEF Counters
<1> QED BY <1>2, <1>4

LEMMA SignalStep ==
  ASSUME SegmentType, PendingFits, BooksBalance, EntryPlanned, SignalInv, [Next]_vars
  PROVE  SignalInv'
<1>0. /\ diag.buys \in Nat /\ diag.exits \in Nat /\ diag.entries \in Nat /\ diag.refused \in Nat
      /\ Len(trades) \in Nat /\ Rejections \in Nat
      /\ diag \in Counters
  <2>1. diag \in Counters BY DEF SignalInv
  <2>2. diag.refused \in Nat /\ Len(trades) \in Nat BY <2>1 DEF Counters, SegmentType
  <2>3. Rejections \in Nat BY <2>2, RejectionsAre, BlocksTyped
  <2> QED BY <2>1, <2>2, <2>3 DEF Counters
<1>1. ASSUME NEW c \in Shapes, NextCandle(c) PROVE SignalInv'
  BY <1>1, SignalsUntouched DEF NextCandle, position, record
<1>2. CASE RejectBuy
  <2>1. /\ Resolved /\ pending = "BUY" /\ phase' = "protect" /\ pending' = None
        /\ UNCHANGED <<policy, trades, opened, shutdown>>
        /\ diag' = [diag EXCEPT !.refused = @ + 1,
                                !.afterFill = @ + (IF BuyVerdict = "plan fails after the fill"
                                                   THEN 1 ELSE 0)]
    BY <1>2 DEF RejectBuy, Resolved, position
  <2>2. BuyVerdict # "plan fails after the fill" BY <2>1, NeverAfterFill
  <2>3. /\ diag' \in Counters /\ diag'.refused = diag.refused + 1 /\ diag'.afterFill = 0
        /\ diag'.buys = diag.buys /\ diag'.exits = diag.exits /\ diag'.entries = diag.entries
    <3>1. PICK m \in Nat, n \in Nat : m = 1 /\ n = 0 OBVIOUS
    <3>2. diag' = [diag EXCEPT !.refused = @ + m, !.afterFill = @ + n] BY <2>1, <2>2, <3>1
    <3>3. diag.afterFill = 0 BY DEF SignalInv
    <3>4. /\ diag' \in Counters /\ diag'.refused = diag.refused + m
          /\ diag'.afterFill = diag.afterFill + n
          /\ diag'.buys = diag.buys /\ diag'.exits = diag.exits /\ diag'.entries = diag.entries
      <4>1. PICK d, e : d \in Counters /\ d = diag /\ e = diag' BY <1>0
      <4>2. e = WithRefusal(d, m, n) BY <3>2, <4>1 DEF WithRefusal
      <4>3. /\ e \in Counters /\ e.refused = d.refused + m /\ e.afterFill = d.afterFill + n
            /\ e.buys = d.buys /\ e.exits = d.exits /\ e.entries = d.entries
        BY <4>1, <4>2, RefusalCounted
      <4> QED BY <4>1, <4>3
    <3> QED BY <3>1, <3>3, <3>4
  <2>4. Rejections' = Rejections + 1
    <3>1. SumOver(Blocks(shutdown), Gates) \in Nat BY BlocksTyped
    <3>2. Blocks(shutdown') = Blocks(shutdown) BY <2>1
    <3>3. Rejections = diag.refused + SumOver(Blocks(shutdown), Gates) BY RejectionsAre
    <3>4. Rejections' = diag'.refused + SumOver(Blocks(shutdown), Gates)
      BY <3>2, RejectionsAre
    <3> QED BY <1>0, <2>3, <3>1, <3>3, <3>4
  <2>5. \A r : Exits(All, r)' = Exits(All, r) BY <2>1, ExitsUntouched
  <2>6. phase = "resolve" BY <2>1 DEF Resolved
  <2>7. diag'.buys = diag'.entries + Rejections' + OneIf(pending' = "BUY")
    <3>1. OneIf(pending = "BUY") = 1 /\ OneIf(pending' = "BUY") = 0
      BY <2>1, NoneApart DEF OneIf
    <3>2. diag.buys = diag.entries + Rejections + OneIf(pending = "BUY")
      BY <2>6 DEF SignalInv
    <3> QED BY <1>0, <2>3, <2>4, <3>1, <3>2
  <2>8. Exits(All, "STRATEGY")' + OneIf(pending' = "EXIT") <= diag'.exits
    BY <2>1, <2>3, <2>5, NoneApart DEF SignalInv, OneIf
  <2> QED BY <2>1, <2>3, <2>5, <2>7, <2>8 DEF SignalInv, OneIf
<1>3. CASE BlockBuy
  <2>1. /\ Resolved /\ pending = "BUY" /\ phase' = "protect" /\ pending' = None
        /\ BuyVerdict \in Gates
        /\ UNCHANGED <<policy, trades, opened, diag>>
        /\ shutdown' = [shutdown EXCEPT ![BuyVerdict] =
                          [first   |-> IF @.first = 0 THEN i ELSE @.first,
                           last    |-> i,
                           blocked |-> @.blocked + 1]]
    BY <1>3 DEF BlockBuy, Resolved, position
  <2>2. Rejections' = Rejections + 1
    <3>1. SumOver(Blocks(shutdown), Gates) \in Nat BY BlocksTyped
    <3> QED BY <1>0, <1>3, <2>1, <3>1, RejectionsAre, BlockCounts
  <2>3. \A r : Exits(All, r)' = Exits(All, r) BY <2>1, ExitsUntouched
  <2>4. phase = "resolve" BY <2>1 DEF Resolved
  <2>5. diag'.buys = diag'.entries + Rejections' + OneIf(pending' = "BUY")
    BY <1>0, <2>1, <2>2, <2>4, NoneApart DEF SignalInv, OneIf
  <2>6. Exits(All, "STRATEGY")' + OneIf(pending' = "EXIT") <= diag'.exits
    BY <2>1, <2>3, NoneApart DEF SignalInv, OneIf
  <2>7. \A g \in Gates : shutdown'[g].first # 0 => shutdown'[g].blocked > 0
    <3>1. shutdown \in [Gates -> Shutdowns] BY DEF SegmentType
    <3>2. \A g \in Gates : shutdown[g].blocked \in Nat
      <4> HIDE DEF Gates
      <4> QED BY ONLY <3>1 DEF Shutdowns
    <3>3. \A g \in Gates : shutdown[g].first # 0 => shutdown[g].blocked > 0 BY DEF SignalInv
    <3>4. shutdown'[BuyVerdict].blocked = shutdown[BuyVerdict].blocked + 1
          /\ \A g \in Gates \ {BuyVerdict} : shutdown'[g] = shutdown[g]
      BY <2>1, <3>1
    <3> HIDE DEF Gates
    <3> QED BY <2>1, <3>2, <3>3, <3>4
  <2> QED BY <2>1, <2>3, <2>5, <2>6, <2>7 DEF SignalInv, OneIf
<1>4. CASE AbortBuy
  <2>1. phase' = "aborted" /\ pending' = None /\ UNCHANGED <<policy, trades, opened, shutdown, diag>>
        /\ pending = "BUY"
    BY <1>4 DEF AbortBuy, Resolved, position, record
  <2>2. \A r : Exits(All, r)' = Exits(All, r) BY <2>1, ExitsUntouched
  <2> QED BY <2>1, <2>2, NoneApart DEF SignalInv, OneIf
<1>5. CASE FillBuy
  <2>1. /\ phase = "resolve" /\ phase' = "protect" /\ pending = "BUY" /\ pending' = None
        /\ UNCHANGED <<policy, trades, shutdown>>
        /\ diag' = [diag EXCEPT !.entries = @ + 1]
    BY <1>5 DEF FillBuy, Resolved
  <2>2. opened = None /\ opened' # None
    BY <1>5, FilledBuy, FilledState, NoneApart DEF BooksBalance
  <2>3. /\ diag' \in Counters /\ diag'.refused = diag.refused /\ diag'.afterFill = diag.afterFill
        /\ diag'.buys = diag.buys /\ diag'.exits = diag.exits /\ diag'.entries = diag.entries + 1
    BY <1>0, <2>1 DEF Counters
  <2>4. Rejections' = Rejections BY <2>1, <2>3, RejectionsUntouched
  <2>5. \A r : Exits(All, r)' = Exits(All, r) BY <2>1, ExitsUntouched
  <2>6. diag'.buys = diag'.entries + Rejections' + OneIf(pending' = "BUY")
    BY <1>0, <2>1, <2>3, <2>4, NoneApart DEF SignalInv, OneIf
  <2>7. Exits(All, "STRATEGY")' + OneIf(pending' = "EXIT") <= diag'.exits
    BY <2>1, <2>3, <2>5, NoneApart DEF SignalInv, OneIf
  <2>8. diag'.entries = Len(trades') + OneIf(opened' # None)
    BY <1>0, <2>1, <2>2, <2>3 DEF SignalInv, OneIf
  <2> QED BY <2>1, <2>3, <2>5, <2>6, <2>7, <2>8 DEF SignalInv
<1>6. CASE RejectExit
  <2>1. /\ phase = "resolve" /\ phase' = "protect" /\ pending = "EXIT" /\ pending' = None
        /\ UNCHANGED <<policy, trades, opened, shutdown, diag>>
    BY <1>6 DEF RejectExit, Resolved, position, record
  <2>2. \A r : Exits(All, r)' = Exits(All, r) BY <2>1, ExitsUntouched
  <2>3. Rejections' = Rejections BY <2>1, RejectionsUntouched
  <2>4. Exits(All, "STRATEGY") \in Nat BY ExitsTyped
  <2>5. Exits(All, "STRATEGY")' + OneIf(pending' = "EXIT") <= diag'.exits
    BY <1>0, <2>1, <2>2, <2>4, NoneApart DEF SignalInv, OneIf
  <2> QED BY <2>1, <2>2, <2>3, <2>5, NoneApart DEF SignalInv, OneIf
<1>7. CASE FillExit \/ StopExit \/ TakeProfitExit
  <2>1. portfolio.side = "LONG" /\ i > 0 BY <1>7, ExitLevels
  <2>2. PICK level \in Nat, reason \in {"STRATEGY", "STOP_LOSS", "TAKE_PROFIT"} :
          /\ Close(level, reason)
          /\ reason = "STRATEGY" => pending = "EXIT"
          /\ reason = "TAKE_PROFIT" => policy = "rr"
    <3>1. CASE FillExit
      <4>1. Close(Level(candle.open), "STRATEGY") /\ pending = "EXIT" /\ candle \in Shapes
        BY <3>1, <2>1 DEF FillExit, SegmentType
      <4>2. Level(candle.open) \in Nat BY <4>1, ShapesTyped, LevelTyped
      <4> QED BY <4>1, <4>2
    <3>2. CASE StopExit
      <4>1. Close(StopFill, "STOP_LOSS") /\ candle \in Shapes /\ stop \in Nat
        BY <3>2, <2>1 DEF StopExit, StopHit, SegmentType
      <4>2. Level(candle.open) \in Nat BY <4>1, ShapesTyped, LevelTyped
      <4>3. StopFill \in Nat BY <4>1, <4>2, LeastTyped DEF StopFill
      <4> QED BY <4>1, <4>3
    <3>3. CASE TakeProfitExit
      <4>1. Close(Level(target), "TAKE_PROFIT") /\ policy = "rr" /\ target \in Nat
        BY <3>3 DEF TakeProfitExit, TargetHit, SegmentType
      <4>2. Level(target) \in Nat BY <4>1, LevelTyped
      <4> QED BY <4>1, <4>2
    <3> QED BY <1>7, <3>1, <3>2, <3>3
  <2>3. /\ policy' = policy /\ phase # "aborted" /\ pending' = None /\ pending # "BUY"
        /\ phase' # "aborted" /\ policy \in {"baseline", "rr"}
    <3>1. CASE FillExit BY <3>1, NoneApart DEF FillExit, Resolved, SegmentType
    <3>2. CASE StopExit \/ TakeProfitExit
      BY <3>2, NoneApart DEF StopExit, TakeProfitExit, PendingFits, SegmentType
    <3> QED BY <1>7, <3>1, <3>2
  <2>4. /\ Outcome(level, reason) \in TradeRecords /\ trades' = Append(trades, Outcome(level, reason))
        /\ opened # None /\ opened' = None /\ shutdown' = shutdown
        /\ Outcome(level, reason).reason = reason
    BY <2>1, <2>2, OutcomeRecorded DEF Close, BooksBalance, Outcome
  <2>5. diag' = diag \/ diag' = [diag EXCEPT !.gapLosses = @ + 1] BY <2>2 DEF Close
  <2>6. /\ diag' \in Counters /\ diag'.refused = diag.refused /\ diag'.afterFill = diag.afterFill
        /\ diag'.buys = diag.buys /\ diag'.exits = diag.exits /\ diag'.entries = diag.entries
    BY <1>0, <2>5 DEF Counters
  <2>7. Rejections' = Rejections BY <2>4, <2>6, RejectionsUntouched
  <2>8. \A r : Exits(All, r)' = Exits(All, r) + OneIf(reason = r) BY <2>4, ExitsGrow
  <2>9. Len(trades') = Len(trades) + 1
    <3>1. trades \in Seq(TradeRecords) BY DEF SegmentType
    <3> QED BY <2>4, <3>1
  <2>10. diag'.entries = Len(trades') + OneIf(opened' # None)
    BY <1>0, <2>4, <2>6, <2>9 DEF SignalInv, OneIf
  <2>11. Exits(All, "STRATEGY")' + OneIf(pending' = "EXIT") <= diag'.exits
    <3>1. Exits(All, "STRATEGY") \in Nat BY ExitsTyped
    <3>2. Exits(All, "STRATEGY")' = Exits(All, "STRATEGY") + OneIf(reason = "STRATEGY") BY <2>8
    <3>3. Exits(All, "STRATEGY") + OneIf(pending = "EXIT") <= diag.exits BY DEF SignalInv
    <3> QED BY <1>0, <2>2, <2>3, <2>6, <3>1, <3>2, <3>3, NoneApart DEF OneIf
  <2>12. policy' = "baseline" => Exits(All, "TAKE_PROFIT")' = 0
    <3>1. Exits(All, "TAKE_PROFIT")' = Exits(All, "TAKE_PROFIT") + OneIf(reason = "TAKE_PROFIT")
      BY <2>8
    <3> QED BY <2>2, <2>3, <3>1 DEF SignalInv, OneIf
  <2>13. diag'.buys = diag'.entries + Rejections' + OneIf(pending' = "BUY")
    BY <1>0, <2>3, <2>6, <2>7, NoneApart DEF SignalInv, OneIf
  <2> QED BY <2>3, <2>4, <2>6, <2>10, <2>11, <2>12, <2>13 DEF SignalInv
<1>8. ASSUME NEW s \in Signals, Mark(s) PROVE SignalInv'
  <2>1. /\ phase = "mark" /\ phase' = "next" /\ pending = None /\ pending' = s
        /\ UNCHANGED <<policy, trades, opened, shutdown>>
        /\ diag' = [diag EXCEPT !.buys = @ + (IF s = "BUY" THEN 1 ELSE 0),
                                !.exits = @ + (IF s = "EXIT" THEN 1 ELSE 0)]
    BY <1>8 DEF Mark, PendingFits, position
  <2>2. /\ diag' \in Counters /\ diag'.refused = diag.refused /\ diag'.afterFill = diag.afterFill
        /\ diag'.buys = diag.buys + OneIf(s = "BUY") /\ diag'.exits = diag.exits + OneIf(s = "EXIT")
        /\ diag'.entries = diag.entries
    <3>1. OneIf(s = "BUY") \in Nat /\ OneIf(s = "EXIT") \in Nat BY DEF OneIf
    <3>2. diag' = [diag EXCEPT !.buys = @ + OneIf(s = "BUY"), !.exits = @ + OneIf(s = "EXIT")]
      BY <2>1 DEF OneIf
    <3>3. PICK m \in Nat, n \in Nat : m = OneIf(s = "BUY") /\ n = OneIf(s = "EXIT") BY <3>1
    <3>4. diag' = [diag EXCEPT !.buys = @ + m, !.exits = @ + n] BY <3>2, <3>3
    <3>5. /\ diag' \in Counters /\ diag'.refused = diag.refused
          /\ diag'.afterFill = diag.afterFill
          /\ diag'.buys = diag.buys + m /\ diag'.exits = diag.exits + n
          /\ diag'.entries = diag.entries
      <4>1. PICK d, e : d \in Counters /\ d = diag /\ e = diag' BY <1>0
      <4>2. e = WithSignal(d, m, n) BY <3>4, <4>1 DEF WithSignal
      <4>3. /\ e \in Counters /\ e.refused = d.refused /\ e.afterFill = d.afterFill
            /\ e.buys = d.buys + m /\ e.exits = d.exits + n /\ e.entries = d.entries
        BY <4>1, <4>2, SignalCounted
      <4> QED BY <4>1, <4>3
    <3> QED BY <3>3, <3>5
  <2>3. Rejections' = Rejections BY <2>1, <2>2, RejectionsUntouched
  <2>4. \A r : Exits(All, r)' = Exits(All, r) BY <2>1, ExitsUntouched
  <2>5. Exits(All, "STRATEGY") \in Nat BY ExitsTyped
  <2>6. diag'.buys = diag'.entries + Rejections' + OneIf(pending' = "BUY")
    BY <1>0, <2>1, <2>2, <2>3, NoneApart DEF SignalInv, OneIf
  <2>7. Exits(All, "STRATEGY")' + OneIf(pending' = "EXIT") <= diag'.exits
    BY <1>0, <2>1, <2>2, <2>4, <2>5, NoneApart DEF SignalInv, OneIf
  <2> QED BY <2>1, <2>2, <2>4, <2>6, <2>7 DEF SignalInv, OneIf
<1>9. CASE NoProtection \/ Finish
  BY <1>9, SignalsUntouched DEF NoProtection, Finish, position, record
<1>10. CASE UNCHANGED vars
  BY <1>10, SignalsUntouched DEF vars, position
<1> QED BY <1>1, <1>2, <1>3, <1>4, <1>5, <1>6, <1>7, <1>8, <1>9, <1>10 DEF Next

-----------------------------------------------------------------------------
(* What a trade tells of its exit and of its entry.                        *)

TradeTold(k) ==
  LET t == trades[k] IN
    /\ t.price > 0 /\ t.out <= i
    /\ t.entryFee = BuyFee(t.quantity, t.price)
    /\ t.exitFee = SellFee(t.quantity, t.level)
    /\ t.profit = t.quantity * UnitProfit(BuyPrice(t.price), t.level)

\* One more trade, after those there are.
LEMMA TradesGrow ==
  ASSUME SegmentType, NEW t \in TradeRecords, trades' = Append(trades, t),
         NEW m, m = Len(trades) + 1
  PROVE  /\ m \in Nat \ {0} /\ All = 1..(m - 1) /\ All' = 1..m
         /\ trades'[m] = t /\ \A k \in All : trades'[k] = trades[k] /\ trades[k] \in TradeRecords
         /\ \A k : k \in All' <=> k \in All \/ k = m
<1>1. trades \in Seq(TradeRecords) /\ Len(trades) \in Nat BY DEF SegmentType
<1>2. DOMAIN trades = 1..Len(trades) BY <1>1
<1>3. DOMAIN trades' = 1..(Len(trades) + 1) BY <1>1
<1>4. trades'[Len(trades) + 1] = t
      /\ \A k \in DOMAIN trades : trades'[k] = trades[k] /\ trades[k] \in TradeRecords
  BY <1>1
<1>5. m \in Nat \ {0} /\ All = 1..(m - 1) /\ All' = 1..m BY <1>1, <1>2, <1>3 DEF All
<1> QED BY <1>2, <1>4, <1>5 DEF All

LEMMA ExitIsTold ==
  ASSUME SegmentType, BooksBalance, EntryPlanned, portfolio.side = "LONG", i > 0,
         NEW level \in Nat, NEW reason \in {"STRATEGY", "STOP_LOSS", "TAKE_PROFIT"},
         Close(level, reason), i' = i, \A k \in All : TradeTold(k)
  PROVE  \A k \in All' : TradeTold(k)'
<1> DEFINE t == Outcome(level, reason)
<1>1. /\ t \in TradeRecords /\ trades' = Append(trades, t)
      /\ opened.price \in Nat \ {0} /\ opened.quantity = portfolio.base /\ opened # None
      /\ SellProfit(portfolio.base, level)
              = opened.quantity * UnitProfit(BuyPrice(opened.price), level)
  BY OutcomeRecorded DEF BooksBalance
<1>2. /\ t.price = opened.price /\ t.out = i /\ t.quantity = opened.quantity /\ t.level = level
      /\ t.entryFee = BuyFee(t.quantity, t.price) /\ t.exitFee = SellFee(t.quantity, t.level)
      /\ t.profit = SellProfit(portfolio.base, level)
  BY <1>1 DEF Outcome, EntryPlanned
<1> HIDE DEF t
<1>3. PICK m : m = Len(trades) + 1 OBVIOUS
<1>4. /\ trades'[m] = t /\ \A k \in All : trades'[k] = trades[k]
      /\ \A k : k \in All' <=> k \in All \/ k = m
  BY <1>1, <1>3, TradesGrow
<1>5. ASSUME NEW k \in All PROVE TradeTold(k)'
  <2>1. TradeTold(k) OBVIOUS
  <2> QED BY <1>4, <2>1 DEF TradeTold
<1>6. TradeTold(m)'
  <2>1. t.price > 0 /\ t.out <= i BY <1>1, <1>2 DEF SegmentType
  <2> QED BY <1>1, <1>2, <1>4, <2>1 DEF TradeTold
<1> QED BY <1>4, <1>5, <1>6

LEMMA ToldUntouched ==
  ASSUME SegmentType, trades' = trades, i' \in Int, i <= i', \A k \in All : TradeTold(k)
  PROVE  (\A k \in All : TradeTold(k))'
<1>1. All' = All BY DEF All
<1>2. ASSUME NEW k \in All PROVE TradeTold(k)'
  <2>1. TradeTold(k) OBVIOUS
  <2>2. trades[k].out \in Int
    <3>1. trades[k] \in TradeRecords BY DEF SegmentType, All
    <3> QED BY <3>1 DEF TradeRecords
  <2> QED BY <2>1, <2>2 DEF TradeTold, SegmentType
<1> QED BY <1>1, <1>2

-----------------------------------------------------------------------------
(* The curve.                                                              *)

\* An open position and what is realized make up the equity, at any mark.
LEMMA OpenIsMarked ==
  ASSUME SegmentType, BooksBalance, EntryPlanned, NEW mark \in Nat
  PROVE  /\ portfolio.realized + Unrealized(opened, mark) = Equity(mark) - StartEquity
         /\ Unrealized(opened, mark) \in Int /\ Equity(mark) \in Int
<1> DEFINE base == portfolio.base
           entry == portfolio.entry
           fee == portfolio.fee
<1>1. /\ base \in Nat /\ entry \in Nat /\ fee \in Nat /\ portfolio.quote \in Int
      /\ portfolio.realized \in Int /\ StartEquity \in Int
      /\ D \in Nat /\ D2 \in Nat /\ D4 \in Nat /\ D4 = D * D * D2
      /\ portfolio.quote + base * entry * D2 * D + fee = StartEquity + portfolio.realized
  <2>1. D4 = D * D * D2 BY RatesTyped DEF D4, D2
  <2> QED BY <2>1, RatesTyped, Denominators, SegmentAssumption DEF SegmentType, BooksBalance
<1>2. Equity(mark) = portfolio.quote + base * mark * D4 BY DEF Equity
<1>3. base * entry * D2 * D \in Int /\ base * mark * D4 \in Int BY <1>1
<1>4. CASE opened = None
  <2>1. base = 0 /\ fee = 0 BY <1>4 DEF BooksBalance, SegmentType
  <2>2. base * entry * D2 * D = 0 /\ base * mark * D4 = 0
    <3> HIDE DEF base
    <3> QED BY <1>1, <2>1
  <2>3. Unrealized(opened, mark) = 0 BY <1>4 DEF Unrealized
  <2> QED BY <1>1, <1>2, <2>1, <2>2, <2>3
<1>5. CASE opened # None
  <2>1. /\ opened.quantity = base /\ entry = BuyPrice(opened.price)
        /\ fee = BuyFee(opened.quantity, opened.price)
    BY <1>5 DEF BooksBalance, EntryPlanned
  <2>2. Unrealized(opened, mark) = (mark * D - entry) * D2 * D * base - fee
    BY <1>5, <2>1 DEF Unrealized
  <2>3. (mark * D - entry) * D2 * D * base = base * mark * D4 - base * entry * D2 * D
    <3> HIDE DEF base, entry
    <3> QED BY <1>1
  <2> HIDE DEF base, entry, fee
  <2>4. PICK x \in Int, y \in Int : x = base * mark * D4 /\ y = base * entry * D2 * D BY <1>3
  <2>5. Unrealized(opened, mark) = x - y - fee BY <2>2, <2>3, <2>4
  <2>6. Equity(mark) = portfolio.quote + x BY <1>2, <2>4
  <2>7. portfolio.quote + y + fee = StartEquity + portfolio.realized BY <1>1, <2>4
  <2>8. /\ portfolio.quote \in Int /\ fee \in Int /\ StartEquity \in Int
        /\ portfolio.realized \in Int
    BY <1>1
  <2>9. portfolio.realized + (x - y - fee) = (portfolio.quote + x) - StartEquity
    BY <2>7, <2>8
  <2> QED BY <2>5, <2>6, <2>8, <2>9
<1> QED BY <1>4, <1>5

Points ==
  [equity : Int, mark : Nat, cash : Int, base : Nat, opened : OpenTrades \cup {None}]

PointNow ==
  [equity |-> Equity(candle.close), mark |-> candle.close, cash |-> portfolio.quote,
   base |-> portfolio.base, opened |-> opened]

ClosedBy(j) == {k \in All : trades[k].out <= j}

\* The report of the run up to a point of the curve would reconcile.
Accounted(j) ==
  LET s == curve[j]
  IN  /\ IdentityHolds(s.cash, s.base, s.mark, s.equity)
      /\ Realized(ClosedBy(j)) + Unrealized(s.opened, s.mark) = s.equity - StartEquity

CurveInv ==
  /\ curve \in Seq(Points)
  /\ Len(curve) = IF phase \in {"next", "done"} THEN i ELSE i - 1
  /\ phase \in {"next", "done"} /\ i > 0 => curve[i] = PointNow
  /\ phase = "done" => i > 0
  /\ \A j \in DOMAIN curve : Accounted(j)

LEMMA RealizedUntouched ==
  ASSUME trades' = trades, NEW ks \in SUBSET All PROVE Realized(ks)' = Realized(ks)
<1>1. All' = All BY DEF All
<1> QED BY <1>1, RealizedNow, RealizedNext DEF ProfitsIn

LEMMA PointTyped ==
  ASSUME SegmentType, i > 0 PROVE PointNow \in Points /\ candle.close \in Nat
<1>1. candle.close \in Nat BY ShapesTyped DEF SegmentType
<1>2. Equity(candle.close) \in Int BY <1>1, EquityTyped
<1> QED BY <1>1, <1>2 DEF PointNow, Points, SegmentType

\* No trade closed behind a point moves it.
LEMMA AccountedKept ==
  ASSUME CurveInv, curve' = curve, trades' = trades
  PROVE  \A j \in DOMAIN curve : Accounted(j)'
<1>1. All' = All BY DEF All
<1>2. ASSUME NEW j \in DOMAIN curve PROVE Accounted(j)'
  <2>1. ClosedBy(j)' = ClosedBy(j) BY <1>1 DEF ClosedBy
  <2>2. PICK ks \in SUBSET All : ks = ClosedBy(j) BY DEF ClosedBy
  <2>3. Realized(ks)' = Realized(ks) BY <2>2, RealizedUntouched
  <2>4. Realized(ClosedBy(j))' = Realized(ks)' BY <2>1, <2>2
  <2>5. Realized(ClosedBy(j))' = Realized(ClosedBy(j)) BY <2>2, <2>3, <2>4
  <2>6. Accounted(j) BY DEF CurveInv
  <2> QED BY <2>5, <2>6 DEF Accounted
<1> QED BY <1>2

LEMMA CurveOfExit ==
  ASSUME SegmentType, CurveInv, NEW t \in TradeRecords, trades' = Append(trades, t), t.out = i,
         Len(curve) = i - 1, UNCHANGED <<i, curve>>
  PROVE  \A j \in DOMAIN curve : Accounted(j)'
<1>1. PICK m : m = Len(trades) + 1 OBVIOUS
<1>2. /\ trades'[m] = t /\ \A k \in All : trades'[k] = trades[k]
      /\ \A k : k \in All' <=> k \in All \/ k = m
  BY <1>1, TradesGrow
<1>3. ASSUME NEW j \in DOMAIN curve PROVE Accounted(j)'
  <2>1. j \in Int /\ j < i
    <3>1. curve \in Seq(Points) /\ i \in Int BY DEF CurveInv, SegmentType
    <3> QED BY <3>1
  <2>2. ClosedBy(j)' = ClosedBy(j)
    <3>1. i \in Int /\ ~(i <= j) BY <2>1 DEF SegmentType
    <3>2. ClosedBy(j)' = {k \in All' : trades'[k].out <= j} BY DEF ClosedBy
    <3> QED BY <1>2, <3>1, <3>2 DEF ClosedBy
  <2>3. PICK ks \in SUBSET All : ks = ClosedBy(j) BY DEF ClosedBy
  <2>4. Realized(ks)' = Realized(ks) BY <1>1, <2>3, RealizedGrows DEF SegmentType
  <2>5. Realized(ClosedBy(j))' = Realized(ks)' BY <2>2, <2>3
  <2>6. Realized(ClosedBy(j))' = Realized(ClosedBy(j)) BY <2>3, <2>4, <2>5
  <2>7. Accounted(j) BY DEF CurveInv
  <2> QED BY <2>6, <2>7 DEF Accounted
<1> QED BY <1>3

\* A candle is marked with all that has been realized.
LEMMA CurveOfMark ==
  ASSUME SegmentType, BooksBalance, EntryPlanned, RealizedKept, \A k \in All : TradeTold(k),
         CurveInv, NEW s \in Signals, Mark(s)
  PROVE  CurveInv'
<1>1. /\ phase = "mark" /\ phase' = "next" /\ i' = i /\ trades' = trades /\ candle' = candle
      /\ portfolio' = portfolio /\ opened' = opened /\ curve' = Append(curve, PointNow)
  BY DEF Mark, position, PointNow
<1>2. curve \in Seq(Points) /\ Len(curve) = i - 1 /\ i \in Nat \ {0}
  BY <1>1 DEF CurveInv, SegmentType
<1>3. PointNow \in Points /\ candle.close \in Nat BY <1>2, PointTyped
<1>4. /\ curve' \in Seq(Points) /\ Len(curve') = i /\ DOMAIN curve' = 1..i /\ DOMAIN curve = 1..(i - 1)
      /\ curve'[i] = PointNow /\ \A j \in 1..(i - 1) : curve'[j] = curve[j]
  BY <1>1, <1>2, <1>3
<1>5. PointNow' = PointNow BY <1>1 DEF PointNow, Equity
<1>6. All' = All BY <1>1 DEF All
<1>7. ASSUME NEW j \in 1..i PROVE Accounted(j)'
  <2>1. ClosedBy(j)' = ClosedBy(j) BY <1>1, <1>6 DEF ClosedBy
  <2>2. PICK ks \in SUBSET All : ks = ClosedBy(j) BY DEF ClosedBy
  <2>3. Realized(ks)' = Realized(ks) BY <1>1, <2>2, RealizedUntouched
  <2>4. Realized(ClosedBy(j))' = Realized(ks)' BY <2>1, <2>2
  <2>5. Realized(ClosedBy(j))' = Realized(ClosedBy(j)) BY <2>2, <2>3, <2>4
  <2>6. CASE j # i
    <3>1. j \in DOMAIN curve /\ curve'[j] = curve[j] BY <1>2, <1>4, <2>6
    <3>2. Accounted(j) BY <3>1 DEF CurveInv
    <3> QED BY <2>5, <3>1, <3>2 DEF Accounted
  <2>7. CASE j = i
    <3>1. ClosedBy(j) = All
      <4>1. \A k \in All : trades[k].out <= i BY DEF TradeTold
      <4> QED BY <2>7, <4>1 DEF ClosedBy
    <3>2. Realized(ClosedBy(j)) = portfolio.realized BY <3>1 DEF RealizedKept
    <3>3. portfolio.realized + Unrealized(opened, candle.close) = Equity(candle.close) - StartEquity
      BY <1>3, OpenIsMarked
    <3>4. curve'[j] = PointNow BY <1>4, <2>7
    <3>5. IdentityHolds(portfolio.quote, portfolio.base, candle.close, Equity(candle.close))
      BY DEF IdentityHolds, Equity
    <3>6. /\ PointNow.cash = portfolio.quote /\ PointNow.base = portfolio.base
          /\ PointNow.mark = candle.close /\ PointNow.equity = Equity(candle.close)
          /\ PointNow.opened = opened
      BY DEF PointNow
    <3> QED BY <2>5, <3>2, <3>3, <3>4, <3>5, <3>6 DEF Accounted
  <2> QED BY <2>6, <2>7
<1> QED BY <1>1, <1>2, <1>4, <1>5, <1>7 DEF CurveInv

ToldInv == \A k \in All : TradeTold(k)

ReportInv == ToldInv /\ CurveInv /\ SignalInv

LEMMA ReportStep ==
  ASSUME SegmentType, PendingFits, BooksBalance, PlanInv, ReportInv, [Next]_vars PROVE ReportInv'
<1>0. EntryPlanned /\ RealizedKept /\ ToldInv /\ CurveInv /\ SignalInv BY DEF PlanInv, ReportInv
<1>1. SignalInv' BY <1>0, SignalStep
<1>2. CASE FillExit \/ StopExit \/ TakeProfitExit
  <2>1. portfolio.side = "LONG" /\ i > 0 BY <1>2, ExitLevels
  <2>2. PICK level \in Nat, reason \in {"STRATEGY", "STOP_LOSS", "TAKE_PROFIT"} :
          Close(level, reason)
    BY <1>2, ExitLevels
  <2>3. /\ i' = i /\ curve' = curve /\ phase \in {"resolve", "protect"}
        /\ phase' \in {"protect", "mark"}
    BY <1>2 DEF FillExit, StopExit, TakeProfitExit, Resolved
  <2>4. ToldInv' BY <1>0, <2>1, <2>2, <2>3, ExitIsTold DEF ToldInv
  <2>5. PICK t \in TradeRecords : trades' = Append(trades, t) /\ t.out = i
    <3>1. Outcome(level, reason).out = i BY DEF Outcome
    <3> QED BY <1>0, <2>1, <2>2, <3>1, OutcomeRecorded
  <2>6. Len(curve) = i - 1 BY <1>0, <2>3 DEF CurveInv
  <2>7. \A j \in DOMAIN curve : Accounted(j)' BY <1>0, <2>3, <2>5, <2>6, CurveOfExit
  <2>8. CurveInv' BY <1>0, <2>3, <2>6, <2>7 DEF CurveInv
  <2> QED BY <1>1, <2>4, <2>8 DEF ReportInv
<1>3. ASSUME NEW s \in Signals, Mark(s) PROVE ReportInv'
  <2>1. CurveInv' BY <1>0, <1>3, CurveOfMark DEF ToldInv
  <2>2. trades' = trades /\ i' = i BY <1>3 DEF Mark
  <2>3. ToldInv' BY <1>0, <2>2, ToldUntouched DEF ToldInv, SegmentType
  <2> QED BY <1>1, <2>1, <2>3 DEF ReportInv
<1>4. CASE /\ ~(FillExit \/ StopExit \/ TakeProfitExit)
           /\ \A s \in Signals : ~Mark(s)
  <2>1. trades' = trades /\ curve' = curve
    BY <1>4 DEF Next, NextCandle, RejectBuy, BlockBuy, AbortBuy, FillBuy, RejectExit, NoProtection,
                Finish, vars, Resolved, record
  <2>2. /\ i' \in Nat /\ i <= i'
        /\ Len(curve) = IF phase' \in {"next", "done"} THEN i' ELSE i' - 1
        /\ phase' \in {"next", "done"} /\ i' > 0 => curve[i'] = PointNow'
        /\ phase' = "done" => i' > 0
    <3>1. i \in Nat BY DEF SegmentType
    <3>2. ASSUME NEW c \in Shapes, NextCandle(c) PROVE <2>2
      BY <1>0, <3>1, <3>2 DEF NextCandle, CurveInv
    <3>3. CASE RejectBuy \/ BlockBuy \/ AbortBuy \/ FillBuy \/ RejectExit \/ NoProtection
      <4>1. /\ i' = i /\ phase \in {"resolve", "protect"}
            /\ phase' \in {"protect", "mark", "aborted"}
        BY <3>3 DEF RejectBuy, BlockBuy, AbortBuy, FillBuy, RejectExit, NoProtection, Resolved
      <4> QED BY <1>0, <3>1, <4>1 DEF CurveInv
    <3>4. CASE Finish \/ UNCHANGED vars
      <4>1. /\ i' = i /\ candle' = candle /\ portfolio' = portfolio /\ opened' = opened
            /\ phase' = phase \/ (phase = "next" /\ phase' = "done" /\ i > 0)
        BY <3>4 DEF Finish, vars, position
      <4>2. PointNow' = PointNow BY <4>1 DEF PointNow, Equity
      <4> QED BY <1>0, <3>1, <4>1, <4>2 DEF CurveInv
    <3> QED BY <1>4, <3>2, <3>3, <3>4 DEF Next
  <2>3. \A j \in DOMAIN curve : Accounted(j)' BY <1>0, <2>1, AccountedKept
  <2>4. CurveInv' BY <1>0, <2>1, <2>2, <2>3 DEF CurveInv
  <2>5. ToldInv' BY <1>0, <2>1, <2>2, ToldUntouched DEF ToldInv
  <2> QED BY <1>1, <2>4, <2>5 DEF ReportInv
<1> QED BY <1>2, <1>3, <1>4

LEMMA ReportInit == Init => ReportInv
<1> SUFFICES ASSUME Init PROVE ReportInv OBVIOUS
<1>1. /\ trades = <<>> /\ curve = <<>> /\ opened = None /\ i = 0 /\ phase = "next"
      /\ pending = None
  BY DEF Init
<1>2. All = {} /\ DOMAIN curve = {} BY <1>1 DEF All
<1>3. ToldInv BY <1>2 DEF ToldInv
<1>4. CurveInv BY <1>1, <1>2 DEF CurveInv
<1>5. diag \in Counters /\ diag.refused = 0 /\ diag.buys = 0 /\ diag.exits = 0 /\ diag.entries = 0
      /\ diag.afterFill = 0
  BY DEF Init, Counters
<1>6. \A g \in Gates : shutdown[g].first = 0 /\ Blocks(shutdown)[g] = 0
  BY DEF Init, Blocks
<1>7. Rejections = 0
  <2>1. SumOver(Blocks(shutdown), Gates) = 0 BY <1>6, GatesFinite, SumOfNothing
  <2> QED BY <1>5, <2>1, RejectionsAre
<1>8. \A r : Exits(All, r) = 0
  <2>1. \A r : {k \in All : trades[k].reason = r} = {} BY <1>2
  <2> QED BY <2>1, FS_EmptySet DEF Exits
<1>9. SignalInv BY <1>1, <1>5, <1>6, <1>7, <1>8, NoneApart DEF SignalInv, OneIf
<1> QED BY <1>3, <1>4, <1>9 DEF ReportInv

-----------------------------------------------------------------------------
(* The breakdown of a finished run.                                        *)

EntryFees == [k \in All |-> trades[k].entryFee]

ExitFees == [k \in All |-> trades[k].exitFee]

Slips ==
  [k \in All |-> EntrySlippage(trades[k].price, trades[k].quantity)
                   + ExitSlippage(trades[k].level, trades[k].quantity)]

Moves == [k \in All |-> trades[k].quantity * (trades[k].level - trades[k].price * D2) * D2]

LEMMA EntryFeesSummed ==
  (CHOOSE g : g = [T \in SUBSET All |-> IF T = {} THEN 0
                                       ELSE trades[Some(T)].entryFee + g[T \ {Some(T)}]])[All]
    = SumOver(EntryFees, All)
<1> DEFINE step(g) == [T \in SUBSET All |-> IF T = {} THEN 0
                                          ELSE trades[Some(T)].entryFee + g[T \ {Some(T)}]]
<1>1. ASSUME NEW g PROVE step(g) = SumStep(EntryFees, All, g)
  <2>1. \A T \in SUBSET All : T # {} => trades[Some(T)].entryFee = EntryFees[Some(T)]
    BY DEF Some, EntryFees
  <2> QED BY <2>1 DEF SumStep
<1>2. (CHOOSE g : g = step(g)) = SumsOf(EntryFees, All)
  <2> HIDE DEF step
  <2> QED BY <1>1 DEF SumsOf
<1> QED BY <1>2, SumIsLast

LEMMA ExitFeesSummed ==
  (CHOOSE g : g = [T \in SUBSET All |-> IF T = {} THEN 0
                                       ELSE trades[Some(T)].exitFee + g[T \ {Some(T)}]])[All]
    = SumOver(ExitFees, All)
<1> DEFINE step(g) == [T \in SUBSET All |-> IF T = {} THEN 0
                                          ELSE trades[Some(T)].exitFee + g[T \ {Some(T)}]]
<1>1. ASSUME NEW g PROVE step(g) = SumStep(ExitFees, All, g)
  <2>1. \A T \in SUBSET All : T # {} => trades[Some(T)].exitFee = ExitFees[Some(T)]
    BY DEF Some, ExitFees
  <2> QED BY <2>1 DEF SumStep
<1>2. (CHOOSE g : g = step(g)) = SumsOf(ExitFees, All)
  <2> HIDE DEF step
  <2> QED BY <1>1 DEF SumsOf
<1> QED BY <1>2, SumIsLast

LEMMA SlipsSummed ==
  (CHOOSE g : g = [T \in SUBSET All |->
                     IF T = {} THEN 0
                     ELSE (EntrySlippage(trades[Some(T)].price, trades[Some(T)].quantity)
                             + ExitSlippage(trades[Some(T)].level, trades[Some(T)].quantity))
                          + g[T \ {Some(T)}]])[All]
    = SumOver(Slips, All)
<1> DEFINE step(g) == [T \in SUBSET All |->
                         IF T = {} THEN 0
                         ELSE (EntrySlippage(trades[Some(T)].price, trades[Some(T)].quantity)
                                 + ExitSlippage(trades[Some(T)].level, trades[Some(T)].quantity))
                              + g[T \ {Some(T)}]]
<1>1. ASSUME NEW g PROVE step(g) = SumStep(Slips, All, g)
  <2>1. \A T \in SUBSET All : T # {} =>
          EntrySlippage(trades[Some(T)].price, trades[Some(T)].quantity)
            + ExitSlippage(trades[Some(T)].level, trades[Some(T)].quantity) = Slips[Some(T)]
    BY DEF Some, Slips
  <2> QED BY <2>1 DEF SumStep
<1>2. (CHOOSE g : g = step(g)) = SumsOf(Slips, All)
  <2> HIDE DEF step
  <2> QED BY <1>1 DEF SumsOf
<1> QED BY <1>2, SumIsLast

LEMMA MovesSummed ==
  (CHOOSE g : g = [T \in SUBSET All |->
                     IF T = {} THEN 0
                     ELSE trades[Some(T)].quantity
                            * (trades[Some(T)].level - trades[Some(T)].price * D2) * D2
                          + g[T \ {Some(T)}]])[All]
    = SumOver(Moves, All)
<1> DEFINE step(g) == [T \in SUBSET All |->
                         IF T = {} THEN 0
                         ELSE trades[Some(T)].quantity
                                * (trades[Some(T)].level - trades[Some(T)].price * D2) * D2
                              + g[T \ {Some(T)}]]
<1>1. ASSUME NEW g PROVE step(g) = SumStep(Moves, All, g)
  <2>1. \A T \in SUBSET All : T # {} =>
          trades[Some(T)].quantity * (trades[Some(T)].level - trades[Some(T)].price * D2) * D2
            = Moves[Some(T)]
    BY DEF Some, Moves
  <2> QED BY <2>1 DEF SumStep
<1>2. (CHOOSE g : g = step(g)) = SumsOf(Moves, All)
  <2> HIDE DEF step
  <2> QED BY <1>1 DEF SumsOf
<1> QED BY <1>2, SumIsLast

\* The totals of the breakdown are sums.
LEMMA BreakdownIs ==
  ASSUME NEW mark
  PROVE  LET b == Breakdown(All, opened, mark)
             open(f) == IF opened = None THEN 0 ELSE f
         IN  /\ b.realized = Realized(All)
             /\ b.total = Realized(All) + Unrealized(opened, mark)
             /\ b.entryFees = SumOver(EntryFees, All) + open(BuyFee(opened.quantity, opened.price))
             /\ b.exitFees = SumOver(ExitFees, All)
             /\ b.slippage = SumOver(Slips, All)
                               + open(EntrySlippage(opened.price, opened.quantity))
             /\ PriceMove(All, opened, mark)
                  = SumOver(Moves, All) + open(opened.quantity * (mark - opened.price) * D4)
<1>1. Breakdown(All, opened, mark).entryFees
        = SumOver(EntryFees, All) + (IF opened = None THEN 0 ELSE BuyFee(opened.quantity, opened.price))
  BY EntryFeesSummed DEF Breakdown, Total, MapThenSumSet, MapThenFoldSet, Some
<1>2. Breakdown(All, opened, mark).exitFees = SumOver(ExitFees, All)
  BY ExitFeesSummed DEF Breakdown, Total, MapThenSumSet, MapThenFoldSet, Some
<1>3. Breakdown(All, opened, mark).slippage
        = SumOver(Slips, All)
            + (IF opened = None THEN 0 ELSE EntrySlippage(opened.price, opened.quantity))
  BY SlipsSummed DEF Breakdown, Total, MapThenSumSet, MapThenFoldSet, Some
<1>4. PriceMove(All, opened, mark)
        = SumOver(Moves, All)
            + (IF opened = None THEN 0 ELSE opened.quantity * (mark - opened.price) * D4)
  BY MovesSummed DEF PriceMove, Total, MapThenSumSet, MapThenFoldSet, Some
<1>5. /\ Breakdown(All, opened, mark).realized = Realized(All)
      /\ Breakdown(All, opened, mark).total = Realized(All) + Unrealized(opened, mark)
  BY DEF Breakdown
<1> QED BY <1>1, <1>2, <1>3, <1>4, <1>5

LEMMA CostsIdentity ==
  ASSUME NEW q \in Int, NEW s \in Int, NEW b \in Int, NEW f \in Int, NEW d \in Int, NEW l \in Int,
         NEW p \in Int
  PROVE  (((q * (s * (d - f) - b * (d + f) * (d * d)) + q * b * f * (d * d)) + q * s * f)
            + (q * (b * d - p * (d * d)) * (d * d) + q * (l * d - s) * d))
         = q * (l - p * (d * d)) * (d * d)
OBVIOUS

\* With its costs added back, a trade has earned what the prices moved.
LEMMA CostsAddBack ==
  ASSUME SegmentType, ToldInv, NEW k \in All
  PROVE  LET t == trades[k]
             slip == EntrySlippage(t.price, t.quantity) + ExitSlippage(t.level, t.quantity)
             move == t.quantity * (t.level - t.price * D2) * D2
         IN  /\ ((t.profit + t.entryFee) + t.exitFee) + slip = move
             /\ t.profit \in Int /\ t.entryFee \in Int /\ t.exitFee \in Int /\ slip \in Int
             /\ move \in Int
<1> DEFINE t == trades[k]
<1>1. /\ t \in TradeRecords /\ t.price \in Nat /\ t.level \in Nat /\ t.quantity \in Nat
      /\ t.profit \in Int /\ t.entryFee \in Int /\ t.exitFee \in Int
  <2>1. t \in TradeRecords BY DEF SegmentType, All
  <2> QED BY <2>1 DEF TradeRecords
<1>2. /\ t.entryFee = BuyFee(t.quantity, t.price) /\ t.exitFee = SellFee(t.quantity, t.level)
      /\ t.profit = t.quantity * UnitProfit(BuyPrice(t.price), t.level)
  BY DEF ToldInv, TradeTold
<1> HIDE DEF t
<1>3. PICK q \in Nat, l \in Nat, p \in Nat : q = t.quantity /\ l = t.level /\ p = t.price BY <1>1
<1>4. PICK s \in Int, b \in Int : s = SellPrice(l) /\ b = BuyPrice(p)
  <2>1. SellPrice(l) \in Int BY RatesTyped DEF SellPrice
  <2>2. BuyPrice(p) \in Int BY <1>1, <1>3, RatesTyped DEF BuyPrice
  <2> QED BY <2>1, <2>2
<1>5. Fee \in Int /\ D \in Int BY RatesTyped
<1>6. /\ t.profit = q * (s * (D - Fee) - b * (D + Fee) * (D * D))
      /\ t.entryFee = q * b * Fee * (D * D) /\ t.exitFee = q * s * Fee
  BY <1>2, <1>3, <1>4 DEF UnitProfit, BuyFee, SellFee, D2
<1>7. /\ EntrySlippage(t.price, t.quantity) = q * (b * D - p * (D * D)) * (D * D)
      /\ ExitSlippage(t.level, t.quantity) = q * (l * D - s) * D
      /\ t.quantity * (t.level - t.price * D2) * D2 = q * (l - p * (D * D)) * (D * D)
  BY <1>3, <1>4 DEF EntrySlippage, ExitSlippage, D2
<1>8. /\ q * (b * D - p * (D * D)) * (D * D) \in Int /\ q * (l * D - s) * D \in Int
      /\ q * (l - p * (D * D)) * (D * D) \in Int
  BY <1>5
<1>9. (((q * (s * (D - Fee) - b * (D + Fee) * (D * D)) + q * b * Fee * (D * D)) + q * s * Fee)
            + (q * (b * D - p * (D * D)) * (D * D) + q * (l * D - s) * D))
         = q * (l - p * (D * D)) * (D * D)
  <2>1. q \in Int /\ l \in Int /\ p \in Int OBVIOUS
  <2> QED BY <1>5, <2>1, CostsIdentity
<1>10. ((t.profit + t.entryFee) + t.exitFee)
          + (EntrySlippage(t.price, t.quantity) + ExitSlippage(t.level, t.quantity))
        = t.quantity * (t.level - t.price * D2) * D2
  BY <1>6, <1>7, <1>9, Zenon
<1>11. EntrySlippage(t.price, t.quantity) + ExitSlippage(t.level, t.quantity) \in Int
       /\ t.quantity * (t.level - t.price * D2) * D2 \in Int
  BY <1>7, <1>8
<1> QED BY <1>1, <1>10, <1>11 DEF t

\* And so has the open position.
LEMMA OpenAddsBack ==
  ASSUME SegmentType, opened # None, NEW mark \in Nat
  PROVE  /\ Unrealized(opened, mark) + BuyFee(opened.quantity, opened.price)
              + EntrySlippage(opened.price, opened.quantity)
            = opened.quantity * (mark - opened.price) * D4
         /\ BuyFee(opened.quantity, opened.price) \in Int
         /\ EntrySlippage(opened.price, opened.quantity) \in Int
<1>1. opened.price \in Nat /\ opened.quantity \in Nat BY DEF SegmentType, OpenTrades
<1>2. PICK q \in Int, p \in Int : q = opened.quantity /\ p = opened.price BY <1>1
<1>3. PICK b \in Int : b = BuyPrice(p)
  <2>1. BuyPrice(p) \in Int BY <1>1, <1>2, RatesTyped DEF BuyPrice
  <2> QED BY <2>1
<1>4. D \in Int /\ Fee \in Int BY RatesTyped
<1>5. PICK f \in Int : f = BuyFee(q, p)
  <2>1. BuyFee(q, p) \in Int BY <1>3, <1>4 DEF BuyFee, D2
  <2> QED BY <2>1
<1>6. Unrealized(opened, mark) = (mark * D - b) * (D * D) * D * q - f
  BY <1>2, <1>3, <1>5 DEF Unrealized, D2
<1>7. EntrySlippage(p, q) = q * (b * D - p * (D * D)) * (D * D) BY <1>3 DEF EntrySlippage, D2
<1>8. (mark * D - b) * (D * D) * D * q + q * (b * D - p * (D * D)) * (D * D)
        = q * (mark - p) * ((D * D) * (D * D))
  BY <1>4
<1>9. PICK x \in Int, y \in Int : /\ x = (mark * D - b) * (D * D) * D * q
                                  /\ y = q * (b * D - p * (D * D)) * (D * D)
  BY <1>4
<1>10. (x - f) + f + y = x + y OBVIOUS
<1>11. q * (mark - p) * D4 = x + y BY <1>8, <1>9 DEF D4, D2
<1> QED BY <1>2, <1>5, <1>6, <1>7, <1>9, <1>10, <1>11, Zenon

LEMMA TradesFinite ==
  ASSUME SegmentType
  PROVE  /\ IsFiniteSet(All) /\ All = 1..Len(trades) /\ Len(trades) \in Nat
         /\ \A k \in All : trades[k] \in TradeRecords
<1>1. All = 1..Len(trades) /\ Len(trades) \in Nat /\ \A k \in All : trades[k] \in TradeRecords
  BY DEF SegmentType, All
<1> QED BY <1>1, FS_Interval

LEMMA MoneyHolds ==
  ASSUME SegmentType, BooksBalance, EntryPlanned, RealizedKept, ReportInv, phase = "done"
  PROVE  MoneyReconciles
<1> DEFINE P == SumOver(ProfitsIn(trades), All)
           A == SumOver(EntryFees, All)
           B == SumOver(ExitFees, All)
           S == SumOver(Slips, All)
           M == SumOver(Moves, All)
           mark == candle.close
<1>1. i > 0 /\ candle.close \in Nat /\ Len(curve) = i /\ curve[i] = PointNow
  <2>1. i > 0 BY DEF ReportInv, CurveInv
  <2> QED BY <2>1, PointTyped DEF ReportInv, CurveInv
<1>2. ((P + A) + B) + S = M /\ P \in Int /\ A \in Int /\ B \in Int /\ S \in Int
  <2>1. PICK f, g, h : /\ f = ProfitsIn(trades)
                       /\ g = [k \in All |-> f[k] + EntryFees[k]]
                       /\ h = [k \in All |-> g[k] + ExitFees[k]]
    OBVIOUS
  <2>2. ASSUME NEW k \in All
        PROVE  /\ f[k] \in Int /\ EntryFees[k] \in Int /\ ExitFees[k] \in Int /\ Slips[k] \in Int
               /\ ((f[k] + EntryFees[k]) + ExitFees[k]) + Slips[k] = Moves[k]
    <3>1. /\ f[k] = trades[k].profit /\ EntryFees[k] = trades[k].entryFee
          /\ ExitFees[k] = trades[k].exitFee
      BY <2>1 DEF ProfitsIn, EntryFees, ExitFees, All
    <3>2. Slips[k] = EntrySlippage(trades[k].price, trades[k].quantity)
                       + ExitSlippage(trades[k].level, trades[k].quantity)
      BY DEF Slips
    <3>3. Moves[k] = trades[k].quantity * (trades[k].level - trades[k].price * D2) * D2
      BY DEF Moves
    <3>4. ToldInv BY DEF ReportInv
    <3> QED BY <3>1, <3>2, <3>3, <3>4, CostsAddBack
  <2>3. IsFiniteSet(All) BY TradesFinite
  <2>4. \A k \in All : f[k] \in Int /\ EntryFees[k] \in Int /\ g[k] = f[k] + EntryFees[k]
    BY <2>1, <2>2
  <2>5. \A k \in All : g[k] \in Int /\ ExitFees[k] \in Int /\ h[k] = g[k] + ExitFees[k]
    BY <2>1, <2>2, <2>4
  <2>6. \A k \in All : h[k] \in Int /\ Slips[k] \in Int /\ Moves[k] = h[k] + Slips[k]
    BY <2>2, <2>4, <2>5
  <2>7. PICK fees, exits : fees = EntryFees /\ exits = ExitFees OBVIOUS
  <2>8. /\ SumOver(g, All) = SumOver(f, All) + SumOver(fees, All)
        /\ SumOver(f, All) \in Int /\ SumOver(fees, All) \in Int
    <3>1. Adds(f, fees, g, All) BY <2>4, <2>7 DEF Adds
    <3> QED BY <2>3, <3>1, SumsAdd
  <2>9. /\ SumOver(h, All) = SumOver(g, All) + SumOver(exits, All)
        /\ SumOver(exits, All) \in Int
    <3>1. Adds(g, exits, h, All) BY <2>5, <2>7 DEF Adds
    <3> QED BY <2>3, <3>1, SumsAdd
  <2>10. M = SumOver(h, All) + S /\ S \in Int
    <3>1. Adds(h, Slips, Moves, All) BY <2>6 DEF Adds
    <3> QED BY <2>3, <3>1, SumsAdd
  <2>11. P = SumOver(f, All) /\ A = SumOver(fees, All) /\ B = SumOver(exits, All)
    BY <2>1, <2>7
  <2> HIDE DEF P, A, B, S, M
  <2> QED BY <2>8, <2>9, <2>10, <2>11
<1>3. Realized(All) = P BY RealizedNow
<1> HIDE DEF P, A, B, S, M
<1>4. /\ portfolio.realized + Unrealized(opened, mark) = Equity(mark) - StartEquity
      /\ Unrealized(opened, mark) \in Int
  BY <1>1, OpenIsMarked
<1>5. portfolio.realized = P BY <1>3 DEF RealizedKept
<1> DEFINE U == Unrealized(opened, mark)
           b == Breakdown(All, opened, mark)
<1>6. /\ b.realized = P /\ b.total = P + U /\ b.exitFees = B
  BY <1>3, BreakdownIs DEF B
<1>7. b.total + b.entryFees + b.exitFees + b.slippage = PriceMove(All, opened, mark)
  <2>1. CASE opened = None
    <3>1. b.entryFees = A + 0 /\ b.slippage = S + 0 /\ PriceMove(All, opened, mark) = M + 0
      BY <2>1, BreakdownIs DEF A, S, M
    <3>2. U = 0 BY <2>1 DEF Unrealized
    <3> HIDE DEF U, b
    <3> QED BY <1>2, <1>6, <3>1, <3>2
  <2>2. CASE opened # None
    <3>1. PICK e \in Int, s \in Int : /\ e = BuyFee(opened.quantity, opened.price)
                                      /\ s = EntrySlippage(opened.price, opened.quantity)
      BY <1>1, <2>2, OpenAddsBack
    <3>2. b.entryFees = A + e /\ b.slippage = S + s
          /\ PriceMove(All, opened, mark) = M + opened.quantity * (mark - opened.price) * D4
      BY <2>2, <3>1, BreakdownIs DEF A, S, M
    <3>3. U + e + s = opened.quantity * (mark - opened.price) * D4
      BY <1>1, <2>2, <3>1, OpenAddsBack
    <3>4. U \in Int BY <1>4
    <3> HIDE DEF U, b
    <3>5. (P + U) + (A + e) + B + (S + s) = M + (U + e + s) BY <1>2, <3>4
    <3>6. b.total + b.entryFees + b.exitFees + b.slippage = (P + U) + (A + e) + B + (S + s)
      BY <1>6, <3>2
    <3>7. PriceMove(All, opened, mark) = M + (U + e + s) BY <3>2, <3>3
    <3> QED BY <3>5, <3>6, <3>7
  <2> QED BY <2>1, <2>2
<1>8. IdentityHolds(portfolio.quote, portfolio.base, mark, curve[Len(curve)].equity)
  BY <1>1 DEF IdentityHolds, PointNow, Equity
<1>9. b.total = Equity(mark) - StartEquity BY <1>4, <1>5, <1>6
<1>10. b.realized = portfolio.realized BY <1>5, <1>6
<1> QED BY <1>7, <1>8, <1>9, <1>10 DEF MoneyReconciles

-----------------------------------------------------------------------------
(* The splits of a finished run.                                           *)

LEMMA SplitsFit ==
  ASSUME NEW n \in Nat
  PROVE  LET a == (n * Train) \div Parts
             b == (n * Validation) \div Parts
         IN  a \in Nat /\ b \in Nat /\ a + b <= n
<1>1. Train \in Nat /\ Validation \in Nat /\ Parts \in Nat \ {0} /\ Train + Validation <= Parts
  BY ReportAssumption
<1>2. n * Train \in Nat /\ n * Validation \in Nat BY <1>1, ProductNatural
<1>3. PICK a \in Nat, b \in Nat : /\ a = (n * Train) \div Parts /\ b = (n * Validation) \div Parts
                                  /\ a * Parts <= n * Train /\ b * Parts <= n * Validation
  <2>1. PICK x \in Nat, y \in Nat : x = n * Train /\ y = n * Validation BY <1>2
  <2>2. /\ x \div Parts \in Nat /\ (x \div Parts) * Parts <= x
        /\ y \div Parts \in Nat /\ (y \div Parts) * Parts <= y
    BY <1>1
  <2> QED BY <2>1, <2>2
<1>4. (Train + Validation) * n <= Parts * n BY <1>1, ProductMonotone
<1>5. (Train + Validation) * n = n * Train + n * Validation BY <1>1
<1>6. (a + b) * Parts = a * Parts + b * Parts BY <1>1
<1>7. a * Parts \in Nat /\ b * Parts \in Nat /\ Parts * n \in Nat BY <1>1, ProductNatural
<1>8. (a + b) * Parts <= Parts * n BY <1>2, <1>3, <1>4, <1>5, <1>6, <1>7
<1>9. ~(n + 1 <= a + b)
  <2>1. SUFFICES ASSUME n + 1 <= a + b PROVE FALSE OBVIOUS
  <2>2. (n + 1) * Parts <= (a + b) * Parts BY <1>1, <2>1, ProductMonotone
  <2>3. (n + 1) * Parts = Parts * n + Parts BY <1>1
  <2> QED BY <1>1, <1>6, <1>7, <1>8, <2>2, <2>3
<1> QED BY <1>3, <1>9

LEMMA SplitsHold ==
  ASSUME SegmentType, ReportInv, phase = "done" PROVE SplitsReconcile
<1> DEFINE n == Len(curve)
           a == SplitEnds.train
           b == SplitEnds.validation
<1>1. n \in Nat \ {0} /\ n = i /\ DOMAIN curve = 1..n /\ CurveInv /\ ToldInv
  <2>1. curve \in Seq(Points) /\ n = i /\ i > 0 BY DEF ReportInv, CurveInv
  <2> QED BY <2>1 DEF ReportInv
<1>2. a \in Nat /\ b \in Nat /\ a <= b /\ b <= n /\ SplitEnds.test = n
  <2>1. n \in Nat BY <1>1
  <2>2. PICK x \in Nat, y \in Nat : /\ x = (n * Train) \div Parts
                                    /\ y = (n * Validation) \div Parts /\ x + y <= n
    <3> HIDE DEF n
    <3> QED BY <2>1, SplitsFit
  <2>3. a = x /\ b = x + y /\ SplitEnds.test = n BY <2>2 DEF SplitEnds
  <2> HIDE DEF a, b, n
  <2> QED BY <2>1, <2>2, <2>3
<1>3. /\ First("train") = 1 /\ First("validation") = a + 1 /\ First("test") = b + 1
      /\ Last("train") = a /\ Last("validation") = b /\ Last("test") = n
  BY <1>2 DEF First, Last
<1> HIDE DEF a, b, n
<1>4. ASSUME NEW k \in All PROVE Cardinality({l \in Labels : k \in SplitTrades(l)}) = 1
  <2>1. PICK out \in Int : out = trades[k].out /\ 1 <= out /\ out <= n
    <3>1. trades[k] \in TradeRecords BY TradesFinite
    <3>2. trades[k].out \in 1..Bars BY <3>1 DEF TradeRecords
    <3>3. trades[k].out <= i BY <1>1 DEF ToldInv, TradeTold
    <3> QED BY <1>1, <3>2, <3>3
  <2>2. /\ k \in SplitTrades("train") <=> out <= a
        /\ k \in SplitTrades("validation") <=> a < out /\ out <= b
        /\ k \in SplitTrades("test") <=> b < out
    <3>1. \A l : k \in SplitTrades(l) <=> out \in First(l)..Last(l) BY <2>1 DEF SplitTrades
    <3> QED BY <1>1, <1>2, <1>3, <2>1, <3>1
  <2>3. PICK l \in Labels : {m \in Labels : k \in SplitTrades(m)} = {l}
    <3>1. CASE out <= a
      <4>1. {m \in Labels : k \in SplitTrades(m)} = {"train"}
        BY <1>1, <1>2, <2>1, <2>2, <3>1 DEF Labels
      <4> QED BY <4>1 DEF Labels
    <3>2. CASE a < out /\ out <= b
      <4>1. {m \in Labels : k \in SplitTrades(m)} = {"validation"}
        BY <1>1, <1>2, <2>1, <2>2, <3>2 DEF Labels
      <4> QED BY <4>1 DEF Labels
    <3>3. CASE b < out
      <4>1. {m \in Labels : k \in SplitTrades(m)} = {"test"}
        BY <1>1, <1>2, <2>1, <2>2, <3>3 DEF Labels
      <4> QED BY <4>1 DEF Labels
    <3> QED BY <1>1, <1>2, <2>1, <3>1, <3>2, <3>3
  <2> QED BY <2>3, FS_Singleton
<1>5. ASSUME NEW l \in Labels, First(l) <= Last(l)
      PROVE  LET s == Snapshot(l)
                 closed == {k \in All : trades[k].out <= Last(l)}
             IN  /\ IdentityHolds(s.cash, s.base, s.mark, s.equity)
                 /\ Breakdown(closed, s.opened, s.mark).total = s.equity - StartEquity
  <2>1. PICK j \in 1..n : j = Last(l) BY <1>1, <1>2, <1>3, <1>5 DEF Labels
  <2>2. Accounted(j) BY <1>1 DEF CurveInv
  <2>3. Breakdown(ClosedBy(j), curve[j].opened, curve[j].mark).total
          = Realized(ClosedBy(j)) + Unrealized(curve[j].opened, curve[j].mark)
    BY DEF Breakdown
  <2> QED BY <2>1, <2>2, <2>3 DEF Accounted, Snapshot, ClosedBy
<1> QED BY <1>4, <1>5 DEF SplitsReconcile

-----------------------------------------------------------------------------
(* The signals of a finished run.                                          *)

LEMMA SignalsHold ==
  ASSUME SegmentType, SignalInv, phase = "done" PROVE SignalsAccounted
<1>1. Len(trades) = Exits(All, "STRATEGY") + Exits(All, "STOP_LOSS") + Exits(All, "TAKE_PROFIT")
  <2> DEFINE by(r) == {k \in All : trades[k].reason = r}
  <2>1. /\ IsFiniteSet(All) /\ All = 1..Len(trades) /\ Len(trades) \in Nat
        /\ \A k \in All : trades[k].reason \in {"STRATEGY", "STOP_LOSS", "TAKE_PROFIT"}
    BY TradesFinite DEF TradeRecords
  <2>2. \A r : IsFiniteSet(by(r)) /\ Exits(All, r) = Cardinality(by(r)) /\ Exits(All, r) \in Nat
    BY ExitsTyped DEF Exits
  <2>3. /\ All = (by("STRATEGY") \cup by("STOP_LOSS")) \cup by("TAKE_PROFIT")
        /\ by("STRATEGY") \cap by("STOP_LOSS") = {}
        /\ (by("STRATEGY") \cup by("STOP_LOSS")) \cap by("TAKE_PROFIT") = {}
    BY <2>1
  <2>4. Cardinality(All) = Len(trades) BY <2>1, FS_Interval
  <2> HIDE DEF by
  <2>5. PICK x, y, z : x = by("STRATEGY") /\ y = by("STOP_LOSS") /\ z = by("TAKE_PROFIT") OBVIOUS
  <2>6. IsFiniteSet(x \cup y) /\ Cardinality(x \cup y) = Cardinality(x) + Cardinality(y)
    <3>1. /\ IsFiniteSet(x \cup y)
          /\ Cardinality(x \cup y) = Cardinality(x) + Cardinality(y) - Cardinality(x \cap y)
      BY <2>2, <2>5, FS_Union
    <3>2. Cardinality(x \cap y) = 0 BY <2>3, <2>5, FS_EmptySet
    <3> QED BY <2>2, <2>5, <3>1, <3>2
  <2>7. Cardinality((x \cup y) \cup z) = Cardinality(x \cup y) + Cardinality(z)
    <3>1. Cardinality((x \cup y) \cup z)
            = Cardinality(x \cup y) + Cardinality(z) - Cardinality((x \cup y) \cap z)
      BY <2>2, <2>5, <2>6, FS_Union
    <3>2. Cardinality((x \cup y) \cap z) = 0 BY <2>3, <2>5, FS_EmptySet
    <3>3. Cardinality(x \cup y) \in Nat /\ Cardinality(z) \in Nat
      BY <2>2, <2>5, <2>6
    <3> QED BY <3>1, <3>2, <3>3
  <2> QED BY <2>2, <2>3, <2>4, <2>5, <2>6, <2>7
<1>2. StoppedBy # {} => Rejections > 0
  <2>1. SUFFICES ASSUME StoppedBy # {} PROVE Rejections > 0 OBVIOUS
  <2>2. PICK g \in Gates : shutdown[g].first # 0 BY <2>1 DEF StoppedBy, RemainedLatched
  <2>3. shutdown[g].blocked > 0 BY <2>2 DEF SignalInv
  <2>4. /\ shutdown[g].blocked <= SumOver(Blocks(shutdown), Gates)
        /\ SumOver(Blocks(shutdown), Gates) \in Nat /\ shutdown[g].blocked \in Nat
    BY BlocksTyped DEF Blocks
  <2>5. diag.refused \in Nat BY DEF SignalInv, Counters
  <2> QED BY <2>3, <2>4, <2>5, RejectionsAre
<1>3. phase # "aborted" BY Zenon
<1>4. /\ diag.buys = diag.entries + Rejections + (IF pending = "BUY" THEN 1 ELSE 0)
      /\ Exits(All, "STRATEGY") + (IF pending = "EXIT" THEN 1 ELSE 0) <= diag.exits
  BY <1>3 DEF SignalInv, OneIf
<1>5. diag.entries = Len(trades) + (IF opened = None THEN 0 ELSE 1) BY DEF SignalInv, OneIf
<1> QED BY <1>1, <1>2, <1>4, <1>5 DEF SignalInv, SignalsAccounted

-----------------------------------------------------------------------------
(* The figures of a finished run.                                          *)

\* The recursion of the streaks.
LEMMA StreaksAre ==
  ASSUME SegmentType, NEW win
  PROVE  LET n == Len(trades)
             ends == Streaks(win)
         IN  /\ ends \in [0..n -> Nat]
             /\ \A k \in 0..n : ends[k] = IF k = 0 THEN 0 ELSE IF k \in win THEN ends[k - 1] + 1 ELSE 0
<1>1. PICK n \in Nat : n = Len(trades) BY DEF SegmentType
<1> DEFINE step(g) == [k \in 0..n |-> IF k = 0 THEN 0 ELSE IF k \in win THEN g[k - 1] + 1 ELSE 0]
<1>2. PICK z \in Int : z = 0 OBVIOUS
<1>20. PICK N : N = Nat OBVIOUS
<1>21. PICK F : F = [p \in ((z + 1)..n) \X N |-> IF p[1] \in win THEN p[2] + 1 ELSE 0] OBVIOUS
<1>3. IsStep(F, z, n, N) BY <1>1, <1>2, <1>20, <1>21 DEF IsStep
<1>4. PICK g \in [z..n -> N] : g = Along(z, n, z, F, g)
  <2>1. z \in N /\ n \in Int BY <1>1, <1>2, <1>20
  <2> QED BY <1>3, <2>1, RecursionDefined
<1>5. g = step(g)
  <2>1. ASSUME NEW k \in 0..n, k # 0
        PROVE  F[<<k, g[k - 1]>>] = IF k \in win THEN g[k - 1] + 1 ELSE 0
    <3>1. k \in (z + 1)..n /\ k - 1 \in z..n BY <1>1, <1>2, <2>1
    <3>2. <<k, g[k - 1]>> \in ((z + 1)..n) \X N BY <3>1
    <3> QED BY <1>21, <3>2
  <2> QED BY <1>2, <1>4, <2>1 DEF Along
<1>6. Streaks(win) = CHOOSE f : f = step(f) BY <1>1 DEF Streaks
<1>7. Streaks(win) = step(Streaks(win))
  <2> HIDE DEF step
  <2> QED BY <1>5, <1>6
<1> DEFINE ends == Streaks(win)
<1>8. \A k \in 0..n : ends[k] = IF k = 0 THEN 0 ELSE IF k \in win THEN ends[k - 1] + 1 ELSE 0
  <2>1. PICK e : e = ends OBVIOUS
  <2>2. e = step(e) BY <1>7, <2>1
  <2>3. \A k \in 0..n : e[k] = IF k = 0 THEN 0 ELSE IF k \in win THEN e[k - 1] + 1 ELSE 0 BY <2>2
  <2> QED BY <2>1, <2>3
<1>9. DOMAIN ends = 0..n /\ ends = [k \in DOMAIN ends |-> ends[k]]
  <2>1. PICK e : e = ends OBVIOUS
  <2>2. e = step(e) BY <1>7, <2>1
  <2>3. DOMAIN e = 0..n /\ e = [k \in DOMAIN e |-> e[k]] BY <2>2
  <2> QED BY <2>1, <2>3
<1>10. \A k \in 0..n : ends[k] \in Nat
  <2>0. PICK T : T = {k \in 0..n : ends[k] \in Nat} OBVIOUS
  <2>1. z \in T /\ n \in Int BY <1>1, <1>2, <1>8, <2>0
  <2>2. ASSUME NEW h \in z..(n - 1), h \in T PROVE h + 1 \in T
    <3>1. h + 1 \in 0..n /\ h + 1 # 0 /\ (h + 1) - 1 = h BY <1>1, <1>2
    <3>2. ends[h + 1] = IF h + 1 \in win THEN ends[h] + 1 ELSE 0 BY <1>8, <3>1
    <3>3. ends[h] \in Nat BY <2>0, <2>2
    <3> QED BY <2>0, <3>1, <3>2, <3>3
  <2>3. \A h \in z..(n - 1) : h \in T => h + 1 \in T BY <2>2
  <2>4. \A h \in z..n : h \in T BY <2>1, <2>3, InductionOnInterval
  <2> QED BY <1>2, <2>0, <2>4
<1>11. ends \in [0..n -> Nat]
  <2>1. PICK e : e = ends OBVIOUS
  <2>2. DOMAIN e = 0..n /\ e = [k \in DOMAIN e |-> e[k]] /\ \A k \in 0..n : e[k] \in Nat
    BY <1>9, <1>10, <2>1
  <2>3. e \in [0..n -> Nat] BY <2>2
  <2> QED BY <2>1, <2>3
<1> QED BY <1>1, <1>8, <1>11

\* The longest streak is the longest of all the runs of such trades.
LEMMA StreaksHold ==
  ASSUME SegmentType, NEW win
  PROVE  LongestStreak(win) =
           Max({0} \cup {p[2] - p[1] + 1 : p \in {q \in All \X All : q[1] <= q[2] /\ q[1]..q[2] \subseteq win}})
<1>1. PICK n \in Nat : n = Len(trades) BY DEF SegmentType
<1>2. PICK ends \in [0..n -> Nat] :
        /\ ends = Streaks(win)
        /\ \A k \in 0..n : ends[k] = IF k = 0 THEN 0 ELSE IF k \in win THEN ends[k - 1] + 1 ELSE 0
  BY <1>1, StreaksAre
<1> DEFINE Told(k) ==
             /\ ends[k] \in 0..k
             /\ \A j \in (k - ends[k] + 1)..k : j \in win
             /\ \A a \in 1..k : (\A j \in a..k : j \in win) => ends[k] >= k - a + 1
<1>3. \A k \in 0..n : Told(k)
  <2>0. PICK T : T = {k \in 0..n : Told(k)} OBVIOUS
  <2>z. PICK z \in Int : z = 0 OBVIOUS
  <2>1. z \in T /\ n \in Int
    <3>1. 0 \in 0..n /\ ends[0] = 0 BY <1>1, <1>2
    <3>2. \A a \in 1..0 : FALSE OBVIOUS
    <3>3. Told(0) BY <3>1, <3>2
    <3> HIDE DEF Told
    <3> QED BY <1>1, <2>0, <2>z, <3>1, <3>3
  <2>2. ASSUME NEW h \in z..(n - 1), h \in T PROVE h + 1 \in T
    <3>1. h \in 0..n /\ h + 1 \in 0..n /\ h + 1 # 0 /\ (h + 1) - 1 = h BY <1>1, <2>z
    <3>2. PICK e \in Nat : e = ends[h] BY <1>2, <3>1
    <3>3. /\ e \in 0..h
          /\ \A j \in (h - e + 1)..h : j \in win
          /\ \A a \in 1..h : (\A j \in a..h : j \in win) => e >= h - a + 1
      BY <2>0, <2>2, <3>2
    <3>4. ends[h + 1] = IF h + 1 \in win THEN e + 1 ELSE 0 BY <1>2, <3>1, <3>2
    <3>5. CASE h + 1 \in win
      <4>1. ends[h + 1] = e + 1 /\ e + 1 \in 0..(h + 1) BY <3>1, <3>3, <3>4, <3>5
      <4>2. ASSUME NEW j \in (h + 1 - (e + 1) + 1)..(h + 1) PROVE j \in win
        <5>1. j = h + 1 \/ j \in (h - e + 1)..h BY <3>1, <3>2
        <5> QED BY <3>3, <3>5, <5>1
      <4>3. ASSUME NEW a \in 1..(h + 1), \A j \in a..(h + 1) : j \in win PROVE e + 1 >= h + 1 - a + 1
        <5>1. CASE a = h + 1 BY <3>1, <3>2, <5>1
        <5>2. CASE a # h + 1
          <6>1. a \in 1..h /\ \A j \in a..h : j \in a..(h + 1) BY <3>1, <5>2
          <6>2. e >= h - a + 1 BY <3>3, <4>3, <6>1
          <6> QED BY <3>1, <3>2, <6>1, <6>2
        <5> QED BY <5>1, <5>2
      <4>4. Told(h + 1) BY <4>1, <4>2, <4>3
      <4> HIDE DEF Told
      <4> QED BY <2>0, <3>1, <4>4
    <3>6. CASE h + 1 \notin win
      <4>1. ends[h + 1] = 0 BY <3>4, <3>6
      <4>2. \A j \in (h + 1 - 0 + 1)..(h + 1) : FALSE BY <3>1
      <4>3. \A a \in 1..(h + 1) : h + 1 \in a..(h + 1) BY <3>1
      <4>4. Told(h + 1) BY <3>1, <3>6, <4>1, <4>2, <4>3
      <4> HIDE DEF Told
      <4> QED BY <2>0, <3>1, <4>4
    <3> QED BY <3>5, <3>6
  <2>3. \A h \in z..(n - 1) : h \in T => h + 1 \in T BY <2>2
  <2>4. \A h \in z..n : h \in T BY <2>1, <2>3, InductionOnInterval
  <2> HIDE DEF Told
  <2> QED BY <2>0, <2>z, <2>4
<1> DEFINE R == {ends[k] : k \in 0..n}
           B == {p[2] - p[1] + 1 : p \in {q \in All \X All : q[1] <= q[2] /\ q[1]..q[2] \subseteq win}}
           A == {0} \cup B
<1>5. PICK t \in 0..n : ends[t] = Max(R) /\ \A k \in 0..n : Max(R) >= ends[k]
  <2>1. PICK S : S = 0..n OBVIOUS
  <2>2. IsFiniteSet(0..n) /\ 0 \in 0..n BY <1>1, FS_Interval
  <2>3. IsFiniteSet(S) /\ S # {} /\ ends \in [S -> Int] BY <1>2, <2>1, <2>2
  <2>4. \E x \in S : ends[x] = Max({ends[k] : k \in S}) /\ \A y \in S : Max({ends[k] : k \in S}) >= ends[y]
    BY <2>3, MaxOfImage
  <2> QED BY <2>1, <2>4
<1>6. PICK m \in Nat : m = Max(R) /\ m = ends[t] BY <1>2, <1>5
<1>7. m \in A
  <2>1. CASE m = 0 BY <2>1
  <2>2. CASE m # 0
    <3>1. PICK a \in Int : a = t - m + 1
      <4>1. t - m + 1 \in Int BY <1>5, <1>6
      <4> QED BY <4>1
    <3>2. m \in 0..t /\ \A j \in (t - m + 1)..t : j \in win BY <1>3, <1>6
    <3>3. a \in 1..n /\ t \in 1..n /\ a <= t /\ m = t - a + 1 BY <1>1, <2>2, <3>1, <3>2
    <3>4. a \in All /\ t \in All BY <1>1, <3>3 DEF All
    <3>5. a..t \subseteq win BY <3>1, <3>2
    <3>6. PICK p : p = <<a, t>> OBVIOUS
    <3>7. p \in All \X All /\ p[1] = a /\ p[2] = t BY <3>4, <3>6
    <3>8. p[2] - p[1] + 1 \in B BY <3>3, <3>5, <3>7
    <3> QED BY <3>3, <3>7, <3>8
  <2> QED BY <2>1, <2>2
<1>8. ASSUME NEW y \in A PROVE y \in Int /\ m >= y
  <2>1. CASE y = 0 BY <2>1
  <2>2. CASE y \in B
    <3>1. PICK p \in All \X All : p[1] <= p[2] /\ p[1]..p[2] \subseteq win /\ y = p[2] - p[1] + 1 BY <2>2
    <3>2. p[1] \in 1..n /\ p[2] \in 1..n BY <1>1, <3>1 DEF All
    <3>3. PICK a \in 1..n, k \in 1..n : a = p[1] /\ k = p[2] BY <3>2
    <3>4. a \in 1..k /\ k \in 0..n /\ \A j \in a..k : j \in win BY <1>1, <3>1, <3>3
    <3>5. ends[k] >= k - a + 1 BY <1>3, <3>4
    <3>6. ends[k] \in Nat BY <1>2, <3>4
    <3>7. m >= ends[k]
      <4> HIDE DEF R
      <4> QED BY <1>5, <1>6, <3>4
    <3> QED BY <3>1, <3>3, <3>5, <3>6, <3>7
  <2> QED BY <2>1, <2>2
<1>9. Max(A) = m
  <2>1. A \in SUBSET Int /\ \A y \in A : m >= y BY <1>8
  <2> HIDE DEF A
  <2> QED BY <1>7, <2>1, MaxIs
<1>10. LongestStreak(win) = Max(R) BY <1>1, <1>2 DEF LongestStreak
<1> QED BY <1>6, <1>9, <1>10

\* The highest equity of each point is the greatest of the run up to it.
LEMMA PeaksHold ==
  ASSUME NEW c \in Seq(Points), Len(c) # 0
  PROVE  \A k \in 1..Len(c) : PeakOf(c)[k] = Max({c[j].equity : j \in 1..k})
<1>1. PICK n \in Nat \ {0} : n = Len(c) OBVIOUS
<1>2. PICK eq \in [1..n -> Int] : \A k \in 1..n : c[k].equity = eq[k]
  <2>1. \A k \in 1..n : c[k] \in Points BY <1>1
  <2>2. \A k \in 1..n : c[k].equity \in Int BY <2>1 DEF Points
  <2>3. [k \in 1..n |-> c[k].equity] \in [1..n -> Int] BY <2>2
  <2> QED BY <2>3
<1> DEFINE step(g) == [k \in 1..n |-> IF k = 1 THEN c[1].equity ELSE Greater(g[k - 1], c[k].equity)]
<1>3. PICK z \in Int : z = 1 OBVIOUS
<1>4. PICK N : N = Int OBVIOUS
<1>5. PICK F : F = [p \in ((z + 1)..n) \X N |-> Greater(p[2], eq[p[1]])] OBVIOUS
<1>6. IsStep(F, z, n, N)
  <2>1. \A p \in ((z + 1)..n) \X N : p[1] \in 1..n /\ p[2] \in Int BY <1>3, <1>4
  <2>2. \A p \in ((z + 1)..n) \X N : Greater(p[2], eq[p[1]]) \in N BY <1>2, <1>4, <2>1 DEF Greater
  <2> QED BY <1>5, <2>2 DEF IsStep
<1>7. PICK start \in N : start = eq[z] BY <1>2, <1>3, <1>4
<1>8. PICK g \in [z..n -> N] : g = Along(z, n, start, F, g)
  <2>1. n \in Int /\ z \in Int /\ start \in N OBVIOUS
  <2> QED BY <1>6, <2>1, RecursionDefined
<1>9. g = step(g)
  <2>1. ASSUME NEW k \in 1..n, k # 1
        PROVE  F[<<k, g[k - 1]>>] = Greater(g[k - 1], c[k].equity)
    <3>1. k \in (z + 1)..n /\ k - 1 \in z..n BY <1>3, <2>1
    <3>2. <<k, g[k - 1]>> \in ((z + 1)..n) \X N BY <3>1
    <3> QED BY <1>2, <1>5, <3>2
  <2>2. start = c[1].equity BY <1>2, <1>3, <1>7
  <2> QED BY <1>3, <1>8, <2>1, <2>2 DEF Along
<1>10. PeakOf(c) = CHOOSE f : f = step(f) BY <1>1 DEF PeakOf
<1>11. PICK f : f = PeakOf(c) /\ f = step(f)
  <2> HIDE DEF step
  <2> QED BY <1>9, <1>10
<1>12. \A k \in 1..n : f[k] = IF k = 1 THEN eq[1] ELSE Greater(f[k - 1], eq[k])
  <2>1. \A k \in 1..n : f[k] = IF k = 1 THEN c[1].equity ELSE Greater(f[k - 1], c[k].equity) BY <1>11
  <2>2. 1 \in 1..n OBVIOUS
  <2> QED BY <1>2, <2>1, <2>2
<1> DEFINE Told(k) == f[k] \in Int /\ (\A j \in 1..k : f[k] >= eq[j]) /\ \E j \in 1..k : f[k] = eq[j]
<1>13. \A k \in 1..n : Told(k)
  <2>0. PICK T : T = {k \in 1..n : Told(k)} OBVIOUS
  <2>1. z \in T /\ n \in Int
    <3>1. 1 \in 1..n /\ \A j \in 1..1 : j = 1 OBVIOUS
    <3>2. f[1] = eq[1] /\ eq[1] \in Int BY <1>2, <1>12, <3>1
    <3>3. Told(1) BY <3>1, <3>2
    <3> HIDE DEF Told
    <3> QED BY <1>3, <2>0, <3>1, <3>3
  <2>2. ASSUME NEW h \in z..(n - 1), h \in T PROVE h + 1 \in T
    <3>1. h \in 1..n /\ h + 1 \in 1..n /\ h + 1 # 1 /\ (h + 1) - 1 = h BY <1>3
    <3>2. f[h + 1] = Greater(f[h], eq[h + 1]) BY <1>12, <3>1
    <3>3. Told(h) BY <2>0, <2>2
    <3>4. PICK a \in Int, b \in Int : a = f[h] /\ b = eq[h + 1] BY <1>2, <3>1, <3>3
    <3>5. f[h + 1] = IF a >= b THEN a ELSE b BY <3>2, <3>4 DEF Greater
    <3>6. \A j \in 1..(h + 1) : j \in 1..h \/ j = h + 1 BY <3>1
    <3>7. \A j \in 1..h : a >= eq[j] /\ eq[j] \in Int
      <4>1. \A j \in 1..h : j \in 1..n BY <3>1
      <4> QED BY <1>2, <3>3, <3>4, <4>1
    <3>8. PICK j \in 1..h : a = eq[j] BY <3>3, <3>4
    <3>9. j \in 1..(h + 1) /\ h + 1 \in 1..(h + 1) BY <3>1
    <3>10. Told(h + 1)
      <4>1. CASE a >= b BY <3>4, <3>5, <3>6, <3>7, <3>8, <3>9, <4>1
      <4>2. CASE ~(a >= b)
        <5>1. f[h + 1] = b /\ \A l \in 1..h : b >= eq[l] BY <3>4, <3>5, <3>7, <4>2
        <5> QED BY <3>4, <3>6, <3>9, <5>1
      <4> QED BY <4>1, <4>2
    <3> HIDE DEF Told
    <3> QED BY <2>0, <3>1, <3>10
  <2>3. \A h \in z..(n - 1) : h \in T => h + 1 \in T BY <2>2
  <2>4. \A h \in z..n : h \in T BY <2>1, <2>3, InductionOnInterval
  <2> HIDE DEF Told
  <2> QED BY <1>3, <2>0, <2>4
<1>14. ASSUME NEW k \in 1..n PROVE f[k] = Max({c[j].equity : j \in 1..k})
  <2>1. \A j \in 1..k : j \in 1..n OBVIOUS
  <2>2. \A j \in 1..k : c[j].equity = eq[j] /\ eq[j] \in Int BY <1>2, <2>1
  <2>3. PICK m \in Int : m = f[k] BY <1>13
  <2>4. PICK S : S = {c[j].equity : j \in 1..k} OBVIOUS
  <2>5. S = {eq[j] : j \in 1..k} BY <2>2, <2>4
  <2>50. (\A j \in 1..k : m >= eq[j]) /\ \E j \in 1..k : m = eq[j] BY <1>13, <2>3
  <2>51. S \in SUBSET Int BY <2>2, <2>5
  <2>52. m \in S /\ \A y \in S : m >= y BY <2>5, <2>50
  <2>6. Max(S) = m BY <2>51, <2>52, MaxIs
  <2> QED BY <2>3, <2>4, <2>6
<1> QED BY <1>1, <1>11, <1>14

\* The windows part the trades.
LEMMA WindowsCover == ASSUME SegmentType PROVE UNION RollingWindows = All
<1>1. PICK n \in Nat : n = Len(trades) BY DEF SegmentType
<1>2. PICK W \in Nat \ {0} : W = WindowSize BY ReportAssumption
<1>3. All = 1..n BY <1>1 DEF All
<1>4. ASSUME NEW k \in All PROVE k \in UNION RollingWindows
  <2>1. k \in 1..n BY <1>3
  <2>2. PICK w \in Int : w = (k - 1) \div W BY <2>1
  <2>3. w \in 0..((n - 1) \div W)
    <3>1. PICK a \in Nat, b \in Nat : a = k - 1 /\ b = n - 1 /\ a <= b
      <4>1. k - 1 \in Nat /\ n - 1 \in Nat /\ k - 1 <= n - 1 BY <2>1
      <4> QED BY <4>1
    <3>2. a \div W \in 0..(b \div W) BY <3>1, QuotientGrows
    <3> QED BY <2>2, <3>1, <3>2
  <2>4. {j \in All : (j - 1) \div WindowSize = w} \in RollingWindows BY <1>1, <1>2, <2>3 DEF RollingWindows
  <2>5. k \in {j \in All : (j - 1) \div WindowSize = w} BY <1>2, <2>2
  <2> QED BY <2>4, <2>5
<1>5. \A R \in RollingWindows : R \subseteq All BY DEF RollingWindows
<1> QED BY <1>4, <1>5

-----------------------------------------------------------------------------
(* The time underwater.                                                   *)

Watches == [peak : Int, at : Nat, since : Nat, best : Int]

\* What the next point of the curve makes of the watch.
Watched(w, k, e) ==
  IF e >= w.peak
  THEN [peak |-> e, at |-> k, since |-> 0,
        best |-> IF w.since # 0 THEN Greater(w.best, k - w.since) ELSE w.best]
  ELSE [w EXCEPT !.since = IF @ = 0 THEN w.at ELSE @]

\* A drought of a function of the places of a curve.
Dips(eq, s, e) ==
  /\ s < e
  /\ \A k \in 1..s : eq[k] <= eq[s]
  /\ \A k \in (s + 1)..(e - 1) : eq[k] < eq[s]
  /\ e > s + 1 \/ eq[e] < eq[s]

\* What the watch knows of the droughts after each point.
WatchTells(w, k, eq, n) ==
  /\ w.at \in 1..k /\ w.peak = eq[w.at]
  /\ \A j \in 1..k : eq[j] <= w.peak
  /\ \A j \in (w.at + 1)..k : eq[j] < w.peak
  /\ w.since = IF w.at = k THEN 0 ELSE w.at
  /\ w.best \in Nat
  /\ \A s, e \in 1..n : Dips(eq, s, e) /\ e <= w.at => e - s <= w.best
  /\ w.best = 0 \/ \E s, e \in 1..n : Dips(eq, s, e) /\ e <= w.at /\ w.best = e - s

\* A drought that ends later began at the last peak.
LEMMA DipsFromPeak ==
  ASSUME NEW n \in Nat, NEW eq \in [1..n -> Int], NEW k \in 1..n, NEW a \in 1..k,
         \A j \in 1..k : eq[j] <= eq[a], \A j \in (a + 1)..k : eq[j] < eq[a],
         NEW s \in 1..n, NEW e \in 1..n, Dips(eq, s, e), a < e, e <= k + 1
  PROVE  s = a
<1>1. a \in 1..n /\ s < e BY DEF Dips
<1>2. PICK x \in Int, y \in Int : x = eq[a] /\ y = eq[s] BY <1>1
<1>3. CASE s < a
  <2>1. a \in (s + 1)..(e - 1) /\ s \in 1..k BY <1>3
  <2>2. x < y /\ y <= x BY <1>2, <2>1 DEF Dips
  <2> QED BY <1>2, <2>2
<1>4. CASE s > a
  <2>1. a \in 1..s /\ s \in (a + 1)..k BY <1>1, <1>4
  <2>2. y < x /\ x <= y BY <1>2, <2>1 DEF Dips
  <2> QED BY <1>2, <2>2
<1> QED BY <1>3, <1>4

\* The watch goes on telling the truth.
LEMMA WatchGoesOn ==
  ASSUME NEW n \in Nat, NEW eq \in [1..n -> Int], NEW k \in 1..(n - 1),
         NEW w \in Watches, WatchTells(w, k, eq, n)
  PROVE  WatchTells(Watched(w, k + 1, eq[k + 1]), k + 1, eq, n)
<1>0. PICK v : v = Watched(w, k + 1, eq[k + 1]) OBVIOUS
<1>1. k \in 1..n /\ k + 1 \in 1..n OBVIOUS
<1>2. PICK a \in 1..k, b \in Nat, x \in Int, y \in Int :
        a = w.at /\ b = w.best /\ x = w.peak /\ x = eq[a] /\ y = eq[k + 1]
  BY <1>1 DEF WatchTells, Watches
<1>3. /\ \A j \in 1..k : eq[j] <= x
      /\ \A j \in (a + 1)..k : eq[j] < x
      /\ w.since = IF a = k THEN 0 ELSE a
      /\ \A s, e \in 1..n : Dips(eq, s, e) /\ e <= a => e - s <= b
      /\ b = 0 \/ \E s, e \in 1..n : Dips(eq, s, e) /\ e <= a /\ b = e - s
  BY <1>2 DEF WatchTells
<1>4. ASSUME NEW s \in 1..n, NEW e \in 1..n, Dips(eq, s, e), a < e, e <= k + 1 PROVE s = a
  <2>1. \A j \in 1..k : eq[j] <= eq[a] BY <1>2, <1>3
  <2>2. \A j \in (a + 1)..k : eq[j] < eq[a] BY <1>2, <1>3
  <2> QED BY <1>1, <1>4, <2>1, <2>2, DipsFromPeak
<1>5. CASE y >= x
  <2>1. /\ v.peak = y /\ v.at = k + 1 /\ v.since = 0
        /\ v.best = IF a # k THEN Greater(b, k + 1 - a) ELSE b
    <3>1. v = [peak |-> y, at |-> k + 1, since |-> 0,
               best |-> IF w.since # 0 THEN Greater(b, (k + 1) - w.since) ELSE b]
      <4>1. v = Watched(w, k + 1, y) BY <1>0, <1>2
      <4>2. y >= w.peak /\ w.best = b BY <1>2, <1>5
      <4>3. v = [peak |-> y, at |-> k + 1, since |-> 0,
                 best |-> IF w.since # 0 THEN Greater(w.best, (k + 1) - w.since) ELSE w.best]
        BY <4>1, <4>2, Zenon DEF Watched
      <4>4. PICK t : t = w.best OBVIOUS
      <4>5. v = [peak |-> y, at |-> k + 1, since |-> 0,
                 best |-> IF w.since # 0 THEN Greater(t, (k + 1) - w.since) ELSE t]
        BY <4>3, <4>4, Zenon
      <4>6. t = b BY <4>2, <4>4
      <4> QED BY <4>5, <4>6
    <3>2. w.since # 0 <=> a # k BY <1>3
    <3>3. a # k => w.since = a BY <1>3
    <3> QED BY <3>1, <3>2, <3>3
  <2>2. PICK m \in Nat : m = v.best /\ m >= b /\ (a # k => m >= k + 1 - a) /\ (m = b \/ (a # k /\ m = k + 1 - a))
    <3>1. PICK d \in Nat : d = k + 1 - a OBVIOUS
    <3>2. v.best = IF a # k THEN (IF b >= d THEN b ELSE d) ELSE b BY <2>1, <3>1 DEF Greater
    <3>3. v.best \in Nat /\ v.best >= b BY <3>2
    <3>4. a # k => v.best >= d BY <3>2
    <3>5. v.best = b \/ (a # k /\ v.best = d) BY <3>2
    <3>6. PICK m \in Nat : m = v.best BY <3>3
    <3>7. m >= b /\ (a # k => m >= k + 1 - a) /\ (m = b \/ (a # k /\ m = k + 1 - a))
      BY <3>1, <3>3, <3>4, <3>5, <3>6
    <3> QED BY <3>6, <3>7
  <2>3. \A j \in 1..(k + 1) : eq[j] <= y
    <3>1. \A j \in 1..(k + 1) : j = k + 1 \/ j \in 1..k OBVIOUS
    <3>2. \A j \in 1..k : eq[j] \in Int /\ eq[j] <= x BY <1>1, <1>3
    <3> QED BY <1>2, <1>5, <3>1, <3>2
  <2>4. ASSUME NEW s \in 1..n, NEW e \in 1..n, Dips(eq, s, e), e <= k + 1 PROVE e - s <= m
    <3>1. CASE e <= a BY <1>3, <2>2, <2>4, <3>1
    <3>2. CASE a < e
      <4>1. s = a BY <1>4, <2>4, <3>2
      <4>2. CASE a = k
        <5>1. e = s + 1 /\ e = k + 1 BY <2>4, <3>2, <4>1, <4>2
        <5>2. eq[e] < eq[s] BY <2>4, <5>1 DEF Dips
        <5> QED BY <1>2, <1>5, <4>1, <5>1, <5>2
      <4>3. CASE a # k BY <2>2, <2>4, <4>1, <4>3
      <4> QED BY <4>2, <4>3
    <3> QED BY <3>1, <3>2
  <2>5. m = 0 \/ \E s, e \in 1..n : Dips(eq, s, e) /\ e <= k + 1 /\ m = e - s
    <3>1. CASE m = b
      <4>1. \A e \in 1..n : e <= a => e <= k + 1 OBVIOUS
      <4> QED BY <1>3, <3>1, <4>1
    <3>2. CASE a # k /\ m = k + 1 - a
      <4>1. (k + 1) - 1 = k /\ a \in 1..n /\ \A j \in 1..a : j \in 1..k BY <1>1
      <4>2. Dips(eq, a, k + 1)
        <5>1. a < k + 1 /\ k + 1 > a + 1 BY <3>2
        <5>2. \A j \in 1..a : eq[j] <= eq[a] BY <1>2, <1>3, <4>1
        <5>3. \A j \in (a + 1)..((k + 1) - 1) : eq[j] < eq[a] BY <1>2, <1>3, <4>1
        <5> QED BY <5>1, <5>2, <5>3 DEF Dips
      <4>3. a \in 1..n /\ k + 1 \in 1..n /\ k + 1 <= k + 1 BY <1>1
      <4> QED BY <3>2, <4>2, <4>3
    <3> QED BY <2>2, <3>1, <3>2
  <2>6. k + 1 \in 1..(k + 1) /\ \A j \in (k + 1 + 1)..(k + 1) : FALSE OBVIOUS
  <2> QED BY <1>0, <1>2, <2>1, <2>2, <2>3, <2>4, <2>5, <2>6 DEF WatchTells
<1>6. CASE y < x
  <2>1. v.peak = x /\ v.at = a /\ v.best = b /\ v.since = a
    <3>1. v = [w EXCEPT !.since = IF @ = 0 THEN w.at ELSE @] BY <1>0, <1>2, <1>6 DEF Watched
    <3>2. v.since = IF w.since = 0 THEN w.at ELSE w.since BY <3>1 DEF Watches
    <3>3. v.peak = w.peak /\ v.at = w.at /\ v.best = w.best BY <3>1 DEF Watches
    <3> QED BY <1>2, <1>3, <3>2, <3>3
  <2>2. \A j \in 1..(k + 1) : j = k + 1 \/ j \in 1..k OBVIOUS
  <2>3. \A j \in (a + 1)..(k + 1) : j = k + 1 \/ j \in (a + 1)..k OBVIOUS
  <2>4. \A j \in 1..(k + 1) : eq[j] <= x BY <1>2, <1>3, <1>6, <2>2
  <2>5. \A j \in (a + 1)..(k + 1) : eq[j] < x BY <1>2, <1>3, <1>6, <2>3
  <2>6. a \in 1..(k + 1) /\ a # k + 1 OBVIOUS
  <2> QED BY <1>0, <1>2, <1>3, <2>1, <2>4, <2>5, <2>6 DEF WatchTells
<1> QED BY <1>2, <1>5, <1>6

\* The watch stays a watch.
LEMMA WatchTyped ==
  ASSUME NEW k \in Nat, NEW w \in Watches, NEW y \in Int PROVE Watched(w, k, y) \in Watches
<1>1. w.since \in Nat /\ w.at \in Nat /\ w.best \in Int BY DEF Watches
<1>2. CASE y >= w.peak
  <2>1. PICK m \in Int : m = IF w.since # 0 THEN Greater(w.best, k - w.since) ELSE w.best BY <1>1 DEF Greater
  <2>2. Watched(w, k, y) = [peak |-> y, at |-> k, since |-> 0, best |-> m] BY <1>2, <2>1, Zenon DEF Watched
  <2>3. [peak |-> y, at |-> k, since |-> 0, best |-> m] \in Watches BY DEF Watches
  <2> QED BY <2>2, <2>3
<1>3. CASE ~(y >= w.peak)
  <2>1. PICK m \in Nat : m = IF w.since = 0 THEN w.at ELSE w.since BY <1>1
  <2>2. Watched(w, k, y) = [w EXCEPT !.since = m] BY <1>3, <2>1, Zenon DEF Watched
  <2>3. [w EXCEPT !.since = m] \in Watches BY DEF Watches
  <2> QED BY <2>2, <2>3
<1> QED BY <1>2, <1>3

\* The recursion of the watch over the curve.
LEMMA WatchIs ==
  ASSUME NEW c \in Seq(Points), NEW n \in Nat \ {0}, n = Len(c), NEW eq \in [1..n -> Int],
         \A k \in 1..n : c[k].equity = eq[k]
  PROVE  \E f :
           /\ f[1] = [peak |-> eq[1], at |-> 1, since |-> 0, best |-> 0]
           /\ \A k \in 1..n : k # 1 => f[k] = Watched(f[k - 1], k, eq[k])
           /\ Underwater(c) = IF f[n].since # 0 THEN Greater(f[n].best, n - f[n].since) ELSE f[n].best
<1> DEFINE step(l) == [k \in 1..n |->
                        IF k = 1 THEN [peak |-> c[1].equity, at |-> 1, since |-> 0, best |-> 0]
                        ELSE LET w == l[k - 1]
                                 e == c[k].equity
                             IN  IF e >= w.peak
                                 THEN [peak |-> e, at |-> k, since |-> 0,
                                       best |-> IF w.since # 0 THEN Greater(w.best, k - w.since) ELSE w.best]
                                 ELSE [w EXCEPT !.since = IF @ = 0 THEN w.at ELSE @]]
           Loop(l) == [k \in 1..n |->
                        IF k = 1 THEN [peak |-> c[1].equity, at |-> 1, since |-> 0, best |-> 0]
                        ELSE Watched(l[k - 1], k, c[k].equity)]
<1>1. \A l : step(l) = Loop(l) BY Zenon DEF Watched
<1>2. PICK z \in Int : z = 1 OBVIOUS
<1>3. PICK N : N = Watches OBVIOUS
<1>4. PICK F : F = [p \in ((z + 1)..n) \X N |-> Watched(p[2], p[1], eq[p[1]])] OBVIOUS
<1>5. IsStep(F, z, n, N)
  <2>1. ASSUME NEW k \in 1..n, NEW w \in Watches PROVE Watched(w, k, eq[k]) \in Watches
    <3>1. k \in Nat /\ eq[k] \in Int OBVIOUS
    <3> QED BY <3>1, WatchTyped
  <2>2. \A p \in ((z + 1)..n) \X N : p[1] \in 1..n /\ p[2] \in Watches BY <1>2, <1>3
  <2>3. \A p \in ((z + 1)..n) \X N : Watched(p[2], p[1], eq[p[1]]) \in N BY <1>3, <2>1, <2>2
  <2> QED BY <1>4, <2>3 DEF IsStep
<1>6. PICK start \in N : start = [peak |-> eq[1], at |-> 1, since |-> 0, best |-> 0]
  <2>1. [peak |-> eq[1], at |-> 1, since |-> 0, best |-> 0] \in Watches BY DEF Watches
  <2> QED BY <1>3, <2>1
<1>7. PICK g \in [z..n -> N] : g = Along(z, n, start, F, g)
  <2>1. n \in Int OBVIOUS
  <2> QED BY <1>5, <1>6, <2>1, RecursionDefined
<1>8. g = Loop(g)
  <2>1. ASSUME NEW k \in 1..n, k # 1
        PROVE  F[<<k, g[k - 1]>>] = Watched(g[k - 1], k, c[k].equity)
    <3>1. k \in (z + 1)..n /\ k - 1 \in z..n BY <1>2, <2>1
    <3>2. <<k, g[k - 1]>> \in ((z + 1)..n) \X N BY <3>1
    <3> QED BY <1>4, <3>2
  <2>2. start = [peak |-> c[1].equity, at |-> 1, since |-> 0, best |-> 0] BY <1>6
  <2> QED BY <1>2, <1>7, <2>1, <2>2 DEF Along
<1>9. PICK f : f = (CHOOSE l : l = step(l)) /\ f = Loop(f)
  <2>1. g = step(g) BY <1>1, <1>8
  <2> HIDE DEF step, Loop
  <2>2. PICK f : f = (CHOOSE l : l = step(l)) OBVIOUS
  <2>3. f = step(f) BY <2>1, <2>2
  <2> QED BY <1>1, <2>2, <2>3
<1>10. Underwater(c) = IF f[n].since # 0 THEN Greater(f[n].best, n - f[n].since) ELSE f[n].best
  <2>1. Underwater(c) = LET last == (CHOOSE l : l = step(l))[n]
                        IN  IF last.since # 0 THEN Greater(last.best, n - last.since) ELSE last.best
    BY DEF Underwater
  <2> HIDE DEF step
  <2> QED BY <1>9, <2>1
<1>11. \A k \in 1..n : f[k] = IF k = 1 THEN [peak |-> c[1].equity, at |-> 1, since |-> 0, best |-> 0]
                              ELSE Watched(f[k - 1], k, c[k].equity)
  BY <1>9
<1>12. 1 \in 1..n OBVIOUS
<1>13. f[1] = [peak |-> eq[1], at |-> 1, since |-> 0, best |-> 0] BY <1>11, <1>12
<1>14. \A k \in 1..n : k # 1 => f[k] = Watched(f[k - 1], k, eq[k]) BY <1>11
<1> QED BY <1>10, <1>13, <1>14

\* The time underwater is the longest of the droughts.
LEMMA UnderwaterHolds ==
  ASSUME curve \in Seq(Points), Len(curve) # 0
  PROVE  Underwater(curve) =
           Max({0} \cup {p[2] - p[1] : p \in {q \in (DOMAIN curve) \X (DOMAIN curve) : Drought(q[1], q[2])}})
<1>1. PICK n \in Nat \ {0} : n = Len(curve) /\ DOMAIN curve = 1..n OBVIOUS
<1>0. PICK K : K = DOMAIN curve OBVIOUS
<1>00. K = 1..n BY <1>0, <1>1
<1>2. PICK eq \in [1..n -> Int] : \A k \in 1..n : curve[k].equity = eq[k]
  <2>1. \A k \in 1..n : curve[k] \in Points BY <1>1
  <2>2. \A k \in 1..n : curve[k].equity \in Int BY <2>1 DEF Points
  <2>3. [k \in 1..n |-> curve[k].equity] \in [1..n -> Int] BY <2>2
  <2> QED BY <2>3
<1>3. PICK f :
        /\ f[1] = [peak |-> eq[1], at |-> 1, since |-> 0, best |-> 0]
        /\ \A k \in 1..n : k # 1 => f[k] = Watched(f[k - 1], k, eq[k])
        /\ Underwater(curve) = IF f[n].since # 0 THEN Greater(f[n].best, n - f[n].since) ELSE f[n].best
  BY <1>1, <1>2, WatchIs
<1>4. ASSUME NEW s \in 1..n, NEW e \in 1..n PROVE Drought(s, e) <=> Dips(eq, s, e)
  <2>1. \A k \in 1..s : curve[k].equity = eq[k] BY <1>2
  <2>2. \A k \in (s + 1)..(e - 1) : curve[k].equity = eq[k] BY <1>2
  <2>3. curve[s].equity = eq[s] /\ curve[e].equity = eq[e] BY <1>2
  <2> QED BY <2>1, <2>2, <2>3 DEF Drought, Dips
<1> DEFINE Told(k) == f[k] \in Watches /\ WatchTells(f[k], k, eq, n)
<1>5. \A k \in 1..n : Told(k)
  <2>0. PICK T : T = {k \in 1..n : Told(k)} OBVIOUS
  <2>z. PICK z \in Int : z = 1 OBVIOUS
  <2>1. z \in T /\ n \in Int
    <3>1. 1 \in 1..n /\ (\A j \in 1..1 : j = 1) /\ \A j \in (1 + 1)..1 : FALSE OBVIOUS
    <3>2. PICK x \in Int : x = eq[1] BY <3>1
    <3>3. f[1] = [peak |-> x, at |-> 1, since |-> 0, best |-> 0] BY <1>3, <3>2
    <3>4. f[1] \in Watches BY <3>3 DEF Watches
    <3>5. \A s, e \in 1..n : ~(Dips(eq, s, e) /\ e <= 1) BY DEF Dips
    <3>6. WatchTells(f[1], 1, eq, n) BY <3>1, <3>2, <3>3, <3>5 DEF WatchTells
    <3> HIDE DEF Told
    <3>7. Told(1) BY <3>4, <3>6 DEF Told
    <3> QED BY <2>0, <2>z, <3>1, <3>7
  <2>2. ASSUME NEW h \in z..(n - 1), h \in T PROVE h + 1 \in T
    <3>1. h \in 1..(n - 1) /\ h + 1 \in 1..n /\ h + 1 # 1 /\ (h + 1) - 1 = h BY <2>z
    <3>2. Told(h) BY <2>0, <2>2
    <3>3. PICK w \in Watches : w = f[h] /\ WatchTells(w, h, eq, n) BY <3>2
    <3>4. f[h + 1] = Watched(w, h + 1, eq[h + 1]) BY <1>3, <3>1, <3>3
    <3>5. WatchTells(f[h + 1], h + 1, eq, n) BY <3>1, <3>3, <3>4, WatchGoesOn
    <3>6. f[h + 1] \in Watches BY <3>1, <3>4, WatchTyped
    <3>7. Told(h + 1) BY <3>5, <3>6
    <3> HIDE DEF Told
    <3> QED BY <2>0, <3>1, <3>7
  <2>3. \A h \in z..(n - 1) : h \in T => h + 1 \in T BY <2>2
  <2>4. \A h \in z..n : h \in T BY <2>1, <2>3, InductionOnInterval
  <2> HIDE DEF Told
  <2> QED BY <2>0, <2>z, <2>4
<1>6. PICK w \in Watches : w = f[n] /\ WatchTells(w, n, eq, n) BY <1>5
<1>7. PICK a \in 1..n, b \in Nat, x \in Int : a = w.at /\ b = w.best /\ x = eq[a] /\ x = w.peak
  BY <1>6 DEF WatchTells, Watches
<1>8. /\ \A j \in 1..n : eq[j] <= eq[a]
      /\ \A j \in (a + 1)..n : eq[j] < eq[a]
      /\ w.since = IF a = n THEN 0 ELSE a
      /\ \A s, e \in 1..n : Dips(eq, s, e) /\ e <= a => e - s <= b
      /\ b = 0 \/ \E s, e \in 1..n : Dips(eq, s, e) /\ e <= a /\ b = e - s
  BY <1>6, <1>7 DEF WatchTells
<1>9. PICK m \in Nat :
        /\ m = Underwater(curve) /\ m >= b /\ (a # n => m >= n - a)
        /\ (m = b \/ (a # n /\ m = n - a))
  <2>1. PICK d \in Nat : d = n - a OBVIOUS
  <2>2. Underwater(curve) = IF w.since # 0 THEN Greater(b, n - w.since) ELSE b BY <1>3, <1>6, <1>7
  <2>3. w.since # 0 <=> a # n BY <1>8
  <2>4. a # n => w.since = a BY <1>8
  <2>5. Underwater(curve) = IF a # n THEN (IF b >= d THEN b ELSE d) ELSE b
    BY <2>1, <2>2, <2>3, <2>4 DEF Greater
  <2>6. PICK m \in Nat : m = Underwater(curve) BY <2>5
  <2>7. m >= b /\ (a # n => m >= d) /\ (m = b \/ (a # n /\ m = d)) BY <2>5, <2>6
  <2> QED BY <2>1, <2>6, <2>7
<1> DEFINE Lengths(L) == {p[2] - p[1] : p \in {q \in L \X L : Drought(q[1], q[2])}}
           B == Lengths(K)
<1>10. ASSUME NEW s \in 1..n, NEW e \in 1..n, Dips(eq, s, e) PROVE e - s \in B
  <2>1. PICK p : p = <<s, e>> OBVIOUS
  <2>2. p \in K \X K /\ p[1] = s /\ p[2] = e
    BY <1>00, <2>1
  <2>3. Drought(s, e) BY <1>4, <1>10
  <2>4. Drought(p[1], p[2]) BY <2>2, <2>3, Zenon
  <2>5. p[2] - p[1] \in B BY <2>2, <2>4, Zenon
  <2> HIDE DEF B
  <2> QED BY <2>2, <2>5
<1>11. ASSUME NEW y \in B PROVE y \in Int /\ m >= y
  <2>1. PICK p \in K \X K : Drought(p[1], p[2]) /\ y = p[2] - p[1] BY <1>11, Zenon
  <2>2. PICK s \in 1..n, e \in 1..n : s = p[1] /\ e = p[2]
    <3>1. p[1] \in K /\ p[2] \in K OBVIOUS
    <3> QED BY <1>00, <3>1
  <2>3. Drought(s, e) BY <2>1, <2>2, Zenon
  <2>4. Dips(eq, s, e) BY <1>4, <2>3
  <2>5. y = e - s BY <2>1, <2>2
  <2>6. CASE e <= a BY <1>8, <1>9, <2>4, <2>5, <2>6
  <2>7. CASE a < e
    <3>1. e <= n + 1 /\ n \in 1..n /\ n \in Nat OBVIOUS
    <3>2. \A j \in 1..n : eq[j] <= eq[a] BY <1>8
    <3>3. \A j \in (a + 1)..n : eq[j] < eq[a] BY <1>8
    <3>4. s = a BY <2>4, <2>7, <3>1, <3>2, <3>3, DipsFromPeak
    <3>5. a # n BY <2>7
    <3> QED BY <1>9, <2>5, <3>4, <3>5
  <2> QED BY <2>6, <2>7
<1>12. m \in {0} \cup B
  <2>1. CASE m = 0 BY <2>1
  <2>2. CASE m = b /\ m # 0
    <3>1. PICK s \in 1..n, e \in 1..n : Dips(eq, s, e) /\ b = e - s BY <1>8, <2>2
    <3>2. e - s \in B BY <1>10, <3>1
    <3> HIDE DEF B
    <3> QED BY <2>2, <3>1, <3>2
  <2>3. CASE a # n /\ m = n - a
    <3>1. Dips(eq, a, n)
      <4>1. a < n /\ n \in (a + 1)..n BY <2>3
      <4>2. \A j \in 1..a : eq[j] <= eq[a] BY <1>8
      <4>3. \A j \in (a + 1)..(n - 1) : eq[j] < eq[a] BY <1>8
      <4>4. eq[n] < eq[a] BY <1>8, <4>1
      <4> QED BY <4>1, <4>2, <4>3, <4>4 DEF Dips
    <3>2. n \in 1..n OBVIOUS
    <3>3. n - a \in B BY <1>10, <3>1, <3>2
    <3> HIDE DEF B
    <3> QED BY <2>3, <3>3
  <2> HIDE DEF B
  <2> QED BY <1>9, <2>1, <2>2, <2>3
<1> HIDE DEF B
<1>13. PICK A : A = {0} \cup B OBVIOUS
<1>14. A \in SUBSET Int /\ m \in A /\ \A y \in A : m >= y BY <1>11, <1>12, <1>13
<1>15. Max(A) = m BY <1>14, MaxIs
<1>16. Max({0} \cup B) = Underwater(curve) BY <1>9, <1>13, <1>15
<1> HIDE DEF Lengths
<1>17. Lengths(K) = Lengths(DOMAIN curve) BY <1>0
<1>18. Underwater(curve) = Max({0} \cup Lengths(DOMAIN curve)) BY <1>16, <1>17 DEF B
<1> QED BY <1>18, Zenon DEF Lengths

-----------------------------------------------------------------------------
(* The report.                                                             *)

\* The figures computed in one pass are those they are named for.
LEMMA FiguresHold ==
  ASSUME SegmentType, ReportInv, phase = "done" PROVE FiguresExact
<1>1. curve \in Seq(Points) /\ Len(curve) # 0 /\ DOMAIN curve = 1..Len(curve)
  BY DEF ReportInv, CurveInv, SegmentType
<1>2. \A k \in DOMAIN curve : PeakOf(curve)[k] = Max({curve[j].equity : j \in 1..k})
  BY <1>1, PeaksHold
<1>3. \A win \in {Winners(All), Losers(All)} :
        LongestStreak(win) =
          Max({0} \cup {p[2] - p[1] + 1 : p \in {q \in All \X All : q[1] <= q[2] /\ q[1]..q[2] \subseteq win}})
  BY StreaksHold, Zenon
<1>4. Underwater(curve) =
        Max({0} \cup {p[2] - p[1] : p \in {q \in (DOMAIN curve) \X (DOMAIN curve) : Drought(q[1], q[2])}})
  BY <1>1, UnderwaterHolds
<1>5. UNION RollingWindows = All
  BY WindowsCover
<1> USE DEF FiguresExact
<1> USE <1>5
<1> QED BY <1>2, <1>3, <1>4, Zenon

\* Reconciles: compute_performance_report, compute_pnl_breakdown and
\* explain_window tell the truth about the run they are given: a finished
\* run's totals add up to its final equity, every way of splitting its trades
\* accounts for all of them, every signal is accounted for, and the figures
\* computed in one pass over the curve and the trades are the right ones.
THEOREM ReportAlwaysReconciles == Spec => []ReportReconciles
<1>1. Init => Inv /\ PlanInv /\ ReportInv BY InvInit, PlanInit, ReportInit
<1>2. Inv /\ PlanInv /\ ReportInv /\ [Next]_vars => (Inv /\ PlanInv /\ ReportInv)'
  BY InvNext, PlanStep, ReportStep DEF Inv
<1>3. Inv /\ PlanInv /\ ReportInv => ReportReconciles
  <2> SUFFICES ASSUME Inv, PlanInv, ReportInv, phase = "done"
               PROVE  MoneyReconciles /\ SplitsReconcile /\ SignalsAccounted /\ FiguresExact
    BY DEF ReportReconciles
  <2>1. SegmentType /\ BooksBalance /\ EntryPlanned /\ RealizedKept /\ SignalInv
    BY DEF Inv, PlanInv, ReportInv
  <2> QED BY <2>1, MoneyHolds, SplitsHold, SignalsHold, FiguresHold
<1> QED BY <1>1, <1>2, <1>3, PTL DEF Spec
=============================================================================
