------------------------- MODULE TestnetCycleProofs -------------------------
(***************************************************************************)
(* Theorems about TestnetCycle, for every value of its constants.          *)
(***************************************************************************)
EXTENDS TestnetCycle, TLAPS

(***************************************************************************)
(* The operators of OrderApplication keep the types of the books.          *)
(***************************************************************************)

LEMMA DivIsInt == \A a \in Int, b \in Nat \ {0} : a \div b \in Int
  BY SMT

\* estimate_fee_from_notional and the bucketed commissions are amounts.
LEMMA CommissionTypes ==
  ASSUME NEW r \in Reports, NEW notional \in Int
  PROVE  /\ CommissionQuote(r, notional) \in Int
         /\ CommissionBase(r) \in Int
  BY FeeDenAssumption, DivIsInt DEF CommissionQuote, CommissionBase, FallbackFee, Reports

\* A portfolio whose fields are replaced by values of their types is one.
LEMMA PortfolioUpdate ==
  ASSUME NEW p \in Portfolios, NEW quote \in Int, NEW base \in Int,
         NEW side \in {"FLAT", "LONG"}, NEW cost \in Int, NEW pnl \in Int,
         NEW flag \in BOOLEAN
  PROVE  [p EXCEPT !.quote = quote, !.base = base, !.side = side,
                   !.cost = cost, !.pnl = pnl, !.estimated = flag] \in Portfolios
  BY DEF Portfolios

LEMMA PortfolioPurchase ==
  ASSUME NEW p \in Portfolios, NEW quote \in Int, NEW base \in Int, NEW cost \in Int,
         NEW flag \in BOOLEAN
  PROVE  [p EXCEPT !.quote = quote, !.base = base, !.side = "LONG",
                   !.cost = cost, !.estimated = flag] \in Portfolios
  BY DEF Portfolios

LEMMA AfterBuyType ==
  ASSUME NEW p \in Portfolios, NEW qty \in Int, NEW notional \in Int, NEW fee \in Int,
         NEW estimated \in BOOLEAN
  PROVE  AfterBuy(p, qty, notional, fee, estimated) \in Portfolios
<1> DEFINE flag == estimated \/ (p.side = "LONG" /\ p.estimated)
           paid == (IF p.side = "LONG" THEN p.cost ELSE 0) + notional + fee
           left == p.quote - (notional + fee)
           gained == p.base + qty
<1>1. flag \in BOOLEAN
  OBVIOUS
<1>2. paid \in Int /\ left \in Int /\ gained \in Int
  BY DEF Portfolios
<1>3. AfterBuy(p, qty, notional, fee, estimated) =
        [p EXCEPT !.quote = left, !.base = gained,
                  !.side = "LONG", !.cost = paid, !.estimated = flag]
  BY Zenon DEF AfterBuy
<1>. HIDE DEF flag, paid, left, gained
<1>4. [p EXCEPT !.quote = left, !.base = gained,
                  !.side = "LONG", !.cost = paid, !.estimated = flag] \in Portfolios
  BY <1>1, <1>2, PortfolioPurchase
<1>. QED  BY Zenon, <1>3, <1>4

LEMMA AfterSellType ==
  ASSUME NEW p \in Portfolios, NEW qty \in Nat \ {0}, NEW notional \in Int, NEW fee \in Int,
         NEW estimated \in BOOLEAN, SellAllowed(p, qty)
  PROVE  AfterSell(p, qty, notional, fee, estimated) \in Portfolios
<1> DEFINE soldCost == (p.cost * qty) \div p.base
           closed == qty = p.base
           quote == p.quote + notional - fee
           base == p.base - qty
           side == IF closed THEN "FLAT" ELSE "LONG"
           cost == IF closed THEN 0 ELSE p.cost - soldCost
           pnl == p.pnl + notional - fee - soldCost
           flag == ~closed /\ (p.estimated \/ estimated)
<1>1. soldCost \in Int
  <2>1. p.base \in Nat \ {0} /\ p.cost * qty \in Int
    BY DEF SellAllowed, Portfolios
  <2>. QED  BY <2>1
<1>2. quote \in Int /\ base \in Int /\ cost \in Int /\ pnl \in Int
  <2>. HIDE DEF soldCost
  <2>. QED BY <1>1 DEF Portfolios
<1>3. side \in {"FLAT", "LONG"} /\ flag \in BOOLEAN
  OBVIOUS
<1>4. AfterSell(p, qty, notional, fee, estimated) =
        [p EXCEPT !.quote = quote, !.base = base, !.side = side,
                  !.cost = cost, !.pnl = pnl, !.estimated = flag]
  BY Zenon DEF AfterSell
<1>. HIDE DEF quote, base, side, cost, pnl, flag
<1>5. [p EXCEPT !.quote = quote, !.base = base, !.side = side,
                  !.cost = cost, !.pnl = pnl, !.estimated = flag] \in Portfolios
  BY <1>2, <1>3, PortfolioUpdate
<1>. QED  BY Zenon, <1>4, <1>5

\* What the transaction of apply_order_result_atomically writes is well typed.
LEMMA ApplicationTypes ==
  ASSUME NEW r \in Reports, NEW row \in Rows, NEW p \in Portfolios, Accepted(r, row, p)
  PROVE  /\ NewPortfolio(r, row, p) \in Portfolios
         /\ NewRow(r, row) \in Rows
<1> DEFINE qty == r.exec - row.exec
           notional == r.quote - row.quote
           fee == CommissionQuote(r, notional)
           baseFee == CommissionBase(r)
<1>1. qty \in Int /\ notional \in Int /\ r.fills \in BOOLEAN
  BY DEF Reports, Rows
<1>2. fee \in Int /\ baseFee \in Int
  BY <1>1, CommissionTypes
<1>3. NewPortfolio(r, row, p) \in Portfolios
  <2>1. CASE ~HasNewFill(r, row)
    BY <2>1 DEF NewPortfolio
  <2>2. CASE HasNewFill(r, row) /\ row.side = "BUY"
    <3>1. NewPortfolio(r, row, p) = AfterBuy(p, qty - baseFee, notional, fee, ~r.fills)
      BY <2>2 DEF NewPortfolio
    <3>2. qty - baseFee \in Int /\ (~r.fills) \in BOOLEAN
      BY <1>1, <1>2
    <3>. HIDE DEF qty, notional, fee, baseFee
    <3>. QED  BY <1>1, <1>2, <3>1, <3>2, AfterBuyType
  <2>3. CASE HasNewFill(r, row) /\ row.side # "BUY"
    <3>1. NewPortfolio(r, row, p) = AfterSell(p, qty, notional, fee, ~r.fills)
      BY <2>3 DEF NewPortfolio
    <3>2. SellAllowed(p, qty)
      BY <2>3 DEF Accepted, Bookable
    <3>3. qty \in Nat \ {0} /\ (~r.fills) \in BOOLEAN
      BY <1>1, <2>3 DEF HasNewFill, Reports, Rows
    <3>. HIDE DEF qty, notional, fee, baseFee
    <3>. QED  BY <1>1, <1>2, <3>1, <3>2, <3>3, AfterSellType
  <2>. QED  BY <2>1, <2>2, <2>3
<1>4. NewRow(r, row) \in Rows
  <2>1. row.feeQuote + fee \in Int /\ row.feeBase + baseFee \in Int
    <3>. HIDE DEF fee, baseFee
    <3>. QED  BY <1>2 DEF Rows
  <2>. QED  BY <1>1, <2>1 DEF NewRow, Rows, Reports
<1>. QED  BY <1>3, <1>4

-----------------------------------------------------------------------------
(***************************************************************************)
(* Type correctness.                                                       *)
(***************************************************************************)

LEMMA ConstantsFacts ==
  /\ MaxCandle \in Nat \ {0} /\ CandlesPerDay \in Nat \ {0} /\ StepSize \in Nat \ {0}
  /\ MinQty \in Nat \ {0} /\ MaxApiErrors \in Nat \ {0}
  /\ MaxLots \in Nat /\ UnitCost \in Nat /\ Cooldown \in Nat
  BY ConstantsAssumption

LEMMA InitialTypes ==
  /\ \A q \in Int : InitialPortfolio(q) \in Portfolios
  /\ \A n \in Int : HeldPortfolio(n) \in Portfolios
  /\ NoRisk \in RiskStates /\ NoReport \in Reports /\ NoRow \in Rows
  /\ NoOrder \in ExchangeOrders
<1>1. \A q \in Int : InitialPortfolio(q) \in Portfolios
  BY DEF InitialPortfolio, Portfolios
<1>2. ASSUME NEW n \in Int  PROVE HeldPortfolio(n) \in Portfolios
  <2>1. n * UnitCost \in Int
    BY ConstantsFacts
  <2>2. InitialPortfolio(0) \in Portfolios
    BY <1>1
  <2>. QED  BY <2>1, <2>2 DEF HeldPortfolio, Portfolios
<1>3. NoRisk \in RiskStates /\ NoReport \in Reports /\ NoRow \in Rows
  BY DEF NoRisk, RiskStates, NoReport, Reports, NoRow, Rows, Sides, Statuses
<1>4. NoOrder \in ExchangeOrders
  BY DEF NoOrder, ExchangeOrders, Statuses
<1>. QED  BY <1>1, <1>2, <1>3, <1>4

LEMMA FeeIsInt == \A n \in Int, d \in FeeDens : Fee(n, d) \in Int
<1> SUFFICES ASSUME NEW n \in Int, NEW d \in FeeDens  PROVE Fee(n, d) \in Int
  OBVIOUS
<1>1. d \in Nat \ {0}
  BY ConstantsAssumption
<1>. QED  BY <1>1, DivIsInt DEF Fee

LEMMA ExcessIsNat == \A n \in Int, d \in FeeDens : Excess(n, d) \in Nat
<1> SUFFICES ASSUME NEW n \in Int, NEW d \in FeeDens  PROVE Excess(n, d) \in Nat
  OBVIOUS
<1>1. Fee(n, d) \in Int /\ FallbackFee(n) \in Int
  BY FeeIsInt, FeeDenAssumption, DivIsInt DEF FallbackFee
<1>. QED  BY <1>1 DEF Excess

\* An execution leaves the exchange's record and the account well typed.
LEMMA ExecuteTypes ==
  ASSUME TypeOK, NEW o \in Orders, NEW base \in ExchangeOrders, NEW n \in Int,
         NEW p \in Prices, NEW asset, NEW d \in FeeDens, NEW status \in Statuses, NEW total \in Int,
         Execute(o, base, n, p, asset, d, status, total)
  PROVE  exch' \in [Orders -> ExchangeOrders] /\ acct' \in Accounts
<1>1. p \in Int /\ n * p \in Int
  BY ConstantsAssumption
<1>2. Fee(n * p, d) \in Int /\ Excess(n * p, d) \in Nat
  BY <1>1, FeeIsInt, ExcessIsNat
<1>3. exch' \in [Orders -> ExchangeOrders]
  <2>1. [status |-> status, exec |-> base.exec + n, quote |-> base.quote + n * p,
         total |-> total + n] \in ExchangeOrders
    BY <1>1 DEF ExchangeOrders
  <2>. QED  BY <2>1 DEF Execute, TypeOK
<1>4. acct' \in Accounts
  BY <1>1, <1>2 DEF Execute, TypeOK, Accounts
<1>. QED  BY <1>3, <1>4

LEMMA PlacedAreStatuses ==
  ASSUME NEW n, NEW qty  PROVE PlacedStatuses(n, qty) \subseteq Statuses
  BY DEF PlacedStatuses, Statuses, Terminal, Open

\* An accepted request leaves the exchange well typed and its answer is a report.
LEMMA AcceptTypes ==
  ASSUME TypeOK, NEW o \in Orders, NEW answer \in BOOLEAN, Accept(o, answer)
  PROVE  /\ exch' \in [Orders -> ExchangeOrders] /\ acct' \in Accounts
         /\ answer => report' \in Reports
<1>0. PICK n \in Portions(rows[o].qty), p \in Prices, asset \in FeeAssets, d \in FeeDens :
        \E status \in PlacedStatuses(n, rows[o].qty) :
          /\ asset = "base" => n < acct.base
          /\ Execute(o, NoOrder, n, p, asset, d, status, exch[o].total)
          /\ answer => report' = Answer(o, TRUE,
                         IF asset = "quote" THEN Fee(n * p, d) ELSE 0,
                         IF asset = "base" /\ n > 0 THEN 1 ELSE 0)
  BY DEF Accept
<1>1. PICK status \in PlacedStatuses(n, rows[o].qty) :
        /\ Execute(o, NoOrder, n, p, asset, d, status, exch[o].total)
        /\ answer => report' = Answer(o, TRUE,
                        IF asset = "quote" THEN Fee(n * p, d) ELSE 0,
                        IF asset = "base" /\ n > 0 THEN 1 ELSE 0)
  BY <1>0
<1>2. n \in Int /\ status \in Statuses /\ exch[o].total \in Int /\ NoOrder \in ExchangeOrders
  BY PlacedAreStatuses, InitialTypes DEF Portions, TypeOK, ExchangeOrders
<1>3. exch' \in [Orders -> ExchangeOrders] /\ acct' \in Accounts
  BY <1>1, <1>2, ExecuteTypes
<1>4. ASSUME answer  PROVE report' \in Reports
  <2>1. p \in Int /\ n * p \in Int
    BY <1>2, ConstantsAssumption
  <2>2. Fee(n * p, d) \in Int
    BY <2>1, FeeIsInt
  <2>. DEFINE feeQuote == IF asset = "quote" THEN Fee(n * p, d) ELSE 0
              feeBase  == IF asset = "base" /\ n > 0 THEN 1 ELSE 0
  <2>3. feeQuote \in Int /\ feeBase \in Int
    BY <2>2
  <2>4. report' = Answer(o, TRUE, feeQuote, feeBase)
    BY <1>1, <1>4
  <2>5. exch'[o] \in ExchangeOrders
    BY <1>3
  <2>. HIDE DEF feeQuote, feeBase
  <2>. QED  BY <2>3, <2>4, <2>5 DEF Answer, Reports, ExchangeOrders
<1>. QED  BY <1>3, <1>4

LEMMA UnansweredTypes ==
  ASSUME TypeOK, NEW o \in Orders, Unanswered(o)
  PROVE  exch' \in [Orders -> ExchangeOrders] /\ acct' \in Accounts /\ inflight' \subseteq Orders
<1>1. CASE UNCHANGED exchange
  BY <1>1 DEF exchange, TypeOK
<1>2. CASE Accept(o, FALSE) /\ UNCHANGED inflight
  BY <1>2, AcceptTypes DEF TypeOK
<1>3. CASE inflight' = inflight \cup {o} /\ UNCHANGED <<exch, acct>>
  BY <1>3 DEF TypeOK
<1>. QED  BY <1>1, <1>2, <1>3 DEF Unanswered

LEMMA ApplyReportTypes ==
  ASSUME TypeOK, ApplyReport
  PROVE  portfolio' \in Portfolios /\ rows' \in [Orders -> Rows] /\ seeded' \in BOOLEAN
<1>1. report \in Reports /\ rows[cur] \in Rows /\ portfolio \in Portfolios
  BY DEF TypeOK
<1>2. NewPortfolio(report, rows[cur], portfolio) \in Portfolios /\ NewRow(report, rows[cur]) \in Rows
  BY <1>1, ApplicationTypes DEF ApplyReport
<1>. QED  BY <1>2 DEF ApplyReport, TypeOK

LEMMA DayIsInt == \A c \in Orders : Day(c) \in Int
  BY ConstantsFacts, DivIsInt DEF Day, Orders

LEMMA TypeInit == Init => TypeOK
<1> SUFFICES ASSUME Init  PROVE TypeOK
  OBVIOUS
<1>1. PICK n \in 0..MaxLots :
        /\ acct = [quote |-> 0, base |-> n, above |-> 0]
        /\ \/ seeded = FALSE /\ portfolio = InitialPortfolio(0)
           \/ n > 0 /\ seeded = TRUE /\ portfolio = HeldPortfolio(n)
  BY DEF Init
<1>2. n \in Int
  BY ConstantsFacts
<1>3. acct \in Accounts
  BY <1>1, <1>2 DEF Accounts
<1>4. seeded \in BOOLEAN
  BY <1>1
<1>5. portfolio \in Portfolios
  BY <1>1, <1>2, InitialTypes
<1>6. 1 \in Orders
  BY ConstantsFacts DEF Orders
<1>7. rows \in [Orders -> Rows] /\ exch \in [Orders -> ExchangeOrders]
  BY InitialTypes DEF Init
<1>8. mem \in RiskStates /\ risk \in RiskStates /\ report \in Reports /\ dust \in Int
  BY InitialTypes DEF Init
<1>9. blocked \in BOOLEAN /\ killSwitch \in BOOLEAN
  BY DEF Init
<1>10. pc \in Places /\ candle \in Orders /\ cur \in Orders
  BY <1>6 DEF Init, Places
<1>11. journal = {} /\ inflight = {}
  BY DEF Init
<1>. QED  BY <1>3, <1>4, <1>5, <1>7, <1>8, <1>9, <1>10, <1>11 DEF TypeOK

LEMMA EndCycleTypes ==
  ASSUME EndCycle
  PROVE  /\ pc' \in Places /\ cur' \in Orders /\ report' \in Reports
         /\ mem' \in RiskStates /\ blocked' \in BOOLEAN
<1>1. 1 \in Orders
  BY ConstantsFacts DEF Orders
<1>2. pc' \in Places /\ cur' \in Orders
  BY <1>1 DEF EndCycle, Places
<1>3. report' \in Reports /\ mem' \in RiskStates /\ blocked' \in BOOLEAN
  BY InitialTypes DEF EndCycle
<1>. QED  BY <1>2, <1>3

LEMMA ReturnAndSaveTypes ==
  ASSUME TypeOK, NEW state \in RiskStates, ReturnAndSave(state),
         exch' \in [Orders -> ExchangeOrders], acct' \in Accounts, inflight' \subseteq Orders
  PROVE  TypeOK'
  BY EndCycleTypes DEF ReturnAndSave, TypeOK, store

LEMMA ErrorIsCounted ==
  ASSUME TypeOK  PROVE [mem EXCEPT !.errors = @ + 1] \in RiskStates
  BY DEF TypeOK, RiskStates

\* Every step of run_testnet_cycle and of its environment keeps the types.
LEMMA TypeStep == TypeOK /\ [Next]_vars => TypeOK'
<1> SUFFICES ASSUME TypeOK, [Next]_vars  PROVE TypeOK'
  OBVIOUS
<1>. USE DEF store, exchange
<1>1. CASE BeginCycle
  BY <1>1 DEF BeginCycle, TypeOK, Places
<1>2. CASE SeedPortfolio
  <2>1. acct.quote \in Int /\ acct.base \in Int
    BY DEF TypeOK, Accounts
  <2>2. InitialPortfolio(acct.quote) \in Portfolios
    BY <2>1, InitialTypes
  <2>. QED  BY <1>2, <2>1, <2>2 DEF SeedPortfolio, TypeOK, Places
<1>3. CASE RefuseColdStart
  BY <1>3, EndCycleTypes DEF RefuseColdStart, TypeOK
<1>4. CASE QueryPending
  <2>1. PICK o \in Submitted :
          /\ Known(o) \/ NotFound(o)
          /\ cur' = o
          /\ report' = IF NotFound(o) THEN NeverSubmitted(o) ELSE Queried(o)
    BY <1>4 DEF QueryPending
  <2>2. o \in Orders /\ rows[o] \in Rows /\ exch[o] \in ExchangeOrders
    BY DEF TypeOK, Submitted
  <2>3. NeverSubmitted(o) \in Reports
    BY <2>2, InitialTypes DEF NeverSubmitted, Reports, Rows, Statuses, Terminal
  <2>4. Queried(o) \in Reports
    BY <2>2, InitialTypes DEF Queried, Reports, ExchangeOrders
  <2>. QED  BY <1>4, <2>1, <2>2, <2>3, <2>4 DEF QueryPending, TypeOK, Places
<1>5. CASE BlockOnUnknown
  BY <1>5, EndCycleTypes DEF BlockOnUnknown, TypeOK
<1>6. CASE NoPendingLeft
  BY <1>6 DEF NoPendingLeft, TypeOK, Places
<1>7. CASE SettlePending
  BY <1>7, ApplyReportTypes DEF SettlePending, TypeOK, Places
<1>8. CASE JournalSettled
  <2>1. journal' \subseteq (Statuses \cup {"ORDER_SUBMITTED"}) \X Orders
    BY <1>8 DEF JournalSettled, TypeOK, Reports
  <2>2. CASE rows[cur].status = "RESOLVED"
    BY <1>8, <2>1, <2>2 DEF JournalSettled, TypeOK, Places
  <2>3. CASE rows[cur].status # "RESOLVED"
    BY <1>8, <2>1, <2>3, EndCycleTypes DEF JournalSettled, TypeOK
  <2>. QED  BY <2>2, <2>3
<1>9. CASE CheckBalances
  <2>1. Day(candle) \in Int
    BY DayIsInt DEF TypeOK
  <2>2. LoadedRisk(Day(candle)) \in RiskStates
    BY <2>1 DEF LoadedRisk, RiskStates, TypeOK
  <2>3. blocked' \in BOOLEAN
    BY <1>9 DEF CheckBalances, BalancesMatch
  <2>. QED  BY <1>9, <2>2, <2>3 DEF CheckBalances, TypeOK, Places
<1>10. CASE NoOrderThisCycle
  <2>1. mem \in RiskStates
    BY DEF TypeOK
  <2>2. exch' \in [Orders -> ExchangeOrders] /\ acct' \in Accounts /\ inflight' \subseteq Orders
    BY <1>10 DEF NoOrderThisCycle, TypeOK
  <2>. QED  BY <1>10, <2>1, <2>2, ReturnAndSaveTypes DEF NoOrderThisCycle
<1>11. CASE ApproveExit
  BY <1>11 DEF ApproveExit, TypeOK, Places
<1>12. CASE CreatePending
  <2>1. SellQuantity(portfolio.base) \in Int
    <3>1. portfolio.base \in Int /\ StepSize \in Nat \ {0}
      BY ConstantsFacts DEF TypeOK, Portfolios
    <3>2. portfolio.base \div StepSize \in Int
      BY <3>1, DivIsInt
    <3>. QED  BY <3>1, <3>2 DEF SellQuantity
  <2>2. [NoRow EXCEPT !.status = "SUBMITTED", !.qty = SellQuantity(portfolio.base)] \in Rows
    BY <2>1, InitialTypes DEF Rows
  <2>3. rows' \in [Orders -> Rows]
    BY <1>12, <2>2 DEF CreatePending, TypeOK
  <2>. QED  BY <1>12, <2>3 DEF CreatePending, TypeOK, Places
<1>13. CASE JournalSubmitted
  BY <1>13 DEF JournalSubmitted, TypeOK, Places
<1>14. CASE PostAnswered
  <2>1. cur \in Orders /\ Accept(cur, TRUE)
    BY <1>14 DEF PostAnswered, TypeOK
  <2>2. exch' \in [Orders -> ExchangeOrders] /\ acct' \in Accounts /\ report' \in Reports
    BY <2>1, AcceptTypes
  <2>. QED  BY <1>14, <2>2 DEF PostAnswered, TypeOK, Places
<1>15. CASE PostUnanswered
  <2>1. cur \in Orders /\ Unanswered(cur)
    BY <1>15 DEF PostUnanswered, TypeOK
  <2>2. exch' \in [Orders -> ExchangeOrders] /\ acct' \in Accounts /\ inflight' \subseteq Orders
    BY <2>1, UnansweredTypes
  <2>. QED  BY <1>15, <2>2 DEF PostUnanswered, TypeOK, Places
<1>16. CASE PostFails
  <2>1. cur \in Orders /\ Unanswered(cur)
    BY <1>16 DEF PostFails, TypeOK
  <2>2. exch' \in [Orders -> ExchangeOrders] /\ acct' \in Accounts /\ inflight' \subseteq Orders
    BY <2>1, UnansweredTypes
  <2>. QED  BY <1>16, <2>2, ErrorIsCounted, ReturnAndSaveTypes DEF PostFails, ReturnWithApiError
<1>17. CASE QuerySubmitted
  <2>1. Queried(cur) \in Reports
    BY InitialTypes DEF Queried, Reports, ExchangeOrders, TypeOK
  <2>. QED  BY <1>17, <2>1 DEF QuerySubmitted, TypeOK, Places
<1>18. CASE QueryNotFound
  BY <1>18 DEF QueryNotFound, TypeOK, Places
<1>19. CASE QueryUnknown
  <2>1. exch' \in [Orders -> ExchangeOrders] /\ acct' \in Accounts /\ inflight' \subseteq Orders
    BY <1>19 DEF QueryUnknown, TypeOK
  <2>. QED  BY <1>19, <2>1, ErrorIsCounted, ReturnAndSaveTypes DEF QueryUnknown, ReturnWithApiError
<1>20. CASE BookOrder
  <2>1. mem' \in RiskStates
    <3>. DEFINE counted == rows'[cur].exec > 0 \/ rows'[cur].status = "RESOLVED"
                lost == portfolio'.pnl - portfolio.pnl < 0
                trades == IF counted THEN mem.trades + 1 ELSE mem.trades
                cooldown == IF lost THEN Cooldown ELSE mem.cooldown
    <3>1. trades \in Nat /\ cooldown \in Nat
      <4>. HIDE DEF counted, lost
      <4>. QED  BY ConstantsFacts DEF TypeOK, RiskStates
    <3>2. mem' = [mem EXCEPT !.errors = 0, !.trades = trades, !.cooldown = cooldown]
      BY <1>20, Zenon DEF BookOrder, RiskAfterOrder
    <3>. HIDE DEF trades, cooldown
    <3>. QED  BY <3>1, <3>2 DEF RiskStates, TypeOK
  <2>. QED  BY <1>20, <2>1, ApplyReportTypes DEF BookOrder, TypeOK, Places
<1>21. CASE JournalBooked
  <2>1. journal' \subseteq (Statuses \cup {"ORDER_SUBMITTED"}) \X Orders
    BY <1>21 DEF JournalBooked, TypeOK, Reports
  <2>. QED  BY <1>21, <2>1 DEF JournalBooked, TypeOK, Places
<1>22. CASE SaveRisk
  <2>1. mem \in RiskStates
    BY DEF TypeOK
  <2>2. exch' \in [Orders -> ExchangeOrders] /\ acct' \in Accounts /\ inflight' \subseteq Orders
    BY <1>22 DEF SaveRisk, TypeOK
  <2>. QED  BY <1>22, <2>1, <2>2, ReturnAndSaveTypes DEF SaveRisk
<1>23. CASE Crash
  BY <1>23, EndCycleTypes DEF Crash, TypeOK
<1>24. CASE ToggleKillSwitch
  BY <1>24 DEF ToggleKillSwitch, TypeOK
<1>25. ASSUME NEW o \in Orders, ExchangeFills(o)  PROVE TypeOK'
  <2>1. PICK n \in Portions(rows[o].qty - exch[o].exec) \ {0}, p \in Prices,
           asset \in FeeAssets \ {"base"}, d \in FeeDens :
          Execute(o, exch[o], n, p, asset, d,
               IF exch[o].exec + n = rows[o].qty THEN "FILLED" ELSE "PARTIALLY_FILLED",
               exch[o].total)
    BY <1>25 DEF ExchangeFills
  <2>. DEFINE status == IF exch[o].exec + n = rows[o].qty THEN "FILLED" ELSE "PARTIALLY_FILLED"
  <2>2. exch[o] \in ExchangeOrders /\ n \in Int /\ exch[o].total \in Int
    BY DEF TypeOK, ExchangeOrders, Portions
  <2>3. status \in Statuses
    BY DEF Statuses, Terminal, Open
  <2>4. exch' \in [Orders -> ExchangeOrders] /\ acct' \in Accounts
    <3>1. Execute(o, exch[o], n, p, asset, d, status, exch[o].total)
      BY <2>1
    <3>. HIDE DEF status
    <3>. QED  BY <2>2, <2>3, <3>1, ExecuteTypes
  <2>. QED  BY <1>25, <2>4 DEF ExchangeFills, UnchangedProgram, TypeOK
<1>26. ASSUME NEW o \in Orders, ExchangeCloses(o)  PROVE TypeOK'
  <2>1. exch' \in [Orders -> ExchangeOrders]
    BY <1>26 DEF ExchangeCloses, TypeOK, ExchangeOrders, Statuses, Terminal
  <2>. QED  BY <1>26, <2>1 DEF ExchangeCloses, UnchangedProgram, TypeOK
<1>27. ASSUME NEW o \in Orders, LateArrival(o)  PROVE TypeOK'
  <2>1. exch' \in [Orders -> ExchangeOrders] /\ acct' \in Accounts
    BY <1>27, AcceptTypes DEF LateArrival, TypeOK
  <2>. QED  BY <1>27, <2>1 DEF LateArrival, UnchangedProgram, TypeOK
<1>28. CASE UNCHANGED vars
  BY <1>28 DEF vars, TypeOK
<1>. QED
  BY <1>1, <1>2, <1>3, <1>4, <1>5, <1>6, <1>7, <1>8, <1>9, <1>10, <1>11, <1>12, <1>13, <1>14,
     <1>15, <1>16, <1>17, <1>18, <1>19, <1>20, <1>21, <1>22, <1>23, <1>24, <1>25, <1>26, <1>27,
     <1>28 DEF Next, Cycle, Environment

\* The persisted rows, the risk state, the exchange's record and what a running
\* cycle holds in memory always have their types: no report the store accepts
\* and no crash leaves a malformed row behind.
THEOREM TypeCorrect == Spec => []TypeOK
  BY TypeInit, TypeStep, PTL DEF Spec

-----------------------------------------------------------------------------
(***************************************************************************)
(* Write-ahead: no order at the exchange without its row.  It holds for    *)
(* every delivery and every crash, and is inductive once it says where the *)
(* cycle has an order in hand.                                             *)
(***************************************************************************)

InHand == {"settle", "settled", "announce", "post", "query", "retry", "book"}

RecordedInv ==
  /\ TypeOK
  /\ NoUnrecordedOrder
  /\ pc \in InHand => rows[cur].status # "NONE"

\* The store never forgets a row.
RowsKept == \A o \in Orders : rows[o].status # "NONE" => rows'[o].status # "NONE"

\* What a step does to the exchange it does to an order that is recorded.
OnlyRecordedTouched ==
  \A o \in Orders :
    /\ exch'[o] # exch[o] => rows[o].status # "NONE"
    /\ o \in inflight' \ inflight => rows[o].status # "NONE"

LEMMA RecordedKept ==
  ASSUME RecordedInv, RowsKept, OnlyRecordedTouched
  PROVE  NoUnrecordedOrder'
<1> SUFFICES ASSUME NEW o \in Orders, exch'[o].status # "NONE" \/ o \in inflight'
             PROVE  rows'[o].status # "NONE"
  BY DEF NoUnrecordedOrder
<1>1. rows[o].status # "NONE"
  BY DEF RecordedInv, NoUnrecordedOrder, OnlyRecordedTouched
<1>. QED  BY <1>1 DEF RowsKept

LEMMA AcceptTouches ==
  ASSUME TypeOK, NEW o \in Orders, NEW answer \in BOOLEAN, Accept(o, answer)
  PROVE  \A q \in Orders : q # o => exch'[q] = exch[q]
  BY DEF Accept, Execute, TypeOK

LEMMA UnansweredTouches ==
  ASSUME TypeOK, NEW o \in Orders, Unanswered(o)
  PROVE  /\ \A q \in Orders : q # o => exch'[q] = exch[q]
         /\ inflight' \subseteq inflight \cup {o}
<1>1. CASE UNCHANGED exchange
  BY <1>1 DEF exchange
<1>2. CASE Accept(o, FALSE) /\ UNCHANGED inflight
  BY <1>2, AcceptTouches
<1>3. CASE inflight' = inflight \cup {o} /\ UNCHANGED <<exch, acct>>
  BY <1>3
<1>. QED  BY <1>1, <1>2, <1>3 DEF Unanswered

LEMMA ApplyReportKeepsRows ==
  ASSUME TypeOK, ApplyReport
  PROVE  /\ \A q \in Orders : q # cur => rows'[q] = rows[q]
         /\ rows'[cur] = NewRow(report, rows[cur])
         /\ rows'[cur].status = IF report.status \in Terminal THEN "RESOLVED" ELSE "SUBMITTED"
         /\ rows'[cur].exec = IF HasNewFill(report, rows[cur]) THEN report.exec ELSE rows[cur].exec
         /\ rows'[cur].side = rows[cur].side /\ rows'[cur].qty = rows[cur].qty
<1>1. cur \in Orders /\ rows \in [Orders -> Rows] /\ rows[cur] \in Rows
  BY DEF TypeOK
<1>2. rows' = [rows EXCEPT ![cur] = NewRow(report, rows[cur])]
  BY DEF ApplyReport
<1>3. rows'[cur] = NewRow(report, rows[cur])
  BY <1>1, <1>2
<1>. QED  BY <1>1, <1>2, <1>3 DEF NewRow, Rows

LEMMA RecordedInit == Init => RecordedInv
<1> SUFFICES ASSUME Init  PROVE RecordedInv
  OBVIOUS
<1>1. TypeOK
  BY TypeInit
<1>2. NoUnrecordedOrder
  BY DEF Init, NoUnrecordedOrder, NoOrder
<1>3. pc \notin InHand
  BY DEF Init, InHand
<1>. QED  BY <1>1, <1>2, <1>3 DEF RecordedInv

LEMMA RecordedStep == RecordedInv /\ [Next]_vars => RecordedInv'
<1> SUFFICES ASSUME RecordedInv, [Next]_vars  PROVE RecordedInv'
  OBVIOUS
<1>. USE DEF store, exchange
<1>0. TypeOK /\ TypeOK' /\ cur \in Orders
  BY TypeStep DEF RecordedInv, TypeOK
<1>1. ASSUME rows' = rows, exch' = exch, inflight' \subseteq inflight,
             pc' \in InHand => rows[cur'].status # "NONE"
      PROVE  RecordedInv'
  BY <1>0, <1>1 DEF RecordedInv, NoUnrecordedOrder
<1>2. ASSUME RowsKept, OnlyRecordedTouched, pc' \in InHand => rows'[cur'].status # "NONE"
      PROVE  RecordedInv'
  BY <1>0, <1>2, RecordedKept DEF RecordedInv
<1>3. CASE UNCHANGED vars
  BY <1>1, <1>3 DEF vars, RecordedInv
<1>4. ASSUME NEW o \in Orders, ExchangeFills(o) \/ ExchangeCloses(o) \/ LateArrival(o)
      PROVE  RecordedInv'
  <2>1. rows[o].status # "NONE"
    BY <1>4 DEF ExchangeFills, ExchangeCloses, LateArrival, RecordedInv, NoUnrecordedOrder, Open
  <2>2. rows' = rows /\ pc' = pc /\ cur' = cur
    BY <1>4 DEF ExchangeFills, ExchangeCloses, LateArrival, UnchangedProgram
  <2>3. \A q \in Orders : q # o => exch'[q] = exch[q]
    <3>1. CASE ExchangeFills(o)
      BY <1>0, <3>1 DEF ExchangeFills, Execute, TypeOK
    <3>2. CASE ExchangeCloses(o)
      BY <1>0, <3>2 DEF ExchangeCloses, TypeOK
    <3>3. CASE LateArrival(o)
      BY <1>0, <3>3, AcceptTouches DEF LateArrival
    <3>. QED  BY <1>4, <3>1, <3>2, <3>3
  <2>4. inflight' \subseteq inflight
    BY <1>4 DEF ExchangeFills, ExchangeCloses, LateArrival
  <2>5. RowsKept /\ OnlyRecordedTouched
    BY <2>1, <2>2, <2>3, <2>4 DEF RowsKept, OnlyRecordedTouched
  <2>. QED  BY <1>2, <2>2, <2>5 DEF RecordedInv
<1>5. CASE BeginCycle \/ SeedPortfolio \/ NoPendingLeft \/ CheckBalances \/ ApproveExit
  BY <1>1, <1>5 DEF BeginCycle, SeedPortfolio, NoPendingLeft, CheckBalances, ApproveExit, InHand
<1>6. CASE RefuseColdStart \/ BlockOnUnknown \/ NoOrderThisCycle \/ QueryUnknown \/ SaveRisk \/ Crash
  BY <1>1, <1>6 DEF RefuseColdStart, BlockOnUnknown, NoOrderThisCycle, QueryUnknown, SaveRisk,
                    Crash, ReturnAndSave, ReturnWithApiError, EndCycle, InHand
<1>7. CASE QueryPending
  BY <1>1, <1>7 DEF QueryPending, Submitted
<1>8. CASE SettlePending \/ BookOrder
  <2>1. ApplyReport /\ cur' = cur /\ exch' = exch /\ inflight' = inflight
    BY <1>8 DEF SettlePending, BookOrder
  <2>2. rows'[cur].status # "NONE" /\ RowsKept
    BY <1>0, <2>1, ApplyReportKeepsRows DEF RowsKept
  <2>3. OnlyRecordedTouched
    BY <2>1 DEF OnlyRecordedTouched
  <2>. QED  BY <1>2, <2>1, <2>2, <2>3
<1>9. CASE JournalSettled \/ JournalBooked
  <2>1. rows' = rows /\ exch' = exch /\ inflight' = inflight
    BY <1>9 DEF JournalSettled, JournalBooked
  <2>2. pc' \notin InHand
    BY <1>9 DEF JournalSettled, JournalBooked, EndCycle, InHand
  <2>. QED  BY <1>1, <2>1, <2>2
<1>10. CASE CreatePending
  <2>1. exch' = exch /\ inflight' = inflight /\ cur' = cur
    BY <1>10 DEF CreatePending
  <2>2. rows'[cur].status # "NONE" /\ RowsKept
    BY <1>0, <1>10 DEF CreatePending, RowsKept, TypeOK, Rows, NoRow
  <2>3. OnlyRecordedTouched
    BY <2>1 DEF OnlyRecordedTouched
  <2>. QED  BY <1>2, <2>1, <2>2, <2>3
<1>11. CASE JournalSubmitted \/ QuerySubmitted \/ QueryNotFound \/ ToggleKillSwitch
  BY <1>1, <1>11 DEF JournalSubmitted, QuerySubmitted, QueryNotFound, ToggleKillSwitch,
                     RecordedInv, InHand
<1>12. CASE PostAnswered \/ PostUnanswered \/ PostFails
  <2>1. rows[cur].status # "NONE" /\ rows' = rows
    BY <1>12 DEF PostAnswered, PostUnanswered, PostFails, ReturnWithApiError, ReturnAndSave,
                 RecordedInv, InHand
  <2>2. \A q \in Orders : q # cur => exch'[q] = exch[q]
    BY <1>0, <1>12, AcceptTouches, UnansweredTouches DEF PostAnswered, PostUnanswered, PostFails
  <2>3. inflight' \subseteq inflight \cup {cur}
    BY <1>0, <1>12, UnansweredTouches DEF PostAnswered, PostUnanswered, PostFails
  <2>4. RowsKept /\ OnlyRecordedTouched
    BY <2>1, <2>2, <2>3 DEF RowsKept, OnlyRecordedTouched
  <2>5. pc' \in InHand => cur' = cur
    BY <1>12 DEF PostAnswered, PostUnanswered, PostFails, ReturnWithApiError, ReturnAndSave,
                 EndCycle, InHand
  <2>. QED  BY <1>2, <2>1, <2>4, <2>5
<1>. QED
  BY <1>3, <1>4, <1>5, <1>6, <1>7, <1>8, <1>9, <1>10, <1>11, <1>12 DEF Next, Cycle, Environment

\* create_pending commits before place_market_order sends: whatever is lost,
\* late or crashed, an order the exchange holds can be found from pending_orders.
THEOREM OrdersAreRecorded == Spec => []NoUnrecordedOrder
<1>1. RecordedInv => NoUnrecordedOrder
  BY DEF RecordedInv
<1>. QED  BY RecordedInit, RecordedStep, <1>1, PTL DEF Spec

-----------------------------------------------------------------------------
(***************************************************************************)
(* A closed row is fully booked, when no request arrives after it was      *)
(* given up on.  ResolvedFullyBooked alone is not inductive: it depends on *)
(* the one order that may be unresolved, on that order being unknown to    *)
(* the exchange whenever the cycle is about to submit it, and on the       *)
(* answer in hand being no staler than a final status allows.              *)
(***************************************************************************)

\* One order, its row and the exchange's record of it.
OrderInv(o) ==
  /\ rows[o].side = "SELL"
  /\ exch[o].exec = exch[o].total
  /\ 0 <= rows[o].exec /\ rows[o].exec <= exch[o].total
  /\ rows[o].status = "NONE" => exch[o].status = "NONE"
  /\ exch[o].status = "NONE" => exch[o].total = 0
  /\ rows[o].status = "RESOLVED" =>
       exch[o].status \notin Open /\ rows[o].exec = exch[o].total

\* The answer in hand: behind the exchange at most while the order is open.
AnswerInv ==
  /\ report.exec <= exch[cur].total
  /\ report.status \in Terminal =>
       exch[cur].status \notin Open /\ report.exec = exch[cur].total

Unresolved == {"settle", "announce", "post", "query", "retry", "book"}

ResolvedInv ==
  /\ TypeOK
  /\ inflight = {}
  /\ \A o, q \in Submitted : o = q
  /\ \A o \in Orders : OrderInv(o)
  /\ pc \in {"balances", "signal", "create"} => Submitted = {}
  /\ pc = "create" => rows[cur].status = "NONE"
  /\ pc \in Unresolved => rows[cur].status = "SUBMITTED"
  /\ pc \in {"announce", "post", "retry"} => exch[cur].status = "NONE"
  /\ pc \in {"settle", "book"} => AnswerInv

LEMMA OrderInvKept ==
  ASSUME NEW o \in Orders, OrderInv(o), rows'[o] = rows[o], exch'[o] = exch[o]
  PROVE  OrderInv(o)'
  BY DEF OrderInv

\* What an accepted submission of an order unknown to the exchange does.
LEMMA AcceptEffect ==
  ASSUME TypeOK, NEW o \in Orders, exch[o].total = 0, NEW answer \in BOOLEAN, Accept(o, answer)
  PROVE  /\ \A q \in Orders : q # o => exch'[q] = exch[q]
         /\ exch'[o].total \in Nat /\ exch'[o].exec = exch'[o].total
         /\ exch'[o].status # "NONE"
         /\ answer => report'.exec = exch'[o].exec /\ report'.status = exch'[o].status
         /\ "base" \notin FeeAssets => acct'.base = acct.base - exch'[o].total
<1>0. PICK n \in Portions(rows[o].qty), p \in Prices, asset \in FeeAssets, d \in FeeDens :
        \E status \in PlacedStatuses(n, rows[o].qty) :
          /\ asset = "base" => n < acct.base
          /\ Execute(o, NoOrder, n, p, asset, d, status, exch[o].total)
          /\ answer => report' = Answer(o, TRUE,
                         IF asset = "quote" THEN Fee(n * p, d) ELSE 0,
                         IF asset = "base" /\ n > 0 THEN 1 ELSE 0)
  BY DEF Accept
<1>1. PICK status \in PlacedStatuses(n, rows[o].qty) :
        /\ Execute(o, NoOrder, n, p, asset, d, status, exch[o].total)
        /\ answer => report' = Answer(o, TRUE,
                        IF asset = "quote" THEN Fee(n * p, d) ELSE 0,
                        IF asset = "base" /\ n > 0 THEN 1 ELSE 0)
  BY <1>0
<1>2. n \in Nat
  BY DEF Portions
<1>3. status # "NONE"
  BY OddStatusAssumption DEF PlacedStatuses
<1>4. exch' = [exch EXCEPT ![o] = [status |-> status, exec |-> 0 + n,
                                  quote |-> 0 + n * p, total |-> 0 + n]]
  BY <1>1 DEF Execute, NoOrder
<1>5. exch'[o] = [status |-> status, exec |-> 0 + n, quote |-> 0 + n * p, total |-> 0 + n]
  BY <1>4 DEF TypeOK
<1>6. exch'[o].status = status /\ exch'[o].exec = n /\ exch'[o].total = n
  BY <1>2, <1>5
<1>7. answer => report'.exec = exch'[o].exec /\ report'.status = exch'[o].status
  BY <1>1 DEF Answer
<1>8. "base" \notin FeeAssets => acct'.base = acct.base - n
  BY <1>1, <1>2 DEF Execute, TypeOK, Accounts
<1>9. \A q \in Orders : q # o => exch'[q] = exch[q]
  BY <1>4 DEF TypeOK
<1>. QED  BY <1>2, <1>3, <1>6, <1>7, <1>8, <1>9

LEMMA AfterSellBase ==
  ASSUME NEW p \in Portfolios, NEW qty, NEW notional, NEW fee, NEW estimated \in BOOLEAN
  PROVE  AfterSell(p, qty, notional, fee, estimated).base = p.base - qty
<1> DEFINE soldCost == (p.cost * qty) \div p.base
           closed == qty = p.base
           quote == p.quote + notional - fee
           base == p.base - qty
           side == IF closed THEN "FLAT" ELSE "LONG"
           cost == IF closed THEN 0 ELSE p.cost - soldCost
           pnl == p.pnl + notional - fee - soldCost
           flag == ~closed /\ (p.estimated \/ estimated)
           sold == [p EXCEPT !.quote = quote, !.base = base, !.side = side,
                             !.cost = cost, !.pnl = pnl, !.estimated = flag]
<1>1. AfterSell(p, qty, notional, fee, estimated) = sold
  BY Zenon DEF AfterSell
<1>2. sold.base = base
  <2>. HIDE DEF quote, base, side, cost, pnl, flag
  <2>. QED  BY DEF Portfolios
<1>. HIDE DEF sold
<1>. QED  BY <1>1, <1>2

\* What apply_order_result_atomically does to the order in hand and the books.
LEMMA ApplyEffect ==
  ASSUME ResolvedInv, pc \in {"settle", "book"}, ApplyReport, exch' = exch, cur' = cur
  PROVE  /\ OrderInv(cur)'
         /\ rows'[cur].status \in {"SUBMITTED", "RESOLVED"}
         /\ rows'[cur].status = "RESOLVED" => rows'[cur].exec = exch[cur].total
         /\ portfolio'.base = portfolio.base - (rows'[cur].exec - rows[cur].exec)
<1>1. TypeOK /\ AnswerInv /\ OrderInv(cur) /\ cur \in Orders
  BY DEF ResolvedInv, TypeOK
<1>2. /\ report.exec \in Int /\ rows[cur].exec \in Int /\ exch[cur].total \in Int
      /\ portfolio \in Portfolios /\ portfolio.base \in Int
  BY <1>1 DEF TypeOK, Reports, Rows, ExchangeOrders, Portfolios
<1>3. /\ rows'[cur].status = IF report.status \in Terminal THEN "RESOLVED" ELSE "SUBMITTED"
      /\ rows'[cur].exec = IF HasNewFill(report, rows[cur]) THEN report.exec ELSE rows[cur].exec
      /\ rows'[cur].side = "SELL"
  BY <1>1, ApplyReportKeepsRows DEF OrderInv
<1>4. report.exec >= rows[cur].exec
  BY DEF ApplyReport, Accepted, Consistent
<1>5. /\ 0 <= rows'[cur].exec /\ rows'[cur].exec <= exch[cur].total
      /\ report.status \in Terminal => rows'[cur].exec = report.exec
  BY <1>1, <1>2, <1>3, <1>4 DEF OrderInv, AnswerInv, HasNewFill, Terminal
<1>6. rows'[cur].status # "NONE"
  BY <1>3
<1>7. OrderInv(cur)'
  BY <1>1, <1>3, <1>5, <1>6 DEF OrderInv, AnswerInv
<1>8. portfolio'.base = portfolio.base - (rows'[cur].exec - rows[cur].exec)
  <2>1. CASE ~HasNewFill(report, rows[cur])
    BY <1>2, <1>3, <2>1 DEF ApplyReport, NewPortfolio
  <2>2. CASE HasNewFill(report, rows[cur])
    <3>1. portfolio' = AfterSell(portfolio, report.exec - rows[cur].exec,
                                 report.quote - rows[cur].quote,
                                 CommissionQuote(report, report.quote - rows[cur].quote),
                                 ~report.fills)
      BY <1>1, <2>2 DEF ApplyReport, NewPortfolio, OrderInv
    <3>. DEFINE qty == report.exec - rows[cur].exec
                notional == report.quote - rows[cur].quote
    <3>2. portfolio'.base = portfolio.base - qty
      <4>0. (~report.fills) \in BOOLEAN
        BY <1>1 DEF TypeOK, Reports
      <4>. HIDE DEF qty, notional
      <4>1. AfterSell(portfolio, qty, notional, CommissionQuote(report, notional),
                      ~report.fills).base = portfolio.base - qty
        BY <1>2, <4>0, AfterSellBase
      <4>. QED  BY <3>1, <4>1 DEF qty, notional
    <3>. QED  BY <1>3, <2>2, <3>2
  <2>. QED  BY <2>1, <2>2
<1>. QED  BY <1>1, <1>3, <1>5, <1>7, <1>8 DEF AnswerInv

LEMMA ResolvedInit == Init => ResolvedInv
<1> SUFFICES ASSUME Init  PROVE ResolvedInv
  OBVIOUS
<1>1. TypeOK
  BY TypeInit
<1>2. \A o \in Orders : rows[o] = NoRow /\ exch[o] = NoOrder
  BY DEF Init
<1>3. Submitted = {}
  BY <1>2 DEF Submitted, NoRow
<1>4. \A o \in Orders : OrderInv(o)
  BY <1>2 DEF OrderInv, NoRow, NoOrder
<1>5. pc = "idle" /\ inflight = {}
  BY DEF Init
<1>. QED  BY <1>1, <1>3, <1>4, <1>5 DEF ResolvedInv, Unresolved

\* A step that leaves rows and exchange alone only has to keep what the new
\* place of the cycle claims.
LEMMA ResolvedQuiet ==
  ASSUME ResolvedInv, TypeOK', rows' = rows, exch' = exch, inflight' = inflight,
         pc' \in {"balances", "signal", "create"} => Submitted = {},
         pc' = "create" => rows[cur'].status = "NONE",
         pc' \in Unresolved => rows[cur'].status = "SUBMITTED",
         pc' \in {"announce", "post", "retry"} => exch[cur'].status = "NONE",
         pc' \in {"settle", "book"} => AnswerInv'
  PROVE  ResolvedInv'
<1>1. \A o \in Orders : OrderInv(o)'
  BY OrderInvKept DEF ResolvedInv
<1>2. Submitted' = Submitted
  BY DEF Submitted
<1>. QED  BY <1>1, <1>2 DEF ResolvedInv

\* The end of a cycle claims nothing.
LEMMA ResolvedEnd ==
  ASSUME ResolvedInv, TypeOK', EndCycle, rows' = rows, exch' = exch, inflight' = inflight
  PROVE  ResolvedInv'
  BY ResolvedQuiet DEF EndCycle, Unresolved

\* Nothing is sent for the order in hand but in its first submission and its
\* retry, and neither leaves it resolved or claims more than it did.
LEMMA ResolvedPosted ==
  ASSUME ResolvedInv, TypeOK', rows' = rows, inflight' = inflight,
         rows[cur].status = "SUBMITTED",
         \A q \in Orders : q # cur => exch'[q] = exch[q],
         exch'[cur] = exch[cur] \/
           (/\ exch[cur].total = 0
            /\ exch'[cur].total \in Nat /\ exch'[cur].exec = exch'[cur].total
            /\ exch'[cur].status # "NONE"),
         \/ pc' \in {"idle", "query"} /\ (pc' = "query" => cur' = cur)
         \/ pc' = "book" /\ cur' = cur /\ AnswerInv'
  PROVE  ResolvedInv'
<1>1. cur \in Orders
  BY DEF ResolvedInv, TypeOK
<1>2. ASSUME NEW o \in Orders  PROVE OrderInv(o)'
  <2>1. CASE exch'[o] = exch[o]
    BY <2>1, OrderInvKept DEF ResolvedInv
  <2>2. CASE o = cur /\ exch'[o] # exch[o]
    BY <1>1, <2>2 DEF ResolvedInv, OrderInv, TypeOK, Rows
  <2>. QED  BY <2>1, <2>2
<1>3. Submitted' = Submitted
  BY DEF Submitted
<1>. QED  BY <1>1, <1>2, <1>3 DEF ResolvedInv, Unresolved

\* With no late delivery, a request nobody answered was executed or is gone.
LEMMA UnansweredEffect ==
  ASSUME ~LateDelivery, TypeOK, NEW o \in Orders, exch[o].total = 0, Unanswered(o)
  PROVE  /\ inflight' = inflight
         /\ \A q \in Orders : q # o => exch'[q] = exch[q]
         /\ \/ exch'[o] = exch[o] /\ acct' = acct
            \/ /\ exch'[o].total \in Nat /\ exch'[o].exec = exch'[o].total
               /\ exch'[o].status # "NONE"
               /\ "base" \notin FeeAssets => acct'.base = acct.base - exch'[o].total
<1>1. CASE UNCHANGED exchange
  BY <1>1 DEF exchange
<1>2. CASE Accept(o, FALSE) /\ UNCHANGED inflight
  BY <1>2, AcceptEffect
<1>. QED  BY <1>1, <1>2 DEF Unanswered

\* Before a submission the exchange has executed nothing of the order.
LEMMA NothingExecuted ==
  ASSUME ResolvedInv, pc \in {"post", "retry"}
  PROVE  /\ cur \in Orders /\ rows[cur].status = "SUBMITTED"
         /\ exch[cur].total = 0 /\ rows[cur].exec = 0
  BY DEF ResolvedInv, OrderInv, Unresolved, TypeOK, Rows

LEMMA ResolvedFills ==
  ASSUME ResolvedInv, TypeOK', NEW o \in Orders, ExchangeFills(o)
  PROVE  /\ ResolvedInv'
         /\ rows[o].status = "SUBMITTED"
         /\ acct'.base = acct.base - (exch'[o].total - exch[o].total)
<1>1. PICK n \in Portions(rows[o].qty - exch[o].exec) \ {0}, p \in Prices,
           asset \in FeeAssets \ {"base"}, d \in FeeDens :
        Execute(o, exch[o], n, p, asset, d,
             IF exch[o].exec + n = rows[o].qty THEN "FILLED" ELSE "PARTIALLY_FILLED",
             exch[o].total)
  BY DEF ExchangeFills
<1>2. /\ n \in Nat /\ TypeOK /\ OrderInv(o) /\ exch[o].status \in Open
      /\ exch[o].total \in Int /\ exch[o].exec \in Int /\ acct.base \in Int
  BY DEF Portions, ResolvedInv, ExchangeFills, TypeOK, ExchangeOrders, Accounts
<1>3. rows[o].status = "SUBMITTED"
  BY <1>2 DEF OrderInv, Open, TypeOK, Rows
<1>4. /\ exch'[o].exec = exch[o].exec + n /\ exch'[o].total = exch[o].total + n
      /\ exch'[o].status \in {"FILLED", "PARTIALLY_FILLED"}
      /\ \A q \in Orders : q # o => exch'[q] = exch[q]
  BY <1>1, <1>2 DEF Execute, TypeOK
<1>5. acct'.base = acct.base - n
  BY <1>1, <1>2 DEF Execute, TypeOK, Accounts
<1>6. UnchangedProgram /\ inflight' = inflight
  BY DEF ExchangeFills
<1>7. rows' = rows /\ pc' = pc /\ cur' = cur /\ report' = report
  BY <1>6 DEF UnchangedProgram, store
<1>8. ASSUME NEW q \in Orders  PROVE OrderInv(q)'
  <2>1. CASE q # o
    BY <1>4, <1>7, <2>1, OrderInvKept DEF ResolvedInv
  <2>2. CASE q = o
    BY <1>2, <1>3, <1>4, <1>7, <2>2 DEF OrderInv, TypeOK, Rows
  <2>. QED  BY <2>1, <2>2
<1>9. pc \in {"settle", "book"} => AnswerInv'
  <2>1. CASE cur # o
    BY <1>4, <1>7, <2>1 DEF ResolvedInv, AnswerInv, TypeOK
  <2>2. CASE cur = o
    BY <1>2, <1>4, <1>7, <2>2 DEF ResolvedInv, AnswerInv, TypeOK, Reports
  <2>. QED  BY <2>1, <2>2
<1>10. pc \in {"announce", "post", "retry"} => exch'[cur].status = "NONE"
  BY <1>2, <1>4 DEF ResolvedInv, Open, TypeOK
<1>11. ResolvedInv'
  BY <1>6, <1>7, <1>8, <1>9, <1>10 DEF ResolvedInv, Submitted
<1>. QED  BY <1>2, <1>3, <1>4, <1>5, <1>11

LEMMA ResolvedCloses ==
  ASSUME ResolvedInv, TypeOK', NEW o \in Orders, ExchangeCloses(o)
  PROVE  /\ ResolvedInv'
         /\ \A q \in Orders : exch'[q].total = exch[q].total
<1>1. /\ TypeOK /\ OrderInv(o) /\ exch[o].status \in Open
  BY DEF ResolvedInv, ExchangeCloses
<1>2. rows[o].status = "SUBMITTED"
  BY <1>1 DEF OrderInv, Open, TypeOK, Rows
<1>3. /\ exch'[o].exec = exch[o].exec /\ exch'[o].total = exch[o].total
      /\ exch'[o].status = "EXPIRED"
      /\ \A q \in Orders : q # o => exch'[q] = exch[q]
  BY <1>1 DEF ExchangeCloses, TypeOK, ExchangeOrders
<1>4. UnchangedProgram /\ inflight' = inflight
  BY DEF ExchangeCloses
<1>5. rows' = rows /\ pc' = pc /\ cur' = cur /\ report' = report
  BY <1>4 DEF UnchangedProgram, store
<1>6. ASSUME NEW q \in Orders  PROVE OrderInv(q)'
  <2>1. CASE q # o
    BY <1>3, <1>5, <2>1, OrderInvKept DEF ResolvedInv
  <2>2. CASE q = o
    BY <1>1, <1>2, <1>3, <1>5, <2>2 DEF OrderInv
  <2>. QED  BY <2>1, <2>2
<1>7. pc \in {"settle", "book"} => AnswerInv'
  BY <1>1, <1>3, <1>5 DEF ResolvedInv, AnswerInv, TypeOK, Open
<1>8. pc \in {"announce", "post", "retry"} => exch'[cur].status = "NONE"
  BY <1>1, <1>3 DEF ResolvedInv, Open, TypeOK
<1>9. ResolvedInv'
  BY <1>4, <1>5, <1>6, <1>7, <1>8 DEF ResolvedInv, Submitted
<1>. QED  BY <1>3, <1>9

\* Applying the answer in hand, at startup or after the cycle's own submission.
LEMMA ResolvedApplied ==
  ASSUME ResolvedInv, TypeOK', SettlePending \/ BookOrder
  PROVE  ResolvedInv'
<1>. USE DEF exchange
<1>1. /\ pc \in {"settle", "book"} /\ ApplyReport /\ exch' = exch /\ inflight' = inflight
      /\ cur' = cur /\ pc' \in {"settled", "booked"}
  BY DEF SettlePending, BookOrder
<1>2. OrderInv(cur)' /\ rows'[cur].status \in {"SUBMITTED", "RESOLVED"}
  BY <1>1, ApplyEffect
<1>3. TypeOK /\ cur \in Orders /\ rows[cur].status = "SUBMITTED"
  BY <1>1 DEF ResolvedInv, TypeOK, Unresolved
<1>4. \A q \in Orders : q # cur => rows'[q] = rows[q]
  BY <1>1, <1>3, ApplyReportKeepsRows
<1>5. ASSUME NEW o \in Orders  PROVE OrderInv(o)'
  <2>1. CASE o = cur
    BY <1>1, <1>2, <2>1
  <2>2. CASE o # cur
    BY <1>1, <1>4, <2>2, OrderInvKept DEF ResolvedInv
  <2>. QED  BY <2>1, <2>2
<1>6. Submitted' \subseteq Submitted
  BY <1>3, <1>4 DEF Submitted
<1>7. \A o, q \in Submitted' : o = q
  BY <1>6 DEF ResolvedInv
<1>. QED  BY <1>1, <1>5, <1>7 DEF ResolvedInv, Unresolved

LEMMA ResolvedCreated ==
  ASSUME ResolvedInv, TypeOK', CreatePending
  PROVE  /\ ResolvedInv'
         /\ Submitted = {} /\ Submitted' = {cur}
         /\ rows'[cur].exec = 0 /\ exch'[cur].total = 0
<1>. USE DEF exchange
<1>1. /\ TypeOK /\ cur \in Orders /\ rows[cur].status = "NONE" /\ Submitted = {}
      /\ OrderInv(cur) /\ exch[cur].status = "NONE" /\ exch[cur].total = 0
  BY DEF ResolvedInv, CreatePending, TypeOK, OrderInv
<1>2. /\ exch' = exch /\ inflight' = inflight /\ cur' = cur /\ pc' = "announce"
      /\ rows' = [rows EXCEPT ![cur] = [NoRow EXCEPT !.status = "SUBMITTED",
                                                    !.qty = SellQuantity(portfolio.base)]]
  BY <1>1 DEF CreatePending, TypeOK
<1>3. /\ rows'[cur].status = "SUBMITTED" /\ rows'[cur].exec = 0 /\ rows'[cur].side = "SELL"
      /\ \A q \in Orders : q # cur => rows'[q] = rows[q]
  BY <1>1, <1>2 DEF NoRow, TypeOK
<1>4. Submitted' = {cur}
  BY <1>1, <1>3 DEF Submitted
<1>5. ASSUME NEW o \in Orders  PROVE OrderInv(o)'
  <2>1. CASE o = cur
    BY <1>1, <1>2, <1>3, <2>1 DEF OrderInv
  <2>2. CASE o # cur
    BY <1>2, <1>3, <2>2, OrderInvKept DEF ResolvedInv
  <2>. QED  BY <2>1, <2>2
<1>6. ResolvedInv'
  BY <1>1, <1>2, <1>3, <1>4, <1>5 DEF ResolvedInv, Unresolved
<1>. QED  BY <1>1, <1>2, <1>3, <1>4, <1>6

LEMMA ResolvedStep == ~LateDelivery /\ ResolvedInv /\ [Next]_vars => ResolvedInv'
<1> SUFFICES ASSUME ~LateDelivery, ResolvedInv, [Next]_vars  PROVE ResolvedInv'
  OBVIOUS
<1>. USE DEF store, exchange
<1>0. TypeOK /\ TypeOK' /\ cur \in Orders
  BY TypeStep DEF ResolvedInv, TypeOK
<1>1. CASE UNCHANGED vars
  BY <1>0, <1>1 DEF vars, ResolvedInv, Submitted, OrderInv, AnswerInv
<1>2. ASSUME NEW o \in Orders, ExchangeFills(o) \/ ExchangeCloses(o)  PROVE ResolvedInv'
  BY <1>0, <1>2, ResolvedFills, ResolvedCloses
<1>3. ASSUME NEW o \in Orders, LateArrival(o)  PROVE ResolvedInv'
  BY <1>3 DEF LateArrival, ResolvedInv
<1>4. CASE BeginCycle \/ SeedPortfolio
  BY <1>0, <1>4, ResolvedQuiet DEF BeginCycle, SeedPortfolio, Unresolved
<1>5. CASE RefuseColdStart \/ BlockOnUnknown \/ NoOrderThisCycle \/ QueryUnknown \/ SaveRisk \/ Crash
  BY <1>0, <1>5, ResolvedEnd DEF RefuseColdStart, BlockOnUnknown, NoOrderThisCycle, QueryUnknown,
       SaveRisk, Crash, ReturnAndSave, ReturnWithApiError
<1>6. CASE QueryPending
  <2>1. PICK o \in Submitted :
          /\ Known(o) \/ NotFound(o)
          /\ cur' = o
          /\ report' = IF NotFound(o) THEN NeverSubmitted(o) ELSE Queried(o)
    BY <1>6 DEF QueryPending
  <2>2. o \in Orders /\ OrderInv(o) /\ rows[o] \in Rows /\ exch[o] \in ExchangeOrders
    BY <1>0 DEF Submitted, ResolvedInv, TypeOK
  <2>3. AnswerInv'
    <3>1. CASE NotFound(o)
      BY <1>6, <2>1, <2>2, <3>1 DEF QueryPending, AnswerInv, NotFound, NeverSubmitted, NoReport,
           OrderInv, Open, Rows, ExchangeOrders
    <3>2. CASE ~NotFound(o)
      BY <1>6, <2>1, <2>2, <3>2 DEF QueryPending, AnswerInv, Queried, NoReport, OrderInv,
           Open, Terminal, ExchangeOrders
    <3>. QED  BY <3>1, <3>2
  <2>. QED  BY <1>0, <1>6, <2>1, <2>3, ResolvedQuiet DEF QueryPending, Unresolved, Submitted
<1>7. CASE NoPendingLeft
  BY <1>0, <1>7, ResolvedQuiet DEF NoPendingLeft, Unresolved
<1>8. CASE SettlePending \/ BookOrder
  BY <1>0, <1>8, ResolvedApplied
<1>9. CASE JournalSettled
  <2>1. CASE rows[cur].status = "RESOLVED"
    BY <1>0, <1>9, <2>1, ResolvedQuiet DEF JournalSettled, Unresolved
  <2>2. CASE rows[cur].status # "RESOLVED"
    BY <1>0, <1>9, <2>2, ResolvedEnd DEF JournalSettled
  <2>. QED  BY <2>1, <2>2
<1>10. CASE CheckBalances
  BY <1>0, <1>10, ResolvedQuiet DEF CheckBalances, Unresolved, ResolvedInv
<1>11. CASE ApproveExit
  <2>1. rows[candle].status = "NONE" /\ Submitted = {}
    BY <1>11 DEF ApproveExit, RiskApproves, Duplicate, ResolvedInv
  <2>. QED  BY <1>0, <1>11, <2>1, ResolvedQuiet DEF ApproveExit, Unresolved
<1>12. CASE CreatePending
  BY <1>0, <1>12, ResolvedCreated
<1>13. CASE JournalSubmitted
  BY <1>0, <1>13, ResolvedQuiet DEF JournalSubmitted, Unresolved, ResolvedInv
<1>14. CASE PostAnswered
  <2>1. /\ pc \in {"post", "retry"} /\ Accept(cur, TRUE) /\ rows' = rows /\ cur' = cur
        /\ inflight' = inflight /\ pc' = "book"
    BY <1>14 DEF PostAnswered
  <2>2. exch[cur].total = 0 /\ rows[cur].status = "SUBMITTED"
    BY <2>1, NothingExecuted
  <2>3. /\ \A q \in Orders : q # cur => exch'[q] = exch[q]
        /\ exch'[cur].total \in Nat /\ exch'[cur].exec = exch'[cur].total
        /\ exch'[cur].status # "NONE"
        /\ report'.exec = exch'[cur].exec /\ report'.status = exch'[cur].status
    BY <1>0, <2>1, <2>2, AcceptEffect
  <2>4. AnswerInv'
    BY <2>1, <2>3 DEF AnswerInv, Terminal, Open
  <2>. QED  BY <1>0, <2>1, <2>2, <2>3, <2>4, ResolvedPosted
<1>15. CASE PostUnanswered \/ PostFails
  <2>1. /\ pc \in {"post", "retry"} /\ Unanswered(cur) /\ rows' = rows
        /\ pc' \in {"idle", "query"} /\ (pc' = "query" => cur' = cur)
    BY <1>15 DEF PostUnanswered, PostFails, ReturnWithApiError, ReturnAndSave, EndCycle
  <2>2. exch[cur].total = 0 /\ rows[cur].status = "SUBMITTED"
    BY <2>1, NothingExecuted
  <2>3. /\ inflight' = inflight
        /\ \A q \in Orders : q # cur => exch'[q] = exch[q]
        /\ \/ exch'[cur] = exch[cur]
           \/ /\ exch'[cur].total \in Nat /\ exch'[cur].exec = exch'[cur].total
              /\ exch'[cur].status # "NONE"
    BY <1>0, <2>1, <2>2, UnansweredEffect
  <2>. QED  BY <1>0, <2>1, <2>2, <2>3, ResolvedPosted
<1>16. CASE QuerySubmitted
  <2>1. OrderInv(cur) /\ exch[cur] \in ExchangeOrders /\ rows[cur].status = "SUBMITTED"
    BY <1>0, <1>16 DEF QuerySubmitted, ResolvedInv, Unresolved, TypeOK
  <2>2. AnswerInv'
    BY <1>16, <2>1 DEF QuerySubmitted, AnswerInv, Queried, NoReport, OrderInv, Open, Terminal,
         ExchangeOrders
  <2>. QED  BY <1>0, <1>16, <2>1, <2>2, ResolvedQuiet DEF QuerySubmitted, Unresolved
<1>17. CASE QueryNotFound
  BY <1>0, <1>17, ResolvedQuiet DEF QueryNotFound, NotFound, Unresolved, ResolvedInv
<1>18. CASE JournalBooked
  BY <1>0, <1>18, ResolvedQuiet DEF JournalBooked, Unresolved
<1>19. CASE ToggleKillSwitch
  BY <1>0, <1>19 DEF ToggleKillSwitch, ResolvedInv, Submitted, OrderInv, AnswerInv
<1>. QED
  BY <1>1, <1>2, <1>3, <1>4, <1>5, <1>6, <1>7, <1>8, <1>9, <1>10, <1>11, <1>12, <1>13, <1>14,
     <1>15, <1>16, <1>17, <1>18, <1>19 DEF Next, Cycle, Environment

\* apply_order_result_atomically closes a row only when the exchange is done with
\* the order and all of its execution is booked, whatever crashed before; it is
\* the absence of late delivery, not of crashes or lost answers, it depends on.
THEOREM ClosedRowsAreBooked == ~LateDelivery => (Spec => []ResolvedFullyBooked)
<1> SUFFICES ASSUME ~LateDelivery  PROVE Spec => []ResolvedFullyBooked
  OBVIOUS
<1>1. ResolvedInv /\ [Next]_vars => ResolvedInv'
  BY ResolvedStep
<1>2. ResolvedInv => ResolvedFullyBooked
  BY DEF ResolvedInv, OrderInv, ResolvedFullyBooked
<1>. QED  BY ResolvedInit, <1>1, <1>2, PTL DEF Spec

-----------------------------------------------------------------------------
(***************************************************************************)
(* The books follow the account, when moreover no commission is taken in   *)
(* the asset that is sold.                                                 *)
(***************************************************************************)

\* How far the books are ahead of the account, counting what a cold start left out.
Ahead == portfolio.base + dust - acct.base

BooksInv ==
  /\ ResolvedInv
  /\ pc = "seed" => ~seeded
  /\ ~seeded => pc \in {"idle", "seed"} /\ Submitted = {}
  /\ seeded /\ Submitted = {} => Ahead = 0
  /\ seeded => \A o \in Submitted : Ahead = exch[o].total - rows[o].exec

LEMMA BooksInit == Init => BooksInv
<1> SUFFICES ASSUME Init  PROVE BooksInv
  OBVIOUS
<1>1. PICK n \in 0..MaxLots :
        /\ acct = [quote |-> 0, base |-> n, above |-> 0]
        /\ \/ seeded = FALSE /\ portfolio = InitialPortfolio(0)
           \/ n > 0 /\ seeded = TRUE /\ portfolio = HeldPortfolio(n)
  BY DEF Init
<1>2. Submitted = {} /\ pc = "idle" /\ dust = 0
  BY DEF Init, Submitted, NoRow
<1>3. seeded => portfolio.base = n
  BY <1>1 DEF HeldPortfolio, InitialPortfolio
<1>4. n \in Int /\ acct.base = n
  BY <1>1, ConstantsFacts
<1>. QED  BY <1>2, <1>3, <1>4, ResolvedInit DEF BooksInv, Ahead

\* A step that touches neither store, exchange nor account keeps the claim.
LEMMA BooksQuiet ==
  ASSUME BooksInv, ResolvedInv', rows' = rows, portfolio' = portfolio, seeded' = seeded,
         exch' = exch, acct' = acct, dust' = dust,
         pc' = "seed" => ~seeded,
         pc' \in {"idle", "seed"} \/ (pc \notin {"idle", "seed"}) \/ seeded
  PROVE  BooksInv'
  BY DEF BooksInv, Submitted, Ahead

\* The order in hand executes while its row is SUBMITTED: the books fall behind by
\* as much as the order is ahead of its row.
LEMMA BooksExecuted ==
  ASSUME BooksInv, ResolvedInv', NEW o \in Orders, rows[o].status = "SUBMITTED",
         rows' = rows, portfolio' = portfolio, seeded' = seeded, dust' = dust,
         acct'.base = acct.base - (exch'[o].total - exch[o].total), pc' # "seed"
  PROVE  BooksInv'
<1>1. Submitted' = Submitted /\ o \in Submitted
  BY DEF Submitted
<1>2. \A q \in Submitted : q = o
  BY <1>1 DEF BooksInv, ResolvedInv
<1>3. seeded
  BY <1>1 DEF BooksInv
<1>4. /\ portfolio.base \in Int /\ dust \in Int /\ acct.base \in Int
      /\ exch[o].total \in Int /\ exch'[o].total \in Int /\ rows[o].exec \in Int
  BY DEF BooksInv, ResolvedInv, TypeOK, Portfolios, Accounts, ExchangeOrders, Rows
<1>5. Ahead' = exch'[o].total - rows[o].exec
  BY <1>1, <1>3, <1>4 DEF BooksInv, Ahead
<1>. QED  BY <1>1, <1>2, <1>3, <1>5 DEF BooksInv

LEMMA BooksApplied ==
  ASSUME BooksInv, ResolvedInv', SettlePending \/ BookOrder
  PROVE  BooksInv'
<1>. USE DEF exchange
<1>1. /\ pc \in {"settle", "book"} /\ ApplyReport /\ exch' = exch /\ acct' = acct /\ dust' = dust
      /\ cur' = cur /\ pc' \in {"settled", "booked"} /\ seeded' = seeded
  BY DEF SettlePending, BookOrder, ApplyReport
<1>2. /\ ResolvedInv /\ TypeOK /\ cur \in Orders /\ cur \in Submitted
  BY <1>1 DEF BooksInv, ResolvedInv, TypeOK, Unresolved, Submitted
<1>3. seeded /\ Ahead = exch[cur].total - rows[cur].exec
  BY <1>2 DEF BooksInv
<1>4. /\ rows'[cur].status \in {"SUBMITTED", "RESOLVED"}
      /\ rows'[cur].status = "RESOLVED" => rows'[cur].exec = exch[cur].total
      /\ portfolio'.base = portfolio.base - (rows'[cur].exec - rows[cur].exec)
  BY <1>1, <1>2, ApplyEffect
<1>5. \A q \in Orders : q # cur => rows'[q] = rows[q]
  BY <1>1, <1>2, ApplyReportKeepsRows
<1>6. \A q \in Submitted' : q = cur
  BY <1>2, <1>5 DEF ResolvedInv, Submitted
<1>7. /\ portfolio.base \in Int /\ dust \in Int /\ acct.base \in Int
      /\ exch[cur].total \in Int /\ rows'[cur].exec \in Int /\ rows[cur].exec \in Int
  BY <1>2 DEF ResolvedInv, TypeOK, Portfolios, Accounts, ExchangeOrders, Rows
<1>8. Ahead' = exch[cur].total - rows'[cur].exec
  BY <1>1, <1>3, <1>4, <1>7 DEF Ahead
<1>9. Submitted' = {} => rows'[cur].status = "RESOLVED"
  BY <1>2, <1>4 DEF Submitted
<1>. QED  BY <1>1, <1>3, <1>4, <1>6, <1>7, <1>8, <1>9 DEF BooksInv

LEMMA BooksStep ==
  ~LateDelivery /\ "base" \notin FeeAssets /\ BooksInv /\ [Next]_vars => BooksInv'
<1> SUFFICES ASSUME ~LateDelivery, "base" \notin FeeAssets, BooksInv, [Next]_vars
             PROVE  BooksInv'
  OBVIOUS
<1>. USE DEF store, exchange
<1>0. /\ ResolvedInv /\ ResolvedInv' /\ TypeOK /\ TypeOK' /\ cur \in Orders
  BY ResolvedStep DEF BooksInv, ResolvedInv, TypeOK
<1>1. CASE UNCHANGED vars
  BY <1>0, <1>1, BooksQuiet DEF vars, BooksInv
<1>2. ASSUME NEW o \in Orders, ExchangeFills(o)  PROVE BooksInv'
  <2>1. pc' # "seed"
    BY <1>0, <1>2, ResolvedFills DEF ExchangeFills, UnchangedProgram, BooksInv, Submitted
  <2>. QED  BY <1>0, <1>2, <2>1, ResolvedFills, BooksExecuted DEF ExchangeFills, UnchangedProgram
<1>3. ASSUME NEW o \in Orders, ExchangeCloses(o)  PROVE BooksInv'
  <2>1. \A q \in Orders : exch'[q].total = exch[q].total
    BY <1>0, <1>3, ResolvedCloses
  <2>. QED  BY <1>0, <1>3, <2>1 DEF ExchangeCloses, UnchangedProgram, BooksInv, Submitted, Ahead
<1>4. ASSUME NEW o \in Orders, LateArrival(o)  PROVE BooksInv'
  BY <1>0, <1>4 DEF LateArrival, ResolvedInv
<1>5. CASE BeginCycle
  BY <1>0, <1>5, BooksQuiet DEF BeginCycle
<1>6. CASE SeedPortfolio
  <2>1. /\ Submitted = {} /\ rows' = rows /\ acct' = acct /\ seeded' = TRUE /\ pc' = "pending"
        /\ portfolio' = InitialPortfolio(acct.quote) /\ dust' = acct.base
    BY <1>6 DEF SeedPortfolio, BooksInv
  <2>2. Ahead' = 0
    BY <1>0, <2>1 DEF Ahead, InitialPortfolio, TypeOK, Accounts
  <2>. QED  BY <1>0, <2>1, <2>2 DEF BooksInv, Submitted
<1>7. CASE RefuseColdStart \/ BlockOnUnknown \/ NoOrderThisCycle \/ QueryUnknown \/ SaveRisk \/ Crash
  BY <1>0, <1>7, BooksQuiet DEF RefuseColdStart, BlockOnUnknown, NoOrderThisCycle, QueryUnknown,
       SaveRisk, Crash, ReturnAndSave, ReturnWithApiError, EndCycle
<1>8. CASE QueryPending \/ NoPendingLeft \/ CheckBalances \/ ApproveExit \/ JournalSubmitted
           \/ QuerySubmitted \/ QueryNotFound \/ JournalBooked \/ ToggleKillSwitch
  BY <1>0, <1>8, BooksQuiet DEF QueryPending, NoPendingLeft, CheckBalances, ApproveExit,
       JournalSubmitted, QuerySubmitted, QueryNotFound, JournalBooked, ToggleKillSwitch, BooksInv
<1>9. CASE JournalSettled
  BY <1>0, <1>9, BooksQuiet DEF JournalSettled, EndCycle
<1>10. CASE SettlePending \/ BookOrder
  BY <1>0, <1>10, BooksApplied
<1>11. CASE CreatePending
  <2>1. /\ Submitted = {} /\ Submitted' = {cur}
        /\ rows'[cur].exec = 0 /\ exch'[cur].total = 0
    BY <1>0, <1>11, ResolvedCreated
  <2>2. /\ portfolio' = portfolio /\ acct' = acct /\ dust' = dust /\ seeded' = seeded
        /\ pc = "create" /\ pc' = "announce"
    BY <1>11 DEF CreatePending
  <2>. QED  BY <1>0, <2>1, <2>2 DEF BooksInv, Ahead
<1>12. CASE PostAnswered \/ PostUnanswered \/ PostFails
  <2>1. /\ pc \in {"post", "retry"} /\ rows' = rows /\ portfolio' = portfolio
        /\ seeded' = seeded /\ dust' = dust /\ pc' # "seed"
        /\ Accept(cur, TRUE) \/ Unanswered(cur)
    BY <1>12 DEF PostAnswered, PostUnanswered, PostFails, ReturnWithApiError, ReturnAndSave, EndCycle
  <2>2. exch[cur].total = 0 /\ rows[cur].status = "SUBMITTED"
    BY <1>0, <2>1, NothingExecuted
  <2>3. acct'.base = acct.base - (exch'[cur].total - exch[cur].total)
    <3>1. acct.base \in Int
      BY <1>0 DEF TypeOK, Accounts
    <3>2. CASE Accept(cur, TRUE)
      <4>1. exch'[cur].total \in Nat /\ acct'.base = acct.base - exch'[cur].total
        BY <1>0, <2>2, <3>2, AcceptEffect
      <4>. QED  BY <2>2, <4>1
    <3>3. CASE Unanswered(cur)
      BY <1>0, <2>2, <3>1, <3>3, UnansweredEffect
    <3>. QED  BY <2>1, <3>2, <3>3
  <2>. QED  BY <1>0, <2>1, <2>2, <2>3, BooksExecuted
<1>. QED
  BY <1>1, <1>2, <1>3, <1>4, <1>5, <1>6, <1>7, <1>8, <1>9, <1>10, <1>11, <1>12
     DEF Next, Cycle, Environment

\* The books differ from the account by what is executed and not yet applied of
\* the single unresolved order: applying is exactly once across crashes, restarts,
\* partial fills and stale or repeated answers.
THEOREM BooksAreExact ==
  ~LateDelivery /\ "base" \notin FeeAssets => (Spec => []BooksFollowAccount)
<1> SUFFICES ASSUME ~LateDelivery, "base" \notin FeeAssets  PROVE Spec => []BooksFollowAccount
  OBVIOUS
<1>1. BooksInv /\ [Next]_vars => BooksInv'
  BY BooksStep
<1>2. BooksInv => BooksFollowAccount
  BY DEF BooksInv, ResolvedInv, BooksFollowAccount, Ahead
<1>. QED  BY BooksInit, <1>1, <1>2, PTL DEF Spec

-----------------------------------------------------------------------------
(* Closed orders stay closed.                                              *)

\* What a step does to the rows: it creates that of the order in hand, applies
\* the answer in hand to an unresolved one, or leaves all alone.
LEMMA RowsStep ==
  ASSUME ResolvedInv, [Next]_vars
  PROVE  \/ rows' = rows
         \/ CreatePending
         \/ (SettlePending \/ BookOrder) /\ ApplyReport /\ rows[cur].status = "SUBMITTED"
<1>. USE DEF store
<1>1. CASE SettlePending \/ BookOrder
  BY <1>1 DEF SettlePending, BookOrder, ResolvedInv, Unresolved
<1>2. CASE CreatePending
  BY <1>2
<1>3. CASE UNCHANGED vars
  BY <1>3 DEF vars
<1>4. ASSUME NEW o \in Orders, ExchangeFills(o) \/ ExchangeCloses(o) \/ LateArrival(o)
      PROVE  rows' = rows
  BY <1>4 DEF ExchangeFills, ExchangeCloses, LateArrival, UnchangedProgram
<1>5. CASE BeginCycle \/ SeedPortfolio \/ RefuseColdStart \/ QueryPending \/ BlockOnUnknown
           \/ NoPendingLeft \/ JournalSettled \/ CheckBalances \/ NoOrderThisCycle \/ ApproveExit
           \/ JournalSubmitted \/ QuerySubmitted \/ QueryNotFound \/ QueryUnknown
           \/ JournalBooked \/ SaveRisk \/ Crash \/ ToggleKillSwitch
  BY <1>5 DEF BeginCycle, SeedPortfolio, RefuseColdStart, QueryPending, BlockOnUnknown,
       NoPendingLeft, JournalSettled, CheckBalances, NoOrderThisCycle, ApproveExit,
       JournalSubmitted, QuerySubmitted, QueryNotFound, QueryUnknown, JournalBooked, SaveRisk,
       Crash, ToggleKillSwitch, ReturnAndSave, ReturnWithApiError, EndCycle
<1>6. CASE PostAnswered \/ PostUnanswered \/ PostFails
  BY <1>6 DEF PostAnswered, PostUnanswered, PostFails, ReturnWithApiError, ReturnAndSave
<1>. QED
  BY <1>1, <1>2, <1>3, <1>4, <1>5, <1>6 DEF Next, Cycle, Environment

LEMMA RowsAdvanceStep ==
  ASSUME ResolvedInv, ResolvedInv', [Next]_vars, NEW o \in Orders
  PROVE  /\ rows[o].status = "RESOLVED" => rows'[o] = rows[o]
         /\ rows[o].status = "SUBMITTED" => rows'[o].exec >= rows[o].exec
<1>0. TypeOK /\ cur \in Orders /\ rows[o].exec \in Int
  BY DEF ResolvedInv, TypeOK, Rows
<1>1. CASE rows' = rows
  BY <1>0, <1>1
<1>2. CASE CreatePending
  <2>1. rows[cur].status = "NONE"
    BY <1>2 DEF CreatePending, ResolvedInv
  <2>2. o # cur => rows'[o] = rows[o]
    BY <1>0, <1>2 DEF CreatePending, TypeOK
  <2>. QED  BY <1>0, <2>1, <2>2
<1>3. CASE ApplyReport /\ rows[cur].status = "SUBMITTED"
  <2>1. o # cur => rows'[o] = rows[o]
    BY <1>0, <1>3, ApplyReportKeepsRows
  <2>2. rows'[cur].exec >= rows[cur].exec
    <3>1. rows'[cur].exec = IF HasNewFill(report, rows[cur]) THEN report.exec ELSE rows[cur].exec
      BY <1>0, <1>3, ApplyReportKeepsRows
    <3>2. report.exec >= rows[cur].exec /\ rows[cur].exec \in Int
      BY <1>0, <1>3 DEF ApplyReport, Accepted, Consistent, TypeOK, Rows
    <3>. QED  BY <3>1, <3>2
  <2>. QED  BY <1>0, <1>3, <2>1, <2>2
<1>. QED  BY <1>1, <1>2, <1>3, RowsStep

\* create_pending ignores an id that exists, and apply_order_result_atomically is
\* only asked to apply to unresolved rows: a closed row stays as it was closed,
\* and no report takes back execution that was applied.
THEOREM RowsAlwaysAdvance == ~LateDelivery => (Spec => RowsOnlyAdvance)
<1> SUFFICES ASSUME ~LateDelivery  PROVE Spec => RowsOnlyAdvance
  OBVIOUS
<1>1. ResolvedInv /\ [Next]_vars => ResolvedInv'
  BY ResolvedStep
<1>2. ResolvedInv /\ ResolvedInv' /\ [Next]_vars =>
        [\A o \in Orders :
           /\ rows[o].status = "RESOLVED" => rows'[o] = rows[o]
           /\ rows[o].status = "SUBMITTED" => rows'[o].exec >= rows[o].exec]_rows
  BY RowsAdvanceStep
<1>. QED  BY ResolvedInit, <1>1, <1>2, PTL DEF Spec, RowsOnlyAdvance
-----------------------------------------------------------------------------
(* A sell is only sent from books that equal the account.                  *)

TrustInv ==
  /\ ResolvedInv
  /\ pc = "signal" /\ ~blocked => BalancesMatch
  /\ pc \in {"create", "announce", "post"} => BalancesMatch

\* The exchange moves the account only under an order that is open, and none is
\* between the comparison of the balances and the first request.
LEMMA TrustStep == ~LateDelivery /\ TrustInv /\ [Next]_vars => TrustInv'
<1> SUFFICES ASSUME ~LateDelivery, TrustInv, [Next]_vars  PROVE TrustInv'
  OBVIOUS
<1>. USE DEF store, exchange
<1>0. ResolvedInv /\ ResolvedInv' /\ TypeOK' /\ TypeOK
  BY ResolvedStep DEF TrustInv, ResolvedInv
<1>1. CASE UNCHANGED vars
  BY <1>0, <1>1 DEF vars, TrustInv, BalancesMatch
<1>2. ASSUME NEW o \in Orders, ExchangeFills(o)  PROVE TrustInv'
  <2>1. rows[o].status = "SUBMITTED" /\ exch[o].status \in Open /\ pc' = pc
    BY <1>0, <1>2, ResolvedFills DEF ExchangeFills, UnchangedProgram
  <2>2. o \in Submitted
    BY <2>1 DEF Submitted
  <2>3. pc \notin {"signal", "create"}
    BY <1>0, <2>2 DEF ResolvedInv
  <2>4. pc \notin {"announce", "post"}
    <3>1. SUFFICES ASSUME pc \in {"announce", "post"}  PROVE FALSE
      OBVIOUS
    <3>2. cur \in Submitted /\ exch[cur].status = "NONE"
      BY <1>0, <3>1 DEF ResolvedInv, Unresolved, Submitted, TypeOK
    <3>3. cur = o
      BY <1>0, <2>2, <3>2 DEF ResolvedInv
    <3>. QED  BY <2>1, <3>2, <3>3 DEF Open
  <2>. QED  BY <1>0, <2>1, <2>3, <2>4 DEF TrustInv
<1>3. ASSUME NEW o \in Orders, ExchangeCloses(o)  PROVE TrustInv'
  BY <1>0, <1>3 DEF ExchangeCloses, UnchangedProgram, TrustInv, BalancesMatch
<1>4. ASSUME NEW o \in Orders, LateArrival(o)  PROVE TrustInv'
  BY <1>0, <1>4 DEF LateArrival, ResolvedInv
<1>5. CASE CheckBalances
  BY <1>0, <1>5 DEF CheckBalances, TrustInv, BalancesMatch
<1>6. CASE ApproveExit \/ CreatePending \/ JournalSubmitted \/ ToggleKillSwitch
  BY <1>0, <1>6 DEF ApproveExit, CreatePending, JournalSubmitted, ToggleKillSwitch, TrustInv,
       BalancesMatch
<1>7. CASE BeginCycle \/ SeedPortfolio \/ RefuseColdStart \/ QueryPending \/ BlockOnUnknown
           \/ NoPendingLeft \/ SettlePending \/ JournalSettled \/ NoOrderThisCycle
           \/ PostAnswered \/ PostUnanswered \/ PostFails \/ QuerySubmitted \/ QueryNotFound
           \/ QueryUnknown \/ BookOrder \/ JournalBooked \/ SaveRisk \/ Crash
  <2>1. pc' \notin {"signal", "create", "announce", "post"}
    BY <1>7 DEF BeginCycle, SeedPortfolio, RefuseColdStart, QueryPending, BlockOnUnknown,
         NoPendingLeft, SettlePending, JournalSettled, NoOrderThisCycle, PostAnswered,
         PostUnanswered, PostFails, QuerySubmitted, QueryNotFound, QueryUnknown, BookOrder,
         JournalBooked, SaveRisk, Crash, ReturnAndSave, ReturnWithApiError, EndCycle
  <2>. QED  BY <1>0, <2>1 DEF TrustInv
<1>. QED  BY <1>1, <1>2, <1>3, <1>4, <1>5, <1>6, <1>7 DEF Next, Cycle, Environment

\* reconcile_pending_orders and reconcile_balances run before the signal is acted
\* on: a sell is created, announced and first sent only while the books equal the
\* account in both assets, and with no other order unresolved.
THEOREM SellsFromTrustedBooks == ~LateDelivery => (Spec => []SellOnlyFromTrustedBooks)
<1> SUFFICES ASSUME ~LateDelivery  PROVE Spec => []SellOnlyFromTrustedBooks
  OBVIOUS
<1>1. Init => TrustInv
  <2>. SUFFICES ASSUME Init  PROVE TrustInv
    OBVIOUS
  <2>1. pc = "idle"
    BY DEF Init
  <2>. QED  BY <2>1, ResolvedInit DEF TrustInv
<1>2. TrustInv /\ [Next]_vars => TrustInv'
  BY TrustStep
<1>3. TrustInv => SellOnlyFromTrustedBooks
  <2>. SUFFICES ASSUME TrustInv  PROVE SellOnlyFromTrustedBooks
    OBVIOUS
  <2>1. pc = "create" => Submitted = {}
    BY DEF TrustInv, ResolvedInv
  <2>2. ASSUME pc \in {"announce", "post"}  PROVE Submitted = {cur}
    <3>1. cur \in Submitted
      BY <2>2 DEF TrustInv, ResolvedInv, Unresolved, TypeOK, Submitted
    <3>. QED  BY <3>1 DEF TrustInv, ResolvedInv
  <2>. QED  BY <2>1, <2>2 DEF SellOnlyFromTrustedBooks, TrustInv, BalancesMatch
<1>. QED  BY <1>1, <1>2, <1>3, PTL DEF Spec
-----------------------------------------------------------------------------
(* The execution store implements the ledger.                              *)

\* Until the store is seeded no order exists and the books hold nothing.
LedgerInv ==
  /\ ResolvedInv
  /\ pc = "seed" => ~seeded
  /\ ~seeded => pc \in {"idle", "seed"} /\ portfolio.base = 0

LEMMA LedgerInit == Init => LedgerInv /\ Ledger!Init
<1> SUFFICES ASSUME Init  PROVE LedgerInv /\ Ledger!Init
  OBVIOUS
<1>1. PICK n \in 0..MaxLots :
        \/ seeded = FALSE /\ portfolio = InitialPortfolio(0)
        \/ n > 0 /\ seeded = TRUE /\ portfolio = HeldPortfolio(n)
  BY DEF Init
<1>2. /\ pc = "idle" /\ rows = [o \in Orders |-> NoRow] /\ exch = [o \in Orders |-> NoOrder]
  BY DEF Init
<1>3. ~seeded => portfolio.base = 0
  BY <1>1 DEF InitialPortfolio
<1>4. portfolio.base \in Nat
  <2>1. CASE portfolio = InitialPortfolio(0)
    BY <2>1 DEF InitialPortfolio
  <2>2. CASE portfolio = HeldPortfolio(n)
    <3>1. portfolio.base = n
      BY <2>2 DEF InitialPortfolio, HeldPortfolio
    <3>. QED  BY <3>1, ConstantsFacts
  <2>. QED  BY <1>1, <2>1, <2>2
<1>5. /\ [o \in Orders |-> exch[o].total] = [o \in Orders |-> 0]
      /\ [o \in Orders |-> rows[o].exec] = [o \in Orders |-> 0]
      /\ {o \in Orders : rows[o].status = "RESOLVED"} = {}
  BY <1>2 DEF NoRow, NoOrder
<1>. QED  BY <1>2, <1>3, <1>4, <1>5, ResolvedInit DEF LedgerInv, Ledger!Init

LEMMA LedgerInvStep == ~LateDelivery /\ LedgerInv /\ [Next]_vars => LedgerInv'
<1> SUFFICES ASSUME ~LateDelivery, LedgerInv, [Next]_vars  PROVE LedgerInv'
  OBVIOUS
<1>. USE DEF store
<1>0. ResolvedInv /\ ResolvedInv'
  BY ResolvedStep DEF LedgerInv
<1>1. CASE BeginCycle \/ RefuseColdStart \/ ToggleKillSwitch \/ Crash \/ UNCHANGED vars
  BY <1>0, <1>1 DEF BeginCycle, RefuseColdStart, ToggleKillSwitch, Crash, EndCycle, vars, LedgerInv
<1>2. CASE SeedPortfolio
  BY <1>0, <1>2 DEF SeedPortfolio, LedgerInv
<1>3. ASSUME NEW o \in Orders, ExchangeFills(o) \/ ExchangeCloses(o) \/ LateArrival(o)
      PROVE  LedgerInv'
  <2>1. UnchangedProgram
    BY <1>3 DEF ExchangeFills, ExchangeCloses, LateArrival
  <2>. QED  BY <1>0, <2>1 DEF UnchangedProgram, LedgerInv
<1>4. CASE QueryPending \/ BlockOnUnknown \/ NoPendingLeft \/ SettlePending \/ JournalSettled
           \/ CheckBalances \/ NoOrderThisCycle \/ ApproveExit \/ CreatePending \/ JournalSubmitted
           \/ PostAnswered \/ PostUnanswered \/ PostFails \/ QuerySubmitted \/ QueryNotFound
           \/ QueryUnknown \/ BookOrder \/ JournalBooked \/ SaveRisk
  <2>1. pc \notin {"idle", "seed"} /\ pc' # "seed" /\ seeded' = seeded
    BY <1>4 DEF QueryPending, BlockOnUnknown, NoPendingLeft, SettlePending, JournalSettled,
         CheckBalances, NoOrderThisCycle, ApproveExit, CreatePending, JournalSubmitted,
         PostAnswered, PostUnanswered, PostFails, QuerySubmitted, QueryNotFound, QueryUnknown,
         BookOrder, JournalBooked, SaveRisk, ApplyReport, ReturnAndSave, ReturnWithApiError,
         EndCycle
  <2>. QED  BY <1>0, <2>1 DEF LedgerInv
<1>. QED  BY <1>1, <1>2, <1>3, <1>4 DEF Next, Cycle, Environment

\* The one unresolved order executes, or a request for it has no effect.
LEMMA LedgerExecutes ==
  ASSUME LedgerInv, LedgerInv', NEW o \in Orders, rows[o].status = "SUBMITTED",
         rows' = rows, portfolio' = portfolio,
         \A q \in Orders : q # o => exch'[q].total = exch[q].total,
         exch'[o].total >= exch[o].total
  PROVE  [Ledger!Next]_(Ledger!vars)
<1>1. /\ exch[o].total \in Int /\ exch'[o].total \in Int
  BY DEF LedgerInv, ResolvedInv, TypeOK, ExchangeOrders
<1>2. CASE exch'[o].total = exch[o].total
  <2>1. [q \in Orders |-> exch'[q].total] = [q \in Orders |-> exch[q].total]
    BY <1>2
  <2>. QED  BY <2>1 DEF Ledger!vars
<1>3. CASE exch'[o].total > exch[o].total
  <2>. DEFINE executed == [q \in Orders |-> exch[q].total]
              executed1 == [q \in Orders |-> exch'[q].total]
              closed == {q \in Orders : rows[q].status = "RESOLVED"}
  <2>1. o \notin closed
    OBVIOUS
  <2>2. ASSUME NEW q \in Orders \ closed, q # o  PROVE executed[q] = 0
    <3>1. rows[q].status \in {"NONE", "SUBMITTED", "RESOLVED"}
      BY DEF LedgerInv, ResolvedInv, TypeOK, Rows
    <3>2. rows[q].status # "SUBMITTED"
      BY <2>2 DEF LedgerInv, ResolvedInv, Submitted
    <3>3. exch[q].total = 0
      BY <3>1, <3>2 DEF LedgerInv, ResolvedInv, OrderInv
    <3>. QED  BY <3>3
  <2>3. executed1[o] > executed[o]
    BY <1>3
  <2>4. executed1 = [executed EXCEPT ![o] = executed1[o]]
    OBVIOUS
  <2>5. Ledger!Execute(o)
    BY <2>1, <2>2, <2>3, <2>4 DEF Ledger!Execute
  <2>. QED  BY <2>5 DEF Ledger!Next
<1>. QED  BY <1>1, <1>2, <1>3

\* Applying the answer in hand books its new part, and closes the order only
\* when nothing is left to book.
LEMMA LedgerBooks ==
  ASSUME LedgerInv, SettlePending \/ BookOrder
  PROVE  Ledger!Next
<1>1. /\ pc \in {"settle", "book"} /\ ApplyReport /\ exch' = exch /\ cur' = cur
  BY DEF SettlePending, BookOrder, exchange
<1>2. ResolvedInv /\ TypeOK /\ cur \in Orders /\ rows[cur].status = "SUBMITTED"
  BY <1>1 DEF LedgerInv, ResolvedInv, TypeOK, Unresolved
<1>3. /\ OrderInv(cur)'
      /\ rows'[cur].status \in {"SUBMITTED", "RESOLVED"}
      /\ rows'[cur].status = "RESOLVED" => rows'[cur].exec = exch[cur].total
      /\ portfolio'.base = portfolio.base - (rows'[cur].exec - rows[cur].exec)
  BY <1>1, <1>2, ApplyEffect
<1>4. \A q \in Orders : q # cur => rows'[q] = rows[q]
  BY <1>1, <1>2, ApplyReportKeepsRows
<1>5. rows'[cur].exec >= rows[cur].exec
  <2>1. rows'[cur].exec = IF HasNewFill(report, rows[cur]) THEN report.exec ELSE rows[cur].exec
    BY <1>1, <1>2, ApplyReportKeepsRows
  <2>2. report.exec >= rows[cur].exec /\ rows[cur].exec \in Int
    BY <1>1, <1>2 DEF ApplyReport, Accepted, Consistent, TypeOK, Rows
  <2>. QED  BY <2>1, <2>2
<1>6. /\ rows[cur].exec \in Int /\ exch[cur].total \in Int /\ portfolio.base \in Int
      /\ rows' \in [Orders -> Rows] /\ rows'[cur].exec \in Int
  <2>1. rows' \in [Orders -> Rows]
    BY <1>1, <1>2, ApplyReportTypes
  <2>. QED  BY <1>2, <2>1 DEF TypeOK, Rows, ExchangeOrders, Portfolios
<1>. DEFINE executed == [q \in Orders |-> exch[q].total]
            booked == [q \in Orders |-> rows[q].exec]
            booked1 == [q \in Orders |-> rows'[q].exec]
            closed == {q \in Orders : rows[q].status = "RESOLVED"}
            closed1 == {q \in Orders : rows'[q].status = "RESOLVED"}
            n == rows'[cur].exec - rows[cur].exec
<1>7. cur \notin closed
  BY <1>2
<1>8. n \in 0..(executed[cur] - booked[cur])
  <2>1. rows'[cur].exec <= exch[cur].total
    BY <1>1, <1>3 DEF OrderInv
  <2>. QED  BY <1>2, <1>5, <1>6, <2>1
<1>9. booked1 = [booked EXCEPT ![cur] = booked[cur] + n]
  <2>1. booked1[cur] = booked[cur] + n
    BY <1>2, <1>6
  <2>2. \A q \in Orders : q # cur => booked1[q] = booked[q]
    BY <1>4
  <2>. HIDE DEF n
  <2>. QED  BY <1>2, <2>1, <2>2
<1>10. closed1 \in {closed, IF n = executed[cur] - booked[cur] THEN closed \cup {cur} ELSE closed}
  <2>1. CASE rows'[cur].status = "RESOLVED"
    <3>1. n = executed[cur] - booked[cur]
      BY <1>2, <1>3, <1>6, <2>1
    <3>2. closed1 = closed \cup {cur}
      BY <1>2, <1>4, <2>1
    <3>. QED  BY <3>1, <3>2
  <2>2. CASE rows'[cur].status # "RESOLVED"
    <3>1. closed1 = closed
      BY <1>2, <1>4, <2>2
    <3>. QED  BY <3>1
  <2>. QED  BY <2>1, <2>2
<1>11. portfolio'.base = portfolio.base - n
  BY <1>3
<1>12. executed' = executed
  BY <1>1
<1>13. PICK o \in Orders : o = cur
  BY <1>2
<1>14. Ledger!Book(o)
  <2>. HIDE DEF n
  <2>. QED  BY <1>7, <1>8, <1>9, <1>10, <1>11, <1>12, <1>13 DEF Ledger!Book
<1>. QED  BY <1>14 DEF Ledger!Next
LEMMA LedgerStep == ~LateDelivery /\ LedgerInv /\ [Next]_vars => [Ledger!Next]_(Ledger!vars)
<1> SUFFICES ASSUME ~LateDelivery, LedgerInv, [Next]_vars  PROVE [Ledger!Next]_(Ledger!vars)
  OBVIOUS
<1>. USE DEF store, exchange
<1>0. /\ LedgerInv' /\ ResolvedInv /\ ResolvedInv' /\ TypeOK /\ TypeOK' /\ cur \in Orders
  BY LedgerInvStep DEF LedgerInv, ResolvedInv, TypeOK
<1>1. CASE SettlePending \/ BookOrder
  BY <1>0, <1>1, LedgerBooks
<1>2. ASSUME NEW o \in Orders, ExchangeFills(o)  PROVE [Ledger!Next]_(Ledger!vars)
  <2>1. PICK n \in Portions(rows[o].qty - exch[o].exec) \ {0}, p \in Prices,
             asset \in FeeAssets \ {"base"}, d \in FeeDens :
          Execute(o, exch[o], n, p, asset, d,
               IF exch[o].exec + n = rows[o].qty THEN "FILLED" ELSE "PARTIALLY_FILLED",
               exch[o].total)
    BY <1>2 DEF ExchangeFills
  <2>2. n \in Nat /\ exch[o].total \in Int
    BY <1>0 DEF Portions, TypeOK, ExchangeOrders
  <2>3. exch'[o].total = exch[o].total + n /\ \A q \in Orders : q # o => exch'[q] = exch[q]
    BY <1>0, <2>1 DEF Execute, TypeOK
  <2>4. rows[o].status = "SUBMITTED" /\ rows' = rows /\ portfolio' = portfolio
    BY <1>0, <1>2, ResolvedFills DEF ExchangeFills, UnchangedProgram
  <2>. QED  BY <1>0, <2>2, <2>3, <2>4, LedgerExecutes
<1>3. ASSUME rows' = rows, portfolio'.base = portfolio.base,
             \A q \in Orders : exch'[q].total = exch[q].total
      PROVE  [Ledger!Next]_(Ledger!vars)
  BY <1>3 DEF Ledger!vars
<1>4. ASSUME NEW o \in Orders, ExchangeCloses(o)  PROVE [Ledger!Next]_(Ledger!vars)
  <2>1. UnchangedProgram
    BY <1>4 DEF ExchangeCloses
  <2>. QED  BY <1>0, <1>3, <1>4, <2>1, ResolvedCloses DEF UnchangedProgram
<1>5. ASSUME NEW o \in Orders, LateArrival(o)  PROVE [Ledger!Next]_(Ledger!vars)
  BY <1>0, <1>5 DEF LateArrival, ResolvedInv
<1>6. CASE SeedPortfolio
  <2>1. portfolio.base = 0 /\ portfolio'.base = 0
    BY <1>0, <1>6 DEF SeedPortfolio, LedgerInv, InitialPortfolio
  <2>. QED  BY <1>3, <1>6, <2>1 DEF SeedPortfolio
<1>7. CASE CreatePending
  <2>1. rows[cur].status = "NONE" /\ rows[cur].exec = 0
    BY <1>0, <1>7 DEF CreatePending, ResolvedInv, OrderInv, TypeOK, Rows
  <2>2. rows'[cur].exec = 0 /\ rows'[cur].status = "SUBMITTED"
    BY <1>0, <1>7, <2>1, ResolvedCreated DEF CreatePending, Submitted
  <2>3. \A q \in Orders : q # cur => rows'[q] = rows[q]
    BY <1>0, <1>7 DEF CreatePending, TypeOK
  <2>4. /\ [q \in Orders |-> rows'[q].exec] = [q \in Orders |-> rows[q].exec]
        /\ {q \in Orders : rows'[q].status = "RESOLVED"} = {q \in Orders : rows[q].status = "RESOLVED"}
    BY <2>1, <2>2, <2>3
  <2>5. portfolio' = portfolio /\ exch' = exch
    BY <1>7 DEF CreatePending
  <2>. QED  BY <2>4, <2>5 DEF Ledger!vars
<1>8. CASE PostAnswered \/ PostUnanswered \/ PostFails
  <2>1. /\ pc \in {"post", "retry"} /\ rows' = rows /\ portfolio' = portfolio
        /\ Accept(cur, TRUE) \/ Unanswered(cur)
    BY <1>8 DEF PostAnswered, PostUnanswered, PostFails, ReturnWithApiError, ReturnAndSave
  <2>2. exch[cur].total = 0 /\ rows[cur].status = "SUBMITTED"
    BY <1>0, <2>1, NothingExecuted
  <2>3. /\ \A q \in Orders : q # cur => exch'[q].total = exch[q].total
        /\ exch'[cur].total >= exch[cur].total
    <3>1. CASE Accept(cur, TRUE)
      <4>1. exch'[cur].total \in Nat /\ \A q \in Orders : q # cur => exch'[q] = exch[q]
        BY <1>0, <2>2, <3>1, AcceptEffect
      <4>. QED  BY <2>2, <4>1
    <3>2. CASE Unanswered(cur)
      BY <1>0, <2>2, <3>2, UnansweredEffect
    <3>. QED  BY <2>1, <3>1, <3>2
  <2>. QED  BY <1>0, <2>1, <2>2, <2>3, LedgerExecutes
<1>9. CASE BeginCycle \/ RefuseColdStart \/ QueryPending \/ BlockOnUnknown \/ NoPendingLeft
           \/ JournalSettled \/ CheckBalances \/ NoOrderThisCycle \/ ApproveExit
           \/ JournalSubmitted \/ QuerySubmitted \/ QueryNotFound \/ QueryUnknown
           \/ JournalBooked \/ SaveRisk \/ Crash \/ ToggleKillSwitch \/ UNCHANGED vars
  <2>1. rows' = rows /\ portfolio' = portfolio /\ exch' = exch
    BY <1>9 DEF BeginCycle, RefuseColdStart, QueryPending, BlockOnUnknown, NoPendingLeft,
         JournalSettled, CheckBalances, NoOrderThisCycle, ApproveExit, JournalSubmitted,
         QuerySubmitted, QueryNotFound, QueryUnknown, JournalBooked, SaveRisk, Crash,
         ToggleKillSwitch, ReturnAndSave, ReturnWithApiError, vars
  <2>. QED  BY <1>3, <2>1
<1>. QED
  BY <1>1, <1>2, <1>4, <1>5, <1>6, <1>7, <1>8, <1>9 DEF Next, Cycle, Environment

\* Refinement: with create_pending before the POST, cumulative reports applied in
\* one transaction with the books, and rows closed on final statuses only, the
\* store books every execution once and closes an order when all of it is booked.
THEOREM StoreImplementsLedger == ~LateDelivery => (Spec => BooksEveryFillOnce)
<1> SUFFICES ASSUME ~LateDelivery  PROVE Spec => BooksEveryFillOnce
  OBVIOUS
<1>1. Init => LedgerInv /\ Ledger!Init
  BY LedgerInit
<1>2. LedgerInv /\ [Next]_vars => LedgerInv' /\ [Ledger!Next]_(Ledger!vars)
  BY LedgerInvStep, LedgerStep
<1>. QED  BY <1>1, <1>2, PTL DEF Spec, Ledger!Spec, BooksEveryFillOnce
-----------------------------------------------------------------------------
(***************************************************************************)
(* Nothing is oversold, late requests included: an order asks for all the  *)
(* whole steps the account holds, so once part of it has executed a second *)
(* arrival under the same client order id cannot be funded.                *)
(***************************************************************************)

LotsInv(o) ==
  /\ exch[o].exec = exch[o].total
  /\ exch[o].total = 0 \/ exch[o].total >= StepSize
  /\ exch[o].total <= rows[o].qty
  /\ exch[o].status = "NONE" => exch[o].total = 0
  /\ rows[o].status = "NONE" => rows[o].qty = 0
  /\ rows[o].status # "NONE" => acct.base + exch[o].total - rows[o].qty < StepSize

OversoldInv ==
  /\ RecordedInv
  /\ \A o \in Orders : LotsInv(o)
  /\ pc = "signal" /\ ~blocked => acct.base <= portfolio.base
  /\ pc = "create" => acct.base <= portfolio.base /\ SellQuantity(portfolio.base) >= 0

LEMMA OversoldInit == Init => OversoldInv
<1> SUFFICES ASSUME Init  PROVE OversoldInv
  OBVIOUS
<1>1. \A o \in Orders : rows[o] = NoRow /\ exch[o] = NoOrder
  BY DEF Init
<1>2. \A o \in Orders : LotsInv(o)
  BY <1>1 DEF LotsInv, NoRow, NoOrder
<1>3. pc = "idle"
  BY DEF Init
<1>. QED  BY <1>2, <1>3, RecordedInit DEF OversoldInv

\* What is left over of a position is less than a step.
LEMMA StepRemainder == \A b \in Int, s \in Nat \ {0} : b - (b \div s) * s < s
  BY SMT

LEMMA PortionSize ==
  ASSUME NEW qty \in Int, NEW n \in Portions(qty)
  PROVE  n \in Nat /\ n <= qty /\ (n = 0 \/ n >= StepSize)
<1>1. n \in 0..qty /\ n % StepSize = 0
  BY DEF Portions
<1>2. n \in Nat /\ StepSize \in Nat \ {0}
  BY <1>1, ConstantsAssumption
<1>3. n < StepSize => n % StepSize = n
  BY <1>2, SMT
<1>. QED  BY <1>1, <1>2, <1>3

\* The order executes n more lots.
LEMMA LotsExecuted ==
  ASSUME OversoldInv, TypeOK', NEW o \in Orders, rows[o].status # "NONE", rows' = rows,
         NEW n \in Nat, n = 0 \/ n >= StepSize,
         \A q \in Orders : q # o => exch'[q] = exch[q],
         exch'[o].exec = exch'[o].total, exch'[o].total = exch[o].total + n,
         exch'[o].total <= rows[o].qty, exch'[o].status # "NONE",
         acct'.base <= acct.base - n
  PROVE  \A q \in Orders : LotsInv(q)'
<1> SUFFICES ASSUME NEW q \in Orders  PROVE LotsInv(q)'
  OBVIOUS
<1>1. /\ TypeOK /\ LotsInv(q) /\ acct.base \in Int /\ acct'.base \in Int
      /\ exch[q].total \in Int /\ rows[q].qty \in Int /\ StepSize \in Nat \ {0}
  BY ConstantsAssumption DEF OversoldInv, RecordedInv, TypeOK, Accounts, ExchangeOrders, Rows
<1>2. CASE q # o
  BY <1>1, <1>2 DEF LotsInv
<1>3. CASE q = o
  BY <1>1, <1>3 DEF LotsInv
<1>. QED  BY <1>2, <1>3

\* A submission accepted, the first or a late one.
LEMMA LotsAccepted ==
  ASSUME OversoldInv, TypeOK', NEW o \in Orders, rows[o].status # "NONE", rows' = rows,
         NEW answer \in BOOLEAN, Accept(o, answer)
  PROVE  (\A q \in Orders : LotsInv(q)') /\ acct'.base <= acct.base
<1>1. PICK n \in Portions(rows[o].qty), p \in Prices, asset \in FeeAssets, d \in FeeDens :
        \E status \in PlacedStatuses(n, rows[o].qty) :
          Execute(o, NoOrder, n, p, asset, d, status, exch[o].total)
  BY DEF Accept
<1>2. PICK status \in PlacedStatuses(n, rows[o].qty) :
        Execute(o, NoOrder, n, p, asset, d, status, exch[o].total)
  BY <1>1
<1>3. /\ TypeOK /\ LotsInv(o) /\ acct.base \in Int /\ exch[o].total \in Int
      /\ rows[o].qty \in Int /\ StepSize \in Nat \ {0}
  BY ConstantsAssumption DEF OversoldInv, RecordedInv, TypeOK, Accounts, ExchangeOrders, Rows
<1>4. n \in Nat /\ n <= rows[o].qty /\ (n = 0 \/ n >= StepSize)
  BY <1>3, PortionSize
<1>5. exch[o].total = 0
  BY <1>3 DEF Accept, Fundable, LotsInv
<1>6. status # "NONE"
  BY OddStatusAssumption DEF PlacedStatuses
<1>7. exch' = [exch EXCEPT ![o] = [status |-> status, exec |-> 0 + n,
                                  quote |-> 0 + n * p, total |-> 0 + n]]
  BY <1>2, <1>5 DEF Execute, NoOrder
<1>8. /\ exch'[o].status = status /\ exch'[o].exec = n /\ exch'[o].total = n
      /\ \A q \in Orders : q # o => exch'[q] = exch[q]
  <2>1. exch'[o] = [status |-> status, exec |-> 0 + n, quote |-> 0 + n * p, total |-> 0 + n]
    BY <1>3, <1>7 DEF TypeOK
  <2>. QED  BY <1>3, <1>4, <1>7, <2>1 DEF TypeOK
<1>9. acct'.base <= acct.base - n
  BY <1>2, <1>3, <1>4 DEF Execute, TypeOK, Accounts
<1>10. acct'.base <= acct.base
  BY <1>3, <1>4, <1>9 DEF TypeOK, Accounts
<1>. QED  BY <1>3, <1>4, <1>5, <1>6, <1>8, <1>9, <1>10, LotsExecuted

LEMMA LotsFilled ==
  ASSUME OversoldInv, TypeOK', NEW o \in Orders, ExchangeFills(o)
  PROVE  (\A q \in Orders : LotsInv(q)') /\ acct'.base <= acct.base
<1>1. PICK n \in Portions(rows[o].qty - exch[o].exec) \ {0}, p \in Prices,
           asset \in FeeAssets \ {"base"}, d \in FeeDens :
        Execute(o, exch[o], n, p, asset, d,
             IF exch[o].exec + n = rows[o].qty THEN "FILLED" ELSE "PARTIALLY_FILLED",
             exch[o].total)
  BY DEF ExchangeFills
<1>2. /\ TypeOK /\ LotsInv(o) /\ acct.base \in Int /\ exch[o].total \in Int /\ exch[o].exec \in Int
      /\ rows[o].qty \in Int /\ rows[o].qty - exch[o].exec \in Int
  BY DEF OversoldInv, RecordedInv, TypeOK, Accounts, ExchangeOrders, Rows
<1>3. n \in Nat /\ n <= rows[o].qty - exch[o].exec /\ (n = 0 \/ n >= StepSize)
  BY <1>2, PortionSize
<1>4. rows[o].status # "NONE" /\ rows' = rows
  <2>1. exch[o].status # "NONE"
    BY DEF ExchangeFills, Open
  <2>. QED  BY <2>1 DEF OversoldInv, RecordedInv, NoUnrecordedOrder, ExchangeFills, UnchangedProgram, store
<1>5. /\ exch'[o].exec = exch[o].exec + n /\ exch'[o].total = exch[o].total + n
      /\ exch'[o].status \in {"FILLED", "PARTIALLY_FILLED"}
      /\ \A q \in Orders : q # o => exch'[q] = exch[q]
  BY <1>1, <1>2 DEF Execute, TypeOK
<1>6. acct'.base = acct.base - n
  BY <1>1, <1>2, <1>3 DEF Execute, TypeOK, Accounts
<1>7. exch'[o].exec = exch'[o].total /\ exch'[o].total <= rows[o].qty
  BY <1>2, <1>3, <1>5 DEF LotsInv
<1>8. acct'.base <= acct.base - n /\ acct'.base <= acct.base
  BY <1>2, <1>3, <1>6
<1>. QED  BY <1>3, <1>4, <1>5, <1>7, <1>8, LotsExecuted

\* A step that leaves the exchange, the account and what was asked for alone.
LEMMA LotsKept ==
  ASSUME OversoldInv, exch' = exch, acct' = acct,
         \A o \in Orders : rows'[o].qty = rows[o].qty /\ (rows'[o].status = "NONE" <=> rows[o].status = "NONE")
  PROVE  \A o \in Orders : LotsInv(o)'
  BY DEF OversoldInv, LotsInv

LEMMA LotsCreated ==
  ASSUME OversoldInv, TypeOK', CreatePending
  PROVE  \A o \in Orders : LotsInv(o)'
<1>. USE DEF exchange, store
<1>1. /\ TypeOK /\ cur \in Orders /\ exch' = exch /\ acct' = acct /\ portfolio' = portfolio
      /\ acct.base <= portfolio.base /\ SellQuantity(portfolio.base) >= 0
  BY DEF CreatePending, OversoldInv, RecordedInv, TypeOK
<1>2. CASE rows[cur].status # "NONE"
  <2>1. rows' = rows
    BY <1>1, <1>2 DEF CreatePending, TypeOK
  <2>. QED  BY <1>1, <2>1, LotsKept
<1>3. CASE rows[cur].status = "NONE"
  <2>. DEFINE asked == SellQuantity(portfolio.base)
  <2>1. rows' = [rows EXCEPT ![cur] = [NoRow EXCEPT !.status = "SUBMITTED", !.qty = asked]]
    BY <1>1, <1>3 DEF CreatePending, TypeOK
  <2>2. /\ \A q \in Orders : q # cur => rows'[q] = rows[q]
        /\ rows'[cur].status = "SUBMITTED" /\ rows'[cur].qty = asked
    <3>. HIDE DEF asked
    <3>. QED  BY <1>1, <2>1 DEF TypeOK, NoRow
  <2>3. exch[cur].status = "NONE" /\ LotsInv(cur)
    BY <1>1, <1>3 DEF OversoldInv, RecordedInv, NoUnrecordedOrder
  <2>4. exch[cur].total = 0 /\ exch[cur].exec = 0
    BY <2>3 DEF LotsInv
  <2>5. portfolio.base \in Int /\ acct.base \in Int /\ StepSize \in Nat \ {0} /\ asked \in Int
    <3>1. portfolio.base \in Int /\ acct.base \in Int /\ StepSize \in Nat \ {0}
      BY <1>1, ConstantsAssumption DEF TypeOK, Portfolios, Accounts
    <3>2. asked \in Int
      BY <1>1, <2>2 DEF TypeOK, Rows
    <3>. QED  BY <3>1, <3>2
  <2>6. portfolio.base - asked < StepSize
    BY <2>5, StepRemainder DEF SellQuantity
  <2>7. asked >= 0
    BY <1>1
  <2>. HIDE DEF asked
  <2>8. ASSUME NEW q \in Orders, q = cur  PROVE LotsInv(q)'
    BY <1>1, <2>2, <2>3, <2>4, <2>5, <2>6, <2>7, <2>8 DEF LotsInv
  <2>9. ASSUME NEW q \in Orders, q # cur  PROVE LotsInv(q)'
    <3>1. LotsInv(q) /\ rows'[q] = rows[q]
      BY <2>2, <2>9 DEF OversoldInv
    <3>. QED  BY <1>1, <3>1 DEF LotsInv
  <2>. QED  BY <2>8, <2>9
<1>. QED  BY <1>2, <1>3

\* The account only shrinks while the program waits, so what it promises about
\* the position stays true.
LEMMA OversoldMoved ==
  ASSUME OversoldInv, RecordedInv', \A o \in Orders : LotsInv(o)',
         portfolio' = portfolio, acct'.base <= acct.base,
         \/ pc' = pc /\ blocked' = blocked
         \/ pc' \notin {"signal", "create"}
  PROVE  OversoldInv'
<1>1. acct.base \in Int /\ acct'.base \in Int /\ portfolio.base \in Int
  BY DEF OversoldInv, RecordedInv, TypeOK, Accounts, Portfolios
<1>2. pc' = "signal" /\ ~blocked' => acct'.base <= portfolio'.base
  BY <1>1 DEF OversoldInv
<1>3. pc' = "create" => acct'.base <= portfolio'.base /\ SellQuantity(portfolio'.base) >= 0
  BY <1>1 DEF OversoldInv
<1>. QED  BY <1>2, <1>3 DEF OversoldInv

LEMMA OversoldStep == OversoldInv /\ [Next]_vars => OversoldInv'
<1> SUFFICES ASSUME OversoldInv, [Next]_vars  PROVE OversoldInv'
  OBVIOUS
<1>. USE DEF store, exchange
<1>0. /\ RecordedInv /\ RecordedInv' /\ TypeOK /\ TypeOK' /\ cur \in Orders
      /\ acct.base \in Int /\ portfolio.base \in Int
  BY RecordedStep DEF OversoldInv, RecordedInv, TypeOK, Accounts, Portfolios
<1>1. ASSUME exch' = exch, acct' = acct, rows' = rows, portfolio' = portfolio,
             (pc' = pc /\ blocked' = blocked) \/ pc' \notin {"signal", "create"}
      PROVE  OversoldInv'
  <2>1. \A o \in Orders : LotsInv(o)'
    BY <1>1, LotsKept
  <2>2. acct'.base <= acct.base
    BY <1>0, <1>1
  <2>. QED  BY <1>0, <1>1, <2>1, <2>2, OversoldMoved
<1>2. CASE UNCHANGED vars \/ ToggleKillSwitch
  BY <1>1, <1>2 DEF vars, ToggleKillSwitch
<1>3. ASSUME NEW o \in Orders, ExchangeFills(o)  PROVE OversoldInv'
  BY <1>0, <1>3, LotsFilled, OversoldMoved DEF ExchangeFills, UnchangedProgram
<1>4. ASSUME NEW o \in Orders, ExchangeCloses(o)  PROVE OversoldInv'
  <2>1. /\ exch'[o].exec = exch[o].exec /\ exch'[o].total = exch[o].total
        /\ exch'[o].status = "EXPIRED" /\ exch[o].status # "NONE"
        /\ \A q \in Orders : q # o => exch'[q] = exch[q]
    BY <1>0, <1>4 DEF ExchangeCloses, TypeOK, ExchangeOrders, Open
  <2>2. acct' = acct /\ rows' = rows /\ portfolio' = portfolio /\ pc' = pc /\ blocked' = blocked
    BY <1>4 DEF ExchangeCloses, UnchangedProgram
  <2>3. \A q \in Orders : LotsInv(q)'
    <3>1. ASSUME NEW q \in Orders  PROVE LotsInv(q)'
      <4>1. LotsInv(q)
        BY DEF OversoldInv
      <4>2. exch'[q].exec = exch[q].exec /\ exch'[q].total = exch[q].total
            /\ (exch'[q].status = "NONE" => exch[q].status = "NONE")
        BY <2>1
      <4>. QED  BY <2>2, <4>1, <4>2 DEF LotsInv
    <3>. QED  BY <3>1
  <2>4. acct'.base <= acct.base
    BY <1>0, <2>2
  <2>. QED  BY <1>0, <2>2, <2>3, <2>4, OversoldMoved
<1>5. ASSUME NEW o \in Orders, LateArrival(o)  PROVE OversoldInv'
  <2>1. /\ rows' = rows /\ portfolio' = portfolio /\ pc' = pc /\ blocked' = blocked
        /\ rows[o].status # "NONE"
        /\ Accept(o, FALSE) \/ UNCHANGED <<exch, acct>>
    BY <1>0, <1>5 DEF LateArrival, UnchangedProgram, RecordedInv, NoUnrecordedOrder
  <2>2. CASE Accept(o, FALSE)
    BY <1>0, <2>1, <2>2, LotsAccepted, OversoldMoved
  <2>3. CASE UNCHANGED <<exch, acct>>
    BY <1>1, <2>1, <2>3
  <2>. QED  BY <2>1, <2>2, <2>3
<1>6. CASE PostAnswered \/ PostUnanswered \/ PostFails
  <2>1. /\ rows' = rows /\ portfolio' = portfolio /\ pc' \notin {"signal", "create"}
        /\ rows[cur].status # "NONE"
        /\ Accept(cur, TRUE) \/ Unanswered(cur)
    BY <1>0, <1>6 DEF PostAnswered, PostUnanswered, PostFails, ReturnWithApiError, ReturnAndSave,
         EndCycle, RecordedInv, InHand
  <2>2. CASE Accept(cur, TRUE) \/ Accept(cur, FALSE)
    BY <1>0, <2>1, <2>2, LotsAccepted, OversoldMoved
  <2>3. CASE UNCHANGED <<exch, acct>>
    BY <1>1, <2>1, <2>3
  <2>. QED  BY <2>1, <2>2, <2>3 DEF Unanswered
<1>7. CASE CreatePending
  <2>1. pc' = "announce" /\ acct' = acct /\ portfolio' = portfolio
    BY <1>7 DEF CreatePending
  <2>2. acct'.base <= acct.base
    BY <1>0, <2>1
  <2>. QED  BY <1>0, <1>7, <2>1, <2>2, LotsCreated, OversoldMoved
<1>8. CASE SettlePending \/ BookOrder
  <2>1. /\ pc \in {"settle", "book"} /\ ApplyReport /\ exch' = exch /\ acct' = acct
        /\ pc' \in {"settled", "booked"} /\ rows[cur].status # "NONE"
    BY <1>8 DEF SettlePending, BookOrder, OversoldInv, RecordedInv, InHand
  <2>2. \A o \in Orders : rows'[o].qty = rows[o].qty /\ (rows'[o].status = "NONE" <=> rows[o].status = "NONE")
    BY <1>0, <2>1, ApplyReportKeepsRows
  <2>3. \A o \in Orders : LotsInv(o)'
    BY <2>1, <2>2, LotsKept
  <2>. QED  BY <1>0, <2>1, <2>3 DEF OversoldInv
<1>9. CASE SeedPortfolio
  <2>1. pc' = "pending" /\ exch' = exch /\ acct' = acct /\ rows' = rows
    BY <1>9 DEF SeedPortfolio
  <2>2. \A o \in Orders : LotsInv(o)'
    BY <2>1, LotsKept
  <2>. QED  BY <1>0, <2>1, <2>2 DEF OversoldInv
<1>10. CASE CheckBalances
  <2>1. pc' = "signal" /\ blocked' = ~BalancesMatch /\ exch' = exch /\ acct' = acct
        /\ rows' = rows /\ portfolio' = portfolio
    BY <1>10 DEF CheckBalances
  <2>2. \A o \in Orders : LotsInv(o)'
    BY <2>1, LotsKept
  <2>3. ~blocked' => acct'.base <= portfolio'.base
    <3>1. ~blocked' => BalancesMatch
      BY <2>1, Zenon
    <3>2. BalancesMatch => acct'.base <= portfolio'.base
      BY <1>0, <2>1 DEF BalancesMatch
    <3>. QED  BY <3>1, <3>2
  <2>. QED  BY <1>0, <2>1, <2>2, <2>3 DEF OversoldInv
<1>11. CASE ApproveExit
  <2>1. /\ pc = "signal" /\ ~blocked /\ pc' = "create" /\ exch' = exch /\ acct' = acct
        /\ rows' = rows /\ portfolio' = portfolio /\ SellQuantity(portfolio.base) >= MinQty
    BY <1>11 DEF ApproveExit
  <2>2. \A o \in Orders : LotsInv(o)'
    BY <2>1, LotsKept
  <2>3. SellQuantity(portfolio.base) >= 0
    <3>1. portfolio.base \div StepSize \in Int
      BY <1>0, ConstantsAssumption, DivIsInt
    <3>2. SellQuantity(portfolio.base) \in Int
      <4>. DEFINE steps == portfolio.base \div StepSize
      <4>1. steps \in Int /\ StepSize \in Int
        BY <3>1, ConstantsAssumption
      <4>. HIDE DEF steps
      <4>2. steps * StepSize \in Int
        BY <4>1, SMT
      <4>. QED  BY <4>2 DEF SellQuantity, steps
    <3>. QED  BY <2>1, <3>2, ConstantsAssumption
  <2>4. acct.base <= portfolio.base
    BY <2>1 DEF OversoldInv
  <2>. QED  BY <1>0, <2>1, <2>2, <2>3, <2>4 DEF OversoldInv
<1>12. CASE \/ BeginCycle \/ RefuseColdStart \/ QueryPending \/ BlockOnUnknown \/ NoPendingLeft
            \/ JournalSettled \/ NoOrderThisCycle \/ JournalSubmitted \/ QuerySubmitted
            \/ QueryNotFound \/ QueryUnknown \/ JournalBooked \/ SaveRisk \/ Crash
  <2>1. /\ exch' = exch /\ acct' = acct /\ rows' = rows /\ portfolio' = portfolio
        /\ pc' \notin {"signal", "create"}
    BY <1>12 DEF BeginCycle, RefuseColdStart, QueryPending, BlockOnUnknown, NoPendingLeft,
         JournalSettled, NoOrderThisCycle, JournalSubmitted, QuerySubmitted, QueryNotFound,
         QueryUnknown, JournalBooked, SaveRisk, Crash, ReturnAndSave, ReturnWithApiError, EndCycle
  <2>. QED  BY <1>1, <2>1
<1>. QED
  BY <1>2, <1>3, <1>4, <1>5, <1>6, <1>7, <1>8, <1>9, <1>10, <1>11, <1>12 DEF Next, Cycle, Environment

\* A request that arrives after the program was told there is no such order
\* executes under the same client order id.  It never adds up to more than the
\* order asked for: a sell asks for every whole step of the position (sizing
\* floors the position to the lot size), so after a first part the account
\* cannot fund a second.  No assumption is made on delivery, fees or step size.
THEOREM NothingOversold == Spec => []NeverOversold
<1>1. OversoldInv => NeverOversold
  BY DEF OversoldInv, LotsInv, NeverOversold
<1>. QED  BY OversoldInit, OversoldStep, <1>1, PTL DEF Spec
-----------------------------------------------------------------------------
(***************************************************************************)
(* What is journaled of an outcome is in the store.                        *)
(***************************************************************************)

\* The store bears out that order o has this status.
BornOut(status, o) ==
  /\ rows[o].status # "NONE"
  /\ status \in Terminal => rows[o].status = "RESOLVED"
  /\ status = "FILLED" => rows[o].exec = rows[o].qty
  /\ status = "PARTIALLY_FILLED" => rows[o].exec > 0
  /\ status = "NEVER_SUBMITTED" => rows[o].exec = 0

\* The exchange's statuses mean what they say.
MeantInv(o) ==
  /\ exch[o].status = "FILLED" => exch[o].total = rows[o].qty
  /\ exch[o].status = "PARTIALLY_FILLED" => exch[o].total > 0
  /\ exch[o].status # "NEVER_SUBMITTED"

\* So does the answer in hand.
AnswerMeant ==
  /\ report.status = "FILLED" => report.exec = rows[cur].qty
  /\ report.status = "PARTIALLY_FILLED" => report.exec > 0
  /\ report.status = "NEVER_SUBMITTED" => report.exec = 0

JournalInv ==
  /\ ResolvedInv
  /\ \A o \in Orders : MeantInv(o)
  /\ pc \in {"settle", "book"} => AnswerMeant
  /\ pc \in {"settled", "booked"} => BornOut(report.status, cur)
  /\ \A e \in journal : BornOut(e[1], e[2])

LEMMA JournalInit == Init => JournalInv
<1> SUFFICES ASSUME Init  PROVE JournalInv
  OBVIOUS
<1>1. pc = "idle" /\ journal = {} /\ \A o \in Orders : MeantInv(o)
  BY DEF Init, MeantInv, NoOrder
<1>. QED  BY <1>1, ResolvedInit DEF JournalInv

\* An order the books are done with stays as it is, and one they are not done
\* with only executes further: what was born out still is.
LEMMA StillBornOut ==
  ASSUME ResolvedInv, [Next]_vars, NEW o \in Orders, NEW status, BornOut(status, o)
  PROVE  BornOut(status, o)'
<1>0. TypeOK /\ cur \in Orders
  BY DEF ResolvedInv, TypeOK
<1>1. CASE rows'[o] = rows[o]
  BY <1>1 DEF BornOut
<1>2. CASE CreatePending
  <2>1. rows'[o] = rows[o]
    BY <1>0, <1>2 DEF CreatePending, BornOut, TypeOK
  <2>. QED  BY <1>1, <2>1
<1>3. CASE ApplyReport /\ rows[cur].status = "SUBMITTED"
  <2>1. CASE o # cur
    BY <1>0, <1>1, <1>3, <2>1, ApplyReportKeepsRows
  <2>2. CASE o = cur
    <3>1. status \notin Terminal
      BY <1>3, <2>2 DEF BornOut
    <3>2. rows'[o].status # "NONE"
      BY <1>0, <1>3, <2>2, ApplyReportKeepsRows
    <3>3. rows'[o].exec >= rows[o].exec /\ rows'[o].exec \in Int /\ rows[o].exec \in Int
      <4>1. rows'[o].exec = IF HasNewFill(report, rows[o]) THEN report.exec ELSE rows[o].exec
        BY <1>0, <1>3, <2>2, ApplyReportKeepsRows
      <4>2. report.exec \in Int /\ rows[o].exec \in Int
        BY <1>0 DEF TypeOK, Reports, Rows
      <4>. QED  BY <4>1, <4>2 DEF HasNewFill
    <3>. QED  BY <3>1, <3>2, <3>3 DEF BornOut, Terminal
  <2>. QED  BY <2>1, <2>2
<1>. QED  BY <1>1, <1>2, <1>3, RowsStep

\* Applying the answer in hand bears out its status.
LEMMA AppliedBornOut ==
  ASSUME JournalInv, SettlePending \/ BookOrder
  PROVE  BornOut(report.status, cur)'
<1>1. /\ pc \in {"settle", "book"} /\ ApplyReport /\ report' = report /\ cur' = cur
  BY DEF SettlePending, BookOrder
<1>2. /\ TypeOK /\ cur \in Orders /\ OrderInv(cur) /\ AnswerInv /\ AnswerMeant
  BY <1>1 DEF JournalInv, ResolvedInv, TypeOK
<1>3. /\ report.exec \in Int /\ rows[cur].exec \in Int /\ rows[cur].qty \in Int
  BY <1>2 DEF TypeOK, Reports, Rows
<1>4. /\ rows'[cur].status = IF report.status \in Terminal THEN "RESOLVED" ELSE "SUBMITTED"
      /\ rows'[cur].exec = IF HasNewFill(report, rows[cur]) THEN report.exec ELSE rows[cur].exec
      /\ rows'[cur].qty = rows[cur].qty
  BY <1>1, <1>2, ApplyReportKeepsRows
<1>5. report.exec >= rows[cur].exec
  BY <1>1 DEF ApplyReport, Accepted, Consistent
<1>6. report.status # "NEW" => rows'[cur].exec = report.exec
  BY <1>3, <1>4, <1>5 DEF HasNewFill
<1>. QED  BY <1>1, <1>2, <1>3, <1>4, <1>6 DEF BornOut, AnswerMeant

\* The status of an accepted order goes with what it executed.
LEMMA AcceptMeant ==
  ASSUME TypeOK, NEW o \in Orders, exch[o].total = 0, NEW answer \in BOOLEAN, Accept(o, answer),
         rows' = rows
  PROVE  MeantInv(o)'
<1>1. PICK n \in Portions(rows[o].qty), p \in Prices, asset \in FeeAssets, d \in FeeDens :
        \E status \in PlacedStatuses(n, rows[o].qty) :
          Execute(o, NoOrder, n, p, asset, d, status, exch[o].total)
  BY DEF Accept
<1>2. PICK status \in PlacedStatuses(n, rows[o].qty) :
        Execute(o, NoOrder, n, p, asset, d, status, exch[o].total)
  BY <1>1
<1>3. n \in Nat /\ rows[o].qty \in Int
  BY DEF Portions, TypeOK, Rows
<1>4. exch' = [exch EXCEPT ![o] = [status |-> status, exec |-> 0 + n,
                                  quote |-> 0 + n * p, total |-> 0 + n]]
  BY <1>2 DEF Execute, NoOrder
<1>5. exch'[o] = [status |-> status, exec |-> 0 + n, quote |-> 0 + n * p, total |-> 0 + n]
  BY <1>4 DEF TypeOK
<1>6. exch'[o].status = status /\ exch'[o].total = n
  BY <1>3, <1>5
<1>7. /\ status = "FILLED" => n = rows[o].qty
      /\ status = "PARTIALLY_FILLED" => n # 0
      /\ status # "NEVER_SUBMITTED"
  BY OddStatusAssumption DEF PlacedStatuses, Terminal, Open
<1>. QED  BY <1>3, <1>6, <1>7 DEF MeantInv

LEMMA FillMeant ==
  ASSUME ResolvedInv, NEW o \in Orders, ExchangeFills(o)
  PROVE  MeantInv(o)' /\ \A q \in Orders : q # o => exch'[q] = exch[q]
<1>1. PICK n \in Portions(rows[o].qty - exch[o].exec) \ {0}, p \in Prices,
           asset \in FeeAssets \ {"base"}, d \in FeeDens :
        Execute(o, exch[o], n, p, asset, d,
             IF exch[o].exec + n = rows[o].qty THEN "FILLED" ELSE "PARTIALLY_FILLED",
             exch[o].total)
  BY DEF ExchangeFills
<1>2. /\ TypeOK /\ OrderInv(o) /\ n \in Nat \ {0} /\ rows[o].exec \in Int
      /\ exch[o].total \in Int /\ exch[o].exec \in Int /\ rows[o].qty \in Int
  BY DEF ResolvedInv, TypeOK, ExchangeOrders, Rows, Portions
<1>3. /\ exch'[o].total = exch[o].total + n
      /\ exch'[o].status = IF exch[o].exec + n = rows[o].qty THEN "FILLED" ELSE "PARTIALLY_FILLED"
      /\ \A q \in Orders : q # o => exch'[q] = exch[q]
  BY <1>1, <1>2 DEF Execute, TypeOK
<1>4. rows' = rows
  BY DEF ExchangeFills, UnchangedProgram, store
<1>. QED  BY <1>2, <1>3, <1>4 DEF MeantInv, OrderInv

LEMMA MeantKept ==
  ASSUME JournalInv, NEW o \in Orders, exch'[o] = exch[o], rows'[o].qty = rows[o].qty
  PROVE  MeantInv(o)'
  BY DEF JournalInv, MeantInv

\* What a step journals is of the order in hand, and is born out.
JournalGrows ==
  \A e \in journal' \ journal : BornOut(e[1], e[2])

LEMMA JournalKept ==
  ASSUME JournalInv, ResolvedInv', [Next]_vars, JournalGrows,
         \A o \in Orders : MeantInv(o)',
         pc' \in {"settle", "book"} => AnswerMeant',
         pc' \in {"settled", "booked"} => BornOut(report.status, cur)'
  PROVE  JournalInv'
<1>1. \A e \in journal' : BornOut(e[1], e[2])'
  <2>1. SUFFICES ASSUME NEW e \in journal'  PROVE BornOut(e[1], e[2])'
    OBVIOUS
  <2>2. BornOut(e[1], e[2])
    BY DEF JournalInv, JournalGrows
  <2>3. e[2] \in Orders
    BY DEF ResolvedInv, TypeOK
  <2>. QED  BY <2>2, <2>3, StillBornOut DEF JournalInv
<1>. QED  BY <1>1 DEF JournalInv

LEMMA JournalStep == ~LateDelivery /\ JournalInv /\ [Next]_vars => JournalInv'
<1> SUFFICES ASSUME ~LateDelivery, JournalInv, [Next]_vars  PROVE JournalInv'
  OBVIOUS
<1>. USE DEF store, exchange
<1>0. ResolvedInv /\ ResolvedInv' /\ TypeOK /\ TypeOK' /\ cur \in Orders
  BY ResolvedStep DEF JournalInv, ResolvedInv, TypeOK
<1>1. ASSUME exch' = exch, rows' = rows, journal' = journal, report' = report, cur' = cur, pc' = pc
      PROVE  JournalInv'
  <2>1. \A o \in Orders : MeantInv(o)'
    BY <1>1, MeantKept
  <2>. QED  BY <1>0, <1>1, <2>1, JournalKept DEF JournalInv, AnswerMeant, BornOut, JournalGrows
<1>2. CASE UNCHANGED vars \/ ToggleKillSwitch
  BY <1>1, <1>2 DEF vars, ToggleKillSwitch
<1>3. ASSUME NEW o \in Orders,
             /\ rows' = rows /\ journal' = journal /\ report' = report /\ cur' = cur /\ pc' = pc
             /\ MeantInv(o)' /\ \A q \in Orders : q # o => exch'[q] = exch[q]
      PROVE  JournalInv'
  <2>1. \A q \in Orders : MeantInv(q)'
    BY <1>3, MeantKept
  <2>. QED  BY <1>0, <1>3, <2>1, JournalKept DEF JournalInv, AnswerMeant, BornOut, JournalGrows
<1>4. ASSUME NEW o \in Orders, ExchangeFills(o)  PROVE JournalInv'
  BY <1>0, <1>3, <1>4, FillMeant DEF ExchangeFills, UnchangedProgram
<1>5. ASSUME NEW o \in Orders, ExchangeCloses(o)  PROVE JournalInv'
  <2>1. exch'[o].status = "EXPIRED" /\ \A q \in Orders : q # o => exch'[q] = exch[q]
    BY <1>0, <1>5 DEF ExchangeCloses, TypeOK, ExchangeOrders
  <2>2. MeantInv(o)'
    BY <2>1 DEF MeantInv
  <2>. QED  BY <1>3, <1>5, <2>1, <2>2 DEF ExchangeCloses, UnchangedProgram
<1>6. ASSUME NEW o \in Orders, LateArrival(o)  PROVE JournalInv'
  BY <1>0, <1>6 DEF LateArrival, ResolvedInv
<1>7. ASSUME exch' = exch, rows' = rows, JournalGrows, pc' \notin {"settle", "book", "settled", "booked"}
      PROVE  JournalInv'
  <2>1. \A o \in Orders : MeantInv(o)'
    BY <1>7, MeantKept
  <2>. QED  BY <1>0, <1>7, <2>1, JournalKept
<1>8. CASE \/ BeginCycle \/ SeedPortfolio \/ RefuseColdStart \/ BlockOnUnknown \/ NoPendingLeft
           \/ CheckBalances \/ NoOrderThisCycle \/ ApproveExit \/ QueryNotFound \/ QueryUnknown
           \/ SaveRisk \/ Crash
  <2>1. /\ exch' = exch /\ rows' = rows /\ journal' = journal
        /\ pc' \notin {"settle", "book", "settled", "booked"}
    BY <1>8 DEF BeginCycle, SeedPortfolio, RefuseColdStart, BlockOnUnknown, NoPendingLeft,
         CheckBalances, NoOrderThisCycle, ApproveExit, QueryNotFound, QueryUnknown, SaveRisk, Crash,
         ReturnAndSave, ReturnWithApiError, EndCycle
  <2>. QED  BY <1>7, <2>1 DEF JournalGrows
<1>9. CASE JournalSettled \/ JournalBooked
  <2>1. /\ exch' = exch /\ rows' = rows /\ journal' = journal \cup {<<report.status, cur>>}
        /\ pc \in {"settled", "booked"} /\ pc' \notin {"settle", "book", "settled", "booked"}
    BY <1>9 DEF JournalSettled, JournalBooked, EndCycle
  <2>2. JournalGrows
    BY <2>1 DEF JournalGrows, JournalInv
  <2>. QED  BY <1>7, <2>1, <2>2
<1>10. CASE JournalSubmitted
  <2>1. /\ exch' = exch /\ rows' = rows /\ journal' = journal \cup {<<"ORDER_SUBMITTED", cur>>}
        /\ pc = "announce" /\ pc' = "post"
    BY <1>10 DEF JournalSubmitted
  <2>2. BornOut("ORDER_SUBMITTED", cur)
    BY <1>0, <2>1 DEF ResolvedInv, Unresolved, BornOut, Terminal
  <2>3. JournalGrows
    BY <2>1, <2>2 DEF JournalGrows
  <2>. QED  BY <1>7, <2>1, <2>3
<1>11. ASSUME exch' = exch, rows' = rows, journal' = journal, AnswerMeant',
              pc' \in {"settle", "book"}
       PROVE  JournalInv'
  <2>1. \A o \in Orders : MeantInv(o)'
    BY <1>11, MeantKept
  <2>. QED  BY <1>0, <1>11, <2>1, JournalKept DEF JournalGrows
<1>12. CASE QueryPending
  <2>1. PICK o \in Submitted :
          /\ Known(o) \/ NotFound(o)
          /\ cur' = o
          /\ report' = IF NotFound(o) THEN NeverSubmitted(o) ELSE Queried(o)
    BY <1>12 DEF QueryPending
  <2>2. /\ o \in Orders /\ OrderInv(o) /\ MeantInv(o) /\ rows[o] \in Rows
        /\ exch[o] \in ExchangeOrders /\ rows' = rows /\ exch' = exch /\ journal' = journal
        /\ pc' = "settle"
    BY <1>0, <1>12 DEF Submitted, JournalInv, ResolvedInv, TypeOK, QueryPending
  <2>3. AnswerMeant'
    <3>1. CASE NotFound(o)
      <4>1. report'.status = "NEVER_SUBMITTED" /\ report'.exec = rows[o].exec
        BY <2>1, <3>1 DEF NeverSubmitted, NoReport
      <4>2. rows[o].exec = 0
        BY <2>2, <3>1 DEF NotFound, OrderInv, Rows
      <4>. QED  BY <4>1, <4>2 DEF AnswerMeant
    <3>2. CASE ~NotFound(o)
      <4>1. report'.status = exch[o].status /\ report'.exec = exch[o].total
        BY <2>1, <2>2, <3>2 DEF Queried, NoReport, OrderInv
      <4>. QED  BY <2>1, <2>2, <4>1 DEF AnswerMeant, MeantInv
    <3>. QED  BY <3>1, <3>2
  <2>. QED  BY <1>11, <2>2, <2>3
<1>13. CASE QuerySubmitted
  <2>1. /\ rows' = rows /\ exch' = exch /\ journal' = journal /\ pc' = "book" /\ cur' = cur
        /\ report' = Queried(cur) /\ OrderInv(cur) /\ MeantInv(cur)
    BY <1>0, <1>13 DEF QuerySubmitted, JournalInv, ResolvedInv
  <2>2. report'.status = exch[cur].status /\ report'.exec = exch[cur].total
    BY <2>1 DEF Queried, NoReport, OrderInv
  <2>3. AnswerMeant'
    BY <2>1, <2>2 DEF AnswerMeant, MeantInv
  <2>. QED  BY <1>11, <2>1, <2>3
<1>14. CASE SettlePending \/ BookOrder
  <2>1. /\ ApplyReport /\ exch' = exch /\ cur' = cur /\ journal' = journal
        /\ pc' \in {"settled", "booked"}
    BY <1>14 DEF SettlePending, BookOrder
  <2>2. \A o \in Orders : MeantInv(o)'
    BY <1>0, <2>1, ApplyReportKeepsRows, MeantKept
  <2>. QED  BY <1>0, <1>14, <2>1, <2>2, AppliedBornOut, JournalKept DEF JournalGrows
<1>15. CASE CreatePending
  <2>1. /\ exch' = exch /\ journal' = journal /\ pc' = "announce"
        /\ \A q \in Orders : q # cur => rows'[q] = rows[q]
    BY <1>0, <1>15 DEF CreatePending, TypeOK
  <2>2. \A q \in Orders : MeantInv(q)'
    <3>1. SUFFICES ASSUME NEW q \in Orders  PROVE MeantInv(q)'
      OBVIOUS
    <3>2. CASE q = cur
      <4>1. exch[q].status = "NONE"
        BY <1>0, <1>15, <3>2 DEF CreatePending, ResolvedInv, OrderInv
      <4>. QED  BY <2>1, <4>1 DEF MeantInv
    <3>. QED  BY <2>1, <3>2, MeantKept
  <2>. QED  BY <1>0, <2>1, <2>2, JournalKept DEF JournalGrows
<1>16. CASE PostAnswered \/ PostUnanswered \/ PostFails
  <2>1. /\ pc \in {"post", "retry"} /\ rows' = rows /\ journal' = journal
        /\ \/ Accept(cur, TRUE) /\ pc' = "book" /\ cur' = cur
           \/ Unanswered(cur) /\ pc' \notin {"settle", "book", "settled", "booked"}
    BY <1>16 DEF PostAnswered, PostUnanswered, PostFails, ReturnWithApiError, ReturnAndSave, EndCycle
  <2>2. exch[cur].total = 0
    BY <1>0, <2>1, NothingExecuted
  <2>3. ASSUME NEW o \in Orders, o = cur, NEW answer \in BOOLEAN, Accept(o, answer)
        PROVE  /\ \A q \in Orders : MeantInv(q)'
               /\ exch'[o].exec = exch'[o].total
               /\ answer => report'.exec = exch'[o].exec /\ report'.status = exch'[o].status
    <3>1. MeantInv(o)'
      BY <1>0, <2>1, <2>2, <2>3, AcceptMeant
    <3>2. /\ \A q \in Orders : q # o => exch'[q] = exch[q]
          /\ exch'[o].exec = exch'[o].total
          /\ answer => report'.exec = exch'[o].exec /\ report'.status = exch'[o].status
      BY <1>0, <2>2, <2>3, AcceptEffect
    <3>3. \A q \in Orders : MeantInv(q)'
      BY <2>1, <3>1, <3>2, MeantKept
    <3>. QED  BY <3>2, <3>3
  <2>4. CASE Accept(cur, TRUE) /\ pc' = "book" /\ cur' = cur
    <3>1. PICK o \in Orders : o = cur
      BY <1>0
    <3>2. /\ \A q \in Orders : MeantInv(q)'
          /\ report'.exec = exch'[o].total /\ report'.status = exch'[o].status
      BY <2>3, <2>4, <3>1
    <3>3. MeantInv(o)'
      BY <3>2
    <3>4. AnswerMeant'
      BY <2>1, <2>4, <3>1, <3>2, <3>3 DEF AnswerMeant, MeantInv
    <3>. QED  BY <1>0, <2>1, <2>4, <3>2, <3>4, JournalKept DEF JournalGrows
  <2>5. CASE Unanswered(cur) /\ pc' \notin {"settle", "book", "settled", "booked"}
    <3>1. CASE exch' = exch
      BY <1>7, <2>1, <2>5, <3>1 DEF JournalGrows
    <3>2. CASE Accept(cur, FALSE)
      <4>1. \A q \in Orders : MeantInv(q)'
        BY <1>0, <2>3, <3>2
      <4>. QED  BY <1>0, <2>1, <2>5, <4>1, JournalKept DEF JournalGrows
    <3>. QED  BY <2>5, <3>1, <3>2 DEF Unanswered
  <2>. QED  BY <2>1, <2>4, <2>5
<1>. QED
  BY <1>2, <1>4, <1>5, <1>6, <1>8, <1>9, <1>10, <1>12, <1>13, <1>14, <1>15, <1>16
     DEF Next, Cycle, Environment

\* run_testnet_cycle and reconcile_pending_orders call journal.record with the
\* outcome only after apply_order_result_atomically has committed it: an outcome
\* in the journal is the outcome in the store, and later answers, restarts and
\* fills leave it so.
THEOREM JournalAlwaysTruthful == ~LateDelivery => (Spec => []JournalTruthful)
<1> SUFFICES ASSUME ~LateDelivery  PROVE Spec => []JournalTruthful
  OBVIOUS
<1>1. JournalInv /\ [Next]_vars => JournalInv'
  BY JournalStep
<1>2. JournalInv => JournalTruthful
  BY DEF JournalInv, JournalTruthful, BornOut
<1>. QED  BY JournalInit, <1>1, <1>2, PTL DEF Spec
-----------------------------------------------------------------------------
(***************************************************************************)
(* The books claim no money the account has not.  A commission is booked   *)
(* either as reported, and then exactly, or as the floor of one rate over  *)
(* what a report adds; the exchange charges the same rate execution by     *)
(* execution, so what it takes adds up to no more than what is booked for  *)
(* them together.  The invariant counts, of the one unresolved order, what *)
(* is executed and not yet booked, and of the answer in hand what it adds. *)
(***************************************************************************)

LEMMA DivMul == \A a \in Nat, d \in Nat \ {0} : a \div d \in Nat /\ (a \div d) * d <= a
  BY SMT

LEMMA DivBound == \A a \in Nat, d \in Nat \ {0}, k \in Nat : k * d <= a => k <= a \div d
  BY SMT

\* Rounding down twice never takes more than rounding down once.
LEMMA FloorSum ==
  ASSUME NEW a \in Nat, NEW b \in Nat, NEW d \in Nat \ {0}
  PROVE  a \div d + b \div d <= (a + b) \div d
<1>1. PICK k \in Nat : k = a \div d /\ k * d <= a
  BY DivMul
<1>2. PICK l \in Nat : l = b \div d /\ l * d <= b
  BY DivMul
<1>3. (k + l) * d <= a + b
  <2>1. (k + l) * d = k * d + l * d
    BY SMT
  <2>2. k * d \in Nat /\ l * d \in Nat
    BY SMT
  <2>. QED  BY <1>1, <1>2, <2>1, <2>2
<1>. QED  BY <1>1, <1>2, <1>3, DivBound

\* What is left of a notional once the commission is taken off.
Net(notional) == notional - FallbackFee(notional)

\* How far the account, with what it was charged above the estimate, is ahead of
\* the books.
Spare == acct.quote + acct.above - portfolio.quote

LEMMA NetFacts ==
  /\ \A n \in Int : Net(n) \in Int
  /\ \A n \in Nat : Net(n) >= 0
  /\ Net(0) = 0
  /\ \A n, m \in Nat : Net(n + m) <= Net(n) + Net(m)
<1>0. FeeDen \in Nat \ {0}
  BY FeeDenAssumption
<1>1. \A n \in Int : Net(n) \in Int
  BY <1>0, DivIsInt DEF Net, FallbackFee
<1>2. ASSUME NEW n \in Nat  PROVE Net(n) >= 0
  <2>1. PICK k \in Nat : k = n \div FeeDen /\ k * FeeDen <= n
    BY <1>0, DivMul
  <2>2. k <= k * FeeDen
    BY <1>0, SMT
  <2>3. k * FeeDen \in Nat
    BY <1>0, SMT
  <2>. QED  BY <2>1, <2>2, <2>3 DEF Net, FallbackFee
<1>3. Net(0) = 0
  <2>1. 0 \div FeeDen = 0
    BY <1>0, SMT
  <2>. QED  BY <2>1 DEF Net, FallbackFee
<1>4. ASSUME NEW n \in Nat, NEW m \in Nat  PROVE Net(n + m) <= Net(n) + Net(m)
  <2>1. n \div FeeDen + m \div FeeDen <= (n + m) \div FeeDen
    BY <1>0, FloorSum
  <2>2. n \div FeeDen \in Int /\ m \div FeeDen \in Int /\ (n + m) \div FeeDen \in Int
    BY <1>0, DivIsInt
  <2>. QED  BY <2>1, <2>2 DEF Net, FallbackFee
<1>. QED  BY <1>1, <1>2, <1>3, <1>4

LEMMA NetOfSum ==
  ASSUME NEW n \in Nat, NEW m \in Nat
  PROVE  /\ Net(n) \in Int /\ Net(m) \in Int /\ Net(n + m) \in Int
         /\ Net(n + m) <= Net(n) + Net(m)
<1>1. n \in Int /\ m \in Int /\ n + m \in Int
  OBVIOUS
<1>2. Net(n) \in Int /\ Net(m) \in Int /\ Net(n + m) \in Int
  BY <1>1, NetFacts
<1>. QED  BY <1>2, NetFacts

\* Nothing is booked that was not paid, and nothing paid of an unknown order.
PaidInv(o) ==
  /\ 0 <= rows[o].quote /\ rows[o].quote <= exch[o].quote
  /\ exch[o].status = "NONE" => exch[o].quote = 0

\* What the answer in hand adds, less the commission it will be booked with.
Earned ==
  (report.quote - rows[cur].quote) - CommissionQuote(report, report.quote - rows[cur].quote)

DueInv ==
  /\ report.quote <= exch[cur].quote
  /\ Spare >= Earned + Net(exch[cur].quote - report.quote)

QuoteInv ==
  /\ LedgerInv
  /\ ~seeded => Submitted = {}
  /\ \A o \in Orders : PaidInv(o)
  /\ seeded /\ Submitted = {} => Spare >= 0
  /\ \A o \in Submitted : Spare >= Net(exch[o].quote - rows[o].quote)
  /\ pc \in {"settle", "book"} => DueInv

LEMMA QuoteInit == Init => QuoteInv
<1> SUFFICES ASSUME Init  PROVE QuoteInv
  OBVIOUS
<1>1. PICK n \in 0..MaxLots :
        /\ acct = [quote |-> 0, base |-> n, above |-> 0]
        /\ \/ seeded = FALSE /\ portfolio = InitialPortfolio(0)
           \/ n > 0 /\ seeded = TRUE /\ portfolio = HeldPortfolio(n)
  BY DEF Init
<1>2. \A o \in Orders : rows[o] = NoRow /\ exch[o] = NoOrder
  BY DEF Init
<1>3. Submitted = {} /\ pc = "idle"
  BY <1>2 DEF Init, Submitted, NoRow
<1>4. \A o \in Orders : PaidInv(o)
  BY <1>2 DEF PaidInv, NoRow, NoOrder
<1>5. acct.quote = 0 /\ acct.above = 0 /\ portfolio.quote = 0
  <2>1. CASE portfolio = InitialPortfolio(0)
    BY <1>1, <2>1 DEF InitialPortfolio
  <2>2. CASE portfolio = HeldPortfolio(n)
    <3>1. portfolio = [InitialPortfolio(0) EXCEPT !.base = n, !.side = "LONG", !.cost = n * UnitCost]
      BY <2>2 DEF HeldPortfolio
    <3>2. portfolio.quote = InitialPortfolio(0).quote
      BY <3>1 DEF InitialPortfolio
    <3>. QED  BY <1>1, <3>2 DEF InitialPortfolio
  <2>. QED  BY <1>1, <2>1, <2>2
<1>. QED  BY <1>3, <1>4, <1>5, LedgerInit DEF QuoteInv, Spare

\* Order o is paid the notional m, less a commission that exceeds the estimate by
\* no more than what is added to above.
IsPaid(o, m) ==
  /\ exch'[o].quote = exch[o].quote + m
  /\ exch'[o].status # "NONE"
  /\ \A q \in Orders : q # o => exch'[q] = exch[q]
  /\ acct'.quote + acct'.above >= acct.quote + acct.above + Net(m)

LEMMA NotionalIsNat == \A n \in Nat, p \in Prices : n * p \in Nat
<1> SUFFICES ASSUME NEW n \in Nat, NEW p \in Prices  PROVE n * p \in Nat
  OBVIOUS
<1>1. p \in Nat
  BY ConstantsAssumption
<1>. QED  BY <1>1, SMT

LEMMA NetOfFee ==
  ASSUME NEW m \in Nat, NEW asset, NEW d \in FeeDens
  PROVE  /\ (IF asset = "quote" THEN Fee(m, d) ELSE 0) \in Nat
         /\ (IF asset = "quote" THEN Excess(m, d) ELSE 0) \in Nat
         /\ FallbackFee(m) \in Nat
         /\ (IF asset = "quote" THEN Fee(m, d) ELSE 0)
              <= FallbackFee(m) + (IF asset = "quote" THEN Excess(m, d) ELSE 0)
<1>1. Fee(m, d) \in Nat
  <2>1. d \in Nat \ {0}
    BY ConstantsAssumption
  <2>. QED  BY <2>1, DivMul DEF Fee
<1>2. FallbackFee(m) \in Nat
  BY FeeDenAssumption, DivMul DEF FallbackFee
<1>3. Excess(m, d) \in Nat /\ Fee(m, d) <= FallbackFee(m) + Excess(m, d)
  BY <1>1, <1>2 DEF Excess
<1>. QED  BY <1>1, <1>2, <1>3

LEMMA AcceptPays ==
  ASSUME TypeOK, NEW o \in Orders, exch[o].quote = 0, exch[o].total = 0,
         NEW answer \in BOOLEAN, Accept(o, answer)
  PROVE  \E m \in Nat :
           /\ IsPaid(o, m)
           /\ answer => /\ report'.quote = m
                        /\ acct'.quote = acct.quote + (m - CommissionQuote(report', m))
                        /\ acct'.above >= acct.above
<1>1. PICK n \in Portions(rows[o].qty), p \in Prices, asset \in FeeAssets, d \in FeeDens :
        \E status \in PlacedStatuses(n, rows[o].qty) :
          /\ Execute(o, NoOrder, n, p, asset, d, status, exch[o].total)
          /\ answer => report' = Answer(o, TRUE,
                         IF asset = "quote" THEN Fee(n * p, d) ELSE 0,
                         IF asset = "base" /\ n > 0 THEN 1 ELSE 0)
  BY DEF Accept
<1>2. PICK status \in PlacedStatuses(n, rows[o].qty) :
        /\ Execute(o, NoOrder, n, p, asset, d, status, exch[o].total)
        /\ answer => report' = Answer(o, TRUE,
                        IF asset = "quote" THEN Fee(n * p, d) ELSE 0,
                        IF asset = "base" /\ n > 0 THEN 1 ELSE 0)
  BY <1>1
<1>3. n \in Nat /\ n * p \in Nat
  BY NotionalIsNat DEF Portions
<1>4. PICK m \in Nat : m = n * p
  BY <1>3
<1>5. PICK fee \in Nat, excess \in Nat :
        /\ fee = (IF asset = "quote" THEN Fee(m, d) ELSE 0)
        /\ excess = (IF asset = "quote" THEN Excess(m, d) ELSE 0)
        /\ fee <= FallbackFee(m) + excess
  BY NetOfFee
<1>6. status # "NONE"
  BY OddStatusAssumption DEF PlacedStatuses
<1>7. exch' = [exch EXCEPT ![o] = [status |-> status, exec |-> 0 + n,
                                  quote |-> 0 + m, total |-> 0 + n]]
  BY <1>2, <1>4 DEF Execute, NoOrder
<1>8. exch'[o] = [status |-> status, exec |-> 0 + n, quote |-> 0 + m, total |-> 0 + n]
  BY <1>7 DEF TypeOK
<1>9. /\ exch'[o].status = status /\ exch'[o].quote = m /\ exch'[o].exec = n
      /\ \A q \in Orders : q # o => exch'[q] = exch[q]
  BY <1>3, <1>7, <1>8 DEF TypeOK
<1>10. /\ acct'.quote = acct.quote + m - fee /\ acct.quote \in Int
       /\ acct'.above = acct.above + excess /\ acct.above \in Int
  BY <1>2, <1>4, <1>5 DEF Execute, TypeOK, Accounts
<1>11. IsPaid(o, m)
  <2>1. FallbackFee(m) \in Int
    BY FeeDenAssumption, DivIsInt DEF FallbackFee
  <2>. QED  BY <1>5, <1>6, <1>9, <1>10, <2>1 DEF IsPaid, Net
<1>12. ASSUME answer
       PROVE  /\ report'.quote = m
              /\ acct'.quote = acct.quote + (m - CommissionQuote(report', m))
              /\ acct'.above >= acct.above
  <2>1. report'.quote = m /\ report'.fills = (n > 0) /\ report'.feeQuote = fee
    BY <1>2, <1>4, <1>5, <1>9, <1>12 DEF Answer
  <2>2. CommissionQuote(report', m) = fee
    <3>1. CASE n > 0
      BY <2>1, <3>1 DEF CommissionQuote
    <3>2. CASE n = 0
      <4>1. m = 0
        BY <1>4, <3>2, ConstantsAssumption, SMT
      <4>2. FallbackFee(m) = 0 /\ fee = 0
        <5>1. FallbackFee(0) \in Int /\ 0 - FallbackFee(0) = 0
          BY FeeDenAssumption, DivIsInt, NetFacts DEF Net, FallbackFee
        <5>2. Fee(0, d) = 0
          <6>1. d \in Nat \ {0}
            BY ConstantsAssumption
          <6>. QED  BY <6>1, SMT DEF Fee
        <5>. QED  BY <1>5, <4>1, <5>1, <5>2
      <4>. QED  BY <2>1, <3>2, <4>2 DEF CommissionQuote
    <3>. QED  BY <1>3, <3>1, <3>2
  <2>. QED  BY <1>10, <2>1, <2>2
<1>. QED  BY <1>11, <1>12

LEMMA FillPays ==
  ASSUME TypeOK, NEW o \in Orders, ExchangeFills(o)
  PROVE  \E m \in Nat : IsPaid(o, m)
<1>1. PICK n \in Portions(rows[o].qty - exch[o].exec) \ {0}, p \in Prices,
           asset \in FeeAssets \ {"base"}, d \in FeeDens :
        Execute(o, exch[o], n, p, asset, d,
             IF exch[o].exec + n = rows[o].qty THEN "FILLED" ELSE "PARTIALLY_FILLED",
             exch[o].total)
  BY DEF ExchangeFills
<1>2. n \in Nat /\ n * p \in Nat
  BY NotionalIsNat DEF Portions
<1>3. PICK m \in Nat : m = n * p
  BY <1>2
<1>4. PICK fee \in Nat, excess \in Nat :
        /\ fee = (IF asset = "quote" THEN Fee(m, d) ELSE 0)
        /\ excess = (IF asset = "quote" THEN Excess(m, d) ELSE 0)
        /\ fee <= FallbackFee(m) + excess
  BY NetOfFee
<1>5. /\ exch'[o].quote = exch[o].quote + m
      /\ exch'[o].status \in {"FILLED", "PARTIALLY_FILLED"}
      /\ \A q \in Orders : q # o => exch'[q] = exch[q]
  BY <1>1, <1>3 DEF Execute, TypeOK
<1>6. /\ acct'.quote = acct.quote + m - fee /\ acct.quote \in Int
      /\ acct'.above = acct.above + excess /\ acct.above \in Int
  BY <1>1, <1>3, <1>4 DEF Execute, TypeOK, Accounts
<1>7. FallbackFee(m) \in Int
  BY FeeDenAssumption, DivIsInt DEF FallbackFee
<1>. QED  BY <1>4, <1>5, <1>6, <1>7 DEF IsPaid, Net

\* The unresolved order is paid: the account gains at least what the books will.
LEMMA QuotePaid ==
  ASSUME QuoteInv, LedgerInv', NEW o \in Orders, rows[o].status = "SUBMITTED",
         NEW m \in Nat, IsPaid(o, m),
         rows' = rows, portfolio' = portfolio, seeded' = seeded,
         pc' \in {"settle", "book"} => DueInv'
  PROVE  QuoteInv'
<1>1. Submitted' = Submitted /\ o \in Submitted
  BY DEF Submitted
<1>2. \A q \in Submitted : q = o
  BY <1>1 DEF QuoteInv, LedgerInv, ResolvedInv
<1>3. /\ exch[o].quote \in Int /\ rows[o].quote \in Int /\ acct.quote \in Int /\ acct'.quote \in Int
      /\ acct.above \in Int /\ acct'.above \in Int /\ portfolio.quote \in Int /\ PaidInv(o)
  BY DEF QuoteInv, LedgerInv, ResolvedInv, TypeOK, ExchangeOrders, Rows, Accounts, Portfolios
<1>4. ASSUME NEW q \in Orders  PROVE PaidInv(q)'
  <2>1. CASE q = o
    BY <1>3, <2>1 DEF PaidInv, IsPaid
  <2>2. CASE q # o
    BY <2>2 DEF QuoteInv, PaidInv, IsPaid
  <2>. QED  BY <2>1, <2>2
<1>5. Spare' >= Net(exch'[o].quote - rows[o].quote)
  <2>1. PICK unbooked \in Nat : unbooked = exch[o].quote - rows[o].quote
    BY <1>3 DEF PaidInv
  <2>2. exch'[o].quote - rows[o].quote = unbooked + m
    BY <1>3, <2>1 DEF IsPaid
  <2>3. /\ Net(unbooked) \in Int /\ Net(m) \in Int /\ Net(unbooked + m) \in Int
        /\ Net(unbooked + m) <= Net(unbooked) + Net(m)
    BY NetOfSum
  <2>4. Spare >= Net(unbooked)
    BY <1>1, <2>1 DEF QuoteInv
  <2>. QED  BY <1>3, <2>2, <2>3, <2>4 DEF Spare, IsPaid
<1>6. \A q \in Submitted' : Spare' >= Net(exch'[q].quote - rows'[q].quote)
  BY <1>1, <1>2, <1>5
<1>7. seeded
  BY <1>1 DEF QuoteInv
<1>. QED  BY <1>1, <1>4, <1>6, <1>7 DEF QuoteInv

\* While the answer waits to be applied, what executes further is paid on top.
LEMMA DueWhilePaid ==
  ASSUME QuoteInv, TypeOK', pc \in {"settle", "book"}, NEW o \in Orders, rows[o].status = "SUBMITTED",
         NEW m \in Nat, IsPaid(o, m),
         rows' = rows, portfolio' = portfolio, report' = report, cur' = cur
  PROVE  DueInv'
<1>1. o = cur /\ TypeOK
  <2>1. cur \in Submitted /\ o \in Submitted
    BY DEF QuoteInv, LedgerInv, ResolvedInv, TypeOK, Unresolved, Submitted
  <2>. QED  BY <2>1 DEF QuoteInv, LedgerInv, ResolvedInv
<1>2. /\ exch[o].quote \in Int /\ rows[o].quote \in Int /\ acct.quote \in Int /\ acct'.quote \in Int
      /\ acct.above \in Int /\ acct'.above \in Int /\ portfolio.quote \in Int /\ report.quote \in Int /\ report \in Reports
  BY <1>1 DEF TypeOK, ExchangeOrders, Rows, Accounts, Portfolios, Reports
<1>3. Earned' = Earned /\ Earned \in Int
  <2>1. report.quote - rows[cur].quote \in Int
    BY <1>1, <1>2
  <2>2. CommissionQuote(report, report.quote - rows[cur].quote) \in Int
    BY <1>2, <2>1, CommissionTypes
  <2>. QED  BY <2>1, <2>2 DEF Earned
<1>4. PICK unseen \in Nat : unseen = exch[o].quote - report.quote
  BY <1>1, <1>2 DEF QuoteInv, DueInv
<1>5. exch'[o].quote - report.quote = unseen + m
  BY <1>2, <1>4 DEF IsPaid
<1>6. /\ Net(unseen + m) <= Net(unseen) + Net(m)
      /\ Net(unseen) \in Int /\ Net(m) \in Int /\ Net(unseen + m) \in Int
  BY NetOfSum
<1>7. Spare >= Earned + Net(unseen)
  BY <1>1, <1>4 DEF QuoteInv, DueInv
<1>8. Spare' >= Earned + Net(unseen + m)
  BY <1>2, <1>3, <1>6, <1>7 DEF Spare, IsPaid
<1>9. report.quote <= exch'[o].quote
  BY <1>2, <1>4 DEF IsPaid
<1>. QED  BY <1>1, <1>3, <1>5, <1>8, <1>9 DEF DueInv

LEMMA AfterSellQuote ==
  ASSUME NEW p \in Portfolios, NEW qty, NEW notional \in Int, NEW fee \in Int, NEW estimated \in BOOLEAN
  PROVE  AfterSell(p, qty, notional, fee, estimated).quote = p.quote + notional - fee
<1> DEFINE soldCost == (p.cost * qty) \div p.base
           closed == qty = p.base
           quote == p.quote + notional - fee
           base == p.base - qty
           side == IF closed THEN "FLAT" ELSE "LONG"
           cost == IF closed THEN 0 ELSE p.cost - soldCost
           pnl == p.pnl + notional - fee - soldCost
           flag == ~closed /\ (p.estimated \/ estimated)
           sold == [p EXCEPT !.quote = quote, !.base = base, !.side = side,
                             !.cost = cost, !.pnl = pnl, !.estimated = flag]
<1>1. AfterSell(p, qty, notional, fee, estimated) = sold
  BY Zenon DEF AfterSell
<1>2. sold.quote = quote
  <2>. HIDE DEF quote, base, side, cost, pnl, flag
  <2>. QED  BY DEF Portfolios
<1>. HIDE DEF sold
<1>. QED  BY <1>1, <1>2

\* Applying the answer in hand moves what it earned from the account's lead.
LEMMA QuoteApplied ==
  ASSUME QuoteInv, LedgerInv', SettlePending \/ BookOrder
  PROVE  QuoteInv'
<1>1. /\ pc \in {"settle", "book"} /\ ApplyReport /\ exch' = exch /\ acct' = acct
      /\ cur' = cur /\ pc' \in {"settled", "booked"} /\ seeded' = seeded
  BY DEF SettlePending, BookOrder, ApplyReport, exchange
<1>2. /\ ResolvedInv /\ TypeOK /\ cur \in Orders /\ cur \in Submitted /\ OrderInv(cur)
      /\ PaidInv(cur) /\ DueInv
  BY <1>1 DEF QuoteInv, LedgerInv, ResolvedInv, TypeOK, Unresolved, Submitted
<1>3. seeded
  BY <1>2 DEF QuoteInv
<1>4. /\ exch[cur].quote \in Int /\ rows[cur].quote \in Int /\ acct.quote \in Int /\ acct.above \in Int
      /\ portfolio.quote \in Int /\ report.quote \in Int /\ report \in Reports
      /\ rows[cur] \in Rows /\ portfolio \in Portfolios /\ (~report.fills) \in BOOLEAN
  BY <1>2 DEF TypeOK, ExchangeOrders, Rows, Accounts, Portfolios, Reports
<1>5. /\ rows'[cur] = NewRow(report, rows[cur]) /\ rows[cur].side = "SELL"
      /\ rows'[cur].status \in {"SUBMITTED", "RESOLVED"}
      /\ \A q \in Orders : q # cur => rows'[q] = rows[q]
  BY <1>1, <1>2, ApplyReportKeepsRows DEF OrderInv
<1>6. report.quote >= rows[cur].quote
  BY <1>1 DEF ApplyReport, Accepted, Consistent
<1>7. PaidInv(cur)' /\ Spare' >= Net(exch[cur].quote - rows'[cur].quote) /\ Spare' \in Int
  <2>1. CASE ~HasNewFill(report, rows[cur])
    <3>1. rows'[cur].quote = rows[cur].quote
      BY <1>4, <1>5, <2>1 DEF NewRow, Rows
    <3>2. portfolio' = portfolio
      BY <1>1, <2>1 DEF ApplyReport, NewPortfolio
    <3>3. Spare >= Net(exch[cur].quote - rows[cur].quote)
      BY <1>2 DEF QuoteInv
    <3>. QED  BY <1>1, <1>2, <1>4, <3>1, <3>2, <3>3 DEF PaidInv, Spare
  <2>2. CASE HasNewFill(report, rows[cur])
    <3>. DEFINE notional == report.quote - rows[cur].quote
                fee == CommissionQuote(report, notional)
                qty == report.exec - rows[cur].exec
    <3>1. rows'[cur].quote = report.quote
      BY <1>4, <1>5, <2>2 DEF NewRow, Rows
    <3>2. portfolio' = AfterSell(portfolio, qty, notional, fee, ~report.fills)
      BY <1>1, <1>5, <2>2 DEF ApplyReport, NewPortfolio
    <3>3. notional \in Int /\ fee \in Int
      <4>1. notional \in Int
        BY <1>4
      <4>. QED  BY <1>4, <4>1, CommissionTypes
    <3>4. portfolio'.quote = portfolio.quote + notional - fee
      <4>. HIDE DEF qty, notional, fee
      <4>1. AfterSell(portfolio, qty, notional, fee, ~report.fills).quote
              = portfolio.quote + notional - fee
        <5>1. portfolio \in Portfolios /\ (~report.fills) \in BOOLEAN
          BY <1>4
        <5>. QED  BY <3>3, <5>1, AfterSellQuote
      <4>. QED  BY <3>2, <4>1
    <3>5. Earned = notional - fee
      BY DEF Earned
    <3>6. Spare' = Spare - Earned /\ Spare \in Int /\ Earned \in Int
      <4>. HIDE DEF qty, notional, fee
      <4>. QED  BY <1>1, <1>4, <3>3, <3>4, <3>5 DEF Spare
    <3>7. Net(exch[cur].quote - report.quote) \in Int
      BY <1>4, NetFacts
    <3>8. Spare' >= Net(exch[cur].quote - report.quote) /\ Spare' \in Int
      BY <1>2, <3>6, <3>7 DEF DueInv
    <3>9. PaidInv(cur)'
      BY <1>1, <1>2, <1>4, <1>6, <3>1 DEF PaidInv, DueInv
    <3>. QED  BY <3>1, <3>8, <3>9
  <2>. QED  BY <2>1, <2>2
<1>8. ASSUME NEW q \in Orders  PROVE PaidInv(q)'
  <2>1. CASE q = cur
    BY <1>1, <1>7, <2>1
  <2>2. CASE q # cur
    BY <1>1, <1>5, <2>2 DEF QuoteInv, PaidInv
  <2>. QED  BY <2>1, <2>2
<1>9. \A q \in Submitted' : q = cur
  BY <1>2, <1>5 DEF ResolvedInv, Submitted
<1>10. Spare' >= 0
  <2>1. PICK k \in Nat : k = exch[cur].quote - rows'[cur].quote
    <3>1. rows'[cur].quote \in Int /\ rows'[cur].quote <= exch[cur].quote
      <4>1. rows'[cur].quote \in Int
        BY <1>1, <1>2, ApplyReportTypes DEF Rows
      <4>. QED  BY <1>1, <1>7, <4>1 DEF PaidInv
    <3>. QED  BY <1>4, <3>1
  <2>2. Net(k) >= 0 /\ Net(k) \in Int
    BY NetFacts
  <2>. QED  BY <1>7, <2>1, <2>2
<1>. QED  BY <1>1, <1>3, <1>7, <1>8, <1>9, <1>10 DEF QuoteInv

\* A step that leaves the store, the exchange and the account alone.
LEMMA QuoteQuiet ==
  ASSUME QuoteInv, LedgerInv', rows' = rows, portfolio' = portfolio, seeded' = seeded,
         \A o \in Orders : exch'[o].quote = exch[o].quote /\ (exch'[o].status = "NONE" => exch[o].status = "NONE"),
         acct' = acct, pc' \in {"settle", "book"} => DueInv'
  PROVE  QuoteInv'
<1>1. Submitted' = Submitted
  BY DEF Submitted
<1>2. \A o \in Orders : PaidInv(o)'
  BY DEF QuoteInv, PaidInv
<1>3. Spare' = Spare
  BY DEF Spare
<1>4. \A o \in Submitted' : Spare' >= Net(exch'[o].quote - rows'[o].quote)
  <2>1. \A o \in Submitted : exch'[o].quote = exch[o].quote
    BY DEF Submitted
  <2>. QED  BY <1>1, <1>3, <2>1 DEF QuoteInv
<1>. QED  BY <1>1, <1>2, <1>3, <1>4 DEF QuoteInv

\* An answer without fills to a query is of all the exchange has paid so far.
LEMMA DueWhenQueried ==
  ASSUME QuoteInv, NEW o \in Submitted, rows' = rows, portfolio' = portfolio, exch' = exch,
         acct' = acct, cur' = o, report'.quote = exch[o].quote, report'.fills = FALSE
  PROVE  DueInv'
<1>1. /\ o \in Orders /\ exch[o].quote \in Int /\ rows[o].quote \in Int
      /\ acct.quote \in Int /\ acct.above \in Int /\ portfolio.quote \in Int
  BY DEF Submitted, QuoteInv, LedgerInv, ResolvedInv, TypeOK, ExchangeOrders, Rows, Accounts, Portfolios
<1>2. Earned' = Net(exch[o].quote - rows[o].quote)
  BY DEF Earned, CommissionQuote, Net
<1>3. exch'[cur'].quote - report'.quote = 0
  BY <1>1
<1>4. Spare' = Spare /\ Spare >= Net(exch[o].quote - rows[o].quote)
  BY DEF Spare, QuoteInv
<1>5. Net(exch[o].quote - rows[o].quote) \in Int /\ Net(0) = 0
  BY <1>1, NetFacts
<1>6. (Spare >= Earned + Net(exch[cur].quote - report.quote))'
  BY <1>2, <1>3, <1>4, <1>5
<1>. QED  BY <1>1, <1>6 DEF DueInv

LEMMA NothingPaid ==
  ASSUME QuoteInv, pc \in {"post", "retry"}
  PROVE  exch[cur].quote = 0 /\ rows[cur].quote = 0
<1>1. cur \in Orders /\ exch[cur].status = "NONE" /\ PaidInv(cur) /\ rows[cur].quote \in Int
  BY DEF QuoteInv, LedgerInv, ResolvedInv, Unresolved, TypeOK, Rows
<1>. QED  BY <1>1 DEF PaidInv

LEMMA QuoteAnswered ==
  ASSUME QuoteInv, LedgerInv', PostAnswered
  PROVE  QuoteInv'
<1>1. /\ pc \in {"post", "retry"} /\ Accept(cur, TRUE) /\ rows' = rows /\ portfolio' = portfolio
      /\ seeded' = seeded /\ cur' = cur
  BY DEF PostAnswered, store
<1>2. /\ TypeOK /\ TypeOK' /\ ResolvedInv /\ cur \in Orders
  BY DEF QuoteInv, LedgerInv, ResolvedInv, TypeOK
<1>3. /\ exch[cur].quote = 0 /\ rows[cur].quote = 0 /\ exch[cur].total = 0
      /\ rows[cur].status = "SUBMITTED"
  BY <1>1, <1>2, NothingPaid, NothingExecuted
<1>4. PICK o \in Orders : o = cur
  BY <1>2
<1>5. PICK m \in Nat :
        /\ IsPaid(o, m)
        /\ report'.quote = m
        /\ acct'.quote = acct.quote + (m - CommissionQuote(report', m))
        /\ acct'.above >= acct.above
  BY <1>1, <1>2, <1>3, <1>4, AcceptPays
<1>6. /\ acct.quote \in Int /\ portfolio.quote \in Int /\ report' \in Reports
      /\ acct.above \in Int /\ acct'.above \in Int
  BY <1>2 DEF TypeOK, Accounts, Portfolios
<1>7. Spare >= 0
  <2>1. cur \in Submitted
    BY <1>2, <1>3 DEF Submitted
  <2>2. Spare >= Net(exch[cur].quote - rows[cur].quote)
    BY <2>1 DEF QuoteInv
  <2>. QED  BY <1>3, <2>2, NetFacts
<1>8. DueInv'
  <2>1. Earned' = m - CommissionQuote(report', m)
    <3>1. m - rows[cur].quote = m
      BY <1>3
    <3>. QED  BY <1>1, <1>5, <3>1 DEF Earned
  <2>2. CommissionQuote(report', m) \in Int
    BY <1>6, CommissionTypes
  <2>3. exch'[cur'].quote = m
    BY <1>1, <1>3, <1>4, <1>5 DEF IsPaid
  <2>4. Spare' >= Spare + Earned' /\ Spare \in Int /\ Spare' \in Int /\ Earned' \in Int
    BY <1>1, <1>5, <1>6, <2>1, <2>2 DEF Spare
  <2>5. exch'[cur'].quote - report'.quote = 0 /\ Net(0) = 0
    BY <1>5, <2>3, NetFacts
  <2>6. (Spare >= Earned + Net(exch[cur].quote - report.quote))'
    BY <1>7, <2>4, <2>5
  <2>. QED  BY <1>5, <2>3, <2>6 DEF DueInv
<1>. QED  BY <1>1, <1>3, <1>4, <1>5, <1>8, QuotePaid

LEMMA QuoteUnanswered ==
  ASSUME ~LateDelivery, QuoteInv, LedgerInv', PostUnanswered \/ PostFails
  PROVE  QuoteInv'
<1>1. /\ pc \in {"post", "retry"} /\ Unanswered(cur) /\ rows' = rows /\ portfolio' = portfolio
      /\ seeded' = seeded /\ pc' \notin {"settle", "book"}
  BY DEF PostUnanswered, PostFails, ReturnWithApiError, ReturnAndSave, EndCycle, store
<1>2. /\ TypeOK /\ ResolvedInv /\ cur \in Orders
  BY DEF QuoteInv, LedgerInv, ResolvedInv, TypeOK
<1>3. /\ exch[cur].quote = 0 /\ exch[cur].total = 0 /\ rows[cur].status = "SUBMITTED"
  BY <1>1, <1>2, NothingPaid, NothingExecuted
<1>4. CASE UNCHANGED exchange
  BY <1>1, <1>4, QuoteQuiet DEF exchange
<1>5. CASE Accept(cur, FALSE)
  <2>1. PICK o \in Orders : o = cur
    BY <1>2
  <2>2. PICK m \in Nat : IsPaid(o, m)
    BY <1>2, <1>3, <1>5, <2>1, AcceptPays
  <2>. QED  BY <1>1, <1>3, <2>1, <2>2, QuotePaid
<1>. QED  BY <1>1, <1>4, <1>5 DEF Unanswered

LEMMA QuoteCreated ==
  ASSUME QuoteInv, LedgerInv', TypeOK', CreatePending
  PROVE  QuoteInv'
<1>1. /\ ResolvedInv /\ TypeOK /\ cur \in Orders /\ rows[cur].status = "NONE"
      /\ exch[cur].status = "NONE" /\ PaidInv(cur)
  BY DEF CreatePending, QuoteInv, LedgerInv, ResolvedInv, OrderInv, TypeOK
<1>2. /\ Submitted = {} /\ Submitted' = {cur}
  BY <1>1, ResolvedCreated
<1>3. /\ exch' = exch /\ acct' = acct /\ cur' = cur /\ pc = "create" /\ pc' = "announce"
      /\ portfolio' = portfolio /\ seeded' = seeded
      /\ rows' = [rows EXCEPT ![cur] = [NoRow EXCEPT !.status = "SUBMITTED",
                                                    !.qty = SellQuantity(portfolio.base)]]
  BY <1>1 DEF CreatePending, exchange, TypeOK
<1>4. rows'[cur].quote = 0 /\ \A q \in Orders : q # cur => rows'[q] = rows[q]
  BY <1>1, <1>3 DEF NoRow, TypeOK
<1>5. exch[cur].quote = 0
  BY <1>1 DEF PaidInv
<1>6. ASSUME NEW o \in Orders  PROVE PaidInv(o)'
  <2>1. CASE o = cur
    BY <1>3, <1>4, <1>5, <2>1 DEF PaidInv
  <2>2. CASE o # cur
    BY <1>3, <1>4, <2>2 DEF QuoteInv, PaidInv
  <2>. QED  BY <2>1, <2>2
<1>7. seeded /\ Spare' = Spare /\ Spare >= 0
  BY <1>2, <1>3 DEF QuoteInv, LedgerInv, Spare
<1>8. \A o \in Submitted' : Spare' >= Net(exch'[o].quote - rows'[o].quote)
  <2>1. exch'[cur].quote - rows'[cur].quote = 0
    BY <1>3, <1>4, <1>5
  <2>. QED  BY <1>2, <1>7, <2>1, NetFacts
<1>. QED  BY <1>2, <1>3, <1>6, <1>7, <1>8 DEF QuoteInv

LEMMA QuoteStep == ~LateDelivery /\ QuoteInv /\ [Next]_vars => QuoteInv'
<1> SUFFICES ASSUME ~LateDelivery, QuoteInv, [Next]_vars  PROVE QuoteInv'
  OBVIOUS
<1>. USE DEF store, exchange
<1>0. /\ LedgerInv /\ LedgerInv' /\ ResolvedInv /\ TypeOK /\ TypeOK' /\ cur \in Orders
  BY LedgerInvStep DEF QuoteInv, LedgerInv, ResolvedInv, TypeOK
<1>1. ASSUME rows' = rows, portfolio' = portfolio, seeded' = seeded, exch' = exch, acct' = acct,
             \/ pc' \notin {"settle", "book"}
             \/ pc' = pc /\ cur' = cur /\ report' = report
             \/ DueInv'
      PROVE  QuoteInv'
  <2>1. pc' = pc /\ cur' = cur /\ report' = report => (pc' \in {"settle", "book"} => DueInv')
    BY <1>1 DEF QuoteInv, DueInv, Earned, Spare
  <2>. QED  BY <1>0, <1>1, <2>1, QuoteQuiet
<1>2. CASE UNCHANGED vars \/ ToggleKillSwitch
  BY <1>1, <1>2 DEF vars, ToggleKillSwitch
<1>3. ASSUME NEW o \in Orders, ExchangeFills(o)  PROVE QuoteInv'
  <2>1. PICK m \in Nat : IsPaid(o, m)
    BY <1>0, <1>3, FillPays
  <2>2. rows[o].status = "SUBMITTED"
    <3>1. ResolvedInv /\ TypeOK'
      BY <1>0
    <3>. QED  BY <1>3, <3>1, ResolvedFills
  <2>3. /\ rows' = rows /\ portfolio' = portfolio /\ seeded' = seeded /\ pc' = pc
        /\ report' = report /\ cur' = cur
    BY <1>3 DEF ExchangeFills, UnchangedProgram
  <2>. QED  BY <1>0, <2>1, <2>2, <2>3, DueWhilePaid, QuotePaid
<1>4. ASSUME NEW o \in Orders, ExchangeCloses(o)  PROVE QuoteInv'
  <2>1. /\ rows' = rows /\ portfolio' = portfolio /\ seeded' = seeded /\ pc' = pc
        /\ report' = report /\ cur' = cur /\ acct' = acct
    BY <1>4 DEF ExchangeCloses, UnchangedProgram
  <2>2. \A q \in Orders : exch'[q].quote = exch[q].quote /\ (exch'[q].status = "NONE" => exch[q].status = "NONE")
    BY <1>0, <1>4 DEF ExchangeCloses, TypeOK, ExchangeOrders
  <2>3. pc' \in {"settle", "book"} => DueInv'
    <3>1. exch'[cur].quote = exch[cur].quote
      BY <1>0, <2>2
    <3>. QED  BY <2>1, <3>1 DEF QuoteInv, DueInv, Earned, Spare
  <2>. QED  BY <1>0, <2>1, <2>2, <2>3, QuoteQuiet
<1>5. ASSUME NEW o \in Orders, LateArrival(o)  PROVE QuoteInv'
  BY <1>0, <1>5 DEF LateArrival, ResolvedInv
<1>6. CASE \/ BeginCycle \/ RefuseColdStart \/ BlockOnUnknown \/ NoPendingLeft \/ JournalSettled
           \/ CheckBalances \/ NoOrderThisCycle \/ ApproveExit \/ JournalSubmitted \/ QueryNotFound
           \/ QueryUnknown \/ JournalBooked \/ SaveRisk \/ Crash
  <2>1. /\ rows' = rows /\ portfolio' = portfolio /\ seeded' = seeded /\ exch' = exch
        /\ acct' = acct /\ pc' \notin {"settle", "book"}
    BY <1>6 DEF BeginCycle, RefuseColdStart, BlockOnUnknown, NoPendingLeft, JournalSettled,
         CheckBalances, NoOrderThisCycle, ApproveExit, JournalSubmitted, QueryNotFound,
         QueryUnknown, JournalBooked, SaveRisk, Crash, ReturnAndSave, ReturnWithApiError, EndCycle
  <2>. QED  BY <1>1, <2>1
<1>7. CASE SeedPortfolio
  <2>1. /\ seeded' = TRUE /\ ~seeded /\ rows' = rows /\ exch' = exch /\ acct' = acct
        /\ portfolio' = InitialPortfolio(acct.quote) /\ pc' = "pending"
    BY <1>0, <1>7 DEF SeedPortfolio, LedgerInv
  <2>2. Submitted = {} /\ Submitted' = {}
    BY <2>1 DEF QuoteInv, Submitted
  <2>3. Spare' >= 0
    BY <1>0, <2>1 DEF Spare, InitialPortfolio, TypeOK, Accounts
  <2>4. \A o \in Orders : PaidInv(o)'
    BY <2>1 DEF QuoteInv, PaidInv
  <2>. QED  BY <1>0, <2>1, <2>2, <2>3, <2>4 DEF QuoteInv
<1>8. CASE QueryPending
  <2>1. PICK o \in Submitted :
          /\ cur' = o
          /\ report' = IF NotFound(o) THEN NeverSubmitted(o) ELSE Queried(o)
    BY <1>8 DEF QueryPending
  <2>2. /\ o \in Orders /\ PaidInv(o) /\ rows[o].quote \in Int
    BY <1>0 DEF QuoteInv, Submitted, TypeOK, Rows
  <2>3. report'.quote = exch[o].quote /\ report'.fills = FALSE
    <3>1. CASE NotFound(o)
      BY <2>1, <2>2, <3>1 DEF NotFound, PaidInv, NeverSubmitted, NoReport
    <3>2. CASE ~NotFound(o)
      BY <2>1, <3>2 DEF Queried, NoReport
    <3>. QED  BY <3>1, <3>2
  <2>4. /\ rows' = rows /\ portfolio' = portfolio /\ seeded' = seeded /\ exch' = exch /\ acct' = acct
    BY <1>8 DEF QueryPending
  <2>5. DueInv'
    BY <2>1, <2>3, <2>4, DueWhenQueried
  <2>. QED  BY <1>1, <2>4, <2>5
<1>9. CASE QuerySubmitted
  <2>1. /\ rows' = rows /\ portfolio' = portfolio /\ seeded' = seeded /\ exch' = exch
        /\ acct' = acct /\ cur' = cur /\ report' = Queried(cur)
    BY <1>9 DEF QuerySubmitted
  <2>2. cur \in Submitted
    BY <1>0, <1>9 DEF QuerySubmitted, ResolvedInv, Unresolved, Submitted
  <2>3. PICK o \in Submitted : o = cur
    BY <2>2
  <2>4. report'.quote = exch[o].quote /\ report'.fills = FALSE
    BY <2>1, <2>3 DEF Queried, NoReport
  <2>5. DueInv'
    BY <2>1, <2>3, <2>4, DueWhenQueried
  <2>. QED  BY <1>1, <2>1, <2>5
<1>10. CASE SettlePending \/ BookOrder
  BY <1>0, <1>10, QuoteApplied
<1>11. CASE CreatePending
  BY <1>0, <1>11, QuoteCreated
<1>12. CASE PostAnswered
  BY <1>0, <1>12, QuoteAnswered
<1>13. CASE PostUnanswered \/ PostFails
  BY <1>0, <1>13, QuoteUnanswered
<1>. QED
  BY <1>2, <1>3, <1>4, <1>5, <1>6, <1>7, <1>8, <1>9, <1>10, <1>11, <1>12, <1>13
     DEF Next, Cycle, Environment

\* compute_commission_buckets and its fallback estimate: at whatever rates and in
\* whatever assets the exchange charges, and however an order is executed in parts,
\* the quote balance the store holds once nothing is unresolved exceeds the account
\* at most by what was charged above taker_fee_pct.
THEOREM QuoteNeverOverstated == ~LateDelivery => (Spec => []QuoteNotOverstated)
<1> SUFFICES ASSUME ~LateDelivery  PROVE Spec => []QuoteNotOverstated
  OBVIOUS
<1>1. QuoteInv /\ [Next]_vars => QuoteInv'
  BY QuoteStep
<1>2. QuoteInv => QuoteNotOverstated
  <2>. SUFFICES ASSUME QuoteInv, seeded, Submitted = {}  PROVE portfolio.quote <= acct.quote + acct.above
    BY DEF QuoteNotOverstated
  <2>1. acct.quote \in Int /\ acct.above \in Int /\ portfolio.quote \in Int
    BY DEF QuoteInv, LedgerInv, ResolvedInv, TypeOK, Accounts, Portfolios
  <2>. QED  BY <2>1 DEF QuoteInv, Spare
<1>. QED  BY QuoteInit, <1>1, <1>2, PTL DEF Spec
=============================================================================
