---------------------------- MODULE TestnetCycle ----------------------------
(***************************************************************************)
(* run_testnet_cycle (execution/live_runner.py) and everything it drives:  *)
(* startup reconciliation, the execution store, the risk state, the        *)
(* journal and the kill switch, against an exchange that may lose a        *)
(* request, lose its answer, process it late, or execute in parts.         *)
(*                                                                         *)
(* One process runs a cycle and exits; a scheduler or a person starts the  *)
(* next.  Each action is the code between two points where a crash or the  *)
(* exchange can intervene: a commit, an HTTP call, a journal write.  What  *)
(* the process holds in memory is lost when the cycle ends or crashes;     *)
(* portfolio, rows, risk, journal and killSwitch are on disk.              *)
(***************************************************************************)
EXTENDS OrderApplication, FiniteSets

CONSTANTS
  MaxCandle,      \* bound: completed candles the cycles can see
  CandlesPerDay,  \* candles that share a UTC day
  MaxLots,        \* bound: lots of base asset the account starts with
  StepSize,       \* LOT_SIZE step, in lots
  MinQty,         \* LOT_SIZE minimum, in lots
  Prices,         \* prices a lot can execute at
  FeeAssets,      \* assets the exchange may take its commission in
  FeeDens,        \* rates it may charge: 1 / d, whatever taker_fee_pct says
  UnitCost,       \* what a lot of a position held at the start has cost
  MaxApiErrors,   \* risk.max_consecutive_api_errors
  Cooldown,       \* risk.cooldown_bars_after_loss
  LateDelivery    \* a request the client gave up on may still arrive

ASSUME ConstantsAssumption ==
  /\ {MaxCandle, CandlesPerDay, StepSize, MinQty, MaxApiErrors} \subseteq Nat \ {0}
  /\ {MaxLots, UnitCost, Cooldown} \subseteq Nat
  /\ Prices \subseteq Nat \ {0}
  /\ FeeDens \subseteq Nat \ {0}
  /\ FeeAssets \subseteq {"quote", "base", "other"}
  /\ LateDelivery \in BOOLEAN

VARIABLES
  pc,         \* where the running cycle is; "idle" when none runs
  candle,     \* the newest completed candle, known to the running cycle
  cur,        \* client order id in hand: the candle of its EXIT signal
  report,     \* the answer in hand, before it is applied
  mem,        \* the RiskState object in memory
  blocked,    \* reconciliation_blocked in memory
  seeded,     \* the portfolio_state row exists
  portfolio,  \* portfolio_state
  rows,       \* pending_orders
  risk,       \* risk_state row, or NoRisk
  journal,    \* order events journaled, with the order they name
  killSwitch, \* the flag file exists
  exch,       \* the exchange's record of each client order id
  acct,       \* the account's balances at the exchange, free and locked, and
              \* what it was charged above taker_fee_pct, which nobody reads
  inflight,   \* requests sent, given up on, and not yet arrived
  dust        \* base the cold start left out of the books

store    == <<seeded, portfolio, rows>>
exchange == <<exch, acct, inflight>>
vars     == <<pc, candle, cur, report, mem, blocked, store, risk, journal,
              killSwitch, exchange, dust>>

Orders == 1..MaxCandle

NoRisk   == [day |-> -1, trades |-> 0, cooldown |-> 0, errors |-> 0]
NoReport == [status |-> "NONE", exec |-> 0, quote |-> 0,
             fills |-> FALSE, feeQuote |-> 0, feeBase |-> 0]
NoRow    == [status |-> "NONE", side |-> "SELL", qty |-> 0, exec |-> 0,
             quote |-> 0, feeQuote |-> 0, feeBase |-> 0]
NoOrder  == [status |-> "NONE", exec |-> 0, quote |-> 0, total |-> 0]

\* A position the store was seeded with: the books agree with the account.
HeldPortfolio(n) ==
  [InitialPortfolio(0) EXCEPT !.base = n, !.side = "LONG", !.cost = n * UnitCost]

Init ==
  /\ pc = "idle" /\ candle = 1
  /\ cur = 1 /\ report = NoReport /\ mem = NoRisk /\ blocked = FALSE
  /\ rows = [o \in Orders |-> NoRow]
  /\ risk = NoRisk
  /\ journal = {}
  /\ killSwitch = FALSE
  /\ exch = [o \in Orders |-> NoOrder]
  /\ inflight = {}
  /\ dust = 0
  /\ \E n \in 0..MaxLots :
       /\ acct = [quote |-> 0, base |-> n, above |-> 0]
       /\ \/ seeded = FALSE /\ portfolio = InitialPortfolio(0)
          \/ n > 0 /\ seeded = TRUE /\ portfolio = HeldPortfolio(n)

-----------------------------------------------------------------------------
(* The exchange (external).                                                *)

\* The commission is the exchange's own: taker_fee_pct only estimates it.
Fee(notional, d) == notional \div d

\* What a commission exceeds the program's estimate of it by.
Excess(notional, d) ==
  IF Fee(notional, d) > FallbackFee(notional) THEN Fee(notional, d) - FallbackFee(notional) ELSE 0

\* Executions are whole steps of the symbol's lot size.
Portions(qty) == {n \in 0..qty : n % StepSize = 0}

Answer(o, direct, feeQuote, feeBase) ==
  [status |-> exch'[o].status, exec |-> exch'[o].exec, quote |-> exch'[o].quote,
   fills |-> direct /\ exch'[o].exec > 0, feeQuote |-> feeQuote, feeBase |-> feeBase]

\* n more lots of order o execute at price p, the commission of rate 1 / d taken
\* in asset.
Execute(o, base, n, p, asset, d, status, total) ==
  /\ exch' = [exch EXCEPT ![o] = [status |-> status, exec |-> base.exec + n,
                                  quote |-> base.quote + n * p, total |-> total + n]]
  /\ acct' = [quote |-> acct.quote + n * p - (IF asset = "quote" THEN Fee(n * p, d) ELSE 0),
              base |-> acct.base - n - (IF asset = "base" /\ n > 0 THEN 1 ELSE 0),
              above |-> acct.above + (IF asset = "quote" THEN Excess(n * p, d) ELSE 0)]

PlacedStatuses(n, qty) ==
  OddStatus \cup
    (IF n = qty THEN {"FILLED"}
     ELSE IF n = 0 THEN {"NEW", "EXPIRED"} ELSE {"PARTIALLY_FILLED", "EXPIRED"})

\* The exchange accepts a market sell it can fund, unless one with the same
\* client order id is still open, and executes it wholly, partly or not at all.
Fundable(o) == exch[o].status \notin Open /\ rows[o].qty <= acct.base

Accept(o, answer) ==
  /\ Fundable(o)
  /\ \E n \in Portions(rows[o].qty), p \in Prices, asset \in FeeAssets, d \in FeeDens :
       \E status \in PlacedStatuses(n, rows[o].qty) :
         /\ asset = "base" => n < acct.base
         /\ Execute(o, NoOrder, n, p, asset, d, status, exch[o].total)
         /\ answer => report' = Answer(o, TRUE,
                        IF asset = "quote" THEN Fee(n * p, d) ELSE 0,
                        IF asset = "base" /\ n > 0 THEN 1 ELSE 0)

\* A request whose sender saw no answer: lost, executed, or still under way.
Unanswered(o) ==
  \/ UNCHANGED exchange
  \/ Accept(o, FALSE) /\ UNCHANGED inflight
  \/ /\ LateDelivery
     /\ inflight' = inflight \cup {o}
     /\ UNCHANGED <<exch, acct>>

UnchangedProgram == UNCHANGED <<pc, candle, cur, report, mem, blocked, store, risk,
                                journal, killSwitch, dust>>

\* An open order executes further.
ExchangeFills(o) ==
  /\ exch[o].status \in Open
  /\ \E n \in Portions(rows[o].qty - exch[o].exec) \ {0}, p \in Prices,
        asset \in FeeAssets \ {"base"}, d \in FeeDens :
       Execute(o, exch[o], n, p, asset, d,
               IF exch[o].exec + n = rows[o].qty THEN "FILLED" ELSE "PARTIALLY_FILLED",
               exch[o].total)
  /\ UNCHANGED inflight /\ UnchangedProgram

\* An open order ends unfilled: canceled, rejected and expired look the same
\* to the program.
ExchangeCloses(o) ==
  /\ exch[o].status \in Open
  /\ exch' = [exch EXCEPT ![o].status = "EXPIRED"]
  /\ UNCHANGED <<acct, inflight>> /\ UnchangedProgram

\* A late request arrives, or is dropped on the way or refused.
LateArrival(o) ==
  /\ o \in inflight
  /\ inflight' = inflight \ {o}
  /\ Accept(o, FALSE) \/ UNCHANGED <<exch, acct>>
  /\ UnchangedProgram

-----------------------------------------------------------------------------
(* Ends of a cycle.                                                        *)

EndCycle == pc' = "idle" /\ cur' = 1 /\ report' = NoReport /\ mem' = NoRisk /\ blocked' = FALSE

Day(c) == c \div CandlesPerDay

\* Whatever is in memory is lost: a crash, or an exception no handler catches
\* (a network failure of any GET, a report the store refuses).
Crash ==
  /\ pc # "idle"
  /\ EndCycle
  /\ UNCHANGED <<candle, store, risk, journal, killSwitch, exchange, dust>>

\* The cycle saves its risk state and returns without an order.
ReturnAndSave(state) ==
  /\ risk' = state
  /\ EndCycle
  /\ UNCHANGED <<candle, store, journal, killSwitch, dust>>

ReturnWithApiError == ReturnAndSave([mem EXCEPT !.errors = @ + 1])

-----------------------------------------------------------------------------
(* One cycle.                                                              *)

\* Server time, candles and filters are fetched and valid (otherwise the cycle
\* returns at once and changes nothing).
BeginCycle ==
  /\ pc = "idle"
  /\ candle' \in {candle, candle + 1} \cap Orders
  /\ pc' = IF seeded THEN "pending" ELSE "seed"
  /\ UNCHANGED <<cur, report, mem, blocked, store, risk, journal, killSwitch, exchange, dust>>

\* reconcile_initial_portfolio and save_portfolio.
SeedPortfolio ==
  /\ pc = "seed"
  /\ acct.base < MinQty
  /\ seeded' = TRUE
  /\ portfolio' = InitialPortfolio(acct.quote)
  /\ dust' = acct.base
  /\ pc' = "pending"
  /\ UNCHANGED <<candle, cur, report, mem, blocked, rows, risk, journal, killSwitch, exchange>>

\* ColdStartReconciliationError: the account already holds a position.
RefuseColdStart ==
  /\ pc = "seed"
  /\ acct.base >= MinQty
  /\ EndCycle
  /\ UNCHANGED <<candle, store, risk, journal, killSwitch, exchange, dust>>

Submitted == {o \in Orders : rows[o].status = "SUBMITTED"}

\* reconcile_order: what GET /api/v3/order says of order o.
\* Fault: every error of the query is read as -2013.
NotFoundOnAnyError(o) == TRUE

\* Fault: -2013 is read as one more unknown.
NotFoundIgnored(o) == FALSE

Known(o)    == exch[o].status \in Terminal \cup Open
NotFound(o) == exch[o].status = "NONE"
Queried(o)  == [NoReport EXCEPT !.status = exch[o].status, !.exec = exch[o].exec,
                                !.quote = exch[o].quote]

\* The synthetic report that closes an order the exchange never received.
NeverSubmitted(o) == [NoReport EXCEPT !.status = "NEVER_SUBMITTED", !.exec = rows[o].exec,
                                      !.quote = rows[o].quote]

\* reconcile_pending_orders: ask about the oldest unresolved order ...
QueryPending ==
  /\ pc = "pending"
  /\ \E o \in Submitted :
       /\ \A q \in Submitted : o <= q
       /\ Known(o) \/ NotFound(o)
       /\ cur' = o
       /\ report' = IF NotFound(o) THEN NeverSubmitted(o) ELSE Queried(o)
  /\ pc' = "settle"
  /\ UNCHANGED <<candle, mem, blocked, store, risk, journal, killSwitch, exchange, dust>>

\* ... and give up if the answer is any other error or an unnamed status.
BlockOnUnknown ==
  /\ pc = "pending"
  /\ Submitted # {}
  /\ EndCycle
  /\ UNCHANGED <<candle, store, risk, journal, killSwitch, exchange, dust>>

NoPendingLeft ==
  /\ pc = "pending"
  /\ Submitted = {}
  /\ pc' = "balances"
  /\ UNCHANGED <<candle, cur, report, mem, blocked, store, risk, journal, killSwitch, exchange, dust>>

\* apply_order_result_atomically: both tables in one transaction, or neither.
ApplyReport ==
  /\ Accepted(report, rows[cur], portfolio)
  /\ portfolio' = NewPortfolio(report, rows[cur], portfolio)
  /\ rows' = [rows EXCEPT ![cur] = NewRow(report, @)]
  /\ UNCHANGED seeded

SettlePending ==
  /\ pc = "settle"
  /\ ApplyReport
  /\ pc' = "settled"
  /\ UNCHANGED <<candle, cur, report, mem, blocked, risk, journal, killSwitch, exchange, dust>>

\* The outcome is journaled; an order still open blocks this cycle.
JournalSettled ==
  /\ pc = "settled"
  /\ journal' = journal \cup {<<report.status, cur>>}
  /\ IF rows[cur].status = "RESOLVED"
     THEN pc' = "pending" /\ UNCHANGED <<cur, report, mem, blocked>>
     ELSE EndCycle
  /\ UNCHANGED <<candle, store, risk, killSwitch, exchange, dust>>

\* Fault: the cooldown is decremented below zero.
LoadedRiskUnfloored(d) ==
  [day |-> d, trades |-> IF risk.day = d THEN risk.trades ELSE 0,
   cooldown |-> risk.cooldown - 1, errors |-> risk.errors]

\* The risk state a cycle on day d starts from.
LoadedRisk(d) ==
  LET sameDay == risk.day = d
  IN  [day |-> d,
       trades |-> IF sameDay THEN risk.trades ELSE 0,
       cooldown |-> IF risk.cooldown > 0 THEN risk.cooldown - 1 ELSE 0,
       errors |-> risk.errors]

\* Fault: only the base asset is compared.
BalancesMatchBase == portfolio.base = acct.base

BalancesMatch == portfolio.quote = acct.quote /\ portfolio.base = acct.base

\* reconcile_balances, then the risk state is loaded and rolled over.
CheckBalances ==
  /\ pc = "balances"
  /\ blocked' = ~BalancesMatch
  /\ mem' = LoadedRisk(Day(candle))
  /\ pc' = "signal"
  /\ UNCHANGED <<candle, cur, report, store, risk, journal, killSwitch, exchange, dust>>

\* HOLD, a suppressed BUY, or an EXIT some gate rejects.
NoOrderThisCycle ==
  /\ pc = "signal"
  /\ ReturnAndSave(mem)
  /\ UNCHANGED exchange

\* Fault: part of the position is sold.
SellQuantityOneStep(base) == StepSize

SellQuantity(base) == (base \div StepSize) * StepSize

\* Fault: only an order still open counts as a duplicate.
DuplicateWhileOpen(o) == rows[o].status = "SUBMITTED"

Duplicate(o) == rows[o].status # "NONE" \/ <<"ORDER_SUBMITTED", o>> \in journal

\* The universal gates of RiskEngine.evaluate; an EXIT has no others.
RiskApproves(o) ==
  /\ ~killSwitch
  /\ mem.errors < MaxApiErrors
  /\ ~Duplicate(o)
  /\ ~blocked

\* Fault: the order is submitted before it is recorded.
SubmitUnrecorded ==
  /\ pc = "signal"
  /\ portfolio.side = "LONG"
  /\ ~blocked
  /\ SellQuantity(portfolio.base) >= MinQty
  /\ RiskApproves(candle)
  /\ cur' = candle
  /\ pc' = "post"
  /\ UNCHANGED <<candle, report, mem, blocked, store, risk, journal, killSwitch, exchange, dust>>

\* An EXIT signal that is sized, approved and validated.
ApproveExit ==
  /\ pc = "signal"
  /\ portfolio.side = "LONG"
  /\ ~blocked
  /\ SellQuantity(portfolio.base) >= MinQty
  /\ RiskApproves(candle)
  /\ cur' = candle
  /\ pc' = "create"
  /\ UNCHANGED <<candle, report, mem, blocked, store, risk, journal, killSwitch, exchange, dust>>

CreatePending ==
  /\ pc = "create"
  /\ rows' = [rows EXCEPT ![cur] =
                IF @.status # "NONE" THEN @
                ELSE [NoRow EXCEPT !.status = "SUBMITTED",
                                   !.qty = SellQuantity(portfolio.base)]]
  /\ pc' = "announce"
  /\ UNCHANGED <<candle, cur, report, mem, blocked, seeded, portfolio, risk, journal,
                 killSwitch, exchange, dust>>

JournalSubmitted ==
  /\ pc = "announce"
  /\ journal' = journal \cup {<<"ORDER_SUBMITTED", cur>>}
  /\ pc' = "post"
  /\ UNCHANGED <<candle, cur, report, mem, blocked, store, risk, killSwitch, exchange, dust>>

\* place_market_order, for the first time ("post") or once more ("retry").
PostAnswered ==
  /\ pc \in {"post", "retry"}
  /\ Accept(cur, TRUE)
  /\ pc' = "book"
  /\ UNCHANGED <<candle, cur, mem, blocked, store, risk, journal, killSwitch, inflight, dust>>

\* RequestException on the first attempt: ask before anything else.
PostUnanswered ==
  /\ pc = "post"
  /\ Unanswered(cur)
  /\ pc' = "query"
  /\ UNCHANGED <<candle, cur, report, mem, blocked, store, risk, journal, killSwitch, dust>>

\* BinanceApiError on the first attempt, any error on the second.  An HTTP 5xx
\* is an error too, and does not say the order was not executed.
PostFails ==
  /\ pc \in {"post", "retry"}
  /\ IF pc = "post" THEN Unanswered(cur) /\ inflight' = inflight ELSE Unanswered(cur)
  /\ ReturnWithApiError

QuerySubmitted ==
  /\ pc = "query"
  /\ Known(cur)
  /\ report' = Queried(cur)
  /\ pc' = "book"
  /\ UNCHANGED <<candle, cur, mem, blocked, store, risk, journal, killSwitch, exchange, dust>>

\* safe_to_retry: only when the exchange has never heard of the order.
QueryNotFound ==
  /\ pc = "query"
  /\ NotFound(cur)
  /\ pc' = "retry"
  /\ UNCHANGED <<candle, cur, report, mem, blocked, store, risk, journal, killSwitch, exchange, dust>>

QueryUnknown ==
  /\ pc = "query"
  /\ ReturnWithApiError
  /\ UNCHANGED exchange

\* What the cycle's own order does to the risk state it holds in memory.
RiskAfterOrder(row, pnl) ==
  [mem EXCEPT !.errors = 0,
              !.trades = IF row.exec > 0 \/ row.status = "RESOLVED" THEN @ + 1 ELSE @,
              !.cooldown = IF pnl < 0 THEN Cooldown ELSE @]

BookOrder ==
  /\ pc = "book"
  /\ ApplyReport
  /\ mem' = RiskAfterOrder(rows'[cur], portfolio'.pnl - portfolio.pnl)
  /\ pc' = "booked"
  /\ UNCHANGED <<candle, cur, report, blocked, risk, journal, killSwitch, exchange, dust>>

JournalBooked ==
  /\ pc = "booked"
  /\ journal' = journal \cup {<<report.status, cur>>}
  /\ pc' = "save"
  /\ UNCHANGED <<candle, cur, report, mem, blocked, store, risk, killSwitch, exchange, dust>>

SaveRisk ==
  /\ pc = "save"
  /\ ReturnAndSave(mem)
  /\ UNCHANGED exchange

\* trading-agent kill-switch engage / disengage, run by the owner at any time.
ToggleKillSwitch ==
  /\ killSwitch' = ~killSwitch
  /\ UNCHANGED <<pc, candle, cur, report, mem, blocked, store, risk, journal, exchange, dust>>

-----------------------------------------------------------------------------
Cycle ==
  \/ BeginCycle \/ SeedPortfolio \/ RefuseColdStart
  \/ QueryPending \/ BlockOnUnknown \/ NoPendingLeft \/ SettlePending \/ JournalSettled
  \/ CheckBalances \/ NoOrderThisCycle \/ ApproveExit \/ CreatePending \/ JournalSubmitted
  \/ PostAnswered \/ PostUnanswered \/ PostFails
  \/ QuerySubmitted \/ QueryNotFound \/ QueryUnknown
  \/ BookOrder \/ JournalBooked \/ SaveRisk

Environment ==
  \/ Crash \/ ToggleKillSwitch
  \/ \E o \in Orders : ExchangeFills(o) \/ ExchangeCloses(o) \/ LateArrival(o)

Next == Cycle \/ Environment

Spec == Init /\ [][Next]_vars
-----------------------------------------------------------------------------
(* Properties.                                                             *)

Places == {"idle", "seed", "pending", "settle", "settled", "balances", "signal",
           "create", "announce", "post", "query", "retry", "book", "booked", "save"}

RiskStates == [day : Int, trades : Nat, cooldown : Nat, errors : Nat]
ExchangeOrders == [status : Statuses, exec : Int, quote : Int, total : Int]
Accounts == [quote : Int, base : Int, above : Nat]

\* The state has its types: execution store, risk state, exchange and memory.
TypeOK ==
  /\ pc \in Places /\ candle \in Orders /\ cur \in Orders
  /\ report \in Reports /\ mem \in RiskStates /\ blocked \in BOOLEAN
  /\ seeded \in BOOLEAN /\ portfolio \in Portfolios
  /\ rows \in [Orders -> Rows]
  /\ risk \in RiskStates
  /\ journal \subseteq (Statuses \cup {"ORDER_SUBMITTED"}) \X Orders
  /\ killSwitch \in BOOLEAN
  /\ exch \in [Orders -> ExchangeOrders]
  /\ acct \in Accounts
  /\ inflight \subseteq Orders
  /\ dust \in Int

\* Write-ahead: the exchange never holds, and no request is under way for, an
\* order that pending_orders does not know (create_pending before the POST).
NoUnrecordedOrder ==
  \A o \in Orders : exch[o].status # "NONE" \/ o \in inflight => rows[o].status # "NONE"

\* A row leaves SUBMITTED only when the exchange is done with the order and
\* everything it executed is booked: no fill is lost when a row is closed.
ResolvedFullyBooked ==
  \A o \in Orders : rows[o].status = "RESOLVED" =>
    exch[o].status \notin Open /\ rows[o].exec = exch[o].total

\* The books differ from the account by exactly the executions not yet booked,
\* those of the single order that may be unresolved: none is applied twice,
\* none is forgotten, whatever crashed in between.
BooksFollowAccount ==
  /\ \A o, q \in Submitted : o = q
  /\ seeded =>
       portfolio.base + dust - acct.base =
         IF Submitted = {} THEN 0
         ELSE LET o == CHOOSE o \in Submitted : TRUE
              IN  exch[o].total - rows[o].exec

\* Estimating a commission costs the books no more than the estimate's own error:
\* once no order is unresolved they exceed the account at most by what the
\* exchange charged above taker_fee_pct, so by nothing where it charged no more
\* than that, whatever was reported, estimated or taken in another asset.
QuoteNotOverstated ==
  seeded /\ Submitted = {} => portfolio.quote <= acct.quote + acct.above

\* No more is ever sold for one signal than the order asked for, even when a
\* request arrives after the program was told there is no such order.
NeverOversold == \A o \in Orders : exch[o].total <= rows[o].qty

\* The journal is written after the commit it tells of: an outcome it records
\* is in the store, whatever it misses.
JournalTruthful ==
  \A e \in journal :
    /\ rows[e[2]].status # "NONE"
    /\ e[1] \in Terminal => rows[e[2]].status = "RESOLVED"
    /\ e[1] = "FILLED" => rows[e[2]].exec = rows[e[2]].qty
    /\ e[1] = "PARTIALLY_FILLED" => rows[e[2]].exec > 0
    /\ e[1] = "NEVER_SUBMITTED" => rows[e[2]].exec = 0

\* A sell is recorded and submitted only from books that equal the account, in
\* both assets, and with no earlier order unresolved.
SellOnlyFromTrustedBooks ==
  /\ pc = "create" => Submitted = {}
  /\ pc \in {"announce", "post"} => Submitted = {cur}
  /\ pc \in {"create", "announce", "post"} =>
       portfolio.quote = acct.quote /\ portfolio.base = acct.base

\* A closed order stays as it was closed, and applied execution never shrinks:
\* neither a rerun on the same candle nor a restart reopens what was done.
RowsOnlyAdvance ==
  [][\A o \in Orders :
       /\ rows[o].status = "RESOLVED" => rows'[o] = rows[o]
       /\ rows[o].status = "SUBMITTED" => rows'[o].exec >= rows[o].exec]_rows

\* The execution store implements the ledger that books every execution once.
Ledger == INSTANCE FillLedger WITH
  executed <- [o \in Orders |-> exch[o].total],
  booked   <- [o \in Orders |-> rows[o].exec],
  closed   <- {o \in Orders : rows[o].status = "RESOLVED"},
  held     <- portfolio.base

BooksEveryFillOnce == Ledger!Spec

-----------------------------------------------------------------------------
(* Fairness.  The scheduler keeps starting cycles and a running cycle keeps *)
(* going; the exchange ends every market order; and neither crashes nor     *)
(* failing queries hit the same step for ever.                              *)
Fairness ==
  /\ WF_vars(Cycle)
  /\ SF_vars(QueryPending) /\ SF_vars(SettlePending)
  /\ \A o \in Orders : WF_vars(ExchangeFills(o) \/ ExchangeCloses(o))

FairSpec == Spec /\ Fairness

\* An order recorded as submitted is eventually resolved, wherever the cycle
\* that recorded it crashed.
SubmittedIsResolved ==
  \A o \in Orders : rows[o].status = "SUBMITTED" ~> rows[o].status = "RESOLVED"
=============================================================================
