-------------------------- MODULE OrderObservation --------------------------
(***************************************************************************)
(* One order of either side, executed by the exchange in parts at several  *)
(* prices, and the program observing it: first perhaps by the direct       *)
(* answer to the submission, which lists commissions, later by queries,    *)
(* which do not; in any number of observations, repeated, or answered from *)
(* an older state of the exchange.  Each observation runs the transaction  *)
(* of apply_order_result_atomically (persistence/execution_store.py).      *)
(***************************************************************************)
EXTENDS OrderApplication

CONSTANTS
  Quantity,    \* lots requested
  Held,        \* lots held before a sell
  HeldCost,    \* what each of them has cost
  Funds,       \* quote balance before the order
  Prices,      \* prices a part can execute at
  FeeDens,     \* commission rates the exchange may charge: 1 / d
  BaseFee      \* commission of the direct answer when taken in the base asset

ASSUME ObservationAssumption ==
  /\ {Quantity, HeldCost, Funds, BaseFee} \subseteq Nat
  /\ Held \in Nat \ {0}
  /\ Prices \subseteq Nat \ {0}
  /\ FeeDens \subseteq Nat \ {0}

VARIABLES
  order,       \* the exchange's order: status, exec, quote
  answers,     \* every report the exchange has given or could have given
  portfolio,   \* portfolio_state
  row,         \* the order's pending_orders row
  guessed      \* a commission booked for the position was an estimate

vars == <<order, answers, portfolio, row, guessed>>

Before(side) ==
  IF side = "BUY" THEN InitialPortfolio(Funds)
  ELSE [InitialPortfolio(Funds) EXCEPT !.base = Held, !.side = "LONG",
                                       !.cost = Held * HeldCost]

Query(o) == [status |-> o.status, exec |-> o.exec, quote |-> o.quote,
             fills |-> FALSE, feeQuote |-> 0, feeBase |-> 0]

Init ==
  /\ order = [status |-> "NEW", exec |-> 0, quote |-> 0]
  /\ answers = {Query(order)}
  /\ \E side \in Sides :
       /\ guessed \in IF side = "SELL" THEN BOOLEAN ELSE {FALSE}
       /\ portfolio = [Before(side) EXCEPT !.estimated = guessed]
       /\ row = [status |-> "SUBMITTED", side |-> side, qty |-> Quantity,
                 exec |-> 0, quote |-> 0, feeQuote |-> 0, feeBase |-> 0]

\* The exchange (external) executes n more lots at price p.  The first part may
\* be what the submission itself is answered with, its commission in asset.
Fill(n, p) ==
  LET after == [status |-> IF order.exec + n = Quantity THEN "FILLED" ELSE "PARTIALLY_FILLED",
                exec |-> order.exec + n, quote |-> order.quote + n * p]
      direct(asset, d) == [Query(after) EXCEPT
                          !.fills = TRUE,
                          !.feeQuote = IF asset = "quote" THEN (n * p) \div d ELSE 0,
                          !.feeBase = IF asset = "base" THEN BaseFee ELSE 0]
  IN  /\ order.status \in Open
      /\ order' = after
      /\ \/ answers' = answers \cup {Query(after)}
         \/ /\ order.exec = 0
            /\ \E asset \in {"quote", "base", "other"}, d \in FeeDens :
                 answers' = answers \cup {Query(after), direct(asset, d)}
      /\ UNCHANGED <<portfolio, row, guessed>>

\* The exchange (external) ends the order with part of it unfilled, perhaps in
\* a status the code does not know: such an order is never resolved.
Expire ==
  /\ order.status \in Open
  /\ \E status \in {"EXPIRED"} \cup OddStatus : order' = [order EXCEPT !.status = status]
  /\ answers' = answers \cup {Query(order')}
  /\ UNCHANGED <<portfolio, row, guessed>>

\* The program observes the order and applies what is new, or the transaction
\* rolls back and nothing changes.
Observe(report) ==
  /\ row.status = "SUBMITTED"
  /\ Accepted(report, row, portfolio)
  /\ portfolio' = NewPortfolio(report, row, portfolio)
  /\ row' = NewRow(report, row)
  /\ guessed' = (guessed \/ (HasNewFill(report, row) /\ ~report.fills))
  /\ UNCHANGED <<order, answers>>

Next ==
  \/ \E n \in 1..(Quantity - order.exec), p \in Prices : Fill(n, p)
  \/ Expire
  \/ \E report \in answers : Observe(report)

Spec == Init /\ [][Next]_vars

-----------------------------------------------------------------------------
\* The state has its types.
TypeOK ==
  /\ order \in [status : Statuses, exec : Nat, quote : Nat]
  /\ answers \subseteq Reports
  /\ portfolio \in Portfolios
  /\ row \in Rows
  /\ guessed \in BOOLEAN

\* However the execution was cut into observations, the balances are what the
\* applied_* columns of the row say, once: nothing is applied twice.
BalancesFollowRow ==
  LET before == Before(row.side)
      sign == IF row.side = "BUY" THEN 1 ELSE -1
  IN  /\ portfolio.base = before.base + sign * row.exec - row.feeBase
      /\ portfolio.quote = before.quote - sign * row.quote - row.feeQuote

\* Profit is booked exactly: balance and cost of what is held, less realized
\* profit, never changes, so entry fees and exit fees are each counted once.
BookValueConserved ==
  portfolio.quote + portfolio.cost - portfolio.pnl =
    Before(row.side).quote + Before(row.side).cost

\* A position with an estimated commission is flagged until it is closed, and a
\* closed position keeps neither cost nor flag.
EstimateFlagged ==
  /\ portfolio.side = "LONG" => portfolio.estimated = guessed
  /\ portfolio.side = "LONG" <=> portfolio.base > 0
  /\ portfolio.side = "FLAT" => portfolio.cost = 0 /\ ~portfolio.estimated
=============================================================================
