-------------------------- MODULE OrderApplication --------------------------
(***************************************************************************)
(* How one order report changes the local books: the pure function         *)
(* compute_order_application (execution/order_outcome.py), the commission  *)
(* buckets it asks for (execution/fees.py) and the portfolio transitions   *)
(* it drives (portfolio/state.py).                                         *)
(*                                                                         *)
(* Quantities count lots of the base asset and money counts the smallest   *)
(* unit of the quote asset, so both are integers.  A portfolio keeps       *)
(* avg_entry_price * base_balance + open_position_entry_fee as one number, *)
(* cost: the code uses the two only together, and a sell allocates both in *)
(* proportion to the quantity sold.                                        *)
(***************************************************************************)
EXTENDS Integers

CONSTANTS
  FeeDen,         \* taker_fee_pct is 1 / FeeDen
  OddStatus       \* statuses the exchange reports that the code has no name for

ASSUME FeeDenAssumption == FeeDen \in Nat \ {0}

Terminal == {"FILLED", "CANCELED", "REJECTED", "EXPIRED", "NEVER_SUBMITTED"}
Open     == {"NEW", "PARTIALLY_FILLED"}
Sides    == {"BUY", "SELL"}

\* Of a report, "NONE" being no report at all.
Statuses == Terminal \cup Open \cup OddStatus \cup {"NONE"}

ASSUME OddStatusAssumption == OddStatus \cap (Terminal \cup Open \cup {"NONE"}) = {}

Portfolios == [quote : Int, base : Int, side : {"FLAT", "LONG"},
               cost : Int, pnl : Int, estimated : BOOLEAN]

\* A flat portfolio: PortfolioState.initial.
InitialPortfolio(quote) ==
  [quote |-> quote, base |-> 0, side |-> "FLAT",
   cost |-> 0, pnl |-> 0, estimated |-> FALSE]

(***************************************************************************)
(* A report is what the exchange said of an order: cumulative quantities,  *)
(* and, only in the direct answer to a placed order, the commission of its *)
(* fills by asset.  A commission in a third asset touches neither balance  *)
(* and is a report with fills and no quote or base commission.             *)
(***************************************************************************)
Reports == [status : Statuses, exec : Int, quote : Int,
            fills : BOOLEAN, feeQuote : Int, feeBase : Int]

\* A row of pending_orders, its applied_* fields being exec, quote and fees.
Rows == [status : {"NONE", "SUBMITTED", "RESOLVED"}, side : Sides, qty : Int,
         exec : Int, quote : Int, feeQuote : Int, feeBase : Int]

FallbackFee(notional) == notional \div FeeDen

\* Fault: a report without fills is taken to have cost nothing.
CommissionQuoteUnestimated(report, notional) == IF report.fills THEN report.feeQuote ELSE 0

CommissionQuote(report, notional) ==
  IF report.fills THEN report.feeQuote ELSE FallbackFee(notional)

CommissionBase(report) == IF report.fills THEN report.feeBase ELSE 0

-----------------------------------------------------------------------------
(* apply_buy and apply_partial_fill_increase, by the side of the position. *)

BuyAllowed(p, notional, fee) == notional + fee <= p.quote

AfterBuy(p, qty, notional, fee, estimated) ==
  [p EXCEPT !.quote = @ - (notional + fee),
            !.base = @ + qty,
            !.side = "LONG",
            !.cost = (IF p.side = "LONG" THEN @ ELSE 0) + notional + fee,
            !.estimated = estimated \/ (p.side = "LONG" /\ @)]

(* apply_sell *)

SellAllowed(p, qty) == p.side = "LONG" /\ qty <= p.base

\* Fault: profit is realized before the exit commission.
AfterSellGrossOfFee(p, qty, notional, fee, estimated) ==
  LET soldCost == (p.cost * qty) \div p.base
      closed   == qty = p.base
  IN  [p EXCEPT !.quote = @ + notional - fee,
                !.base = @ - qty,
                !.side = IF closed THEN "FLAT" ELSE "LONG",
                !.cost = IF closed THEN 0 ELSE @ - soldCost,
                !.pnl = @ + notional - soldCost,
                !.estimated = ~closed /\ (@ \/ estimated)]

\* Fault: a partial exit forgets that the entry commission was an estimate.
AfterSellForgetsFlag(p, qty, notional, fee, estimated) ==
  LET soldCost == (p.cost * qty) \div p.base
      closed   == qty = p.base
  IN  [p EXCEPT !.quote = @ + notional - fee,
                !.base = @ - qty,
                !.side = IF closed THEN "FLAT" ELSE "LONG",
                !.cost = IF closed THEN 0 ELSE @ - soldCost,
                !.pnl = @ + notional - fee - soldCost,
                !.estimated = ~closed /\ estimated]

AfterSell(p, qty, notional, fee, estimated) ==
  LET soldCost == (p.cost * qty) \div p.base
      closed   == qty = p.base
  IN  [p EXCEPT !.quote = @ + notional - fee,
                !.base = @ - qty,
                !.side = IF closed THEN "FLAT" ELSE "LONG",
                !.cost = IF closed THEN 0 ELSE @ - soldCost,
                !.pnl = @ + notional - fee - soldCost,
                !.estimated = ~closed /\ (@ \/ estimated)]

-----------------------------------------------------------------------------
\* The report may follow what was applied: nothing cumulative decreased, and
\* base and quote executed together.
Consistent(report, row) ==
  /\ report.exec >= row.exec
  /\ report.quote >= row.quote
  /\ report.exec = 0 <=> report.quote = 0

\* Only a report of more execution than already applied touches the books.
HasNewFill(report, row) == report.status # "NEW" /\ report.exec > row.exec

\* The new fill can be booked: none of the transitions raises.
Bookable(report, row, p) ==
  LET qty == report.exec - row.exec
      notional == report.quote - row.quote
      fee == CommissionQuote(report, notional)
      baseFee == CommissionBase(report)
  IN  IF row.side = "BUY"
      THEN qty - baseFee > 0 /\ BuyAllowed(p, notional, fee)
      ELSE baseFee = 0 /\ SellAllowed(p, qty)

\* compute_order_application returns instead of raising.
Accepted(report, row, p) ==
  /\ Consistent(report, row)
  /\ HasNewFill(report, row) => Bookable(report, row, p)

\* Fault: the cumulative execution is applied where the new part belongs.
NewPortfolioFromTotals(report, row, p) ==
  LET fee == CommissionQuote(report, report.quote)
  IN  IF ~HasNewFill(report, row) THEN p
      ELSE IF row.side = "BUY"
      THEN AfterBuy(p, report.exec - CommissionBase(report), report.quote, fee, ~report.fills)
      ELSE AfterSell(p, report.exec, report.quote, fee, ~report.fills)

NewPortfolio(report, row, p) ==
  LET qty == report.exec - row.exec
      notional == report.quote - row.quote
      fee == CommissionQuote(report, notional)
  IN  IF ~HasNewFill(report, row) THEN p
      ELSE IF row.side = "BUY"
      THEN AfterBuy(p, qty - CommissionBase(report), notional, fee, ~report.fills)
      ELSE AfterSell(p, qty, notional, fee, ~report.fills)

\* Fault: the applied_* columns are not advanced.
NewRowKeepsApplied(report, row) ==
  [row EXCEPT !.status = IF report.status \in Terminal THEN "RESOLVED" ELSE "SUBMITTED"]

\* The row as apply_order_result_atomically leaves it.
NewRow(report, row) ==
  LET notional == report.quote - row.quote
      new == HasNewFill(report, row)
  IN  [row EXCEPT
         !.status = IF report.status \in Terminal THEN "RESOLVED" ELSE "SUBMITTED",
         !.exec = IF new THEN report.exec ELSE @,
         !.quote = IF new THEN report.quote ELSE @,
         !.feeQuote = IF new THEN @ + CommissionQuote(report, notional) ELSE @,
         !.feeBase = IF new THEN @ + CommissionBase(report) ELSE @]
=============================================================================
