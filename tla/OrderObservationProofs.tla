----------------------- MODULE OrderObservationProofs -----------------------
(***************************************************************************)
(* Theorems about OrderObservation, for every value of its constants: the  *)
(* books follow the observations of one order, however its execution was   *)
(* cut into them.                                                          *)
(***************************************************************************)
EXTENDS OrderObservation, TLAPS

LEMMA QuotientIsInt == \A a \in Int, b \in Nat \ {0} : a \div b \in Int
  BY SMT

LEMMA ProductIsInt == \A a, b \in Int : a * b \in Int
  BY SMT

LEMMA WholeShare == \A a \in Int, b \in Nat \ {0} : (a * b) \div b = a
  BY SMT

(***************************************************************************)
(* What a transition of the portfolio does to each of its fields.          *)
(***************************************************************************)

LEMMA BuyEffect ==
  ASSUME NEW p \in Portfolios, NEW qty \in Int, NEW notional \in Int, NEW fee \in Int,
         NEW estimated \in BOOLEAN
  PROVE  LET after == AfterBuy(p, qty, notional, fee, estimated)
         IN  /\ after \in Portfolios
             /\ after.quote = p.quote - (notional + fee)
             /\ after.base = p.base + qty
             /\ after.side = "LONG"
             /\ after.cost = (IF p.side = "LONG" THEN p.cost ELSE 0) + notional + fee
             /\ after.pnl = p.pnl
             /\ after.estimated = (estimated \/ (p.side = "LONG" /\ p.estimated))
<1>. DEFINE quote == p.quote - (notional + fee)
            base  == p.base + qty
            cost  == (IF p.side = "LONG" THEN p.cost ELSE 0) + notional + fee
            flag  == estimated \/ (p.side = "LONG" /\ p.estimated)
            after == [p EXCEPT !.quote = quote, !.base = base, !.side = "LONG",
                               !.cost = cost, !.estimated = flag]
<1>1. AfterBuy(p, qty, notional, fee, estimated) = after
  BY Zenon DEF AfterBuy
<1>2. quote \in Int /\ base \in Int /\ cost \in Int /\ flag \in BOOLEAN
  BY DEF Portfolios
<1>. HIDE DEF quote, base, cost, flag
<1>3. /\ after \in Portfolios /\ after.quote = quote /\ after.base = base /\ after.side = "LONG"
      /\ after.cost = cost /\ after.pnl = p.pnl /\ after.estimated = flag
  BY <1>2 DEF Portfolios
<1>. HIDE DEF after
<1>. QED  BY <1>1, <1>3 DEF quote, base, cost, flag

LEMMA SellEffect ==
  ASSUME NEW p \in Portfolios, NEW qty \in Nat \ {0}, NEW notional \in Int, NEW fee \in Int,
         NEW estimated \in BOOLEAN, SellAllowed(p, qty)
  PROVE  LET after == AfterSell(p, qty, notional, fee, estimated)
             sold  == (p.cost * qty) \div p.base
         IN  /\ after \in Portfolios /\ sold \in Int
             /\ after.quote = p.quote + notional - fee
             /\ after.base = p.base - qty
             /\ after.side = IF qty = p.base THEN "FLAT" ELSE "LONG"
             /\ after.cost = IF qty = p.base THEN 0 ELSE p.cost - sold
             /\ after.pnl = p.pnl + notional - fee - sold
             /\ after.estimated = (qty # p.base /\ (p.estimated \/ estimated))
             /\ qty = p.base => sold = p.cost
<1>. DEFINE sold  == (p.cost * qty) \div p.base
            quote == p.quote + notional - fee
            base  == p.base - qty
            side  == IF qty = p.base THEN "FLAT" ELSE "LONG"
            cost  == IF qty = p.base THEN 0 ELSE p.cost - sold
            pnl   == p.pnl + notional - fee - sold
            flag  == qty # p.base /\ (p.estimated \/ estimated)
            after == [p EXCEPT !.quote = quote, !.base = base, !.side = side,
                               !.cost = cost, !.pnl = pnl, !.estimated = flag]
<1>1. AfterSell(p, qty, notional, fee, estimated) = after
  BY Zenon DEF AfterSell
<1>2. p.cost \in Int /\ p.base \in Nat \ {0}
  BY DEF Portfolios, SellAllowed
<1>3. sold \in Int /\ (qty = p.base => sold = p.cost)
  <2>1. p.cost * qty \in Int
    BY <1>2, ProductIsInt
  <2>2. sold \in Int
    BY <1>2, <2>1, QuotientIsInt
  <2>3. qty = p.base => sold = p.cost
    BY <1>2, WholeShare
  <2>. QED  BY <2>2, <2>3
<1>. HIDE DEF sold
<1>4. /\ quote \in Int /\ base \in Int /\ side \in {"FLAT", "LONG"} /\ cost \in Int /\ pnl \in Int
      /\ flag \in BOOLEAN
  BY <1>3 DEF Portfolios
<1>. HIDE DEF quote, base, side, cost, pnl, flag
<1>5. /\ after \in Portfolios /\ after.quote = quote /\ after.base = base /\ after.side = side
      /\ after.cost = cost /\ after.pnl = pnl /\ after.estimated = flag
  BY <1>4 DEF Portfolios
<1>. HIDE DEF after
<1>. QED  BY <1>1, <1>3, <1>5 DEF quote, base, side, cost, pnl, flag, sold

LEMMA CommissionIsInt ==
  ASSUME NEW r \in Reports, NEW notional \in Int
  PROVE  CommissionQuote(r, notional) \in Int /\ CommissionBase(r) \in Int
  BY FeeDenAssumption, QuotientIsInt DEF CommissionQuote, CommissionBase, FallbackFee, Reports

\* The row after an observation: what is new is added to what was applied.
LEMMA RowEffect ==
  ASSUME NEW r \in Reports, NEW s \in Rows
  PROVE  LET new == HasNewFill(r, s)
             notional == r.quote - s.quote
         IN  /\ NewRow(r, s) \in Rows
             /\ NewRow(r, s).side = s.side
             /\ NewRow(r, s).exec = IF new THEN r.exec ELSE s.exec
             /\ NewRow(r, s).quote = IF new THEN r.quote ELSE s.quote
             /\ NewRow(r, s).feeQuote =
                  IF new THEN s.feeQuote + CommissionQuote(r, notional) ELSE s.feeQuote
             /\ NewRow(r, s).feeBase =
                  IF new THEN s.feeBase + CommissionBase(r) ELSE s.feeBase
<1>. DEFINE notional == r.quote - s.quote
            status   == IF r.status \in Terminal THEN "RESOLVED" ELSE "SUBMITTED"
            exec     == IF HasNewFill(r, s) THEN r.exec ELSE s.exec
            quote    == IF HasNewFill(r, s) THEN r.quote ELSE s.quote
            feeQuote == IF HasNewFill(r, s) THEN s.feeQuote + CommissionQuote(r, notional)
                        ELSE s.feeQuote
            feeBase  == IF HasNewFill(r, s) THEN s.feeBase + CommissionBase(r) ELSE s.feeBase
            after    == [s EXCEPT !.status = status, !.exec = exec, !.quote = quote,
                                  !.feeQuote = feeQuote, !.feeBase = feeBase]
<1>1. NewRow(r, s) = after
  BY Zenon DEF NewRow
<1>2. notional \in Int
  BY DEF Reports, Rows
<1>3. CommissionQuote(r, notional) \in Int /\ CommissionBase(r) \in Int
  <2>. HIDE DEF notional
  <2>. QED  BY <1>2, CommissionIsInt
<1>4. /\ status \in {"RESOLVED", "SUBMITTED"} /\ exec \in Int /\ quote \in Int
      /\ feeQuote \in Int /\ feeBase \in Int
  <2>. HIDE DEF notional
  <2>. QED  BY <1>3 DEF Reports, Rows
<1>. HIDE DEF status, exec, quote, feeQuote, feeBase
<1>5. /\ after \in Rows /\ after.side = s.side /\ after.exec = exec /\ after.quote = quote
      /\ after.feeQuote = feeQuote /\ after.feeBase = feeBase
  BY <1>4 DEF Rows
<1>. HIDE DEF after
<1>. QED  BY <1>1, <1>5 DEF exec, quote, feeQuote, feeBase

-----------------------------------------------------------------------------
(* The inductive invariant.                                                *)

\* What the position is and what is known of it agree.
PositionInv ==
  /\ portfolio.side = "LONG" <=> portfolio.base > 0
  /\ portfolio.side = "FLAT" => portfolio.base = 0 /\ portfolio.cost = 0 /\ ~portfolio.estimated
  /\ portfolio.side = "LONG" => portfolio.estimated = guessed
  /\ row.side = "BUY" /\ portfolio.side = "FLAT" => ~guessed

BooksInv == TypeOK /\ PositionInv /\ BalancesFollowRow /\ BookValueConserved

LEMMA BeforeFields ==
  ASSUME NEW side \in Sides
  PROVE  /\ Before(side) \in Portfolios
         /\ side = "BUY" => /\ Before(side).base = 0 /\ Before(side).side = "FLAT"
                            /\ Before(side).cost = 0
         /\ side = "SELL" => Before(side).base = Held /\ Before(side).side = "LONG"
         /\ Before(side).pnl = 0 /\ ~Before(side).estimated
<1>1. Held * HeldCost \in Int /\ Held \in Int /\ Funds \in Int
  BY ObservationAssumption, ProductIsInt
<1>2. InitialPortfolio(Funds) \in Portfolios
  BY <1>1 DEF InitialPortfolio, Portfolios
<1>3. CASE side = "BUY"
  BY <1>2, <1>3 DEF Before, InitialPortfolio
<1>4. CASE side = "SELL"
  <2>. DEFINE flat == InitialPortfolio(Funds)
              cost == Held * HeldCost
  <2>1. flat.pnl = 0 /\ ~flat.estimated /\ cost \in Int
    BY <1>1 DEF InitialPortfolio
  <2>2. Before(side) = [flat EXCEPT !.base = Held, !.side = "LONG", !.cost = cost]
    BY <1>4 DEF Before
  <2>. HIDE DEF flat, cost
  <2>3. flat \in Portfolios
    BY <1>2 DEF flat
  <2>. QED  BY <1>1, <1>4, <2>1, <2>2, <2>3 DEF Portfolios
<1>. QED  BY <1>3, <1>4 DEF Sides

LEMMA BooksInit == Init => BooksInv
<1> SUFFICES ASSUME Init  PROVE BooksInv
  OBVIOUS
<1>1. PICK side \in Sides :
        /\ guessed \in IF side = "SELL" THEN BOOLEAN ELSE {FALSE}
        /\ portfolio = [Before(side) EXCEPT !.estimated = guessed]
        /\ row = [status |-> "SUBMITTED", side |-> side, qty |-> Quantity,
                  exec |-> 0, quote |-> 0, feeQuote |-> 0, feeBase |-> 0]
  BY DEF Init
<1>2. guessed \in BOOLEAN
  BY <1>1
<1>. DEFINE p == Before(side)
<1>3. p \in Portfolios
  BY BeforeFields
<1>4. /\ portfolio \in Portfolios /\ portfolio.quote = p.quote /\ portfolio.base = p.base
      /\ portfolio.side = p.side /\ portfolio.cost = p.cost /\ portfolio.pnl = p.pnl
      /\ portfolio.estimated = guessed
  <2>. HIDE DEF p
  <2>1. portfolio = [p EXCEPT !.estimated = guessed]
    BY <1>1 DEF p
  <2>. QED  BY <1>2, <1>3, <2>1 DEF Portfolios
<1>5. row \in Rows /\ row.side = side /\ row.exec = 0 /\ row.quote = 0
      /\ row.feeQuote = 0 /\ row.feeBase = 0
  BY <1>1, ObservationAssumption DEF Rows
<1>6. order \in [status : Statuses, exec : Nat, quote : Nat] /\ answers \subseteq Reports
  BY DEF Init, Query, Reports, Statuses, Open
<1>7. TypeOK
  BY <1>2, <1>4, <1>5, <1>6 DEF TypeOK
<1>8. PositionInv
  <2>1. CASE side = "BUY"
    <3>1. portfolio.base = 0 /\ portfolio.side = "FLAT" /\ portfolio.cost = 0 /\ ~guessed
      BY <1>1, <1>4, <2>1, BeforeFields
    <3>. QED  BY <1>4, <3>1 DEF PositionInv
  <2>2. CASE side = "SELL"
    <3>1. portfolio.base = Held /\ portfolio.side = "LONG" /\ row.side # "BUY"
      BY <1>4, <1>5, <2>2, BeforeFields
    <3>. QED  BY <1>4, <3>1, ObservationAssumption DEF PositionInv
  <2>. QED  BY <2>1, <2>2 DEF Sides
<1>9. BalancesFollowRow /\ BookValueConserved
  BY <1>3, <1>4, <1>5, BeforeFields DEF BalancesFollowRow, BookValueConserved, Portfolios
<1>. QED  BY <1>7, <1>8, <1>9 DEF BooksInv

-----------------------------------------------------------------------------
(* The exchange keeps the types and touches no book.                       *)

LEMMA QueryIsReport ==
  ASSUME NEW o \in [status : Statuses, exec : Nat, quote : Nat]
  PROVE  Query(o) \in Reports
  BY DEF Query, Reports

LEMMA FillTypes ==
  ASSUME TypeOK, NEW n \in 1..(Quantity - order.exec), NEW p \in Prices, Fill(n, p)
  PROVE  TypeOK' /\ UNCHANGED <<portfolio, row, guessed>>
<1>. DEFINE after == [status |-> IF order.exec + n = Quantity THEN "FILLED" ELSE "PARTIALLY_FILLED",
                      exec |-> order.exec + n, quote |-> order.quote + n * p]
            direct(asset, d) == [Query(after) EXCEPT
                                   !.fills = TRUE,
                                   !.feeQuote = IF asset = "quote" THEN (n * p) \div d ELSE 0,
                                   !.feeBase = IF asset = "base" THEN BaseFee ELSE 0]
<1>1. order.exec \in Nat /\ order.quote \in Nat /\ n \in Nat /\ p \in Nat /\ BaseFee \in Nat
  BY ObservationAssumption DEF TypeOK
<1>2. n * p \in Nat
  BY <1>1, SMT
<1>3. ASSUME NEW d \in FeeDens  PROVE (n * p) \div d \in Int
  <2>1. d \in Nat \ {0}
    BY ObservationAssumption
  <2>. QED  BY <1>2, <2>1, QuotientIsInt
<1>4. after \in [status : Statuses, exec : Nat, quote : Nat]
  <2>. DEFINE paid == n * p
  <2>1. paid \in Nat
    BY <1>2
  <2>. HIDE DEF paid
  <2>2. order.exec + n \in Nat /\ order.quote + paid \in Nat
    BY <1>1, <2>1
  <2>. QED  BY <2>2 DEF Statuses, Terminal, Open, paid
<1>5. Query(after) \in Reports
  BY <1>4, QueryIsReport
<1>6. \A asset : \A d \in FeeDens : direct(asset, d) \in Reports
  <2>1. SUFFICES ASSUME NEW asset, NEW d \in FeeDens  PROVE direct(asset, d) \in Reports
    OBVIOUS
  <2>. DEFINE query    == Query(after)
              feeQuote == IF asset = "quote" THEN (n * p) \div d ELSE 0
              feeBase  == IF asset = "base" THEN BaseFee ELSE 0
  <2>2. query \in Reports /\ feeQuote \in Int /\ feeBase \in Int
    BY <1>1, <1>3, <1>5
  <2>3. direct(asset, d) = [query EXCEPT !.fills = TRUE, !.feeQuote = feeQuote, !.feeBase = feeBase]
    OBVIOUS
  <2>. HIDE DEF query, feeQuote, feeBase, direct
  <2>. QED  BY <2>2, <2>3 DEF Reports
<1>. HIDE DEF after
<1>7. order' = after /\ UNCHANGED <<portfolio, row, guessed>>
  BY DEF Fill, after
<1>8. \/ answers' = answers \cup {Query(after)}
      \/ \E asset : \E d \in FeeDens : answers' = answers \cup {Query(after), direct(asset, d)}
  BY DEF Fill, after
<1>. HIDE DEF direct
<1>9. answers' \subseteq Reports
  BY <1>5, <1>6, <1>8 DEF TypeOK
<1>. QED  BY <1>4, <1>7, <1>9 DEF TypeOK

LEMMA ExpireTypes ==
  ASSUME TypeOK, Expire
  PROVE  TypeOK' /\ UNCHANGED <<portfolio, row, guessed>>
<1>1. PICK status \in {"EXPIRED"} \cup OddStatus : order' = [order EXCEPT !.status = status]
  BY DEF Expire
<1>2. status \in Statuses
  BY DEF Statuses, Terminal
<1>3. order' \in [status : Statuses, exec : Nat, quote : Nat]
  BY <1>1, <1>2 DEF TypeOK
<1>4. Query(order') \in Reports
  BY <1>3, QueryIsReport
<1>. QED  BY <1>3, <1>4 DEF Expire, TypeOK

-----------------------------------------------------------------------------
(* One observation.                                                        *)

LEMMA BuyObserved ==
  ASSUME BooksInv, NEW report \in answers, Observe(report),
         HasNewFill(report, row), row.side = "BUY"
  PROVE  BooksInv'
<1>. DEFINE qty      == report.exec - row.exec
            notional == report.quote - row.quote
            fee      == CommissionQuote(report, notional)
            baseFee  == CommissionBase(report)
<1>1. TypeOK /\ report \in Reports /\ portfolio \in Portfolios /\ row \in Rows /\ guessed \in BOOLEAN
  BY DEF BooksInv, TypeOK
<1>2. qty \in Int /\ notional \in Int /\ report.fills \in BOOLEAN
  BY <1>1 DEF Reports, Rows
<1>3. fee \in Int /\ baseFee \in Int
  BY <1>1, <1>2, CommissionIsInt
<1>4. qty - baseFee > 0
  BY DEF Observe, Accepted, Bookable
<1>5. portfolio' = AfterBuy(portfolio, qty - baseFee, notional, fee, ~report.fills)
  BY DEF Observe, NewPortfolio
<1>6. /\ row' \in Rows /\ row'.side = "BUY" /\ row'.exec = row.exec + qty
      /\ row'.quote = row.quote + notional /\ row'.feeQuote = row.feeQuote + fee
      /\ row'.feeBase = row.feeBase + baseFee
  <2>1. row' = NewRow(report, row)
    BY DEF Observe
  <2>2. row'.exec = report.exec /\ row'.quote = report.quote
    BY <1>1, <2>1, RowEffect
  <2>3. report.exec = row.exec + qty /\ report.quote = row.quote + notional
    BY <1>1 DEF Reports, Rows
  <2>. QED  BY <1>1, <2>1, <2>2, <2>3, RowEffect
<1>7. guessed' = (guessed \/ ~report.fills) /\ order' = order /\ answers' = answers
  BY DEF Observe
<1>. HIDE DEF qty, notional, fee, baseFee
<1>8. /\ portfolio' \in Portfolios
      /\ portfolio'.quote = portfolio.quote - (notional + fee)
      /\ portfolio'.base = portfolio.base + (qty - baseFee)
      /\ portfolio'.side = "LONG"
      /\ portfolio'.cost = (IF portfolio.side = "LONG" THEN portfolio.cost ELSE 0) + notional + fee
      /\ portfolio'.pnl = portfolio.pnl
      /\ portfolio'.estimated = (~report.fills \/ (portfolio.side = "LONG" /\ portfolio.estimated))
  <2>. DEFINE gained == qty - baseFee
              flag   == ~report.fills
  <2>1. gained \in Int /\ flag \in BOOLEAN
    BY <1>2, <1>3
  <2>2. portfolio' = AfterBuy(portfolio, gained, notional, fee, flag)
    BY <1>5
  <2>. HIDE DEF gained, flag
  <2>3. /\ portfolio' \in Portfolios
        /\ portfolio'.quote = portfolio.quote - (notional + fee)
        /\ portfolio'.base = portfolio.base + gained
        /\ portfolio'.side = "LONG"
        /\ portfolio'.cost = (IF portfolio.side = "LONG" THEN portfolio.cost ELSE 0) + notional + fee
        /\ portfolio'.pnl = portfolio.pnl
        /\ portfolio'.estimated = (flag \/ (portfolio.side = "LONG" /\ portfolio.estimated))
    BY <1>1, <1>2, <1>3, <2>1, <2>2, BuyEffect
  <2>. QED  BY <2>3 DEF gained, flag
<1>9. TypeOK'
  BY <1>1, <1>6, <1>7, <1>8 DEF TypeOK
<1>10. /\ portfolio.base \in Int /\ portfolio.quote \in Int /\ portfolio.cost \in Int
       /\ portfolio.side \in {"FLAT", "LONG"} /\ portfolio.estimated \in BOOLEAN
       /\ portfolio.pnl \in Int
  BY <1>1 DEF Portfolios
<1>11. PositionInv'
  <2>1. portfolio'.base > 0
    BY <1>2, <1>3, <1>4, <1>8, <1>10 DEF BooksInv, PositionInv
  <2>2. portfolio'.estimated = guessed'
    BY <1>7, <1>8, <1>10 DEF BooksInv, PositionInv
  <2>. QED  BY <1>8, <2>1, <2>2 DEF PositionInv
<1>12. Before("BUY") \in Portfolios
  BY BeforeFields DEF Sides
<1>13. /\ row.exec \in Int /\ row.quote \in Int /\ row.feeQuote \in Int /\ row.feeBase \in Int
       /\ Before("BUY").base \in Int /\ Before("BUY").quote \in Int /\ Before("BUY").cost \in Int
  BY <1>1, <1>12 DEF Rows, Portfolios
<1>14. /\ portfolio.base = Before("BUY").base + 1 * row.exec - row.feeBase
       /\ portfolio.quote = Before("BUY").quote - 1 * row.quote - row.feeQuote
       /\ portfolio.quote + portfolio.cost - portfolio.pnl = Before("BUY").quote + Before("BUY").cost
  BY DEF BooksInv, BalancesFollowRow, BookValueConserved
<1>15. BalancesFollowRow'
  <2>1. /\ portfolio'.base = Before("BUY").base + 1 * row'.exec - row'.feeBase
        /\ portfolio'.quote = Before("BUY").quote - 1 * row'.quote - row'.feeQuote
    BY <1>2, <1>3, <1>6, <1>8, <1>10, <1>13, <1>14
  <2>2. Before(row'.side) = Before("BUY")
    BY <1>6
  <2>. QED  BY <1>6, <2>1, <2>2 DEF BalancesFollowRow, Before, InitialPortfolio
<1>16. BookValueConserved'
  <2>1. portfolio.side = "FLAT" => portfolio.cost = 0
    BY DEF BooksInv, PositionInv
  <2>2. portfolio'.quote + portfolio'.cost - portfolio'.pnl = Before("BUY").quote + Before("BUY").cost
    BY <1>2, <1>3, <1>8, <1>10, <1>13, <1>14, <2>1
  <2>. QED  BY <1>6, <2>2 DEF BookValueConserved, Before, InitialPortfolio
<1>. QED  BY <1>9, <1>11, <1>15, <1>16 DEF BooksInv

LEMMA SellObserved ==
  ASSUME BooksInv, NEW report \in answers, Observe(report),
         HasNewFill(report, row), row.side = "SELL"
  PROVE  BooksInv'
<1>. DEFINE qty      == report.exec - row.exec
            notional == report.quote - row.quote
            fee      == CommissionQuote(report, notional)
            sold     == (portfolio.cost * qty) \div portfolio.base
<1>1. TypeOK /\ report \in Reports /\ portfolio \in Portfolios /\ row \in Rows /\ guessed \in BOOLEAN
  BY DEF BooksInv, TypeOK
<1>2. qty \in Nat \ {0} /\ notional \in Int /\ report.fills \in BOOLEAN
  BY <1>1 DEF Reports, Rows, HasNewFill
<1>3. fee \in Int
  BY <1>1, <1>2, CommissionIsInt
<1>4. CommissionBase(report) = 0 /\ SellAllowed(portfolio, qty)
  BY DEF Observe, Accepted, Bookable
<1>5. portfolio' = AfterSell(portfolio, qty, notional, fee, ~report.fills)
  BY DEF Observe, NewPortfolio
<1>6. /\ row' \in Rows /\ row'.side = "SELL" /\ row'.exec = row.exec + qty
      /\ row'.quote = row.quote + notional /\ row'.feeQuote = row.feeQuote + fee
      /\ row'.feeBase = row.feeBase
  <2>1. row' = NewRow(report, row)
    BY DEF Observe
  <2>2. row'.exec = report.exec /\ row'.quote = report.quote
    BY <1>1, <2>1, RowEffect
  <2>3. report.exec = row.exec + qty /\ report.quote = row.quote + notional
    BY <1>1 DEF Reports, Rows
  <2>4. row'.feeBase = row.feeBase + CommissionBase(report)
    BY <1>1, <2>1, RowEffect
  <2>5. row'.feeBase = row.feeBase
    BY <1>1, <1>4, <2>4 DEF Rows
  <2>. QED  BY <1>1, <2>1, <2>2, <2>3, <2>5, RowEffect
<1>7. guessed' = (guessed \/ ~report.fills) /\ order' = order /\ answers' = answers
  BY DEF Observe
<1>. HIDE DEF qty, notional, fee
<1>8. /\ portfolio' \in Portfolios /\ sold \in Int
      /\ portfolio'.quote = portfolio.quote + notional - fee
      /\ portfolio'.base = portfolio.base - qty
      /\ portfolio'.side = IF qty = portfolio.base THEN "FLAT" ELSE "LONG"
      /\ portfolio'.cost = IF qty = portfolio.base THEN 0 ELSE portfolio.cost - sold
      /\ portfolio'.pnl = portfolio.pnl + notional - fee - sold
      /\ portfolio'.estimated = (qty # portfolio.base /\ (portfolio.estimated \/ ~report.fills))
      /\ qty = portfolio.base => sold = portfolio.cost
  <2>. DEFINE flag == ~report.fills
  <2>1. flag \in BOOLEAN
    OBVIOUS
  <2>2. portfolio' = AfterSell(portfolio, qty, notional, fee, flag)
    BY <1>5
  <2>. HIDE DEF flag
  <2>3. /\ portfolio' \in Portfolios /\ sold \in Int
        /\ portfolio'.quote = portfolio.quote + notional - fee
        /\ portfolio'.base = portfolio.base - qty
        /\ portfolio'.side = IF qty = portfolio.base THEN "FLAT" ELSE "LONG"
        /\ portfolio'.cost = IF qty = portfolio.base THEN 0 ELSE portfolio.cost - sold
        /\ portfolio'.pnl = portfolio.pnl + notional - fee - sold
        /\ portfolio'.estimated = (qty # portfolio.base /\ (portfolio.estimated \/ flag))
        /\ qty = portfolio.base => sold = portfolio.cost
    BY <1>1, <1>2, <1>3, <1>4, <2>1, <2>2, SellEffect
  <2>. HIDE DEF sold
  <2>. QED  BY <2>3 DEF flag
<1>. HIDE DEF sold
<1>9. TypeOK'
  BY <1>1, <1>6, <1>7, <1>8 DEF TypeOK
<1>10. /\ portfolio.base \in Int /\ portfolio.quote \in Int /\ portfolio.cost \in Int
       /\ portfolio.estimated \in BOOLEAN /\ portfolio.pnl \in Int
       /\ portfolio.side = "LONG" /\ qty <= portfolio.base
  BY <1>1, <1>4 DEF Portfolios, SellAllowed
<1>11. PositionInv'
  <2>1. CASE qty = portfolio.base
    <3>1. portfolio'.base = 0
      BY <1>2, <1>8, <1>10, <2>1
    <3>2. portfolio'.side = "FLAT" /\ portfolio'.cost = 0
      BY <1>8, <2>1
    <3>3. ~portfolio'.estimated
      BY <1>8, <2>1, Zenon
    <3>. QED  BY <1>6, <3>1, <3>2, <3>3 DEF PositionInv
  <2>2. CASE qty # portfolio.base
    <3>1. portfolio'.base > 0 /\ portfolio'.side = "LONG"
      BY <1>2, <1>8, <1>10, <2>2
    <3>2. portfolio'.estimated = guessed'
      BY <1>7, <1>8, <1>10, <2>2 DEF BooksInv, PositionInv
    <3>. QED  BY <3>1, <3>2 DEF PositionInv
  <2>. QED  BY <2>1, <2>2
<1>12. Before("SELL") \in Portfolios
  BY BeforeFields DEF Sides
<1>13. PICK b, q, k \in Int : b = Before("SELL").base /\ q = Before("SELL").quote /\ k = Before("SELL").cost
  BY <1>12 DEF Portfolios
<1>14. row.exec \in Int /\ row.quote \in Int /\ row.feeQuote \in Int /\ row.feeBase \in Int
  BY <1>1 DEF Rows
<1>15. /\ portfolio.base = b - row.exec - row.feeBase
       /\ portfolio.quote = q + row.quote - row.feeQuote
       /\ portfolio.quote + portfolio.cost - portfolio.pnl = q + k
  <2>1. /\ portfolio.base = b + (-1) * row.exec - row.feeBase
        /\ portfolio.quote = q - (-1) * row.quote - row.feeQuote
        /\ portfolio.quote + portfolio.cost - portfolio.pnl = q + k
    BY <1>13 DEF BooksInv, BalancesFollowRow, BookValueConserved
  <2>. QED  BY <1>13, <1>14, <2>1
<1>16. /\ portfolio'.base = b + (-1) * row'.exec - row'.feeBase
       /\ portfolio'.quote = q - (-1) * row'.quote - row'.feeQuote
  BY <1>2, <1>3, <1>6, <1>8, <1>10, <1>13, <1>14, <1>15
<1>17. portfolio'.quote + portfolio'.cost - portfolio'.pnl = q + k
  BY <1>2, <1>3, <1>8, <1>10, <1>13, <1>15
<1>18. BalancesFollowRow' /\ BookValueConserved'
  BY <1>6, <1>13, <1>16, <1>17 DEF BalancesFollowRow, BookValueConserved, Before, InitialPortfolio
<1>. QED  BY <1>9, <1>11, <1>18 DEF BooksInv

LEMMA BooksStep == BooksInv /\ [Next]_vars => BooksInv'
<1> SUFFICES ASSUME BooksInv, [Next]_vars  PROVE BooksInv'
  OBVIOUS
<1>0. TypeOK
  BY DEF BooksInv
<1>1. CASE TypeOK' /\ UNCHANGED <<portfolio, row, guessed>>
  BY <1>1 DEF BooksInv, PositionInv, BalancesFollowRow, BookValueConserved, Before, InitialPortfolio
<1>2. CASE UNCHANGED vars
  <2>1. TypeOK' /\ UNCHANGED <<portfolio, row, guessed>>
    BY <1>0, <1>2 DEF vars, TypeOK
  <2>. QED  BY <1>1, <2>1
<1>3. ASSUME NEW report \in answers, Observe(report)  PROVE BooksInv'
  <2>1. CASE HasNewFill(report, row)
    <3>1. row.side \in Sides
      BY <1>0 DEF TypeOK, Rows
    <3>. QED  BY <1>3, <2>1, <3>1, BuyObserved, SellObserved DEF Sides
  <2>2. CASE ~HasNewFill(report, row)
    <3>1. report \in Reports /\ row \in Rows
      BY <1>0, <1>3 DEF TypeOK
    <3>2. row' = NewRow(report, row) /\ portfolio' = portfolio /\ guessed' = guessed
          /\ order' = order /\ answers' = answers
      BY <1>0, <1>3, <2>2 DEF Observe, NewPortfolio, TypeOK
    <3>3. /\ row' \in Rows /\ row'.side = row.side /\ row'.exec = row.exec /\ row'.quote = row.quote
          /\ row'.feeQuote = row.feeQuote /\ row'.feeBase = row.feeBase
      BY <2>2, <3>1, <3>2, RowEffect
    <3>4. TypeOK'
      BY <1>0, <3>2, <3>3 DEF TypeOK
    <3>5. BalancesFollowRow' /\ BookValueConserved'
      BY <3>2, <3>3 DEF BooksInv, BalancesFollowRow, BookValueConserved, Before, InitialPortfolio
    <3>6. PositionInv'
      BY <3>2, <3>3 DEF BooksInv, PositionInv
    <3>. QED  BY <3>4, <3>5, <3>6 DEF BooksInv
  <2>. QED  BY <2>1, <2>2
<1>4. CASE Expire
  BY <1>0, <1>1, <1>4, ExpireTypes
<1>5. ASSUME NEW n \in 1..(Quantity - order.exec), NEW p \in Prices, Fill(n, p)  PROVE BooksInv'
  BY <1>0, <1>1, <1>5, FillTypes
<1>. QED  BY <1>2, <1>3, <1>4, <1>5 DEF Next

LEMMA BooksAlways == Spec => []BooksInv
  BY BooksInit, BooksStep, PTL DEF Spec

\* The portfolio, the order's row and the exchange's answers keep their types.
THEOREM ObservationTyped == Spec => []TypeOK
<1>1. BooksInv => TypeOK
  BY DEF BooksInv
<1>. QED  BY <1>1, BooksAlways, PTL

\* apply_order_result_atomically moves the balances and the applied_* columns
\* together: in any number of observations, repeated or answered from an older
\* state, the balances are those before the order plus what the row says.
THEOREM BalancesAlwaysFollowRow == Spec => []BalancesFollowRow
<1>1. BooksInv => BalancesFollowRow
  BY DEF BooksInv
<1>. QED  BY <1>1, BooksAlways, PTL

\* compute_order_application prices every part at its own notional and fee, and
\* apply_sell allocates the cost in proportion with nothing left at the close: no
\* cut of an execution into observations makes or loses profit.
THEOREM BookValueAlwaysConserved == Spec => []BookValueConserved
<1>1. BooksInv => BookValueConserved
  BY DEF BooksInv
<1>. QED  BY <1>1, BooksAlways, PTL

\* pnl_is_estimated is set by every observation without commissions,
\* survives partial increases and partial exits, and is cleared by the close.
THEOREM EstimateAlwaysFlagged == Spec => []EstimateFlagged
<1>1. BooksInv => EstimateFlagged
  BY DEF BooksInv, PositionInv, EstimateFlagged
<1>. QED  BY <1>1, BooksAlways, PTL
=============================================================================
