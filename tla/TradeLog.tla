------------------------------ MODULE TradeLog ------------------------------
(***************************************************************************)
(* What the bot derives from its trade log (cryptotrader/statistics.py).   *)
(*                                                                         *)
(* The code re-reads the rows of one (pair, mode, strategy) in timestamp   *)
(* order each time it needs a figure, and walks them.  Every walk is a     *)
(* fold from the left, so the log is kept here as the record of its folds  *)
(* and a trade is one step of all of them:                                 *)
(*                                                                         *)
(*   last, price  side and price of the last row (what restore() reads)    *)
(*   open         running total of open_position_quantity, in grains       *)
(*   buys         prices of the open buys of realized_pnl_for_sell         *)
(*   dayBuys      the open buys of compute(since = midnight)               *)
(*                                                                         *)
(* TradeLogCheck compares these folds with the rows themselves.  A float   *)
(* quantity is a whole number of grains; Lot grains make 1e-8 of the base  *)
(* currency, so a quantity need not be a multiple of Lot.                  *)
(***************************************************************************)
EXTENDS Integers, Sequences

CONSTANT Lot      \* grains in 1e-8

ASSUME LotAssumption == Lot \in Nat \ {0}

EmptyLog == [last |-> "none", price |-> 0, open |-> 0,
             buys |-> <<>>, dayBuys |-> <<>>]

Logs(Prices) == [last : {"none", "buy", "sell"}, price : Prices \cup {0},
                 open : Nat, buys : Seq(Prices), dayBuys : Seq(Prices)]

\* floor(qty * 1e8) / 1e8
Floor8(g) == g - (g % Lot)

\* open_position_quantity: what a sell may dispose of.
Sellable(log) == Floor8(log.open)

\* Mutant of Less: the walk before the floor was added.
LessUnfloored(open, qty) == open - qty

\* max(0.0, qty - t.quantity)
Less(open, qty) == IF qty < open THEN open - qty ELSE 0

\* Mutant of Popped: open_buys.pop().
PoppedNewest(buys) ==
  IF buys = <<>> THEN <<>> ELSE SubSeq(buys, 1, Len(buys) - 1)

\* open_buys.pop(0), when there is one
Popped(buys) == IF buys = <<>> THEN <<>> ELSE Tail(buys)

\* The P&L of a sell matched against the oldest of buys; 0 stands for the
\* NULL that realized_pnl_for_sell returns when nothing is open.
Matched(buys, price, qty) ==
  IF buys = <<>> THEN 0 ELSE (price - Head(buys)) * qty

\* A row (side, price, qty) joins the log; today says whether its timestamp
\* is not before this midnight.
Bought(log, price, qty, today) ==
  [last |-> "buy", price |-> price, open |-> log.open + qty,
   buys |-> Append(log.buys, price),
   dayBuys |-> IF today THEN Append(log.dayBuys, price) ELSE log.dayBuys]

Sold(log, price, qty, today) ==
  [last |-> "sell", price |-> price, open |-> Less(log.open, qty),
   buys |-> Popped(log.buys),
   dayBuys |-> IF today THEN Popped(log.dayBuys) ELSE log.dayBuys]

Recorded(log, side, price, qty, today) ==
  IF side = "buy" THEN Bought(log, price, qty, today)
                  ELSE Sold(log, price, qty, today)

\* What the row adds to compute(since = midnight).total_pnl.
DayPnlStep(log, side, price, qty, today) ==
  IF side = "sell" /\ today THEN Matched(log.dayBuys, price, qty) ELSE 0

\* Mutant of AtMidnight: the day's open buys survive midnight.
AtMidnightKept(log) == log

\* Midnight UTC: no row is of today any more.
AtMidnight(log) == [log EXCEPT !.dayBuys = <<>>]
=============================================================================
