--------------------------- MODULE OpenPositions ---------------------------
(***************************************************************************)
(* The position that the daily check watches for a missed stop loss or a   *)
(* stale holding: open_positions (cryptotrader/reconcile.py), a walk of    *)
(* its own over the rows that TradeLog is about, again kept as a fold.     *)
(***************************************************************************)
EXTENDS TradeLog

\* qty in grains; entry is the price of the tuple kept for the pair, 0 when
\* there is none.
NoPosition == [qty |-> 0, entry |-> 0]

\* Mutant of BoughtMore: every buy sets the entry.
BoughtAfresh(pos, price, qty) == [qty |-> pos.qty + qty, entry |-> price]

BoughtMore(pos, price, qty) ==
  [qty |-> pos.qty + qty,
   entry |-> IF pos.qty <= 0 THEN price ELSE pos.entry]

\* Mutant of SoldSome: a plain running sum.
SoldUnfloored(pos, qty) ==
  [qty |-> pos.qty - qty,
   entry |-> IF pos.qty - qty <= 0 THEN 0 ELSE pos.entry]

SoldSome(pos, qty) ==
  LET left == Less(pos.qty, qty)
  IN [qty |-> left, entry |-> IF left <= 0 THEN 0 ELSE pos.entry]

Walked(pos, side, price, qty) ==
  IF side = "buy" THEN BoughtMore(pos, price, qty) ELSE SoldSome(pos, qty)

\* Reported as held, and its size.
IsHeld(pos) == Floor8(pos.qty) > 0 /\ pos.entry # 0

HeldQuantity(pos) == IF IsHeld(pos) THEN Floor8(pos.qty) ELSE 0
=============================================================================
