--------------------------- MODULE TradeLogCheck ---------------------------
(***************************************************************************)
(* The folds of TradeLog and OpenPositions against the rows they stand     *)
(* for.  Any row may follow any other, as in a log with manual repairs,    *)
(* over-sells (the sizing bug the floor was added for), repeated buys and  *)
(* several days, and each figure is defined from the whole sequence        *)
(* without walking it.                                                     *)
(***************************************************************************)
EXTENDS OpenPositions, FiniteSetsExt

CONSTANTS Prices, Quantities, MaxRows, MaxDays

\* A row has a price and a quantity.
ASSUME RowAssumption == Prices \subseteq Nat \ {0} /\ Quantities \subseteq Nat \ {0}

VARIABLES rows,      \* the table, in timestamp order
          log,       \* its folds
          watched,   \* its fold by open_positions
          dayPnl,    \* compute(since = midnight).total_pnl, by the folds
          day

vars == <<rows, log, watched, dayPnl, day>>

Init ==
  /\ rows = <<>> /\ log = EmptyLog /\ watched = NoPosition
  /\ dayPnl = 0 /\ day = 0

Insert ==
  /\ Len(rows) < MaxRows
  /\ \E side \in {"buy", "sell"}, p \in Prices, q \in Quantities, d \in 0..day :
       \* timestamps are taken before the insert, perhaps on the day before
       /\ rows # <<>> => rows[Len(rows)].day <= d
       /\ rows' = Append(rows, [side |-> side, price |-> p, qty |-> q, day |-> d])
       /\ log' = Recorded(log, side, p, q, d = day)
       /\ watched' = Walked(watched, side, p, q)
       /\ dayPnl' = dayPnl + DayPnlStep(log, side, p, q, d = day)
  /\ UNCHANGED day

Midnight ==
  /\ day < MaxDays
  /\ day' = day + 1
  /\ log' = AtMidnight(log)
  /\ dayPnl' = 0
  /\ UNCHANGED <<rows, watched>>

Next == Insert \/ Midnight

Spec == Init /\ [][Next]_vars

-----------------------------------------------------------------------------
Rows == 1..Len(rows)

Signed(i) == IF rows[i].side = "buy" THEN rows[i].qty ELSE -rows[i].qty

\* Buys and sells among the rows I, and the k-th buy of I.
BuysOf(I) == {i \in I : rows[i].side = "buy"}
SellsOf(I) == {i \in I : rows[i].side = "sell"}

\* Buys of I still open after row i: a sell with nothing open closes nothing,
\* so the count is the greatest excess of buys over sells in a tail.
OpenCount(I, i) ==
  LET Up(j) == {k \in I : k > j /\ k <= i}
  IN Max({Cardinality(BuysOf(Up(j))) - Cardinality(SellsOf(Up(j))) : j \in 0..i})

\* The oldest buy of I still open after row i, when OpenCount(I, i) > 0: the
\* buys that remain are the last OpenCount of them.
OldestOpen(I, i) ==
  CHOOSE b \in BuysOf(I) :
    /\ b <= i
    /\ Cardinality({k \in BuysOf(I) : b <= k /\ k <= i}) = OpenCount(I, i)

PnlOf(I, i) ==
  IF rows[i].side = "sell" /\ OpenCount(I, i - 1) > 0
  THEN (rows[i].price - rows[OldestOpen(I, i - 1)].price) * rows[i].qty
  ELSE 0

\* The greatest sum of a tail of the first n rows.
GreatestTail(n) == Max({MapThenSumSet(Signed, {i \in 1..n : i > j}) : j \in 0..n})

\* The running total floored at every sell is the greatest sum of a tail of
\* the table: an over-sell forgets what precedes it and nothing else
\* (statistics.py: it "does not carry a negative balance forward").
OpenIsGreatestTail == log.open = GreatestTail(Len(rows))

\* What the daily check takes for held is what a sell would dispose of
\* (reconcile.py: it "must match statistics.open_position_quantity"), although
\* it is held only if an entry price was kept for it too.
HeldIsSellable == HeldQuantity(watched) = Sellable(log)

\* The entry price that the stop loss is checked against is that of the first
\* buy since the walk was last at zero exactly.  Dust below 1e-8 is not zero:
\* after a sell that leaves some, the next position keeps the old entry.
EntryIsSinceZero ==
  LET flat == Max({n \in 0..Len(rows) : GreatestTail(n) = 0})
  IN watched.entry = IF flat = Len(rows) THEN 0 ELSE rows[flat + 1].price

\* The open buys are the most recent ones, as many as no sell has closed.
BuysAreTheOpenOnes ==
  /\ Len(log.buys) = OpenCount(Rows, Len(rows))
  /\ log.buys # <<>> =>
       Head(log.buys) = rows[OldestOpen(Rows, Len(rows))].price

\* daily_pnl is the FIFO P&L of the table cut at midnight: a sell of today is
\* counted only against a buy of today.
DayPnlIsOfTheCutTable ==
  LET Today == {i \in Rows : rows[i].day = day}
  IN dayPnl = MapThenSumSet(LAMBDA i : PnlOf(Today, i), Today)
=============================================================================
