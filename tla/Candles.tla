------------------------------ MODULE Candles ------------------------------
(***************************************************************************)
(* Ticks into candles of one timeframe (cryptotrader/candles.py), and the  *)
(* table that candles are kept in (cryptotrader/db/database.py).           *)
(*                                                                         *)
(* A candle is [t, high, low, close], t being its open time; the open      *)
(* price and the tick count are left out, since no decision reads them.  A *)
(* builder is [current, done]: the candle still open and the completed     *)
(* ones, oldest first.  Each strategy has builders of its own.             *)
(***************************************************************************)
EXTENDS Indicators

NoCandle == [t |-> -1, high |-> 0, low |-> 0, close |-> 0]

NewBuilder == [current |-> NoCandle, done |-> <<>>]

\* _candle_open: the boundary at or before t.
CandleOpen(t, tf) == t - (t % tf)

FirstTick(t, price) == [t |-> t, high |-> price, low |-> price, close |-> price]

LaterTick(c, price) ==
  [c EXCEPT !.high = IF price > @ THEN price ELSE @,
            !.low = IF price < @ THEN price ELSE @,
            !.close = price]

\* add_tick: a tick of any other boundary, earlier ones included, completes
\* the open candle.
AddTick(b, t, price, tf) ==
  LET open == CandleOpen(t, tf) IN
  IF b.current # NoCandle /\ b.current.t = open
  THEN [b EXCEPT !.current = LaterTick(@, price)]
  ELSE [current |-> FirstTick(open, price),
        done |-> IF b.current = NoCandle THEN b.done
                                         ELSE Append(b.done, b.current)]

\* What add_tick returns: a candle was completed between b and c.
Completes(b, c) == c.done # b.done

\* load: the completed candles of the table; the open one is not in it.
Loaded(candles) == [NewBuilder EXCEPT !.done = candles]

\* insert_candle: INSERT OR IGNORE under a unique (pair, timeframe, timestamp).
\* A table is the sequence of its rows in the order of their timestamps.
Stored(table, c) ==
  LET Earlier == {i \in DOMAIN table : table[i].t < c.t}
  IN IF \E i \in DOMAIN table : table[i].t = c.t
     THEN table
     ELSE InsertAt(table, Cardinality(Earlier) + 1, c)

\* Mutant of LastStored: ORDER BY timestamp ASC LIMIT n.
FirstStored(table, n) == SubSeq(table, 1, IF n < Len(table) THEN n ELSE Len(table))

\* query_candles: the last n, oldest first.
LastStored(table, n) == SubSeq(table, Larger(1, Len(table) - n + 1), Len(table))
=============================================================================
