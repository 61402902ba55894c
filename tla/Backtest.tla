------------------------------ MODULE Backtest ------------------------------
(***************************************************************************)
(* The replay of scripts/backtest.py: the bollinger strategy's rules over  *)
(* stored candles, in its baseline variant (the others swap a rule to      *)
(* measure it).  An hour candle is decided on at its open time here, an    *)
(* hour after it in the bot.                                               *)
(***************************************************************************)
EXTENDS Decisions

\* trend_up_at over trend_series: the verdict of the last candle that opened
\* before ts, which is taken for one that had completed.
TrendUpAt(trends, ts) ==
  LET Known(c) == c.t < ts
  IN EmaRises(ClosesOf(SelectSeq(trends, Known)), BollTrend)

\* Mutant of ReplaySells: the fee gate goes.
ReplaySellsUngated(pos, closes) ==
  \/ StopHit(pos, Last(closes))
  \/ AboveMiddle(closes, BollPeriod, Last(closes)) < 0

\* The stop loss first, then the middle band behind the fee gate.
ReplaySells(pos, closes) ==
  \/ StopHit(pos, Last(closes))
  \/ /\ AboveMiddle(closes, BollPeriod, Last(closes)) < 0
     /\ FeesCover(pos, Last(closes))

ReplayBuys(closes, trends, ts, filter) ==
  /\ filter => TrendUpAt(trends, ts)
  /\ Breakout(closes)

\* run(): the simulated trades, each at the open time of its candle.  Candles
\* before from warm the bands up; the first period of all have no bands.
Replay(hours, trends, filter, from) ==
  LET ClosesTo(i) == [j \in 1..i |-> hours[j].close]
      Flat(trades) == [in |-> FALSE, entry |-> None, trades |-> trades]
      Trade(i, side) == [t |-> hours[i].t, side |-> side]
      Decided(i) == i > BollPeriod /\ hours[i].t >= from
      Step(pos, i) ==
        CASE Decided(i) /\ pos.in /\ ReplaySells(pos, ClosesTo(i)) ->
               Flat(Append(pos.trades, Trade(i, "sell")))
          [] Decided(i) /\ ~pos.in
               /\ ReplayBuys(ClosesTo(i), trends, hours[i].t, filter) ->
               [in |-> TRUE, entry |-> hours[i].close,
                trades |-> Append(pos.trades, Trade(i, "buy"))]
          [] OTHER -> pos
  IN FoldLeft(Step, Flat(<<>>), [i \in DOMAIN hours |-> i]).trades
=============================================================================
