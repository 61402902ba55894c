----------------------------- MODULE Decisions -----------------------------
(***************************************************************************)
(* When each of the four strategies emits (evaluate() of threshold, ema,   *)
(* bollinger and trend_pullback in cryptotrader/strategy/).  hours and     *)
(* trends are the completed candles that the strategy has in memory, b its *)
(* belief; what a signal does to the belief is in module Strategy.         *)
(***************************************************************************)
EXTENDS Strategy, Indicators

CONSTANTS
  BuyTrigger, SellTrigger,            \* threshold
  Spread,                             \* half of ask - bid, around the last
  FastPeriod, SlowPeriod,             \* ema
  AtrPeriod, AtrMinPct,
  BollPeriod, StdDevs, MinWidthPct,   \* bollinger
  BollTrend,                          \* its trend_ema_period
  PullTrend, PullPeriod               \* trend_pullback

ASSUME PeriodAssumption ==
  {FastPeriod, SlowPeriod, AtrPeriod, BollPeriod, BollTrend, PullTrend,
   PullPeriod} \subseteq Nat \ {0}

ClosesOf(candles) == [i \in DOMAIN candles |-> candles[i].close]

ThresholdBuys(price) == price + Spread <= BuyTrigger
ThresholdSells(price) == price - Spread >= SellTrigger

\* The fast average crosses the slow one on the last candle, and the market
\* moves enough for that to mean something.
EmaReady(hours) ==
  Len(hours) >= Larger(SlowPeriod + 2, Larger(FastPeriod, AtrPeriod) + 1)

Fast(closes) == Ema(closes, FastPeriod)
Slow(closes) == Ema(closes, SlowPeriod)

EmaBuys(hours, price) ==
  LET now == ClosesOf(hours)
      before == Front(now)
  IN /\ ~Below(Slow(before), Fast(before))
     /\ Below(Slow(now), Fast(now))
     /\ AtrTotal(hours, AtrPeriod) * 100 >= AtrMinPct * AtrPeriod * price

EmaSells(hours) ==
  LET now == ClosesOf(hours)
      before == Front(now)
  IN ~Below(Fast(before), Slow(before)) /\ Below(Fast(now), Slow(now))

\* A close above the upper band of bands that widen and are wide enough; the
\* trend filter is the caller's.
Breakout(closes) ==
  /\ AboveUpper(closes, BollPeriod, StdDevs, Last(closes))
  /\ Spread2(closes, BollPeriod) > Spread2(Front(closes), BollPeriod)
  /\ WidthReaches(closes, BollPeriod, StdDevs, MinWidthPct)

\* The stop loss, or a close below the middle band that covers the fees.
BollingerSells(b, closes) ==
  LET close == Last(closes) IN
  \/ StopHit(b, close)
  \/ AboveMiddle(closes, BollPeriod, close) < 0 /\ FeesCover(b, close)

PullbackReady(hours, trends) ==
  Len(trends) >= PullTrend + 2 /\ Len(hours) >= PullPeriod + 2

\* A close back above the short average, after one below it, in an uptrend.
PullbackBuys(hours, trends) ==
  LET now == ClosesOf(hours)
      before == Front(now)
  IN /\ EmaRises(ClosesOf(trends), PullTrend)
     /\ ~Below(Ema(before, PullPeriod), Price(Last(before)))
     /\ Below(Ema(now, PullPeriod), Price(Last(now)))

PullbackSells(hours, trends) ==
  LET now == ClosesOf(hours) IN
  \/ ~EmaRises(ClosesOf(trends), PullTrend)
  \/ Below(Price(Last(now)), Ema(now, PullPeriod))
=============================================================================
