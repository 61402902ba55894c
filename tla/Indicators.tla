----------------------------- MODULE Indicators -----------------------------
(***************************************************************************)
(* The indicators of cryptotrader/strategy/_indicators.py in exact         *)
(* integer arithmetic, as the comparisons that the strategies make with    *)
(* them: an average is kept as a fraction, a band as the square of its     *)
(* distance from the middle.  Floating-point rounding is left out.         *)
(***************************************************************************)
EXTENDS Integers, Sequences, SequencesExt

Total(seq) == FoldLeft(LAMBDA sum, v : sum + v, 0, seq)

LastOf(seq, n) == SubSeq(seq, Len(seq) - n + 1, Len(seq))

\* ema: seeded with the average of the first period values, then smoothed by
\* 2 / (period + 1); the last value, as a fraction.  Of at least period values.
Ema(values, period) ==
  LET half == IF period % 2 = 1 THEN 2 ELSE 1
      new == 2 \div half
      all == (period + 1) \div half
      Smooth(e, v) == [num |-> new * v * e.den + (all - new) * e.num,
                       den |-> all * e.den]
  IN FoldLeft(Smooth, [num |-> Total(SubSeq(values, 1, period)), den |-> period],
              SubSeq(values, period + 1, Len(values)))

Below(e, f) == e.num * f.den < f.num * e.den
Price(v) == [num |-> v, den |-> 1]

\* The last two values of the series rise: it takes one more value than the
\* period, and is so exactly when the last value is above the average before.
EmaRises(values, period) ==
  /\ Len(values) > period
  /\ Below(Ema(Front(values), period), Price(Last(values)))

Larger(a, b) == IF a > b THEN a ELSE b

TrueRange(prev, c) ==
  Larger(c.high - c.low, Larger(c.high - prev.close, prev.close - c.low))

\* atr times its period.  Of more than period candles.
AtrTotal(candles, period) ==
  LET n == Len(candles) IN
  Total([i \in 1..period |->
           TrueRange(candles[n - period + i - 1], candles[n - period + i])])

\* bollinger_bands over the last period values: (period * sigma)^2, and period
\* times how far v is above the middle.
Spread2(values, period) ==
  LET w == LastOf(values, period)
  IN period * Total([i \in 1..period |-> w[i] * w[i]]) - Total(w) * Total(w)

AboveMiddle(values, period, v) == period * v - Total(LastOf(values, period))

AboveUpper(values, period, devs, v) ==
  LET d == AboveMiddle(values, period, v)
  IN d > 0 /\ d * d > devs * devs * Spread2(values, period)

\* The width of the bands, in percent of the middle, is at least pct.
WidthReaches(values, period, devs, pct) ==
  LET sum == Total(LastOf(values, period))
  IN 40000 * devs * devs * Spread2(values, period) >= pct * pct * sum * sum
=============================================================================
