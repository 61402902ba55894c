---------------------------- MODULE MCPaperTrader ----------------------------
(* A pair with nine hours of history, or with fifteen, which are one trend  *)
(* candle more than a start loads; and one without, or with the three hours *)
(* that the bands need.  The agendas are ticks on the hour, a feed silent   *)
(* for most of an hour, two ticks an hour, a clock that steps back and a    *)
(* pair that goes quiet.                                                    *)
EXTENDS PaperTrader, TLC

CONSTANTS btc, eth

MCPairs == {btc, eth}
MCPrices == {10, 12, 13, 16}

Of(history, other) == (btc :> history) @@ (eth :> other)
MCSeeds == {Of(<<10, 10, 10, 12, 12, 12, 12, 13, 13>>, <<10, 10, 10>>),
            Of(<<10, 10, 10, 16, 16, 16, 16, 16, 16, 16, 16, 16, 12, 10, 10>>, <<>>)}

TicksOf(pairs, gaps) == [i \in DOMAIN gaps |-> [pair |-> pairs[i], after |-> gaps[i]]]
Of4(p) == <<p, p, p, p>>

Hourly(n) == TicksOf([i \in 1..n |-> btc], [i \in 1..n |-> IF i = 1 THEN 0 ELSE 2])
Silent == TicksOf(Of4(btc), <<0, 3, 1, 1>>)
Twice == TicksOf(Of4(btc), <<0, 1, 1, 1>>)
SteppingBack == TicksOf(Of4(btc), <<0, 2, -1, 1>>)
Quiet == TicksOf(<<eth, btc, btc, eth>>, <<0, 0, 2, 0>>)
Alternating == TicksOf(<<eth, btc, eth>>, <<0, 0, 1>>)

MCAgendas ==
  {[ticks |-> Hourly(5), faults |-> 0]} \cup
  [ticks : {Hourly(4), Silent, Twice, SteppingBack, Quiet, Alternating},
   faults : {1}]
=============================================================================
