------------------------------ MODULE Strategy ------------------------------
(***************************************************************************)
(* A strategy's belief about its own position, and the rollback that the   *)
(* Strategy base class arms (cryptotrader/strategy/base.py).               *)
(*                                                                         *)
(* A strategy flips its state when it emits a signal, before anybody knows *)
(* whether an order will be placed.  Arm keeps what it believed; Rejected  *)
(* puts it back, Filled drops it.  A belief is                             *)
(*   [in, entry, pending], pending = [armed, in, entry];                   *)
(* entry is None in the strategies that do not track it (all but           *)
(* bollinger).                                                             *)
(***************************************************************************)
EXTENDS Integers

CONSTANTS StopLossPct,    \* bollinger.stop_loss_pct, 0 = off
          FeePct          \* bollinger.fee_pct, per leg, 0 = gate off

ASSUME PercentAssumption == StopLossPct \in 0..100 /\ FeePct \in 0..100

None == 0                 \* no price is 0

NoSnapshot == [armed |-> FALSE, in |-> FALSE, entry |-> None]

Beliefs(Prices) ==
  [in : BOOLEAN, entry : Prices \cup {None},
   pending : [armed : BOOLEAN, in : BOOLEAN, entry : Prices \cup {None}]]

\* A strategy as constructed.
Fresh == [in |-> FALSE, entry |-> None, pending |-> NoSnapshot]

\* _arm_rollback: a snapshot of POSITION_ATTRS.
Arm(b) == [armed |-> TRUE, in |-> b.in, entry |-> b.entry]

\* The BUY and the SELL branch of evaluate(), close being the close of the
\* completed candle and tracks telling whether the strategy keeps its entry.
Entered(b, close, tracks) ==
  [in |-> TRUE, entry |-> IF tracks THEN close ELSE None, pending |-> Arm(b)]

Exited(b) == [in |-> FALSE, entry |-> None, pending |-> Arm(b)]

\* Mutant of Rejected: only the flag is put back, not the entry price.
RejectedFlagOnly(b) ==
  IF b.pending.armed
  THEN [b EXCEPT !.in = b.pending.in, !.pending = NoSnapshot]
  ELSE b

\* on_order_rejected and on_order_filled.
Rejected(b) ==
  IF b.pending.armed
  THEN [in |-> b.pending.in, entry |-> b.pending.entry, pending |-> NoSnapshot]
  ELSE b

Filled(b) == [b EXCEPT !.pending = NoSnapshot]

\* Mutant of Restored: the position is forgotten, as by the base class.
RestoredFlat(last, price, tracks) == Fresh

\* restore(): long if and only if the last trade of this pair, mode and
\* strategy is a BUY, at the price of that trade.
Restored(last, price, tracks) ==
  IF last = "buy"
  THEN [Fresh EXCEPT !.in = TRUE, !.entry = IF tracks THEN price ELSE None]
  ELSE Fresh

\* Between signals a belief is settled: it is what the log says, which is long
\* or not, and nothing is armed.  While a signal is handled it is flipped: the
\* opposite of the log, with a snapshot of what the log says.
Settled(b, long, tracks) ==
  /\ b.in <=> long
  /\ b.entry # None <=> (long /\ tracks)
  /\ ~b.pending.armed

Flipped(b, long, tracks) ==
  /\ b.in <=> ~long
  /\ b.entry # None <=> (b.in /\ tracks)
  /\ b.pending.armed
  /\ b.pending.in <=> long
  /\ b.pending.entry # None <=> (long /\ tracks)

\* The two exits of bollinger: the stop-loss, which nothing gates, and the
\* close below the middle band, gated by the fees of both legs.
StopHit(b, close) ==
  /\ StopLossPct > 0
  /\ b.entry # None
  /\ close * 100 <= b.entry * (100 - StopLossPct)

FeesCover(b, close) ==
  \/ FeePct = 0
  \/ b.entry = None
  \/ (close - b.entry) * 100 >= (close + b.entry) * FeePct

MayExit(b, close) == StopHit(b, close) \/ FeesCover(b, close)
=============================================================================
