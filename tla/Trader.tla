------------------------------- MODULE Trader -------------------------------
(***************************************************************************)
(* The production loop with market orders, which is the shipped            *)
(* configuration: Trader.run (cryptotrader/trader.py) drives one strategy  *)
(* per pair, TradeExecutor.execute (cryptotrader/executor.py) checks and   *)
(* places what it proposes, the exchange executes, the trade log records,  *)
(* and systemd restarts the process, whose strategies restore from the     *)
(* log.                                                                    *)
(*                                                                         *)
(* The loop handles one signal at a time; pc says how far it has got:      *)
(*   idle       awaiting a tick                                            *)
(*   signalled  a strategy has flipped its state and emitted a signal      *)
(*   balance    awaiting the balance for a buy                             *)
(*   sized      quantity known, daily loss not checked yet                 *)
(*   placed     AddOrder sent, not executed yet                            *)
(*   executed   AddOrder executed, the reply is not handled yet            *)
(*   down       the process has stopped                                    *)
(* The awaits are where the clock, the exchange and crashes interleave.    *)
(***************************************************************************)
EXTENDS Settings

CONSTANTS
  MaxDailyLoss,   \* mode.max_daily_loss_usd
  NoCall,         \* no signal is being handled
  MaxOrders,      \* bound: orders sent
  MaxFaults,      \* bound: crashes, lost replies, failed inserts, error replies
  MaxDays         \* bound: midnights

ASSUME LossAssumption == MaxDailyLoss \in Nat

ASSUME BoundAssumption ==
  MaxOrders \in Nat /\ MaxFaults \in Nat /\ MaxDays \in Nat

VARIABLES
  pc,        \* see above
  call,      \* the signal being handled, and its order
  belief,    \* each slot's strategy; lost when the process stops
  log,       \* each slot's trade log
  exch,      \* net coin the bot's orders have moved at the exchange
  orphan,    \* the part of exch that no row of the log will ever show
  day,       \* UTC date
  dayPnl,    \* daily_pnl()
  realized,  \* sum of the pnl column over the sells stamped today
  orders,    \* orders sent
  faults,    \* faults so far
  \* what the code does not have:
  restored,  \* slots whose entry price a restart took from the log
  overnight  \* a sell stamped today closed a buy from before midnight

vars == <<pc, call, belief, log, exch, orphan, day, dayPnl, realized,
          orders, faults, restored, overnight>>

Calls == [slot : Slots, side : {"buy", "sell"}, price : Prices,
          qty : Nat, day : Nat, pnl : Int]

Effect(c) == IF c.side = "buy" THEN c.qty ELSE -c.qty

Init ==
  /\ pc = "idle"
  /\ call = NoCall
  /\ belief = [s \in Slots |-> Fresh]
  /\ log = [s \in Slots |-> EmptyLog]
  /\ exch = [s \in Slots |-> 0]
  /\ orphan = [s \in Slots |-> 0]
  /\ day = 0 /\ dayPnl = 0 /\ realized = 0
  /\ orders = 0 /\ faults = 0
  /\ restored = {} /\ overnight = FALSE

-----------------------------------------------------------------------------
\* How a signal ends.  Each wraps up pc, call and belief.

Settle(b) ==
  /\ pc' = "idle"
  /\ call' = NoCall
  /\ belief' = [belief EXCEPT ![call.slot] = b]

\* execute() returned None and nothing rests: on_order_rejected.
Refuse ==
  /\ Settle(Rejected(belief[call.slot]))
  /\ UNCHANGED <<log, exch, orphan, day, dayPnl, realized, orders, faults,
                 restored, overnight>>

\* Mutant of Abort: the failed call is left behind.
AbortKeepsCall ==
  /\ pc' = "down"
  /\ UNCHANGED call
  /\ restored' = {}
  /\ belief' = [belief EXCEPT ![call.slot] = Rejected(@)]

\* execute() raised: on_order_rejected, then the exception leaves run() and
\* ends the loop (what becomes of the process: module PriceFeed).
Abort ==
  /\ pc' = "down"
  /\ call' = NoCall
  /\ restored' = {}
  /\ belief' = [belief EXCEPT ![call.slot] = Rejected(@)]

-----------------------------------------------------------------------------
\* A completed candle closing at close makes the strategy of s emit; price is
\* the tick that completed it.
Evaluate(s) ==
  /\ pc = "idle"
  /\ orders < MaxOrders
  /\ \E price, close \in Prices :
       LET Signal(side) == [slot |-> s, side |-> side, price |-> price,
                            qty |-> Quantity[s], day |-> day, pnl |-> 0]
           b == belief[s]
       IN \/ /\ ~b.in
             /\ belief' = [belief EXCEPT ![s] = Entered(b, close, s \in Tracking)]
             /\ call' = Signal("buy")
          \/ /\ b.in
             /\ MayExit(b, close)
             /\ belief' = [belief EXCEPT ![s] = Exited(b)]
             /\ call' = Signal("sell")
  /\ pc' = "signalled"
  /\ UNCHANGED <<log, exch, orphan, day, dayPnl, realized, orders, faults,
                 restored, overnight>>

\* feed_healthy() is false: the order is skipped and the strategy rolled back.
SkipUnhealthy ==
  /\ pc = "signalled"
  /\ Refuse

\* A buy: sized by the budget, stopped by the hard cap, else the balance is
\* asked for.
SizeBuy ==
  /\ pc = "signalled"
  /\ call.side = "buy"
  /\ LET qty == BuyQty(call.slot, call.price) IN
       IF qty * call.price > MaxOrder[call.slot]
       THEN Abort
       ELSE /\ pc' = "balance"
            /\ call' = [call EXCEPT !.qty = qty]
            /\ UNCHANGED <<belief, restored>>
  /\ UNCHANGED <<log, exch, orphan, day, dayPnl, realized, orders, faults,
                 overnight>>

BalanceCovers ==
  /\ pc = "balance"
  /\ pc' = "sized"
  /\ UNCHANGED <<call, belief, log, exch, orphan, day, dayPnl, realized,
                 orders, faults, restored, overnight>>

\* INSUFFICIENT_BALANCE or BALANCE_CHECK_FAILED.
BalanceRefuses ==
  /\ pc = "balance"
  /\ Refuse

\* Mutant of SizeSell: a sell is sized like a buy.
SizeSellByBudget ==
  /\ pc = "signalled"
  /\ call.side = "sell"
  /\ pc' = "sized"
  /\ call' = [call EXCEPT !.qty = BuyQty(call.slot, call.price)]
  /\ UNCHANGED <<belief, log, exch, orphan, day, dayPnl, realized,
                 orders, faults, restored, overnight>>

\* A sell: sized by the open position, refused when there is none.
SizeSell ==
  /\ pc = "signalled"
  /\ call.side = "sell"
  /\ LET qty == Sellable(log[call.slot]) IN
       IF qty <= 0
       THEN Refuse
       ELSE /\ pc' = "sized"
            /\ call' = [call EXCEPT !.qty = qty]
            /\ UNCHANGED <<belief, log, exch, orphan, day, dayPnl, realized,
                           orders, faults, restored, overnight>>

\* Mutant of LimitReached: a loss of just the limit is let through.
LimitExceeded == dayPnl < -MaxDailyLoss

LimitReached == dayPnl <= -MaxDailyLoss

\* The daily loss limit, which refuses sells as well as buys.
LossRefuses ==
  /\ pc = "sized"
  /\ LimitReached
  /\ Refuse

\* The trade is stamped and its pnl computed, then AddOrder is sent.
PlaceOrder ==
  /\ pc = "sized"
  /\ ~LimitReached
  /\ pc' = "placed"
  /\ call' = [call EXCEPT
                !.day = day,
                !.pnl = IF call.side = "sell"
                        THEN Matched(log[call.slot].buys, call.price, call.qty)
                        ELSE 0]
  /\ orders' = orders + 1
  /\ UNCHANGED <<belief, log, exch, orphan, day, dayPnl, realized, faults,
                 restored, overnight>>

-----------------------------------------------------------------------------
\* The exchange executes the market order at once.
ExchangeExecutes ==
  /\ pc = "placed"
  /\ pc' = "executed"
  /\ exch' = [exch EXCEPT ![call.slot] = @ + Effect(call)]
  /\ UNCHANGED <<call, belief, log, orphan, day, dayPnl, realized, orders,
                 faults, restored, overnight>>

\* Mutant of Record: the row has the configured quantity, not the one placed.
RecordConfigured ==
  /\ pc = "executed"
  /\ LET s == call.slot
         today == call.day = day
     IN /\ log' = [log EXCEPT
                     ![s] = Recorded(@, call.side, call.price, Quantity[s], today)]
        /\ Settle(Filled(belief[s]))
  /\ UNCHANGED <<exch, orphan, day, dayPnl, realized, orders, faults,
                 restored, overnight>>

\* The reply arrives, the row is inserted, on_order_filled drops the snapshot.
Record ==
  /\ pc = "executed"
  /\ LET s == call.slot
         today == call.day = day
     IN /\ log' = [log EXCEPT
                     ![s] = Recorded(@, call.side, call.price, call.qty, today)]
        /\ dayPnl' = dayPnl
             + DayPnlStep(log[s], call.side, call.price, call.qty, today)
        /\ realized' = realized + IF today THEN call.pnl ELSE 0
        /\ Settle(Filled(belief[s]))
        /\ restored' = restored \ {s}
        /\ overnight' =
             (overnight \/ (call.side = "sell" /\ today /\ log[s].buys # log[s].dayBuys))
  /\ UNCHANGED <<exch, orphan, day, orders, faults>>

Fault ==
  /\ faults < MaxFaults
  /\ faults' = faults + 1

\* The exchange answers with an error and executes nothing: _post raises.
ExchangeErrors ==
  /\ pc = "placed"
  /\ Fault
  /\ Abort
  /\ UNCHANGED <<log, exch, orphan, day, dayPnl, realized, orders, overnight>>

\* The order is executed, now or late, and no row will show it.
Orphaned(executesLate) ==
  LET s == call.slot IN
  IF pc = "executed"
  THEN /\ orphan' = [orphan EXCEPT ![s] = @ + Effect(call)]
       /\ UNCHANGED exch
  ELSE IF pc = "placed" /\ executesLate
  THEN /\ orphan' = [orphan EXCEPT ![s] = @ + Effect(call)]
       /\ exch' = [exch EXCEPT ![s] = @ + Effect(call)]
  ELSE UNCHANGED <<orphan, exch>>

\* No reply within the 10 s timeout of _post_once, or a reply that cannot be
\* read: place_order raises, whatever the exchange did.
ReplyLost ==
  /\ pc \in {"placed", "executed"}
  /\ Fault
  /\ \E executesLate \in BOOLEAN : Orphaned(executesLate)
  /\ Abort
  /\ UNCHANGED <<log, day, dayPnl, realized, orders, overnight>>

\* The reply arrives and insert_trade raises.
InsertFails ==
  /\ pc = "executed"
  /\ Fault
  /\ Orphaned(FALSE)
  /\ Abort
  /\ UNCHANGED <<log, day, dayPnl, realized, orders, overnight>>

\* The process dies, losing what its strategies believed.
Crash ==
  /\ pc # "down"
  /\ Fault
  /\ \E executesLate \in BOOLEAN : Orphaned(executesLate)
  /\ pc' = "down"
  /\ call' = NoCall
  /\ belief' = [s \in Slots |-> Fresh]
  /\ restored' = {}
  /\ UNCHANGED <<log, day, dayPnl, realized, orders, overnight>>

Long(s) == log[s].last = "buy"

\* systemd starts the process again: Trader.__init__ restores every strategy.
Restart ==
  /\ pc = "down"
  /\ pc' = "idle"
  /\ belief' = [s \in Slots |->
                  Restored(log[s].last, log[s].price, s \in Tracking)]
  /\ restored' = {s \in Tracking : Long(s)}
  /\ UNCHANGED <<call, log, exch, orphan, day, dayPnl, realized, orders, faults,
                 overnight>>

Midnight ==
  /\ day < MaxDays
  /\ day' = day + 1
  /\ log' = [s \in Slots |-> AtMidnight(log[s])]
  /\ dayPnl' = 0
  /\ realized' = 0
  /\ overnight' = FALSE
  /\ UNCHANGED <<pc, call, belief, exch, orphan, orders, faults, restored>>

\* A tick that makes no strategy emit.
QuietTick == pc = "idle" /\ UNCHANGED vars

\* Mutant of Handle: the loss limit parks the order instead of refusing it.
HandleParks ==
  \/ SkipUnhealthy \/ SizeBuy \/ BalanceCovers \/ BalanceRefuses
  \/ SizeSell \/ PlaceOrder \/ ExchangeExecutes \/ Record

Handle ==
  \/ SkipUnhealthy \/ SizeBuy \/ BalanceCovers \/ BalanceRefuses
  \/ SizeSell \/ LossRefuses \/ PlaceOrder \/ ExchangeExecutes \/ Record

Next ==
  \/ \E s \in Slots : Evaluate(s)
  \/ QuietTick
  \/ Handle
  \/ ExchangeErrors \/ ReplyLost \/ InsertFails
  \/ Crash \/ Restart \/ Midnight

Spec == Init /\ [][Next]_vars

\* Every await ends (the REST calls have a 10 s timeout) and the loop goes on.
\* Nothing is assumed of restarts.
FairSpec == Spec /\ WF_vars(Handle)

-----------------------------------------------------------------------------
(* Properties *)

\* Every variable has its type; a call exists exactly while one is handled.
TypeOK ==
  /\ \/ /\ pc \in {"idle", "down"}
        /\ call = NoCall
     \/ /\ pc \in {"signalled", "balance", "sized", "placed", "executed"}
        /\ call \in Calls
  /\ belief \in [Slots -> Beliefs(Prices)]
  /\ log \in [Slots -> Logs(Prices)]
  /\ exch \in [Slots -> Int]
  /\ orphan \in [Slots -> Int]
  /\ day \in Nat /\ dayPnl \in Int /\ realized \in Int
  /\ orders \in Nat /\ faults \in Nat
  /\ restored \subseteq Tracking /\ overnight \in BOOLEAN

Busy == pc \notin {"idle", "down"}

Handling(s) == Busy /\ call.slot = s

SideMatches(s) ==
  IF Handling(s)
  THEN /\ Flipped(belief[s], Long(s), s \in Tracking)
       /\ call.side = IF Long(s) THEN "sell" ELSE "buy"
  ELSE Settled(belief[s], Long(s), s \in Tracking)

EntryMatches(s) ==
  s \in restored =>
    /\ Long(s)
    /\ log[s].price = IF Handling(s) THEN belief[s].pending.entry ELSE belief[s].entry

\* While the loop runs, a strategy believes itself long exactly when the trade log
\* says so, whatever was refused, skipped, failed or restarted; the slot whose
\* signal is being handled has flipped, and its snapshot is what the log says
\* (trader.py: "keeping a strategy's belief about its own position in step with
\* reality").  A strategy that tracks its entry has one exactly while it is long:
\* the price of the log from a restart on until the position is closed, over any
\* number of refused sells.  Before a restart it is the close of the candle that
\* made it buy, while the row has the price of the tick (bollinger.py:141).
BeliefMatchesLog ==
  pc # "down" => \A s \in Slots : SideMatches(s) /\ EntryMatches(s)

\* A position of the log is sellable exactly when its last row is a buy, so
\* the restored belief (last row) and the size of a sell (the floored running
\* total, with the dust that rounding leaves) cannot disagree: a sell is never
\* refused as NO_OPEN_POSITION and a buy never adds to a position.
LastRowIsPosition ==
  \A s \in Slots : Long(s) <=> Sellable(log[s]) > 0

\* The quantity read before an await is still right after it: a buy on its
\* way has the budgeted size, and a sell on its way is of exactly the coin
\* that the log shows sellable at that moment.
OrderIsCurrent ==
  /\ pc = "balance" => call.side = "buy"
  /\ pc \in {"balance", "sized", "placed", "executed"} =>
       call.qty = IF call.side = "buy" THEN BuyQty(call.slot, call.price)
                                       ELSE Sellable(log[call.slot])

\* The open buys that realized P&L is matched against are the one position
\* held, at the price of the last row.
OneOpenBuy ==
  \A s \in Slots : log[s].buys = IF Long(s) THEN <<log[s].price>> ELSE <<>>

\* The coin the orders moved is what the log shows plus what was orphaned:
\* nothing is recorded that did not execute, nothing twice, and every row has
\* the executed quantity.
LogAccountsForCoin ==
  \A s \in Slots :
    exch[s] = log[s].open + orphan[s]
              + IF pc = "executed" /\ call.slot = s THEN Effect(call) ELSE 0

\* As long as no order was orphaned, a sell that is placed is backed by coin
\* that the bot bought, and a buy that is placed finds no sellable coin.
BackedUnlessOrphaned ==
  pc = "placed" =>
    LET s == call.slot IN
    orphan[s] = 0 =>
      IF call.side = "sell" THEN call.qty > 0 /\ call.qty <= exch[s]
                            ELSE Floor8(exch[s]) = 0

\* Every signal is resolved: the loop comes back to its queue with belief and
\* log in step, or it has ended.
EverySignalResolved == Busy ~> ~Busy

\* The trade log implements Position: a recorded buy opens a position where
\* none was held, a recorded sell closes all of it, and nothing else - no
\* refusal, fault or restart - moves it.
LogPosition == INSTANCE Position WITH
  held <- [s \in Slots |-> Sellable(log[s])],
  entry <- [s \in Slots |-> IF Long(s) THEN log[s].price ELSE 0]

ImplementsPosition == LogPosition!Spec

\* "Once realized losses since UTC midnight exceed this, every further order is
\* refused for the rest of the day" (configuration.md:19) unless one of the losses is
\* on a buy from before midnight: an order placed today finds the pnl column of the
\* sells stamped today above the limit, although the check never reads that column.
\* It matches the table cut at midnight, where a sell of an earlier buy finds
\* nothing and loses nothing (statistics.py: compute, since).
LossLimitHonoured ==
  pc = "placed" /\ call.day = day /\ ~overnight => realized > -MaxDailyLoss
=============================================================================
