---------------------------- MODULE MakerTrader ----------------------------
(***************************************************************************)
(* Production with execution.maker_entries = true: a buy rests as a        *)
(* post-only limit order and two tasks of one event loop share the book of *)
(* resting entries (cryptotrader/maker.py):                                *)
(*                                                                         *)
(*   the loop       Trader.run, as in module Trader, except that a buy is  *)
(*                  posted (posting, posted) and handed to the book, and   *)
(*                  that the outcome of a call is ignored while an entry   *)
(*                  of its slot rests;                                     *)
(*   the reconciler reconcile_maker_entries, which every 10 s asks the     *)
(*                  exchange about each resting entry (rpc: asleep,        *)
(*                  choosing, asking, answered, cancelling).               *)
(*                                                                         *)
(* They interleave at the awaits, and the exchange fills, expires and      *)
(* cancels orders at any time.  The daily loss limit of module Trader is a *)
(* nondeterministic refusal here.                                          *)
(***************************************************************************)
EXTENDS Settings, FiniteSetsExt

CONSTANTS
  NoCall,       \* no signal is being handled
  NoEntry,      \* nothing rests
  MaxOrders,    \* bound: orders sent, where an order of s
  Weight,       \* counts for Weight[s]
  MaxFaults     \* bound: faults of any kind

ASSUME BoundAssumption ==
  MaxOrders \in Nat /\ Weight \in [Slots -> Nat \ {0}] /\ MaxFaults \in Nat

VARIABLES
  pc,        \* how far the loop is with its signal
  call,      \* the signal and its order
  belief,    \* each slot's strategy
  log,       \* each slot's trade log
  book,      \* MakerBook._resting: each slot's entry, or NoEntry
  rpc,       \* how far the reconciler is
  pass,      \* the slots it has left, the one it is at, and what it learnt
  limits,    \* the limit orders at the exchange, in the order of their txids;
             \* stray: the bot lost track of it by dying or by a failed cancel
  exch,      \* net coin the orders have moved at the exchange
  orphan,    \* the part of it moved by market orders no row will ever show
  crossed,   \* slots whose belief was disturbed: a signal while an entry
             \* rested, or a fill whose row could not be inserted
  sent,      \* orders sent
  faults     \* faults so far

vars == <<pc, call, belief, log, book, rpc, pass, limits, exch, orphan,
          crossed, sent, faults>>

Calls == [slot : Slots, side : {"buy", "sell"}, price : Prices, qty : Nat]

\* RestingOrder, of which the price and the txid matter here; due: placed longer
\* than maker_wait_seconds ago.
Entries == [txid : Nat, price : Prices, due : BOOLEAN]

ASSUME NoEntryAssumption == NoEntry \notin Entries

States == {"open", "closed", "canceled"}

LimitOrders == [slot : Slots, qty : Nat, state : States, exec : Nat,
                logged : Nat, stray : BOOLEAN]

Passes == [todo : SUBSET Slots, due : SUBSET Slots, at : Slots \cup {NoEntry},
           state : States \cup {"none"}, exec : Nat]

\* Asleep, the reconciler remembers nothing.
NoPass == [todo |-> {}, due |-> {}, at |-> NoEntry, state |-> "none", exec |-> 0]

Resting(s) == book[s] # NoEntry

Effect(c) == IF c.side = "buy" THEN c.qty ELSE -c.qty

Init ==
  /\ pc = "idle" /\ call = NoCall
  /\ belief = [s \in Slots |-> Fresh]
  /\ log = [s \in Slots |-> EmptyLog]
  /\ book = [s \in Slots |-> NoEntry]
  /\ rpc = "asleep" /\ pass = NoPass
  /\ limits = <<>>
  /\ exch = [s \in Slots |-> 0]
  /\ orphan = [s \in Slots |-> 0]
  /\ crossed = {}
  /\ sent = 0 /\ faults = 0

Fault ==
  /\ faults < MaxFaults
  /\ faults' = faults + 1

reconciler == <<rpc, pass>>
exchange == <<limits, exch>>

-----------------------------------------------------------------------------
(* The loop *)

Settle(b) ==
  /\ pc' = "idle"
  /\ call' = NoCall
  /\ belief' = [belief EXCEPT ![call.slot] = b]

\* execute() returned None: on_order_rejected, unless an entry of the slot
\* rests, which the loop takes for the reason of the None.
Refuse ==
  /\ Settle(IF Resting(call.slot) THEN belief[call.slot]
                                  ELSE Rejected(belief[call.slot]))
  /\ UNCHANGED <<log, book, reconciler, exchange, orphan, crossed, sent, faults>>

\* Mutant of Die: the reconciler's task outlives the book.
DieKeepsPass ==
  /\ limits' = [i \in DOMAIN limits |-> [limits[i] EXCEPT !.stray = TRUE]]
  /\ pc' = "down" /\ call' = NoCall
  /\ belief' = [s \in Slots |-> Fresh]
  /\ book' = [s \in Slots |-> NoEntry]
  /\ UNCHANGED reconciler

\* The process dies or the loop raises, which ends both tasks: the book and the
\* beliefs are gone, the exchange keeps the orders.
Die ==
  /\ limits' = [i \in DOMAIN limits |-> [limits[i] EXCEPT !.stray = TRUE]]
  /\ pc' = "down" /\ call' = NoCall
  /\ belief' = [s \in Slots |-> Fresh]
  /\ book' = [s \in Slots |-> NoEntry]
  /\ rpc' = "asleep" /\ pass' = NoPass

Evaluate(s) ==
  /\ pc = "idle"
  /\ sent + Weight[s] <= MaxOrders
  /\ \E price \in Prices :
       LET Signal(side) == [slot |-> s, side |-> side, price |-> price,
                            qty |-> Quantity[s]]
           b == belief[s]
       IN \/ /\ ~b.in
             /\ belief' = [belief EXCEPT ![s] = Entered(b, price, s \in Tracking)]
             /\ call' = Signal("buy")
          \/ /\ b.in
             /\ MayExit(b, price)
             /\ belief' = [belief EXCEPT ![s] = Exited(b)]
             /\ call' = Signal("sell")
  /\ pc' = "signalled"
  /\ crossed' = crossed \cup (IF Resting(s) THEN {s} ELSE {})
  /\ UNCHANGED <<log, book, reconciler, exchange, orphan, sent, faults>>

\* The feed is unhealthy: rolled back whether or not an entry rests.
SkipUnhealthy ==
  /\ pc = "signalled"
  /\ Settle(Rejected(belief[call.slot]))
  /\ UNCHANGED <<log, book, reconciler, exchange, orphan, crossed, sent, faults>>

SizeBuy ==
  /\ pc = "signalled"
  /\ call.side = "buy"
  /\ LET qty == BuyQty(call.slot, call.price) IN
       IF qty * call.price > MaxOrder[call.slot]
       THEN Die
       ELSE /\ pc' = "balance"
            /\ call' = [call EXCEPT !.qty = qty]
            /\ UNCHANGED <<belief, book, reconciler, limits>>
  /\ UNCHANGED <<log, exch, orphan, crossed, sent, faults>>

BalanceCovers ==
  /\ pc = "balance"
  /\ pc' = "sized"
  /\ UNCHANGED <<call, belief, log, book, reconciler, exchange, orphan, crossed,
                 sent, faults>>

BalanceRefuses ==
  /\ pc = "balance"
  /\ Refuse

SizeSell ==
  /\ pc = "signalled"
  /\ call.side = "sell"
  /\ LET qty == Sellable(log[call.slot]) IN
       IF qty <= 0
       THEN Refuse
       ELSE /\ pc' = "sized"
            /\ call' = [call EXCEPT !.qty = qty]
            /\ UNCHANGED <<belief, log, book, reconciler, exchange, orphan,
                           crossed, sent, faults>>

LossRefuses ==
  /\ pc = "sized"
  /\ Refuse

\* Mutant of MakerEligible: the book is not asked.
EligibleUnasked == call.side = "buy"

\* A buy rests unless one of its slot rests already.
MakerEligible == call.side = "buy" /\ ~Resting(call.slot)

\* Everything else is a market order, the buy over a resting one included.
SendOrder ==
  /\ pc = "sized"
  /\ pc' = IF MakerEligible THEN "posting" ELSE "placed"
  /\ sent' = sent + Weight[call.slot]
  /\ UNCHANGED <<call, belief, log, book, reconciler, exchange, orphan, crossed,
                 faults>>

\* The exchange accepts the post-only order.
AcceptLimit ==
  /\ pc = "posting"
  /\ pc' = "posted"
  /\ limits' = Append(limits, [slot |-> call.slot, qty |-> call.qty,
                               state |-> "open", exec |-> 0, logged |-> 0,
                               stray |-> FALSE])
  /\ UNCHANGED <<call, belief, log, book, reconciler, exch, orphan, crossed,
                 sent, faults>>

\* The txid arrives: MakerBook.add, which refuses a duplicate, and the loop
\* leaves the strategy armed.
Rest ==
  /\ pc = "posted"
  /\ LET s == call.slot
         entry == [txid |-> Len(limits), price |-> call.price,
                   due |-> FALSE]
     IN IF Resting(s)
        THEN Settle(Rejected(belief[s])) /\ UNCHANGED book
        ELSE Settle(belief[s]) /\ book' = [book EXCEPT ![s] = entry]
  /\ UNCHANGED <<log, reconciler, exchange, orphan, crossed, sent, faults>>

ExecuteMarket ==
  /\ pc = "placed"
  /\ pc' = "executed"
  /\ exch' = [exch EXCEPT ![call.slot] = @ + Effect(call)]
  /\ UNCHANGED <<call, belief, log, book, reconciler, limits, orphan, crossed,
                 sent, faults>>

\* Mutant of Record: the row takes the configured quantity.
RecordConfigured ==
  /\ pc = "executed"
  /\ LET s == call.slot IN
       /\ log' = [log EXCEPT
                    ![s] = Recorded(@, call.side, call.price, Quantity[s], FALSE)]
       /\ Settle(IF Resting(s) THEN belief[s] ELSE Filled(belief[s]))
  /\ UNCHANGED <<book, reconciler, exchange, orphan, crossed, sent, faults>>

\* The row of a market order; on_order_filled unless an entry rests.
Record ==
  /\ pc = "executed"
  /\ LET s == call.slot IN
       /\ log' = [log EXCEPT
                    ![s] = Recorded(@, call.side, call.price, call.qty, FALSE)]
       /\ Settle(IF Resting(s) THEN belief[s] ELSE Filled(belief[s]))
  /\ UNCHANGED <<book, reconciler, exchange, orphan, crossed, sent, faults>>

\* AddOrder raises, whatever the exchange did, or insert_trade does: the loop
\* ends and with it the reconciler.
OrderFails ==
  /\ pc \in {"posting", "posted", "placed", "executed"}
  /\ Fault
  /\ Die
  /\ orphan' = IF pc = "executed"
               THEN [orphan EXCEPT ![call.slot] = @ + Effect(call)]
               ELSE orphan
  /\ UNCHANGED <<log, exch, crossed, sent>>

\* The process dies at any other point.
Crash ==
  /\ pc \in {"idle", "signalled", "balance", "sized"}
  /\ Fault
  /\ Die
  /\ UNCHANGED <<log, exch, orphan, crossed, sent>>

Restart ==
  /\ pc = "down"
  /\ pc' = "idle"
  /\ belief' = [s \in Slots |->
                  Restored(log[s].last, log[s].price, s \in Tracking)]
  /\ UNCHANGED <<call, log, book, reconciler, exchange, orphan, crossed, sent,
                 faults>>

-----------------------------------------------------------------------------
(* The exchange and the clock *)

\* A limit order executes, partially (in 1e-8 steps) or to the end.
FillLimit ==
  /\ \E i \in DOMAIN limits :
       /\ limits[i].state = "open"
       /\ \E exec \in {Lot, limits[i].qty} :
            /\ limits[i].exec < exec /\ exec <= limits[i].qty
            /\ limits' = [limits EXCEPT
                 ![i].exec = exec,
                 ![i].state = IF exec = limits[i].qty THEN "closed" ELSE "open"]
            /\ exch' = [exch EXCEPT
                 ![limits[i].slot] = @ + exec - limits[i].exec]
  /\ UNCHANGED <<pc, call, belief, log, book, reconciler, orphan, crossed, sent,
                 faults>>

\* expiretm, a post-only order that would cross, or the account's owner: the
\* reconciler treats canceled and expired alike, so one state stands for both.
EndLimit ==
  /\ \E i \in DOMAIN limits :
       /\ limits[i].state = "open"
       /\ limits' = [limits EXCEPT ![i].state = "canceled"]
  /\ UNCHANGED <<pc, call, belief, log, book, reconciler, exch, orphan, crossed,
                 sent, faults>>

\* maker_wait_seconds pass.
Wait(s) ==
  /\ Resting(s)
  /\ ~book[s].due
  /\ book' = [book EXCEPT ![s].due = TRUE]
  /\ UNCHANGED <<pc, call, belief, log, reconciler, exchange, orphan, crossed,
                 sent, faults>>

-----------------------------------------------------------------------------
(* The reconciler *)

\* A pass takes the time and the keys of the book when it starts.
StartPass ==
  /\ pc # "down"
  /\ rpc = "asleep"
  /\ \E s \in Slots : Resting(s)
  /\ rpc' = "choosing"
  /\ pass' = [NoPass EXCEPT !.todo = {s \in Slots : Resting(s)},
                            !.due = {s \in Slots : Resting(s) /\ book[s].due}]
  /\ UNCHANGED <<pc, call, belief, log, book, exchange, orphan, crossed, sent,
                 faults>>

\* Query the next entry.
Ask(s) ==
  /\ rpc = "choosing"
  /\ s \in pass.todo
  /\ rpc' = "asking"
  /\ pass' = [pass EXCEPT !.todo = @ \ {s}, !.at = s]
  /\ UNCHANGED <<pc, call, belief, log, book, exchange, orphan, crossed, sent,
                 faults>>

\* The loop of reconcile() goes on, or ends when no key is left.
NextKey ==
  /\ rpc' = IF pass.todo = {} THEN "asleep" ELSE "choosing"
  /\ pass' = IF pass.todo = {} THEN NoPass
             ELSE [NoPass EXCEPT !.todo = pass.todo, !.due = pass.due]

\* The exchange reads the order; the reply is handled later.
Answer ==
  /\ rpc = "asking"
  /\ rpc' = "answered"
  /\ LET order == limits[book[pass.at].txid] IN
       pass' = [pass EXCEPT !.state = order.state, !.exec = order.exec]
  /\ UNCHANGED <<pc, call, belief, log, book, exchange, orphan, crossed, sent,
                 faults>>

\* order_status raises: the entry is left resting.
QueryFails ==
  /\ rpc = "asking"
  /\ Fault
  /\ NextKey
  /\ UNCHANGED <<pc, call, belief, log, book, exchange, orphan, crossed, sent>>

\* Mutant of Executed: any executed volume is taken for a fill.
ExecutedInPart == pass.exec > 0

\* The order is final and moved coin.
Executed ==
  \/ pass.state = "closed"
  \/ pass.state = "canceled" /\ pass.exec > 0

\* _fill: a row of the executed volume.  Nothing tells the strategy, and a
\* failed insert is only logged.
FillEntry ==
  /\ rpc = "answered"
  /\ Executed
  /\ LET s == pass.at IN
       /\ book' = [book EXCEPT ![s] = NoEntry]
       /\ \/ /\ log' = [log EXCEPT
                   ![s] = Recorded(@, "buy", book[s].price, pass.exec, FALSE)]
             /\ limits' = [limits EXCEPT ![book[s].txid].logged = @ + pass.exec]
             /\ UNCHANGED <<crossed, faults>>
          \/ /\ Fault
             /\ crossed' = crossed \cup {s}
             /\ UNCHANGED <<log, limits>>
  /\ NextKey
  /\ UNCHANGED <<pc, call, belief, exch, orphan, sent>>

\* Mutant of NoFill: on_reject is not called.
NoFillStaysLong ==
  /\ book' = [book EXCEPT ![pass.at] = NoEntry]
  /\ UNCHANGED belief
  /\ NextKey

\* _no_fill: the strategy is rolled back.
NoFill ==
  /\ book' = [book EXCEPT ![pass.at] = NoEntry]
  /\ belief' = [belief EXCEPT ![pass.at] = Rejected(@)]
  /\ NextKey

NothingExecuted ==
  /\ rpc = "answered"
  /\ pass.state = "canceled" /\ pass.exec = 0
  /\ NoFill
  /\ UNCHANGED <<pc, call, log, exchange, orphan, crossed, sent, faults>>

\* Mutant of StillWorking: the deadline is left to the exchange.
StillWorkingForever ==
  /\ rpc = "answered"
  /\ pass.state = "open"
  /\ NextKey
  /\ UNCHANGED <<pc, call, belief, log, book, exchange, orphan, crossed, sent,
                 faults>>

\* Working past its deadline it is cancelled; its drift is not looked at.
StillWorking ==
  /\ rpc = "answered"
  /\ pass.state = "open"
  /\ IF pass.at \in pass.due
     THEN rpc' = "cancelling" /\ UNCHANGED pass
     ELSE NextKey
  /\ UNCHANGED <<pc, call, belief, log, book, exchange, orphan, crossed, sent,
                 faults>>

\* Mutant of Cancelled: the entry is dropped and the order left to expiretm.
CancelledLocally ==
  /\ rpc = "cancelling"
  /\ NoFill
  /\ UNCHANGED <<pc, call, log, exchange, orphan, crossed, sent, faults>>

\* cancel_order returns, even when the cancel failed, and the entry is a
\* no-fill whatever had been executed.
Cancelled ==
  /\ rpc = "cancelling"
  /\ LET i == book[pass.at].txid IN
       \/ /\ limits' = IF limits[i].state = "open"
                       THEN [limits EXCEPT ![i].state = "canceled"] ELSE limits
          /\ UNCHANGED faults
       \/ /\ Fault
          /\ limits' = [limits EXCEPT ![i].stray = TRUE]
  /\ NoFill
  /\ UNCHANGED <<pc, call, log, exch, orphan, crossed, sent>>

QuietTick == pc = "idle" /\ UNCHANGED vars

Handle ==
  \/ SkipUnhealthy \/ SizeBuy \/ BalanceCovers \/ BalanceRefuses
  \/ SizeSell \/ LossRefuses \/ SendOrder \/ AcceptLimit \/ Rest
  \/ ExecuteMarket \/ Record

Reconcile ==
  \/ StartPass \/ (\E s \in Slots : Ask(s)) \/ Answer \/ FillEntry
  \/ NothingExecuted \/ StillWorking \/ Cancelled

Next ==
  \/ \E s \in Slots : Evaluate(s) \/ Wait(s)
  \/ QuietTick
  \/ Handle
  \/ Reconcile \/ QueryFails
  \/ OrderFails \/ Crash \/ Restart
  \/ FillLimit \/ EndLimit

Spec == Init /\ [][Next]_vars

\* Both tasks run, every REST call returns or times out and time passes.
FairSpec ==
  /\ Spec
  /\ WF_vars(Handle) /\ WF_vars(Reconcile)
  /\ \A s \in Slots : WF_vars(Wait(s))

-----------------------------------------------------------------------------
(* Properties *)

TypeOK ==
  /\ \/ /\ pc \in {"idle", "down"}
        /\ call = NoCall
     \/ /\ pc \in {"signalled", "balance", "sized", "posting", "posted",
                   "placed", "executed"}
        /\ call \in Calls
  /\ belief \in [Slots -> Beliefs(Prices)]
  /\ log \in [Slots -> Logs(Prices)]
  /\ book \in [Slots -> Entries \cup {NoEntry}]
  /\ limits \in Seq(LimitOrders)
  /\ \A s \in Slots : Resting(s) =>
       book[s].txid \in DOMAIN limits /\ limits[book[s].txid].slot = s
  /\ rpc \in {"asleep", "choosing", "asking", "answered", "cancelling"}
  /\ pass \in Passes
  /\ rpc \in {"asking", "answered", "cancelling"} =>
       pass.at \in Slots /\ Resting(pass.at)
  /\ exch \in [Slots -> Int] /\ orphan \in [Slots -> Int]
  /\ crossed \subseteq Slots
  /\ sent \in Nat /\ faults \in Nat

Busy == pc \notin {"idle", "down"}
Long(s) == log[s].last = "buy"

Mine(s) == {i \in DOMAIN limits : limits[i].slot = s}

\* The log shows no fill that did not execute: a limit order is recorded at
\* most once, at the volume executed when it was final, however stale the
\* answer was when it was handled (maker.py: the unbacked sell "from the other
\* direction").
LoggedIsExecuted ==
  \A i \in DOMAIN limits :
    limits[i].logged # 0 =>
      limits[i].logged = limits[i].exec /\ limits[i].state # "open"

\* Coin moved is coin logged, plus what a limit order executed that no row
\* shows, plus orphaned market orders: rows of the two tasks never overwrite
\* or lose one another.
CoinIsAccountedFor ==
  \A s \in Slots :
    exch[s] = log[s].open + orphan[s]
      + MapThenSumSet(LAMBDA i : limits[i].exec - limits[i].logged, Mine(s))
      + IF pc = "executed" /\ call.slot = s THEN Effect(call) ELSE 0

\* The bot knows where order i is: it rests in the book, or its txid is on its
\* way to it.
Known(i) ==
  LET s == limits[i].slot IN
  \/ Resting(s) /\ book[s].txid = i
  \/ pc = "posted" /\ call.slot = s /\ i = Len(limits)

\* Only a death of the process or a failed cancel leaves an order working that
\* the bot does not know of: the deadline and the answers never drop one.
NoStrayOrder ==
  \A i \in DOMAIN limits :
    limits[i].state = "open" /\ ~limits[i].stray => Known(i)

\* A slot has one working entry: the loop posts none while one rests, although
\* it does not ask the book again after the await.
OneEntryPerSlot ==
  \A s \in Slots :
    /\ pc \in {"posting", "posted"} /\ call.slot = s => ~Resting(s)
    /\ Cardinality({i \in Mine(s) : limits[i].state = "open"
                                      /\ ~limits[i].stray}) <= 1

\* A slot whose strategy was left alone while its entry rested: the strategy
\* is long while it rests, and believes what the log says when it does not,
\* whether the entry filled, filled partially, expired or was cancelled
\* ("the strategy stays optimistically long").
UndisturbedBelief ==
  pc # "down" =>
    \A s \in Slots \ crossed :
      /\ Resting(s) =>
           /\ ~Long(s) /\ belief[s].in
           /\ belief[s].pending.armed /\ ~belief[s].pending.in
      /\ ~Resting(s) /\ ~(Busy /\ call.slot = s) =>
           /\ belief[s].in <=> Long(s)
           /\ belief[s].entry # None <=> (Long(s) /\ s \in Tracking)
      /\ Len(log[s].buys) = IF Long(s) THEN 1 ELSE 0

\* Every resting entry is resolved.
EveryEntryResolved == \A s \in Slots : Resting(s) ~> ~Resting(s)

-----------------------------------------------------------------------------
(* What the documentation says and the code does not do *)

\* trader.py:126 "The strategy stays optimistically long so it cannot fire a
\* second BUY": no second buy is recorded over a position.
NoSecondBuy == \A s \in Slots : Len(log[s].buys) <= 1

\* maker.py:207 "A partial fill is recorded at the volume actually executed":
\* without faults, an order that is final and resolved is logged as it was
\* executed.
ExecutedIsLogged ==
  faults = 0 =>
    \A i \in DOMAIN limits :
      limits[i].state # "open" /\ ~limits[i].stray /\ ~Known(i)
        => limits[i].logged = limits[i].exec
=============================================================================
