--------------------------- MODULE Trader_proofs ---------------------------
(***************************************************************************)
(* Theorems about the production loop of module Trader, for every set of   *)
(* slots, prices, sizes and bounds.  Belief, log and order depend on one   *)
(* another, so the safety properties follow from one inductive invariant,  *)
(* PositionInv: the types, OrderIsCurrent, BeliefAgrees, and for every     *)
(* slot Sound(log[s]), which relates last row, running total and open      *)
(* buys.  Then come the coin at the exchange and the refinement of         *)
(* Position.                                                               *)
(***************************************************************************)
EXTENDS Trader, TradeLog_proofs

\* The size of a buy is a natural number.
LEMMA BuyQtyType ==
  ASSUME NEW s \in Slots, NEW p \in Prices
  PROVE  BuyQty(s, p) \in Nat /\ BuyQty(s, p) >= Lot
  BY SizeAssumption

-----------------------------------------------------------------------------
(* Type correctness *)

\* While a signal is handled, call is one.
LEMMA CallFacts ==
  ASSUME TypeOK, Busy
  PROVE  /\ call \in Calls
         /\ call.slot \in Slots
         /\ call.side \in {"buy", "sell"}
         /\ call.price \in Prices
         /\ call.qty \in Nat
         /\ Effect(call) \in Int
         /\ belief[call.slot] \in Beliefs(Prices)
         /\ log[call.slot] \in Logs(Prices)
<1>1. call \in Calls
  BY DEF TypeOK, Busy
<1>2. call.slot \in Slots /\ call.side \in {"buy", "sell"}
      /\ call.price \in Prices /\ call.qty \in Nat
  BY <1>1 DEF Calls
<1>3. Effect(call) \in Int
  BY <1>2 DEF Effect
<1> QED
  BY <1>1, <1>2, <1>3 DEF TypeOK

\* The two ways a signal ends without a row.
LEMMA RefuseType ==
  ASSUME TypeOK, Busy, Refuse
  PROVE  TypeOK'
<1>1. Rejected(belief[call.slot]) \in Beliefs(Prices)
  BY CallFacts, BeliefTypes, Zenon DEF TypeOK
<1>2. pc' = "idle" /\ call' = NoCall
      /\ belief' = [belief EXCEPT ![call.slot] = Rejected(belief[call.slot])]
      /\ UNCHANGED <<log, exch, orphan, day, dayPnl, realized, orders, faults,
                     restored, overnight>>
  BY DEF Refuse, Settle
<1>3. belief' \in [Slots -> Beliefs(Prices)]
  BY <1>1, <1>2 DEF TypeOK
<1> QED
  BY <1>2, <1>3 DEF TypeOK

\* The end of the loop keeps the types.
LEMMA AbortType ==
  ASSUME TypeOK, Busy, Abort
  PROVE  /\ pc' = "down" /\ call' = NoCall
         /\ belief' \in [Slots -> Beliefs(Prices)] /\ restored' \subseteq Tracking
<1>1. Rejected(belief[call.slot]) \in Beliefs(Prices)
  BY CallFacts, BeliefTypes, Zenon DEF TypeOK
<1> QED
  BY <1>1 DEF Abort, TypeOK

\* Coin that an order moves is an integer amount.
LEMMA OrphanedType ==
  ASSUME TypeOK, NEW late \in BOOLEAN, Orphaned(late)
  PROVE  exch' \in [Slots -> Int] /\ orphan' \in [Slots -> Int]
<1>1. CASE pc \in {"placed", "executed"}
  <2>1. call.slot \in Slots /\ Effect(call) \in Int
    BY <1>1, CallFacts DEF Busy
  <2>2. exch \in [Slots -> Int] /\ orphan \in [Slots -> Int]
    BY DEF TypeOK
  <2>3. exch[call.slot] + Effect(call) \in Int /\ orphan[call.slot] + Effect(call) \in Int
    BY <2>1, <2>2
  <2> QED
    BY <2>1, <2>2, <2>3 DEF Orphaned
<1>2. CASE pc \notin {"placed", "executed"}
  BY <1>2 DEF Orphaned, TypeOK
<1> QED
  BY <1>1, <1>2

\* The variables start with their types.
LEMMA TypeInit == Init => TypeOK
<1> SUFFICES ASSUME Init PROVE TypeOK
  OBVIOUS
<1>1. Fresh \in Beliefs(Prices)
  BY DEF Beliefs, Fresh, NoSnapshot
<1>2. EmptyLog \in Logs(Prices)
  <2>1. <<>> \in Seq(Prices)
    OBVIOUS
  <2> QED
    BY <2>1 DEF EmptyLog, Logs
<1>3. overnight \in BOOLEAN /\ restored \subseteq Tracking
  BY DEF Init
<1>4. /\ belief \in [Slots -> Beliefs(Prices)] /\ log \in [Slots -> Logs(Prices)]
      /\ exch \in [Slots -> Int] /\ orphan \in [Slots -> Int]
  BY <1>1, <1>2 DEF Init
<1>5. /\ pc = "idle" /\ call = NoCall
      /\ day \in Nat /\ dayPnl \in Int /\ realized \in Int
      /\ orders \in Nat /\ faults \in Nat
  BY DEF Init
<1> QED
  BY <1>3, <1>4, <1>5 DEF TypeOK

\* Every step keeps the types.
LEMMA TypeNext == TypeOK /\ [Next]_vars => TypeOK'
<1> SUFFICES ASSUME TypeOK, [Next]_vars PROVE TypeOK'
  OBVIOUS
<1>1. ASSUME NEW s \in Slots, Evaluate(s) PROVE TypeOK'
  <2>1. PICK price \in Prices, close \in Prices, side \in {"buy", "sell"} :
          /\ call' = [slot |-> s, side |-> side, price |-> price,
                      qty |-> Quantity[s], day |-> day, pnl |-> 0]
          /\ \/ belief' = [belief EXCEPT
                             ![s] = Entered(belief[s], close, s \in Tracking)]
             \/ belief' = [belief EXCEPT ![s] = Exited(belief[s])]
    BY <1>1 DEF Evaluate
  <2>2. call' \in Calls
    <3>1. Quantity[s] \in Nat /\ day \in Nat
      BY ConfigAssumption DEF TypeOK
    <3> QED
      BY <2>1, <3>1 DEF Calls
  <2>3. belief' \in [Slots -> Beliefs(Prices)]
    <3>1. belief[s] \in Beliefs(Prices) /\ (s \in Tracking) \in BOOLEAN
      BY DEF TypeOK
    <3>2. /\ Entered(belief[s], close, s \in Tracking) \in Beliefs(Prices)
          /\ Exited(belief[s]) \in Beliefs(Prices)
      BY <3>1, BeliefTypes, Zenon
    <3> QED
      BY <2>1, <3>2 DEF TypeOK
  <2>4. /\ pc' = "signalled"
        /\ UNCHANGED <<log, exch, orphan, day, dayPnl, realized, orders, faults,
                       restored, overnight>>
    BY <1>1 DEF Evaluate
  <2> QED
    BY <2>2, <2>3, <2>4 DEF TypeOK
<1>2. ASSUME QuietTick PROVE TypeOK'
  BY <1>2 DEF QuietTick, vars, TypeOK
<1>3. ASSUME SkipUnhealthy PROVE TypeOK'
  BY <1>3, RefuseType DEF SkipUnhealthy, Busy
<1>4. ASSUME SizeBuy PROVE TypeOK'
  <2> DEFINE qty == BuyQty(call.slot, call.price)
  <2>0. Busy
    BY <1>4 DEF SizeBuy, Busy
  <2>1. UNCHANGED <<log, exch, orphan, day, dayPnl, realized, orders, faults, overnight>>
    BY <1>4 DEF SizeBuy
  <2>2. CASE qty * call.price > MaxOrder[call.slot]
    <3>1. Abort
      BY <1>4, <2>2 DEF SizeBuy
    <3> QED
      BY <2>0, <2>1, <3>1, AbortType DEF TypeOK
  <2>3. CASE ~(qty * call.price > MaxOrder[call.slot])
    <3>1. pc' = "balance" /\ call' = [call EXCEPT !.qty = qty]
          /\ UNCHANGED <<belief, restored>>
      BY <1>4, <2>3 DEF SizeBuy
    <3>2. qty \in Nat
      BY <2>0, CallFacts, BuyQtyType
    <3>3. call' \in Calls
      BY <2>0, CallFacts, <3>1, <3>2 DEF Calls
    <3> QED
      BY <2>1, <3>1, <3>3 DEF TypeOK
  <2> QED
    BY <2>2, <2>3
<1>5. ASSUME BalanceCovers PROVE TypeOK'
  BY <1>5 DEF BalanceCovers, TypeOK
<1>6. ASSUME BalanceRefuses PROVE TypeOK'
  BY <1>6, RefuseType DEF BalanceRefuses, Busy
<1>7. ASSUME SizeSell PROVE TypeOK'
  <2> DEFINE qty == Sellable(log[call.slot])
  <2>0. Busy
    BY <1>7 DEF SizeSell, Busy
  <2>1. CASE qty <= 0
    BY <1>7, <2>0, <2>1, RefuseType DEF SizeSell
  <2>2. CASE ~(qty <= 0)
    <3>1. /\ pc' = "sized" /\ call' = [call EXCEPT !.qty = qty]
          /\ UNCHANGED <<belief, log, exch, orphan, day, dayPnl, realized,
                         orders, faults, restored, overnight>>
      BY <1>7, <2>2 DEF SizeSell
    <3>2. qty \in Nat
      BY <2>0, CallFacts, FloorFacts DEF Logs, Sellable
    <3>3. call' \in Calls
      BY <2>0, CallFacts, <3>1, <3>2 DEF Calls
    <3> QED
      BY <3>1, <3>3 DEF TypeOK
  <2> QED
    BY <2>1, <2>2
<1>8. ASSUME LossRefuses PROVE TypeOK'
  BY <1>8, RefuseType DEF LossRefuses, Busy
<1>9. ASSUME PlaceOrder PROVE TypeOK'
  <2>0. Busy
    BY <1>9 DEF PlaceOrder, Busy
  <2> DEFINE pnl == IF call.side = "sell"
                    THEN Matched(log[call.slot].buys, call.price, call.qty)
                    ELSE 0
  <2>1. pnl \in Int
    <3>1. Matched(log[call.slot].buys, call.price, call.qty) \in Int
      BY <2>0, CallFacts, PriceAssumption, LogTypes, Zenon
    <3> QED
      BY <3>1
  <2>2. call' \in Calls
    <3>1. day \in Nat /\ call \in Calls
      BY <2>0, CallFacts DEF TypeOK
    <3>2. call' = [call EXCEPT !.day = day, !.pnl = pnl]
      BY <1>9 DEF PlaceOrder
    <3> HIDE DEF pnl
    <3> QED
      BY <2>1, <3>1, <3>2 DEF Calls
  <2> QED
    BY <1>9, <2>2 DEF PlaceOrder, TypeOK
<1>10. ASSUME ExchangeExecutes PROVE TypeOK'
  <2>1. Busy
    BY <1>10 DEF ExchangeExecutes, Busy
  <2>2. exch[call.slot] + Effect(call) \in Int
    BY <2>1, CallFacts DEF TypeOK
  <2> QED
    BY <1>10, <2>1, <2>2, CallFacts DEF ExchangeExecutes, TypeOK
<1>11. ASSUME Record PROVE TypeOK'
  <2> DEFINE s == call.slot
             today == call.day = day
             row == Recorded(log[s], call.side, call.price, call.qty, today)
             step == DayPnlStep(log[s], call.side, call.price, call.qty, today)
  <2>0. Busy
    BY <1>11 DEF Record, Busy
  <2>1. /\ log' = [log EXCEPT ![s] = row]
        /\ dayPnl' = dayPnl + step
        /\ realized' = realized + IF today THEN call.pnl ELSE 0
        /\ pc' = "idle" /\ call' = NoCall
        /\ belief' = [belief EXCEPT ![s] = Filled(belief[s])]
        /\ restored' = restored \ {s} /\ overnight' \in BOOLEAN
        /\ UNCHANGED <<exch, orphan, day, orders, faults>>
    BY <1>11 DEF Record, Settle, TypeOK
  <2>2. row \in Logs(Prices) /\ step \in Int
    <3>1. today \in BOOLEAN
      OBVIOUS
    <3> QED
      BY <2>0, <3>1, CallFacts, PriceAssumption, LogTypes, Zenon
  <2>3. log' \in [Slots -> Logs(Prices)]
    BY <2>1, <2>2 DEF TypeOK
  <2>4. belief' \in [Slots -> Beliefs(Prices)]
    <3>1. Filled(belief[s]) \in Beliefs(Prices)
      BY <2>0, CallFacts DEF Filled, Beliefs, NoSnapshot
    <3> QED
      BY <2>1, <3>1 DEF TypeOK
  <2>5. dayPnl' \in Int /\ realized' \in Int
    <3>1. call.pnl \in Int
      BY <2>0, CallFacts DEF Calls
    <3> QED
      BY <2>1, <2>2, <3>1 DEF TypeOK
  <2> QED
    BY <2>1, <2>3, <2>4, <2>5 DEF TypeOK
<1>12. ASSUME ExchangeErrors PROVE TypeOK'
  <2>1. Busy /\ Abort
    BY <1>12 DEF ExchangeErrors, Busy
  <2> QED
    BY <1>12, <2>1, AbortType DEF ExchangeErrors, Fault, TypeOK
<1>13. ASSUME ReplyLost PROVE TypeOK'
  <2>1. Busy /\ Abort
    BY <1>13 DEF ReplyLost, Busy
  <2>2. exch' \in [Slots -> Int] /\ orphan' \in [Slots -> Int]
    BY <1>13, OrphanedType DEF ReplyLost
  <2> QED
    BY <1>13, <2>1, <2>2, AbortType DEF ReplyLost, Fault, TypeOK
<1>14. ASSUME InsertFails PROVE TypeOK'
  <2>1. Busy /\ Abort
    BY <1>14 DEF InsertFails, Busy
  <2>2. exch' \in [Slots -> Int] /\ orphan' \in [Slots -> Int]
    BY <1>14, OrphanedType DEF InsertFails
  <2> QED
    BY <1>14, <2>1, <2>2, AbortType DEF InsertFails, Fault, TypeOK
<1>15. ASSUME Crash PROVE TypeOK'
  <2>1. exch' \in [Slots -> Int] /\ orphan' \in [Slots -> Int]
    BY <1>15, OrphanedType DEF Crash
  <2>2. Fresh \in Beliefs(Prices)
    BY DEF Beliefs, Fresh, NoSnapshot
  <2> QED
    BY <1>15, <2>1, <2>2 DEF Crash, Fault, TypeOK
<1>16. ASSUME Restart PROVE TypeOK'
  <2>1. ASSUME NEW s \in Slots
        PROVE  Restored(log[s].last, log[s].price, s \in Tracking) \in Beliefs(Prices)
    <3>1. log[s] \in Logs(Prices) /\ (s \in Tracking) \in BOOLEAN
      BY DEF TypeOK
    <3> QED
      BY <3>1, RestoredType, Zenon
  <2>2. belief' \in [Slots -> Beliefs(Prices)]
    BY <1>16, <2>1 DEF Restart
  <2> QED
    BY <1>16, <2>2 DEF Restart, TypeOK
<1>17. ASSUME Midnight PROVE TypeOK'
  <2>1. ASSUME NEW s \in Slots PROVE AtMidnight(log[s]) \in Logs(Prices)
    <3>1. log[s] \in Logs(Prices) /\ <<>> \in Seq(Prices)
      BY DEF TypeOK
    <3> QED
      BY <3>1 DEF AtMidnight, Logs
  <2>2. log' \in [Slots -> Logs(Prices)]
    BY <1>17, <2>1 DEF Midnight
  <2>3. overnight' \in BOOLEAN
    <3>1. overnight' = FALSE
      BY <1>17 DEF Midnight
    <3> QED
      BY <3>1
  <2>5. day' \in Nat /\ dayPnl' \in Int /\ realized' \in Int
    BY <1>17 DEF Midnight, TypeOK
  <2>4. UNCHANGED <<pc, call, belief, exch, orphan, orders, faults, restored>>
    BY <1>17 DEF Midnight
  <2> QED
    BY <2>2, <2>3, <2>4, <2>5 DEF TypeOK
<1>18. ASSUME UNCHANGED vars PROVE TypeOK'
  BY <1>18 DEF vars, TypeOK
<1> QED
  BY <1>1, <1>2, <1>3, <1>4, <1>5, <1>6, <1>7, <1>8, <1>9, <1>10, <1>11,
     <1>12, <1>13, <1>14, <1>15, <1>16, <1>17, <1>18 DEF Next, Handle

\* Every variable keeps its type, for any slots, prices, sizes and bounds.
THEOREM TypeCorrect == Spec => []TypeOK
<1>1. Init => TypeOK
  BY TypeInit
<1>2. TypeOK /\ [Next]_vars => TypeOK'
  BY TypeNext
<1> QED
  BY <1>1, <1>2, PTL DEF Spec

-----------------------------------------------------------------------------
(* Belief and log *)

\* Of BeliefMatchesLog, all but the price of a restored entry.
BeliefAgrees ==
  pc # "down" =>
    \A s \in Slots :
      IF Busy /\ call.slot = s
      THEN /\ Flipped(belief[s], Long(s), s \in Tracking)
           /\ call.side = IF Long(s) THEN "sell" ELSE "buy"
      ELSE Settled(belief[s], Long(s), s \in Tracking)

\* The inductive invariant.  BeliefAgrees needs LastRowIsPosition, or a buy could
\* be recorded over a position; that needs OrderIsCurrent, or a sell could leave a
\* sellable rest; OneOpenBuy gives the restored entry its price.
PositionInv ==
  /\ TypeOK
  /\ OrderIsCurrent
  /\ BeliefAgrees
  /\ \A s \in Slots : Sound(log[s])

\* The inductive invariant holds at the start.
LEMMA PositionInit == Init => PositionInv
<1> SUFFICES ASSUME Init PROVE PositionInv
  OBVIOUS
<1>1. TypeOK
  BY TypeInit
<1>2. OrderIsCurrent
  BY DEF Init, OrderIsCurrent
<1>3. BeliefAgrees
  BY DEF Init, BeliefAgrees, Busy, Settled, Long, Fresh, NoSnapshot, EmptyLog
<1>4. ASSUME NEW s \in Slots PROVE Sound(log[s])
  <2>1. log[s] = EmptyLog
    BY DEF Init
  <2>2. Sellable(EmptyLog) = 0
    BY FloorFacts, LotAssumption DEF Sellable, EmptyLog
  <2> QED
    BY <2>1, <2>2 DEF Sound, EmptyLog
<1> QED
  BY <1>1, <1>2, <1>3, <1>4 DEF PositionInv

\* Only a row or midnight touches the log.
LEMMA SoundNext ==
  ASSUME PositionInv, [Next]_vars, NEW s \in Slots
  PROVE  Sound(log'[s])
<1> USE DEF PositionInv
<1>1. CASE Record
  <2> DEFINE today == call.day = day
  <2>0. Busy /\ pc = "executed"
    BY <1>1 DEF Record, Busy
  <2>1. log' = [log EXCEPT ![call.slot] =
                  Recorded(log[call.slot], call.side, call.price, call.qty, today)]
    BY <1>1 DEF Record
  <2>2. CASE s # call.slot
    BY <2>1, <2>2 DEF TypeOK
  <2>3. CASE s = call.slot
    <3> DEFINE l == log[s]
    <3>1. log'[s] = Recorded(l, call.side, call.price, call.qty, today)
      BY <2>1, <2>3 DEF TypeOK
    <3>2. l \in Logs(Prices) /\ Sound(l) /\ today \in BOOLEAN
          /\ call.price \in Prices /\ call.qty \in Nat
      BY <2>0, <2>3, CallFacts
    <3>3. call.side = IF l.last = "buy" THEN "sell" ELSE "buy"
      BY <2>0, <2>3 DEF BeliefAgrees, Long
    <3>4. call.qty = IF call.side = "buy" THEN BuyQty(s, call.price)
                                          ELSE Sellable(l)
      BY <2>0, <2>3 DEF OrderIsCurrent
    <3> HIDE DEF l, today
    <3>5. CASE l.last = "buy"
      BY <3>1, <3>2, <3>3, <3>4, <3>5, SellRow
    <3>6. CASE l.last # "buy"
      <4>1. call.qty >= Lot
        BY <3>2, <3>3, <3>4, <3>6, BuyQtyType
      <4> QED
        BY <3>1, <3>2, <3>3, <3>6, <4>1, BuyRow
    <3> QED
      BY <3>5, <3>6
  <2> QED
    BY <2>2, <2>3
<1>2. CASE Midnight
  <2>1. log'[s] = AtMidnight(log[s]) /\ log[s] \in Logs(Prices)
    BY <1>2 DEF Midnight, TypeOK
  <2>2. /\ log'[s].last = log[s].last /\ log'[s].open = log[s].open
        /\ log'[s].buys = log[s].buys /\ log'[s].price = log[s].price
    BY <2>1 DEF AtMidnight, Logs
  <2> QED
    BY <2>2 DEF Sound, Sellable
<1>3. CASE ~Record /\ ~Midnight
  <2>1. UNCHANGED log
    BY <1>3 DEF Next, Handle, Evaluate, QuietTick, SkipUnhealthy, SizeBuy,
       BalanceCovers, BalanceRefuses, SizeSell, LossRefuses, PlaceOrder,
       ExchangeExecutes, ExchangeErrors, ReplyLost, InsertFails, Crash,
       Restart, Refuse, vars
  <2> QED
    BY <2>1
<1> QED
  BY <1>1, <1>2, <1>3

\* Every step keeps the order on its way current.
LEMMA OrderNext ==
  ASSUME PositionInv, [Next]_vars
  PROVE  OrderIsCurrent'
<1> USE DEF PositionInv, OrderIsCurrent
<1>1. ASSUME NEW s \in Slots, Evaluate(s) PROVE OrderIsCurrent'
  BY <1>1 DEF Evaluate
<1>2. CASE SkipUnhealthy \/ BalanceRefuses \/ LossRefuses
  BY <1>2 DEF SkipUnhealthy, BalanceRefuses, LossRefuses, Refuse, Settle
<1>3. CASE SizeBuy
  <2>1. Busy /\ call \in Calls
    BY <1>3, CallFacts DEF SizeBuy, Busy
  <2> QED
    BY <1>3, <2>1 DEF SizeBuy, Abort, Calls
<1>4. CASE SizeSell
  <2>1. Busy /\ call \in Calls
    BY <1>4, CallFacts DEF SizeSell, Busy
  <2> QED
    BY <1>4, <2>1 DEF SizeSell, Refuse, Settle, Calls
<1>5. CASE BalanceCovers
  BY <1>5 DEF BalanceCovers
<1>6. CASE PlaceOrder
  <2>1. Busy /\ call \in Calls
    BY <1>6, CallFacts DEF PlaceOrder, Busy
  <2>2. call'.slot = call.slot /\ call'.side = call.side
        /\ call'.price = call.price /\ call'.qty = call.qty
    BY <1>6, <2>1 DEF PlaceOrder, Calls
  <2> QED
    BY <1>6, <2>2 DEF PlaceOrder
<1>7. CASE ExchangeExecutes
  BY <1>7 DEF ExchangeExecutes
<1>8. CASE Record
  BY <1>8 DEF Record, Settle
<1>9. CASE ExchangeErrors \/ ReplyLost \/ InsertFails
  BY <1>9 DEF ExchangeErrors, ReplyLost, InsertFails, Abort
<1>10. CASE Crash \/ Restart
  BY <1>10 DEF Crash, Restart
<1>11. CASE Midnight
  <2>1. UNCHANGED <<pc, call>>
    BY <1>11 DEF Midnight
  <2>2. CASE pc \in {"balance", "sized", "placed", "executed"}
    <3>1. call.slot \in Slots
      BY <2>2, CallFacts DEF Busy
    <3>2. log'[call.slot] = AtMidnight(log[call.slot]) /\ log[call.slot] \in Logs(Prices)
      BY <1>11, <3>1 DEF Midnight, TypeOK
    <3>3. Sellable(log'[call.slot]) = Sellable(log[call.slot])
      BY <3>2 DEF AtMidnight, Logs, Sellable
    <3> QED
      BY <2>1, <3>3
  <2> QED
    BY <2>1, <2>2
<1>12. CASE QuietTick \/ UNCHANGED vars
  BY <1>12 DEF QuietTick, vars
<1> QED
  BY <1>1, <1>2, <1>3, <1>4, <1>5, <1>6, <1>7, <1>8, <1>9, <1>10, <1>11, <1>12
     DEF Next, Handle

\* A step that moves neither the belief, the log nor whose signal is handled.
LEMMA CarryBelief ==
  ASSUME PositionInv, Busy, Busy', UNCHANGED <<belief, log>>,
         call'.slot = call.slot, call'.side = call.side
  PROVE  BeliefAgrees'
  BY DEF PositionInv, BeliefAgrees, Busy, Long

\* A refusal keeps belief and log in step.
LEMMA RefuseBelief ==
  ASSUME PositionInv, Busy, Refuse
  PROVE  BeliefAgrees'
<1> SUFFICES ASSUME NEW s \in Slots
             PROVE  Settled(belief'[s], Long(s), s \in Tracking)
  BY DEF Refuse, Settle, BeliefAgrees, Busy, Long
<1>1. /\ belief' = [belief EXCEPT ![call.slot] = Rejected(belief[call.slot])]
      /\ belief \in [Slots -> Beliefs(Prices)]
  BY DEF Refuse, Settle, PositionInv, TypeOK
<1>2. CASE s = call.slot
  <2>1. Flipped(belief[s], Long(s), s \in Tracking)
    BY <1>2 DEF PositionInv, BeliefAgrees, Busy
  <2>2. belief[s] \in Beliefs(Prices) /\ Long(s) \in BOOLEAN
        /\ (s \in Tracking) \in BOOLEAN
    BY <1>1 DEF Long
  <2>3. belief'[s] = Rejected(belief[s])
    BY <1>1, <1>2
  <2> QED
    BY <2>1, <2>2, <2>3, RejectionSettles
<1>3. CASE s # call.slot
  BY <1>1, <1>3 DEF PositionInv, BeliefAgrees, Busy
<1> QED
  BY <1>2, <1>3

\* Every step keeps belief and log in step.
LEMMA BeliefNext ==
  ASSUME PositionInv, [Next]_vars
  PROVE  BeliefAgrees'
<1> USE DEF PositionInv
<1>1. ASSUME NEW s \in Slots, Evaluate(s) PROVE BeliefAgrees'
  <2>1. PICK close \in Prices, side \in {"buy", "sell"} :
          /\ call'.slot = s /\ call'.side = side
          /\ \/ /\ ~belief[s].in /\ side = "buy"
                /\ belief' = [belief EXCEPT
                                ![s] = Entered(belief[s], close, s \in Tracking)]
             \/ /\ belief[s].in /\ side = "sell"
                /\ belief' = [belief EXCEPT ![s] = Exited(belief[s])]
    BY <1>1 DEF Evaluate
  <2>2. pc = "idle" /\ pc' = "signalled" /\ UNCHANGED log
    BY <1>1 DEF Evaluate
  <2>3. /\ belief[s] \in Beliefs(Prices)
        /\ Long(s) \in BOOLEAN /\ (s \in Tracking) \in BOOLEAN
        /\ Settled(belief[s], Long(s), s \in Tracking)
    BY <2>2 DEF TypeOK, BeliefAgrees, Busy, Long
  <2>4. /\ Flipped(belief'[s], Long(s), s \in Tracking)
        /\ side = IF Long(s) THEN "sell" ELSE "buy"
    <3>1. belief[s].in <=> Long(s)
      BY <2>3 DEF Settled
    <3>2. CASE belief[s].in
      <4>1. belief'[s] = Exited(belief[s]) /\ side = "sell"
        BY <2>1, <3>2 DEF TypeOK
      <4>2. Flipped(Exited(belief[s]), Long(s), s \in Tracking)
        BY <2>3, <3>2, PriceAssumption, SignalFlips
      <4> QED
        BY <3>1, <3>2, <4>1, <4>2
    <3>3. CASE ~belief[s].in
      <4>1. belief'[s] = Entered(belief[s], close, s \in Tracking) /\ side = "buy"
        BY <2>1, <3>3 DEF TypeOK
      <4>2. Flipped(Entered(belief[s], close, s \in Tracking), Long(s), s \in Tracking)
        BY <2>3, <3>3, PriceAssumption, SignalFlips
      <4> QED
        BY <3>1, <3>3, <4>1, <4>2
    <3> QED
      BY <3>2, <3>3
  <2>5. ASSUME NEW r \in Slots, r # s
        PROVE  Settled(belief'[r], Long(r), r \in Tracking)
    BY <2>1, <2>2, <2>5 DEF TypeOK, BeliefAgrees, Busy
  <2> QED
    BY <2>1, <2>2, <2>4, <2>5 DEF BeliefAgrees, Busy, Long
<1>2. CASE SkipUnhealthy \/ BalanceRefuses \/ LossRefuses
  BY <1>2, RefuseBelief DEF SkipUnhealthy, BalanceRefuses, LossRefuses, Busy
<1>3. CASE SizeBuy
  <2>1. Busy /\ call \in Calls /\ UNCHANGED log
    BY <1>3, CallFacts DEF SizeBuy, Busy
  <2>2. CASE Abort
    BY <2>2 DEF Abort, BeliefAgrees
  <2>3. CASE ~Abort
    <3>1. pc' = "balance" /\ UNCHANGED belief
          /\ call' = [call EXCEPT !.qty = BuyQty(call.slot, call.price)]
      BY <1>3, <2>3 DEF SizeBuy
    <3> QED
      BY <2>1, <3>1, CarryBelief DEF Busy, Calls
  <2> QED
    BY <2>2, <2>3
<1>4. CASE SizeSell
  <2>1. Busy /\ call \in Calls
    BY <1>4, CallFacts DEF SizeSell, Busy
  <2>2. CASE Refuse
    BY <2>1, <2>2, RefuseBelief
  <2>3. CASE ~Refuse
    <3>1. pc' = "sized" /\ UNCHANGED <<belief, log>>
          /\ call' = [call EXCEPT !.qty = Sellable(log[call.slot])]
      BY <1>4, <2>3 DEF SizeSell
    <3> QED
      BY <2>1, <3>1, CarryBelief DEF Busy, Calls
  <2> QED
    BY <2>2, <2>3
<1>5. CASE BalanceCovers
  BY <1>5, CarryBelief DEF BalanceCovers, Busy
<1>6. CASE PlaceOrder
  <2>1. Busy /\ call \in Calls
    BY <1>6, CallFacts DEF PlaceOrder, Busy
  <2>2. call'.slot = call.slot /\ call'.side = call.side
    BY <1>6, <2>1 DEF PlaceOrder, Calls
  <2> QED
    BY <1>6, <2>1, <2>2, CarryBelief DEF PlaceOrder, Busy
<1>7. CASE ExchangeExecutes
  BY <1>7, CarryBelief DEF ExchangeExecutes, Busy
<1>8. CASE Record
  <2> DEFINE r == call.slot
             row == Recorded(log[r], call.side, call.price, call.qty, call.day = day)
  <2>1. /\ pc = "executed" /\ pc' = "idle" /\ Busy
        /\ log' = [log EXCEPT ![r] = row]
        /\ belief' = [belief EXCEPT ![r] = Filled(belief[r])]
    BY <1>8 DEF Record, Settle, Busy
  <2>2. SUFFICES ASSUME NEW s \in Slots
                 PROVE  Settled(belief'[s], Long(s)', s \in Tracking)
    BY <2>1 DEF BeliefAgrees, Busy
  <2>3. CASE s # r
    <3>1. belief'[s] = belief[s] /\ log'[s] = log[s]
      BY <2>1, <2>3 DEF TypeOK
    <3> QED
      BY <2>1, <2>3, <3>1 DEF BeliefAgrees, Long
  <2>4. CASE s = r
    <3>1. /\ Flipped(belief[s], Long(s), s \in Tracking)
          /\ call.side = IF Long(s) THEN "sell" ELSE "buy"
      BY <2>1, <2>4 DEF BeliefAgrees
    <3>2. Long(s)' <=> ~Long(s)
      <4>1. log'[s] = row
        BY <2>1, <2>4 DEF TypeOK
      <4>2. row.last = call.side
        BY <3>1 DEF Recorded, Bought, Sold
      <4> QED
        BY <3>1, <4>1, <4>2 DEF Long
    <3>3. belief[s] \in Beliefs(Prices) /\ Long(s) \in BOOLEAN
          /\ (s \in Tracking) \in BOOLEAN
      BY DEF TypeOK, Long
    <3>4. belief'[s] = Filled(belief[s])
      BY <2>1, <2>4 DEF TypeOK
    <3>5. Settled(Filled(belief[s]), ~Long(s), s \in Tracking)
      BY <3>1, <3>3, FillSettles
    <3> QED
      BY <3>2, <3>4, <3>5 DEF Settled
  <2> QED
    BY <2>3, <2>4
<1>9. CASE ExchangeErrors \/ ReplyLost \/ InsertFails
  BY <1>9 DEF ExchangeErrors, ReplyLost, InsertFails, Abort, BeliefAgrees
<1>10. CASE Crash
  BY <1>10 DEF Crash, BeliefAgrees
<1>11. CASE Restart
  <2>1. SUFFICES ASSUME NEW s \in Slots
                 PROVE  Settled(belief'[s], Long(s), s \in Tracking)
    BY <1>11 DEF Restart, BeliefAgrees, Busy, Long
  <2>2. belief'[s] = Restored(log[s].last, log[s].price, s \in Tracking)
    BY <1>11 DEF Restart
  <2>3. log[s] \in Logs(Prices) /\ (s \in Tracking) \in BOOLEAN
    BY DEF TypeOK
  <2>4. log[s].last = "buy" => log[s].price # None
    <3>1. SUFFICES ASSUME log[s].last = "buy" PROVE log[s].price \in Prices
      BY PriceAssumption DEF None
    <3>2. log[s].buys = <<log[s].price>> /\ log[s].buys \in Seq(Prices)
      BY <2>3, <3>1 DEF Sound, Logs
    <3>3. Head(log[s].buys) \in Prices
      BY <3>2
    <3> QED
      BY <3>2, <3>3
  <2> QED
    BY <2>2, <2>3, <2>4, RestoreSettles DEF Long
<1>12. CASE Midnight
  <2>1. UNCHANGED <<pc, call, belief>>
    BY <1>12 DEF Midnight
  <2>2. ASSUME NEW s \in Slots PROVE Long(s)' <=> Long(s)
    <3>1. log'[s] = AtMidnight(log[s]) /\ log[s] \in Logs(Prices)
      BY <1>12 DEF Midnight, TypeOK
    <3> QED
      BY <3>1 DEF AtMidnight, Logs, Long
  <2> QED
    BY <2>1, <2>2 DEF BeliefAgrees, Busy, Flipped, Settled
<1>13. CASE QuietTick \/ UNCHANGED vars
  BY <1>13 DEF QuietTick, vars, BeliefAgrees, Busy, Long
<1> QED
  BY <1>1, <1>2, <1>3, <1>4, <1>5, <1>6, <1>7, <1>8, <1>9, <1>10, <1>11, <1>12,
     <1>13 DEF Next, Handle

\* The inductive invariant holds throughout.
LEMMA PositionInvariant == Spec => []PositionInv
<1>1. Init => PositionInv
  BY PositionInit
<1>2. PositionInv /\ [Next]_vars => PositionInv'
  <2> SUFFICES ASSUME PositionInv, [Next]_vars PROVE PositionInv'
    OBVIOUS
  <2>1. TypeOK'
    BY TypeNext DEF PositionInv
  <2>2. OrderIsCurrent' /\ BeliefAgrees'
    BY OrderNext, BeliefNext
  <2>3. \A s \in Slots : Sound(log'[s])
    BY SoundNext
  <2> QED
    BY <2>1, <2>2, <2>3 DEF PositionInv
<1> QED
  BY <1>1, <1>2, PTL DEF Spec

\* The rest of BeliefMatchesLog.
EntryAgrees == pc # "down" => \A s \in Slots : EntryMatches(s)

\* A restored entry price outlives every signal that is not recorded.
LEMMA EntryNext ==
  ASSUME PositionInv, EntryAgrees, [Next]_vars
  PROVE  EntryAgrees'
<1> SUFFICES ASSUME pc' # "down", NEW s \in Slots, s \in restored'
             PROVE  /\ Long(s)'
                    /\ log'[s].price = IF Handling(s)' THEN belief'[s].pending.entry
                                                       ELSE belief'[s].entry
  BY DEF EntryAgrees, EntryMatches
<1> USE DEF PositionInv
<1>0. belief \in [Slots -> Beliefs(Prices)] /\ log \in [Slots -> Logs(Prices)]
  BY DEF TypeOK
<1>1. ASSUME NEW r \in Slots, Evaluate(r)
      PROVE  Long(s)' /\ log'[s].price = IF Handling(s)' THEN belief'[s].pending.entry
                                                         ELSE belief'[s].entry
  <2>1. /\ pc = "idle" /\ Busy' /\ ~Busy /\ call'.slot = r /\ log' = log
        /\ restored' = restored
    BY <1>1 DEF Evaluate, Busy
  <2>2. /\ Long(s) /\ log[s].price = belief[s].entry /\ belief[s].in
    BY <2>1 DEF EntryAgrees, EntryMatches, Handling, BeliefAgrees, Settled
  <2>3. CASE s = r
    <3>1. belief'[s] = Exited(belief[s])
      BY <1>0, <1>1, <2>2, <2>3 DEF Evaluate
    <3> QED
      BY <2>1, <2>2, <2>3, <3>1 DEF Exited, Arm, Handling, Long
  <2>4. CASE s # r
    <3>1. belief'[s] = belief[s]
      BY <1>0, <1>1, <2>4 DEF Evaluate
    <3> QED
      BY <2>1, <2>2, <2>4, <3>1 DEF Handling, Long
  <2> QED
    BY <2>3, <2>4
<1>2. CASE Busy /\ Refuse
  <2>1. /\ ~Busy' /\ log' = log /\ restored' = restored
        /\ belief' = [belief EXCEPT ![call.slot] = Rejected(belief[call.slot])]
    BY <1>2 DEF Refuse, Settle, Busy
  <2>2. EntryMatches(s) /\ Long(s)
    BY <1>2, <2>1 DEF EntryAgrees, EntryMatches, Busy
  <2>3. CASE s = call.slot
    <3>1. belief[s].pending.armed /\ log[s].price = belief[s].pending.entry
      BY <1>2, <2>1, <2>2, <2>3 DEF BeliefAgrees, Busy, Flipped, EntryMatches, Handling
    <3>2. belief'[s].entry = belief[s].pending.entry
      BY <1>0, <2>1, <2>3, <3>1 DEF Rejected
    <3> QED
      BY <2>1, <2>2, <3>1, <3>2 DEF Handling, Long
  <2>4. CASE s # call.slot
    BY <1>0, <2>1, <2>2, <2>4 DEF EntryMatches, Handling, Long
  <2> QED
    BY <2>3, <2>4
<1>3. CASE Busy /\ Busy' /\ call'.slot = call.slot /\ UNCHANGED <<belief, log, restored>>
  BY <1>3 DEF EntryAgrees, EntryMatches, Handling, Busy, Long
<1>4. CASE Record
  <2>1. /\ Busy /\ ~Busy' /\ s # call.slot /\ s \in restored
        /\ log'[s] = log[s] /\ belief'[s] = belief[s]
    BY <1>0, <1>4 DEF Record, Settle, Busy
  <2> QED
    BY <2>1 DEF EntryAgrees, EntryMatches, Handling, Busy, Long
<1>5. CASE Restart
  <2>1. /\ ~Busy' /\ log' = log /\ s \in Tracking /\ Long(s)
        /\ belief'[s] = Restored(log[s].last, log[s].price, s \in Tracking)
    BY <1>5 DEF Restart, Busy
  <2>2. belief'[s] = [Fresh EXCEPT !.in = TRUE, !.entry = log[s].price]
    BY <2>1 DEF Restored, Long
  <2>3. belief'[s].entry = log[s].price
    BY <2>2 DEF Fresh
  <2> QED
    BY <2>1, <2>3 DEF Handling, Long
<1>6. CASE Midnight
  <2>1. UNCHANGED <<pc, call, belief, restored>> /\ log'[s] = AtMidnight(log[s])
    BY <1>6 DEF Midnight
  <2>2. log'[s].last = log[s].last /\ log'[s].price = log[s].price
    BY <1>0, <2>1 DEF AtMidnight, Logs
  <2> QED
    BY <2>1, <2>2 DEF EntryAgrees, EntryMatches, Handling, Busy, Long
<1>7. CASE QuietTick \/ UNCHANGED vars
  BY <1>7 DEF QuietTick, vars, EntryAgrees, EntryMatches, Handling, Busy, Long
<1>8. SkipUnhealthy \/ BalanceRefuses \/ LossRefuses => Busy /\ Refuse
  BY DEF SkipUnhealthy, BalanceRefuses, LossRefuses, Busy
<1>9. SizeBuy => pc' = "down" \/ (Busy /\ Busy' /\ call'.slot = call.slot
                                  /\ UNCHANGED <<belief, log, restored>>)
  <2> SUFFICES ASSUME SizeBuy, pc' # "down"
               PROVE  Busy /\ Busy' /\ call'.slot = call.slot
                      /\ UNCHANGED <<belief, log, restored>>
    OBVIOUS
  <2>1. Busy /\ call \in Calls
    BY CallFacts DEF SizeBuy, Busy
  <2>2. /\ pc' = "balance" /\ call' = [call EXCEPT !.qty = BuyQty(call.slot, call.price)]
        /\ UNCHANGED <<belief, log, restored>>
    BY DEF SizeBuy, Abort
  <2> QED
    BY <2>1, <2>2 DEF Calls, Busy
<1>10. SizeSell => \/ Busy /\ Refuse
                   \/ Busy /\ Busy' /\ call'.slot = call.slot
                      /\ UNCHANGED <<belief, log, restored>>
  <2> SUFFICES ASSUME SizeSell, ~Refuse
               PROVE  Busy /\ Busy' /\ call'.slot = call.slot
                      /\ UNCHANGED <<belief, log, restored>>
    BY DEF SizeSell, Busy
  <2>1. Busy /\ call \in Calls
    BY CallFacts DEF SizeSell, Busy
  <2>2. /\ pc' = "sized" /\ call' = [call EXCEPT !.qty = Sellable(log[call.slot])]
        /\ UNCHANGED <<belief, log, restored>>
    BY DEF SizeSell
  <2> QED
    BY <2>1, <2>2 DEF Calls, Busy
<1>11. BalanceCovers \/ PlaceOrder \/ ExchangeExecutes =>
         Busy /\ Busy' /\ call'.slot = call.slot /\ UNCHANGED <<belief, log, restored>>
  <2>1. BalanceCovers \/ PlaceOrder \/ ExchangeExecutes => Busy /\ call \in Calls
    BY CallFacts DEF BalanceCovers, PlaceOrder, ExchangeExecutes, Busy
  <2> QED
    BY <2>1 DEF BalanceCovers, PlaceOrder, ExchangeExecutes, Busy, Calls
<1>12. ExchangeErrors \/ ReplyLost \/ InsertFails \/ Crash => pc' = "down"
  BY DEF ExchangeErrors, ReplyLost, InsertFails, Crash, Abort
<1> QED
  BY <1>1, <1>2, <1>3, <1>4, <1>5, <1>6, <1>7, <1>8, <1>9, <1>10, <1>11, <1>12
     DEF Next, Handle

\* However signals are refused, orders fail, replies get lost and the process
\* crashes and restarts, a running strategy is long exactly when the trade log says
\* so, with an entry price where it tracks one; and the price that a restart took
\* from the log stays that of the log until the position is closed.
THEOREM BeliefAlwaysMatchesLog == Spec => []BeliefMatchesLog
<1>1. Init => EntryAgrees
  BY DEF Init, EntryAgrees, EntryMatches
<1>2. PositionInv /\ EntryAgrees /\ [Next]_vars => EntryAgrees'
  BY EntryNext
<1>3. PositionInv /\ EntryAgrees => BeliefMatchesLog
  BY DEF PositionInv, BeliefAgrees, EntryAgrees, BeliefMatchesLog, SideMatches, Handling
<1> QED
  BY <1>1, <1>2, <1>3, PositionInvariant, PTL DEF Spec

\* The last row and the floored running total agree on what is held, whatever
\* the sizes of the buys and the dust they leave.
THEOREM LastRowAlwaysIsPosition == Spec => []LastRowIsPosition
<1>1. PositionInv => LastRowIsPosition
  BY DEF PositionInv, LastRowIsPosition, Sound, Long
<1> QED
  BY <1>1, PositionInvariant, PTL

\* The FIFO matching of a pair's rows leaves the one buy of its position open,
\* or none: the P&L of a sell is computed from that buy alone.
THEOREM OneBuyAlwaysOpen == Spec => []OneOpenBuy
<1>1. PositionInv => OneOpenBuy
  BY DEF PositionInv, OneOpenBuy, Sound, Long
<1> QED
  BY <1>1, PositionInvariant, PTL

\* A quantity read before an await is right when the order executes.
THEOREM OrderAlwaysCurrent == Spec => []OrderIsCurrent
<1>1. PositionInv => OrderIsCurrent
  BY DEF PositionInv
<1> QED
  BY <1>1, PositionInvariant, PTL

-----------------------------------------------------------------------------
(* The daily loss limit *)

\* Unless a sell of today closed an earlier buy, the walk of the cut table and the
\* pnl column agree, and an order on its way passed the limit with that sum.
LossInv ==
  /\ overnight \/ dayPnl = realized
  /\ pc \in {"placed", "executed"} =>
       call.pnl = IF call.side = "sell"
                  THEN Matched(log[call.slot].buys, call.price, call.qty) ELSE 0
  /\ pc = "placed" => call.day <= day
  /\ pc = "placed" /\ call.day = day => dayPnl > -MaxDailyLoss

\* Every step keeps it.
LEMMA LossNext ==
  ASSUME TypeOK, LossInv, [Next]_vars
  PROVE  LossInv'
<1>1. CASE PlaceOrder
  <2> DEFINE pnl == IF call.side = "sell"
                    THEN Matched(log[call.slot].buys, call.price, call.qty) ELSE 0
  <2>1. /\ ~LimitReached /\ pc' = "placed"
        /\ call' = [call EXCEPT !.day = day, !.pnl = pnl]
        /\ UNCHANGED <<log, day, dayPnl, realized, overnight>>
    BY <1>1 DEF PlaceOrder
  <2>2. call \in Calls
    BY <1>1, CallFacts DEF PlaceOrder, Busy
  <2> HIDE DEF pnl
  <2>5. call'.day = day /\ day \in Nat
    BY <2>1, <2>2 DEF Calls, TypeOK
  <2>3. /\ call'.pnl = pnl /\ call'.side = call.side /\ call'.slot = call.slot
        /\ call'.price = call.price /\ call'.qty = call.qty
    BY <2>1, <2>2 DEF Calls
  <2>4. dayPnl > -MaxDailyLoss
    <3>1. dayPnl \in Int /\ MaxDailyLoss \in Nat
      BY LossAssumption DEF TypeOK
    <3> QED
      BY <2>1, <3>1 DEF LimitReached
  <2> QED
    BY <2>1, <2>3, <2>4, <2>5 DEF LossInv, pnl
<1>2. CASE ExchangeExecutes
  BY <1>2 DEF ExchangeExecutes, LossInv
<1>3. CASE Record
  <2> DEFINE l == log[call.slot]
             today == call.day = day
             step == DayPnlStep(l, call.side, call.price, call.qty, today)
  <2>1. /\ pc = "executed" /\ pc' = "idle"
        /\ dayPnl' = dayPnl + step
        /\ realized' = realized + IF today THEN call.pnl ELSE 0
        /\ overnight' = (overnight \/ (call.side = "sell" /\ today /\ l.buys # l.dayBuys))
    BY <1>3 DEF Record, Settle
  <2>2. ASSUME ~overnight' PROVE dayPnl' = realized'
    <3>1. dayPnl = realized /\ (call.side = "sell" /\ today => l.buys = l.dayBuys)
      BY <2>1, <2>2 DEF LossInv
    <3>2. step = IF today THEN call.pnl ELSE 0
      BY <2>1, <3>1 DEF LossInv, DayPnlStep
    <3> HIDE DEF step, today
    <3> QED
      BY <2>1, <3>1, <3>2
  <2> QED
    BY <2>1, <2>2 DEF LossInv
<1>4. CASE Midnight
  <2>1. /\ UNCHANGED <<pc, call>> /\ day' = day + 1 /\ dayPnl' = 0 /\ realized' = 0
        /\ log' = [r \in Slots |-> AtMidnight(log[r])]
    BY <1>4 DEF Midnight
  <2>2. ASSUME pc \in {"placed", "executed"}
        PROVE  /\ log'[call.slot].buys = log[call.slot].buys
               /\ pc = "placed" => call.day < day'
    <3>1. call.slot \in Slots /\ log[call.slot] \in Logs(Prices)
      BY <2>2, CallFacts DEF Busy
    <3>2. log'[call.slot].buys = log[call.slot].buys
      BY <2>1, <3>1 DEF AtMidnight, Logs
    <3>3. call.day \in Nat /\ day \in Nat
      BY <2>2, CallFacts DEF Busy, Calls, TypeOK
    <3>4. pc = "placed" => call.day < day'
      BY <2>1, <3>3 DEF LossInv
    <3> QED
      BY <3>2, <3>4
  <2>3. pc' = "placed" => call'.day <= day' /\ call'.day # day'
    <3>1. pc = "placed" => call.day \in Nat /\ day' \in Nat
      BY <2>1, CallFacts DEF Busy, Calls, TypeOK
    <3> QED
      BY <2>1, <2>2, <3>1
  <2> QED
    BY <2>1, <2>2, <2>3 DEF LossInv
<1>5. CASE ~PlaceOrder /\ ~ExchangeExecutes /\ ~Record /\ ~Midnight
  <2>1. /\ UNCHANGED <<log, day, dayPnl, realized, overnight>>
        /\ pc' \in {"placed", "executed"} => UNCHANGED <<pc, call>>
    BY <1>5 DEF Next, Handle, Evaluate, QuietTick, SkipUnhealthy, SizeBuy,
       BalanceCovers, BalanceRefuses, SizeSell, LossRefuses, ExchangeErrors,
       ReplyLost, InsertFails, Crash, Restart, Refuse, Settle, Abort, vars
  <2> QED
    BY <2>1 DEF LossInv
<1> QED
  BY <1>1, <1>2, <1>3, <1>4, <1>5

\* No order is placed over the loss limit of the day as the pnl column has it, unless
\* one of the day's sells closed a buy from before midnight (executor.py).
THEOREM LossLimitAlwaysHonoured == Spec => []LossLimitHonoured
<1>1. Init => LossInv
  BY DEF Init, LossInv
<1>2. TypeOK /\ LossInv /\ [Next]_vars => LossInv'
  BY LossNext
<1>3. LossInv => LossLimitHonoured
  BY DEF LossInv, LossLimitHonoured
<1> QED
  BY <1>1, <1>2, <1>3, TypeCorrect, PTL DEF Spec

-----------------------------------------------------------------------------
(* The coin at the exchange *)

\* No coin has moved at the start.
LEMMA AccountsInit == Init => LogAccountsForCoin
  BY DEF Init, LogAccountsForCoin, EmptyLog

\* A row moves the running total by the executed quantity.
LEMMA RowMovesOpen ==
  ASSUME PositionInv, pc = "executed", NEW t \in BOOLEAN
  PROVE  Recorded(log[call.slot], call.side, call.price, call.qty, t).open
           = log[call.slot].open + Effect(call)
<1> DEFINE l == log[call.slot]
<1>1. /\ l \in Logs(Prices) /\ call.slot \in Slots
      /\ call.side \in {"buy", "sell"} /\ call.qty \in Nat
  BY CallFacts DEF PositionInv, Busy
<1>2. l.open \in Nat
  BY <1>1 DEF Logs
<1>3. CASE call.side = "buy"
  BY <1>1, <1>2, <1>3 DEF Recorded, Bought, Effect
<1>4. CASE call.side = "sell"
  <2>1. call.qty = Sellable(l)
    BY <1>4 DEF PositionInv, OrderIsCurrent
  <2>2. Sellable(l) \in Nat /\ Sellable(l) <= l.open
    BY <1>2, FloorFacts DEF Sellable
  <2>3. Less(l.open, Sellable(l)) = l.open - Sellable(l)
    BY <1>2, <2>2 DEF Less
  <2>4. Recorded(l, call.side, call.price, call.qty, t).open
          = Less(l.open, call.qty)
    BY <1>4 DEF Recorded, Sold
  <2>5. Effect(call) = -call.qty
    BY <1>4 DEF Effect
  <2> QED
    BY <1>2, <2>1, <2>2, <2>3, <2>4, <2>5
<1> QED
  BY <1>1, <1>3, <1>4

\* What a fault orphans is accounted for.
LEMMA OrphanedAccounts ==
  ASSUME PositionInv, LogAccountsForCoin, NEW late \in BOOLEAN, Orphaned(late),
         UNCHANGED log, pc' = "down"
  PROVE  LogAccountsForCoin'
<1> SUFFICES ASSUME NEW s \in Slots
             PROVE  exch'[s] = log[s].open + orphan'[s] + 0
  BY DEF LogAccountsForCoin
<1>1. /\ exch[s] \in Int /\ orphan[s] \in Int /\ log[s].open \in Nat
      /\ exch \in [Slots -> Int] /\ orphan \in [Slots -> Int]
  BY DEF PositionInv, TypeOK, Logs
<1>2. CASE pc \in {"placed", "executed"} /\ call.slot = s
  <2>1. Effect(call) \in Int
    BY <1>2, CallFacts DEF PositionInv, Busy
  <2> QED
    BY <1>1, <1>2, <2>1 DEF Orphaned, LogAccountsForCoin
<1>3. CASE ~(pc \in {"placed", "executed"} /\ call.slot = s)
  <2>1. exch'[s] = exch[s] /\ orphan'[s] = orphan[s]
    BY <1>1, <1>3 DEF Orphaned
  <2> QED
    BY <1>1, <1>3, <2>1 DEF LogAccountsForCoin
<1> QED
  BY <1>2, <1>3

\* Every step accounts for the coin it moves.
LEMMA AccountsNext ==
  ASSUME PositionInv, LogAccountsForCoin, [Next]_vars
  PROVE  LogAccountsForCoin'
<1> USE DEF LogAccountsForCoin
<1>1. CASE ExchangeExecutes
  <2> SUFFICES ASSUME NEW s \in Slots
               PROVE  exch'[s] = log[s].open + orphan[s]
                        + IF call.slot = s THEN Effect(call) ELSE 0
    BY <1>1 DEF ExchangeExecutes
  <2>1. exch' = [exch EXCEPT ![call.slot] = exch[call.slot] + Effect(call)]
        /\ pc = "placed"
    BY <1>1 DEF ExchangeExecutes
  <2>2. /\ exch[s] \in Int /\ orphan[s] \in Int /\ log[s].open \in Nat
        /\ exch \in [Slots -> Int]
    BY DEF PositionInv, TypeOK, Logs
  <2>3. Effect(call) \in Int
    BY <2>1, CallFacts DEF PositionInv, Busy
  <2>4. exch[s] = log[s].open + orphan[s]
    BY <2>1, <2>2
  <2> QED
    BY <2>1, <2>2, <2>3, <2>4
<1>2. CASE Record
  <2> DEFINE row == Recorded(log[call.slot], call.side, call.price, call.qty,
                             call.day = day)
  <2>1. /\ pc = "executed" /\ pc' = "idle"
        /\ log' = [log EXCEPT ![call.slot] = row]
        /\ UNCHANGED <<exch, orphan>>
    BY <1>2 DEF Record, Settle
  <2>2. row.open = log[call.slot].open + Effect(call)
    BY <2>1, RowMovesOpen
  <2> HIDE DEF row
  <2>3. SUFFICES ASSUME NEW s \in Slots
                 PROVE  exch[s] = log'[s].open + orphan[s] + 0
    BY <2>1
  <2>4. exch[s] \in Int /\ orphan[s] \in Int /\ log[s].open \in Nat
    BY DEF PositionInv, TypeOK, Logs
  <2>5. CASE s = call.slot
    <3>1. log'[s] = row /\ Effect(call) \in Int
      BY <2>1, <2>5, CallFacts DEF PositionInv, TypeOK, Busy
    <3> QED
      BY <2>1, <2>2, <2>4, <2>5, <3>1
  <2>6. CASE s # call.slot
    <3>1. log'[s] = log[s]
      BY <2>1, <2>6 DEF PositionInv, TypeOK
    <3> QED
      BY <2>1, <2>4, <2>6, <3>1
  <2> QED
    BY <2>5, <2>6
<1>3. CASE ReplyLost \/ InsertFails \/ Crash
  <2>1. PICK late \in BOOLEAN : Orphaned(late)
    BY <1>3 DEF ReplyLost, InsertFails, Crash
  <2>2. UNCHANGED log /\ pc' = "down"
    BY <1>3 DEF ReplyLost, InsertFails, Crash, Abort
  <2> QED
    BY <2>1, <2>2, OrphanedAccounts
<1>4. CASE Midnight
  <2>1. UNCHANGED <<pc, call, exch, orphan>>
    BY <1>4 DEF Midnight
  <2>2. ASSUME NEW s \in Slots PROVE log'[s].open = log[s].open
    <3>1. log'[s] = AtMidnight(log[s]) /\ log[s] \in Logs(Prices)
      BY <1>4 DEF Midnight, PositionInv, TypeOK
    <3> QED
      BY <3>1 DEF AtMidnight, Logs
  <2> QED
    BY <2>1, <2>2 DEF Effect
<1>5. CASE ~ExchangeExecutes /\ ~Record /\ ~(ReplyLost \/ InsertFails \/ Crash)
           /\ ~Midnight
  <2>1. UNCHANGED <<exch, orphan, log>> /\ (pc' = "executed" <=> pc = "executed")
        /\ (pc = "executed" => UNCHANGED call)
    BY <1>5 DEF Next, Handle, Evaluate, QuietTick, SkipUnhealthy, SizeBuy,
       BalanceCovers, BalanceRefuses, SizeSell, LossRefuses, PlaceOrder,
       ExchangeErrors, Restart, Refuse, Settle, Abort, vars
  <2> QED
    BY <2>1 DEF Effect
<1> QED
  BY <1>1, <1>2, <1>3, <1>4, <1>5

\* Whatever is recorded was executed, once and in that quantity, and coin that
\* moved without a row is exactly what lost replies, failed inserts and
\* crashes orphaned.
THEOREM LogAlwaysAccountsForCoin == Spec => []LogAccountsForCoin
<1>1. Init => LogAccountsForCoin
  BY AccountsInit
<1>2. PositionInv /\ LogAccountsForCoin /\ [Next]_vars => LogAccountsForCoin'
  BY AccountsNext
<1> QED
  BY <1>1, <1>2, PositionInvariant, PTL DEF Spec

\* Without an orphaned order no sell is unbacked and no buy doubles a position.
THEOREM AlwaysBackedUnlessOrphaned == Spec => []BackedUnlessOrphaned
<1>1. PositionInv /\ LogAccountsForCoin => BackedUnlessOrphaned
  <2> SUFFICES ASSUME PositionInv, LogAccountsForCoin, pc = "placed",
                      orphan[call.slot] = 0
               PROVE  IF call.side = "sell"
                      THEN call.qty > 0 /\ call.qty <= exch[call.slot]
                      ELSE Floor8(exch[call.slot]) = 0
    BY DEF BackedUnlessOrphaned
  <2> DEFINE s == call.slot
  <2>1. s \in Slots /\ log[s] \in Logs(Prices) /\ call.side \in {"buy", "sell"}
    BY CallFacts DEF PositionInv, Busy
  <2>2. log[s].open \in Nat /\ exch[s] = log[s].open
    BY <2>1 DEF Logs, LogAccountsForCoin
  <2>3. /\ call.side = IF Long(s) THEN "sell" ELSE "buy"
        /\ Long(s) <=> Sellable(log[s]) > 0
        /\ call.side = "sell" => call.qty = Sellable(log[s])
    BY <2>1 DEF PositionInv, BeliefAgrees, OrderIsCurrent, Sound, Long, Busy
  <2>4. Sellable(log[s]) \in Nat /\ Sellable(log[s]) <= log[s].open
        /\ Sellable(log[s]) = Floor8(exch[s])
    BY <2>2, FloorFacts DEF Sellable
  <2> QED
    BY <2>1, <2>2, <2>3, <2>4
<1> QED
  BY <1>1, PositionInvariant, LogAlwaysAccountsForCoin, PTL

-----------------------------------------------------------------------------
(* The trade log implements Position *)

Held == [s \in Slots |-> Sellable(log[s])]
EntryPrice == [s \in Slots |-> IF Long(s) THEN log[s].price ELSE 0]

\* Every step opens or closes a position of the log, or leaves them alone.
LEMMA PositionStep ==
  ASSUME PositionInv, PositionInv', [Next]_vars
  PROVE  LogPosition!Next \/ UNCHANGED <<Held, EntryPrice>>
<1> USE DEF PositionInv
<1>1. CASE Record
  <2> DEFINE s == call.slot
             l == log[s]
             today == call.day = day
             row == Recorded(l, call.side, call.price, call.qty, today)
  <2>1. /\ pc = "executed" /\ Busy
        /\ log' = [log EXCEPT ![s] = row]
    BY <1>1 DEF Record, Busy
  <2>2. /\ s \in Slots /\ l \in Logs(Prices) /\ Sound(l)
        /\ call.price \in Prices /\ call.qty \in Nat /\ today \in BOOLEAN
        /\ call.side = IF l.last = "buy" THEN "sell" ELSE "buy"
        /\ call.qty = IF call.side = "buy" THEN BuyQty(s, call.price)
                                           ELSE Sellable(l)
    BY <2>1, CallFacts DEF OrderIsCurrent, BeliefAgrees, Long
  <2>3. log'[s] = row /\ \A r \in Slots \ {s} : log'[r] = log[r]
    BY <2>1, <2>2 DEF TypeOK
  <2>4. Sellable(l) \in Nat /\ Sellable(row) \in Nat
    <3>1. log'[s] \in Logs(Prices)
      BY <2>2 DEF TypeOK
    <3> QED
      BY <2>2, <2>3, <3>1, FloorFacts DEF Sellable, Logs
  <2> HIDE DEF row, l, today
  <2>5. CASE l.last = "buy"
    <3>1. row.last = "sell" /\ Sellable(row) = 0
      BY <2>2, <2>5, SellRow DEF row
    <3>2. Sellable(l) > 0
      BY <2>2, <2>5 DEF Sound
    <3>3. Held' = [Held EXCEPT ![s] = 0] /\ Held[s] > 0
      BY <2>2, <2>3, <3>1, <3>2 DEF Held, l
    <3>4. EntryPrice' = [EntryPrice EXCEPT ![s] = 0]
      BY <2>2, <2>3, <3>1 DEF EntryPrice, Long
    <3>5. \E r \in Slots : LogPosition!Close(r)
      BY <2>2, <3>3, <3>4 DEF LogPosition!Close, Held, EntryPrice
    <3> QED
      BY <3>5 DEF LogPosition!Next, LogPosition!Open, LogPosition!Close
  <2>6. CASE l.last # "buy"
    <3>1. call.qty >= Lot /\ call.side = "buy"
      BY <2>2, <2>6, BuyQtyType
    <3>2. row.last = "buy" /\ row.price = call.price /\ Sound(row)
      BY <2>2, <2>6, <3>1, BuyRow DEF row
    <3>3. Sellable(row) > 0
      BY <3>2 DEF Sound
    <3>4. Sellable(l) = 0
      BY <2>2, <2>4, <2>6 DEF Sound
    <3>5. Held' = [Held EXCEPT ![s] = Held'[s]] /\ Held[s] = 0
          /\ Held'[s] \in Nat \ {0}
      BY <2>2, <2>3, <2>4, <3>3, <3>4 DEF Held, l
    <3>6. EntryPrice' = [EntryPrice EXCEPT ![s] = call.price]
      BY <2>2, <2>3, <3>2 DEF EntryPrice, Long
    <3>7. \E r \in Slots : LogPosition!Open(r)
      BY <2>2, <3>5, <3>6 DEF LogPosition!Open, Held, EntryPrice
    <3> QED
      BY <3>7 DEF LogPosition!Next, LogPosition!Open, LogPosition!Close
  <2> QED
    BY <2>5, <2>6
<1>2. CASE Midnight
  <2>1. ASSUME NEW s \in Slots
        PROVE  Sellable(log'[s]) = Sellable(log[s])
               /\ log'[s].last = log[s].last /\ log'[s].price = log[s].price
    <3>1. log'[s] = AtMidnight(log[s]) /\ log[s] \in Logs(Prices)
      BY <1>2 DEF Midnight, TypeOK
    <3> QED
      BY <3>1 DEF AtMidnight, Logs, Sellable
  <2>2. UNCHANGED Held /\ UNCHANGED EntryPrice
    BY <2>1 DEF Held, EntryPrice, Long
  <2> QED
    BY <2>2
<1>3. CASE ~Record /\ ~Midnight
  <2>1. UNCHANGED log
    BY <1>3 DEF Next, Handle, Evaluate, QuietTick, SkipUnhealthy, SizeBuy,
       BalanceCovers, BalanceRefuses, SizeSell, LossRefuses, PlaceOrder,
       ExchangeExecutes, ExchangeErrors, ReplyLost, InsertFails, Crash,
       Restart, Refuse, vars
  <2> QED
    BY <2>1 DEF Held, EntryPrice, Long
<1> QED
  BY <1>1, <1>2, <1>3

\* The detailed loop, with its faults and restarts, is a position per slot
\* that is opened when flat and closed whole.
THEOREM LogImplementsPosition == Spec => ImplementsPosition
<1>1. Init => LogPosition!Init
  <2> SUFFICES ASSUME Init PROVE LogPosition!Init
    OBVIOUS
  <2>1. Sellable(EmptyLog) = 0
    BY FloorFacts, LotAssumption DEF Sellable, EmptyLog
  <2> QED
    BY <2>1 DEF Init, LogPosition!Init, Long, EmptyLog
<1>2. PositionInv /\ PositionInv' /\ [Next]_vars
        => [LogPosition!Next]_<<Held, EntryPrice>>
  BY PositionStep
<1>3. [LogPosition!Next]_<<Held, EntryPrice>>
        => [LogPosition!Next]_<<[s \in Slots |-> Sellable(log[s])],
                                [s \in Slots |-> IF Long(s) THEN log[s].price
                                                            ELSE 0]>>
  BY DEF Held, EntryPrice
<1> QED
  BY <1>1, <1>2, <1>3, PositionInvariant, PTL
     DEF Spec, ImplementsPosition, LogPosition!Spec
=============================================================================
