------------------------ MODULE MakerTrader_proofs ------------------------
(***************************************************************************)
(* Proofs of the safety of MakerTrader, for every value of its constants.  *)
(*                                                                         *)
(* Three inductive invariants, each built on the one before:               *)
(*                                                                         *)
(*   TypeInv    the types, with what keeps the keys of a pass of the       *)
(*              reconciler those of resting entries                        *)
(*   OrderInv   a resting entry is of an unlogged order; an answer that is *)
(*              not handled yet is still true if it is final; every        *)
(*              working order is known or stray                            *)
(*   BeliefInv  what each undisturbed strategy believes, by how far its    *)
(*              signal or its entry is                                     *)
(*                                                                         *)
(* and CoinInv, the balance of each slot, over TypeInv alone.              *)
(***************************************************************************)
EXTENDS MakerTrader, TradeLog_proofs, SequenceTheorems

\* While a signal is handled, call is one.
LEMMA CallFacts ==
  ASSUME TypeOK, Busy
  PROVE  /\ call \in Calls
         /\ call.slot \in Slots
         /\ call.side \in {"buy", "sell"}
         /\ call.price \in Prices
         /\ call.qty \in Nat
         /\ Effect(call) \in Int
         /\ belief[call.slot] \in Beliefs(Prices)
         /\ log[call.slot] \in Logs(Prices)
<1>1. call \in Calls
  BY DEF TypeOK, Busy
<1>2. call.slot \in Slots /\ call.side \in {"buy", "sell"}
      /\ call.price \in Prices /\ call.qty \in Nat
  BY <1>1 DEF Calls
<1>3. Effect(call) \in Int
  BY <1>2 DEF Effect
<1> QED
  BY <1>1, <1>2, <1>3 DEF TypeOK

\* An entry that rests is one of an order of its slot.
LEMMA EntryFacts ==
  ASSUME TypeOK, NEW s \in Slots, Resting(s)
  PROVE  /\ book[s] \in Entries
         /\ book[s].txid \in DOMAIN limits
         /\ limits[book[s].txid].slot = s
         /\ limits[book[s].txid] \in LimitOrders
         /\ book[s].price \in Prices
<1>1. book[s] \in Entries
  BY DEF TypeOK, Resting
<1>2. book[s].txid \in DOMAIN limits /\ limits[book[s].txid].slot = s
  BY DEF TypeOK
<1>3. limits[book[s].txid] \in LimitOrders
  BY <1>2, LenProperties, ElementOfSeq DEF TypeOK
<1>4. book[s].price \in Prices
  BY <1>1 DEF Entries
<1> QED
  BY <1>1, <1>2, <1>3, <1>4

-----------------------------------------------------------------------------
(* How the orders at the exchange change *)

\* Order i becomes o and no other changes.
Becomes(i, o) ==
  /\ i \in DOMAIN limits
  /\ limits' \in Seq(LimitOrders)
  /\ Len(limits') = Len(limits) /\ DOMAIN limits' = DOMAIN limits
  /\ limits'[i] = o
  /\ \A j \in DOMAIN limits : j # i => limits'[j] = limits[j]

\* An assignment to one order.
LEMMA BecomesExcept ==
  ASSUME TypeOK, NEW i \in DOMAIN limits, NEW o \in LimitOrders,
         limits' = [limits EXCEPT ![i] = o]
  PROVE  Becomes(i, o)
<1>1. limits \in Seq(LimitOrders) /\ DOMAIN limits = 1..Len(limits)
  BY LenProperties DEF TypeOK
<1>2. /\ limits' \in Seq(LimitOrders) /\ Len(limits') = Len(limits)
      /\ \A j \in 1..Len(limits) : limits'[j] = IF j = i THEN o ELSE limits[j]
  BY <1>1, ExceptSeq
<1>3. DOMAIN limits' = 1..Len(limits')
  BY <1>2, LenProperties
<1> QED
  BY <1>1, <1>2, <1>3 DEF Becomes

\* What a field of an order may change to.
LEMMA OrderTypes ==
  ASSUME NEW o \in LimitOrders, NEW st \in States, NEW n \in Nat
  PROVE  /\ [o EXCEPT !.exec = n, !.state = st] \in LimitOrders
         /\ [o EXCEPT !.state = st] \in LimitOrders
         /\ [o EXCEPT !.logged = n] \in LimitOrders
         /\ [o EXCEPT !.stray = TRUE] \in LimitOrders
  BY DEF LimitOrders, States

\* A fill, whole or partial, of an open order.
LEMMA FillLimitFacts ==
  ASSUME TypeOK, FillLimit
  PROVE  \E i \in DOMAIN limits, e \in Nat, st \in States :
           /\ limits[i] \in LimitOrders /\ limits[i].state = "open"
           /\ Becomes(i, [limits[i] EXCEPT !.exec = e, !.state = st])
           /\ exch' = [exch EXCEPT
                ![limits[i].slot] = exch[limits[i].slot] + e - limits[i].exec]
<1>0. PICK i \in DOMAIN limits :
        /\ limits[i].state = "open"
        /\ \E e \in {Lot, limits[i].qty} :
             /\ limits' = [limits EXCEPT
                  ![i].exec = e,
                  ![i].state = IF e = limits[i].qty THEN "closed" ELSE "open"]
             /\ exch' = [exch EXCEPT
                  ![limits[i].slot] = exch[limits[i].slot] + e - limits[i].exec]
  BY DEF FillLimit
<1>1. PICK e \in {Lot, limits[i].qty} :
        /\ limits' = [limits EXCEPT
             ![i].exec = e,
             ![i].state = IF e = limits[i].qty THEN "closed" ELSE "open"]
        /\ exch' = [exch EXCEPT
             ![limits[i].slot] = exch[limits[i].slot] + e - limits[i].exec]
  BY <1>0
<1> DEFINE st == IF e = limits[i].qty THEN "closed" ELSE "open"
<1>2. limits[i] \in LimitOrders
  BY LenProperties, ElementOfSeq DEF TypeOK
<1>3. e \in Nat /\ st \in States
  BY <1>1, <1>2, LotAssumption DEF LimitOrders, States
<1>4. limits' = [limits EXCEPT ![i] = [limits[i] EXCEPT !.exec = e, !.state = st]]
  <2>1. limits \in [1..Len(limits) -> LimitOrders] /\ DOMAIN limits = 1..Len(limits)
    BY LenProperties DEF TypeOK
  <2> QED
    BY <1>1, <1>2, <2>1 DEF LimitOrders
<1> HIDE DEF st
<1>5. Becomes(i, [limits[i] EXCEPT !.exec = e, !.state = st])
  BY <1>2, <1>3, <1>4, OrderTypes, BecomesExcept
<1> QED
  BY <1>0, <1>1, <1>2, <1>3, <1>5

\* The end of an open order.
LEMMA EndLimitFacts ==
  ASSUME TypeOK, EndLimit
  PROVE  \E i \in DOMAIN limits :
           /\ limits[i] \in LimitOrders /\ limits[i].state = "open"
           /\ Becomes(i, [limits[i] EXCEPT !.state = "canceled"])
<1>1. PICK i \in DOMAIN limits :
        /\ limits[i].state = "open"
        /\ limits' = [limits EXCEPT ![i].state = "canceled"]
  BY DEF EndLimit
<1>2. limits[i] \in LimitOrders /\ "canceled" \in States
  BY LenProperties, ElementOfSeq DEF TypeOK, States
<1>3. limits' = [limits EXCEPT ![i] = [limits[i] EXCEPT !.state = "canceled"]]
  BY <1>1
<1>4. Becomes(i, [limits[i] EXCEPT !.state = "canceled"])
  BY <1>2, <1>3, OrderTypes, BecomesExcept
<1> QED
  BY <1>1, <1>2, <1>4

\* A death leaves every order as it is, and stray.
LEMMA DieFacts ==
  ASSUME TypeOK, Die
  PROVE  /\ limits' \in Seq(LimitOrders)
         /\ Len(limits') = Len(limits) /\ DOMAIN limits' = DOMAIN limits
         /\ \A i \in DOMAIN limits :
              /\ limits[i] \in LimitOrders
              /\ limits'[i] = [limits[i] EXCEPT !.stray = TRUE]
<1>1. limits \in Seq(LimitOrders) /\ DOMAIN limits = 1..Len(limits) /\ Len(limits) \in Nat
  BY LenProperties DEF TypeOK
<1>2. \A i \in DOMAIN limits : limits[i] \in LimitOrders
  BY <1>1, ElementOfSeq
<1>3. limits' = [i \in 1..Len(limits) |-> [limits[i] EXCEPT !.stray = TRUE]]
  BY <1>1 DEF Die
<1>4. \A i \in 1..Len(limits) : [limits[i] EXCEPT !.stray = TRUE] \in LimitOrders
  BY <1>1, <1>2 DEF LimitOrders
<1>5. limits' \in [1..Len(limits) -> LimitOrders]
  BY <1>3, <1>4
<1>6. limits' \in Seq(LimitOrders) /\ Len(limits') = Len(limits)
  BY <1>1, <1>3, <1>5
<1> QED
  BY <1>1, <1>2, <1>3, <1>6

\* The exchange accepts an order.
LEMMA AcceptFacts ==
  ASSUME TypeOK, AcceptLimit
  PROVE  \E o \in LimitOrders :
           /\ o = [slot |-> call.slot, qty |-> call.qty, state |-> "open",
                   exec |-> 0, logged |-> 0, stray |-> FALSE]
           /\ limits' \in Seq(LimitOrders)
           /\ Len(limits) \in Nat /\ Len(limits') = Len(limits) + 1
           /\ DOMAIN limits' = DOMAIN limits \cup {Len(limits')}
           /\ Len(limits') \notin DOMAIN limits
           /\ limits'[Len(limits')] = o
           /\ \A j \in DOMAIN limits : limits'[j] = limits[j]
<1> DEFINE o == [slot |-> call.slot, qty |-> call.qty, state |-> "open",
                 exec |-> 0, logged |-> 0, stray |-> FALSE]
<1>1. o \in LimitOrders
  BY CallFacts DEF AcceptLimit, Busy, LimitOrders, States
<1>2. limits' = Append(limits, o)
  BY DEF AcceptLimit
<1> HIDE DEF o
<1>3. limits \in Seq(LimitOrders) /\ DOMAIN limits = 1..Len(limits) /\ Len(limits) \in Nat
  BY LenProperties DEF TypeOK
<1>4. /\ limits' \in Seq(LimitOrders) /\ Len(limits') = Len(limits) + 1
      /\ \A i \in 1..Len(limits) : limits'[i] = limits[i]
      /\ limits'[Len(limits) + 1] = o
  BY <1>1, <1>2, <1>3, AppendProperties
<1>5. DOMAIN limits' = 1..Len(limits')
  BY <1>4, LenProperties
<1>6. /\ DOMAIN limits' = DOMAIN limits \cup {Len(limits')}
      /\ Len(limits') \notin DOMAIN limits
  BY <1>3, <1>4, <1>5
<1> QED
  BY <1>1, <1>3, <1>4, <1>6 DEF o

\* A fill of the book leaves a row, which the order counts as logged, or a row is
\* lost to a fault.
LEMMA FillEntryFacts ==
  ASSUME TypeOK, FillEntry
  PROVE  LET s == pass.at
             i == book[s].txid
             o == limits[i]
         IN /\ s \in Slots /\ Resting(s) /\ pass.exec \in Nat
            /\ book' = [book EXCEPT ![s] = NoEntry]
            /\ \/ /\ Becomes(i, [o EXCEPT !.logged = o.logged + pass.exec])
                  /\ log' = [log EXCEPT
                       ![s] = Recorded(log[s], "buy", book[s].price, pass.exec, FALSE)]
                  /\ UNCHANGED <<crossed, faults>>
               \/ /\ UNCHANGED <<log, limits>>
                  /\ crossed' = crossed \cup {s} /\ faults' = faults + 1
<1> DEFINE s == pass.at
           i == book[s].txid
           o == limits[i]
<1>1. s \in Slots /\ Resting(s) /\ pass.exec \in Nat
  BY DEF FillEntry, TypeOK, Passes
<1>2. i \in DOMAIN limits /\ o \in LimitOrders
  BY <1>1, EntryFacts
<1>3. o.logged + pass.exec \in Nat
  BY <1>1, <1>2 DEF LimitOrders
<1>4. ASSUME limits' = [limits EXCEPT ![i].logged = @ + pass.exec]
      PROVE  Becomes(i, [o EXCEPT !.logged = o.logged + pass.exec])
  <2>1. limits' = [limits EXCEPT ![i] = [o EXCEPT !.logged = o.logged + pass.exec]]
    BY <1>4
  <2>2. [o EXCEPT !.logged = o.logged + pass.exec] \in LimitOrders
    BY <1>2, <1>3 DEF LimitOrders
  <2> HIDE DEF o, i
  <2> QED
    BY <1>2, <2>1, <2>2, BecomesExcept
<1>5. /\ book' = [book EXCEPT ![s] = NoEntry]
      /\ \/ /\ log' = [log EXCEPT
                 ![s] = Recorded(log[s], "buy", book[s].price, pass.exec, FALSE)]
            /\ limits' = [limits EXCEPT ![i].logged = @ + pass.exec]
            /\ UNCHANGED <<crossed, faults>>
         \/ /\ Fault
            /\ crossed' = crossed \cup {s}
            /\ UNCHANGED <<log, limits>>
  BY DEF FillEntry
<1> HIDE DEF i, o, s
<1>6. \/ /\ Becomes(i, [o EXCEPT !.logged = o.logged + pass.exec])
         /\ log' = [log EXCEPT
              ![s] = Recorded(log[s], "buy", book[s].price, pass.exec, FALSE)]
         /\ UNCHANGED <<crossed, faults>>
      \/ /\ UNCHANGED <<log, limits>>
         /\ crossed' = crossed \cup {s} /\ faults' = faults + 1
  BY <1>4, <1>5 DEF Fault
<1> QED
  BY <1>1, <1>5, <1>6 DEF s, i, o

\* A cancelled order is final, or stray if the cancel failed.
LEMMA CancelledFacts ==
  ASSUME TypeOK, Cancelled
  PROVE  LET i == book[pass.at].txid
             o == limits[i]
         IN /\ pass.at \in Slots /\ Resting(pass.at)
            /\ \/ Becomes(i, [o EXCEPT !.state = "canceled"]) /\ o.state = "open"
               \/ UNCHANGED limits /\ o.state # "open"
               \/ Becomes(i, [o EXCEPT !.stray = TRUE])
            /\ faults' \in {faults, faults + 1}
<1> DEFINE i == book[pass.at].txid
           o == limits[i]
<1>1. pass.at \in Slots /\ Resting(pass.at)
  BY DEF Cancelled, TypeOK
<1>2. i \in DOMAIN limits /\ o \in LimitOrders /\ "canceled" \in States
  BY <1>1, EntryFacts DEF States
<1>3. \/ /\ o.state = "open"
         /\ limits' = [limits EXCEPT ![i].state = "canceled"]
         /\ UNCHANGED faults
      \/ /\ o.state # "open"
         /\ UNCHANGED <<limits, faults>>
      \/ /\ limits' = [limits EXCEPT ![i].stray = TRUE]
         /\ faults' = faults + 1
  BY DEF Cancelled, Fault
<1>4. CASE o.state = "open" /\ limits' = [limits EXCEPT ![i].state = "canceled"]
           /\ UNCHANGED faults
  <2>1. limits' = [limits EXCEPT ![i] = [o EXCEPT !.state = "canceled"]]
    BY <1>4
  <2>2. [o EXCEPT !.state = "canceled"] \in LimitOrders
    BY <1>2, OrderTypes
  <2> HIDE DEF o, i
  <2>3. Becomes(i, [o EXCEPT !.state = "canceled"])
    BY <1>2, <2>1, <2>2, BecomesExcept
  <2> QED
    BY <1>1, <1>4, <2>3 DEF i, o
<1>5. CASE o.state # "open" /\ UNCHANGED <<limits, faults>>
  BY <1>1, <1>5
<1>6. CASE limits' = [limits EXCEPT ![i].stray = TRUE] /\ faults' = faults + 1
  <2>1. limits' = [limits EXCEPT ![i] = [o EXCEPT !.stray = TRUE]]
    BY <1>6
  <2>2. [o EXCEPT !.stray = TRUE] \in LimitOrders
    BY <1>2 DEF LimitOrders
  <2> HIDE DEF o, i
  <2>3. Becomes(i, [o EXCEPT !.stray = TRUE])
    BY <1>2, <2>1, <2>2, BecomesExcept
  <2> QED
    BY <1>1, <1>6, <2>3 DEF i, o
<1> QED
  BY <1>3, <1>4, <1>5, <1>6

-----------------------------------------------------------------------------
(* Type correctness *)

\* The loop's half of the types.
LoopTypes ==
  /\ \/ /\ pc \in {"idle", "down"}
        /\ call = NoCall
     \/ /\ pc \in {"signalled", "balance", "sized", "posting", "posted",
                   "placed", "executed"}
        /\ call \in Calls
  /\ belief \in [Slots -> Beliefs(Prices)]
  /\ log \in [Slots -> Logs(Prices)]
  /\ exch \in [Slots -> Int] /\ orphan \in [Slots -> Int]
  /\ crossed \subseteq Slots
  /\ sent \in Nat /\ faults \in Nat

\* The half of the book, the reconciler and the exchange, with what keeps the
\* reconciler's keys those of resting entries.
BookTypes ==
  /\ book \in [Slots -> Entries \cup {NoEntry}]
  /\ limits \in Seq(LimitOrders)
  /\ \A s \in Slots : Resting(s) =>
       book[s].txid \in DOMAIN limits /\ limits[book[s].txid].slot = s
  /\ rpc \in {"asleep", "choosing", "asking", "answered", "cancelling"}
  /\ pass \in Passes
  /\ rpc \in {"asking", "answered", "cancelling"} =>
       pass.at \in Slots /\ Resting(pass.at) /\ pass.at \notin pass.todo
  /\ \A s \in pass.todo : Resting(s)
  /\ pc = "down" => rpc = "asleep" /\ \A s \in Slots : ~Resting(s)
  /\ pc = "posted" =>
       Len(limits) \in DOMAIN limits /\ limits[Len(limits)].slot = call.slot

TypeInv == LoopTypes /\ BookTypes

\* The two halves make the type invariant.
LEMMA TypesOK == TypeInv => TypeOK
  BY DEF TypeInv, LoopTypes, BookTypes, TypeOK

\* The types hold at the start.
LEMMA TypeInit == Init => TypeInv
<1> SUFFICES ASSUME Init PROVE TypeInv
  OBVIOUS
<1>1. Fresh \in Beliefs(Prices)
  BY DEF Beliefs, Fresh, NoSnapshot
<1>2. EmptyLog \in Logs(Prices) /\ <<>> \in Seq(LimitOrders)
  <2>1. <<>> \in Seq(Prices) /\ <<>> \in Seq(LimitOrders)
    OBVIOUS
  <2> QED
    BY <2>1 DEF EmptyLog, Logs
<1>3. LoopTypes
  BY <1>1, <1>2 DEF Init, LoopTypes
<1>4. BookTypes
  BY <1>2 DEF Init, BookTypes, Resting, NoPass, Passes
<1> QED
  BY <1>3, <1>4 DEF TypeInv

\* The ways a signal ends.
LEMMA SettleType ==
  ASSUME TypeOK, Busy, NEW b \in Beliefs(Prices), Settle(b)
  PROVE  /\ pc' = "idle" /\ call' = NoCall
         /\ belief' \in [Slots -> Beliefs(Prices)]
  BY CallFacts DEF Settle, TypeOK

\* A refused signal keeps the loop's types.
LEMMA RefuseType ==
  ASSUME TypeOK, Busy, Refuse
  PROVE  /\ pc' = "idle" /\ call' = NoCall
         /\ belief' \in [Slots -> Beliefs(Prices)]
         /\ UNCHANGED <<log, book, rpc, pass, limits, exch, orphan, crossed, sent,
                        faults>>
<1> DEFINE b == IF Resting(call.slot) THEN belief[call.slot]
                                      ELSE Rejected(belief[call.slot])
<1>1. belief[call.slot] \in Beliefs(Prices)
  BY CallFacts
<1>2. Rejected(belief[call.slot]) \in Beliefs(Prices)
  BY <1>1 DEF Beliefs, Rejected, NoSnapshot
<1>3. b \in Beliefs(Prices) /\ Settle(b)
  BY <1>1, <1>2 DEF Refuse
<1> HIDE DEF b
<1> QED
  BY <1>3, SettleType DEF Refuse, reconciler, exchange

\* So does a death.
LEMMA DieType ==
  ASSUME TypeOK, Die
  PROVE  /\ pc' = "down" /\ call' = NoCall
         /\ belief' \in [Slots -> Beliefs(Prices)]
  BY DEF Die, Beliefs, Fresh, NoSnapshot

\* Every step keeps the loop's types.
LEMMA LoopNext == TypeOK /\ [Next]_vars => LoopTypes'
<1> SUFFICES ASSUME TypeOK, [Next]_vars PROVE LoopTypes'
  OBVIOUS
<1> USE DEF LoopTypes, reconciler, exchange
<1>1. ASSUME NEW s \in Slots, Evaluate(s) PROVE LoopTypes'
  <2>1. PICK price \in Prices, side \in {"buy", "sell"} :
          /\ call' = [slot |-> s, side |-> side, price |-> price, qty |-> Quantity[s]]
          /\ \/ belief' = [belief EXCEPT
                             ![s] = Entered(belief[s], price, s \in Tracking)]
             \/ belief' = [belief EXCEPT ![s] = Exited(belief[s])]
    BY <1>1 DEF Evaluate
  <2>2. call' \in Calls
    BY <2>1, ConfigAssumption DEF Calls
  <2>3. belief' \in [Slots -> Beliefs(Prices)]
    <3>1. belief[s] \in Beliefs(Prices) /\ (s \in Tracking) \in BOOLEAN
      BY DEF TypeOK
    <3>2. /\ Entered(belief[s], price, s \in Tracking) \in Beliefs(Prices)
          /\ Exited(belief[s]) \in Beliefs(Prices)
      BY <3>1, BeliefTypes, Zenon
    <3> QED
      BY <2>1, <3>2 DEF TypeOK
  <2>4. /\ pc' = "signalled" /\ crossed' \subseteq Slots
        /\ UNCHANGED <<log, exch, orphan, sent, faults>>
    BY <1>1 DEF Evaluate, TypeOK
  <2> QED
    BY <2>2, <2>3, <2>4 DEF TypeOK
<1>2. CASE SkipUnhealthy
  <2>1. Rejected(belief[call.slot]) \in Beliefs(Prices) /\ Busy
    BY <1>2, CallFacts DEF SkipUnhealthy, Busy, Beliefs, Rejected, NoSnapshot
  <2> QED
    BY <1>2, <2>1, SettleType DEF SkipUnhealthy, TypeOK
<1>3. CASE SizeBuy
  <2> DEFINE qty == BuyQty(call.slot, call.price)
  <2>0. Busy /\ UNCHANGED <<log, exch, orphan, crossed, sent, faults>>
    BY <1>3 DEF SizeBuy, Busy
  <2>1. CASE Die
    BY <2>0, <2>1, DieType DEF TypeOK
  <2>2. CASE ~Die
    <3>1. pc' = "balance" /\ call' = [call EXCEPT !.qty = qty] /\ UNCHANGED belief
      BY <1>3, <2>2 DEF SizeBuy
    <3>2. call \in Calls /\ qty \in Nat
      BY <2>0, CallFacts, SizeAssumption
    <3> HIDE DEF qty
    <3>3. call' \in Calls
      BY <3>1, <3>2 DEF Calls
    <3> QED
      BY <2>0, <3>1, <3>3 DEF TypeOK
  <2> QED
    BY <2>1, <2>2
<1>4. CASE BalanceCovers
  BY <1>4 DEF BalanceCovers, TypeOK
<1>5. CASE BalanceRefuses \/ LossRefuses
  <2>1. Busy /\ Refuse
    BY <1>5 DEF BalanceRefuses, LossRefuses, Busy
  <2> QED
    BY <2>1, RefuseType DEF TypeOK
<1>6. CASE SizeSell
  <2> DEFINE qty == Sellable(log[call.slot])
  <2>0. Busy
    BY <1>6 DEF SizeSell, Busy
  <2>1. CASE Refuse
    BY <2>0, <2>1, RefuseType DEF TypeOK
  <2>2. CASE ~Refuse
    <3>1. /\ pc' = "sized" /\ call' = [call EXCEPT !.qty = qty]
          /\ UNCHANGED <<belief, log, exch, orphan, crossed, sent, faults>>
      BY <1>6, <2>2 DEF SizeSell
    <3>2. call \in Calls /\ qty \in Nat
      BY <2>0, CallFacts, FloorFacts DEF Logs, Sellable
    <3> HIDE DEF qty
    <3>3. call' \in Calls
      BY <3>1, <3>2 DEF Calls
    <3> QED
      BY <3>1, <3>3 DEF TypeOK
  <2> QED
    BY <2>1, <2>2
<1>7. CASE SendOrder
  <2>1. Weight[call.slot] \in Nat /\ call \in Calls
    BY <1>7, CallFacts, BoundAssumption DEF SendOrder, Busy
  <2> QED
    BY <1>7, <2>1 DEF SendOrder, TypeOK
<1>8. CASE AcceptLimit
  BY <1>8 DEF AcceptLimit, TypeOK
<1>9. CASE Rest
  <2>1. Busy /\ belief[call.slot] \in Beliefs(Prices)
    BY <1>9, CallFacts DEF Rest, Busy
  <2>2. Rejected(belief[call.slot]) \in Beliefs(Prices)
    BY <2>1 DEF Beliefs, Rejected, NoSnapshot
  <2>3. \E b \in Beliefs(Prices) : Settle(b)
    BY <1>9, <2>1, <2>2 DEF Rest
  <2> QED
    BY <1>9, <2>1, <2>3, SettleType DEF Rest, TypeOK
<1>10. CASE ExecuteMarket
  <2>1. exch[call.slot] + Effect(call) \in Int
    BY <1>10, CallFacts DEF ExecuteMarket, Busy, TypeOK
  <2> QED
    BY <1>10, <2>1 DEF ExecuteMarket, TypeOK
<1>11. CASE Record
  <2> DEFINE s == call.slot
             row == Recorded(log[s], call.side, call.price, call.qty, FALSE)
             b == IF Resting(s) THEN belief[s] ELSE Filled(belief[s])
  <2>1. Busy /\ log' = [log EXCEPT ![s] = row] /\ Settle(b)
        /\ UNCHANGED <<exch, orphan, crossed, sent, faults>>
    BY <1>11 DEF Record, Busy
  <2>2. row \in Logs(Prices)
    BY <2>1, CallFacts, LogTypes, PriceAssumption, Zenon
  <2>3. b \in Beliefs(Prices)
    <3>1. belief[s] \in Beliefs(Prices)
      BY <2>1, CallFacts
    <3> QED
      BY <3>1 DEF Beliefs, Filled, NoSnapshot
  <2> HIDE DEF row, b
  <2> QED
    BY <2>1, <2>2, <2>3, SettleType DEF TypeOK
<1>12. CASE OrderFails
  <2>1. Busy /\ Die /\ faults' = faults + 1
        /\ UNCHANGED <<log, exch, crossed, sent>>
    BY <1>12 DEF OrderFails, Busy, Fault
  <2>2. orphan' \in [Slots -> Int]
    <3>1. orphan[call.slot] + Effect(call) \in Int /\ orphan \in [Slots -> Int]
      BY <2>1, CallFacts DEF TypeOK
    <3> QED
      BY <1>12, <3>1 DEF OrderFails
  <2> QED
    BY <2>1, <2>2, DieType DEF TypeOK
<1>13. CASE Crash
  <2>1. Die /\ faults' = faults + 1 /\ UNCHANGED <<log, exch, orphan, crossed, sent>>
    BY <1>13 DEF Crash, Fault
  <2> QED
    BY <2>1, DieType DEF TypeOK
<1>14. CASE Restart
  <2>1. ASSUME NEW s \in Slots
        PROVE  Restored(log[s].last, log[s].price, s \in Tracking) \in Beliefs(Prices)
    <3>1. log[s] \in Logs(Prices) /\ (s \in Tracking) \in BOOLEAN
      BY DEF TypeOK
    <3> QED
      BY <3>1, RestoredType, Zenon
  <2>2. belief' \in [Slots -> Beliefs(Prices)]
    BY <1>14, <2>1 DEF Restart
  <2> QED
    BY <1>14, <2>2 DEF Restart, TypeOK
<1>15. CASE FillLimit
  <2>1. PICK i \in DOMAIN limits, e \in Nat :
          /\ limits[i] \in LimitOrders
          /\ exch' = [exch EXCEPT
               ![limits[i].slot] = exch[limits[i].slot] + e - limits[i].exec]
    BY <1>15, FillLimitFacts
  <2>2. exch[limits[i].slot] + e - limits[i].exec \in Int
    BY <2>1 DEF TypeOK, LimitOrders
  <2>3. exch' \in [Slots -> Int]
    BY <2>1, <2>2 DEF TypeOK
  <2> QED
    BY <1>15, <2>3 DEF FillLimit, TypeOK
<1>16. CASE FillEntry
  <2> DEFINE s == pass.at
             row == Recorded(log[s], "buy", book[s].price, pass.exec, FALSE)
  <2>1. /\ s \in Slots /\ Resting(s) /\ pass.exec \in Nat
        /\ \/ log' = [log EXCEPT ![s] = row] /\ UNCHANGED <<crossed, faults>>
           \/ UNCHANGED log /\ crossed' = crossed \cup {s} /\ faults' = faults + 1
    BY <1>16, FillEntryFacts
  <2>2. row \in Logs(Prices)
    <3>1. book[s].price \in Prices /\ log[s] \in Logs(Prices)
      BY <2>1, EntryFacts DEF TypeOK
    <3> QED
      BY <2>1, <3>1, LogTypes, PriceAssumption, Zenon
  <2> HIDE DEF row
  <2>3. log' \in [Slots -> Logs(Prices)] /\ crossed' \subseteq Slots /\ faults' \in Nat
    <3>1. log \in [Slots -> Logs(Prices)] /\ crossed \subseteq Slots /\ faults \in Nat
      BY DEF TypeOK
    <3>2. log' \in [Slots -> Logs(Prices)]
      BY <2>1, <2>2, <3>1
    <3> QED
      BY <2>1, <3>1, <3>2
  <2> QED
    BY <1>16, <2>3 DEF FillEntry, TypeOK
<1>17. CASE NothingExecuted \/ Cancelled
  <2>1. pass.at \in Slots /\ NoFill /\ faults' \in {faults, faults + 1}
        /\ UNCHANGED <<pc, call, log, exch, orphan, crossed, sent>>
    BY <1>17 DEF NothingExecuted, Cancelled, TypeOK, Fault
  <2>2. Rejected(belief[pass.at]) \in Beliefs(Prices)
    <3>1. belief[pass.at] \in Beliefs(Prices)
      BY <2>1 DEF TypeOK
    <3> QED
      BY <3>1 DEF Beliefs, Rejected, NoSnapshot
  <2>3. belief' \in [Slots -> Beliefs(Prices)]
    BY <2>1, <2>2 DEF NoFill, TypeOK
  <2> QED
    BY <2>1, <2>3 DEF TypeOK
<1>18. CASE QueryFails
  BY <1>18 DEF QueryFails, Fault, TypeOK
<1>19. CASE EndLimit \/ StartPass \/ Answer \/ StillWorking
            \/ \E s \in Slots : Ask(s) \/ Wait(s)
  BY <1>19 DEF EndLimit, StartPass, Answer, StillWorking, Ask, Wait, TypeOK
<1>20. CASE QuietTick \/ UNCHANGED vars
  BY <1>20 DEF QuietTick, vars, TypeOK
<1> QED
  BY <1>1, <1>2, <1>3, <1>4, <1>5, <1>6, <1>7, <1>8, <1>9, <1>10, <1>11, <1>12,
     <1>13, <1>14, <1>15, <1>16, <1>17, <1>18, <1>19, <1>20
     DEF Next, Handle, Reconcile

\* A step that leaves the book and the exchange alone and does not kill the bot.
LEMMA BookFrame ==
  ASSUME BookTypes, UNCHANGED <<book, rpc, pass, limits>>,
         pc' = "down" => pc = "down",
         pc' = "posted" => pc = "posted" /\ UNCHANGED call
  PROVE  BookTypes'
  BY DEF BookTypes, Resting

\* The exchange has the orders that it had.
SameOrders ==
  /\ limits' \in Seq(LimitOrders)
  /\ Len(limits') = Len(limits) /\ DOMAIN limits' = DOMAIN limits
  /\ \A i \in DOMAIN limits : limits'[i].slot = limits[i].slot

\* A step that leaves the orders alone.
LEMMA SameOrdersFrame ==
  ASSUME BookTypes, UNCHANGED <<book, rpc, pass, pc, call>>, SameOrders
  PROVE  BookTypes'
  BY DEF BookTypes, Resting, SameOrders

\* What it leaves to the entries and to the post.
LEMMA SameOrdersFacts ==
  ASSUME TypeOK, [Next]_vars, UNCHANGED limits \/ FillLimit \/ EndLimit
                                \/ FillEntry \/ Cancelled
  PROVE  SameOrders
<1>1. limits \in Seq(LimitOrders)
  BY DEF TypeOK
<1>2. CASE UNCHANGED limits
  BY <1>1, <1>2 DEF SameOrders
<1>3. ASSUME NEW i \in DOMAIN limits, NEW o \in LimitOrders, Becomes(i, o),
             o.slot = limits[i].slot
      PROVE  SameOrders
  BY <1>3 DEF Becomes, SameOrders
<1>4. \A i \in DOMAIN limits : limits[i] \in LimitOrders
  BY <1>1, LenProperties, ElementOfSeq
<1>5. CASE FillLimit
  <2>1. PICK i \in DOMAIN limits, e \in Nat, st \in States :
          Becomes(i, [limits[i] EXCEPT !.exec = e, !.state = st])
    BY <1>5, FillLimitFacts
  <2>2. [limits[i] EXCEPT !.exec = e, !.state = st] \in LimitOrders
        /\ [limits[i] EXCEPT !.exec = e, !.state = st].slot = limits[i].slot
    BY <1>4, OrderTypes DEF LimitOrders
  <2> QED
    BY <1>3, <2>1, <2>2
<1>6. CASE EndLimit
  <2>1. PICK i \in DOMAIN limits :
          Becomes(i, [limits[i] EXCEPT !.state = "canceled"])
    BY <1>6, EndLimitFacts
  <2>2. [limits[i] EXCEPT !.state = "canceled"] \in LimitOrders
        /\ [limits[i] EXCEPT !.state = "canceled"].slot = limits[i].slot
    BY <1>4 DEF LimitOrders, States
  <2> QED
    BY <1>3, <2>1, <2>2
<1>7. CASE FillEntry
  <2> DEFINE i == book[pass.at].txid
             o == limits[i]
  <2>1. /\ pass.at \in Slots /\ Resting(pass.at) /\ pass.exec \in Nat
        /\ \/ UNCHANGED limits
           \/ Becomes(i, [o EXCEPT !.logged = o.logged + pass.exec])
    BY <1>7, FillEntryFacts
  <2>2. i \in DOMAIN limits /\ o \in LimitOrders
    BY <2>1, EntryFacts
  <2>3. [o EXCEPT !.logged = o.logged + pass.exec] \in LimitOrders
        /\ [o EXCEPT !.logged = o.logged + pass.exec].slot = o.slot
    BY <2>1, <2>2 DEF LimitOrders
  <2> HIDE DEF i
  <2> QED
    BY <1>2, <1>3, <2>1, <2>2, <2>3
<1>8. CASE Cancelled
  <2> DEFINE i == book[pass.at].txid
             o == limits[i]
  <2>1. /\ pass.at \in Slots /\ Resting(pass.at)
        /\ \/ UNCHANGED limits
           \/ Becomes(i, [o EXCEPT !.state = "canceled"])
           \/ Becomes(i, [o EXCEPT !.stray = TRUE])
    BY <1>8, CancelledFacts
  <2>2. i \in DOMAIN limits /\ o \in LimitOrders
    BY <2>1, EntryFacts
  <2>3. /\ [o EXCEPT !.state = "canceled"] \in LimitOrders
        /\ [o EXCEPT !.state = "canceled"].slot = o.slot
        /\ [o EXCEPT !.stray = TRUE] \in LimitOrders
        /\ [o EXCEPT !.stray = TRUE].slot = o.slot
    BY <2>2 DEF LimitOrders, States
  <2> HIDE DEF i
  <2> QED
    BY <1>2, <1>3, <2>1, <2>2, <2>3
<1> QED
  BY <1>2, <1>5, <1>6, <1>7, <1>8

\* After a death nothing rests and no pass is under way.
LEMMA DieBook ==
  ASSUME TypeOK, Die
  PROVE  BookTypes'
<1>1. limits' \in Seq(LimitOrders)
  BY DieFacts
<1> QED
  BY <1>1 DEF Die, BookTypes, Resting, NoPass, Passes

\* The reconciler goes on to its next key, when the entry of this one is left
\* alone or gone.
LEMMA NextKeyBook ==
  ASSUME BookTypes, rpc \in {"asking", "answered", "cancelling"}, NextKey,
         \/ UNCHANGED book
         \/ book' = [book EXCEPT ![pass.at] = NoEntry],
         SameOrders, UNCHANGED <<pc, call>>
  PROVE  BookTypes'
<1>1. /\ rpc' \in {"asleep", "choosing"} /\ pass' \in Passes
      /\ pass'.todo = pass.todo
  <2>1. pass \in Passes
    BY DEF BookTypes
  <2> QED
    BY <2>1 DEF NextKey, NoPass, Passes
<1>2. \A s \in Slots :
        \/ book'[s] = book[s]
        \/ book'[s] = NoEntry /\ s = pass.at
  BY DEF BookTypes
<1>3. book' \in [Slots -> Entries \cup {NoEntry}]
  BY DEF BookTypes
<1>4. \A s \in pass'.todo : s \in Slots /\ book'[s] # NoEntry
  <2>1. pass.todo \subseteq Slots /\ pass.at \notin pass.todo
    BY DEF BookTypes, Passes
  <2> QED
    BY <1>1, <1>2, <2>1 DEF BookTypes, Resting
<1>5. pc' # "down"
  BY DEF BookTypes
<1> QED
  BY <1>1, <1>2, <1>3, <1>4, <1>5 DEF BookTypes, Resting, SameOrders

\* Every step keeps the types of the book.
LEMMA BookNext == TypeInv /\ [Next]_vars => BookTypes'
<1> SUFFICES ASSUME TypeInv, [Next]_vars PROVE BookTypes'
  OBVIOUS
<1>0. BookTypes /\ TypeOK
  BY TypesOK DEF TypeInv
<1> USE DEF reconciler, exchange
<1>1. ASSUME NEW s \in Slots, Evaluate(s) PROVE BookTypes'
  BY <1>0, <1>1, BookFrame DEF Evaluate
<1>2. CASE SkipUnhealthy
  BY <1>0, <1>2, BookFrame DEF SkipUnhealthy, Settle
<1>3. CASE SizeBuy
  <2>1. CASE Die
    BY <1>0, <2>1, DieBook
  <2>2. CASE ~Die
    BY <1>0, <1>3, <2>2, BookFrame DEF SizeBuy
  <2> QED
    BY <2>1, <2>2
<1>4. CASE BalanceCovers \/ ExecuteMarket \/ SendOrder
  BY <1>0, <1>4, BookFrame DEF BalanceCovers, ExecuteMarket, SendOrder
<1>5. CASE BalanceRefuses \/ LossRefuses
  BY <1>0, <1>5, BookFrame DEF BalanceRefuses, LossRefuses, Refuse, Settle
<1>6. CASE SizeSell
  BY <1>0, <1>6, BookFrame DEF SizeSell, Refuse, Settle
<1>7. CASE AcceptLimit
  <2>1. /\ limits' \in Seq(LimitOrders)
        /\ DOMAIN limits' = DOMAIN limits \cup {Len(limits')}
        /\ limits'[Len(limits')].slot = call.slot
        /\ \A j \in DOMAIN limits : limits'[j] = limits[j]
    <3>1. PICK o \in LimitOrders :
            /\ o = [slot |-> call.slot, qty |-> call.qty, state |-> "open",
                    exec |-> 0, logged |-> 0, stray |-> FALSE]
            /\ limits' \in Seq(LimitOrders)
            /\ DOMAIN limits' = DOMAIN limits \cup {Len(limits')}
            /\ limits'[Len(limits')] = o
            /\ \A j \in DOMAIN limits : limits'[j] = limits[j]
      BY <1>0, <1>7, AcceptFacts
    <3>2. o.slot = call.slot
      BY <3>1
    <3> QED
      BY <3>1, <3>2
  <2>2. /\ UNCHANGED <<book, rpc, pass, call>> /\ pc' = "posted" /\ pc = "posting"
    BY <1>7 DEF AcceptLimit
  <2> QED
    BY <1>0, <2>1, <2>2 DEF BookTypes, Resting
<1>8. CASE Rest
  <2> DEFINE s == call.slot
  <2>0. Busy /\ s \in Slots /\ call.price \in Prices
    BY <1>0, <1>8, CallFacts DEF Rest, Busy
  <2>1. CASE Resting(s)
    BY <1>0, <1>8, <2>1, BookFrame DEF Rest, Settle
  <2>2. CASE ~Resting(s)
    <3> DEFINE entry == [txid |-> Len(limits), price |-> call.price, due |-> FALSE]
    <3>1. /\ book' = [book EXCEPT ![s] = entry] /\ pc = "posted" /\ pc' = "idle"
          /\ UNCHANGED <<rpc, pass, limits>>
      BY <1>8, <2>2 DEF Rest, Settle
    <3>2. /\ limits \in Seq(LimitOrders) /\ Len(limits) \in Nat
          /\ Len(limits) \in DOMAIN limits /\ limits[Len(limits)].slot = s
      BY <1>0, <3>1, LenProperties DEF BookTypes
    <3>3. entry \in Entries /\ entry # NoEntry
      <4>1. entry \in Entries
        BY <2>0, <3>2 DEF Entries
      <4> QED
        BY <4>1, NoEntryAssumption
    <3>4. /\ book' \in [Slots -> Entries \cup {NoEntry}]
          /\ \A r \in Slots : book'[r] = IF r = s THEN entry ELSE book[r]
      BY <1>0, <3>1, <3>3 DEF BookTypes
    <3>5. entry.txid = Len(limits)
      OBVIOUS
    <3> HIDE DEF entry, s
    <3>6. \A r \in Slots : Resting(r) => book'[r] # NoEntry
      BY <3>3, <3>4 DEF Resting
    <3>7. \A r \in pass.todo : r \in Slots
      BY <1>0 DEF BookTypes, Passes
    <3>8. pc' # "down" /\ pc' # "posted"
      BY <3>1
    <3> QED
      BY <1>0, <3>1, <3>2, <3>4, <3>5, <3>6, <3>7, <3>8 DEF BookTypes, Resting
  <2> QED
    BY <2>1, <2>2
<1>9. CASE Record
  BY <1>0, <1>9, BookFrame DEF Record, Settle
<1>10. CASE OrderFails \/ Crash
  BY <1>0, <1>10, DieBook DEF OrderFails, Crash
<1>11. CASE Restart
  BY <1>0, <1>11, BookFrame DEF Restart
<1>12. CASE FillLimit
  BY <1>0, <1>12, SameOrdersFacts, SameOrdersFrame DEF FillLimit
<1>13. CASE EndLimit
  BY <1>0, <1>13, SameOrdersFacts, SameOrdersFrame DEF EndLimit
<1>14. ASSUME NEW s \in Slots, Wait(s) PROVE BookTypes'
  <2>1. /\ Resting(s) /\ book' = [book EXCEPT ![s].due = TRUE]
        /\ UNCHANGED <<pc, call, rpc, pass, limits>>
    BY <1>14 DEF Wait
  <2>2. book[s] \in Entries
    BY <1>0, <2>1, EntryFacts
  <2> DEFINE entry == [book[s] EXCEPT !.due = TRUE]
  <2>3. entry \in Entries /\ entry # NoEntry /\ entry.txid = book[s].txid
    BY <2>2, NoEntryAssumption DEF Entries
  <2>4. book' = [book EXCEPT ![s] = entry]
    BY <2>1
  <2> HIDE DEF entry
  <2>5. /\ book' \in [Slots -> Entries \cup {NoEntry}]
        /\ \A r \in Slots : book'[r] = IF r = s THEN entry ELSE book[r]
    BY <1>0, <2>3, <2>4 DEF BookTypes
  <2>6. \A r \in Slots : /\ book'[r] # NoEntry <=> book[r] # NoEntry
                         /\ book[r] # NoEntry => book'[r].txid = book[r].txid
    BY <2>1, <2>3, <2>5 DEF Resting
  <2>7. \A r \in pass.todo : r \in Slots
    BY <1>0 DEF BookTypes, Passes
  <2> QED
    BY <1>0, <2>1, <2>5, <2>6, <2>7 DEF BookTypes, Resting
<1>15. CASE StartPass
  <2>1. /\ rpc' = "choosing" /\ pc # "down" /\ UNCHANGED <<pc, call, book, limits>>
        /\ pass' = [NoPass EXCEPT !.todo = {s \in Slots : Resting(s)},
                                  !.due = {s \in Slots : Resting(s) /\ book[s].due}]
    BY <1>15 DEF StartPass
  <2>2. pass' \in Passes /\ pass'.todo = {s \in Slots : Resting(s)}
    BY <2>1 DEF Passes, NoPass
  <2> QED
    BY <1>0, <2>1, <2>2 DEF BookTypes, Resting
<1>16. ASSUME NEW s \in Slots, Ask(s) PROVE BookTypes'
  <2>1. /\ s \in pass.todo /\ rpc' = "asking" /\ rpc = "choosing"
        /\ pass' = [pass EXCEPT !.todo = pass.todo \ {s}, !.at = s]
        /\ UNCHANGED <<pc, call, book, limits>>
    BY <1>16 DEF Ask
  <2>2. pass' \in Passes /\ pass'.todo = pass.todo \ {s} /\ pass'.at = s
    BY <1>0, <2>1 DEF BookTypes, Passes
  <2> QED
    BY <1>0, <2>1, <2>2 DEF BookTypes, Resting
<1>17. CASE Answer
  <2> DEFINE order == limits[book[pass.at].txid]
  <2>1. /\ rpc = "asking" /\ rpc' = "answered"
        /\ pass' = [pass EXCEPT !.state = order.state, !.exec = order.exec]
        /\ UNCHANGED <<pc, call, book, limits>>
    BY <1>17 DEF Answer
  <2>2. order \in LimitOrders
    BY <1>0, <2>1, EntryFacts DEF BookTypes
  <2> HIDE DEF order
  <2>3. pass' \in Passes /\ pass'.todo = pass.todo /\ pass'.at = pass.at
    BY <1>0, <2>1, <2>2 DEF BookTypes, Passes, LimitOrders
  <2> QED
    BY <1>0, <2>1, <2>3 DEF BookTypes, Resting
<1>18. CASE QueryFails
  <2>1. SameOrders
    BY <1>0, <1>18, SameOrdersFacts DEF QueryFails
  <2> QED
    BY <1>0, <1>18, <2>1, NextKeyBook DEF QueryFails
<1>19. CASE FillEntry
  <2>1. SameOrders
    BY <1>0, <1>19, SameOrdersFacts
  <2> QED
    BY <1>0, <1>19, <2>1, NextKeyBook DEF FillEntry
<1>20. CASE NothingExecuted
  <2>1. SameOrders
    BY <1>0, <1>20, SameOrdersFacts DEF NothingExecuted
  <2> QED
    BY <1>0, <1>20, <2>1, NextKeyBook DEF NothingExecuted, NoFill
<1>21. CASE Cancelled
  <2>1. SameOrders
    BY <1>0, <1>21, SameOrdersFacts
  <2> QED
    BY <1>0, <1>21, <2>1, NextKeyBook DEF Cancelled, NoFill
<1>22. CASE StillWorking
  <2>1. SameOrders
    BY <1>0, <1>22, SameOrdersFacts DEF StillWorking
  <2>2. CASE NextKey
    BY <1>0, <1>22, <2>1, <2>2, NextKeyBook DEF StillWorking
  <2>3. CASE rpc' = "cancelling" /\ UNCHANGED pass
    BY <1>0, <1>22, <2>3 DEF StillWorking, BookTypes, Resting
  <2> QED
    BY <1>22, <2>2, <2>3 DEF StillWorking
<1>23. CASE QuietTick \/ UNCHANGED vars
  BY <1>0, <1>23, BookFrame DEF QuietTick, vars
<1> QED
  BY <1>1, <1>2, <1>3, <1>4, <1>5, <1>6, <1>7, <1>8, <1>9, <1>10, <1>11, <1>12,
     <1>13, <1>14, <1>15, <1>16, <1>17, <1>18, <1>19, <1>20, <1>21, <1>22, <1>23
     DEF Next, Handle, Reconcile

\* The types, with what they rest on, always hold.
LEMMA TypeInvariant == Spec => []TypeInv
<1>1. TypeInv /\ [Next]_vars => TypeInv'
  BY LoopNext, BookNext, TypesOK DEF TypeInv
<1> QED
  BY <1>1, TypeInit, PTL DEF Spec

\* Every variable keeps its type, and the reconciler asks only about an entry that
\* rests, although the book changes while it awaits.
THEOREM TypeCorrect == Spec => []TypeOK
<1> QED
  BY TypeInvariant, TypesOK, PTL

-----------------------------------------------------------------------------
(* Orders, entries and answers *)

\* An entry that rests, or whose txid is on its way, has no row; what the
\* reconciler knows of a final order is still true when it handles the answer;
\* and the loop posts only where nothing rests.
OrderInv ==
  /\ \A s \in Slots : Resting(s) => limits[book[s].txid].logged = 0
  /\ rpc = "answered" /\ pass.state # "open" =>
       /\ pass.state = limits[book[pass.at].txid].state
       /\ pass.exec = limits[book[pass.at].txid].exec
  /\ pc \in {"posting", "posted"} => call.side = "buy" /\ ~Resting(call.slot)
  /\ pc = "posted" => limits[Len(limits)].logged = 0
  /\ LoggedIsExecuted
  /\ NoStrayOrder

\* There are no orders at the start.
LEMMA OrderInit == Init => OrderInv
  BY DEF Init, OrderInv, Resting, LoggedIsExecuted, NoStrayOrder

\* A step of the loop that sends no limit order.
LEMMA OrderFrame ==
  ASSUME OrderInv, UNCHANGED <<book, limits, rpc, pass>>,
         \/ pc # "posted" /\ pc' \notin {"posting", "posted"}
         \/ UNCHANGED <<pc, call>>
  PROVE  OrderInv'
  BY DEF OrderInv, Resting, LoggedIsExecuted, NoStrayOrder, Known

\* A step of the reconciler that takes no answer.
LEMMA PassFrame ==
  ASSUME OrderInv, UNCHANGED <<book, limits, pc, call>>, rpc' # "answered"
  PROVE  OrderInv'
  BY DEF OrderInv, Resting, LoggedIsExecuted, NoStrayOrder, Known

\* An open order executes or ends.
LEMMA OpenOrderMoves ==
  ASSUME TypeInv, OrderInv, NEW i \in DOMAIN limits, NEW o \in LimitOrders,
         Becomes(i, o), limits[i].state = "open", limits[i] \in LimitOrders,
         o.slot = limits[i].slot, o.logged = limits[i].logged,
         o.stray = limits[i].stray,
         UNCHANGED <<book, pc, call, rpc, pass>>
  PROVE  OrderInv'
<1>1. o.logged = 0
  BY DEF OrderInv, LoggedIsExecuted
<1>2. /\ DOMAIN limits' = DOMAIN limits /\ Len(limits') = Len(limits)
      /\ limits'[i] = o
      /\ \A j \in DOMAIN limits : j # i => limits'[j] = limits[j]
  BY DEF Becomes
<1>3. \A s \in Slots : Resting(s) =>
        book[s].txid \in DOMAIN limits /\ limits[book[s].txid].slot = s
  BY DEF TypeInv, BookTypes
<1>4. \A s \in Slots : Resting(s) => limits'[book[s].txid].logged = 0
  BY <1>1, <1>2, <1>3 DEF OrderInv
<1>5. rpc = "answered" /\ pass.state # "open" =>
        /\ pass.state = limits'[book[pass.at].txid].state
        /\ pass.exec = limits'[book[pass.at].txid].exec
  <2> SUFFICES ASSUME rpc = "answered", pass.state # "open"
               PROVE  /\ pass.state = limits'[book[pass.at].txid].state
                      /\ pass.exec = limits'[book[pass.at].txid].exec
    OBVIOUS
  <2>1. pass.at \in Slots /\ Resting(pass.at)
    BY DEF TypeInv, BookTypes
  <2>2. book[pass.at].txid \in DOMAIN limits /\ book[pass.at].txid # i
    BY <1>3, <2>1 DEF OrderInv
  <2> QED
    BY <1>2, <2>2 DEF OrderInv
<1>6. pc = "posted" => limits'[Len(limits')].logged = 0
  <2>1. pc = "posted" => Len(limits) \in DOMAIN limits
    BY DEF TypeInv, BookTypes
  <2> QED
    BY <1>1, <1>2, <2>1 DEF OrderInv
<1>7. LoggedIsExecuted'
  BY <1>1, <1>2 DEF OrderInv, LoggedIsExecuted
<1>8. NoStrayOrder'
  <2> SUFFICES ASSUME NEW j \in DOMAIN limits, limits'[j].state = "open",
                      ~limits'[j].stray
               PROVE  Known(j)'
    BY <1>2 DEF NoStrayOrder
  <2>1. limits[j].state = "open" /\ ~limits[j].stray
        /\ limits'[j].slot = limits[j].slot
    BY <1>2
  <2>2. Known(j)
    BY <2>1 DEF OrderInv, NoStrayOrder
  <2> QED
    BY <1>2, <2>1, <2>2 DEF Known, Resting
<1> QED
  BY <1>4, <1>5, <1>6, <1>7, <1>8 DEF OrderInv, Resting

\* The entry that the reconciler is at is dropped: its order is final or stray,
\* and counts as logged what it executed or nothing.
LEMMA EntryDropped ==
  ASSUME TypeInv, OrderInv, NEW s \in Slots, Resting(s),
         book' = [book EXCEPT ![s] = NoEntry],
         NEW i, i = book[s].txid,
         NEW o \in LimitOrders, o.slot = limits[i].slot,
         Becomes(i, o),
         o.state # "open" \/ o.stray,
         o.logged # 0 => o.logged = o.exec /\ o.state # "open",
         rpc' # "answered", UNCHANGED <<pc, call>>
  PROVE  OrderInv'
<1>1. /\ DOMAIN limits' = DOMAIN limits /\ Len(limits') = Len(limits)
      /\ limits'[i] = o
      /\ \A j \in DOMAIN limits : j # i => limits'[j] = limits[j]
  BY DEF Becomes
<1>2. \A r \in Slots : Resting(r) =>
        book[r].txid \in DOMAIN limits /\ limits[book[r].txid].slot = r
  BY DEF TypeInv, BookTypes
<1>3. \A r \in Slots : book'[r] = IF r = s THEN NoEntry ELSE book[r]
  BY DEF TypeInv, BookTypes
<1>4. \A r \in Slots : r # s /\ Resting(r) => book[r].txid # i
  BY <1>2
<1>5. \A r \in Slots : Resting(r)' => limits'[book'[r].txid].logged = 0
  BY <1>1, <1>2, <1>3, <1>4 DEF OrderInv, Resting
<1>6. pc' \in {"posting", "posted"} => call'.side = "buy" /\ ~Resting(call.slot)'
  <2>1. pc \in {"posting", "posted"} => call.slot \in Slots
    BY TypesOK, CallFacts DEF Busy
  <2> QED
    BY <1>3, <2>1 DEF OrderInv, Resting
<1>7. pc' = "posted" => limits'[Len(limits')].logged = 0
  <2> SUFFICES ASSUME pc = "posted" PROVE limits'[Len(limits')].logged = 0
    OBVIOUS
  <2>1. /\ Len(limits) \in DOMAIN limits /\ limits[Len(limits)].slot = call.slot
        /\ limits[Len(limits)].logged = 0 /\ ~Resting(call.slot)
    BY DEF TypeInv, BookTypes, OrderInv
  <2>2. Len(limits) # i
    BY <1>2, <2>1
  <2> QED
    BY <1>1, <2>1, <2>2
<1>8. LoggedIsExecuted'
  BY <1>1 DEF OrderInv, LoggedIsExecuted
<1>9. NoStrayOrder'
  <2> SUFFICES ASSUME NEW j \in DOMAIN limits, limits'[j].state = "open",
                      ~limits'[j].stray
               PROVE  Known(j)'
    BY <1>1 DEF NoStrayOrder
  <2>1. j # i /\ limits'[j] = limits[j]
    BY <1>1
  <2>2. Known(j)
    BY <2>1 DEF OrderInv, NoStrayOrder
  <2>3. CASE pc = "posted" /\ call.slot = limits[j].slot /\ j = Len(limits)
    BY <1>1, <2>1, <2>3 DEF Known
  <2>4. CASE Resting(limits[j].slot) /\ book[limits[j].slot].txid = j
    <3>1. limits[j].slot \in Slots
      <4>1. limits[j] \in LimitOrders
        BY LenProperties, ElementOfSeq DEF TypeInv, BookTypes
      <4> QED
        BY <4>1 DEF LimitOrders
    <3>2. limits[j].slot # s
      BY <2>1, <2>4
    <3>3. book'[limits[j].slot] = book[limits[j].slot]
      BY <1>3, <3>1, <3>2
    <3> QED
      BY <2>1, <2>4, <3>3 DEF Known, Resting
  <2> QED
    BY <2>2, <2>3, <2>4 DEF Known
<1> QED
  BY <1>5, <1>6, <1>7, <1>8, <1>9 DEF OrderInv

\* A death: every order is stray, and nothing rests or is posted.
LEMMA DieOrders ==
  ASSUME TypeInv, OrderInv, Die
  PROVE  OrderInv'
<1>1. /\ DOMAIN limits' = DOMAIN limits
      /\ \A i \in DOMAIN limits :
           /\ limits[i] \in LimitOrders
           /\ limits'[i] = [limits[i] EXCEPT !.stray = TRUE]
  BY TypesOK, DieFacts
<1>2. \A i \in DOMAIN limits :
        /\ limits'[i].stray /\ limits'[i].logged = limits[i].logged
        /\ limits'[i].exec = limits[i].exec /\ limits'[i].state = limits[i].state
  BY <1>1 DEF LimitOrders
<1>3. LoggedIsExecuted' /\ NoStrayOrder'
  BY <1>1, <1>2 DEF OrderInv, LoggedIsExecuted, NoStrayOrder
<1>4. pc' = "down" /\ rpc' = "asleep" /\ \A s \in Slots : book'[s] = NoEntry
  BY DEF Die
<1> QED
  BY <1>3, <1>4 DEF OrderInv, Resting

\* An order that changes to itself.
LEMMA BecomesSame ==
  ASSUME TypeOK, UNCHANGED limits, NEW i \in DOMAIN limits
  PROVE  Becomes(i, limits[i])
  BY DEF Becomes, TypeOK

\* Every step keeps orders, entries and answers in step.
LEMMA OrderNext == TypeInv /\ OrderInv /\ [Next]_vars => OrderInv'
<1> SUFFICES ASSUME TypeInv, OrderInv, [Next]_vars PROVE OrderInv'
  OBVIOUS
<1>0. TypeOK /\ \A i \in DOMAIN limits : limits[i] \in LimitOrders
  <2>1. TypeOK
    BY TypesOK
  <2> QED
    BY <2>1, LenProperties, ElementOfSeq DEF TypeOK
<1> USE DEF reconciler, exchange
<1>1. ASSUME NEW s \in Slots, Evaluate(s) PROVE OrderInv'
  BY <1>1, OrderFrame DEF Evaluate
<1>2. CASE SkipUnhealthy
  BY <1>2, OrderFrame DEF SkipUnhealthy, Settle
<1>3. CASE SizeBuy
  <2>1. CASE Die
    BY <2>1, DieOrders
  <2>2. CASE ~Die
    BY <1>3, <2>2, OrderFrame DEF SizeBuy
  <2> QED
    BY <2>1, <2>2
<1>4. CASE BalanceCovers \/ ExecuteMarket
  BY <1>4, OrderFrame DEF BalanceCovers, ExecuteMarket
<1>5. CASE BalanceRefuses \/ LossRefuses
  BY <1>5, OrderFrame DEF BalanceRefuses, LossRefuses, Refuse, Settle
<1>6. CASE SizeSell
  BY <1>6, OrderFrame DEF SizeSell, Refuse, Settle
<1>7. CASE SendOrder
  <2>1. /\ pc = "sized" /\ UNCHANGED <<call, book, limits, rpc, pass>>
        /\ pc' = IF call.side = "buy" /\ ~Resting(call.slot) THEN "posting"
                                                            ELSE "placed"
    BY <1>7 DEF SendOrder, MakerEligible
  <2> QED
    BY <2>1 DEF OrderInv, Resting, LoggedIsExecuted, NoStrayOrder, Known
<1>8. CASE AcceptLimit
  <2>1. PICK o \in LimitOrders :
          /\ o = [slot |-> call.slot, qty |-> call.qty, state |-> "open",
                  exec |-> 0, logged |-> 0, stray |-> FALSE]
          /\ DOMAIN limits' = DOMAIN limits \cup {Len(limits')}
          /\ Len(limits') \notin DOMAIN limits
          /\ limits'[Len(limits')] = o
          /\ \A j \in DOMAIN limits : limits'[j] = limits[j]
    BY <1>0, <1>8, AcceptFacts
  <2>2. o.slot = call.slot /\ o.logged = 0
    BY <2>1
  <2>3. /\ pc = "posting" /\ pc' = "posted" /\ UNCHANGED <<call, book, rpc, pass>>
    BY <1>8 DEF AcceptLimit
  <2>4. \A s \in Slots : Resting(s) => book[s].txid \in DOMAIN limits
    BY DEF TypeInv, BookTypes
  <2>5. rpc = "answered" => pass.at \in Slots /\ Resting(pass.at)
    BY DEF TypeInv, BookTypes
  <2>6. LoggedIsExecuted'
    BY <2>1, <2>2 DEF OrderInv, LoggedIsExecuted
  <2>7. NoStrayOrder'
    BY <2>1, <2>2, <2>3 DEF OrderInv, NoStrayOrder, Known, Resting
  <2> QED
    BY <2>1, <2>2, <2>3, <2>4, <2>5, <2>6, <2>7 DEF OrderInv, Resting
<1>9. CASE Rest
  <2> DEFINE s == call.slot
             entry == [txid |-> Len(limits), price |-> call.price, due |-> FALSE]
  <2>0. Busy /\ s \in Slots /\ pc = "posted" /\ ~Resting(s)
    BY <1>0, <1>9, CallFacts DEF Rest, Busy, OrderInv
  <2>1. /\ book' = [book EXCEPT ![s] = entry] /\ pc' = "idle"
        /\ UNCHANGED <<rpc, pass, limits>>
    BY <1>9, <2>0 DEF Rest, Settle
  <2>2. entry.txid = Len(limits)
    OBVIOUS
  <2>3. Len(limits) \in DOMAIN limits /\ limits[Len(limits)].slot = s
        /\ limits[Len(limits)].logged = 0
    BY <2>0 DEF TypeInv, BookTypes, OrderInv
  <2>4. entry # NoEntry
    <3>1. entry \in Entries
      BY <1>0, <2>0, CallFacts, LenProperties DEF TypeOK, Entries
    <3> QED
      BY <3>1, NoEntryAssumption
  <2> HIDE DEF entry
  <2>5. \A r \in Slots : book'[r] = IF r = s THEN entry ELSE book[r]
    BY <1>0, <2>1 DEF TypeOK
  <2>6. rpc = "answered" => pass.at \in Slots /\ Resting(pass.at)
    BY DEF TypeInv, BookTypes
  <2>7. NoStrayOrder'
    <3> SUFFICES ASSUME NEW j \in DOMAIN limits, limits[j].state = "open",
                        ~limits[j].stray
                 PROVE  Known(j)'
      BY <2>1 DEF NoStrayOrder
    <3>1. Known(j) /\ limits[j].slot \in Slots
      BY <1>0 DEF OrderInv, NoStrayOrder, LimitOrders
    <3>2. CASE limits[j].slot = s
      <4>1. j = Len(limits)
        BY <2>0, <3>1, <3>2 DEF Known
      <4> QED
        BY <2>0, <2>1, <2>2, <2>4, <2>5, <3>2, <4>1 DEF Known, Resting
    <3>3. CASE limits[j].slot # s
      BY <2>1, <2>5, <3>1, <3>3 DEF Known, Resting
    <3> QED
      BY <3>2, <3>3
  <2>8. LoggedIsExecuted'
    BY <2>1 DEF OrderInv, LoggedIsExecuted
  <2>9. \A r \in Slots : Resting(r)' => limits[book'[r].txid].logged = 0
    BY <2>2, <2>3, <2>5 DEF OrderInv, Resting
  <2> QED
    BY <2>0, <2>1, <2>5, <2>6, <2>7, <2>8, <2>9 DEF OrderInv, Resting
<1>10. CASE Record
  BY <1>10, OrderFrame DEF Record, Settle
<1>11. CASE OrderFails \/ Crash
  BY <1>11, DieOrders DEF OrderFails, Crash
<1>12. CASE Restart
  BY <1>12, OrderFrame DEF Restart
<1>13. CASE FillLimit
  <2>1. PICK i \in DOMAIN limits, e \in Nat, st \in States :
          /\ limits[i] \in LimitOrders /\ limits[i].state = "open"
          /\ Becomes(i, [limits[i] EXCEPT !.exec = e, !.state = st])
    BY <1>0, <1>13, FillLimitFacts
  <2> DEFINE o == [limits[i] EXCEPT !.exec = e, !.state = st]
  <2>2. o \in LimitOrders /\ o.slot = limits[i].slot
        /\ o.logged = limits[i].logged /\ o.stray = limits[i].stray
    BY <2>1 DEF LimitOrders, States
  <2>3. UNCHANGED <<book, pc, call, rpc, pass>>
    BY <1>13 DEF FillLimit
  <2> HIDE DEF o
  <2>4. Becomes(i, o)
    BY <2>1 DEF o
  <2> QED
    BY <2>1, <2>2, <2>3, <2>4, OpenOrderMoves
<1>14. CASE EndLimit
  <2>1. PICK i \in DOMAIN limits :
          /\ limits[i] \in LimitOrders /\ limits[i].state = "open"
          /\ Becomes(i, [limits[i] EXCEPT !.state = "canceled"])
    BY <1>0, <1>14, EndLimitFacts
  <2> DEFINE o == [limits[i] EXCEPT !.state = "canceled"]
  <2>2. o \in LimitOrders /\ o.slot = limits[i].slot
        /\ o.logged = limits[i].logged /\ o.stray = limits[i].stray
    BY <2>1 DEF LimitOrders, States
  <2>3. UNCHANGED <<book, pc, call, rpc, pass>>
    BY <1>14 DEF EndLimit
  <2> HIDE DEF o
  <2>4. Becomes(i, o)
    BY <2>1 DEF o
  <2> QED
    BY <2>1, <2>2, <2>3, <2>4, OpenOrderMoves
<1>15. ASSUME NEW s \in Slots, Wait(s) PROVE OrderInv'
  <2>1. /\ Resting(s) /\ book' = [book EXCEPT ![s] = [book[s] EXCEPT !.due = TRUE]]
        /\ UNCHANGED <<pc, call, rpc, pass, limits>>
    BY <1>15 DEF Wait
  <2> DEFINE entry == [book[s] EXCEPT !.due = TRUE]
  <2>2. book[s] \in Entries
    BY <1>0, <2>1, EntryFacts
  <2>3. entry \in Entries /\ entry.txid = book[s].txid
    BY <2>2 DEF Entries
  <2>4. entry # NoEntry
    BY <2>3, NoEntryAssumption
  <2>5. book' = [book EXCEPT ![s] = entry]
    BY <2>1
  <2> HIDE DEF entry
  <2>6. \A r \in Slots : /\ book'[r] # NoEntry <=> book[r] # NoEntry
                         /\ book[r] # NoEntry => book'[r].txid = book[r].txid
    BY <1>0, <2>1, <2>3, <2>4, <2>5 DEF TypeOK, Resting
  <2>7. rpc = "answered" => pass.at \in Slots /\ Resting(pass.at)
    BY DEF TypeInv, BookTypes
  <2>8. \A r \in Slots : Resting(r)' => limits[book'[r].txid].logged = 0
    BY <2>6 DEF OrderInv, Resting
  <2>9. pc \in {"posting", "posted"} => call.slot \in Slots
    BY <1>0, CallFacts DEF Busy
  <2>10. LoggedIsExecuted'
    BY <2>1 DEF OrderInv, LoggedIsExecuted
  <2>11. NoStrayOrder'
    BY <1>0, <2>1, <2>6 DEF OrderInv, NoStrayOrder, Known, Resting, LimitOrders
  <2> QED
    BY <2>1, <2>6, <2>7, <2>8, <2>9, <2>10, <2>11 DEF OrderInv, Resting
<1>16. CASE StartPass
  BY <1>16, PassFrame DEF StartPass
<1>17. ASSUME NEW s \in Slots, Ask(s) PROVE OrderInv'
  BY <1>17, PassFrame DEF Ask
<1>18. CASE QueryFails
  BY <1>18, PassFrame DEF QueryFails, NextKey
<1>19. CASE StillWorking
  BY <1>19, PassFrame DEF StillWorking, NextKey
<1>20. CASE Answer
  <2> DEFINE order == limits[book[pass.at].txid]
  <2>1. /\ pass' = [pass EXCEPT !.state = order.state, !.exec = order.exec]
        /\ UNCHANGED <<pc, call, book, limits>>
    BY <1>20 DEF Answer
  <2>2. pass'.at = pass.at /\ pass'.state = order.state /\ pass'.exec = order.exec
    BY <1>0, <2>1 DEF TypeOK, Passes
  <2> QED
    BY <2>1, <2>2 DEF OrderInv, Resting, LoggedIsExecuted, NoStrayOrder, Known
<1>21. CASE FillEntry
  <2> DEFINE s == pass.at
             i == book[s].txid
             o == limits[i]
             logged == [o EXCEPT !.logged = o.logged + pass.exec]
  <2>1. /\ s \in Slots /\ Resting(s) /\ pass.exec \in Nat
        /\ book' = [book EXCEPT ![s] = NoEntry]
        /\ Becomes(i, logged) \/ UNCHANGED limits
    BY <1>0, <1>21, FillEntryFacts
  <2>2. i \in DOMAIN limits /\ o \in LimitOrders
    BY <1>0, <2>1, EntryFacts
  <2>3. o.state # "open" /\ o.exec = pass.exec /\ o.logged = 0
    BY <1>21, <2>1 DEF FillEntry, Executed, OrderInv
  <2>4. /\ logged \in LimitOrders /\ logged.slot = o.slot /\ logged.state = o.state
        /\ logged.logged = pass.exec /\ logged.exec = o.exec
    BY <2>1, <2>2, <2>3 DEF LimitOrders
  <2>5. rpc' # "answered" /\ UNCHANGED <<pc, call>>
    BY <1>21 DEF FillEntry, NextKey
  <2>6. PICK n \in LimitOrders :
          /\ Becomes(i, n) /\ n.slot = o.slot
          /\ n.state # "open" /\ (n.logged # 0 => n.logged = n.exec)
    <3>1. CASE Becomes(i, logged)
      BY <2>3, <2>4, <3>1
    <3>2. CASE UNCHANGED limits
      <4>1. Becomes(i, o)
        BY <1>0, <2>2, <3>2, BecomesSame
      <4> QED
        BY <2>2, <2>3, <4>1
    <3> QED
      BY <2>1, <3>1, <3>2
  <2> HIDE DEF logged
  <2> QED
    BY <2>1, <2>5, <2>6, EntryDropped
<1>22. CASE NothingExecuted
  <2> DEFINE s == pass.at
             i == book[s].txid
             o == limits[i]
  <2>1. /\ s \in Slots /\ Resting(s) /\ rpc = "answered" /\ pass.state = "canceled"
        /\ book' = [book EXCEPT ![s] = NoEntry]
        /\ UNCHANGED <<limits, pc, call>> /\ rpc' # "answered"
    BY <1>0, <1>22 DEF NothingExecuted, NoFill, NextKey, TypeOK
  <2>2. i \in DOMAIN limits /\ o \in LimitOrders
    BY <1>0, <2>1, EntryFacts
  <2>3. o.state # "open" /\ o.logged = 0
    BY <2>1 DEF OrderInv
  <2>4. Becomes(i, o)
    BY <1>0, <2>1, <2>2, BecomesSame
  <2> HIDE DEF o
  <2> QED
    BY <2>1, <2>2, <2>3, <2>4, EntryDropped DEF o
<1>23. CASE Cancelled
  <2> DEFINE s == pass.at
             i == book[s].txid
             o == limits[i]
  <2>1. /\ s \in Slots /\ Resting(s)
        /\ \/ Becomes(i, [o EXCEPT !.state = "canceled"])
           \/ UNCHANGED limits /\ o.state # "open"
           \/ Becomes(i, [o EXCEPT !.stray = TRUE])
    BY <1>0, <1>23, CancelledFacts
  <2>2. i \in DOMAIN limits /\ o \in LimitOrders /\ o.logged = 0
    BY <1>0, <2>1, EntryFacts DEF OrderInv
  <2>3. /\ book' = [book EXCEPT ![s] = NoEntry]
        /\ UNCHANGED <<pc, call>> /\ rpc' # "answered"
    BY <1>23 DEF Cancelled, NoFill, NextKey
  <2>4. PICK n \in LimitOrders :
          /\ Becomes(i, n) /\ n.slot = o.slot
          /\ n.state # "open" \/ n.stray
          /\ n.logged = 0
    <3>1. CASE Becomes(i, [o EXCEPT !.state = "canceled"])
      <4>1. /\ [o EXCEPT !.state = "canceled"] \in LimitOrders
            /\ [o EXCEPT !.state = "canceled"].slot = o.slot
            /\ [o EXCEPT !.state = "canceled"].state # "open"
            /\ [o EXCEPT !.state = "canceled"].logged = 0
        BY <2>2 DEF LimitOrders, States
      <4> QED
        BY <3>1, <4>1
    <3>2. CASE UNCHANGED limits /\ o.state # "open"
      <4>1. Becomes(i, o)
        BY <1>0, <2>2, <3>2, BecomesSame
      <4> QED
        BY <2>2, <3>2, <4>1
    <3>3. CASE Becomes(i, [o EXCEPT !.stray = TRUE])
      <4>1. /\ [o EXCEPT !.stray = TRUE] \in LimitOrders
            /\ [o EXCEPT !.stray = TRUE].slot = o.slot
            /\ [o EXCEPT !.stray = TRUE].stray
            /\ [o EXCEPT !.stray = TRUE].logged = 0
        BY <2>2 DEF LimitOrders, States
      <4> QED
        BY <3>3, <4>1
    <3> QED
      BY <2>1, <3>1, <3>2, <3>3
  <2> QED
    BY <2>1, <2>3, <2>4, EntryDropped
<1>24. CASE QuietTick \/ UNCHANGED vars
  BY <1>24, OrderFrame DEF QuietTick, vars
<1> QED
  BY <1>1, <1>2, <1>3, <1>4, <1>5, <1>6, <1>7, <1>8, <1>9, <1>10, <1>11, <1>12,
     <1>13, <1>14, <1>15, <1>16, <1>17, <1>18, <1>19, <1>20, <1>21, <1>22, <1>23,
     <1>24 DEF Next, Handle, Reconcile

\* Orders, entries and answers are always in step.
LEMMA OrderInvariant == Spec => [](TypeInv /\ OrderInv)
<1>1. Init => OrderInv
  BY OrderInit
<1>2. TypeInv /\ OrderInv /\ [Next]_vars => OrderInv'
  BY OrderNext
<1> QED
  BY <1>1, <1>2, TypeInvariant, PTL DEF Spec

\* A limit order is recorded at most once, at the volume executed when it was
\* final, although the answer it is recorded from is handled later than given.
THEOREM LoggedAlwaysExecuted == Spec => []LoggedIsExecuted
<1>1. OrderInv => LoggedIsExecuted
  BY DEF OrderInv
<1> QED
  BY <1>1, OrderInvariant, PTL

\* Only a death of the process or a failed cancel leaves an order working that
\* the bot does not know of.
THEOREM NeverStrayOrder == Spec => []NoStrayOrder
<1>1. OrderInv => NoStrayOrder
  BY DEF OrderInv
<1> QED
  BY <1>1, OrderInvariant, PTL

\* A slot has one working entry, although the loop does not ask the book again
\* after the await of its post.
THEOREM AlwaysOneEntryPerSlot == Spec => []OneEntryPerSlot
<1>1. TypeInv /\ OrderInv => OneEntryPerSlot
  <2> SUFFICES ASSUME TypeInv, OrderInv, NEW s \in Slots
               PROVE  /\ pc \in {"posting", "posted"} /\ call.slot = s => ~Resting(s)
                      /\ Cardinality({i \in Mine(s) : limits[i].state = "open"
                                                /\ ~limits[i].stray}) <= 1
    BY DEF OneEntryPerSlot
  <2> DEFINE W == {i \in Mine(s) : limits[i].state = "open" /\ ~limits[i].stray}
             x == IF Resting(s) THEN book[s].txid ELSE Len(limits)
  <2>1. \A i \in W : i = x
    BY DEF Mine, OrderInv, NoStrayOrder, Known
  <2>2. W \in SUBSET {x} /\ IsFiniteSet({x}) /\ Cardinality({x}) = 1
    BY <2>1, FS_Singleton
  <2>3. Cardinality(W) <= 1
    BY <2>2, FS_Subset
  <2> QED
    BY <2>3 DEF OrderInv
<1> QED
  BY <1>1, OrderInvariant, PTL

-----------------------------------------------------------------------------
(* Beliefs *)

\* A belief that is what the log says, whether or not a snapshot is left of an
\* entry that filled.
Follows(b, long, tracks) ==
  /\ b.in <=> long
  /\ b.entry # None <=> (long /\ tracks)

Handling(s) == Busy /\ call.slot = s

\* An undisturbed slot: its belief is flipped while its signal is handled, stays
\* flipped while its entry rests, and otherwise is what the log says.
BeliefOf(s) ==
  IF Handling(s)
  THEN /\ ~Resting(s)
       /\ Flipped(belief[s], Long(s), s \in Tracking)
       /\ call.side = IF Long(s) THEN "sell" ELSE "buy"
  ELSE IF Resting(s)
  THEN ~Long(s) /\ Flipped(belief[s], FALSE, s \in Tracking)
  ELSE Follows(belief[s], Long(s), s \in Tracking)

RowsOf(s) ==
  /\ Long(s) => log[s].price \in Prices
  /\ s \notin crossed => Len(log[s].buys) = IF Long(s) THEN 1 ELSE 0

BeliefInv ==
  /\ \A s \in Slots : RowsOf(s)
  /\ pc # "down" => \A s \in Slots \ crossed : BeliefOf(s)

\* evaluate flips a belief that follows the log.
LEMMA SignalArms ==
  ASSUME NEW b \in Beliefs(Prices), NEW c \in Prices,
         NEW long \in BOOLEAN, NEW t \in BOOLEAN, Follows(b, long, t)
  PROVE  /\ ~b.in => Flipped(Entered(b, c, t), long, t)
         /\ b.in => Flipped(Exited(b), long, t)
<1>1. c # None
  BY PriceAssumption DEF None
<1> QED
  BY <1>1 DEF Follows, Flipped, Entered, Exited, Arm, Beliefs

\* A settled belief follows the log.
LEMMA SettledFollows ==
  ASSUME NEW b, NEW long, NEW t, Settled(b, long, t)
  PROVE  Follows(b, long, t)
  BY DEF Settled, Follows

\* A fill recorded by the reconciler: the strategy that stayed long is right.
LEMMA FlippedFollows ==
  ASSUME NEW b \in Beliefs(Prices), NEW t \in BOOLEAN, Flipped(b, FALSE, t)
  PROVE  Follows(b, TRUE, t)
  BY DEF Flipped, Follows, Beliefs

\* At the start every belief is as constructed and every log empty.
LEMMA BeliefInit == Init => BeliefInv
<1> SUFFICES ASSUME Init PROVE BeliefInv
  OBVIOUS
<1>1. ASSUME NEW s \in Slots
      PROVE  log[s].last = "none" /\ log[s].buys = <<>> /\ belief[s] = Fresh
             /\ book[s] = NoEntry
  BY DEF Init, EmptyLog
<1>2. ~Busy
  BY DEF Init, Busy
<1>3. ASSUME NEW s \in Slots PROVE RowsOf(s)
  BY <1>1, <1>3 DEF RowsOf, Long
<1>4. ASSUME NEW s \in Slots PROVE BeliefOf(s)
  <2>1. ~Handling(s) /\ ~Resting(s) /\ ~Long(s)
    BY <1>1, <1>2, <1>4 DEF Handling, Resting, Long
  <2>2. Follows(belief[s], FALSE, s \in Tracking)
    BY <1>1, <1>4 DEF Follows, Fresh, None
  <2> QED
    BY <2>1, <2>2 DEF BeliefOf, Follows
<1> QED
  BY <1>3, <1>4 DEF BeliefInv

\* A slot that a step leaves as it is.
LEMMA SlotFrame ==
  ASSUME NEW s \in Slots, BeliefOf(s),
         Handling(s)' = Handling(s), Handling(s) => call'.side = call.side,
         Resting(s)' = Resting(s), belief'[s] = belief[s], Long(s)' = Long(s)
  PROVE  BeliefOf(s)'
  BY DEF BeliefOf

\* A step that neither signals nor settles anything.
LEMMA BeliefFrame ==
  ASSUME BeliefInv, UNCHANGED <<belief, log, crossed>>,
         \A s \in Slots : Resting(s)' = Resting(s),
         \/ UNCHANGED <<pc, call>>
         \/ Busy /\ Busy' /\ call'.slot = call.slot /\ call'.side = call.side
  PROVE  BeliefInv'
<1>1. \A s \in Slots : RowsOf(s)'
  BY DEF BeliefInv, RowsOf, Long
<1>2. pc' # "down" => pc # "down"
  BY DEF Busy
<1>3. \A s \in Slots : /\ Handling(s)' = Handling(s)
                       /\ Handling(s) => call'.side = call.side
  BY DEF Handling, Busy
<1>4. ASSUME NEW s \in Slots \ crossed', pc' # "down" PROVE BeliefOf(s)'
  BY <1>2, <1>3, <1>4, SlotFrame DEF BeliefInv, Long
<1> QED
  BY <1>1, <1>4 DEF BeliefInv

\* The other slots when a call settles.
LEMMA SettleOthers ==
  ASSUME TypeOK, BeliefInv, Busy, NEW b, Settle(b)
  PROVE  /\ ~Busy' /\ pc # "down"
         /\ \A s \in Slots : belief'[s] = IF s = call.slot THEN b ELSE belief[s]
         /\ \A s \in Slots : ~Handling(s)'
         /\ \A s \in Slots \ crossed :
              s # call.slot /\ Long(s)' = Long(s) /\ Resting(s)' = Resting(s)
                => BeliefOf(s)'
<1>1. ~Busy' /\ pc # "down"
  BY DEF Settle, Busy
<1>2. \A s \in Slots : belief'[s] = IF s = call.slot THEN b ELSE belief[s]
  BY DEF Settle, TypeOK
<1>3. \A s \in Slots : ~Handling(s)'
  BY <1>1 DEF Handling
<1>4. ASSUME NEW s \in Slots \ crossed, s # call.slot,
             Long(s)' = Long(s), Resting(s)' = Resting(s)
      PROVE  BeliefOf(s)'
  BY <1>1, <1>2, <1>3, <1>4, SlotFrame DEF BeliefInv, Handling
<1> QED
  BY <1>1, <1>2, <1>3, <1>4

\* A rejected signal leaves an undisturbed slot as its log says.
LEMMA RefuseBelief ==
  ASSUME TypeOK, BeliefInv, Busy, UNCHANGED <<log, book, crossed>>,
         NEW b, Settle(b), b = Rejected(belief[call.slot]) \/ Resting(call.slot)
  PROVE  BeliefInv'
<1>1. \A s \in Slots : RowsOf(s)'
  BY DEF BeliefInv, RowsOf, Long
<1>2. \A s \in Slots : Resting(s)' = Resting(s) /\ Long(s)' = Long(s)
  BY DEF Resting, Long
<1>3. ASSUME NEW s \in Slots, s = call.slot, s \notin crossed PROVE BeliefOf(s)'
  <2>1. belief[s] \in Beliefs(Prices) /\ Long(s) \in BOOLEAN
        /\ (s \in Tracking) \in BOOLEAN
    BY <1>3, CallFacts DEF Long
  <2>2. BeliefOf(s) /\ Handling(s)
    BY <1>3, <2>1 DEF BeliefInv, Handling, Busy
  <2>3. ~Resting(s) /\ Flipped(belief[s], Long(s), s \in Tracking)
    BY <2>2 DEF BeliefOf
  <2>4. Settled(Rejected(belief[s]), Long(s), s \in Tracking)
    BY <2>1, <2>3, RejectionSettles
  <2>5. Follows(Rejected(belief[s]), Long(s), s \in Tracking)
    BY <2>4, SettledFollows
  <2>6. belief'[s] = Rejected(belief[s]) /\ ~Handling(s)'
    BY <1>3, <2>3, SettleOthers
  <2> QED
    BY <1>2, <1>3, <2>3, <2>5, <2>6 DEF BeliefOf
<1>4. \A s \in Slots \ crossed' : BeliefOf(s)'
  BY <1>2, <1>3, SettleOthers
<1> QED
  BY <1>1, <1>4 DEF BeliefInv

\* After a death there is no belief to speak of.
LEMMA DieBelief ==
  ASSUME BeliefInv, Die, UNCHANGED <<log, crossed>>
  PROVE  BeliefInv'
  BY DEF BeliefInv, Die, RowsOf, Long

\* The reconciler drops an entry whose outcome is known: slot r follows its log
\* again, unless it was disturbed.
LEMMA DropBelief ==
  ASSUME TypeOK, BeliefInv, pc # "down", UNCHANGED <<pc, call>>,
         NEW r \in Slots, Resting(r), book' = [book EXCEPT ![r] = NoEntry],
         \A s \in Slots : s # r => log'[s] = log[s] /\ belief'[s] = belief[s],
         crossed \subseteq crossed', RowsOf(r)',
         \/ r \in crossed'
         \/ ~Long(r) /\ Flipped(belief[r], FALSE, r \in Tracking)
              => Follows(belief'[r], Long(r)', r \in Tracking)
  PROVE  BeliefInv'
<1>1. \A s \in Slots : Resting(s)' = IF s = r THEN FALSE ELSE Resting(s)
  BY DEF Resting, TypeOK
<1>2. \A s \in Slots : RowsOf(s)'
  <2>1. ASSUME NEW s \in Slots, s # r PROVE RowsOf(s)'
    BY <2>1 DEF BeliefInv, RowsOf, Long
  <2> QED
    BY <2>1
<1>3. ASSUME NEW s \in Slots \ crossed' PROVE BeliefOf(s)'
  <2>1. BeliefOf(s) /\ Handling(s)' = Handling(s)
    BY DEF BeliefInv, Handling, Busy
  <2>2. CASE s = r
    <3>1. ~Handling(s) /\ ~Long(s) /\ Flipped(belief[s], FALSE, s \in Tracking)
      BY <2>1, <2>2 DEF BeliefOf
    <3>2. Follows(belief'[s], Long(s)', s \in Tracking)
      BY <2>2, <3>1
    <3> QED
      BY <1>1, <2>1, <2>2, <3>1, <3>2 DEF BeliefOf
  <2>3. CASE s # r
    BY <1>1, <2>1, <2>3, SlotFrame DEF Long
  <2> QED
    BY <2>2, <2>3
<1> QED
  BY <1>2, <1>3 DEF BeliefInv

\* _no_fill rolls an undisturbed strategy back to what its log says.
LEMMA NoFillBelief ==
  ASSUME TypeOK, BeliefInv, pc # "down", UNCHANGED <<pc, call, log, crossed>>,
         pass.at \in Slots, Resting(pass.at), NoFill
  PROVE  BeliefInv'
<1>1. PICK r \in Slots : r = pass.at
  OBVIOUS
<1>2. Resting(r) /\ book' = [book EXCEPT ![r] = NoEntry]
      /\ belief' = [belief EXCEPT ![r] = Rejected(belief[r])]
  BY <1>1 DEF NoFill
<1>3. belief[r] \in Beliefs(Prices) /\ (r \in Tracking) \in BOOLEAN
      /\ FALSE \in BOOLEAN
  BY DEF TypeOK
<1>4. ASSUME ~Long(r), Flipped(belief[r], FALSE, r \in Tracking)
      PROVE  Follows(belief'[r], Long(r)', r \in Tracking)
  <2>1. Settled(Rejected(belief[r]), FALSE, r \in Tracking)
    BY <1>3, <1>4, RejectionSettles
  <2>2. Follows(Rejected(belief[r]), FALSE, r \in Tracking)
    BY <2>1, SettledFollows
  <2>3. belief'[r] = Rejected(belief[r]) /\ ~Long(r)'
    BY <1>2, <1>4 DEF TypeOK, Long
  <2> QED
    BY <2>2, <2>3 DEF Follows
<1>5. RowsOf(r)'
  BY DEF BeliefInv, RowsOf, Long
<1>6. \A s \in Slots : s # r => log'[s] = log[s] /\ belief'[s] = belief[s]
  BY <1>2 DEF TypeOK
<1> QED
  BY <1>2, <1>4, <1>5, <1>6, DropBelief

\* A buy adds an open buy, a sell takes the only one.
LEMMA OpenBuys ==
  ASSUME NEW b \in Seq(Prices), NEW p \in Prices
  PROVE  /\ Len(b) = 0 => Len(Append(b, p)) = 1
         /\ Len(b) = 1 => Len(Popped(b)) = 0
<1>1. Len(<<>>) = 0
  OBVIOUS
<1>2. b # <<>> => Len(Tail(b)) = Len(b) - 1
  BY HeadTailProperties
<1>3. Len(Append(b, p)) = Len(b) + 1 /\ Len(b) \in Nat
  BY AppendProperties, LenProperties
<1> QED
  BY <1>1, <1>2, <1>3 DEF Popped

\* A row recorded over an undisturbed log opens the one position or closes it.
LEMMA RowFacts ==
  ASSUME NEW s \in Slots, log \in [Slots -> Logs(Prices)], BeliefInv,
         NEW side \in {"buy", "sell"}, NEW p \in Prices, NEW q \in Nat,
         NEW x \in Slots,
         log' = [log EXCEPT ![x] = Recorded(log[x], side, p, q, FALSE)],
         UNCHANGED crossed, s = x /\ s \notin crossed => side = IF Long(s) THEN "sell" ELSE "buy"
  PROVE  /\ RowsOf(s)'
         /\ s = x => (Long(s)' <=> side = "buy")
         /\ s # x => log'[s] = log[s]
<1>1. CASE s # x
  BY <1>1 DEF BeliefInv, RowsOf, Long
<1>2. CASE s = x
  <2>0. log[s].buys \in Seq(Prices) /\ RowsOf(s)
        /\ log'[s] = Recorded(log[s], side, p, q, FALSE)
    BY <1>2 DEF Logs, BeliefInv
  <2>1. CASE side = "buy"
    <3>1. log'[s].last = "buy" /\ log'[s].price = p
          /\ log'[s].buys = Append(log[s].buys, p)
      BY <2>0, <2>1 DEF Recorded, Bought
    <3>2. Len(log[s].buys) = 0 => Len(log'[s].buys) = 1
      BY <2>0, <3>1, OpenBuys
    <3>3. Long(s)'
      BY <3>1 DEF Long
    <3>4. s \notin crossed => Len(log[s].buys) = 0
      BY <1>2, <2>0, <2>1 DEF RowsOf, Long
    <3>5. Len(log'[s].buys) = 1 \/ s \in crossed
      BY <3>2, <3>4
    <3> QED
      BY <1>2, <2>1, <3>1, <3>3, <3>5 DEF RowsOf
  <2>2. CASE side = "sell"
    <3>1. log'[s].last = "sell" /\ log'[s].buys = Popped(log[s].buys)
      BY <2>0, <2>2 DEF Recorded, Sold
    <3>2. Len(log[s].buys) = 1 => Len(log'[s].buys) = 0
      BY <2>0, <3>1, OpenBuys
    <3>3. ~Long(s)'
      BY <3>1 DEF Long
    <3>4. s \notin crossed => Len(log[s].buys) = 1
      BY <1>2, <2>0, <2>2 DEF RowsOf, Long
    <3> QED
      BY <1>2, <2>2, <3>1, <3>2, <3>3, <3>4 DEF RowsOf
  <2> QED
    BY <2>1, <2>2
<1> QED
  BY <1>1, <1>2

\* Every step leaves the belief of an undisturbed slot what it should be.
LEMMA BeliefNext == TypeInv /\ OrderInv /\ BeliefInv /\ [Next]_vars => BeliefInv'
<1> SUFFICES ASSUME TypeInv, OrderInv, BeliefInv, [Next]_vars PROVE BeliefInv'
  OBVIOUS
<1>0. TypeOK
  BY TypesOK
<1> USE DEF reconciler, exchange
<1>1. ASSUME NEW s \in Slots, Evaluate(s) PROVE BeliefInv'
  <2>1. PICK price \in Prices, side \in {"buy", "sell"} :
          /\ call' = [slot |-> s, side |-> side, price |-> price, qty |-> Quantity[s]]
          /\ \/ /\ ~belief[s].in /\ side = "buy"
                /\ belief' = [belief EXCEPT ![s] = Entered(belief[s], price, s \in Tracking)]
             \/ /\ belief[s].in /\ side = "sell"
                /\ belief' = [belief EXCEPT ![s] = Exited(belief[s])]
    BY <1>1, Zenon DEF Evaluate
  <2>2. /\ pc = "idle" /\ pc' = "signalled" /\ UNCHANGED <<log, book>>
        /\ crossed' = crossed \cup (IF Resting(s) THEN {s} ELSE {})
    BY <1>1 DEF Evaluate
  <2>3. \A r \in Slots : /\ Handling(r)' <=> r = s
                         /\ ~Handling(r)
                         /\ Resting(r)' = Resting(r) /\ Long(r)' = Long(r)
    BY <2>1, <2>2 DEF Handling, Busy, Resting, Long
  <2>4. \A r \in Slots : RowsOf(r)'
    BY <2>2 DEF BeliefInv, RowsOf, Long
  <2>5. ASSUME NEW r \in Slots \ crossed' PROVE BeliefOf(r)'
    <3>1. BeliefOf(r) /\ r \in Slots
      BY <2>2 DEF BeliefInv
    <3>2. CASE r = s
      <4>1. ~Resting(s)
        BY <2>2, <3>2
      <4>2. Follows(belief[s], Long(s), s \in Tracking)
        BY <2>3, <3>1, <3>2, <4>1 DEF BeliefOf
      <4>3. belief[s] \in Beliefs(Prices) /\ Long(s) \in BOOLEAN
            /\ (s \in Tracking) \in BOOLEAN
        BY <1>0 DEF TypeOK, Long
      <4>4. Flipped(belief'[s], Long(s), s \in Tracking)
        <5>1. CASE ~belief[s].in
          <6>1. belief'[s] = Entered(belief[s], price, s \in Tracking)
            BY <1>0, <2>1, <5>1 DEF TypeOK
          <6> QED
            BY <4>2, <4>3, <5>1, <6>1, SignalArms
        <5>2. CASE belief[s].in
          <6>1. belief'[s] = Exited(belief[s])
            BY <1>0, <2>1, <5>2 DEF TypeOK
          <6> QED
            BY <4>2, <4>3, <5>2, <6>1, SignalArms
        <5> QED
          BY <5>1, <5>2
      <4>5. call'.side = IF Long(s) THEN "sell" ELSE "buy"
        BY <2>1, <4>2 DEF Follows
      <4> QED
        BY <2>3, <3>2, <4>1, <4>4, <4>5 DEF BeliefOf
    <3>3. CASE r # s
      <4>1. belief'[r] = belief[r]
        BY <1>0, <2>1, <3>3 DEF TypeOK
      <4>2. Handling(r)' = Handling(r)
        BY <2>1, <2>2, <3>3 DEF Handling, Busy
      <4> QED
        BY <2>3, <3>1, <4>1, <4>2, SlotFrame
    <3> QED
      BY <3>2, <3>3
  <2> QED
    BY <2>4, <2>5 DEF BeliefInv
<1>2. CASE SkipUnhealthy
  BY <1>0, <1>2, RefuseBelief DEF SkipUnhealthy, Busy
<1>3. ASSUME Refuse, Busy PROVE BeliefInv'
  <2>1. PICK b : /\ b = IF Resting(call.slot) THEN belief[call.slot]
                                             ELSE Rejected(belief[call.slot])
                 /\ Settle(b)
    BY <1>3 DEF Refuse
  <2> QED
    BY <1>0, <1>3, <2>1, RefuseBelief DEF Refuse
<1>4. CASE SizeBuy
  <2>1. CASE Die
    BY <1>4, <2>1, DieBelief DEF SizeBuy
  <2>2. CASE ~Die
    <3>1. PICK qty : call' = [call EXCEPT !.qty = qty]
      BY <1>4, <2>2 DEF SizeBuy
    <3>2. call'.slot = call.slot /\ call'.side = call.side /\ Busy /\ Busy'
          /\ UNCHANGED <<belief, log, book, crossed>>
      BY <1>0, <1>4, <2>2, <3>1, CallFacts DEF SizeBuy, Busy, Calls
    <3> QED
      BY <3>2, BeliefFrame DEF Resting
  <2> QED
    BY <2>1, <2>2
<1>5. CASE BalanceCovers \/ SendOrder \/ AcceptLimit \/ ExecuteMarket
  <2>1. /\ Busy /\ Busy' /\ UNCHANGED <<call, belief, log, book, crossed>>
    BY <1>5 DEF BalanceCovers, SendOrder, AcceptLimit, ExecuteMarket, Busy
  <2> QED
    BY <2>1, BeliefFrame DEF Resting
<1>6. CASE BalanceRefuses \/ LossRefuses
  BY <1>3, <1>6 DEF BalanceRefuses, LossRefuses, Busy
<1>7. CASE SizeSell
  <2>1. CASE Refuse
    BY <1>3, <1>7, <2>1 DEF SizeSell, Busy
  <2>2. CASE ~Refuse
    <3>1. PICK qty : call' = [call EXCEPT !.qty = qty]
      BY <1>7, <2>2 DEF SizeSell
    <3>2. call'.slot = call.slot /\ call'.side = call.side /\ Busy /\ Busy'
          /\ UNCHANGED <<belief, log, book, crossed>>
      BY <1>0, <1>7, <2>2, <3>1, CallFacts DEF SizeSell, Busy, Calls
    <3> QED
      BY <3>2, BeliefFrame DEF Resting
  <2> QED
    BY <2>1, <2>2
<1>8. CASE Rest
  <2>1. PICK s \in Slots : s = call.slot
    BY <1>0, <1>8, CallFacts DEF Rest, Busy
  <2>2. pc = "posted" /\ Busy /\ ~Resting(s) /\ call.side = "buy"
    BY <1>8, <2>1 DEF Rest, Busy, OrderInv
  <2>3. PICK entry : book' = [book EXCEPT ![s] = entry]
    BY <1>8, <2>1, <2>2 DEF Rest
  <2>4. Settle(belief[s]) /\ UNCHANGED <<log, crossed>>
    BY <1>8, <2>1, <2>2 DEF Rest
  <2>5. \A r \in Slots : /\ r # s => Resting(r)' = Resting(r)
                         /\ Long(r)' = Long(r) /\ RowsOf(r)'
    BY <2>3, <2>4 DEF BeliefInv, RowsOf, Resting, Long
  <2>6. ASSUME s \notin crossed PROVE BeliefOf(s)'
    <3>1. BeliefOf(s) /\ Handling(s)
      BY <2>1, <2>2, <2>6 DEF BeliefInv, Handling, Busy
    <3>2. ~Long(s) /\ Flipped(belief[s], FALSE, s \in Tracking)
      BY <2>2, <3>1 DEF BeliefOf, Flipped
    <3>3. ~Handling(s)' /\ belief'[s] = belief[s] /\ ~Long(s)'
      BY <1>0, <2>1, <2>2, <2>4, <2>5, <3>2, SettleOthers
    <3>4. Resting(s)'
      <4>1. book' = [book EXCEPT ![s] = [txid |-> Len(limits), price |-> call.price,
                                         due |-> FALSE]]
        BY <1>8, <2>1, <2>2 DEF Rest
      <4>2. [txid |-> Len(limits), price |-> call.price, due |-> FALSE] \in Entries
        BY <1>0, <2>2, CallFacts, LenProperties DEF TypeOK, Entries
      <4> QED
        BY <1>0, <4>1, <4>2, NoEntryAssumption DEF TypeOK, Resting
    <3> QED
      BY <3>2, <3>3, <3>4 DEF BeliefOf
  <2>7. \A r \in Slots \ crossed' : BeliefOf(r)'
    BY <1>0, <2>1, <2>2, <2>4, <2>5, <2>6, SettleOthers
  <2> QED
    BY <2>5, <2>7 DEF BeliefInv
<1>9. CASE Record
  <2>1. PICK s \in Slots : s = call.slot
    BY <1>0, <1>9, CallFacts DEF Record, Busy
  <2>2. Busy /\ UNCHANGED <<book, crossed>>
    BY <1>9 DEF Record, Busy
  <2>3. PICK side \in {"buy", "sell"}, p \in Prices, q \in Nat :
          side = call.side /\ p = call.price /\ q = call.qty
    BY <1>0, <2>2, CallFacts
  <2>4. PICK b : b = IF Resting(s) THEN belief[s] ELSE Filled(belief[s])
    OBVIOUS
  <2>5. log' = [log EXCEPT ![s] = Recorded(log[s], side, p, q, FALSE)] /\ Settle(b)
    BY <1>9, <2>1, <2>3, <2>4 DEF Record
  <2>6. s \notin crossed =>
          /\ ~Resting(s) /\ Flipped(belief[s], Long(s), s \in Tracking)
          /\ side = IF Long(s) THEN "sell" ELSE "buy"
    BY <2>1, <2>2, <2>3 DEF BeliefInv, BeliefOf, Handling, Busy
  <2>7. \A r \in Slots : /\ RowsOf(r)'
                         /\ r = s => (Long(r)' <=> side = "buy")
                         /\ r # s => log'[r] = log[r]
    BY <1>0, <2>2, <2>5, <2>6, RowFacts DEF TypeOK
  <2>8. ASSUME s \notin crossed PROVE BeliefOf(s)'
    <3>1. Long(s) \in BOOLEAN /\ (s \in Tracking) \in BOOLEAN
          /\ belief[s] \in Beliefs(Prices)
      BY <1>0 DEF TypeOK, Long
    <3>2. Settled(Filled(belief[s]), ~Long(s), s \in Tracking)
      BY <2>6, <2>8, <3>1, FillSettles
    <3>3. Follows(Filled(belief[s]), ~Long(s), s \in Tracking)
      BY <3>2, SettledFollows
    <3>4. (Long(s)' <=> ~Long(s)) /\ ~Handling(s)' /\ belief'[s] = Filled(belief[s])
          /\ ~Resting(s)'
      BY <1>0, <2>1, <2>2, <2>4, <2>5, <2>6, <2>7, <2>8, SettleOthers DEF Resting
    <3> QED
      BY <3>3, <3>4 DEF BeliefOf, Follows
  <2>9. \A r \in Slots : r # s => Long(r)' = Long(r) /\ Resting(r)' = Resting(r)
    BY <2>2, <2>7 DEF Long, Resting
  <2>10. \A r \in Slots \ crossed' : BeliefOf(r)'
    BY <1>0, <2>1, <2>2, <2>5, <2>8, <2>9, SettleOthers
  <2> QED
    BY <2>7, <2>10 DEF BeliefInv
<1>10. CASE OrderFails \/ Crash
  BY <1>10, DieBelief DEF OrderFails, Crash
<1>11. CASE Restart
  <2>1. /\ pc' = "idle" /\ ~Busy' /\ UNCHANGED <<log, book, crossed>>
        /\ \A s \in Slots : ~Resting(s)
        /\ \A s \in Slots : belief'[s] = Restored(log[s].last, log[s].price, s \in Tracking)
    BY <1>11 DEF Restart, Busy, TypeInv, BookTypes
  <2>2. \A s \in Slots : RowsOf(s)'
    BY <2>1 DEF BeliefInv, RowsOf, Long
  <2>3. ASSUME NEW s \in Slots PROVE BeliefOf(s)'
    <3>1. log[s] \in Logs(Prices) /\ (s \in Tracking) \in BOOLEAN
          /\ (log[s].last = "buy" => log[s].price # None)
      BY <1>0, PriceAssumption DEF TypeOK, BeliefInv, RowsOf, Long, None
    <3>2. Settled(belief'[s], log[s].last = "buy", s \in Tracking)
      BY <2>1, <3>1, RestoreSettles
    <3>3. Follows(belief'[s], Long(s)', s \in Tracking) /\ ~Handling(s)' /\ ~Resting(s)'
      BY <2>1, <3>2 DEF Settled, Follows, Long, Handling, Resting
    <3> QED
      BY <3>3 DEF BeliefOf
  <2> QED
    BY <2>2, <2>3 DEF BeliefInv
<1>12. CASE FillLimit \/ EndLimit \/ StartPass \/ (\E s \in Slots : Ask(s))
            \/ Answer \/ QueryFails \/ StillWorking \/ QuietTick \/ UNCHANGED vars
  <2>1. UNCHANGED <<pc, call, belief, log, book, crossed>>
    BY <1>12, Zenon DEF FillLimit, EndLimit, StartPass, Ask, Answer, QueryFails, StillWorking,
             QuietTick, vars
  <2> QED
    BY <2>1, BeliefFrame DEF Resting
<1>13. ASSUME NEW s \in Slots, Wait(s) PROVE BeliefInv'
  <2>1. /\ book' = [book EXCEPT ![s] = [book[s] EXCEPT !.due = TRUE]] /\ Resting(s)
        /\ UNCHANGED <<pc, call, belief, log, crossed>>
    BY <1>13 DEF Wait
  <2>2. [book[s] EXCEPT !.due = TRUE] \in Entries
    <3>1. book[s] \in Entries
      BY <1>0, <2>1, EntryFacts
    <3> QED
      BY <3>1 DEF Entries
  <2>3. \A r \in Slots : Resting(r)' = Resting(r)
    BY <1>0, <2>1, <2>2, NoEntryAssumption DEF Resting, TypeOK
  <2> QED
    BY <2>1, <2>3, BeliefFrame
<1>14. CASE FillEntry
  <2>1. PICK r \in Slots : r = pass.at
    BY <1>0, <1>14, FillEntryFacts
  <2>2. /\ Resting(r) /\ pass.exec \in Nat
        /\ book' = [book EXCEPT ![r] = NoEntry]
        /\ \/ /\ log' = [log EXCEPT
                   ![r] = Recorded(log[r], "buy", book[r].price, pass.exec, FALSE)]
              /\ UNCHANGED crossed
           \/ UNCHANGED log /\ crossed' = crossed \cup {r}
    BY <1>0, <1>14, <2>1, FillEntryFacts
  <2>3. pc # "down" /\ UNCHANGED <<pc, call, belief>>
    BY <1>14, <2>2 DEF FillEntry, TypeInv, BookTypes
  <2>4. CASE /\ log' = [log EXCEPT
                  ![r] = Recorded(log[r], "buy", book[r].price, pass.exec, FALSE)]
             /\ UNCHANGED crossed
    <3>1. PICK p \in Prices, q \in Nat : p = book[r].price /\ q = pass.exec
      BY <1>0, <2>2, EntryFacts
    <3>2. log \in [Slots -> Logs(Prices)] /\ "buy" \in {"buy", "sell"}
      BY <1>0 DEF TypeOK
    <3>3. r \notin crossed => ~Long(r) /\ Flipped(belief[r], FALSE, r \in Tracking)
      BY <2>2, <2>3 DEF BeliefInv, BeliefOf
    <3>4. log' = [log EXCEPT ![r] = Recorded(log[r], "buy", p, q, FALSE)]
      BY <2>4, <3>1
    <3>5. RowsOf(r)' /\ Long(r)'
      BY <2>4, <3>2, <3>3, <3>4, RowFacts
    <3>6. \A s \in Slots : s # r => log'[s] = log[s] /\ belief'[s] = belief[s]
      BY <2>3, <3>2, <3>4
    <3>7. r \notin crossed => Follows(belief'[r], TRUE, r \in Tracking)
      <4>1. belief[r] \in Beliefs(Prices) /\ (r \in Tracking) \in BOOLEAN
        BY <1>0 DEF TypeOK
      <4> QED
        BY <2>3, <3>3, <4>1, FlippedFollows
    <3>8. r \notin crossed => Follows(belief'[r], Long(r)', r \in Tracking)
      BY <3>5, <3>7 DEF Follows
    <3> QED
      BY <1>0, <2>2, <2>3, <2>4, <3>5, <3>6, <3>8, DropBelief
  <2>5. CASE UNCHANGED log /\ crossed' = crossed \cup {r}
    <3>1. RowsOf(r)' /\ crossed \subseteq crossed' /\ r \in crossed'
      BY <2>5 DEF BeliefInv, RowsOf, Long
    <3> QED
      BY <1>0, <2>2, <2>3, <2>5, <3>1, DropBelief
  <2> QED
    BY <2>2, <2>4, <2>5
<1>15. CASE NothingExecuted \/ Cancelled
  <2>1. /\ pass.at \in Slots /\ Resting(pass.at) /\ NoFill
        /\ UNCHANGED <<pc, call, log, crossed>>
    BY <1>0, <1>15 DEF NothingExecuted, Cancelled, TypeOK
  <2>2. pc # "down"
    BY <2>1 DEF TypeInv, BookTypes
  <2> QED
    BY <1>0, <2>1, <2>2, NoFillBelief
<1> QED
  BY <1>1, <1>2, <1>4, <1>5, <1>6, <1>7, <1>8, <1>9, <1>10, <1>11, <1>12,
     <1>13, <1>14, <1>15 DEF Next, Handle, Reconcile

\* A slot whose strategy was left alone while its entry rested is long while it
\* rests, and believes what its log says when it does not, however the entry ended.
THEOREM AlwaysUndisturbedBelief == Spec => []UndisturbedBelief
<1>1. BeliefInv => UndisturbedBelief
  BY DEF BeliefInv, RowsOf, BeliefOf, Handling, UndisturbedBelief, Flipped, Follows
<1>2. Init => BeliefInv
  BY BeliefInit
<1>3. (TypeInv /\ OrderInv) /\ BeliefInv /\ [Next]_vars => BeliefInv'
  BY BeliefNext
<1> QED
  BY <1>1, <1>2, <1>3, OrderInvariant, PTL DEF Spec

-----------------------------------------------------------------------------
(* Coin *)

\* What order i executed and no row shows.
Missing == [i \in DOMAIN limits |-> limits[i].exec - limits[i].logged]

Unlogged(s) == SumOver(Missing, Mine(s))

\* What the market order of slot s has moved and no row shows yet.
InFlight(s) == IF pc = "executed" /\ call.slot = s THEN Effect(call) ELSE 0

Balanced(s) == exch[s] = log[s].open + orphan[s] + Unlogged(s) + InFlight(s)

\* A sell is of coin the log holds, so its row takes all of it off.
SellIsCovered ==
  /\ pc = "balance" => call.side = "buy"
  /\ pc \in {"sized", "placed", "executed"} /\ call.side = "sell" =>
       call.qty <= log[call.slot].open

CoinInv == SellIsCovered /\ \A s \in Slots : Balanced(s)

\* The terms of the sum are integers and finite in number.
LEMMA MissingFacts ==
  ASSUME TypeOK
  PROVE  /\ \A i \in DOMAIN limits : limits[i] \in LimitOrders /\ Missing[i] \in Int
         /\ \A s \in Slots : /\ Mine(s) \subseteq DOMAIN limits
                             /\ IsFiniteSet(Mine(s))
                             /\ Unlogged(s) \in Int
<1>1. \A i \in DOMAIN limits : limits[i] \in LimitOrders
  BY LenProperties, ElementOfSeq DEF TypeOK
<1>2. \A i \in DOMAIN limits : Missing[i] \in Int
  BY <1>1 DEF Missing, LimitOrders
<1>3. DOMAIN limits = 1..Len(limits) /\ Len(limits) \in Nat
  BY LenProperties DEF TypeOK
<1>4. IsFiniteSet(DOMAIN limits)
  BY <1>3, FS_Interval
<1>5. ASSUME NEW s \in Slots
      PROVE  Mine(s) \subseteq DOMAIN limits /\ IsFiniteSet(Mine(s)) /\ Unlogged(s) \in Int
  <2>1. Mine(s) \subseteq DOMAIN limits
    BY DEF Mine
  <2>2. IsFiniteSet(Mine(s))
    BY <1>4, <2>1, FS_Subset
  <2>3. PICK S, d : S = Mine(s) /\ d = Missing
    OBVIOUS
  <2>4. SumOver(d, S) \in Int
    BY <1>2, <2>1, <2>2, <2>3, SumStep
  <2> QED
    BY <2>1, <2>2, <2>3, <2>4 DEF Unlogged
<1> QED
  BY <1>1, <1>2, <1>5

\* The fold that CoinIsAccountedFor is written with is that sum.
LEMMA FoldIsUnlogged ==
  ASSUME TypeOK, NEW s \in Slots
  PROVE  MapThenSumSet(LAMBDA i : limits[i].exec - limits[i].logged, Mine(s)) = Unlogged(s)
<1>1. PICK S, d : S = Mine(s) /\ d = Missing
  OBVIOUS
<1>2. IsFiniteSet(S) /\ \A x \in S : d[x] \in Int /\ d[x] = limits[x].exec - limits[x].logged
  BY <1>1, MissingFacts DEF Missing
<1> DEFINE body(g) == [t \in SUBSET S |->
                         IF t = {} THEN 0
                         ELSE (limits[Pick(t)].exec - limits[Pick(t)].logged) + g[t \ {Pick(t)}]]
           f == CHOOSE g : g = body(g)
<1>3. MapThenSumSet(LAMBDA i : limits[i].exec - limits[i].logged, S) = f[S]
  BY DEF MapThenSumSet, MapThenFoldSet, Pick
<1>4. PICK h : IsFold(h, d, S)
  BY <1>2, FoldExists
<1>5. h = body(h)
  <2>1. h = [t \in SUBSET S |-> h[t]]
    BY <1>4 DEF IsFold
  <2>2. ASSUME NEW t \in SUBSET S
        PROVE  h[t] = IF t = {} THEN 0
                      ELSE (limits[Pick(t)].exec - limits[Pick(t)].logged) + h[t \ {Pick(t)}]
    <3>1. t # {} => Pick(t) \in S
      BY PickIn
    <3> QED
      BY <1>2, <1>4, <3>1 DEF IsFold
  <2> QED
    BY <2>1, <2>2
<1>6. f = body(f)
  BY <1>5
<1>7. PICK g : g = f
  OBVIOUS
<1> HIDE DEF f
<1>8. g = [t \in SUBSET S |-> IF t = {} THEN 0 ELSE d[Pick(t)] + g[t \ {Pick(t)}]]
  <2>1. g = body(g)
    BY <1>6, <1>7
  <2>2. ASSUME NEW t \in SUBSET S
        PROVE  (IF t = {} THEN 0
                 ELSE (limits[Pick(t)].exec - limits[Pick(t)].logged) + g[t \ {Pick(t)}])
               = (IF t = {} THEN 0 ELSE d[Pick(t)] + g[t \ {Pick(t)}])
    <3>1. t # {} => Pick(t) \in S
      BY PickIn
    <3> QED
      BY <1>2, <3>1
  <2> QED
    BY <2>1, <2>2
<1>9. IsFold(g, d, S)
  BY <1>2, <1>8, FoldTyped
<1> QED
  BY <1>1, <1>2, <1>3, <1>7, <1>9, SumIs DEF Unlogged

\* Orders that keep their slots and what they have moved and shown keep the sum.
LEMMA UnloggedSame ==
  ASSUME TypeOK, DOMAIN limits' = DOMAIN limits,
         \A i \in DOMAIN limits :
           /\ limits'[i].slot = limits[i].slot
           /\ limits'[i].exec - limits'[i].logged = limits[i].exec - limits[i].logged,
         NEW s \in Slots
  PROVE  Unlogged(s)' = Unlogged(s)
<1>1. Mine(s)' = Mine(s)
  BY DEF Mine
<1>2. PICK S, d, e : S = Mine(s) /\ d = Missing /\ e = Missing'
  OBVIOUS
<1>3. IsFiniteSet(S) /\ \A x \in S : d[x] \in Int /\ e[x] = d[x]
  <2>1. S \subseteq DOMAIN limits
    BY <1>2, MissingFacts
  <2> QED
    BY <1>2, <2>1, MissingFacts DEF Missing
<1>4. SumOver(e, S) = SumOver(d, S)
  BY <1>3, SumSame
<1> QED
  BY <1>1, <1>2, <1>4 DEF Unlogged

\* What one order executes, or a row shows of it, moves the sum of its slot.
LEMMA UnloggedMoves ==
  ASSUME TypeOK, NEW i \in DOMAIN limits, NEW o \in LimitOrders, Becomes(i, o),
         o.slot = limits[i].slot, NEW s \in Slots
  PROVE  Unlogged(s)' =
           IF s = limits[i].slot
           THEN Unlogged(s) + (o.exec - o.logged) - (limits[i].exec - limits[i].logged)
           ELSE Unlogged(s)
<1>1. Mine(s)' = Mine(s)
  BY DEF Mine, Becomes
<1>2. PICK S, d, e : S = Mine(s) /\ d = Missing /\ e = Missing'
  OBVIOUS
<1>3. /\ IsFiniteSet(S) /\ S \subseteq DOMAIN limits
      /\ \A x \in S : d[x] \in Int
      /\ \A x \in S : x # i => e[x] = d[x]
      /\ d[i] = limits[i].exec - limits[i].logged
      /\ e[i] = o.exec - o.logged /\ e[i] \in Int
  <2>1. S \subseteq DOMAIN limits /\ IsFiniteSet(S)
    BY <1>2, MissingFacts
  <2>2. o.exec - o.logged \in Int
    BY DEF LimitOrders
  <2> QED
    BY <1>2, <2>1, <2>2, MissingFacts DEF Missing, Becomes
<1>4. CASE s = limits[i].slot
  <2>1. i \in S
    BY <1>2, <1>4 DEF Mine
  <2>2. SumOver(e, S) = SumOver(d, S) + e[i] - d[i]
    BY <1>3, <2>1, SumChange
  <2>3. SumOver(d, S) \in Int /\ d[i] \in Int
    BY <1>3, <2>1, SumStep
  <2>4. SumOver(e, S) = SumOver(d, S) + (o.exec - o.logged)
                          - (limits[i].exec - limits[i].logged)
    BY <1>3, <2>2, <2>3
  <2> QED
    BY <1>1, <1>2, <1>4, <2>4 DEF Unlogged
<1>5. CASE s # limits[i].slot
  <2>1. i \notin S
    BY <1>2, <1>5 DEF Mine
  <2>2. \A x \in S : d[x] \in Int /\ e[x] = d[x]
    BY <1>3, <2>1
  <2>3. SumOver(e, S) = SumOver(d, S)
    BY <1>3, <2>2, SumSame
  <2> QED
    BY <1>1, <1>2, <1>5, <2>3 DEF Unlogged
<1> QED
  BY <1>4, <1>5

\* A new order has moved nothing.
LEMMA UnloggedJoins ==
  ASSUME TypeOK, AcceptLimit, NEW s \in Slots
  PROVE  Unlogged(s)' = Unlogged(s)
<1>0. Len(limits') \in Nat
  BY AcceptFacts
<1>1. PICK o \in LimitOrders, n \in Nat :
        /\ n = Len(limits')
        /\ o = [slot |-> call.slot, qty |-> call.qty, state |-> "open",
                exec |-> 0, logged |-> 0, stray |-> FALSE]
        /\ DOMAIN limits' = DOMAIN limits \cup {n}
        /\ n \notin DOMAIN limits
        /\ limits'[n] = o
        /\ \A j \in DOMAIN limits : limits'[j] = limits[j]
  BY <1>0, AcceptFacts
<1>2. o.slot = call.slot /\ o.exec = 0 /\ o.logged = 0
  BY <1>1
<1>3. PICK S, T, d, e : S = Mine(s) /\ T = Mine(s)' /\ d = Missing /\ e = Missing'
  OBVIOUS
<1>4. /\ IsFiniteSet(S) /\ n \notin S /\ T = S \cup (IF s = call.slot THEN {n} ELSE {})
      /\ \A x \in S : d[x] \in Int /\ e[x] = d[x]
      /\ e[n] = 0
  <2>1. S \subseteq DOMAIN limits /\ IsFiniteSet(S) /\ n \notin S
    BY <1>1, <1>3, MissingFacts
  <2>2. T = S \cup (IF s = call.slot THEN {n} ELSE {})
    BY <1>1, <1>2, <1>3 DEF Mine
  <2>3. \A x \in S : d[x] \in Int /\ e[x] = d[x]
    BY <1>1, <1>3, <2>1, MissingFacts DEF Missing
  <2>4. e[n] = 0
    BY <1>1, <1>2, <1>3 DEF Missing
  <2> QED
    BY <2>1, <2>2, <2>3, <2>4
<1>5. SumOver(e, S) = SumOver(d, S) /\ SumOver(e, S) \in Int
  <2>1. \A x \in S : e[x] \in Int
    BY <1>4
  <2> QED
    BY <1>4, <2>1, SumSame, SumStep
<1>6. SumOver(e, T) = SumOver(d, S)
  <2>1. CASE s = call.slot
    <3>1. \A y \in S \cup {n} : e[y] \in Int
      BY <1>4
    <3>2. SumOver(e, S \cup {n}) = SumOver(e, S) + e[n]
      BY <1>4, <3>1, SumAdd
    <3> QED
      BY <1>4, <1>5, <2>1, <3>2
  <2>2. CASE s # call.slot
    BY <1>4, <1>5, <2>2
  <2> QED
    BY <2>1, <2>2
<1> QED
  BY <1>3, <1>6 DEF Unlogged

\* At the start nothing has moved.
LEMMA CoinInit == Init => CoinInv
<1> SUFFICES ASSUME Init PROVE CoinInv
  OBVIOUS
<1>1. SellIsCovered
  BY DEF Init, SellIsCovered
<1>2. ASSUME NEW s \in Slots PROVE Balanced(s)
  <2>1. Mine(s) = {} /\ IsFiniteSet({}) /\ \A x \in {} : Missing[x] \in Int
    BY FS_EmptySet DEF Init, Mine
  <2>2. PICK S, d : S = Mine(s) /\ d = Missing
    OBVIOUS
  <2>3. SumOver(d, S) = 0
    BY <2>1, <2>2, SumStep
  <2>4. Unlogged(s) = 0
    BY <2>2, <2>3 DEF Unlogged
  <2>5. exch[s] = 0 /\ orphan[s] = 0 /\ log[s].open = 0 /\ pc = "idle"
    BY DEF Init, EmptyLog
  <2> QED
    BY <2>4, <2>5 DEF Balanced, InFlight
<1> QED
  BY <1>1, <1>2 DEF CoinInv

\* A step that moves no coin and shows none.
LEMMA CoinFrame ==
  ASSUME CoinInv, UNCHANGED <<log, orphan, exch>>,
         \A s \in Slots : Unlogged(s)' = Unlogged(s),
         \/ UNCHANGED <<pc, call>>
         \/ pc # "executed" /\ pc' # "executed" /\ SellIsCovered'
  PROVE  CoinInv'
<1>1. SellIsCovered'
  BY DEF CoinInv, SellIsCovered
<1>2. \A s \in Slots : InFlight(s)' = InFlight(s)
  BY DEF InFlight, Effect
<1>3. \A s \in Slots : Balanced(s)'
  BY <1>2 DEF CoinInv, Balanced
<1> QED
  BY <1>1, <1>3 DEF CoinInv

\* Orders that do not change keep the sum.
LEMMA UnloggedUnchanged ==
  ASSUME TypeOK, UNCHANGED limits
  PROVE  \A s \in Slots : Unlogged(s)' = Unlogged(s)
  BY UnloggedSame

\* A death loses sight of the orders and moves none.
LEMMA UnloggedDie ==
  ASSUME TypeOK, Die
  PROVE  \A s \in Slots : Unlogged(s)' = Unlogged(s)
<1>1. /\ DOMAIN limits' = DOMAIN limits
      /\ \A i \in DOMAIN limits :
           /\ limits[i] \in LimitOrders
           /\ limits'[i] = [limits[i] EXCEPT !.stray = TRUE]
  BY DieFacts
<1>2. \A i \in DOMAIN limits :
        /\ limits'[i].slot = limits[i].slot
        /\ limits'[i].exec = limits[i].exec /\ limits'[i].logged = limits[i].logged
  BY <1>1 DEF LimitOrders
<1> QED
  BY <1>1, <1>2, UnloggedSame

\* Every term of the balance is an integer.
LEMMA CoinTypes ==
  ASSUME TypeOK, NEW s \in Slots
  PROVE  /\ exch[s] \in Int /\ orphan[s] \in Int /\ log[s] \in Logs(Prices)
         /\ log[s].open \in Nat /\ Unlogged(s) \in Int /\ InFlight(s) \in Int
<1>1. InFlight(s) \in Int
  BY CallFacts DEF InFlight, Busy
<1>2. exch[s] \in Int /\ orphan[s] \in Int /\ log[s] \in Logs(Prices)
  BY DEF TypeOK
<1>3. log[s].open \in Nat
  BY <1>2 DEF Logs
<1> QED
  BY <1>1, <1>2, <1>3, MissingFacts

\* Every step keeps each slot balanced.
LEMMA CoinNext == TypeInv /\ CoinInv /\ [Next]_vars => CoinInv'
<1> SUFFICES ASSUME TypeInv, CoinInv, [Next]_vars PROVE CoinInv'
  OBVIOUS
<1>0. TypeOK
  BY TypesOK
<1> USE DEF reconciler, exchange
<1>1. CASE SkipUnhealthy \/ BalanceCovers \/ BalanceRefuses \/ LossRefuses \/ Rest
           \/ SendOrder \/ Restart \/ (\E s \in Slots : Evaluate(s) \/ Wait(s))
  <2>1. UNCHANGED <<log, orphan, exch, limits>>
    BY <1>1 DEF SkipUnhealthy, BalanceCovers, BalanceRefuses, LossRefuses, Refuse, Rest,
                SendOrder, Restart, Evaluate, Wait
  <2>2. \/ UNCHANGED <<pc, call>>
        \/ pc # "executed" /\ pc' \in {"idle", "signalled"}
        \/ pc = "balance" /\ pc' = "sized" /\ UNCHANGED call
        \/ pc = "sized" /\ pc' \in {"posting", "placed"} /\ UNCHANGED call
    BY <1>1 DEF SkipUnhealthy, BalanceCovers, BalanceRefuses, LossRefuses, Refuse, Rest,
                SendOrder, Restart, Evaluate, Wait, Settle
  <2>3. (pc' # "executed" /\ pc # "executed") \/ UNCHANGED <<pc, call>>
    BY <2>2
  <2>4. SellIsCovered'
    BY <2>1, <2>2 DEF SellIsCovered, CoinInv
  <2> QED
    BY <1>0, <2>1, <2>3, <2>4, CoinFrame, UnloggedUnchanged
<1>2. CASE SizeBuy
  <2>1. UNCHANGED <<log, orphan, exch>> /\ pc # "executed" /\ pc' \in {"down", "balance"}
        /\ (UNCHANGED limits \/ Die)
    BY <1>2 DEF SizeBuy, Die
  <2>2. pc' = "balance" => call'.side = "buy"
    BY <1>0, <1>2, CallFacts DEF SizeBuy, Die, Busy, Calls
  <2>3. SellIsCovered' /\ pc' # "executed"
    BY <2>1, <2>2 DEF SellIsCovered
  <2> QED
    BY <1>0, <2>1, <2>3, CoinFrame, UnloggedUnchanged, UnloggedDie
<1>3. CASE SizeSell
  <2>1. PICK s \in Slots : s = call.slot
    BY <1>0, <1>3, CallFacts DEF SizeSell, Busy
  <2>2. UNCHANGED <<log, orphan, exch, limits>> /\ pc # "executed" /\ pc' \in {"idle", "sized"}
    BY <1>3 DEF SizeSell, Refuse, Settle
  <2>3. pc' = "sized" => call' = [call EXCEPT !.qty = Sellable(log[s])]
    BY <1>3, <2>1 DEF SizeSell, Refuse, Settle
  <2>4. Sellable(log[s]) <= log[s].open
    BY <1>0, CoinTypes, FloorFacts DEF Sellable
  <2>5. pc' = "sized" => call'.slot = s /\ call'.qty = Sellable(log[s])
    BY <1>0, <1>3, <2>1, <2>3, CallFacts DEF SizeSell, Busy, Calls
  <2>6. SellIsCovered' /\ pc' # "executed"
    BY <2>2, <2>4, <2>5 DEF SellIsCovered
  <2> QED
    BY <1>0, <2>2, <2>6, CoinFrame, UnloggedUnchanged
<1>4. CASE AcceptLimit
  <2>1. UNCHANGED <<log, orphan, exch>> /\ pc # "executed" /\ pc' = "posted"
    BY <1>4 DEF AcceptLimit
  <2>2. SellIsCovered'
    BY <2>1 DEF SellIsCovered
  <2> QED
    BY <1>0, <1>4, <2>1, <2>2, CoinFrame, UnloggedJoins
<1>5. CASE ExecuteMarket
  <2>1. PICK x \in Slots, n \in Int : x = call.slot /\ n = Effect(call)
    BY <1>0, <1>5, CallFacts DEF ExecuteMarket, Busy
  <2>2. /\ pc = "placed" /\ pc' = "executed" /\ UNCHANGED <<call, log, orphan, limits>>
        /\ exch' = [exch EXCEPT ![x] = exch[x] + n]
    BY <1>5, <2>1 DEF ExecuteMarket
  <2>3. SellIsCovered'
    BY <2>2 DEF SellIsCovered, CoinInv
  <2>4. ASSUME NEW s \in Slots PROVE Balanced(s)'
    <3>1. Unlogged(s)' = Unlogged(s)
      BY <1>0, <2>2, UnloggedUnchanged
    <3>2. InFlight(s) = 0 /\ InFlight(s)' = IF s = x THEN n ELSE 0
      BY <2>1, <2>2 DEF InFlight, Effect
    <3>3. exch'[s] = IF s = x THEN exch[s] + n ELSE exch[s]
      BY <1>0, <2>2 DEF TypeOK
    <3>4. exch[s] = log[s].open + orphan[s] + Unlogged(s) + 0
      BY <3>2 DEF CoinInv, Balanced
    <3>5. exch'[s] = log[s].open + orphan[s] + Unlogged(s) + InFlight(s)'
      BY <1>0, <3>2, <3>3, <3>4, CoinTypes
    <3> QED
      BY <2>2, <3>1, <3>5 DEF Balanced
  <2> QED
    BY <2>3, <2>4 DEF CoinInv
<1>6. CASE Record
  <2>1. PICK x \in Slots, side \in {"buy", "sell"}, p \in Prices, q \in Nat :
          x = call.slot /\ side = call.side /\ p = call.price /\ q = call.qty
    BY <1>0, <1>6, CallFacts DEF Record, Busy
  <2>2. /\ pc = "executed" /\ pc' = "idle" /\ UNCHANGED <<exch, orphan, limits>>
        /\ log' = [log EXCEPT ![x] = Recorded(log[x], side, p, q, FALSE)]
    BY <1>6, <2>1 DEF Record, Settle
  <2>3. SellIsCovered'
    BY <2>2 DEF SellIsCovered
  <2>4. side = "sell" => q <= log[x].open
    BY <2>1, <2>2 DEF CoinInv, SellIsCovered
  <2>5. ASSUME NEW s \in Slots PROVE Balanced(s)'
    <3>1. Unlogged(s)' = Unlogged(s)
      BY <1>0, <2>2, UnloggedUnchanged
    <3>2. InFlight(s)' = 0
          /\ InFlight(s) = IF s = x THEN (IF side = "buy" THEN q ELSE -q) ELSE 0
      BY <2>1, <2>2 DEF InFlight, Effect
    <3>3. log'[s] = IF s = x THEN Recorded(log[s], side, p, q, FALSE) ELSE log[s]
      BY <1>0, <2>2 DEF TypeOK
    <3>4. log'[s].open = IF s = x THEN (IF side = "buy" THEN log[s].open + q
                                                     ELSE log[s].open - q)
                                  ELSE log[s].open
      <4>1. log[s].open \in Nat
        BY <1>0, CoinTypes
      <4>2. CASE side = "buy"
        BY <3>3, <4>2 DEF Recorded, Bought
      <4>3. CASE side = "sell"
        <5>1. s = x => Less(log[s].open, q) = log[s].open - q
          BY <2>4, <4>1, <4>3 DEF Less
        <5> QED
          BY <3>3, <4>3, <5>1 DEF Recorded, Sold
      <4> QED
        BY <4>2, <4>3
    <3>5. exch[s] = log[s].open + orphan[s] + Unlogged(s) + InFlight(s)
      BY DEF CoinInv, Balanced
    <3>6. exch[s] = log'[s].open + orphan[s] + Unlogged(s) + 0
      BY <1>0, <3>2, <3>4, <3>5, CoinTypes
    <3> QED
      BY <2>2, <3>1, <3>2, <3>6 DEF Balanced
  <2> QED
    BY <2>3, <2>5 DEF CoinInv
<1>7. CASE Crash
  <2>1. UNCHANGED <<log, orphan, exch>> /\ pc # "executed" /\ pc' = "down" /\ Die
    BY <1>7 DEF Crash, Die
  <2>2. SellIsCovered'
    BY <2>1 DEF SellIsCovered
  <2> QED
    BY <1>0, <2>1, <2>2, CoinFrame, UnloggedDie
<1>8. CASE OrderFails
  <2>1. UNCHANGED <<log, exch>> /\ pc' = "down" /\ Die
    BY <1>8 DEF OrderFails, Die
  <2>2. SellIsCovered'
    BY <2>1 DEF SellIsCovered
  <2>3. PICK x \in Slots, n \in Int : x = call.slot /\ n = Effect(call)
    BY <1>0, <1>8, CallFacts DEF OrderFails, Busy
  <2>4. orphan' = IF pc = "executed" THEN [orphan EXCEPT ![x] = orphan[x] + n] ELSE orphan
    BY <1>8, <2>3 DEF OrderFails
  <2>5. ASSUME NEW s \in Slots PROVE Balanced(s)'
    <3>1. Unlogged(s)' = Unlogged(s)
      BY <1>0, <2>1, UnloggedDie
    <3>2. InFlight(s)' = 0 /\ InFlight(s) = IF pc = "executed" /\ s = x THEN n ELSE 0
      BY <2>1, <2>3 DEF InFlight
    <3>3. orphan'[s] = orphan[s] + InFlight(s)
      BY <1>0, <2>4, <3>2, CoinTypes DEF TypeOK
    <3>4. exch[s] = log[s].open + orphan[s] + Unlogged(s) + InFlight(s)
      BY DEF CoinInv, Balanced
    <3>5. exch[s] = log[s].open + orphan'[s] + Unlogged(s) + 0
      BY <1>0, <3>3, <3>4, CoinTypes
    <3> QED
      BY <2>1, <3>1, <3>2, <3>5 DEF Balanced
  <2> QED
    BY <2>2, <2>5 DEF CoinInv
<1>9. CASE FillLimit
  <2>1. PICK i \in DOMAIN limits, e \in Nat, st \in States, x \in Slots :
          /\ limits[i] \in LimitOrders /\ x = limits[i].slot
          /\ Becomes(i, [limits[i] EXCEPT !.exec = e, !.state = st])
          /\ exch' = [exch EXCEPT ![x] = exch[x] + e - limits[i].exec]
    <3>1. PICK i \in DOMAIN limits, e \in Nat, st \in States :
            /\ limits[i] \in LimitOrders
            /\ Becomes(i, [limits[i] EXCEPT !.exec = e, !.state = st])
            /\ exch' = [exch EXCEPT
                 ![limits[i].slot] = exch[limits[i].slot] + e - limits[i].exec]
      BY <1>0, <1>9, FillLimitFacts
    <3>2. limits[i].slot \in Slots
      BY <3>1 DEF LimitOrders
    <3> QED
      BY <3>1, <3>2
  <2> DEFINE o == [limits[i] EXCEPT !.exec = e, !.state = st]
  <2>2. o \in LimitOrders /\ o.slot = x /\ o.exec = e /\ o.logged = limits[i].logged
    BY <2>1 DEF LimitOrders, States
  <2>3. UNCHANGED <<pc, call, log, orphan>>
    BY <1>9 DEF FillLimit
  <2>4. SellIsCovered'
    BY <2>3 DEF CoinInv, SellIsCovered
  <2>5. Becomes(i, o)
    BY <2>1
  <2> HIDE DEF o
  <2>6. ASSUME NEW s \in Slots PROVE Balanced(s)'
    <3>1. limits[i].exec \in Nat /\ limits[i].logged \in Nat
      BY <2>1 DEF LimitOrders
    <3>2. Unlogged(s)' = IF s = x
                         THEN Unlogged(s) + (e - limits[i].logged)
                                - (limits[i].exec - limits[i].logged)
                         ELSE Unlogged(s)
      BY <1>0, <2>1, <2>2, <2>5, UnloggedMoves
    <3>3. exch'[s] = IF s = x THEN exch[s] + e - limits[i].exec ELSE exch[s]
      BY <1>0, <2>1 DEF TypeOK
    <3>4. exch[s] = log[s].open + orphan[s] + Unlogged(s) + InFlight(s)
      BY DEF CoinInv, Balanced
    <3>5. exch'[s] = log[s].open + orphan[s] + Unlogged(s)' + InFlight(s)
      BY <1>0, <3>1, <3>2, <3>3, <3>4, CoinTypes
    <3>6. InFlight(s)' = InFlight(s)
      BY <2>3 DEF InFlight, Effect
    <3> QED
      BY <2>3, <3>5, <3>6 DEF Balanced
  <2> QED
    BY <2>4, <2>6 DEF CoinInv
<1>10. CASE EndLimit
  <2>1. PICK i \in DOMAIN limits :
          /\ limits[i] \in LimitOrders
          /\ Becomes(i, [limits[i] EXCEPT !.state = "canceled"])
    BY <1>0, <1>10, EndLimitFacts
  <2>2. \A j \in DOMAIN limits :
          /\ limits'[j].slot = limits[j].slot
          /\ limits'[j].exec = limits[j].exec /\ limits'[j].logged = limits[j].logged
    BY <2>1 DEF Becomes, LimitOrders
  <2>3. UNCHANGED <<pc, call, log, orphan, exch>> /\ DOMAIN limits' = DOMAIN limits
    BY <1>10, <2>1 DEF EndLimit, Becomes
  <2> QED
    BY <1>0, <2>2, <2>3, CoinFrame, UnloggedSame
<1>11. CASE Cancelled
  <2>1. PICK i, o : i = book[pass.at].txid /\ o = limits[i]
    OBVIOUS
  <2>2. /\ pass.at \in Slots /\ Resting(pass.at)
        /\ \/ Becomes(i, [o EXCEPT !.state = "canceled"])
           \/ UNCHANGED limits
           \/ Becomes(i, [o EXCEPT !.stray = TRUE])
    BY <1>0, <1>11, <2>1, CancelledFacts
  <2>3. i \in DOMAIN limits /\ o \in LimitOrders
    BY <1>0, <2>1, <2>2, EntryFacts
  <2>4. /\ DOMAIN limits' = DOMAIN limits
        /\ \A j \in DOMAIN limits :
             /\ limits'[j].slot = limits[j].slot
             /\ limits'[j].exec = limits[j].exec /\ limits'[j].logged = limits[j].logged
    <3>1. ASSUME NEW n, Becomes(i, n), n.slot = o.slot, n.exec = o.exec,
                 n.logged = o.logged
          PROVE  /\ DOMAIN limits' = DOMAIN limits
                 /\ \A j \in DOMAIN limits :
                      /\ limits'[j].slot = limits[j].slot
                      /\ limits'[j].exec = limits[j].exec
                      /\ limits'[j].logged = limits[j].logged
      BY <2>1, <3>1 DEF Becomes
    <3>2. /\ [o EXCEPT !.state = "canceled"].slot = o.slot
          /\ [o EXCEPT !.state = "canceled"].exec = o.exec
          /\ [o EXCEPT !.state = "canceled"].logged = o.logged
          /\ [o EXCEPT !.stray = TRUE].slot = o.slot
          /\ [o EXCEPT !.stray = TRUE].exec = o.exec
          /\ [o EXCEPT !.stray = TRUE].logged = o.logged
      BY <2>3 DEF LimitOrders
    <3> QED
      BY <2>2, <3>1, <3>2
  <2>5. UNCHANGED <<pc, call, log, orphan, exch>>
    BY <1>11 DEF Cancelled, NoFill
  <2> QED
    BY <1>0, <2>4, <2>5, CoinFrame, UnloggedSame
<1>12. CASE StartPass \/ (\E s \in Slots : Ask(s)) \/ Answer \/ QueryFails
            \/ NothingExecuted \/ StillWorking \/ QuietTick \/ UNCHANGED vars
  <2>1. UNCHANGED <<pc, call, log, orphan, exch, limits>>
    BY <1>12, Zenon DEF StartPass, Ask, Answer, QueryFails, NothingExecuted, StillWorking,
             QuietTick, vars
  <2> QED
    BY <1>0, <2>1, CoinFrame, UnloggedUnchanged
<1>13. CASE FillEntry
  <2>1. PICK x \in Slots, i \in DOMAIN limits, o \in LimitOrders :
          x = pass.at /\ i = book[x].txid /\ o = limits[i] /\ Resting(x)
    BY <1>0, <1>13, FillEntryFacts, EntryFacts
  <2>2. PICK q \in Nat, p \in Prices : q = pass.exec /\ p = book[x].price
    BY <1>0, <1>13, <2>1, EntryFacts, FillEntryFacts
  <2>3. \/ /\ Becomes(i, [o EXCEPT !.logged = o.logged + q])
           /\ log' = [log EXCEPT ![x] = Recorded(log[x], "buy", p, q, FALSE)]
        \/ UNCHANGED <<log, limits>>
    BY <1>0, <1>13, <2>1, <2>2, FillEntryFacts
  <2>4. i \in DOMAIN limits /\ o \in LimitOrders /\ o.slot = x
    BY <1>0, <2>1, EntryFacts
  <2>5. UNCHANGED <<pc, call, exch, orphan>>
    BY <1>13 DEF FillEntry
  <2>6. CASE UNCHANGED <<log, limits>>
    BY <1>0, <2>5, <2>6, CoinFrame, UnloggedUnchanged
  <2>7. CASE /\ Becomes(i, [o EXCEPT !.logged = o.logged + q])
             /\ log' = [log EXCEPT ![x] = Recorded(log[x], "buy", p, q, FALSE)]
    <3>1. PICK n \in LimitOrders :
            /\ Becomes(i, n) /\ n.slot = x /\ n.exec = o.exec /\ n.logged = o.logged + q
      BY <2>1, <2>4, <2>7 DEF LimitOrders
    <3>2. o.exec \in Nat /\ o.logged \in Nat
      BY <2>4 DEF LimitOrders
    <3>3. ASSUME NEW s \in Slots
          PROVE  log'[s].open = IF s = x THEN log[s].open + q ELSE log[s].open
      <4>1. log'[s] = IF s = x THEN Recorded(log[s], "buy", p, q, FALSE) ELSE log[s]
        BY <1>0, <2>7 DEF TypeOK
      <4> QED
        BY <4>1 DEF Recorded, Bought
    <3>4. SellIsCovered'
      <4>1. ASSUME pc \in {"sized", "placed", "executed"}, call.side = "sell"
            PROVE  call.qty <= log'[call.slot].open
        <5>1. call.slot \in Slots /\ call.qty \in Nat /\ call.qty <= log[call.slot].open
          BY <1>0, <4>1, CallFacts DEF Busy, CoinInv, SellIsCovered
        <5>2. log[call.slot].open \in Nat
          BY <1>0, <5>1, CoinTypes
        <5> QED
          BY <3>3, <5>1, <5>2
      <4> QED
        BY <2>5, <4>1 DEF SellIsCovered, CoinInv
    <3>5. ASSUME NEW s \in Slots PROVE Balanced(s)'
      <4>1. Unlogged(s)' = IF s = x
                           THEN Unlogged(s) + (o.exec - (o.logged + q)) - (o.exec - o.logged)
                           ELSE Unlogged(s)
        BY <1>0, <2>1, <2>4, <3>1, UnloggedMoves
      <4>2. exch[s] = log[s].open + orphan[s] + Unlogged(s) + InFlight(s)
        BY DEF CoinInv, Balanced
      <4>3. exch[s] = log'[s].open + orphan[s] + Unlogged(s)' + InFlight(s)
        BY <1>0, <3>2, <3>3, <4>1, <4>2, CoinTypes
      <4>4. InFlight(s)' = InFlight(s)
        BY <2>5 DEF InFlight, Effect
      <4> QED
        BY <2>5, <4>3, <4>4 DEF Balanced
    <3> QED
      BY <3>4, <3>5 DEF CoinInv
  <2> QED
    BY <2>6, <2>7, <2>3
<1> QED
  BY <1>1, <1>2, <1>3, <1>4, <1>5, <1>6, <1>7, <1>8, <1>9, <1>10, <1>11, <1>12,
     <1>13 DEF Next, Handle, Reconcile

\* Coin moved is coin logged, plus what a limit order executed that no row shows,
\* plus orphaned market orders: the rows of the two tasks never overwrite or lose
\* one another.
THEOREM CoinAlwaysAccountedFor == Spec => []CoinIsAccountedFor
<1>1. TypeInv /\ CoinInv => CoinIsAccountedFor
  <2> SUFFICES ASSUME TypeInv, CoinInv, NEW s \in Slots
               PROVE  exch[s] = log[s].open + orphan[s]
                        + MapThenSumSet(LAMBDA i : limits[i].exec - limits[i].logged, Mine(s))
                        + IF pc = "executed" /\ call.slot = s THEN Effect(call) ELSE 0
    BY DEF CoinIsAccountedFor
  <2>1. MapThenSumSet(LAMBDA i : limits[i].exec - limits[i].logged, Mine(s)) = Unlogged(s)
    BY TypesOK, FoldIsUnlogged
  <2> QED
    BY <2>1 DEF CoinInv, Balanced, InFlight
<1>2. Init => CoinInv
  BY CoinInit
<1>3. TypeInv /\ CoinInv /\ [Next]_vars => CoinInv'
  BY CoinNext
<1> QED
  BY <1>1, <1>2, <1>3, TypeInvariant, PTL DEF Spec
=============================================================================
