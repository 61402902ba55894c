-------------------------- MODULE PriceFeed_proofs --------------------------
(***************************************************************************)
(* Theorems about the price feed, for every threshold, timeout and size of *)
(* the queue.  QueueInv numbers what is in the queue, SilenceInv adds up   *)
(* the silence so far and the time until the watchdog looks.  For TypeOK,  *)
(* TasksTyped keeps the backoff timer a time and ModeTyped the two flags;  *)
(* the backoff is a power of two.                                          *)
(***************************************************************************)
EXTENDS PriceFeed, FiniteSetTheorems, TLAPS

\* The latest ticks, and the one the trader took is older than all of them.
QueueInv ==
  /\ queue \in Seq(Nat)
  /\ arrived \in Nat /\ taken \in Nat
  /\ Len(queue) <= QueueMax
  /\ QueueIsLatest
  /\ taken <= arrived - Len(queue)

\* A queue whose last tick is n, without a gap.
Numbered(q, n) == \A i \in 1..Len(q) : q[i] = n - Len(q) + i

\* The tick after the last one of a gapless queue keeps it so.
LEMMA AppendNumbered ==
  ASSUME NEW q \in Seq(Nat), NEW n \in Nat, Numbered(q, n), NEW s, s = Append(q, n + 1)
  PROVE  s \in Seq(Nat) /\ Len(s) = Len(q) + 1 /\ Numbered(s, n + 1)
<1>1. n + 1 \in Nat /\ Len(q) \in Nat
  OBVIOUS
<1>2. s \in Seq(Nat) /\ Len(s) = Len(q) + 1
  BY <1>1
<1>3. ASSUME NEW i \in 1..Len(s) PROVE s[i] = (n + 1) - Len(s) + i
  <2>1. CASE i = Len(q) + 1
    <3>1. s[i] = n + 1
      BY <1>1, <2>1
    <3> QED
      BY <1>1, <1>2, <2>1, <3>1
  <2>2. CASE i # Len(q) + 1
    <3>1. i \in 1..Len(q)
      BY <1>1, <1>2, <2>2
    <3>2. s[i] = q[i]
      BY <1>1, <3>1
    <3>3. q[i] = n - Len(q) + i
      BY <3>1 DEF Numbered
    <3> QED
      BY <1>1, <1>2, <3>1, <3>2, <3>3
  <2> QED
    BY <2>1, <2>2
<1> QED
  BY <1>2, <1>3 DEF Numbered

\* Without its oldest tick a gapless queue is still one.
LEMMA TailNumbered ==
  ASSUME NEW q \in Seq(Nat), NEW n \in Nat, Numbered(q, n), q # <<>>, NEW s, s = Tail(q)
  PROVE  s \in Seq(Nat) /\ Len(s) = Len(q) - 1 /\ Numbered(s, n)
<1>1. Len(q) \in Nat /\ Len(q) >= 1
  OBVIOUS
<1>2. s \in Seq(Nat) /\ Len(s) = Len(q) - 1
  OBVIOUS
<1>3. ASSUME NEW i \in 1..Len(s) PROVE s[i] = n - Len(s) + i
  <2>1. i \in Nat /\ i + 1 \in 1..Len(q)
    BY <1>1, <1>2
  <2>2. s[i] = q[i + 1]
    BY <1>2
  <2>3. q[i + 1] = n - Len(q) + (i + 1)
    BY <2>1 DEF Numbered
  <2> QED
    BY <1>1, <1>2, <2>1, <2>2, <2>3
<1> QED
  BY <1>2, <1>3 DEF Numbered

\* What QueueInv says, with Numbered.
LEMMA QueueInvNumbered ==
  QueueInv <=> /\ queue \in Seq(Nat) /\ arrived \in Nat /\ taken \in Nat
               /\ Len(queue) <= QueueMax /\ Numbered(queue, arrived)
               /\ taken <= arrived - Len(queue)
<1>1. queue \in Seq(Nat) => DOMAIN queue = 1..Len(queue)
  OBVIOUS
<1> QED
  BY <1>1 DEF QueueInv, QueueIsLatest, Numbered

\* A gapless queue of the next state that ends with the last tick is the latest ticks.
LEMMA QueuePrime ==
  ASSUME queue' \in Seq(Nat), arrived' \in Nat, taken' \in Nat, Len(queue') <= QueueMax,
         Numbered(queue', arrived'), taken' <= arrived' - Len(queue')
  PROVE  QueueInv'
<1>1. DOMAIN queue' = 1..Len(queue')
  OBVIOUS
<1>2. QueueIsLatest'
  BY <1>1 DEF QueueIsLatest, Numbered
<1> QED
  BY <1>2 DEF QueueInv

\* A tick that joins the queue, with or without an eviction, is its last.
LEMMA PushKeeps ==
  ASSUME QueueInv, queue' = Push(queue, arrived + 1), arrived' = arrived + 1,
         taken' = taken
  PROVE  QueueInv'
<1>1. /\ queue \in Seq(Nat) /\ Len(queue) \in Nat /\ Len(queue) <= QueueMax
      /\ Numbered(queue, arrived)
      /\ arrived \in Nat /\ taken \in Nat /\ taken <= arrived - Len(queue)
  BY QueueInvNumbered
<1> DEFINE q == IF Len(queue) = QueueMax THEN Tail(queue) ELSE queue
<1>2. q \in Seq(Nat) /\ Len(q) <= Len(queue) /\ Len(q) + 1 <= QueueMax /\ Numbered(q, arrived)
  <2>1. CASE Len(queue) = QueueMax
    <3>1. queue # <<>>
      BY <1>1, <2>1, QueueAssumption
    <3>2. q = Tail(queue)
      BY <2>1
    <3> HIDE DEF q
    <3>3. q \in Seq(Nat) /\ Len(q) = Len(queue) - 1 /\ Numbered(q, arrived)
      BY <1>1, <3>1, <3>2, TailNumbered
    <3> QED
      BY <1>1, <2>1, <3>3
  <2>2. CASE Len(queue) # QueueMax
    BY <1>1, <2>2, QueueAssumption
  <2> QED
    BY <2>1, <2>2
<1>3. queue' = Append(q, arrived + 1)
  BY DEF Push
<1> HIDE DEF q
<1>4. queue' \in Seq(Nat) /\ Len(queue') = Len(q) + 1 /\ Numbered(queue', arrived + 1)
  BY <1>1, <1>2, <1>3, AppendNumbered
<1>5. Len(queue') <= QueueMax /\ taken' <= arrived' - Len(queue')
  <2>1. Len(q) \in Nat
    BY <1>2
  <2>2. Len(queue') <= Len(queue) + 1
    BY <1>1, <1>2, <1>4, <2>1
  <2> QED
    BY <1>1, <1>2, <1>4, <2>1, <2>2, QueueAssumption
<1>6. Numbered(queue', arrived') /\ arrived' \in Nat /\ taken' \in Nat
  BY <1>1, <1>4
<1> QED
  BY <1>4, <1>5, <1>6, QueuePrime

\* The trader takes the oldest.
LEMMA TakeKeeps == ASSUME QueueInv, Take PROVE QueueInv'
<1>1. queue # <<>> /\ queue' = Tail(queue) /\ taken' = Head(queue) /\ arrived' = arrived
  BY DEF Take
<1>2. /\ queue \in Seq(Nat) /\ Len(queue) \in Nat /\ Len(queue) <= QueueMax
      /\ Numbered(queue, arrived) /\ arrived \in Nat /\ taken \in Nat
      /\ taken <= arrived - Len(queue)
  BY QueueInvNumbered
<1>3. Len(queue) >= 1 /\ Head(queue) = queue[1]
  BY <1>1, <1>2
<1>4. queue' \in Seq(Nat) /\ Len(queue') = Len(queue) - 1 /\ Numbered(queue', arrived)
  BY <1>1, <1>2, TailNumbered
<1>5. taken' = arrived - Len(queue) + 1
  BY <1>1, <1>2, <1>3 DEF Numbered
<1>6. Len(queue') <= QueueMax /\ taken' \in Nat /\ taken' <= arrived - Len(queue')
  BY <1>2, <1>3, <1>4, <1>5, QueueAssumption
<1>7. Numbered(queue', arrived') /\ arrived' \in Nat
  BY <1>1, <1>2, <1>4
<1> QED
  BY <1>1, <1>4, <1>6, <1>7, QueuePrime

\* What the trader has not seen is the latest ticks, without a gap.
LEMMA QueueNext == QueueInv /\ [Next]_vars => QueueInv'
<1> SUFFICES ASSUME QueueInv, [Next]_vars PROVE QueueInv'
  OBVIOUS
<1>1. CASE Tick
  BY <1>1, PushKeeps DEF Tick
<1>2. CASE Take
  BY <1>2, TakeKeeps
<1>3. CASE Restart
  <2>1. queue' = <<>> /\ arrived' = arrived /\ taken' = taken
    BY <1>3 DEF Restart
  <2>2. <<>> \in Seq(Nat) /\ Len(<<>>) = 0 /\ DOMAIN <<>> = 1..0
    OBVIOUS
  <2>3. Len(queue) \in Nat
    BY DEF QueueInv
  <2> QED
    BY <2>1, <2>2, <2>3, QueueAssumption DEF QueueInv, QueueIsLatest
<1>4. CASE UNCHANGED <<queue, arrived, taken>>
  BY <1>4 DEF QueueInv, QueueIsLatest
<1>5. CASE Feed \/ ConnectFails \/ SendFails \/ ServerCloses \/ Watchdog \/ Handled
  BY <1>4, <1>5 DEF Feed, Connect, LimitEnds, Closed, BackoffEnds, ConnectFails,
     SendFails, ServerCloses, Watchdog, Handled, consumer
<1>6. CASE TraderFails \/ HealthFails \/ Quit \/ Exit \/ Left \/ TimePasses
  BY <1>4, <1>6 DEF TraderFails, HealthFails, Quit, Exit, Left, TimePasses,
     consumer, vars
<1>7. CASE UNCHANGED vars
  BY <1>4, <1>7 DEF vars
<1> QED
  BY <1>1, <1>2, <1>3, <1>5, <1>6, <1>7 DEF Next

\* The empty queue holds the latest none of the ticks.
LEMMA QueueInit == Init => QueueInv
<1>1. <<>> \in Seq(Nat) /\ Len(<<>>) = 0 /\ DOMAIN <<>> = 1..0
  OBVIOUS
<1> QED
  BY <1>1, QueueAssumption DEF Init, QueueInv, QueueIsLatest

\* However slow the trader is, the queue holds the latest ticks in their order.
THEOREM QueueAlwaysLatest == Spec => []QueueIsLatest
<1>1. QueueInv => QueueIsLatest
  BY DEF QueueInv
<1> QED
  BY <1>1, QueueInit, QueueNext, PTL DEF Spec

-----------------------------------------------------------------------------

Phases == {"connecting", "limited", "receiving", "closing", "backoff", "ended"}

\* While the process is up the watchdog runs, and a receive that has been silent
\* for age is looked at before it has been for 2 * Stale.
SilenceInv ==
  /\ phase \in Phases
  /\ age \in {Never} \cup 0..Horizon
  /\ watch \in {Off} \cup 0..Stale
  /\ process = "up" => watch # Off
  /\ process = "up" /\ phase = "receiving" => age # Never /\ age + watch <= 2 * Stale

\* Nothing is silent before the first subscription.
LEMMA SilenceInit == Init => SilenceInv
  BY TimeAssumption DEF Init, SilenceInv, Phases, Never, Off

\* Every step keeps the bound of the silence.
LEMMA SilenceNext == SilenceInv /\ [Next]_vars => SilenceInv'
<1> SUFFICES ASSUME SilenceInv, [Next]_vars PROVE SilenceInv'
  OBVIOUS
<1> USE TimeAssumption DEF SilenceInv, Phases, Never, Off, Horizon
<1>1. CASE Connect
  BY <1>1 DEF Connect
<1>2. CASE ConnectFails
  BY <1>2 DEF ConnectFails, BackOff, clocks
<1>3. CASE LimitEnds \/ BackoffEnds
  BY <1>3 DEF LimitEnds, BackoffEnds, BackOff, clocks
<1>4. CASE Tick
  BY <1>4 DEF Tick
<1>5. CASE SendFails \/ ServerCloses
  BY <1>5 DEF SendFails, ServerCloses, Close, clocks
<1>6. CASE Closed
  BY <1>6 DEF Closed, BackOff, clocks
<1>7. CASE Watchdog
  <2>1. CASE Silent /\ phase = "receiving"
    BY <1>7, <2>1 DEF Watchdog, Close
  <2>2. CASE ~(Silent /\ phase = "receiving")
    BY <1>7, <2>2 DEF Watchdog, Silent
  <2> QED
    BY <2>1, <2>2
<1>8. CASE Take \/ Handled \/ Left
  BY <1>8 DEF Take, Handled, Left, clocks, vars
<1>9. CASE TraderFails
  <2>1. CASE tui
    BY <1>9, <2>1 DEF TraderFails
  <2>2. CASE ~tui
    BY <1>9, <2>2 DEF TraderFails, Cancel, CancelFeed, Close
  <2> QED
    BY <2>1, <2>2
<1>10. CASE HealthFails \/ Quit
  BY <1>10 DEF HealthFails, Quit, Cancel, CancelFeed, Close
<1>11. CASE Exit
  BY <1>11 DEF Exit, clocks
<1>12. CASE Restart
  BY <1>12 DEF Restart
<1>13. CASE TimePasses
  BY <1>13 DEF TimePasses, Older
<1>14. CASE UNCHANGED vars
  BY <1>14 DEF vars
<1> QED
  BY <1>1, <1>2, <1>3, <1>4, <1>5, <1>6, <1>7, <1>8, <1>9, <1>10, <1>11, <1>12,
     <1>13, <1>14 DEF Next, Feed

\* A receive that goes silent is cut after at most two thresholds.
THEOREM SilenceAlwaysBounded == Spec => []SilenceIsBounded
<1>1. SilenceInv => SilenceIsBounded
  BY TimeAssumption DEF SilenceInv, SilenceIsBounded, Never, Off
<1> QED
  BY <1>1, SilenceInit, SilenceNext, PTL DEF Spec

-----------------------------------------------------------------------------

\* A power of two is the size of a power set: the prover has no arithmetic of
\* exponents.
LEMMA PowerOfTwo == ASSUME NEW n \in Nat PROVE 2^n \in Nat
<1>1. IsFiniteSet(1..n) /\ Cardinality(1..n) = n
  BY FS_Interval
<1>2. IsFiniteSet(SUBSET (1..n)) /\ Cardinality(SUBSET (1..n)) = 2^n
  BY <1>1, FS_SUBSET
<1> QED
  BY <1>2, FS_CardinalityType

\* The backoff is a time.
LEMMA WaitIsTime == ASSUME NEW n \in Nat PROVE Wait(n) \in Nat
  BY PowerOfTwo, TimeAssumption DEF Wait

\* What TypeOK says of the variables that neither of the other invariants holds.
TasksTyped ==
  /\ process \in {"up", "closing", "exited"}
  /\ timer \in Nat /\ attempt \in Nat
  /\ trader \in {"waiting", "handling", "failed", "cancelled"}

\* Whatever ends, is cancelled or starts again, the timer stays a time: it is
\* counted down only above zero.
LEMMA TasksTypedNext == TasksTyped /\ [Next]_vars => TasksTyped'
<1> SUFFICES ASSUME TasksTyped, [Next]_vars PROVE TasksTyped'
  OBVIOUS
<1> USE TimeAssumption DEF TasksTyped
<1>1. CASE Connect \/ Tick
  BY <1>1 DEF Connect, Tick, consumer
<1>2. CASE ConnectFails
  <2>1. CASE BackOff
    BY <1>2, <2>1, WaitIsTime DEF ConnectFails, BackOff, clocks, consumer
  <2>2. CASE timer' = LimitTime
    BY <1>2, <2>2 DEF ConnectFails, clocks, consumer
  <2> QED
    BY <1>2, <2>1, <2>2 DEF ConnectFails
<1>3. CASE LimitEnds
  BY <1>3, WaitIsTime DEF LimitEnds, BackOff, clocks, consumer
<1>4. CASE Closed
  <2>1. CASE running
    BY <1>4, <2>1, WaitIsTime DEF Closed, BackOff, clocks, consumer
  <2>2. CASE ~running
    BY <1>4, <2>2 DEF Closed, clocks, consumer
  <2> QED
    BY <2>1, <2>2
<1>5. CASE BackoffEnds
  <2>1. attempt' = attempt + 1 \/ attempt' = attempt
    BY <1>5 DEF BackoffEnds
  <2> QED
    BY <1>5, <2>1 DEF BackoffEnds, clocks, consumer
<1>6. CASE SendFails \/ ServerCloses
  BY <1>6 DEF SendFails, ServerCloses, Close, clocks, consumer
<1>7. CASE Watchdog
  <2>1. timer' = CloseTime \/ timer' = timer
    BY <1>7 DEF Watchdog, Close
  <2> QED
    BY <1>7, <2>1 DEF Watchdog, consumer
<1>8. CASE Take \/ Handled
  BY <1>8 DEF Take, Handled, clocks
<1>9. CASE TraderFails \/ HealthFails \/ Quit
  <2>1. timer' \in {timer, CloseTime, 0}
    BY <1>9 DEF TraderFails, HealthFails, Quit, Cancel, CancelFeed, Close
  <2>2. process' \in {process, "closing"} /\ trader' \in {"failed", "cancelled"}
    BY <1>9 DEF TraderFails, HealthFails, Quit, Cancel
  <2>3. attempt' = attempt
    BY <1>9 DEF TraderFails, HealthFails, Quit
  <2> QED
    BY <2>1, <2>2, <2>3
<1>10. CASE Exit
  BY <1>10 DEF Exit, clocks, consumer
<1>11. CASE Restart
  BY <1>11 DEF Restart
<1>12. CASE TimePasses
  <2>1. timer' \in Nat
    BY <1>12 DEF TimePasses, Asleep
  <2> QED
    BY <1>12, <2>1 DEF TimePasses, consumer
<1>13. CASE Left \/ UNCHANGED vars
  BY <1>13 DEF Left, vars
<1> QED
  BY <1>1, <1>2, <1>3, <1>4, <1>5, <1>6, <1>7, <1>8, <1>9, <1>10, <1>11, <1>12,
     <1>13 DEF Next, Feed

\* Whether the process has a TUI, and whether the feed is to go on.
ModeTyped == tui \in BOOLEAN /\ running \in BOOLEAN

\* Only Stop clears running and only a restart sets it; tui is for ever.
LEMMA ModeTypedNext == ModeTyped /\ [Next]_vars => ModeTyped'
<1> SUFFICES ASSUME ModeTyped, [Next]_vars PROVE ModeTyped'
  OBVIOUS
<1>1. tui' = tui
  BY Zenon DEF Next, Feed, Connect, LimitEnds, Closed, BackoffEnds, ConnectFails,
     SendFails, ServerCloses, Tick, Watchdog, Take, Handled, TraderFails, HealthFails, Quit,
     Exit, Restart, Left, TimePasses, vars
<1>2. running' = running \/ running' = FALSE \/ running' = TRUE
  BY Zenon DEF Next, Feed, Connect, LimitEnds, Closed, BackoffEnds, ConnectFails,
     SendFails, ServerCloses, Tick, Watchdog, Take, Handled, TraderFails, HealthFails, Quit,
     Stop, Exit, Restart, Left, TimePasses, vars
<1> QED
  BY <1>1, <1>2, Zenon DEF ModeTyped

\* What the trader has yet to take arrived, and arrived after what it took.
LEMMA QueueIsNew ==
  QueueInv => Len(queue) <= QueueMax /\ \A i \in DOMAIN queue : queue[i] \in taken + 1 .. arrived
<1> SUFFICES ASSUME QueueInv, NEW i \in DOMAIN queue PROVE queue[i] \in taken + 1 .. arrived
  BY DEF QueueInv
<1>1. DOMAIN queue = 1..Len(queue) /\ Len(queue) \in Nat
  BY DEF QueueInv
<1>2. queue[i] = arrived - Len(queue) + i
  BY DEF QueueInv, QueueIsLatest
<1> QED
  BY <1>1, <1>2 DEF QueueInv

\* Every variable of the feed and of its process keeps its type, and the trader
\* never finds a tick in the queue that it has had.
THEOREM TypeCorrect == Spec => []TypeOK
<1>1. Init => TasksTyped
  BY TimeAssumption DEF Init, TasksTyped
<1>2. Init => ModeTyped
  BY Zenon DEF Init, ModeTyped
<1>3. QueueInv /\ SilenceInv /\ TasksTyped /\ ModeTyped => TypeOK
  <2> SUFFICES ASSUME QueueInv, SilenceInv, TasksTyped, ModeTyped PROVE TypeOK
    OBVIOUS
  <2>1. Len(queue) <= QueueMax /\ \A i \in DOMAIN queue : queue[i] \in taken + 1 .. arrived
    BY QueueIsNew
  <2>2. /\ phase \in Phases
        /\ age \in {Never} \cup 0..Horizon
        /\ watch \in {Off} \cup 0..Stale
    BY DEF SilenceInv
  <2> QED
    BY <2>1, <2>2, Zenon DEF TasksTyped, ModeTyped, Phases, TypeOK
<1> QED
  BY <1>1, <1>2, <1>3, QueueInit, QueueNext, SilenceInit, SilenceNext, TasksTypedNext,
     ModeTypedNext, PTL DEF Spec
=============================================================================
