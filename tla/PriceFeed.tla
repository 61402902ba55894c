----------------------------- MODULE PriceFeed -----------------------------
(***************************************************************************)
(* The tasks of one process (cryptotrader/main.py) around the price feed   *)
(* (cryptotrader/exchange/kraken_ws.py):                                   *)
(*                                                                         *)
(*   the feed      KrakenWebSocket._connect_loop: connect, subscribe,      *)
(*                 receive, close, back off, again (phase);                *)
(*   the watchdog  which every Stale seconds cancels a receive that has    *)
(*                 been silent for longer;                                 *)
(*   the queue     asyncio.Queue(maxsize=QueueMax) of ticks, the oldest    *)
(*                 evicted when it is full;                                *)
(*   the trader    which takes ticks and may raise;                        *)
(*   the process   headless, asyncio.gather of the tasks, or the TUI, which *)
(*                 starts them and waits for nothing but its user.         *)
(*                                                                         *)
(* Time advances in units: whoever is due at an instant runs before the    *)
(* next one, that is, the event loop lags by less than a unit.             *)
(***************************************************************************)
EXTENDS Integers, Sequences

CONSTANTS
  Stale,        \* websocket.stale_threshold
  ConnectTime,  \* timeout of a connection attempt (15 s)
  LimitTime,    \* sleep after HTTP 429 (60 s)
  CloseTime,    \* timeout of a close (3 s)
  MaxWait,      \* cap of the backoff (60 s)
  QueueMax,     \* size of the price queue (100)
  MaxTicks,     \* bound: ticks
  MaxFaults     \* bound: failures of connections and tasks

ASSUME TimeAssumption ==
  /\ Stale \in Nat \ {0} /\ MaxWait \in Nat \ {0}
  /\ ConnectTime \in Nat /\ LimitTime \in Nat /\ CloseTime \in Nat
ASSUME QueueAssumption == QueueMax \in Nat \ {0}
ASSUME BoundAssumption == MaxTicks \in Nat /\ MaxFaults \in Nat

VARIABLES
  tui,       \* whether the process runs the TUI; it never changes
  process,   \* up, closing (asyncio.run cancels what is left) or exited
  running,   \* KrakenWebSocket._running
  phase,     \* where the feed's task is
  timer,     \* time until its sleep or timeout ends
  attempt,   \* _backoff_attempt, kept where the wait is at its cap
  age,       \* time since _last_tick_time, or Never (0.0)
  watch,     \* time until the watchdog looks, or Off
  queue,     \* the price queue, of ticks numbered as they arrive
  arrived,   \* ticks so far
  taken,     \* the last tick the trader took
  trader,    \* waiting, handling, failed (it raised) or cancelled
  faults     \* failures so far

vars == <<tui, process, running, phase, timer, attempt, age, watch, queue,
          arrived, taken, trader, faults>>

Never == -1
Off == -1

\* Bound: times beyond it are not told apart.
Horizon == 2 * Stale + 1

Init ==
  /\ tui \in BOOLEAN
  /\ process = "up" /\ running = TRUE
  /\ phase = "connecting" /\ timer = ConnectTime /\ attempt = 0
  /\ age = Never /\ watch = Stale
  /\ queue = <<>> /\ arrived = 0 /\ taken = 0 /\ trader = "waiting"
  /\ faults = 0

Fault ==
  /\ faults < MaxFaults
  /\ faults' = faults + 1

clocks == <<age, watch>>
consumer == <<queue, arrived, taken, trader>>

-----------------------------------------------------------------------------
(* The feed *)

Wait(n) == IF 2^n < MaxWait THEN 2^n ELSE MaxWait

\* Connected and subscribed: _last_tick_time is set although no tick came.
Connect ==
  /\ phase = "connecting"
  /\ phase' = "receiving" /\ timer' = 0
  /\ age' = 0
  /\ UNCHANGED <<tui, process, running, attempt, watch, consumer, faults>>

\* The wait is computed when the backoff starts, attempt is counted when it ends.
BackOff ==
  /\ phase' = "backoff"
  /\ timer' = Wait(attempt)

\* A timeout, a rejected handshake or any other exception of connecting.
ConnectFails ==
  /\ phase = "connecting"
  /\ Fault
  /\ \/ BackOff
     \/ phase' = "limited" /\ timer' = LimitTime
  /\ UNCHANGED <<tui, process, running, attempt, clocks, consumer>>

LimitEnds ==
  /\ phase = "limited" /\ timer = 0
  /\ BackOff
  /\ UNCHANGED <<tui, process, running, attempt, clocks, consumer, faults>>

\* Mutant of Push: nothing bounds the queue.
PushAlways(q, tick) == Append(q, tick)

\* Mutant of Push: a tick that finds the queue full is dropped.
PushUnlessFull(q, tick) == IF Len(q) = QueueMax THEN q ELSE Append(q, tick)

\* put_nowait, after evicting the oldest tick if the queue is full.
Push(q, tick) == Append(IF Len(q) = QueueMax THEN Tail(q) ELSE q, tick)

Tick ==
  /\ phase = "receiving"
  /\ arrived < MaxTicks
  /\ arrived' = arrived + 1
  /\ queue' = Push(queue, arrived + 1)
  /\ age' = 0
  /\ attempt' = 0
  /\ UNCHANGED <<tui, process, running, phase, timer, watch, taken, trader, faults>>

Close == phase' = "closing" /\ timer' = CloseTime

\* The server closes, with code 1000 (the hourly session refresh) or another.
ServerCloses ==
  /\ phase = "receiving"
  /\ Fault
  /\ Close
  /\ attempt' \in {attempt, 0}
  /\ UNCHANGED <<tui, process, running, clocks, consumer>>

\* The connection stands but the subscription cannot be sent on it.
SendFails ==
  /\ phase = "connecting"
  /\ Fault
  /\ Close
  /\ attempt' \in {attempt, 0}
  /\ UNCHANGED <<tui, process, running, clocks, consumer>>

\* ws.close() returns, at the latest at its timeout.
Closed ==
  /\ phase = "closing"
  /\ IF running THEN BackOff ELSE phase' = "ended" /\ timer' = 0
  /\ UNCHANGED <<tui, process, running, attempt, clocks, consumer, faults>>

BackoffEnds ==
  /\ phase = "backoff" /\ timer = 0
  /\ phase' = "connecting" /\ timer' = ConnectTime
  /\ attempt' = IF 2^attempt < MaxWait THEN attempt + 1 ELSE attempt
  /\ UNCHANGED <<tui, process, running, clocks, consumer, faults>>

\* Mutant of Silent: the watchdog waits for the second threshold.
SilentTwice == age # Never /\ age >= 2 * Stale

Silent == age # Never /\ age > Stale

\* Mutant of Watchdog: the feed does not catch the cancellation.
WatchdogEndsFeed ==
  /\ watch = 0
  /\ watch' = Stale
  /\ phase' = IF Silent /\ phase = "receiving" THEN "ended" ELSE phase
  /\ UNCHANGED <<tui, process, running, timer, attempt, age, consumer, faults>>

\* The watchdog cancels the receive, which the feed catches as a reconnection.
Watchdog ==
  /\ watch = 0
  /\ watch' = Stale
  /\ IF Silent /\ phase = "receiving" THEN Close ELSE UNCHANGED <<phase, timer>>
  /\ UNCHANGED <<tui, process, running, attempt, age, consumer, faults>>

-----------------------------------------------------------------------------
(* The trader and the process *)

Take ==
  /\ trader = "waiting"
  /\ queue # <<>>
  /\ trader' = "handling"
  /\ taken' = Head(queue)
  /\ queue' = Tail(queue)
  /\ UNCHANGED <<tui, process, running, phase, timer, attempt, clocks, arrived, faults>>

Handled ==
  /\ trader = "handling"
  /\ trader' = "waiting"
  /\ UNCHANGED <<tui, process, running, phase, timer, attempt, clocks, queue, arrived,
                 taken, faults>>

\* task.cancel(): a receive that is cancelled is caught and closed like one the
\* watchdog cancelled; any other await of the feed ends it.
CancelFeed ==
  IF phase = "receiving" THEN Close ELSE phase' = "ended" /\ timer' = 0

\* asyncio.run cancels every task when main returns or raises, and waits for them.
Cancel(t) ==
  /\ process' = "closing"
  /\ CancelFeed
  /\ watch' = Off
  /\ trader' = t

\* The trader raises: the hard cap, a failed order or a row.  Headless, gather
\* raises with it; nobody awaits the tasks of the TUI.
TraderFails ==
  /\ process = "up"
  /\ trader = "handling"
  /\ Fault
  /\ IF tui
     THEN trader' = "failed" /\ UNCHANGED <<process, phase, timer, watch>>
     ELSE Cancel("failed")
  /\ UNCHANGED <<tui, running, attempt, age, queue, arrived, taken>>

\* The health server raises, for instance because its port is taken.
HealthFails ==
  /\ process = "up"
  /\ ~tui
  /\ Fault
  /\ Cancel("cancelled")
  /\ UNCHANGED <<tui, running, attempt, age, queue, arrived, taken>>

\* Mutant of Stop: stop() only cancels the receive.
StopCancels == UNCHANGED running

\* KrakenWebSocket.stop.
Stop == running' = FALSE

\* The user leaves the TUI: stop(), then every task is cancelled.
Quit ==
  /\ tui
  /\ process = "up"
  /\ Stop
  /\ Cancel("cancelled")
  /\ UNCHANGED <<tui, attempt, age, queue, arrived, taken, faults>>

Exit ==
  /\ process = "closing"
  /\ phase = "ended"
  /\ process' = "exited"
  /\ UNCHANGED <<tui, running, phase, timer, attempt, clocks, consumer, faults>>

\* Restart=always: systemd starts the service again once it has exited.
Restart ==
  /\ ~tui
  /\ process = "exited"
  /\ process' = "up" /\ running' = TRUE
  /\ phase' = "connecting" /\ timer' = ConnectTime /\ attempt' = 0
  /\ age' = Never /\ watch' = Stale
  /\ queue' = <<>> /\ trader' = "waiting"
  /\ UNCHANGED <<tui, arrived, taken, faults>>

\* A TUI that was left stays so.
Left == tui /\ process = "exited" /\ UNCHANGED vars

Older(t) == IF t = Never \/ t = Horizon THEN t ELSE t + 1

Asleep == phase \in {"connecting", "limited", "closing", "backoff"}

TimePasses ==
  /\ process # "exited"
  /\ Asleep => timer > 0
  /\ watch # 0
  /\ timer' = IF Asleep THEN timer - 1 ELSE timer
  /\ watch' = IF watch = Off THEN Off ELSE watch - 1
  /\ age' = Older(age)
  /\ UNCHANGED <<tui, process, running, phase, attempt, consumer, faults>>

Feed == Connect \/ LimitEnds \/ Closed \/ BackoffEnds

Next ==
  \/ Feed \/ ConnectFails \/ SendFails \/ ServerCloses \/ Tick
  \/ Watchdog
  \/ Take \/ Handled
  \/ TraderFails \/ HealthFails \/ Quit \/ Exit \/ Restart \/ Left
  \/ TimePasses

Spec == Init /\ [][Next]_vars

\* Time passes, every timer is served, a connection attempt ends, and systemd
\* restarts a service that exited.
FairSpec ==
  /\ Spec
  /\ WF_vars(TimePasses) /\ WF_vars(Feed) /\ WF_vars(Watchdog)
  /\ WF_vars(Take \/ Handled)
  /\ WF_vars(Exit) /\ WF_vars(Restart)

-----------------------------------------------------------------------------
(* Properties *)

TypeOK ==
  /\ tui \in BOOLEAN
  /\ process \in {"up", "closing", "exited"}
  /\ running \in BOOLEAN
  /\ phase \in {"connecting", "limited", "receiving", "closing", "backoff", "ended"}
  /\ timer \in Nat /\ attempt \in Nat
  /\ age \in {Never} \cup 0..Horizon
  /\ watch \in {Off} \cup 0..Stale
  /\ Len(queue) <= QueueMax
  /\ \A i \in DOMAIN queue : queue[i] \in taken + 1 .. arrived
  /\ trader \in {"waiting", "handling", "failed", "cancelled"}

\* However slow the trader is, what it has not seen is the latest ticks, in
\* their order and without a gap: a full queue loses the oldest, never the
\* price of now ("evict oldest stale tick").
QueueIsLatest ==
  \A i \in DOMAIN queue : queue[i] = arrived - Len(queue) + i

\* A receive that goes silent is cut after at most two thresholds, whatever the
\* phase between the watchdog and the last tick: the check is strict and comes
\* once per threshold.
SilenceIsBounded ==
  process = "up" /\ phase = "receiving" => age <= 2 * Stale

\* As long as the process is up, the feed comes back from whatever ended it.
FeedRecovers == process = "up" ~> phase = "receiving" \/ process # "up"

\* A user who leaves the TUI gets the terminal back.
QuitEnds == tui /\ process = "closing" ~> process = "exited"

-----------------------------------------------------------------------------
(* What the documentation says and the code does not do *)

\* cryptotrader.service:14 "Restart=always": after an exception of the trader
\* the service (no TUI) trades again.
TradingResumes == trader = "failed" /\ ~tui ~> trader = "waiting"
=============================================================================
