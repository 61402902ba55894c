---------------------------- MODULE PaperTrader ----------------------------
(***************************************************************************)
(* Test mode: all four strategies run on every pair over simulated orders  *)
(* (Trader.run, TradeExecutor.execute and the tick-driven half of the      *)
(* maker book: on_tick, expire_due), from ticks to candles, candles to     *)
(* decisions and decisions to rows, with restarts from the database.       *)
(*                                                                         *)
(* No order leaves the process, so nothing is awaited while a tick is      *)
(* handled; but a process may die anywhere.  A tick first resolves the     *)
(* book, then the strategies of its pair evaluate it in turn.              *)
(***************************************************************************)
EXTENDS TradeLog, Backtest, Candles, FiniteSetsExt

CONSTANTS
  Pairs,       \* the configured pairs
  Prices,      \* prices of a tick
  Hour,        \* an hour, in units of time
  TrendLen,    \* trend_timeframe_minutes, in the same units
  MakerWait,   \* maker_wait_seconds, in the same units
  DriftPct,    \* maker_max_drift_pct
  Margin,      \* candles that restore loads beyond the period (10)
  Seeds,       \* stored history to start from: closes of each hour, per pair
  Agendas,     \* what is to come: [ticks, faults], ticks being a sequence of
               \* [pair, after], after the time since the tick before, and
               \* faults a bound on refusals, failed inserts and crashes
  NoEntry,     \* nothing rests
  NoTick       \* no tick is being handled

ASSUME TimeAssumption ==
  /\ Hour \in Nat \ {0}
  /\ TrendLen \in Nat \ {0} /\ TrendLen % Hour = 0
  /\ MakerWait \in Nat \ {0}

ASSUME PairAssumption == IsFiniteSet(Pairs) /\ Pairs # {}

ASSUME PriceAssumption == Prices \subseteq Nat \ {0}

ASSUME MarginAssumption == Margin \in Nat

ASSUME DriftAssumption == DriftPct \in Nat

ASSUME SeedAssumption == Seeds \subseteq [Pairs -> Seq(Prices)]

ASSUME AgendaAssumption ==
  Agendas \subseteq [ticks : Seq([pair : Pairs, after : Int]), faults : Nat]

\* What book and tick hold otherwise.
Entries == [limit : Prices, placed : Int, deadline : Int]
Ticks == [pair : Pairs, at : Int, price : Prices]

ASSUME NoneAssumption == NoEntry \notin Entries /\ NoTick \notin Ticks

\* ALL_STRATEGIES, in the order of the registry.
AllStrategies == <<"threshold", "ema", "bollinger", "trend_pullback">>

Slots == [pair : Pairs, strategy : ToSet(AllStrategies)]

VARIABLES
  maker,     \* execution.maker_entries
  filter,    \* bollinger.trend_filter_enabled
  agenda,    \* ticks and faults to come
  now,       \* the time
  up,        \* the process runs
  tick,      \* the tick being handled
  todo,      \* the strategies that have not evaluated it yet
  memory,    \* each slot's candle builders
  table,     \* the candles table: each pair's hours and trend candles
  belief,    \* each slot's belief
  log,       \* each slot's trade log
  book,      \* each slot's resting entry, or NoEntry
  \* what the code does not have:
  seen,      \* the last price handled of each pair in each hour
  crossed,   \* signals emitted while an entry of their slot rested
  unrecorded, \* slots whose fill got no row, until their next row or a restart
  stepped,   \* the clock has stepped back
  acted,     \* per pair, what bollinger has traded
  astray     \* pairs whose bollinger trades differ from its decisions

config == <<maker, filter>>
vars == <<config, agenda, now, up, tick, todo, memory, table, belief, log, book,
          seen, crossed, unrecorded, stepped, acted, astray>>

Resting(s) == book[s] # NoEntry

-----------------------------------------------------------------------------
(* The database and restore() *)

\* The candles of a history whose closes of the hours are seed.
HoursOf(seed) ==
  [i \in DOMAIN seed |-> FirstTick((i - 1) * Hour, seed[i])]

TrendsOf(seed) ==
  LET n == TrendLen \div Hour
      Part(j) == {seed[i] : i \in (j - 1) * n + 1..j * n}
  IN [j \in 1..Len(seed) \div n |->
        [t |-> (j - 1) * TrendLen, high |-> Max(Part(j)), low |-> Min(Part(j)),
         close |-> seed[j * n]]]

\* What each strategy asks query_candles for.
HoursLoaded(s) ==
  Margin + CASE s.strategy = "ema" -> SlowPeriod
             [] s.strategy = "bollinger" -> BollPeriod
             [] s.strategy = "trend_pullback" -> PullPeriod
             [] OTHER -> 0

TrendsLoaded(s) ==
  Margin + IF s.strategy = "bollinger" THEN BollTrend ELSE PullTrend

UsesHours(s) == s.strategy # "threshold"
UsesTrends(s) ==
  s.strategy = "trend_pullback" \/ (s.strategy = "bollinger" /\ filter)

RestoredMemory(s, tb) ==
  [hours |-> IF UsesHours(s)
             THEN Loaded(LastStored(tb[s.pair].hours, HoursLoaded(s)))
             ELSE NewBuilder,
   trends |-> IF UsesTrends(s)
              THEN Loaded(LastStored(tb[s.pair].trends, TrendsLoaded(s)))
              ELSE NewBuilder]

Blank == [hours |-> NewBuilder, trends |-> NewBuilder]

Start(p, seed) == Len(seed[p]) * Hour

Init ==
  /\ maker \in BOOLEAN /\ filter \in BOOLEAN
  /\ agenda \in Agendas
  /\ \E seed \in Seeds :
       /\ now = Max({Start(p, seed) : p \in Pairs})
       /\ table = [p \in Pairs |-> [hours |-> HoursOf(seed[p]),
                                    trends |-> TrendsOf(seed[p])]]
  /\ up = TRUE /\ tick = NoTick /\ todo = <<>>
  /\ memory = [s \in Slots |-> RestoredMemory(s, table)]
  /\ belief = [s \in Slots |-> Fresh]
  /\ log = [s \in Slots |-> EmptyLog]
  /\ book = [s \in Slots |-> NoEntry]
  /\ seen = [p \in Pairs |-> <<>>]
  /\ crossed = {} /\ unrecorded = {} /\ stepped = FALSE
  /\ acted = [p \in Pairs |-> <<>>] /\ astray = {}

Fault ==
  /\ agenda.faults > 0
  /\ agenda' = [agenda EXCEPT !.faults = @ - 1]

-----------------------------------------------------------------------------
(* A tick arrives: on_tick and expire_due resolve the book *)

\* The price reached the limit, which wins over everything else.
Reached(s, p, price) == Resting(s) /\ s.pair = p /\ price <= book[s].limit

\* It ran away from it.
Drifted(s, p, price) ==
  /\ Resting(s) /\ s.pair = p /\ price > book[s].limit
  /\ (price - book[s].limit) * 100 > DriftPct * book[s].limit

\* Mutant of Due: an entry lives up to its deadline and through it.
DueLate(s, at) == Resting(s) /\ at > book[s].deadline

\* Its time is over, whatever pair the tick is of.
Due(s, at) == Resting(s) /\ at >= book[s].deadline

\* Mutant of Resolve: a no-fill does not call on_reject.
ResolveSilently(p, price, at, lost) ==
  LET Fills(s) == Reached(s, p, price)
      NoFill(s) == ~Fills(s) /\ (Drifted(s, p, price) \/ Due(s, at))
  IN /\ log' = [s \in Slots |->
                  IF Fills(s) /\ s \notin lost
                  THEN Recorded(log[s], "buy", book[s].limit, 1, TRUE)
                  ELSE log[s]]
     /\ UNCHANGED belief
     /\ book' = [s \in Slots |->
                   IF Fills(s) \/ NoFill(s) THEN NoEntry ELSE book[s]]

\* A fill is a row at the limit, unless it is lost: insert_trade raises, which is
\* only logged, and the entry is gone already.  Either way the strategy is told
\* nothing.  A no-fill rolls it back.
Resolve(p, price, at, lost) ==
  LET Fills(s) == Reached(s, p, price)
      NoFill(s) == ~Fills(s) /\ (Drifted(s, p, price) \/ Due(s, at))
  IN /\ log' = [s \in Slots |->
                  IF Fills(s) /\ s \notin lost
                  THEN Recorded(log[s], "buy", book[s].limit, 1, TRUE)
                  ELSE log[s]]
     /\ belief' = [s \in Slots |->
                     IF NoFill(s) THEN Rejected(belief[s]) ELSE belief[s]]
     /\ book' = [s \in Slots |->
                   IF Fills(s) \/ NoFill(s) THEN NoEntry ELSE book[s]]

\* The latest price of the hour of at replaces the one before.
Noted(notes, at, price) ==
  LET t == CandleOpen(at, Hour) IN
  IF notes # <<>> /\ Last(notes).t = t
  THEN Front(notes) \o <<[t |-> t, price |-> price]>>
  ELSE Append(notes, [t |-> t, price |-> price])

TakeTick ==
  /\ up /\ todo = <<>> /\ agenda.ticks # <<>>
  /\ LET p == Head(agenda.ticks).pair
         at == now + Head(agenda.ticks).after
     IN \E price \in Prices :
          /\ tick' = [pair |-> p, at |-> at, price |-> price]
          /\ now' = at
          /\ stepped' = (stepped \/ at < now)
          /\ \E lost \in SUBSET {s \in Slots : Reached(s, p, price)} :
               /\ lost # {} => agenda.faults > 0
               /\ agenda' = [agenda EXCEPT
                    !.ticks = Tail(@), !.faults = IF lost = {} THEN @ ELSE @ - 1]
               /\ Resolve(p, price, at, lost)
               /\ unrecorded' = unrecorded \cup lost
          /\ seen' = [seen EXCEPT ![p] = Noted(@, at, price)]
  /\ todo' = AllStrategies
  /\ UNCHANGED <<config, up, memory, table, crossed, acted, astray>>

-----------------------------------------------------------------------------
(* A strategy evaluates it *)

Slot == [pair |-> tick.pair, strategy |-> Head(todo)]

\* The builders of s with the tick.
Fed(s) ==
  [hours |-> IF UsesHours(s)
             THEN AddTick(memory[s].hours, tick.at, tick.price, Hour)
             ELSE NewBuilder,
   trends |-> IF UsesTrends(s)
              THEN AddTick(memory[s].trends, tick.at, tick.price, TrendLen)
              ELSE NewBuilder]

\* The candles table once s has stored what the tick completed: the candle of
\* the hour, and then that of the trend.
Kept(tb, before, after) ==
  IF Completes(before, after) THEN Stored(tb, Last(after.done)) ELSE tb

HoursKept(s, m) ==
  [table EXCEPT ![s.pair].hours = Kept(@, memory[s].hours, m.hours)]

BothKept(s, m) ==
  [HoursKept(s, m) EXCEPT ![s.pair].trends = Kept(@, memory[s].trends, m.trends)]

Buys(s, m) ==
  LET hours == m.hours.done
      trends == m.trends.done
  IN CASE s.strategy = "threshold" -> ThresholdBuys(tick.price)
       [] s.strategy = "ema" -> EmaReady(hours) /\ EmaBuys(hours, tick.price)
       [] s.strategy = "bollinger" ->
            /\ Len(hours) >= BollPeriod + 2
            /\ Breakout(ClosesOf(hours))
            /\ filter => EmaRises(ClosesOf(trends), BollTrend)
       [] s.strategy = "trend_pullback" ->
            PullbackReady(hours, trends) /\ PullbackBuys(hours, trends)

Sells(s, m) ==
  LET hours == m.hours.done
      trends == m.trends.done
  IN CASE s.strategy = "threshold" -> ThresholdSells(tick.price)
       [] s.strategy = "ema" -> EmaReady(hours) /\ EmaSells(hours)
       [] s.strategy = "bollinger" ->
            /\ Len(hours) >= BollPeriod + 2
            /\ BollingerSells(belief[s], ClosesOf(hours))
       [] s.strategy = "trend_pullback" ->
            PullbackReady(hours, trends) /\ PullbackSells(hours, trends)

\* threshold looks at every tick, the others at a completed candle.
Evaluates(s, m) ==
  s.strategy = "threshold" \/ Completes(memory[s].hours, m.hours)

Signal(s, m) ==
  CASE Evaluates(s, m) /\ ~belief[s].in /\ Buys(s, m) -> "buy"
    [] Evaluates(s, m) /\ belief[s].in /\ Sells(s, m) -> "sell"
    [] OTHER -> "none"

\* The belief with which s emits.
Emitted(s, m, side) ==
  IF side = "sell" THEN Exited(belief[s])
  ELSE IF s.strategy = "bollinger"
       THEN Entered(belief[s], Last(m.hours.done).close, TRUE)
       ELSE Entered(belief[s], tick.price, FALSE)

\* The end of evaluate(): candles are stored, the next strategy is up.
Evaluated(s, m) ==
  /\ memory' = [memory EXCEPT ![s] = m]
  /\ table' = BothKept(s, m)
  /\ todo' = Tail(todo)
  /\ tick' = IF Tail(todo) = <<>> THEN NoTick ELSE tick
  /\ UNCHANGED <<config, now, up, seen, stepped>>

\* A signal over a resting entry is noted, with the time of that entry.
Crossing(s) ==
  crossed' = IF Resting(s)
             THEN crossed \cup {[slot |-> s, placed |-> book[s].placed]}
             ELSE crossed

Astray(s) == IF s.strategy = "bollinger" THEN astray \cup {s.pair} ELSE astray

NoSignal ==
  /\ todo # <<>>
  /\ Signal(Slot, Fed(Slot)) = "none"
  /\ Evaluated(Slot, Fed(Slot))
  /\ UNCHANGED <<agenda, belief, log, book, crossed, unrecorded, acted, astray>>

\* feed_healthy() is false: rolled back, and the order skipped.
SkipUnhealthy ==
  /\ todo # <<>>
  /\ LET s == Slot
         m == Fed(s)
         side == Signal(s, m)
     IN /\ side # "none"
        /\ Fault
        /\ Evaluated(s, m)
        /\ belief' = [belief EXCEPT ![s] = Rejected(Emitted(s, m, side))]
        /\ Crossing(s)
        /\ astray' = Astray(s)
  /\ UNCHANGED <<log, book, unrecorded, acted>>

\* The daily loss limit: the only refusal of test mode.  It is taken for a
\* resting entry while one rests.
LossRefuses ==
  /\ todo # <<>>
  /\ LET s == Slot
         m == Fed(s)
         side == Signal(s, m)
     IN /\ side # "none"
        /\ Fault
        /\ Evaluated(s, m)
        /\ belief' = [belief EXCEPT
             ![s] = IF Resting(s) THEN Emitted(s, m, side)
                                  ELSE Rejected(Emitted(s, m, side))]
        /\ Crossing(s)
        /\ astray' = Astray(s)
  /\ UNCHANGED <<log, book, unrecorded, acted>>

\* A maker entry rests at the price of the tick.
RestEntry ==
  /\ todo # <<>> /\ maker
  /\ LET s == Slot
         m == Fed(s)
     IN /\ Signal(s, m) = "buy"
        /\ ~Resting(s)
        /\ Evaluated(s, m)
        /\ belief' = [belief EXCEPT ![s] = Emitted(s, m, "buy")]
        /\ book' = [book EXCEPT ![s] = [limit |-> tick.price, placed |-> tick.at,
                                        deadline |-> tick.at + MakerWait]]
        /\ astray' = Astray(s)
  /\ UNCHANGED <<agenda, log, crossed, unrecorded, acted>>

\* Everything else is a simulated market order of the configured quantity: a
\* row, sells included, without asking what is held.
MarketOrder ==
  /\ todo # <<>>
  /\ LET s == Slot
         m == Fed(s)
         side == Signal(s, m)
         b == Emitted(s, m, side)
     IN /\ side # "none"
        /\ side = "buy" /\ maker => Resting(s)
        /\ Evaluated(s, m)
        /\ log' = [log EXCEPT ![s] = Recorded(@, side, tick.price, 1, TRUE)]
        /\ belief' = [belief EXCEPT ![s] = IF Resting(s) THEN b ELSE Filled(b)]
        /\ Crossing(s)
        /\ unrecorded' = unrecorded \ {s}
        /\ acted' = IF s.strategy = "bollinger"
                    THEN [acted EXCEPT ![s.pair] =
                            Append(@, [t |-> Last(m.hours.done).t, side |-> side])]
                    ELSE acted
  /\ UNCHANGED <<agenda, book, astray>>

-----------------------------------------------------------------------------
(* The process dies and restarts *)

Long(s) == log[s].last = "buy"

BollingerOf(p) == [pair |-> p, strategy |-> "bollinger"]

\* A death while strategies have not evaluated a tick loses their decisions on
\* it, although its candles may be stored already, by those before or by the one
\* that dies; one while bollinger is long makes it measure from the price of the
\* row instead of the close.
Crash ==
  /\ up
  /\ Fault
  /\ \/ UNCHANGED table
     \/ /\ todo # <<>>
        /\ table' \in {HoursKept(Slot, Fed(Slot)), BothKept(Slot, Fed(Slot))}
  /\ up' = FALSE /\ tick' = NoTick /\ todo' = <<>>
  /\ memory' = [s \in Slots |-> Blank]
  /\ belief' = [s \in Slots |-> Fresh]
  /\ book' = [s \in Slots |-> NoEntry]
  /\ unrecorded' = {}
  /\ astray' = astray \cup {p \in Pairs : todo # <<>> \/ Long(BollingerOf(p))}
  /\ UNCHANGED <<config, now, log, seen, crossed, stepped, acted>>

Restart ==
  /\ ~up
  /\ up' = TRUE
  /\ memory' = [s \in Slots |-> RestoredMemory(s, table)]
  /\ belief' = [s \in Slots |->
       Restored(log[s].last, log[s].price, s.strategy = "bollinger")]
  /\ UNCHANGED <<config, agenda, now, tick, todo, table, log, book, seen,
                 crossed, unrecorded, stepped, acted, astray>>

Next ==
  \/ TakeTick
  \/ NoSignal \/ SkipUnhealthy \/ LossRefuses \/ RestEntry \/ MarketOrder
  \/ Crash \/ Restart

Spec == Init /\ [][Next]_vars

-----------------------------------------------------------------------------
(* Properties *)

Undisturbed == Slots \ {c.slot : c \in crossed}

\* A strategy that never emitted over a resting entry of its own is long
\* exactly when its log is, or while its entry rests, or from a fill whose row
\* could not be inserted (maker.py:129) to its next row or a restart; and its rows
\* alternate: test mode does not ask what is held, so only the belief keeps a
\* simulated sell from being of coin nobody bought (executor.py:254), but for the
\* coin of such a fill.
PaperBelief ==
  up => \A s \in Undisturbed :
    /\ belief[s].in <=> Long(s) \/ Resting(s) \/ s \in unrecorded
    /\ belief[s].entry # None => belief[s].in
    /\ s.strategy = "bollinger" /\ belief[s].in => belief[s].entry # None
    /\ Resting(s) => ~Long(s) /\ belief[s].pending.armed /\ ~belief[s].pending.in
    /\ s \in unrecorded => ~Long(s) /\ ~Resting(s)
    /\ log[s].open = (IF Long(s) THEN 1 ELSE 0)
    /\ Len(log[s].buys) = log[s].open

\* With a clock that does not step back, a strategy emits over its resting
\* entry only when the feed was silent for so long that the entry was placed
\* less than MakerWait before the end of its hour: the book is resolved before
\* the strategies evaluate (trader.py:92).  threshold never does, its triggers
\* being farther apart than the drift that ends an entry.
CrossedAfterSilence ==
  ~stepped =>
    \A c \in crossed :
      /\ c.slot.strategy # "threshold"
      /\ (c.placed % Hour) + MakerWait > Hour

\* What a strategy reasons from is what is stored, and what is stored is what
\* was traded: the candles in its memory are the last ones of the table, up to
\* the one the tick has just completed, in order, and each closed at the last
\* price of its hour, over restarts too, unless the clock stepped back.
CandlesAreTheTicks ==
  ~stepped =>
    /\ \A p \in Pairs : \A i \in DOMAIN seen[p] :
         \A c \in ToSet(table[p].hours) :
           c.t = seen[p][i].t => c.close = seen[p][i].price
    /\ up => \A s \in Slots :
         UsesHours(s) =>
           LET mine == memory[s].hours.done
               all == table[s.pair].hours
           IN IsSuffix(mine, all)
                \/ (tick # NoTick /\ all # <<>> /\ IsSuffix(mine, Front(all)))

\* The hours that end a trend candle, and the trades up to a first difference.
EndsTrend(t) == t % TrendLen = TrendLen - Hour

FirstDifference(a, b) ==
  LET n == Len(LongestCommonPrefix({a, b}))
  IN {x[n + 1] : x \in {y \in {a, b} : Len(y) > n}}

\* What bollinger reasons from under the trend filter is the whole table, as it is
\* for the replay: no start found more trend candles than it loads.
WholeTrend(p) == memory[BollingerOf(p)].trends.done = table[p].trends

\* The first candle the replay decides on, one before the first of the bot
\* (period + 1 against period + 2 candles).
EndsWarmUp(p, t) ==
  Len(table[p].hours) > BollPeriod /\ t = table[p].hours[BollPeriod + 1].t

\* Replaying the stored candles reproduces the trades, but not always
\* "decision-for-decision" (backtest.py:4).  Unless one was refused, rested or
\* lost by a restart, the first difference is an entry, and only
\*   on the candle that ends the replay's warm-up; or, under the trend filter,
\*   at an hour that does not end a trend candle, where the replay knows a
\*     verdict that was still open; or
\*   when the history is longer than a start loads, so that the two averages of
\*     the trend begin at different candles.
ReplayReproduces ==
  up /\ tick = NoTick /\ ~stepped =>
    \A p \in Pairs \ astray :
      LET replayed == Replay(table[p].hours, table[p].trends, filter, seen[p][1].t)
          first == FirstDifference(replayed, acted[p])
      IN seen[p] # <<>> /\ first # {} =>
           LET d == CHOOSE d \in first : \A e \in first : d.t <= e.t
           IN /\ d.side = "buy"
              /\ \/ EndsWarmUp(p, d.t)
                 \/ filter /\ (~EndsTrend(d.t) \/ ~WholeTrend(p))
=============================================================================
