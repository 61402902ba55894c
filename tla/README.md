# A verification development of CryptoTrader

CryptoTrader is a single-process asyncio bot: it builds hourly candles from
Kraken's price feed, lets one strategy per pair decide on each completed candle,
places market (or post-only limit) orders over REST, and keeps one SQLite table
of trades from which it derives its positions. This directory holds TLA+ models
of its core, the TLC runs that check them and the TLAPS proofs about them.

Paths below are relative to `src/`. A reference such as *trader.py:124* is to
`src/cryptotrader/trader.py`.

Contents: [1 Inventory](#1-inventory), [2 Modules](#2-modules-and-how-they-map-to-the-code),
[3 Runs](#3-runs), [4 Fairness](#4-fairness), [5 Proofs](#5-what-is-proved),
[6 Where the code and its documents disagree](#6-where-the-code-and-its-documents-disagree),
[7 Abstractions](#7-abstractions), [8 Plan](#8-plan).

## 1 Inventory

| Component | State it keeps | Operations | Talks to |
|---|---|---|---|
| Trading loop (`trader.py`) | strategies per pair (one in production, four in test mode), the maker book | `run`: one tick at a time; `reconcile_maker_entries` every 10 s | price queue, strategies, executor, book |
| Order executor (`executor.py`) | none of its own; reads the trade log | `execute`: size, cap, balance, loss limit, order, row; `_reject` | trade log, REST client, book |
| Maker book (`maker.py`) | resting entries, in memory only | `add`, `reconcile` (production), `on_tick` and `expire_due` (test mode) | REST client, trade log, strategies' rollback |
| Strategies (`strategy/`) | belief: in a position or not, entry price, one snapshot for rollback; candle builder | `evaluate`, `on_order_rejected`, `on_order_filled`, `restore` | trade log at start-up |
| Trade statistics (`statistics.py`) | none: folds over rows | open quantity, FIFO P&L, P&L of the day | database |
| Database (`db/database.py`) | tables of trades, refused orders, candles, deposits | inserts, queries in timestamp order | everyone |
| Price feed (`exchange/kraken_ws.py`) | `_running`, `_backoff_attempt`, `_last_tick_time`, bounded queue | connection loop, watchdog, dispatch, `feed_healthy`, `stop` | exchange, trader |
| REST client (`exchange/kraken_rest.py`) | per object: nonce high-water mark, token bucket | orders, status, cancel, balance; one retry | exchange, which keeps one nonce per API key |
| Process wiring (`main.py`, `deploy/cryptotrader.service`) | tasks, instance lock | headless `gather`, TUI, monitor mode, restart by systemd | all of the above |
| Candles and indicators (`candles.py`, `strategy/_indicators.py`) | per strategy: the open candle, completed ones | `add_tick`, `load`; `ema`, `atr`, `bollinger_bands` | strategies, the candles table |
| Health endpoint and desktop monitor (`health.py`, `deploy/monitoring`) | the last check and when it was made; the state of the last run | `/health`; probe, retry, alert | database, exchange; the endpoint, from another host |
| Reconciliation and daily check (`reconcile.py`, `scripts/daily_check.py`, `scripts/write_baseline.py`) | a baseline file | copy the database, read the exchange, compare | database, exchange |
| Backtest (`scripts/backtest.py`) | a simulated position | replays stored candles through bollinger's rules | candles table |
| Terminal interface (`tui/`), reports, imports, configuration, deployment | display state, files | display, parse, copy | database, queues |

What interacts how:

* *Queue.* The feed puts ticks, the loop takes them. A slow loop (it awaits REST
  calls) fills the queue and the oldest ticks go.
* *Call and outcome.* A strategy flips its own position **before** anybody knows
  whether an order will be placed. The executor's result, or its exception, is
  turned into `on_order_filled` or `on_order_rejected`. The strategy keeps one
  snapshot, and a missed, doubled or misdirected rollback shows only many candles
  later.
* *Shared state.* The loop and the reconciler share the maker book, the beliefs
  (through the `on_reject` callback) and the trade log; they interleave at awaits.
* *Rows.* Nothing else is persistent. After a restart a strategy restores from the
  last row of its pair, sells are sized from a floored running total of all rows,
  and the loss limit from the rows of the day: three readings of one table that
  have to agree.
* *Candles.* In test mode up to three strategies build the same candle of a pair
  from the same ticks, and each stores it; the first one counts. What a strategy
  decides from is in its memory, and what it restores from in the table.
* *One API key.* The bot's tasks share one client; the TUI's balance panel, the
  daily check and the bot after a restart have others. Kraken keeps one highest
  nonce for all of them.
* *Exceptions and cancellation.* A raising trader ends `gather`, `asyncio.run`
  cancels the other tasks, and the feed catches `CancelledError` for purposes of
  its own.

What makes each part correct:

* **Loop, executor, strategies, log**: belief and log agree at every idle moment
  and after every restart; an order's quantity is still right after the awaits
  that follow its computation; coin moved is coin logged, unless a fault orphaned
  it; a buy never adds to a position and a sell closes all of one; every signal
  is resolved.
* **Maker book**: at most one working entry per pair; what is logged was executed,
  once; the bot never drops an order that still works; the strategy is rolled back
  exactly when nothing was bought; every entry is resolved.
* **Test mode**: belief, resting entry and log agree although no order is ever
  refused for what is held; the book is resolved before anyone decides; memory and
  table hold the candles of the ticks, over restarts; a replay of the table
  reproduces the trades.
* **REST client**: what a call tells its caller is true, nothing is sent twice to
  effect, the rate limit is kept, a rejected nonce has a cause, every call ends.
* **Health**: an answer is recent; a failure is declared on separate observations;
  the alerted state is eventually the real one.
* **Statistics**: the walks mean what they are used for on any table, over-sold and
  repaired ones included.
* **Feed and process**: the queue always holds the latest ticks in order; silence
  is cut within a bound; the feed recovers; leaving the TUI ends the process; a
  failed service trades again.
* **Daily check**: its drift is what it cannot explain, less what it explains and is
  not there, although it reads the two sides at different times; it reports new
  over-sells only, and all of them.

The hazards are listed one by one, at their lines, in `PROJECT.json`.

## 2 Modules and how they map to the code

```
TradeLog   Strategy          Position (abstract)
   |   \     /                   ^  refines
   |    \   /                    |
   |   Settings ----------+      |
   |      |               |      |
   |    Trader -----------|------+        OpenPositions (EXTENDS TradeLog)
   |                  MakerTrader               |
   |                                      TradeLogCheck
   |
   |     Strategy  Indicators          PriceFeed   KrakenRest   Health   DailyCheck
   |          \     /      \
   |         Decisions    Candles
   |             |           |
   |          Backtest       |
    \____________ | ________/
             PaperTrader
```

The theorems are in modules of their own, one for each component, except that
`Monitoring_proofs` has those of Health and of DailyCheck, the two that watch the bot
from outside. `TradeLog_proofs` has the lemmas that several of them rest on.

```
TradeLog_proofs <-- Trader_proofs, MakerTrader_proofs, TradeLogCheck_proofs,
                    PaperTrader_proofs, Monitoring_proofs
KrakenRest_proofs   PriceFeed_proofs
```

**TradeLog** keeps a pair's rows as the record of the left folds that
`statistics.py` walks: last side and price, the floored running total, the open
buys of the FIFO matching, and those of today's table. A quantity is a whole
number of *grains*; `Lot` grains make 1e-8 of the base currency, so that flooring
to 1e-8 (`Floor8`) leaves dust as it does in the code.
**OpenPositions** is the separate walk of `reconcile.open_positions`.
**TradeLogCheck** compares both with definitions over the whole sequence of rows
that do not walk it (greatest sum of a tail, the k-th most recent buy, the table
cut at midnight).

**Strategy** is a belief `[in, entry, pending]` with `Entered` / `Exited` (the two
branches of `evaluate`), `Rejected`, `Filled` and `Restored`, and the two exits of
the bollinger strategy, stop loss and fee gate. *Which* candle makes a strategy
emit is nondeterministic in Trader and MakerTrader, so that any sequence of signals
is covered; **Decisions** has the rules themselves, in the exact arithmetic of
**Indicators** (an average is a fraction, a band the square of its distance from the
middle).

**Settings** has the constants of the configured pairs and `BuyQty`.

**Trader** is the shipped production configuration (market orders). `pc` says at
which await the loop is with its one signal:

| action | code |
|---|---|
| `Evaluate` | a strategy emits, trader.py:96-97 |
| `SkipUnhealthy` | trader.py:98-107 |
| `SizeBuy`, `SizeSell` | budget, hard cap, sell from the log, executor.py:182-230 |
| `BalanceCovers`, `BalanceRefuses` | executor.py:103-119 |
| `LossRefuses`, `PlaceOrder` | executor.py:232-275 |
| `ExchangeExecutes` | the exchange |
| `Record` | row, `on_order_filled`, executor.py:277, trader.py:138 |
| `ExchangeErrors`, `ReplyLost`, `InsertFails`, `Crash` | error answer, 10 s timeout, failing insert, death at any point |
| `Restart` | systemd, `Trader.__init__`, `restore` |
| `Midnight` | the UTC date that `daily_pnl` cuts at |

`exch` is the net coin the bot's orders moved at the exchange, `orphan` the part
of it that no row will ever show, `realized` the P&L column of today's sells,
`overnight` whether one of them closed a buy from before midnight, `restored` the
slots whose entry price was read from the log by a restart and is still in use; the
five are history variables that the code does not have.

**Position** is what a trade log promises: per pair, a position opens when none is
held and is closed whole. Trader implements it under
`held = Sellable(log)`, `entry =` price of the open buy.

**MakerTrader** is production with `execution.maker_entries = true`, where a buy
rests as a post-only order. The loop of Trader (posting and handing over to the
book instead of a market buy) runs beside the reconciler, whose `rpc` says at which
await of its pass it is; `limits` are the orders at the exchange, which fill in
part or whole, expire or get cancelled at any time. `stray` marks orders that a
death of the process or a failed cancel made the bot lose; `crossed` the pairs
whose strategy emitted a signal while an entry rested.

**PriceFeed** has the tasks of one process against a clock: the feed's connection
loop by phase, the watchdog, the bounded queue, the trader as something that takes
ticks and may raise, headless mode or the TUI, asyncio's cancellation and systemd's
restart.

**Candles** has a strategy's candle builder and the candles table; **Backtest** the
replay of `scripts/backtest.py` in its baseline variant.

**PaperTrader** is test mode: the ticks of an agenda, at any prices, become candles,
candles become the decisions of all four strategies, and these become rows or
resting entries. Nothing is awaited there, so a tick is handled in one go:

| action | code |
|---|---|
| `TakeTick` | the tick resolves the book, trader.py:83-95, maker.py:160-188 and 262-272 |
| `NoSignal` | a strategy evaluates and stores what it completed |
| `SkipUnhealthy`, `LossRefuses` | the two refusals of test mode |
| `RestEntry`, `MarketOrder` | executor.py:246-272, trader.py:124-138 |
| `Crash`, `Restart` | death between two ticks, two strategies or two candles being stored; `restore` from both tables |

A fill's row may fail to be inserted, which maker.py:129 only logs: the entry is
gone, the strategy stays long and has no row. `TakeTick` chooses which of the rows
of a tick are lost (a fault each time).

`seen`, `crossed`, `unrecorded`, `stepped`, `acted` and `astray` are history: the
prices of each hour, signals emitted over a resting entry, slots whose fill got no
row (until their next row or a restart), whether the clock went back, what
bollinger traded, and where refusals, resting entries or restarts excuse it from
the replay.

**KrakenRest** has the client objects of one API key, the calls of the tasks through
them (`pc`: waiting for a token, sent, done), the requests on the wire, and the
exchange's highest nonce. Requests overtake each other, arrive after their caller
gave up, and their replies get lost. `drawn`, `objects`, `stepped` and `burst` are
history.

**Health** composes the endpoint (cache, and the refreshes in progress in `check`)
with the monitor on another host (`phase`, `tries`, `file`) and the panel of a TUI,
against a clock, while the database, Kraken, the bot and the way to it fail and
recover. `since`, `used` and `bases` are history.

**DailyCheck** has the account's history as events (fills of the bot with or
without a row, rows without a fill, the owner's trades, staking rewards, deposits
and withdrawals), and the two scripts step by step: copy the database, read the
balance, the fills, the ledger; write the baseline or report. The fields `rows`,
`seen` and `sharp` of the baseline and `seen` of the job record, for the properties,
which events each answer knew of, and whether the baseline was taken in peace: all of
the account's events before it were in its copy, its balance and its time.

`PROJECT.json` maps every definition to its lines.

## 3 Runs

| run | instance | what it shows |
|---|---|---|
| `trade_log` | every table of up to 4 rows, 2 prices, 3 quantities (two not multiples of `Lot`), 2 days | The floored total is the greatest tail sum (an over-sell forgets the past and nothing else). The open buys are the most recent ones. Today's P&L is that of the table cut at midnight. The daily check holds what a sell would dispose of, at the entry of the first buy since the walk was last at zero *exactly* (see §6). |
| `trader` | 2 pairs (a budget with an entry price, a fixed quantity without), 3 prices of which one breaks the cap of a pair, 5 orders, 2 faults, 1 midnight | All safety properties of Trader, the loss limit for buys of the day included, the refinement of Position, and that every signal is resolved. |
| `maker` | 2 pairs, 2 prices, weighted to 3 orders, 1 fault | The book shared by two tasks: nothing logged that did not execute, nothing lost but by a fault, one entry at a time, undisturbed beliefs right, every entry resolved; a pass over two entries while the loop serves the other pair, and a breached cap of one pair over the entry of the other. |
| `paper` | 2 pairs (one with nine or fifteen hours of history, one with three or none), 4 prices, hours of 2 units, trend candles of 3 hours, up to 5 ticks in 7 rhythms, 1 refusal, lost row or crash, with and without maker entries and trend filter | Beliefs, book, log, candles and replay of test mode. |
| `rest` | loop and reconciler on one client, the panel on its own, one call each, a bucket of 2, 1 step of the clock or restart | Truth of the outcome, causes of nonce failures, the rate limit, termination. |
| `health` | 2 requests at a time, TTL 2, check 1, 3 probes 2 apart, 2 failures or recoveries, 1 killed run | Recent answers, separate observations, the state file. |
| `feed` | threshold 2, connect 1, rate-limit sleep 3, close 1, backoff cap 3, queue of 2, 4 ticks, 3 faults, headless and TUI | Queue, silence, recovery, leaving the TUI. |
| `daily_check` | 3 events of amounts 1, 2, -2, any number of checks and baselines | What the drift is made of, and over-sells against the floor. |
| `second_buy`, `partial_fill`, `feed_resumes`, `unrecorded_fill` | the same instances, smaller bounds | The disagreements of §6; each is expected to be violated. |

Why the bounds are enough. In Trader two pairs let an order of one be in flight
while the other has a position; five orders are buy, sell, buy, sell, buy on one
pair, which takes dust from one position into the next; two faults are an orphaned
order followed by another; one midnight puts a buy and its sell on different days.
With `Lot = 4` and a budget of 60, buys leave dust of 2 grains at price 10.
In MakerTrader three orders are the shortest history in which a second buy meets a
resting one and a sell follows. In PriceFeed the queue overflows twice, the
watchdog sees every phase between its period and the last tick (threshold 2 gives
ages up to 5, the horizon beyond which times are not told apart), the backoff
reaches its cap, and three faults are two reconnections and a failing task. In
DailyCheck three events are one before the baseline and two after it, or an
over-sell, a buy and a second over-sell.
In PaperTrader the history of the busy pair is one candle short of what the
indicators need, so that every strategy emits within the agenda, or fifteen hours,
which make one trend candle more than a start loads; the other pair begins with no
candle, or with the three the bands need, one less than bollinger waits for; the rhythms are ticks on the
hour, two an hour, a silence of most of an hour, a step back of the clock, and a
pair that goes quiet while the other ticks; a wait of one hour puts a deadline on
either side of a candle's end. Five hourly ticks hold a buy and a sell of bollinger
and cross the end of a trend candle.
In KrakenRest a call fails on its nonce only if two requests overtake it (three
callers) or if the clock went back after another object drew (one fault); a bucket
of 2 makes the third request wait. In Health the TTL is longer than a check and not
longer than the delay between probes, as in the code (10 s, 5 s, 10 s), so that both
a probe answered from the cache and one that is not occur; two changes are a failure
and a recovery, or two failures. Every bound is a named constant used
only in guards.

For each property of a passing run `PROJECT.json` names a mutant: a plausible slip
in the code that makes the property fail under the same instance. Mutants are
operators beside the definitions they alter, marked "Mutant of".

## 4 Fairness

* **Trader**, **MakerTrader**: weak fairness of the steps of the loop (`Handle`)
  and of the reconciler. Each waits only for REST calls, which `_post_once` bounds
  with a timeout of 10 s, and the two share an event loop without blocking calls.
  `Wait(s)` is the passing of `maker_wait_seconds`. Nothing is assumed of signals,
  faults, the exchange's fills or **restarts**: `feed_resumes` shows that a failed
  process need not exit, so the liveness properties hold without one.
* **PriceFeed**: time passes, a task whose timer is due runs, a connection attempt
  ends (at its timeout), the trader takes and finishes ticks, systemd restarts what
  exited. Actions that are due block the clock, which says that the event loop lags
  by less than a unit. Faults and ticks are bounded, so *the feed recovers* means:
  once connections stop failing.

* **KrakenRest**: time passes, and a call that has a token or whose timeout is over
  goes on. Nothing is assumed of the network or the exchange, nor that a call is
  made. `GivesUp` is the timeout of 10 s and is enabled as long as a call waits.
* **Health**: time passes, the timer starts the monitor and bash goes on, the event
  loop serves what is due. Nothing is assumed of the parts; failures, recoveries
  and killed runs are bounded, and the property speaks of what is so from some time
  on.

No fairness is assumed in DailyCheck, TradeLogCheck and PaperTrader; they have
safety properties only. TradeLogCheck and PaperTrader disable deadlock checking
because a table is complete at its bound and an agenda ends.

## 5 What is proved

Each theorem below is about every value of the constants and every behaviour of the
specification; the runs check the same formulas on small instances (the types of DailyCheck are
only proved). Every theorem
rests on the named assumptions of its module, which TLC evaluates in the runs, and
on nothing else, but for two hypotheses that are written in their theorems: one
about test mode (`TriggersApart`), one about the monitor (`Delay >= TTL`).

### The production loop

`Trader_proofs` proves for every set of pairs, prices, budgets, caps, lot size,
loss limit and number of orders, faults and days:

| theorem | statement |
|---|---|
| `TypeCorrect` | `Spec => []TypeOK` |
| `BeliefAlwaysMatchesLog` | `Spec => []BeliefMatchesLog` |
| `LastRowAlwaysIsPosition` | `Spec => []LastRowIsPosition` |
| `OneBuyAlwaysOpen` | `Spec => []OneOpenBuy` |
| `OrderAlwaysCurrent` | `Spec => []OrderIsCurrent` |
| `LossLimitAlwaysHonoured` | `Spec => []LossLimitHonoured` |
| `LogAlwaysAccountsForCoin` | `Spec => []LogAccountsForCoin` |
| `AlwaysBackedUnlessOrphaned` | `Spec => []BackedUnlessOrphaned` |
| `LogImplementsPosition` | `Spec => ImplementsPosition` |

The argument. None of the properties is inductive alone: that the last row agrees
with the sellable quantity depends on a sell being placed only over a buy row and
of all of it, which depends on the belief agreeing with the last row, which after a
restart depends on the last row again. The invariant that carries them is

    PositionInv == TypeOK /\ OrderIsCurrent /\ BeliefAgrees
                   /\ \A s \in Slots : Sound(log[s])

with `BeliefAgrees` the part of `BeliefMatchesLog` about the side of the position,
and `Sound`: the last row is a buy exactly when the floored total is positive, and
the open buys are then that row's alone. `BuyRow` and `SellRow` are the lemmas
about arithmetic: a buy of at least one lot over less than one lot of dust becomes
sellable, and a sell of the floored total leaves less than a lot. `BeliefMatchesLog`
also says which entry price a strategy has. Before a restart it is the close of the
candle that made it buy (bollinger.py:141), while the row has the price of the tick,
so only its presence can be compared; from a restart on it *is* the price of the row,
and `EntryAgrees`, an invariant of its own over `PositionInv`, carries that over every
signal that is skipped, refused or failed, since the snapshot has the price too.
`LossInv` says that the P&L of the cut table and the P&L column of today's sells are
the same figure as long as no sell of the day closed an earlier buy (`overnight`),
and that an order on its way was checked against it on its day: nothing records a
sell between the check and the answer. Coin accounting
is a separate invariant over `PositionInv`, since floored subtraction in the log
is exact only because a sell never exceeds the total. The refinement follows from
both row lemmas: a recorded buy is `Open`, a recorded sell `Close`, and every other
step stutters.

Assumptions, all on constants and evaluated by TLC in the runs: `Lot` is positive;
prices are positive; caps, budgets, quantities are naturals; and **every buy is of
at least 1e-8** (`SizeAssumption`). The last one is real: the configuration does
not enforce it, but Kraken's minimum order sizes are far above it.

### The maker book

`MakerTrader_proofs` proves for every set of pairs, prices, amounts and number of
orders and faults, under the same assumptions:

| theorem | statement |
|---|---|
| `TypeCorrect` | `Spec => []TypeOK` |
| `LoggedAlwaysExecuted` | `Spec => []LoggedIsExecuted` |
| `NeverStrayOrder` | `Spec => []NoStrayOrder` |
| `AlwaysOneEntryPerSlot` | `Spec => []OneEntryPerSlot` |
| `AlwaysUndisturbedBelief` | `Spec => []UndisturbedBelief` |
| `CoinAlwaysAccountedFor` | `Spec => []CoinIsAccountedFor` |

Two tasks share the book and each awaits between reading and writing it, so what is
inductive has to say what the other task cannot have done meanwhile.

* `TypeInv`: while the reconciler asks, has an answer or cancels, the entry it is at
  rests. Only the reconciler removes an entry, and the keys that are left to it
  come from the start of its pass.
* `OrderInv`: the order of a resting entry is not logged yet; an answer that says an
  order is final is still true when it is handled (an order that ended does not
  change, an answer *open* may be outdated and logs nothing); while the loop posts a
  buy, nothing of its slot rests, because only the loop adds entries. Every working
  order is then in the book, on its way to it, or stray. That one order of a slot
  works at most follows: two known ones would be the same entry.
* `BeliefInv`: the belief of a strategy is *flipped* against the log while its signal
  is handled or its entry rests, with a snapshot that would bring it back, and
  *follows* the log otherwise; both for the slots that were not disturbed only. One
  lemma for each of evaluate, rejection, fill and restore says how they lead from one
  to the other.
* `CoinInv`: for each slot, `exch = open + orphan + Unlogged + InFlight`, where
  `Unlogged` sums what limit orders executed over what is logged of them. The sum is
  over a set that changes at one order at a time (`SumChange`, `SumAdd`). As in
  Trader, it needs `SellIsCovered`: the log's floored subtraction is exact only if a
  sell never exceeds it, and the other task can only add to the log while a sell is
  on its way.

`NoEntryAssumption` says that the value for no entry is not an entry.

### Test mode

`PaperTrader_proofs` proves, for every set of pairs and prices, every history, every
agenda of ticks and faults, any lengths of the hour, the trend candle and the wait,
and all parameters of the strategies:

| theorem | statement |
|---|---|
| `TypeCorrect` | `Spec => []TypeInv` |
| `BeliefIsLog` | `Spec => []PaperBelief` |
| `CrossingNeedsSilence` | `TriggersApart` gives `Spec => []CrossedAfterSilence` |
| `CandlesAreTicks` | `Spec => []CandlesAreTheTicks` |

* `TypeInv` is `TypeOK` with `Control`, which says at which of the steps of a tick the
  loop is. Its work is in the lemmas about the builder, the stored table and what a
  start loads.
* `BeliefInv`: a strategy believes it is in exactly if its last row is a buy, its
  entry rests, or the row of its fill was lost (`unrecorded`, which a restart empties,
  because it restores from the rows); under a resting entry the snapshot is armed and would bring it back to
  where the log is; an entry price is remembered only while it is in. An entry may be
  filled, expire or be replaced by an order of its own strategy's next signal, which is
  why the property, and this invariant, speak of the slots that were not disturbed.
  Nothing is assumed of when a strategy emits.
* `CrossedAfterSilence` is about when it can. `SilenceInv`: a resting entry has
  its deadline `MakerWait` after it was placed, a tick at or past the deadline
  resolves it before any strategy runs, and a builder of hours is at the hour of a
  time not before the placing. A strategy that decides on candles emits at the first
  tick of an hour, so it crosses its own entry only if an hour ends between the
  placing and the deadline; and the entry itself was placed at the first tick of its
  hour, so the feed had been silent for most of that hour. `ThresholdInv`:
  `threshold` decides on each tick, but a tick that is `DriftPct` above the limit has
  ended the entry before it is asked. That needs the hypothesis:

      TriggersApart == \A a, b \in Prices :
        ThresholdBuys(a) /\ ThresholdSells(b) /\ b > a => (b - a) * 100 > DriftPct * a

  The shipped settings satisfy it (triggers at least 4.6 % apart, a drift cap of
  0.5 %), and so does the instance of `paper`, but the configuration does not check it.
* `CandleInv` relates four records of the same prices: the ticks seen, the table of
  hours, the hours that each strategy holds, and the hour each has under way.
  Between two ticks all of a pair are `Even`. While a tick is handled, strategy after
  strategy, those whose turn has come are ahead, and the table is what the first of
  them made it: there was `Nothing` to complete, the completed candle is `Unstored`
  yet, or it is stored `Already` and the same candle is stored over it. `History` says that
  the table is in order of time, ends before the hour under way, and closes each
  hour at the last price seen in it. `TurnFacts` takes one strategy from before
  its turn to after it, and `SeenFacts` adds a tick.

Assumptions: `Hour`, `MakerWait` and `TrendLen` are positive and an hour divides a
trend candle (`TimeAssumption`); there are finitely many pairs, at least one; prices
are positive; the margin and the drift are naturals, the latter in whole percent;
histories and agendas are sequences of prices and arrivals, and an arrival may be
before the one that preceded it, since the clock may step back. Where it did, the
three properties about time say nothing (`stepped`); `PaperBelief` holds all the same.

### The walks over the table

`TradeLogCheck_proofs` proves for tables of any length, quantities, prices and days:

| theorem | statement |
|---|---|
| `OpenAlwaysGreatestTail` | `Spec => []OpenIsGreatestTail` |
| `EntryAlwaysSinceZero` | `Spec => []EntryIsSinceZero` |
| `HeldAlwaysSellable` | `Spec => []HeldIsSellable` |
| `BuysAlwaysTheOpenOnes` | `Spec => []BuysAreTheOpenOnes` |
| `DayPnlAlwaysOfTheCutTable` | `Spec => []DayPnlIsOfTheCutTable` |

Each says that a walk which looks at one row at a time computes what a definition
over the whole table says. The table grows by one row per step, so the invariant is
the claim itself, with what a row needs to know of the walk so far (`Totals`,
`BuysOpen`, `DayFigures`), and the work is in lemmas about the definitions:

* The greatest tail sum after one more row is the greatest of zero and the one before
  plus the row's change, which is what flooring computes. The position was last zero
  at the last row with greatest tail zero, and that moves only when the walk clears
  its entry.
* The number of open buys is the greatest tail sum of the table with +1 for a buy and
  -1 for a sell; the k-th most recent buy after one more buy is that buy or the
  (k-1)-th before it. A FIFO queue that is cut at its head is therefore the same as a
  count from the end of the table.
* The same for the rows of one day; the P&L of the walk is the sum over today's rows
  of what each row finds open *today*, and at midnight it is the sum over no rows.

Over `LotAssumption` and `RowAssumption`: prices and quantities are positive.

### The REST client

`KrakenRest_proofs` proves, for every set of callers, clients and plans of calls:

| theorem | statement |
|---|---|
| `OutcomeTheorem` | `Spec => []OutcomeIsTrue` |
| `BurstTheorem` | `Spec => []BurstIsBounded` |
| `NonceTheorem` | `Spec => []NonceFailureIsExplained` |

The first needs to know what is on its way. `RestInv` says that a call which waits
has at most the request of its current attempt on the wire, that a request on the
wire or executed excludes that its call was told of a failure, and that a call
retries only after a nonce was refused, which consumed its request: so a request
that arrives late is the only one there is. The second follows from
`BucketInv == \A k : burst[k] + tokens[k] <= Capacity` with both natural: a request
moves one from the tokens to the burst, a unit of time takes one from the burst
where it adds one to the tokens.

The third is about the order in which nonces were drawn and arrive. `DrawInv`: as long
as the clock was not stepped back it is above all nonces there are, and as long as
only one object drew, that object's high-water mark is; in either case a nonce is
above all that were drawn before it. So a request that finds a nonce not below its
own (`Overtaken`) was overtaken by one drawn later, and `CallInv` counts: a waiting
call whose request is overtaken has seen as many draws as it has made attempts.

### The price feed

`PriceFeed_proofs` proves, for every threshold, timeout and size of the queue:

| theorem | statement |
|---|---|
| `QueueAlwaysLatest` | `Spec => []QueueIsLatest` |
| `SilenceAlwaysBounded` | `Spec => []SilenceIsBounded` |
| `TypeCorrect` | `Spec => []TypeOK` |

`QueueInv` adds the bound of the queue, which an eviction keeps; the lemmas
`AppendNumbered` and `TailNumbered` say that a gapless queue stays so at both ends.
`SilenceInv` adds that the watchdog runs while the process is up, and that a receive
has `age + watch <= 2 * Stale`: a unit of time takes one from the watch where it
adds one to the age, and a watch that starts again found the age within the
threshold, or cut the receive.

The types are more than they look: that every tick in the queue is newer than the one
last taken is a part of `QueueInv`, that the ages stay within the horizon one of
`SilenceInv`; and the backoff, a power of two, is a number.

### Health and its monitor

`Monitoring_proofs` proves, for any number of requests at a time and all the times:

| theorem | statement |
|---|---|
| `AnswerAlwaysRecent` | `Spec => []AnswerIsRecent` |
| `FailureAlwaysRepeated` | `Delay >= TTL` gives `Spec => []FailureIsRepeated` |

`RecentInv` bounds the age of what each holder knows: a refresh in progress saw
each part no longer ago than it has been running, the cache no longer ago than a
check plus the time the cache has been there, an answer less than both bounds
together. An older check may overwrite a newer one in the cache, and is covered
because the bound counts from the check's start. `RepeatInv` follows one run of the
monitor: the failures counted are as many as the observations they rest on, the
monitor waits for one request at most, and a check that has answered this run is
expired before the next probe asks, since the cache and the delay age together. That
is where `Delay >= TTL` is needed. Both are 10 s by default (health.py and
kraken-monitor.sh), but `CRYPTOTRADER_RETRY_DELAY` may be set lower, and
then the cache may repeat one bad moment to every probe of a run.

### The daily check

`Monitoring_proofs` proves, for every history, any amounts and any number of
scripts run:

| theorem | statement |
|---|---|
| `TypeCorrect` | `Spec => []TypeOK` |
| `DriftAlwaysUnexplained` | `Spec => []DriftIsWhatNobodyExplains` |
| `BreachAlwaysNewOversell` | `Spec => []BreachIsNewOversell` |

`HistoryInv` says that events are added at the end and keep their kind, amount and
settled row (`Follows`), so that a sum over old events stays what it was.
`BaselineInv` says what the numbers of the baseline are sums of: its divergence is
what was owned at its balance less its rows; and one taken in peace (`sharp`) has
all the rows there will be of the events before it. `JobInv` says, for each step of a
script, what it has read so far in terms of the history: the balance is what the
events up to `seen` came to, and every later answer knows at least those. Then the
drift is arithmetic: `OwnedSince` gives what moved between the two balances,
`TotalPart` takes from it what is explained too, and
`Drift = Sum(Moved \ Explained) - Sum(Explained \ Moved)` is left, for *any* baseline.
Under one taken in peace the kinds of the events in the two parts follow. For
over-sells, `OversoldIsLowest` says that a row sells more than was open exactly if the
running net falls below all it has been, and `BreachIsLowest` that this happens
after the baseline exactly if the net falls below the recorded floor (at the first
row that does).

### How the proofs are made, and what is not proved

Induction is over sets (`NatInductive`, `SubsetInductive` in `TradeLog_proofs`),
because the provers cannot instantiate the library's theorems that take a predicate.
The fold of the community modules is tied to its recursive table once
(`FoldExists`, `FoldUnique`); `SumStep`, `SumAdd`, `SumChange` and `TotalUnion` are
what the other proofs use. Monitoring_proofs takes only these from there; the
constants of a trade log come along with their assumptions, and no step uses them.

Only model-checked:

* liveness (`EverySignalResolved`, `EveryEntryResolved`, `FeedRecovers`, `QuitEnds`,
  `EveryCallEnds`, `FileSettles`): fairness and ENABLED are out of the prover's reach;
* `ReplayReproduces`: the replay is a fold over a table of any length with indicators
  over its prefixes, and what a fold computes is shown by induction over data;
* what the indicators compute on a series.

## 6 Where the code and its documents disagree

Each is a run that TLC refutes; `PROJECT.json` quotes the lines.

* **second_buy** (maker entries). While an entry rests the loop ignores the outcome
  of every call of that strategy. A sell refused for lack of a position leaves it
  flat, its next buy is not eligible to rest and goes out at market, and both fill.
  By the same route a sell overwrites the snapshot that a no-fill would restore,
  and the strategy may stay long with nothing in the log. `UndisturbedBelief` is
  what does hold.
* **partial_fill** (maker entries). Past the deadline an entry is cancelled and
  recorded as a no-fill without looking at the executed volume, before or after the
  cancel.
* **feed_resumes**. After an exception of the trader the feed catches the
  cancellation, finds `_running` still true and reconnects for ever: the process
  neither trades nor exits, keeps the instance lock, and `Restart=always` never
  acts.
* **unrecorded_fill**. daily_check.py:22-24 names "one filled but never recorded"
  among what the check catches. A fill counts as the bot's when its order id is in the
  trade log (reconcile.py:338), so exactly that fill is taken for the owner's and
  leaves the drift at zero. `DriftIsWhatNobodyExplains` is what does hold.

Seen while modelling, without a run of their own:

* executor.py:212 says that sizing from the log makes an unbacked sell impossible.
  An order that executed but whose reply was lost, or whose row could not be
  inserted, leaves the log showing the position; after the restart the coin is sold
  again. `BackedUnlessOrphaned` is what does hold.
* configuration.md:19 (in `docs/manual`) says that once today's realized losses
  exceed the limit every further order is refused. `daily_pnl` walks only the rows
  since midnight, so a sell of a position bought before finds no buy and its loss does
  not count. `LossLimitHonoured` says that the limit holds otherwise: its hypothesis
  `~overnight` is exactly this case, and without it the property is false.
* A fill of a resting entry whose row cannot be inserted is only logged
  (maker.py:129). The entry is gone, so nothing retries it, and the strategy stays long
  with no row until its next one, or until a restart makes it flat. In test mode the
  sell that follows is of coin that no row bought (`unrecorded` in `PaperBelief`); in
  production it is refused, which rolls the belief back to long (`UndisturbedBelief`
  exempts the slot).
* backtest.py:4 calls the replay faithful "decision-for-decision". `ReplayReproduces`
  says that it reproduces the trades but for a first difference, an entry, in three
  cases that it names:
  - backtest.py:165 says "a candle that completed strictly before ts", and compares
    the candle's *opening* time: under the trend filter the replay knows verdicts that
    were still open, and may enter where the bot did not (`EndsTrend`);
  - the replay decides on one candle of history less than the bot does (period + 1 at
    backtest.py:218, period + 2 at bollinger.py:119), so it may enter on the candle
    that ends its warm-up (`EndsWarmUp`), unless its caller has it start later, as the
    30 days of backtest.py:443 do by default;
  - its trend verdicts are averages over all stored candles, while a start loads only
    the last `trend_period + 10` of them (bollinger.py:75-80), and `ema` is seeded with
    the first it is given: with a longer history a verdict near its turn may differ
    (`WholeTrend`).
* After a restart bollinger measures its stop loss and fees from the price of the
  row, which is that of the tick, where it measured from the candle's close before.
  `BeliefMatchesLog` says which of the two it has when.
* In test mode a strategy that emits over its own resting entry (possible after a
  silent feed only, `CrossedAfterSilence`) sells or buys beside it, and the entry may
  still fill.
* kraken_rest.py:74 calls the nonce robust to clock adjustments. Its high-water mark
  is per client object: after a step back, the client that the panel makes every
  30 s, the daily check's or a restarted bot's draws nonces below what Kraken has
  accepted, until the clock has caught up. `NonceFailureIsExplained` says that this,
  and being overtaken twice, are the only causes.
* A monitor killed between its alert and its state file repeats the alert, or never
  sends a recovery; whether an alert was delivered is never looked at. What
  `FileSettles` promises is the file. The three probes of a failure may be
  answered from three checks that are up to 15 s old.
* `open_positions` keeps the entry price and time of a position whose sell left
  dust, so after any budgeted trade (whose quantity is not a multiple of 1e-8) the
  daily check watches the next position at the entry of an earlier one.
  `EntryIsSinceZero` states exactly what it computes.
* maker.py:205 and config.py:168 say that the drift cap bounds a resting entry; in
  production `reconcile` never looks at it.
* kraken_ws.py:205 says a healthy feed has had a tick; line 103 sets the time of the
  last tick on subscription.
* trader.py:38-40 says maker entries are refused in production; lines 47-57 build
  the book for it.
* In the TUI nobody awaits the trader's task: after an exception prices go on and
  no order is ever placed.

## 7 Abstractions

* Prices, quantities and money are small integers with the code's rounding; floats
  are not modelled beyond dust below 1e-8.
* One slot is one pair with its one strategy in production, and one pair with one of
  the four in test mode.
* Rows are in insertion order. The code orders by timestamp, taken before the
  awaits; that a clock which steps back reorders rows of the trade log is not
  modelled (that it reorders candles is). In DailyCheck rows are in
  timestamp order and may be inserted late.
* The `rejected_orders` table is written and never read back by the bot; refusals
  are modelled by their effect on belief only.
* The feed's health and the balance answer are nondeterministic in the traders, and
  the daily loss limit is a nondeterministic refusal in MakerTrader and PaperTrader.
* A market order executes at the price of the signal (the code records that price);
  a limit order at its own. MakerTrader is the headless service: an exception ends
  both tasks.
* In PriceFeed a message is a tick or nothing, `attempt` stops counting where the
  wait is at its cap, and a server's close is one action whatever its code, after
  which the backoff starts from zero or goes on.
* In PaperTrader a tick is handled when it is received, and quantities are one each.
  A day is long, so that candles align with it.
* In KrakenRest the clock advances by one with each nonce, so that two objects never
  draw the same from it; a reply is at once or never, since a slow one only lets
  others draw more; an executed AddOrder is answered with its txid. A unit of time
  is what restores one token.
* In Health nothing takes time but checks, the delay between probes and the sleep
  between runs; the database is checked by a thread and Kraken by a request, each
  seeing the truth of some instant of its own.
* In PriceFeed a subscription that cannot be sent (`SendFails`) goes through the close
  of the connection like one that the server closed.
* In DailyCheck the time of a baseline is cut to the second, so that any number of the
  events before it may count as after it (in a baseline taken in peace: none), and
  the clocks of the host and of the exchange agree. There is one asset, amounts exceed the tolerances, and what moved
  the balance is told by the exchange's own histories; legs of cross pairs are
  signed amounts.

Not modelled: configuration parsing, reports and one-off scripts, the variants and
statistics of the backtest, what TUI panels show, documents and the copying of files
(formatting, files and display; they change no state of the bot). Monitor mode
(`main.py:76-131`) polls the tables for display; the instance lock is one `flock`
that the operating system keeps, whose only states are held and not held.

## 8 Plan

Done, in this order: TradeLog and its check; Strategy, Settings, Trader with
Position; the proofs about Trader; MakerTrader; PriceFeed and its proofs; OpenPositions and
DailyCheck; Candles, Indicators, Decisions, Backtest and PaperTrader; KrakenRest and
its proofs; Health; the proofs about MakerTrader, the walks of TradeLogCheck, nonces,
Health, DailyCheck and PaperTrader.

Next, most important first:

1. Timestamps of rows against a clock that steps back: what restore, the FIFO and the
   daily cut then make of the log.
2. The backtest's other variants against the rule each of them swaps.
