------------------------------- MODULE Health -------------------------------
(***************************************************************************)
(* Who tells the operator that the bot is ill: the endpoint                *)
(* (cryptotrader/health.py), which answers from a cache that requests      *)
(* refresh concurrently, and the monitor (deploy/monitoring/               *)
(* kraken-monitor.sh), which a timer starts on another host, which probes  *)
(* the endpoint, and which alerts when its verdict differs from the one in *)
(* its state file.                                                         *)
(*                                                                         *)
(* Kraken, the database, the bot and the way to its host fail and recover  *)
(* at any time.  The panel of a TUI asks the endpoint too                  *)
(* (tui/health_panel.py, _fetch_service_uptime).  Whatever has a timeout   *)
(* is over when it ends; nothing else takes time.                          *)
(***************************************************************************)
EXTENDS Integers

CONSTANTS
  Handlers,    \* bound: requests the endpoint serves at a time
  TTL,         \* CACHE_TTL (10 s)
  CheckTime,   \* timeout of the checks (5 s)
  Retries,     \* RETRIES (3)
  Delay,       \* RETRY_DELAY (10 s)
  Period,      \* time between two runs of the monitor (5 min)
  MaxChanges,  \* bound: failures and recoveries
  MaxKills,    \* bound: runs of the monitor that do not end
  Unknown      \* nothing cached, no check, no answer

ASSUME NumberAssumption ==
  /\ TTL \in Nat \ {0} /\ CheckTime \in Nat \ {0} /\ Delay \in Nat /\ Period \in Nat
  /\ Retries \in Nat \ {0} /\ MaxChanges \in Nat /\ MaxKills \in Nat

Parts == {"database", "kraken"}

VARIABLES
  fine,      \* whether each part would pass its check now
  since,     \* history: time since it last would have, and would not have
  host,      \* up, botDown, or unreachable (from the monitor's desktop)
  cached,    \* _cached_result
  cacheAge,  \* time since _cached_at
  check,     \* each handler's refresh of the cache: who asked, for how long,
             \* and what it saw of each part so far
  answer,    \* what the endpoint answered at this instant
  phase,     \* the monitor: asleep, probing, awaiting, waiting, decided, notified
  tries,     \* probes that failed in this run
  timer,     \* time until its sleep ends or systemd starts it again
  state,     \* STATE, the last probe's
  file,      \* STATE_FILE, across runs
  used,      \* history: the cached check answered a probe of this run
  bases,     \* history: different checks and lost connections behind the failures
  changes,   \* failures and recoveries so far
  kills      \* runs that did not end so far

healthVars == <<fine, since, host, cached, cacheAge, check, answer, phase, tries, timer,
                state, file, used, bases, changes, kills>>

world == <<fine, since, host, changes>>
cache == <<cached, cacheAge>>
monitor == <<phase, tries, timer, state, used, bases>>

\* Bounds: times beyond them are not told apart.
Horizon == TTL + CheckTime
Older(t, cap) == IF t < cap THEN t + 1 ELSE cap

HealthInit ==
  /\ fine = [p \in Parts |-> TRUE]
  /\ since = [p \in Parts |-> [b \in BOOLEAN |-> IF b THEN 0 ELSE Horizon]]
  /\ host = "up"
  /\ cached = Unknown /\ cacheAge = 0
  /\ check = [h \in Handlers |-> Unknown]
  /\ answer = Unknown
  /\ phase = "asleep" /\ tries = 0 /\ timer = 0 /\ state = "ok" /\ file = "ok"
  /\ used = FALSE /\ bases = 0
  /\ changes = 0 /\ kills = 0

-----------------------------------------------------------------------------
(* The monitor *)

\* Mutant of Classified: what is not Kraken's fault is none.
ClassifiedByKraken(c) == IF c["kraken"] THEN "ok" ELSE "kraken"

\* probe_once: the answer is 200 if every check passed, else 503 with the checks.
Classified(c) ==
  IF \A p \in Parts : c[p] THEN "ok"
  ELSE IF c["kraken"] THEN "database" ELSE "kraken"

\* Mutant of Probed: the first failure is declared.
ProbedOnce(s) ==
  /\ state' = s
  /\ tries' = IF s = "ok" THEN tries ELSE tries + 1
  /\ phase' = "decided" /\ timer' = 0

\* determine_state: the first success or the last failure counts.
Probed(s) ==
  /\ state' = s
  /\ tries' = IF s = "ok" THEN tries ELSE tries + 1
  /\ IF s = "ok" \/ tries' = Retries
     THEN phase' = "decided" /\ timer' = 0
     ELSE phase' = "waiting" /\ timer' = Delay

StartRun ==
  /\ phase = "asleep" /\ timer = 0
  /\ phase' = "probing"
  /\ UNCHANGED <<world, cache, check, answer, tries, timer, state, file, used,
                 bases, kills>>

Asked(h) == check[h] # Unknown /\ check[h].who = "monitor"

\* curl fails: the bot or the way to it is down, or the bot died with the
\* request; pi_is_up then tells which.  A handler that still works on the request
\* goes on for nobody.
ProbeFails ==
  /\ \/ phase \in {"probing", "awaiting"} /\ host # "up"
     \/ /\ phase = "awaiting"
        /\ ~\E h \in Handlers : Asked(h)
  /\ Probed(IF host = "unreachable" THEN "pi" ELSE "bot")
  /\ bases' = bases + 1
  /\ check' = [h \in Handlers |-> IF Asked(h) THEN [check[h] EXCEPT !.who = "panel"]
                                              ELSE check[h]]
  /\ UNCHANGED <<world, cache, answer, file, used, kills>>

Retry ==
  /\ phase = "waiting" /\ timer = 0
  /\ phase' = "probing"
  /\ UNCHANGED <<world, cache, check, answer, tries, timer, state, file, used,
                 bases, kills>>

\* The alert, if the state changed; whether it was delivered is not looked at.
Notify ==
  /\ phase = "decided"
  /\ state # file
  /\ phase' = "notified"
  /\ UNCHANGED <<world, cache, check, answer, tries, timer, state, file, used,
                 bases, kills>>

Sleep ==
  /\ phase' = "asleep"
  /\ tries' = 0 /\ timer' = Period /\ state' = "ok" /\ used' = FALSE /\ bases' = 0

Write ==
  /\ phase = "notified" \/ (phase = "decided" /\ state = file)
  /\ file' = state
  /\ Sleep
  /\ UNCHANGED <<world, cache, check, answer, kills>>

\* TimeoutStartSec=90 ends a run whose alert hangs (that curl has no timeout), or
\* the desktop goes down.
Killed ==
  /\ phase # "asleep"
  /\ kills < MaxKills
  /\ kills' = kills + 1
  /\ Sleep
  /\ check' = [h \in Handlers |-> IF Asked(h) THEN [check[h] EXCEPT !.who = "panel"]
                                              ELSE check[h]]
  /\ UNCHANGED <<world, cache, answer, file>>

-----------------------------------------------------------------------------
(* The endpoint *)

\* Mutant of FreshCache: a cache as old as CACHE_TTL is used once more.
FreshCacheTooLong == cached # Unknown /\ cacheAge <= TTL

FreshCache == cached # Unknown /\ cacheAge < TTL

\* The answer is what the cache holds when it is built; reused: a probe of this
\* run was answered from the same check before.
Respond(who, c, reused) ==
  /\ answer' = c
  /\ IF who = "monitor"
     THEN /\ Probed(Classified(c))
          /\ used' = TRUE
          /\ bases' = IF reused \/ Classified(c) = "ok" THEN bases ELSE bases + 1
     ELSE /\ used' = reused
          /\ UNCHANGED <<phase, tries, timer, state, bases>>

Reaches(who) ==
  \/ /\ who = "monitor"
     /\ phase = "probing" /\ host = "up"
  \/ /\ who = "panel"
     /\ host # "botDown"

\* A request that finds a fresh answer in the cache.
AnswerFromCache(who) ==
  /\ Reaches(who)
  /\ FreshCache
  /\ Respond(who, cached, used)
  /\ UNCHANGED <<world, cache, check, file, kills>>

\* One that does not, and awaits both checks; others may do so at the same time.
StartCheck(h, who) ==
  /\ Reaches(who)
  /\ ~FreshCache
  /\ check[h] = Unknown
  /\ check' = [check EXCEPT ![h] =
       [who |-> who, age |-> 0, saw |-> [p \in Parts |-> Unknown]]]
  /\ phase' = IF who = "monitor" THEN "awaiting" ELSE phase
  /\ UNCHANGED <<world, cache, answer, tries, timer, state, file, used, bases, kills>>

\* _check_database and _check_kraken each find out at some instant of their own.
See(h, p) ==
  /\ check[h] # Unknown
  /\ check[h].saw[p] = Unknown
  /\ check' = [check EXCEPT ![h].saw[p] = fine[p]]
  /\ UNCHANGED <<world, cache, answer, monitor, file, kills>>

\* Both are in: the cache is overwritten, be its content newer or not.  An answer
\* for the monitor gets lost if the way to it is down.
FinishCheck(h) ==
  /\ check[h] # Unknown
  /\ \A p \in Parts : check[h].saw[p] # Unknown
  /\ cached' = check[h].saw
  /\ cacheAge' = 0
  /\ check' = [check EXCEPT ![h] = Unknown]
  /\ Respond(IF host = "up" THEN check[h].who ELSE "panel", check[h].saw, FALSE)
  /\ UNCHANGED <<world, file, kills>>

-----------------------------------------------------------------------------
(* The world *)

Change ==
  /\ changes < MaxChanges
  /\ changes' = changes + 1

PartChanges(p) ==
  /\ Change
  /\ fine' = [fine EXCEPT ![p] = ~@]
  /\ since' = [since EXCEPT ![p][~fine[p]] = 0]
  /\ UNCHANGED <<host, cache, check, answer, monitor, file, kills>>

\* A bot that goes down loses its cache and the requests it was serving.
HostChanges ==
  /\ Change
  /\ host' \in {"up", "botDown", "unreachable"} \ {host}
  /\ IF host' = "botDown"
     THEN cached' = Unknown /\ cacheAge' = 0 /\ check' = [h \in Handlers |-> Unknown]
     ELSE UNCHANGED <<cache, check>>
  /\ UNCHANGED <<fine, since, answer, monitor, file, kills>>

\* A check ends by its timeout and a sleep when it is over; the monitor's other
\* steps take no time.
TimePasses ==
  /\ \A h \in Handlers : check[h] # Unknown => check[h].age < CheckTime
  /\ phase \in {"asleep", "awaiting"} \/ (phase = "waiting" /\ timer > 0)
  /\ since' = [p \in Parts |-> [b \in BOOLEAN |->
                 IF b = fine[p] THEN 0 ELSE Older(since[p][b], Horizon)]]
  /\ cacheAge' = IF cached = Unknown THEN 0 ELSE Older(cacheAge, TTL + 1)
  /\ check' = [h \in Handlers |-> IF check[h] = Unknown THEN Unknown
                                  ELSE [check[h] EXCEPT !.age = @ + 1]]
  /\ timer' = IF timer > 0 THEN timer - 1 ELSE 0
  /\ answer' = Unknown
  /\ UNCHANGED <<fine, host, cached, phase, tries, state, file, used, bases, changes,
                 kills>>

Serve ==
  \E h \in Handlers : FinishCheck(h) \/ \E p \in Parts : See(h, p)

Monitor ==
  \/ StartRun \/ ProbeFails \/ Retry \/ Notify \/ Write
  \/ AnswerFromCache("monitor")
  \/ \E h \in Handlers : StartCheck(h, "monitor")

Panel == AnswerFromCache("panel") \/ \E h \in Handlers : StartCheck(h, "panel")

HealthNext ==
  \/ Monitor \/ Serve \/ Panel
  \/ Killed
  \/ HostChanges \/ \E p \in Parts : PartChanges(p)
  \/ TimePasses

HealthSpec == HealthInit /\ [][HealthNext]_healthVars

\* The timer starts the monitor and bash goes on; the event loop serves what is
\* due; time passes.
FairSpec ==
  /\ HealthSpec
  /\ WF_healthVars(Monitor) /\ WF_healthVars(Serve) /\ WF_healthVars(TimePasses)

-----------------------------------------------------------------------------
(* Properties *)

\* Whatever refreshes overlap, an answer says of each part what was true of it
\* less than CACHE_TTL and the timeout of a check ago: an older check that
\* overwrites a newer one does not live longer for it.
AnswerIsRecent ==
  answer # Unknown =>
    \A p \in Parts : since[p][answer[p]] < TTL + CheckTime

\* A failure is declared on RETRIES different checks or lost connections, never
\* on one bad moment that the cache repeats: "Transient blips are suppressed".
FailureIsRepeated ==
  phase \in {"decided", "notified"} /\ state # "ok" => bases = Retries

Healthy == host = "up" /\ \A p \in Parts : fine[p]

\* The monitor finds out: a failure that stays ends up in the state file, whose
\* change is the alert, and so does a recovery.
FileSettles ==
  /\ <>[]Healthy => <>[](file = "ok")
  /\ <>[]~Healthy => <>[](file # "ok")
=============================================================================
