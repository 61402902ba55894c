-------------------------- MODULE Monitoring_proofs -------------------------
(***************************************************************************)
(* Theorems about what tells the operator that something is wrong.         *)
(*                                                                         *)
(* The health endpoint and its monitor, for any number of requests at a    *)
(* time and every TTL, timeout, delay and number of retries: RecentInv     *)
(* bounds how old each thing is that anybody holds, and RepeatInv follows  *)
(* the cache through one run of the monitor.                               *)
(*                                                                         *)
(* The daily check, for any history of the account and any amounts:        *)
(* HistoryInv says which events have rows, BaselineInv what the numbers of *)
(* the baseline are sums of, however the account goes on, and JobInv what  *)
(* a script has read at each of its steps.  The two reports follow from    *)
(* them by arithmetic: over the sums of disjoint sets of events, and over  *)
(* the running net at the first row that goes below the floor.             *)
(*                                                                         *)
(* Of TradeLog_proofs only what says nothing of a log is used: induction,  *)
(* and the sum over a set.                                                 *)
(***************************************************************************)
EXTENDS Health, DailyCheck, TradeLog_proofs

(* The endpoint and the monitor *)

\* Since when each part was last fine, and last was not.
Times == [Parts -> [BOOLEAN -> 0..Horizon]]

\* What a check saw, or has yet to see, of each part.
Sights == [Parts -> BOOLEAN \cup {Unknown}]
Verdicts == {c \in [Parts -> BOOLEAN] : \A p \in Parts : c[p] # Unknown}

Checks == [who : {"monitor", "panel"}, age : 0..CheckTime, saw : Sights]

\* With the times s, what c says of each part was so at most t ago.
SeenBy(s, c, t) == \A p \in Parts : c[p] # Unknown => s[p][c[p]] <= t

WorldTyped ==
  /\ fine \in [Parts -> BOOLEAN]
  /\ since \in Times
  /\ \A p \in Parts : since[p][fine[p]] = 0

\* A check saw nothing before it started.
ChecksSeen ==
  /\ check \in [Handlers -> Checks \cup {Unknown}]
  /\ \A h \in Handlers : check[h] # Unknown => SeenBy(since, check[h].saw, check[h].age)

\* The cache is no older than the check behind it and the time it has been there.
CacheSeen ==
  /\ cacheAge \in 0..(TTL + 1)
  /\ cached # Unknown => cached \in Verdicts /\ SeenBy(since, cached, CheckTime + cacheAge)

AnswerSeen == answer # Unknown => answer \in Verdicts /\ SeenBy(since, answer, Horizon - 1)

RecentInv == WorldTyped /\ ChecksSeen /\ CacheSeen /\ AnswerSeen

\* The horizon of the times lies beyond the longest check.
LEMMA HorizonIsPositive == Horizon \in Nat /\ Horizon >= 1 /\ CheckTime <= Horizon - 1
  BY NumberAssumption DEF Horizon

\* What was so t ago at most, is so t + k ago at most when k has passed.
LEMMA SeenLater ==
  ASSUME NEW s \in Times, NEW z \in Times, NEW c \in Sights, NEW t \in Nat,
         NEW k \in Nat, NEW u \in Nat, t + k <= u,
         \A p \in Parts : \A b \in BOOLEAN : z[p][b] <= s[p][b] + k,
         SeenBy(s, c, t)
  PROVE  SeenBy(z, c, u)
<1> SUFFICES ASSUME NEW p \in Parts, c[p] # Unknown PROVE z[p][c[p]] <= u
  BY DEF SeenBy
<1>1. c[p] \in BOOLEAN
  BY DEF Sights
<1>2. s[p][c[p]] <= t
  BY DEF SeenBy
<1>3. PICK b \in BOOLEAN : b = c[p]
  BY <1>1
<1>4. s[p] \in [BOOLEAN -> 0..Horizon] /\ z[p] \in [BOOLEAN -> 0..Horizon]
  BY DEF Times
<1>5. s[p][b] \in 0..Horizon /\ z[p][b] \in 0..Horizon
  BY <1>4
<1>6. s[p][b] <= t /\ z[p][b] <= s[p][b] + k
  BY <1>2, <1>3
<1>7. z[p][b] <= u
  BY <1>5, <1>6, HorizonIsPositive
<1> QED
  BY <1>3, <1>7

\* A bound of what was seen may be taken wider.
LEMMA SeenNow ==
  ASSUME NEW s, NEW c, NEW t \in Nat, NEW u \in Nat, t <= u, s \in Times, c \in Sights, 
         SeenBy(s, c, t)
  PROVE  SeenBy(s, c, u)
<1>1. \A p \in Parts : \A b \in BOOLEAN : s[p][b] <= s[p][b] + 0
  <2> SUFFICES ASSUME NEW p \in Parts, NEW b \in BOOLEAN PROVE s[p][b] <= s[p][b] + 0
    OBVIOUS
  <2>1. s[p] \in [BOOLEAN -> 0..Horizon]
    BY DEF Times
  <2>2. s[p][b] \in 0..Horizon
    BY <2>1
  <2> QED
    BY <2>2, HorizonIsPositive
<1> QED
  BY <1>1, SeenLater

\* While the world stands still what was seen stays as old as it was.
LEMMA StillSeen ==
  ASSUME RecentInv, UNCHANGED <<fine, since>>
  PROVE  /\ WorldTyped'
         /\ UNCHANGED check => ChecksSeen'
         /\ UNCHANGED cache => CacheSeen'
         /\ UNCHANGED answer => AnswerSeen'
<1>1. WorldTyped'
  BY DEF RecentInv, WorldTyped
<1>2. ASSUME UNCHANGED check PROVE ChecksSeen'
  BY <1>2 DEF RecentInv, ChecksSeen
<1>3. ASSUME UNCHANGED cache PROVE CacheSeen'
  BY <1>3 DEF RecentInv, CacheSeen, cache
<1>4. ASSUME UNCHANGED answer PROVE AnswerSeen'
  BY <1>4 DEF RecentInv, AnswerSeen
<1> QED
  BY <1>1, <1>2, <1>3, <1>4

\* A monitor that gives up on its request leaves the check to go on.
LEMMA DisownedSeen ==
  ASSUME RecentInv, UNCHANGED <<fine, since>>,
         check' = [h \in Handlers |-> IF Asked(h) THEN [check[h] EXCEPT !.who = "panel"]
                                                  ELSE check[h]]
  PROVE  ChecksSeen'
<1>1. ASSUME NEW h \in Handlers
      PROVE  /\ check'[h] \in Checks \cup {Unknown}
             /\ check'[h] # Unknown => SeenBy(since', check'[h].saw, check'[h].age)
  <2>1. check[h] \in Checks \cup {Unknown}
    BY DEF RecentInv, ChecksSeen
  <2>2. CASE Asked(h)
    <3>1. check[h] \in Checks /\ check[h] # Unknown
      BY <2>1, <2>2 DEF Asked
    <3>2. check'[h] = [check[h] EXCEPT !.who = "panel"]
      BY <2>2
    <3>3. check'[h] \in Checks /\ check'[h].saw = check[h].saw /\ check'[h].age = check[h].age
      BY <3>1, <3>2 DEF Checks
    <3>4. SeenBy(since, check[h].saw, check[h].age)
      BY <3>1 DEF RecentInv, ChecksSeen
    <3> QED
      BY <3>3, <3>4
  <2>3. CASE ~Asked(h)
    <3>1. check'[h] = check[h]
      BY <2>3
    <3>2. check[h] # Unknown => SeenBy(since, check[h].saw, check[h].age)
      BY DEF RecentInv, ChecksSeen
    <3> QED
      BY <2>1, <3>1, <3>2
  <2> QED
    BY <2>2, <2>3
<1>2. check' \in [Handlers -> Checks \cup {Unknown}]
  BY <1>1
<1> QED
  BY <1>1, <1>2 DEF ChecksSeen

\* The checks of one handler change.
LEMMA OneCheckSeen ==
  ASSUME RecentInv, UNCHANGED <<fine, since>>, NEW h \in Handlers, NEW c,
         check' = [check EXCEPT ![h] = c],
         c = Unknown \/ (c \in Checks /\ SeenBy(since, c.saw, c.age))
  PROVE  ChecksSeen'
<1>1. check \in [Handlers -> Checks \cup {Unknown}]
  BY DEF RecentInv, ChecksSeen
<1>2. check' \in [Handlers -> Checks \cup {Unknown}]
  BY <1>1
<1>3. ASSUME NEW g \in Handlers, check'[g] # Unknown
      PROVE  SeenBy(since', check'[g].saw, check'[g].age)
  <2>1. CASE g = h
    BY <1>1, <1>3, <2>1
  <2>2. CASE g # h
    <3>1. check'[g] = check[g]
      BY <1>1, <2>2
    <3>2. check[g] # Unknown => SeenBy(since, check[g].saw, check[g].age)
      BY DEF RecentInv, ChecksSeen
    <3> QED
      BY <1>3, <3>1, <3>2
  <2> QED
    BY <2>1, <2>2
<1> QED
  BY <1>2, <1>3 DEF ChecksSeen

\* A check that has looked at nothing yet saw nothing too long ago.
LEMMA StartCheckSeen ==
  ASSUME RecentInv, NEW h \in Handlers, NEW who \in {"monitor", "panel"}, StartCheck(h, who)
  PROVE  RecentInv'
<1>1. UNCHANGED <<fine, since>> /\ UNCHANGED cache /\ UNCHANGED answer
  BY DEF StartCheck, world, cache
<1> DEFINE new == [who |-> who, age |-> 0, saw |-> [p \in Parts |-> Unknown]]
<1>2. check' = [check EXCEPT ![h] = new]
  BY DEF StartCheck
<1>3. new \in Checks
  BY NumberAssumption DEF Checks, Sights
<1>4. SeenBy(since, new.saw, new.age)
  BY DEF SeenBy
<1> HIDE DEF new
<1>5. ChecksSeen'
  BY <1>1, <1>2, <1>3, <1>4, OneCheckSeen
<1> QED
  BY <1>1, <1>5, StillSeen DEF RecentInv

\* What a check sees of a part is so at this instant.
LEMMA SeeSeen ==
  ASSUME RecentInv, NEW h \in Handlers, NEW p \in Parts, See(h, p)
  PROVE  RecentInv'
<1>1. UNCHANGED <<fine, since>> /\ UNCHANGED cache /\ UNCHANGED answer
  BY DEF See, world, cache
<1>2. check[h] # Unknown /\ check \in [Handlers -> Checks \cup {Unknown}]
  BY DEF See, RecentInv, ChecksSeen
<1>3. PICK c \in Checks : c = check[h]
  BY <1>2
<1> DEFINE new == [c EXCEPT !.saw[p] = fine[p]]
<1>4. check' = [check EXCEPT ![h] = new]
  BY <1>2, <1>3 DEF See
<1>5. c.saw \in Sights /\ c.age \in Nat /\ fine[p] \in BOOLEAN /\ since \in Times
  BY NumberAssumption DEF Checks, RecentInv, WorldTyped
<1>6. new.saw = [c.saw EXCEPT ![p] = fine[p]] /\ new.age = c.age /\ new.who = c.who
  BY <1>3 DEF Checks
<1>7. new.saw \in Sights
  BY <1>5, <1>6 DEF Sights
<1>8. new \in Checks
  BY <1>7 DEF Checks
<1>9. SeenBy(since, new.saw, new.age)
  <2> SUFFICES ASSUME NEW q \in Parts, new.saw[q] # Unknown
               PROVE  since[q][new.saw[q]] <= c.age
    BY <1>6 DEF SeenBy
  <2>1. CASE q = p
    <3>1. new.saw[q] = fine[p]
      BY <1>5, <1>6, <2>1 DEF Sights
    <3>2. since[q][new.saw[q]] = 0
      BY <2>1, <3>1 DEF RecentInv, WorldTyped
    <3> QED
      BY <1>5, <3>2
  <2>2. CASE q # p
    <3>1. new.saw[q] = c.saw[q]
      BY <1>5, <1>6, <2>2 DEF Sights
    <3>2. SeenBy(since, c.saw, c.age)
      BY <1>2, <1>3 DEF RecentInv, ChecksSeen
    <3> QED
      BY <3>1, <3>2 DEF SeenBy
  <2> QED
    BY <2>1, <2>2
<1> HIDE DEF new
<1>10. ChecksSeen'
  BY <1>1, <1>4, <1>8, <1>9, OneCheckSeen
<1> QED
  BY <1>1, <1>10, StillSeen DEF RecentInv

\* A check that is over saw everything within its timeout.
LEMMA FinishCheckSeen ==
  ASSUME RecentInv, NEW h \in Handlers, FinishCheck(h)
  PROVE  RecentInv'
<1>1. UNCHANGED <<fine, since>>
  BY DEF FinishCheck, world
<1>2. check[h] # Unknown /\ check \in [Handlers -> Checks \cup {Unknown}]
  BY DEF FinishCheck, RecentInv, ChecksSeen
<1>3. PICK c \in Checks : c = check[h]
  BY <1>2
<1>4. cached' = c.saw /\ cacheAge' = 0 /\ answer' = c.saw
  BY <1>3 DEF FinishCheck, Respond
<1>5. c.saw \in Sights /\ c.age \in 0..CheckTime /\ since \in Times
  BY DEF Checks, RecentInv, WorldTyped
<1>6. c.saw \in Verdicts
  <2>1. \A p \in Parts : c.saw[p] # Unknown
    BY <1>3 DEF FinishCheck
  <2> QED
    BY <1>5, <2>1 DEF Sights, Verdicts
<1>7. SeenBy(since, c.saw, c.age)
  BY <1>2, <1>3 DEF RecentInv, ChecksSeen
<1>8. SeenBy(since, c.saw, CheckTime + 0) /\ SeenBy(since, c.saw, Horizon - 1)
  <2>1. /\ c.age \in Nat /\ c.age <= CheckTime + 0 /\ c.age <= Horizon - 1
        /\ CheckTime + 0 \in Nat /\ Horizon - 1 \in Nat
    BY <1>5, NumberAssumption, HorizonIsPositive
  <2> QED
    BY <1>5, <1>7, <2>1, SeenNow
<1>9. CacheSeen'
  BY <1>1, <1>4, <1>6, <1>8, NumberAssumption DEF CacheSeen
<1>10. AnswerSeen'
  BY <1>1, <1>4, <1>6, <1>8 DEF AnswerSeen
<1>11. ChecksSeen'
  <2> DEFINE new == Unknown
  <2>1. check' = [check EXCEPT ![h] = new]
    BY DEF FinishCheck
  <2>2. new = Unknown \/ (new \in Checks /\ SeenBy(since, new.saw, new.age))
    OBVIOUS
  <2> HIDE DEF new
  <2> QED
    BY <1>1, <2>1, <2>2, OneCheckSeen
<1> QED
  BY <1>1, <1>9, <1>10, <1>11, StillSeen DEF RecentInv

\* A fresh answer was seen less than CACHE_TTL and the timeout of a check ago.
LEMMA AnswerFromCacheSeen ==
  ASSUME RecentInv, NEW who \in {"monitor", "panel"}, AnswerFromCache(who)
  PROVE  RecentInv'
<1>1. UNCHANGED <<fine, since>> /\ UNCHANGED cache /\ UNCHANGED check
  BY DEF AnswerFromCache, world
<1>2. answer' = cached /\ cached # Unknown /\ cacheAge < TTL
  BY DEF AnswerFromCache, Respond, FreshCache
<1>3. /\ cached \in Verdicts /\ SeenBy(since, cached, CheckTime + cacheAge)
      /\ cacheAge \in 0..(TTL + 1) /\ since \in Times
  BY <1>2 DEF RecentInv, CacheSeen, WorldTyped
<1>4. SeenBy(since, cached, Horizon - 1)
  <2>1. /\ CheckTime + cacheAge \in Nat /\ Horizon - 1 \in Nat
        /\ CheckTime + cacheAge <= Horizon - 1
    BY <1>2, <1>3, NumberAssumption DEF Horizon
  <2>2. cached \in Sights
    BY <1>3 DEF Verdicts, Sights
  <2> QED
    BY <1>3, <2>1, <2>2, SeenNow
<1>5. AnswerSeen'
  BY <1>1, <1>2, <1>3, <1>4 DEF AnswerSeen
<1> QED
  BY <1>1, <1>5, StillSeen DEF RecentInv

\* If all times grow by at most k, and the ages with them, nothing looks newer.
LEMMA WorldMoves ==
  ASSUME RecentInv, NEW k \in 0..1, WorldTyped',
         \A p \in Parts : \A b \in BOOLEAN : since'[p][b] <= since[p][b] + k
  PROVE  \A c \in Sights : \A t \in Nat :
           SeenBy(since, c, t) => SeenBy(since', c, t + k)
<1> SUFFICES ASSUME NEW c \in Sights, NEW t \in Nat, SeenBy(since, c, t)
             PROVE  SeenBy(since', c, t + k)
  OBVIOUS
<1>1. since \in Times /\ since' \in Times
  BY DEF RecentInv, WorldTyped
<1>2. t + k \in Nat /\ k \in Nat /\ t + k <= t + k
  OBVIOUS
<1> QED
  BY <1>1, <1>2, SeenLater

\* Setting one time to zero.
LEMMA ResetTime ==
  ASSUME NEW S, NEW f \in [S -> 0..Horizon], NEW d \in S, NEW z, z = [f EXCEPT ![d] = 0]
  PROVE  z \in [S -> 0..Horizon] /\ z[d] = 0
  BY HorizonIsPositive

\* The prover has to be told what a negation is.
LEMMA OtherBoolean == ASSUME NEW b PROVE (~b) \in BOOLEAN /\ (~b) # b
<1>1. (~b) = TRUE \/ (~b) = FALSE
  BY Zenon
<1>2. (~b) \in BOOLEAN
  BY <1>1, SMT
<1> QED
  BY <1>2, Zenon

\* A part that fails or recovers was, until this instant, what it was.
LEMMA PartChangesSeen ==
  ASSUME RecentInv, NEW p \in Parts, PartChanges(p)
  PROVE  RecentInv'
<1>1. UNCHANGED check /\ UNCHANGED cache /\ UNCHANGED answer
  BY DEF PartChanges, cache
<1>2. fine \in [Parts -> BOOLEAN] /\ since \in Times /\ since[p][fine[p]] = 0
  BY DEF RecentInv, WorldTyped
<1> DEFINE b == fine[p]
<1>3. (~b) \in BOOLEAN /\ (~b) # b
  BY OtherBoolean
<1>4. fine' = [fine EXCEPT ![p] = ~b]
  BY Zenon DEF PartChanges
<1>5. since' = [since EXCEPT ![p] = [since[p] EXCEPT ![~b] = 0]]
  BY Zenon DEF PartChanges
<1>6. PICK d \in BOOLEAN : d = ~b
  BY <1>3, Zenon
<1>7. d # b /\ fine' = [fine EXCEPT ![p] = d]
      /\ since' = [since EXCEPT ![p] = [since[p] EXCEPT ![d] = 0]]
  BY <1>3, <1>4, <1>5, <1>6, Zenon
<1> HIDE DEF b
<1>8. ASSUME NEW q \in Parts PROVE since[q] \in [BOOLEAN -> 0..Horizon]
  BY <1>2 DEF Times
<1>9. ASSUME NEW q \in Parts
      PROVE  /\ since'[q] \in [BOOLEAN -> 0..Horizon]
             /\ q # p => since'[q] = since[q] /\ fine'[q] = fine[q]
             /\ q = p => fine'[q] = d /\ since'[q][d] = 0
             /\ \A e \in BOOLEAN : since'[q][e] <= since[q][e] + 0
  <2>1. CASE q = p
    <3>1. since'[q] = [since[p] EXCEPT ![d] = 0]
      BY <1>2, <1>7, <2>1 DEF Times
    <3>2. since[p] \in [BOOLEAN -> 0..Horizon]
      BY <1>8
    <3>3. fine'[q] = d
      BY <1>2, <1>7, <2>1
    <3>4. since'[q] \in [BOOLEAN -> 0..Horizon] /\ since'[q][d] = 0
      BY <1>6, <3>1, <3>2, ResetTime, Zenon
    <3>5. \A e \in BOOLEAN : since'[q][e] <= since[q][e] + 0
      <4> SUFFICES ASSUME NEW e \in BOOLEAN PROVE since'[q][e] <= since[q][e] + 0
        OBVIOUS
      <4>1. since[p][e] \in 0..Horizon
        BY <3>2
      <4>2. since'[q][e] = since[p][e] \/ since'[q][e] = 0
        BY <3>1, <3>2
      <4> QED
        BY <2>1, <4>1, <4>2, HorizonIsPositive
    <3> QED
      BY <2>1, <3>3, <3>4, <3>5
  <2>2. CASE q # p
    <3>1. since'[q] = since[q] /\ fine'[q] = fine[q]
      BY <1>2, <1>7, <2>2 DEF Times
    <3>2. \A e \in BOOLEAN : since[q][e] <= since[q][e] + 0
      <4> SUFFICES ASSUME NEW e \in BOOLEAN PROVE since[q][e] <= since[q][e] + 0
        OBVIOUS
      <4>1. since[q][e] \in 0..Horizon
        BY <1>8
      <4> QED
        BY <4>1, HorizonIsPositive
    <3> QED
      BY <1>8, <2>2, <3>1, <3>2
  <2> QED
    BY <2>1, <2>2
<1>10. WorldTyped'
  <2>1. since' \in Times
    BY <1>2, <1>7, <1>9 DEF Times
  <2>2. fine' \in [Parts -> BOOLEAN]
    BY <1>2, <1>6, <1>7
  <2>3. \A q \in Parts : since'[q][fine'[q]] = 0
    BY <1>9 DEF RecentInv, WorldTyped
  <2> QED
    BY <2>1, <2>2, <2>3 DEF WorldTyped
<1>11. \A c \in Sights : \A t \in Nat :
         SeenBy(since, c, t) => SeenBy(since', c, t + 0)
  <2>1. 0 \in 0..1
    OBVIOUS
  <2> QED
    BY <1>9, <1>10, <2>1, WorldMoves
<1>12. \A c \in Sights : \A t \in Nat : SeenBy(since, c, t) => SeenBy(since', c, t)
  <2>1. \A t \in Nat : t + 0 = t
    OBVIOUS
  <2> QED
    BY <1>11, <2>1
<1>13. ChecksSeen'
  <2>1. ASSUME NEW h \in Handlers, check[h] # Unknown
        PROVE  SeenBy(since', check[h].saw, check[h].age)
    <3>1. check[h] \in Checks /\ SeenBy(since, check[h].saw, check[h].age)
      BY <2>1 DEF RecentInv, ChecksSeen
    <3>2. check[h].saw \in Sights /\ check[h].age \in Nat
      BY <3>1, NumberAssumption DEF Checks
    <3> QED
      BY <1>12, <3>1, <3>2
  <2> QED
    BY <1>1, <2>1 DEF RecentInv, ChecksSeen
<1>14. CacheSeen'
  <2>1. ASSUME cached # Unknown PROVE SeenBy(since', cached, CheckTime + cacheAge)
    <3>1. /\ cached \in Sights /\ CheckTime + cacheAge \in Nat
          /\ SeenBy(since, cached, CheckTime + cacheAge)
      BY <2>1, NumberAssumption DEF RecentInv, CacheSeen, Verdicts, Sights
    <3> QED
      BY <1>12, <3>1
  <2> QED
    BY <1>1, <2>1 DEF RecentInv, CacheSeen, cache
<1>15. AnswerSeen'
  <2>1. ASSUME answer # Unknown PROVE SeenBy(since', answer, Horizon - 1)
    <3>1. /\ answer \in Sights /\ Horizon - 1 \in Nat
          /\ SeenBy(since, answer, Horizon - 1)
      BY <2>1, HorizonIsPositive DEF RecentInv, AnswerSeen, Verdicts, Sights
    <3> QED
      BY <1>12, <3>1
  <2> QED
    BY <1>1, <2>1 DEF RecentInv, AnswerSeen
<1> QED
  BY <1>10, <1>13, <1>14, <1>15 DEF RecentInv

\* A bot that goes down forgets what it saw.
LEMMA HostChangesSeen == ASSUME RecentInv, HostChanges PROVE RecentInv'
<1>1. UNCHANGED <<fine, since>> /\ UNCHANGED answer
  BY DEF HostChanges
<1>2. CASE host' = "botDown"
  <2>1. cached' = Unknown /\ cacheAge' = 0 /\ check' = [h \in Handlers |-> Unknown]
    BY <1>2 DEF HostChanges
  <2>2. ChecksSeen' /\ CacheSeen'
    BY <2>1, NumberAssumption DEF ChecksSeen, CacheSeen
  <2> QED
    BY <1>1, <2>2, StillSeen DEF RecentInv
<1>3. CASE host' # "botDown"
  <2>1. UNCHANGED cache /\ UNCHANGED check
    BY <1>3 DEF HostChanges, cache
  <2> QED
    BY <1>1, <2>1, StillSeen DEF RecentInv
<1> QED
  BY <1>2, <1>3

\* Time makes all that was seen older by a unit, and a check that awaits and the
\* cache with it.
LEMMA TimePassesSeen == ASSUME RecentInv, TimePasses PROVE RecentInv'
<1>1. fine' = fine /\ cached' = cached /\ answer' = Unknown
  BY DEF TimePasses
<1>2. fine \in [Parts -> BOOLEAN] /\ since \in Times
  BY DEF RecentInv, WorldTyped
<1>3. ASSUME NEW p \in Parts, NEW b \in BOOLEAN
      PROVE  /\ since'[p][b] \in 0..Horizon
             /\ since'[p][b] <= since[p][b] + 1
             /\ b = fine[p] => since'[p][b] = 0
  <2>1. since[p] \in [BOOLEAN -> 0..Horizon]
    BY <1>2 DEF Times
  <2>2. since[p][b] \in 0..Horizon
    BY <2>1
  <2>3. since'[p][b] = IF b = fine[p] THEN 0 ELSE Older(since[p][b], Horizon)
    BY Zenon DEF TimePasses
  <2>4. Older(since[p][b], Horizon) \in 0..Horizon
        /\ Older(since[p][b], Horizon) <= since[p][b] + 1
    BY <2>2, HorizonIsPositive DEF Older
  <2> QED
    BY <2>2, <2>3, <2>4, HorizonIsPositive
<1>4. WorldTyped'
  <2>1. since' \in Times
    <3> DEFINE t(p, b) == IF b = fine[p] THEN 0 ELSE Older(since[p][b], Horizon)
               z(p) == [b \in BOOLEAN |-> t(p, b)]
    <3>1. since' = [p \in Parts |-> z(p)]
      BY Zenon DEF TimePasses
    <3>2. ASSUME NEW p \in Parts PROVE z(p) \in [BOOLEAN -> 0..Horizon]
      <4>1. ASSUME NEW b \in BOOLEAN PROVE t(p, b) \in 0..Horizon
        <5>1. since'[p][b] = t(p, b)
          BY <3>1, Zenon
        <5> HIDE DEF t
        <5> QED
          BY <1>3, <5>1
      <4> HIDE DEF t
      <4> QED
        BY <4>1, Zenon
    <3> HIDE DEF z
    <3> QED
      BY <3>1, <3>2 DEF Times
  <2>2. \A p \in Parts : since'[p][fine'[p]] = 0
    BY <1>1, <1>2, <1>3
  <2> QED
    BY <1>1, <1>2, <2>1, <2>2 DEF WorldTyped
<1>5. \A c \in Sights : \A t \in Nat :
        SeenBy(since, c, t) => SeenBy(since', c, t + 1)
  <2>1. 1 \in 0..1
    OBVIOUS
  <2>2. \A p \in Parts : \A b \in BOOLEAN : since'[p][b] <= since[p][b] + 1
    BY <1>3
  <2> QED
    BY <1>4, <2>1, <2>2, WorldMoves
<1>6. ASSUME NEW h \in Handlers
      PROVE  /\ check'[h] \in Checks \cup {Unknown}
             /\ check'[h] # Unknown => SeenBy(since', check'[h].saw, check'[h].age)
  <2>1. check'[h] = IF check[h] = Unknown THEN Unknown ELSE [check[h] EXCEPT !.age = @ + 1]
    BY DEF TimePasses
  <2>2. CASE check[h] = Unknown
    BY <2>1, <2>2
  <2>3. CASE check[h] # Unknown
    <3>1. check[h] \in Checks /\ SeenBy(since, check[h].saw, check[h].age)
      BY <2>3 DEF RecentInv, ChecksSeen
    <3>2. check[h].age < CheckTime
      BY <2>3 DEF TimePasses
    <3>3. PICK c \in Checks : c = check[h]
      BY <3>1
    <3>4. c.saw \in Sights /\ c.age \in 0..CheckTime /\ c.age < CheckTime /\ c.age \in Nat
      BY <3>2, <3>3, NumberAssumption DEF Checks
    <3>5. check'[h] = [c EXCEPT !.age = c.age + 1]
      BY <2>1, <2>3, <3>3
    <3>6. c.age + 1 \in 0..CheckTime
      BY <3>4, NumberAssumption
    <3>7. check'[h] \in Checks /\ check'[h].saw = c.saw /\ check'[h].age = c.age + 1
      BY <3>5, <3>6 DEF Checks
    <3>8. SeenBy(since', c.saw, c.age + 1)
      BY <1>5, <3>1, <3>3, <3>4
    <3> QED
      BY <3>7, <3>8
  <2> QED
    BY <2>2, <2>3
<1>7. ChecksSeen'
  <2>1. check' \in [Handlers -> Checks \cup {Unknown}]
    <3> DEFINE c(h) == IF check[h] = Unknown THEN Unknown ELSE [check[h] EXCEPT !.age = @ + 1]
    <3>1. check' = [h \in Handlers |-> c(h)]
      BY DEF TimePasses
    <3>2. ASSUME NEW h \in Handlers PROVE c(h) \in Checks \cup {Unknown}
      <4>1. check'[h] = c(h)
        BY <3>1, Zenon
      <4> HIDE DEF c
      <4> QED
        BY <1>6, <4>1
    <3> HIDE DEF c
    <3> QED
      BY <3>1, <3>2, Zenon
  <2> QED
    BY <1>6, <2>1 DEF ChecksSeen
<1>8. CacheSeen'
  <2>1. CASE cached = Unknown
    <3>1. cacheAge' = 0
      BY <2>1 DEF TimePasses
    <3> QED
      BY <1>1, <2>1, <3>1, NumberAssumption DEF CacheSeen
  <2>2. CASE cached # Unknown
    <3>1. cacheAge' = Older(cacheAge, TTL + 1)
      BY <2>2 DEF TimePasses
    <3>2. /\ cacheAge \in 0..(TTL + 1) /\ cached \in Verdicts /\ cached \in Sights
          /\ SeenBy(since, cached, CheckTime + cacheAge)
      BY <2>2 DEF RecentInv, CacheSeen, Verdicts, Sights
    <3>3. cacheAge' \in 0..(TTL + 1)
      BY <3>1, <3>2, NumberAssumption DEF Older
    <3>4. SeenBy(since', cached, CheckTime + cacheAge')
      <4>1. CASE cacheAge < TTL + 1
        <5>1. CheckTime + cacheAge \in Nat /\ (CheckTime + cacheAge) + 1 = CheckTime + cacheAge'
          BY <3>1, <3>2, <4>1, NumberAssumption DEF Older
        <5>2. SeenBy(since', cached, (CheckTime + cacheAge) + 1)
          BY <1>5, <3>2, <5>1
        <5> QED
          BY <5>1, <5>2
      <4>2. CASE cacheAge >= TTL + 1
        <5>1. CheckTime + cacheAge' >= Horizon /\ CheckTime + cacheAge' \in Nat
          BY <3>1, <3>2, <4>2, NumberAssumption DEF Older, Horizon
        <5> SUFFICES ASSUME NEW p \in Parts, cached[p] # Unknown
                     PROVE  since'[p][cached[p]] <= CheckTime + cacheAge'
          BY DEF SeenBy
        <5>2. since'[p][cached[p]] \in 0..Horizon
          BY <1>3, <3>2 DEF Verdicts
        <5> QED
          BY <5>1, <5>2, HorizonIsPositive
      <4> QED
        BY <3>2, <4>1, <4>2, NumberAssumption
    <3> QED
      BY <1>1, <3>2, <3>3, <3>4 DEF CacheSeen
  <2> QED
    BY <2>1, <2>2
<1> QED
  BY <1>1, <1>4, <1>7, <1>8 DEF RecentInv, AnswerSeen

\* Every step of the parts, the handlers and the clock keeps the bounds.
LEMMA RecentNext == RecentInv /\ [HealthNext]_healthVars => RecentInv'
<1> SUFFICES ASSUME RecentInv, [HealthNext]_healthVars PROVE RecentInv'
  OBVIOUS
<1>1. CASE StartRun \/ Retry \/ Notify \/ Write \/ UNCHANGED healthVars
  <2>1. UNCHANGED <<fine, since>> /\ UNCHANGED cache /\ UNCHANGED answer /\ UNCHANGED check
    BY <1>1 DEF StartRun, Retry, Notify, Write, healthVars, world, cache
  <2> QED
    BY <2>1, StillSeen DEF RecentInv
<1>2. CASE ProbeFails \/ Killed
  <2>1. UNCHANGED <<fine, since>> /\ UNCHANGED cache /\ UNCHANGED answer
    BY <1>2 DEF ProbeFails, Killed, world, cache
  <2>2. check' = [h \in Handlers |-> IF Asked(h) THEN [check[h] EXCEPT !.who = "panel"]
                                                 ELSE check[h]]
    BY <1>2 DEF ProbeFails, Killed
  <2> QED
    BY <2>1, <2>2, StillSeen, DisownedSeen DEF RecentInv
<1>3. CASE AnswerFromCache("monitor") \/ AnswerFromCache("panel")
  BY <1>3, AnswerFromCacheSeen
<1>4. CASE \E h \in Handlers : StartCheck(h, "monitor") \/ StartCheck(h, "panel")
  BY <1>4, StartCheckSeen
<1>5. CASE Serve
  BY <1>5, FinishCheckSeen, SeeSeen DEF Serve
<1>6. CASE HostChanges \/ \E p \in Parts : PartChanges(p)
  BY <1>6, HostChangesSeen, PartChangesSeen
<1>7. CASE TimePasses
  BY <1>7, TimePassesSeen
<1> QED
  BY <1>1, <1>2, <1>3, <1>4, <1>5, <1>6, <1>7 DEF HealthNext, Monitor, Panel

\* Before the first request nothing was seen.
LEMMA RecentInit == HealthInit => RecentInv
<1> SUFFICES ASSUME HealthInit PROVE RecentInv
  OBVIOUS
<1>1. fine = [p \in Parts |-> TRUE]
      /\ since = [p \in Parts |-> [b \in BOOLEAN |-> IF b THEN 0 ELSE Horizon]]
  BY DEF HealthInit
<1>2. ASSUME NEW p \in Parts
      PROVE  since[p] \in [BOOLEAN -> 0..Horizon] /\ since[p][fine[p]] = 0
  <2>1. since[p] = [b \in BOOLEAN |-> IF b THEN 0 ELSE Horizon] /\ fine[p] = TRUE
    BY <1>1, Zenon
  <2>2. 0 \in 0..Horizon /\ Horizon \in 0..Horizon
    BY HorizonIsPositive
  <2>3. ASSUME NEW b \in BOOLEAN PROVE since[p][b] \in 0..Horizon
    BY <2>1, <2>2, <2>3
  <2>4. since[p][fine[p]] = 0
    BY <2>1, Zenon
  <2> QED
    BY <2>1, <2>3, <2>4
<1>3. WorldTyped
  BY <1>1, <1>2 DEF WorldTyped, Times
<1> QED
  BY <1>3, NumberAssumption DEF HealthInit, RecentInv, ChecksSeen, CacheSeen, AnswerSeen

\* Whatever refreshes overlap, an answer is never older than the cache and the
\* timeout of a check.
THEOREM AnswerAlwaysRecent == HealthSpec => []AnswerIsRecent
<1>1. RecentInv => AnswerIsRecent
  <2> SUFFICES ASSUME RecentInv, answer # Unknown, NEW p \in Parts
               PROVE  since[p][answer[p]] < TTL + CheckTime
    BY DEF AnswerIsRecent
  <2>1. answer \in Verdicts /\ SeenBy(since, answer, Horizon - 1) /\ since \in Times
    BY DEF RecentInv, AnswerSeen, WorldTyped
  <2>2. answer[p] \in BOOLEAN /\ answer[p] # Unknown
    BY <2>1 DEF Verdicts
  <2>3. PICK b \in BOOLEAN : b = answer[p]
    BY <2>2
  <2>4. since[p] \in [BOOLEAN -> 0..Horizon]
    BY <2>1 DEF Times
  <2>5. since[p][b] \in 0..Horizon
    BY <2>4
  <2>6. since[p][b] <= Horizon - 1
    BY <2>1, <2>2, <2>3 DEF SeenBy
  <2> QED
    BY <2>3, <2>5, <2>6, NumberAssumption DEF Horizon
<1> QED
  BY <1>1, RecentInit, RecentNext, PTL DEF HealthSpec

-----------------------------------------------------------------------------

\* The handlers that work on a request of the monitor.
Asking == {h \in Handlers : Asked(h)}

Undecided == {"asleep", "probing", "awaiting", "waiting"}

MonitorTyped ==
  /\ phase \in Undecided \cup {"decided", "notified"}
  /\ tries \in Nat /\ timer \in Nat /\ bases \in Nat

\* Until it decides, every failure of the run has a basis of its own.
RunCounted ==
  /\ phase \in Undecided => bases = tries /\ tries < Retries
  /\ phase = "asleep" => tries = 0 /\ ~used
  /\ phase \in {"decided", "notified"} /\ state # "ok" => bases = Retries

\* The monitor waits for one request at most.
OneAsked ==
  /\ Asking # {} => phase = "awaiting"
  /\ \A g, h \in Asking : g = h

\* A check that answered the run is no longer fresh when the monitor asks again.
CacheSpent ==
  used /\ cached # Unknown =>
    /\ phase \in {"probing", "awaiting"} => cacheAge >= TTL
    /\ phase = "waiting" => cacheAge >= TTL \/ cacheAge + timer >= Delay

RepeatInv == MonitorTyped /\ RunCounted /\ OneAsked /\ CacheSpent

\* A probe of a run that has not decided, with a basis of its own if it failed.
LEMMA ProbedCounts ==
  ASSUME tries \in Nat, bases = tries, tries < Retries, NEW s, Probed(s),
         s # "ok" => bases' = bases + 1, s = "ok" => bases' = bases
  PROVE  /\ MonitorTyped' /\ RunCounted'
         /\ phase' \in {"waiting", "decided"} /\ (phase' = "waiting" => timer' = Delay)
<1>1. CASE s = "ok"
  BY <1>1 DEF Probed, MonitorTyped, RunCounted, Undecided
<1>2. CASE s # "ok" /\ tries + 1 = Retries
  BY <1>2 DEF Probed, MonitorTyped, RunCounted, Undecided
<1>3. CASE s # "ok" /\ tries + 1 # Retries
  BY <1>3, NumberAssumption DEF Probed, MonitorTyped, RunCounted, Undecided
<1> QED
  BY <1>1, <1>2, <1>3

\* Who gave up asks no more.
LEMMA DisownedAsks ==
  ASSUME ChecksSeen,
         check' = [h \in Handlers |-> IF Asked(h) THEN [check[h] EXCEPT !.who = "panel"]
                                                  ELSE check[h]]
  PROVE  Asking' = {}
<1> SUFFICES ASSUME NEW h \in Handlers PROVE ~Asked(h)'
  BY DEF Asking
<1>1. check[h] \in Checks \cup {Unknown}
  BY DEF ChecksSeen
<1>2. CASE Asked(h)
  <2>1. check[h] \in Checks /\ check'[h] = [check[h] EXCEPT !.who = "panel"]
    BY <1>1, <1>2 DEF Asked
  <2>2. check'[h].who = "panel"
    BY <2>1 DEF Checks
  <2> QED
    BY <2>2 DEF Asked
<1>3. CASE ~Asked(h)
  <2>1. check'[h] = check[h]
    BY <1>3
  <2> QED
    BY <1>3, <2>1 DEF Asked
<1> QED
  BY <1>2, <1>3

\* Time and what a check sees change nothing about who asked.
LEMMA SameAskers ==
  ASSUME \A h \in Handlers : /\ check[h] = Unknown => check'[h] = Unknown
                             /\ check[h] # Unknown => check'[h].who = check[h].who
  PROVE  Asking' \subseteq Asking
  BY DEF Asking, Asked

\* Steps that leave the monitor alone.
LEMMA MonitorRests ==
  ASSUME RepeatInv, UNCHANGED <<phase, tries, timer, state, bases, used>>,
         Asking' \subseteq Asking,
         UNCHANGED cache \/ cached' = Unknown
  PROVE  RepeatInv'
<1>1. MonitorTyped'
  BY DEF RepeatInv, MonitorTyped
<1>2. RunCounted'
  BY DEF RepeatInv, RunCounted
<1>3. OneAsked'
  BY DEF RepeatInv, OneAsked
<1>4. CacheSpent'
  BY DEF RepeatInv, CacheSpent, cache
<1> QED
  BY <1>1, <1>2, <1>3, <1>4 DEF RepeatInv

\* The first look at the cache of a run: a check that answered it already is over.
LEMMA AnswerFromCacheRepeats ==
  ASSUME RecentInv, RepeatInv, AnswerFromCache("monitor")
  PROVE  RepeatInv'
<1>1. phase = "probing" /\ cached # Unknown /\ cacheAge < TTL /\ UNCHANGED cache /\ UNCHANGED check
  BY DEF AnswerFromCache, Reaches, FreshCache, cache
<1>2. cacheAge \in Nat
  BY NumberAssumption DEF RecentInv, CacheSeen
<1>3. ~used
  <2> SUFFICES ASSUME used PROVE FALSE
    OBVIOUS
  <2>1. cacheAge >= TTL
    BY <1>1 DEF RepeatInv, CacheSpent
  <2> QED
    BY <1>1, <1>2, <2>1, NumberAssumption
<1> DEFINE s == Classified(cached)
<1>4. Respond("monitor", cached, used)
  BY DEF AnswerFromCache
<1>5. Probed(s) /\ bases' = IF used \/ s = "ok" THEN bases ELSE bases + 1
  BY <1>4 DEF Respond
<1> HIDE DEF s
<1>6. (s # "ok" => bases' = bases + 1) /\ (s = "ok" => bases' = bases)
  BY <1>3, <1>5
<1>7. tries \in Nat /\ bases = tries /\ tries < Retries
  BY <1>1 DEF RepeatInv, MonitorTyped, RunCounted, Undecided
<1>8. /\ MonitorTyped' /\ RunCounted'
      /\ phase' \in {"waiting", "decided"} /\ (phase' = "waiting" => timer' = Delay)
  BY <1>5, <1>6, <1>7, ProbedCounts
<1>9. OneAsked'
  <2>1. Asking = {}
    BY <1>1 DEF RepeatInv, OneAsked
  <2>2. Asking' = Asking
    BY <1>1 DEF Asking, Asked
  <2> QED
    BY <2>1, <2>2 DEF OneAsked
<1>10. CacheSpent'
  <2>1. cacheAge' = cacheAge
    BY <1>1 DEF cache
  <2> QED
    BY <1>2, <1>8, <2>1, NumberAssumption DEF CacheSpent
<1> QED
  BY <1>8, <1>9, <1>10 DEF RepeatInv

\* A check that is over answers the monitor with a basis of its own, and a check
\* for somebody else replaces what answered the run.
LEMMA FinishCheckRepeats ==
  ASSUME RecentInv, RepeatInv, NEW h \in Handlers, FinishCheck(h)
  PROVE  RepeatInv'
<1>1. check \in [Handlers -> Checks \cup {Unknown}] /\ check[h] # Unknown
  BY DEF RecentInv, ChecksSeen, FinishCheck
<1>2. check' = [check EXCEPT ![h] = Unknown] /\ cacheAge' = 0
  BY DEF FinishCheck
<1>3. Asking' \subseteq Asking \ {h}
  BY <1>1, <1>2 DEF Asking, Asked
<1> DEFINE who == IF host = "up" THEN check[h].who ELSE "panel"
           s == Classified(check[h].saw)
<1>4. Respond(who, check[h].saw, FALSE)
  BY DEF FinishCheck
<1>5. CASE who = "monitor"
  <2>1. Probed(s) /\ bases' = IF FALSE \/ s = "ok" THEN bases ELSE bases + 1
    BY <1>4, <1>5 DEF Respond
  <2>2. h \in Asking
    BY <1>1, <1>5 DEF Asking, Asked
  <2> HIDE DEF who, s
  <2>3. (s # "ok" => bases' = bases + 1) /\ (s = "ok" => bases' = bases)
    BY <2>1
  <2>4. phase = "awaiting" /\ Asking' = {}
    BY <1>3, <2>2 DEF RepeatInv, OneAsked
  <2>5. tries \in Nat /\ bases = tries /\ tries < Retries
    BY <2>4 DEF RepeatInv, MonitorTyped, RunCounted, Undecided
  <2>6. /\ MonitorTyped' /\ RunCounted'
        /\ phase' \in {"waiting", "decided"} /\ (phase' = "waiting" => timer' = Delay)
    BY <2>1, <2>3, <2>5, ProbedCounts
  <2>7. OneAsked'
    BY <2>4 DEF OneAsked
  <2>8. CacheSpent'
    BY <1>2, <2>6, NumberAssumption DEF CacheSpent
  <2> QED
    BY <2>6, <2>7, <2>8 DEF RepeatInv
<1>6. CASE who # "monitor"
  <2>1. used' = FALSE /\ UNCHANGED <<phase, tries, timer, state, bases>>
    BY <1>4, <1>6 DEF Respond
  <2>2. MonitorTyped'
    BY <2>1 DEF RepeatInv, MonitorTyped
  <2>3. RunCounted'
    BY <2>1 DEF RepeatInv, RunCounted
  <2>4. OneAsked'
    BY <1>3, <2>1 DEF RepeatInv, OneAsked
  <2>5. CacheSpent'
    BY <2>1 DEF CacheSpent
  <2> QED
    BY <2>2, <2>3, <2>4, <2>5 DEF RepeatInv
<1> QED
  BY <1>5, <1>6

\* While the monitor waits the cache grows older by as much.
LEMMA TimePassesRepeats == ASSUME RecentInv, RepeatInv, TimePasses PROVE RepeatInv'
<1>1. /\ UNCHANGED <<phase, tries, state, bases, used>> /\ cached' = cached
      /\ timer' = IF timer > 0 THEN timer - 1 ELSE 0
      /\ cacheAge' = IF cached = Unknown THEN 0 ELSE Older(cacheAge, TTL + 1)
      /\ (phase = "waiting" => timer > 0)
  BY DEF TimePasses
<1>2. cacheAge \in 0..(TTL + 1)
  BY DEF RecentInv, CacheSeen
<1>3. MonitorTyped'
  BY <1>1 DEF RepeatInv, MonitorTyped
<1>4. RunCounted'
  BY <1>1 DEF RepeatInv, RunCounted
<1>5. OneAsked'
  <2>1. ASSUME NEW h \in Handlers
        PROVE  /\ check[h] = Unknown => check'[h] = Unknown
               /\ check[h] # Unknown => check'[h].who = check[h].who
    <3>1. check'[h] = IF check[h] = Unknown THEN Unknown ELSE [check[h] EXCEPT !.age = @ + 1]
      BY DEF TimePasses
    <3>2. check[h] \in Checks \cup {Unknown}
      BY DEF RecentInv, ChecksSeen
    <3> QED
      BY <3>1, <3>2 DEF Checks
  <2>2. Asking' \subseteq Asking
    BY <2>1, SameAskers
  <2> QED
    BY <1>1, <2>2 DEF RepeatInv, OneAsked
<1>6. CacheSpent'
  <2> SUFFICES ASSUME used, cached # Unknown
               PROVE  /\ phase \in {"probing", "awaiting"} => cacheAge' >= TTL
                      /\ phase = "waiting" => cacheAge' >= TTL \/ cacheAge' + timer' >= Delay
    BY <1>1 DEF CacheSpent
  <2>1. cacheAge' = IF cacheAge < TTL + 1 THEN cacheAge + 1 ELSE TTL + 1
    BY <1>1 DEF Older
  <2>2. /\ phase \in {"probing", "awaiting"} => cacheAge >= TTL
        /\ phase = "waiting" => cacheAge >= TTL \/ cacheAge + timer >= Delay
    BY DEF RepeatInv, CacheSpent
  <2>3. timer \in Nat
    BY DEF RepeatInv, MonitorTyped
  <2> QED
    BY <1>1, <1>2, <2>1, <2>2, <2>3, NumberAssumption
<1> QED
  BY <1>3, <1>4, <1>5, <1>6 DEF RepeatInv

\* The invariant of a run holds if the delay (10 s, unless the environment sets
\* CRYPTOTRADER_RETRY_DELAY) is no shorter than CACHE_TTL (10 s).
LEMMA RepeatNext ==
  ASSUME Delay >= TTL
  PROVE  RecentInv /\ RepeatInv /\ [HealthNext]_healthVars => RepeatInv'
<1> SUFFICES ASSUME RecentInv, RepeatInv, [HealthNext]_healthVars PROVE RepeatInv'
  OBVIOUS
<1>1. CASE StartRun
  <2>1. phase = "asleep" /\ phase' = "probing" /\ UNCHANGED <<tries, timer, state, bases, used>>
        /\ UNCHANGED check
    BY <1>1 DEF StartRun
  <2>2. MonitorTyped' /\ RunCounted' /\ CacheSpent'
    BY <2>1 DEF RepeatInv, MonitorTyped, RunCounted, Undecided, CacheSpent
  <2>3. OneAsked'
    BY <2>1 DEF RepeatInv, OneAsked, Asking, Asked
  <2> QED
    BY <2>2, <2>3 DEF RepeatInv
<1>2. CASE Retry
  <2>1. /\ phase = "waiting" /\ timer = 0 /\ phase' = "probing"
        /\ UNCHANGED <<tries, timer, state, bases, used>>
        /\ UNCHANGED cache /\ UNCHANGED check
    BY <1>2 DEF Retry, cache
  <2>2. MonitorTyped' /\ RunCounted'
    BY <2>1 DEF RepeatInv, MonitorTyped, RunCounted, Undecided
  <2>3. OneAsked'
    BY <2>1 DEF RepeatInv, OneAsked, Asking, Asked
  <2>4. CacheSpent'
    <3>1. cacheAge \in Nat
      BY NumberAssumption DEF RecentInv, CacheSeen
    <3>2. used /\ cached # Unknown => cacheAge >= TTL
      BY <2>1, <3>1, NumberAssumption DEF RepeatInv, CacheSpent
    <3> QED
      BY <2>1, <3>2 DEF CacheSpent, cache
  <2> QED
    BY <2>2, <2>3, <2>4 DEF RepeatInv
<1>3. CASE Notify
  <2>1. phase = "decided" /\ phase' = "notified" /\ UNCHANGED <<tries, timer, state, bases, used>>
        /\ UNCHANGED check
    BY <1>3 DEF Notify
  <2>2. MonitorTyped' /\ RunCounted' /\ CacheSpent'
    BY <2>1 DEF RepeatInv, MonitorTyped, RunCounted, Undecided, CacheSpent
  <2>3. OneAsked'
    BY <2>1 DEF RepeatInv, OneAsked, Asking, Asked
  <2> QED
    BY <2>2, <2>3 DEF RepeatInv
<1>4. CASE Write
  <2>1. phase # "awaiting" /\ Sleep /\ UNCHANGED check
    BY <1>4 DEF Write
  <2>2. MonitorTyped' /\ RunCounted' /\ CacheSpent'
    BY <2>1, NumberAssumption DEF Sleep, MonitorTyped, RunCounted, Undecided, CacheSpent
  <2>3. OneAsked'
    BY <2>1 DEF RepeatInv, OneAsked, Asking, Asked
  <2> QED
    BY <2>2, <2>3 DEF RepeatInv
<1>5. CASE Killed
  <2>1. Asking' = {}
    BY <1>5, DisownedAsks DEF Killed, RecentInv
  <2>2. MonitorTyped' /\ RunCounted' /\ CacheSpent'
    BY <1>5, NumberAssumption DEF Killed, Sleep, MonitorTyped, RunCounted, Undecided, CacheSpent
  <2> QED
    BY <2>1, <2>2 DEF RepeatInv, OneAsked
<1>6. CASE ProbeFails
  <2>1. Asking' = {}
    BY <1>6, DisownedAsks DEF ProbeFails, RecentInv
  <2> DEFINE s == IF host = "unreachable" THEN "pi" ELSE "bot"
  <2>2. phase \in {"probing", "awaiting"} /\ Probed(s) /\ bases' = bases + 1 /\ s # "ok"
        /\ UNCHANGED cache
    BY <1>6 DEF ProbeFails, cache
  <2> HIDE DEF s
  <2>3. tries \in Nat /\ bases = tries /\ tries < Retries
    BY <2>2 DEF RepeatInv, MonitorTyped, RunCounted, Undecided
  <2>4. /\ MonitorTyped' /\ RunCounted'
        /\ phase' \in {"waiting", "decided"} /\ (phase' = "waiting" => timer' = Delay)
    BY <2>2, <2>3, ProbedCounts
  <2>5. cacheAge' \in Nat
    BY <2>2, NumberAssumption DEF RecentInv, CacheSeen, cache
  <2>6. CacheSpent'
    BY <2>4, <2>5, NumberAssumption DEF CacheSpent
  <2> QED
    BY <2>1, <2>4, <2>6 DEF RepeatInv, OneAsked
<1>7. CASE AnswerFromCache("monitor")
  BY <1>7, AnswerFromCacheRepeats
<1>8. CASE AnswerFromCache("panel")
  <2>1. /\ used' = used /\ UNCHANGED <<phase, tries, timer, state, bases>>
        /\ UNCHANGED cache /\ UNCHANGED check
    BY <1>8 DEF AnswerFromCache, Respond, cache
  <2>2. Asking' \subseteq Asking
    BY <2>1 DEF Asking, Asked
  <2> QED
    BY <2>1, <2>2, MonitorRests
<1>9. ASSUME NEW h \in Handlers, StartCheck(h, "monitor") PROVE RepeatInv'
  <2>1. /\ phase = "probing" /\ phase' = "awaiting"
        /\ UNCHANGED <<tries, timer, state, bases, used>> /\ UNCHANGED cache
    BY <1>9 DEF StartCheck, Reaches, cache
  <2>2. MonitorTyped' /\ RunCounted' /\ CacheSpent'
    BY <2>1 DEF RepeatInv, MonitorTyped, RunCounted, Undecided, CacheSpent, cache
  <2>3. Asking = {}
    BY <2>1 DEF RepeatInv, OneAsked
  <2>4. Asking' \subseteq {h}
    <3> SUFFICES ASSUME NEW g \in Handlers, g # h PROVE ~Asked(g)'
      BY DEF Asking
    <3>1. check'[g] = check[g]
      BY <1>9 DEF StartCheck, RecentInv, ChecksSeen
    <3> QED
      BY <2>3, <3>1 DEF Asking, Asked
  <2> QED
    BY <2>1, <2>2, <2>4 DEF RepeatInv, OneAsked
<1>10. ASSUME NEW h \in Handlers, StartCheck(h, "panel") PROVE RepeatInv'
  <2>1. UNCHANGED <<phase, tries, timer, state, bases, used>> /\ UNCHANGED cache
    BY <1>10 DEF StartCheck, cache
  <2>2. Asking' \subseteq Asking
    <3> SUFFICES ASSUME NEW g \in Handlers, Asked(g)' PROVE Asked(g)
      BY DEF Asking
    <3>1. check \in [Handlers -> Checks \cup {Unknown}]
      BY DEF RecentInv, ChecksSeen
    <3>2. g # h
      BY <1>10, <3>1 DEF StartCheck, Asked
    <3>3. check'[g] = check[g]
      BY <1>10, <3>1, <3>2 DEF StartCheck
    <3> QED
      BY <3>3 DEF Asked
  <2> QED
    BY <2>1, <2>2, MonitorRests
<1>11. ASSUME NEW h \in Handlers, NEW p \in Parts, See(h, p) PROVE RepeatInv'
  <2>1. UNCHANGED <<phase, tries, timer, state, bases, used>> /\ UNCHANGED cache
    BY <1>11 DEF See, cache, monitor
  <2>2. ASSUME NEW g \in Handlers
        PROVE  /\ check[g] = Unknown => check'[g] = Unknown
               /\ check[g] # Unknown => check'[g].who = check[g].who
    <3>1. check \in [Handlers -> Checks \cup {Unknown}]
      BY DEF RecentInv, ChecksSeen
    <3>2. CASE g # h
      BY <1>11, <3>1, <3>2 DEF See
    <3>3. CASE g = h
      <4>1. check[h] # Unknown /\ check[h] \in Checks
        BY <1>11, <3>1 DEF See
      <4>2. check'[h] = [check[h] EXCEPT !.saw[p] = fine[p]]
        BY <1>11, <3>1 DEF See
      <4> QED
        BY <3>3, <4>1, <4>2 DEF Checks
    <3> QED
      BY <3>2, <3>3
  <2> QED
    BY <2>1, <2>2, SameAskers, MonitorRests
<1>12. ASSUME NEW h \in Handlers, FinishCheck(h) PROVE RepeatInv'
  BY <1>12, FinishCheckRepeats
<1>13. CASE HostChanges
  <2>1. UNCHANGED <<phase, tries, timer, state, bases, used>>
    BY <1>13 DEF HostChanges, monitor
  <2>2. CASE host' = "botDown"
    <3>1. cached' = Unknown /\ check' = [h \in Handlers |-> Unknown]
      BY <1>13, <2>2 DEF HostChanges
    <3>2. Asking' \subseteq Asking
      BY <3>1 DEF Asking, Asked
    <3> QED
      BY <2>1, <3>1, <3>2, MonitorRests
  <2>3. CASE host' # "botDown"
    <3>1. UNCHANGED cache /\ UNCHANGED check
      BY <1>13, <2>3 DEF HostChanges, cache
    <3>2. Asking' \subseteq Asking
      BY <3>1 DEF Asking, Asked
    <3> QED
      BY <2>1, <3>1, <3>2, MonitorRests
  <2> QED
    BY <2>2, <2>3
<1>14. CASE UNCHANGED healthVars \/ \E p \in Parts : PartChanges(p)
  <2>1. UNCHANGED <<phase, tries, timer, state, bases, used>> /\ UNCHANGED cache
        /\ UNCHANGED check
    BY <1>14 DEF PartChanges, monitor, cache, healthVars
  <2>2. Asking' \subseteq Asking
    BY <2>1 DEF Asking, Asked
  <2> QED
    BY <2>1, <2>2, MonitorRests
<1>15. CASE TimePasses
  BY <1>15, TimePassesRepeats
<1> QED
  BY <1>1, <1>2, <1>3, <1>4, <1>5, <1>6, <1>7, <1>8, <1>9, <1>10, <1>11, <1>12, <1>13,
     <1>14, <1>15 DEF HealthNext, Monitor, Serve, Panel

\* Before the first run of the monitor nothing was counted.
LEMMA RepeatInit == HealthInit => RepeatInv
<1> SUFFICES ASSUME HealthInit PROVE RepeatInv
  OBVIOUS
<1>1. MonitorTyped /\ RunCounted /\ CacheSpent
  BY NumberAssumption DEF HealthInit, MonitorTyped, RunCounted, Undecided, CacheSpent
<1>2. Asking = {}
  BY DEF HealthInit, Asking, Asked
<1> QED
  BY <1>1, <1>2 DEF RepeatInv, OneAsked

\* A failure is declared on as many different checks or lost connections as there
\* are retries: the cache does not repeat one bad moment, as long as the delay
\* between two probes is no shorter than CACHE_TTL.
THEOREM FailureAlwaysRepeated ==
  ASSUME Delay >= TTL
  PROVE  HealthSpec => []FailureIsRepeated
<1>1. RepeatInv => FailureIsRepeated
  BY DEF RepeatInv, RunCounted, FailureIsRepeated
<1>2. RecentInv /\ RepeatInv /\ [HealthNext]_healthVars => RepeatInv'
  BY RepeatNext
<1> QED
  BY <1>1, <1>2, RecentInit, RecentNext, RepeatInit, PTL DEF HealthSpec

-----------------------------------------------------------------------------
(* Sets of integers, sums over disjoint sets *)

\* A finite set of integers has a least and a greatest element.
LEMMA Extremes ==
  ASSUME NEW S, S \subseteq Int, S # {}, IsFiniteSet(S)
  PROVE  /\ \E m \in S : \A y \in S : m <= y
         /\ \E m \in S : \A y \in S : y <= m
<1> DEFINE F == {T \in SUBSET S : T # {} =>
                   /\ \E m \in T : \A y \in T : m <= y
                   /\ \E m \in T : \A y \in T : y <= m}
<1>1. ASSUME NEW T \in SUBSET S, \A U \in SUBSET T : U # T => U \in F PROVE T \in F
  <2> SUFFICES ASSUME T # {}
               PROVE  /\ \E m \in T : \A y \in T : m <= y
                      /\ \E m \in T : \A y \in T : y <= m
    OBVIOUS
  <2>1. PICK x \in T : TRUE
    OBVIOUS
  <2>2. PICK U : U = T \ {x}
    OBVIOUS
  <2>3. U \in F
    BY <1>1, <2>1, <2>2
  <2>4. T \subseteq Int /\ \A y \in T : y = x \/ y \in U
    BY <2>2
  <2>5. CASE U = {}
    BY <2>1, <2>4, <2>5
  <2>6. CASE U # {}
    <3>1. PICK l \in U : \A y \in U : l <= y
      BY <2>3, <2>6
    <3>2. PICK g \in U : \A y \in U : y <= g
      BY <2>3, <2>6
    <3>3. l \in T /\ g \in T /\ l \in Int /\ g \in Int /\ x \in Int
      BY <2>1, <2>2, <2>4
    <3>4. \E m \in T : \A y \in T : m <= y
      <4>1. CASE x <= l
        BY <2>1, <2>4, <3>1, <3>3, <4>1
      <4>2. CASE l <= x
        BY <2>4, <3>1, <3>3, <4>2
      <4> QED
        BY <3>3, <4>1, <4>2
    <3>5. \E m \in T : \A y \in T : y <= m
      <4>1. CASE g <= x
        BY <2>1, <2>4, <3>2, <3>3, <4>1
      <4>2. CASE x <= g
        BY <2>4, <3>2, <3>3, <4>2
      <4> QED
        BY <3>3, <4>1, <4>2
    <3> QED
      BY <3>4, <3>5
  <2> QED
    BY <2>5, <2>6
<1> HIDE DEF F
<1>2. S \in F
  BY <1>1, SubsetInductive
<1> QED
  BY <1>2 DEF F

\* Min and Max are those elements.
LEMMA MinMaxFacts ==
  ASSUME NEW S, S \subseteq Int, S # {}, IsFiniteSet(S)
  PROVE  /\ Min(S) \in S /\ \A y \in S : Min(S) <= y
         /\ Max(S) \in S /\ \A y \in S : y <= Max(S)
<1>1. \E m \in S : \A y \in S : m <= y
  BY Extremes
<1>2. Min(S) \in S /\ \A y \in S : Min(S) <= y
  BY <1>1 DEF Min
<1>3. PICK g \in S : \A y \in S : y <= g
  BY Extremes
<1>4. \A y \in S : g >= y
  BY <1>3
<1>5. Max(S) \in S /\ \A y \in S : Max(S) >= y
  BY <1>4 DEF Max
<1> QED
  BY <1>2, <1>5

\* The sum over two sets that share nothing.
LEMMA SumUnion ==
  ASSUME NEW A, NEW B, IsFiniteSet(A), IsFiniteSet(B), A \cap B = {},
         NEW d, \A x \in A \cup B : d[x] \in Int
  PROVE  /\ SumOver(d, A \cup B) = SumOver(d, A) + SumOver(d, B)
         /\ SumOver(d, A) \in Int /\ SumOver(d, B) \in Int
<1> DEFINE F == {T \in SUBSET B : SumOver(d, A \cup T) = SumOver(d, A) + SumOver(d, T)}
<1>0. SumOver(d, A) \in Int /\ \A T \in SUBSET B : IsFiniteSet(T) /\ SumOver(d, T) \in Int
  <2>1. ASSUME NEW T \in SUBSET B PROVE IsFiniteSet(T) /\ SumOver(d, T) \in Int
    <3>1. IsFiniteSet(T)
      BY FS_Subset
    <3> QED
      BY <3>1, SumStep
  <2> QED
    BY <2>1, SumStep
<1>1. ASSUME NEW T \in SUBSET B, \A U \in SUBSET T : U # T => U \in F PROVE T \in F
  <2>1. CASE T = {}
    <3>1. A \cup T = A
      BY <2>1
    <3>2. IsFiniteSet(T) /\ \A x \in T : d[x] \in Int
      BY <1>0, <2>1
    <3>3. SumOver(d, T) = 0
      BY <2>1, <3>2, SumStep
    <3>4. SumOver(d, A \cup T) = SumOver(d, A)
      BY <3>1, Zenon
    <3> QED
      BY <1>0, <3>3, <3>4
  <2>2. CASE T # {}
    <3>1. PICK x \in T : TRUE
      BY <2>2
    <3>2. PICK U : U = T \ {x}
      OBVIOUS
    <3>3. U \in F /\ U \in SUBSET B
      BY <1>1, <3>1, <3>2
    <3>4. PICK V : V = A \cup U
      OBVIOUS
    <3>5. A \cup T = V \cup {x} /\ T = U \cup {x} /\ x \notin V /\ x \notin U
      BY <3>1, <3>2, <3>4
    <3>6. IsFiniteSet(U) /\ IsFiniteSet(V)
      BY <1>0, <3>3, <3>4, FS_Union
    <3>7. (\A y \in V \cup {x} : d[y] \in Int) /\ (\A y \in U \cup {x} : d[y] \in Int)
      BY <3>1, <3>2, <3>4
    <3>8. SumOver(d, V \cup {x}) = SumOver(d, V) + d[x]
      BY <3>5, <3>6, <3>7, SumAdd
    <3>9. SumOver(d, U \cup {x}) = SumOver(d, U) + d[x]
      BY <3>5, <3>6, <3>7, SumAdd
    <3>10. SumOver(d, V) = SumOver(d, A) + SumOver(d, U)
      BY <3>3, <3>4
    <3>11. SumOver(d, U) \in Int /\ d[x] \in Int
      BY <1>0, <3>1, <3>3
    <3>12. SumOver(d, A \cup T) = (SumOver(d, A) + SumOver(d, U)) + d[x]
           /\ SumOver(d, T) = SumOver(d, U) + d[x]
      BY <3>5, <3>8, <3>9, <3>10
    <3> QED
      BY <1>0, <3>11, <3>12
  <2> QED
    BY <2>1, <2>2
<1> HIDE DEF F
<1>2. B \in F
  BY <1>1, SubsetInductive, ZenonT(30)
<1> QED
  BY <1>0, <1>2 DEF F

-----------------------------------------------------------------------------
(* The account's history and its sums *)

Event == [kind : {"order", "phantom", "manual", "transfer", "reward"}, amount : Amounts,
          row : {"none", "pending", "logged", "lost"}]

OfKinds(E, kinds, n) == {i \in 1..n : E[i].kind \in kinds}
Logged(E) == {i \in 1..Len(E) : E[i].row = "logged"}
UpTo(R, i) == {k \in R : k <= i}

Worth(E) == [i \in 1..Len(E) |-> E[i].amount]
Total(E, I) == SumOver(Worth(E), I)

\* What the account holds after n events, and the least running net of rows.
Owned(E, n) == Total(E, OfKinds(E, Moving, n))
Floor(E, R) == Min({0} \cup {Total(E, UpTo(R, i)) : i \in R})

\* Events are typed, and their amounts are integers.
LEMMA EventFacts ==
  ASSUME NEW E \in Seq(Event)
  PROVE  /\ Len(E) \in Nat /\ DOMAIN E = 1..Len(E)
         /\ \A i \in 1..Len(E) : E[i] \in Event /\ Worth(E)[i] = E[i].amount
                                 /\ Worth(E)[i] \in Int
<1>1. ASSUME NEW i \in 1..Len(E)
      PROVE  E[i] \in Event /\ Worth(E)[i] = E[i].amount /\ Worth(E)[i] \in Int
  <2>1. E[i] \in Event
    OBVIOUS
  <2> QED
    BY <2>1, AmountAssumption DEF Event, Worth
<1> QED
  BY <1>1

\* Sums over some of the events.
LEMMA TotalFacts ==
  ASSUME NEW E \in Seq(Event), NEW I, I \subseteq 1..Len(E)
  PROVE  /\ IsFiniteSet(I) /\ Total(E, I) \in Int
         /\ I = {} => Total(E, I) = 0
         /\ \A x \in I : Worth(E)[x] \in Int
<1>1. IsFiniteSet(I)
  <2>1. Len(E) \in Int /\ 1 \in Int
    BY EventFacts
  <2>2. IsFiniteSet(1..Len(E))
    BY <2>1, FS_Interval
  <2> QED
    BY <2>2, FS_Subset
<1>2. \A x \in I : Worth(E)[x] \in Int
  BY EventFacts
<1> QED
  BY <1>1, <1>2, SumStep DEF Total

\* The sum over two disjoint sets is the sum of their sums.
LEMMA TotalUnion ==
  ASSUME NEW E \in Seq(Event), NEW A, NEW B, A \cup B \subseteq 1..Len(E), A \cap B = {}
  PROVE  Total(E, A \cup B) = Total(E, A) + Total(E, B)
<1>1. IsFiniteSet(A) /\ IsFiniteSet(B) /\ \A x \in A \cup B : Worth(E)[x] \in Int
  BY TotalFacts
<1> QED
  BY <1>1, SumUnion DEF Total

\* The sum of the fold of the community modules over a set of events.
LEMMA FoldIsTotal ==
  ASSUME events \in Seq(Event), NEW S, S \subseteq 1..Len(events)
  PROVE  Sum(S) = Total(events, S)
<1>1. PICK d : d = Worth(events)
  OBVIOUS
<1>2. IsFiniteSet(S)
  BY TotalFacts
<1>3. \A x \in S : d[x] \in Int /\ d[x] = Amount(x)
  BY <1>1, EventFacts DEF Amount
<1> DEFINE body(g) == [t \in SUBSET S |->
                         IF t = {} THEN 0 ELSE Amount(Pick(t)) + g[t \ {Pick(t)}]]
           f == CHOOSE g : g = body(g)
<1>4. Sum(S) = f[S]
  BY DEF Sum, MapThenSumSet, MapThenFoldSet, Pick
<1>5. PICK h : IsFold(h, d, S)
  BY <1>2, <1>3, FoldExists
<1>6. h = body(h)
  <2>1. h = [t \in SUBSET S |-> h[t]]
    BY <1>5 DEF IsFold
  <2>2. ASSUME NEW t \in SUBSET S
        PROVE  h[t] = IF t = {} THEN 0 ELSE Amount(Pick(t)) + h[t \ {Pick(t)}]
    <3>1. t # {} => Pick(t) \in S
      BY PickIn
    <3> QED
      BY <1>3, <1>5, <3>1 DEF IsFold
  <2> QED
    BY <2>1, <2>2
<1>7. f = body(f)
  BY <1>6
<1>8. PICK g : g = f
  OBVIOUS
<1> HIDE DEF f
<1>9. g = [t \in SUBSET S |-> IF t = {} THEN 0 ELSE d[Pick(t)] + g[t \ {Pick(t)}]]
  <2>1. g = body(g)
    BY <1>7, <1>8
  <2>2. ASSUME NEW t \in SUBSET S
        PROVE  (IF t = {} THEN 0 ELSE Amount(Pick(t)) + g[t \ {Pick(t)}])
               = (IF t = {} THEN 0 ELSE d[Pick(t)] + g[t \ {Pick(t)}])
    <3>1. t # {} => Pick(t) \in S
      BY PickIn
    <3> QED
      BY <1>3, <3>1
  <2> QED
    BY <2>1, <2>2
<1>10. IsFold(g, d, S)
  BY <1>2, <1>3, <1>9, FoldTyped
<1>11. SumOver(d, S) = g[S]
  BY <1>2, <1>10, SumIs
<1> QED
  BY <1>1, <1>4, <1>8, <1>11 DEF Total

\* The least running net is one of them, or zero, and none is below it.
LEMMA FloorFactsOf ==
  ASSUME NEW E \in Seq(Event), NEW R, R \subseteq 1..Len(E)
  PROVE  /\ Floor(E, R) \in Int /\ Floor(E, R) <= 0
         /\ Floor(E, R) = 0 \/ \E i \in R : Floor(E, R) = Total(E, UpTo(R, i))
         /\ \A i \in R : Floor(E, R) <= Total(E, UpTo(R, i))
<1> DEFINE T == {Total(E, UpTo(R, i)) : i \in R}
           S == {0} \cup T
<1>1. \A i \in R : Total(E, UpTo(R, i)) \in Int
  <2>1. \A i \in R : UpTo(R, i) \subseteq 1..Len(E)
    BY DEF UpTo
  <2> QED
    BY <2>1, TotalFacts
<1>2. S \subseteq Int /\ S # {}
  BY <1>1
<1>3. IsFiniteSet(S)
  <2>1. IsFiniteSet(R)
    BY TotalFacts
  <2>2. [i \in R |-> Total(E, UpTo(R, i))] \in Surjection(R, T)
    BY DEF Surjection
  <2>3. IsFiniteSet(T)
    BY <2>1, <2>2, FS_Surjection
  <2>4. IsFiniteSet({0})
    BY FS_Singleton
  <2> QED
    BY <2>3, <2>4, FS_Union
<1>4. Floor(E, R) = Min(S)
  BY DEF Floor
<1>5. Min(S) \in S /\ \A y \in S : Min(S) <= y
  BY <1>2, <1>3, MinMaxFacts
<1>6. 0 \in S /\ \A i \in R : Total(E, UpTo(R, i)) \in S
  OBVIOUS
<1>7. Min(S) = 0 \/ \E i \in R : Min(S) = Total(E, UpTo(R, i))
  BY <1>5
<1>8. Min(S) \in Int
  BY <1>2, <1>5
<1> HIDE DEF S, T
<1> QED
  BY <1>4, <1>5, <1>6, <1>7, <1>8

-----------------------------------------------------------------------------
(* How the history goes on *)

\* Only the owner's trades, transfers and rewards have no row.
Fitting(e) == e.row = "none" <=> e.kind \notin {"order", "phantom"}

HistoryInv ==
  /\ events \in Seq(Event) /\ Len(events) <= MaxEvents
  /\ \A i \in 1..Len(events) : Fitting(events[i])

\* Z is a later history than E: events are added, and rows that were open settle.
Follows(E, Z) ==
  /\ Len(E) <= Len(Z)
  /\ \A i \in 1..Len(E) :
       /\ Z[i].kind = E[i].kind /\ Z[i].amount = E[i].amount
       /\ E[i].row # "pending" => Z[i].row = E[i].row

\* Whatever touches the account leaves the past as it was.
LEMMA HistoryGrows ==
  ASSUME HistoryInv, Account \/ Resolve
  PROVE  HistoryInv' /\ Follows(events, events')
<1>1. CASE Account
  <2>1. PICK kind \in {"order", "phantom", "manual", "transfer", "reward"}, a \in Amounts :
          Happens(kind, a)
    BY <1>1 DEF Account
  <2>2. PICK e : e = [kind |-> kind, amount |-> a,
                      row |-> CASE kind = "order" -> "pending"
                                [] kind = "phantom" -> "logged"
                                [] OTHER -> "none"]
    OBVIOUS
  <2>3. e \in Event /\ Fitting(e)
    BY <2>2 DEF Event, Fitting
  <2>4. Len(events) < MaxEvents /\ events' = Append(events, e)
    BY <2>1, <2>2 DEF Happens
  <2>5. events \in Seq(Event) /\ Len(events) \in Nat /\ MaxEvents \in Nat
    BY BoundAssumption DEF HistoryInv
  <2>6. /\ events' \in Seq(Event) /\ Len(events') = Len(events) + 1
        /\ \A i \in 1..Len(events) : events'[i] = events[i]
        /\ events'[Len(events) + 1] = e
    BY <2>3, <2>4, <2>5
  <2>7. \A i \in 1..Len(events') : i \in 1..Len(events) \/ i = Len(events) + 1
    BY <2>5, <2>6
  <2>8. \A i \in 1..Len(events') : Fitting(events'[i])
    BY <2>3, <2>6, <2>7 DEF HistoryInv
  <2>9. HistoryInv'
    BY <2>4, <2>5, <2>6, <2>8 DEF HistoryInv
  <2> QED
    BY <2>5, <2>6, <2>9 DEF Follows
<1>2. CASE Resolve
  <2>1. PICK i \in DOMAIN events, row \in {"logged", "lost"} :
          events[i].row = "pending" /\ events' = [events EXCEPT ![i].row = row]
    BY <1>2 DEF Resolve
  <2>2. PICK E \in Seq(Event) : E = events
    BY DEF HistoryInv
  <2>3. i \in 1..Len(E) /\ E[i] \in Event /\ E[i].row = "pending" /\ Len(E) \in Nat
    BY <2>1, <2>2, EventFacts
  <2>4. PICK e : e = [E[i] EXCEPT !.row = row]
    OBVIOUS
  <2>5. e \in Event /\ e.kind = E[i].kind /\ e.amount = E[i].amount /\ e.row = row
    BY <2>3, <2>4 DEF Event
  <2>6. events' = [E EXCEPT ![i] = e]
    BY <2>1, <2>2, <2>4
  <2>7. /\ events' \in Seq(Event) /\ Len(events') = Len(E)
        /\ \A j \in 1..Len(E) : events'[j] = IF j = i THEN e ELSE E[j]
    BY <2>3, <2>5, <2>6
  <2>8. Fitting(E[i]) /\ Fitting(e)
    BY <2>2, <2>3, <2>5 DEF HistoryInv, Fitting
  <2>9. HistoryInv'
    BY <2>2, <2>7, <2>8 DEF HistoryInv
  <2>10. Follows(E, events')
    BY <2>3, <2>5, <2>7 DEF Follows
  <2> QED
    BY <2>2, <2>9, <2>10
<1> QED
  BY <1>1, <1>2

\* Sums over the past do not change, and what was in the log stays there.
LEMMA PastStays ==
  ASSUME NEW E \in Seq(Event), NEW Z \in Seq(Event), Follows(E, Z)
  PROVE  /\ Len(E) \in Nat /\ Len(Z) \in Nat /\ Len(E) <= Len(Z)
         /\ Logged(E) \subseteq Logged(Z)
         /\ \A I : I \subseteq 1..Len(E) => Total(Z, I) = Total(E, I)
         /\ \A n \in 0..Len(E) : Owned(Z, n) = Owned(E, n)
         /\ \A R : R \subseteq 1..Len(E) => Floor(Z, R) = Floor(E, R)
<1>1. Len(E) \in Nat /\ Len(Z) \in Nat /\ Len(E) <= Len(Z) /\ 1..Len(E) \subseteq 1..Len(Z)
  BY EventFacts DEF Follows
<1>2. Logged(E) \subseteq Logged(Z)
  BY <1>1 DEF Follows, Logged
<1>3. ASSUME NEW I, I \subseteq 1..Len(E) PROVE Total(Z, I) = Total(E, I)
  <2>1. IsFiniteSet(I)
    BY <1>3, TotalFacts
  <2>2. ASSUME NEW x \in I PROVE Worth(E)[x] \in Int /\ Worth(Z)[x] = Worth(E)[x]
    <3>1. x \in 1..Len(E) /\ x \in 1..Len(Z)
      BY <1>1, <1>3
    <3> QED
      BY <3>1, EventFacts DEF Follows
  <2> QED
    BY <2>1, <2>2, SumSame DEF Total
<1>4. ASSUME NEW n \in 0..Len(E) PROVE Owned(Z, n) = Owned(E, n)
  <2>1. OfKinds(Z, Moving, n) = OfKinds(E, Moving, n)
    BY <1>1 DEF Follows, OfKinds
  <2>2. OfKinds(E, Moving, n) \subseteq 1..Len(E)
    BY <1>1 DEF OfKinds
  <2> QED
    BY <1>3, <2>1, <2>2 DEF Owned
<1>5. ASSUME NEW R, R \subseteq 1..Len(E) PROVE Floor(Z, R) = Floor(E, R)
  <2>1. \A i \in R : Total(Z, UpTo(R, i)) = Total(E, UpTo(R, i))
    BY <1>3, <1>5 DEF UpTo
  <2>2. {Total(Z, UpTo(R, i)) : i \in R} = {Total(E, UpTo(R, i)) : i \in R}
    BY <2>1
  <2> QED
    BY <2>2, Zenon DEF Floor
<1> QED
  BY <1>1, <1>2, <1>3, <1>4, <1>5

-----------------------------------------------------------------------------
(* The invariants *)

Jobs == [script : {"none", "check", "baseline"},
         at : {"none", "start", "snapshot", "balance", "fills", "report"},
         rows : SUBSET Nat, balance : Int, seen : Nat, fills : Nat, ledger : Int]

Copied == {"snapshot", "balance", "fills", "report"}
Answered == {"balance", "fills", "report"}

\* A baseline splits what was owned at its balance into its rows and the rest;
\* taken in peace, it has every row there will be of the events before it.
BaselineInv ==
  /\ baseline.recorded \in 0..Len(events) /\ baseline.seen \in 0..Len(events)
  /\ baseline.rows \subseteq Logged(events)
  /\ baseline.floor = Floor(events, baseline.rows)
  /\ baseline.divergence = Owned(events, baseline.seen) - Total(events, baseline.rows)
  /\ baseline.sharp =>
       /\ baseline.seen = baseline.recorded
       /\ baseline.rows = UpTo(Logged(events), baseline.recorded)
       /\ \A i \in 1..baseline.recorded : events[i].row # "pending"

\* What the script reads is later than the baseline, and each answer than the one
\* before.
JobInv ==
  /\ job \in Jobs
  /\ job.rows \subseteq Logged(events)
  /\ job.seen \in 0..Len(events) /\ job.fills \in 0..Len(events)
  /\ job.ledger \in {Unread} \cup 0..Len(events)
  /\ job.at \in Copied =>
       /\ baseline.rows \subseteq job.rows
       /\ baseline.sharp => baseline.rows = UpTo(job.rows, baseline.recorded)
  /\ job.at \in Answered =>
       /\ job.balance = Owned(events, job.seen)
       /\ job.rows \subseteq 1..job.seen /\ baseline.seen <= job.seen
  /\ job.at \in {"fills", "report"} => job.seen <= job.fills
  /\ job.at = "report" => job.ledger = Unread \/ job.seen <= job.ledger

CheckInv == HistoryInv /\ BaselineInv /\ JobInv

\* A baseline outlives what happens to the account.
LEMMA BaselineOutlives ==
  ASSUME HistoryInv, BaselineInv, HistoryInv', Follows(events, events'),
         UNCHANGED baseline
  PROVE  BaselineInv'
<1>1. PICK E \in Seq(Event), Z \in Seq(Event) : E = events /\ Z = events'
  BY DEF HistoryInv
<1>2. PICK r, R : r = baseline.recorded /\ R = baseline.rows
  OBVIOUS
<1>3. /\ Follows(E, Z) /\ r \in 0..Len(E) /\ R \subseteq Logged(E)
      /\ baseline.seen \in 0..Len(E)
  BY <1>1, <1>2 DEF BaselineInv
<1>4. /\ Len(E) \in Nat /\ Len(Z) \in Nat /\ Len(E) <= Len(Z) /\ Logged(E) \subseteq Logged(Z)
      /\ Total(Z, R) = Total(E, R) /\ Floor(Z, R) = Floor(E, R)
      /\ Owned(Z, baseline.seen) = Owned(E, baseline.seen)
  <2>1. R \subseteq 1..Len(E)
    BY <1>3 DEF Logged
  <2> QED
    BY <1>3, <2>1, PastStays
<1>5. ASSUME baseline.sharp
      PROVE  R = UpTo(Logged(Z), r) /\ \A i \in 1..r : Z[i].row # "pending"
  <2>1. R = UpTo(Logged(E), r) /\ \A i \in 1..r : E[i].row # "pending"
    BY <1>1, <1>2, <1>5 DEF BaselineInv
  <2>2. \A i \in 1..r : i \in 1..Len(E) /\ i \in 1..Len(Z) /\ Z[i].row = E[i].row
    BY <1>3, <1>4, <2>1 DEF Follows
  <2>3. UpTo(Logged(Z), r) = UpTo(Logged(E), r)
    BY <1>3, <1>4, <2>2 DEF UpTo, Logged
  <2> QED
    BY <1>4, <2>1, <2>2, <2>3
<1>6. baseline' = baseline
  OBVIOUS
<1>7. /\ r \in 0..Len(Z) /\ baseline.seen \in 0..Len(Z) /\ R \subseteq Logged(Z)
      /\ baseline.floor = Floor(Z, R)
      /\ baseline.divergence = Owned(Z, baseline.seen) - Total(Z, R)
  BY <1>1, <1>2, <1>3, <1>4 DEF BaselineInv
<1>8. baseline.sharp => baseline.seen = r
  BY <1>2 DEF BaselineInv
<1> QED
  BY <1>1, <1>2, <1>5, <1>6, <1>7, <1>8 DEF BaselineInv

\* What a script has read is of the past.
LEMMA JobGoesOn ==
  ASSUME CheckInv, HistoryInv', Account \/ Resolve, Follows(events, events')
  PROVE  JobInv'
<1>1. PICK E \in Seq(Event), Z \in Seq(Event) : E = events /\ Z = events'
  BY DEF CheckInv, HistoryInv
<1>2. /\ Len(E) \in Nat /\ Len(Z) \in Nat /\ Len(E) <= Len(Z) /\ Logged(E) \subseteq Logged(Z)
      /\ \A n \in 0..Len(E) : Owned(Z, n) = Owned(E, n)
  BY <1>1, PastStays
<1>3. baseline' = baseline /\ job' = job
  BY DEF Account, Happens, Resolve
<1>4. /\ job.rows \subseteq Logged(E) /\ job.seen \in 0..Len(E) /\ job.fills \in 0..Len(E)
      /\ job.ledger \in {Unread} \cup 0..Len(E)
      /\ job.at \in Answered => job.balance = Owned(E, job.seen)
  BY <1>1 DEF CheckInv, JobInv
<1>5. /\ job.rows \subseteq Logged(Z) /\ job.seen \in 0..Len(Z) /\ job.fills \in 0..Len(Z)
      /\ job.ledger \in {Unread} \cup 0..Len(Z)
      /\ job.at \in Answered => job.balance = Owned(Z, job.seen)
  BY <1>2, <1>4
<1> QED
  BY <1>1, <1>3, <1>5 DEF CheckInv, JobInv

\* A script that reads the database and the balance.
LEMMA ReadingKeeps ==
  ASSUME CheckInv, (\E script \in {"check", "baseline"} : Start(script)) \/ Snapshot
                   \/ ReadBalance \/ Finish
  PROVE  JobInv'
<1>1. UNCHANGED <<events, baseline>>
  BY DEF Start, Snapshot, ReadBalance, Finish
<1>2. Len(events) \in Nat /\ DOMAIN events = 1..Len(events) /\ job \in Jobs
      /\ baseline.recorded \in 0..Len(events) /\ baseline.seen \in 0..Len(events)
      /\ Logged(events) \subseteq 1..Len(events)
  BY DEF CheckInv, HistoryInv, JobInv, BaselineInv, Logged
<1>3. CASE \E script \in {"check", "baseline"} : Start(script)
  <2>1. PICK script \in {"check", "baseline"} :
          job' = [Idle EXCEPT !.script = script, !.at = "start"]
    BY <1>3 DEF Start
  <2>2. job' = [script |-> script, at |-> "start", rows |-> {}, balance |-> 0,
                seen |-> 0, fills |-> 0, ledger |-> 0]
    BY <2>1 DEF Idle
  <2>3. job' \in Jobs
    BY <2>2 DEF Jobs
  <2>4. /\ job'.at = "start" /\ job'.rows = {} /\ job'.seen = 0
        /\ job'.fills = 0 /\ job'.ledger = 0
    BY <2>2
  <2> QED
    BY <1>1, <1>2, <2>3, <2>4 DEF JobInv, Copied, Answered
<1>4. CASE Snapshot
  <2>1. Committed = Logged(events)
    BY <1>2 DEF Committed, Logged
  <2>2. job' = [job EXCEPT !.at = "snapshot", !.rows = Logged(events)]
    BY <1>4, <2>1 DEF Snapshot
  <2>3. Logged(events) \subseteq Nat
    BY <1>2 DEF Logged
  <2>4. /\ baseline.rows \subseteq Logged(events)
        /\ baseline.sharp => baseline.rows = UpTo(Logged(events), baseline.recorded)
    BY DEF CheckInv, BaselineInv
  <2> QED
    BY <1>1, <1>2, <2>2, <2>3, <2>4 DEF CheckInv, JobInv, Jobs, Copied, Answered
<1>5. CASE ReadBalance
  <2>1. Balance = Owned(events, Len(events)) /\ Balance \in Int
    <3>1. PICK I : I = OfKinds(events, Moving, Len(events))
      OBVIOUS
    <3>2. Balance = Sum(I)
      BY <3>1 DEF Balance, Of, OfKinds
    <3>3. events \in Seq(Event) /\ I \subseteq 1..Len(events)
      BY <3>1 DEF CheckInv, HistoryInv, OfKinds
    <3>4. Sum(I) = Total(events, I) /\ Total(events, I) \in Int
      BY <3>3, FoldIsTotal, TotalFacts
    <3> QED
      BY <3>1, <3>2, <3>4 DEF Owned
  <2>2. job.at = "snapshot" /\ job' = [job EXCEPT !.at = "balance", !.balance = Balance,
                                                !.seen = Len(events)]
    BY <1>5 DEF ReadBalance
  <2>3. /\ job' \in Jobs /\ job'.at = "balance" /\ job'.balance = Balance
        /\ job'.seen = Len(events) /\ job'.rows = job.rows
        /\ job'.fills = job.fills /\ job'.ledger = job.ledger
    BY <1>2, <2>1, <2>2 DEF Jobs
  <2>4. job.rows \subseteq 1..Len(events) /\ baseline.seen <= Len(events)
    BY <1>2 DEF CheckInv, JobInv
  <2> QED
    BY <1>1, <1>2, <2>1, <2>2, <2>3, <2>4 DEF CheckInv, JobInv, Copied, Answered
<1>6. CASE Finish
  BY <1>1, <1>2, <1>6 DEF Finish, Idle, JobInv, Jobs, Copied, Answered
<1> QED
  BY <1>3, <1>4, <1>5, <1>6

\* One that asks for the fills and the ledger.
LEMMA AskingKeeps ==
  ASSUME CheckInv, ReadFills \/ ReadLedger
  PROVE  JobInv'
<1>1. UNCHANGED <<events, baseline>>
  BY DEF ReadFills, ReadLedger
<1>2. Len(events) \in Nat /\ job \in Jobs /\ job.seen \in 0..Len(events)
  BY DEF CheckInv, HistoryInv, JobInv
<1>3. CASE ReadFills
  <2>1. job.at = "balance" /\ job' = [job EXCEPT !.at = "fills", !.fills = Len(events)]
    BY <1>3 DEF ReadFills
  <2>2. /\ job' \in Jobs /\ job'.at = "fills" /\ job'.fills = Len(events)
        /\ job'.rows = job.rows /\ job'.balance = job.balance
        /\ job'.ledger = job.ledger /\ job'.seen = job.seen
    BY <1>2, <2>1 DEF Jobs
  <2>3. job.seen <= Len(events)
    BY <1>2
  <2> QED
    BY <1>1, <1>2, <2>1, <2>2, <2>3 DEF CheckInv, JobInv, Copied, Answered
<1>4. CASE ReadLedger
  <2>1. PICK seen \in {Len(events), Unread} :
          job.at = "fills" /\ job' = [job EXCEPT !.at = "report", !.ledger = seen]
    BY <1>4 DEF ReadLedger
  <2>2. /\ seen \in Int /\ seen \in {Unread} \cup 0..Len(events)
        /\ seen = Unread \/ job.seen <= seen
    BY <1>2 DEF Unread
  <2>3. /\ job' \in Jobs /\ job'.at = "report" /\ job'.ledger = seen
        /\ job'.rows = job.rows /\ job'.balance = job.balance
        /\ job'.fills = job.fills /\ job'.seen = job.seen
    BY <1>2, <2>1, <2>2 DEF Jobs
  <2> QED
    BY <1>1, <1>2, <2>1, <2>2, <2>3 DEF CheckInv, JobInv, Copied, Answered
<1> QED
  BY <1>3, <1>4

\* A baseline that is written splits the balance.
LEMMA WritingKeeps ==
  ASSUME CheckInv, WriteBaseline
  PROVE  BaselineInv' /\ JobInv'
<1>1. events' = events /\ job' = Idle /\ job.at = "balance"
  BY DEF WriteBaseline
<1>2. PICK E \in Seq(Event) : E = events
  BY DEF CheckInv, HistoryInv
<1>3. PICK j \in Jobs : j = job
  BY DEF CheckInv, JobInv
<1>4. Len(E) \in Nat /\ DOMAIN E = 1..Len(E) /\ j.rows \subseteq Logged(E)
      /\ j.rows \subseteq 1..Len(E)
  BY <1>2, <1>3, EventFacts DEF CheckInv, JobInv, Logged
<1>5. JobInv'
  <2>1. /\ job' \in Jobs /\ job'.at = "none" /\ job'.rows = {} /\ job'.seen = 0
        /\ job'.fills = 0 /\ job'.ledger = 0
    BY <1>1 DEF Idle, Jobs
  <2> QED
    BY <1>1, <1>2, <1>4, <2>1 DEF JobInv, Copied, Answered
<1>6. LowWater(j.rows) = Floor(E, j.rows)
  <2>1. \A i \in j.rows : Running(j.rows, i) = Total(E, UpTo(j.rows, i))
    <3> SUFFICES ASSUME NEW i \in j.rows
                 PROVE  Running(j.rows, i) = Total(E, UpTo(j.rows, i))
      OBVIOUS
    <3>1. PICK I : I = UpTo(j.rows, i)
      OBVIOUS
    <3>2. I \subseteq 1..Len(E)
      BY <1>4, <3>1 DEF UpTo
    <3>3. Running(j.rows, i) = Sum(I)
      BY <3>1 DEF Running, UpTo
    <3> QED
      BY <1>2, <3>1, <3>2, <3>3, FoldIsTotal
  <2>2. {Running(j.rows, i) : i \in j.rows} = {Total(E, UpTo(j.rows, i)) : i \in j.rows}
    BY <2>1
  <2> QED
    BY <2>2, Zenon DEF LowWater, Floor
<1>7. Net(j.rows) = Total(E, j.rows)
  BY <1>2, <1>4, FoldIsTotal DEF Net
<1>8. PICK n \in 0..Len(E) :
        /\ baseline'.recorded = n /\ baseline'.rows = j.rows /\ baseline'.seen = j.seen
        /\ baseline'.floor = Floor(E, j.rows)
        /\ baseline'.divergence = j.balance - Total(E, j.rows)
        /\ baseline'.sharp => /\ n = Len(E) /\ j.seen = Len(E) /\ Committed = j.rows
                              /\ \A i \in DOMAIN events : events[i].row # "pending"
  BY <1>2, <1>3, <1>6, <1>7 DEF WriteBaseline
<1>9. ASSUME baseline'.sharp
      PROVE  /\ j.seen = n /\ j.rows = UpTo(Logged(E), n)
             /\ \A i \in 1..n : E[i].row # "pending"
  <2>1. j.rows = Logged(E) /\ n = Len(E)
    BY <1>2, <1>4, <1>8, <1>9 DEF Committed, Logged
  <2>2. UpTo(Logged(E), Len(E)) = Logged(E)
    BY <1>4 DEF UpTo, Logged
  <2> QED
    BY <1>2, <1>4, <1>8, <1>9, <2>1, <2>2
<1>10. j.seen \in 0..Len(E) /\ j.balance = Owned(E, j.seen)
  BY <1>1, <1>2, <1>3 DEF CheckInv, JobInv, Answered
<1>11. BaselineInv'
  <2>1. /\ events' = E /\ baseline'.recorded \in 0..Len(E) /\ baseline'.seen \in 0..Len(E)
        /\ baseline'.rows \subseteq Logged(E) /\ baseline'.floor = Floor(E, baseline'.rows)
        /\ baseline'.divergence = Owned(E, baseline'.seen) - Total(E, baseline'.rows)
    BY <1>1, <1>2, <1>4, <1>8, <1>10
  <2>2. baseline'.sharp => /\ baseline'.seen = baseline'.recorded
                           /\ baseline'.rows = UpTo(Logged(E), baseline'.recorded)
                           /\ \A i \in 1..baseline'.recorded : E[i].row # "pending"
    BY <1>8, <1>9
  <2> QED
    BY <2>1, <2>2 DEF BaselineInv
<1> QED
  BY <1>5, <1>11

\* Every step of the account and of the scripts keeps the invariant.
LEMMA CheckNext == CheckInv /\ [Next]_vars => CheckInv'
<1> SUFFICES ASSUME CheckInv, [Next]_vars PROVE CheckInv'
  OBVIOUS
<1>1. CASE Account \/ Resolve
  <2>1. HistoryInv' /\ Follows(events, events')
    BY <1>1, HistoryGrows DEF CheckInv
  <2>2. baseline' = baseline
    BY <1>1 DEF Account, Happens, Resolve
  <2>3. BaselineInv'
    BY <2>1, <2>2, BaselineOutlives DEF CheckInv
  <2>4. JobInv'
    BY <1>1, <2>1, JobGoesOn
  <2> QED
    BY <2>1, <2>3, <2>4 DEF CheckInv
<1>2. CASE (\E script \in {"check", "baseline"} : Start(script)) \/ Snapshot
           \/ ReadBalance \/ Finish
  <2>1. UNCHANGED <<events, baseline>>
    BY <1>2 DEF Start, Snapshot, ReadBalance, Finish
  <2>2. JobInv'
    BY <1>2, ReadingKeeps
  <2> QED
    BY <2>1, <2>2 DEF CheckInv, HistoryInv, BaselineInv
<1>3. CASE ReadFills \/ ReadLedger
  <2>1. UNCHANGED <<events, baseline>>
    BY <1>3 DEF ReadFills, ReadLedger
  <2>2. JobInv'
    BY <1>3, AskingKeeps
  <2> QED
    BY <2>1, <2>2 DEF CheckInv, HistoryInv, BaselineInv
<1>4. CASE WriteBaseline
  <2>1. events' = events
    BY <1>4 DEF WriteBaseline
  <2>2. BaselineInv' /\ JobInv'
    BY <1>4, WritingKeeps
  <2> QED
    BY <2>1, <2>2 DEF CheckInv, HistoryInv
<1>5. CASE UNCHANGED vars
  BY <1>5 DEF vars, CheckInv, HistoryInv, BaselineInv, JobInv
<1> QED
  BY <1>1, <1>2, <1>3, <1>4, <1>5 DEF Next

\* Before any event and any script, nothing has been read.
LEMMA CheckInit == Init => CheckInv
<1> SUFFICES ASSUME Init PROVE CheckInv
  OBVIOUS
<1>0. <<>> \in Seq(Event) /\ Len(<<>>) = 0
  OBVIOUS
<1>1. PICK E \in Seq(Event) : E = events /\ E = <<>> /\ Len(E) = 0
  BY <1>0 DEF Init
<1>2. HistoryInv
  BY <1>1, BoundAssumption DEF HistoryInv
<1>3. Floor(E, {}) = 0 /\ Total(E, {}) = 0
  BY FloorFactsOf, TotalFacts
<1>4. Owned(E, 0) = 0
  <2>1. OfKinds(E, Moving, 0) = {}
    BY DEF OfKinds
  <2> QED
    BY <1>3, <2>1 DEF Owned
<1>5. UpTo(Logged(E), 0) = {}
  BY <1>1 DEF UpTo, Logged
<1>6. BaselineInv
  BY <1>1, <1>3, <1>4, <1>5 DEF Init, NoBaseline, BaselineInv
<1>7. JobInv
  BY <1>1 DEF Init, Idle, JobInv, Jobs, Copied, Answered
<1> QED
  BY <1>2, <1>6, <1>7 DEF CheckInv

\* What the scripts have read, and what the baseline records, at all times.
LEMMA CheckInvariant == Spec => []CheckInv
  BY CheckInit, CheckNext, PTL DEF Spec

\* Variables have their types; what a script copied, and what the baseline was
\* written from, is in the log for ever.
THEOREM TypeCorrect == Spec => []TypeOK
<1>1. CheckInv => TypeOK
  <2> SUFFICES ASSUME CheckInv PROVE TypeOK
    OBVIOUS
  <2>1. events \in Seq(Event) /\ DOMAIN events = 1..Len(events)
    BY DEF CheckInv, HistoryInv
  <2>2. ASSUME NEW i \in DOMAIN events
        PROVE  events[i].amount \in Amounts /\ (events[i].row = "none" <=> i \notin Rows)
    <3>1. events[i] \in Event /\ Fitting(events[i])
      BY <2>1 DEF CheckInv, HistoryInv
    <3> QED
      BY <3>1 DEF Event, Fitting, Rows
  <2>3. \A i \in job.rows \cup baseline.rows : events[i].row = "logged"
    BY DEF CheckInv, JobInv, BaselineInv, Logged
  <2>4. job.script \in {"none", "check", "baseline"}
        /\ job.at \in {"none", "start", "snapshot", "balance", "fills", "report"}
    BY DEF CheckInv, JobInv, Jobs
  <2> QED
    BY <2>2, <2>3, <2>4 DEF CheckInv, HistoryInv, JobInv, BaselineInv, TypeOK
<1> QED
  BY <1>1, CheckInvariant, PTL

-----------------------------------------------------------------------------
(* The drift *)

\* The events of some kinds after the r first of n.
After(E, kinds, r, n) == {i \in OfKinds(E, kinds, n) : i > r}

\* What is owned grows by what happens.
LEMMA OwnedSince ==
  ASSUME NEW E \in Seq(Event), NEW s \in 0..Len(E), NEW t \in 0..Len(E), s <= t
  PROVE  Owned(E, t) = Owned(E, s) + Total(E, After(E, Moving, s, t))
<1>1. PICK A, B, C : /\ A = OfKinds(E, Moving, s) /\ B = After(E, Moving, s, t)
                     /\ C = OfKinds(E, Moving, t)
  OBVIOUS
<1>2. Len(E) \in Nat
  BY EventFacts
<1>3. C = A \cup B /\ A \cap B = {} /\ C \subseteq 1..Len(E)
  BY <1>1, <1>2 DEF OfKinds, After
<1>4. Total(E, A \cup B) = Total(E, A) + Total(E, B)
  BY <1>3, TotalUnion
<1> QED
  BY <1>1, <1>3, <1>4 DEF Owned

\* The sum over a set and the sum over a part of it.
LEMMA TotalPart ==
  ASSUME NEW E \in Seq(Event), NEW A, NEW B, A \subseteq 1..Len(E)
  PROVE  /\ Total(E, A) = Total(E, A \cap B) + Total(E, A \ B)
         /\ Total(E, A \cap B) \in Int /\ Total(E, A \ B) \in Int
<1>1. PICK C, D : C = A \cap B /\ D = A \ B
  OBVIOUS
<1>2. A = C \cup D /\ C \cap D = {} /\ C \subseteq 1..Len(E) /\ D \subseteq 1..Len(E)
  BY <1>1
<1>3. Total(E, C \cup D) = Total(E, C) + Total(E, D)
  BY <1>2, TotalUnion
<1> QED
  BY <1>1, <1>2, <1>3, TotalFacts

\* The drift of a report is what moved the balance less what it explains.  On a
\* baseline taken in peace the difference is the transfers, the rewards of an
\* unread ledger, the rows without fills and what came after the balance.
THEOREM DriftAlwaysUnexplained == Spec => []DriftIsWhatNobodyExplains
<1>1. CheckInv => DriftIsWhatNobodyExplains
  <2> SUFFICES ASSUME CheckInv, Reported
               PROVE  /\ Drift = Sum(Moved \ Explained) - Sum(Explained \ Moved)
                      /\ baseline.sharp =>
                           /\ Moved \ Explained =
                                {i \in Moved : \/ events[i].kind = "transfer"
                                               \/ events[i].kind = "reward" /\ job.ledger = Unread}
                           /\ Explained \ Moved =
                                {i \in Explained : events[i].kind = "phantom" \/ i > job.seen}
    BY DEF DriftIsWhatNobodyExplains
  <2>1. PICK E \in Seq(Event) : E = events
    BY DEF CheckInv, HistoryInv
  <2>2. PICK r, s, t, n, l :
          /\ r = baseline.recorded /\ s = baseline.seen
          /\ t = job.seen /\ n = job.fills /\ l = job.ledger
    OBVIOUS
  <2>3. PICK R, B, V, M, W, X :
          /\ R = job.rows /\ B = baseline.rows /\ V = After(E, Moving, s, t)
          /\ M = After(E, Fills, r, n) \ R /\ W = After(E, {"reward"}, r, l)
          /\ X = Explained
    OBVIOUS
  <2>4. /\ Len(E) \in Nat /\ r \in 0..Len(E) /\ s \in 0..Len(E) /\ t \in 0..Len(E)
        /\ n \in 0..Len(E) /\ l \in {Unread} \cup 0..Len(E)
        /\ s <= t /\ t <= n /\ (l = Unread \/ t <= l)
    <3>1. job.at = "report"
      BY DEF Reported
    <3> QED
      BY <2>1, <2>2, <3>1, EventFacts DEF CheckInv, BaselineInv, JobInv, Answered
  <2>5. /\ B \subseteq R /\ R \subseteq 1..t /\ R \subseteq Logged(E)
        /\ \A i \in 1..Len(E) : Fitting(E[i])
    <3>1. job.at = "report"
      BY DEF Reported
    <3> QED
      BY <2>1, <2>2, <2>3, <3>1 DEF CheckInv, HistoryInv, JobInv, Copied, Answered
  <2>6. \A i \in R : E[i].kind \in {"order", "phantom"}
    <3> SUFFICES ASSUME NEW i \in R PROVE E[i].kind \in {"order", "phantom"}
      OBVIOUS
    <3>1. i \in 1..Len(E) /\ E[i].row = "logged"
      BY <2>5 DEF Logged
    <3> QED
      BY <2>5, <3>1 DEF Fitting
  <2>7. V = Moved /\ X = ((R \ B) \cup M) \cup W
    <3>1. V = Moved
      <4>1. \A i \in 1..t : i > s <=> i \notin 1..s
        BY <2>4
      <4> QED
        BY <2>1, <2>2, <2>3, <4>1 DEF Moved, Of, After, OfKinds
    <3>2. M = {i \in Of(Fills, job.fills) : i > baseline.recorded} \ job.rows
      BY <2>1, <2>2, <2>3 DEF After, Of, OfKinds
    <3>3. W = {i \in Of({"reward"}, job.ledger) : i > baseline.recorded}
      BY <2>1, <2>2, <2>3 DEF After, Of, OfKinds
    <3> QED
      BY <2>3, <3>1, <3>2, <3>3 DEF Explained
  <2>8. /\ R \subseteq 1..Len(E) /\ B \subseteq 1..Len(E) /\ V \subseteq 1..Len(E)
        /\ M \subseteq 1..Len(E) /\ W \subseteq 1..Len(E) /\ X \subseteq 1..Len(E)
    <3>1. R \subseteq 1..Len(E) /\ B \subseteq 1..Len(E)
      BY <2>4, <2>5
    <3>2. V \subseteq 1..Len(E) /\ M \subseteq 1..Len(E)
      BY <2>3, <2>4 DEF After, OfKinds
    <3>3. W \subseteq 1..Len(E)
      BY <2>3, <2>4 DEF After, OfKinds, Unread
    <3> QED
      BY <2>7, <3>1, <3>2, <3>3
  <2>9. /\ job.balance = Owned(E, s) + Total(E, V)
        /\ baseline.divergence = Owned(E, s) - Total(E, B)
        /\ Owned(E, s) \in Int
    <3>1. job.balance = Owned(E, t)
      BY <2>1, <2>2 DEF CheckInv, JobInv, Reported, Answered
    <3>2. Owned(E, t) = Owned(E, s) + Total(E, V)
      BY <2>3, <2>4, OwnedSince
    <3>3. baseline.divergence = Owned(E, s) - Total(E, B)
      BY <2>1, <2>2, <2>3 DEF CheckInv, BaselineInv
    <3>4. OfKinds(E, Moving, s) \subseteq 1..Len(E)
      BY <2>4 DEF OfKinds
    <3> QED
      BY <3>1, <3>2, <3>3, <3>4, TotalFacts DEF Owned
  <2>10. /\ Total(E, R) = Total(E, B) + Total(E, R \ B)
         /\ Total(E, B) \in Int /\ Total(E, R \ B) \in Int
    <3>1. R \cap B = B
      BY <2>5
    <3>2. Total(E, R) = Total(E, R \cap B) + Total(E, R \ B)
          /\ Total(E, R \cap B) \in Int /\ Total(E, R \ B) \in Int
      BY <2>8, TotalPart, Zenon
    <3> QED
      BY <3>1, <3>2, Zenon
  <2>11. /\ Total(E, X) = (Total(E, R \ B) + Total(E, M)) + Total(E, W)
         /\ Total(E, M) \in Int /\ Total(E, W) \in Int
    <3>1. PICK C, D : C = R \ B /\ D = C \cup M
      OBVIOUS
    <3>2. /\ C \subseteq 1..Len(E) /\ D \subseteq 1..Len(E) /\ C \cap M = {}
          /\ X = D \cup W
      BY <2>3, <2>7, <2>8, <3>1
    <3>3. D \cap W = {}
      BY <2>3, <2>6, <3>1 DEF After, OfKinds, Fills
    <3>4. Total(E, C \cup M) = Total(E, C) + Total(E, M)
      BY <2>8, <3>2, TotalUnion
    <3>5. Total(E, D \cup W) = Total(E, D) + Total(E, W)
      BY <2>8, <3>2, <3>3, TotalUnion
    <3> QED
      BY <2>8, <3>1, <3>2, <3>4, <3>5, TotalFacts
  <2>12. /\ Total(E, V) = Total(E, V \cap X) + Total(E, V \ X)
         /\ Total(E, X) = Total(E, V \cap X) + Total(E, X \ V)
         /\ Total(E, V \cap X) \in Int /\ Total(E, V \ X) \in Int /\ Total(E, X \ V) \in Int
    <3>1. V \cap X = X \cap V
      OBVIOUS
    <3>2. /\ Total(E, V) = Total(E, V \cap X) + Total(E, V \ X)
          /\ Total(E, V \cap X) \in Int /\ Total(E, V \ X) \in Int
      BY <2>8, TotalPart, Zenon
    <3>3. /\ Total(E, X) = Total(E, X \cap V) + Total(E, X \ V)
          /\ Total(E, X \ V) \in Int
      BY <2>8, TotalPart, Zenon
    <3> QED
      BY <3>1, <3>2, <3>3, Zenon
  <2>13. Net(job.rows) = Total(E, R)
    BY <2>1, <2>3, <2>8, FoldIsTotal DEF Net
  <2>14. ManualAdjustment(job.rows, job.fills) = Total(E, M)
    <3>1. M = {i \in Of(Fills, job.fills) : i > baseline.recorded /\ ~ByBot(i, job.rows)}
      BY <2>1, <2>2, <2>3 DEF Of, After, OfKinds, ByBot
    <3> QED
      BY <2>1, <2>8, <3>1, FoldIsTotal DEF ManualAdjustment
  <2>15. RewardAdjustment(job.ledger) = Total(E, W)
    <3>1. CASE l = Unread
      <4>1. W = {}
        BY <2>3, <3>1 DEF After, OfKinds, Unread
      <4> QED
        BY <2>2, <2>8, <3>1, <4>1, TotalFacts DEF RewardAdjustment
    <3>2. CASE l # Unread
      <4>1. W = {i \in Of({"reward"}, job.ledger) : i > baseline.recorded}
        BY <2>1, <2>2, <2>3 DEF Of, After, OfKinds
      <4> QED
        BY <2>1, <2>2, <2>8, <3>2, <4>1, FoldIsTotal DEF RewardAdjustment
    <3> QED
      BY <3>1, <3>2
  <2>16. Sum(V \ X) = Total(E, V \ X) /\ Sum(X \ V) = Total(E, X \ V)
    <3>1. PICK P, Q : P = V \ X /\ Q = X \ V
      OBVIOUS
    <3>2. P \subseteq 1..Len(E) /\ Q \subseteq 1..Len(E)
      BY <2>8, <3>1
    <3> QED
      BY <2>1, <3>1, <3>2, FoldIsTotal
  <2>17. Drift = Sum(Moved \ Explained) - Sum(Explained \ Moved)
    <3>1. Drift = ((Owned(E, s) + Total(E, V)) - Total(E, R))
                   - ((Owned(E, s) - Total(E, B)) + Total(E, M) + Total(E, W))
      BY <2>9, <2>13, <2>14, <2>15 DEF Drift
    <3>2. Drift = Total(E, V \ X) - Total(E, X \ V)
      <4>1. PICK o, v, b, c, m, w, z, p, q, u, x :
              /\ o = Owned(E, s) /\ v = Total(E, V) /\ b = Total(E, B) /\ c = Total(E, R \ B)
              /\ m = Total(E, M) /\ w = Total(E, W) /\ z = Total(E, V \cap X)
              /\ p = Total(E, V \ X) /\ q = Total(E, X \ V) /\ u = Total(E, R)
              /\ x = Total(E, X)
        OBVIOUS
      <4>2. /\ o \in Int /\ b \in Int /\ c \in Int /\ m \in Int /\ w \in Int
            /\ z \in Int /\ p \in Int /\ q \in Int
            /\ u = b + c /\ x = (c + m) + w /\ v = z + p /\ x = z + q
            /\ Drift = ((o + v) - u) - ((o - b) + m + w)
        BY <2>9, <2>10, <2>11, <2>12, <3>1, <4>1, Zenon
      <4>3. Drift = p - q
        BY <4>2, SMT
      <4> QED
        BY <4>1, <4>3
    <3> QED
      BY <2>3, <2>7, <2>16, <3>2
  <2>18. ASSUME baseline.sharp
         PROVE  /\ V \ X = {i \in V : E[i].kind = "transfer" \/ (E[i].kind = "reward" /\ l = Unread)}
                /\ X \ V = {i \in X : E[i].kind = "phantom" \/ i > t}
    <3>1. s = r /\ B = UpTo(R, r)
      <4>1. baseline.sharp /\ job.at = "report"
        BY <2>18 DEF Reported
      <4> QED
        BY <2>2, <2>3, <4>1 DEF CheckInv, BaselineInv, JobInv, Copied
    <3>2. ASSUME NEW i \in V
          PROVE  i \notin X
                 <=> E[i].kind = "transfer" \/ (E[i].kind = "reward" /\ l = Unread)
      <4>1. i \in 1..t /\ i > r /\ E[i].kind \in {"order", "manual", "reward", "transfer"}
        BY <2>3, <3>1, <3>2 DEF After, OfKinds, Moving, Fills
      <4>2. i \in R => i \notin B
        BY <2>4, <3>1, <4>1 DEF UpTo
      <4>3. i \in M <=> i \notin R /\ E[i].kind \in Fills
        BY <2>3, <2>4, <4>1 DEF After, OfKinds
      <4>4. i \in W <=> E[i].kind = "reward" /\ l # Unread
        <5>1. CASE l = Unread
          BY <2>3, <4>1, <5>1 DEF After, OfKinds, Unread
        <5>2. CASE l # Unread
          BY <2>3, <2>4, <4>1, <5>2 DEF After, OfKinds
        <5> QED
          BY <5>1, <5>2
      <4> QED
        BY <2>6, <2>7, <4>1, <4>2, <4>3, <4>4 DEF Fills
    <3>3. ASSUME NEW i \in X PROVE i \notin V <=> E[i].kind = "phantom" \/ i > t
      <4>1. i \in Nat /\ i >= 1
        BY <2>4, <2>8
      <4>2. i \in V <=> i <= t /\ i > r /\ E[i].kind \in Moving
        BY <2>3, <2>4, <3>1, <4>1 DEF After, OfKinds
      <4>3. i > r
        <5>1. i \in R \ B => ~(i <= r)
          BY <3>1 DEF UpTo
        <5>2. i \in M \/ i \in W => i > r
          BY <2>3 DEF After
        <5> QED
          BY <2>4, <2>7, <3>3, <4>1, <5>1, <5>2
      <4>4. E[i].kind = "phantom" \/ E[i].kind \in Moving
        BY <2>3, <2>6, <2>7, <3>3 DEF After, OfKinds, Moving, Fills
      <4>5. E[i].kind = "phantom" => E[i].kind \notin Moving
        BY DEF Moving, Fills
      <4> QED
        BY <2>4, <4>1, <4>2, <4>3, <4>4, <4>5
    <3> QED
      BY <3>2, <3>3
  <2> QED
    BY <2>1, <2>2, <2>3, <2>7, <2>17, <2>18
<1> QED
  BY <1>1, CheckInvariant, PTL

-----------------------------------------------------------------------------
(* Over-sells *)

\* The rows of R between two events.
Between(R, j, i) == {k \in R : j < k /\ k < i}

\* No event comes before the first.
LEMMA EmptyUpTo ==
  ASSUME NEW E \in Seq(Event), NEW R, R \subseteq 1..Len(E)
  PROVE  UpTo(R, 0) = {}
<1>1. ASSUME NEW k \in R PROVE ~(k <= 0)
  <2>1. k \in 1..Len(E) /\ Len(E) \in Nat
    BY EventFacts
  <2>2. k \in Int /\ 1 <= k
    BY <2>1
  <2> QED
    BY <2>2
<1> QED
  BY <1>1 DEF UpTo

\* A row sells more than the floored walk finds open exactly when the running net
\* falls below all it has been.
LEMMA OversoldIsLowest ==
  ASSUME events \in Seq(Event), NEW R, R \subseteq 1..Len(events), NEW i \in R
  PROVE  Oversells(R, i)
         <=> \A j \in 0..(i - 1) : Total(events, UpTo(R, i)) < Total(events, UpTo(R, j))
<1>1. PICK E \in Seq(Event) : E = events
  OBVIOUS
<1>2. PICK a : a = E[i].amount
  OBVIOUS
<1>3. Len(E) \in Nat /\ i \in 1..Len(E) /\ a \in Int /\ Worth(E)[i] = a /\ Amount(i) = a
  BY <1>1, <1>2, EventFacts DEF Amount
<1> DEFINE S == {Sum({k \in R : j < k /\ k < i}) : j \in 0..i-1}
<1>4. ASSUME NEW j \in 0..(i - 1)
      PROVE  /\ Sum({k \in R : j < k /\ k < i}) = Total(E, Between(R, j, i))
             /\ Total(E, Between(R, j, i)) \in Int /\ Total(E, UpTo(R, j)) \in Int
             /\ Total(E, UpTo(R, i)) = Total(E, UpTo(R, j)) + Total(E, Between(R, j, i)) + a
  <2>1. PICK A, B, C, D : A = UpTo(R, j) /\ B = Between(R, j, i) /\ C = A \cup B /\ D = {i}
    OBVIOUS
  <2>2. /\ A \subseteq 1..Len(E) /\ B \subseteq 1..Len(E) /\ C \subseteq 1..Len(E)
        /\ D \subseteq 1..Len(E)
    BY <1>1, <1>3, <2>1 DEF UpTo, Between
  <2>3. A \cap B = {} /\ C \cap D = {}
    BY <1>3, <2>1, <2>2 DEF UpTo, Between
  <2>4. UpTo(R, i) = C \cup D
    <3>1. ASSUME NEW k \in R, k <= i PROVE k \in A \/ k \in B \/ k = i
      <4>1. k \in Int /\ j \in Int /\ i \in Int
        BY <1>1, <1>3
      <4> QED
        BY <2>1, <3>1, <4>1 DEF UpTo, Between
    <3>2. ASSUME NEW k, k \in A \/ k \in B \/ k = i PROVE k \in R /\ k <= i
      <4>1. k \in Int /\ j \in Int /\ i \in Int
        BY <1>3, <2>1, <2>2, <3>2
      <4> QED
        BY <2>1, <3>2, <4>1 DEF UpTo, Between
    <3> QED
      BY <2>1, <3>1, <3>2 DEF UpTo
  <2>5. Total(E, C) = Total(E, A) + Total(E, B)
    BY <2>1, <2>2, <2>3, TotalUnion
  <2>6. Total(E, C \cup D) = Total(E, C) + Total(E, D)
    BY <2>2, <2>3, TotalUnion
  <2>7. Total(E, D) = a
    <3>1. IsFiniteSet({}) /\ {} \cup {i} = D /\ i \notin {} /\ \A y \in {} \cup {i} : Worth(E)[y] \in Int
      BY <1>3, <2>1, FS_EmptySet
    <3>2. SumOver(Worth(E), {} \cup {i}) = SumOver(Worth(E), {}) + Worth(E)[i]
      BY <3>1, SumAdd
    <3>3. SumOver(Worth(E), {}) = 0
      BY <3>1, SumStep
    <3>4. SumOver(Worth(E), D) = 0 + a
      <4>1. PICK u, v : u = SumOver(Worth(E), {} \cup {i}) /\ v = SumOver(Worth(E), {})
        OBVIOUS
      <4>2. u = v + Worth(E)[i] /\ v = 0
        BY <3>2, <3>3, <4>1
      <4>3. u = SumOver(Worth(E), D)
        BY <3>1, <4>1
      <4> QED
        BY <1>3, <4>2, <4>3
    <3> QED
      BY <1>3, <3>4 DEF Total
  <2>8. Total(E, A) \in Int /\ Total(E, B) \in Int
    BY <2>2, TotalFacts
  <2>9. Sum(B) = Total(E, B) /\ B = {k \in R : j < k /\ k < i}
    BY <1>1, <2>1, <2>2, FoldIsTotal DEF Between
  <2> QED
    BY <1>3, <2>1, <2>4, <2>5, <2>6, <2>7, <2>8, <2>9
<1>5. S \subseteq Int /\ S # {} /\ IsFiniteSet(S)
  <2>1. S \subseteq Int
    BY <1>4
  <2>2. i - 1 \in 0..(i - 1)
    BY <1>3
  <2>3. S # {}
    BY <2>2
  <2>4. IsFiniteSet(0..(i - 1))
    BY <1>3, FS_Interval
  <2>5. [j \in 0..(i - 1) |-> Sum({k \in R : j < k /\ k < i})] \in Surjection(0..(i - 1), S)
    BY DEF Surjection
  <2> QED
    <3>1. PICK D, F : D = 0..(i - 1) /\ F = [j \in 0..(i - 1) |-> Sum({k \in R : j < k /\ k < i})]
      OBVIOUS
    <3>2. IsFiniteSet(D) /\ F \in Surjection(D, S)
      BY <2>4, <2>5, <3>1
    <3>3. IsFiniteSet(S)
      BY <3>2, FS_Surjection
    <3> QED
      BY <2>1, <2>3, <3>3
<1>6. Open(R, i) = Max(S)
  BY DEF Open
<1>7. Max(S) \in S /\ Max(S) \in Int /\ \A y \in S : y <= Max(S)
  BY <1>5, MinMaxFacts
<1>8. \A j \in 0..(i - 1) : Total(E, Between(R, j, i)) \in S
  BY <1>4
<1>9. \E j \in 0..(i - 1) : Max(S) = Total(E, Between(R, j, i))
  BY <1>4, <1>7
<1> HIDE DEF S
<1>10. -a > Max(S) <=> \A j \in 0..(i - 1) : -a > Total(E, Between(R, j, i))
  <2>1. ASSUME -a > Max(S), NEW j \in 0..(i - 1) PROVE -a > Total(E, Between(R, j, i))
    <3>1. Total(E, Between(R, j, i)) <= Max(S) /\ Total(E, Between(R, j, i)) \in Int
      BY <1>4, <1>7, <1>8
    <3> QED
      BY <1>3, <1>7, <2>1, <3>1
  <2>2. ASSUME \A j \in 0..(i - 1) : -a > Total(E, Between(R, j, i)) PROVE -a > Max(S)
    BY <1>9, <2>2
  <2> QED
    BY <2>1, <2>2
<1>11. \A j \in 0..(i - 1) :
         -a > Total(E, Between(R, j, i)) <=> Total(E, UpTo(R, i)) < Total(E, UpTo(R, j))
  <2> SUFFICES ASSUME NEW j \in 0..(i - 1)
               PROVE  -a > Total(E, Between(R, j, i))
                      <=> Total(E, UpTo(R, i)) < Total(E, UpTo(R, j))
    OBVIOUS
  <2>1. PICK x, y, z :
          x = Total(E, UpTo(R, i)) /\ y = Total(E, UpTo(R, j)) /\ z = Total(E, Between(R, j, i))
    OBVIOUS
  <2>2. x = y + z + a /\ y \in Int /\ z \in Int /\ a \in Int
    BY <1>3, <1>4, <2>1
  <2>3. -a > z <=> x < y
    BY <2>2
  <2> QED
    BY <2>1, <2>3
<1>12. -a > Max(S) => a < 0
  <2>1. i - 1 \in 0..(i - 1)
    BY <1>3
  <2>2. Between(R, i - 1, i) = {}
    <3>1. ASSUME NEW k \in R PROVE ~(i - 1 < k /\ k < i)
      <4>1. k \in Int /\ i \in Int
        BY <1>1, <1>3
      <4> QED
        BY <4>1
    <3> QED
      BY <3>1 DEF Between
  <2>3. Total(E, Between(R, i - 1, i)) = 0
    BY <2>2, TotalFacts
  <2> QED
    BY <1>3, <1>10, <2>1, <2>3
<1> QED
  BY <1>1, <1>3, <1>6, <1>10, <1>11, <1>12 DEF Oversells

\* As long as no row took the running net below a floor, it is not below it.
LEMMA AboveFloor ==
  ASSUME NEW E \in Seq(Event), NEW R, R \subseteq 1..Len(E), NEW f \in Int, f <= 0,
         NEW i \in Nat, \A k \in R : k < i => f <= Total(E, UpTo(R, k))
  PROVE  \A j \in Nat : j < i => f <= Total(E, UpTo(R, j))
<1> DEFINE G == {j \in Nat : j < i => f <= Total(E, UpTo(R, j))}
<1>1. 0 \in G
  <2>1. UpTo(R, 0) = {}
    BY EmptyUpTo
  <2>2. Total(E, UpTo(R, 0)) = 0
    BY <2>1, TotalFacts
  <2> QED
    BY <2>2
<1>2. ASSUME NEW j \in Nat, j \in G PROVE j + 1 \in G
  <2> SUFFICES ASSUME j + 1 < i PROVE f <= Total(E, UpTo(R, j + 1))
    OBVIOUS
  <2>1. CASE j + 1 \in R
    BY <2>1
  <2>2. CASE j + 1 \notin R
    <3>1. \A k \in R : k <= j + 1 <=> k <= j
      <4> SUFFICES ASSUME NEW k \in R PROVE k <= j + 1 <=> k <= j
        OBVIOUS
      <4>1. k \in Int /\ k # j + 1
        BY <2>2, EventFacts
      <4> QED
        BY <4>1
    <3>2. UpTo(R, j + 1) = UpTo(R, j)
      BY <3>1 DEF UpTo
    <3> QED
      BY <1>2, <3>2
  <2> QED
    BY <2>1, <2>2
<1> HIDE DEF G
<1>3. Nat \subseteq G
  BY <1>1, <1>2, NatInductive
<1> QED
  BY <1>3 DEF G

\* The running net is below the floor of the rows up to r exactly if one of the
\* rows after r took it below all it has been.
LEMMA BreachIsLowest ==
  ASSUME NEW E \in Seq(Event), NEW R, R \subseteq 1..Len(E), NEW r \in Nat,
         NEW B, B = UpTo(R, r)
  PROVE  (\E i \in R : Total(E, UpTo(R, i)) < Floor(E, B))
         <=> \E i \in R \ B :
               \A j \in 0..(i - 1) : Total(E, UpTo(R, i)) < Total(E, UpTo(R, j))
<1>1. PICK f : f = Floor(E, B)
  OBVIOUS
<1>2. B \subseteq 1..Len(E) /\ B \subseteq R
  BY DEF UpTo
<1>3. \A i \in B : UpTo(B, i) = UpTo(R, i)
  <2> SUFFICES ASSUME NEW i \in B PROVE UpTo(B, i) = UpTo(R, i)
    OBVIOUS
  <2>1. \A k \in R : k <= i => k <= r
    <3> SUFFICES ASSUME NEW k \in R, k <= i PROVE k <= r
      OBVIOUS
    <3>1. k \in Int /\ i \in Int /\ i <= r
      BY <1>2, EventFacts DEF UpTo
    <3> QED
      BY <3>1
  <2> QED
    BY <2>1 DEF UpTo
<1>4. /\ f \in Int /\ f <= 0
      /\ f = 0 \/ \E i \in B : f = Total(E, UpTo(R, i))
      /\ \A i \in B : f <= Total(E, UpTo(R, i))
  BY <1>1, <1>2, <1>3, FloorFactsOf
<1>5. ASSUME NEW i \in Nat PROVE Total(E, UpTo(R, i)) \in Int
  <2>1. UpTo(R, i) \subseteq 1..Len(E)
    BY DEF UpTo
  <2> QED
    BY <2>1, TotalFacts
<1>6. R \subseteq Nat
  BY EventFacts
<1>7. Total(E, UpTo(R, 0)) = 0
  <2>1. UpTo(R, 0) = {}
    BY EmptyUpTo
  <2> QED
    BY <2>1, TotalFacts
<1>8. ASSUME NEW i \in R \ B,
             \A j \in 0..(i - 1) : Total(E, UpTo(R, i)) < Total(E, UpTo(R, j))
      PROVE  Total(E, UpTo(R, i)) < f
  <2>1. i \in Nat /\ i > r /\ i >= 1
    BY <1>6 DEF UpTo
  <2>2. CASE f = 0
    <3>1. 0 \in 0..(i - 1)
      BY <2>1
    <3> QED
      BY <1>7, <1>8, <2>2, <3>1
  <2>3. ASSUME NEW k \in B, f = Total(E, UpTo(R, k)) PROVE Total(E, UpTo(R, i)) < f
    <3>1. k \in Nat /\ k <= r
      BY <1>2, <1>6 DEF UpTo
    <3>2. k \in 0..(i - 1)
      BY <2>1, <3>1
    <3> QED
      BY <1>8, <2>3, <3>2
  <2> QED
    BY <1>4, <2>2, <2>3
<1>9. ASSUME NEW i \in R, Total(E, UpTo(R, i)) < f
      PROVE  \E m \in R \ B :
               \A j \in 0..(m - 1) : Total(E, UpTo(R, m)) < Total(E, UpTo(R, j))
  <2> DEFINE L == {k \in R : Total(E, UpTo(R, k)) < f}
  <2>1. L \subseteq Int /\ L # {} /\ IsFiniteSet(L)
    <3>1. L \subseteq 1..Len(E)
      OBVIOUS
    <3> QED
      BY <1>6, <1>9, <3>1, TotalFacts
  <2>2. PICK m \in L : \A k \in L : m <= k
    BY <2>1, Extremes
  <2>3. m \in R /\ m \in Nat /\ Total(E, UpTo(R, m)) < f /\ Total(E, UpTo(R, m)) \in Int
    BY <1>5, <1>6, <2>2
  <2>4. m \notin B
    BY <1>4, <2>3
  <2>5. \A k \in R : k < m => f <= Total(E, UpTo(R, k))
    <3> SUFFICES ASSUME NEW k \in R, k < m PROVE f <= Total(E, UpTo(R, k))
      OBVIOUS
    <3>1. k \in Nat /\ Total(E, UpTo(R, k)) \in Int
      BY <1>5, <1>6
    <3>2. k \notin L
      BY <2>2, <2>3, <3>1
    <3> QED
      BY <1>4, <3>1, <3>2
  <2> HIDE DEF L
  <2>6. \A j \in Nat : j < m => f <= Total(E, UpTo(R, j))
    BY <1>4, <2>3, <2>5, AboveFloor
  <2>7. \A j \in 0..(m - 1) : Total(E, UpTo(R, m)) < Total(E, UpTo(R, j))
    <3> SUFFICES ASSUME NEW j \in 0..(m - 1)
                 PROVE  Total(E, UpTo(R, m)) < Total(E, UpTo(R, j))
      OBVIOUS
    <3>1. j \in Nat /\ j < m
      BY <2>3
    <3>2. f <= Total(E, UpTo(R, j)) /\ Total(E, UpTo(R, j)) \in Int
      BY <1>5, <2>6, <3>1
    <3> QED
      BY <1>4, <2>3, <3>2
  <2> QED
    BY <2>3, <2>4, <2>7
<1> QED
  BY <1>1, <1>8, <1>9

\* check_ledger reports a breach exactly when the log has over-sold since the
\* baseline, however low the net had been before it.
THEOREM BreachAlwaysNewOversell == Spec => []BreachIsNewOversell
<1>1. CheckInv => BreachIsNewOversell
  <2> SUFFICES ASSUME CheckInv, Reported, baseline.sharp
               PROVE  Breached(job.rows)
                      <=> \E i \in job.rows \ baseline.rows : Oversells(job.rows, i)
    BY DEF BreachIsNewOversell
  <2>1. PICK E \in Seq(Event) : E = events
    BY DEF CheckInv, HistoryInv
  <2>2. PICK r, R, B : r = baseline.recorded /\ R = job.rows /\ B = baseline.rows
    OBVIOUS
  <2>3. r \in Nat /\ R \subseteq 1..Len(E) /\ B = UpTo(R, r) /\ baseline.floor = Floor(E, B)
    BY <2>1, <2>2 DEF CheckInv, BaselineInv, JobInv, Reported, Copied, Logged
  <2>4. \A i \in R : Running(R, i) = Total(E, UpTo(R, i))
    <3> SUFFICES ASSUME NEW i \in R PROVE Running(R, i) = Total(E, UpTo(R, i))
      OBVIOUS
    <3>1. UpTo(R, i) \subseteq 1..Len(E) /\ Running(R, i) = Sum(UpTo(R, i))
      BY <2>3 DEF UpTo, Running
    <3> QED
      BY <2>1, <3>1, FoldIsTotal
  <2>5. Breached(R) <=> \E i \in R : Total(E, UpTo(R, i)) < Floor(E, B)
    BY <2>3, <2>4 DEF Breached
  <2>6. \A i \in R \ B : Oversells(R, i)
          <=> \A j \in 0..(i - 1) : Total(E, UpTo(R, i)) < Total(E, UpTo(R, j))
    BY <2>1, <2>3, OversoldIsLowest
  <2>7. (\E i \in R : Total(E, UpTo(R, i)) < Floor(E, B))
        <=> \E i \in R \ B :
              \A j \in 0..(i - 1) : Total(E, UpTo(R, i)) < Total(E, UpTo(R, j))
    BY <2>3, BreachIsLowest
  <2> QED
    BY <2>2, <2>5, <2>6, <2>7
<1> QED
  BY <1>1, CheckInvariant, PTL
=============================================================================
