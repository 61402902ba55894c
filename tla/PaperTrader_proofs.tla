------------------------- MODULE PaperTrader_proofs -------------------------
(***************************************************************************)
(* Test mode, proved for any pairs, prices, periods, histories and agendas *)
(* of ticks, faults and deaths: what the variables are (TypeCorrect); that *)
(* an undisturbed belief is what the log says (BeliefIsLog); and, as long  *)
(* as the clock does not step back, that a strategy emits over its own     *)
(* resting entry only after a silence (CrossingNeedsSilence), and that the *)
(* candles of every memory and of the table are the ticks                  *)
(* (CandlesAreTicks).                                                      *)
(*                                                                         *)
(* What the strategies decide is left open but for one thing: threshold    *)
(* buys and sells by its triggers.                                         *)
(***************************************************************************)
EXTENDS PaperTrader, TradeLog_proofs, SequenceTheorems

\* What is left of AllStrategies while a tick is evaluated.
Stages == {<<>>, <<"trend_pullback">>, <<"bollinger", "trend_pullback">>,
           <<"ema", "bollinger", "trend_pullback">>, AllStrategies}

\* s has not evaluated the tick yet.
Waiting(s) ==
  todo # <<>> /\ s.pair = tick.pair /\ s.strategy \in ToSet(todo)

\* A completed or an open candle, a builder, and a row of a pair's seen prices.
CandleSet == [t : Int, high : Prices, low : Prices, close : Prices]
Builders == [current : CandleSet \cup {NoCandle}, done : Seq(CandleSet)]
Notes == [t : Int, price : Prices]
Memories == [hours : Builders, trends : Builders]
Histories == [hours : Seq(CandleSet), trends : Seq(CandleSet)]
Trades == [t : Int, side : {"buy", "sell"}]
Arrivals == [pair : Pairs, after : Int]
Agenda == [ticks : Seq(Arrivals), faults : Nat]

TypeOK ==
  /\ maker \in BOOLEAN /\ filter \in BOOLEAN /\ up \in BOOLEAN /\ stepped \in BOOLEAN
  /\ agenda \in Agenda
  /\ now \in Int
  /\ tick \in Ticks \cup {NoTick} /\ todo \in Stages
  /\ memory \in [Slots -> Memories]
  /\ table \in [Pairs -> Histories]
  /\ belief \in [Slots -> Beliefs(Prices)]
  /\ log \in [Slots -> Logs(Prices)]
  /\ book \in [Slots -> Entries \cup {NoEntry}]
  /\ seen \in [Pairs -> Seq(Notes)]
  /\ crossed \subseteq [slot : Slots, placed : Int] /\ unrecorded \subseteq Slots
  /\ acted \in [Pairs -> Seq(Trades)]
  /\ astray \subseteq Pairs

Control ==
  /\ todo = <<>> <=> tick = NoTick
  /\ ~up => todo = <<>> /\ unrecorded = {} /\ \A s \in Slots : ~Resting(s)
  /\ todo # <<>> => tick.at = now
  /\ \A s \in Slots : /\ ~UsesHours(s) => memory[s].hours = NewBuilder
                      /\ ~UsesTrends(s) => memory[s].trends = NewBuilder

-----------------------------------------------------------------------------
\* The invariant behind PaperBelief.
RowsCount(s) ==
  /\ log[s].open = (IF Long(s) THEN 1 ELSE 0)
  /\ Len(log[s].buys) = log[s].open

Believes(s) ==
  /\ belief[s].in <=> Long(s) \/ Resting(s) \/ s \in unrecorded
  /\ belief[s].entry # None => belief[s].in
  /\ s.strategy = "bollinger" /\ belief[s].in => belief[s].entry # None
  /\ Resting(s) => /\ ~Long(s) /\ belief[s].pending.armed
                   /\ ~belief[s].pending.in /\ belief[s].pending.entry = None
  /\ s \in unrecorded => ~Long(s) /\ ~Resting(s)

BeliefInv ==
  /\ \A s \in Slots : Long(s) => log[s].price \in Prices
  /\ \A s \in Undisturbed : RowsCount(s) /\ (up => Believes(s))

-----------------------------------------------------------------------------
\* The invariant behind CrossedAfterSilence.
Opens(a, b) == {CandleOpen(u, Hour) : u \in a..b}

Rests(s) ==
  /\ book[s].deadline = book[s].placed + MakerWait
  /\ book[s].placed <= now
  /\ todo # <<>> => now < book[s].deadline
  /\ UsesHours(s) => /\ memory[s].hours.current # NoCandle
                     /\ memory[s].hours.current.t \in Opens(book[s].placed, now)

SilenceInv ==
  ~stepped =>
    /\ \A c \in crossed :
         c.slot.strategy # "threshold" => (c.placed % Hour) + MakerWait > Hour
    /\ \A s \in Slots : Resting(s) => Rests(s)

\* threshold's triggers are farther apart than the drift that ends an entry.
TriggersApart ==
  \A a, b \in Prices :
    ThresholdBuys(a) /\ ThresholdSells(b) /\ b > a => (b - a) * 100 > DriftPct * a

ThresholdRests(s) ==
  /\ ThresholdBuys(book[s].limit)
  /\ Waiting(s) => /\ tick.price > book[s].limit
                   /\ (tick.price - book[s].limit) * 100 <= DriftPct * book[s].limit

ThresholdInv ==
  /\ \A c \in crossed : c.slot.strategy # "threshold"
  /\ \A s \in Slots : s.strategy = "threshold" /\ Resting(s) => ThresholdRests(s)

-----------------------------------------------------------------------------
\* The invariant behind CandlesAreTheTicks.
HourSlots(p) == {s \in Slots : s.pair = p /\ UsesHours(s)}

PullbackOf(p) == [pair |-> p, strategy |-> "trend_pullback"]

\* s is what t ends with.
Ends(s, t) ==
  /\ Len(s) <= Len(t)
  /\ \A i \in 1..Len(s) : s[i] = t[Len(t) - Len(s) + i]

\* Rows in the order of their times, all of them before t.
InOrder(q) == \A i, j \in 1..Len(q) : i < j => q[i].t < q[j].t
AllBefore(q, t) == \A i \in 1..Len(q) : q[i].t < t

Advanced(c, o, price) ==
  IF c # NoCandle /\ c.t = o THEN LaterTick(c, price) ELSE FirstTick(o, price)

\* No tick of p is being handled: its builders are all at the same candle, which
\* is the last hour seen, and what they completed is what the table ends with.
Even(p, c, M, T, S) ==
  /\ \A s \in HourSlots(p) : M[s].hours.current = c /\ Ends(M[s].hours.done, T)
  /\ c # NoCandle => /\ S # <<>>
                     /\ S[Len(S)] = [t |-> c.t, price |-> c.close]
                     /\ AllBefore(T, c.t)

\* A tick of p, at price in hour o, is evaluated and the strategies of Q have not
\* done so: it completes nothing, or a candle that is not in the table yet, or one
\* that is.
Nothing(p, c, Q, M, T, o, price) ==
  /\ c # NoCandle => c.t = o
  /\ \A s \in HourSlots(p) :
       /\ Ends(M[s].hours.done, T)
       /\ M[s].hours.current = IF s.strategy \in Q THEN c ELSE Advanced(c, o, price)

Unstored(p, c, Q, M, T) ==
  /\ AllBefore(T, c.t)
  /\ \A s \in HourSlots(p) :
       s.strategy \in Q /\ M[s].hours.current = c /\ Ends(M[s].hours.done, T)

Already(p, c, Q, M, T, o, price) ==
  /\ T # <<>> /\ T[Len(T)] = c
  /\ \A s \in HourSlots(p) :
       IF s.strategy \in Q
       THEN M[s].hours.current = c /\ Ends(M[s].hours.done, Front(T))
       ELSE M[s].hours.current = FirstTick(o, price) /\ Ends(M[s].hours.done, T)

During(p, c, Q, M, T, S, o, price) ==
  \/ Nothing(p, c, Q, M, T, o, price)
  \/ /\ c # NoCandle /\ c.t < o
     /\ Len(S) > 1 /\ S[Len(S) - 1] = [t |-> c.t, price |-> c.close]
     /\ Unstored(p, c, Q, M, T) \/ Already(p, c, Q, M, T, o, price)

Matches(S, T) ==
  \A i \in 1..Len(S), j \in 1..Len(T) : T[j].t = S[i].t => T[j].close = S[i].price

Hours(p) == table[p].hours
Carried(p) == memory[PullbackOf(p)].hours.current
Open == CandleOpen(now, Hour)

History(p) ==
  /\ InOrder(Hours(p)) /\ AllBefore(Hours(p), Open)
  /\ InOrder(seen[p]) /\ \A i \in 1..Len(seen[p]) : seen[p][i].t <= Open
  /\ Matches(seen[p], Hours(p))

Building(p) ==
  IF todo = <<>> \/ tick.pair # p
  THEN Even(p, Carried(p), memory, Hours(p), seen[p])
  ELSE /\ seen[p] # <<>>
       /\ seen[p][Len(seen[p])] = [t |-> Open, price |-> tick.price]
       /\ During(p, Carried(p), ToSet(todo), memory, Hours(p), seen[p], Open, tick.price)

CandleInv ==
  ~stepped => \A p \in Pairs : History(p) /\ (up => Building(p))

-----------------------------------------------------------------------------
(* Candles and tables *)

\* The strategies by name, and that of a slot.
LEMMA Strategies ==
  /\ ToSet(AllStrategies) = {"threshold", "ema", "bollinger", "trend_pullback"}
  /\ \A s \in Slots : s.pair \in Pairs /\ s.strategy \in ToSet(AllStrategies)
                       /\ s = [pair |-> s.pair, strategy |-> s.strategy]
  /\ \A p \in Pairs : PullbackOf(p) \in HourSlots(p) /\ BollingerOf(p) \in Slots
<1>1. ToSet(AllStrategies) = {"threshold", "ema", "bollinger", "trend_pullback"}
  BY DEF ToSet, AllStrategies
<1> QED
  BY <1>1 DEF Slots, HourSlots, PullbackOf, UsesHours, BollingerOf

\* A strategy evaluates a tick once, in the order of the registry: what is left
\* ends with trend_pullback, and loses its head.
LEMMA StageFacts ==
  ASSUME NEW q \in Stages, q # <<>>
  PROVE  /\ Tail(q) \in Stages
         /\ Head(q) \in ToSet(AllStrategies) /\ Head(q) \in ToSet(q)
         /\ ToSet(Tail(q)) = ToSet(q) \ {Head(q)}
         /\ ToSet(q) \subseteq ToSet(AllStrategies)
         /\ Tail(q) = <<>> <=> Head(q) = "trend_pullback"
         /\ "trend_pullback" \in ToSet(q)
<1>1. CASE q = <<"trend_pullback">>
  BY <1>1 DEF Stages, AllStrategies, ToSet
<1>2. CASE q = <<"bollinger", "trend_pullback">>
  BY <1>2 DEF Stages, AllStrategies, ToSet
<1>3. CASE q = <<"ema", "bollinger", "trend_pullback">>
  BY <1>3 DEF Stages, AllStrategies, ToSet
<1>4. CASE q = AllStrategies
  BY <1>4 DEF Stages, AllStrategies, ToSet
<1> QED
  BY <1>1, <1>2, <1>3, <1>4 DEF Stages

\* _candle_open: the boundary is at most a timeframe before, and a later time with
\* another boundary has one a timeframe later at least.
LEMMA OpenFacts ==
  ASSUME NEW u \in Int, NEW v \in Int, NEW n \in Nat \ {0}
  PROVE  /\ CandleOpen(u, n) \in Int /\ u % n \in 0..n - 1
         /\ CandleOpen(u, n) <= u /\ u < CandleOpen(u, n) + n
         /\ u <= v => CandleOpen(u, n) <= CandleOpen(v, n)
         /\ u <= v /\ CandleOpen(u, n) # CandleOpen(v, n)
              => CandleOpen(u, n) + n <= CandleOpen(v, n)
<1>1. u % n \in 0..n - 1 /\ v % n \in 0..n - 1
  OBVIOUS
<1>2. u = n * (u \div n) + (u % n) /\ v = n * (v \div n) + (v % n)
  OBVIOUS
<1>3. CandleOpen(u, n) = n * (u \div n) /\ CandleOpen(v, n) = n * (v \div n)
  BY <1>1, <1>2 DEF CandleOpen
<1>4. PICK a \in Int, b \in Int : a = u \div n /\ b = v \div n
  OBVIOUS
<1>5. n * a \in Int /\ n * b \in Int
  OBVIOUS
<1>6. u = n * a + (u % n) /\ v = n * b + (v % n)
  BY <1>2, <1>4
<1>7. CASE a < b
  <2>1. b - a >= 1
    BY <1>7
  <2>2. n * (b - a) >= n
    <3>1. \A k \in Int : k >= 1 => n * k >= n
      OBVIOUS
    <3>2. b - a \in Int
      OBVIOUS
    <3> QED
      BY <2>1, <3>1, <3>2
  <2>3. n * b >= n * a + n
    <3>1. n * (b - a) = n * b - n * a
      OBVIOUS
    <3> QED
      BY <1>5, <2>2, <3>1
  <2> QED
    BY <1>1, <1>3, <1>4, <1>5, <1>6, <2>3
<1>8. CASE a = b
  BY <1>1, <1>3, <1>4, <1>5, <1>6, <1>8
<1>9. CASE a > b
  <2>1. a - b >= 1
    BY <1>9
  <2>2. n * (a - b) >= n
    <3>1. \A k \in Int : k >= 1 => n * k >= n
      OBVIOUS
    <3>2. a - b \in Int
      OBVIOUS
    <3> QED
      BY <2>1, <3>1, <3>2
  <2>3. n * a >= n * b + n
    <3>1. n * (a - b) = n * a - n * b
      OBVIOUS
    <3> QED
      BY <1>5, <2>2, <3>1
  <2>4. ~(u <= v)
    BY <1>1, <1>5, <1>6, <2>3
  <2> QED
    BY <1>1, <1>3, <1>4, <1>5, <1>6, <2>4
<1> QED
  BY <1>7, <1>8, <1>9

\* The beginning of a sequence.
LEMMA Beginning ==
  ASSUME NEW X, NEW q \in Seq(X), NEW n \in Nat, n <= Len(q)
  PROVE  /\ SubSeq(q, 1, n) \in Seq(X) /\ Len(SubSeq(q, 1, n)) = n
         /\ \A i \in 1..n : SubSeq(q, 1, n)[i] = q[i]
<1>1. SubSeq(q, 1, n) \in Seq(X)
  OBVIOUS
<1>2. Len(SubSeq(q, 1, n)) = n
  OBVIOUS
<1>3. ASSUME NEW i \in 1..n PROVE SubSeq(q, 1, n)[i] = q[i]
  OBVIOUS
<1> QED
  BY <1>1, <1>2, <1>3

\* IsSuffix, element by element.
LEMMA SuffixIs ==
  ASSUME NEW X, NEW s \in Seq(X), NEW t \in Seq(X), Ends(s, t)
  PROVE  IsSuffix(s, t)
<1> DEFINE r == Reverse(s)
           z == Reverse(t)
<1>1. Len(s) \in Nat /\ Len(t) \in Nat /\ Len(s) <= Len(t)
  BY DEF Ends
<1>2. r \in Seq(X) /\ Len(r) = Len(s) /\ \A i \in 1..Len(s) : r[i] = s[Len(s) - i + 1]
  BY <1>1 DEF Reverse
<1>3. z \in Seq(X) /\ Len(z) = Len(t) /\ \A i \in 1..Len(t) : z[i] = t[Len(t) - i + 1]
  BY <1>1 DEF Reverse
<1> HIDE DEF r, z
<1>4. \A i \in 1..Len(s) : r[i] = z[i]
  <2> SUFFICES ASSUME NEW i \in 1..Len(s) PROVE r[i] = z[i]
    OBVIOUS
  <2>1. Len(s) - i + 1 \in 1..Len(s) /\ i \in 1..Len(t)
    BY <1>1
  <2>2. s[Len(s) - i + 1] = t[Len(t) - Len(s) + (Len(s) - i + 1)]
    BY <2>1 DEF Ends
  <2>3. Len(t) - Len(s) + (Len(s) - i + 1) = Len(t) - i + 1
    BY <1>1, <2>1
  <2> QED
    BY <1>2, <1>3, <2>1, <2>2, <2>3
<1>5. SubSeq(r, 1, Len(r)) = SubSeq(z, 1, Len(r))
  <2>1. /\ SubSeq(r, 1, Len(r)) \in Seq(X) /\ Len(SubSeq(r, 1, Len(r))) = Len(s)
        /\ \A i \in 1..Len(s) : SubSeq(r, 1, Len(r))[i] = r[i]
    BY <1>1, <1>2, Beginning
  <2>2. /\ SubSeq(z, 1, Len(r)) \in Seq(X) /\ Len(SubSeq(z, 1, Len(r))) = Len(s)
        /\ \A i \in 1..Len(s) : SubSeq(z, 1, Len(r))[i] = z[i]
    BY <1>1, <1>2, <1>3, Beginning
  <2> QED
    BY <1>4, <2>1, <2>2
<1>6. IsPrefix(r, z)
  BY <1>1, <1>2, <1>3, <1>5 DEF IsPrefix
<1> QED
  BY <1>6 DEF IsSuffix, r, z

\* What add_tick makes of b: the builder is at the candle o of the tick, and
\* completed the one it was at if that is of another boundary.
Ticked(b, r, o, x) ==
  /\ r \in Builders
  /\ r.current = Advanced(b.current, o, x)
  /\ r.current \in CandleSet /\ r.current # NoCandle
  /\ r.current.t = o /\ r.current.close = x
  /\ Completes(b, r) <=> b.current # NoCandle /\ b.current.t # o
  /\ r.done = IF Completes(b, r) THEN Append(b.done, b.current) ELSE b.done
  /\ Completes(b, r) => b.current \in CandleSet /\ Last(r.done) = b.current

\* That is what add_tick does.
LEMMA AddTickFacts ==
  ASSUME NEW b \in Builders, NEW t \in Int, NEW x \in Prices, NEW n \in Nat \ {0}
  PROVE  Ticked(b, AddTick(b, t, x, n), CandleOpen(t, n), x)
<1> DEFINE o == CandleOpen(t, n)
           r == AddTick(b, t, x, n)
<1>1. o \in Int
  BY OpenFacts
<1>2. NoCandle \notin CandleSet
  BY PriceAssumption DEF NoCandle, CandleSet
<1>3. FirstTick(o, x) \in CandleSet /\ FirstTick(o, x).t = o /\ FirstTick(o, x).close = x
  BY <1>1 DEF FirstTick, CandleSet
<1>4. b.current \in CandleSet =>
        /\ LaterTick(b.current, x) \in CandleSet
        /\ LaterTick(b.current, x).t = b.current.t /\ LaterTick(b.current, x).close = x
  BY DEF LaterTick, CandleSet
<1>5. b.done \in Seq(CandleSet) /\ b.current \in CandleSet \cup {NoCandle}
      /\ b = [current |-> b.current, done |-> b.done]
  BY DEF Builders
<1> HIDE DEF o
<1>6. CASE b.current # NoCandle /\ b.current.t = o
  <2>1. r = [current |-> LaterTick(b.current, x), done |-> b.done]
    BY <1>5, <1>6 DEF AddTick, o
  <2>2. r.done = b.done
    BY <2>1
  <2> QED
    BY <1>2, <1>4, <1>5, <1>6, <2>1, <2>2 DEF Ticked, Completes, Advanced, Builders, o
<1>7. CASE b.current = NoCandle
  <2>1. r = [current |-> FirstTick(o, x), done |-> b.done]
    BY <1>5, <1>7 DEF AddTick, o
  <2>2. r.done = b.done
    BY <2>1
  <2> QED
    BY <1>2, <1>3, <1>5, <1>7, <2>1, <2>2 DEF Ticked, Completes, Advanced, Builders, o
<1>8. CASE b.current # NoCandle /\ b.current.t # o
  <2>1. r = [current |-> FirstTick(o, x), done |-> Append(b.done, b.current)]
    BY <1>5, <1>8 DEF AddTick, o
  <2>2. /\ r.done = Append(b.done, b.current) /\ r.done \in Seq(CandleSet)
        /\ Len(r.done) = Len(b.done) + 1 /\ r.done[Len(r.done)] = b.current
    BY <1>5, <1>8, <2>1
  <2>3. r.done # b.done
    BY <1>5, <2>2
  <2>4. r \in Builders /\ r.current = FirstTick(o, x)
    BY <1>3, <2>1, <2>2 DEF Builders
  <2>5. Completes(b, r)
    BY <2>3 DEF Completes
  <2>6. Last(r.done) = b.current
    BY <2>2 DEF Last
  <2> HIDE DEF r
  <2>7. r.current = Advanced(b.current, o, x)
    BY <1>8, <2>4 DEF Advanced
  <2> QED
    BY <1>2, <1>3, <1>5, <1>8, <2>2, <2>4, <2>5, <2>6, <2>7 DEF Ticked, o, r
<1> QED
  BY <1>6, <1>7, <1>8

\* insert_candle leaves a table of candles.
LEMMA StoredTyped ==
  ASSUME NEW X, NEW T \in Seq(X), NEW c \in X
  PROVE  Stored(T, c) \in Seq(X)
<1> DEFINE E == {i \in DOMAIN T : T[i].t < c.t}
           k == Cardinality(E)
<1>1. DOMAIN T = 1..Len(T) /\ Len(T) \in Nat
  OBVIOUS
<1>2. IsFiniteSet(1..Len(T)) /\ Cardinality(1..Len(T)) = Len(T)
  BY <1>1, FS_Interval, SMTT(30)
<1>3. k \in Nat /\ k <= Len(T)
  <2>1. E \subseteq 1..Len(T)
    BY <1>1
  <2> HIDE DEF E
  <2> QED
    BY <1>2, <2>1, FS_Subset, FS_CardinalityType
<1> HIDE DEF k
<1>4. SubSeq(T, 1, k) \in Seq(X)
  BY <1>1, <1>3
<1>5. SubSeq(T, k + 1, Len(T)) \in Seq(X)
  BY <1>1, <1>3
<1>6. InsertAt(T, k + 1, c) = SubSeq(T, 1, k) \o <<c>> \o SubSeq(T, k + 1, Len(T))
  <2>1. (k + 1) - 1 = k
    BY <1>3
  <2> QED
    BY <2>1 DEF InsertAt
<1>7. InsertAt(T, k + 1, c) \in Seq(X)
  <2>1. PICK a \in Seq(X) : a = SubSeq(T, 1, k)
    BY <1>4
  <2>2. PICK b \in Seq(X) : b = SubSeq(T, k + 1, Len(T))
    BY <1>5
  <2>3. <<c>> \in Seq(X)
    OBVIOUS
  <2>4. a \o <<c>> \in Seq(X)
    BY <2>3
  <2>5. (a \o <<c>>) \o b \in Seq(X)
    BY <2>4
  <2> QED
    BY <1>6, <2>1, <2>2, <2>5
<1>8. \/ Stored(T, c) = T
      \/ Stored(T, c) = InsertAt(T, k + 1, c)
  BY DEF Stored, k
<1> QED
  BY <1>7, <1>8

\* A candle later than every row joins the table at its end.
LEMMA StoredLast ==
  ASSUME NEW X, NEW T \in Seq(X), NEW c \in X, c.t \in Int, AllBefore(T, c.t),
         \A i \in 1..Len(T) : T[i].t \in Int
  PROVE  Stored(T, c) = Append(T, c)
<1>1. DOMAIN T = 1..Len(T) /\ Len(T) \in Nat
  OBVIOUS
<1>2. {i \in DOMAIN T : T[i].t < c.t} = 1..Len(T)
  BY <1>1 DEF AllBefore
<1>3. Cardinality(1..Len(T)) = Len(T)
  BY <1>1, FS_Interval, SMTT(30)
<1>4. ~\E i \in DOMAIN T : T[i].t = c.t
  BY <1>1 DEF AllBefore
<1>5. Stored(T, c) = InsertAt(T, Len(T) + 1, c)
  BY <1>2, <1>3, <1>4 DEF Stored
<1>6. SubSeq(T, 1, (Len(T) + 1) - 1) = T
  BY <1>1
<1>7. SubSeq(T, Len(T) + 1, Len(T)) = <<>>
  BY <1>1
<1>8. T \o <<c>> \o <<>> = Append(T, c)
  OBVIOUS
<1> QED
  BY <1>5, <1>6, <1>7, <1>8 DEF InsertAt

\* INSERT OR IGNORE.
LEMMA StoredAgain ==
  ASSUME NEW X, NEW T \in Seq(X), T # <<>>
  PROVE  Stored(T, T[Len(T)]) = T
<1>1. Len(T) \in DOMAIN T
  OBVIOUS
<1> QED
  BY <1>1 DEF Stored

\* query_candles returns what the table ends with.
LEMMA LoadedEnds ==
  ASSUME NEW X, NEW T \in Seq(X), NEW n \in Int
  PROVE  LastStored(T, n) \in Seq(X) /\ Ends(LastStored(T, n), T)
<1> DEFINE a == Larger(1, Len(T) - n + 1)
<1>1. Len(T) \in Nat /\ a \in Int /\ a >= 1
  BY DEF Larger
<1> HIDE DEF a
<1>2. LastStored(T, n) = SubSeq(T, a, Len(T))
  BY DEF LastStored, a
<1>3. CASE a <= Len(T)
  <2> DEFINE q == SubSeq(T, a, Len(T))
  <2>1. /\ q \in Seq(X) /\ Len(q) = Len(T) - a + 1
        /\ \A i \in 1..Len(q) : q[i] = T[a + i - 1]
    BY <1>1, <1>3
  <2> HIDE DEF q
  <2>2. \A i \in 1..Len(q) : Len(T) - Len(q) + i = a + i - 1
    BY <1>1, <2>1
  <2> QED
    BY <1>1, <1>2, <1>3, <2>1, <2>2 DEF Ends, q
<1>4. CASE a > Len(T)
  <2>1. SubSeq(T, a, Len(T)) = <<>>
    BY <1>1, <1>4
  <2> QED
    BY <1>1, <1>2, <2>1 DEF Ends
<1> QED
  BY <1>1, <1>3, <1>4

\* What a table ends with, and the same with a candle more.
LEMMA EndsFacts ==
  ASSUME NEW X, NEW s \in Seq(X), NEW T \in Seq(X), NEW c \in X
  PROVE  /\ Front(Append(T, c)) = T /\ Append(T, c) # <<>>
         /\ Len(Append(T, c)) = Len(T) + 1 /\ Append(T, c)[Len(T) + 1] = c
         /\ Ends(s, T) => Ends(Append(s, c), Append(T, c))
         /\ T # <<>> /\ T[Len(T)] = c => Append(Front(T), c) = T /\ Front(T) \in Seq(X)
<1>1. Len(s) \in Nat /\ Len(T) \in Nat
  OBVIOUS
<1> DEFINE A == Append(T, c)
<1>2. A \in Seq(X) /\ Len(A) = Len(T) + 1 /\ A[Len(T) + 1] = c
      /\ \A i \in 1..Len(T) : A[i] = T[i]
  OBVIOUS
<1>3. Front(A) = T
  <2>1. Front(A) = SubSeq(A, 1, Len(T))
    BY <1>1, <1>2 DEF Front
  <2>2. /\ SubSeq(A, 1, Len(T)) \in Seq(X) /\ Len(SubSeq(A, 1, Len(T))) = Len(T)
        /\ \A i \in 1..Len(T) : SubSeq(A, 1, Len(T))[i] = A[i]
    <3> HIDE DEF A
    <3> QED
      BY <1>1, <1>2, Beginning
  <2> QED
    BY <1>2, <2>1, <2>2
<1>4. ASSUME Ends(s, T) PROVE Ends(Append(s, c), A)
  <2> DEFINE B == Append(s, c)
  <2>1. B \in Seq(X) /\ Len(B) = Len(s) + 1 /\ B[Len(s) + 1] = c
        /\ \A i \in 1..Len(s) : B[i] = s[i]
    OBVIOUS
  <2> HIDE DEF A, B
  <2>2. Len(B) <= Len(A) /\ Len(A) - Len(B) = Len(T) - Len(s)
    BY <1>1, <1>2, <1>4, <2>1 DEF Ends
  <2>3. ASSUME NEW i \in 1..Len(B) PROVE B[i] = A[Len(A) - Len(B) + i]
    <3>1. i \in Int /\ i >= 1 /\ i <= Len(s) + 1
      BY <1>1, <2>1
    <3>2. CASE i = Len(s) + 1
      BY <1>1, <1>2, <2>1, <2>2, <3>2
    <3>3. CASE i <= Len(s)
      <4>1. i \in 1..Len(s) /\ Len(T) - Len(s) + i \in 1..Len(T)
        BY <1>1, <1>4, <3>1, <3>3 DEF Ends
      <4>2. s[i] = T[Len(T) - Len(s) + i]
        BY <1>4, <4>1 DEF Ends
      <4> QED
        BY <1>2, <2>1, <2>2, <4>1, <4>2
    <3> QED
      BY <1>1, <3>1, <3>2, <3>3
  <2> QED
    BY <2>2, <2>3 DEF Ends, B
<1>5. ASSUME T # <<>>, T[Len(T)] = c PROVE Append(Front(T), c) = T /\ Front(T) \in Seq(X)
  <2>1. Len(T) >= 1
    BY <1>1, <1>5
  <2> DEFINE F == Front(T)
  <2>2. F \in Seq(X) /\ Len(F) = Len(T) - 1 /\ \A i \in 1..Len(T) - 1 : F[i] = T[i]
    <3>1. PICK n \in Nat : n = Len(T) - 1
      BY <1>1, <2>1
    <3>2. n <= Len(T) /\ F = SubSeq(T, 1, n)
      BY <1>1, <3>1 DEF Front
    <3>3. SubSeq(T, 1, n) \in Seq(X) /\ Len(SubSeq(T, 1, n)) = n
          /\ \A i \in 1..n : SubSeq(T, 1, n)[i] = T[i]
      <4>1. n <= Len(T)
        BY <3>2
      <4> QED
        BY <4>1, Beginning
    <3> QED
      BY <3>1, <3>2, <3>3
  <2> HIDE DEF F
  <2>3. Append(F, c) \in Seq(X) /\ Len(Append(F, c)) = Len(T)
        /\ \A i \in 1..Len(T) : Append(F, c)[i] = T[i]
    BY <1>1, <1>5, <2>1, <2>2
  <2>4. Append(F, c) = T
    BY <2>3
  <2> QED
    BY <2>2, <2>4 DEF F
<1>6. A # <<>>
  BY <1>1, <1>2
<1> HIDE DEF A
<1> QED
  BY <1>2, <1>3, <1>4, <1>5, <1>6 DEF A

\* Parts of a sequence.
LEMMA Parts ==
  ASSUME NEW X, NEW q \in Seq(X)
  PROVE  /\ q # <<>> => Head(q) \in X /\ Tail(q) \in Seq(X)
         /\ \A x \in X : Append(q, x) \in Seq(X) /\ Append(q, x) # <<>>
<1>1. ASSUME NEW x \in X PROVE Append(q, x) \in Seq(X) /\ Append(q, x) # <<>>
  <2>1. Append(q, x) \in Seq(X) /\ Len(Append(q, x)) = Len(q) + 1 /\ Len(q) \in Nat
    OBVIOUS
  <2> QED
    BY <2>1
<1> QED
  BY <1>1

-----------------------------------------------------------------------------
(* The stored history *)

\* A finite set of integers is bounded.
LEMMA FiniteBounded ==
  ASSUME NEW S, IsFiniteSet(S), S \subseteq Int
  PROVE  \E b \in Int : \A x \in S : x <= b
<1> DEFINE F == {T \in SUBSET S : \E b \in Int : \A x \in T : x <= b}
<1>1. ASSUME NEW T \in SUBSET S, \A U \in SUBSET T : U # T => U \in F
      PROVE  T \in F
  <2>1. CASE T = {}
    BY <2>1
  <2>2. CASE T # {}
    <3>1. PICK y \in T : y \in Int
      BY <2>2
    <3>2. T \ {y} \in SUBSET T /\ T \ {y} # T
      OBVIOUS
    <3>3. T \ {y} \in F
      BY <1>1, <3>2
    <3>4. PICK b \in Int : \A x \in T \ {y} : x <= b
      BY <3>3
    <3>5. CASE y <= b
      BY <3>4, <3>5
    <3>6. CASE ~(y <= b)
      <4>1. \A x \in T : x <= y
        BY <3>1, <3>4, <3>6
      <4> QED
        BY <3>1, <4>1
    <3> QED
      BY <3>5, <3>6
  <2> QED
    BY <2>1, <2>2
<1> HIDE DEF F
<1>2. SUBSET S \subseteq F
  BY <1>1, SubsetInductive
<1>3. S \in F
  BY <1>2
<1> QED
  BY <1>3 DEF F

\* A set of natural numbers that has an element has a least one, and Min is it.
LEMMA MinIn ==
  ASSUME NEW S, S \subseteq Nat, S # {}
  PROVE  Min(S) \in S
<1> DEFINE G == {n \in Nat : (\E x \in S : x <= n) => \E m \in S : \A y \in S : m <= y}
<1>1. 0 \in G
  OBVIOUS
<1>2. ASSUME NEW n \in Nat, n \in G PROVE n + 1 \in G
  <2> SUFFICES ASSUME NEW x \in S, x <= n + 1
               PROVE  \E m \in S : \A y \in S : m <= y
    OBVIOUS
  <2>1. CASE \E y \in S : y <= n
    BY <1>2, <2>1
  <2>2. CASE ~\E y \in S : y <= n
    <3>1. \A y \in S : x <= y
      BY <2>2
    <3> QED
      BY <3>1
  <2> QED
    BY <2>1, <2>2
<1>3. PICK a \in S : a \in Nat
  OBVIOUS
<1> HIDE DEF G
<1>4. a \in G
  BY <1>1, <1>2, <1>3, NatInductive
<1>5. \E m \in S : \A y \in S : m <= y
  BY <1>3, <1>4 DEF G
<1> QED
  BY <1>5 DEF Min

\* The closes of the hours i to j of a history.
ClosesIn(seed, i, j) == {seed[k] : k \in i..j}

\* The highest and the lowest of them are prices.
LEMMA ExtremesFacts ==
  ASSUME NEW seed \in Seq(Prices), NEW i \in Int, NEW j \in Int,
         1 <= i, i <= j, j <= Len(seed)
  PROVE  Max(ClosesIn(seed, i, j)) \in Prices /\ Min(ClosesIn(seed, i, j)) \in Prices
<1> DEFINE S == ClosesIn(seed, i, j)
<1>1. i..j \subseteq 1..Len(seed) /\ i \in i..j /\ Len(seed) \in Nat
  OBVIOUS
<1>2. S \subseteq Prices /\ S # {}
  BY <1>1 DEF ClosesIn
<1>3. IsFiniteSet(S)
  <2> DEFINE f == [k \in i..j |-> seed[k]]
  <2>1. IsFiniteSet(i..j)
    BY FS_Interval
  <2>2. f \in Surjection(i..j, S)
    BY DEF Surjection, ClosesIn
  <2> HIDE DEF f, S
  <2> QED
    BY <2>1, <2>2, FS_Surjection
<1> HIDE DEF S
<1>4. S \subseteq Nat /\ S \subseteq Int
  BY <1>2, PriceAssumption
<1>5. PICK b \in Int : \A x \in S : x <= b
  BY <1>3, <1>4, FiniteBounded
<1>6. Max(S) \in S
  BY <1>2, <1>4, <1>5, MaxFacts
<1>7. Min(S) \in S
  BY <1>2, <1>4, MinIn
<1> QED
  BY <1>2, <1>6, <1>7 DEF S

\* The stored candles of a history.
LEMMA SeedFacts ==
  ASSUME NEW seed \in Seq(Prices)
  PROVE  HoursOf(seed) \in Seq(CandleSet) /\ TrendsOf(seed) \in Seq(CandleSet)
<1>1. Len(seed) \in Nat /\ DOMAIN seed = 1..Len(seed) /\ \A i \in 1..Len(seed) : seed[i] \in Prices
  OBVIOUS
<1>2. HoursOf(seed) \in Seq(CandleSet)
  <2>1. ASSUME NEW i \in 1..Len(seed) PROVE FirstTick((i - 1) * Hour, seed[i]) \in CandleSet
    <3>1. (i - 1) * Hour \in Int
      BY TimeAssumption
    <3> QED
      BY <1>1, <3>1 DEF FirstTick, CandleSet
  <2>2. HoursOf(seed) \in [1..Len(seed) -> CandleSet]
    BY <1>1, <2>1 DEF HoursOf
  <2> QED
    BY <1>1, <2>2
<1>3. TrendsOf(seed) \in Seq(CandleSet)
  <2> DEFINE n == TrendLen \div Hour
             l == Len(seed) \div n
             C(j) == [t |-> (j - 1) * TrendLen,
                      high |-> Max({seed[i] : i \in (j - 1) * n + 1..j * n}),
                      low |-> Min({seed[i] : i \in (j - 1) * n + 1..j * n}),
                      close |-> seed[j * n]]
  <2>1. n \in Nat /\ n > 0
    BY TimeAssumption
  <2> HIDE DEF n
  <2>2. l \in Nat /\ l * n <= Len(seed)
    BY <1>1, <2>1
  <2> HIDE DEF l
  <2>3. ASSUME NEW j \in 1..l PROVE C(j) \in CandleSet
    <3>1. j \in Int /\ 1 <= j /\ j <= l
      BY <2>2
    <3>2. j * n \in Int /\ (j - 1) * n \in Int /\ l * n \in Int
      BY <2>1, <2>2, <3>1
    <3>3. (j - 1) * n >= 0 /\ (j - 1) * n = j * n - n
      BY <2>1, <3>1
    <3>4. j * n <= l * n
      BY <2>1, <2>2, <3>1
    <3>5. PICK a \in Int, b \in Int : a = (j - 1) * n + 1 /\ b = j * n
      BY <3>2
    <3>6. 1 <= a /\ a <= b /\ b <= Len(seed)
      BY <1>1, <2>1, <2>2, <3>2, <3>3, <3>4, <3>5
    <3>7. Max(ClosesIn(seed, a, b)) \in Prices /\ Min(ClosesIn(seed, a, b)) \in Prices
      BY <3>6, ExtremesFacts
    <3>8. seed[b] \in Prices
      BY <1>1, <3>6
    <3>9. (j - 1) * TrendLen \in Int
      BY <3>1, TimeAssumption
    <3>10. C(j) = [t |-> (j - 1) * TrendLen, high |-> Max(ClosesIn(seed, a, b)),
                   low |-> Min(ClosesIn(seed, a, b)), close |-> seed[b]]
      BY <3>5 DEF ClosesIn
    <3> QED
      BY <3>7, <3>8, <3>9, <3>10 DEF CandleSet
  <2>4. TrendsOf(seed) = [j \in 1..l |-> C(j)]
    BY DEF TrendsOf, n, l
  <2> HIDE DEF C
  <2>5. TrendsOf(seed) \in [1..l -> CandleSet]
    BY <2>3, <2>4
  <2> QED
    BY <2>2, <2>5
<1> QED
  BY <1>2, <1>3

-----------------------------------------------------------------------------
(* Steps of a strategy *)

\* A new builder, and what restore() loads from the table tb.
LEMMA RestoredFacts ==
  ASSUME NEW s \in Slots, NEW tb \in [Pairs -> Histories]
  PROVE  /\ NewBuilder \in Builders /\ Blank \in Memories
         /\ RestoredMemory(s, tb) \in Memories
         /\ RestoredMemory(s, tb).hours.current = NoCandle
         /\ UsesHours(s) => Ends(RestoredMemory(s, tb).hours.done, tb[s.pair].hours)
         /\ ~UsesHours(s) => RestoredMemory(s, tb).hours = NewBuilder
<1>1. s.pair \in Pairs
  BY Strategies
<1>2. tb[s.pair].hours \in Seq(CandleSet) /\ tb[s.pair].trends \in Seq(CandleSet)
  BY <1>1 DEF Histories
<1>3. {SlowPeriod, BollPeriod, PullPeriod, BollTrend, PullTrend} \subseteq Int
      /\ Margin \in Int
  BY PeriodAssumption, MarginAssumption
<1>4. HoursLoaded(s) \in Int
  <2>1. CASE s.strategy = "ema"
    BY <1>3, <2>1 DEF HoursLoaded
  <2>2. CASE s.strategy = "bollinger"
    BY <1>3, <2>2 DEF HoursLoaded
  <2>3. CASE s.strategy = "trend_pullback"
    BY <1>3, <2>3 DEF HoursLoaded
  <2>4. CASE s.strategy \notin {"ema", "bollinger", "trend_pullback"}
    BY <1>3, <2>4 DEF HoursLoaded
  <2> QED
    BY <2>1, <2>2, <2>3, <2>4
<1>5. TrendsLoaded(s) \in Int
  BY <1>3 DEF TrendsLoaded
<1>6. NewBuilder \in Builders
  <2>1. <<>> \in Seq(CandleSet)
    OBVIOUS
  <2> QED
    BY <2>1 DEF NewBuilder, Builders
<1>7. ASSUME NEW q \in Seq(CandleSet)
      PROVE  Loaded(q) \in Builders /\ Loaded(q).done = q /\ Loaded(q).current = NoCandle
  BY DEF Loaded, NewBuilder, Builders
<1>8. PICK h \in Seq(CandleSet) :
        h = LastStored(tb[s.pair].hours, HoursLoaded(s)) /\ Ends(h, tb[s.pair].hours)
  BY <1>2, <1>4, LoadedEnds
<1>9. PICK t \in Seq(CandleSet) : t = LastStored(tb[s.pair].trends, TrendsLoaded(s))
  BY <1>2, <1>5, LoadedEnds
<1>10. RestoredMemory(s, tb) = [hours |-> IF UsesHours(s) THEN Loaded(h) ELSE NewBuilder,
                                trends |-> IF UsesTrends(s) THEN Loaded(t) ELSE NewBuilder]
  BY <1>8, <1>9 DEF RestoredMemory
<1>11. NewBuilder.current = NoCandle /\ Blank \in Memories
  BY <1>6 DEF NewBuilder, Blank, Memories
<1>12. /\ RestoredMemory(s, tb).hours = IF UsesHours(s) THEN Loaded(h) ELSE NewBuilder
       /\ RestoredMemory(s, tb) \in Memories
  BY <1>6, <1>7, <1>10 DEF Memories
<1> QED
  BY <1>6, <1>7, <1>8, <1>11, <1>12

\* The strategy that is up, and the tick.
LEMMA SlotFacts ==
  ASSUME TypeOK, Control, todo # <<>>
  PROVE  /\ Slot \in Slots /\ Slot.pair = tick.pair /\ Slot.strategy = Head(todo)
         /\ Waiting(Slot)
         /\ tick \in Ticks /\ tick.pair \in Pairs /\ tick.at = now /\ tick.price \in Prices
<1>1. tick \in Ticks
  BY DEF TypeOK, Control
<1>2. Head(todo) \in ToSet(AllStrategies) /\ Head(todo) \in ToSet(todo)
  BY StageFacts DEF TypeOK
<1> QED
  BY <1>1, <1>2 DEF Slot, Slots, Ticks, Control, Waiting

\* The builders with the tick, and the candle of the hour in them.
LEMMA FedFacts ==
  ASSUME TypeOK, tick \in Ticks, NEW s \in Slots
  PROVE  /\ Fed(s) \in Memories /\ memory[s] \in Memories
         /\ memory[s].hours \in Builders /\ memory[s].trends \in Builders
         /\ UsesHours(s) =>
              Fed(s).hours = AddTick(memory[s].hours, tick.at, tick.price, Hour)
         /\ ~UsesHours(s) => Fed(s).hours = NewBuilder
         /\ Fed(s).trends = IF UsesTrends(s)
                            THEN AddTick(memory[s].trends, tick.at, tick.price, TrendLen)
                            ELSE NewBuilder
<1>1. memory[s].hours \in Builders /\ memory[s].trends \in Builders /\ memory[s] \in Memories
  BY DEF TypeOK, Memories
<1>2. tick.at \in Int /\ tick.price \in Prices
  BY DEF Ticks
<1>3. NewBuilder \in Builders
  BY RestoredFacts, <1>1 DEF TypeOK
<1>4. /\ AddTick(memory[s].hours, tick.at, tick.price, Hour) \in Builders
      /\ AddTick(memory[s].trends, tick.at, tick.price, TrendLen) \in Builders
  BY <1>1, <1>2, AddTickFacts, TimeAssumption DEF Ticked
<1> QED
  BY <1>1, <1>3, <1>4 DEF Fed, Memories

\* What a strategy stores: nothing in a table, or the candle it completed.
LEMMA KeptFacts ==
  ASSUME NEW T \in Seq(CandleSet), NEW b \in Builders, NEW m \in Builders,
         Completes(b, m) => Last(m.done) \in CandleSet
  PROVE  Kept(T, b, m) \in Seq(CandleSet)
  BY StoredTyped DEF Kept

\* What is completed by a tick is a candle, of a strategy that has no builder too:
\* it completes nothing.
LEMMA CompletedFacts ==
  ASSUME TypeOK, Control, todo # <<>>,
         NEW s, s = Slot
  PROVE  /\ Completes(memory[s].hours, Fed(s).hours) =>
              UsesHours(s) /\ Last(Fed(s).hours.done) \in CandleSet
         /\ Completes(memory[s].trends, Fed(s).trends) =>
              Last(Fed(s).trends.done) \in CandleSet
<1>1. /\ s \in Slots /\ tick \in Ticks
      /\ tick.at \in Int /\ tick.price \in Prices
  BY SlotFacts DEF Ticks
<1>2. PICK b \in Builders, d \in Builders :
        b = memory[s].hours /\ d = memory[s].trends
  BY <1>1, FedFacts
<1>3. /\ ~UsesHours(s) => b = NewBuilder
      /\ ~UsesTrends(s) => d = NewBuilder
  BY <1>1, <1>2 DEF Control
<1>4. Completes(memory[s].hours, Fed(s).hours) =>
        UsesHours(s) /\ Last(Fed(s).hours.done) \in CandleSet
  <2>1. CASE UsesHours(s)
    <3>1. Fed(s).hours = AddTick(b, tick.at, tick.price, Hour)
      BY <1>1, <1>2, <2>1, FedFacts
    <3>2. Ticked(b, AddTick(b, tick.at, tick.price, Hour),
                 CandleOpen(tick.at, Hour), tick.price)
      BY <1>1, AddTickFacts, TimeAssumption
    <3>3. Completes(b, Fed(s).hours) => Last(Fed(s).hours.done) \in CandleSet
      BY <3>1, <3>2 DEF Ticked
    <3> QED
      BY <1>2, <2>1, <3>3
  <2>2. CASE ~UsesHours(s)
    <3>1. Fed(s).hours = b
      BY <1>1, <1>3, <2>2, FedFacts
    <3> QED
      BY <1>2, <3>1 DEF Completes
  <2> QED
    BY <2>1, <2>2
<1>6. Completes(memory[s].trends, Fed(s).trends) => Last(Fed(s).trends.done) \in CandleSet
  <2>1. CASE UsesTrends(s)
    <3>1. Fed(s).trends = AddTick(d, tick.at, tick.price, TrendLen)
      BY <1>1, <1>2, <2>1, FedFacts
    <3>2. Ticked(d, AddTick(d, tick.at, tick.price, TrendLen),
                 CandleOpen(tick.at, TrendLen), tick.price)
      BY <1>1, AddTickFacts, TimeAssumption
    <3>3. Completes(d, Fed(s).trends) => Last(Fed(s).trends.done) \in CandleSet
      BY <3>1, <3>2 DEF Ticked
    <3> QED
      BY <1>2, <3>3
  <2>2. CASE ~UsesTrends(s)
    <3>1. Fed(s).trends = d
      BY <1>1, <1>3, <2>2, FedFacts
    <3> QED
      BY <1>2, <3>1 DEF Completes
  <2> QED
    BY <2>1, <2>2
<1> QED
  BY <1>4, <1>6

\* The table with the candles that s completed: typed, other pairs as they were, and
\* the hour of the pair of s in it.
LEMMA TableFacts ==
  ASSUME TypeOK, Control, todo # <<>>, NEW s, s = Slot
  PROVE  /\ HoursKept(s, Fed(s)) \in [Pairs -> Histories]
         /\ BothKept(s, Fed(s)) \in [Pairs -> Histories]
         /\ \A p \in Pairs \ {s.pair} :
              HoursKept(s, Fed(s))[p] = table[p] /\ BothKept(s, Fed(s))[p] = table[p]
         /\ HoursKept(s, Fed(s))[s.pair].hours
              = Kept(table[s.pair].hours, memory[s].hours, Fed(s).hours)
         /\ BothKept(s, Fed(s))[s.pair].hours
              = Kept(table[s.pair].hours, memory[s].hours, Fed(s).hours)
<1>1. s \in Slots /\ s.pair \in Pairs /\ tick \in Ticks
  BY SlotFacts, Strategies
<1>2. PICK T \in Seq(CandleSet), U \in Seq(CandleSet) :
        table[s.pair] = [hours |-> T, trends |-> U]
  BY <1>1 DEF TypeOK, Histories
<1>3. /\ memory[s].hours \in Builders /\ memory[s].trends \in Builders
      /\ Fed(s).hours \in Builders /\ Fed(s).trends \in Builders
  BY <1>1, FedFacts DEF Memories
<1>4. PICK V \in Seq(CandleSet) : V = Kept(T, memory[s].hours, Fed(s).hours)
  BY <1>3, CompletedFacts, KeptFacts
<1>5. PICK W \in Seq(CandleSet) : W = Kept(U, memory[s].trends, Fed(s).trends)
  BY <1>3, CompletedFacts, KeptFacts
<1> DEFINE H == [table EXCEPT ![s.pair] = [hours |-> V, trends |-> U]]
           B == [table EXCEPT ![s.pair] = [hours |-> V, trends |-> W]]
<1>6. HoursKept(s, Fed(s)) = H
  <2>1. HoursKept(s, Fed(s))
          = [table EXCEPT ![s.pair] = [table[s.pair] EXCEPT
               !.hours = Kept(table[s.pair].hours, memory[s].hours, Fed(s).hours)]]
    BY DEF HoursKept
  <2>2. [table[s.pair] EXCEPT !.hours = Kept(table[s.pair].hours, memory[s].hours, Fed(s).hours)]
          = [hours |-> V, trends |-> U]
    BY <1>2, <1>4
  <2> QED
    BY <2>1, <2>2
<1>7. H[s.pair] = [hours |-> V, trends |-> U] /\ table \in [Pairs -> Histories]
  BY <1>1 DEF TypeOK
<1>8. BothKept(s, Fed(s)) = B
  <2>1. BothKept(s, Fed(s))
          = [H EXCEPT ![s.pair] = [H[s.pair] EXCEPT
               !.trends = Kept(H[s.pair].trends, memory[s].trends, Fed(s).trends)]]
    BY <1>6 DEF BothKept
  <2>2. [H[s.pair] EXCEPT !.trends = Kept(H[s.pair].trends, memory[s].trends, Fed(s).trends)]
          = [hours |-> V, trends |-> W]
    BY <1>5, <1>7
  <2>3. [H EXCEPT ![s.pair] = [hours |-> V, trends |-> W]] = B
    BY <1>1, <1>7
  <2> HIDE DEF H, B
  <2> QED
    BY <2>1, <2>2, <2>3
<1>9. /\ H \in [Pairs -> Histories] /\ B \in [Pairs -> Histories]
      /\ \A p \in Pairs \ {s.pair} : H[p] = table[p] /\ B[p] = table[p]
      /\ H[s.pair].hours = V /\ B[s.pair].hours = V
  BY <1>1, <1>7 DEF Histories
<1> HIDE DEF H, B
<1> QED
  BY <1>2, <1>4, <1>6, <1>8, <1>9

\* What a step of evaluate() leaves behind, whatever it emits.
Advances(s) ==
  /\ memory' \in [Slots -> Memories]
  /\ memory' = [memory EXCEPT ![s] = Fed(s)] /\ memory'[s] = Fed(s)
  /\ \A r \in Slots \ {s} : memory'[r] = memory[r]
  /\ table' \in [Pairs -> Histories] /\ table' = BothKept(s, Fed(s))
  /\ todo' \in Stages /\ todo' = Tail(todo)
  /\ tick' = (IF todo' = <<>> THEN NoTick ELSE tick) /\ tick' \in Ticks \cup {NoTick}
  /\ todo' = <<>> <=> tick' = NoTick
  /\ up /\ up' /\ now' = now /\ maker' = maker /\ filter' = filter
  /\ seen' = seen /\ stepped' = stepped
  /\ \A r \in Slots : /\ ~UsesHours(r) => memory'[r].hours = NewBuilder
                      /\ ~UsesTrends(r) => memory'[r].trends = NewBuilder

\* That it does.
LEMMA EvaluatedFacts ==
  ASSUME TypeOK, Control, todo # <<>>, NEW s, s = Slot, Evaluated(s, Fed(s))
  PROVE  Advances(s)
<1>1. s \in Slots /\ s.pair \in Pairs /\ tick \in Ticks
  BY SlotFacts, Strategies
<1>2. memory \in [Slots -> Memories] /\ Fed(s) \in Memories
  BY <1>1, FedFacts DEF TypeOK
<1>3. /\ memory' = [memory EXCEPT ![s] = Fed(s)] /\ table' = BothKept(s, Fed(s))
      /\ todo' = Tail(todo) /\ tick' = IF Tail(todo) = <<>> THEN NoTick ELSE tick
      /\ now' = now /\ up' = up /\ maker' = maker /\ filter' = filter
      /\ seen' = seen /\ stepped' = stepped
  BY DEF Evaluated, config
<1>4. /\ memory' \in [Slots -> Memories] /\ memory'[s] = Fed(s)
      /\ \A r \in Slots \ {s} : memory'[r] = memory[r]
  BY <1>1, <1>2, <1>3
<1>5. table' \in [Pairs -> Histories]
  BY <1>3, TableFacts
<1>6. todo' \in Stages
  BY <1>3, StageFacts DEF TypeOK
<1>7. tick # NoTick
  BY <1>1, NoneAssumption
<1>8. up /\ up'
  BY <1>3 DEF Control
<1>9. ASSUME NEW r \in Slots
      PROVE  /\ ~UsesHours(r) => memory'[r].hours = NewBuilder
             /\ ~UsesTrends(r) => memory'[r].trends = NewBuilder
  <2>1. CASE r = s
    BY <1>1, <1>4, <2>1, FedFacts
  <2>2. CASE r # s
    BY <1>4, <2>2 DEF Control
  <2> QED
    BY <2>1, <2>2
<1> QED
  BY <1>1, <1>3, <1>4, <1>5, <1>6, <1>7, <1>8, <1>9 DEF Advances

\* A strategy emits at most one signal, against what it believes, and only on a
\* completed candle unless it is threshold.
LEMMA SignalFacts ==
  ASSUME NEW s, NEW m
  PROVE  /\ Signal(s, m) \in {"none", "buy", "sell"}
         /\ Signal(s, m) = "buy" => ~belief[s].in /\ Buys(s, m)
         /\ Signal(s, m) = "sell" => belief[s].in /\ Sells(s, m)
         /\ Signal(s, m) # "none" /\ s.strategy # "threshold" =>
              Completes(memory[s].hours, m.hours)
<1>1. CASE Evaluates(s, m) /\ ~belief[s].in /\ Buys(s, m)
  <2>1. Signal(s, m) = "buy"
    BY <1>1 DEF Signal
  <2> QED
    BY <1>1, <2>1 DEF Evaluates
<1>2. CASE Evaluates(s, m) /\ belief[s].in /\ Sells(s, m)
  <2>1. Signal(s, m) = "sell"
    BY <1>2 DEF Signal
  <2> QED
    BY <1>2, <2>1 DEF Evaluates
<1>3. CASE /\ ~(Evaluates(s, m) /\ ~belief[s].in /\ Buys(s, m))
           /\ ~(Evaluates(s, m) /\ belief[s].in /\ Sells(s, m))
  <2>1. Signal(s, m) = "none"
    BY <1>3 DEF Signal
  <2> QED
    BY <2>1
<1> QED
  BY <1>1, <1>2, <1>3

\* What it emits with is a belief: in after a buy, with the entry that bollinger
\* keeps, and with a snapshot of what it believed.
LEMMA EmittedFacts ==
  ASSUME TypeOK, Control, todo # <<>>, NEW s, s = Slot,
         NEW side \in {"buy", "sell"}, Signal(s, Fed(s)) = side
  PROVE  /\ Emitted(s, Fed(s), side) \in Beliefs(Prices)
         /\ (Emitted(s, Fed(s), side).in <=> side = "buy")
         /\ Emitted(s, Fed(s), side).entry # None
              <=> side = "buy" /\ s.strategy = "bollinger"
         /\ Emitted(s, Fed(s), side).pending
              = [armed |-> TRUE, in |-> belief[s].in, entry |-> belief[s].entry]
<1>1. s \in Slots /\ tick \in Ticks /\ tick.price \in Prices
  BY SlotFacts
<1>2. PICK b \in Beliefs(Prices) : b = belief[s]
  BY <1>1 DEF TypeOK
<1>3. None \notin Prices
  BY PriceAssumption DEF None
<1>4. CASE side = "sell"
  <2>1. Emitted(s, Fed(s), side) = Exited(b)
    BY <1>2, <1>4 DEF Emitted
  <2>2. Exited(b) \in Beliefs(Prices)
    BY <1>1, BeliefTypes
  <2>3. /\ ~Exited(b).in /\ Exited(b).entry = None
        /\ Exited(b).pending = [armed |-> TRUE, in |-> b.in, entry |-> b.entry]
    BY DEF Exited, Arm
  <2> QED
    BY <1>2, <1>4, <2>1, <2>2, <2>3
<1>5. CASE side = "buy" /\ s.strategy = "bollinger"
  <2>1. Completes(memory[s].hours, Fed(s).hours)
    BY <1>5, SignalFacts
  <2>2. PICK c \in CandleSet : c = Last(Fed(s).hours.done)
    BY <2>1, CompletedFacts
  <2>3. c.close \in Prices
    BY DEF CandleSet
  <2>4. Emitted(s, Fed(s), side) = Entered(b, c.close, TRUE)
    BY <1>2, <1>5, <2>2 DEF Emitted
  <2>5. Entered(b, c.close, TRUE) \in Beliefs(Prices)
    BY <2>3, BeliefTypes
  <2>6. /\ Entered(b, c.close, TRUE).in /\ Entered(b, c.close, TRUE).entry = c.close
        /\ Entered(b, c.close, TRUE).pending
             = [armed |-> TRUE, in |-> b.in, entry |-> b.entry]
    BY DEF Entered, Arm
  <2> QED
    BY <1>2, <1>3, <1>5, <2>3, <2>4, <2>5, <2>6
<1>6. CASE side = "buy" /\ s.strategy # "bollinger"
  <2>1. Emitted(s, Fed(s), side) = Entered(b, tick.price, FALSE)
    BY <1>2, <1>6 DEF Emitted
  <2>2. Entered(b, tick.price, FALSE) \in Beliefs(Prices)
    BY <1>1, BeliefTypes
  <2>3. /\ Entered(b, tick.price, FALSE).in /\ Entered(b, tick.price, FALSE).entry = None
        /\ Entered(b, tick.price, FALSE).pending
             = [armed |-> TRUE, in |-> b.in, entry |-> b.entry]
    BY DEF Entered, Arm
  <2> QED
    BY <1>2, <1>6, <2>1, <2>2, <2>3
<1> QED
  BY <1>4, <1>5, <1>6

-----------------------------------------------------------------------------
(* What the variables are *)

NoFill(s, p, price, at) ==
  ~Reached(s, p, price) /\ (Drifted(s, p, price) \/ Due(s, at))

\* What on_tick and expire_due make of a slot.
ResolvedSlot(s, p, price, at, lost) ==
  /\ log'[s] = IF Reached(s, p, price) /\ s \notin lost
               THEN Recorded(log[s], "buy", book[s].limit, 1, TRUE) ELSE log[s]
  /\ belief'[s] = IF NoFill(s, p, price, at) THEN Rejected(belief[s]) ELSE belief[s]
  /\ book'[s] = IF Reached(s, p, price) \/ NoFill(s, p, price, at)
                THEN NoEntry ELSE book[s]
  /\ log'[s] \in Logs(Prices) /\ belief'[s] \in Beliefs(Prices)
  /\ book'[s] \in Entries \cup {NoEntry}

\* That they do, and that what is left of it is typed.
LEMMA ResolveFacts ==
  ASSUME TypeOK, NEW p, NEW price, NEW at, NEW lost, Resolve(p, price, at, lost)
  PROVE  /\ log' \in [Slots -> Logs(Prices)]
         /\ belief' \in [Slots -> Beliefs(Prices)]
         /\ book' \in [Slots -> Entries \cup {NoEntry}]
         /\ \A s \in Slots : ResolvedSlot(s, p, price, at, lost)
<1>1. ASSUME NEW s \in Slots PROVE ResolvedSlot(s, p, price, at, lost)
  <2>1. /\ log[s] \in Logs(Prices) /\ belief[s] \in Beliefs(Prices)
        /\ book[s] \in Entries \cup {NoEntry}
    BY DEF TypeOK
  <2>2. /\ log'[s] = IF Reached(s, p, price) /\ s \notin lost
                     THEN Recorded(log[s], "buy", book[s].limit, 1, TRUE) ELSE log[s]
        /\ belief'[s] = IF NoFill(s, p, price, at) THEN Rejected(belief[s]) ELSE belief[s]
        /\ book'[s] = IF Reached(s, p, price) \/ NoFill(s, p, price, at)
                      THEN NoEntry ELSE book[s]
    BY DEF Resolve, NoFill
  <2>3. Reached(s, p, price) => book[s].limit \in Prices
    BY <2>1 DEF Reached, Resting, Entries
  <2>4. Reached(s, p, price) => Recorded(log[s], "buy", book[s].limit, 1, TRUE) \in Logs(Prices)
    <3> SUFFICES ASSUME Reached(s, p, price)
                 PROVE  Recorded(log[s], "buy", book[s].limit, 1, TRUE) \in Logs(Prices)
      OBVIOUS
    <3>1. PICK l \in Logs(Prices), c \in Prices : l = log[s] /\ c = book[s].limit
      BY <2>1, <2>3
    <3>2. Recorded(l, "buy", c, 1, TRUE) \in Logs(Prices)
      BY LogTypes, PriceAssumption
    <3> QED
      BY <3>1, <3>2
  <2>5. Rejected(belief[s]) \in Beliefs(Prices)
    BY <2>1 DEF Rejected, Beliefs, NoSnapshot
  <2> QED
    BY <2>1, <2>2, <2>4, <2>5 DEF ResolvedSlot
<1>2. /\ log' = [s \in Slots |-> log'[s]] /\ belief' = [s \in Slots |-> belief'[s]]
      /\ book' = [s \in Slots |-> book'[s]]
  BY DEF Resolve
<1>3. \A s \in Slots : /\ log'[s] \in Logs(Prices) /\ belief'[s] \in Beliefs(Prices)
                       /\ book'[s] \in Entries \cup {NoEntry}
  BY <1>1 DEF ResolvedSlot
<1> QED
  BY <1>1, <1>2, <1>3

\* The latest price of an hour replaces the one before.
LEMMA NotedFacts ==
  ASSUME NEW S \in Seq(Notes), NEW at \in Int, NEW price \in Prices
  PROVE  /\ Noted(S, at, price) \in Seq(Notes) /\ Noted(S, at, price) # <<>>
         /\ \/ /\ Noted(S, at, price) = Append(S, [t |-> CandleOpen(at, Hour), price |-> price])
               /\ S # <<>> => S[Len(S)].t # CandleOpen(at, Hour)
            \/ /\ S # <<>> /\ S[Len(S)].t = CandleOpen(at, Hour)
               /\ Noted(S, at, price)
                    = Append(Front(S), [t |-> CandleOpen(at, Hour), price |-> price])
<1> DEFINE o == CandleOpen(at, Hour)
<1>1. o \in Int
  BY OpenFacts, TimeAssumption
<1> HIDE DEF o
<1>2. PICK r \in Notes : r = [t |-> o, price |-> price]
  BY <1>1 DEF Notes
<1>3. CASE S # <<>> /\ S[Len(S)].t = o
  <2>1. PICK F \in Seq(Notes) : F = Front(S)
    <3>1. S \in Seq(Notes) /\ S # <<>>
      BY <1>3
    <3>2. Len(S) - 1 \in Nat /\ Len(S) \in Nat
      BY <3>1
    <3>3. SubSeq(S, 1, Len(S) - 1) \in Seq(Notes)
      BY <3>1, <3>2
    <3> QED
      BY <3>3 DEF Front
  <2>2. Noted(S, at, price) = Append(F, r)
    <3>1. Noted(S, at, price) = Front(S) \o <<r>>
      BY <1>2, <1>3 DEF Noted, Last, o
    <3>2. F \o <<r>> = Append(F, r)
      OBVIOUS
    <3> QED
      BY <2>1, <3>1, <3>2
  <2>3. Append(F, r) \in Seq(Notes) /\ Append(F, r) # <<>>
    BY Parts
  <2> QED
    BY <1>2, <1>3, <2>1, <2>2, <2>3 DEF o
<1>4. CASE ~(S # <<>> /\ S[Len(S)].t = o)
  <2>1. Noted(S, at, price) = Append(S, r)
    BY <1>2, <1>4 DEF Noted, Last, o
  <2>2. Append(S, r) \in Seq(Notes) /\ Append(S, r) # <<>>
    BY Parts
  <2> QED
    BY <1>2, <1>4, <2>1, <2>2 DEF o
<1> QED
  BY <1>3, <1>4

\* What a tick leaves behind.
TickOf(p, price, lost) ==
  /\ p \in Pairs /\ price \in Prices /\ now' \in Int
  /\ up /\ up' /\ todo = <<>> /\ todo' = AllStrategies
  /\ tick' = [pair |-> p, at |-> now', price |-> price] /\ tick' \in Ticks
  /\ stepped' = (stepped \/ now' < now)
  /\ lost \subseteq {s \in Slots : Reached(s, p, price)}
  /\ Resolve(p, price, now', lost) /\ unrecorded' = unrecorded \cup lost
  /\ seen' = [seen EXCEPT ![p] = Noted(seen[p], now', price)]
  /\ agenda' \in Agenda
  /\ UNCHANGED <<config, memory, table, crossed, acted, astray>>

\* That it does.
LEMMA TickFacts ==
  ASSUME TypeOK, TakeTick
  PROVE  \E p, price, lost : TickOf(p, price, lost)
<1>1. PICK q \in Seq(Arrivals), n \in Nat :
        agenda = [ticks |-> q, faults |-> n]
  BY DEF TypeOK, Agenda
<1>2. q # <<>>
  BY <1>1 DEF TakeTick
<1>3. PICK e \in Arrivals : e = Head(q)
  BY <1>2, Parts
<1>4. Tail(q) \in Seq(Arrivals)
  BY <1>2, Parts
<1>5. PICK price \in Prices, lost \in SUBSET Slots :
        /\ lost \subseteq {s \in Slots : Reached(s, e.pair, price)}
        /\ tick' = [pair |-> e.pair, at |-> now + e.after, price |-> price]
        /\ now' = now + e.after
        /\ stepped' = (stepped \/ now + e.after < now)
        /\ lost # {} => n > 0
        /\ agenda' = [ticks |-> Tail(q), faults |-> IF lost = {} THEN n ELSE n - 1]
        /\ Resolve(e.pair, price, now + e.after, lost)
        /\ unrecorded' = unrecorded \cup lost
        /\ seen' = [seen EXCEPT ![e.pair] = Noted(@, now + e.after, price)]
  BY <1>1, <1>3 DEF TakeTick
<1>6. e.pair \in Pairs /\ now + e.after \in Int
  BY DEF TypeOK, Arrivals
<1>7. agenda' \in Agenda
  BY <1>4, <1>5 DEF Agenda
<1>8. /\ up /\ up' /\ todo = <<>> /\ todo' = AllStrategies
      /\ UNCHANGED <<config, memory, table, crossed, acted, astray>>
  BY DEF TakeTick
<1>9. tick' \in Ticks
  BY <1>5, <1>6 DEF Ticks
<1>10. TickOf(e.pair, price, lost)
  BY <1>5, <1>6, <1>7, <1>8, <1>9 DEF TickOf
<1> QED
  BY <1>10

\* A fault takes one from the agenda.
LEMMA FaultTyped ==
  ASSUME TypeOK, Fault
  PROVE  agenda' \in Agenda
<1>1. PICK q \in Seq(Arrivals), n \in Nat : agenda = [ticks |-> q, faults |-> n]
  BY DEF TypeOK, Agenda
<1>2. agenda' = [ticks |-> q, faults |-> n - 1] /\ n > 0
  BY <1>1 DEF Fault
<1> QED
  BY <1>2 DEF Agenda

\* A step of a strategy keeps the types if what it does to its belief, its log and
\* its entry does.
LEMMA StepTyped ==
  ASSUME TypeOK, Control, todo # <<>>, NEW s, s = Slot, Evaluated(s, Fed(s)),
         agenda' \in Agenda,
         belief' \in [Slots -> Beliefs(Prices)],
         log' \in [Slots -> Logs(Prices)],
         book' \in [Slots -> Entries \cup {NoEntry}],
         crossed' \subseteq [slot : Slots, placed : Int], unrecorded' \subseteq Slots,
         acted' \in [Pairs -> Seq(Trades)], astray' \subseteq Pairs
  PROVE  TypeOK' /\ Control'
<1>1. Advances(s)
  BY EvaluatedFacts
<1>2. TypeOK'
  BY <1>1 DEF TypeOK, Advances
<1>3. todo' # <<>> => tick'.at = now'
  <2>1. tick.at = now
    BY DEF Control
  <2> QED
    BY <1>1, <2>1 DEF Advances
<1>4. \A r \in Slots : /\ (~UsesHours(r))' => memory'[r].hours = NewBuilder
                       /\ (~UsesTrends(r))' => memory'[r].trends = NewBuilder
  BY <1>1 DEF Advances, UsesHours, UsesTrends
<1>5. (todo' = <<>> <=> tick' = NoTick) /\ up'
  BY <1>1 DEF Advances
<1> QED
  BY <1>2, <1>3, <1>4, <1>5 DEF Control

\* A signal over a resting entry is noted, with that entry.
LEMMA CrossingFacts ==
  ASSUME TypeOK, NEW s \in Slots, Crossing(s)
  PROVE  /\ crossed' \subseteq [slot : Slots, placed : Int]
         /\ crossed \subseteq crossed'
         /\ Resting(s) => [slot |-> s, placed |-> book[s].placed] \in crossed'
         /\ \A c \in crossed' \ crossed :
              c.slot = s /\ Resting(s) /\ c.placed = book[s].placed
<1>1. crossed \subseteq [slot : Slots, placed : Int] /\ book[s] \in Entries \cup {NoEntry}
  BY DEF TypeOK
<1>2. CASE Resting(s)
  <2>1. crossed' = crossed \cup {[slot |-> s, placed |-> book[s].placed]}
    BY <1>2 DEF Crossing
  <2>2. book[s].placed \in Int
    BY <1>1, <1>2 DEF Resting, Entries
  <2> QED
    BY <1>1, <1>2, <2>1, <2>2
<1>3. CASE ~Resting(s)
  BY <1>1, <1>3 DEF Crossing
<1> QED
  BY <1>2, <1>3

\* What a signal of s does to its belief, its log, its entry and the crossings: it
\* is refused, it rests, or it is a row.
Refused(s, b) ==
  /\ \E B \in {b, Rejected(b)} :
       belief' = [belief EXCEPT ![s] = B] /\ (~Resting(s) => B = Rejected(b))
  /\ Crossing(s) /\ UNCHANGED <<log, book, unrecorded>>

Rested(s, b) ==
  /\ ~Resting(s) /\ belief' = [belief EXCEPT ![s] = b]
  /\ book' = [book EXCEPT ![s] = [limit |-> tick.price, placed |-> tick.at,
                                  deadline |-> tick.at + MakerWait]]
  /\ UNCHANGED <<log, crossed, unrecorded>>

Rowed(s, b, side) ==
  /\ belief' = [belief EXCEPT ![s] = IF Resting(s) THEN b ELSE Filled(b)]
  /\ log' = [log EXCEPT ![s] = Recorded(log[s], side, tick.price, 1, TRUE)]
  /\ unrecorded' = unrecorded \ {s}
  /\ Crossing(s) /\ UNCHANGED book

Handled(s, side) ==
  \/ side = "none" /\ UNCHANGED <<belief, log, book, crossed, unrecorded>>
  \/ side \in {"buy", "sell"} /\ Refused(s, Emitted(s, Fed(s), side))
  \/ side = "buy" /\ Rested(s, Emitted(s, Fed(s), side))
  \/ side \in {"buy", "sell"} /\ Rowed(s, Emitted(s, Fed(s), side), side)

\* A strategy evaluates the tick.
StrategyStep == NoSignal \/ SkipUnhealthy \/ LossRefuses \/ RestEntry \/ MarketOrder

\* It does one of those, and its builders and the table advance.
LEMMA StrategyFacts ==
  ASSUME StrategyStep
  PROVE  /\ todo # <<>> /\ Evaluated(Slot, Fed(Slot))
         /\ Handled(Slot, Signal(Slot, Fed(Slot)))
         /\ Fault \/ agenda' = agenda
         /\ astray' \in {astray, astray \cup {Slot.pair}}
         /\ \/ acted' = acted
            \/ /\ Slot.strategy = "bollinger" /\ Signal(Slot, Fed(Slot)) # "none"
               /\ acted' = [acted EXCEPT ![Slot.pair] =
                    Append(@, [t |-> Last(Fed(Slot).hours.done).t,
                               side |-> Signal(Slot, Fed(Slot))])]
<1> DEFINE s == Slot
           side == Signal(s, Fed(s))
           b == Emitted(s, Fed(s), side)
<1>0. side \in {"none", "buy", "sell"}
  BY SignalFacts
<1> HIDE DEF s, side
<1>1. CASE NoSignal
  BY <1>1 DEF NoSignal, Handled, s, side
<1>2. CASE SkipUnhealthy
  <2>1. /\ todo # <<>> /\ side # "none" /\ Evaluated(s, Fed(s)) /\ Fault
        /\ belief' = [belief EXCEPT ![s] = Rejected(b)] /\ Crossing(s)
        /\ UNCHANGED <<log, book, unrecorded>> /\ acted' = acted /\ astray' = Astray(s)
    BY <1>2 DEF SkipUnhealthy, s, side
  <2>2. Refused(s, b)
    BY <2>1 DEF Refused
  <2> QED
    BY <1>0, <2>1, <2>2 DEF Handled, Astray, s, side
<1>3. CASE LossRefuses
  <2>1. /\ todo # <<>> /\ side # "none" /\ Evaluated(s, Fed(s)) /\ Fault
        /\ belief' = [belief EXCEPT ![s] = IF Resting(s) THEN b ELSE Rejected(b)]
        /\ Crossing(s)
        /\ UNCHANGED <<log, book, unrecorded>> /\ acted' = acted /\ astray' = Astray(s)
    BY <1>3 DEF LossRefuses, s, side
  <2>2. Refused(s, b)
    <3>1. CASE Resting(s)
      BY <2>1, <3>1 DEF Refused
    <3>2. CASE ~Resting(s)
      BY <2>1, <3>2 DEF Refused
    <3> QED
      BY <3>1, <3>2
  <2> QED
    BY <1>0, <2>1, <2>2 DEF Handled, Astray, s, side
<1>4. CASE RestEntry
  <2>1. /\ todo # <<>> /\ side = "buy" /\ ~Resting(s) /\ Evaluated(s, Fed(s))
        /\ belief' = [belief EXCEPT ![s] = b]
        /\ book' = [book EXCEPT ![s] = [limit |-> tick.price, placed |-> tick.at,
                                        deadline |-> tick.at + MakerWait]]
        /\ UNCHANGED <<agenda, log, crossed, unrecorded, acted>> /\ astray' = Astray(s)
    BY <1>4 DEF RestEntry, s, side
  <2>2. Rested(s, b)
    BY <2>1 DEF Rested
  <2> QED
    BY <2>1, <2>2 DEF Handled, Astray, s, side
<1>5. CASE MarketOrder
  <2>1. /\ todo # <<>> /\ side # "none" /\ Evaluated(s, Fed(s))
        /\ log' = [log EXCEPT ![s] = Recorded(@, side, tick.price, 1, TRUE)]
        /\ belief' = [belief EXCEPT ![s] = IF Resting(s) THEN b ELSE Filled(b)]
        /\ unrecorded' = unrecorded \ {s}
        /\ Crossing(s) /\ UNCHANGED <<agenda, book, astray>>
        /\ acted' = IF s.strategy = "bollinger"
                    THEN [acted EXCEPT ![s.pair] =
                            Append(@, [t |-> Last(Fed(s).hours.done).t, side |-> side])]
                    ELSE acted
    BY <1>5 DEF MarketOrder, s, side
  <2>2. Rowed(s, b, side)
    BY <2>1 DEF Rowed
  <2>3. Handled(s, side)
    BY <1>0, <2>1, <2>2 DEF Handled
  <2> QED
    BY <2>1, <2>3 DEF s, side
<1> QED
  BY <1>1, <1>2, <1>3, <1>4, <1>5 DEF StrategyStep

\* And keeps the types.
LEMMA StrategyTyped ==
  ASSUME TypeOK, Control, StrategyStep
  PROVE  TypeOK' /\ Control' /\ Advances(Slot)
<1>1. PICK s \in Slots : s = Slot
  BY SlotFacts, StrategyFacts
<1>2. PICK side \in {"none", "buy", "sell"} : side = Signal(s, Fed(s))
  BY SignalFacts
<1>3. todo # <<>> /\ Evaluated(s, Fed(s)) /\ Handled(s, side)
  BY <1>1, <1>2, StrategyFacts
<1>4. agenda' \in Agenda
  <2>1. Fault \/ agenda' = agenda
    BY StrategyFacts
  <2>2. CASE Fault
    BY <2>2, FaultTyped
  <2>3. CASE agenda' = agenda
    BY <2>3 DEF TypeOK
  <2> QED
    BY <2>1, <2>2, <2>3
<1>5. /\ belief \in [Slots -> Beliefs(Prices)] /\ log \in [Slots -> Logs(Prices)]
      /\ book \in [Slots -> Entries \cup {NoEntry}]
      /\ crossed \subseteq [slot : Slots, placed : Int] /\ unrecorded \subseteq Slots
  BY DEF TypeOK
<1>6. side # "none" => Emitted(s, Fed(s), side) \in Beliefs(Prices)
  BY <1>1, <1>2, <1>3, EmittedFacts
<1>7. /\ tick.price \in Prices /\ tick.at \in Int
  BY <1>3, SlotFacts DEF Ticks
<1>8. ASSUME NEW b \in Beliefs(Prices)
      PROVE  Rejected(b) \in Beliefs(Prices) /\ Filled(b) \in Beliefs(Prices)
  BY DEF Rejected, Filled, Beliefs, NoSnapshot, None
<1>9. /\ belief' \in [Slots -> Beliefs(Prices)] /\ log' \in [Slots -> Logs(Prices)]
      /\ book' \in [Slots -> Entries \cup {NoEntry}]
      /\ crossed' \subseteq [slot : Slots, placed : Int] /\ unrecorded' \subseteq Slots
  <2>1. CASE side = "none" /\ UNCHANGED <<belief, log, book, crossed, unrecorded>>
    BY <1>5, <2>1
  <2>2. CASE side # "none" /\ Refused(s, Emitted(s, Fed(s), side))
    <3>1. crossed' \subseteq [slot : Slots, placed : Int]
      BY <2>2, CrossingFacts DEF Refused
    <3> QED
      BY <1>5, <1>6, <1>8, <2>2, <3>1 DEF Refused
  <2>3. CASE side # "none" /\ Rested(s, Emitted(s, Fed(s), side))
    <3>1. tick.at + MakerWait \in Int
      BY <1>7, TimeAssumption
    <3>2. [limit |-> tick.price, placed |-> tick.at,
           deadline |-> tick.at + MakerWait] \in Entries
      BY <1>7, <3>1 DEF Entries
    <3> QED
      BY <1>5, <1>6, <2>3, <3>2 DEF Rested
  <2>4. CASE side # "none" /\ Rowed(s, Emitted(s, Fed(s), side), side)
    <3>1. crossed' \subseteq [slot : Slots, placed : Int]
      BY <2>4, CrossingFacts DEF Rowed
    <3>2. PICK l \in Logs(Prices), c \in Prices : l = log[s] /\ c = tick.price
      BY <1>5, <1>7
    <3>3. side \in {"buy", "sell"}
      BY <2>4
    <3>4. Recorded(l, side, c, 1, TRUE) \in Logs(Prices)
      BY <3>3, LogTypes, PriceAssumption
    <3> QED
      BY <1>5, <1>6, <1>8, <2>4, <3>1, <3>2, <3>4 DEF Rowed
  <2> QED
    BY <1>3, <2>1, <2>2, <2>3, <2>4 DEF Handled
<1>10. astray' \subseteq Pairs
  BY <1>1, Strategies, StrategyFacts DEF TypeOK
<1>11. acted' \in [Pairs -> Seq(Trades)]
  <2>1. acted \in [Pairs -> Seq(Trades)]
    BY DEF TypeOK
  <2>2. CASE acted' = acted
    BY <2>1, <2>2
  <2>3. CASE /\ s.strategy = "bollinger" /\ side # "none"
             /\ acted' = [acted EXCEPT ![s.pair] =
                  Append(@, [t |-> Last(Fed(s).hours.done).t, side |-> side])]
    <3>1. Completes(memory[s].hours, Fed(s).hours)
      BY <1>2, <2>3, SignalFacts
    <3>2. Last(Fed(s).hours.done) \in CandleSet
      BY <1>1, <1>3, <3>1, CompletedFacts
    <3>3. PICK x \in Trades : x = [t |-> Last(Fed(s).hours.done).t, side |-> side]
      BY <2>3, <3>2 DEF CandleSet, Trades
    <3>4. s.pair \in Pairs
      BY Strategies
    <3>5. PICK q \in Seq(Trades) : q = acted[s.pair]
      BY <2>1, <3>4
    <3>6. Append(q, x) \in Seq(Trades)
      BY Parts
    <3> QED
      BY <2>1, <2>3, <3>3, <3>5, <3>6
  <2> QED
    BY <1>1, <1>2, <2>2, <2>3, StrategyFacts
<1>12. TypeOK' /\ Control'
  BY <1>1, <1>3, <1>4, <1>9, <1>10, <1>11, StepTyped
<1>13. Advances(s)
  BY <1>1, <1>3, EvaluatedFacts
<1> QED
  BY <1>1, <1>12, <1>13

\* A tick keeps them.
LEMMA TickTyped ==
  ASSUME TypeOK, Control, NEW p, NEW price, NEW lost, TickOf(p, price, lost)
  PROVE  TypeOK' /\ Control'
<1>1. /\ log' \in [Slots -> Logs(Prices)] /\ belief' \in [Slots -> Beliefs(Prices)]
      /\ book' \in [Slots -> Entries \cup {NoEntry}]
  <2>1. Resolve(p, price, now', lost)
    BY DEF TickOf
  <2> QED
    BY <2>1, ResolveFacts
<1>2. seen' \in [Pairs -> Seq(Notes)]
  <2>1. p \in Pairs /\ price \in Prices /\ now' \in Int
        /\ seen' = [seen EXCEPT ![p] = Noted(seen[p], now', price)]
    BY DEF TickOf
  <2>2. seen \in [Pairs -> Seq(Notes)] /\ seen[p] \in Seq(Notes)
    BY <2>1 DEF TypeOK
  <2>3. Noted(seen[p], now', price) \in Seq(Notes)
    BY <2>1, <2>2, NotedFacts
  <2> QED
    BY <2>1, <2>2, <2>3
<1>3. /\ now' \in Int /\ up' \in BOOLEAN /\ todo' \in Stages /\ agenda' \in Agenda
      /\ tick' \in Ticks
  BY DEF TickOf, Stages
<1>4. stepped' \in BOOLEAN
  <2>1. stepped' = (stepped \/ now' < now)
    BY DEF TickOf
  <2> QED
    BY <2>1
<1>5. maker' = maker /\ filter' = filter /\ memory' = memory /\ table' = table
      /\ crossed' = crossed /\ acted' = acted /\ astray' = astray
  BY DEF TickOf, config
<1>9. unrecorded' \subseteq Slots
  BY DEF TickOf, TypeOK
<1>6. TypeOK'
  BY <1>1, <1>2, <1>3, <1>4, <1>5, <1>9 DEF TypeOK
<1>7. todo' # <<>> /\ tick' # NoTick /\ tick'.at = now' /\ up'
  <2>1. AllStrategies # <<>>
    BY DEF AllStrategies
  <2> QED
    BY <1>3, <2>1, NoneAssumption DEF TickOf
<1>8. \A r \in Slots : /\ (~UsesHours(r))' => memory'[r].hours = NewBuilder
                       /\ (~UsesTrends(r))' => memory'[r].trends = NewBuilder
  BY <1>5 DEF Control, UsesHours, UsesTrends
<1> QED
  BY <1>6, <1>7, <1>8 DEF Control

\* The table after a death: as it was, or with what the strategy that died had
\* stored.
LEMMA CrashTable ==
  ASSUME TypeOK, Control, Crash
  PROVE  /\ table' \in [Pairs -> Histories]
         /\ \/ table' = table
            \/ todo # <<>> /\ table' = HoursKept(Slot, Fed(Slot))
            \/ todo # <<>> /\ table' = BothKept(Slot, Fed(Slot))
<1>1. \/ table' = table
      \/ todo # <<>> /\ table' = HoursKept(Slot, Fed(Slot))
      \/ todo # <<>> /\ table' = BothKept(Slot, Fed(Slot))
  BY DEF Crash
<1>2. todo # <<>> => /\ HoursKept(Slot, Fed(Slot)) \in [Pairs -> Histories]
                     /\ BothKept(Slot, Fed(Slot)) \in [Pairs -> Histories]
  BY TableFacts
<1>3. table \in [Pairs -> Histories]
  BY DEF TypeOK
<1> QED
  BY <1>1, <1>2, <1>3

\* A belief as constructed, and an empty log.
LEMMA FreshTypes == Fresh \in Beliefs(Prices) /\ EmptyLog \in Logs(Prices)
<1>1. <<>> \in Seq(Prices)
  OBVIOUS
<1>2. EmptyLog \in Logs(Prices)
  BY <1>1 DEF EmptyLog, Logs
<1>3. Fresh \in Beliefs(Prices)
  BY DEF Fresh, NoSnapshot, Beliefs, None
<1> QED
  BY <1>2, <1>3

\* A death keeps them.
LEMMA CrashTyped ==
  ASSUME TypeOK, Control, Crash
  PROVE  TypeOK' /\ Control'
<1>1. table' \in [Pairs -> Histories]
  BY CrashTable
<1>2. agenda' \in Agenda
  BY FaultTyped DEF Crash
<1>3. Blank \in Memories /\ NewBuilder \in Builders
  <2>1. PICK p \in Pairs : TRUE
    BY PairAssumption
  <2> QED
    BY <2>1, RestoredFacts, Strategies DEF TypeOK
<1>4. /\ ~up' /\ up' \in BOOLEAN /\ tick' = NoTick /\ todo' = <<>> /\ todo' \in Stages
      /\ memory' = [s \in Slots |-> Blank]
      /\ belief' = [s \in Slots |-> Fresh] /\ book' = [s \in Slots |-> NoEntry]
      /\ astray' \subseteq Pairs /\ unrecorded' = {}
      /\ UNCHANGED <<maker, filter, now, log, seen, crossed, stepped, acted>>
  <2>1. astray \subseteq Pairs
    BY DEF TypeOK
  <2> QED
    BY <2>1 DEF Crash, config, Stages
<1>5. TypeOK'
  BY <1>1, <1>2, <1>3, <1>4, FreshTypes DEF TypeOK
<1>6. \A r \in Slots : memory'[r].hours = NewBuilder /\ memory'[r].trends = NewBuilder
  BY <1>4 DEF Blank
<1>7. \A r \in Slots : ~Resting(r)'
  BY <1>4 DEF Resting
<1> QED
  BY <1>4, <1>5, <1>6, <1>7 DEF Control

\* A restart keeps them.
LEMMA RestartTyped ==
  ASSUME TypeOK, Control, Restart
  PROVE  TypeOK' /\ Control'
<1>1. table \in [Pairs -> Histories] /\ log \in [Slots -> Logs(Prices)]
  BY DEF TypeOK
<1>2. \A s \in Slots :
        /\ RestoredMemory(s, table) \in Memories
        /\ ~UsesHours(s) => RestoredMemory(s, table).hours = NewBuilder
        /\ ~UsesTrends(s) => RestoredMemory(s, table).trends = NewBuilder
  BY <1>1, RestoredFacts DEF RestoredMemory
<1>3. ASSUME NEW s \in Slots
      PROVE  Restored(log[s].last, log[s].price, s.strategy = "bollinger") \in Beliefs(Prices)
  <2>1. PICK l \in Logs(Prices), t \in BOOLEAN : l = log[s] /\ t = (s.strategy = "bollinger")
    BY <1>1
  <2>2. Restored(l.last, l.price, t) \in Beliefs(Prices)
    BY RestoredType
  <2> QED
    BY <2>1, <2>2
<1>4. /\ ~up /\ up' /\ up' \in BOOLEAN
      /\ memory' = [s \in Slots |-> RestoredMemory(s, table)]
      /\ belief' = [s \in Slots |->
           Restored(log[s].last, log[s].price, s.strategy = "bollinger")]
      /\ UNCHANGED <<maker, filter, agenda, now, tick, todo, table, log, book, seen,
                     crossed, unrecorded, stepped, acted, astray>>
  BY DEF Restart, config
<1>5. memory' \in [Slots -> Memories] /\ belief' \in [Slots -> Beliefs(Prices)]
  BY <1>2, <1>3, <1>4
<1>6. TypeOK'
  BY <1>4, <1>5 DEF TypeOK
<1>7. \A s \in Slots : /\ (~UsesHours(s))' => memory'[s].hours = NewBuilder
                       /\ (~UsesTrends(s))' => memory'[s].trends = NewBuilder
  BY <1>2, <1>4 DEF UsesHours, UsesTrends
<1>8. (todo = <<>> <=> tick = NoTick) /\ todo = <<>>
  BY <1>4 DEF Control
<1> QED
  BY <1>4, <1>6, <1>7, <1>8 DEF Control

\* What the starting history is: the latest end of a stored history is the time.
Starts(seed) ==
  /\ seed \in [Pairs -> Seq(Prices)]
  /\ now \in Int /\ \A p \in Pairs : Start(p, seed) <= now
  /\ \E p \in Pairs : now = Start(p, seed)
  /\ table = [p \in Pairs |-> [hours |-> HoursOf(seed[p]), trends |-> TrendsOf(seed[p])]]

\* It is one.
LEMMA StartFacts ==
  ASSUME Init
  PROVE  \E seed : Starts(seed)
<1>1. PICK seed \in Seeds :
        /\ now = Max({Start(p, seed) : p \in Pairs})
        /\ table = [p \in Pairs |-> [hours |-> HoursOf(seed[p]),
                                     trends |-> TrendsOf(seed[p])]]
  BY DEF Init
<1>2. seed \in [Pairs -> Seq(Prices)]
  BY SeedAssumption
<1> DEFINE S == {Start(p, seed) : p \in Pairs}
<1>3. S \subseteq Int
  <2>1. \A p \in Pairs : Start(p, seed) \in Int
    <3> SUFFICES ASSUME NEW p \in Pairs PROVE Start(p, seed) \in Int
      OBVIOUS
    <3>1. Len(seed[p]) \in Nat
      BY <1>2
    <3> QED
      BY <3>1, TimeAssumption DEF Start
  <2> QED
    BY <2>1
<1>4. S # {}
  BY PairAssumption
<1>5. IsFiniteSet(S)
  <2> DEFINE f == [p \in Pairs |-> Start(p, seed)]
  <2>1. f \in Surjection(Pairs, S)
    BY DEF Surjection
  <2> HIDE DEF f, S
  <2> QED
    BY <2>1, FS_Surjection, PairAssumption
<1> HIDE DEF S
<1>6. PICK b \in Int : \A x \in S : x <= b
  BY <1>3, <1>5, FiniteBounded
<1>7. Max(S) \in S /\ \A x \in S : x <= Max(S)
  BY <1>3, <1>4, <1>6, MaxFacts
<1>8. now = Max(S)
  BY <1>1 DEF S
<1>9. now \in Int /\ now \in S /\ \A x \in S : x <= now
  BY <1>3, <1>7, <1>8
<1>10. (\A p \in Pairs : Start(p, seed) <= now) /\ \E p \in Pairs : now = Start(p, seed)
  BY <1>9 DEF S
<1> QED
  BY <1>1, <1>2, <1>9, <1>10 DEF Starts

\* The initial states have them.
LEMMA InitTyped ==
  ASSUME Init
  PROVE  TypeOK /\ Control
<1>1. PICK seed : Starts(seed)
  BY StartFacts
<1>2. table \in [Pairs -> Histories]
  <2>1. \A p \in Pairs : HoursOf(seed[p]) \in Seq(CandleSet)
                         /\ TrendsOf(seed[p]) \in Seq(CandleSet)
    BY <1>1, SeedFacts DEF Starts
  <2> QED
    BY <1>1, <2>1 DEF Starts, Histories
<1>3. \A s \in Slots :
        /\ RestoredMemory(s, table) \in Memories
        /\ ~UsesHours(s) => RestoredMemory(s, table).hours = NewBuilder
        /\ ~UsesTrends(s) => RestoredMemory(s, table).trends = NewBuilder
  BY <1>2, RestoredFacts DEF RestoredMemory
<1>4. /\ maker \in BOOLEAN /\ filter \in BOOLEAN /\ agenda \in Agendas
      /\ up = TRUE /\ tick = NoTick /\ todo = <<>>
      /\ memory = [s \in Slots |-> RestoredMemory(s, table)]
      /\ belief = [s \in Slots |-> Fresh] /\ log = [s \in Slots |-> EmptyLog]
      /\ book = [s \in Slots |-> NoEntry] /\ seen = [p \in Pairs |-> <<>>]
      /\ crossed = {} /\ unrecorded = {} /\ stepped = FALSE
      /\ acted = [p \in Pairs |-> <<>>] /\ astray = {}
  BY DEF Init
<1>5. agenda \in Agenda /\ now \in Int
  BY <1>1, <1>4, AgendaAssumption DEF Agenda, Arrivals, Starts
<1>6. memory \in [Slots -> Memories] /\ belief \in [Slots -> Beliefs(Prices)]
      /\ log \in [Slots -> Logs(Prices)]
  BY <1>3, <1>4, FreshTypes
<1>7. seen \in [Pairs -> Seq(Notes)] /\ acted \in [Pairs -> Seq(Trades)]
  <2>1. <<>> \in Seq(Notes) /\ <<>> \in Seq(Trades)
    OBVIOUS
  <2> QED
    BY <1>4, <2>1
<1>8. TypeOK
  BY <1>2, <1>4, <1>5, <1>6, <1>7 DEF TypeOK, Stages
<1> QED
  BY <1>3, <1>4, <1>8 DEF Control

\* Every step is a tick, a strategy's, a death, a restart or a stutter.
LEMMA NextCases ==
  ASSUME TypeOK, [Next]_vars
  PROVE  \/ \E p, price, lost : TickOf(p, price, lost)
         \/ StrategyStep \/ Crash \/ Restart \/ UNCHANGED vars
<1>1. TakeTick => \E p, price, lost : TickOf(p, price, lost)
  BY TickFacts
<1> QED
  BY <1>1 DEF Next, StrategyStep

TypeInv == TypeOK /\ Control

\* What the variables are: every memory, table, belief, log, entry and note is what
\* trader.py, maker.py and candles.py hold, in every state of every agenda.
THEOREM TypeCorrect == Spec => []TypeInv
<1>1. Init => TypeInv
  BY InitTyped DEF TypeInv
<1>2. TypeInv /\ [Next]_vars => TypeInv'
  <2> SUFFICES ASSUME TypeOK, Control, [Next]_vars PROVE TypeOK' /\ Control'
    BY DEF TypeInv
  <2>1. ASSUME NEW p, NEW price, NEW lost, TickOf(p, price, lost) PROVE TypeOK' /\ Control'
    BY <2>1, TickTyped
  <2>2. CASE StrategyStep
    BY <2>2, StrategyTyped
  <2>3. CASE Crash
    BY <2>3, CrashTyped
  <2>4. CASE Restart
    BY <2>4, RestartTyped
  <2>5. CASE UNCHANGED vars
    BY <2>5 DEF vars, config, TypeOK, Control, Resting, UsesHours, UsesTrends
  <2> QED
    BY <2>1, <2>2, <2>3, <2>4, <2>5, NextCases
<1> QED
  BY <1>1, <1>2, PTL DEF Spec

-----------------------------------------------------------------------------
(* PaperBelief *)

\* A buy r over no position opens one, a sell of one closes it, and the last row is
\* the one recorded.
BuyOpens(l, c, r) ==
  /\ r.last = "buy" /\ r.price = c
  /\ l.open = 0 /\ Len(l.buys) = 0 => r.open = 1 /\ Len(r.buys) = 1

SellCloses(l, r) ==
  /\ r.last = "sell"
  /\ l.open <= 1 /\ Len(l.buys) <= 1 => r.open = 0 /\ Len(r.buys) = 0

\* So do the rows of test mode, which are of the configured quantity.
LEMMA RowFacts ==
  ASSUME NEW l \in Logs(Prices), NEW c \in Prices
  PROVE  /\ BuyOpens(l, c, Recorded(l, "buy", c, 1, TRUE))
         /\ SellCloses(l, Recorded(l, "sell", c, 1, TRUE))
<1>1. l.open \in Nat /\ l.buys \in Seq(Prices)
  BY DEF Logs
<1>2. BuyOpens(l, c, Recorded(l, "buy", c, 1, TRUE))
  <2> DEFINE r == Bought(l, c, 1, TRUE)
  <2>1. r.last = "buy" /\ r.price = c /\ r.open = l.open + 1 /\ r.buys = Append(l.buys, c)
    BY DEF Bought
  <2>2. Len(Append(l.buys, c)) = Len(l.buys) + 1 /\ Len(l.buys) \in Nat
    BY <1>1
  <2>3. Recorded(l, "buy", c, 1, TRUE) = r
    BY DEF Recorded
  <2> HIDE DEF r
  <2>4. BuyOpens(l, c, r)
    BY <1>1, <2>1, <2>2 DEF BuyOpens
  <2> QED
    BY <2>3, <2>4
<1>3. SellCloses(l, Recorded(l, "sell", c, 1, TRUE))
  <2> DEFINE r == Sold(l, c, 1, TRUE)
  <2>1. r.last = "sell" /\ r.open = Less(l.open, 1) /\ r.buys = Popped(l.buys)
    BY DEF Sold
  <2>2. l.open <= 1 => Less(l.open, 1) = 0
    BY <1>1 DEF Less
  <2>3. Len(l.buys) <= 1 => Len(Popped(l.buys)) = 0
    <3> DEFINE q == l.buys
    <3>1. q \in Seq(Prices)
      BY <1>1
    <3> HIDE DEF q
    <3>2. q = <<>> => Len(Popped(q)) = 0
      BY EmptySeq DEF Popped
    <3>3. ASSUME q # <<>>, Len(q) <= 1 PROVE Len(Popped(q)) = 0
      <4>0. PICK n \in Nat \ {0} : n = Len(q)
        BY <3>1, <3>3, EmptySeq
      <4>1. Len(q) = 1
        BY <3>3, <4>0
      <4>2. Len(Tail(q)) = 0
        BY <3>1, <3>3, <4>1, HeadTailProperties
      <4> QED
        BY <3>3, <4>2 DEF Popped
    <3> QED
      BY <3>2, <3>3 DEF q
  <2>4. Recorded(l, "sell", c, 1, TRUE) = r
    BY DEF Recorded
  <2> HIDE DEF r
  <2>5. SellCloses(l, r)
    BY <2>1, <2>2, <2>3 DEF SellCloses
  <2> QED
    BY <2>4, <2>5
<1> QED
  BY <1>2, <1>3

\* A slot that a step leaves alone.
Untouched(s) ==
  /\ log'[s] = log[s] /\ belief'[s] = belief[s] /\ book'[s] = book[s]
  /\ s \in unrecorded' <=> s \in unrecorded

\* It is what it was, and believes what it did.
LEMMA UntouchedBelieves ==
  ASSUME NEW s, Untouched(s)
  PROVE  /\ Long(s)' <=> Long(s)
         /\ RowsCount(s) => RowsCount(s)'
         /\ Believes(s) => Believes(s)'
         /\ Resting(s)' <=> Resting(s)
<1>1. (Long(s)' <=> Long(s)) /\ (Resting(s)' <=> Resting(s))
  BY DEF Untouched, Long, Resting
<1>2. RowsCount(s) => RowsCount(s)'
  BY <1>1 DEF Untouched, RowsCount
<1>3. Believes(s) => Believes(s)'
  BY <1>1 DEF Untouched, Believes
<1> QED
  BY <1>1, <1>2, <1>3

\* The crossings only grow, so a slot undisturbed after a step was so before it.
LEMMA UndisturbedShrinks ==
  ASSUME crossed \subseteq crossed'
  PROVE  Undisturbed' \subseteq Undisturbed
  BY DEF Undisturbed

\* on_tick and expire_due: a fill makes the belief true, or is lost and noted; a
\* no-fill takes it back.
LEMMA TickBelieves ==
  ASSUME TypeOK, BeliefInv, NEW p, NEW price, NEW lost, TickOf(p, price, lost)
  PROVE  BeliefInv'
<1>1. /\ Resolve(p, price, now', lost) /\ up /\ up' /\ crossed' = crossed
      /\ lost \subseteq {s \in Slots : Reached(s, p, price)}
      /\ unrecorded' = unrecorded \cup lost
  BY DEF TickOf
<1>2. \A s \in Slots : ResolvedSlot(s, p, price, now', lost)
  BY <1>1, ResolveFacts
<1>3. \A s \in Slots : /\ log[s] \in Logs(Prices) /\ belief[s] \in Beliefs(Prices)
                       /\ book[s] \in Entries \cup {NoEntry}
  BY DEF TypeOK
<1>4. ASSUME NEW s \in Slots
      PROVE  /\ Long(s)' => log'[s].price \in Prices
             /\ RowsCount(s) /\ Believes(s) => RowsCount(s)' /\ Believes(s)'
  <2>1. CASE Reached(s, p, price) /\ s \notin lost
    <3>1. PICK l \in Logs(Prices), c \in Prices : l = log[s] /\ c = book[s].limit
      BY <1>3, <2>1 DEF Reached, Resting, Entries
    <3>2. /\ log'[s] = Recorded(l, "buy", c, 1, TRUE) /\ book'[s] = NoEntry
          /\ belief'[s] = belief[s]
      BY <1>2, <2>1, <3>1 DEF ResolvedSlot, NoFill
    <3>0. BuyOpens(l, c, log'[s])
      BY <3>2, RowFacts
    <3>3. Long(s)' /\ log'[s].price \in Prices /\ ~Resting(s)'
      BY <3>0, <3>2 DEF BuyOpens, Long, Resting
    <3>4. ASSUME RowsCount(s), Believes(s) PROVE RowsCount(s)' /\ Believes(s)'
      <4>1. Resting(s) /\ ~Long(s)
        BY <2>1, <3>4 DEF Reached, Believes
      <4>2. l.open = 0 /\ Len(l.buys) = 0
        BY <3>1, <3>4, <4>1 DEF RowsCount
      <4>3. log'[s].open = 1 /\ Len(log'[s].buys) = 1
        BY <3>0, <4>2 DEF BuyOpens
      <4>4. RowsCount(s)'
        BY <3>3, <4>3 DEF RowsCount
      <4>5. s \notin unrecorded'
        BY <1>1, <2>1, <3>4, <4>1 DEF Believes
      <4>6. Believes(s)'
        BY <3>2, <3>3, <3>4, <4>1, <4>5 DEF Believes
      <4> QED
        BY <4>4, <4>6
    <3> QED
      BY <3>3, <3>4
  <2>4. CASE Reached(s, p, price) /\ s \in lost
    <3>1. log'[s] = log[s] /\ book'[s] = NoEntry /\ belief'[s] = belief[s]
      BY <1>2, <2>4 DEF ResolvedSlot, NoFill
    <3>2. (Long(s)' <=> Long(s)) /\ ~Resting(s)' /\ Resting(s) /\ s \in unrecorded'
      BY <1>1, <2>4, <3>1 DEF Long, Resting, Reached
    <3>3. ASSUME RowsCount(s), Believes(s) PROVE RowsCount(s)' /\ Believes(s)'
      <4>1. RowsCount(s)'
        BY <3>1, <3>2, <3>3 DEF RowsCount
      <4>2. Believes(s)'
        BY <3>1, <3>2, <3>3 DEF Believes
      <4> QED
        BY <4>1, <4>2
    <3> QED
      BY <3>1, <3>2, <3>3 DEF BeliefInv
  <2>2. CASE NoFill(s, p, price, now')
    <3>1. /\ log'[s] = log[s] /\ book'[s] = NoEntry /\ belief'[s] = Rejected(belief[s])
          /\ Resting(s)
      BY <1>2, <2>2 DEF ResolvedSlot, NoFill, Drifted, Due
    <3>2. (Long(s)' <=> Long(s)) /\ ~Resting(s)'
      BY <3>1 DEF Long, Resting
    <3>3. ASSUME RowsCount(s), Believes(s) PROVE RowsCount(s)' /\ Believes(s)'
      <4>4. s \notin unrecorded'
        BY <1>1, <2>2, <3>1, <3>3 DEF Believes, NoFill
      <4>1. ~Long(s) /\ ~belief'[s].in /\ belief'[s].entry = None
        BY <1>3, <3>1, <3>3 DEF Believes, Rejected
      <4>2. RowsCount(s)'
        BY <3>1, <3>2, <3>3 DEF RowsCount
      <4>3. Believes(s)'
        BY <3>2, <4>1, <4>4 DEF Believes
      <4> QED
        BY <4>2, <4>3
    <3> QED
      BY <3>1, <3>2, <3>3 DEF BeliefInv
  <2>3. CASE ~Reached(s, p, price) /\ ~NoFill(s, p, price, now')
    <3>1. Untouched(s)
      BY <1>1, <1>2, <2>3 DEF ResolvedSlot, Untouched
    <3> QED
      BY <3>1, UntouchedBelieves DEF BeliefInv, Untouched
  <2> QED
    BY <2>1, <2>2, <2>3, <2>4
<1>5. Undisturbed' = Undisturbed /\ Undisturbed \subseteq Slots
  BY <1>1 DEF Undisturbed
<1> QED
  BY <1>1, <1>4, <1>5 DEF BeliefInv

\* A slot that emits while nothing of it rests is believed in again: refused as
\* before, resting or long after a buy, flat after a sell.
LEMMA StrategyBelieves ==
  ASSUME TypeOK, Control, BeliefInv, StrategyStep
  PROVE  BeliefInv'
<1>1. PICK s \in Slots : s = Slot
  BY SlotFacts, StrategyFacts
<1>2. PICK side \in {"none", "buy", "sell"} : side = Signal(s, Fed(s))
  BY SignalFacts
<1>3. todo # <<>> /\ Handled(s, side) /\ up /\ up'
  BY <1>1, <1>2, StrategyFacts, StrategyTyped DEF Advances
<1>4. /\ \A r \in Slots : /\ log[r] \in Logs(Prices) /\ belief[r] \in Beliefs(Prices)
                          /\ book[r] \in Entries \cup {NoEntry}
      /\ log \in [Slots -> Logs(Prices)] /\ belief \in [Slots -> Beliefs(Prices)]
      /\ book \in [Slots -> Entries \cup {NoEntry}]
  BY DEF TypeOK
<1>5. PICK l \in Logs(Prices), c \in Prices, b0 \in Beliefs(Prices) :
        l = log[s] /\ c = tick.price /\ b0 = belief[s]
  BY <1>3, <1>4, SlotFacts
<1>6. \A r \in Slots \ {s} : Untouched(r)
  BY <1>3, <1>4 DEF Handled, Refused, Rested, Rowed, Untouched
<1>7. /\ crossed \subseteq crossed'
      /\ s \in Undisturbed' /\ side # "none" => ~Resting(s)
  <2>1. CASE UNCHANGED crossed /\ (side = "none" \/ ~Resting(s))
    BY <2>1
  <2>2. CASE Crossing(s)
    <3>1. /\ crossed \subseteq crossed'
          /\ Resting(s) => [slot |-> s, placed |-> book[s].placed] \in crossed'
      BY <2>2, CrossingFacts
    <3>2. Resting(s) => s \notin Undisturbed'
      BY <3>1 DEF Undisturbed
    <3> QED
      BY <3>1, <3>2
  <2> QED
    BY <1>3, <2>1, <2>2 DEF Handled, Refused, Rested, Rowed
<1>8. Undisturbed' \subseteq Undisturbed /\ Undisturbed \subseteq Slots
  BY <1>7, UndisturbedShrinks DEF Undisturbed
<1> DEFINE b == Emitted(s, Fed(s), side)
<1>9. side # "none" =>
        /\ b \in Beliefs(Prices) /\ (b.in <=> side = "buy")
        /\ (b.entry # None <=> side = "buy" /\ s.strategy = "bollinger")
        /\ b.pending = [armed |-> TRUE, in |-> b0.in, entry |-> b0.entry]
        /\ (side = "buy" <=> ~b0.in)
  <2>1. side # "none" => (side = "buy" <=> ~b0.in)
    BY <1>2, <1>5, SignalFacts
  <2> QED
    BY <1>1, <1>2, <1>3, <1>5, <2>1, EmittedFacts
<1> HIDE DEF b
<1>10. CASE side = "none" /\ UNCHANGED <<belief, log, book, crossed, unrecorded>>
  <2>1. Untouched(s)
    BY <1>10 DEF Untouched
  <2>2. \A r \in Slots : Untouched(r)
    BY <1>6, <2>1
  <2> QED
    BY <1>3, <1>8, <2>2, UntouchedBelieves DEF BeliefInv, Untouched
<1>11. ASSUME Long(s)' => log'[s].price \in Prices,
              s \in Undisturbed' /\ RowsCount(s) /\ Believes(s) => RowsCount(s)' /\ Believes(s)'
       PROVE  BeliefInv'
  <2>1. \A r \in Slots : Long(r)' => log'[r].price \in Prices
    BY <1>6, <1>11, UntouchedBelieves DEF BeliefInv, Untouched
  <2>2. ASSUME NEW r \in Undisturbed' PROVE RowsCount(r)' /\ Believes(r)'
    <3>1. RowsCount(r) /\ Believes(r) /\ r \in Slots
      BY <1>3, <1>8, <2>2 DEF BeliefInv
    <3>2. CASE r = s
      BY <1>11, <2>2, <3>1, <3>2
    <3>3. CASE r # s
      BY <1>6, <3>1, <3>3, UntouchedBelieves
    <3> QED
      BY <3>2, <3>3
  <2> QED
    BY <2>1, <2>2 DEF BeliefInv
<1>12. CASE side # "none" /\ Refused(s, b)
  <2>1. log' = log /\ book' = book /\ unrecorded' = unrecorded
    BY <1>12 DEF Refused
  <2>2. (Long(s)' <=> Long(s)) /\ (Resting(s)' <=> Resting(s))
    BY <2>1 DEF Long, Resting
  <2>3. ASSUME s \in Undisturbed', RowsCount(s), Believes(s) PROVE RowsCount(s)' /\ Believes(s)'
    <3>1. ~Resting(s) /\ belief'[s] = Rejected(b)
      BY <1>4, <1>7, <1>12, <2>3 DEF Refused
    <3>2. belief'[s].in = b0.in /\ belief'[s].entry = b0.entry
      BY <1>9, <1>12, <3>1 DEF Rejected
    <3>3. RowsCount(s)'
      BY <2>1, <2>2, <2>3 DEF RowsCount
    <3>4. Believes(s)'
      BY <1>5, <2>1, <2>2, <2>3, <3>1, <3>2 DEF Believes
    <3> QED
      BY <3>3, <3>4
  <2>4. Long(s)' => log'[s].price \in Prices
    BY <2>1, <2>2 DEF BeliefInv
  <2> QED
    BY <1>11, <2>3, <2>4
<1>13. CASE side = "buy" /\ Rested(s, b)
  <2>1. /\ log' = log /\ belief'[s] = b /\ ~Resting(s) /\ unrecorded' = unrecorded
        /\ book'[s] = [limit |-> tick.price, placed |-> tick.at,
                        deadline |-> tick.at + MakerWait]
    BY <1>4, <1>13 DEF Rested
  <2>2. Long(s)' <=> Long(s)
    BY <2>1 DEF Long
  <2>3. Resting(s)'
    <3>1. tick.price \in Prices /\ tick.at \in Int /\ tick.at + MakerWait \in Int
      BY <1>3, SlotFacts, TimeAssumption DEF Ticks
    <3>2. book'[s] \in Entries
      BY <2>1, <3>1 DEF Entries
    <3> QED
      BY <3>2, NoneAssumption DEF Resting
  <2>4. ASSUME RowsCount(s), Believes(s) PROVE RowsCount(s)' /\ Believes(s)'
    <3>1. ~b0.in /\ ~Long(s) /\ b0.entry = None /\ s \notin unrecorded'
      BY <1>5, <1>9, <1>13, <2>1, <2>4 DEF Believes
    <3>2. RowsCount(s)'
      BY <2>1, <2>2, <2>4 DEF RowsCount
    <3>3. /\ belief'[s].in /\ belief'[s].pending.armed /\ ~belief'[s].pending.in
          /\ belief'[s].pending.entry = None
      BY <1>9, <1>13, <2>1, <3>1
    <3>4. s.strategy = "bollinger" => belief'[s].entry # None
      BY <1>9, <1>13, <2>1
    <3>5. Believes(s)'
      BY <2>2, <2>3, <3>1, <3>3, <3>4 DEF Believes
    <3> QED
      BY <3>2, <3>5
  <2>5. Long(s)' => log'[s].price \in Prices
    BY <2>1, <2>2 DEF BeliefInv
  <2> QED
    BY <1>11, <2>4, <2>5
<1>14. CASE side # "none" /\ Rowed(s, b, side)
  <2>1. /\ log'[s] = Recorded(l, side, c, 1, TRUE) /\ book' = book
        /\ belief'[s] = IF Resting(s) THEN b ELSE Filled(b)
        /\ s \notin unrecorded'
    BY <1>4, <1>5, <1>14 DEF Rowed
  <2>2. Resting(s)' <=> Resting(s)
    BY <2>1 DEF Resting
  <2>3. /\ side = "buy" => BuyOpens(l, c, log'[s])
        /\ side = "sell" => SellCloses(l, log'[s])
    BY <2>1, RowFacts
  <2>4. Long(s)' <=> side = "buy"
    BY <1>2, <1>14, <2>3 DEF BuyOpens, SellCloses, Long
  <2>5. Long(s)' => log'[s].price \in Prices
    BY <2>3, <2>4 DEF BuyOpens
  <2>6. ASSUME s \in Undisturbed', RowsCount(s), Believes(s) PROVE RowsCount(s)' /\ Believes(s)'
    <3>1. ~Resting(s) /\ belief'[s] = Filled(b)
      BY <1>7, <1>14, <2>1, <2>6
    <3>2. belief'[s].in = b.in /\ belief'[s].entry = b.entry
      BY <1>9, <1>14, <3>1 DEF Filled, Beliefs
    <3>3. Long(s) => b0.in
      BY <1>5, <2>6, <3>1 DEF Believes
    <3>4. RowsCount(s)'
      <4>1. CASE side = "buy"
        <5>1. l.open = 0 /\ Len(l.buys) = 0
          BY <1>5, <1>9, <2>6, <3>3, <4>1 DEF RowsCount
        <5> QED
          BY <2>3, <2>4, <4>1, <5>1 DEF BuyOpens, RowsCount
      <4>2. CASE side = "sell"
        <5>1. l.open <= 1 /\ Len(l.buys) <= 1
          BY <1>5, <1>9, <2>6, <3>3, <4>2 DEF RowsCount
        <5> QED
          BY <2>3, <2>4, <4>2, <5>1 DEF SellCloses, RowsCount
      <4> QED
        BY <1>2, <1>14, <4>1, <4>2
    <3>5. Believes(s)'
      BY <1>9, <1>14, <2>1, <2>2, <2>4, <3>1, <3>2 DEF Believes
    <3> QED
      BY <3>4, <3>5
  <2> QED
    BY <1>11, <2>5, <2>6
<1> QED
  BY <1>3, <1>10, <1>12, <1>13, <1>14 DEF Handled, b

\* A restart believes the last row of the log.
LEMMA RestartBelieves ==
  ASSUME TypeOK, Control, BeliefInv, Restart
  PROVE  BeliefInv'
<1>1. /\ ~up /\ log' = log /\ book' = book /\ crossed' = crossed
      /\ unrecorded' = unrecorded
      /\ belief' = [s \in Slots |->
           Restored(log[s].last, log[s].price, s.strategy = "bollinger")]
  BY DEF Restart
<1>2. \A s \in Slots : /\ ~Resting(s) /\ ~Resting(s)' /\ (Long(s)' <=> Long(s))
                       /\ s \notin unrecorded'
  BY <1>1 DEF Control, Resting, Long
<1>3. Undisturbed' = Undisturbed /\ Undisturbed \subseteq Slots
  BY <1>1 DEF Undisturbed
<1>4. ASSUME NEW s \in Slots PROVE Believes(s)'
  <2>1. CASE Long(s)
    <3>1. log[s].price # None
      BY <2>1, PriceAssumption DEF BeliefInv, None
    <3>2. belief'[s] = [Fresh EXCEPT !.in = TRUE,
                          !.entry = IF s.strategy = "bollinger" THEN log[s].price ELSE None]
      BY <1>1, <2>1 DEF Restored, Long
    <3>3. /\ belief'[s].in
          /\ belief'[s].entry = IF s.strategy = "bollinger" THEN log[s].price ELSE None
      BY <3>2 DEF Fresh
    <3> QED
      BY <1>2, <2>1, <3>1, <3>3 DEF Believes
  <2>2. CASE ~Long(s)
    <3>1. belief'[s] = Fresh
      BY <1>1, <2>2 DEF Restored, Long
    <3>2. ~belief'[s].in /\ belief'[s].entry = None
      BY <3>1 DEF Fresh
    <3> QED
      BY <1>2, <2>2, <3>2 DEF Believes
  <2> QED
    BY <2>1, <2>2
<1>5. \A s \in Slots : RowsCount(s) => RowsCount(s)'
  BY <1>1, <1>2 DEF RowsCount
<1> QED
  BY <1>1, <1>2, <1>3, <1>4, <1>5 DEF BeliefInv

\* A step that leaves the logs and the crossings alone, and ends in no belief.
LEMMA CrashBelieves ==
  ASSUME BeliefInv, Crash
  PROVE  BeliefInv'
<1>1. log' = log /\ crossed' = crossed /\ ~up'
  BY DEF Crash
<1>2. Undisturbed' = Undisturbed /\ Undisturbed \subseteq Slots
  BY <1>1 DEF Undisturbed
<1>3. \A s \in Slots : (Long(s)' <=> Long(s)) /\ (RowsCount(s) => RowsCount(s)')
  BY <1>1 DEF Long, RowsCount
<1> QED
  BY <1>1, <1>2, <1>3 DEF BeliefInv

\* With empty logs nothing is believed.
LEMMA InitBelieves ==
  ASSUME Init
  PROVE  BeliefInv
<1>1. /\ belief = [s \in Slots |-> Fresh] /\ log = [s \in Slots |-> EmptyLog]
      /\ book = [s \in Slots |-> NoEntry] /\ unrecorded = {}
  BY DEF Init
<1>2. ASSUME NEW s \in Slots PROVE ~Long(s) /\ RowsCount(s) /\ Believes(s)
  <2>1. /\ ~Long(s) /\ log[s].open = 0 /\ log[s].buys = <<>> /\ ~Resting(s)
        /\ s \notin unrecorded
    BY <1>1 DEF Long, EmptyLog, Resting
  <2>2. ~belief[s].in /\ belief[s].entry = None
    BY <1>1 DEF Fresh
  <2>3. Len(log[s].buys) = 0
    BY <2>1
  <2> QED
    BY <2>1, <2>2, <2>3 DEF RowsCount, Believes
<1> QED
  BY <1>2 DEF BeliefInv, Undisturbed

\* A strategy that never emitted over its own resting entry is long exactly when its
\* log is, or while its entry rests, or from a fill whose row could not be inserted
\* to its next row or a restart; and its rows alternate: all that keeps a simulated
\* sell from being of coin nobody bought, but for the coin of such a fill
\* (executor.py, maker.py, strategy/base.py).
THEOREM BeliefIsLog == Spec => []PaperBelief
<1>1. Init => BeliefInv
  BY InitBelieves
<1>2. TypeInv /\ BeliefInv /\ [Next]_vars => BeliefInv'
  <2> SUFFICES ASSUME TypeOK, Control, BeliefInv, [Next]_vars PROVE BeliefInv'
    BY DEF TypeInv
  <2>1. ASSUME NEW p, NEW price, NEW lost, TickOf(p, price, lost) PROVE BeliefInv'
    BY <2>1, TickBelieves
  <2>2. CASE StrategyStep
    BY <2>2, StrategyBelieves
  <2>3. CASE Crash
    BY <2>3, CrashBelieves
  <2>4. CASE Restart
    BY <2>4, RestartBelieves
  <2>5. CASE UNCHANGED vars
    BY <2>5 DEF vars, BeliefInv, Undisturbed, Long, Resting, RowsCount, Believes
  <2> QED
    BY <2>1, <2>2, <2>3, <2>4, <2>5, NextCases
<1>3. BeliefInv => PaperBelief
  <2> SUFFICES ASSUME BeliefInv, up, NEW s \in Undisturbed
               PROVE  /\ belief[s].in <=> Long(s) \/ Resting(s) \/ s \in unrecorded
                      /\ belief[s].entry # None => belief[s].in
                      /\ s.strategy = "bollinger" /\ belief[s].in => belief[s].entry # None
                      /\ Resting(s) => ~Long(s) /\ belief[s].pending.armed
                                       /\ ~belief[s].pending.in
                      /\ s \in unrecorded => ~Long(s) /\ ~Resting(s)
                      /\ log[s].open = (IF Long(s) THEN 1 ELSE 0)
                      /\ Len(log[s].buys) = log[s].open
    BY DEF PaperBelief
  <2> QED
    BY DEF BeliefInv, RowsCount, Believes
<1> QED
  BY <1>1, <1>2, <1>3, TypeCorrect, PTL DEF Spec

-----------------------------------------------------------------------------
(* CrossedAfterSilence *)

\* A strategy that has evaluated a tick no longer waits for it; nobody else has.
LEMMA WaitingFacts ==
  ASSUME TypeOK, Control, todo # <<>>, NEW s, s = Slot, Advances(s), NEW r \in Slots
  PROVE  Waiting(r)' <=> Waiting(r) /\ r # s
<1>1. /\ s \in Slots /\ s.pair = tick.pair /\ s.strategy = Head(todo) /\ Waiting(s)
  BY SlotFacts
<1>2. /\ todo' = Tail(todo) /\ ToSet(todo') = ToSet(todo) \ {Head(todo)}
  BY StageFacts DEF Advances, TypeOK
<1>3. todo' # <<>> => tick' = tick
  BY DEF Advances
<1>4. r = s <=> r.pair = s.pair /\ r.strategy = s.strategy
  BY <1>1, Strategies
<1>5. ToSet(<<>>) = {}
  BY DEF ToSet
<1>6. CASE todo' # <<>>
  BY <1>1, <1>2, <1>3, <1>4, <1>6 DEF Waiting
<1>7. CASE todo' = <<>>
  <2>1. ToSet(todo) \ {Head(todo)} = {}
    BY <1>2, <1>5, <1>7
  <2>2. Waiting(r) => r = s
    BY <1>1, <1>4, <2>1 DEF Waiting
  <2>3. ~Waiting(r)'
    BY <1>7 DEF Waiting
  <2> QED
    BY <2>2, <2>3
<1> QED
  BY <1>6, <1>7

\* The hours that begin between two times.
LEMMA OpensFacts ==
  ASSUME NEW a \in Int, NEW b \in Int, NEW c \in Int, a <= b, b <= c
  PROVE  Opens(a, b) \subseteq Opens(a, c) /\ CandleOpen(b, Hour) \in Opens(a, b)
<1>1. a..b \subseteq a..c /\ b \in a..b
  OBVIOUS
<1> QED
  BY <1>1 DEF Opens

\* A candle at an hour between when an entry was placed and now, and not at this
\* hour: the entry was placed an hour boundary ago.
LEMMA SilentHour ==
  ASSUME NEW a \in Int, NEW b \in Int, NEW t \in Opens(a, b), t # CandleOpen(b, Hour),
         b < a + MakerWait
  PROVE  (a % Hour) + MakerWait > Hour
<1>1. PICK u \in a..b : t = CandleOpen(u, Hour)
  BY DEF Opens
<1>2. u \in Int /\ a <= u /\ u <= b
  OBVIOUS
<1>3. CandleOpen(u, Hour) + Hour <= CandleOpen(b, Hour)
  BY <1>1, <1>2, OpenFacts, TimeAssumption
<1>4. CandleOpen(a, Hour) <= CandleOpen(u, Hour)
  BY <1>2, OpenFacts, TimeAssumption
<1>5. CandleOpen(b, Hour) <= b
  BY OpenFacts, TimeAssumption
<1>6. /\ CandleOpen(a, Hour) \in Int /\ CandleOpen(u, Hour) \in Int
      /\ CandleOpen(b, Hour) \in Int /\ a % Hour \in Int
      /\ Hour \in Int /\ MakerWait \in Int
  BY <1>2, OpenFacts, TimeAssumption
<1>7. CandleOpen(a, Hour) = a - (a % Hour)
  BY DEF CandleOpen
<1> QED
  BY <1>3, <1>4, <1>5, <1>6, <1>7

\* A tick: what it leaves in the book is not due.
LEMMA TickSilence ==
  ASSUME TypeOK, Control, SilenceInv, NEW p, NEW price, NEW lost, TickOf(p, price, lost)
  PROVE  SilenceInv'
<1> SUFFICES ASSUME ~stepped'
             PROVE  /\ \A c \in crossed' : c.slot.strategy # "threshold" =>
                                             (c.placed % Hour) + MakerWait > Hour
                    /\ \A s \in Slots : Resting(s)' => Rests(s)'
  BY DEF SilenceInv
<1>1. /\ ~stepped /\ ~(now' < now) /\ now' \in Int /\ now \in Int
      /\ crossed' = crossed /\ memory' = memory /\ Resolve(p, price, now', lost)
  BY DEF TickOf, TypeOK
<1>2. ASSUME NEW s \in Slots, Resting(s)' PROVE Rests(s)'
  <2>1. ResolvedSlot(s, p, price, now', lost)
    BY <1>1, ResolveFacts
  <2>2. book'[s] = book[s] /\ Resting(s) /\ ~Due(s, now') /\ book[s] \in Entries
    BY <1>2, <2>1 DEF ResolvedSlot, Resting, NoFill, TypeOK
  <2>3. Rests(s)
    BY <1>1, <2>2 DEF SilenceInv
  <2>4. now' < book[s].deadline
    BY <1>1, <2>2 DEF Due, Entries
  <2>5. book[s].placed \in Int /\ book[s].placed <= now /\ now <= now'
    BY <1>1, <2>2, <2>3 DEF Rests, Entries
  <2>6. Opens(book[s].placed, now) \subseteq Opens(book[s].placed, now')
    BY <1>1, <2>5, OpensFacts
  <2>7. book'[s].placed <= now'
    BY <1>1, <2>2, <2>5
  <2> QED
    BY <1>1, <2>2, <2>3, <2>4, <2>6, <2>7 DEF Rests, UsesHours
<1> QED
  BY <1>1, <1>2 DEF SilenceInv

\* A strategy: an entry it places is of this hour, and one it emits over was placed
\* an hour boundary ago, since its candle was completed.
LEMMA StrategySilence ==
  ASSUME TypeOK, Control, SilenceInv, StrategyStep
  PROVE  SilenceInv'
<1>1. PICK s \in Slots : s = Slot
  BY SlotFacts, StrategyFacts
<1>2. PICK side \in {"none", "buy", "sell"} : side = Signal(s, Fed(s))
  BY SignalFacts
<1>3. /\ todo # <<>> /\ Handled(s, side) /\ Advances(s)
      /\ tick \in Ticks /\ tick.at = now /\ tick.price \in Prices /\ now \in Int
  BY <1>1, <1>2, StrategyFacts, StrategyTyped, SlotFacts DEF TypeOK
<1>4. stepped' = stepped /\ now' = now /\ (todo' # <<>> => todo # <<>>)
  BY <1>3 DEF Advances
<1> SUFFICES ASSUME ~stepped
             PROVE  /\ \A c \in crossed' : c.slot.strategy # "threshold" =>
                                             (c.placed % Hour) + MakerWait > Hour
                    /\ \A r \in Slots : Resting(r)' => Rests(r)'
  BY <1>4 DEF SilenceInv
<1>5. book \in [Slots -> Entries \cup {NoEntry}]
  BY DEF TypeOK
<1>6. PICK b \in Builders : b = memory[s].hours
  BY <1>3, FedFacts
<1>7. UsesHours(s) => Ticked(b, Fed(s).hours, CandleOpen(now, Hour), tick.price)
  <2>1. UsesHours(s) => Fed(s).hours = AddTick(b, now, tick.price, Hour)
    BY <1>3, <1>6, FedFacts
  <2>2. Ticked(b, AddTick(b, now, tick.price, Hour), CandleOpen(now, Hour), tick.price)
    BY <1>3, AddTickFacts, TimeAssumption
  <2> QED
    BY <2>1, <2>2
<1>8. ASSUME NEW c \in crossed', c.slot.strategy # "threshold"
      PROVE  (c.placed % Hour) + MakerWait > Hour
  <2>1. CASE c \in crossed
    BY <1>8, <2>1 DEF SilenceInv
  <2>2. CASE c \notin crossed
    <3>1. Crossing(s) /\ side # "none"
      BY <1>3, <2>2 DEF Handled, Refused, Rested, Rowed
    <3>2. c.slot = s /\ Resting(s) /\ c.placed = book[s].placed
      BY <2>2, <3>1, CrossingFacts
    <3>3. Rests(s) /\ UsesHours(s) /\ book[s] \in Entries
      BY <1>5, <1>8, <3>2 DEF SilenceInv, UsesHours, Resting
    <3>4. Completes(b, Fed(s).hours)
      BY <1>2, <1>6, <1>8, <3>1, <3>2, SignalFacts
    <3>5. b.current.t # CandleOpen(now, Hour)
      BY <1>7, <3>3, <3>4 DEF Ticked
    <3>6. b.current.t \in Opens(book[s].placed, now)
      BY <1>6, <3>3 DEF Rests
    <3>7. now < book[s].placed + MakerWait /\ book[s].placed \in Int
      BY <1>3, <3>3 DEF Rests, Entries
    <3> QED
      BY <1>3, <3>2, <3>5, <3>6, <3>7, SilentHour
  <2> QED
    BY <2>1, <2>2
<1>9. ASSUME NEW r \in Slots, Resting(r)', book'[r] = book[r], r # s PROVE Rests(r)'
  <2>1. Resting(r) /\ memory'[r] = memory[r]
    BY <1>3, <1>9 DEF Resting, Advances
  <2>2. Rests(r)
    BY <2>1 DEF SilenceInv
  <2> QED
    BY <1>4, <1>9, <2>1, <2>2 DEF Rests, UsesHours
<1>10. ASSUME Resting(s)' PROVE Rests(s)'
  <2>1. memory'[s].hours = Fed(s).hours
    BY <1>3 DEF Advances
  <2>2. UsesHours(s) => /\ memory'[s].hours.current # NoCandle
                        /\ memory'[s].hours.current.t = CandleOpen(now, Hour)
    BY <1>7, <2>1 DEF Ticked
  <2>3. CASE book'[s] = book[s]
    <3>1. Rests(s) /\ book[s] \in Entries
      BY <1>5, <1>10, <2>3 DEF Resting, SilenceInv
    <3>2. book[s].placed \in Int /\ book[s].placed <= now
      BY <3>1 DEF Rests, Entries
    <3>3. CandleOpen(now, Hour) \in Opens(book[s].placed, now)
      BY <1>3, <3>2, OpensFacts
    <3> QED
      BY <1>4, <2>2, <2>3, <3>1, <3>3 DEF Rests, UsesHours
  <2>4. CASE Rested(s, Emitted(s, Fed(s), side))
    <3>1. book'[s] = [limit |-> tick.price, placed |-> now, deadline |-> now + MakerWait]
      BY <1>3, <1>5, <2>4 DEF Rested
    <3>2. now < now + MakerWait /\ CandleOpen(now, Hour) \in Opens(now, now)
      BY <1>3, OpensFacts, TimeAssumption
    <3>3. book'[s].placed = now /\ book'[s].deadline = now + MakerWait
      BY <3>1
    <3>4. now <= now
      BY <1>3
    <3> QED
      BY <1>4, <2>2, <3>2, <3>3, <3>4 DEF Rests, UsesHours
  <2> QED
    BY <1>3, <2>3, <2>4 DEF Handled, Refused, Rowed
<1>11. \A r \in Slots \ {s} : book'[r] = book[r]
  BY <1>3, <1>5 DEF Handled, Refused, Rested, Rowed
<1> QED
  BY <1>8, <1>9, <1>10, <1>11

\* After a death nothing rests, and a restart places nothing.
LEMMA CrashSilence ==
  ASSUME Control, SilenceInv, Crash \/ Restart
  PROVE  SilenceInv'
<1>1. crossed' = crossed /\ stepped' = stepped
  BY DEF Crash, Restart
<1>2. \A s \in Slots : ~Resting(s)'
  <2>1. CASE Crash
    BY <2>1 DEF Crash, Resting
  <2>2. CASE Restart
    BY <2>2 DEF Restart, Control, Resting
  <2> QED
    BY <2>1, <2>2
<1> QED
  BY <1>1, <1>2 DEF SilenceInv

\* A tick: threshold's entry is left to rest only if the price is above its limit,
\* and not far above.
LEMMA TickThreshold ==
  ASSUME TypeOK, ThresholdInv, NEW p, NEW price, NEW lost, TickOf(p, price, lost)
  PROVE  ThresholdInv'
<1>1. /\ crossed' = crossed /\ Resolve(p, price, now', lost)
      /\ tick'.pair = p /\ tick'.price = price /\ price \in Prices
  BY DEF TickOf
<1>2. ASSUME NEW s \in Slots, s.strategy = "threshold", Resting(s)' PROVE ThresholdRests(s)'
  <2>1. ResolvedSlot(s, p, price, now', lost)
    BY <1>1, ResolveFacts
  <2>2. /\ book'[s] = book[s] /\ Resting(s) /\ book[s] \in Entries
        /\ ~Reached(s, p, price) /\ ~Drifted(s, p, price)
    BY <1>2, <2>1 DEF ResolvedSlot, Resting, NoFill, TypeOK
  <2>3. ThresholdBuys(book[s].limit)
    BY <1>2, <2>2 DEF ThresholdInv, ThresholdRests
  <2>4. PICK a \in Nat, x \in Nat, d \in Nat :
          a = book[s].limit /\ x = price /\ d = DriftPct * book[s].limit
    <3>1. PICK a \in Nat, x \in Nat : a = book[s].limit /\ x = price
      BY <1>1, <2>2, PriceAssumption DEF Entries
    <3>2. DriftPct * a \in Nat
      BY DriftAssumption
    <3> QED
      BY <3>1, <3>2
  <2>5. s.pair = p => x > a /\ (x - a) * 100 <= d
    <3>1. s.pair = p => ~(x <= a) /\ ~(x > a /\ (x - a) * 100 > d)
      BY <2>2, <2>4 DEF Reached, Drifted
    <3> QED
      BY <3>1
  <2>6. Waiting(s)' => s.pair = p
    BY <1>1 DEF Waiting
  <2> QED
    BY <1>1, <2>2, <2>3, <2>4, <2>5, <2>6 DEF ThresholdRests
<1> QED
  BY <1>1, <1>2 DEF ThresholdInv

\* A strategy: threshold believes in its entry, so it could only sell over it, and
\* the price that sells is farther above the limit than the drift.
LEMMA StrategyThreshold ==
  ASSUME TriggersApart, TypeOK, Control, BeliefInv, ThresholdInv, StrategyStep
  PROVE  ThresholdInv'
<1>1. PICK s \in Slots : s = Slot
  BY SlotFacts, StrategyFacts
<1>2. PICK side \in {"none", "buy", "sell"} : side = Signal(s, Fed(s))
  BY SignalFacts
<1>3. /\ todo # <<>> /\ Handled(s, side) /\ Advances(s) /\ up /\ Waiting(s)
      /\ tick.price \in Prices
  BY <1>1, <1>2, StrategyFacts, StrategyTyped, SlotFacts DEF Advances
<1>4. book \in [Slots -> Entries \cup {NoEntry}]
  BY DEF TypeOK
<1>5. s.strategy = "threshold" /\ Resting(s) => side = "none"
  <2> SUFFICES ASSUME s.strategy = "threshold", Resting(s), side # "none" PROVE FALSE
    OBVIOUS
  <2>1. s \in Undisturbed
    BY DEF ThresholdInv, Undisturbed
  <2>2. belief[s].in
    BY <1>3, <2>1 DEF BeliefInv, Believes
  <2>3. ThresholdSells(tick.price)
    <3>1. Sells(s, Fed(s))
      BY <1>2, <2>2, SignalFacts
    <3> QED
      BY <3>1 DEF Sells
  <2>4. ThresholdRests(s)
    BY DEF ThresholdInv
  <2>5. PICK a \in Prices, x \in Prices : a = book[s].limit /\ x = tick.price
    BY <1>3, <1>4 DEF Resting, Entries
  <2>6. ThresholdBuys(a) /\ ThresholdSells(x) /\ x > a /\ (x - a) * 100 <= DriftPct * a
    BY <1>3, <2>3, <2>4, <2>5 DEF ThresholdRests
  <2>7. (x - a) * 100 > DriftPct * a
    BY <2>6 DEF TriggersApart
  <2>8. (x - a) * 100 \in Int /\ DriftPct * a \in Int
    BY PriceAssumption, DriftAssumption
  <2> QED
    BY <2>6, <2>7, <2>8
<1>6. ASSUME NEW c \in crossed' PROVE c.slot.strategy # "threshold"
  <2>1. CASE c \in crossed
    BY <2>1 DEF ThresholdInv
  <2>2. CASE c \notin crossed
    <3>1. Crossing(s) /\ side # "none"
      BY <1>3, <2>2 DEF Handled, Refused, Rested, Rowed
    <3>2. c.slot = s /\ Resting(s)
      BY <2>2, <3>1, CrossingFacts
    <3> QED
      BY <1>5, <3>1, <3>2
  <2> QED
    BY <2>1, <2>2
<1>7. ASSUME NEW r \in Slots, r.strategy = "threshold", Resting(r)' PROVE ThresholdRests(r)'
  <2>1. Waiting(r)' <=> Waiting(r) /\ r # s
    BY <1>1, <1>3, WaitingFacts
  <2>2. Waiting(r)' => tick' = tick
    BY <1>3 DEF Waiting, Advances
  <2>3. CASE book'[r] = book[r]
    <3>1. ThresholdRests(r)
      BY <1>7, <2>3 DEF Resting, ThresholdInv
    <3> QED
      BY <2>1, <2>2, <2>3, <3>1 DEF ThresholdRests
  <2>4. CASE r = s /\ side = "buy" /\ Rested(s, Emitted(s, Fed(s), side))
    <3>1. book'[s].limit = tick.price
      BY <1>4, <2>4 DEF Rested
    <3>2. ThresholdBuys(tick.price)
      <4>1. Buys(s, Fed(s))
        BY <1>2, <2>4, SignalFacts
      <4> QED
        BY <1>7, <2>4, <4>1 DEF Buys
    <3> QED
      BY <2>1, <2>4, <3>1, <3>2 DEF ThresholdRests
  <2> QED
    BY <1>3, <1>4, <2>3, <2>4 DEF Handled, Refused, Rested, Rowed
<1> QED
  BY <1>6, <1>7 DEF ThresholdInv

\* With a clock that does not step back, a strategy emits over its resting entry
\* only if the entry was placed less than MakerWait before the end of its hour and
\* the feed was silent over that end (maker.py, trader.py); threshold never does,
\* if its triggers are farther apart than the drift that ends an entry.
THEOREM CrossingNeedsSilence ==
  ASSUME TriggersApart
  PROVE  Spec => []CrossedAfterSilence
<1> DEFINE Inv == BeliefInv /\ SilenceInv /\ ThresholdInv
<1>1. Init => Inv
  <2> SUFFICES ASSUME Init PROVE SilenceInv /\ ThresholdInv
    BY InitBelieves
  <2>1. crossed = {} /\ \A s \in Slots : ~Resting(s)
    BY DEF Init, Resting
  <2> QED
    BY <2>1 DEF SilenceInv, ThresholdInv
<1>2. TypeInv /\ Inv /\ [Next]_vars => Inv'
  <2> SUFFICES ASSUME TypeOK, Control, BeliefInv, SilenceInv, ThresholdInv, [Next]_vars
               PROVE  BeliefInv' /\ SilenceInv' /\ ThresholdInv'
    BY DEF TypeInv
  <2>1. ASSUME NEW p, NEW price, NEW lost, TickOf(p, price, lost)
        PROVE  BeliefInv' /\ SilenceInv' /\ ThresholdInv'
    BY <2>1, TickBelieves, TickSilence, TickThreshold
  <2>2. CASE StrategyStep
    BY <2>2, StrategyBelieves, StrategySilence, StrategyThreshold
  <2>3. CASE Crash \/ Restart
    <3>1. BeliefInv' /\ SilenceInv'
      BY <2>3, CrashBelieves, RestartBelieves, CrashSilence
    <3>2. crossed' = crossed /\ \A s \in Slots : ~Resting(s)'
      BY <2>3 DEF Crash, Restart, Control, Resting
    <3> QED
      BY <3>1, <3>2 DEF ThresholdInv
  <2>4. CASE UNCHANGED vars
    BY <2>4 DEF vars, BeliefInv, Undisturbed, Long, Resting, RowsCount, Believes,
                SilenceInv, Rests, ThresholdInv, ThresholdRests, Waiting
  <2> QED
    BY <2>1, <2>2, <2>3, <2>4, NextCases
<1>3. Inv => CrossedAfterSilence
  BY DEF SilenceInv, ThresholdInv, CrossedAfterSilence
<1> QED
  BY <1>1, <1>2, <1>3, TypeCorrect, PTL DEF Spec

-----------------------------------------------------------------------------
(* CandlesAreTheTicks *)

\* A table that stays, or gets the candle of the hour before the last one seen.
Grows(T, U, S, o) ==
  \/ U = T
  \/ \E c \in CandleSet :
       /\ U = Append(T, c) /\ AllBefore(T, c.t) /\ c.t < o
       /\ Len(S) > 1 /\ S[Len(S) - 1] = [t |-> c.t, price |-> c.close]

\* Such a table stays in order, before the hour, and matches what was seen.
LEMMA GrowsKeeps ==
  ASSUME NEW T \in Seq(CandleSet), NEW U, NEW S \in Seq(Notes), NEW o \in Int,
         InOrder(T), AllBefore(T, o), InOrder(S), Matches(S, T), Grows(T, U, S, o)
  PROVE  InOrder(U) /\ AllBefore(U, o) /\ Matches(S, U)
<1>1. CASE U = T
  BY <1>1
<1>2. CASE \E c \in CandleSet :
             /\ U = Append(T, c) /\ AllBefore(T, c.t) /\ c.t < o
             /\ Len(S) > 1 /\ S[Len(S) - 1] = [t |-> c.t, price |-> c.close]
  <2>1. PICK c \in CandleSet :
          /\ U = Append(T, c) /\ AllBefore(T, c.t) /\ c.t < o
          /\ Len(S) > 1 /\ S[Len(S) - 1] = [t |-> c.t, price |-> c.close]
    BY <1>2
  <2>2. /\ Len(U) = Len(T) + 1 /\ U[Len(T) + 1] = c /\ Len(T) \in Nat /\ Len(S) \in Nat
        /\ \A i \in 1..Len(T) : U[i] = T[i] /\ T[i] \in CandleSet /\ T[i].t \in Int
        /\ c.t \in Int /\ \A i \in 1..Len(S) : S[i].t \in Int
    <3>1. /\ Len(Append(T, c)) = Len(T) + 1 /\ Append(T, c)[Len(T) + 1] = c
          /\ \A i \in 1..Len(T) : Append(T, c)[i] = T[i]
      OBVIOUS
    <3>2. /\ \A i \in 1..Len(T) : T[i] \in CandleSet
          /\ \A i \in 1..Len(S) : S[i] \in Notes
      OBVIOUS
    <3>3. /\ \A x \in CandleSet : x.t \in Int
          /\ \A x \in Notes : x.t \in Int
      BY DEF CandleSet, Notes
    <3>4. Len(T) \in Nat /\ Len(S) \in Nat
      OBVIOUS
    <3> QED
      BY <2>1, <3>1, <3>2, <3>3, <3>4
  <2>3. InOrder(U)
    <3> SUFFICES ASSUME NEW i \in 1..Len(U), NEW j \in 1..Len(U), i < j
                 PROVE  U[i].t < U[j].t
      BY DEF InOrder
    <3>1. i \in 1..Len(T) /\ (j \in 1..Len(T) \/ j = Len(T) + 1)
      <4>1. Len(U) = Len(T) + 1 /\ Len(T) \in Nat
        BY <2>2
      <4>2. i \in 1..Len(T) + 1 /\ j \in 1..Len(T) + 1
        BY <4>1
      <4> QED
        BY <4>1, <4>2
    <3>2. CASE j \in 1..Len(T)
      BY <2>2, <3>1, <3>2 DEF InOrder
    <3>3. CASE j = Len(T) + 1
      BY <2>1, <2>2, <3>1, <3>3 DEF AllBefore
    <3> QED
      BY <3>1, <3>2, <3>3
  <2>4. AllBefore(U, o)
    <3> SUFFICES ASSUME NEW i \in 1..Len(U) PROVE U[i].t < o
      BY DEF AllBefore
    <3>1. CASE i \in 1..Len(T)
      BY <2>2, <3>1 DEF AllBefore
    <3>2. CASE i = Len(T) + 1
      BY <2>1, <2>2, <3>2
    <3> QED
      BY <2>2, <3>1, <3>2
  <2>5. Matches(S, U)
    <3> SUFFICES ASSUME NEW i \in 1..Len(S), NEW j \in 1..Len(U), U[j].t = S[i].t
                 PROVE  U[j].close = S[i].price
      BY DEF Matches
    <3>1. CASE j \in 1..Len(T)
      BY <2>2, <3>1 DEF Matches
    <3>2. CASE j = Len(T) + 1
      <4>1. U[j] = c /\ S[i].t = S[Len(S) - 1].t /\ S[Len(S) - 1].t = c.t
        BY <2>1, <2>2, <3>2
      <4>2. Len(S) - 1 \in 1..Len(S) /\ i \in Int
        BY <2>1, <2>2
      <4>3. i = Len(S) - 1
        <5>1. ~(i < Len(S) - 1) /\ ~(Len(S) - 1 < i)
          BY <2>2, <4>1, <4>2, SMTT(30) DEF InOrder
        <5> QED
          BY <2>2, <4>2, <5>1
      <4> QED
        BY <2>1, <4>1, <4>3
    <3> QED
      BY <2>2, <3>1, <3>2
  <2> QED
    BY <2>3, <2>4, <2>5
<1> QED
  BY <1>1, <1>2 DEF Grows

\* A slot of p that uses hours is told by its strategy.
LEMMA HourSlotFacts ==
  ASSUME NEW p, NEW r \in HourSlots(p), NEW s \in HourSlots(p)
  PROVE  r \in Slots /\ r.pair = p /\ (r = s <=> r.strategy = s.strategy)
<1>1. r \in Slots /\ s \in Slots /\ r.pair = p /\ s.pair = p
  BY DEF HourSlots
<1> QED
  BY <1>1, Strategies

\* What a strategy finds when its turn comes: nothing of it is completed by the
\* tick, or its candle is, and joins the table unless another has put it there.
TurnOf(s, p, c, Q, M, T, S, o, price) ==
  /\ p \in Pairs /\ c \in CandleSet \cup {NoCandle} /\ T \in Seq(CandleSet)
  /\ S \in Seq(Notes) /\ o \in Int /\ price \in Prices
  /\ M \in [Slots -> Memories] /\ AllBefore(T, o)
  /\ s \in HourSlots(p) /\ s.strategy \in Q
  /\ During(p, c, Q, M, T, S, o, price)

\* What it leaves for the others.
LEMMA TurnFacts ==
  ASSUME NEW s, NEW p, NEW c, NEW Q, NEW M, NEW T, NEW S, NEW o, NEW price,
         TurnOf(s, p, c, Q, M, T, S, o, price),
         NEW N \in [Slots -> Memories], \A r \in Slots \ {s} : N[r] = M[r],
         Ticked(M[s].hours, N[s].hours, o, price),
         NEW U, U = Kept(T, M[s].hours, N[s].hours)
  PROVE  /\ Grows(T, U, S, o)
         /\ During(p, c, Q \ {s.strategy}, N, U, S, o, price)
<1>1. /\ p \in Pairs /\ c \in CandleSet \cup {NoCandle} /\ T \in Seq(CandleSet)
      /\ S \in Seq(Notes) /\ o \in Int /\ price \in Prices
      /\ M \in [Slots -> Memories] /\ AllBefore(T, o)
      /\ s \in HourSlots(p) /\ s \in Slots /\ s.strategy \in Q
      /\ During(p, c, Q, M, T, S, o, price)
  BY DEF TurnOf, HourSlots
<1>2. PICK b \in Builders, d \in Builders : b = M[s].hours /\ d = N[s].hours
  BY <1>1 DEF Memories
<1>3. /\ Ticked(b, d, o, price) /\ d.done = (IF Completes(b, d) THEN Append(b.done, b.current) ELSE b.done)
      /\ d.current = Advanced(b.current, o, price)
      /\ (Completes(b, d) <=> b.current # NoCandle /\ b.current.t # o)
      /\ b.done \in Seq(CandleSet) /\ d.done \in Seq(CandleSet)
  BY <1>2 DEF Ticked, Builders
<1>4. U = Kept(T, b, d)
  BY <1>2
<1>5. ASSUME NEW r \in HourSlots(p)
      PROVE  /\ r \in Slots /\ (r = s <=> r.strategy = s.strategy)
             /\ (r # s => N[r] = M[r])
             /\ (r.strategy \in Q \ {s.strategy} <=> r.strategy \in Q /\ r # s)
             /\ M[r].hours.done \in Seq(CandleSet)
  BY <1>1, HourSlotFacts DEF Memories, Builders
<1>6. CASE Nothing(p, c, Q, M, T, o, price)
  <2>1. b.current = c /\ Ends(b.done, T) /\ (c # NoCandle => c.t = o)
    BY <1>1, <1>2, <1>6 DEF Nothing
  <2>2. d.done = b.done /\ U = T
    BY <1>3, <1>4, <2>1 DEF Kept
  <2>3. ASSUME NEW r \in HourSlots(p)
        PROVE  /\ Ends(N[r].hours.done, U)
               /\ N[r].hours.current = IF r.strategy \in Q \ {s.strategy}
                                       THEN c ELSE Advanced(c, o, price)
    <3>1. CASE r = s
      BY <1>2, <1>3, <1>5, <2>1, <2>2, <3>1
    <3>2. CASE r # s
      BY <1>5, <1>6, <2>2, <3>2 DEF Nothing
    <3> QED
      BY <3>1, <3>2
  <2>4. Nothing(p, c, Q \ {s.strategy}, N, U, o, price)
    BY <2>1, <2>3 DEF Nothing
  <2> QED
    BY <2>2, <2>4 DEF During, Grows
<1>7. ASSUME c # NoCandle, c.t < o, Len(S) > 1,
             S[Len(S) - 1] = [t |-> c.t, price |-> c.close]
      PROVE  /\ c \in CandleSet /\ c.t \in Int
             /\ b.current = c => /\ Completes(b, d) /\ d.done = Append(b.done, c)
                                 /\ d.current = FirstTick(o, price)
                                 /\ U = Stored(T, c)
  <2>1. c \in CandleSet /\ c.t \in Int /\ c.t # o
    BY <1>1, <1>7 DEF CandleSet
  <2>2. ASSUME b.current = c
        PROVE  /\ Completes(b, d) /\ d.done = Append(b.done, c)
               /\ d.current = FirstTick(o, price) /\ U = Stored(T, c)
    <3>1. Completes(b, d) /\ d.done = Append(b.done, c)
      BY <1>3, <1>7, <2>1, <2>2
    <3>2. Last(d.done) = c
      BY <1>3, <2>2, <3>1 DEF Ticked
    <3>3. d.current = FirstTick(o, price)
      BY <1>3, <2>1, <2>2 DEF Advanced
    <3> QED
      BY <1>4, <3>1, <3>2, <3>3 DEF Kept
  <2> QED
    BY <2>1, <2>2
<1>8. CASE /\ c # NoCandle /\ c.t < o
           /\ Len(S) > 1 /\ S[Len(S) - 1] = [t |-> c.t, price |-> c.close]
           /\ Unstored(p, c, Q, M, T)
  <2>1. b.current = c /\ Ends(b.done, T) /\ AllBefore(T, c.t)
    BY <1>1, <1>2, <1>8 DEF Unstored
  <2>2. \A i \in 1..Len(T) : T[i].t \in Int
    <3>1. \A i \in 1..Len(T) : T[i] \in CandleSet
      BY <1>1
    <3> QED
      BY <3>1 DEF CandleSet
  <2>3. c \in CandleSet /\ c.t \in Int /\ U = Stored(T, c) /\ d.done = Append(b.done, c)
        /\ d.current = FirstTick(o, price)
    BY <1>7, <1>8, <2>1
  <2>4. U = Append(T, c)
    BY <1>1, <2>1, <2>2, <2>3, StoredLast
  <2>5. /\ Front(U) = T /\ U # <<>> /\ U[Len(U)] = c /\ Ends(Append(b.done, c), U)
    <3>1. Len(U) = Len(T) + 1 /\ U[Len(T) + 1] = c
      BY <1>1, <2>3, <2>4, EndsFacts
    <3> QED
      BY <1>1, <1>3, <2>1, <2>3, <2>4, <3>1, EndsFacts, SMTT(30)
  <2>6. ASSUME NEW r \in HourSlots(p)
        PROVE  IF r.strategy \in Q \ {s.strategy}
               THEN N[r].hours.current = c /\ Ends(N[r].hours.done, Front(U))
               ELSE N[r].hours.current = FirstTick(o, price) /\ Ends(N[r].hours.done, U)
    <3>1. CASE r = s
      BY <1>2, <1>5, <2>3, <2>5, <3>1
    <3>2. CASE r # s
      BY <1>5, <1>8, <2>5, <3>2 DEF Unstored
    <3> QED
      BY <3>1, <3>2
  <2>7. Already(p, c, Q \ {s.strategy}, N, U, o, price)
    BY <2>5, <2>6 DEF Already
  <2> QED
    BY <1>8, <2>1, <2>3, <2>4, <2>7 DEF During, Grows
<1>9. CASE /\ c # NoCandle /\ c.t < o
           /\ Len(S) > 1 /\ S[Len(S) - 1] = [t |-> c.t, price |-> c.close]
           /\ Already(p, c, Q, M, T, o, price)
  <2>1. /\ b.current = c /\ Ends(b.done, Front(T)) /\ T # <<>> /\ T[Len(T)] = c
    BY <1>1, <1>2, <1>9 DEF Already
  <2>2. c \in CandleSet /\ U = Stored(T, c) /\ d.done = Append(b.done, c)
        /\ d.current = FirstTick(o, price)
    BY <1>7, <1>9, <2>1
  <2>3. U = T
    BY <1>1, <2>1, <2>2, StoredAgain
  <2>4. Ends(Append(b.done, c), T)
    <3>1. PICK F \in Seq(CandleSet) : F = Front(T) /\ Append(F, c) = T
      BY <1>1, <1>3, <2>1, <2>2, EndsFacts
    <3>2. Ends(Append(b.done, c), Append(F, c))
      BY <1>3, <2>1, <2>2, <3>1, EndsFacts
    <3> QED
      BY <3>1, <3>2
  <2>5. ASSUME NEW r \in HourSlots(p)
        PROVE  IF r.strategy \in Q \ {s.strategy}
               THEN N[r].hours.current = c /\ Ends(N[r].hours.done, Front(U))
               ELSE N[r].hours.current = FirstTick(o, price) /\ Ends(N[r].hours.done, U)
    <3>1. CASE r = s
      BY <1>2, <1>5, <2>2, <2>3, <2>4, <3>1
    <3>2. CASE r # s
      BY <1>5, <1>9, <2>3, <3>2 DEF Already
    <3> QED
      BY <3>1, <3>2
  <2>6. Already(p, c, Q \ {s.strategy}, N, U, o, price)
    BY <2>1, <2>3, <2>5 DEF Already
  <2> QED
    BY <1>9, <2>3, <2>6 DEF During, Grows
<1> QED
  BY <1>1, <1>6, <1>8, <1>9 DEF During

\* When all have had their turn the builders are even again, at the candle of the
\* tick.
LEMMA AllTurned ==
  ASSUME NEW p \in Pairs, NEW c \in CandleSet \cup {NoCandle}, NEW M, NEW T,
         NEW S \in Seq(Notes), NEW o \in Int, NEW price \in Prices,
         AllBefore(T, o), S # <<>>, S[Len(S)] = [t |-> o, price |-> price],
         During(p, c, {}, M, T, S, o, price)
  PROVE  Even(p, M[PullbackOf(p)].hours.current, M, T, S)
<1>1. PullbackOf(p) \in HourSlots(p)
  BY Strategies
<1> DEFINE e == M[PullbackOf(p)].hours.current
<1>2. Advanced(c, o, price).t = o /\ Advanced(c, o, price).close = price
      /\ FirstTick(o, price).t = o /\ FirstTick(o, price).close = price
  <2>1. FirstTick(o, price).t = o /\ FirstTick(o, price).close = price
    BY DEF FirstTick
  <2>2. CASE c # NoCandle /\ c.t = o
    <3>1. c \in CandleSet
      BY <2>2
    <3>2. LaterTick(c, price).t = c.t /\ LaterTick(c, price).close = price
      BY <3>1 DEF LaterTick, CandleSet
    <3> QED
      BY <2>1, <2>2, <3>2 DEF Advanced
  <2>3. CASE ~(c # NoCandle /\ c.t = o)
    BY <2>1, <2>3 DEF Advanced
  <2> QED
    BY <2>2, <2>3
<1>3. \A s \in HourSlots(p) : M[s].hours.current = e /\ Ends(M[s].hours.done, T)
  <2>1. CASE Nothing(p, c, {}, M, T, o, price)
    BY <1>1, <2>1 DEF Nothing
  <2>2. CASE Unstored(p, c, {}, M, T)
    BY <1>1, <2>2 DEF Unstored
  <2>3. CASE Already(p, c, {}, M, T, o, price)
    BY <1>1, <2>3 DEF Already
  <2> QED
    BY <2>1, <2>2, <2>3 DEF During
<1>4. e.t = o /\ e.close = price
  <2>1. CASE Nothing(p, c, {}, M, T, o, price)
    BY <1>1, <1>2, <2>1 DEF Nothing
  <2>2. CASE Unstored(p, c, {}, M, T)
    BY <1>1, <2>2 DEF Unstored
  <2>3. CASE Already(p, c, {}, M, T, o, price)
    BY <1>1, <1>2, <2>3 DEF Already
  <2> QED
    BY <2>1, <2>2, <2>3 DEF During
<1> QED
  BY <1>3, <1>4 DEF Even

\* What the invariant is about.
LEMMA CandleTypes ==
  ASSUME TypeOK, NEW p \in Pairs
  PROVE  /\ Hours(p) \in Seq(CandleSet) /\ seen[p] \in Seq(Notes) /\ Open \in Int
         /\ Carried(p) \in CandleSet \cup {NoCandle}
<1>1. Hours(p) \in Seq(CandleSet) /\ seen[p] \in Seq(Notes)
  BY DEF TypeOK, Histories, Hours
<1>2. Open \in Int
  BY OpenFacts, TimeAssumption DEF TypeOK, Open
<1>3. PullbackOf(p) \in Slots
  BY Strategies DEF HourSlots
<1>4. Carried(p) \in CandleSet \cup {NoCandle}
  BY <1>3 DEF TypeOK, Memories, Builders, Carried
<1> QED
  BY <1>1, <1>2, <1>4

\* A strategy that uses no hours changes nothing for those that do.
LEMMA SameTurn ==
  ASSUME NEW p, NEW c, NEW Q, NEW R, NEW M, NEW N, NEW T, NEW S, NEW o, NEW price,
         During(p, c, Q, M, T, S, o, price),
         \A r \in HourSlots(p) : N[r] = M[r] /\ (r.strategy \in R <=> r.strategy \in Q)
  PROVE  During(p, c, R, N, T, S, o, price)
<1>1. Nothing(p, c, Q, M, T, o, price) => Nothing(p, c, R, N, T, o, price)
  <2> SUFFICES ASSUME Nothing(p, c, Q, M, T, o, price) PROVE Nothing(p, c, R, N, T, o, price)
    OBVIOUS
  <2>1. ASSUME NEW r \in HourSlots(p)
        PROVE  /\ Ends(N[r].hours.done, T)
               /\ N[r].hours.current = IF r.strategy \in R THEN c ELSE Advanced(c, o, price)
    BY <2>1 DEF Nothing
  <2> QED
    BY <2>1 DEF Nothing
<1>2. Unstored(p, c, Q, M, T) => Unstored(p, c, R, N, T)
  BY DEF Unstored
<1>3. Already(p, c, Q, M, T, o, price) => Already(p, c, R, N, T, o, price)
  <2> SUFFICES ASSUME Already(p, c, Q, M, T, o, price) PROVE Already(p, c, R, N, T, o, price)
    OBVIOUS
  <2>1. ASSUME NEW r \in HourSlots(p)
        PROVE  IF r.strategy \in R
               THEN N[r].hours.current = c /\ Ends(N[r].hours.done, Front(T))
               ELSE N[r].hours.current = FirstTick(o, price) /\ Ends(N[r].hours.done, T)
    BY <2>1 DEF Already
  <2> QED
    BY <2>1 DEF Already
<1> QED
  BY <1>1, <1>2, <1>3 DEF During

\* What the evaluation of a tick by s does to the table U and the builders N.
Turned(p, s, N, U) ==
  /\ InOrder(U) /\ AllBefore(U, Open) /\ Matches(seen[p], U)
  /\ During(p, Carried(p), ToSet(todo) \ {s.strategy}, N, U, seen[p], Open, tick.price)

\* It stores what it completed, if it completed anything.
LEMMA TurnKeeps ==
  ASSUME TypeOK, Control, CandleInv, ~stepped, todo # <<>>, NEW s, s = Slot,
         NEW p, p = s.pair
  PROVE  Turned(p, s, [memory EXCEPT ![s] = Fed(s)],
                Kept(Hours(p), memory[s].hours, Fed(s).hours))
<1>1. /\ s \in Slots /\ s.strategy = Head(todo) /\ tick \in Ticks /\ tick.at = now
      /\ tick.price \in Prices /\ p = tick.pair /\ p \in Pairs
  BY SlotFacts
<1>2. s.strategy \in ToSet(todo)
  BY <1>1, StageFacts DEF TypeOK
<1>3. History(p) /\ Building(p)
  BY <1>1 DEF CandleInv, Control
<1>4. PICK T \in Seq(CandleSet), S \in Seq(Notes), o \in Int, c \in CandleSet \cup {NoCandle} :
        T = Hours(p) /\ S = seen[p] /\ o = Open /\ c = Carried(p)
  BY <1>1, CandleTypes
<1>5. PICK M \in [Slots -> Memories] : M = memory
  BY DEF TypeOK
<1>6. PICK m \in Memories : m = Fed(s)
  BY <1>1, FedFacts
<1>7. PICK N \in [Slots -> Memories] : N = [M EXCEPT ![s] = m]
  BY <1>1
<1>8. N[s] = m /\ \A r \in Slots \ {s} : N[r] = M[r]
  BY <1>1, <1>7
<1>9. PICK U : U = Kept(T, M[s].hours, N[s].hours)
  OBVIOUS
<1>10. InOrder(T) /\ AllBefore(T, o) /\ InOrder(S) /\ Matches(S, T)
  BY <1>3, <1>4 DEF History
<1>11. During(p, c, ToSet(todo), M, T, S, o, tick.price)
  BY <1>1, <1>3, <1>4, <1>5 DEF Building
<1>12. /\ Grows(T, U, S, o)
       /\ During(p, c, ToSet(todo) \ {s.strategy}, N, U, S, o, tick.price)
  <2>1. CASE UsesHours(s)
    <3>1. TurnOf(s, p, c, ToSet(todo), M, T, S, o, tick.price)
      BY <1>1, <1>2, <1>10, <1>11, <2>1 DEF TurnOf, HourSlots
    <3>2. Ticked(M[s].hours, N[s].hours, o, tick.price)
      <4>1. PICK b \in Builders : b = M[s].hours
        BY <1>1 DEF Memories
      <4>2. N[s].hours = AddTick(b, now, tick.price, Hour)
        BY <1>1, <1>5, <1>6, <1>8, <2>1, <4>1, FedFacts
      <4>3. Ticked(b, AddTick(b, now, tick.price, Hour), CandleOpen(now, Hour), tick.price)
        BY <1>1, AddTickFacts, TimeAssumption DEF TypeOK
      <4> QED
        BY <1>4, <4>1, <4>2, <4>3 DEF Open
    <3> QED
      BY <1>8, <1>9, <3>1, <3>2, TurnFacts, ZenonT(30)
  <2>2. CASE ~UsesHours(s)
    <3>1. ~Completes(memory[s].hours, Fed(s).hours)
      BY <2>2, CompletedFacts
    <3>2. U = T
      BY <1>5, <1>6, <1>8, <1>9, <3>1 DEF Kept
    <3>3. \A r \in HourSlots(p) :
            /\ N[r] = M[r]
            /\ (r.strategy \in ToSet(todo) \ {s.strategy} <=> r.strategy \in ToSet(todo))
      <4> SUFFICES ASSUME NEW r \in HourSlots(p)
                   PROVE  r \in Slots \ {s} /\ r.strategy # s.strategy
        BY <1>8
      <4> QED
        BY <2>2 DEF HourSlots, UsesHours
    <3> QED
      BY <1>11, <3>2, <3>3, SameTurn DEF Grows
  <2> QED
    BY <2>1, <2>2
<1>13. InOrder(U) /\ AllBefore(U, o) /\ Matches(S, U)
  BY <1>10, <1>12, GrowsKeeps
<1> QED
  BY <1>4, <1>5, <1>6, <1>7, <1>8, <1>9, <1>12, <1>13 DEF Turned

\* Even and During say nothing of the strategies of other pairs.
LEMMA EvenElsewhere ==
  ASSUME NEW p \in Pairs, NEW c, NEW M, NEW N, NEW T, NEW S, Even(p, c, M, T, S),
         \A r \in HourSlots(p) : N[r] = M[r]
  PROVE  Even(p, c, N, T, S)
  BY DEF Even

\* A strategy.
LEMMA StrategyCandles ==
  ASSUME TypeOK, Control, CandleInv, StrategyStep
  PROVE  CandleInv'
<1>1. PICK s \in Slots : s = Slot
  BY SlotFacts, StrategyFacts
<1>2. /\ todo # <<>> /\ Advances(s) /\ up /\ stepped' = stepped /\ now' = now /\ seen' = seen
      /\ s.pair = tick.pair /\ s.strategy = Head(todo)
      /\ tick.price \in Prices /\ tick \in Ticks
  BY <1>1, StrategyFacts, StrategyTyped, SlotFacts DEF Advances
<1>3. Open' = Open
  BY <1>2 DEF Open, CandleOpen
<1>4. memory' = [memory EXCEPT ![s] = Fed(s)] /\ table' = BothKept(s, Fed(s))
      /\ todo' = Tail(todo) /\ tick' = (IF todo' = <<>> THEN NoTick ELSE tick)
      /\ (\A r \in Slots \ {s} : memory'[r] = memory[r]) /\ memory' \in [Slots -> Memories]
  BY <1>2 DEF Advances
<1> SUFFICES ASSUME ~stepped, NEW p \in Pairs
             PROVE  History(p)' /\ Building(p)'
  BY <1>2 DEF CandleInv
<1>5. History(p) /\ Building(p)
  BY <1>2 DEF CandleInv
<1>6. CASE p # s.pair
  <2>1. Hours(p)' = Hours(p)
    BY <1>1, <1>2, <1>4, <1>6, TableFacts DEF Hours
  <2>2. \A r \in HourSlots(p) : memory'[r] = memory[r]
    BY <1>4, <1>6 DEF HourSlots
  <2>3. Carried(p)' = Carried(p)
    BY <2>2, Strategies DEF Carried, PullbackOf
  <2>4. Even(p, Carried(p), memory, Hours(p), seen[p])
    BY <1>2, <1>5, <1>6 DEF Building
  <2>5. Even(p, Carried(p), memory', Hours(p), seen[p])
    BY <2>2, <2>4, EvenElsewhere
  <2>6. todo' = <<>> \/ tick'.pair # p
    BY <1>2, <1>4, <1>6
  <2>7. History(p)'
    BY <1>2, <1>3, <1>5, <2>1 DEF History
  <2>8. Building(p)'
    BY <1>2, <2>1, <2>3, <2>5, <2>6 DEF Building
  <2> QED
    BY <2>7, <2>8
<1>7. CASE p = s.pair
  <2>1. Hours(p)' = Kept(Hours(p), memory[s].hours, Fed(s).hours)
    BY <1>1, <1>2, <1>4, <1>7, TableFacts DEF Hours
  <2>2. Turned(p, s, memory', Hours(p)')
    BY <1>1, <1>2, <1>4, <1>7, <2>1, TurnKeeps
  <2>3. PICK U : U = Hours(p)'
    OBVIOUS
  <2>4. /\ InOrder(U) /\ AllBefore(U, Open) /\ Matches(seen[p], U)
        /\ During(p, Carried(p), ToSet(todo) \ {s.strategy}, memory', U, seen[p],
                  Open, tick.price)
    BY <2>2, <2>3 DEF Turned
  <2>5. ToSet(todo') = ToSet(todo) \ {s.strategy}
        /\ (todo' = <<>> <=> s.strategy = "trend_pullback")
    BY <1>2, <1>4, StageFacts DEF TypeOK
  <2>6. /\ seen[p] # <<>>
        /\ seen[p][Len(seen[p])] = [t |-> Open, price |-> tick.price]
    BY <1>2, <1>5, <1>7 DEF Building
  <2>7. History(p)'
    BY <1>2, <1>3, <1>5, <2>3, <2>4 DEF History
  <2>8. CASE todo' = <<>>
    <3>1. ToSet(todo') = {}
      BY <2>8 DEF ToSet
    <3>2. PICK o \in Int, c \in CandleSet \cup {NoCandle}, S \in Seq(Notes) :
            o = Open /\ c = Carried(p) /\ S = seen[p]
      BY CandleTypes
    <3>3. Even(p, memory'[PullbackOf(p)].hours.current, memory', U, S)
      BY <1>2, <2>4, <2>5, <2>6, <3>1, <3>2, AllTurned
    <3>4. Carried(p)' = memory'[PullbackOf(p)].hours.current
      BY DEF Carried, PullbackOf
    <3> QED
      BY <1>2, <2>3, <2>7, <2>8, <3>2, <3>3, <3>4 DEF Building
  <2>9. CASE todo' # <<>>
    <3>1. tick' = tick /\ PullbackOf(p) \in Slots \ {s}
      BY <1>4, <2>5, <2>9, Strategies DEF PullbackOf, HourSlots
    <3>2. Carried(p)' = Carried(p)
      BY <1>4, <3>1 DEF Carried, PullbackOf
    <3> QED
      BY <1>2, <1>3, <1>7, <2>3, <2>4, <2>5, <2>6, <2>7, <2>9, <3>1, <3>2 DEF Building
  <2> QED
    BY <2>8, <2>9
<1> QED
  BY <1>6, <1>7

\* What is seen of a pair once a tick of hour o, at price, is: in order, up to that
\* hour, with the prices of the table, and the hour before is the one that was last.
SeenUpTo(S, R, T, o, price) ==
  /\ InOrder(R) /\ (\A i \in 1..Len(R) : R[i].t <= o) /\ Matches(R, T)
  /\ R # <<>> /\ R[Len(R)] = [t |-> o, price |-> price]
  /\ S # <<>> => \/ S[Len(S)].t = o
                 \/ S[Len(S)].t < o /\ Len(R) > 1 /\ R[Len(R) - 1] = S[Len(S)]

\* That it is.
LEMMA SeenFacts ==
  ASSUME NEW S \in Seq(Notes), NEW T \in Seq(CandleSet), NEW o \in Int, NEW at \in Int,
         NEW price \in Prices, o <= CandleOpen(at, Hour),
         InOrder(S), \A i \in 1..Len(S) : S[i].t <= o, AllBefore(T, o), Matches(S, T)
  PROVE  SeenUpTo(S, Noted(S, at, price), T, CandleOpen(at, Hour), price)
<1>1. PICK h \in Int : h = CandleOpen(at, Hour)
  BY OpenFacts, TimeAssumption
<1>2. PICK n \in Notes : n = [t |-> h, price |-> price] /\ n.t = h
  <2>1. [t |-> h, price |-> price] \in Notes
    BY DEF Notes
  <2> QED
    BY <2>1
<1>3. PICK R \in Seq(Notes) : R = Noted(S, at, price) /\ R # <<>>
  BY NotedFacts
<1>4. \/ R = Append(S, n) /\ (S # <<>> => S[Len(S)].t # h)
      \/ S # <<>> /\ S[Len(S)].t = h /\ R = Append(Front(S), n)
  BY <1>1, <1>2, <1>3, NotedFacts
<1>5. /\ Len(S) \in Nat /\ (S # <<>> => Len(S) \in 1..Len(S))
      /\ \A i \in 1..Len(S) : S[i] \in Notes /\ S[i].t \in Int
  <2>1. \A i \in 1..Len(S) : S[i] \in Notes
    OBVIOUS
  <2>2. \A x \in Notes : x.t \in Int
    BY DEF Notes
  <2> QED
    BY <2>1, <2>2
<1>6. PICK k \in 0..Len(S) :
        /\ Len(R) = k + 1 /\ R[k + 1] = n
        /\ \A i \in 1..k : R[i] = S[i] /\ S[i].t < h
        /\ S # <<>> => S[Len(S)].t = h \/ (S[Len(S)].t < h /\ k = Len(S))
  <2>1. CASE R = Append(S, n) /\ (S # <<>> => S[Len(S)].t # h)
    <3>1. /\ Len(R) = Len(S) + 1 /\ R[Len(S) + 1] = n
          /\ \A i \in 1..Len(S) : R[i] = S[i]
      BY <2>1
    <3>2. S # <<>> => S[Len(S)].t < h
      BY <1>1, <1>5, <2>1
    <3>3. ASSUME NEW i \in 1..Len(S) PROVE S[i].t < h
      <4>1. S # <<>> /\ (i = Len(S) \/ i < Len(S))
        BY <1>5
      <4>2. i < Len(S) => S[i].t < S[Len(S)].t
        BY <1>5, <4>1 DEF InOrder
      <4> QED
        BY <1>5, <3>2, <4>1, <4>2
    <3>4. Len(S) \in 0..Len(S)
      BY <1>5
    <3> QED
      BY <3>1, <3>2, <3>3, <3>4
  <2>2. CASE S # <<>> /\ S[Len(S)].t = h /\ R = Append(Front(S), n)
    <3>1. PICK j \in Nat : j = Len(S) - 1 /\ j < Len(S)
      BY <1>5, <2>2
    <3>2. PICK F \in Seq(Notes) : F = Front(S) /\ Len(F) = j /\ \A i \in 1..j : F[i] = S[i]
      <4>1. Front(S) = SubSeq(S, 1, j)
        BY <3>1 DEF Front
      <4>2. /\ SubSeq(S, 1, j) \in Seq(Notes) /\ Len(SubSeq(S, 1, j)) = j
            /\ \A i \in 1..j : SubSeq(S, 1, j)[i] = S[i]
        BY <1>5, <3>1
      <4> QED
        BY <4>1, <4>2
    <3>3. /\ Len(Append(F, n)) = j + 1 /\ Append(F, n)[j + 1] = n
          /\ \A i \in 1..j : Append(F, n)[i] = F[i]
      BY <3>2
    <3>4. ASSUME NEW i \in 1..j PROVE S[i].t < h
      <4>1. i \in 1..Len(S) /\ Len(S) \in 1..Len(S) /\ i < Len(S)
        BY <1>5, <2>2, <3>1
      <4>2. S[i].t < S[Len(S)].t
        BY <4>1 DEF InOrder
      <4> QED
        BY <2>2, <4>2
    <3>5. j \in 0..Len(S)
      BY <1>5, <3>1
    <3> QED
      BY <2>2, <3>2, <3>3, <3>4, <3>5
  <2> QED
    BY <1>4, <2>1, <2>2
<1>7. k \in Nat /\ \A i \in 1..Len(R) : (i \in 1..k \/ i = k + 1) /\ (i < k + 1 => i \in 1..k)
  BY <1>5, <1>6
<1>8. InOrder(R)
  <2> SUFFICES ASSUME NEW i \in 1..Len(R), NEW j \in 1..Len(R), i < j
               PROVE  R[i].t < R[j].t
    BY DEF InOrder
  <2>1. i \in 1..k
    BY <1>6, <1>7
  <2>2. CASE j \in 1..k
    <3>1. S[i].t < S[j].t
      BY <1>5, <1>6, <2>1, <2>2, SMTT(30) DEF InOrder
    <3> QED
      BY <1>6, <2>1, <2>2, <3>1
  <2>3. CASE j = k + 1
    BY <1>2, <1>6, <2>1, <2>3
  <2> QED
    BY <1>7, <2>2, <2>3
<1>9. ASSUME NEW i \in 1..Len(R) PROVE R[i].t <= h
  <2>1. CASE i \in 1..k
    <3>1. R[i] = S[i] /\ S[i].t < h /\ S[i].t \in Int
      BY <1>5, <1>6, <2>1
    <3> QED
      BY <3>1
  <2>2. CASE i = k + 1
    BY <1>2, <1>6, <2>2
  <2> QED
    BY <1>7, <2>1, <2>2
<1>10. Matches(R, T)
  <2> SUFFICES ASSUME NEW i \in 1..Len(R), NEW j \in 1..Len(T), T[j].t = R[i].t
               PROVE  T[j].close = R[i].price
    BY DEF Matches
  <2>1. CASE i \in 1..k
    <3>1. R[i] = S[i] /\ i \in 1..Len(S)
      BY <1>5, <1>6, <2>1
    <3> QED
      BY <3>1 DEF Matches
  <2>2. CASE i = k + 1
    <3>1. T[j].t = h /\ T[j].t < o
      BY <1>2, <1>6, <2>2 DEF AllBefore
    <3> QED
      BY <1>1, <3>1
  <2> QED
    BY <1>7, <2>1, <2>2
<1>11. R[Len(R)] = [t |-> h, price |-> price]
  BY <1>2, <1>6
<1>12. S # <<>> => \/ S[Len(S)].t = h
                   \/ S[Len(S)].t < h /\ Len(R) > 1 /\ R[Len(R) - 1] = S[Len(S)]
  <2> SUFFICES ASSUME S # <<>>, S[Len(S)].t # h
               PROVE  S[Len(S)].t < h /\ Len(R) > 1 /\ R[Len(R) - 1] = S[Len(S)]
    OBVIOUS
  <2>1. S[Len(S)].t < h /\ k = Len(S) /\ k \in 1..k
    BY <1>5, <1>6
  <2> QED
    BY <1>6, <2>1
<1> QED
  BY <1>1, <1>3, <1>8, <1>9, <1>10, <1>11, <1>12 DEF SeenUpTo

\* From even builders to the turns of a tick.
LEMMA EvenTurns ==
  ASSUME NEW p \in Pairs, NEW c \in CandleSet \cup {NoCandle}, NEW M, NEW T, NEW S,
         NEW R, NEW o \in Int, NEW price, Even(p, c, M, T, S), SeenUpTo(S, R, T, o, price)
  PROVE  During(p, c, ToSet(AllStrategies), M, T, R, o, price)
<1>1. \A s \in HourSlots(p) : s.strategy \in ToSet(AllStrategies)
  BY Strategies DEF HourSlots
<1>2. CASE c = NoCandle \/ c.t = o
  <2>1. Nothing(p, c, ToSet(AllStrategies), M, T, o, price)
    BY <1>1, <1>2 DEF Nothing, Even
  <2> QED
    BY <2>1 DEF During
<1>3. CASE c # NoCandle /\ c.t # o
  <2>1. /\ S # <<>> /\ S[Len(S)] = [t |-> c.t, price |-> c.close] /\ AllBefore(T, c.t)
    BY <1>3 DEF Even
  <2>2. S[Len(S)].t = c.t
    BY <2>1
  <2>3. c.t < o /\ Len(R) > 1 /\ R[Len(R) - 1] = [t |-> c.t, price |-> c.close]
    BY <1>3, <2>1, <2>2 DEF SeenUpTo
  <2>4. Unstored(p, c, ToSet(AllStrategies), M, T)
    BY <1>1, <2>1 DEF Unstored, Even
  <2> QED
    BY <1>3, <2>3, <2>4 DEF During
<1> QED
  BY <1>2, <1>3

\* A tick.
LEMMA TickCandles ==
  ASSUME TypeOK, Control, CandleInv, NEW p, NEW price, NEW lost, TickOf(p, price, lost)
  PROVE  CandleInv'
<1>1. /\ p \in Pairs /\ price \in Prices /\ now' \in Int /\ now \in Int
      /\ up /\ todo = <<>> /\ todo' = AllStrategies /\ todo' # <<>>
      /\ tick' = [pair |-> p, at |-> now', price |-> price]
      /\ stepped' = (stepped \/ now' < now)
      /\ seen' = [seen EXCEPT ![p] = Noted(seen[p], now', price)]
      /\ memory' = memory /\ table' = table
  BY DEF TickOf, TypeOK, AllStrategies
<1> SUFFICES ASSUME ~stepped', NEW q \in Pairs
             PROVE  History(q)' /\ Building(q)'
  BY DEF CandleInv
<1>2. ~stepped /\ now <= now'
  <2>1. ~(stepped \/ now' < now)
    BY <1>1, Zenon
  <2>2. ~stepped /\ ~(now' < now)
    BY <2>1, Zenon
  <2> QED
    BY <1>1, <2>2
<1>3. Open' = CandleOpen(now', Hour) /\ Open' \in Int /\ Open <= Open'
  <2>1. PICK a \in Int, b \in Int : a = now /\ b = now' /\ a <= b
    BY <1>1, <1>2
  <2>2. CandleOpen(b, Hour) \in Int /\ CandleOpen(a, Hour) <= CandleOpen(b, Hour)
    BY <2>1, OpenFacts, TimeAssumption
  <2>3. Open' = CandleOpen(now', Hour)
    BY DEF Open, CandleOpen
  <2>4. Open' = CandleOpen(b, Hour)
    BY <2>1 DEF Open, CandleOpen
  <2>5. Open = CandleOpen(a, Hour)
    BY <2>1 DEF Open, CandleOpen
  <2> QED
    BY <2>2, <2>3, <2>4, <2>5
<1>4. History(q) /\ Building(q)
  BY <1>1, <1>2 DEF CandleInv
<1>5. Even(q, Carried(q), memory, Hours(q), seen[q])
  BY <1>1, <1>4 DEF Building
<1>6. Hours(q)' = Hours(q) /\ Carried(q)' = Carried(q)
  BY <1>1 DEF Hours, Carried, PullbackOf
<1>7. PICK T \in Seq(CandleSet), S \in Seq(Notes), o \in Int, c \in CandleSet \cup {NoCandle} :
        T = Hours(q) /\ S = seen[q] /\ o = Open /\ c = Carried(q)
  BY CandleTypes
<1>8. /\ InOrder(T) /\ AllBefore(T, o) /\ InOrder(S) /\ (\A i \in 1..Len(S) : S[i].t <= o)
      /\ Matches(S, T)
  BY <1>4, <1>7 DEF History
<1>9. PICK h \in Int : h = Open' /\ o <= h /\ h = CandleOpen(now', Hour)
  BY <1>3, <1>7
<1>10. AllBefore(T, h)
  <2>1. \A i \in 1..Len(T) : T[i].t \in Int
    <3>1. \A i \in 1..Len(T) : T[i] \in CandleSet
      OBVIOUS
    <3> QED
      BY <3>1 DEF CandleSet
  <2> QED
    BY <1>8, <1>9, <2>1 DEF AllBefore
<1>11. CASE q # p
  <2>1. seen'[q] = S
    BY <1>1, <1>7, <1>11
  <2>2. \A i \in 1..Len(S) : S[i].t <= h
    <3>1. \A i \in 1..Len(S) : S[i] \in Notes
      OBVIOUS
    <3>2. \A i \in 1..Len(S) : S[i].t \in Int
      BY <3>1 DEF Notes
    <3> QED
      BY <1>8, <1>9, <3>2
  <2>3. History(q)'
    BY <1>6, <1>7, <1>8, <1>9, <1>10, <2>1, <2>2 DEF History
  <2>4. Building(q)'
    BY <1>1, <1>5, <1>6, <1>7, <1>11, <2>1 DEF Building
  <2> QED
    BY <2>3, <2>4
<1>12. CASE q = p
  <2>1. PICK R : R = Noted(S, now', price)
    OBVIOUS
  <2>2. seen'[q] = R
    <3>1. seen \in [Pairs -> Seq(Notes)]
      BY DEF TypeOK
    <3> QED
      BY <1>1, <1>7, <1>12, <2>1, <3>1
  <2>3. SeenUpTo(S, R, T, h, price)
    <3>1. PICK at \in Int : at = now'
      BY <1>1
    <3> QED
      BY <1>1, <1>8, <1>9, <2>1, <3>1, SeenFacts
  <2>4. During(q, c, ToSet(AllStrategies), memory, T, R, h, price)
    BY <1>5, <1>7, <2>3, EvenTurns
  <2>5. History(q)'
    BY <1>6, <1>7, <1>8, <1>9, <1>10, <2>2, <2>3 DEF History, SeenUpTo
  <2>6. tick'.pair = q /\ tick'.price = price
    BY <1>1, <1>12
  <2>7. Building(q)'
    BY <1>1, <1>6, <1>7, <1>9, <2>2, <2>3, <2>4, <2>6 DEF Building, SeenUpTo
  <2> QED
    BY <2>5, <2>7
<1> QED
  BY <1>11, <1>12

\* A death: what the strategy that died had stored, it had stored as it should.
LEMMA CrashCandles ==
  ASSUME TypeOK, Control, CandleInv, Crash
  PROVE  CandleInv'
<1>1. ~up' /\ stepped' = stepped /\ now' = now /\ seen' = seen
  BY DEF Crash
<1>2. Open' = Open
  BY <1>1 DEF Open, CandleOpen
<1> SUFFICES ASSUME ~stepped, NEW p \in Pairs
             PROVE  History(p)'
  BY <1>1 DEF CandleInv
<1>3. History(p)
  BY DEF CandleInv
<1>4. CASE Hours(p)' = Hours(p)
  BY <1>1, <1>2, <1>3, <1>4 DEF History
<1>5. CASE Hours(p)' # Hours(p)
  <2>1. /\ todo # <<>> /\ p = Slot.pair
        /\ Hours(p)' = Kept(Hours(p), memory[Slot].hours, Fed(Slot).hours)
    <3>1. PICK s : s = Slot
      OBVIOUS
    <3>2. \/ table' = table
          \/ todo # <<>> /\ table' = HoursKept(s, Fed(s))
          \/ todo # <<>> /\ table' = BothKept(s, Fed(s))
      BY <3>1, CrashTable
    <3>3. table' # table
      BY <1>5 DEF Hours
    <3>4. todo # <<>>
      BY <3>2, <3>3
    <3>5. p # s.pair => table'[p] = table[p]
      BY <3>1, <3>2, <3>4, TableFacts
    <3>6. p = s.pair => table'[p].hours = Kept(table[p].hours, memory[s].hours, Fed(s).hours)
      BY <3>1, <3>2, <3>3, <3>4, TableFacts
    <3> QED
      BY <1>5, <3>1, <3>4, <3>5, <3>6 DEF Hours
  <2>2. PICK U : U = Hours(p)'
    OBVIOUS
  <2>3. PICK s : s = Slot
    OBVIOUS
  <2>4. Turned(p, s, [memory EXCEPT ![s] = Fed(s)], U)
    BY <2>1, <2>2, <2>3, TurnKeeps
  <2>5. InOrder(U) /\ AllBefore(U, Open) /\ Matches(seen[p], U)
    BY <2>4 DEF Turned
  <2> QED
    BY <1>1, <1>2, <1>3, <2>2, <2>5 DEF History
<1> QED
  BY <1>4, <1>5

\* A restart: every memory is what the table ends with, and no candle is open.
LEMMA RestartCandles ==
  ASSUME TypeOK, Control, CandleInv, Restart
  PROVE  CandleInv'
<1>1. /\ ~up /\ stepped' = stepped /\ now' = now /\ seen' = seen /\ table' = table
      /\ todo' = todo /\ memory' = [s \in Slots |-> RestoredMemory(s, table)]
      /\ todo = <<>>
  BY DEF Restart, Control
<1>2. Open' = Open
  BY <1>1 DEF Open, CandleOpen
<1> SUFFICES ASSUME ~stepped, NEW p \in Pairs
             PROVE  History(p)' /\ Building(p)'
  BY <1>1 DEF CandleInv
<1>3. History(p)' /\ Hours(p)' = Hours(p)
  BY <1>1, <1>2 DEF CandleInv, History, Hours
<1>4. table \in [Pairs -> Histories]
  BY DEF TypeOK
<1>5. \A s \in HourSlots(p) : /\ memory'[s].hours.current = NoCandle
                              /\ Ends(memory'[s].hours.done, Hours(p))
  <2> SUFFICES ASSUME NEW s \in HourSlots(p)
               PROVE  /\ memory'[s].hours.current = NoCandle
                      /\ Ends(memory'[s].hours.done, Hours(p))
    OBVIOUS
  <2>1. s \in Slots /\ s.pair = p /\ UsesHours(s)
    BY DEF HourSlots
  <2>2. memory'[s] = RestoredMemory(s, table)
    BY <1>1, <2>1
  <2> QED
    BY <1>4, <2>1, <2>2, RestoredFacts DEF Hours
<1>6. Carried(p)' = NoCandle
  BY <1>5, Strategies DEF Carried, PullbackOf
<1>7. Even(p, NoCandle, memory', Hours(p), seen[p])
  BY <1>5 DEF Even
<1> QED
  BY <1>1, <1>3, <1>6, <1>7 DEF Building

\* Hours are in the order of their numbers, an hour apart.
LEMMA HourProducts ==
  ASSUME NEW x \in Int, NEW y \in Int, x < y
  PROVE  x * Hour \in Int /\ y * Hour \in Int /\ x * Hour + Hour <= y * Hour
<1>1. PICK n \in Nat \ {0} : n = Hour
  BY TimeAssumption
<1>2. x * n \in Int /\ y * n \in Int /\ y - x \in Int /\ y - x >= 1
  OBVIOUS
<1>3. \A k \in Int : k >= 1 => k * n >= n
  OBVIOUS
<1>4. (y - x) * n >= n
  BY <1>2, <1>3
<1>5. (y - x) * n = y * n - x * n
  OBVIOUS
<1> QED
  BY <1>1, <1>2, <1>4, <1>5

\* A stored history ends before the hour of its end.
LEMMA SeedCandles ==
  ASSUME NEW seed \in Seq(Prices), NEW at \in Int, Len(seed) * Hour <= at
  PROVE  InOrder(HoursOf(seed)) /\ AllBefore(HoursOf(seed), CandleOpen(at, Hour))
<1>1. PICK n \in Nat \ {0}, l \in Nat : n = Hour /\ l = Len(seed)
  BY TimeAssumption
<1>2. /\ Len(HoursOf(seed)) = l
      /\ \A i \in 1..l : HoursOf(seed)[i].t = (i - 1) * Hour
  <2>1. HoursOf(seed) = [i \in 1..l |-> FirstTick((i - 1) * Hour, seed[i])]
    BY <1>1 DEF HoursOf
  <2> QED
    BY <1>1, <2>1 DEF FirstTick
<1>3. InOrder(HoursOf(seed))
  <2> SUFFICES ASSUME NEW i \in 1..l, NEW j \in 1..l, i < j
               PROVE  (i - 1) * Hour < (j - 1) * Hour
    BY <1>2 DEF InOrder
  <2>1. PICK x \in Int, y \in Int : x = i - 1 /\ y = j - 1 /\ x < y
    OBVIOUS
  <2>2. x * Hour \in Int /\ y * Hour \in Int /\ x * Hour + Hour <= y * Hour
    BY <2>1, HourProducts
  <2>3. x * Hour < y * Hour
    <3>1. PICK v \in Int, w \in Int, h \in Nat \ {0} : v = x * Hour /\ w = y * Hour /\ h = Hour
      BY <2>2, TimeAssumption
    <3> QED
      BY <2>2, <3>1
  <2> QED
    BY <2>1, <2>3
<1>4. PICK o \in Int, a \in Int : o = CandleOpen(at, Hour) /\ a = at \div n
  <2>1. CandleOpen(at, Hour) \in Int
    BY OpenFacts, TimeAssumption
  <2>2. at \div n \in Int
    OBVIOUS
  <2> QED
    BY <2>1, <2>2
<1>5. o = a * Hour /\ at < o + Hour
  <2>1. at = n * (at \div n) + (at % n)
    OBVIOUS
  <2>2. o = at - (at % n)
    BY <1>1, <1>4 DEF CandleOpen
  <2>3. n * a = a * n /\ n * a \in Int /\ at % n \in 0..n - 1
    OBVIOUS
  <2> QED
    BY <1>1, <1>4, <2>1, <2>2, <2>3
<1>6. l <= a
  <2> SUFFICES ASSUME a < l PROVE FALSE
    OBVIOUS
  <2>1. a * Hour \in Int /\ l * Hour \in Int /\ a * Hour + Hour <= l * Hour
    BY HourProducts
  <2> QED
    BY <1>1, <1>5, <2>1
<1>7. ASSUME NEW i \in 1..l PROVE (i - 1) * Hour < o
  <2>1. PICK x \in Int : x = i - 1 /\ x < a
    BY <1>6
  <2>2. x * Hour \in Int /\ a * Hour \in Int /\ x * Hour + Hour <= a * Hour
    BY <2>1, HourProducts
  <2>3. x * Hour < o
    <3>1. PICK v \in Int, h \in Nat \ {0} : v = x * Hour /\ h = Hour
      BY <2>2, TimeAssumption
    <3> QED
      BY <1>5, <2>2, <3>1
  <2> QED
    BY <2>1, <2>3
<1> QED
  BY <1>2, <1>3, <1>4, <1>7 DEF AllBefore

\* In the beginning nothing is seen.
LEMMA InitCandles ==
  ASSUME Init
  PROVE  CandleInv
<1>1. TypeOK /\ Control
  BY InitTyped
<1>2. PICK seed : Starts(seed)
  BY StartFacts
<1> SUFFICES ASSUME NEW p \in Pairs PROVE History(p) /\ Building(p)
  BY DEF CandleInv
<1>3. PICK q \in Seq(Prices) : q = seed[p] /\ Len(q) * Hour <= now
  BY <1>2 DEF Starts, Start
<1>4. Hours(p) = HoursOf(q)
  BY <1>2, <1>3 DEF Starts, Hours
<1>5. InOrder(HoursOf(q)) /\ AllBefore(HoursOf(q), CandleOpen(now, Hour))
  BY <1>1, <1>3, SeedCandles DEF TypeOK
<1>6. /\ seen[p] = <<>> /\ todo = <<>> /\ memory = [s \in Slots |-> RestoredMemory(s, table)]
  BY DEF Init
<1>7. Len(seen[p]) = 0
  BY <1>6
<1>8. History(p)
  BY <1>4, <1>5, <1>7 DEF History, InOrder, Matches, Open
<1>9. table \in [Pairs -> Histories]
  BY <1>1 DEF TypeOK
<1>10. \A s \in HourSlots(p) : /\ memory[s].hours.current = NoCandle
                               /\ Ends(memory[s].hours.done, Hours(p))
  <2> SUFFICES ASSUME NEW s \in HourSlots(p)
               PROVE  /\ memory[s].hours.current = NoCandle
                      /\ Ends(memory[s].hours.done, Hours(p))
    OBVIOUS
  <2>1. s \in Slots /\ s.pair = p /\ UsesHours(s)
    BY DEF HourSlots
  <2>2. memory[s] = RestoredMemory(s, table)
    BY <1>6, <2>1
  <2> QED
    BY <1>9, <2>1, <2>2, RestoredFacts DEF Hours
<1>11. Carried(p) = NoCandle
  BY <1>10, Strategies DEF Carried
<1>12. Even(p, NoCandle, memory, Hours(p), seen[p])
  BY <1>10 DEF Even
<1> QED
  BY <1>6, <1>8, <1>11, <1>12 DEF Building

\* What a strategy has completed is what the table ends with, but for a candle the
\* tick has just completed.
LEMMA TurnEnds ==
  ASSUME NEW p, NEW c, NEW Q, NEW M, NEW T \in Seq(CandleSet), NEW S, NEW o, NEW price,
         NEW s \in HourSlots(p), During(p, c, Q, M, T, S, o, price),
         c \in CandleSet \cup {NoCandle}
  PROVE  \/ Ends(M[s].hours.done, T)
         \/ T # <<>> /\ Front(T) \in Seq(CandleSet) /\ Ends(M[s].hours.done, Front(T))
<1>1. CASE Nothing(p, c, Q, M, T, o, price)
  BY <1>1 DEF Nothing
<1>2. CASE Unstored(p, c, Q, M, T)
  BY <1>2 DEF Unstored
<1>3. CASE Already(p, c, Q, M, T, o, price) /\ c # NoCandle
  <2>1. T # <<>> /\ T[Len(T)] = c /\ c \in CandleSet
    BY <1>3 DEF Already
  <2>2. Front(T) \in Seq(CandleSet)
    <3>1. <<>> \in Seq(CandleSet)
      OBVIOUS
    <3> QED
      BY <2>1, <3>1, EndsFacts
  <2> QED
    BY <1>3, <2>1, <2>2 DEF Already
<1> QED
  BY <1>1, <1>2, <1>3 DEF During

\* The property.
LEMMA CandlesFollow ==
  ASSUME TypeOK, Control, CandleInv
  PROVE  CandlesAreTheTicks
<1> SUFFICES ASSUME ~stepped
             PROVE  /\ \A p \in Pairs : \A i \in DOMAIN seen[p] :
                         \A c \in ToSet(table[p].hours) :
                           c.t = seen[p][i].t => c.close = seen[p][i].price
                    /\ up => \A s \in Slots :
                         UsesHours(s) =>
                           \/ IsSuffix(memory[s].hours.done, table[s.pair].hours)
                           \/ /\ tick # NoTick /\ table[s.pair].hours # <<>>
                              /\ IsSuffix(memory[s].hours.done, Front(table[s.pair].hours))
  BY DEF CandlesAreTheTicks
<1>1. ASSUME NEW p \in Pairs, NEW i \in DOMAIN seen[p], NEW c \in ToSet(table[p].hours),
             c.t = seen[p][i].t
      PROVE  c.close = seen[p][i].price
  <2>1. PICK T \in Seq(CandleSet), S \in Seq(Notes) : T = table[p].hours /\ S = seen[p]
    BY CandleTypes DEF Hours
  <2>2. Matches(S, T)
    BY <2>1 DEF CandleInv, History, Hours
  <2>3. PICK j \in 1..Len(T) : c = T[j]
    BY <2>1 DEF ToSet
  <2>4. i \in 1..Len(S)
    BY <2>1
  <2> QED
    BY <1>1, <2>1, <2>2, <2>3, <2>4 DEF Matches
<1>2. ASSUME up, NEW s \in Slots, UsesHours(s)
      PROVE  \/ IsSuffix(memory[s].hours.done, table[s.pair].hours)
             \/ /\ tick # NoTick /\ table[s.pair].hours # <<>>
                /\ IsSuffix(memory[s].hours.done, Front(table[s.pair].hours))
  <2>1. PICK p \in Pairs : p = s.pair /\ s \in HourSlots(p)
    BY <1>2, Strategies DEF HourSlots
  <2>2. PICK T \in Seq(CandleSet), c \in CandleSet \cup {NoCandle} :
          T = table[p].hours /\ T = Hours(p) /\ c = Carried(p)
    BY CandleTypes DEF Hours
  <2>3. PICK d \in Seq(CandleSet) : d = memory[s].hours.done
    BY DEF TypeOK, Memories, Builders
  <2>4. Building(p)
    BY <1>2 DEF CandleInv
  <2>5. CASE todo = <<>> \/ tick.pair # p
    <3>1. Ends(d, T)
      BY <2>1, <2>2, <2>3, <2>4, <2>5 DEF Building, Even
    <3> QED
      BY <2>1, <2>2, <2>3, <3>1, SuffixIs
  <2>6. CASE ~(todo = <<>> \/ tick.pair # p)
    <3>1. During(p, c, ToSet(todo), memory, T, seen[p], Open, tick.price)
      BY <2>2, <2>4, <2>6 DEF Building
    <3>2. \/ Ends(d, T)
          \/ T # <<>> /\ Front(T) \in Seq(CandleSet) /\ Ends(d, Front(T))
      BY <2>1, <2>2, <2>3, <3>1, TurnEnds
    <3>3. tick # NoTick
      BY <2>6 DEF Control
    <3> QED
      BY <2>1, <2>2, <2>3, <3>2, <3>3, SuffixIs
  <2> QED
    BY <2>5, <2>6
<1> QED
  BY <1>1, <1>2

\* With a clock that does not step back, the candles in every memory are the last
\* of the table, and each closed at the last price of its hour, over deaths between
\* any two steps and over restarts (candles.py, database.py, Trader.restore).
THEOREM CandlesAreTicks == Spec => []CandlesAreTheTicks
<1>1. Init => CandleInv
  BY InitCandles
<1>2. TypeInv /\ CandleInv /\ [Next]_vars => CandleInv'
  <2> SUFFICES ASSUME TypeOK, Control, CandleInv, [Next]_vars PROVE CandleInv'
    BY DEF TypeInv
  <2>1. ASSUME NEW p, NEW price, NEW lost, TickOf(p, price, lost) PROVE CandleInv'
    BY <2>1, TickCandles
  <2>2. CASE StrategyStep
    BY <2>2, StrategyCandles
  <2>3. CASE Crash
    BY <2>3, CrashCandles
  <2>4. CASE Restart
    BY <2>4, RestartCandles
  <2>5. CASE UNCHANGED vars
    <3>1. UNCHANGED <<stepped, up, todo, tick, memory, table, seen, now>>
      BY <2>5 DEF vars
    <3>2. \A p \in Pairs : (History(p) => History(p)') /\ (Building(p) => Building(p)')
      BY <3>1 DEF History, Building, Hours, Carried, PullbackOf, Open, CandleOpen
    <3> QED
      BY <3>1, <3>2 DEF CandleInv
  <2> QED
    BY <2>1, <2>2, <2>3, <2>4, <2>5, NextCases
<1>3. TypeInv /\ CandleInv => CandlesAreTheTicks
  BY CandlesFollow DEF TypeInv
<1> QED
  BY <1>1, <1>2, <1>3, TypeCorrect, PTL DEF Spec
=============================================================================
