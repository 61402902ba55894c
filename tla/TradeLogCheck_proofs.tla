------------------------ MODULE TradeLogCheck_proofs ------------------------
(***************************************************************************)
(* Proofs that the folds of TradeLog and OpenPositions compute what        *)
(* TradeLogCheck defines from the rows, for every table, every quantity    *)
(* and every number of days.                                               *)
(*                                                                         *)
(* A greatest tail grows row by row, and so does the count of open buys,   *)
(* which is the greatest tail of a table with +1 for a buy and -1 for a    *)
(* sell: that is what makes a walk that floors at every sell equal to a    *)
(* definition that looks at the whole table.                               *)
(***************************************************************************)
EXTENDS TradeLogCheck, TradeLog_proofs, SequenceTheorems

(* Greatest elements of what a function takes on an interval *)

\* There is one.
LEMMA IntervalMax ==
  ASSUME NEW n \in Nat, NEW f, \A j \in 0..n : f[j] \in Int
  PROVE  \E j \in 0..n : \A k \in 0..n : f[k] <= f[j]
<1> DEFINE G == {m \in Nat : m <= n => \E j \in 0..m : \A k \in 0..m : f[k] <= f[j]}
<1>1. 0 \in G
  <2>1. f[0] \in Int
    OBVIOUS
  <2> QED
    BY <2>1
<1>2. ASSUME NEW m \in Nat, m \in G PROVE m + 1 \in G
  <2> SUFFICES ASSUME m + 1 <= n
               PROVE  \E j \in 0..(m + 1) : \A k \in 0..(m + 1) : f[k] <= f[j]
    OBVIOUS
  <2>1. PICK j \in 0..m : \A k \in 0..m : f[k] <= f[j]
    BY <1>2
  <2>2. f[j] \in Int /\ f[m + 1] \in Int /\ \A k \in 0..m : f[k] \in Int
    OBVIOUS
  <2>3. \A k \in 0..(m + 1) : k \in 0..m \/ k = m + 1
    OBVIOUS
  <2>4. CASE f[m + 1] <= f[j]
    BY <2>1, <2>2, <2>3, <2>4
  <2>5. CASE f[j] < f[m + 1]
    BY <2>1, <2>2, <2>3, <2>5
  <2> QED
    BY <2>2, <2>4, <2>5
<1> HIDE DEF G
<1>3. n \in G
  BY <1>1, <1>2, NatInductive
<1> QED
  BY <1>3 DEF G

\* a is the greatest of f[0] to f[n].
IsGreatest(a, f, n) ==
  /\ a \in Int
  /\ \E j \in 0..n : a = f[j]
  /\ \A j \in 0..n : f[j] <= a

\* Max is it.
LEMMA MaxOverFacts ==
  ASSUME NEW n \in Nat, NEW f, \A j \in 0..n : f[j] \in Int
  PROVE  IsGreatest(Max({f[j] : j \in 0..n}), f, n)
<1>1. PICK j \in 0..n : \A k \in 0..n : f[k] <= f[j]
  BY IntervalMax
<1>2. PICK S : S = {f[k] : k \in 0..n}
  OBVIOUS
<1>3. S \subseteq Int /\ f[j] \in S /\ \A x \in S : x <= f[j]
  BY <1>1, <1>2
<1>4. Max(S) = f[j]
  BY <1>3, MaxIs
<1> QED
  BY <1>1, <1>2, <1>4 DEF IsGreatest

\* f sums the tails of n rows and g those of one more, which counts for x: the
\* greatest tail is the sum with x, or the empty tail.
LEMMA GreatestGrows ==
  ASSUME NEW n \in Nat, NEW x \in Int, NEW f, NEW g,
         \A j \in 0..n : f[j] \in Int /\ g[j] = f[j] + x,
         f[n] = 0, g[n + 1] = 0,
         NEW a, IsGreatest(a, f, n), NEW b, IsGreatest(b, g, n + 1)
  PROVE  /\ a \in Nat
         /\ b = IF a + x > 0 THEN a + x ELSE 0
<1>1. a \in Int /\ b \in Int
  BY DEF IsGreatest
<1>2. PICK u \in 0..n : a = f[u]
  BY DEF IsGreatest
<1>3. PICK v \in 0..(n + 1) : b = g[v]
  BY DEF IsGreatest
<1>4. 0 <= a /\ 0 <= b
  BY DEF IsGreatest
<1>5. a + x <= b
  BY <1>1, <1>2 DEF IsGreatest
<1>6. b = 0 \/ b <= a + x
  <2>1. CASE v = n + 1
    BY <1>3, <2>1
  <2>2. CASE v # n + 1
    <3>1. v \in 0..n /\ f[v] \in Int /\ f[v] <= a
      BY <2>2 DEF IsGreatest
    <3> QED
      BY <1>1, <1>3, <3>1
  <2> QED
    BY <2>1, <2>2
<1> QED
  BY <1>1, <1>4, <1>5, <1>6

-----------------------------------------------------------------------------
(* Counting the open buys: B are the buys, S the sells *)

\* The rows of T after j, up to n.
Slice(T, j, n) == {k \in T : k > j /\ k <= n}

Excess(B, S, n, j) == Cardinality(Slice(B, j, n)) - Cardinality(Slice(S, j, n))

Open(B, S, n) == Max({Excess(B, S, n, j) : j \in 0..n})

\* How many buys there are from b to n.
From(B, n, b) == Cardinality({k \in B : b <= k /\ k <= n})

Oldest(B, n, c) == CHOOSE b \in B : b <= n /\ From(B, n, b) = c

\* A row joins the slices that start before it.
LEMMA SliceFacts ==
  ASSUME NEW T, \A k \in T : k \in Nat \ {0}, NEW n \in Nat, NEW j \in Nat
  PROVE  /\ IsFiniteSet(Slice(T, j, n))
         /\ Cardinality(Slice(T, j, n)) \in Nat
         /\ j >= n => Cardinality(Slice(T, j, n)) = 0
         /\ j <= n => Cardinality(Slice(T, j, n + 1))
                        = Cardinality(Slice(T, j, n)) + IF n + 1 \in T THEN 1 ELSE 0
<1>1. IsFiniteSet(1..n)
  BY FS_Interval
<1>2. Slice(T, j, n) \in SUBSET (1..n)
  BY DEF Slice
<1>3. IsFiniteSet(Slice(T, j, n)) /\ Cardinality(Slice(T, j, n)) \in Nat
  BY <1>1, <1>2, FS_Subset, FS_CardinalityType
<1>4. j >= n => Slice(T, j, n) = {}
  BY DEF Slice
<1>5. ASSUME j <= n
      PROVE  Cardinality(Slice(T, j, n + 1))
               = Cardinality(Slice(T, j, n)) + IF n + 1 \in T THEN 1 ELSE 0
  <2>1. CASE n + 1 \in T
    <3>1. Slice(T, j, n + 1) = Slice(T, j, n) \cup {n + 1} /\ n + 1 \notin Slice(T, j, n)
      BY <1>5, <2>1 DEF Slice
    <3> QED
      BY <1>3, <2>1, <3>1, FS_AddElement
  <2>2. CASE n + 1 \notin T
    <3>1. Slice(T, j, n + 1) = Slice(T, j, n)
      BY <2>2 DEF Slice
    <3> QED
      BY <1>3, <2>2, <3>1
  <2> QED
    BY <2>1, <2>2
<1> QED
  BY <1>3, <1>4, <1>5, FS_EmptySet

\* One more row is one more open buy, one less if any is open, or neither.
LEMMA OpenGrows ==
  ASSUME NEW B, \A k \in B : k \in Nat \ {0},
         NEW S, \A k \in S : k \in Nat \ {0}, NEW n \in Nat,
         B \cap S = {}
  PROVE  /\ Open(B, S, n) \in Nat
         /\ Open(B, S, n + 1) =
              IF n + 1 \in B THEN Open(B, S, n) + 1
              ELSE IF n + 1 \in S /\ Open(B, S, n) > 0 THEN Open(B, S, n) - 1
              ELSE Open(B, S, n)
<1>1. PICK f, g : f = [j \in 0..n |-> Excess(B, S, n, j)]
                  /\ g = [j \in 0..(n + 1) |-> Excess(B, S, n + 1, j)]
  OBVIOUS
<1>2. PICK x \in Int : x = IF n + 1 \in B THEN 1 ELSE IF n + 1 \in S THEN -1 ELSE 0
  OBVIOUS
<1>3. \A j \in 0..n : f[j] \in Int /\ g[j] = f[j] + x
  <2> SUFFICES ASSUME NEW j \in 0..n
               PROVE  /\ Excess(B, S, n, j) \in Int
                      /\ Excess(B, S, n + 1, j) = Excess(B, S, n, j) + x
    BY <1>1
  <2>1. j \in Nat /\ j <= n
    OBVIOUS
  <2>2. PICK p \in Nat, q \in Nat : p = Cardinality(Slice(B, j, n)) /\ q = Cardinality(Slice(S, j, n))
    BY <2>1, SliceFacts
  <2>3. /\ Cardinality(Slice(B, j, n + 1)) = p + IF n + 1 \in B THEN 1 ELSE 0
        /\ Cardinality(Slice(S, j, n + 1)) = q + IF n + 1 \in S THEN 1 ELSE 0
    BY <2>1, <2>2, SliceFacts
  <2> QED
    BY <1>2, <2>2, <2>3 DEF Excess
<1>4. f[n] = 0 /\ g[n + 1] = 0
  <2>1. /\ Cardinality(Slice(B, n, n)) = 0 /\ Cardinality(Slice(S, n, n)) = 0
    BY SliceFacts
  <2>2. /\ Cardinality(Slice(B, n + 1, n + 1)) = 0
        /\ Cardinality(Slice(S, n + 1, n + 1)) = 0
    BY SliceFacts
  <2> QED
    BY <1>1, <2>1, <2>2 DEF Excess
<1>5. {f[j] : j \in 0..n} = {Excess(B, S, n, j) : j \in 0..n}
      /\ {g[j] : j \in 0..(n + 1)} = {Excess(B, S, n + 1, j) : j \in 0..(n + 1)}
  BY <1>1
<1>6. PICK a, b : a = Open(B, S, n) /\ b = Open(B, S, n + 1)
  OBVIOUS
<1>7. a = Max({f[j] : j \in 0..n}) /\ b = Max({g[j] : j \in 0..(n + 1)})
  BY <1>5, <1>6 DEF Open
<1>8. IsGreatest(a, f, n)
  BY <1>3, <1>7, MaxOverFacts
<1>9. IsGreatest(b, g, n + 1)
  <2>1. \A j \in 0..(n + 1) : g[j] \in Int
    <3>1. \A j \in 0..(n + 1) : j \in 0..n \/ j = n + 1
      OBVIOUS
    <3> QED
      BY <1>3, <1>4, <3>1
  <2>2. PICK m \in Nat : m = n + 1
    OBVIOUS
  <2>3. IsGreatest(b, g, m)
    BY <1>7, <2>1, <2>2, MaxOverFacts
  <2> QED
    BY <2>2, <2>3
<1>10. a \in Nat /\ b = IF a + x > 0 THEN a + x ELSE 0
  BY <1>3, <1>4, <1>8, <1>9, GreatestGrows
<1> QED
  BY <1>2, <1>6, <1>10

-----------------------------------------------------------------------------
(* Sums of the tails of a table *)

After(n, j) == {i \in 1..n : i > j}

\* The greatest sum of d over a tail of 1..n.
Greatest(d, n) == Max({SumOver(d, After(n, j)) : j \in 0..n})

\* A row joins the tails that start before it.
LEMMA AfterFacts ==
  ASSUME NEW n \in Nat, NEW j \in Nat
  PROVE  /\ IsFiniteSet(After(n, j))
         /\ After(n, j) \subseteq 1..n
         /\ j >= n => After(n, j) = {}
         /\ j <= n => /\ After(n + 1, j) = After(n, j) \cup {n + 1}
                      /\ n + 1 \notin After(n, j)
<1>1. IsFiniteSet(1..n)
  BY FS_Interval
<1>2. After(n, j) \subseteq 1..n
  BY DEF After
<1>3. IsFiniteSet(After(n, j))
  BY <1>1, <1>2, FS_Subset
<1> QED
  BY <1>2, <1>3 DEF After

\* Max is the greatest of the tail sums,
LEMMA GreatestFacts ==
  ASSUME NEW n \in Nat, NEW d, \A i \in 1..n : d[i] \in Int,
         NEW f, f = [j \in 0..n |-> SumOver(d, After(n, j))]
  PROVE  /\ \A j \in 0..n : f[j] \in Int
         /\ f[n] = 0
         /\ IsGreatest(Greatest(d, n), f, n)
<1>1. ASSUME NEW j \in 0..n PROVE f[j] \in Int
  <2>1. j \in Nat /\ f[j] = SumOver(d, After(n, j))
    OBVIOUS
  <2>2. IsFiniteSet(After(n, j)) /\ \A i \in After(n, j) : d[i] \in Int
    BY <2>1, AfterFacts
  <2>3. SumOver(d, After(n, j)) \in Int
    BY <2>2, SumStep
  <2> QED
    BY <2>1, <2>3
<1>2. f[n] = 0
  <2>1. After(n, n) = {} /\ IsFiniteSet(After(n, n))
    BY AfterFacts
  <2>2. SumOver(d, After(n, n)) = 0
    BY <2>1, SumStep
  <2> QED
    BY <2>2
<1>3. {f[j] : j \in 0..n} = {SumOver(d, After(n, j)) : j \in 0..n}
  OBVIOUS
<1> QED
  <2>1. IsGreatest(Max({f[j] : j \in 0..n}), f, n)
    BY <1>1, MaxOverFacts
  <2> QED
    BY <1>1, <1>2, <1>3, <2>1 DEF Greatest

\* it grows with every row, and is 0 without any.
LEMMA GreatestStep ==
  ASSUME NEW n \in Nat, NEW d, \A i \in 1..(n + 1) : d[i] \in Int
  PROVE  /\ Greatest(d, n) \in Nat
         /\ Greatest(d, n + 1)
              = IF Greatest(d, n) + d[n + 1] > 0 THEN Greatest(d, n) + d[n + 1] ELSE 0
<1>1. PICK m \in Nat : m = n + 1
  OBVIOUS
<1>2. PICK f, g : /\ f = [j \in 0..n |-> SumOver(d, After(n, j))]
                  /\ g = [j \in 0..m |-> SumOver(d, After(m, j))]
  OBVIOUS
<1>3. (\A i \in 1..n : d[i] \in Int) /\ (\A i \in 1..m : d[i] \in Int)
  BY <1>1
<1>4. (\A j \in 0..n : f[j] \in Int) /\ f[n] = 0 /\ IsGreatest(Greatest(d, n), f, n)
  BY <1>2, <1>3, GreatestFacts
<1>5. g[m] = 0 /\ IsGreatest(Greatest(d, m), g, m)
  BY <1>2, <1>3, GreatestFacts
<1>6. PICK x \in Int : x = d[n + 1]
  OBVIOUS
<1>7. ASSUME NEW j \in 0..n PROVE g[j] = f[j] + x
  <2>1. PICK A : A = After(n, j)
    OBVIOUS
  <2>2. IsFiniteSet(A) /\ A \subseteq 1..n /\ m \notin A /\ After(m, j) = A \cup {m}
    BY <1>1, <2>1, AfterFacts
  <2>3. \A i \in A \cup {m} : d[i] \in Int
    BY <1>1, <2>2
  <2>4. SumOver(d, A \cup {m}) = SumOver(d, A) + d[m]
    BY <2>2, <2>3, SumAdd
  <2>5. j \in 0..m
    BY <1>1
  <2> QED
    BY <1>1, <1>2, <1>6, <2>1, <2>2, <2>4, <2>5
<1>8. PICK a, b : a = Greatest(d, n) /\ b = Greatest(d, n + 1)
  OBVIOUS
<1>9. a \in Nat /\ b = IF a + x > 0 THEN a + x ELSE 0
  <2>1. IsGreatest(a, f, n)
    BY <1>4, <1>8
  <2>2. IsGreatest(b, g, n + 1)
    BY <1>1, <1>5, <1>8
  <2>3. \A j \in 0..n : f[j] \in Int /\ g[j] = f[j] + x
    BY <1>4, <1>7
  <2>4. f[n] = 0 /\ g[n + 1] = 0
    BY <1>1, <1>4, <1>5
  <2> QED
    BY <2>1, <2>2, <2>3, <2>4, GreatestGrows
<1> QED
  BY <1>6, <1>8, <1>9

\* Tables that agree on 1..n have the same.
LEMMA GreatestSame ==
  ASSUME NEW n \in Nat, NEW d, NEW e,
         \A i \in 1..n : d[i] \in Int /\ e[i] = d[i]
  PROVE  Greatest(e, n) = Greatest(d, n)
<1>1. ASSUME NEW j \in 0..n PROVE SumOver(e, After(n, j)) = SumOver(d, After(n, j))
  <2>1. j \in Nat
    OBVIOUS
  <2>2. IsFiniteSet(After(n, j)) /\ \A i \in After(n, j) : d[i] \in Int /\ e[i] = d[i]
    BY <2>1, AfterFacts
  <2> QED
    BY <2>2, SumSame
<1>2. {SumOver(e, After(n, j)) : j \in 0..n} = {SumOver(d, After(n, j)) : j \in 0..n}
  BY <1>1
<1> QED
  BY <1>2 DEF Greatest

\* No row, no sum.
LEMMA GreatestOfNone ==
  ASSUME NEW d
  PROVE  Greatest(d, 0) = 0
<1>1. PICK n \in Nat : n = 0
  OBVIOUS
<1>2. PICK f : f = [j \in 0..n |-> SumOver(d, After(n, j))]
  OBVIOUS
<1>3. \A i \in 1..n : d[i] \in Int
  BY <1>1
<1>4. f[n] = 0 /\ IsGreatest(Greatest(d, n), f, n)
  BY <1>2, <1>3, GreatestFacts
<1> QED
  BY <1>1, <1>4 DEF IsGreatest

-----------------------------------------------------------------------------
(* The rows *)

Row == [side : {"buy", "sell"}, price : Prices, qty : Quantities, day : Nat]

\* What the program keeps in the table and in the figures, and the rows bear
\* dates that have been.
TypeInv ==
  /\ rows \in Seq(Row)
  /\ log \in Logs(Prices)
  /\ watched \in [qty : Nat, entry : Prices \cup {0}]
  /\ dayPnl \in Int
  /\ day \in Nat
  /\ \A i \in 1..Len(rows) : rows[i].day <= day

\* The table R and one more row r.
IsLonger(Q, R, r) ==
  /\ r \in Row
  /\ Q \in Seq(Row)
  /\ Len(Q) = Len(R) + 1
  /\ Q[Len(R) + 1] = r
  /\ \A i \in 1..Len(R) : Q[i] = R[i]

\* What an insert does to every figure.
LEMMA InsertFacts ==
  ASSUME TypeInv, Insert
  PROVE  \E r \in Row :
           /\ IsLonger(rows', rows, r)
           /\ r.day <= day
           /\ log' = Recorded(log, r.side, r.price, r.qty, r.day = day)
           /\ watched' = Walked(watched, r.side, r.price, r.qty)
           /\ dayPnl' = dayPnl + DayPnlStep(log, r.side, r.price, r.qty, r.day = day)
           /\ day' = day
<1>1. PICK side \in {"buy", "sell"}, p \in Prices, q \in Quantities, d \in 0..day :
        /\ rows' = Append(rows, [side |-> side, price |-> p, qty |-> q, day |-> d])
        /\ log' = Recorded(log, side, p, q, d = day)
        /\ watched' = Walked(watched, side, p, q)
        /\ dayPnl' = dayPnl + DayPnlStep(log, side, p, q, d = day)
  BY DEF Insert
<1>2. PICK r : r = [side |-> side, price |-> p, qty |-> q, day |-> d]
  OBVIOUS
<1>3. r \in Row /\ r.day <= day
  BY <1>2 DEF Row, TypeInv
<1>4. r.side = side /\ r.price = p /\ r.qty = q /\ r.day = d
  BY <1>2
<1>5. IsLonger(rows', rows, r)
  BY <1>1, <1>2, <1>3 DEF TypeInv, IsLonger
<1> QED
  BY <1>1, <1>3, <1>4, <1>5 DEF Insert

\* What a row is.
LEMMA RowFacts ==
  ASSUME NEW r \in Row
  PROVE  /\ r.side \in {"buy", "sell"} /\ r.price \in Prices /\ r.qty \in Quantities
         /\ r.day \in Nat /\ r.price \in Nat \ {0} /\ r.qty \in Nat \ {0}
  BY RowAssumption DEF Row

\* Both steps leave everything of its type.
LEMMA TypeNext == TypeInv /\ [Next]_vars => TypeInv'
<1> SUFFICES ASSUME TypeInv, [Next]_vars PROVE TypeInv'
  OBVIOUS
<1>1. CASE Insert
  <2>1. PICK r \in Row :
          /\ IsLonger(rows', rows, r)
          /\ r.day <= day
          /\ log' = Recorded(log, r.side, r.price, r.qty, r.day = day)
          /\ watched' = Walked(watched, r.side, r.price, r.qty)
          /\ dayPnl' = dayPnl + DayPnlStep(log, r.side, r.price, r.qty, r.day = day)
          /\ day' = day
    BY <1>1, InsertFacts
  <2>2. PICK t \in BOOLEAN : t = (r.day = day)
    OBVIOUS
  <2>3. r.side \in {"buy", "sell"} /\ r.price \in Prices /\ r.qty \in Nat
    BY RowFacts
  <2>4. Prices \subseteq Nat \ {0} /\ log \in Logs(Prices)
    BY RowAssumption DEF TypeInv
  <2>5. /\ Recorded(log, r.side, r.price, r.qty, t) \in Logs(Prices)
        /\ DayPnlStep(log, r.side, r.price, r.qty, t) \in Int
    BY <2>3, <2>4, LogTypes
  <2>6. Walked(watched, r.side, r.price, r.qty) \in [qty : Nat, entry : Prices \cup {0}]
    <3>1. watched.qty \in Nat /\ watched.entry \in Prices \cup {0}
      BY DEF TypeInv
    <3>2. BoughtMore(watched, r.price, r.qty) \in [qty : Nat, entry : Prices \cup {0}]
      BY <2>3, <3>1 DEF BoughtMore
    <3>3. Less(watched.qty, r.qty) \in Nat
      BY <2>3, <3>1 DEF Less
    <3>4. SoldSome(watched, r.qty) \in [qty : Nat, entry : Prices \cup {0}]
      BY <3>1, <3>3 DEF SoldSome
    <3> QED
      BY <3>2, <3>4 DEF Walked
  <2>7. \A i \in 1..Len(rows') : rows'[i].day <= day'
    <3>1. Len(rows) \in Nat
      BY DEF TypeInv
    <3>2. \A i \in 1..Len(rows') : i \in 1..Len(rows) \/ i = Len(rows) + 1
      BY <2>1, <3>1 DEF IsLonger
    <3> QED
      BY <2>1, <3>2 DEF IsLonger, TypeInv
  <2>8. rows' \in Seq(Row)
    BY <2>1 DEF IsLonger
  <2> QED
    BY <2>1, <2>2, <2>5, <2>6, <2>7, <2>8 DEF TypeInv
<1>2. CASE Midnight
  <2>1. \A i \in 1..Len(rows) : rows[i] \in Row /\ rows[i].day \in Nat
    BY RowFacts DEF TypeInv
  <2>2. \A i \in 1..Len(rows) : rows[i].day <= day + 1
    BY <2>1 DEF TypeInv
  <2>3. AtMidnight(log) \in Logs(Prices)
    <3>1. <<>> \in Seq(Prices)
      OBVIOUS
    <3> QED
      BY <3>1 DEF TypeInv, AtMidnight, Logs
  <2> QED
    BY <1>2, <2>2, <2>3 DEF Midnight, TypeInv
<1>3. CASE UNCHANGED vars
  BY <1>3 DEF vars, TypeInv
<1> QED
  BY <1>1, <1>2, <1>3 DEF Next

\* Every behaviour keeps to the types.
LEMMA TypeInvariant == Spec => []TypeInv
<1>1. Init => TypeInv
  <2>1. EmptyLog \in Logs(Prices)
    BY DEF EmptyLog, Logs
  <2> QED
    BY <2>1 DEF Init, TypeInv, NoPosition
<1> QED
  BY <1>1, TypeNext, PTL DEF Spec

-----------------------------------------------------------------------------
(* The running totals *)

\* What the rows of R add and take away.
Changes(R) ==
  [i \in 1..Len(R) |-> IF R[i].side = "buy" THEN R[i].qty ELSE -R[i].qty]

\* They are numbers.
LEMMA ChangesFacts ==
  ASSUME NEW R \in Seq(Row)
  PROVE  \A i \in 1..Len(R) : Changes(R)[i] \in Int
<1> SUFFICES ASSUME NEW i \in 1..Len(R) PROVE Changes(R)[i] \in Int
  OBVIOUS
<1>1. PICK r \in Row : r = R[i]
  OBVIOUS
<1>2. r.qty \in Nat
  BY RowFacts
<1> QED
  BY <1>1, <1>2 DEF Changes

\* The sum of the fold of the community modules over a set of rows.
LEMMA FoldIsSum ==
  ASSUME rows \in Seq(Row), NEW S, S \subseteq 1..Len(rows)
  PROVE  MapThenSumSet(Signed, S) = SumOver(Changes(rows), S)
<1>1. PICK d : d = Changes(rows)
  OBVIOUS
<1>2. IsFiniteSet(S)
  <2>1. IsFiniteSet(1..Len(rows))
    BY FS_Interval
  <2> QED
    BY <2>1, FS_Subset
<1>3. \A x \in S : d[x] \in Int /\ d[x] = Signed(x)
  BY <1>1, ChangesFacts DEF Changes, Signed
<1> DEFINE body(g) == [t \in SUBSET S |->
                         IF t = {} THEN 0 ELSE Signed(Pick(t)) + g[t \ {Pick(t)}]]
           f == CHOOSE g : g = body(g)
<1>4. MapThenSumSet(Signed, S) = f[S]
  BY DEF MapThenSumSet, MapThenFoldSet, Pick
<1>5. PICK h : IsFold(h, d, S)
  BY <1>2, <1>3, FoldExists
<1>6. h = body(h)
  <2>1. h = [t \in SUBSET S |-> h[t]]
    BY <1>5 DEF IsFold
  <2>2. ASSUME NEW t \in SUBSET S
        PROVE  h[t] = IF t = {} THEN 0 ELSE Signed(Pick(t)) + h[t \ {Pick(t)}]
    <3>1. t # {} => Pick(t) \in S
      BY PickIn
    <3> QED
      BY <1>3, <1>5, <3>1 DEF IsFold
  <2> QED
    BY <2>1, <2>2
<1>7. f = body(f)
  BY <1>6
<1>8. PICK g : g = f
  OBVIOUS
<1> HIDE DEF f
<1>9. g = [t \in SUBSET S |-> IF t = {} THEN 0 ELSE d[Pick(t)] + g[t \ {Pick(t)}]]
  <2>1. g = body(g)
    BY <1>7, <1>8
  <2>2. ASSUME NEW t \in SUBSET S
        PROVE  (IF t = {} THEN 0 ELSE Signed(Pick(t)) + g[t \ {Pick(t)}])
               = (IF t = {} THEN 0 ELSE d[Pick(t)] + g[t \ {Pick(t)}])
    <3>1. t # {} => Pick(t) \in S
      BY PickIn
    <3> QED
      BY <1>3, <3>1
  <2> QED
    BY <2>1, <2>2
<1>10. IsFold(g, d, S)
  BY <1>2, <1>3, <1>9, FoldTyped
<1>11. SumOver(d, S) = g[S]
  BY <1>2, <1>10, SumIs
<1> QED
  BY <1>1, <1>4, <1>8, <1>11

\* GreatestTail is the greatest sum of a tail of the changes.
LEMMA TailIsGreatest ==
  ASSUME rows \in Seq(Row), NEW n \in 0..Len(rows)
  PROVE  GreatestTail(n) = Greatest(Changes(rows), n)
<1>1. ASSUME NEW j \in 0..n
      PROVE  MapThenSumSet(Signed, {i \in 1..n : i > j}) = SumOver(Changes(rows), After(n, j))
  <2>1. {i \in 1..n : i > j} = After(n, j)
    BY DEF After
  <2>2. After(n, j) \subseteq 1..Len(rows)
    BY DEF After
  <2> QED
    BY <2>1, <2>2, FoldIsSum
<1>2. {MapThenSumSet(Signed, {i \in 1..n : i > j}) : j \in 0..n}
        = {SumOver(Changes(rows), After(n, j)) : j \in 0..n}
  BY <1>1
<1> QED
  BY <1>2 DEF GreatestTail, Greatest

\* The last n at which the greatest tail of R was zero.
LastZero(R) == Max({n \in 0..Len(R) : Greatest(Changes(R), n) = 0})

\* What the walks keep of R: the position they took it for, its entry price, and
\* the total.
Totals(R, open, pos) ==
  /\ open = Greatest(Changes(R), Len(R))
  /\ pos.qty = open
  /\ open > 0 => pos.entry # 0
  /\ pos.entry = IF LastZero(R) = Len(R) THEN 0 ELSE R[LastZero(R) + 1].price

\* In the terms of the model.
LEMMA TotalsAre ==
  ASSUME TypeInv
  PROVE  Totals(rows, log.open, watched) <=>
           /\ OpenIsGreatestTail
           /\ EntryIsSinceZero
           /\ watched.qty = log.open
           /\ log.open > 0 => watched.entry # 0
<1>1. rows \in Seq(Row) /\ Len(rows) \in Nat
  BY DEF TypeInv
<1>2. \A n \in 0..Len(rows) : GreatestTail(n) = Greatest(Changes(rows), n)
  BY <1>1, TailIsGreatest
<1>3. {n \in 0..Len(rows) : GreatestTail(n) = 0}
        = {n \in 0..Len(rows) : Greatest(Changes(rows), n) = 0}
  BY <1>2
<1>4. OpenIsGreatestTail <=> log.open = Greatest(Changes(rows), Len(rows))
  BY <1>1, <1>2 DEF OpenIsGreatestTail
<1>5. PICK z : z = LastZero(rows)
  OBVIOUS
<1>6. z = Max({n \in 0..Len(rows) : GreatestTail(n) = 0})
  BY <1>3, <1>5 DEF LastZero
<1>7. EntryIsSinceZero
        <=> watched.entry = IF z = Len(rows) THEN 0 ELSE rows[z + 1].price
  BY <1>6 DEF EntryIsSinceZero
<1> QED
  BY <1>4, <1>5, <1>7 DEF Totals

\* The changes of a table and one more row.
LEMMA ChangesGrow ==
  ASSUME NEW R \in Seq(Row), NEW Q, NEW r, IsLonger(Q, R, r)
  PROVE  /\ \A n \in 0..Len(R) : Greatest(Changes(Q), n) = Greatest(Changes(R), n)
         /\ \A n \in 0..Len(R) : Greatest(Changes(R), n) \in Nat
         /\ Greatest(Changes(Q), Len(R) + 1) =
              IF r.side = "buy" THEN Greatest(Changes(R), Len(R)) + r.qty
                                ELSE Less(Greatest(Changes(R), Len(R)), r.qty)
<1>1. PICK d, e, m : d = Changes(R) /\ e = Changes(Q) /\ m = Len(R)
  OBVIOUS
<1>2. m \in Nat /\ Len(Q) = m + 1 /\ Q \in Seq(Row)
  BY <1>1 DEF IsLonger
<1>3. \A i \in 1..m : d[i] \in Int
  BY <1>1, ChangesFacts
<1>4. \A i \in 1..(m + 1) : e[i] \in Int
  BY <1>1, <1>2, ChangesFacts
<1>5. \A i \in 1..m : e[i] = d[i]
  BY <1>1, <1>2 DEF IsLonger, Changes
<1>6. e[m + 1] = IF r.side = "buy" THEN r.qty ELSE -r.qty
  BY <1>1, <1>2 DEF IsLonger, Changes
<1>7. ASSUME NEW n \in 0..m
      PROVE  Greatest(e, n) = Greatest(d, n) /\ Greatest(e, n) \in Nat
  <2>1. n \in Nat /\ (\A i \in 1..n : d[i] \in Int /\ e[i] = d[i])
    BY <1>2, <1>3, <1>5
  <2>2. \A i \in 1..(n + 1) : e[i] \in Int
    BY <1>2, <1>4
  <2> QED
    BY <2>1, <2>2, GreatestSame, GreatestStep
<1>8. Greatest(e, m + 1)
        = IF Greatest(e, m) + e[m + 1] > 0 THEN Greatest(e, m) + e[m + 1] ELSE 0
  BY <1>2, <1>4, GreatestStep
<1>9. PICK a \in Nat : a = Greatest(d, m) /\ a = Greatest(e, m)
  BY <1>2, <1>7
<1>10. r.qty \in Nat \ {0}
  BY RowFacts DEF IsLonger
<1>11. Greatest(e, m + 1) = IF r.side = "buy" THEN a + r.qty ELSE Less(a, r.qty)
  BY <1>6, <1>8, <1>9, <1>10 DEF Less
<1> QED
  BY <1>1, <1>7, <1>9, <1>11

\* The last zero is one, and there is none after it.
LEMMA LastZeroFacts ==
  ASSUME NEW R \in Seq(Row)
  PROVE  /\ LastZero(R) \in 0..Len(R)
         /\ Greatest(Changes(R), LastZero(R)) = 0
         /\ \A n \in 0..Len(R) : n > LastZero(R) => Greatest(Changes(R), n) # 0
<1>1. PICK S : S = {n \in 0..Len(R) : Greatest(Changes(R), n) = 0}
  OBVIOUS
<1>2. PICK b \in Int : b = Len(R) /\ b >= 0
  OBVIOUS
<1>3. S \subseteq Int /\ \A x \in S : x <= b
  BY <1>1, <1>2
<1>4. S # {}
  BY <1>1, <1>2, GreatestOfNone
<1>5. PICK z : z = Max(S)
  OBVIOUS
<1>6. z \in S /\ \A x \in S : x <= z
  BY <1>2, <1>3, <1>4, <1>5, MaxFacts
<1>7. \A n \in 0..Len(R) : n > z => n \notin S
  BY <1>2, <1>3, <1>6
<1>8. LastZero(R) = z
  BY <1>1, <1>5 DEF LastZero
<1> QED
  BY <1>1, <1>6, <1>7, <1>8

\* A row that leaves nothing is the last zero; one that leaves something does
\* not move it.
LEMMA LastZeroMoves ==
  ASSUME NEW R \in Seq(Row), NEW Q, NEW r, IsLonger(Q, R, r)
  PROVE  LastZero(Q) = IF Greatest(Changes(Q), Len(Q)) = 0 THEN Len(Q) ELSE LastZero(R)
<1>1. PICK d, e, m : d = Changes(R) /\ e = Changes(Q) /\ m = Len(R)
  OBVIOUS
<1>2. m \in Nat /\ Len(Q) = m + 1 /\ Q \in Seq(Row)
  BY <1>1 DEF IsLonger
<1>3. PICK y, z : y = LastZero(Q) /\ z = LastZero(R)
  OBVIOUS
<1>4. /\ y \in 0..(m + 1) /\ Greatest(e, y) = 0
      /\ \A n \in 0..(m + 1) : n > y => Greatest(e, n) # 0
  BY <1>1, <1>2, <1>3, LastZeroFacts
<1>5. /\ z \in 0..m /\ Greatest(d, z) = 0
      /\ \A n \in 0..m : n > z => Greatest(d, n) # 0
  BY <1>1, <1>2, <1>3, LastZeroFacts
<1>6. \A n \in 0..m : Greatest(e, n) = Greatest(d, n)
  BY <1>1, ChangesGrow
<1>7. CASE Greatest(e, m + 1) = 0
  <2>1. ~(m + 1 > y)
    BY <1>2, <1>4, <1>7
  <2> QED
    BY <1>1, <1>2, <1>3, <1>4, <1>7, <2>1
<1>8. CASE Greatest(e, m + 1) # 0
  <2>1. y \in 0..m
    BY <1>2, <1>4, <1>8
  <2>2. Greatest(d, y) = 0 /\ Greatest(e, z) = 0
    BY <1>5, <1>6, <1>4, <2>1
  <2>3. ~(y > z)
    BY <1>5, <2>1, <2>2
  <2>4. ~(z > y)
    BY <1>2, <1>4, <1>5, <2>2
  <2> QED
    BY <1>1, <1>2, <1>3, <1>5, <1>8, <2>1, <2>3, <2>4
<1> QED
  BY <1>7, <1>8

\* An insert carries the totals on.
LEMMA TotalsGrow ==
  ASSUME NEW R \in Seq(Row), NEW Q, NEW r, IsLonger(Q, R, r), NEW t \in BOOLEAN,
         NEW l \in Logs(Prices),
         NEW pos \in [qty : Nat, entry : Prices \cup {0}], Totals(R, l.open, pos)
  PROVE  Totals(Q, Recorded(l, r.side, r.price, r.qty, t).open,
                   Walked(pos, r.side, r.price, r.qty))
<1>1. PICK a \in Nat : a = l.open
  BY DEF Logs
<1>2. r.side \in {"buy", "sell"} /\ r.price \in Nat \ {0} /\ r.qty \in Nat \ {0}
  BY RowFacts DEF IsLonger
<1>3. PICK m, z : m = Len(R) /\ z = LastZero(R) /\ m \in Nat
  OBVIOUS
<1>4. Len(Q) = m + 1 /\ Q[m + 1] = r /\ \A i \in 1..m : Q[i] = R[i]
  BY <1>3 DEF IsLonger
<1>5. z \in 0..m /\ (z = m <=> a = 0)
  <2>1. a = Greatest(Changes(R), m)
    BY <1>1, <1>3 DEF Totals
  <2> QED
    BY <1>3, <2>1, LastZeroFacts
<1>6. PICK b : b = IF r.side = "buy" THEN a + r.qty ELSE Less(a, r.qty)
  OBVIOUS
<1>7. b \in Nat /\ (r.side = "sell" => b <= a) /\ (r.side = "buy" => b > 0)
  BY <1>2, <1>6 DEF Less
<1>8. b = Greatest(Changes(Q), m + 1)
  BY <1>1, <1>3, <1>6, ChangesGrow DEF Totals
<1>9. LastZero(Q) = IF b = 0 THEN m + 1 ELSE z
  BY <1>3, <1>4, <1>8, LastZeroMoves
<1>10. Recorded(l, r.side, r.price, r.qty, t).open = b
  BY <1>1, <1>2, <1>6 DEF Recorded, Bought, Sold
<1>11. /\ pos.qty = a
       /\ a > 0 => pos.entry # 0
       /\ pos.entry = IF z = m THEN 0 ELSE R[z + 1].price
  BY <1>1, <1>3, Zenon DEF Totals
<1>12. PICK w : w = Walked(pos, r.side, r.price, r.qty)
  OBVIOUS
<1>13. /\ w.qty = b
       /\ b = 0 => w.entry = 0
       /\ b > 0 => w.entry = IF a = 0 THEN r.price ELSE pos.entry
  <2>1. CASE r.side = "buy"
    BY <1>2, <1>6, <1>7, <1>11, <1>12, <2>1 DEF Walked, BoughtMore
  <2>2. CASE r.side = "sell"
    BY <1>6, <1>7, <1>11, <1>12, <2>2 DEF Walked, SoldSome
  <2> QED
    BY <1>2, <2>1, <2>2
<1>14. w.entry = IF b = 0 THEN 0 ELSE Q[z + 1].price
  <2>1. CASE b = 0
    BY <1>13, <2>1
  <2>2. CASE b > 0 /\ a = 0
    BY <1>4, <1>5, <1>13, <2>2
  <2>3. CASE b > 0 /\ a > 0
    <3>1. z + 1 \in 1..m
      BY <1>3, <1>5, <2>3
    <3> QED
      BY <1>3, <1>4, <1>5, <1>11, <1>13, <2>3, <3>1
  <2> QED
    BY <1>1, <1>7, <2>1, <2>2, <2>3
<1>15. b > 0 => w.entry # 0
  BY <1>2, <1>11, <1>13
<1>16. z # m + 1
  BY <1>3, <1>5
<1> QED
  BY <1>4, <1>7, <1>8, <1>9, <1>10, <1>12, <1>13, <1>14, <1>15, <1>16 DEF Totals

\* The walks keep them on every row of every behaviour.
LEMMA TotalsInvariant == Spec => []Totals(rows, log.open, watched)
<1>1. Init => Totals(rows, log.open, watched)
  <2> SUFFICES ASSUME Init PROVE Totals(rows, log.open, watched)
    OBVIOUS
  <2>1. rows = <<>> /\ log.open = 0 /\ watched.qty = 0 /\ watched.entry = 0
    BY DEF Init, EmptyLog, NoPosition
  <2>2. <<>> \in Seq(Row) /\ Len(<<>>) = 0
    OBVIOUS
  <2>3. Greatest(Changes(<<>>), 0) = 0
    BY GreatestOfNone
  <2>4. LastZero(<<>>) = 0
    <3>1. LastZero(<<>>) \in 0..Len(<<>>)
      BY <2>2, LastZeroFacts
    <3> QED
      BY <2>2, <3>1
  <2> QED
    BY <2>1, <2>2, <2>3, <2>4 DEF Totals
<1>2. TypeInv /\ Totals(rows, log.open, watched) /\ [Next]_vars
        => Totals(rows, log.open, watched)'
  <2> SUFFICES ASSUME TypeInv, Totals(rows, log.open, watched), [Next]_vars
               PROVE  Totals(rows', log'.open, watched')
    OBVIOUS
  <2>1. CASE Insert
    <3>1. PICK r \in Row :
            /\ IsLonger(rows', rows, r)
            /\ log' = Recorded(log, r.side, r.price, r.qty, r.day = day)
            /\ watched' = Walked(watched, r.side, r.price, r.qty)
      BY <2>1, InsertFacts
    <3>2. PICK t \in BOOLEAN : t = (r.day = day)
      OBVIOUS
    <3>3. /\ rows \in Seq(Row) /\ log \in Logs(Prices)
          /\ watched \in [qty : Nat, entry : Prices \cup {0}]
      BY DEF TypeInv
    <3> QED
      BY <3>1, <3>2, <3>3, TotalsGrow
  <2>2. CASE Midnight
    <3>1. log'.open = log.open
      BY <2>2 DEF Midnight, AtMidnight, TypeInv, Logs
    <3> QED
      BY <2>2, <3>1 DEF Midnight
  <2>3. CASE UNCHANGED vars
    BY <2>3 DEF vars
  <2> QED
    BY <2>1, <2>2, <2>3 DEF Next
<1> QED
  BY <1>1, <1>2, TypeInvariant, PTL DEF Spec

\* The running total, floored at every sell (statistics.py:
\* open_position_quantity), is the greatest sum of a tail of the table.
THEOREM OpenAlwaysGreatestTail == Spec => []OpenIsGreatestTail
<1>1. TypeInv /\ Totals(rows, log.open, watched) => OpenIsGreatestTail
  BY TotalsAre
<1> QED
  BY <1>1, TypeInvariant, TotalsInvariant, PTL

\* The entry price of the daily check's walk (reconcile.py: open_positions) is that
\* of the first buy since the total was last zero.
THEOREM EntryAlwaysSinceZero == Spec => []EntryIsSinceZero
<1>1. TypeInv /\ Totals(rows, log.open, watched) => EntryIsSinceZero
  BY TotalsAre
<1> QED
  BY <1>1, TypeInvariant, TotalsInvariant, PTL

\* The position that the daily check reports is what a sell may dispose of.
THEOREM HeldAlwaysSellable == Spec => []HeldIsSellable
<1>1. TypeInv /\ Totals(rows, log.open, watched) => HeldIsSellable
  <2> SUFFICES ASSUME TypeInv, Totals(rows, log.open, watched) PROVE HeldIsSellable
    OBVIOUS
  <2>1. log.open \in Nat /\ watched.qty = log.open /\ (log.open > 0 => watched.entry # 0)
    BY DEF TypeInv, Logs, Totals
  <2>2. Floor8(log.open) \in Nat /\ Floor8(log.open) <= log.open
    BY <2>1, FloorFacts
  <2> QED
    BY <2>1, <2>2 DEF HeldIsSellable, HeldQuantity, IsHeld, Sellable
<1> QED
  BY <1>1, TypeInvariant, TotalsInvariant, PTL

-----------------------------------------------------------------------------
(* The open buys as a queue *)

\* Slices up to n see the rows up to n.
LEMMA SliceSame ==
  ASSUME NEW T, NEW U, NEW j, NEW n \in Nat,
         \A k \in T : k \in Nat \ {0}, \A k \in U : k \in Nat \ {0},
         \A k \in 1..n : k \in T <=> k \in U
  PROVE  Slice(T, j, n) = Slice(U, j, n)
  BY DEF Slice

\* and so does the count of open buys.
LEMMA OpenSame ==
  ASSUME NEW B, \A k \in B : k \in Nat \ {0}, NEW S, \A k \in S : k \in Nat \ {0},
         NEW C, \A k \in C : k \in Nat \ {0}, NEW T, \A k \in T : k \in Nat \ {0},
         NEW n \in Nat,
         \A k \in 1..n : k \in B <=> k \in C, \A k \in 1..n : k \in S <=> k \in T
  PROVE  Open(B, S, n) = Open(C, T, n)
<1>1. ASSUME NEW j \in 0..n PROVE Excess(B, S, n, j) = Excess(C, T, n, j)
  <2>1. Slice(B, j, n) = Slice(C, j, n) /\ Slice(S, j, n) = Slice(T, j, n)
    BY SliceSame
  <2> QED
    BY <2>1 DEF Excess
<1>2. {Excess(B, S, n, j) : j \in 0..n} = {Excess(C, T, n, j) : j \in 0..n}
  BY <1>1
<1> QED
  BY <1>2 DEF Open

\* Nothing is open where nothing was bought.
LEMMA OpenOfNone ==
  ASSUME NEW n \in Nat
  PROVE  Open({}, {}, n) = 0
<1>1. PICK f : f = [j \in 0..n |-> Excess({}, {}, n, j)]
  OBVIOUS
<1>2. \A j \in 0..n : f[j] = 0
  <2>1. \A j \in 0..n : Slice({}, j, n) = {}
    BY DEF Slice
  <2> QED
    BY <1>1, <2>1, FS_EmptySet DEF Excess
<1>3. {f[j] : j \in 0..n} = {Excess({}, {}, n, j) : j \in 0..n}
  BY <1>1
<1>4. IsGreatest(Max({f[j] : j \in 0..n}), f, n)
  BY <1>2, MaxOverFacts
<1> QED
  BY <1>2, <1>3, <1>4 DEF Open, IsGreatest

\* A buy counts from itself.
LEMMA FromIsSlice ==
  ASSUME NEW B, \A k \in B : k \in Nat \ {0}, NEW n \in Nat, NEW b \in Nat \ {0}
  PROVE  From(B, n, b) = Cardinality(Slice(B, b - 1, n))
<1>1. {k \in B : b <= k /\ k <= n} = Slice(B, b - 1, n)
  BY DEF Slice
<1> QED
  BY <1>1 DEF From

\* No two buys have as many from them.
LEMMA FromInjective ==
  ASSUME NEW B, \A k \in B : k \in Nat \ {0}, NEW n \in Nat,
         NEW a \in B, a <= n, NEW b \in B, b <= n, From(B, n, a) = From(B, n, b)
  PROVE  a = b
<1>1. ASSUME NEW x \in B, x <= n, NEW y \in B, y <= n, x < y
      PROVE  From(B, n, y) # From(B, n, x)
  <2>1. x \in Nat \ {0} /\ y \in Nat \ {0} /\ x - 1 \in Nat /\ y - 1 \in Nat
    OBVIOUS
  <2>2. From(B, n, x) = Cardinality(Slice(B, x - 1, n))
        /\ From(B, n, y) = Cardinality(Slice(B, y - 1, n))
    BY <2>1, FromIsSlice
  <2>3. IsFiniteSet(Slice(B, x - 1, n))
    BY <2>1, SliceFacts
  <2>4. /\ x \in Slice(B, x - 1, n)
        /\ x \notin Slice(B, y - 1, n)
        /\ Slice(B, y - 1, n) \in SUBSET Slice(B, x - 1, n)
    <3>1. PICK u \in Nat, v \in Nat : u = x - 1 /\ v = y - 1
      BY <2>1
    <3>2. x > u /\ ~(x > v) /\ x <= n /\ u < v
      BY <1>1, <2>1, <3>1
    <3>3. x \in Slice(B, u, n) /\ x \notin Slice(B, v, n)
      BY <3>2 DEF Slice
    <3>4. \A k \in Slice(B, v, n) : k \in Slice(B, u, n)
      BY <3>2 DEF Slice
    <3> QED
      BY <3>1, <3>3, <3>4
  <2>5. Cardinality(Slice(B, y - 1, n)) < Cardinality(Slice(B, x - 1, n))
    BY <2>3, <2>4, FS_Subset, FS_CardinalityType
  <2> QED
    BY <1>1, <2>2, <2>3, <2>5, FS_CardinalityType
<1>2. a \in Nat /\ b \in Nat
  OBVIOUS
<1>3. ~(a < b)
  BY <1>1
<1>4. ~(b < a)
  BY <1>1
<1> QED
  BY <1>2, <1>3, <1>4

\* Sets of rows up to n and up to n + 1, the same but for n + 1.
Extends(C, B, n) ==
  /\ \A k \in B : k \in 1..n
  /\ \A k \in C : k \in 1..(n + 1)
  /\ \A k \in 1..n : k \in B <=> k \in C

\* A buy is one more from every buy before it.
LEMMA FromGrows ==
  ASSUME NEW n \in Nat, NEW B, NEW C, Extends(C, B, n)
  PROVE  /\ \A b \in B : /\ b \in C
                         /\ From(C, n + 1, b)
                              = From(B, n, b) + IF n + 1 \in C THEN 1 ELSE 0
         /\ n + 1 \in C => From(C, n + 1, n + 1) = 1
<1>1. PICK m \in Nat \ {0} : m = n + 1
  OBVIOUS
<1>2. (\A k \in B : k \in Nat \ {0}) /\ (\A k \in C : k \in Nat \ {0})
  BY DEF Extends
<1>3. ASSUME NEW b \in B
      PROVE  /\ b \in C
             /\ From(C, m, b) = From(B, n, b) + IF m \in C THEN 1 ELSE 0
  <2>1. b \in 1..n /\ b \in C
    BY DEF Extends
  <2>2. PICK j \in Nat : j = b - 1 /\ j <= n
    BY <2>1
  <2>3. From(C, m, b) = Cardinality(Slice(C, j, m)) /\ From(B, n, b) = Cardinality(Slice(B, j, n))
    BY <1>2, <2>1, <2>2, FromIsSlice
  <2>4. Slice(C, j, n) = Slice(B, j, n)
    BY <1>2, SliceSame DEF Extends
  <2>5. Cardinality(Slice(C, j, n + 1))
          = Cardinality(Slice(C, j, n)) + IF n + 1 \in C THEN 1 ELSE 0
    BY <1>2, <2>2, SliceFacts
  <2> QED
    BY <1>1, <2>1, <2>3, <2>4, <2>5
<1>4. ASSUME m \in C PROVE From(C, m, m) = 1
  <2>1. From(C, m, m) = Cardinality(Slice(C, m - 1, m))
    BY <1>2, FromIsSlice
  <2>2. Cardinality(Slice(C, n, n + 1))
          = Cardinality(Slice(C, n, n)) + IF n + 1 \in C THEN 1 ELSE 0
    BY <1>2, SliceFacts
  <2>3. Cardinality(Slice(C, n, n)) = 0
    BY <1>2, SliceFacts
  <2>4. m - 1 = n
    BY <1>1
  <2> QED
    BY <1>1, <1>4, <2>1, <2>2, <2>3, <2>4
<1> QED
  BY <1>1, <1>3, <1>4

\* A sequence with one more element, and without its first.
LEMMA QueueOps ==
  ASSUME NEW P, NEW q \in Seq(P), NEW p \in P, NEW l \in Nat, l = Len(q)
  PROVE  /\ /\ Append(q, p) \in Seq(P)
            /\ Len(Append(q, p)) = l + 1
            /\ Append(q, p)[l + 1] = p
            /\ \A i \in 1..l : Append(q, p)[i] = q[i]
         /\ l > 0 => /\ Popped(q) \in Seq(P)
                     /\ Len(Popped(q)) = l - 1
                     /\ \A i \in 1..(l - 1) : Popped(q)[i] = q[i + 1]
         /\ l = 0 => Popped(q) = q
<1>1. /\ Append(q, p) \in Seq(P)
      /\ Len(Append(q, p)) = l + 1
      /\ Append(q, p)[l + 1] = p
      /\ \A i \in 1..l : Append(q, p)[i] = q[i]
  OBVIOUS
<1>2. q = <<>> <=> l = 0
  BY EmptySeq
<1>3. q # <<>> => /\ Tail(q) \in Seq(P)
                  /\ Len(Tail(q)) = l - 1
                  /\ \A i \in 1..(l - 1) : Tail(q)[i] = q[i + 1]
  BY HeadTailProperties
<1> QED
  BY <1>1, <1>2, <1>3 DEF Popped

\* q are the prices, in R, of the buys B that are open after row n.
Queue(q, R, B, S, n) ==
  /\ q \in Seq(Prices)
  /\ Len(q) = Open(B, S, n)
  /\ \A c \in 1..Len(q) :
       \E b \in B : From(B, n, b) = c /\ R[b].price = q[Len(q) - c + 1]

\* A buy joins the queue and a sell takes the oldest.
LEMMA QueueGrows ==
  ASSUME NEW R, NEW Q, NEW r, IsLonger(Q, R, r), NEW n \in Nat, n = Len(R),
         NEW B, NEW C, Extends(C, B, n), NEW S, NEW T, Extends(T, S, n), C \cap T = {},
         NEW q, Queue(q, R, B, S, n),
         NEW w, n + 1 \in C => w = Append(q, r.price), n + 1 \in T => w = Popped(q),
         n + 1 \notin C \cup T => w = q
  PROVE  Queue(w, Q, C, T, n + 1)
<1>1. /\ \A k \in B : k \in Nat \ {0}
      /\ \A k \in C : k \in Nat \ {0}
      /\ \A k \in S : k \in Nat \ {0}
      /\ \A k \in T : k \in Nat \ {0}
  BY DEF Extends
<1>2. q \in Seq(Prices) /\ r.price \in Prices
  BY RowFacts DEF Queue, IsLonger
<1>3. PICK l \in Nat : l = Len(q) /\ l = Open(C, T, n)
  <2>1. \A k \in 1..n : k \in B <=> k \in C
    BY DEF Extends
  <2>2. \A k \in 1..n : k \in S <=> k \in T
    BY DEF Extends
  <2>3. Open(B, S, n) = Open(C, T, n)
    BY <1>1, <2>1, <2>2, OpenSame
  <2> QED
    BY <1>2, <2>3 DEF Queue
<1>4. Open(C, T, n + 1) = IF n + 1 \in C THEN l + 1
                          ELSE IF n + 1 \in T /\ l > 0 THEN l - 1 ELSE l
  BY <1>1, <1>3, OpenGrows
<1>5. ASSUME NEW c \in 1..l
      PROVE  \E b \in C : /\ From(C, n + 1, b) = c + IF n + 1 \in C THEN 1 ELSE 0
                          /\ Q[b].price = q[l - c + 1]
  <2>1. PICK b \in B : From(B, n, b) = c /\ R[b].price = q[l - c + 1]
    BY <1>3 DEF Queue
  <2>2. b \in 1..n
    BY DEF Extends
  <2>3. Q[b] = R[b]
    BY <2>2 DEF IsLonger
  <2> QED
    BY <2>1, <2>3, FromGrows
<1>6. PICK p \in Prices : p = r.price
  BY <1>2
<1>7. q \in Seq(Prices) /\ l = Len(q)
  BY <1>2, <1>3
<1>8. /\ Append(q, p) \in Seq(Prices)
       /\ Len(Append(q, p)) = l + 1
       /\ Append(q, p)[l + 1] = p
       /\ \A i \in 1..l : Append(q, p)[i] = q[i]
  BY <1>7, QueueOps
<1>9. l > 0 => /\ Popped(q) \in Seq(Prices)
                /\ Len(Popped(q)) = l - 1
                /\ \A i \in 1..(l - 1) : Popped(q)[i] = q[i + 1]
  BY <1>7, QueueOps
<1>10. CASE n + 1 \in C
  <2>1. /\ w \in Seq(Prices)
        /\ Len(w) = l + 1
        /\ w[l + 1] = r.price
        /\ \A i \in 1..l : w[i] = q[i]
    <3>1. w = Append(q, r.price)
      BY <1>10
    <3> QED
      BY <1>6, <1>8, <3>1
  <2>2. ASSUME NEW c \in 1..(l + 1)
        PROVE  \E b \in C : From(C, n + 1, b) = c /\ Q[b].price = w[Len(w) - c + 1]
    <3>1. CASE c = 1
      <4>1. From(C, n + 1, n + 1) = 1
        BY <1>10, FromGrows
      <4>2. Q[n + 1].price = r.price
        BY DEF IsLonger
      <4>3. Len(w) - c + 1 = l + 1
        BY <2>1, <3>1
      <4> QED
        BY <1>10, <2>1, <3>1, <4>1, <4>2, <4>3
    <3>2. CASE c # 1
      <4>1. PICK e \in 1..l : c = e + 1
        BY <3>2
      <4>2. PICK b \in C : From(C, n + 1, b) = e + 1 /\ Q[b].price = q[l - e + 1]
        BY <1>5, <1>10
      <4>3. Len(w) - c + 1 = l - e + 1 /\ l - e + 1 \in 1..l
        BY <2>1, <4>1
      <4> QED
        BY <2>1, <4>1, <4>2, <4>3
    <3> QED
      BY <3>1, <3>2
  <2> QED
    BY <1>4, <1>10, <2>1, <2>2 DEF Queue
<1>11. CASE n + 1 \notin C /\ n + 1 \in T /\ l > 0
  <2>1. w = Popped(q)
    BY <1>11
  <2>3. w \in Seq(Prices) /\ Len(w) = l - 1 /\ \A i \in 1..(l - 1) : w[i] = q[i + 1]
    BY <1>9, <1>11, <2>1
  <2>4. ASSUME NEW c \in 1..(l - 1)
        PROVE  \E b \in C : From(C, n + 1, b) = c /\ Q[b].price = w[Len(w) - c + 1]
    <3>1. c \in 1..l /\ c \in Nat
      OBVIOUS
    <3>2. PICK b \in C : From(C, n + 1, b) = c + 0 /\ Q[b].price = q[l - c + 1]
      BY <1>5, <1>11, <3>1
    <3>3. PICK i \in 1..(l - 1) : i = Len(w) - c + 1 /\ i + 1 = l - c + 1
      BY <2>3
    <3>4. w[Len(w) - c + 1] = q[l - c + 1]
      BY <2>3, <3>3
    <3>5. c + 0 = c
      BY <3>1
    <3> QED
      BY <3>2, <3>4, <3>5
  <2> QED
    BY <1>4, <1>11, <2>3, <2>4 DEF Queue
<1>12. CASE n + 1 \notin C /\ ~(n + 1 \in T /\ l > 0)
  <2>1. w = q
    <3>1. l = 0 => q = <<>>
      BY <1>7, EmptySeq
    <3>2. l = 0 => Popped(q) = q
      BY <3>1 DEF Popped
    <3> QED
      BY <1>12, <3>2
  <2>2. ASSUME NEW c \in 1..l
        PROVE  \E b \in C : From(C, n + 1, b) = c /\ Q[b].price = w[Len(w) - c + 1]
    <3>1. PICK b \in C : From(C, n + 1, b) = c + 0 /\ Q[b].price = q[l - c + 1]
      BY <1>5, <1>12
    <3>2. c + 0 = c /\ Len(w) = l
      BY <1>7, <2>1
    <3> QED
      BY <2>1, <3>1, <3>2
  <2> QED
    BY <1>2, <1>3, <1>4, <1>12, <2>1, <2>2 DEF Queue
<1> QED
  BY <1>10, <1>11, <1>12

\* The first of the queue is the oldest open buy.
LEMMA QueueHead ==
  ASSUME NEW R, NEW B, NEW S, NEW n \in Nat, \A k \in B : k \in 1..n,
         NEW q, Queue(q, R, B, S, n)
  PROVE  /\ q = <<>> <=> ~(Open(B, S, n) > 0)
         /\ q # <<>> => /\ Oldest(B, n, Open(B, S, n)) \in B
                        /\ Head(q) = R[Oldest(B, n, Open(B, S, n))].price
<1>1. q \in Seq(Prices) /\ Len(q) = Open(B, S, n) /\ Len(q) \in Nat
  BY DEF Queue
<1>2. q = <<>> <=> ~(Len(q) > 0)
  BY <1>1
<1>3. ASSUME q # <<>>
      PROVE  Oldest(B, n, Len(q)) \in B /\ Head(q) = R[Oldest(B, n, Len(q))].price
  <2>1. PICK c \in Nat : c = Len(q) /\ c \in 1..Len(q) /\ Len(q) - c + 1 = 1
    BY <1>1, <1>2, <1>3
  <2>2. PICK b \in B : From(B, n, b) = c /\ R[b].price = q[1]
    BY <2>1 DEF Queue
  <2>3. \A k \in B : k \in Nat \ {0} /\ k <= n
    OBVIOUS
  <2>4. PICK o : o = Oldest(B, n, c)
    OBVIOUS
  <2>5. o \in B /\ o <= n /\ From(B, n, o) = c
    BY <2>2, <2>3, <2>4 DEF Oldest
  <2>6. o = b
    BY <2>2, <2>3, <2>5, FromInjective
  <2> QED
    BY <1>1, <1>3, <2>1, <2>2, <2>4, <2>5, <2>6
<1> QED
  BY <1>1, <1>2, <1>3

\* The buys and the sells among the rows I of R.
Buys(R, I) == {i \in I : R[i].side = "buy"}
Sells(R, I) == {i \in I : R[i].side = "sell"}

\* OpenCount counts the open buys.
LEMMA OpenCountIs ==
  ASSUME NEW I, NEW i
  PROVE  OpenCount(I, i) = Open(Buys(rows, I), Sells(rows, I), i)
<1>1. ASSUME NEW j \in 0..i
      PROVE  /\ BuysOf({k \in I : k > j /\ k <= i}) = Slice(Buys(rows, I), j, i)
             /\ SellsOf({k \in I : k > j /\ k <= i}) = Slice(Sells(rows, I), j, i)
  BY DEF BuysOf, SellsOf, Buys, Sells, Slice
<1>2. {Cardinality(BuysOf({k \in I : k > j /\ k <= i}))
         - Cardinality(SellsOf({k \in I : k > j /\ k <= i})) : j \in 0..i}
        = {Excess(Buys(rows, I), Sells(rows, I), i, j) : j \in 0..i}
  BY <1>1 DEF Excess
<1> QED
  BY <1>2 DEF OpenCount, Open

\* OldestOpen is the oldest of them.
LEMMA OldestOpenIs ==
  ASSUME NEW I, NEW i
  PROVE  OldestOpen(I, i)
           = Oldest(Buys(rows, I), i, Open(Buys(rows, I), Sells(rows, I), i))
<1>1. BuysOf(I) = Buys(rows, I)
  BY DEF BuysOf, Buys
<1>2. OpenCount(I, i) = Open(Buys(rows, I), Sells(rows, I), i)
  BY OpenCountIs
<1> QED
  BY <1>1, <1>2 DEF OldestOpen, Oldest, From

\* One more row of the table extends the rows that are looked at, or not.
LEMMA SidesExtend ==
  ASSUME NEW R, NEW Q, NEW r, IsLonger(Q, R, r), NEW n \in Nat, n = Len(R),
         NEW I, NEW J, Extends(J, I, n)
  PROVE  /\ Extends(Buys(Q, J), Buys(R, I), n)
         /\ Extends(Sells(Q, J), Sells(R, I), n)
         /\ Buys(Q, J) \cap Sells(Q, J) = {}
         /\ n + 1 \in Buys(Q, J) <=> n + 1 \in J /\ r.side = "buy"
         /\ n + 1 \in Sells(Q, J) <=> n + 1 \in J /\ r.side = "sell"
<1>1. Q[n + 1] = r /\ \A i \in 1..n : Q[i] = R[i]
  BY DEF IsLonger
<1>2. /\ \A k \in I : k \in 1..n
      /\ \A k \in J : k \in 1..(n + 1)
      /\ \A k \in 1..n : k \in I <=> k \in J
  BY DEF Extends
<1>3. Extends(Buys(Q, J), Buys(R, I), n)
  BY <1>1, <1>2 DEF Buys, Extends
<1>4. Extends(Sells(Q, J), Sells(R, I), n)
  BY <1>1, <1>2 DEF Sells, Extends
<1>5. /\ n + 1 \in Buys(Q, J) <=> n + 1 \in J /\ r.side = "buy"
      /\ n + 1 \in Sells(Q, J) <=> n + 1 \in J /\ r.side = "sell"
      /\ Buys(Q, J) \cap Sells(Q, J) = {}
  BY <1>1 DEF Buys, Sells
<1> QED
  BY <1>3, <1>4, <1>5

\* The open buys of the table, and what is kept of them.
BuysOpen(R, q) ==
  Queue(q, R, Buys(R, 1..Len(R)), Sells(R, 1..Len(R)), Len(R))

\* In the terms of the model.
LEMMA BuysOpenAre ==
  ASSUME TypeInv, BuysOpen(rows, log.buys)
  PROVE  BuysAreTheOpenOnes
<1>1. PICK n, B, S, q : n = Len(rows) /\ B = Buys(rows, 1..n) /\ S = Sells(rows, 1..n)
                        /\ q = log.buys
  OBVIOUS
<1>2. n \in Nat /\ Rows = 1..n
  BY <1>1 DEF TypeInv, Rows
<1>3. Queue(q, rows, B, S, n) /\ \A k \in B : k \in 1..n
  BY <1>1 DEF BuysOpen, Buys
<1>4. OpenCount(Rows, n) = Open(B, S, n) /\ OldestOpen(Rows, n) = Oldest(B, n, Open(B, S, n))
  BY <1>1, <1>2, OpenCountIs, OldestOpenIs
<1>5. Len(q) = Open(B, S, n)
  BY <1>3 DEF Queue
<1>6. q # <<>> => Head(q) = rows[Oldest(B, n, Open(B, S, n))].price
  BY <1>2, <1>3, QueueHead
<1> QED
  BY <1>1, <1>4, <1>5, <1>6 DEF BuysAreTheOpenOnes

\* The queue keeps them on every row of every behaviour.
LEMMA BuysOpenInvariant == Spec => []BuysOpen(rows, log.buys)
<1>1. Init => BuysOpen(rows, log.buys)
  <2> SUFFICES ASSUME Init PROVE BuysOpen(rows, log.buys)
    OBVIOUS
  <2>1. rows = <<>> /\ log.buys = <<>>
    BY DEF Init, EmptyLog
  <2>2. <<>> \in Seq(Prices) /\ Len(<<>>) = 0
    OBVIOUS
  <2>3. Buys(<<>>, 1..0) = {} /\ Sells(<<>>, 1..0) = {}
    BY DEF Buys, Sells
  <2>4. Open({}, {}, 0) = 0
    BY OpenOfNone
  <2>5. Queue(<<>>, <<>>, {}, {}, 0)
    BY <2>2, <2>4 DEF Queue
  <2> QED
    BY <2>1, <2>2, <2>3, <2>5 DEF BuysOpen
<1>2. TypeInv /\ BuysOpen(rows, log.buys) /\ [Next]_vars => BuysOpen(rows, log.buys)'
  <2> SUFFICES ASSUME TypeInv, BuysOpen(rows, log.buys), [Next]_vars
               PROVE  BuysOpen(rows', log'.buys)
    OBVIOUS
  <2>1. CASE Insert
    <3>1. PICK r \in Row :
            /\ IsLonger(rows', rows, r)
            /\ log' = Recorded(log, r.side, r.price, r.qty, r.day = day)
      BY <2>1, InsertFacts
    <3>2. PICK t \in BOOLEAN : t = (r.day = day)
      OBVIOUS
    <3>3. PICK n, I, J : n = Len(rows) /\ I = 1..n /\ J = 1..(n + 1)
      OBVIOUS
    <3>4. n \in Nat /\ Len(rows') = n + 1
      BY <3>1, <3>3 DEF TypeInv, IsLonger
    <3>5. Extends(J, I, n) /\ n + 1 \in J
      BY <3>3, <3>4 DEF Extends
    <3>6. PICK q, w : q = log.buys /\ w = log'.buys
      OBVIOUS
    <3>7. r.side \in {"buy", "sell"}
      BY RowFacts
    <3>8. w = IF r.side = "buy" THEN Append(q, r.price) ELSE Popped(q)
      BY <3>1, <3>6 DEF Recorded, Bought, Sold
    <3>9. PICK Q : Q = rows'
      OBVIOUS
    <3>10. IsLonger(Q, rows, r)
      BY <3>1, <3>9
    <3>11. /\ Extends(Buys(Q, J), Buys(rows, I), n)
           /\ Extends(Sells(Q, J), Sells(rows, I), n)
           /\ Buys(Q, J) \cap Sells(Q, J) = {}
           /\ n + 1 \in Buys(Q, J) <=> r.side = "buy"
           /\ n + 1 \in Sells(Q, J) <=> r.side = "sell"
      BY <3>3, <3>4, <3>5, <3>10, SidesExtend
    <3>12. Queue(q, rows, Buys(rows, I), Sells(rows, I), n)
      BY <3>3, <3>6 DEF BuysOpen
    <3>13. /\ n + 1 \in Buys(Q, J) => w = Append(q, r.price)
           /\ n + 1 \in Sells(Q, J) => w = Popped(q)
           /\ n + 1 \notin Buys(Q, J) \cup Sells(Q, J) => w = q
      BY <3>7, <3>8, <3>11
    <3>14. Queue(w, Q, Buys(Q, J), Sells(Q, J), n + 1)
      BY <3>3, <3>4, <3>10, <3>11, <3>12, <3>13, QueueGrows
    <3> QED
      BY <3>3, <3>4, <3>6, <3>9, <3>14 DEF BuysOpen
  <2>2. CASE Midnight
    <3>1. log'.buys = log.buys
      BY <2>2 DEF Midnight, AtMidnight, TypeInv, Logs
    <3> QED
      BY <2>2, <3>1 DEF Midnight
  <2>3. CASE UNCHANGED vars
    BY <2>3 DEF vars
  <2> QED
    BY <2>1, <2>2, <2>3 DEF Next
<1> QED
  BY <1>1, <1>2, TypeInvariant, PTL DEF Spec

\* The queue that a sell is matched against (statistics.py: realized_pnl_for_sell)
\* holds the buys that no sell has closed, the oldest first.
THEOREM BuysAlwaysTheOpenOnes == Spec => []BuysAreTheOpenOnes
<1>1. TypeInv /\ BuysOpen(rows, log.buys) => BuysAreTheOpenOnes
  BY BuysOpenAre
<1> QED
  BY <1>1, TypeInvariant, BuysOpenInvariant, PTL

-----------------------------------------------------------------------------
(* The day's P&L *)

\* The oldest open buy is the same where the rows are.
LEMMA OldestSame ==
  ASSUME NEW n \in Nat, NEW m \in 0..n, NEW B, NEW C, Extends(C, B, n), NEW c
  PROVE  Oldest(C, m, c) = Oldest(B, m, c)
<1>1. /\ \A k \in B : k \in 1..n
      /\ \A k \in C : k \in 1..(n + 1)
      /\ \A k \in 1..n : k \in B <=> k \in C
  BY DEF Extends
<1>2. ASSUME NEW b PROVE {k \in B : b <= k /\ k <= m} = {k \in C : b <= k /\ k <= m}
  BY <1>1
<1>3. \A b : (b \in B /\ b <= m /\ From(B, m, b) = c)
               <=> (b \in C /\ b <= m /\ From(C, m, b) = c)
  <2> SUFFICES ASSUME NEW b
               PROVE  (b \in B /\ b <= m /\ From(B, m, b) = c)
                        <=> (b \in C /\ b <= m /\ From(C, m, b) = c)
    OBVIOUS
  <2>1. From(B, m, b) = From(C, m, b)
    BY <1>2 DEF From
  <2>2. b <= m => (b \in B <=> b \in C)
    BY <1>1
  <2> QED
    BY <2>1, <2>2
<1>4. Oldest(B, m, c) = CHOOSE b : b \in B /\ b <= m /\ From(B, m, b) = c
  BY DEF Oldest
<1>5. Oldest(C, m, c) = CHOOSE b : b \in C /\ b <= m /\ From(C, m, b) = c
  BY DEF Oldest
<1> QED
  BY <1>3, <1>4, <1>5

\* The open buys and the oldest of them among the rows I of R, after row i.
OpenAt(R, I, i) == Open(Buys(R, I), Sells(R, I), i)
OldestAt(R, I, i) == Oldest(Buys(R, I), i, OpenAt(R, I, i))

PnlAt(R, I, i) ==
  IF R[i].side = "sell" /\ OpenAt(R, I, i - 1) > 0
  THEN (R[i].price - R[OldestAt(R, I, i - 1)].price) * R[i].qty
  ELSE 0

PnlTable(R, I) == [i \in I |-> PnlAt(R, I, i)]

\* Whatever was matched was matched against a buy.
Found(R, I) ==
  \A i \in I : OpenAt(R, I, i - 1) > 0 => OldestAt(R, I, i - 1) \in Buys(R, I)

TodayOf(R, d) == {i \in 1..Len(R) : R[i].day = d}

\* What is kept of the rows I, those of today.
DayFigures(R, I, q, pnl) ==
  /\ Queue(q, R, Buys(R, I), Sells(R, I), Len(R))
  /\ Found(R, I)
  /\ pnl = SumOver(PnlTable(R, I), I)

\* What a row earned is a number.
LEMMA PnlTyped ==
  ASSUME NEW R \in Seq(Row), NEW I, \A i \in I : i \in 1..Len(R), Found(R, I), NEW i \in I
  PROVE  PnlAt(R, I, i) \in Int
<1>1. CASE R[i].side = "sell" /\ OpenAt(R, I, i - 1) > 0
  <2>1. PICK o : o = OldestAt(R, I, i - 1)
    OBVIOUS
  <2>2. o \in I
    BY <1>1, <2>1 DEF Found, Buys
  <2>3. PICK r, u \in Row : r = R[i] /\ u = R[o]
    BY <2>2
  <2>4. r.price \in Nat \ {0} /\ u.price \in Nat \ {0} /\ r.qty \in Nat
    BY RowFacts
  <2>5. (r.price - u.price) * r.qty \in Int
    BY <2>4, ProductType
  <2>6. PnlAt(R, I, i) = (R[i].price - R[o].price) * R[i].qty
    BY <1>1, <2>1, Zenon DEF PnlAt
  <2> QED
    BY <2>3, <2>5, <2>6, Zenon
<1>2. CASE ~(R[i].side = "sell" /\ OpenAt(R, I, i - 1) > 0)
  <2>1. PnlAt(R, I, i) = 0
    BY <1>2, Zenon DEF PnlAt
  <2> QED
    BY <2>1
<1> QED
  BY <1>1, <1>2

\* Another row leaves what the earlier ones earned.
LEMMA PnlSame ==
  ASSUME NEW R \in Seq(Row), NEW Q, NEW r, IsLonger(Q, R, r), NEW n \in Nat, n = Len(R),
         NEW I, NEW J, Extends(J, I, n), NEW i \in 1..(n + 1)
  PROVE  /\ OpenAt(Q, J, i - 1) = OpenAt(R, I, i - 1)
         /\ OldestAt(Q, J, i - 1) = OldestAt(R, I, i - 1)
         /\ i \in I /\ Found(R, I) => PnlAt(Q, J, i) = PnlAt(R, I, i)
<1>1. PICK B, C, S, T : B = Buys(R, I) /\ C = Buys(Q, J) /\ S = Sells(R, I) /\ T = Sells(Q, J)
  OBVIOUS
<1>2. Extends(C, B, n) /\ Extends(T, S, n)
  BY <1>1, SidesExtend
<1>3. PICK m \in 0..n : m = i - 1
  OBVIOUS
<1>4. Open(C, T, m) = Open(B, S, m)
  <2>1. /\ \A k \in B : k \in Nat \ {0}
        /\ \A k \in C : k \in Nat \ {0}
        /\ \A k \in S : k \in Nat \ {0}
        /\ \A k \in T : k \in Nat \ {0}
        /\ m \in Nat
    BY <1>2 DEF Extends
  <2>2. \A k \in 1..m : k \in B <=> k \in C
    BY <1>2 DEF Extends
  <2>3. \A k \in 1..m : k \in S <=> k \in T
    BY <1>2 DEF Extends
  <2> QED
    BY <2>1, <2>2, <2>3, OpenSame
<1>5. OpenAt(Q, J, m) = OpenAt(R, I, m)
  BY <1>1, <1>4 DEF OpenAt
<1>6. OldestAt(Q, J, m) = OldestAt(R, I, m)
  BY <1>1, <1>2, <1>5, OldestSame DEF OldestAt
<1>7. ASSUME i \in I, Found(R, I) PROVE PnlAt(Q, J, i) = PnlAt(R, I, i)
  <2>1. i \in 1..n
    BY <1>7 DEF Extends
  <2>2. Q[i] = R[i]
    BY <2>1 DEF IsLonger
  <2>3. CASE OpenAt(R, I, m) > 0
    <3>1. PICK o : o = OldestAt(R, I, m)
      OBVIOUS
    <3>2. o \in I
      BY <1>3, <1>7, <2>3, <3>1 DEF Found, Buys
    <3>3. Q[o] = R[o]
      BY <3>2 DEF Extends, IsLonger
    <3> QED
      BY <1>3, <1>5, <1>6, <2>2, <3>1, <3>3, Zenon DEF PnlAt
  <2>4. CASE ~(OpenAt(R, I, m) > 0)
    BY <1>3, <1>5, <2>4, Zenon DEF PnlAt
  <2> QED
    BY <2>3, <2>4
<1> QED
  BY <1>3, <1>5, <1>6, <1>7

\* The sum of the table is that of its earlier rows and of the new one.
LEMMA DayGrows ==
  ASSUME NEW R \in Seq(Row), NEW Q, NEW r, IsLonger(Q, R, r), NEW n \in Nat, n = Len(R),
         NEW I, NEW J, Extends(J, I, n),
         NEW q, NEW pnl, DayFigures(R, I, q, pnl),
         NEW t \in BOOLEAN, t <=> n + 1 \in J, NEW w, NEW s,
         ~t => w = q /\ s = 0,
         t /\ r.side = "buy" => w = Append(q, r.price) /\ s = 0,
         t /\ r.side = "sell" => w = Popped(q) /\ s = Matched(q, r.price, r.qty)
  PROVE  DayFigures(Q, J, w, pnl + s)
<1>1. /\ Extends(Buys(Q, J), Buys(R, I), n)
      /\ Extends(Sells(Q, J), Sells(R, I), n)
      /\ Buys(Q, J) \cap Sells(Q, J) = {}
      /\ n + 1 \in Buys(Q, J) <=> t /\ r.side = "buy"
      /\ n + 1 \in Sells(Q, J) <=> t /\ r.side = "sell"
  BY SidesExtend
<1>2. r.side \in {"buy", "sell"}
  BY RowFacts DEF IsLonger
<1>3. Len(Q) = n + 1 /\ Q \in Seq(Row) /\ Q[n + 1] = r /\ \A i \in 1..n : Q[i] = R[i]
  BY DEF IsLonger
<1>4. Queue(q, R, Buys(R, I), Sells(R, I), n) /\ Found(R, I)
      /\ pnl = SumOver(PnlTable(R, I), I)
  BY DEF DayFigures
<1>5. Queue(w, Q, Buys(Q, J), Sells(Q, J), n + 1)
  <2>1. n + 1 \in Buys(Q, J) => w = Append(q, r.price)
    BY <1>1
  <2>2. n + 1 \in Sells(Q, J) => w = Popped(q)
    BY <1>1
  <2>3. n + 1 \notin Buys(Q, J) \cup Sells(Q, J) => w = q
    BY <1>1, <1>2
  <2> QED
    BY <1>1, <1>4, <2>1, <2>2, <2>3, QueueGrows
<1>6. PICK m \in 1..(n + 1) : m = n + 1 /\ m - 1 = n
  OBVIOUS
<1>7. PICK o : o = OldestAt(R, I, n)
  OBVIOUS
<1>8. OpenAt(Q, J, n) = OpenAt(R, I, n) /\ OldestAt(Q, J, n) = o
  BY <1>6, <1>7, PnlSame
<1>9. /\ q = <<>> <=> ~(OpenAt(R, I, n) > 0)
      /\ q # <<>> => o \in Buys(R, I) /\ Head(q) = R[o].price
  <2>1. \A k \in Buys(R, I) : k \in 1..n
    BY <1>1 DEF Extends
  <2> QED
    BY <1>4, <1>7, <2>1, QueueHead DEF OpenAt, OldestAt
<1>10. Found(Q, J)
  <2> SUFFICES ASSUME NEW i \in J, OpenAt(Q, J, i - 1) > 0
               PROVE  OldestAt(Q, J, i - 1) \in Buys(Q, J)
    BY DEF Found
  <2>1. i \in 1..(n + 1) /\ \A b \in Buys(R, I) : b \in Buys(Q, J)
    BY <1>1 DEF Extends
  <2>2. CASE i = m
    BY <1>6, <1>8, <1>9, <2>1, <2>2
  <2>3. CASE i # m
    <3>1. i \in I
      BY <1>6, <2>1, <2>3 DEF Extends
    <3>2. OpenAt(Q, J, i - 1) = OpenAt(R, I, i - 1) /\ OldestAt(Q, J, i - 1) = OldestAt(R, I, i - 1)
      BY <2>1, PnlSame
    <3> QED
      BY <1>4, <2>1, <3>1, <3>2 DEF Found
  <2> QED
    BY <2>2, <2>3
<1>11. t => PnlAt(Q, J, n + 1) = s
  <2> SUFFICES ASSUME t PROVE PnlAt(Q, J, m) = s
    BY <1>6
  <2>1. CASE r.side = "buy"
    BY <1>3, <1>6, <2>1 DEF PnlAt
  <2>2. CASE r.side = "sell" /\ q = <<>>
    <3>1. s = 0
      BY <2>2 DEF Matched
    <3>2. ~(OpenAt(Q, J, m - 1) > 0)
      BY <1>6, <1>8, <1>9, <2>2
    <3>3. PnlAt(Q, J, m) = 0
      BY <3>2, Zenon DEF PnlAt
    <3> QED
      BY <3>1, <3>3
  <2>3. CASE r.side = "sell" /\ q # <<>>
    <3>1. s = (r.price - Head(q)) * r.qty
      BY <2>3, Zenon DEF Matched
    <3>2. OpenAt(Q, J, m - 1) > 0 /\ OldestAt(Q, J, m - 1) = o
      BY <1>6, <1>8, <1>9, <2>3
    <3>3. o \in 1..n
      BY <1>1, <1>9, <2>3 DEF Extends
    <3>4. Q[o].price = Head(q) /\ Q[m] = r
      BY <1>3, <1>6, <1>9, <2>3, <3>3
    <3>5. PnlAt(Q, J, m) = (Q[m].price - Q[o].price) * Q[m].qty
      BY <2>3, <3>2, <3>4, Zenon DEF PnlAt
    <3> QED
      BY <3>1, <3>4, <3>5, Zenon
  <2> QED
    BY <1>2, <2>1, <2>2, <2>3
<1>12. pnl + s = SumOver(PnlTable(Q, J), J)
  <2>1. PICK d, e : d = PnlTable(R, I) /\ e = PnlTable(Q, J)
    OBVIOUS
  <2>2. (\A i \in I : i \in 1..n) /\ (\A i \in J : i \in 1..Len(Q))
    BY <1>3 DEF Extends
  <2>3. IsFiniteSet(I)
    <3>1. IsFiniteSet(1..n)
      BY FS_Interval
    <3> QED
      BY <2>2, <3>1, FS_Subset
  <2>4. \A i \in I : d[i] \in Int
    <3> SUFFICES ASSUME NEW i \in I PROVE PnlAt(R, I, i) \in Int
      BY <2>1 DEF PnlTable
    <3> QED
      BY <1>4, <2>2, PnlTyped
  <2>5. \A i \in J : e[i] \in Int
    <3> SUFFICES ASSUME NEW i \in J PROVE PnlAt(Q, J, i) \in Int
      BY <2>1 DEF PnlTable
    <3> QED
      BY <1>3, <1>10, <2>2, PnlTyped
  <2>6. \A i \in I : i \in J /\ e[i] = d[i]
    <3> SUFFICES ASSUME NEW i \in I PROVE i \in J /\ PnlAt(Q, J, i) = PnlAt(R, I, i)
      BY <2>1 DEF PnlTable
    <3>1. i \in J /\ i \in 1..(n + 1)
      BY <2>2 DEF Extends
    <3> QED
      BY <1>4, <3>1, PnlSame
  <2>7. SumOver(e, I) = pnl
    <3>1. SumOver(e, I) = SumOver(d, I)
      BY <2>3, <2>4, <2>6, SumSame
    <3> QED
      BY <1>4, <2>1, <3>1
  <2>8. pnl \in Int
    BY <1>4, <2>1, <2>3, <2>4, SumStep
  <2>9. CASE t
    <3>1. J = I \cup {m} /\ m \notin I
      BY <1>6, <2>9 DEF Extends
    <3>2. \A i \in I \cup {m} : e[i] \in Int
      BY <2>5, <3>1
    <3>3. SumOver(e, I \cup {m}) = SumOver(e, I) + e[m]
      BY <2>3, <3>1, <3>2, SumAdd
    <3>4. e[m] = s
      BY <1>6, <1>11, <2>1, <2>9, <3>1 DEF PnlTable
    <3> QED
      BY <2>1, <2>7, <3>1, <3>3, <3>4
  <2>10. CASE ~t
    <3>1. J = I
      <4>1. \A k \in J : k \in 1..n
        BY <1>6, <2>10 DEF Extends
      <4>2. \A k \in J : k \in I
        BY <4>1 DEF Extends
      <4> QED
        BY <2>6, <4>2
    <3>2. s = 0
      BY <2>10
    <3> QED
      BY <2>1, <2>7, <2>8, <3>1, <3>2
  <2> QED
    BY <2>9, <2>10
<1> QED
  BY <1>3, <1>5, <1>10, <1>12 DEF DayFigures

\* Before the first row of a day.
LEMMA DayStarts ==
  ASSUME NEW R, Len(R) \in Nat
  PROVE  DayFigures(R, {}, <<>>, 0)
<1>1. <<>> \in Seq(Prices) /\ Len(<<>>) = 0
  OBVIOUS
<1>2. Buys(R, {}) = {} /\ Sells(R, {}) = {}
  BY DEF Buys, Sells
<1>3. Queue(<<>>, R, {}, {}, Len(R))
  BY <1>1, OpenOfNone DEF Queue
<1>4. SumOver(PnlTable(R, {}), {}) = 0
  BY SumStep, FS_EmptySet
<1> QED
  BY <1>2, <1>3, <1>4 DEF DayFigures, Found

\* The day's figures are those of the rows of the day in every behaviour.
LEMMA DayInvariant == Spec => []DayFigures(rows, TodayOf(rows, day), log.dayBuys, dayPnl)
<1> DEFINE Inv == DayFigures(rows, TodayOf(rows, day), log.dayBuys, dayPnl)
<1>1. Init => Inv
  <2> SUFFICES ASSUME Init PROVE Inv
    OBVIOUS
  <2>1. rows = <<>> /\ log.dayBuys = <<>> /\ dayPnl = 0
    BY DEF Init, EmptyLog
  <2>2. Len(<<>>) = 0
    OBVIOUS
  <2>3. TodayOf(<<>>, day) = {}
    BY <2>2 DEF TodayOf
  <2> QED
    BY <2>1, <2>2, <2>3, DayStarts
<1>2. TypeInv /\ Inv /\ [Next]_vars => Inv'
  <2> SUFFICES ASSUME TypeInv, Inv, [Next]_vars
               PROVE  DayFigures(rows', TodayOf(rows', day'), log'.dayBuys, dayPnl')
    OBVIOUS
  <2>1. CASE Insert
    <3>1. PICK r \in Row :
            /\ IsLonger(rows', rows, r)
            /\ r.day <= day
            /\ log' = Recorded(log, r.side, r.price, r.qty, r.day = day)
            /\ dayPnl' = dayPnl + DayPnlStep(log, r.side, r.price, r.qty, r.day = day)
            /\ day' = day
      BY <2>1, InsertFacts
    <3>2. PICK n, I, J, Q : /\ n = Len(rows) /\ Q = rows'
                            /\ I = TodayOf(rows, day) /\ J = TodayOf(Q, day)
      OBVIOUS
    <3>3. PICK q, w : q = log.dayBuys /\ w = log'.dayBuys
      OBVIOUS
    <3>4. PICK t \in BOOLEAN : t <=> r.day = day
      OBVIOUS
    <3>5. /\ IsLonger(Q, rows, r) /\ n \in Nat /\ rows \in Seq(Row)
          /\ Len(Q) = n + 1 /\ Q[n + 1] = r /\ \A i \in 1..n : Q[i] = rows[i]
      BY <3>1, <3>2 DEF TypeInv, IsLonger
    <3>6. Extends(J, I, n)
      <4>1. \A k \in 1..n : k \in I <=> k \in J
        BY <3>2, <3>5 DEF TodayOf
      <4> QED
        BY <3>2, <3>5, <4>1 DEF TodayOf, Extends
    <3>7. t <=> n + 1 \in J
      BY <3>2, <3>4, <3>5 DEF TodayOf
    <3>8. PICK s : s = DayPnlStep(log, r.side, r.price, r.qty, r.day = day)
      OBVIOUS
    <3>9. r.side \in {"buy", "sell"}
      BY RowFacts
    <3>10. ~t => w = q /\ s = 0
      BY <3>1, <3>3, <3>4, <3>8, <3>9 DEF DayPnlStep, Recorded, Bought, Sold
    <3>11. /\ t /\ r.side = "buy" => w = Append(q, r.price) /\ s = 0
           /\ t /\ r.side = "sell" => w = Popped(q) /\ s = Matched(q, r.price, r.qty)
      BY <3>1, <3>3, <3>4, <3>8 DEF DayPnlStep, Recorded, Bought, Sold
    <3>12. DayFigures(rows, I, q, dayPnl)
      BY <3>2, <3>3
    <3>13. DayFigures(Q, J, w, dayPnl + s)
      BY <3>5, <3>2, <3>6, <3>7, <3>10, <3>11, <3>12, DayGrows
    <3> QED
      BY <3>1, <3>2, <3>3, <3>8, <3>13
  <2>2. CASE Midnight
    <3>1. rows' = rows /\ day' = day + 1 /\ log'.dayBuys = <<>> /\ dayPnl' = 0
      BY <2>2 DEF Midnight, AtMidnight, TypeInv, Logs
    <3>2. Len(rows) \in Nat
      BY DEF TypeInv
    <3>3. TodayOf(rows, day + 1) = {}
      <4>1. day \in Nat /\ \A i \in 1..Len(rows) : rows[i].day <= day
        BY DEF TypeInv
      <4> QED
        BY <4>1 DEF TodayOf
    <3> QED
      BY <3>1, <3>2, <3>3, DayStarts
  <2>3. CASE UNCHANGED vars
    BY <2>3 DEF vars
  <2> QED
    BY <2>1, <2>2, <2>3 DEF Next
<1> HIDE DEF Inv
<1>3. Spec => []Inv
  BY <1>1, <1>2, TypeInvariant, PTL DEF Spec
<1> QED
  BY <1>3 DEF Inv

\* PnlOf is what a row of the table earned.
LEMMA PnlIs ==
  ASSUME NEW I, NEW i
  PROVE  PnlOf(I, i) = PnlAt(rows, I, i)
<1>1. OpenCount(I, i - 1) = OpenAt(rows, I, i - 1)
  BY OpenCountIs DEF OpenAt
<1>2. OldestOpen(I, i - 1) = OldestAt(rows, I, i - 1)
  BY OldestOpenIs DEF OldestAt, OpenAt
<1> QED
  BY <1>1, <1>2, Zenon DEF PnlOf, PnlAt

\* The sum of the fold of the community modules over the rows of today.
LEMMA FoldIsDay ==
  ASSUME rows \in Seq(Row), NEW I, I \subseteq 1..Len(rows), Found(rows, I)
  PROVE  MapThenSumSet(LAMBDA i : PnlOf(I, i), I) = SumOver(PnlTable(rows, I), I)
<1>1. PICK d : d = PnlTable(rows, I)
  OBVIOUS
<1>2. IsFiniteSet(I)
  <2>1. IsFiniteSet(1..Len(rows))
    BY FS_Interval
  <2> QED
    BY <2>1, FS_Subset
<1>3. \A x \in I : d[x] \in Int /\ d[x] = PnlOf(I, x)
  <2> SUFFICES ASSUME NEW x \in I PROVE d[x] \in Int /\ d[x] = PnlOf(I, x)
    OBVIOUS
  <2>1. PnlAt(rows, I, x) \in Int
    BY PnlTyped
  <2>2. PnlOf(I, x) = PnlAt(rows, I, x)
    BY PnlIs
  <2> QED
    BY <1>1, <2>1, <2>2 DEF PnlTable
<1> DEFINE body(g) == [t \in SUBSET I |->
                         IF t = {} THEN 0 ELSE PnlOf(I, Pick(t)) + g[t \ {Pick(t)}]]
           f == CHOOSE g : g = body(g)
<1>4. MapThenSumSet(LAMBDA i : PnlOf(I, i), I) = f[I]
  BY DEF MapThenSumSet, MapThenFoldSet, Pick
<1>5. PICK h : IsFold(h, d, I)
  BY <1>2, <1>3, FoldExists
<1>6. h = body(h)
  <2>1. h = [t \in SUBSET I |-> h[t]]
    BY <1>5 DEF IsFold
  <2>2. ASSUME NEW t \in SUBSET I
        PROVE  h[t] = IF t = {} THEN 0 ELSE PnlOf(I, Pick(t)) + h[t \ {Pick(t)}]
    <3>1. t # {} => Pick(t) \in I
      BY PickIn
    <3> QED
      BY <1>3, <1>5, <3>1 DEF IsFold
  <2> QED
    BY <2>1, <2>2
<1>7. f = body(f)
  BY <1>6
<1>8. PICK g : g = f
  OBVIOUS
<1> HIDE DEF f
<1>9. g = [t \in SUBSET I |-> IF t = {} THEN 0 ELSE d[Pick(t)] + g[t \ {Pick(t)}]]
  <2>1. g = body(g)
    BY <1>7, <1>8
  <2>2. ASSUME NEW t \in SUBSET I
        PROVE  (IF t = {} THEN 0 ELSE PnlOf(I, Pick(t)) + g[t \ {Pick(t)}])
               = (IF t = {} THEN 0 ELSE d[Pick(t)] + g[t \ {Pick(t)}])
    <3>1. t # {} => Pick(t) \in I
      BY PickIn
    <3> QED
      BY <1>3, <3>1
  <2> QED
    BY <2>1, <2>2
<1>10. IsFold(g, d, I)
  BY <1>2, <1>3, <1>9, FoldTyped
<1>11. SumOver(d, I) = g[I]
  BY <1>2, <1>10, SumIs
<1> QED
  BY <1>1, <1>4, <1>8, <1>11

\* daily_pnl (trader.py) is the FIFO P&L of the rows of today alone: a sell of
\* today is matched against a buy of today or against nothing.
THEOREM DayPnlAlwaysOfTheCutTable == Spec => []DayPnlIsOfTheCutTable
<1>1. TypeInv /\ DayFigures(rows, TodayOf(rows, day), log.dayBuys, dayPnl)
        => DayPnlIsOfTheCutTable
  <2> SUFFICES ASSUME TypeInv, DayFigures(rows, TodayOf(rows, day), log.dayBuys, dayPnl)
               PROVE  DayPnlIsOfTheCutTable
    OBVIOUS
  <2> DEFINE Today == {i \in Rows : rows[i].day = day}
  <2>1. DayPnlIsOfTheCutTable <=> dayPnl = MapThenSumSet(LAMBDA i : PnlOf(Today, i), Today)
    BY DEF DayPnlIsOfTheCutTable
  <2>2. Today = TodayOf(rows, day)
    BY DEF Rows, TodayOf
  <2> HIDE DEF Today
  <2>3. rows \in Seq(Row) /\ Today \subseteq 1..Len(rows) /\ Found(rows, Today)
        /\ dayPnl = SumOver(PnlTable(rows, Today), Today)
    BY <2>2 DEF TypeInv, TodayOf, DayFigures
  <2>4. MapThenSumSet(LAMBDA i : PnlOf(Today, i), Today) = dayPnl
    BY <2>3, FoldIsDay
  <2> QED
    BY <2>1, <2>4
<1> QED
  BY <1>1, TypeInvariant, DayInvariant, PTL

=============================================================================
