-------------------------- MODULE TradeLog_proofs --------------------------
(***************************************************************************)
(* Lemmas that the proofs of several components rest on: induction over    *)
(* the naturals and over the subsets of a finite set, stated for sets      *)
(* because a set can be named in a proof where a predicate cannot; what    *)
(* the fold of the community modules sums; greatest elements; and what a   *)
(* row does to a log and a signal to a belief.                             *)
(***************************************************************************)
EXTENDS TradeLog, Strategy, FiniteSetsExt, FiniteSetTheorems, WellFoundedInduction, TLAPS

(* Induction *)

\* Induction over the natural numbers, for a set instead of a predicate.
LEMMA NatInductive ==
  ASSUME NEW S, 0 \in S, \A n \in Nat : n \in S => n + 1 \in S
  PROVE  Nat \subseteq S
<1> DEFINE T == Nat \ S
<1> SUFFICES ASSUME T # {} PROVE FALSE
  OBVIOUS
<1>1. IsWellFoundedOn(OpToRel(<, Nat), Nat)
  BY NatLessThanWellFounded
<1>2. PICK n \in T : \A m \in T : ~(<<m, n>> \in OpToRel(<, Nat))
  BY <1>1, WFMin
<1>3. n - 1 \in Nat /\ n - 1 < n
  OBVIOUS
<1>4. <<n - 1, n>> \in OpToRel(<, Nat)
  BY <1>3 DEF OpToRel
<1>5. n - 1 \in S
  BY <1>2, <1>3, <1>4
<1> QED
  BY <1>3, <1>5

\* Induction over the subsets of a finite set: F holds those of which a claim is
\* true.
LEMMA SubsetInductive ==
  ASSUME NEW S, IsFiniteSet(S), NEW F,
         \A T \in SUBSET S : (\A U \in SUBSET T : U # T => U \in F) => T \in F
  PROVE  SUBSET S \subseteq F
<1> DEFINE C == (SUBSET S) \ F
<1> SUFFICES ASSUME C # {} PROVE FALSE
  OBVIOUS
<1>1. IsWellFoundedOn(StrictSubsetOrdering(S), SUBSET S)
  <2>1. IsWellFoundedOn(StrictSubsetOrdering(S), FiniteSubsetsOf(S))
    BY FS_StrictSubsetOrderingWellFounded
  <2>2. FiniteSubsetsOf(S) = SUBSET S
    BY FS_FiniteSubsetsOfFinite
  <2> QED
    BY <2>1, <2>2
<1>2. PICK T \in C : \A U \in C : ~(<<U, T>> \in StrictSubsetOrdering(S))
  <2>1. C \subseteq SUBSET S /\ C # {}
    OBVIOUS
  <2> HIDE DEF C
  <2>2. \E T \in C : \A U \in C : ~(<<U, T>> \in StrictSubsetOrdering(S))
    BY <1>1, <2>1, WFMin
  <2> QED
    BY <2>2
<1>3. ASSUME NEW U \in SUBSET T, U # T PROVE U \in F
  <2>1. <<U, T>> \in StrictSubsetOrdering(S)
    BY <1>3 DEF StrictSubsetOrdering
  <2> QED
    BY <1>2, <2>1
<1> QED
  BY <1>3

(* Sums *)

\* The element that the fold of the community modules takes next.
Pick(s) == CHOOSE x \in s : TRUE

\* It is one of the set.
LEMMA PickIn == ASSUME NEW s, s # {} PROVE Pick(s) \in s
  BY DEF Pick

\* g is the fold's table of the sums of d over the subsets of S.
IsFold(g, d, S) ==
  /\ g \in [SUBSET S -> Int]
  /\ \A s \in SUBSET S :
       g[s] = IF s = {} THEN 0 ELSE d[Pick(s)] + g[s \ {Pick(s)}]

\* The sum of d over S.
SumOver(d, S) == (CHOOSE g : IsFold(g, d, S))[S]

\* The table is determined by d and S,
LEMMA FoldUnique ==
  ASSUME NEW S, IsFiniteSet(S), NEW d, NEW g, NEW h, IsFold(g, d, S), IsFold(h, d, S)
  PROVE  g = h
<1> DEFINE F == {s \in SUBSET S : g[s] = h[s]}
<1>1. ASSUME NEW T \in SUBSET S, \A U \in SUBSET T : U # T => U \in F PROVE T \in F
  <2>1. CASE T = {}
    BY <2>1 DEF IsFold
  <2>2. CASE T # {}
    <3>1. Pick(T) \in T
      BY <2>2, PickIn
    <3>2. g[T \ {Pick(T)}] = h[T \ {Pick(T)}]
      BY <1>1, <3>1
    <3> QED
      BY <2>2, <3>2 DEF IsFold
  <2> QED
    BY <2>1, <2>2
<1> HIDE DEF F
<1>2. SUBSET S \subseteq F
  BY <1>1, SubsetInductive
<1> QED
  BY <1>2 DEF F, IsFold

\* restricts to the subsets of a subset,
LEMMA FoldRestricts ==
  ASSUME NEW S, NEW T \in SUBSET S, NEW d, NEW g, IsFold(g, d, S),
         NEW h, h = [s \in SUBSET T |-> g[s]]
  PROVE  IsFold(h, d, T)
<1>1. h \in [SUBSET T -> Int]
  BY DEF IsFold
<1>2. ASSUME NEW s \in SUBSET T
      PROVE  h[s] = IF s = {} THEN 0 ELSE d[Pick(s)] + h[s \ {Pick(s)}]
  <2>1. s \in SUBSET S /\ s \ {Pick(s)} \in SUBSET T
    OBVIOUS
  <2>2. h[s] = g[s] /\ h[s \ {Pick(s)}] = g[s \ {Pick(s)}]
    BY <2>1
  <2> QED
    BY <2>1, <2>2 DEF IsFold
<1> QED
  BY <1>1, <1>2 DEF IsFold

\* and exists.
LEMMA FoldExists ==
  ASSUME NEW S, IsFiniteSet(S), NEW d, \A x \in S : d[x] \in Int
  PROVE  \E g : IsFold(g, d, S)
<1> DEFINE F == {T \in SUBSET S : \E g : IsFold(g, d, T)}
<1>1. ASSUME NEW T \in SUBSET S, \A U \in SUBSET T : U # T => U \in F PROVE T \in F
  <2> DEFINE G(U) == CHOOSE g : IsFold(g, d, U)
             v(s) == IF s = {} THEN 0
                     ELSE IF s = T THEN d[Pick(T)] + G(T \ {Pick(T)})[T \ {Pick(T)}]
                     ELSE G(s)[s]
             h == [s \in SUBSET T |-> v(s)]
  <2>1. ASSUME NEW U \in SUBSET T, U # T PROVE IsFold(G(U), d, U)
    <3>1. U \in F
      BY <1>1, <2>1
    <3> QED
      BY <3>1
  <2> HIDE DEF G
  <2>2. ASSUME NEW U \in SUBSET T, U # T, NEW s \in SUBSET U
        PROVE  G(U)[s] = G(s)[s] /\ G(s)[s] \in Int
    <3>1. s \in SUBSET T /\ s # T
      BY <2>2
    <3>2. IsFold(G(U), d, U) /\ IsFold(G(s), d, s)
      BY <2>1, <2>2, <3>1
    <3>3. IsFiniteSet(s)
      BY FS_Subset
    <3>4. PICK g : g = G(U)
      OBVIOUS
    <3>5. PICK r : r = [t \in SUBSET s |-> g[t]]
      OBVIOUS
    <3>6. IsFold(g, d, U)
      BY <3>2, <3>4
    <3>7. IsFold(r, d, s)
      BY <2>2, <3>5, <3>6, FoldRestricts
    <3>8. r = G(s)
      BY <3>2, <3>3, <3>7, FoldUnique
    <3>9. r[s] = g[s]
      BY <3>5
    <3> QED
      BY <3>2, <3>4, <3>8, <3>9 DEF IsFold
  <2>3. ASSUME NEW s \in SUBSET T
        PROVE  /\ v(s) \in Int
               /\ v(s) = IF s = {} THEN 0 ELSE d[Pick(s)] + v(s \ {Pick(s)})
    <3>1. CASE s = {}
      BY <3>1
    <3>2. CASE s # {}
      <4> DEFINE r == s \ {Pick(s)}
      <4>1. Pick(s) \in s /\ d[Pick(s)] \in Int
        BY <3>2, PickIn
      <4>2. r \in SUBSET T /\ r # T /\ r \in SUBSET s /\ r # s
        BY <4>1
      <4>3. G(r)[r] \in Int
        BY <2>2, <4>2
      <4>4. v(r) = G(r)[r]
        <5>1. CASE r = {}
          <6>1. G(r)[r] = 0
            BY <2>1, <4>2, <5>1 DEF IsFold
          <6> QED
            BY <5>1, <6>1
        <5>2. CASE r # {}
          BY <4>2, <5>2
        <5> QED
          BY <5>1, <5>2
      <4>5. v(s) = d[Pick(s)] + G(r)[r]
        <5>1. CASE s = T
          BY <3>2, <5>1
        <5>2. CASE s # T
          <6>1. v(s) = G(s)[s] /\ G(s)[s] = d[Pick(s)] + G(s)[r]
            BY <2>1, <3>2, <5>2 DEF IsFold
          <6>2. G(s)[r] = G(r)[r]
            BY <2>2, <4>2, <5>2
          <6> QED
            BY <6>1, <6>2
        <5> QED
          BY <5>1, <5>2
      <4> HIDE DEF v, r
      <4>6. v(s) = d[Pick(s)] + v(r) /\ v(s) \in Int
        BY <4>1, <4>3, <4>4, <4>5
      <4> QED
        BY <3>2, <4>6 DEF r
    <3> QED
      BY <3>1, <3>2
  <2> HIDE DEF v
  <2>4. IsFold(h, d, T)
    <3>1. h \in [SUBSET T -> Int]
      BY <2>3
    <3>2. ASSUME NEW s \in SUBSET T
          PROVE  h[s] = IF s = {} THEN 0 ELSE d[Pick(s)] + h[s \ {Pick(s)}]
      <4>1. h[s] = v(s) /\ h[s \ {Pick(s)}] = v(s \ {Pick(s)})
        OBVIOUS
      <4> QED
        BY <2>3, <4>1
    <3> HIDE DEF h
    <3> QED
      BY <3>1, <3>2 DEF IsFold
  <2> QED
    BY <2>4
<1> HIDE DEF F
<1>2. S \in F
  BY <1>1, SubsetInductive
<1> QED
  BY <1>2 DEF F

\* Any table gives the sum.
LEMMA SumIs ==
  ASSUME NEW S, IsFiniteSet(S), NEW d, NEW g, IsFold(g, d, S)
  PROVE  SumOver(d, S) = g[S] /\ SumOver(d, S) \in Int
<1> DEFINE c == CHOOSE f : IsFold(f, d, S)
<1>1. IsFold(c, d, S)
  OBVIOUS
<1> HIDE DEF c
<1>2. c = g
  BY <1>1, FoldUnique
<1>3. g[S] \in Int
  BY DEF IsFold
<1> QED
  BY <1>2, <1>3 DEF SumOver, c

\* The fold of the community modules, without its type.
LEMMA FoldTyped ==
  ASSUME NEW S, IsFiniteSet(S), NEW d, \A x \in S : d[x] \in Int, NEW g,
         g = [s \in SUBSET S |->
                IF s = {} THEN 0 ELSE d[Pick(s)] + g[s \ {Pick(s)}]]
  PROVE  IsFold(g, d, S)
<1> DEFINE F == {s \in SUBSET S : g[s] \in Int}
<1>1. \A s \in SUBSET S :
        g[s] = IF s = {} THEN 0 ELSE d[Pick(s)] + g[s \ {Pick(s)}]
  <2>1. PICK h : h = g
    OBVIOUS
  <2>2. g = [s \in SUBSET S |->
               IF s = {} THEN 0 ELSE d[Pick(s)] + h[s \ {Pick(s)}]]
    BY <2>1, Zenon
  <2>3. \A s \in SUBSET S :
          g[s] = IF s = {} THEN 0 ELSE d[Pick(s)] + h[s \ {Pick(s)}]
    BY <2>2
  <2> QED
    BY <2>1, <2>3
<1>2. ASSUME NEW T \in SUBSET S, \A U \in SUBSET T : U # T => U \in F PROVE T \in F
  <2>1. CASE T = {}
    BY <1>1, <2>1
  <2>2. CASE T # {}
    <3>1. Pick(T) \in T
      BY <2>2, PickIn
    <3>2. g[T \ {Pick(T)}] \in Int /\ d[Pick(T)] \in Int
      BY <1>2, <3>1
    <3>3. g[T] = d[Pick(T)] + g[T \ {Pick(T)}]
      BY <1>1, <2>2
    <3>4. g[T] \in Int
      BY <3>2, <3>3
    <3> QED
      BY <3>4
  <2> QED
    BY <2>1, <2>2
<1> HIDE DEF F
<1>3. SUBSET S \subseteq F
  BY <1>2, SubsetInductive
<1>4. \A s \in SUBSET S : g[s] \in Int
  BY <1>3 DEF F
<1>5. g \in [SUBSET S -> Int]
  BY <1>4
<1> QED
  BY <1>1, <1>5 DEF IsFold

\* The sum in terms of the sum over one element less.
LEMMA SumStep ==
  ASSUME NEW S, IsFiniteSet(S), NEW d, \A x \in S : d[x] \in Int
  PROVE  /\ SumOver(d, S) \in Int
         /\ S = {} => SumOver(d, S) = 0
         /\ S # {} => SumOver(d, S) = d[Pick(S)] + SumOver(d, S \ {Pick(S)})
<1>1. PICK g : IsFold(g, d, S)
  BY FoldExists
<1>2. SumOver(d, S) = g[S] /\ SumOver(d, S) \in Int
  BY <1>1, SumIs
<1>3. ASSUME S # {} PROVE SumOver(d, S) = d[Pick(S)] + SumOver(d, S \ {Pick(S)})
  <2>1. PICK T : T = S \ {Pick(S)}
    OBVIOUS
  <2>2. T \in SUBSET S /\ IsFiniteSet(T)
    BY <2>1, FS_Subset
  <2>3. PICK h : h = [s \in SUBSET T |-> g[s]]
    OBVIOUS
  <2>4. IsFold(h, d, T)
    BY <1>1, <2>2, <2>3, FoldRestricts
  <2>5. SumOver(d, T) = g[T]
    BY <2>2, <2>3, <2>4, SumIs
  <2>6. g[S] = d[Pick(S)] + g[S \ {Pick(S)}]
    BY <1>1, <1>3 DEF IsFold
  <2> QED
    BY <1>2, <2>1, <2>5, <2>6
<1>4. ASSUME S = {} PROVE SumOver(d, S) = 0
  BY <1>1, <1>2, <1>4 DEF IsFold
<1> QED
  BY <1>2, <1>3, <1>4

\* Any element may be taken first.
LEMMA SumRemove ==
  ASSUME NEW S, IsFiniteSet(S), NEW d, \A x \in S : d[x] \in Int, NEW x \in S
  PROVE  SumOver(d, S) = d[x] + SumOver(d, S \ {x})
<1> DEFINE F == {T \in SUBSET S :
                   \A y \in T : SumOver(d, T) = d[y] + SumOver(d, T \ {y})}
<1>1. ASSUME NEW T \in SUBSET S, \A U \in SUBSET T : U # T => U \in F PROVE T \in F
  <2> SUFFICES ASSUME NEW y \in T PROVE SumOver(d, T) = d[y] + SumOver(d, T \ {y})
    OBVIOUS
  <2>0. \A U \in SUBSET T : IsFiniteSet(U) /\ \A z \in U : d[z] \in Int
    BY FS_Subset
  <2>1. PICK p : p = Pick(T)
    OBVIOUS
  <2>2. p \in T
    BY <2>1, PickIn
  <2>3. SumOver(d, T) = d[p] + SumOver(d, T \ {p})
    BY <2>0, <2>1, SumStep
  <2>4. CASE y = p
    BY <2>3, <2>4
  <2>5. CASE y # p
    <3>1. T \ {p} \in F /\ T \ {y} \in F
      BY <1>1, <2>2
    <3>2. y \in T \ {p} /\ p \in T \ {y}
      BY <2>2, <2>5
    <3>3. SumOver(d, T \ {p}) = d[y] + SumOver(d, (T \ {p}) \ {y})
      BY <3>1, <3>2
    <3>4. SumOver(d, T \ {y}) = d[p] + SumOver(d, (T \ {y}) \ {p})
      BY <3>1, <3>2
    <3>5. (T \ {p}) \ {y} = (T \ {y}) \ {p}
      OBVIOUS
    <3>6. PICK r : r = SumOver(d, (T \ {p}) \ {y})
      OBVIOUS
    <3>7. r \in Int
      <4>1. (T \ {p}) \ {y} \in SUBSET T
        OBVIOUS
      <4> QED
        BY <2>0, <3>6, <4>1, SumStep
    <3>8. SumOver(d, T) = d[p] + (d[y] + r) /\ SumOver(d, T \ {y}) = d[p] + r
      BY <2>3, <3>3, <3>4, <3>5, <3>6
    <3>9. d[p] \in Int /\ d[y] \in Int
      BY <2>2
    <3> QED
      BY <3>7, <3>8, <3>9
  <2> QED
    BY <2>4, <2>5
<1> HIDE DEF F
<1>2. SUBSET S \subseteq F
  BY <1>1, SubsetInductive
<1> QED
  BY <1>2 DEF F

\* Functions that agree on S have one sum over it.
LEMMA SumSame ==
  ASSUME NEW S, IsFiniteSet(S), NEW d, NEW e,
         \A x \in S : d[x] \in Int /\ e[x] = d[x]
  PROVE  SumOver(e, S) = SumOver(d, S)
<1>1. PICK g : IsFold(g, d, S)
  BY FoldExists
<1>2. \A s \in SUBSET S : s # {} => e[Pick(s)] = d[Pick(s)]
  BY PickIn
<1>3. IsFold(g, e, S)
  BY <1>1, <1>2 DEF IsFold
<1> QED
  BY <1>1, <1>3, SumIs

\* The sum over S when another element joins it.
LEMMA SumAdd ==
  ASSUME NEW S, IsFiniteSet(S), NEW x, x \notin S,
         NEW d, \A y \in S \cup {x} : d[y] \in Int
  PROVE  SumOver(d, S \cup {x}) = SumOver(d, S) + d[x]
<1>1. PICK T : T = S \cup {x}
  OBVIOUS
<1>2. IsFiniteSet(T) /\ x \in T /\ T \ {x} = S
  BY <1>1, FS_AddElement
<1>3. SumOver(d, T) = d[x] + SumOver(d, T \ {x})
  BY <1>1, <1>2, SumRemove
<1>4. SumOver(d, S) \in Int /\ d[x] \in Int
  BY SumStep
<1>5. SumOver(d, T) = d[x] + SumOver(d, S)
  BY <1>2, <1>3
<1>6. d[x] + SumOver(d, S) = SumOver(d, S) + d[x]
  BY <1>4
<1> QED
  BY <1>1, <1>5, <1>6

\* The sum over S when one of its terms changes.
LEMMA SumChange ==
  ASSUME NEW S, IsFiniteSet(S), NEW x \in S, NEW d, NEW e,
         \A y \in S : d[y] \in Int /\ e[y] \in Int,
         \A y \in S \ {x} : e[y] = d[y]
  PROVE  SumOver(e, S) = SumOver(d, S) + e[x] - d[x]
<1>1. SumOver(d, S) = d[x] + SumOver(d, S \ {x})
  BY SumRemove
<1>2. SumOver(e, S) = e[x] + SumOver(e, S \ {x})
  BY SumRemove
<1>3. IsFiniteSet(S \ {x})
  BY FS_RemoveElement
<1>4. SumOver(e, S \ {x}) = SumOver(d, S \ {x}) /\ SumOver(d, S \ {x}) \in Int
  BY <1>3, SumSame, SumStep
<1> QED
  BY <1>1, <1>2, <1>4

-----------------------------------------------------------------------------
(* Greatest elements *)

\* A set of integers up to a bound that has an element has a greatest one, and Max
\* is it.
LEMMA MaxFacts ==
  ASSUME NEW S, S \subseteq Int, S # {}, NEW b \in Int, \A x \in S : x <= b
  PROVE  Max(S) \in S /\ \A x \in S : x <= Max(S)
<1>1. PICK a \in S : TRUE
  OBVIOUS
<1> DEFINE G == {n \in Nat : (\E x \in S : x >= b - n) => \E m \in S : \A y \in S : y <= m}
<1>2. Nat \subseteq G
  <2>1. 0 \in G
    OBVIOUS
  <2>2. ASSUME NEW n \in Nat, n \in G PROVE n + 1 \in G
    <3> SUFFICES ASSUME NEW x \in S, x >= b - (n + 1)
                 PROVE  \E m \in S : \A y \in S : y <= m
      OBVIOUS
    <3>1. CASE \E y \in S : y >= b - n
      BY <2>2, <3>1
    <3>2. CASE ~\E y \in S : y >= b - n
      <4>1. \A y \in S : y <= x
        BY <3>2
      <4> QED
        BY <4>1
    <3> QED
      BY <3>1, <3>2
  <2> HIDE DEF G
  <2> QED
    BY <2>1, <2>2, NatInductive
<1>3. b - a \in G
  BY <1>1, <1>2
<1>4. \E m \in S : \A y \in S : m >= y
  BY <1>1, <1>3
<1>5. Max(S) \in S /\ \A y \in S : Max(S) >= y
  BY <1>4 DEF Max
<1> QED
  BY <1>5

\* What is in S and not less than the rest of it is its maximum.
LEMMA MaxIs ==
  ASSUME NEW S, S \subseteq Int, NEW m \in S, \A x \in S : x <= m
  PROVE  Max(S) = m
<1>1. Max(S) \in S /\ m <= Max(S)
  <2>1. S # {} /\ m \in Int
    OBVIOUS
  <2> QED
    BY <2>1, MaxFacts
<1>2. Max(S) <= m /\ Max(S) \in Int /\ m \in Int
  BY <1>1
<1> QED
  BY <1>1, <1>2

-----------------------------------------------------------------------------
(* Rows and beliefs *)

\* Floor8 (statistics.py's floor to 1e-8) loses less than one Lot.
LEMMA FloorFacts ==
  ASSUME NEW g \in Nat
  PROVE  /\ Floor8(g) \in Nat
         /\ Floor8(g) <= g
         /\ g - Floor8(g) < Lot
         /\ g < Lot => Floor8(g) = 0
         /\ g >= Lot => Floor8(g) > 0
<1>1. g % Lot \in 0..(Lot - 1)
  BY LotAssumption
<1>2. g % Lot <= g /\ (g < Lot => g % Lot = g)
  BY LotAssumption
<1> QED
  BY <1>1, <1>2, LotAssumption DEF Floor8

\* The typing the provers need of a nonlinear product.
LEMMA ProductType ==
  ASSUME NEW P, P \subseteq Nat \ {0},
         NEW p \in P, NEW h \in P, NEW q \in Nat
  PROVE  (p - h) * q \in Int
<1>1. p - h \in Int
  OBVIOUS
<1>2. \A d, e \in Int : d * e \in Int
  OBVIOUS
<1> QED
  BY <1>1, <1>2

\* What evaluate, on_order_rejected and on_order_filled leave is a belief.
LEMMA BeliefTypes ==
  ASSUME NEW P,
         NEW b \in Beliefs(P), NEW c \in P, NEW t \in BOOLEAN
  PROVE  /\ Fresh \in Beliefs(P)
         /\ Entered(b, c, t) \in Beliefs(P)
         /\ Exited(b) \in Beliefs(P)
         /\ Rejected(b) \in Beliefs(P)
         /\ Filled(b) \in Beliefs(P)
  BY DEF Beliefs, Fresh, NoSnapshot, Entered, Exited, Arm, Rejected, Filled

\* What restore() reads from the last row is a belief.
LEMMA RestoredType ==
  ASSUME NEW P,
         NEW l \in Logs(P), NEW t \in BOOLEAN
  PROVE  Restored(l.last, l.price, t) \in Beliefs(P)
  BY DEF Beliefs, Logs, Fresh, NoSnapshot, Restored, None

\* A row, and midnight, leave a log of its type.
LEMMA LogTypes ==
  ASSUME NEW P, P \subseteq Nat \ {0},
         NEW l \in Logs(P), NEW side \in {"buy", "sell"},
         NEW p \in P, NEW q \in Nat, NEW t \in BOOLEAN
  PROVE  /\ EmptyLog \in Logs(P)
         /\ AtMidnight(l) \in Logs(P)
         /\ Recorded(l, side, p, q, t) \in Logs(P)
         /\ Matched(l.buys, p, q) \in Int
         /\ DayPnlStep(l, side, p, q, t) \in Int
         /\ Sellable(l) \in Nat
<1>0. <<>> \in Seq(P)
  OBVIOUS
<1>1. EmptyLog \in Logs(P) /\ AtMidnight(l) \in Logs(P)
  <2>1. EmptyLog \in Logs(P)
    BY <1>0 DEF EmptyLog, Logs
  <2>2. AtMidnight(l) \in Logs(P)
    BY <1>0 DEF AtMidnight, Logs
  <2> QED
    BY <2>1, <2>2
<1>2. ASSUME NEW buys \in Seq(P)
      PROVE  /\ Append(buys, p) \in Seq(P)
             /\ Popped(buys) \in Seq(P)
             /\ Matched(buys, p, q) \in Int
  <2>1. CASE buys = <<>>
    BY <2>1 DEF Popped, Matched
  <2>2. CASE buys # <<>>
    <3>1. Head(buys) \in P /\ Tail(buys) \in Seq(P)
      BY <2>2
    <3>2. (p - Head(buys)) * q \in Int
      BY <3>1, ProductType
    <3>3. Append(buys, p) \in Seq(P)
      OBVIOUS
    <3>4. Popped(buys) = Tail(buys) /\ Matched(buys, p, q) = (p - Head(buys)) * q
      BY <2>2, Zenon DEF Popped, Matched
    <3>5. Popped(buys) \in Seq(P)
      BY <3>1, <3>4
    <3>6. Matched(buys, p, q) \in Int
      BY <3>2, <3>4, Zenon
    <3> QED
      BY <3>3, <3>5, <3>6, Zenon
  <2> QED
    BY <2>1, <2>2
<1>3. l.buys \in Seq(P) /\ l.dayBuys \in Seq(P) /\ l.open \in Nat
  BY DEF Logs
<1>4. Recorded(l, side, p, q, t) \in Logs(P)
  <2>1. Bought(l, p, q, t) \in Logs(P)
    BY <1>2, <1>3 DEF Bought, Logs
  <2>2. Less(l.open, q) \in Nat
    BY <1>3 DEF Less
  <2>3. Sold(l, p, q, t) \in Logs(P)
    BY <1>2, <1>3, <2>2 DEF Sold, Logs
  <2> QED
    BY <2>1, <2>3 DEF Recorded
<1>5. DayPnlStep(l, side, p, q, t) \in Int
  BY <1>2, <1>3 DEF DayPnlStep
<1>6. Sellable(l) \in Nat
  BY <1>3, FloorFacts DEF Sellable
<1> QED
  BY <1>1, <1>2, <1>3, <1>4, <1>5, <1>6

\* evaluate flips a settled belief and keeps a snapshot of it.
LEMMA SignalFlips ==
  ASSUME NEW P, P \subseteq Nat \ {0},
         NEW b \in Beliefs(P), NEW c \in P,
         NEW long \in BOOLEAN, NEW t \in BOOLEAN, Settled(b, long, t)
  PROVE  /\ ~b.in => Flipped(Entered(b, c, t), long, t) /\ Entered(b, c, t).in
         /\ b.in => Flipped(Exited(b), long, t) /\ ~Exited(b).in
<1>1. c # None
  BY DEF None
<1> QED
  BY <1>1 DEF Settled, Flipped, Entered, Exited, Arm, Beliefs

\* on_order_rejected puts a flipped belief back.
LEMMA RejectionSettles ==
  ASSUME NEW P,
         NEW b \in Beliefs(P),
         NEW long \in BOOLEAN, NEW t \in BOOLEAN, Flipped(b, long, t)
  PROVE  Settled(Rejected(b), long, t)
  BY DEF Settled, Flipped, Rejected, NoSnapshot, Beliefs

\* on_order_filled settles a flipped belief on the other side.
LEMMA FillSettles ==
  ASSUME NEW P,
         NEW b \in Beliefs(P),
         NEW long \in BOOLEAN, NEW t \in BOOLEAN, Flipped(b, long, t)
  PROVE  Settled(Filled(b), ~long, t)
  BY DEF Settled, Flipped, Filled, NoSnapshot, Beliefs

\* restore() settles the belief on what the last row says.
LEMMA RestoreSettles ==
  ASSUME NEW P,
         NEW l \in Logs(P), NEW t \in BOOLEAN,
         l.last = "buy" => l.price # None
  PROVE  Settled(Restored(l.last, l.price, t), l.last = "buy", t)
  BY DEF Settled, Restored, Fresh, NoSnapshot, Logs, None

\* A row of a slot that is sound in the sense of LastRowIsPosition and
\* OneOpenBuy.
Sound(l) ==
  /\ l.last = "buy" <=> Sellable(l) > 0
  /\ l.buys = IF l.last = "buy" THEN <<l.price>> ELSE <<>>

\* A buy recorded over no position opens exactly one.
LEMMA BuyRow ==
  ASSUME NEW P,
         NEW l \in Logs(P), Sound(l), l.last # "buy",
         NEW p \in P, NEW q \in Nat, q >= Lot, NEW t \in BOOLEAN
  PROVE  /\ Recorded(l, "buy", p, q, t).last = "buy"
         /\ Recorded(l, "buy", p, q, t).price = p
         /\ Sound(Recorded(l, "buy", p, q, t))
<1> DEFINE r == Bought(l, p, q, t)
<1>1. Recorded(l, "buy", p, q, t) = r
  BY DEF Recorded
<1>2. r.last = "buy" /\ r.price = p /\ r.open = l.open + q
      /\ r.buys = Append(l.buys, p)
  BY DEF Bought
<1>3. l.buys = <<>> /\ l.open \in Nat
  BY DEF Sound, Logs
<1>4. Append(<<>>, p) = <<p>>
  OBVIOUS
<1>5. r.open \in Nat /\ r.open >= Lot
  BY <1>2, <1>3, LotAssumption
<1>6. Sellable(r) > 0
  BY <1>5, FloorFacts DEF Sellable
<1> HIDE DEF r
<1> QED
  BY <1>1, <1>2, <1>3, <1>4, <1>6 DEF Sound

\* A sell of all that is sellable leaves no position, dust at most.
LEMMA SellRow ==
  ASSUME NEW P,
         NEW l \in Logs(P), Sound(l), l.last = "buy",
         NEW p \in P, NEW t \in BOOLEAN
  PROVE  /\ Recorded(l, "sell", p, Sellable(l), t).last = "sell"
         /\ Sellable(Recorded(l, "sell", p, Sellable(l), t)) = 0
         /\ Sound(Recorded(l, "sell", p, Sellable(l), t))
<1> DEFINE r == Sold(l, p, Sellable(l), t)
<1>1. Recorded(l, "sell", p, Sellable(l), t) = r
  BY DEF Recorded
<1>2. r.last = "sell" /\ r.open = Less(l.open, Sellable(l))
      /\ r.buys = Popped(l.buys)
  BY DEF Sold
<1>3. l.open \in Nat /\ l.buys = <<l.price>>
  BY DEF Sound, Logs
<1>4. Popped(<<l.price>>) = <<>>
  BY DEF Popped
<1>5. r.open \in Nat /\ r.open < Lot
  BY <1>2, <1>3, FloorFacts, LotAssumption DEF Sellable, Less
<1>6. Sellable(r) = 0
  BY <1>5, FloorFacts DEF Sellable
<1> HIDE DEF r
<1> QED
  BY <1>1, <1>2, <1>3, <1>4, <1>6 DEF Sound
=============================================================================
