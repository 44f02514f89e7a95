--------------------------- MODULE RiskGateProofs ---------------------------
(***************************************************************************)
(* Proofs about RiskGate, for any symbols, signals, slots, margins, limits  *)
(* and any number of days and trades.                                      *)
(***************************************************************************)
EXTENDS RiskGate, FiniteSetTheorems, WellFoundedInduction, SequenceTheorems, TLAPS

-----------------------------------------------------------------------------
\* Folds.  A fold takes the members of a finite set one by one: what holds for
\* the empty set, and for a set when it holds without one of its members, holds
\* for the whole set.

\* Induction over the subsets of a finite set, for a property given as the set
\* of the subsets that have it.
LEMMA SubsetInduction ==
  ASSUME NEW S, IsFiniteSet(S), NEW Good,
         \A s \in SUBSET S : (\A x \in s : s \ {x} \in Good) => s \in Good
  PROVE  S \in Good
<1> SUFFICES ASSUME S \notin Good PROVE FALSE
  OBVIOUS
<1> DEFINE Bad == {s \in SUBSET S : s \notin Good}
<1>1. Bad \subseteq SUBSET S /\ Bad # {}
  OBVIOUS
<1>2. IsWellFoundedOn(StrictSubsetOrdering(S), SUBSET S)
  <2>1. FiniteSubsetsOf(S) = SUBSET S
    BY FS_FiniteSubsetsOfFinite
  <2>2. IsWellFoundedOn(StrictSubsetOrdering(S), FiniteSubsetsOf(S))
    BY FS_StrictSubsetOrderingWellFounded
  <2> QED
    BY <2>1, <2>2
<1>3. PICK s \in Bad : \A t \in Bad : ~(<<t, s>> \in StrictSubsetOrdering(S))
  <2> HIDE DEF Bad
  <2> QED
    BY <1>1, <1>2, WFMin, Zenon
<1>4. \A x \in s : s \ {x} \in Good
  <2> TAKE x \in s
  <2>1. <<s \ {x}, s>> \in StrictSubsetOrdering(S)
    BY DEF StrictSubsetOrdering
  <2> QED
    BY <1>3, <2>1
<1> QED
  BY <1>4

\* g is the function on the subsets of S that gives base for the empty set and
\* else takes pick's member last, which adds by step.
Folds(g, S, base, pick, step) ==
    \A s \in SUBSET S : g[s] = IF s = {} THEN base ELSE step[pick[s]][g[s \ {pick[s]}]]

\* Such a function exists for a finite set.
LEMMA FoldExists ==
  ASSUME NEW S, IsFiniteSet(S), NEW V, NEW base \in V,
         NEW pick \in [SUBSET S -> S], \A s \in SUBSET S : s # {} => pick[s] \in s,
         NEW step \in [S -> [V -> V]]
  PROVE  \E g \in [SUBSET S -> V] : Folds(g, S, base, pick, step)
<1> DEFINE Next1(g, s) == IF s = {} THEN base ELSE step[pick[s]][g[s \ {pick[s]}]]
           Solves(g, t) == \A s \in SUBSET S : Cardinality(s) <= Cardinality(t) => g[s] = Next1(g, s)
           Good == {t \in SUBSET S : \E g \in [SUBSET S -> V] : Solves(g, t)}
<1>1. \A s \in SUBSET S : /\ IsFiniteSet(s) /\ Cardinality(s) \in Nat
                          /\ Cardinality(s) = 0 <=> s = {}
                          /\ \A x \in s : Cardinality(s \ {x}) = Cardinality(s) - 1
  BY FS_Subset, FS_CardinalityType, FS_EmptySet, FS_RemoveElement
<1>2. ASSUME NEW t \in SUBSET S, \A x \in t : t \ {x} \in Good PROVE t \in Good
  <2>1. CASE t = {}
    <3> DEFINE g == [s \in SUBSET S |-> base]
    <3>1. ASSUME NEW s \in SUBSET S, Cardinality(s) <= Cardinality(t) PROVE g[s] = Next1(g, s)
      <4>1. s = {}
        BY <1>1, <2>1, <3>1
      <4> QED
        BY <4>1
    <3>2. g \in [SUBSET S -> V]
      OBVIOUS
    <3> QED
      BY <3>1, <3>2
  <2>2. CASE t # {}
    <3>1. PICK x \in t : TRUE
      BY <2>2
    <3>2. PICK g \in [SUBSET S -> V] : Solves(g, t \ {x})
      BY <1>2, <3>1
    <3> DEFINE h == [s \in SUBSET S |-> IF Cardinality(s) = Cardinality(t) THEN Next1(g, s) ELSE g[s]]
    <3>3. \A s \in SUBSET S : Next1(g, s) \in V
      OBVIOUS
    <3>4. h \in [SUBSET S -> V]
      BY <3>3
    <3>5. ASSUME NEW s \in SUBSET S, Cardinality(s) <= Cardinality(t) PROVE h[s] = Next1(h, s)
      <4>1. s # {} => h[s \ {pick[s]}] = g[s \ {pick[s]}]
        <5>1. SUFFICES ASSUME s # {} PROVE h[s \ {pick[s]}] = g[s \ {pick[s]}]
          OBVIOUS
        <5>2. /\ s \ {pick[s]} \in SUBSET S
              /\ Cardinality(s \ {pick[s]}) = Cardinality(s) - 1
              /\ Cardinality(s) \in Nat /\ Cardinality(t) \in Nat
          BY <1>1, <5>1
        <5>3. Cardinality(s \ {pick[s]}) # Cardinality(t)
          BY <3>5, <5>2
        <5> QED
          BY <5>2, <5>3
      <4>2. Next1(h, s) = Next1(g, s)
        BY <4>1
      <4>3. CASE Cardinality(s) = Cardinality(t)
        BY <4>2, <4>3
      <4>4. CASE Cardinality(s) # Cardinality(t)
        <5>1. Cardinality(s) <= Cardinality(t \ {x})
          BY <1>1, <3>1, <3>5, <4>4
        <5> QED
          BY <3>2, <4>2, <4>4, <5>1
      <4> QED
        BY <4>3, <4>4
    <3> QED
      BY <3>4, <3>5
  <2> QED
    BY <2>1, <2>2
<1>3. S \in Good
  <2> HIDE DEF Good
  <2> QED
    BY <1>2, SubsetInduction
<1>4. \A s \in SUBSET S : Cardinality(s) <= Cardinality(S)
  BY FS_Subset
<1> QED
  BY <1>3, <1>4 DEF Folds
-----------------------------------------------------------------------------
\* Sums of the values of a function.

\* The member a sum takes first.
Some(s) == CHOOSE x \in s : TRUE

\* g gives the sums of f over the subsets of its domain S.
Sums(f, S, g) ==
    /\ g \in [SUBSET S -> Int]
    /\ Total(f) = g[S]
    /\ g[{}] = 0
    /\ \A s \in SUBSET S : s # {} =>
          Some(s) \in s /\ g[s] = f[Some(s)] + g[s \ {Some(s)}]

\* The sums over the subsets of the domain exist, and the sum is the largest of them.
LEMMA TotalRec ==
  ASSUME NEW S, IsFiniteSet(S), NEW f \in [S -> Int]
  PROVE  \E g : Sums(f, S, g)
<1>1. \A s \in SUBSET S : s # {} => Some(s) \in s
  BY DEF Some
<1> DEFINE Step1(g, s) == IF s = {} THEN 0 ELSE f[Some(s)] + g[s \ {Some(s)}]
           Is(g) == g = [s \in SUBSET S |-> Step1(g, s)]
<1>2. \E g : Is(g)
  <2>1. CASE S = {}
    <3> DEFINE g == [s \in SUBSET S |-> 0]
    <3>1. Is(g)
      BY <2>1
    <3> QED
      BY <3>1
  <2>2. CASE S # {}
    <3> DEFINE pick == [s \in SUBSET S |-> IF s = {} THEN Some(S) ELSE Some(s)]
               step == [x \in S |-> [v \in Int |-> f[x] + v]]
    <3>1. pick \in [SUBSET S -> S] /\ \A s \in SUBSET S : s # {} => pick[s] \in s /\ pick[s] = Some(s)
      BY <1>1, <2>2
    <3>2. step \in [S -> [Int -> Int]] /\ \A x \in S, v \in Int : step[x][v] = f[x] + v
      OBVIOUS
    <3>3. PICK g \in [SUBSET S -> Int] : Folds(g, S, 0, pick, step)
      <4> HIDE DEF pick, step
      <4>1. 0 \in Int
        OBVIOUS
      <4> QED
        BY <3>1, <3>2, <4>1, FoldExists, Zenon
    <3>4. \A s \in SUBSET S : g[s] = Step1(g, s)
      <4> HIDE DEF pick, step
      <4> QED
        BY <3>1, <3>2, <3>3 DEF Folds
    <3> QED
      BY <3>4
  <2> QED
    BY <2>1, <2>2
<1>3. PICK g : g = CHOOSE h : Is(h)
  OBVIOUS
<1>4. Is(g)
  BY <1>2, <1>3
<1>5. Total(f) = g[S]
  <2>1. DOMAIN f = S
    OBVIOUS
  <2> QED
    BY <1>3, <2>1 DEF Total, FoldFunction, FoldFunctionOnSet, MapThenFoldSet, Some
<1>6. g[{}] = 0 /\ \A s \in SUBSET S : s # {} => g[s] = f[Some(s)] + g[s \ {Some(s)}]
  BY <1>4
<1>7. g \in [SUBSET S -> Int]
  <2> DEFINE Good == {s \in SUBSET S : g[s] \in Int}
  <2>1. ASSUME NEW t \in SUBSET S PROVE g[t] \in Int
    <3>1. ASSUME NEW s \in SUBSET t, \A x \in s : s \ {x} \in Good PROVE s \in Good
      <4>1. CASE s = {}
        BY <1>6, <4>1
      <4>2. CASE s # {}
        <5>1. Some(s) \in s /\ g[s] = f[Some(s)] + g[s \ {Some(s)}]
          BY <1>1, <1>6, <4>2
        <5>2. f[Some(s)] \in Int /\ g[s \ {Some(s)}] \in Int
          BY <3>1, <5>1
        <5> QED
          BY <5>1, <5>2
      <4> QED
        BY <4>1, <4>2
    <3>2. t \in Good
      <4> HIDE DEF Good
      <4>1. IsFiniteSet(t)
        BY FS_Subset
      <4> QED
        BY <3>1, <4>1, SubsetInduction
    <3> QED
      BY <3>2
  <2> QED
    BY <1>4, <2>1
<1> QED
  BY <1>1, <1>5, <1>6, <1>7 DEF Sums

\* A sum of integers is one, and a sum of natural numbers is one.
LEMMA TotalType ==
  ASSUME NEW S, IsFiniteSet(S), NEW f \in [S -> Int]
  PROVE  Total(f) \in Int
<1>1. PICK g : Sums(f, S, g)
  BY TotalRec, Zenon
<1> QED
  BY <1>1 DEF Sums

\* Two sums over the same set: where one function exceeds the other by k at
\* most on T and not at all elsewhere, its sum exceeds the other by k for each
\* member of T.
LEMMA TotalBound ==
  ASSUME NEW S, IsFiniteSet(S), NEW f \in [S -> Int], NEW g \in [S -> Int],
         NEW T \in SUBSET S, NEW k \in Nat,
         \A x \in S : f[x] <= g[x] + (IF x \in T THEN k ELSE 0)
  PROVE  Total(f) <= Total(g) + k * Cardinality(T)
<1>1. PICK F : Sums(f, S, F)
  BY TotalRec, Zenon
<1>2. PICK G : Sums(g, S, G)
  BY TotalRec, Zenon
<1> DEFINE Good == {s \in SUBSET S : F[s] <= G[s] + k * Cardinality(T \cap s)}
<1>3. ASSUME NEW s \in SUBSET S, \A x \in s : s \ {x} \in Good PROVE s \in Good
  <2>1. CASE s = {}
    <3>1. Cardinality(T \cap s) = 0
      BY <2>1, FS_EmptySet
    <3> QED
      BY <1>1, <1>2, <2>1, <3>1 DEF Sums
  <2>2. CASE s # {}
    <3> DEFINE x == Some(s)
               rest == s \ {x}
               n == Cardinality(T \cap rest)
    <3>1. x \in s /\ F[s] = f[x] + F[rest] /\ G[s] = g[x] + G[rest] /\ F[rest] <= G[rest] + k * n
      BY <1>1, <1>2, <1>3, <2>2 DEF Sums
    <3>2. n \in Nat /\ Cardinality(T \cap s) = IF x \in T THEN n + 1 ELSE n
      <4>1. IsFiniteSet(T \cap rest)
        BY FS_Subset
      <4>2. T \cap s = IF x \in T THEN (T \cap rest) \cup {x} ELSE T \cap rest
        BY <3>1
      <4>3. x \notin T \cap rest
        OBVIOUS
      <4>4. n \in Nat
        BY <4>1, FS_CardinalityType
      <4>5. Cardinality((T \cap rest) \cup {x}) = n + 1
        BY <4>1, <4>3, FS_AddElement
      <4> QED
        BY <4>2, <4>4, <4>5
    <3>3. f[x] \in Int /\ g[x] \in Int /\ F[rest] \in Int /\ G[rest] \in Int
      BY <1>1, <1>2, <3>1 DEF Sums
    <3>4. k * (n + 1) = k * n + k /\ k * n \in Int
      BY <3>2
    <3>5. f[x] <= g[x] + (IF x \in T THEN k ELSE 0)
      BY <3>1
    <3> HIDE DEF x, rest, n
    <3>6. F[s] <= G[s] + k * Cardinality(T \cap s)
      BY <3>1, <3>2, <3>3, <3>4, <3>5
    <3> QED
      BY <3>6
  <2> QED
    BY <2>1, <2>2
<1>4. S \in Good
  <2> HIDE DEF Good
  <2> QED
    BY <1>3, SubsetInduction
<1>5. T \cap S = T
  OBVIOUS
<1> QED
  BY <1>1, <1>2, <1>4, <1>5 DEF Sums

\* A sum is monotonic.
LEMMA TotalMono ==
  ASSUME NEW S, IsFiniteSet(S), NEW f \in [S -> Int], NEW g \in [S -> Int],
         \A x \in S : f[x] <= g[x]
  PROVE  Total(f) <= Total(g)
<1>1. Total(f) <= Total(g) + 0 * Cardinality({})
  <2>1. \A x \in S : f[x] <= g[x] + (IF x \in {} THEN 0 ELSE 0)
    OBVIOUS
  <2> QED
    BY <2>1, TotalBound
<1> QED
  BY <1>1, FS_EmptySet, TotalType

\* The sum of a function that is 0 everywhere.
LEMMA TotalZero ==
  ASSUME NEW S, IsFiniteSet(S), NEW f \in [S -> Int], \A x \in S : f[x] = 0
  PROVE  Total(f) = 0
<1>1. PICK F : Sums(f, S, F)
  BY TotalRec, Zenon
<1> DEFINE Good == {s \in SUBSET S : F[s] = 0}
<1>2. ASSUME NEW s \in SUBSET S, \A x \in s : s \ {x} \in Good PROVE s \in Good
  <2>1. CASE s = {}
    BY <1>1, <2>1 DEF Sums
  <2>2. CASE s # {}
    <3>1. Some(s) \in s /\ F[s] = f[Some(s)] + F[s \ {Some(s)}]
      BY <1>1, <2>2 DEF Sums
    <3> QED
      BY <1>2, <3>1
  <2> QED
    BY <2>1, <2>2
<1>3. S \in Good
  <2> HIDE DEF Good
  <2> QED
    BY <1>2, SubsetInduction
<1> QED
  BY <1>1, <1>3 DEF Sums

\* Two functions that agree but at a: their sums differ as their values at a do.
LEMMA TotalUpdate ==
  ASSUME NEW S, IsFiniteSet(S), NEW f \in [S -> Int], NEW g \in [S -> Int],
         NEW a \in S, \A x \in S \ {a} : f[x] = g[x]
  PROVE  Total(g) = Total(f) - f[a] + g[a]
<1>1. PICK F : Sums(f, S, F)
  BY TotalRec, Zenon
<1>2. PICK G : Sums(g, S, G)
  BY TotalRec, Zenon
<1> DEFINE Good == {s \in SUBSET S : G[s] = IF a \in s THEN F[s] - f[a] + g[a] ELSE F[s]}
<1>3. ASSUME NEW s \in SUBSET S, \A x \in s : s \ {x} \in Good PROVE s \in Good
  <2>1. CASE s = {}
    BY <1>1, <1>2, <2>1 DEF Sums
  <2>2. CASE s # {}
    <3> DEFINE x == Some(s)
               rest == s \ {x}
    <3>1. x \in s /\ F[s] = f[x] + F[rest] /\ G[s] = g[x] + G[rest]
      BY <1>1, <1>2, <2>2 DEF Sums
    <3>2. G[rest] = IF a \in rest THEN F[rest] - f[a] + g[a] ELSE F[rest]
      BY <1>3, <3>1
    <3>3. F[rest] \in Int /\ G[rest] \in Int /\ f[x] \in Int /\ g[x] \in Int /\ f[a] \in Int /\ g[a] \in Int
      BY <1>1, <1>2, <3>1 DEF Sums
    <3>4. a \in rest <=> a \in s /\ a # x
      OBVIOUS
    <3>5. x # a => f[x] = g[x]
      BY <3>1
    <3> HIDE DEF x, rest
    <3>6. G[s] = IF a \in s THEN F[s] - f[a] + g[a] ELSE F[s]
      BY <3>1, <3>2, <3>3, <3>4, <3>5
    <3> QED
      BY <3>6
  <2> QED
    BY <2>1, <2>2
<1>4. S \in Good
  <2> HIDE DEF Good
  <2> QED
    BY <1>3, SubsetInduction
<1> QED
  BY <1>1, <1>2, <1>4 DEF Sums
-----------------------------------------------------------------------------
\* Numbers.

\* The larger and the smaller of two numbers, the smallest of three.
LEMMA MaxOfTwo ==
  ASSUME NEW a \in Int, NEW b \in Int
  PROVE  Max({a, b}) \in Int /\ Max({a, b}) = IF a >= b THEN a ELSE b
<1> DEFINE m == IF a >= b THEN a ELSE b
<1>1. m \in {a, b} /\ \A y \in {a, b} : m >= y
  OBVIOUS
<1>2. \A x \in {a, b} : (\A y \in {a, b} : x >= y) => x = m
  OBVIOUS
<1>3. Max({a, b}) = m
  BY <1>1, <1>2 DEF Max
<1> QED
  BY <1>1, <1>3

LEMMA MinOfTwo ==
  ASSUME NEW a \in Int, NEW b \in Int
  PROVE  Min({a, b}) \in Int /\ Min({a, b}) = IF a <= b THEN a ELSE b
<1> DEFINE m == IF a <= b THEN a ELSE b
<1>1. m \in {a, b} /\ \A y \in {a, b} : m <= y
  OBVIOUS
<1>2. \A x \in {a, b} : (\A y \in {a, b} : x <= y) => x = m
  OBVIOUS
<1>3. Min({a, b}) = m
  BY <1>1, <1>2 DEF Min
<1> QED
  BY <1>1, <1>3

LEMMA MinOfThree ==
  ASSUME NEW a \in Int, NEW b \in Int, NEW c \in Int
  PROVE  /\ Min({a, b, c}) \in Int
         /\ Min({a, b, c}) <= a /\ Min({a, b, c}) <= b /\ Min({a, b, c}) <= c
<1> DEFINE m == IF a <= b /\ a <= c THEN a ELSE IF b <= c THEN b ELSE c
<1>1. m \in {a, b, c} /\ \A y \in {a, b, c} : m <= y
  OBVIOUS
<1>2. \A x \in {a, b, c} : (\A y \in {a, b, c} : x <= y) => x = m
  OBVIOUS
<1>3. Min({a, b, c}) = m
  BY <1>1, <1>2 DEF Min
<1> QED
  BY <1>1, <1>3

\* A nonempty finite set of numbers has a largest member.
LEMMA MaxOfFinite ==
  ASSUME NEW S \in SUBSET Int, IsFiniteSet(S), S # {}
  PROVE  Max(S) \in S
<1> DEFINE Good == {s \in SUBSET S : s = {} \/ \E x \in s : \A y \in s : x >= y}
<1>1. ASSUME NEW s \in SUBSET S, \A x \in s : s \ {x} \in Good PROVE s \in Good
  <2>1. CASE s = {}
    BY <2>1
  <2>2. CASE s # {}
    <3>1. PICK x \in s : TRUE
      BY <2>2
    <3>2. CASE s \ {x} = {}
      BY <3>1, <3>2
    <3>3. CASE s \ {x} # {}
      <4>1. PICK z \in s \ {x} : \A y \in s \ {x} : z >= y
        BY <1>1, <3>1, <3>3
      <4>2. CASE z >= x
        BY <4>1, <4>2
      <4>3. CASE ~(z >= x)
        <5>1. \A y \in s : x >= y
          BY <4>1, <4>3
        <5> QED
          BY <3>1, <5>1
      <4> QED
        BY <4>2, <4>3
    <3> QED
      BY <3>2, <3>3
  <2> QED
    BY <2>1, <2>2
<1>2. S \in Good
  <2> HIDE DEF Good
  <2> QED
    BY <1>1, SubsetInduction
<1>3. \E x \in S : \A y \in S : x >= y
  BY <1>2
<1> QED
  BY <1>3 DEF Max

\* The constants are numbers.
LEMMA ConstantTypes ==
  /\ Capital \in Nat /\ MaxOpen \in Nat /\ SmallMaxOpen \in Nat /\ FixedMargin \in Nat
  /\ MaxMargin \in Nat /\ MinMargin \in Nat /\ TradePct \in Nat /\ TotalPct \in Nat
  /\ FreePct \in Nat /\ Buffer \in Nat /\ DayPct \in Nat /\ WeekPct \in Nat /\ StopBelow \in Nat
  /\ MaxApiFailures \in Nat /\ Step \in Nat /\ MaxLoss \in Nat /\ Gain \in Nat /\ MaxTrades \in Nat
  /\ MaxDay \in Nat /\ MaxDay > 0 /\ DaysPerWeek \in Nat /\ DaysPerWeek > 0
  /\ FreePct <= 100 /\ MinMargin - Step >= MaxLoss
<1>1. \A x \in {Capital, MaxOpen, SmallMaxOpen, FixedMargin, MaxMargin, MinMargin, TradePct, TotalPct,
                 FreePct, Buffer, DayPct, WeekPct, StopBelow, MaxApiFailures, Step, MaxLoss, Gain,
                 MaxTrades} : x \in Nat
  BY ConstantsAssumption
<1>2. Capital \in Nat /\ MaxOpen \in Nat /\ SmallMaxOpen \in Nat /\ FixedMargin \in Nat
      /\ MaxMargin \in Nat /\ MinMargin \in Nat /\ TradePct \in Nat /\ TotalPct \in Nat
  BY <1>1
<1>3. FreePct \in Nat /\ Buffer \in Nat /\ DayPct \in Nat /\ WeekPct \in Nat /\ StopBelow \in Nat
      /\ MaxApiFailures \in Nat /\ Step \in Nat /\ MaxLoss \in Nat /\ Gain \in Nat /\ MaxTrades \in Nat
  BY <1>1
<1>4. MaxDay \in Nat /\ MaxDay > 0 /\ DaysPerWeek \in Nat /\ DaysPerWeek > 0
  BY ConstantsAssumption
<1> QED
  BY <1>2, <1>3, <1>4, ConstantsAssumption

\* The slots are a number and no check allows more.
LEMMA SlotsBound ==
  /\ Slots \in Nat /\ MaxOpen <= Slots /\ SmallMaxOpen <= Slots
BY ConstantTypes, MaxOfTwo DEF Slots
-----------------------------------------------------------------------------
\* The allocator.

\* Of positions f, the one of p is in the group of signal s, on its side.
AlikeIn(f, p, s) == GroupOf[p] = GroupOf[s.symbol] /\ f[p].side = s.side
\* Signals s and t are of one group and on one side.
Alike(s, t) == GroupOf[s.symbol] = GroupOf[t.symbol] /\ s.side = t.side

\* Every signal of the list that is like an open position or like one before it
\* in the list is excellent.
Compatible(c) ==
    \A i \in 1..Len(c) :
        /\ \A p \in Open : AlikeIn(positions, p, c[i]) => Excellent(c[i])
        /\ \A j \in 1..(i - 1) : Alike(c[j], c[i]) => Excellent(c[i])

\* A list the allocator may give for n slots.
Proper(c, n) == c \in Seq(Signal) /\ Len(c) <= n /\ Compatible(c)

\* Admitting one more signal gives a proper list again.
LEMMA AdmitProper ==
  ASSUME NEW n \in Nat, NEW c, Proper(c, n), NEW s \in Signal
  PROVE  Proper(Admit(c, s, n), n)
<1> USE DEF Proper
<1>1. CASE Admit(c, s, n) = c
  BY <1>1
<1>2. CASE Admit(c, s, n) # c
  <2>1. Admit(c, s, n) = Append(c, s) /\ Len(c) < n /\ (Correlated(s, c) => Excellent(s))
    BY <1>2 DEF Admit
  <2> DEFINE d == Append(c, s)
  <2>2. /\ d \in Seq(Signal) /\ Len(d) = Len(c) + 1 /\ d[Len(c) + 1] = s
        /\ \A i \in 1..Len(c) : d[i] = c[i]
        /\ Len(c) \in Nat
    OBVIOUS
  <2>3. \A p \in Open : AlikeIn(positions, p, s) => Excellent(s)
    BY <2>1 DEF Correlated, AlikeIn
  <2>4. \A j \in 1..Len(c) : Alike(c[j], s) => Excellent(s)
    BY <2>1 DEF Correlated, Alike, ToSet
  <2> HIDE DEF d
  <2>5. Compatible(d)
    <3> SUFFICES ASSUME NEW i \in 1..Len(d)
                 PROVE  /\ \A p \in Open : AlikeIn(positions, p, d[i]) => Excellent(d[i])
                        /\ \A j \in 1..(i - 1) : Alike(d[j], d[i]) => Excellent(d[i])
      BY DEF Compatible
    <3>1. CASE i \in 1..Len(c)
      BY <2>2, <3>1 DEF Compatible
    <3>2. CASE i = Len(c) + 1
      BY <2>2, <2>3, <2>4, <3>2
    <3> QED
      BY <2>2, <3>1, <3>2
  <2> QED
    BY <2>1, <2>2, <2>5 DEF d
<1> QED
  BY <1>1, <1>2

\* The allocator gives proper lists, whatever the ranking.
LEMMA AllocateProper ==
  ASSUME NEW n \in Nat, NEW ranked \in Seq(Signal)
  PROVE  Proper(Allocate(ranked, n), n)
<1> DEFINE D == 1..Len(ranked)
           V == {c \in Seq(Signal) : Proper(c, n)}
           pick == [s \in SUBSET D |-> IF s = {} THEN 1 ELSE Max(s)]
           step == [i \in D |-> [c \in V |-> Admit(c, ranked[i], n)]]
           Body(g, s) == IF s = {} THEN <<>> ELSE Admit(g[s \ {Max(s)}], ranked[Max(s)], n)
           Is(g) == g = [s \in SUBSET D |-> Body(g, s)]
<1>1. /\ Len(ranked) \in Nat /\ IsFiniteSet(D) /\ DOMAIN ranked = D
      /\ \A i \in D : ranked[i] \in Signal
  BY FS_Interval
<1>2. <<>> \in V
  BY DEF Proper, Compatible
<1>3. \A s \in SUBSET D : s # {} => Max(s) \in s
  <2> SUFFICES ASSUME NEW s \in SUBSET D, s # {} PROVE Max(s) \in s
    OBVIOUS
  <2>1. IsFiniteSet(s)
    BY <1>1, FS_Subset
  <2>2. s \in SUBSET Int
    OBVIOUS
  <2> QED
    BY <2>1, <2>2, MaxOfFinite
<1>8. \A i \in D, c \in V : Admit(c, ranked[i], n) \in V
  BY <1>1, AdmitProper DEF Proper
<1>4. ASSUME ranked # <<>>
      PROVE  FoldLeft(LAMBDA chosen, s : Admit(chosen, s, n), <<>>, ranked) \in V
  <2>1. pick \in [SUBSET D -> D] /\ \A s \in SUBSET D : s # {} => pick[s] \in s /\ pick[s] = Max(s)
    <3>1. 1 \in D
      BY <1>1, <1>4
    <3> QED
      BY <1>3, <3>1
  <2>2. step \in [D -> [V -> V]] /\ \A i \in D, c \in V : step[i][c] = Admit(c, ranked[i], n)
    <3> HIDE DEF V
    <3> QED
      BY <1>8
  <2>3. PICK g \in [SUBSET D -> V] : Folds(g, D, <<>>, pick, step)
    <3> HIDE DEF V, pick, step, D
    <3> QED
      BY <1>1, <1>2, <2>1, <2>2, FoldExists, Zenon
  <2>4. Is(g)
    <3>1. \A s \in SUBSET D : g[s] = Body(g, s)
      <4> SUFFICES ASSUME NEW s \in SUBSET D PROVE g[s] = Body(g, s)
        OBVIOUS
      <4> HIDE DEF V, pick, step, D
      <4>1. CASE s = {}
        BY <2>3, <4>1 DEF Folds
      <4>2. CASE s # {}
        <5>1. pick[s] = Max(s) /\ Max(s) \in D /\ s \ {Max(s)} \in SUBSET D
          BY <1>3, <2>1, <4>2
        <5>2. g[s] = step[Max(s)][g[s \ {Max(s)}]]
          BY <2>3, <4>2, <5>1 DEF Folds
        <5> QED
          BY <2>2, <2>3, <4>2, <5>1, <5>2
      <4> QED
        BY <4>1, <4>2
    <3> HIDE DEF V, pick, step, D, Body
    <3> QED
      BY <2>3, <3>1
  <2>5. PICK h : h = CHOOSE k : Is(k)
    OBVIOUS
  <2>6. Is(h)
    <3> HIDE DEF Is
    <3> QED
      BY <2>4, <2>5
  <2>7. FoldLeft(LAMBDA chosen, s : Admit(chosen, s, n), <<>>, ranked) = h[D]
    BY <1>1, <2>5 DEF FoldLeft, MapThenFoldSet
  <2> DEFINE Good == {s \in SUBSET D : h[s] \in V}
  <2>8. ASSUME NEW s \in SUBSET D, \A x \in s : s \ {x} \in Good PROVE s \in Good
    <3>1. h[s] = Body(h, s)
      <4> HIDE DEF D, Body
      <4> QED
        BY <2>6
    <3>2. CASE s = {}
      BY <1>2, <3>1, <3>2
    <3>3. CASE s # {}
      <4>1. Max(s) \in s /\ h[s] = Admit(h[s \ {Max(s)}], ranked[Max(s)], n)
        BY <1>3, <3>1, <3>3
      <4>2. h[s \ {Max(s)}] \in V /\ Max(s) \in D
        BY <2>8, <4>1
      <4> HIDE DEF V
      <4> QED
        BY <1>8, <4>1, <4>2
    <3> QED
      BY <3>2, <3>3
  <2>9. D \in Good
    <3> HIDE DEF Good, D
    <3> QED
      BY <1>1, <2>8, SubsetInduction
  <2> QED
    BY <2>7, <2>9
<1>5. CASE ranked = <<>> \/ n = 0
  BY <1>2, <1>5 DEF Allocate
<1>6. CASE ranked # <<>> /\ n # 0 /\ ranked[1].grade = "top"
  <2>1. Allocate(ranked, n) = <<ranked[1]>> /\ ranked[1] \in Signal /\ Excellent(ranked[1])
    BY <1>1, <1>6 DEF Allocate, Excellent
  <2> QED
    BY <1>6, <2>1 DEF Proper, Compatible
<1>7. CASE ranked # <<>> /\ n # 0 /\ ranked[1].grade # "top"
  BY <1>4, <1>7 DEF Allocate
<1> QED
  BY <1>5, <1>6, <1>7
-----------------------------------------------------------------------------
\* Types.

\* What is kept of a symbol.
Position == [mem : Nat, real : Nat, day : 0..MaxDay, side : {"NONE", "LONG", "SHORT"},
             excellent : BOOLEAN]

\* The amounts a signal is judged on are numbers.
LEMMA AmountTypes ==
  ASSUME TypeOK
  PROVE  /\ Memory(positions) \in Int /\ Real(positions) \in Int /\ KnownMargin \in Int
         /\ Refreshed \in Int /\ Effective \in Int /\ Available \in Int /\ EffectiveAvailable \in Int
         /\ \A b \in Int : TotalCap(b) \in Nat /\ FreeFloor(b) \in Int
<1> USE ConstantTypes
<1>1. IsFiniteSet(Symbol)
  BY ConstantsAssumption
<1>2. Memory(positions) \in Int /\ Real(positions) \in Int /\ KnownMargin \in Int
  <2>1. [s \in Symbol |-> positions[s].mem] \in [Symbol -> Int]
    BY DEF TypeOK
  <2>2. [s \in Symbol |-> positions[s].real] \in [Symbol -> Int]
    BY DEF TypeOK
  <2>3. known \in [Symbol -> Int]
    BY DEF TypeOK
  <2> QED
    BY <1>1, <2>1, <2>2, <2>3, TotalType DEF Memory, Real, KnownMargin
<1>3. Refreshed \in Int /\ Effective \in Int
  BY DEF Refreshed, Effective, TypeOK
<1>4. Available \in Int
  <2>1. equity - Real(positions) \in Int
    BY <1>2 DEF TypeOK
  <2> QED
    BY <2>1, MaxOfTwo DEF Available
<1>5. EffectiveAvailable \in Int
  BY <1>3, <1>4, MinOfTwo DEF EffectiveAvailable
<1>6. \A b \in Int : TotalCap(b) \in Nat /\ FreeFloor(b) \in Int
  <2> TAKE b \in Int
  <2>1. (b * TotalPct) \div 100 - Buffer \in Int /\ (b * FreePct + 99) \div 100 \in Int
    OBVIOUS
  <2> QED
    BY <2>1, MaxOfTwo DEF TotalCap, FreeFloor
<1> QED
  BY <1>2, <1>3, <1>4, <1>5, <1>6

\* A margin that passes the checks, and the margin of its order after rounding.
LEMMA MarginTypes ==
  ASSUME TypeOK, NEW m, m = SelectedMargin(Effective, EffectiveAvailable),
         Affordable(m, Effective, EffectiveAvailable),
         NEW r \in Rounded(m, Effective, EffectiveAvailable)
  PROVE  m \in Nat /\ r \in Nat /\ r >= MaxLoss /\ r <= m + Step
<1>1. /\ TotalCap(Effective) - KnownMargin \in Int
      /\ EffectiveAvailable - FreeFloor(Effective) \in Int
      /\ (EffectiveAvailable * TradePct) \div 100 \in Int
      /\ FixedMargin \in Int /\ MaxMargin \in Int /\ 0 \in Int
  <2>1. TotalCap(Effective) \in Int /\ KnownMargin \in Int /\ FreeFloor(Effective) \in Int
        /\ EffectiveAvailable \in Int
    BY AmountTypes
  <2>2. TradePct \in Int /\ FixedMargin \in Int /\ MaxMargin \in Int
    BY ConstantTypes
  <2> QED
    BY <2>1, <2>2
<1>2. /\ Max({0, TotalCap(Effective) - KnownMargin}) \in Int
      /\ Max({0, EffectiveAvailable - FreeFloor(Effective)}) \in Int
  BY <1>1, MaxOfTwo, Zenon
<1>3. TradeCap(Effective, EffectiveAvailable) \in Int
  BY <1>1, <1>2, MinOfThree, Zenon DEF TradeCap
<1>4. m \in Int
  BY <1>1, <1>2, <1>3, MinOfThree, Zenon DEF SelectedMargin
<1>5. m >= MinMargin
  BY DEF Affordable
<1>6. r = m - Step \/ r = m + Step
  BY DEF Rounded
<1> QED
  BY <1>4, <1>5, <1>6, ConstantTypes

\* The slots the allocator fills.
LEMMA AllocatorSlotsBound ==
  ASSUME TypeOK, NEW hv \in BOOLEAN
  PROVE  AllocatorSlots(hv) \in Nat /\ (Slots > 0 => AllocatorSlots(hv) <= Slots)
<1> DEFINE n == IF balance < 30 \/ (balance <= 60 /\ ~AllowSecond) THEN 1
                ELSE IF balance <= 60 THEN SmallMaxOpen ELSE MaxOpen
<1>1. n \in Nat /\ (Slots > 0 => n <= Slots)
  BY SlotsBound, ConstantTypes
<1>2. AllocatorSlots(hv) = IF hv THEN Min({n, 1}) ELSE n
  BY DEF AllocatorSlots
<1> HIDE DEF n
<1>3. Min({n, 1}) = IF n <= 1 THEN n ELSE 1
  BY <1>1, MinOfTwo
<1> QED
  BY <1>1, <1>2, <1>3, SlotsBound

\* The open positions are as many as a number.
LEMMA OpenCount ==
  IsFiniteSet(Symbol) /\ IsFiniteSet(Open) /\ Cardinality(Open) \in Nat
<1>1. IsFiniteSet(Symbol) /\ Open \subseteq Symbol
  BY ConstantsAssumption DEF Open
<1> QED
  BY <1>1, FS_Subset, FS_CardinalityType

\* A list for the free slots is chosen from a ranking.
LEMMA Planned ==
  ASSUME TypeOK, Plan
  PROVE  \E hv \in BOOLEAN : Remaining(hv) \in Nat /\ Proper(todo', Remaining(hv))
<1>1. PICK ranked \in Rankings, hv \in BOOLEAN : todo' = Allocate(ranked, Remaining(hv))
  BY DEF Plan
<1>2. ranked \in Seq(Signal)
  <2>1. PICK n \in 0..Cardinality(Symbol) : ranked \in [1..n -> Signal]
    BY <1>1, OpenCount, FS_CardinalityType DEF Rankings, SeqOf
  <2> QED
    BY <2>1, OpenCount, FS_CardinalityType
<1>3. AllocatorSlots(hv) - Cardinality(Open) \in Int
  BY <1>1, OpenCount, AllocatorSlotsBound
<1>4. Remaining(hv) \in Nat
  BY <1>3, MaxOfTwo DEF Remaining
<1> QED
  BY <1>1, <1>2, <1>4, AllocateProper

\* A week is a set of days, and its sum a number.
LEMMA WeekTypes ==
  ASSUME NEW f \in [1..MaxDay -> Int], NEW d \in 1..MaxDay
  PROVE  /\ DaysOfWeek(d) \subseteq 1..MaxDay /\ IsFiniteSet(DaysOfWeek(d))
         /\ [e \in DaysOfWeek(d) |-> f[e]] \in [DaysOfWeek(d) -> Int]
         /\ WeekPnl(f, d) \in Int
<1>1. DaysOfWeek(d) \subseteq 1..MaxDay
  BY DEF DaysOfWeek
<1>2. IsFiniteSet(DaysOfWeek(d))
  BY <1>1, ConstantTypes, FS_Interval, FS_Subset
<1>3. [e \in DaysOfWeek(d) |-> f[e]] \in [DaysOfWeek(d) -> Int]
  BY <1>1
<1> QED
  BY <1>1, <1>2, <1>3, TotalType DEF WeekPnl

\* What a step of OpenPosition does, from facts: the signal, the margin m of the
\* checks and the margin r of the order.
Opened(s, m, r) ==
    /\ s = Head(todo) /\ s \in Signal /\ s.symbol \in Symbol /\ s.side \in {"LONG", "SHORT"}
    /\ m = SelectedMargin(Effective, EffectiveAvailable)
    /\ Preflight(s, Effective)
    /\ Affordable(m, Effective, EffectiveAvailable)
    /\ mode = "paper" => PaperAdmits(s, m)
    /\ r \in Rounded(m, Effective, EffectiveAvailable)
    /\ m \in Nat /\ r \in Nat /\ r >= MaxLoss /\ r <= m + Step
    /\ positions' = [positions EXCEPT ![s.symbol] =
                        [mem |-> IF mode = "paper" THEN m ELSE r, real |-> r, day |-> day,
                         side |-> s.side, excellent |-> Excellent(s)]]

\* OpenPosition opens one position.
LEMMA OpeningFacts ==
  ASSUME TypeOK, OpenPosition
  PROVE  /\ pc = "select" /\ todo # <<>> /\ todo' = Tail(todo) /\ Tail(todo) \in Seq(Signal)
         /\ Len(Tail(todo)) = Len(todo) - 1
         /\ \E s, m, r : Opened(s, m, r)
<1> DEFINE s == Head(todo)
           m == SelectedMargin(Effective, EffectiveAvailable)
<1>1. /\ pc = "select" /\ todo # <<>> /\ todo' = Tail(todo)
      /\ Preflight(s, Effective) /\ Affordable(m, Effective, EffectiveAvailable)
      /\ mode = "paper" => PaperAdmits(s, m)
  BY DEF OpenPosition
<1>2. PICK r \in Rounded(m, Effective, EffectiveAvailable) :
          positions' = [positions EXCEPT ![s.symbol] =
                    [mem |-> IF mode = "paper" THEN m ELSE r, real |-> r, day |-> day,
                     side |-> s.side, excellent |-> Excellent(s)]]
  BY DEF OpenPosition
<1>3. todo \in Seq(Signal)
  BY DEF TypeOK
<1>4. s \in Signal /\ Tail(todo) \in Seq(Signal) /\ Len(Tail(todo)) = Len(todo) - 1
  BY <1>1, <1>3
<1>5. s.symbol \in Symbol /\ s.side \in {"LONG", "SHORT"}
  BY <1>4, ConstantsAssumption
<1>6. m \in Nat /\ r \in Nat /\ r >= MaxLoss /\ r <= m + Step
  BY <1>1, <1>2, MarginTypes, Zenon
<1>7. Opened(s, m, r)
  <2> HIDE DEF s, m
  <2>1. s = Head(todo) /\ m = SelectedMargin(Effective, EffectiveAvailable)
    BY DEF s, m
  <2> QED
    BY <1>1, <1>2, <1>4, <1>5, <1>6, <2>1, Zenon DEF Opened
<1> HIDE DEF s, m
<1> QED
  BY <1>1, <1>4, <1>7

\* The day a position was opened is a day.
LEMMA OpenDay ==
  ASSUME TypeOK, NEW s \in Open
  PROVE  s \in Symbol /\ positions[s] \in Position /\ positions[s].day \in 1..MaxDay
<1>1. s \in Symbol /\ positions[s].day > 0
  BY DEF Open
<1>2. positions[s] \in Position
  BY <1>1 DEF TypeOK, Position
<1> QED
  BY <1>1, <1>2, ConstantTypes DEF Position

\* A position that is not there.
LEMMA NoPositionType == NoPosition \in Position
<1>1. 0 \in 0..MaxDay
  BY ConstantTypes
<1> QED
  BY <1>1 DEF NoPosition, Position

\* What the reload keeps of a position.
LEMMA ReloadedFacts ==
  ASSUME TypeOK, NEW s \in Symbol
  PROVE  /\ Reloaded[s] \in Position
         /\ Reloaded[s].mem = positions[s].real /\ Reloaded[s].real = positions[s].real
         /\ Reloaded[s].day = positions[s].day /\ Reloaded[s].side = positions[s].side
         /\ Reloaded[s].excellent = positions[s].excellent
<1>1. positions[s] \in Position
  BY DEF TypeOK, Position
<1>2. Reloaded[s] = [positions[s] EXCEPT !.mem = positions[s].real]
  BY DEF Reloaded
<1>3. PICK q \in Position : q = positions[s]
  BY <1>1
<1>4. [q EXCEPT !.mem = q.real] \in Position
  BY <1>3 DEF Position
<1>5. /\ [q EXCEPT !.mem = q.real].mem = q.real /\ [q EXCEPT !.mem = q.real].real = q.real
      /\ [q EXCEPT !.mem = q.real].day = q.day /\ [q EXCEPT !.mem = q.real].side = q.side
      /\ [q EXCEPT !.mem = q.real].excellent = q.excellent
  BY <1>3 DEF Position
<1> QED
  BY <1>2, <1>3, <1>4, <1>5

\* The type invariant without the positions.
OtherTypes ==
    /\ mode \in {"paper", "live"}
    /\ pc \in {"idle", "select", "monitor"}
    /\ known \in [Symbol -> Nat]
    /\ todo \in Seq(Signal)
    /\ reduce \in BOOLEAN
    /\ pnl \in [day : Int, week : Int]
    /\ balance \in Int
    /\ halved \in BOOLEAN
    /\ equity \in Int
    /\ booked \in [1..MaxDay -> Int]
    /\ suffered \in [1..MaxDay -> Int]
    /\ day \in 1..MaxDay
    /\ fails \in 0..MaxApiFailures
    /\ trades \in 0..MaxTrades

\* The two parts of the type invariant.
LEMMA TypeParts == TypeOK <=> OtherTypes /\ positions \in [Symbol -> Position]
BY DEF TypeOK, OtherTypes, Position

\* The types of the positions after one step.
LEMMA PositionsStep ==
  ASSUME TypeOK, [Next]_vars
  PROVE  positions' \in [Symbol -> Position]
<1>1. positions \in [Symbol -> Position]
  BY TypeParts
<1>2. CASE OpenPosition
  <2>1. PICK s, m, r : Opened(s, m, r)
    BY <1>2, OpeningFacts
  <2> DEFINE q == [mem |-> IF mode = "paper" THEN m ELSE r, real |-> r, day |-> day, side |-> s.side,
                   excellent |-> Excellent(s)]
  <2>2. day \in 0..MaxDay /\ Excellent(s) \in BOOLEAN
    BY DEF TypeOK, Excellent
  <2>3. q \in Position
    BY <2>1, <2>2 DEF Opened, Position
  <2>4. positions' = [positions EXCEPT ![s.symbol] = q]
    BY <2>1 DEF Opened
  <2> HIDE DEF q
  <2> QED
    BY <1>1, <2>3, <2>4
<1>3. ASSUME NEW s \in Symbol, PaperClose(s) \/ LiveClose(s) PROVE positions' \in [Symbol -> Position]
  <2>1. positions' = [positions EXCEPT ![s] = NoPosition]
    BY <1>3 DEF PaperClose, LiveClose
  <2> QED
    BY <1>1, <2>1, NoPositionType
<1>4. CASE positions' \in {positions, Reloaded}
  <2>1. Reloaded \in [Symbol -> Position]
    BY ReloadedFacts DEF Reloaded
  <2> QED
    BY <1>1, <1>4, <2>1
<1> QED
  BY <1>2, <1>3, <1>4 DEF Next, Plan, Skip, SelectDone, EndCycle, CycleFails, Restart, Midnight, vars

\* The types of one step.
LEMMA TypeStep ==
  ASSUME TypeOK, [Next]_vars
  PROVE  TypeOK'
<1>1. OtherTypes
  BY TypeParts
<1>2. Forget => /\ known' \in [Symbol -> Nat] /\ todo' \in Seq(Signal) /\ reduce' \in BOOLEAN
                /\ pnl' \in [day : Int, week : Int]
  <2>1. NoKnown \in [Symbol -> Nat] /\ NoPnl \in [day : Int, week : Int] /\ <<>> \in Seq(Signal)
    BY DEF NoKnown, NoPnl
  <2> QED
    BY <2>1 DEF Forget
<1>3. Refreshed \in Int
  BY AmountTypes
<1>4. ASSUME Plan PROVE OtherTypes'
  <2>1. known' \in [Symbol -> Nat]
    <3>1. \A s \in Symbol : positions[s].mem \in Nat /\ positions[s].real \in Nat
      BY DEF TypeOK
    <3> QED
      BY <1>4, <3>1 DEF Plan
  <2>2. todo' \in Seq(Signal)
    BY <1>4, Planned DEF Proper
  <2>3. pnl' \in [day : Int, week : Int]
    <3>1. booked \in [1..MaxDay -> Int] /\ day \in 1..MaxDay
      BY DEF TypeOK
    <3>2. booked[day] \in Int /\ WeekPnl(booked, day) \in Int
      BY <3>1, WeekTypes
    <3>3. pnl' = [day |-> booked[day], week |-> WeekPnl(booked, day)]
      BY <1>4 DEF Plan
    <3> QED
      BY <3>2, <3>3
  <2>4. reduce' \in BOOLEAN /\ pc' = "select"
        /\ UNCHANGED <<mode, balance, halved, equity, booked, suffered, day, fails, trades>>
    BY <1>4 DEF Plan
  <2> QED
    BY <1>1, <1>4, <2>1, <2>2, <2>3, <2>4 DEF OtherTypes
<1>5. OtherTypes'
  <2>1. CASE Skip
    <3>1. todo' \in Seq(Signal)
      BY <1>1, <2>1 DEF Skip, OtherTypes
    <3> QED
      BY <1>1, <1>3, <2>1, <3>1 DEF Skip, OtherTypes
  <2>2. CASE OpenPosition
    <3>1. todo' \in Seq(Signal) /\ balance' = Refreshed /\ halved' \in BOOLEAN
      BY <2>2, OpeningFacts DEF OpenPosition
    <3>2. trades' \in 0..MaxTrades
      BY <1>1, <2>2, ConstantTypes DEF OpenPosition, OtherTypes
    <3>3. UNCHANGED <<mode, pc, known, reduce, pnl, equity, booked, suffered, day, fails>>
      BY <2>2 DEF OpenPosition
    <3> QED
      BY <1>1, <1>3, <3>1, <3>2, <3>3 DEF OtherTypes
  <2>3. CASE SelectDone
    BY <1>1, <1>2, <2>3 DEF SelectDone, OtherTypes
  <2>4. ASSUME NEW s \in Symbol, PaperClose(s) PROVE OtherTypes'
    <3>1. PICK p \in {-MaxLoss, Gain} : booked' = [booked EXCEPT ![positions[s].day] = @ + p]
                                      /\ suffered' = [suffered EXCEPT ![day] = @ + p]
      BY <2>4 DEF PaperClose
    <3>2. positions[s].day \in 1..MaxDay /\ p \in Int
      BY <2>4, OpenDay, ConstantTypes DEF PaperClose
    <3>3. booked \in [1..MaxDay -> Int] /\ suffered \in [1..MaxDay -> Int] /\ day \in 1..MaxDay
      BY <1>1 DEF OtherTypes
    <3>4. booked' \in [1..MaxDay -> Int] /\ suffered' \in [1..MaxDay -> Int]
      <4>1. PICK e \in 1..MaxDay, q \in Int : e = positions[s].day /\ q = p
        BY <3>2
      <4>2. booked[e] + q \in Int /\ suffered[day] + q \in Int
        BY <3>3
      <4> QED
        BY <3>1, <3>3, <4>1, <4>2
    <3> QED
      BY <1>1, <2>4, <3>4 DEF PaperClose, OtherTypes
  <2>5. ASSUME NEW s \in Symbol, LiveClose(s) PROVE OtherTypes'
    <3>1. PICK p \in {-MaxLoss, Gain} : equity' = equity + p
                                      /\ suffered' = [suffered EXCEPT ![day] = @ + p]
      BY <2>5 DEF LiveClose
    <3>2. equity' \in Int /\ suffered' \in [1..MaxDay -> Int]
      BY <1>1, <3>1, ConstantTypes DEF OtherTypes
    <3> QED
      BY <1>1, <2>5, <3>2 DEF LiveClose, OtherTypes
  <2>6. CASE EndCycle
    BY <1>1, <2>6 DEF EndCycle, OtherTypes
  <2>7. CASE CycleFails
    BY <1>1, <1>2, <2>7, ConstantTypes DEF CycleFails, OtherTypes
  <2>8. CASE Restart
    BY <1>1, <1>2, <2>8, ConstantTypes DEF Restart, OtherTypes
  <2>9. CASE Midnight
    BY <1>1, <2>9, ConstantTypes DEF Midnight, OtherTypes
  <2>10. CASE UNCHANGED vars
    BY <1>1, <2>10 DEF vars, OtherTypes
  <2> QED
    BY <2>1, <2>2, <2>3, <2>4, <2>5, <2>6, <2>7, <2>8, <2>9, <2>10, <1>4 DEF Next
<1> QED
  BY <1>5, PositionsStep DEF TypeOK, OtherTypes, Position

\* The types hold when the bot is started.
LEMMA TypeInit == Init => TypeOK
<1> SUFFICES ASSUME Init PROVE TypeOK
  OBVIOUS
<1>1. positions \in [Symbol -> Position]
  BY NoPositionType DEF Init
<1>2. mode \in {"paper", "live"}
  BY ConstantsAssumption DEF Init
<1>3. 1 \in 1..MaxDay /\ 0 \in 0..MaxApiFailures /\ 0 \in 0..MaxTrades /\ Capital \in Int
  BY ConstantTypes
<1>4. NoKnown \in [Symbol -> Nat] /\ NoPnl \in [day : Int, week : Int]
  BY DEF NoKnown, NoPnl
<1>5. [d \in 1..MaxDay |-> 0] \in [1..MaxDay -> Int]
  OBVIOUS
<1>6. <<>> \in Seq(Signal)
  OBVIOUS
<1>7. OtherTypes
  BY <1>2, <1>3, <1>4, <1>5, <1>6 DEF Init, OtherTypes
<1> QED
  BY <1>1, <1>7 DEF TypeOK, OtherTypes, Position

\* Every variable keeps its type.
THEOREM TypeInvariant == Spec => []TypeOK
<1>1. TypeOK /\ [Next]_vars => TypeOK'
  BY TypeStep
<1> QED
  BY <1>1, TypeInit, PTL DEF Spec
-----------------------------------------------------------------------------
\* What the steps do to the positions.

\* The fields of a position that no reload changes.
SameBut(p, q) ==
    p.real = q.real /\ p.day = q.day /\ p.side = q.side /\ p.excellent = q.excellent

\* A step that opens and closes nothing: the positions stay, or are reloaded.
Quiet ==
    /\ positions' \in {positions, Reloaded}
    /\ day' \in {day, day + 1}
    /\ UNCHANGED <<mode, halved, equity, booked, suffered>>

\* A step opens a position, closes one, or leaves them alone.
LEMMA StepKinds ==
  ASSUME [Next]_vars
  PROVE  OpenPosition \/ (\E s \in Symbol : PaperClose(s) \/ LiveClose(s)) \/ Quiet
BY DEF Next, Plan, Skip, SelectDone, EndCycle, CycleFails, Restart, Midnight, vars, Quiet

\* The positions after an opening.
LEMMA AfterOpening ==
  ASSUME TypeOK, NEW s, NEW m, NEW r, Opened(s, m, r)
  PROVE  /\ Open' = Open \cup {s.symbol}
         /\ \A t \in Symbol \ {s.symbol} : positions'[t] = positions[t]
         /\ positions'[s.symbol].mem = (IF mode = "paper" THEN m ELSE r)
         /\ positions'[s.symbol].real = r
         /\ positions'[s.symbol].day = day
         /\ positions'[s.symbol].side = s.side
         /\ positions'[s.symbol].excellent = Excellent(s)
<1> DEFINE q == [mem |-> IF mode = "paper" THEN m ELSE r, real |-> r, day |-> day, side |-> s.side,
                 excellent |-> Excellent(s)]
<1>1. positions' = [positions EXCEPT ![s.symbol] = q] /\ s.symbol \in Symbol
  BY DEF Opened
<1>2. positions \in [Symbol -> Position] /\ day > 0
  BY DEF TypeOK, Position
<1>3. q.day = day /\ q.mem = (IF mode = "paper" THEN m ELSE r) /\ q.real = r /\ q.side = s.side
      /\ q.excellent = Excellent(s)
  OBVIOUS
<1> HIDE DEF q
<1>4. positions'[s.symbol] = q /\ \A t \in Symbol \ {s.symbol} : positions'[t] = positions[t]
  BY <1>1, <1>2
<1>5. Open' = Open \cup {s.symbol}
  BY <1>1, <1>2, <1>3, <1>4 DEF Open
<1> QED
  BY <1>3, <1>4, <1>5

\* The positions after a close.
LEMMA AfterClose ==
  ASSUME TypeOK, NEW s \in Symbol, PaperClose(s) \/ LiveClose(s)
  PROVE  /\ s \in Open /\ Open' = Open \ {s}
         /\ \A t \in Symbol \ {s} : positions'[t] = positions[t]
         /\ positions'[s] = NoPosition
<1>1. positions' = [positions EXCEPT ![s] = NoPosition] /\ s \in Open
  BY DEF PaperClose, LiveClose
<1>2. positions \in [Symbol -> Position]
  BY DEF TypeOK, Position
<1>3. positions'[s] = NoPosition /\ \A t \in Symbol \ {s} : positions'[t] = positions[t]
  BY <1>1, <1>2
<1>4. ~(NoPosition.day > 0)
  BY DEF NoPosition
<1>5. Open' = Open \ {s}
  BY <1>1, <1>3, <1>4 DEF Open
<1> QED
  BY <1>1, <1>3, <1>5

\* The positions after a quiet step.
LEMMA AfterQuiet ==
  ASSUME TypeOK, Quiet
  PROVE  /\ Open' = Open
         /\ \A t \in Symbol : /\ SameBut(positions'[t], positions[t])
                              /\ positions'[t].mem \in {positions[t].mem, positions[t].real}
<1>1. \A t \in Symbol : /\ SameBut(positions'[t], positions[t])
                        /\ positions'[t].mem \in {positions[t].mem, positions[t].real}
  <2>1. CASE positions' = positions
    BY <2>1 DEF SameBut
  <2>2. CASE positions' = Reloaded
    <3> TAKE t \in Symbol
    <3>1. positions'[t] = Reloaded[t]
      BY <2>2
    <3> QED
      BY <3>1, ReloadedFacts DEF SameBut
  <2> QED
    BY <2>1, <2>2 DEF Quiet
<1>2. Open' = Open
  BY <1>1 DEF Open, SameBut
<1> QED
  BY <1>1, <1>2
-----------------------------------------------------------------------------
\* The slots.

\* The loop never holds more signals than there are free slots, although it only
\* counts the positions it saw when it began.
SlotsOK ==
    /\ pc # "select" => todo = <<>>
    /\ WithinSlots
    /\ Slots > 0 => Cardinality(Open) + Len(todo) <= Slots

\* A position is opened only when there is a slot in all.
LEMMA OpeningNeedsSlot ==
  ASSUME TypeOK, OpenPosition
  PROVE  Slots > 0
<1>1. PICK s, m, r : Opened(s, m, r)
  BY OpeningFacts
<1>2. Cardinality(KnownOpen) < MaxPositions(Effective)
  BY <1>1 DEF Opened, Preflight
<1>3. Cardinality(KnownOpen) \in Nat
  <2>1. KnownOpen \subseteq Symbol
    BY DEF KnownOpen
  <2> QED
    BY <2>1, OpenCount, FS_Subset, FS_CardinalityType
<1>4. MaxPositions(Effective) \in Int /\ MaxPositions(Effective) <= Slots
  <2> DEFINE n == IF Effective <= 60 THEN SmallMaxOpen ELSE MaxOpen
  <2>1. n \in Int /\ n <= Slots /\ MaxOpen \in Int /\ SmallMaxOpen \in Int
    BY SlotsBound, ConstantTypes
  <2>2. MaxPositions(Effective) = SmallMaxOpen \/ MaxPositions(Effective) = Min({MaxOpen, n})
    BY DEF MaxPositions
  <2> HIDE DEF n
  <2>3. Min({MaxOpen, n}) = MaxOpen \/ Min({MaxOpen, n}) = n
    BY <2>1, MinOfTwo
  <2> QED
    BY <2>1, <2>2, <2>3, SlotsBound
<1> QED
  BY <1>2, <1>3, <1>4, SlotsBound

\* A step keeps the slots.
LEMMA SlotsStep ==
  ASSUME TypeOK, [Next]_vars, SlotsOK
  PROVE  SlotsOK'
<1>1. Cardinality(Open) <= Slots /\ (Slots > 0 => Cardinality(Open) + Len(todo) <= Slots)
      /\ Len(todo) \in Nat /\ Cardinality(Open) \in Nat /\ Slots \in Nat
  BY OpenCount, SlotsBound DEF SlotsOK, WithinSlots, TypeOK
<1>2. Slots' = Slots
  BY DEF Slots
<1>3. CASE OpenPosition
  <2>1. PICK s, m, r : Opened(s, m, r)
    BY <1>3, OpeningFacts
  <2>2. Open' = Open \cup {s.symbol}
    BY <2>1, AfterOpening
  <2>3. Cardinality(Open') <= Cardinality(Open) + 1 /\ Cardinality(Open') \in Nat
    <3>1. IsFiniteSet(Open)
      BY OpenCount
    <3>2. Cardinality(Open \cup {s.symbol}) = IF s.symbol \in Open THEN Cardinality(Open)
                                              ELSE Cardinality(Open) + 1
      BY <3>1, FS_AddElement, Zenon
    <3> QED
      BY <1>1, <2>2, <3>2
  <2>4. Len(todo') = Len(todo) - 1 /\ pc' = "select"
    BY <1>3, OpeningFacts DEF OpenPosition
  <2> QED
    BY <1>1, <1>2, <1>3, <2>3, <2>4, OpeningNeedsSlot DEF SlotsOK, WithinSlots
<1>4. ASSUME NEW s \in Symbol, PaperClose(s) \/ LiveClose(s) PROVE SlotsOK'
  <2>1. s \in Open /\ Open' = Open \ {s}
    BY <1>4, AfterClose
  <2>2. Cardinality(Open') = Cardinality(Open) - 1
    BY <2>1, OpenCount, FS_RemoveElement
  <2>3. UNCHANGED <<pc, todo>>
    BY <1>4 DEF PaperClose, LiveClose
  <2> QED
    BY <1>1, <1>2, <2>2, <2>3 DEF SlotsOK, WithinSlots
<1>5. CASE Quiet
  <2>1. Open' = Open
    BY <1>5, AfterQuiet
  <2>2. CASE Plan
    <3>1. PICK hv \in BOOLEAN : Remaining(hv) \in Nat /\ Proper(todo', Remaining(hv))
      BY <2>2, Planned
    <3>2. Len(todo') <= Remaining(hv) /\ Len(todo') \in Nat /\ pc' = "select"
      BY <2>2, <3>1 DEF Proper, Plan
    <3>3. AllocatorSlots(hv) - Cardinality(Open) \in Int /\ AllocatorSlots(hv) \in Nat
      BY <1>1, AllocatorSlotsBound
    <3>4. Remaining(hv) = 0 \/ Remaining(hv) = AllocatorSlots(hv) - Cardinality(Open)
      BY <3>3, MaxOfTwo DEF Remaining
    <3> QED
      BY <1>1, <1>2, <2>1, <3>2, <3>3, <3>4, AllocatorSlotsBound DEF SlotsOK, WithinSlots
  <2>3. CASE Skip
    <3>1. Len(todo') = Len(todo) - 1 /\ pc' = "select"
      BY <2>3 DEF Skip, TypeOK
    <3> QED
      BY <1>1, <1>2, <2>1, <3>1 DEF SlotsOK, WithinSlots
  <2>4. CASE SelectDone \/ CycleFails \/ Restart
    <3>1. todo' = <<>>
      BY <2>4 DEF SelectDone, CycleFails, Restart, Forget
    <3> QED
      BY <1>1, <1>2, <2>1, <3>1 DEF SlotsOK, WithinSlots
  <2>5. CASE EndCycle \/ Midnight \/ UNCHANGED vars
    <3>1. todo' = todo /\ (pc' = pc \/ (pc = "monitor" /\ pc' = "idle"))
      BY <2>5 DEF EndCycle, Midnight, vars
    <3> QED
      BY <1>1, <1>2, <2>1, <3>1 DEF SlotsOK, WithinSlots
  <2> QED
    BY <1>3, <1>4, <2>2, <2>3, <2>4, <2>5 DEF Next
<1> QED
  BY <1>3, <1>4, <1>5, StepKinds
-----------------------------------------------------------------------------
\* Correlated positions.

\* A step keeps the list compatible with the open positions, and the pairs of
\* open positions correlated only through an excellent signal.
LEMMA CorrelationStep ==
  ASSUME TypeOK, [Next]_vars, Compatible(todo), CorrelatedPairs
  PROVE  Compatible(todo)' /\ CorrelatedPairs'
<1>1. todo \in Seq(Signal) /\ todo' \in Seq(Signal)
  BY TypeStep DEF TypeOK
<1>2. CASE OpenPosition
  <2>1. PICK s, m, r : Opened(s, m, r)
    BY <1>2, OpeningFacts
  <2> DEFINE x == s.symbol
  <2>2. /\ Open' = Open \cup {x} /\ \A t \in Symbol \ {x} : positions'[t] = positions[t]
        /\ positions'[x].side = s.side /\ positions'[x].excellent = Excellent(s)
    BY <2>1, AfterOpening
  <2>3. /\ Len(todo') = Len(todo) - 1 /\ Len(todo) \in Nat /\ Len(todo) > 0 /\ s = todo[1]
        /\ \A i \in 1..Len(todo') : todo'[i] = todo[i + 1]
    BY <1>1, <1>2, <2>1, OpeningFacts DEF Opened
  <2>4. Open \subseteq Symbol /\ x \in Symbol
    BY <2>1 DEF Open, Opened
  <2> HIDE DEF x
  <2>5. \A p \in Open : AlikeIn(positions, p, s) => Excellent(s)
    BY <2>3 DEF Compatible
  <2>6. ASSUME NEW p \in Open', NEW t \in Open', p # t, GroupOf[p] = GroupOf[t],
               positions'[p].side = positions'[t].side
        PROVE  positions'[p].excellent \/ positions'[t].excellent
    <3>1. CASE p # x /\ t # x
      BY <2>2, <2>4, <2>6, <3>1 DEF CorrelatedPairs
    <3>2. CASE p = x
      <4>1. t \in Open /\ positions'[t] = positions[t]
        BY <2>2, <2>4, <2>6, <3>2
      <4>2. AlikeIn(positions, t, s)
        BY <2>2, <2>6, <3>2, <4>1 DEF AlikeIn, x
      <4> QED
        BY <2>2, <2>5, <3>2, <4>1, <4>2
    <3>3. CASE t = x
      <4>1. p = x \/ (p \in Open /\ positions'[p] = positions[p])
        BY <2>2, <2>4, <2>6
      <4>2. AlikeIn(positions, p, s)
        BY <2>2, <2>6, <3>3, <4>1 DEF AlikeIn, x
      <4> QED
        BY <2>2, <2>5, <2>6, <3>3, <4>1, <4>2
    <3> QED
      BY <3>1, <3>2, <3>3
  <2>7. ASSUME NEW i \in 1..Len(todo')
        PROVE  /\ \A p \in Open' : AlikeIn(positions', p, todo'[i]) => Excellent(todo'[i])
               /\ \A j \in 1..(i - 1) : Alike(todo'[j], todo'[i]) => Excellent(todo'[i])
    <3>1. i + 1 \in 1..Len(todo) /\ todo'[i] = todo[i + 1]
      BY <2>3
    <3>2. ASSUME NEW p \in Open', AlikeIn(positions', p, todo'[i]) PROVE Excellent(todo'[i])
      <4>1. CASE p = x
        <5>1. Alike(todo[1], todo[i + 1])
          BY <2>2, <2>3, <3>1, <3>2, <4>1 DEF AlikeIn, Alike, x
        <5>2. 1 \in 1..(i + 1 - 1)
          BY <2>3
        <5> QED
          BY <3>1, <5>1, <5>2 DEF Compatible
      <4>2. CASE p # x
        <5>1. p \in Open /\ positions'[p] = positions[p]
          BY <2>2, <2>4, <3>2, <4>2
        <5>2. AlikeIn(positions, p, todo[i + 1])
          BY <3>1, <3>2, <5>1 DEF AlikeIn
        <5> QED
          BY <3>1, <5>1, <5>2 DEF Compatible
      <4> QED
        BY <4>1, <4>2
    <3>3. ASSUME NEW j \in 1..(i - 1), Alike(todo'[j], todo'[i]) PROVE Excellent(todo'[i])
      <4>1. todo'[j] = todo[j + 1] /\ j + 1 \in 1..(i + 1 - 1)
        BY <2>3
      <4>2. Alike(todo[j + 1], todo[i + 1])
        BY <3>1, <3>3, <4>1
      <4>3. \A k \in 1..(i + 1 - 1) : Alike(todo[k], todo[i + 1]) => Excellent(todo[i + 1])
        BY <3>1 DEF Compatible
      <4> QED
        BY <3>1, <4>1, <4>2, <4>3
    <3> QED
      BY <3>2, <3>3
  <2> QED
    BY <2>6, <2>7 DEF CorrelatedPairs, Compatible
<1>3. ASSUME NEW s \in Symbol, PaperClose(s) \/ LiveClose(s)
      PROVE  Compatible(todo)' /\ CorrelatedPairs'
  <2>1. s \in Open /\ Open' = Open \ {s} /\ \A t \in Symbol \ {s} : positions'[t] = positions[t]
    BY <1>3, AfterClose
  <2>2. todo' = todo
    BY <1>3 DEF PaperClose, LiveClose
  <2>3. \A p \in Open' : p \in Open /\ positions'[p] = positions[p]
    BY <2>1 DEF Open
  <2> QED
    BY <2>2, <2>3 DEF CorrelatedPairs, Compatible, AlikeIn
<1>4. CASE Quiet
  <2>1. Open' = Open /\ \A t \in Symbol : positions'[t].side = positions[t].side
                                          /\ positions'[t].excellent = positions[t].excellent
    BY <1>4, AfterQuiet DEF SameBut
  <2>2. CorrelatedPairs'
    BY <2>1 DEF CorrelatedPairs, Open
  <2>3. \A s : \A p \in Open : AlikeIn(positions', p, s) <=> AlikeIn(positions, p, s)
    BY <2>1 DEF AlikeIn, Open
  <2>4. CASE todo' = todo
    BY <2>1, <2>2, <2>3, <2>4 DEF Compatible
  <2>5. CASE todo' = <<>>
    BY <2>2, <2>5 DEF Compatible
  <2>6. CASE Plan
    <3>1. Compatible(todo')
      BY <2>6, Planned DEF Proper
    <3> QED
      BY <2>1, <2>2, <2>3, <3>1 DEF Compatible
  <2>7. CASE Skip
    <3>1. /\ Len(todo') = Len(todo) - 1 /\ Len(todo) \in Nat /\ Len(todo) > 0
          /\ \A i \in 1..Len(todo') : todo'[i] = todo[i + 1]
      BY <1>1, <2>7 DEF Skip
    <3>2. ASSUME NEW i \in 1..Len(todo')
          PROVE  /\ \A p \in Open' : AlikeIn(positions', p, todo'[i]) => Excellent(todo'[i])
                 /\ \A j \in 1..(i - 1) : Alike(todo'[j], todo'[i]) => Excellent(todo'[i])
      <4>1. i + 1 \in 1..Len(todo) /\ todo'[i] = todo[i + 1]
        BY <3>1
      <4>2. \A p \in Open' : AlikeIn(positions', p, todo'[i]) => Excellent(todo'[i])
        BY <2>1, <2>3, <4>1 DEF Compatible
      <4>3. ASSUME NEW j \in 1..(i - 1), Alike(todo'[j], todo'[i]) PROVE Excellent(todo'[i])
        <5>1. todo'[j] = todo[j + 1] /\ j + 1 \in 1..(i + 1 - 1)
          BY <3>1
        <5> QED
          BY <4>1, <4>3, <5>1 DEF Compatible
      <4> QED
        BY <4>2, <4>3
    <3> QED
      BY <2>2, <3>2 DEF Compatible
  <2>8. CASE \E s \in Symbol : PaperClose(s) \/ LiveClose(s)
    BY <1>3, <2>8
  <2> QED
    BY <1>2, <2>4, <2>5, <2>6, <2>7, <2>8
    DEF Next, SelectDone, CycleFails, Restart, Forget, EndCycle, Midnight, vars
<1> QED
  BY <1>2, <1>3, <1>4, StepKinds
-----------------------------------------------------------------------------
\* Each position, and the margin of the paper trader.

\* A symbol without a position holds nothing.  A position was opened on a day
\* that has come, with a margin that covers what it may lose, and rounding moved
\* the margin of its order by a step at most.
PositionsOK ==
    \A s \in Symbol :
        /\ s \notin Open => positions[s] = NoPosition
        /\ s \in Open => positions[s].real >= MaxLoss
        /\ positions[s].real <= positions[s].mem + Step
        /\ positions[s].day <= day

\* A step keeps that.
LEMMA EachPositionStep ==
  ASSUME TypeOK, [Next]_vars, PositionsOK
  PROVE  PositionsOK'
<1>1. Step \in Nat /\ day \in 1..MaxDay /\ MaxLoss \in Nat
  BY ConstantTypes DEF TypeOK
<1>2. \A t \in Symbol : positions[t].real \in Nat /\ positions[t].mem \in Nat /\ positions[t].day \in Nat
  BY DEF TypeOK
<1>3. CASE OpenPosition
  <2>1. PICK s, m, r : Opened(s, m, r)
    BY <1>3, OpeningFacts
  <2>2. /\ Open' = Open \cup {s.symbol} /\ \A t \in Symbol \ {s.symbol} : positions'[t] = positions[t]
        /\ positions'[s.symbol].mem = (IF mode = "paper" THEN m ELSE r)
        /\ positions'[s.symbol].real = r /\ positions'[s.symbol].day = day
    BY <2>1, AfterOpening
  <2>3. m \in Nat /\ r \in Nat /\ r >= MaxLoss /\ r <= m + Step
    BY <2>1 DEF Opened
  <2>4. day' = day
    BY <1>3 DEF OpenPosition
  <2> QED
    BY <1>1, <2>2, <2>3, <2>4 DEF PositionsOK
<1>4. ASSUME NEW s \in Symbol, PaperClose(s) \/ LiveClose(s) PROVE PositionsOK'
  <2>1. /\ s \in Open /\ Open' = Open \ {s} /\ positions'[s] = NoPosition
        /\ \A t \in Symbol \ {s} : positions'[t] = positions[t]
    BY <1>4, AfterClose
  <2>2. day' = day
    BY <1>4 DEF PaperClose, LiveClose
  <2>3. NoPosition.real <= NoPosition.mem + Step /\ NoPosition.day <= day
    BY <1>1 DEF NoPosition
  <2> QED
    BY <2>1, <2>2, <2>3 DEF PositionsOK
<1>5. CASE Quiet
  <2>1. /\ Open' = Open
        /\ \A t \in Symbol : /\ SameBut(positions'[t], positions[t])
                             /\ positions'[t].mem \in {positions[t].mem, positions[t].real}
    BY <1>5, AfterQuiet
  <2>2. ASSUME NEW t \in Symbol, t \notin Open' PROVE positions'[t] = NoPosition
    <3>1. positions[t] = NoPosition
      BY <2>1, <2>2 DEF PositionsOK
    <3>2. [NoPosition EXCEPT !.mem = NoPosition.real] = NoPosition
      BY DEF NoPosition
    <3>3. positions'[t] = positions[t] \/ positions'[t] = [positions[t] EXCEPT !.mem = positions[t].real]
      BY <1>5 DEF Quiet, Reloaded
    <3> QED
      BY <3>1, <3>2, <3>3
  <2>3. ASSUME NEW t \in Symbol
        PROVE  /\ t \in Open' => positions'[t].real >= MaxLoss
               /\ positions'[t].real <= positions'[t].mem + Step
               /\ positions'[t].day <= day'
    <3>1. positions'[t].real = positions[t].real /\ positions'[t].day = positions[t].day
          /\ positions'[t].mem \in {positions[t].mem, positions[t].real}
      BY <2>1 DEF SameBut
    <3>2. day' \in {day, day + 1}
      BY <1>5 DEF Quiet
    <3> QED
      BY <1>1, <1>2, <2>1, <3>1, <3>2 DEF PositionsOK
  <2> QED
    BY <2>2, <2>3 DEF PositionsOK
<1> QED
  BY <1>3, <1>4, <1>5, StepKinds

\* The sum of f over the symbols of T.
Part(f, T) == Total([s \in Symbol |-> IF s \in T THEN f[s] ELSE 0])
\* What the trader's memory and what the rows hold of each symbol.
MemOf == [s \in Symbol |-> positions[s].mem]
RealOf == [s \in Symbol |-> positions[s].real]
\* The reserved margin of the positions of T stays below the cap but for the
\* rounding of each.
BelowCap(f, T) == Part(f, T) < TotalCap(Capital) + Step * Cardinality(T)

\* The paper trader's margin stays below the cap for every set of its positions,
\* in memory and in the rows: trades close in any order, and a reload puts the
\* margin of the order in place of the one selected.
MarginOK ==
    mode = "paper" => \A T \in SUBSET Open : T # {} => BelowCap(MemOf, T) /\ BelowCap(RealOf, T)

\* Parts of sums are compared symbol by symbol.
LEMMA PartCongruence ==
  ASSUME NEW T \in SUBSET Symbol, NEW f, NEW g, \A s \in T : f[s] = g[s]
  PROVE  Part(f, T) = Part(g, T)
<1>1. [s \in Symbol |-> IF s \in T THEN f[s] ELSE 0] = [s \in Symbol |-> IF s \in T THEN g[s] ELSE 0]
  OBVIOUS
<1> QED
  BY <1>1 DEF Part

LEMMA PartType ==
  ASSUME NEW T \in SUBSET Symbol, NEW f \in [Symbol -> Int]
  PROVE  /\ [s \in Symbol |-> IF s \in T THEN f[s] ELSE 0] \in [Symbol -> Int]
         /\ Part(f, T) \in Int
<1>1. [s \in Symbol |-> IF s \in T THEN f[s] ELSE 0] \in [Symbol -> Int]
  OBVIOUS
<1> QED
  BY <1>1, OpenCount, TotalType DEF Part

\* Rounding moves the sum of a set of positions by a step for each at most.
LEMMA PartRounding ==
  ASSUME NEW T \in SUBSET Symbol, NEW f \in [Symbol -> Int], NEW g \in [Symbol -> Int],
         \A s \in T : f[s] <= g[s] + Step
  PROVE  Part(f, T) <= Part(g, T) + Step * Cardinality(T)
<1> DEFINE F == [s \in Symbol |-> IF s \in T THEN f[s] ELSE 0]
           G == [s \in Symbol |-> IF s \in T THEN g[s] ELSE 0]
<1>1. F \in [Symbol -> Int] /\ G \in [Symbol -> Int] /\ Step \in Nat /\ IsFiniteSet(Symbol)
  BY PartType, ConstantTypes, OpenCount
<1>2. \A s \in Symbol : F[s] <= G[s] + (IF s \in T THEN Step ELSE 0)
  BY <1>1
<1>3. Total(F) <= Total(G) + Step * Cardinality(T)
  <2> HIDE DEF F, G
  <2> QED
    BY <1>1, <1>2, TotalBound
<1> QED
  BY <1>3 DEF Part

\* A part is at most the whole, when one symbol is given margin m.
LEMMA PartOfWhole ==
  ASSUME NEW T \in SUBSET Symbol, NEW f \in [Symbol -> Nat], NEW g \in [Symbol -> Nat],
         NEW x \in Symbol, \A s \in Symbol \ {x} : g[s] = f[s]
  PROVE  Part(g, T) <= Total(f) + g[x]
<1> DEFINE G == [s \in Symbol |-> IF s \in T THEN g[s] ELSE 0]
<1>1. G \in [Symbol -> Int] /\ f \in [Symbol -> Int] /\ g \in [Symbol -> Int] /\ IsFiniteSet(Symbol)
  BY OpenCount
<1>2. \A s \in Symbol : G[s] <= g[s]
  OBVIOUS
<1>3. Total(G) <= Total(g) /\ Total(G) \in Int /\ Total(g) \in Int
  <2> HIDE DEF G
  <2> QED
    BY <1>1, <1>2, TotalMono, TotalType
<1>4. Total(g) = Total(f) - f[x] + g[x] /\ Total(f) \in Int
  BY <1>1, TotalUpdate, TotalType
<1>5. f[x] >= 0 /\ f[x] \in Int /\ g[x] \in Int
  OBVIOUS
<1> QED
  BY <1>3, <1>4, <1>5 DEF Part

\* The margins are numbers.
LEMMA MarginsTyped ==
  ASSUME TypeOK
  PROVE  /\ MemOf \in [Symbol -> Nat] /\ RealOf \in [Symbol -> Nat]
         /\ \A s \in Symbol : MemOf[s] = positions[s].mem /\ RealOf[s] = positions[s].real
         /\ Memory(positions) = Total(MemOf) /\ Real(positions) = Total(RealOf)
<1>1. \A s \in Symbol : positions[s].mem \in Nat /\ positions[s].real \in Nat
  BY DEF TypeOK
<1> QED
  BY <1>1 DEF MemOf, RealOf, Memory, Real

\* The cap is a number and no step moves it.
LEMMA CapFixed == TotalCap(Capital) \in Int /\ TotalCap(Capital)' = TotalCap(Capital)
<1>1. (Capital * TotalPct) \div 100 - Buffer \in Int
  BY ConstantTypes
<1> QED
  BY <1>1, MaxOfTwo DEF TotalCap

\* A step keeps the margin below the cap.
LEMMA MarginStep ==
  ASSUME TypeOK, [Next]_vars, PositionsOK, MarginOK
  PROVE  MarginOK'
<1> SUFFICES ASSUME mode' = "paper", NEW T \in SUBSET Open', T # {}
             PROVE  BelowCap(MemOf, T)' /\ BelowCap(RealOf, T)'
  BY DEF MarginOK, BelowCap
<1> DEFINE f == MemOf'
           g == RealOf'
           cap == TotalCap(Capital) + Step * Cardinality(T)
<1>1. mode = "paper"
  BY DEF Next, Plan, Skip, OpenPosition, SelectDone, PaperClose, LiveClose, EndCycle, CycleFails,
         Restart, Midnight, vars
<1>2. T \in SUBSET Symbol /\ Cardinality(T) \in Nat /\ Step * Cardinality(T) \in Nat /\ cap \in Int
  <2>1. T \in SUBSET Symbol
    BY DEF Open
  <2>2. Cardinality(T) \in Nat
    BY <2>1, OpenCount, FS_Subset, FS_CardinalityType
  <2> QED
    BY <2>1, <2>2, CapFixed, ConstantTypes
<1>3. MemOf \in [Symbol -> Nat] /\ RealOf \in [Symbol -> Nat] /\ f \in [Symbol -> Nat]
      /\ g \in [Symbol -> Nat]
  <2>1. \A s \in Symbol : positions'[s].mem \in Nat /\ positions'[s].real \in Nat
    BY PositionsStep DEF Position
  <2>2. f \in [Symbol -> Nat] /\ g \in [Symbol -> Nat]
    BY <2>1 DEF MemOf, RealOf
  <2> QED
    BY <2>2, MarginsTyped
<1>4. \A s \in Symbol : f[s] = positions'[s].mem /\ g[s] = positions'[s].real
  BY DEF MemOf, RealOf
<1> HIDE DEF f, g
<1>5. \A t \in Symbol : g[t] <= f[t] + Step
  BY <1>4, EachPositionStep DEF PositionsOK
<1>6. T \in SUBSET Open => Part(MemOf, T) < cap /\ Part(RealOf, T) < cap
  BY <1>1 DEF MarginOK, BelowCap
<1>7. Part(f, T) < cap /\ Part(g, T) < cap
  <2>1. CASE OpenPosition
    <3>1. PICK s, m, r : Opened(s, m, r)
      BY <2>1, OpeningFacts
    <3> DEFINE x == s.symbol
    <3>2. /\ Open' = Open \cup {x} /\ positions'[x].mem = m /\ x \in Symbol
          /\ \A t \in Symbol \ {x} : positions'[t] = positions[t]
      <4>1. s.symbol \in Symbol
        BY <3>1 DEF Opened
      <4> QED
        BY <1>1, <3>1, <4>1, AfterOpening
    <3>3. Total(MemOf) + m < TotalCap(Capital) /\ m \in Nat
      BY <1>1, <3>1, MarginsTyped DEF Opened, PaperAdmits
    <3> HIDE DEF x
    <3>4. \A t \in Symbol \ {x} : f[t] = MemOf[t] /\ g[t] = RealOf[t]
      BY <1>4, <3>2, MarginsTyped
    <3>5. CASE x \in T
      <4>1. Part(f, T) <= Total(MemOf) + m
        <5>1. f[x] = m
          BY <1>4, <3>2
        <5>2. Part(f, T) <= Total(MemOf) + f[x]
          BY <1>2, <1>3, <3>2, <3>4, PartOfWhole
        <5> QED
          BY <5>1, <5>2
      <4>2. Part(g, T) <= Part(f, T) + Step * Cardinality(T)
        <5>1. f \in [Symbol -> Int] /\ g \in [Symbol -> Int] /\ \A t \in T : g[t] <= f[t] + Step
          BY <1>2, <1>3, <1>5
        <5> QED
          BY <1>2, <5>1, PartRounding
      <4>3. Part(f, T) \in Int /\ Part(g, T) \in Int /\ Total(MemOf) \in Int
        <5>1. f \in [Symbol -> Int] /\ g \in [Symbol -> Int] /\ MemOf \in [Symbol -> Int]
          BY <1>3
        <5> QED
          BY <1>2, <5>1, PartType, TotalType, OpenCount
      <4> QED
        BY <1>2, <3>3, <4>1, <4>2, <4>3, CapFixed
    <3>6. CASE x \notin T
      <4>1. T \in SUBSET Open /\ \A t \in T : f[t] = MemOf[t] /\ g[t] = RealOf[t]
        BY <1>2, <3>2, <3>4, <3>6
      <4>2. Part(f, T) = Part(MemOf, T) /\ Part(g, T) = Part(RealOf, T)
        BY <1>2, <4>1, PartCongruence
      <4> QED
        BY <1>6, <4>1, <4>2
    <3> QED
      BY <3>5, <3>6
  <2>2. ASSUME NEW s \in Symbol, PaperClose(s) \/ LiveClose(s) PROVE Part(f, T) < cap /\ Part(g, T) < cap
    <3>1. s \in Open /\ Open' = Open \ {s} /\ \A t \in Symbol \ {s} : positions'[t] = positions[t]
      BY <2>2, AfterClose
    <3>2. T \in SUBSET Open /\ \A t \in T : f[t] = MemOf[t] /\ g[t] = RealOf[t]
      BY <1>2, <1>4, <3>1, MarginsTyped
    <3>3. Part(f, T) = Part(MemOf, T) /\ Part(g, T) = Part(RealOf, T)
      BY <1>2, <3>2, PartCongruence
    <3> QED
      BY <1>6, <3>2, <3>3
  <2>3. CASE Quiet
    <3>1. Open' = Open /\ \A t \in Symbol : positions'[t].real = positions[t].real
      BY <2>3, AfterQuiet DEF SameBut
    <3>2. \A t \in T : g[t] = RealOf[t]
      BY <1>2, <1>4, <3>1, MarginsTyped
    <3>3. Part(g, T) = Part(RealOf, T)
      BY <1>2, <3>2, PartCongruence
    <3>4. (\A t \in Symbol : f[t] = MemOf[t]) \/ (\A t \in Symbol : f[t] = RealOf[t])
      <4>1. CASE positions' = positions
        BY <1>4, <4>1, MarginsTyped
      <4>2. CASE positions' = Reloaded
        BY <1>4, <4>2, ReloadedFacts, MarginsTyped
      <4> QED
        BY <2>3, <4>1, <4>2 DEF Quiet
    <3>5. Part(f, T) = Part(MemOf, T) \/ Part(f, T) = Part(RealOf, T)
      <4>1. (\A t \in T : f[t] = MemOf[t]) \/ (\A t \in T : f[t] = RealOf[t])
        BY <1>2, <3>4
      <4> QED
        BY <1>2, <4>1, PartCongruence
    <3> QED
      BY <1>6, <3>1, <3>3, <3>5
  <2> QED
    BY <2>1, <2>2, <2>3, StepKinds
<1> QED
  BY <1>7, CapFixed DEF BelowCap, f, g, Part

\* The margin of all the open positions is the margin in memory.
LEMMA MarginBound ==
  ASSUME TypeOK, PositionsOK, MarginOK
  PROVE  PaperMarginBounded
<1> SUFFICES ASSUME mode = "paper", Open # {}
             PROVE  Memory(positions) < TotalCap(Capital) + Step * Cardinality(Open)
  BY DEF PaperMarginBounded
<1>1. BelowCap(MemOf, Open)
  BY DEF MarginOK
<1>2. \A s \in Symbol : MemOf[s] = IF s \in Open THEN MemOf[s] ELSE 0
  BY MarginsTyped DEF PositionsOK, NoPosition
<1>3. MemOf = [s \in Symbol |-> IF s \in Open THEN MemOf[s] ELSE 0]
  BY <1>2, MarginsTyped
<1> QED
  BY <1>1, <1>3, MarginsTyped DEF BelowCap, Part
-----------------------------------------------------------------------------
\* The free margin of a live account.

\* The free margin asked of a balance grows with it, and not faster than it.
LEMMA FloorGrows ==
  ASSUME NEW a \in Int, NEW b \in Int, a <= b
  PROVE  /\ FreeFloor(a) \in Int /\ FreeFloor(b) \in Int /\ FreeFloor(a) >= 0
         /\ FreeFloor(a) <= FreeFloor(b)
         /\ FreeFloor(b) <= FreeFloor(a) + (b - a)
<1>1. FreePct \in Nat /\ FreePct <= 100 /\ Buffer \in Nat
  BY ConstantTypes
<1> DEFINE x == a * FreePct + 99
           y == b * FreePct + 99
<1>2. x \in Int /\ y \in Int /\ x <= y /\ y <= x + 100 * (b - a)
  <2>1. PICK k \in Nat : b = a + k
    BY b - a \in Nat, b = a + (b - a)
  <2>2. b * FreePct = a * FreePct + k * FreePct
    BY <1>1, <2>1
  <2>3. k * FreePct \in Nat /\ k * FreePct <= k * 100
    BY <1>1, <2>1
  <2>4. a * FreePct \in Int
    BY <1>1
  <2> QED
    BY <2>1, <2>2, <2>3, <2>4
<1> HIDE DEF x, y
<1>3. x \div 100 \in Int /\ y \div 100 \in Int /\ x \div 100 <= y \div 100
      /\ y \div 100 <= x \div 100 + (b - a)
  BY <1>2
<1>4. FreeFloor(a) = (IF Buffer >= x \div 100 THEN Buffer ELSE x \div 100)
      /\ FreeFloor(b) = (IF Buffer >= y \div 100 THEN Buffer ELSE y \div 100)
  BY <1>1, <1>3, MaxOfTwo DEF FreeFloor, x, y
<1> QED
  BY <1>1, <1>3, <1>4

\* The balance whose floor is kept.
Judged(h, e) == IF h THEN e \div 2 ELSE e

\* It follows the equity, and not faster than the equity moves.
LEMMA JudgedGrows ==
  ASSUME NEW h \in BOOLEAN, NEW a \in Int, NEW b \in Int, a <= b
  PROVE  /\ Judged(h, a) \in Int /\ Judged(h, b) \in Int
         /\ Judged(h, a) <= Judged(h, b) /\ Judged(h, b) - Judged(h, a) <= b - a
BY DEF Judged

\* So does its floor.
LEMMA FloorFollows ==
  ASSUME NEW h \in BOOLEAN, NEW a \in Int, NEW b \in Int
  PROVE  /\ FreeFloor(Judged(h, a)) \in Int /\ FreeFloor(Judged(h, b)) \in Int
         /\ b <= a => FreeFloor(Judged(h, b)) <= FreeFloor(Judged(h, a))
         /\ a <= b => FreeFloor(Judged(h, b)) <= FreeFloor(Judged(h, a)) + (b - a)
<1>1. ASSUME NEW x \in Int, NEW y \in Int, x <= y
      PROVE  /\ FreeFloor(Judged(h, x)) \in Int /\ FreeFloor(Judged(h, y)) \in Int
             /\ FreeFloor(Judged(h, x)) <= FreeFloor(Judged(h, y))
             /\ FreeFloor(Judged(h, y)) <= FreeFloor(Judged(h, x)) + (y - x)
  <2> DEFINE u == Judged(h, x)
             v == Judged(h, y)
  <2>1. u \in Int /\ v \in Int /\ u <= v /\ v - u <= y - x
    BY <1>1, JudgedGrows
  <2> HIDE DEF u, v
  <2>2. FreeFloor(u) \in Int /\ FreeFloor(v) \in Int /\ FreeFloor(u) <= FreeFloor(v)
        /\ FreeFloor(v) <= FreeFloor(u) + (v - u)
    BY <2>1, FloorGrows
  <2>3. FreeFloor(v) <= FreeFloor(u) + (y - x)
    BY <2>1, <2>2
  <2> QED
    BY <2>2, <2>3 DEF u, v
<1>2. a <= b \/ b <= a
  OBVIOUS
<1> QED
  BY <1>1, <1>2

\* A step keeps the free margin.
LEMMA FreeStep ==
  ASSUME TypeOK, [Next]_vars, PositionsOK, FreeMarginKept
  PROVE  FreeMarginKept'
<1> SUFFICES ASSUME mode' = "live", Open' # {}
             PROVE  equity' - Real(positions') >= FreeFloor(Judged(halved', equity')) - Step
  BY DEF FreeMarginKept, Judged, Real
<1>1. mode = "live"
  BY DEF Next, Plan, Skip, OpenPosition, SelectDone, PaperClose, LiveClose, EndCycle, CycleFails,
         Restart, Midnight, vars
<1>2. Open # {} => equity - Real(positions) >= FreeFloor(Judged(halved, equity)) - Step
  BY <1>1 DEF FreeMarginKept, Judged
<1>3. equity \in Int /\ equity' \in Int /\ halved \in BOOLEAN /\ halved' \in BOOLEAN
  BY TypeStep DEF TypeOK
<1>4. /\ Real(positions) = Total(RealOf) /\ Real(positions') = Total(RealOf')
      /\ RealOf \in [Symbol -> Int] /\ RealOf' \in [Symbol -> Int]
      /\ \A s \in Symbol : RealOf[s] = positions[s].real /\ RealOf'[s] = positions'[s].real
      /\ \A s \in Symbol : positions[s].real \in Nat /\ positions'[s].real \in Nat
  <2>1. \A s \in Symbol : positions[s].real \in Nat /\ positions'[s].real \in Nat
    BY PositionsStep, TypeParts DEF Position
  <2> QED
    BY <2>1 DEF Real, RealOf
<1>5. Real(positions) \in Int /\ Real(positions') \in Int
  BY <1>4, OpenCount, TotalType
<1>6. Step \in Nat /\ MaxLoss \in Nat /\ Gain \in Nat /\ StopBelow \in Nat /\ MinMargin \in Nat
      /\ MinMargin - Step >= MaxLoss
  BY ConstantTypes
<1>7. CASE OpenPosition
  <2>1. PICK s, m, r : Opened(s, m, r)
    BY <1>7, OpeningFacts
  <2>2. /\ s.symbol \in Symbol /\ positions'[s.symbol].real = r
        /\ \A t \in Symbol \ {s.symbol} : positions'[t] = positions[t]
        /\ m \in Nat /\ r \in Nat /\ r <= m + Step
    <3>1. s.symbol \in Symbol /\ m \in Nat /\ r \in Nat /\ r <= m + Step
      BY <2>1 DEF Opened
    <3> QED
      BY <2>1, <3>1, AfterOpening
  <2>3. Real(positions') <= Real(positions) + m + Step
    <3>1. \A t \in Symbol \ {s.symbol} : RealOf[t] = RealOf'[t]
      BY <1>4, <2>2
    <3>2. Total(RealOf') = Total(RealOf) - RealOf[s.symbol] + RealOf'[s.symbol]
      BY <1>4, <2>2, <3>1, OpenCount, TotalUpdate
    <3>3. RealOf[s.symbol] \in Nat /\ RealOf'[s.symbol] = r
      BY <1>4, <2>2
    <3> QED
      BY <1>4, <1>5, <1>6, <2>2, <3>2, <3>3
  <2>4. m >= MinMargin /\ EffectiveAvailable - m >= FreeFloor(Effective)
    BY <2>1 DEF Opened, Affordable
  <2>5. Effective = Judged(reduce, equity) /\ reduce \in BOOLEAN
    BY <1>1 DEF Effective, Refreshed, Judged, TypeOK
  <2>6. equity >= StopBelow /\ equity' = equity /\ halved' = (reduce \/ (halved /\ Open # {}))
    BY <1>1, <1>7 DEF OpenPosition, Refreshed
  <2>7. FreeFloor(Judged(halved', equity)) <= FreeFloor(Effective) /\ FreeFloor(Effective) \in Int
        /\ FreeFloor(Effective) >= 0 /\ FreeFloor(Judged(halved', equity)) \in Int
    <3>1. Judged(halved', equity) <= Judged(reduce, equity) /\ Judged(halved', equity) \in Int
          /\ Judged(reduce, equity) \in Int
      BY <1>3, <1>6, <2>5, <2>6 DEF Judged
    <3> QED
      BY <2>5, <3>1, FloorGrows
  <2>8. EffectiveAvailable <= Available /\ EffectiveAvailable \in Int /\ Available \in Int
    <3>1. Available \in Int /\ Effective \in Int
      BY AmountTypes
    <3> QED
      BY <3>1, MinOfTwo DEF EffectiveAvailable
  <2>9. Available = IF equity - Real(positions) <= 0 THEN 0 ELSE equity - Real(positions)
    <3>1. equity - Real(positions) \in Int
      BY <1>3, <1>5
    <3>2. Available = Max({0, equity - Real(positions)})
      BY <1>1 DEF Available
    <3> QED
      BY <3>1, <3>2, MaxOfTwo
  <2>10. CASE equity - Real(positions) >= 0
    BY <1>3, <1>5, <1>6, <2>2, <2>3, <2>4, <2>6, <2>7, <2>8, <2>9, <2>10
  <2>11. CASE equity - Real(positions) < 0
    <3>1. m = 0 /\ Step = 0
      BY <1>6, <2>2, <2>4, <2>7, <2>8, <2>9, <2>11
    <3>2. CASE Open # {}
      <4>1. Judged(halved, equity) \in Int
        BY <1>3, JudgedGrows
      <4>2. FreeFloor(Judged(halved, equity)) >= 0 /\ FreeFloor(Judged(halved, equity)) \in Int
        BY <4>1, FloorGrows
      <4> QED
        BY <1>2, <1>3, <1>5, <2>11, <3>1, <3>2, <4>2
    <3>3. CASE Open = {}
      <4>1. \A s2 \in Symbol : RealOf[s2] = 0
        BY <1>4, <3>3 DEF PositionsOK, NoPosition
      <4>2. Real(positions) = 0
        BY <1>4, <4>1, OpenCount, TotalZero
      <4> QED
        BY <1>3, <1>6, <2>6, <2>11, <4>2
    <3> QED
      BY <3>2, <3>3
  <2> QED
    BY <1>3, <1>5, <2>10, <2>11
<1>8. ASSUME NEW s \in Symbol, PaperClose(s) \/ LiveClose(s)
      PROVE  equity' - Real(positions') >= FreeFloor(Judged(halved', equity')) - Step
  <2>1. LiveClose(s)
    BY <1>1, <1>8 DEF PaperClose
  <2>2. PICK p \in {-MaxLoss, Gain} : equity' = equity + p
    BY <2>1 DEF LiveClose
  <2>3. s \in Open /\ positions'[s] = NoPosition /\ \A t \in Symbol \ {s} : positions'[t] = positions[t]
    BY <1>8, AfterClose
  <2>4. positions[s].real >= MaxLoss /\ halved' = halved
    BY <2>1, <2>3 DEF PositionsOK, LiveClose
  <2>5. Real(positions') = Real(positions) - positions[s].real
    <3>1. \A t \in Symbol \ {s} : RealOf[t] = RealOf'[t]
      BY <1>4, <2>3
    <3>2. Total(RealOf') = Total(RealOf) - RealOf[s] + RealOf'[s]
      BY <1>4, <3>1, OpenCount, TotalUpdate
    <3>3. RealOf'[s] = 0
      BY <1>4, <2>3 DEF NoPosition
    <3> QED
      BY <1>4, <1>5, <3>2, <3>3
  <2> DEFINE F == FreeFloor(Judged(halved, equity))
             G == FreeFloor(Judged(halved, equity'))
  <2>6. F \in Int /\ G \in Int /\ (equity' <= equity => G <= F)
        /\ (equity <= equity' => G <= F + (equity' - equity))
    BY <1>3, FloorFollows
  <2>7. equity - Real(positions) >= F - Step
    BY <1>2, <2>3
  <2> HIDE DEF F, G
  <2>8. equity' - Real(positions') >= G - Step
    <3>1. CASE p = -MaxLoss
      BY <1>3, <1>4, <1>5, <1>6, <2>2, <2>4, <2>5, <2>6, <2>7, <3>1
    <3>2. CASE p = Gain
      BY <1>3, <1>4, <1>5, <1>6, <2>2, <2>4, <2>5, <2>6, <2>7, <3>2
    <3> QED
      BY <3>1, <3>2
  <2> QED
    BY <2>4, <2>8 DEF G
<1>9. CASE Quiet
  <2>1. Open' = Open /\ \A t \in Symbol : positions'[t].real = positions[t].real
    BY <1>9, AfterQuiet DEF SameBut
  <2>2. Real(positions') = Real(positions)
    <3>1. RealOf' = RealOf
      BY <2>1 DEF RealOf
    <3> QED
      BY <1>4, <3>1
  <2>3. equity' = equity /\ halved' = halved
    BY <1>9 DEF Quiet
  <2> QED
    BY <1>2, <2>1, <2>2, <2>3
<1> QED
  BY <1>7, <1>8, <1>9, StepKinds
-----------------------------------------------------------------------------
\* The profits of the paper trader.

\* The open positions of the days D.
OpenedOn(D) == {s \in Open : positions[s].day \in D}

\* What the loop read of the profits is what the table holds for the day it
\* began, and nothing is booked on a later day.
PnlOK ==
    mode = "paper" =>
        /\ balance = Capital
        /\ pc = "select" => \E p \in 1..day :
               /\ pnl.day = booked[p] /\ pnl.week = WeekPnl(booked, p)
               /\ \A e \in (p + 1)..MaxDay : booked[e] = 0

\* A day that has not come has no profit.
FutureOK == \A e \in 1..MaxDay : e > day => booked[e] = 0 /\ suffered[e] = 0

\* If all the positions of day d, or of its week, close with the largest loss,
\* the sum still stays within the limit and a loss for each slot.
DayRisk(d) ==
    (MaxLoss * Cardinality(OpenedOn({d})) - booked[d]) * 100 <= Capital * DayPct + Slots * MaxLoss * 100
WeekRisk(d) ==
    (MaxLoss * Cardinality(OpenedOn(DaysOfWeek(d))) - WeekPnl(booked, d)) * 100
        <= Capital * WeekPct + Slots * MaxLoss * 100
RiskOK == mode = "paper" => \A d \in 1..MaxDay : DayRisk(d) /\ WeekRisk(d)

\* A day suffers the profits of its own trades, and one loss for each older
\* position that closed on it.
SufferedOK ==
    mode = "paper" =>
        suffered[day] >= booked[day] - MaxLoss * (Slots - Cardinality(OpenedOn(1..(day - 1))))

\* The counted sets are finite.
LEMMA OpenedCount ==
  ASSUME NEW D
  PROVE  /\ IsFiniteSet(OpenedOn(D)) /\ Cardinality(OpenedOn(D)) \in Nat
         /\ Cardinality(OpenedOn(D)) <= Cardinality(Open)
<1>1. OpenedOn(D) \subseteq Open
  BY DEF OpenedOn
<1> QED
  BY <1>1, OpenCount, FS_Subset, FS_CardinalityType

\* A close takes the position out of the days it was opened on, and the amount
\* at risk on them does not grow.
LEMMA CloseCount ==
  ASSUME TypeOK, NEW s \in Symbol, PaperClose(s), NEW D
  PROVE  /\ Cardinality(OpenedOn(D)') \in Nat
         /\ positions[s].day \in D => Cardinality(OpenedOn(D)') = Cardinality(OpenedOn(D)) - 1
         /\ positions[s].day \notin D => Cardinality(OpenedOn(D)') = Cardinality(OpenedOn(D))
<1>1. s \in Open /\ Open' = Open \ {s} /\ \A t \in Symbol \ {s} : positions'[t] = positions[t]
  BY AfterClose
<1>2. OpenedOn(D)' = OpenedOn(D) \ {s}
  BY <1>1 DEF OpenedOn, Open
<1>3. CASE positions[s].day \in D
  <2>1. s \in OpenedOn(D)
    BY <1>1, <1>3 DEF OpenedOn
  <2>2. IsFiniteSet(OpenedOn(D)) /\ Cardinality(OpenedOn(D)) \in Nat
    BY OpenedCount
  <2>3. Cardinality(OpenedOn(D) \ {s}) = Cardinality(OpenedOn(D)) - 1
    BY <2>1, <2>2, FS_RemoveElement
  <2>4. IsFiniteSet(OpenedOn(D) \ {s})
    BY <2>2, FS_RemoveElement
  <2> QED
    BY <1>2, <1>3, <2>3, <2>4, FS_CardinalityType
<1>4. CASE positions[s].day \notin D
  <2>1. OpenedOn(D)' = OpenedOn(D)
    BY <1>2, <1>4 DEF OpenedOn
  <2> QED
    BY <1>4, <2>1, OpenedCount
<1> QED
  BY <1>3, <1>4

\* An opening counts only for the days D that hold today.
LEMMA OpenCountOn ==
  ASSUME TypeOK, OpenPosition, NEW D, day \notin D, mode = "paper"
  PROVE  OpenedOn(D)' = OpenedOn(D)
<1>1. PICK s, m, r : Opened(s, m, r)
  BY OpeningFacts
<1>2. s.symbol \in Symbol /\ s.symbol \notin Open
  BY <1>1 DEF Opened, PaperAdmits
<1>3. /\ Open' = Open \cup {s.symbol} /\ positions'[s.symbol].day = day
      /\ \A t \in Symbol \ {s.symbol} : positions'[t] = positions[t]
  BY <1>1, AfterOpening
<1> QED
  BY <1>2, <1>3 DEF OpenedOn, Open

\* A quiet step counts the same.
LEMMA QuietCountOn ==
  ASSUME TypeOK, Quiet, NEW D
  PROVE  OpenedOn(D)' = OpenedOn(D)
<1>1. Open' = Open /\ \A t \in Symbol : positions'[t].day = positions[t].day
  BY AfterQuiet DEF SameBut
<1> QED
  BY <1>1 DEF OpenedOn, Open

\* A close changes the profits of its day and the sum of its week by p.
LEMMA CloseBooks ==
  ASSUME TypeOK, NEW s \in Symbol, PaperClose(s)
  PROVE  \E p \in Int :
            /\ p >= -MaxLoss
            /\ \A d \in 1..MaxDay :
                /\ booked'[d] = (IF d = positions[s].day THEN booked[d] + p ELSE booked[d])
                /\ suffered'[d] = (IF d = day THEN suffered[d] + p ELSE suffered[d])
                /\ WeekPnl(booked', d) = (IF positions[s].day \in DaysOfWeek(d) THEN WeekPnl(booked, d) + p
                                          ELSE WeekPnl(booked, d))
<1>1. PICK p \in {-MaxLoss, Gain} : booked' = [booked EXCEPT ![positions[s].day] = @ + p]
                                  /\ suffered' = [suffered EXCEPT ![day] = @ + p]
  BY DEF PaperClose
<1>2. p \in Int /\ p >= -MaxLoss
  BY ConstantTypes
<1>3. booked \in [1..MaxDay -> Int] /\ suffered \in [1..MaxDay -> Int] /\ day \in 1..MaxDay
  BY DEF TypeOK
<1>4. positions[s].day \in 1..MaxDay
  BY OpenDay DEF PaperClose
<1>5. PICK a \in 1..MaxDay : a = positions[s].day
  BY <1>4
<1>6. booked' = [booked EXCEPT ![a] = booked[a] + p]
  BY <1>1, <1>5
<1>7. \A d \in 1..MaxDay : /\ booked'[d] = (IF d = a THEN booked[d] + p ELSE booked[d])
                           /\ suffered'[d] = (IF d = day THEN suffered[d] + p ELSE suffered[d])
  BY <1>1, <1>3, <1>6
<1>8. booked' \in [1..MaxDay -> Int]
  BY TypeStep DEF TypeOK, Next
<1>9. ASSUME NEW d \in 1..MaxDay
      PROVE  WeekPnl(booked', d) = IF a \in DaysOfWeek(d) THEN WeekPnl(booked, d) + p
                                   ELSE WeekPnl(booked, d)
  <2> DEFINE S == DaysOfWeek(d)
             f == [e \in S |-> booked[e]]
             g == [e \in S |-> booked'[e]]
  <2>1. f \in [S -> Int] /\ g \in [S -> Int] /\ IsFiniteSet(S) /\ S \subseteq 1..MaxDay
    BY <1>3, <1>8, WeekTypes
  <2>2. WeekPnl(booked, d) = Total(f) /\ WeekPnl(booked', d) = Total(g) /\ Total(f) \in Int
    BY <1>3, WeekTypes DEF WeekPnl
  <2>3. \A e \in S : f[e] = booked[e] /\ g[e] = booked'[e]
    OBVIOUS
  <2> HIDE DEF f, g, S
  <2>4. CASE a \in S
    <3>1. \A e \in S \ {a} : f[e] = g[e]
      BY <1>7, <2>1, <2>3
    <3>2. Total(g) = Total(f) - f[a] + g[a]
      BY <2>1, <2>4, <3>1, TotalUpdate
    <3>3. f[a] \in Int /\ g[a] = f[a] + p
      BY <1>3, <1>7, <2>1, <2>3, <2>4
    <3> QED
      BY <1>2, <2>2, <2>4, <3>2, <3>3 DEF S
  <2>5. CASE a \notin S
    <3>1. f = g
      <4>1. \A e \in S : booked[e] = booked'[e]
        BY <1>7, <2>1, <2>5
      <4> QED
        BY <4>1 DEF f, g
    <3> QED
      BY <2>2, <2>5, <3>1 DEF S
  <2> QED
    BY <2>4, <2>5 DEF S
<1> QED
  BY <1>2, <1>5, <1>7, <1>9

\* The quotient, by its bounds.
LEMMA Quotient ==
  ASSUME NEW x \in Int, NEW n \in Nat, n > 0
  PROVE  x \div n \in Int /\ n * (x \div n) <= x /\ x < n * (x \div n) + n
<1>1. x \div n \in Int
  OBVIOUS
<1>2. n * (x \div n) <= x
  OBVIOUS
<1>3. x < n * (x \div n) + n
  OBVIOUS
<1> QED
  BY <1>1, <1>2, <1>3

\* The weeks follow the days.
LEMMA WeekOrder ==
  ASSUME NEW a \in 1..MaxDay, NEW b \in 1..MaxDay, a <= b
  PROVE  WeekOf(a) \in Int /\ WeekOf(b) \in Int /\ WeekOf(a) <= WeekOf(b)
<1> DEFINE n == DaysPerWeek
           u == WeekOf(a)
           v == WeekOf(b)
<1>1. n \in Nat /\ n > 0 /\ a - 1 \in Int /\ b - 1 \in Int
  BY ConstantTypes
<1>2. u \in Int /\ v \in Int /\ n * u <= a - 1 /\ b - 1 < n * v + n
  <2> HIDE DEF n
  <2>1. /\ (a - 1) \div n \in Int /\ n * ((a - 1) \div n) <= a - 1
        /\ (b - 1) \div n \in Int /\ b - 1 < n * ((b - 1) \div n) + n
    BY <1>1, Quotient
  <2>2. u = (a - 1) \div n /\ v = (b - 1) \div n
    BY DEF WeekOf, n
  <2> HIDE DEF u, v
  <2> QED
    BY <2>1, <2>2
<1> HIDE DEF n, u, v
<1>3. u <= v
  <2> SUFFICES ASSUME u >= v + 1 PROVE FALSE
    BY <1>2
  <2>1. PICK k \in Nat : u = v + 1 + k
    BY <1>2, u - (v + 1) \in Nat, u = v + 1 + (u - (v + 1))
  <2>2. n * u = n * v + n + n * k /\ n * k \in Nat /\ n * v \in Int
    BY <1>1, <1>2, <2>1
  <2> QED
    BY <1>1, <1>2, <2>2
<1> QED
  BY <1>2, <1>3 DEF u, v

\* When the loop is about to open, the profits it read still bound those of the
\* day and of the week, even if midnight has passed since.
LEMMA StillBounded ==
  ASSUME TypeOK, mode = "paper", pc = "select", PnlOK
  PROVE  /\ booked[day] = pnl.day \/ booked[day] = 0
         /\ WeekPnl(booked, day) = pnl.week \/ WeekPnl(booked, day) = 0
<1>1. PICK p \in 1..day : /\ pnl.day = booked[p] /\ pnl.week = WeekPnl(booked, p)
                          /\ \A e \in (p + 1)..MaxDay : booked[e] = 0
  BY DEF PnlOK
<1>2. day \in 1..MaxDay /\ p \in 1..MaxDay /\ p <= day /\ booked \in [1..MaxDay -> Int]
  <2>1. day \in 1..MaxDay /\ booked \in [1..MaxDay -> Int]
    BY DEF TypeOK
  <2> QED
    BY <2>1, ConstantTypes
<1>3. booked[day] = pnl.day \/ booked[day] = 0
  <2>1. CASE p = day
    BY <1>1, <2>1
  <2>2. CASE p # day
    <3>1. day \in (p + 1)..MaxDay
      BY <1>2, <2>2
    <3> QED
      BY <1>1, <3>1
  <2> QED
    BY <2>1, <2>2
<1>4. WeekPnl(booked, day) = pnl.week \/ WeekPnl(booked, day) = 0
  <2>1. CASE WeekOf(p) = WeekOf(day)
    <3>1. DaysOfWeek(p) = DaysOfWeek(day)
      BY <2>1 DEF DaysOfWeek
    <3> QED
      BY <1>1, <3>1 DEF WeekPnl
  <2>2. CASE WeekOf(p) # WeekOf(day)
    <3> DEFINE f == [e \in DaysOfWeek(day) |-> booked[e]]
    <3>1. ASSUME NEW e \in DaysOfWeek(day) PROVE f[e] = 0
      <4>1. e \in 1..MaxDay /\ WeekOf(e) = WeekOf(day)
        BY DEF DaysOfWeek
      <4>2. ~(e <= p)
        BY <1>2, <2>2, <4>1, WeekOrder
      <4>3. e \in (p + 1)..MaxDay
        BY <1>2, <4>1, <4>2
      <4> QED
        BY <1>1, <4>3
    <3>2. f \in [DaysOfWeek(day) -> Int] /\ IsFiniteSet(DaysOfWeek(day))
      BY <1>2, WeekTypes
    <3>3. Total(f) = 0
      <4> HIDE DEF f
      <4> QED
        BY <3>1, <3>2, TotalZero
    <3> QED
      BY <3>3 DEF WeekPnl
  <2> QED
    BY <2>1, <2>2
<1> QED
  BY <1>3, <1>4

\* An opening is refused once the profits read reach the limits.
LEMMA OpeningWithinLimits ==
  ASSUME TypeOK, OpenPosition, mode = "paper", PnlOK
  PROVE  -pnl.day * 100 <= Capital * DayPct /\ -pnl.week * 100 <= Capital * WeekPct
<1>1. PICK s, m, r : Opened(s, m, r)
  BY OpeningFacts
<1>2. ~DailyLossReached(Effective) /\ ~WeeklyLossReached(Effective)
  BY <1>1 DEF Opened, Preflight
<1>3. Effective \in Int /\ Effective <= Capital
  BY ConstantTypes DEF Effective, Refreshed, PnlOK
<1>4. pnl.day \in Int /\ pnl.week \in Int
  BY DEF TypeOK
<1>5. Capital \in Nat /\ DayPct \in Nat /\ WeekPct \in Nat
  BY ConstantTypes
<1>6. \A q \in Nat : Effective * q \in Int /\ Capital * q \in Int /\ Effective * q <= Capital * q
  <2> TAKE q \in Nat
  <2>1. PICK k \in Nat : Capital = Effective + k
    BY <1>3, <1>5, Capital - Effective \in Nat, Capital = Effective + (Capital - Effective)
  <2>2. (Effective + k) * q = Effective * q + k * q /\ k * q \in Nat /\ Effective * q \in Int
    BY <1>3
  <2> QED
    BY <2>1, <2>2
<1>7. ~(pnl.day * 100 <= -(Effective * DayPct)) /\ ~(pnl.week * 100 <= -(Effective * WeekPct))
  BY <1>2 DEF DailyLossReached, WeeklyLossReached
<1>8. PICK x \in Int, y \in Int, u \in Int, v \in Int :
          x = Effective * DayPct /\ y = Effective * WeekPct /\ u = Capital * DayPct
          /\ v = Capital * WeekPct /\ x <= u /\ y <= v
  BY <1>5, <1>6
<1> QED
  BY <1>4, <1>7, <1>8

\* A step keeps what was read of the profits.
LEMMA PnlStep ==
  ASSUME TypeOK, [Next]_vars, PnlOK, FutureOK
  PROVE  PnlOK'
<1> SUFFICES ASSUME mode' = "paper"
             PROVE  /\ balance' = Capital
                    /\ pc' = "select" => \E p \in 1..day' :
                           /\ pnl'.day = booked'[p] /\ pnl'.week = WeekPnl(booked', p)
                           /\ \A e \in (p + 1)..MaxDay : booked'[e] = 0
  BY DEF PnlOK, WeekPnl
<1>1. mode = "paper" /\ balance = Capital /\ day \in 1..MaxDay
  BY DEF Next, Plan, Skip, OpenPosition, SelectDone, PaperClose, LiveClose, EndCycle, CycleFails,
         Restart, Midnight, vars, PnlOK, TypeOK
<1>2. Refreshed = Capital
  BY <1>1 DEF Refreshed
<1>3. CASE Plan
  <2>1. /\ balance' = balance /\ booked' = booked /\ day' = day
        /\ pnl' = [day |-> booked[day], week |-> WeekPnl(booked, day)]
    BY <1>3 DEF Plan
  <2>2. pnl'.day = booked'[day] /\ pnl'.week = WeekPnl(booked', day)
    BY <2>1
  <2>3. \A e \in (day + 1)..MaxDay : booked'[e] = 0
    <3>1. \A e \in (day + 1)..MaxDay : e \in 1..MaxDay /\ e > day
      BY <1>1, ConstantTypes
    <3> QED
      BY <2>1, <3>1 DEF FutureOK
  <2>4. day \in 1..day'
    BY <1>1, <2>1
  <2> QED
    BY <1>1, <2>1, <2>2, <2>3, <2>4
<1>4. CASE Skip \/ OpenPosition
  <2>1. balance' = Capital /\ pc = "select" /\ UNCHANGED <<pnl, booked, day>>
    BY <1>2, <1>4 DEF Skip, OpenPosition
  <2> QED
    BY <1>1, <2>1 DEF PnlOK
<1>5. CASE SelectDone \/ EndCycle \/ CycleFails \/ Restart
  BY <1>1, <1>5 DEF SelectDone, EndCycle, CycleFails, Restart
<1>6. ASSUME NEW s \in Symbol, PaperClose(s) \/ LiveClose(s)
      PROVE  balance' = Capital /\ pc' # "select"
  BY <1>1, <1>6 DEF PaperClose, LiveClose
<1>7. CASE Midnight
  <2>1. UNCHANGED <<balance, pc, pnl, booked>> /\ day' = day + 1
    BY <1>7 DEF Midnight
  <2>2. \A p \in 1..day : p \in 1..day'
    BY <1>1, <2>1
  <2> QED
    BY <1>1, <2>1, <2>2 DEF PnlOK
<1>8. CASE UNCHANGED vars
  BY <1>1, <1>8 DEF PnlOK, vars
<1> QED
  BY <1>3, <1>4, <1>5, <1>6, <1>7, <1>8 DEF Next

\* A step books nothing on a later day.
LEMMA FutureStep ==
  ASSUME TypeOK, [Next]_vars, PositionsOK, FutureOK
  PROVE  FutureOK'
<1>1. day \in 1..MaxDay /\ day' \in 1..MaxDay /\ day' \in {day, day + 1}
      /\ suffered \in [1..MaxDay -> Int]
  BY TypeStep DEF TypeOK, Next, Plan, Skip, OpenPosition, SelectDone, PaperClose, LiveClose, EndCycle,
                  CycleFails, Restart, Midnight, vars
<1>2. ASSUME NEW e \in 1..MaxDay, e > day' PROVE e > day /\ booked[e] = 0 /\ suffered[e] = 0
  <2>1. e > day
    BY <1>1, <1>2
  <2> QED
    BY <2>1 DEF FutureOK
<1>3. CASE OpenPosition \/ Quiet
  BY <1>2, <1>3 DEF FutureOK, OpenPosition, Quiet
<1>4. ASSUME NEW s \in Symbol, PaperClose(s) PROVE FutureOK'
  <2>1. positions[s].day <= day /\ positions[s].day \in Int
    BY <1>4, OpenDay DEF PositionsOK, PaperClose
  <2>2. \A d \in 1..MaxDay : d > day => booked'[d] = booked[d] /\ suffered'[d] = suffered[d]
    BY <1>1, <1>4, <2>1, CloseBooks
  <2> QED
    BY <1>2, <2>2 DEF FutureOK
<1>5. ASSUME NEW s \in Symbol, LiveClose(s) PROVE FutureOK'
  <2>1. PICK p \in {-MaxLoss, Gain} : suffered' = [suffered EXCEPT ![day] = @ + p]
    BY <1>5 DEF LiveClose
  <2>2. booked' = booked /\ \A e \in 1..MaxDay : e > day => suffered'[e] = suffered[e]
    BY <1>1, <1>5, <2>1 DEF LiveClose
  <2> QED
    BY <1>2, <2>2 DEF FutureOK
<1> QED
  BY <1>3, <1>4, <1>5, StepKinds

\* A product with the loss of a trade.
LEMMA LossProducts ==
  ASSUME NEW a \in Int, NEW b \in Int, a <= b
  PROVE  MaxLoss * a \in Int /\ MaxLoss * b \in Int /\ MaxLoss * a <= MaxLoss * b
         /\ MaxLoss * (a - 1) = MaxLoss * a - MaxLoss
<1>1. MaxLoss \in Nat
  BY ConstantTypes
<1>2. PICK k \in Nat : b = a + k
  BY b - a \in Nat, b = a + (b - a)
<1>3. MaxLoss * (a + k) = MaxLoss * a + MaxLoss * k /\ MaxLoss * k \in Nat /\ MaxLoss * a \in Int
  BY <1>1
<1>4. MaxLoss * (a - 1) = MaxLoss * a - MaxLoss
  BY <1>1
<1> QED
  BY <1>2, <1>3, <1>4

\* The amount at risk on the days D, with profit b booked, stays within limit.
Within(D, b, limit) ==
    (MaxLoss * Cardinality(OpenedOn(D)) - b) * 100 <= limit + Slots * MaxLoss * 100

\* The limits and the amounts at risk are numbers.
LEMMA WithinTypes ==
  ASSUME NEW D
  PROVE  /\ MaxLoss \in Nat /\ Slots \in Nat /\ Slots * MaxLoss \in Nat
         /\ Capital * DayPct \in Nat /\ Capital * WeekPct \in Nat
         /\ Cardinality(OpenedOn(D)) \in Nat /\ MaxLoss * Cardinality(OpenedOn(D)) \in Nat
<1>1. MaxLoss \in Nat /\ Slots \in Nat /\ Capital \in Nat /\ DayPct \in Nat /\ WeekPct \in Nat
      /\ Cardinality(OpenedOn(D)) \in Nat
  BY ConstantTypes, SlotsBound, OpenedCount
<1> QED
  BY <1>1

\* After an opening, the amount at risk is at most a loss for each slot.
LEMMA OpenWithin ==
  ASSUME WithinSlots', NEW D, NEW b \in Int, NEW limit \in Int, -b * 100 <= limit
  PROVE  Within(D, b, limit)'
<1>1. IsFiniteSet(Open') /\ Cardinality(Open') \in Nat /\ OpenedOn(D)' \subseteq Open'
  <2>1. Open' \subseteq Symbol
    BY DEF Open
  <2> QED
    BY <2>1, OpenCount, FS_Subset, FS_CardinalityType DEF OpenedOn
<1>2. Cardinality(OpenedOn(D)') \in Nat /\ Cardinality(OpenedOn(D)') <= Cardinality(Open')
  BY <1>1, FS_Subset, FS_CardinalityType
<1>3. Cardinality(OpenedOn(D)') <= Slots /\ Slots \in Nat
  BY <1>1, <1>2, SlotsBound DEF WithinSlots, Slots
<1>4. MaxLoss * Cardinality(OpenedOn(D)') <= MaxLoss * Slots /\ MaxLoss * Slots \in Int
      /\ MaxLoss * Cardinality(OpenedOn(D)') \in Int
  BY <1>2, <1>3, LossProducts
<1>5. Slots * MaxLoss = MaxLoss * Slots
  BY <1>3, ConstantTypes
<1>6. (MaxLoss * Cardinality(OpenedOn(D)') - b) * 100 <= limit + Slots * MaxLoss * 100
  BY <1>4, <1>5
<1> QED
  BY <1>6 DEF Within, Slots

\* After a close with profit p, the amount at risk has not grown.
LEMMA CloseWithin ==
  ASSUME TypeOK, NEW s \in Symbol, PaperClose(s), NEW D, NEW b \in Int, NEW p \in Int, p >= -MaxLoss,
         NEW limit \in Int, Within(D, b, limit),
         NEW q, q = IF positions[s].day \in D THEN b + p ELSE b
  PROVE  Within(D, q, limit)'
<1> DEFINE c == Cardinality(OpenedOn(D))
           d == Cardinality(OpenedOn(D)')
<1>1. c \in Nat /\ MaxLoss \in Nat /\ MaxLoss * c \in Nat /\ Slots * MaxLoss \in Nat
  BY WithinTypes
<1>2. d \in Nat /\ (positions[s].day \in D => d = c - 1) /\ (positions[s].day \notin D => d = c)
  BY CloseCount
<1>3. (MaxLoss * c - b) * 100 <= limit + Slots * MaxLoss * 100
  BY DEF Within
<1>4. positions[s].day \in D => MaxLoss * d = MaxLoss * c - MaxLoss
  BY <1>1, <1>2, LossProducts
<1> HIDE DEF c, d
<1>5. (MaxLoss * d - q) * 100 <= limit + Slots * MaxLoss * 100
  <2>1. CASE positions[s].day \in D
    BY <1>1, <1>2, <1>3, <1>4, <2>1
  <2>2. CASE positions[s].day \notin D
    BY <1>1, <1>2, <1>3, <2>2
  <2> QED
    BY <2>1, <2>2
<1> QED
  BY <1>5 DEF Within, d, Slots

\* A step keeps the amounts at risk within the limits.
LEMMA RiskStep ==
  ASSUME TypeOK, [Next]_vars, SlotsOK, PnlOK, RiskOK
  PROVE  RiskOK'
<1> SUFFICES ASSUME mode' = "paper", NEW d \in 1..MaxDay
             PROVE  /\ Within({d}, booked[d], Capital * DayPct)'
                    /\ Within(DaysOfWeek(d), WeekPnl(booked, d), Capital * WeekPct)'
  BY DEF RiskOK, DayRisk, WeekRisk, Within
<1>1. mode = "paper"
  BY DEF Next, Plan, Skip, OpenPosition, SelectDone, PaperClose, LiveClose, EndCycle, CycleFails,
         Restart, Midnight, vars
<1>2. Within({d}, booked[d], Capital * DayPct) /\ Within(DaysOfWeek(d), WeekPnl(booked, d), Capital * WeekPct)
  BY <1>1 DEF RiskOK, DayRisk, WeekRisk, Within
<1>3. booked \in [1..MaxDay -> Int] /\ day \in 1..MaxDay /\ booked[d] \in Int
  BY DEF TypeOK
<1>4. WeekPnl(booked, d) \in Int /\ WeekPnl(booked, day) \in Int
  BY <1>3, WeekTypes
<1>5. Capital * DayPct \in Nat /\ Capital * WeekPct \in Nat
  BY WithinTypes
<1>6. CASE OpenPosition
  <2>1. booked' = booked /\ pc = "select"
    BY <1>6 DEF OpenPosition
  <2>2. WithinSlots'
    BY SlotsStep DEF SlotsOK
  <2>3. /\ booked[day] = pnl.day \/ booked[day] = 0
        /\ WeekPnl(booked, day) = pnl.week \/ WeekPnl(booked, day) = 0
        /\ -pnl.day * 100 <= Capital * DayPct /\ -pnl.week * 100 <= Capital * WeekPct
        /\ pnl.day \in Int /\ pnl.week \in Int
    BY <1>1, <1>6, <2>1, StillBounded, OpeningWithinLimits DEF TypeOK
  <2>4. -booked[day] * 100 <= Capital * DayPct /\ -WeekPnl(booked, day) * 100 <= Capital * WeekPct
    BY <1>4, <1>5, <2>3
  <2>5. Within({d}, booked[d], Capital * DayPct)'
    <3>1. CASE d = day
      <4>1. -booked[d] * 100 <= Capital * DayPct
        BY <2>4, <3>1
      <4>2. ASSUME NEW b \in Int, b = booked[d] PROVE Within({d}, b, Capital * DayPct)'
        BY <1>5, <2>2, <4>1, <4>2, OpenWithin
      <4> QED
        BY <1>3, <2>1, <4>2 DEF Within
    <3>2. CASE d # day
      <4>1. OpenedOn({d})' = OpenedOn({d})
        BY <1>1, <1>6, <3>2, OpenCountOn
      <4> QED
        BY <1>2, <2>1, <4>1 DEF Within, Slots
    <3> QED
      BY <3>1, <3>2
  <2>6. Within(DaysOfWeek(d), WeekPnl(booked, d), Capital * WeekPct)'
    <3>1. CASE day \in DaysOfWeek(d)
      <4>1. DaysOfWeek(d) = DaysOfWeek(day)
        BY <3>1 DEF DaysOfWeek
      <4>2. -WeekPnl(booked, d) * 100 <= Capital * WeekPct
        BY <2>4, <4>1 DEF WeekPnl
      <4>3. ASSUME NEW b \in Int, b = WeekPnl(booked, d) PROVE Within(DaysOfWeek(d), b, Capital * WeekPct)'
        BY <1>5, <2>2, <4>2, <4>3, OpenWithin
      <4> QED
        BY <1>4, <2>1, <4>3 DEF Within, WeekPnl
    <3>2. CASE day \notin DaysOfWeek(d)
      <4>1. OpenedOn(DaysOfWeek(d))' = OpenedOn(DaysOfWeek(d))
        BY <1>1, <1>6, <3>2, OpenCountOn
      <4> QED
        BY <1>2, <2>1, <4>1 DEF Within, WeekPnl, Slots
    <3> QED
      BY <3>1, <3>2
  <2> QED
    BY <2>5, <2>6
<1>7. ASSUME NEW s \in Symbol, PaperClose(s) \/ LiveClose(s)
      PROVE  /\ Within({d}, booked[d], Capital * DayPct)'
             /\ Within(DaysOfWeek(d), WeekPnl(booked, d), Capital * WeekPct)'
  <2>1. PaperClose(s)
    BY <1>1, <1>7 DEF LiveClose
  <2>2. PICK p \in Int :
            /\ p >= -MaxLoss
            /\ booked'[d] = (IF positions[s].day \in {d} THEN booked[d] + p ELSE booked[d])
            /\ WeekPnl(booked', d) = (IF positions[s].day \in DaysOfWeek(d) THEN WeekPnl(booked, d) + p
                                      ELSE WeekPnl(booked, d))
    BY <2>1, CloseBooks
  <2>3. ASSUME NEW b, b = (IF positions[s].day \in {d} THEN booked[d] + p ELSE booked[d])
        PROVE  Within({d}, b, Capital * DayPct)'
    <3> DEFINE D == {d}
               limit == Capital * DayPct
    <3>1. Within(D, booked[d], limit) /\ limit \in Int /\ booked[d] \in Int
      BY <1>2, <1>3, <1>5
    <3>2. b = IF positions[s].day \in D THEN booked[d] + p ELSE booked[d]
      BY <2>3
    <3> HIDE DEF D, limit
    <3>3. Within(D, b, limit)'
      BY <2>1, <2>2, <3>1, <3>2, CloseWithin
    <3> QED
      BY <3>3 DEF D, limit
  <2>4. ASSUME NEW b, b = (IF positions[s].day \in DaysOfWeek(d) THEN WeekPnl(booked, d) + p
                           ELSE WeekPnl(booked, d))
        PROVE  Within(DaysOfWeek(d), b, Capital * WeekPct)'
    BY <1>2, <1>4, <1>5, <2>1, <2>2, <2>4, CloseWithin
  <2> QED
    BY <2>2, <2>3, <2>4 DEF Within, WeekPnl
<1>8. CASE Quiet
  <2>1. booked' = booked /\ OpenedOn({d})' = OpenedOn({d})
        /\ OpenedOn(DaysOfWeek(d))' = OpenedOn(DaysOfWeek(d))
    BY <1>8, QuietCountOn DEF Quiet
  <2> QED
    BY <1>2, <2>1 DEF Within, WeekPnl, Slots
<1> QED
  BY <1>6, <1>7, <1>8, StepKinds

\* A step keeps what the day suffers in terms of what its trades were booked.
LEMMA SufferedStep ==
  ASSUME TypeOK, [Next]_vars, SlotsOK, PositionsOK, FutureOK, SufferedOK
  PROVE  SufferedOK'
<1> SUFFICES ASSUME mode' = "paper", NEW E, E = 1..(day - 1), NEW D, D = 1..(day' - 1)
             PROVE  suffered'[day'] >= booked'[day'] - MaxLoss * (Slots - Cardinality(OpenedOn(D)'))
  BY DEF SufferedOK, Slots, OpenedOn
<1> DEFINE old == Cardinality(OpenedOn(E))
           new == Cardinality(OpenedOn(D)')
<1>1. mode = "paper"
  BY DEF Next, Plan, Skip, OpenPosition, SelectDone, PaperClose, LiveClose, EndCycle, CycleFails,
         Restart, Midnight, vars
<1>2. suffered[day] >= booked[day] - MaxLoss * (Slots - old)
  BY <1>1 DEF SufferedOK
<1>3. /\ booked \in [1..MaxDay -> Int] /\ suffered \in [1..MaxDay -> Int] /\ day \in 1..MaxDay
      /\ booked[day] \in Int /\ suffered[day] \in Int
  BY DEF TypeOK
<1>4. Slots \in Nat /\ old \in Nat /\ MaxLoss \in Nat
  BY SlotsBound, OpenedCount, ConstantTypes
<1>5. CASE OpenPosition
  <2>1. UNCHANGED <<booked, suffered, day>>
    BY <1>5 DEF OpenPosition
  <2>2. day \notin 1..(day - 1)
    BY <1>3
  <2>3. new = old
    <3>1. D = E /\ day \notin E
      BY <2>1, <2>2
    <3>2. OpenedOn(E)' = OpenedOn(E)
      BY <1>1, <1>5, <3>1, OpenCountOn
    <3> QED
      BY <3>1, <3>2
  <2> QED
    BY <1>2, <2>1, <2>3
<1>6. ASSUME NEW s \in Symbol, PaperClose(s)
      PROVE  suffered'[day'] >= booked'[day'] - MaxLoss * (Slots - new)
  <2>1. day' = day
    BY <1>6 DEF PaperClose
  <2>2. PICK p \in Int :
            /\ p >= -MaxLoss
            /\ booked'[day] = (IF day = positions[s].day THEN booked[day] + p ELSE booked[day])
            /\ suffered'[day] = suffered[day] + p
    BY <1>3, <1>6, CloseBooks
  <2>3. positions[s].day \in 1..day
    BY <1>3, <1>6, OpenDay DEF PositionsOK, PaperClose
  <2>4. /\ new \in Nat
        /\ positions[s].day \in E => new = old - 1
        /\ positions[s].day \notin E => new = old
    <3>1. D = E
      BY <2>1
    <3> QED
      BY <1>6, <3>1, CloseCount
  <2> HIDE DEF new, old
  <2>5. CASE positions[s].day = day
    <3>1. new = old
      BY <1>3, <2>4, <2>5
    <3>2. PICK x \in Int : x = MaxLoss * (Slots - old)
      BY <1>4
    <3> QED
      BY <1>2, <1>3, <2>1, <2>2, <2>5, <3>1, <3>2
  <2>6. CASE positions[s].day # day
    <3>1. new = old - 1
      BY <1>3, <2>3, <2>4, <2>6
    <3>2. MaxLoss * (Slots - new) = MaxLoss * (Slots - old) + MaxLoss /\ MaxLoss * (Slots - old) \in Int
      BY <1>4, <3>1
    <3> QED
      BY <1>2, <1>3, <1>4, <2>1, <2>2, <2>6, <3>2
  <2> QED
    BY <2>5, <2>6
<1>7. ASSUME NEW s \in Symbol, LiveClose(s) PROVE FALSE
  BY <1>1, <1>7 DEF LiveClose
<1>8. CASE Quiet
  <2>1. booked' = booked /\ suffered' = suffered
    BY <1>8 DEF Quiet
  <2>2. CASE day' = day
    <3>1. new = old
      <4>1. D = E
        BY <2>2
      <4> QED
        BY <1>8, <4>1, QuietCountOn
    <3> QED
      BY <1>2, <2>1, <2>2, <3>1
  <2>3. CASE day' = day + 1
    <3>1. booked'[day'] = 0 /\ suffered'[day'] = 0
      <4>1. day' \in 1..MaxDay
        BY TypeStep DEF TypeOK
      <4>2. day' > day
        BY <1>3, <2>3
      <4> QED
        BY <2>1, <4>1, <4>2 DEF FutureOK
    <3>2. new \in Nat /\ new <= Slots
      <4>1. IsFiniteSet(Open') /\ Cardinality(Open') \in Nat /\ OpenedOn(D)' \subseteq Open'
        <5>1. Open' \subseteq Symbol
          BY DEF Open
        <5> QED
          BY <5>1, OpenCount, FS_Subset, FS_CardinalityType DEF OpenedOn
      <4>2. new \in Nat /\ new <= Cardinality(Open')
        BY <4>1, FS_Subset, FS_CardinalityType
      <4>3. Cardinality(Open') <= Slots
        BY SlotsStep DEF SlotsOK, WithinSlots, Slots
      <4> HIDE DEF new
      <4> QED
        BY <1>4, <4>1, <4>2, <4>3
    <3> HIDE DEF new
    <3>3. Slots - new \in Nat
      BY <1>4, <3>2
    <3>4. PICK x \in Nat : x = MaxLoss * (Slots - new)
      BY <1>4, <3>3
    <3>5. 0 >= 0 - x
      OBVIOUS
    <3> QED
      BY <3>1, <3>4, <3>5 DEF new
  <2> QED
    BY <1>8, <2>2, <2>3 DEF Quiet
<1> QED
  BY <1>5, <1>6, <1>7, <1>8, StepKinds

\* The sum of a day's profits and of a week's stays above the limit.
LEMMA RiskBounds ==
  ASSUME TypeOK, RiskOK
  PROVE  LossesBounded
<1> SUFFICES ASSUME mode = "paper", NEW d \in 1..MaxDay
             PROVE  /\ -booked[d] * 100 <= Capital * DayPct + Slots * MaxLoss * 100
                    /\ -WeekPnl(booked, d) * 100 <= Capital * WeekPct + Slots * MaxLoss * 100
  BY DEF LossesBounded
<1>1. DayRisk(d) /\ WeekRisk(d)
  BY DEF RiskOK
<1>2. booked[d] \in Int /\ WeekPnl(booked, d) \in Int
  BY WeekTypes DEF TypeOK
<1>3. PICK x \in Nat, y \in Nat :
         x = MaxLoss * Cardinality(OpenedOn({d})) /\ y = MaxLoss * Cardinality(OpenedOn(DaysOfWeek(d)))
  BY WithinTypes
<1>4. Capital * DayPct \in Nat /\ Capital * WeekPct \in Nat /\ Slots * MaxLoss \in Nat
  BY WithinTypes
<1> QED
  BY <1>1, <1>2, <1>3, <1>4 DEF DayRisk, WeekRisk

\* A step keeps what a calendar day may suffer.
LEMMA DailyStep ==
  ASSUME TypeOK, [Next]_vars, SlotsOK, PositionsOK, PnlOK, RiskOK, FutureOK, SufferedOK,
         DailyLossSuffered
  PROVE  DailyLossSuffered'
<1> SUFFICES ASSUME mode' = "paper", NEW d \in 1..MaxDay
             PROVE  -suffered'[d] * 100 <= Capital * DayPct + 2 * Slots * MaxLoss * 100
  BY DEF DailyLossSuffered, Slots
<1>1. mode = "paper"
  BY DEF Next, Plan, Skip, OpenPosition, SelectDone, PaperClose, LiveClose, EndCycle, CycleFails,
         Restart, Midnight, vars
<1>2. -suffered[d] * 100 <= Capital * DayPct + 2 * Slots * MaxLoss * 100
  BY <1>1 DEF DailyLossSuffered
<1>3. CASE suffered'[d] = suffered[d]
  BY <1>2, <1>3
<1>4. CASE suffered'[d] # suffered[d]
  <2>1. d = day /\ day' = day
    <3>1. PICK s \in Symbol : PaperClose(s)
      BY <1>1, <1>4, StepKinds DEF OpenPosition, Quiet, LiveClose
    <3> QED
      BY <1>4, <3>1, CloseBooks DEF PaperClose
  <2>2. suffered'[d] >= booked'[d] - MaxLoss * (Slots - Cardinality(OpenedOn(1..(d - 1))'))
    BY <2>1, SufferedStep DEF SufferedOK, Slots, OpenedOn
  <2>3. -booked'[d] * 100 <= Capital * DayPct + Slots * MaxLoss * 100
    <3>1. DayRisk(d)'
      BY RiskStep DEF RiskOK
    <3>2. (MaxLoss * Cardinality(OpenedOn({d})') - booked'[d]) * 100 <= Capital * DayPct + Slots * MaxLoss * 100
      BY <3>1 DEF DayRisk, Slots
    <3>3. Cardinality(OpenedOn({d})') \in Nat
      <4>1. OpenedOn({d})' \subseteq Symbol
        BY DEF OpenedOn, Open
      <4> QED
        BY <4>1, OpenCount, FS_Subset, FS_CardinalityType
    <3>4. PICK x \in Nat : x = MaxLoss * Cardinality(OpenedOn({d})')
      BY <3>3, ConstantTypes
    <3>5. booked'[d] \in Int /\ Capital * DayPct \in Nat /\ Slots * MaxLoss \in Nat
      BY TypeStep, WithinTypes DEF TypeOK
    <3> QED
      BY <3>2, <3>4, <3>5
  <2>4. Cardinality(OpenedOn(1..(d - 1))') \in Nat
    <3>1. OpenedOn(1..(d - 1))' \subseteq Symbol
      BY DEF OpenedOn, Open
    <3> QED
      BY <3>1, OpenCount, FS_Subset, FS_CardinalityType
  <2>5. PICK c \in Nat : c = Cardinality(OpenedOn(1..(d - 1))')
    BY <2>4
  <2>6. MaxLoss * (Slots - c) <= Slots * MaxLoss /\ MaxLoss * (Slots - c) \in Int
    <3>1. MaxLoss \in Nat /\ Slots \in Nat /\ MaxLoss * c \in Nat
      BY ConstantTypes, SlotsBound
    <3>2. MaxLoss * (Slots - c) = MaxLoss * Slots - MaxLoss * c
      BY <3>1
    <3> QED
      BY <3>1, <3>2
  <2>7. suffered'[d] \in Int /\ booked'[d] \in Int
    BY TypeStep DEF TypeOK
  <2>8. PICK u \in Nat, v \in Nat, w \in Int :
          u = Capital * DayPct /\ v = Slots * MaxLoss /\ w = MaxLoss * (Slots - c)
    BY <2>6, WithinTypes
  <2>9. 2 * Slots * MaxLoss * 100 = 2 * (v * 100)
    BY <2>8, SlotsBound, ConstantTypes
  <2>10. PICK x \in Int, y \in Int : x = suffered'[d] /\ y = booked'[d]
    BY <2>7
  <2>11. x >= y - w /\ w <= v /\ -y * 100 <= u + v * 100
    BY <2>2, <2>3, <2>5, <2>6, <2>8, <2>10
  <2>12. -x * 100 <= u + 2 * (v * 100)
    BY <2>11
  <2> QED
    BY <2>8, <2>9, <2>10, <2>12
<1> QED
  BY <1>3, <1>4
-----------------------------------------------------------------------------
\* The inductive invariant and what it says.

RiskInv ==
    /\ TypeOK /\ SlotsOK /\ Compatible(todo) /\ CorrelatedPairs
    /\ PositionsOK /\ MarginOK /\ FreeMarginKept
    /\ PnlOK /\ FutureOK /\ RiskOK /\ SufferedOK /\ DailyLossSuffered

\* It holds when the bot is started.
LEMMA RiskInit == Init => RiskInv
<1> SUFFICES ASSUME Init PROVE RiskInv
  OBVIOUS
<1>1. TypeOK
  BY TypeInit
<1>2. Open = {} /\ \A s \in Symbol : positions[s] = NoPosition
  BY DEF Init, Open, NoPosition
<1>3. SlotsOK /\ Compatible(todo) /\ CorrelatedPairs
  <2>1. Cardinality(Open) = 0 /\ Len(todo) = 0 /\ todo = <<>>
    BY <1>2, FS_EmptySet DEF Init
  <2> QED
    BY <1>2, <2>1, SlotsBound DEF SlotsOK, WithinSlots, Compatible, CorrelatedPairs
<1>4. PositionsOK
  <2>1. NoPosition.real <= NoPosition.mem + Step /\ NoPosition.day <= 1
    BY ConstantTypes DEF NoPosition
  <2> QED
    BY <1>2, <2>1 DEF PositionsOK, Init
<1>5. MarginOK /\ FreeMarginKept
  BY <1>2 DEF MarginOK, FreeMarginKept
<1>6. PnlOK
  BY DEF PnlOK, Init
<1>7. \A e \in 1..MaxDay : booked[e] = 0 /\ suffered[e] = 0
  BY DEF Init
<1>8. day = 1 /\ 1 \in 1..MaxDay
  BY ConstantTypes DEF Init
<1>9. FutureOK
  BY <1>7, <1>8, ConstantTypes DEF FutureOK
<1>10. \A D : Cardinality(OpenedOn(D)) = 0
  BY <1>2, FS_EmptySet DEF OpenedOn
<1>11. RiskOK
  <2> SUFFICES ASSUME NEW d \in 1..MaxDay PROVE DayRisk(d) /\ WeekRisk(d)
    BY DEF RiskOK
  <2>1. WeekPnl(booked, d) = 0
    <3> DEFINE f == [e \in DaysOfWeek(d) |-> booked[e]]
    <3>1. DaysOfWeek(d) \subseteq 1..MaxDay /\ IsFiniteSet(DaysOfWeek(d)) /\ f \in [DaysOfWeek(d) -> Int]
      BY <1>1, WeekTypes DEF TypeOK
    <3>2. \A e \in DaysOfWeek(d) : f[e] = 0
      BY <1>7, <3>1
    <3>3. Total(f) = 0
      <4> HIDE DEF f
      <4> QED
        BY <3>1, <3>2, TotalZero
    <3> QED
      BY <3>3 DEF WeekPnl
  <2>2. MaxLoss * 0 = 0 /\ Capital * DayPct \in Nat /\ Capital * WeekPct \in Nat
        /\ Slots * MaxLoss \in Nat
    BY ConstantTypes, WithinTypes
  <2>3. booked[d] = 0
    BY <1>7
  <2>4. Cardinality(OpenedOn({d})) = 0 /\ Cardinality(OpenedOn(DaysOfWeek(d))) = 0
    BY <1>10
  <2> QED
    BY <2>1, <2>2, <2>3, <2>4 DEF DayRisk, WeekRisk
<1>12. SufferedOK
  <2>1. suffered[day] = 0 /\ booked[day] = 0
    BY <1>7, <1>8
  <2>2. MaxLoss * (Slots - 0) \in Nat
    BY ConstantTypes, SlotsBound
  <2> QED
    BY <1>10, <2>1, <2>2 DEF SufferedOK
<1>13. DailyLossSuffered
  <2>1. 2 * Slots * MaxLoss * 100 \in Nat /\ Capital * DayPct \in Nat
    BY ConstantTypes, SlotsBound
  <2> QED
    BY <1>7, <2>1 DEF DailyLossSuffered
<1> QED
  BY <1>1, <1>3, <1>4, <1>5, <1>6, <1>9, <1>11, <1>12, <1>13 DEF RiskInv

\* Every step keeps it.
LEMMA RiskStepInv ==
  ASSUME RiskInv, [Next]_vars
  PROVE  RiskInv'
BY TypeStep, SlotsStep, CorrelationStep, EachPositionStep, MarginStep, FreeStep, PnlStep, FutureStep,
   RiskStep, SufferedStep, DailyStep
DEF RiskInv

\* It is an invariant of the risk gate, in both modes.
THEOREM RiskInvariant == Spec => []RiskInv
<1>1. RiskInv /\ [Next]_vars => RiskInv'
  BY RiskStepInv
<1> QED
  BY <1>1, RiskInit, PTL DEF Spec

\* The positions never outnumber the slots.
THEOREM SlotsNeverExceeded == Spec => []WithinSlots
<1>1. RiskInv => WithinSlots
  BY DEF RiskInv, SlotsOK
<1> QED
  BY <1>1, RiskInvariant, PTL

\* Two positions of one group and side are never both from fair signals.
THEOREM CorrelationControlled == Spec => []CorrelatedPairs
<1>1. RiskInv => CorrelatedPairs
  BY DEF RiskInv
<1> QED
  BY <1>1, RiskInvariant, PTL

\* The paper trader's reserved margin stays below the cap but for the rounding.
THEOREM MarginNeverExceeded == Spec => []PaperMarginBounded
<1>1. RiskInv => PaperMarginBounded
  BY MarginBound DEF RiskInv
<1> QED
  BY <1>1, RiskInvariant, PTL

\* A live account keeps its floor of free margin.
THEOREM FreeMarginInvariant == Spec => []FreeMarginKept
<1>1. RiskInv => FreeMarginKept
  BY DEF RiskInv
<1> QED
  BY <1>1, RiskInvariant, PTL

\* The trades opened on a day and in a week lose at most the limit and one loss
\* for each slot.
THEOREM LossesInvariant == Spec => []LossesBounded
<1>1. RiskInv => LossesBounded
  BY RiskBounds DEF RiskInv
<1> QED
  BY <1>1, RiskInvariant, PTL

\* A calendar day loses at most the limit and two losses for each slot.
THEOREM DailyLossInvariant == Spec => []DailyLossSuffered
<1>1. RiskInv => DailyLossSuffered
  BY DEF RiskInv
<1> QED
  BY <1>1, RiskInvariant, PTL
=============================================================================
