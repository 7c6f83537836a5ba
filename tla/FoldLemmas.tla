------------------------------- MODULE FoldLemmas -------------------------------
(***************************************************************************)
(* Induction over data for the proofs of the other modules.  The induction  *)
(* and recursion theorems of the library take an operator as a parameter;   *)
(* these lemmas say the same of sets and functions, so that they can be     *)
(* cited like any other fact.                                               *)
(***************************************************************************)
EXTENDS Integers, Sequences, FiniteSetTheorems, FiniteSetsExt, WellFoundedInduction, TLAPS

LEMMA LeastOfNaturals ==
  ASSUME NEW T \in SUBSET Nat, T # {}
  PROVE  \E x \in T : \A y \in T : x <= y
<1> DEFINE R == {p \in Nat \X Nat : p[1] < p[2]}
<1>1. IsWellFoundedOn(R, Nat)
  BY NatLessThanWellFounded DEF OpToRel
<1>2. \A x, y \in Nat : y < x => <<y, x>> \in R
  OBVIOUS
<1> HIDE DEF R
<1>3. PICK x \in T : \A y \in T : <<y, x>> \notin R
  BY <1>1, WFMin
<1>4. ASSUME NEW y \in T PROVE x <= y
  <2>1. x \in Nat /\ y \in Nat
    OBVIOUS
  <2>2. ~(y < x)
    BY <1>2, <1>3, <2>1
  <2> QED
    BY <2>1, <2>2
<1> QED
  BY <1>4

\* Mathematical induction, for a set of numbers.
LEMMA Induction ==
  ASSUME NEW P, 0 \in P, \A n \in Nat : n \in P => n + 1 \in P
  PROVE  \A n \in Nat : n \in P
<1> SUFFICES ASSUME Nat \ P # {} PROVE FALSE
  OBVIOUS
<1>1. PICK x \in Nat \ P : \A y \in Nat \ P : x <= y
  <2>1. Nat \ P \in SUBSET Nat
    OBVIOUS
  <2> QED
    BY <2>1, LeastOfNaturals
<1>2. x - 1 \in Nat /\ ~(x <= x - 1)
  BY <1>1
<1>3. x - 1 \in P
  BY <1>1, <1>2
<1> QED
  BY <1>1, <1>2, <1>3

\* g[t] is the fold of t: the step from what is left without the element picked.
IsFold(g, S, pick, base, step) ==
  \A t \in SUBSET S : g[t] = IF t = {} THEN base ELSE step[<<pick[t], g[t \ {pick[t]}]>>]

\* A fold over a finite set has a value: whatever element it picks from each subset, there
\* is a function that follows its equation.
LEMMA FoldExists ==
  ASSUME NEW S, IsFiniteSet(S),
         NEW pick, \A t \in SUBSET S : t # {} => pick[t] \in t,
         NEW T, NEW base \in T, NEW step \in [S \X T -> T]
  PROVE  \E g \in [SUBSET S -> T] : IsFold(g, S, pick, base, step)
<1> DEFINE upTo(m) == {t \in SUBSET S : Cardinality(t) <= m}
           obeys(g, D) == \A t \in D :
             g[t] = IF t = {} THEN base ELSE step[<<pick[t], g[t \ {pick[t]}]>>]
           P == {m \in Nat : \E g \in [upTo(m) -> T] : obeys(g, upTo(m))}
<1>1. \A t \in SUBSET S : IsFiniteSet(t) /\ Cardinality(t) \in Nat
                            /\ Cardinality(t) <= Cardinality(S)
  BY FS_Subset, FS_CardinalityType
<1>2. \A t \in SUBSET S : t # {} =>
        /\ pick[t] \in S /\ t \ {pick[t]} \in SUBSET S
        /\ Cardinality(t \ {pick[t]}) = Cardinality(t) - 1
  BY <1>1, FS_RemoveElement
<1>3. 0 \in P
  <2> DEFINE g == [t \in upTo(0) |-> base]
  <2>1. \A t \in upTo(0) : t = {}
    BY <1>1, FS_EmptySet
  <2>2. g \in [upTo(0) -> T] /\ obeys(g, upTo(0))
    BY <2>1
  <2> QED
    BY <2>2
<1>4. ASSUME NEW m \in Nat, m \in P PROVE m + 1 \in P
  <2>1. PICK g \in [upTo(m) -> T] : obeys(g, upTo(m))
    BY <1>4
  <2> DEFINE h == [t \in upTo(m + 1) |->
                     IF t = {} THEN base ELSE step[<<pick[t], g[t \ {pick[t]}]>>]]
  <2>2. ASSUME NEW t \in upTo(m + 1), t # {} PROVE t \ {pick[t]} \in upTo(m) /\ pick[t] \in S
    BY <1>1, <1>2, <2>2
  <2>3. h \in [upTo(m + 1) -> T]
    <3> SUFFICES ASSUME NEW t \in upTo(m + 1), t # {}
                 PROVE  step[<<pick[t], g[t \ {pick[t]}]>>] \in T
      OBVIOUS
    <3>1. g[t \ {pick[t]}] \in T
      BY <2>2
    <3> QED
      BY <2>2, <3>1
  <2>4. \A t \in upTo(m) : t \in upTo(m + 1) /\ h[t] = g[t]
    <3> SUFFICES ASSUME NEW t \in upTo(m)
                 PROVE  t \in upTo(m + 1) /\ h[t] = g[t]
      OBVIOUS
    <3>1. g[t] = IF t = {} THEN base ELSE step[<<pick[t], g[t \ {pick[t]}]>>]
      BY <2>1
    <3>2. t \in upTo(m + 1)
      BY <1>1
    <3>3. h[t] = IF t = {} THEN base ELSE step[<<pick[t], g[t \ {pick[t]}]>>]
      BY <3>2
    <3> QED
      BY <3>1, <3>2, <3>3
  <2>5. obeys(h, upTo(m + 1))
    <3> SUFFICES ASSUME NEW t \in upTo(m + 1), t # {}
                 PROVE  h[t] = step[<<pick[t], h[t \ {pick[t]}]>>]
      BY Zenon
    <3>1. h[t] = step[<<pick[t], g[t \ {pick[t]}]>>]
      OBVIOUS
    <3>2. h[t \ {pick[t]}] = g[t \ {pick[t]}]
      BY <2>2, <2>4
    <3> QED
      BY <3>1, <3>2, Zenon
  <2> HIDE DEF h, upTo, obeys
  <2> QED
    BY <2>3, <2>5
<1>5. Cardinality(S) \in P
  <2> HIDE DEF P
  <2> QED
    BY <1>1, <1>3, <1>4, Induction
<1>6. PICK g \in [upTo(Cardinality(S)) -> T] : obeys(g, upTo(Cardinality(S)))
  BY <1>5
<1>7. upTo(Cardinality(S)) = SUBSET S
  BY <1>1
<1> HIDE DEF upTo
<1>8. g \in [SUBSET S -> T] /\ obeys(g, SUBSET S)
  BY <1>6, <1>7
<1> QED
  BY <1>8 DEF IsFold

\* A fold that need only follow its step where it has the step's type.
FollowsOn(fold, S, pick, T, base, step) ==
  /\ fold[{}] = base
  /\ \A t \in SUBSET S : t # {} /\ fold[t \ {pick[t]}] \in T =>
       fold[t] = step[<<pick[t], fold[t \ {pick[t]}]>>]

\* Such a fold over a finite set has the type of its step.
LEMMA FoldHasType ==
  ASSUME NEW S, IsFiniteSet(S),
         NEW pick, \A t \in SUBSET S : t # {} => pick[t] \in t,
         NEW T, NEW base \in T, NEW step \in [S \X T -> T], NEW fold,
         FollowsOn(fold, S, pick, T, base, step)
  PROVE  fold[S] \in T
<1> DEFINE P == {m \in Nat : \A t \in SUBSET S : Cardinality(t) = m => fold[t] \in T}
<1>1. \A t \in SUBSET S : IsFiniteSet(t) /\ Cardinality(t) \in Nat
  BY FS_Subset, FS_CardinalityType
<1>2. 0 \in P
  BY <1>1, FS_EmptySet DEF FollowsOn
<1>3. ASSUME NEW m \in Nat, m \in P PROVE m + 1 \in P
  <2> SUFFICES ASSUME NEW t \in SUBSET S, Cardinality(t) = m + 1
               PROVE  fold[t] \in T
    OBVIOUS
  <2> HIDE DEF P
  <2>1. t # {} /\ IsFiniteSet(t)
    <3>1. Cardinality({}) = 0 /\ m + 1 # 0
      BY FS_EmptySet
    <3> QED
      BY <1>1, <3>1
  <2>2. pick[t] \in t /\ pick[t] \in S /\ t \ {pick[t]} \in SUBSET S
    BY <2>1
  <2>3. Cardinality(t \ {pick[t]}) = Cardinality(t) - 1
    BY <2>1, <2>2, FS_RemoveElement
  <2>4. Cardinality(t \ {pick[t]}) = m
    BY <2>3
  <2>5. fold[t \ {pick[t]}] \in T
    BY <1>3, <2>2, <2>4 DEF P
  <2>6. fold[t] = step[<<pick[t], fold[t \ {pick[t]}]>>]
    BY <2>1, <2>5, Zenon DEF FollowsOn
  <2> QED
    BY <2>2, <2>5, <2>6
<1>4. \A m \in Nat : m \in P
  <2> HIDE DEF P
  <2> QED
    BY <1>2, <1>3, Induction
<1> QED
  BY <1>1, <1>4

\* The last element of a set of positions.
LEMMA LastOfInterval ==
  ASSUME NEW n \in Nat
  PROVE  /\ \A t \in SUBSET (1..n) : t # {} => Max(t) \in t
         /\ \A k \in 1..n : Max(1..k) = k
<1>1. ASSUME NEW t \in SUBSET (1..n), t # {} PROVE \E x \in t : \A y \in t : x >= y
  <2> DEFINE U == {n - x : x \in t}
  <2>1. \A x \in t : x \in Int /\ n - x \in Nat
    OBVIOUS
  <2>2. U \in SUBSET Nat /\ U # {}
    BY <1>1, <2>1
  <2>3. PICK u \in U : \A v \in U : u <= v
    BY <2>2, LeastOfNaturals
  <2>4. PICK x \in t : u = n - x
    OBVIOUS
  <2>5. \A y \in t : n - x <= n - y
    BY <2>3, <2>4
  <2>6. ASSUME NEW y \in t PROVE x >= y
    <3>1. x \in Int /\ y \in Int /\ n - x <= n - y
      BY <2>1, <2>5
    <3> HIDE DEF U
    <3> QED
      BY <3>1
  <2> QED
    BY <2>6, Zenon
<1>2. ASSUME NEW t \in SUBSET (1..n), t # {} PROVE Max(t) \in t /\ \A y \in t : Max(t) >= y
  BY <1>1, <1>2, Zenon DEF Max
<1>3. ASSUME NEW k \in 1..n PROVE Max(1..k) = k
  <2>1. 1..k \in SUBSET (1..n) /\ 1..k # {} /\ k \in 1..k
    OBVIOUS
  <2>2. Max(1..k) \in 1..k /\ Max(1..k) >= k
    BY <1>2, <2>1
  <2> QED
    BY <2>2
<1> QED
  BY <1>2, <1>3

\* The folds of SequencesExt pick the last position first.
IsPositionFold(g, n, base, step) ==
  \A t \in SUBSET (1..n) : g[t] = IF t = {} THEN base ELSE step[<<Max(t), g[t \ {Max(t)}]>>]

LEMMA PositionFold ==
  ASSUME NEW n \in Nat, NEW T, NEW base \in T, NEW step \in [(1..n) \X T -> T]
  PROVE  \E g \in [SUBSET (1..n) -> T] : IsPositionFold(g, n, base, step)
<1> DEFINE S == 1..n
           pick == [t \in SUBSET S |-> Max(t)]
<1>1. \A t \in SUBSET S : pick[t] = Max(t)
  OBVIOUS
<1>2. IsFiniteSet(S)
  BY FS_Interval
<1>3. \A t \in SUBSET S : t # {} => pick[t] \in t
  BY <1>1, LastOfInterval
<1>4. step \in [S \X T -> T]
  OBVIOUS
<1> SUFFICES \E g \in [SUBSET S -> T] : \A t \in SUBSET S :
               g[t] = IF t = {} THEN base ELSE step[<<Max(t), g[t \ {Max(t)}]>>]
  BY DEF IsPositionFold
<1> HIDE DEF pick, S
<1>5. \E g \in [SUBSET S -> T] : IsFold(g, S, pick, base, step)
  BY <1>2, <1>3, <1>4, FoldExists
<1> QED
  BY <1>1, <1>5 DEF IsFold

\* Such a fold takes one position at a time.
LEMMA OneAtATime ==
  ASSUME NEW n \in Nat, NEW k \in 1..n
  PROVE  /\ 1..k \in SUBSET (1..n) /\ 1..k # {}
         /\ Max(1..k) = k /\ (1..k) \ {Max(1..k)} = 1..(k - 1)
  BY LastOfInterval

\* What holds at first and is kept by every step holds all along.
LEMMA HoldsAlong ==
  ASSUME NEW n \in Nat, NEW P, 0 \in P, \A k \in 1..n : k - 1 \in P => k \in P
  PROVE  \A k \in 0..n : k \in P
<1> DEFINE Q == {k \in Nat : k <= n => k \in P}
<1>1. 0 \in Q
  OBVIOUS
<1>2. ASSUME NEW k \in Nat, k \in Q PROVE k + 1 \in Q
  <2> SUFFICES ASSUME k + 1 <= n PROVE k + 1 \in P
    OBVIOUS
  <2>1. k + 1 \in 1..n /\ (k + 1) - 1 = k /\ k \in P
    BY <1>2
  <2> QED
    BY <2>1
<1> HIDE DEF Q
<1>3. \A k \in Nat : k \in Q
  BY <1>1, <1>2, Induction
<1> QED
  BY <1>3 DEF Q

\* A fold that need only follow the step where it has the step's type.
Follows(fold, n, T, base, step) ==
  /\ fold[{}] = base
  /\ \A t \in SUBSET (1..n) : t # {} /\ fold[t \ {Max(t)}] \in T =>
       fold[t] = step[<<Max(t), fold[t \ {Max(t)}]>>]

IsRun(r, n, base, step) ==
  r[0] = base /\ \A k \in 1..n : r[k] = step[<<k, r[k - 1]>>]

RunsTo(result, n, T, base, step) ==
  \E r \in [0..n -> T] : IsRun(r, n, base, step) /\ r[n] = result

\* The run of a fold: the values it goes through, from the first entry to the last.
LEMMA FoldRuns ==
  ASSUME NEW n \in Nat, NEW T, NEW base \in T, NEW step \in [(1..n) \X T -> T], NEW fold,
         Follows(fold, n, T, base, step)
  PROVE  RunsTo(fold[1..n], n, T, base, step)
<1> DEFINE r == [k \in 0..n |-> fold[1..k]]
           P == {k \in 0..n : fold[1..k] \in T}
<1>1. 1..0 = {} /\ 0 \in 0..n /\ n \in 0..n
  OBVIOUS
<1>2. ASSUME NEW k \in 1..n, fold[1..(k - 1)] \in T
      PROVE  fold[1..k] = step[<<k, fold[1..(k - 1)]>>]
  BY <1>2, OneAtATime DEF Follows
<1>3. \A k \in 1..n : k \in 0..n /\ k - 1 \in 0..n
  OBVIOUS
<1>4. \A k \in 0..n : k \in P
  <2>1. 0 \in P
    BY <1>1 DEF Follows
  <2>2. ASSUME NEW k \in 1..n, k - 1 \in P PROVE k \in P
    BY <1>2, <1>3, <2>2
  <2> HIDE DEF P
  <2> QED
    BY <2>1, <2>2, HoldsAlong
<1>5. r \in [0..n -> T]
  BY <1>4
<1>6. \A k \in 1..n : r[k] = step[<<k, r[k - 1]>>]
  BY <1>2, <1>3, <1>4
<1>7. r[0] = base /\ r[n] = fold[1..n]
  BY <1>1 DEF Follows
<1> HIDE DEF r
<1> QED
  BY <1>5, <1>6, <1>7 DEF IsRun, RunsTo

\* Every step has a run: definition by recursion.
LEMMA RunExists ==
  ASSUME NEW n \in Nat, NEW T, NEW base \in T, NEW step \in [(1..n) \X T -> T]
  PROVE  \E r \in [0..n -> T] : IsRun(r, n, base, step)
<1>1. PICK g \in [SUBSET (1..n) -> T] : IsPositionFold(g, n, base, step)
  BY PositionFold
<1>2. {} \in SUBSET (1..n)
  OBVIOUS
<1>3. Follows(g, n, T, base, step)
  BY <1>1, <1>2 DEF IsPositionFold, Follows
<1>4. RunsTo(g[1..n], n, T, base, step)
  BY <1>3, FoldRuns
<1> QED
  BY <1>4 DEF RunsTo
=============================================================================
