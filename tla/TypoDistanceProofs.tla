-------------------------- MODULE TypoDistanceProofs ---------------------------
(***************************************************************************)
(* Proofs about TypoDistance, for words over any alphabet, of any lengths.   *)
(***************************************************************************)
EXTENDS TypoDistance, FoldLemmas

-----------------------------------------------------------------------------
(* The table of distances between the prefixes of two words. *)

Cost(a, b, i, j) == IF a[i] = b[j] THEN 0 ELSE 1

\* A table of distances: each entry is the least of what the entries beside it allow.
IsTable(t, a, m, b, n) ==
  /\ t \in [0..m -> [0..n -> Int]]
  /\ t[0][0] = 0
  /\ \A i \in 0..m, j \in 0..n :
       /\ i > 0 => t[i][j] <= t[i - 1][j] + 1
       /\ j > 0 => t[i][j] <= t[i][j - 1] + 1
       /\ i > 0 /\ j > 0 => t[i][j] <= t[i - 1][j - 1] + Cost(a, b, i, j)
       /\ i > 0 \/ j > 0 =>
            \/ i > 0 /\ t[i][j] = t[i - 1][j] + 1
            \/ j > 0 /\ t[i][j] = t[i][j - 1] + 1
            \/ i > 0 /\ j > 0 /\ t[i][j] = t[i - 1][j - 1] + Cost(a, b, i, j)

\* What holds of an entry once it holds of those beside it holds of them all.
Spreads(P, m, n) ==
  \A i \in 0..m, j \in 0..n :
    /\ i > 0 => <<i - 1, j>> \in P
    /\ j > 0 => <<i, j - 1>> \in P
    /\ i > 0 /\ j > 0 => <<i - 1, j - 1>> \in P
    => <<i, j>> \in P

LEMMA AcrossTable ==
  ASSUME NEW m \in Nat, NEW n \in Nat, NEW P, Spreads(P, m, n)
  PROVE  \A i \in 0..m, j \in 0..n : <<i, j>> \in P
<1> DEFINE Q == {s \in Nat : \A i \in 0..m, j \in 0..n : i + j <= s => <<i, j>> \in P}
<1>1. 0 \in Q
  <2> SUFFICES ASSUME NEW i \in 0..m, NEW j \in 0..n, i + j <= 0 PROVE <<i, j>> \in P
    OBVIOUS
  <2>1. ~(i > 0) /\ ~(j > 0)
    OBVIOUS
  <2> QED
    BY <2>1, Zenon DEF Spreads
<1>2. ASSUME NEW s \in Nat, s \in Q PROVE s + 1 \in Q
  <2> SUFFICES ASSUME NEW i \in 0..m, NEW j \in 0..n, i + j <= s + 1 PROVE <<i, j>> \in P
    OBVIOUS
  <2>1. /\ i > 0 => i - 1 \in 0..m /\ (i - 1) + j <= s
        /\ j > 0 => j - 1 \in 0..n /\ i + (j - 1) <= s
        /\ i > 0 /\ j > 0 => (i - 1) + (j - 1) <= s
    OBVIOUS
  <2>2. /\ i > 0 => <<i - 1, j>> \in P
        /\ j > 0 => <<i, j - 1>> \in P
        /\ i > 0 /\ j > 0 => <<i - 1, j - 1>> \in P
    BY <1>2, <2>1
  <2> QED
    BY <2>2, Zenon DEF Spreads
<1> HIDE DEF Q
<1>3. \A s \in Nat : s \in Q
  BY <1>1, <1>2, Induction
<1>4. ASSUME NEW i \in 0..m, NEW j \in 0..n PROVE <<i, j>> \in P
  <2>1. i + j \in Nat /\ i + j \in Q
    BY <1>3
  <2> QED
    BY <2>1 DEF Q
<1> QED
  BY <1>4

\* A distance is at least the difference of the lengths, and a word is at no distance
\* from itself.
LEMMA DistanceOfLengths ==
  ASSUME NEW a, NEW b, NEW m \in Nat, NEW n \in Nat, NEW t, IsTable(t, a, m, b, n)
  PROVE  \A i \in 0..m, j \in 0..n : t[i][j] \in Int /\ t[i][j] >= Distance(i, j)
<1> DEFINE P == {p \in (0..m) \X (0..n) : t[p[1]][p[2]] >= Distance(p[1], p[2])}
<1>0. \A i \in 0..m, j \in 0..n : t[i][j] \in Int
  BY DEF IsTable
<1>1. Spreads(P, m, n)
  <2> SUFFICES ASSUME NEW i \in 0..m, NEW j \in 0..n,
                      i > 0 => <<i - 1, j>> \in P,
                      j > 0 => <<i, j - 1>> \in P,
                      i > 0 /\ j > 0 => <<i - 1, j - 1>> \in P
               PROVE  t[i][j] >= Distance(i, j)
    BY DEF Spreads
  <2>1. /\ i > 0 => i - 1 \in 0..m /\ t[i - 1][j] >= Distance(i - 1, j) /\ t[i - 1][j] \in Int
        /\ j > 0 => j - 1 \in 0..n /\ t[i][j - 1] >= Distance(i, j - 1) /\ t[i][j - 1] \in Int
        /\ i > 0 /\ j > 0 => t[i - 1][j - 1] >= Distance(i - 1, j - 1) /\ t[i - 1][j - 1] \in Int
    BY <1>0
  <2>2. \/ i = 0 /\ j = 0 /\ t[i][j] = 0
        \/ i > 0 /\ t[i][j] = t[i - 1][j] + 1
        \/ j > 0 /\ t[i][j] = t[i][j - 1] + 1
        \/ i > 0 /\ j > 0 /\ t[i][j] = t[i - 1][j - 1] + Cost(a, b, i, j)
    BY DEF IsTable
  <2> HIDE DEF P
  <2>3. /\ Distance(i, j) \in Nat /\ Cost(a, b, i, j) \in {0, 1}
        /\ i = 0 /\ j = 0 => Distance(i, j) = 0
        /\ i > 0 => Distance(i - 1, j) \in Nat /\ Distance(i - 1, j) + 1 >= Distance(i, j)
        /\ j > 0 => Distance(i, j - 1) \in Nat /\ Distance(i, j - 1) + 1 >= Distance(i, j)
        /\ Distance(i - 1, j - 1) = Distance(i, j)
    BY DEF Distance, Cost
  <2>4. CASE i > 0 /\ t[i][j] = t[i - 1][j] + 1
    BY <2>1, <2>3, <2>4
  <2>5. CASE j > 0 /\ t[i][j] = t[i][j - 1] + 1
    BY <2>1, <2>3, <2>5
  <2>6. CASE i > 0 /\ j > 0 /\ t[i][j] = t[i - 1][j - 1] + Cost(a, b, i, j)
    <3>1. Cost(a, b, i, j) >= 0 /\ Cost(a, b, i, j) \in Int
      BY <2>3
    <3> QED
      BY <2>1, <2>3, <2>6, <3>1
  <2> QED
    BY <2>2, <2>3, <2>4, <2>5, <2>6
<1> HIDE DEF P
<1>2. \A i \in 0..m, j \in 0..n : <<i, j>> \in P
  BY <1>1, AcrossTable
<1> QED
  BY <1>0, <1>2 DEF P

LEMMA NoDistanceFromItself ==
  ASSUME NEW a, NEW m \in Nat, NEW t, IsTable(t, a, m, a, m)
  PROVE  t[m][m] <= 0
<1> DEFINE P == {k \in 0..m : t[k][k] <= 0}
<1>1. 0 \in P
  BY DEF IsTable
<1>2. ASSUME NEW k \in 1..m, k - 1 \in P PROVE k \in P
  <2>1. k \in 0..m /\ k - 1 \in 0..m /\ k > 0 /\ t[k][k] \in Int /\ t[k - 1][k - 1] \in Int
    <3>1. k \in 0..m /\ k - 1 \in 0..m /\ k > 0
      OBVIOUS
    <3> QED
      BY <3>1 DEF IsTable
  <2>2. t[k][k] <= t[k - 1][k - 1] + Cost(a, a, k, k)
    BY <2>1 DEF IsTable
  <2> QED
    BY <1>2, <2>1, <2>2 DEF Cost
<1> HIDE DEF P
<1>3. \A k \in 0..m : k \in P
  BY <1>1, <1>2, HoldsAlong
<1> QED
  BY <1>3 DEF P

-----------------------------------------------------------------------------
(* An edit of one letter moves the last entry of the table by one at most. *)

\* v is u with the p letters after the k-th replaced by q letters, p and q at most one.
EditedAt(u, n, v, o, k, p, q) ==
  /\ k + p <= n /\ o = n - p + q
  /\ \A j \in 1..k : v[j] = u[j]
  /\ \A j \in (k + p + 1)..n : v[j + q - p] = u[j]

LEMMA EntryFacts ==
  ASSUME NEW a, NEW b, NEW m \in Nat, NEW n \in Nat, NEW t, IsTable(t, a, m, b, n),
         NEW i \in 0..m, NEW j \in 0..n
  PROVE  /\ t[i][j] \in Int
         /\ i > 0 => t[i - 1][j] \in Int /\ t[i][j] <= t[i - 1][j] + 1
         /\ j > 0 => t[i][j - 1] \in Int /\ t[i][j] <= t[i][j - 1] + 1
         /\ i > 0 /\ j > 0 => /\ t[i - 1][j - 1] \in Int
                              /\ t[i][j] <= t[i - 1][j - 1] + Cost(a, b, i, j)
         /\ \/ i = 0 /\ j = 0
            \/ i > 0 /\ t[i][j] = t[i - 1][j] + 1
            \/ j > 0 /\ t[i][j] = t[i][j - 1] + 1
            \/ i > 0 /\ j > 0 /\ t[i][j] = t[i - 1][j - 1] + Cost(a, b, i, j)
         /\ Cost(a, b, i, j) \in Nat /\ Cost(a, b, i, j) <= 1
<1>1. \A x \in 0..m, y \in 0..n : t[x][y] \in Int
  BY DEF IsTable
<1>2. (i > 0 => i - 1 \in 0..m) /\ (j > 0 => j - 1 \in 0..n)
  OBVIOUS
<1>3. /\ t[i][j] \in Int
      /\ i > 0 => t[i - 1][j] \in Int
      /\ j > 0 => t[i][j - 1] \in Int
      /\ i > 0 /\ j > 0 => t[i - 1][j - 1] \in Int
  BY <1>1, <1>2
<1>4. /\ i > 0 => t[i][j] <= t[i - 1][j] + 1
      /\ j > 0 => t[i][j] <= t[i][j - 1] + 1
      /\ i > 0 /\ j > 0 => t[i][j] <= t[i - 1][j - 1] + Cost(a, b, i, j)
      /\ i > 0 \/ j > 0 =>
           \/ i > 0 /\ t[i][j] = t[i - 1][j] + 1
           \/ j > 0 /\ t[i][j] = t[i][j - 1] + 1
           \/ i > 0 /\ j > 0 /\ t[i][j] = t[i - 1][j - 1] + Cost(a, b, i, j)
  BY DEF IsTable
<1>5. Cost(a, b, i, j) \in Nat /\ Cost(a, b, i, j) <= 1
  BY DEF Cost
<1>6. i > 0 \/ j > 0 \/ (i = 0 /\ j = 0)
  OBVIOUS
<1> HIDE DEF Cost
<1> QED
  BY <1>3, <1>4, <1>5, <1>6

LEMMA EntryType ==
  ASSUME NEW a, NEW b, NEW m \in Nat, NEW n \in Nat, NEW t, IsTable(t, a, m, b, n),
         NEW i \in 0..m, NEW j \in 0..n
  PROVE  t[i][j] \in Int
  BY EntryFacts

\* Where an entry of a row comes from.
Comes(t, a, b, i, j) ==
  \/ i > 0 /\ t[i][j] = t[i - 1][j] + 1
  \/ t[i][j] = t[i][j - 1] + 1
  \/ i > 0 /\ t[i][j] = t[i - 1][j - 1] + Cost(a, b, i, j)

LEMMA EntryFrom ==
  ASSUME NEW a, NEW b, NEW m \in Nat, NEW n \in Nat, NEW t, IsTable(t, a, m, b, n),
         NEW i \in 0..m, NEW j \in 1..n
  PROVE  Comes(t, a, b, i, j)
<1>1. j \in 0..n /\ j > 0
  OBVIOUS
<1>2. \A x \in 0..m, y \in 0..n :
        x > 0 \/ y > 0 =>
          \/ x > 0 /\ t[x][y] = t[x - 1][y] + 1
          \/ y > 0 /\ t[x][y] = t[x][y - 1] + 1
          \/ x > 0 /\ y > 0 /\ t[x][y] = t[x - 1][y - 1] + Cost(a, b, x, y)
  BY DEF IsTable
<1> HIDE DEF Cost
<1>3. \/ i > 0 /\ t[i][j] = t[i - 1][j] + 1
      \/ j > 0 /\ t[i][j] = t[i][j - 1] + 1
      \/ i > 0 /\ j > 0 /\ t[i][j] = t[i - 1][j - 1] + Cost(a, b, i, j)
  BY <1>1, <1>2, Zenon
<1> QED
  BY <1>3, Zenon DEF Comes

LEMMA FirstColumnValue ==
  ASSUME NEW a, NEW b, NEW m \in Nat, NEW n \in Nat, NEW t, IsTable(t, a, m, b, n)
  PROVE  \A i \in 0..m : t[i][0] = i
<1> DEFINE P == {i \in 0..m : t[i][0] = i}
<1>1. 0 \in P
  BY DEF IsTable
<1>2. ASSUME NEW i \in 1..m, i - 1 \in P PROVE i \in P
  <2>1. i \in 0..m /\ i > 0 /\ i - 1 \in 0..m /\ 0 \in 0..n
    OBVIOUS
  <2>2. t[i][0] = t[i - 1][0] + 1
    <3>1. ~(0 > 0)
      OBVIOUS
    <3>2. \A x \in 0..m, y \in 0..n :
            x > 0 \/ y > 0 =>
              \/ x > 0 /\ t[x][y] = t[x - 1][y] + 1
              \/ y > 0 /\ t[x][y] = t[x][y - 1] + 1
              \/ x > 0 /\ y > 0 /\ t[x][y] = t[x - 1][y - 1] + Cost(a, b, x, y)
      BY DEF IsTable
    <3> HIDE DEF Cost
    <3> QED
      BY <2>1, <3>1, <3>2, Zenon
  <2> QED
    BY <1>2, <2>1, <2>2
<1> HIDE DEF P
<1>3. \A i \in 0..m : i \in P
  BY <1>1, <1>2, HoldsAlong
<1> QED
  BY <1>3 DEF P

LEMMA EntryBound ==
  ASSUME NEW a, NEW b, NEW m \in Nat, NEW n \in Nat, NEW t, IsTable(t, a, m, b, n)
  PROVE  /\ \A i \in 1..m, j \in 0..n : t[i][j] <= t[i - 1][j] + 1
         /\ \A i \in 0..m, j \in 1..n : t[i][j] <= t[i][j - 1] + 1
         /\ \A i \in 1..m, j \in 1..n : t[i][j] <= t[i - 1][j - 1] + 1
<1>1. ASSUME NEW i \in 1..m, NEW j \in 0..n PROVE t[i][j] <= t[i - 1][j] + 1
  <2>1. i \in 0..m /\ i > 0
    OBVIOUS
  <2> QED
    BY <2>1, EntryFacts, Zenon
<1>2. ASSUME NEW i \in 0..m, NEW j \in 1..n PROVE t[i][j] <= t[i][j - 1] + 1
  <2>1. j \in 0..n /\ j > 0
    OBVIOUS
  <2> QED
    BY <2>1, EntryFacts, Zenon
<1>3. ASSUME NEW i \in 1..m, NEW j \in 1..n PROVE t[i][j] <= t[i - 1][j - 1] + 1
  <2>1. i \in 0..m /\ i > 0 /\ j \in 0..n /\ j > 0
    OBVIOUS
  <2>2. /\ t[i][j] \in Int /\ t[i - 1][j - 1] \in Int
        /\ t[i][j] <= t[i - 1][j - 1] + Cost(a, b, i, j)
        /\ Cost(a, b, i, j) \in Nat /\ Cost(a, b, i, j) <= 1
    BY <2>1, EntryFacts
  <2> QED
    BY <2>2
<1> QED
  BY <1>1, <1>2, <1>3

\* One cost more on each of two entries keeps them as close as they were.
LEMMA CostKeepsClose ==
  ASSUME NEW p \in Int, NEW q \in Int, NEW r \in Int, NEW c \in Nat, NEW e \in Nat,
         p <= q + c, q <= r + e
  PROVE  p <= (r + c) + e
OBVIOUS

\* Where two words have the same letter, their tables keep as close as they were.
LEMMA KeepsClose ==
  ASSUME NEW a, NEW u, NEW v, NEW m \in Nat, NEW n \in Nat, NEW o \in Nat,
         NEW t, IsTable(t, a, m, u, n), NEW s, IsTable(s, a, m, v, o),
         NEW i \in 0..m, NEW x \in 1..n, NEW y \in 1..o, u[x] = v[y],
         NEW e \in Nat,
         i > 0 => s[i - 1][y] <= t[i - 1][x] + e,
         s[i][y - 1] <= t[i][x - 1] + e,
         i > 0 => s[i - 1][y - 1] <= t[i - 1][x - 1] + e
  PROVE  s[i][y] <= t[i][x] + e
<1>1. x \in 0..n /\ y \in 0..o /\ x > 0 /\ y > 0
  OBVIOUS
<1> DEFINE Cells(r, w, z) ==
             /\ r[i][z] \in Int
             /\ i > 0 => r[i - 1][z] \in Int /\ r[i][z] <= r[i - 1][z] + 1
             /\ z > 0 => r[i][z - 1] \in Int /\ r[i][z] <= r[i][z - 1] + 1
             /\ i > 0 /\ z > 0 => /\ r[i - 1][z - 1] \in Int
                                  /\ r[i][z] <= r[i - 1][z - 1] + Cost(a, w, i, z)
<1>2. Cells(t, u, x)
  BY <1>1, EntryFacts, Zenon
<1>3. Cells(s, v, y)
  BY <1>1, EntryFacts, Zenon
<1>4. CASE i > 0 /\ t[i][x] = t[i - 1][x] + 1
  <2>1. /\ t[i - 1][x] \in Int /\ s[i][y] \in Int /\ s[i - 1][y] \in Int
        /\ s[i][y] <= s[i - 1][y] + 1
    BY <1>1, <1>2, <1>3, <1>4, Zenon
  <2>2. s[i - 1][y] <= t[i - 1][x] + e /\ 1 \in Nat
    BY <1>4
  <2>3. s[i][y] <= (t[i - 1][x] + 1) + e
    BY <2>1, <2>2, CostKeepsClose, Zenon
  <2> QED
    BY <1>4, <2>3, Zenon
<1>5. CASE t[i][x] = t[i][x - 1] + 1
  <2>1. /\ t[i][x - 1] \in Int /\ s[i][y] \in Int /\ s[i][y - 1] \in Int
        /\ s[i][y] <= s[i][y - 1] + 1
    BY <1>1, <1>2, <1>3, Zenon
  <2>2. s[i][y] <= (t[i][x - 1] + 1) + e
    BY <2>1, 1 \in Nat, CostKeepsClose, Zenon
  <2> QED
    BY <1>5, <2>2, Zenon
<1>6. CASE i > 0 /\ t[i][x] = t[i - 1][x - 1] + Cost(a, u, i, x)
  <2>1. /\ t[i - 1][x - 1] \in Int /\ s[i][y] \in Int /\ s[i - 1][y - 1] \in Int
        /\ s[i][y] <= s[i - 1][y - 1] + Cost(a, v, i, y)
    BY <1>1, <1>2, <1>3, <1>6, Zenon
  <2>2. PICK c \in Nat : Cost(a, v, i, y) = c /\ Cost(a, u, i, x) = c
    BY DEF Cost
  <2>3. s[i][y] <= s[i - 1][y - 1] + c /\ s[i - 1][y - 1] <= t[i - 1][x - 1] + e
    BY <1>6, <2>1, <2>2, Zenon
  <2>4. /\ t[i - 1][x - 1] \in Int /\ s[i][y] \in Int /\ s[i - 1][y - 1] \in Int
        /\ c \in Nat /\ e \in Nat
    BY <2>1, Zenon
  <2>5. s[i][y] <= (t[i - 1][x - 1] + c) + e
    BY ONLY <2>3, <2>4
  <2> QED
    BY <1>6, <2>2, <2>5, Zenon
<1>7. Comes(t, a, u, i, x)
  BY EntryFrom
<1> QED
  BY <1>4, <1>5, <1>6, <1>7 DEF Comes

\* Column y of table s exceeds column x of table t by e at most.
Within(s, y, t, x, m, e) == \A i \in 0..m : s[i][y] <= t[i][x] + e

\* Along letters that two words share, however far apart they start.
LEMMA StaysClose ==
  ASSUME NEW a, NEW u, NEW v, NEW m \in Nat, NEW n \in Nat, NEW o \in Nat,
         NEW t, IsTable(t, a, m, u, n), NEW s, IsTable(s, a, m, v, o),
         NEW x \in Nat, NEW y \in Nat, NEW c \in Nat, x + c <= n, y + c <= o,
         \A j \in 1..c : u[x + j] = v[y + j],
         NEW e \in Nat, Within(s, y, t, x, m, e)
  PROVE  \A j \in 0..c : Within(s, y + j, t, x + j, m, e)
<1> DEFINE P == {p \in (0..m) \X (0..c) : s[p[1]][y + p[2]] <= t[p[1]][x + p[2]] + e}
<1>1. ASSUME NEW i \in 0..m, NEW j \in 0..c,
             i > 0 => <<i - 1, j>> \in P,
             j > 0 => <<i, j - 1>> \in P,
             i > 0 /\ j > 0 => <<i - 1, j - 1>> \in P
      PROVE  <<i, j>> \in P
  <2>1. CASE j = 0
    <3>1. x + j = x /\ y + j = y
      BY <2>1
    <3>2. s[i][y + j] <= t[i][x + j] + e
      BY <3>1 DEF Within
    <3> QED
      BY <3>2
  <2>2. CASE j > 0
    <3>1. /\ x + j \in 1..n /\ y + j \in 1..o /\ u[x + j] = v[y + j]
          /\ x + (j - 1) = (x + j) - 1 /\ y + (j - 1) = (y + j) - 1
      BY <2>2
    <3>2. /\ i > 0 => s[i - 1][y + j] <= t[i - 1][x + j] + e
          /\ s[i][(y + j) - 1] <= t[i][(x + j) - 1] + e
          /\ i > 0 => s[i - 1][(y + j) - 1] <= t[i - 1][(x + j) - 1] + e
      BY <1>1, <2>2, <3>1
    <3> HIDE DEF P
    <3> DEFINE x1 == x + j
               y1 == y + j
    <3>3. /\ x1 \in 1..n /\ y1 \in 1..o /\ u[x1] = v[y1]
          /\ i > 0 => s[i - 1][y1] <= t[i - 1][x1] + e
          /\ s[i][y1 - 1] <= t[i][x1 - 1] + e
          /\ i > 0 => s[i - 1][y1 - 1] <= t[i - 1][x1 - 1] + e
      BY <3>1, <3>2
    <3> HIDE DEF x1, y1
    <3>4. s[i][y1] <= t[i][x1] + e
      BY <3>3, KeepsClose
    <3> QED
      BY <3>4 DEF P, x1, y1
  <2> QED
    BY <2>1, <2>2
<1>2. Spreads(P, m, c)
  BY <1>1, Zenon DEF Spreads
<1> HIDE DEF P
<1>3. \A i \in 0..m, j \in 0..c : <<i, j>> \in P
  BY <1>2, AcrossTable
<1> QED
  BY <1>3 DEF P, Within

LEMMA FirstColumn ==
  ASSUME NEW a, NEW u, NEW v, NEW m \in Nat, NEW n \in Nat, NEW o \in Nat,
         NEW t, IsTable(t, a, m, u, n), NEW s, IsTable(s, a, m, v, o)
  PROVE  Within(s, 0, t, 0, m, 0)
<1>1. ASSUME NEW i \in 0..m PROVE s[i][0] <= t[i][0] + 0
  <2>1. s[i][0] = i /\ t[i][0] = i
    BY FirstColumnValue
  <2> QED
    BY <2>1
<1> QED
  BY <1>1 DEF Within

StaysOrMoves(k, x) == x = k \/ x = k + 1

\* Across the edit itself: from column k of both tables to column x of one and y of the other.
LEMMA AcrossEdit ==
  ASSUME NEW a, NEW u, NEW v, NEW m \in Nat, NEW n \in Nat, NEW o \in Nat,
         NEW t, IsTable(t, a, m, u, n), NEW s, IsTable(s, a, m, v, o),
         NEW k \in Nat, NEW x \in Nat, NEW y \in Nat, x <= n, y <= o,
         StaysOrMoves(k, x), StaysOrMoves(k, y),
         Within(s, k, t, k, m, 0)
  PROVE  Within(s, y, t, x, m, 1)
<1> DEFINE P == {i \in 0..m : s[i][y] <= t[i][x] + 1}
<1>1. /\ k \in 0..n /\ k \in 0..o /\ x \in 0..n /\ y \in 0..o
      /\ y = k \/ (y \in 1..o /\ y - 1 = k)
      /\ x = k \/ (x \in 1..n /\ x - 1 = k)
  BY DEF StaysOrMoves
<1>2. \A i \in 0..m : s[i][k] \in Int /\ s[i][y] \in Int
  BY <1>1, EntryType
<1>3. \A i \in 0..m : t[i][k] \in Int /\ t[i][x] \in Int
  BY <1>1, EntryType
<1>4. \A i \in 0..m : s[i][k] <= t[i][k]
  BY <1>2, <1>3 DEF Within
<1>5. \A i \in 0..m : s[i][y] <= s[i][k] + 1
  <2>1. CASE y = k
    BY <1>2, <2>1
  <2>2. CASE y \in 1..o /\ y - 1 = k
    <3>1. \A i \in 0..m : s[i][y] <= s[i][y - 1] + 1
      BY <2>2, EntryBound
    <3> QED
      BY <2>2, <3>1
  <2> QED
    BY <1>1, <2>1, <2>2
<1>6. \A i \in 1..m : s[i][y] <= s[i - 1][y] + 1
  BY <1>1, EntryBound
<1>7. \A i \in 1..m : s[i][y] <= s[i - 1][k] + 1
  <2>1. CASE y = k
    BY <1>6, <2>1
  <2>2. CASE y \in 1..o /\ y - 1 = k
    <3>1. \A i \in 1..m : s[i][y] <= s[i - 1][y - 1] + 1
      BY <2>2, EntryBound
    <3> QED
      BY <2>2, <3>1
  <2> QED
    BY <1>1, <2>1, <2>2
<1>8. \A i \in 0..m : t[i][k] <= t[i][x] => i \in P
  <2> TAKE i \in 0..m
  <2>1. s[i][y] \in Int /\ s[i][k] \in Int /\ t[i][k] \in Int /\ t[i][x] \in Int
        /\ s[i][k] <= t[i][k] /\ s[i][y] <= s[i][k] + 1
    BY <1>2, <1>3, <1>4, <1>5
  <2> QED
    BY <2>1
<1>9. CASE x = k
  <2>1. \A i \in 0..m : t[i][k] <= t[i][x]
    BY <1>3, <1>9
  <2>2. \A i \in 0..m : i \in P
    BY <1>8, <2>1
  <2> QED
    BY <2>2 DEF Within
<1>10. CASE x \in 1..n /\ x - 1 = k
  <2>1. ASSUME NEW i \in 0..m
        PROVE  \/ i > 0 /\ t[i][x] = t[i - 1][x] + 1
               \/ t[i][x] = t[i][k] + 1
               \/ i > 0 /\ t[i][x] = t[i - 1][k] + Cost(a, u, i, x)
    <3>1. Comes(t, a, u, i, x)
      BY <1>10, EntryFrom
    <3> QED
      BY <1>10, <3>1 DEF Comes
  <2>2. 0 \in P
    <3>1. 0 \in 0..m
      OBVIOUS
    <3>2. t[0][x] = t[0][k] + 1
      BY <2>1, <3>1
    <3>3. t[0][k] <= t[0][x]
      BY <1>3, <3>1, <3>2
    <3> QED
      BY <1>8, <3>1, <3>3
  <2>3. ASSUME NEW i \in 1..m, i - 1 \in P PROVE i \in P
    <3>1. i \in 0..m /\ i > 0 /\ i - 1 \in 0..m
      OBVIOUS
    <3>2. s[i][y] \in Int /\ s[i - 1][y] \in Int /\ s[i - 1][k] \in Int
      BY <1>2, <3>1
    <3>3. t[i][x] \in Int /\ t[i - 1][x] \in Int /\ t[i - 1][k] \in Int /\ t[i][k] \in Int
      BY <1>3, <3>1
    <3>4. CASE t[i][x] = t[i - 1][x] + 1
      <4>1. s[i][y] <= s[i - 1][y] + 1 /\ s[i - 1][y] <= t[i - 1][x] + 1
        BY <1>6, <2>3
      <4>2. s[i][y] <= t[i][x] + 1
        BY <3>2, <3>3, <3>4, <4>1
      <4> QED
        BY <3>1, <4>2
    <3>5. CASE t[i][x] = t[i][k] + 1
      <4>1. t[i][k] <= t[i][x]
        BY <3>3, <3>5
      <4> QED
        BY <1>8, <3>1, <4>1
    <3>6. CASE t[i][x] = t[i - 1][k] + Cost(a, u, i, x)
      <4>1. s[i][y] <= s[i - 1][k] + 1 /\ s[i - 1][k] <= t[i - 1][k]
        BY <1>4, <1>7, <3>1
      <4>2. Cost(a, u, i, x) \in Nat
        BY DEF Cost
      <4>3. t[i - 1][k] <= t[i][x]
        BY <3>3, <3>6, <4>2
      <4>4. s[i][y] <= t[i][x] + 1
        BY <3>2, <3>3, <4>1, <4>3
      <4> QED
        BY <3>1, <4>4
    <3> QED
      BY <2>1, <3>1, <3>4, <3>5, <3>6
  <2> HIDE DEF P
  <2>4. \A i \in 0..m : i \in P
    BY <2>2, <2>3, HoldsAlong
  <2> QED
    BY <2>4 DEF P, Within
<1> QED
  BY <1>1, <1>9, <1>10

\* An edit of one letter changes the distance from any word by one at most.
LEMMA OneEditFurther ==
  ASSUME NEW a, NEW u, NEW v, NEW m \in Nat, NEW n \in Nat, NEW o \in Nat,
         NEW t, IsTable(t, a, m, u, n), NEW s, IsTable(s, a, m, v, o),
         NEW k \in Nat, NEW p \in {0, 1}, NEW q \in {0, 1}, EditedAt(u, n, v, o, k, p, q)
  PROVE  s[m][o] <= t[m][n] + 1
<1> DEFINE c == n - (k + p)
           x == k + p
           y == k + q
<1>2. /\ c \in Nat /\ x \in Nat /\ y \in Nat /\ x + c = n /\ y + c = o
      /\ x \in {k, k + 1} /\ y \in {k, k + 1} /\ k <= n /\ k <= o
  BY DEF EditedAt
<1>3. \A j \in 1..k : u[0 + j] = v[0 + j]
  BY DEF EditedAt
<1>4. ASSUME NEW j \in 1..c PROVE u[x + j] = v[y + j]
  <2>1. x + j \in (k + p + 1)..n /\ (x + j) + q - p = y + j
    BY <1>2
  <2> QED
    BY <2>1 DEF EditedAt
<1> HIDE DEF c, x, y
<1>5. Within(s, k, t, k, m, 0)
  <2>1. 0 + k <= n /\ 0 + k <= o /\ k \in 0..k /\ 0 + k = k /\ 0 \in Nat
    BY <1>2
  <2>2. Within(s, 0, t, 0, m, 0)
    BY FirstColumn
  <2>3. Within(s, 0 + k, t, 0 + k, m, 0)
    BY <1>3, <2>1, <2>2, StaysClose
  <2> QED
    BY <2>1, <2>3
<1>6. Within(s, y, t, x, m, 1)
  <2>1. x <= n /\ y <= o
    BY <1>2
  <2> QED
    BY <1>2, <1>5, <2>1, AcrossEdit DEF StaysOrMoves
<1>7. Within(s, y + c, t, x + c, m, 1)
  <2>1. x + c <= n /\ y + c <= o /\ c \in 0..c /\ 1 \in Nat /\ c \in Nat /\ x \in Nat /\ y \in Nat
    BY <1>2
  <2>2. \A j \in 1..c : u[x + j] = v[y + j]
    BY <1>4
  <2>3. \A j \in 0..c : Within(s, y + j, t, x + j, m, 1)
    BY <1>6, <2>1, <2>2, StaysClose
  <2> QED
    BY <2>1, <2>3
<1>8. m \in 0..m
  OBVIOUS
<1> QED
  BY <1>2, <1>7, <1>8 DEF Within

-----------------------------------------------------------------------------
(* Edits of prefixes, and the words between two of them. *)

\* Being edited once looks at the second word up to its length only: another
\* word with the same letters up to there is edited at the same place.
LEMMA EditedAtAgrees ==
  ASSUME NEW u, NEW v, NEW w, NEW n \in Nat, NEW o \in Nat,
         NEW k \in Nat, NEW p \in {0, 1}, NEW q \in {0, 1}, EditedAt(u, n, v, o, k, p, q),
         \A x \in 1..o : w[x] = v[x]
  PROVE  EditedAt(u, n, w, o, k, p, q)
<1>1. k + p <= n /\ o = n - p + q
  BY DEF EditedAt
<1>2. \A j \in 1..k : w[j] = u[j]
  <2> TAKE j \in 1..k
  <2>1. j \in 1..o
    BY <1>1
  <2>2. v[j] = u[j]
    BY DEF EditedAt
  <2>3. w[j] = v[j]
    BY ONLY <2>1, \A x \in 1..o : w[x] = v[x], Zenon
  <2> QED
    BY ONLY <2>2, <2>3, Zenon
<1>3. \A j \in (k + p + 1)..n : w[j + q - p] = u[j]
  <2> TAKE j \in (k + p + 1)..n
  <2>1. j + q - p \in 1..o
    BY <1>1
  <2>2. v[j + q - p] = u[j]
    BY DEF EditedAt
  <2>3. w[j + q - p] = v[j + q - p]
    BY ONLY <2>1, \A x \in 1..o : w[x] = v[x], Zenon
  <2> QED
    BY ONLY <2>2, <2>3, Zenon
<1> QED
  BY ONLY <1>1, <1>2, <1>3, Zenon DEF EditedAt

\* The first o letters of v are those first n of u after one edit at most.
EditedUpTo(u, n, v, o) == \E k \in Nat, p, q \in {0, 1} : EditedAt(u, n, v, o, k, p, q)

\* One edit from either side meets in the middle.
MeetUpTo(V, u, n, v, o) ==
  \E l \in Nat : \E w \in [1..l -> V] : EditedUpTo(u, n, w, l) /\ EditedUpTo(v, o, w, l)

LEMMA EditGrows ==
  ASSUME NEW u, NEW v, NEW n \in Nat, NEW o \in Nat, EditedUpTo(u, n, v, o),
         u[n + 1] = v[o + 1]
  PROVE  EditedUpTo(u, n + 1, v, o + 1)
<1>1. PICK k \in Nat, p \in {0, 1}, q \in {0, 1} : EditedAt(u, n, v, o, k, p, q)
  BY DEF EditedUpTo
<1>2. k + p <= n + 1 /\ o + 1 = (n + 1) - p + q
  BY <1>1 DEF EditedAt
<1>3. ASSUME NEW j \in (k + p + 1)..(n + 1) PROVE v[j + q - p] = u[j]
  <2>1. CASE j = n + 1
    <3>1. j + q - p = o + 1
      BY <1>2, <2>1
    <3> QED
      BY <2>1, <3>1
  <2>2. CASE j # n + 1
    <3>1. j \in (k + p + 1)..n
      BY <2>2
    <3> QED
      BY <1>1, <3>1 DEF EditedAt
  <2> QED
    BY <2>1, <2>2
<1>4. EditedAt(u, n + 1, v, o + 1, k, p, q)
  BY <1>1, <1>2, <1>3 DEF EditedAt
<1> QED
  BY <1>4 DEF EditedUpTo

LEMMA EditTurns ==
  ASSUME NEW u, NEW v, NEW n \in Nat, NEW o \in Nat, EditedUpTo(u, n, v, o)
  PROVE  EditedUpTo(v, o, u, n)
<1>1. PICK k \in Nat, p \in {0, 1}, q \in {0, 1} : EditedAt(u, n, v, o, k, p, q)
  BY DEF EditedUpTo
<1>2. k + q <= o /\ n = o - q + p
  BY <1>1 DEF EditedAt
<1>3. ASSUME NEW j \in (k + q + 1)..o PROVE u[j + p - q] = v[j]
  <2>1. j + p - q \in (k + p + 1)..n /\ (j + p - q) + q - p = j
    BY <1>2
  <2> QED
    BY <1>1, <2>1 DEF EditedAt
<1>4. EditedAt(v, o, u, n, k, q, p)
  BY <1>1, <1>2, <1>3 DEF EditedAt
<1> QED
  BY <1>4 DEF EditedUpTo

SameUpTo(u, v, n) == \A j \in 1..n : v[j] = u[j]
AgreeUpTo(u, n, v, o) == n = o /\ SameUpTo(u, v, n)

\* An edit of the last letter.
LEMMA EditAtEnd ==
  ASSUME NEW u, NEW v, NEW c \in Nat, NEW n \in Nat, NEW o \in Nat,
         StaysOrMoves(c, n), StaysOrMoves(c, o), SameUpTo(u, v, c)
  PROVE  EditedUpTo(u, n, v, o)
<1>1. PICK p \in {0, 1}, q \in {0, 1} : n = c + p /\ o = c + q
  BY DEF StaysOrMoves
<1>2. c + p <= n /\ o = n - p + q /\ (c + p + 1)..n = {}
  BY <1>1
<1>3. EditedAt(u, n, v, o, c, p, q)
  BY <1>2 DEF EditedAt, SameUpTo
<1> QED
  BY <1>3 DEF EditedUpTo

LEMMA AgreementIsNoEdit ==
  ASSUME NEW u, NEW v, NEW n \in Nat, NEW o, AgreeUpTo(u, n, v, o)
  PROVE  EditedUpTo(u, n, v, o)
<1>1. o \in Nat /\ StaysOrMoves(n, n) /\ StaysOrMoves(n, o) /\ SameUpTo(u, v, n)
  BY DEF AgreeUpTo, StaysOrMoves
<1> QED
  BY <1>1, EditAtEnd

LEMMA MeetGrows ==
  ASSUME NEW V, NEW u, NEW v, NEW n \in Nat, NEW o \in Nat, MeetUpTo(V, u, n, v, o),
         u[n + 1] = v[o + 1], u[n + 1] \in V
  PROVE  MeetUpTo(V, u, n + 1, v, o + 1)
<1>1. PICK l \in Nat : \E w \in [1..l -> V] :
                          EditedUpTo(u, n, w, l) /\ EditedUpTo(v, o, w, l)
  BY DEF MeetUpTo
<1>2. PICK w \in [1..l -> V] : EditedUpTo(u, n, w, l) /\ EditedUpTo(v, o, w, l)
  BY <1>1
<1> DEFINE x == [j \in 1..(l + 1) |-> IF j = l + 1 THEN u[n + 1] ELSE w[j]]
<1>3. x \in [1..(l + 1) -> V] /\ x[l + 1] = u[n + 1] /\ \A j \in 1..l : x[j] = w[j]
  OBVIOUS
<1> HIDE DEF x
<1>4. ASSUME NEW y, NEW h \in Nat, EditedUpTo(y, h, w, l) PROVE EditedUpTo(y, h, x, l)
  <2>1. PICK k \in Nat, p \in {0, 1}, q \in {0, 1} : EditedAt(y, h, w, l, k, p, q)
    BY <1>4 DEF EditedUpTo
  <2>2. EditedAt(y, h, x, l, k, p, q)
    BY <1>3, <2>1, EditedAtAgrees
  <2> QED
    BY <2>2 DEF EditedUpTo
<1>5. EditedUpTo(u, n + 1, x, l + 1) /\ EditedUpTo(v, o + 1, x, l + 1)
  BY <1>2, <1>3, <1>4, EditGrows
<1> QED
  BY <1>3, <1>5 DEF MeetUpTo

-----------------------------------------------------------------------------
(* What small entries of the table say of the prefixes. *)

\* Where an entry comes from, with the distance it adds: what the table says of a pair of
\* prefixes, in the words of the prefixes one letter shorter.
EntryMoves(t, a, b, i, j) ==
  \/ i = 0 /\ j = 0
  \/ i > 0 /\ t[i][j] = t[i - 1][j] + 1
  \/ j > 0 /\ t[i][j] = t[i][j - 1] + 1
  \/ i > 0 /\ j > 0 /\ a[i] = b[j] /\ t[i][j] = t[i - 1][j - 1]
  \/ i > 0 /\ j > 0 /\ t[i][j] = t[i - 1][j - 1] + 1

LEMMA EveryEntryMoves ==
  ASSUME NEW a, NEW b, NEW m \in Nat, NEW n \in Nat, NEW t, IsTable(t, a, m, b, n),
         NEW i \in 0..m, NEW j \in 0..n
  PROVE  /\ EntryMoves(t, a, b, i, j)
         /\ t[i][j] \in Int
         /\ i > 0 => i - 1 \in 0..m /\ t[i - 1][j] \in Int
         /\ j > 0 => j - 1 \in 0..n /\ t[i][j - 1] \in Int
         /\ i > 0 /\ j > 0 => t[i - 1][j - 1] \in Int
<1>1. (i > 0 => i - 1 \in 0..m) /\ (j > 0 => j - 1 \in 0..n)
  OBVIOUS
<1>2. /\ t[i][j] \in Int
      /\ i > 0 => t[i - 1][j] \in Int
      /\ j > 0 => t[i][j - 1] \in Int
      /\ i > 0 /\ j > 0 => t[i - 1][j - 1] \in Int
  <2>1. \A x \in 0..m, y \in 0..n : t[x][y] \in Int
    BY EntryType
  <2> QED
    BY <1>1, <2>1
<1>3. i > 0 /\ j > 0 /\ t[i][j] = t[i - 1][j - 1] + Cost(a, b, i, j) => EntryMoves(t, a, b, i, j)
  <2> SUFFICES ASSUME i > 0 /\ j > 0 /\ t[i][j] = t[i - 1][j - 1] + Cost(a, b, i, j)
               PROVE  EntryMoves(t, a, b, i, j)
    OBVIOUS
  <2>1. \/ a[i] = b[j] /\ Cost(a, b, i, j) = 0
        \/ Cost(a, b, i, j) = 1
    BY DEF Cost
  <2>2. \/ a[i] = b[j] /\ t[i][j] = t[i - 1][j - 1]
        \/ t[i][j] = t[i - 1][j - 1] + 1
    BY <1>2, <2>1
  <2> QED
    BY <2>2 DEF EntryMoves
<1>4. EntryMoves(t, a, b, i, j)
  <2>1. CASE i = 0 /\ j = 0
    BY <2>1, Zenon DEF EntryMoves
  <2>2. CASE i > 0 /\ t[i][j] = t[i - 1][j] + 1
    BY <2>2, Zenon DEF EntryMoves
  <2>3. CASE j > 0 /\ t[i][j] = t[i][j - 1] + 1
    BY <2>3, Zenon DEF EntryMoves
  <2>4. (i = 0 /\ j = 0) \/ i > 0 \/ j > 0
    OBVIOUS
  <2>5. \A x \in 0..m, y \in 0..n :
          x > 0 \/ y > 0 =>
            \/ x > 0 /\ t[x][y] = t[x - 1][y] + 1
            \/ y > 0 /\ t[x][y] = t[x][y - 1] + 1
            \/ x > 0 /\ y > 0 /\ t[x][y] = t[x - 1][y - 1] + Cost(a, b, x, y)
    BY DEF IsTable
  <2> HIDE DEF Cost
  <2> QED
    BY <1>3, <2>1, <2>2, <2>3, <2>4, <2>5, Zenon
<1> QED
  BY <1>1, <1>2, <1>4

LEMMA NoDistanceAgrees ==
  ASSUME NEW a, NEW b, NEW m \in Nat, NEW n \in Nat, NEW t, IsTable(t, a, m, b, n)
  PROVE  \A i \in 0..m, j \in 0..n : t[i][j] <= 0 => AgreeUpTo(a, i, b, j)
<1> DEFINE P == {p \in (0..m) \X (0..n) : t[p[1]][p[2]] <= 0 => AgreeUpTo(a, p[1], b, p[2])}
<1>1. ASSUME NEW i \in 0..m, NEW j \in 0..n,
             i > 0 /\ j > 0 => <<i - 1, j - 1>> \in P
      PROVE  <<i, j>> \in P
  <2> SUFFICES ASSUME t[i][j] <= 0 PROVE AgreeUpTo(a, i, b, j)
    OBVIOUS
  <2>1. /\ i > 0 /\ j > 0 /\ t[i - 1][j - 1] <= 0 => AgreeUpTo(a, i - 1, b, j - 1)
    BY <1>1
  <2> HIDE DEF P
  <2>2. /\ EntryMoves(t, a, b, i, j)
        /\ t[i][j] \in Int
        /\ i > 0 => i - 1 \in 0..m /\ t[i - 1][j] \in Int
        /\ j > 0 => j - 1 \in 0..n /\ t[i][j - 1] \in Int
        /\ i > 0 /\ j > 0 => t[i - 1][j - 1] \in Int
    BY EveryEntryMoves
  <2>3. \A x \in 0..m, y \in 0..n : t[x][y] >= 0
    <3> TAKE x \in 0..m, y \in 0..n
    <3>1. t[x][y] \in Int /\ t[x][y] >= Distance(x, y)
      BY DistanceOfLengths
    <3>2. Distance(x, y) \in Nat
      BY DEF Distance
    <3> QED
      BY <3>1, <3>2
  <2>4. CASE i = 0 /\ j = 0
    BY <2>4 DEF AgreeUpTo, SameUpTo
  <2>5. CASE i > 0 /\ t[i][j] = t[i - 1][j] + 1
    <3>1. t[i - 1][j] >= 0
      BY <2>2, <2>3, <2>5
    <3> QED
      BY <2>2, <2>5, <3>1
  <2>6. CASE j > 0 /\ t[i][j] = t[i][j - 1] + 1
    <3>1. t[i][j - 1] >= 0
      BY <2>2, <2>3, <2>6
    <3> QED
      BY <2>2, <2>6, <3>1
  <2>7. CASE i > 0 /\ j > 0 /\ a[i] = b[j] /\ t[i][j] = t[i - 1][j - 1]
    <3>1. AgreeUpTo(a, i - 1, b, j - 1)
      BY <2>1, <2>7
    <3> QED
      BY <2>7, <3>1 DEF AgreeUpTo, SameUpTo
  <2>8. CASE i > 0 /\ j > 0 /\ t[i][j] = t[i - 1][j - 1] + 1
    <3>1. t[i - 1][j - 1] >= 0
      BY <2>2, <2>3, <2>8
    <3> QED
      BY <2>2, <2>8, <3>1
  <2> QED
    BY <2>2, <2>4, <2>5, <2>6, <2>7, <2>8 DEF EntryMoves
<1>2. Spreads(P, m, n)
  BY <1>1, Zenon DEF Spreads
<1> HIDE DEF P
<1>3. \A i \in 0..m, j \in 0..n : <<i, j>> \in P
  BY <1>2, AcrossTable
<1> QED
  BY <1>3 DEF P

LEMMA DistanceOneEdits ==
  ASSUME NEW a, NEW b, NEW m \in Nat, NEW n \in Nat, NEW t, IsTable(t, a, m, b, n)
  PROVE  \A i \in 0..m, j \in 0..n : t[i][j] <= 1 => EditedUpTo(a, i, b, j)
<1> DEFINE P == {p \in (0..m) \X (0..n) : t[p[1]][p[2]] <= 1 => EditedUpTo(a, p[1], b, p[2])}
<1>1. ASSUME NEW i \in 0..m, NEW j \in 0..n,
             i > 0 /\ j > 0 => <<i - 1, j - 1>> \in P
      PROVE  <<i, j>> \in P
  <2> SUFFICES ASSUME t[i][j] <= 1 PROVE EditedUpTo(a, i, b, j)
    OBVIOUS
  <2>1. i > 0 /\ j > 0 /\ t[i - 1][j - 1] <= 1 => EditedUpTo(a, i - 1, b, j - 1)
    BY <1>1
  <2> HIDE DEF P
  <2>2. /\ EntryMoves(t, a, b, i, j)
        /\ t[i][j] \in Int
        /\ i > 0 => i - 1 \in 0..m /\ t[i - 1][j] \in Int
        /\ j > 0 => j - 1 \in 0..n /\ t[i][j - 1] \in Int
        /\ i > 0 /\ j > 0 => t[i - 1][j - 1] \in Int
    BY EveryEntryMoves
  <2>3. \A x \in 0..m, y \in 0..n : t[x][y] <= 0 => AgreeUpTo(a, x, b, y)
    BY NoDistanceAgrees
  <2>4. CASE i = 0 /\ j = 0
    <3>1. AgreeUpTo(a, i, b, j)
      BY <2>4 DEF AgreeUpTo, SameUpTo
    <3> QED
      BY <3>1, AgreementIsNoEdit
  <2>5. CASE i > 0 /\ t[i][j] = t[i - 1][j] + 1
    <3>1. t[i - 1][j] <= 0
      BY <2>2, <2>5
    <3>2. AgreeUpTo(a, i - 1, b, j)
      BY <2>2, <2>3, <2>5, <3>1
    <3>3. /\ i - 1 \in Nat /\ StaysOrMoves(i - 1, i) /\ StaysOrMoves(i - 1, j)
          /\ j \in Nat /\ SameUpTo(a, b, i - 1)
      BY <2>5, <3>2 DEF AgreeUpTo, StaysOrMoves
    <3> QED
      BY <3>3, EditAtEnd
  <2>6. CASE j > 0 /\ t[i][j] = t[i][j - 1] + 1
    <3>1. t[i][j - 1] <= 0
      BY <2>2, <2>6
    <3>2. AgreeUpTo(a, i, b, j - 1)
      BY <2>2, <2>3, <2>6, <3>1
    <3>3. /\ i \in Nat /\ StaysOrMoves(i, i) /\ StaysOrMoves(i, j)
          /\ j \in Nat /\ SameUpTo(a, b, i)
      BY <2>6, <3>2 DEF AgreeUpTo, StaysOrMoves
    <3> QED
      BY <3>3, EditAtEnd
  <2>7. CASE i > 0 /\ j > 0 /\ a[i] = b[j] /\ t[i][j] = t[i - 1][j - 1]
    <3>1. EditedUpTo(a, i - 1, b, j - 1)
      BY <2>1, <2>7
    <3>2. i - 1 \in Nat /\ j - 1 \in Nat /\ (i - 1) + 1 = i /\ (j - 1) + 1 = j
      BY <2>7
    <3> QED
      BY <2>7, <3>1, <3>2, EditGrows
  <2>8. CASE i > 0 /\ j > 0 /\ t[i][j] = t[i - 1][j - 1] + 1
    <3>1. t[i - 1][j - 1] <= 0
      BY <2>2, <2>8
    <3>2. AgreeUpTo(a, i - 1, b, j - 1)
      BY <2>2, <2>3, <2>8, <3>1
    <3>3. /\ i - 1 \in Nat /\ StaysOrMoves(i - 1, i) /\ StaysOrMoves(i - 1, j)
          /\ j \in Nat /\ SameUpTo(a, b, i - 1)
      BY <2>8, <3>2 DEF AgreeUpTo, StaysOrMoves
    <3> QED
      BY <3>3, EditAtEnd
  <2> QED
    BY <2>2, <2>4, <2>5, <2>6, <2>7, <2>8 DEF EntryMoves
<1>2. Spreads(P, m, n)
  BY <1>1, Zenon DEF Spreads
<1> HIDE DEF P
<1>3. \A i \in 0..m, j \in 0..n : <<i, j>> \in P
  BY <1>2, AcrossTable
<1> QED
  BY <1>3 DEF P

\* A word that a letter is appended to or kept from is the middle for the last move.
Spells(v, o, V) == \A x \in 1..o : v[x] \in V

LEMMA MeetAtEnd ==
  ASSUME NEW V, NEW u, NEW v, NEW n \in Nat, NEW o \in Nat, EditedUpTo(u, n, v, o),
         NEW h \in Nat, StaysOrMoves(o, h), Spells(v, o, V), u[n + 1] \in V
  PROVE  MeetUpTo(V, u, n + 1, v, h)
<1> DEFINE w == [x \in 1..(o + 1) |-> IF x = o + 1 THEN u[n + 1] ELSE v[x]]
<1>1. w \in [1..(o + 1) -> V] /\ w[o + 1] = u[n + 1] /\ \A x \in 1..o : w[x] = v[x]
  BY DEF Spells
<1> HIDE DEF w
<1>2. EditedUpTo(u, n, w, o)
  <2>1. PICK k \in Nat, p \in {0, 1}, r \in {0, 1} : EditedAt(u, n, v, o, k, p, r)
    BY DEF EditedUpTo
  <2>2. EditedAt(u, n, w, o, k, p, r)
    BY <1>1, <2>1, EditedAtAgrees
  <2> QED
    BY <2>2 DEF EditedUpTo
<1>3. EditedUpTo(u, n + 1, w, o + 1)
  BY <1>1, <1>2, EditGrows
<1>4. EditedUpTo(v, h, w, o + 1)
  <2>1. StaysOrMoves(o, o + 1) /\ o + 1 \in Nat /\ SameUpTo(v, w, o)
    BY <1>1 DEF StaysOrMoves, SameUpTo
  <2> QED
    BY <2>1, EditAtEnd
<1> QED
  BY <1>1, <1>3, <1>4 DEF MeetUpTo

LEMMA MeetBefore ==
  ASSUME NEW V, NEW u, NEW v, NEW n \in Nat, NEW o \in Nat, EditedUpTo(u, n, v, o),
         NEW h \in Nat, StaysOrMoves(o, h), Spells(v, o, V)
  PROVE  MeetUpTo(V, u, n, v, h)
<1> DEFINE w == [x \in 1..o |-> v[x]]
<1>1. w \in [1..o -> V] /\ \A x \in 1..o : w[x] = v[x]
  BY DEF Spells
<1> HIDE DEF w
<1>2. EditedUpTo(u, n, w, o)
  <2>1. PICK k \in Nat, p \in {0, 1}, r \in {0, 1} : EditedAt(u, n, v, o, k, p, r)
    BY DEF EditedUpTo
  <2>2. EditedAt(u, n, w, o, k, p, r)
    BY <1>1, <2>1, EditedAtAgrees
  <2> QED
    BY <2>2 DEF EditedUpTo
<1>3. EditedUpTo(v, h, w, o)
  <2>1. StaysOrMoves(o, o) /\ SameUpTo(v, w, o)
    BY <1>1 DEF StaysOrMoves, SameUpTo
  <2> QED
    BY <2>1, EditAtEnd
<1> QED
  BY <1>1, <1>2, <1>3 DEF MeetUpTo

LEMMA DistanceTwoMeets ==
  ASSUME NEW V, NEW m \in Nat, NEW n \in Nat, NEW a \in [1..m -> V], NEW b \in [1..n -> V],
         NEW t, IsTable(t, a, m, b, n)
  PROVE  \A i \in 0..m, j \in 0..n : t[i][j] <= 2 => MeetUpTo(V, a, i, b, j)
<1> DEFINE P == {p \in (0..m) \X (0..n) : t[p[1]][p[2]] <= 2 => MeetUpTo(V, a, p[1], b, p[2])}
<1>1. ASSUME NEW i \in 0..m, NEW j \in 0..n,
             i > 0 /\ j > 0 => <<i - 1, j - 1>> \in P
      PROVE  <<i, j>> \in P
  <2> SUFFICES ASSUME t[i][j] <= 2 PROVE MeetUpTo(V, a, i, b, j)
    OBVIOUS
  <2>1. i > 0 /\ j > 0 /\ t[i - 1][j - 1] <= 2 => MeetUpTo(V, a, i - 1, b, j - 1)
    BY <1>1
  <2> HIDE DEF P
  <2>2. /\ EntryMoves(t, a, b, i, j)
        /\ t[i][j] \in Int
        /\ i > 0 => i - 1 \in 0..m /\ t[i - 1][j] \in Int
        /\ j > 0 => j - 1 \in 0..n /\ t[i][j - 1] \in Int
        /\ i > 0 /\ j > 0 => t[i - 1][j - 1] \in Int
    BY EveryEntryMoves
  <2>3. \A x \in 0..m, y \in 0..n : t[x][y] <= 1 => EditedUpTo(a, x, b, y)
    BY DistanceOneEdits
  <2>4. CASE i = 0 /\ j = 0
    <3>1. AgreeUpTo(a, i, b, j)
      BY <2>4 DEF AgreeUpTo, SameUpTo
    <3>2. EditedUpTo(a, i, b, j)
      BY <3>1, AgreementIsNoEdit
    <3>3. i \in Nat /\ j \in Nat /\ StaysOrMoves(j, j) /\ Spells(b, j, V)
      BY <2>4 DEF Spells, StaysOrMoves
    <3> QED
      BY <3>2, <3>3, MeetBefore
  <2>5. CASE i > 0 /\ t[i][j] = t[i - 1][j] + 1
    <3>1. t[i - 1][j] <= 1
      BY <2>2, <2>5
    <3>2. EditedUpTo(a, i - 1, b, j)
      BY <2>2, <2>3, <2>5, <3>1
    <3>3. /\ i - 1 \in Nat /\ (i - 1) + 1 = i /\ j \in Nat /\ StaysOrMoves(j, j)
          /\ a[(i - 1) + 1] \in V /\ Spells(b, j, V)
      BY <2>5 DEF StaysOrMoves, Spells
    <3>4. MeetUpTo(V, a, (i - 1) + 1, b, j)
      BY <3>2, <3>3, MeetAtEnd
    <3> QED
      BY <3>3, <3>4
  <2>6. CASE j > 0 /\ t[i][j] = t[i][j - 1] + 1
    <3>1. t[i][j - 1] <= 1
      BY <2>2, <2>6
    <3>2. EditedUpTo(a, i, b, j - 1)
      BY <2>2, <2>3, <2>6, <3>1
    <3>3. /\ i \in Nat /\ j - 1 \in Nat /\ j \in Nat /\ StaysOrMoves(j - 1, j)
          /\ Spells(b, j - 1, V)
      BY <2>6 DEF Spells, StaysOrMoves
    <3> QED
      BY <3>2, <3>3, MeetBefore
  <2>7. CASE i > 0 /\ j > 0 /\ a[i] = b[j] /\ t[i][j] = t[i - 1][j - 1]
    <3>1. MeetUpTo(V, a, i - 1, b, j - 1)
      BY <2>1, <2>7
    <3>2. i - 1 \in Nat /\ j - 1 \in Nat /\ (i - 1) + 1 = i /\ (j - 1) + 1 = j /\ a[i] \in V
      BY <2>7
    <3> QED
      BY <2>7, <3>1, <3>2, MeetGrows
  <2>8. CASE i > 0 /\ j > 0 /\ t[i][j] = t[i - 1][j - 1] + 1
    <3>1. t[i - 1][j - 1] <= 1
      BY <2>2, <2>8
    <3>2. EditedUpTo(a, i - 1, b, j - 1)
      BY <2>2, <2>3, <2>8, <3>1
    <3>3. /\ i - 1 \in Nat /\ (i - 1) + 1 = i /\ j - 1 \in Nat /\ j \in Nat
          /\ StaysOrMoves(j - 1, j)
          /\ a[(i - 1) + 1] \in V /\ Spells(b, j - 1, V)
      BY <2>8 DEF StaysOrMoves, Spells
    <3>4. MeetUpTo(V, a, (i - 1) + 1, b, j)
      BY <3>2, <3>3, MeetAtEnd
    <3> QED
      BY <3>3, <3>4
  <2> QED
    BY <2>2, <2>4, <2>5, <2>6, <2>7, <2>8 DEF EntryMoves
<1>2. Spreads(P, m, n)
  BY <1>1, Zenon DEF Spreads
<1> HIDE DEF P
<1>3. \A i \in 0..m, j \in 0..n : <<i, j>> \in P
  BY <1>2, AcrossTable
<1> QED
  BY <1>3 DEF P

-----------------------------------------------------------------------------
(* NextRow computes a row of the table. *)

\* The entry of a table that follows from the ones beside it.
Entry(left, above, across, cost) == Least(Least(left + 1, above + 1), across + cost)

\* q is the row after row p, for the i-th letter of a.
IsRow(q, p, a, b, n, i) ==
  /\ q \in [0..n -> Int] /\ q[0] = i
  /\ \A j \in 1..n : q[j] = Entry(q[j - 1], p[j], p[j - 1], Cost(a, b, i, j))

\* A row as NextRow writes it, from position 1 on.
AsList(q, n) == [x \in 1..(n + 1) |-> q[x - 1]]

AppendsEntries(r, prev, a, b, n, i) ==
  /\ r[0] = <<i>>
  /\ \A j \in 1..n :
       r[j] = Append(r[j - 1], Entry(Last(r[j - 1]), prev[j + 1], prev[j], Cost(a, b, i, j)))

EntriesTo(row, prev, a, b, n, i) ==
  \E r \in [0..n -> Seq(Int) \ {<<>>}] : AppendsEntries(r, prev, a, b, n, i) /\ row = r[n]

LEMMA EntryInt ==
  ASSUME NEW x \in Int, NEW y \in Int, NEW z \in Int, NEW c \in Int
  PROVE  Entry(x, y, z, c) \in Int
  BY DEF Entry, Least

LEMMA NextRowRuns ==
  ASSUME NEW V, NEW a, NEW b \in Seq(V), NEW n, n = Len(b), NEW i \in Int,
         NEW prev, \A j \in 1..(n + 1) : prev[j] \in Int
  PROVE  EntriesTo(NextRow(prev, a, b, i), prev, a, b, n, i)
<1> DEFINE T == Seq(Int) \ {<<>>}
           base == <<i>>
           more(j, cur) == Append(cur, Least(Least(Last(cur) + 1, prev[j + 1] + 1),
                                             prev[j] + (IF a[i] = b[j] THEN 0 ELSE 1)))
           at == [x \in DOMAIN b |-> x]
           follows(g) == g = [t \in SUBSET DOMAIN b |->
                                IF t = {} THEN base ELSE more(at[Max(t)], g[t \ {Max(t)}])]
           fold == CHOOSE g : follows(g)
           step == [p \in (1..n) \X T |-> more(p[1], p[2])]
<1>1. NextRow(prev, a, b, i) = fold[DOMAIN b]
  BY Zenon DEF NextRow, FoldLeftDomain, FoldLeft, MapThenFoldSet
<1>2. n \in Nat /\ DOMAIN b = 1..n /\ base \in T /\ \A j \in 1..n : at[j] = j
  OBVIOUS
<1>3. ASSUME NEW j \in 1..n, NEW cur \in T
      PROVE  /\ more(j, cur) \in T
             /\ more(j, cur) = Append(cur, Entry(Last(cur), prev[j + 1], prev[j], Cost(a, b, i, j)))
  <2>1. Last(cur) \in Int
    BY DEF Last
  <2>2. prev[j] \in Int /\ prev[j + 1] \in Int
    <3>1. j \in 1..(n + 1) /\ j + 1 \in 1..(n + 1)
      BY <1>2
    <3> QED
      BY <3>1
  <2>3. Cost(a, b, i, j) \in Int /\ Cost(a, b, i, j) = IF a[i] = b[j] THEN 0 ELSE 1
    BY DEF Cost
  <2>4. more(j, cur) = Append(cur, Entry(Last(cur), prev[j + 1], prev[j], Cost(a, b, i, j)))
    BY <2>3, Zenon DEF Entry
  <2>5. Entry(Last(cur), prev[j + 1], prev[j], Cost(a, b, i, j)) \in Int
    BY <2>1, <2>2, <2>3, EntryInt
  <2> QED
    BY <2>4, <2>5
<1> HIDE DEF T, base, more, at
<1>4. step \in [(1..n) \X T -> T] /\ \A j \in 1..n, cur \in T : step[<<j, cur>>] = more(j, cur)
  BY <1>3
<1> HIDE DEF step
<1>5. \E g : follows(g)
  <2>1. PICK g \in [SUBSET (1..n) -> T] : IsPositionFold(g, n, base, step)
    BY <1>2, <1>4, PositionFold
  <2>2. ASSUME NEW t \in SUBSET (1..n), t # {}
        PROVE  step[<<Max(t), g[t \ {Max(t)}]>>] = more(at[Max(t)], g[t \ {Max(t)}])
    <3>1. Max(t) \in 1..n /\ g[t \ {Max(t)}] \in T
      BY <1>2, <2>2, LastOfInterval
    <3> QED
      BY <1>2, <1>4, <3>1
  <2>3. follows(g)
    BY <1>2, <2>1, <2>2 DEF IsPositionFold
  <2> QED
    BY <2>3, Zenon
<1>6. follows(fold)
  <2> HIDE DEF follows
  <2> QED
    BY <1>5, Zenon
<1> HIDE DEF fold
<1>7. Follows(fold, n, T, base, step)
  <2>1. {} \in SUBSET (1..n)
    OBVIOUS
  <2>2. \A t \in SUBSET (1..n) : t # {} => Max(t) \in 1..n
    BY <1>2, LastOfInterval
  <2>3. fold[{}] = base
    BY <1>2, <1>6, <2>1
  <2>4. \A t \in SUBSET (1..n) : t # {} => fold[t] = more(at[Max(t)], fold[t \ {Max(t)}])
    BY <1>2, <1>6
  <2>5. ASSUME NEW t \in SUBSET (1..n), t # {}, fold[t \ {Max(t)}] \in T
        PROVE  fold[t] = step[<<Max(t), fold[t \ {Max(t)}]>>]
    <3>1. Max(t) \in 1..n /\ at[Max(t)] = Max(t)
      BY <1>2, <2>2, <2>5
    <3> QED
      BY <1>4, <2>4, <2>5, <3>1
  <2> QED
    BY <2>3, <2>5 DEF Follows
<1>8. PICK r \in [0..n -> T] : IsRun(r, n, base, step) /\ r[n] = fold[1..n]
  <2>1. RunsTo(fold[1..n], n, T, base, step)
    BY <1>2, <1>4, <1>7, FoldRuns
  <2> QED
    BY <2>1 DEF RunsTo
<1>9. ASSUME NEW j \in 1..n
      PROVE  r[j] = Append(r[j - 1], Entry(Last(r[j - 1]), prev[j + 1], prev[j], Cost(a, b, i, j)))
  <2>1. j - 1 \in 0..n
    BY <1>2
  <2>2. r[j - 1] \in T
    BY <2>1
  <2>3. r[j] = more(j, r[j - 1])
    BY <1>4, <1>8, <2>2 DEF IsRun
  <2> QED
    BY <1>3, <2>2, <2>3
<1>10. r[0] = base /\ r[n] = fold[DOMAIN b]
  BY <1>2, <1>8 DEF IsRun
<1> QED
  <2>1. AppendsEntries(r, prev, a, b, n, i)
    BY <1>9, <1>10 DEF AppendsEntries, base
  <2> QED
    BY <1>1, <1>10, <2>1 DEF EntriesTo, T

\* s lists the entries of q from the 0-th to the j-th.
Lists(s, q, j) == s \in Seq(Int) /\ Len(s) = j + 1 /\ \A x \in 0..j : s[x + 1] = q[x]

LEMMA ListGrows ==
  ASSUME NEW q, NEW j \in Nat, j > 0, NEW s, Lists(s, q, j - 1), q[j] \in Int
  PROVE  Last(s) = q[j - 1] /\ Lists(Append(s, q[j]), q, j)
<1>1. s \in Seq(Int) /\ Len(s) = j /\ \A x \in 0..(j - 1) : s[x + 1] = q[x]
  BY DEF Lists
<1>2. Last(s) = q[j - 1]
  <2>1. j - 1 \in 0..(j - 1) /\ (j - 1) + 1 = j
    OBVIOUS
  <2> QED
    BY <1>1, <2>1 DEF Last
<1> DEFINE more == Append(s, q[j])
<1>3. more \in Seq(Int) /\ Len(more) = j + 1 /\ more[j + 1] = q[j] /\ \A y \in 1..j : more[y] = s[y]
  BY <1>1
<1> HIDE DEF more
<1>4. \A x \in 0..j : more[x + 1] = q[x]
  <2> TAKE x \in 0..j
  <2>1. CASE x = j
    BY <1>3, <2>1
  <2>2. CASE x # j
    <3>1. x \in 0..(j - 1) /\ x + 1 \in 1..j
      BY <2>2
    <3> QED
      BY <1>1, <1>3, <3>1
  <2> QED
    BY <2>1, <2>2
<1>5. Lists(more, q, j)
  BY <1>3, <1>4 DEF Lists
<1> QED
  BY <1>2, <1>5 DEF more

LEMMA NextRowIs ==
  ASSUME NEW V, NEW a, NEW b \in Seq(V), NEW n, n = Len(b), NEW i \in Int,
         NEW p \in [0..n -> Int], NEW q, IsRow(q, p, a, b, n, i)
  PROVE  NextRow(AsList(p, n), a, b, i) = AsList(q, n)
<1> DEFINE prev == AsList(p, n)
<1>1. n \in Nat
  OBVIOUS
<1>2. ASSUME NEW j \in 0..n PROVE prev[j + 1] = p[j] /\ prev[j + 1] \in Int
  <2>1. j + 1 \in 1..(n + 1) /\ (j + 1) - 1 = j
    BY <1>1
  <2> QED
    BY <2>1 DEF AsList
<1>3. \A j \in 1..(n + 1) : prev[j] \in Int
  <2> TAKE j \in 1..(n + 1)
  <2>1. j - 1 \in 0..n /\ (j - 1) + 1 = j
    BY <1>1
  <2> QED
    BY <1>2, <2>1
<1> HIDE DEF prev
<1>4. EntriesTo(NextRow(prev, a, b, i), prev, a, b, n, i)
  BY <1>3, NextRowRuns
<1>5. PICK r \in [0..n -> Seq(Int) \ {<<>>}] :
        AppendsEntries(r, prev, a, b, n, i) /\ NextRow(prev, a, b, i) = r[n]
  BY <1>4 DEF EntriesTo
<1> DEFINE P == {j \in 0..n : Lists(r[j], q, j)}
<1>6. 0 \in P
  <2>1. r[0] = <<i>> /\ q[0] = i
    BY <1>5 DEF AppendsEntries, IsRow
  <2>2. <<i>> \in Seq(Int) /\ Len(<<i>>) = 0 + 1 /\ \A x \in 0..0 : <<i>>[x + 1] = i
    OBVIOUS
  <2>3. \A x \in 0..0 : x = 0
    OBVIOUS
  <2>4. Lists(<<i>>, q, 0)
    BY <2>1, <2>2, <2>3 DEF Lists
  <2> QED
    BY <1>1, <2>1, <2>4
<1>7. ASSUME NEW j \in 1..n, j - 1 \in P PROVE j \in P
  <2>1. j - 1 \in 0..n /\ j \in 0..n /\ j \in Nat /\ j > 0 /\ (j - 1) + 1 = j
    BY <1>1
  <2>2. q[j] = Entry(q[j - 1], p[j], p[j - 1], Cost(a, b, i, j)) /\ q[j] \in Int
    BY <2>1 DEF IsRow
  <2>3. Lists(r[j - 1], q, j - 1)
    BY <1>7
  <2>4. Last(r[j - 1]) = q[j - 1] /\ Lists(Append(r[j - 1], q[j]), q, j)
    BY <2>1, <2>2, <2>3, ListGrows
  <2>5. prev[j + 1] = p[j] /\ prev[j] = p[j - 1]
    BY <1>2, <2>1
  <2>6. r[j] = Append(r[j - 1], q[j])
    BY <1>5, <2>2, <2>4, <2>5 DEF AppendsEntries
  <2> QED
    BY <2>1, <2>4, <2>6
<1> HIDE DEF P
<1>8. n \in P
  <2>1. \A j \in 0..n : j \in P
    BY <1>1, <1>6, <1>7, HoldsAlong
  <2> QED
    BY <1>1, <2>1
<1>9. r[n] \in Seq(Int) /\ Len(r[n]) = n + 1 /\ \A x \in 0..n : r[n][x + 1] = q[x]
  BY <1>8 DEF P, Lists
<1>10. \A y \in 1..(n + 1) : r[n][y] = q[y - 1]
  <2> TAKE y \in 1..(n + 1)
  <2>1. y - 1 \in 0..n /\ (y - 1) + 1 = y
    BY <1>1
  <2> QED
    BY <1>9, <2>1
<1>11. r[n] = AsList(q, n)
  BY <1>1, <1>9, <1>10 DEF AsList
<1> QED
  BY <1>5, <1>11 DEF prev

\* Every row has a next one.
LEMMA RowExists ==
  ASSUME NEW a, NEW b, NEW n \in Nat, NEW i \in Int, NEW p \in [0..n -> Int]
  PROVE  \E q \in [0..n -> Int] : IsRow(q, p, a, b, n, i)
<1> DEFINE more(j, x) == Entry(x, p[j], p[j - 1], Cost(a, b, i, j))
           step == [c \in (1..n) \X Int |-> more(c[1], c[2])]
<1>1. ASSUME NEW j \in 1..n, NEW x \in Int PROVE more(j, x) \in Int
  <2>1. p[j] \in Int /\ p[j - 1] \in Int
    <3>1. j \in 0..n /\ j - 1 \in 0..n
      OBVIOUS
    <3> QED
      BY <3>1
  <2>2. Cost(a, b, i, j) \in Int
    BY DEF Cost
  <2> QED
    BY <2>1, <2>2, EntryInt
<1> HIDE DEF more
<1>2. step \in [(1..n) \X Int -> Int] /\ \A j \in 1..n, x \in Int : step[<<j, x>>] = more(j, x)
  BY <1>1
<1> HIDE DEF step
<1>3. PICK q \in [0..n -> Int] : IsRun(q, n, i, step)
  BY <1>2, RunExists
<1>4. ASSUME NEW j \in 1..n PROVE q[j] = more(j, q[j - 1])
  <2>1. j - 1 \in 0..n
    OBVIOUS
  <2>2. q[j - 1] \in Int
    BY <2>1
  <2> QED
    BY <1>2, <1>3, <2>2 DEF IsRun
<1>5. IsRow(q, p, a, b, n, i)
  BY <1>3, <1>4 DEF IsRow, IsRun, more
<1> QED
  BY <1>5

-----------------------------------------------------------------------------
(* A table is a run of rows; there is one for every two words. *)

FirstRow(n) == [j \in 0..n |-> j]

RowsOf(t, a, m, b, n) ==
  /\ t \in [0..m -> [0..n -> Int]] /\ t[0] = FirstRow(n)
  /\ \A i \in 1..m : IsRow(t[i], t[i - 1], a, b, n, i)

LeastOf(e, x, y, z, c) ==
  e <= x + 1 /\ e <= y + 1 /\ e <= z + c /\ (e = x + 1 \/ e = y + 1 \/ e = z + c)

LEMMA EntryLeast ==
  ASSUME NEW x \in Int, NEW y \in Int, NEW z \in Int, NEW c \in Int
  PROVE  LeastOf(Entry(x, y, z, c), x, y, z, c)
  BY DEF Entry, Least, LeastOf

LEMMA RowsMakeTable ==
  ASSUME NEW a, NEW b, NEW m \in Nat, NEW n \in Nat, NEW t, RowsOf(t, a, m, b, n)
  PROVE  IsTable(t, a, m, b, n)
<1>1. t \in [0..m -> [0..n -> Int]] /\ t[0] = FirstRow(n)
  BY DEF RowsOf
<1>2. \A i \in 0..m, j \in 0..n : t[i][j] \in Int
  BY <1>1
<1>3. ASSUME NEW i \in 0..m, NEW j \in 0..n
      PROVE  /\ i > 0 => t[i][j] <= t[i - 1][j] + 1
             /\ j > 0 => t[i][j] <= t[i][j - 1] + 1
             /\ i > 0 /\ j > 0 => t[i][j] <= t[i - 1][j - 1] + Cost(a, b, i, j)
             /\ i > 0 \/ j > 0 =>
                  \/ i > 0 /\ t[i][j] = t[i - 1][j] + 1
                  \/ j > 0 /\ t[i][j] = t[i][j - 1] + 1
                  \/ i > 0 /\ j > 0 /\ t[i][j] = t[i - 1][j - 1] + Cost(a, b, i, j)
  <2>1. CASE i = 0
    <3>1. t[i][j] = j /\ (j > 0 => t[i][j - 1] = j - 1) /\ ~(i > 0)
      BY <1>1, <2>1 DEF FirstRow
    <3>2. j > 0 => t[i][j] = t[i][j - 1] + 1 /\ t[i][j] <= t[i][j - 1] + 1
      BY <3>1
    <3> QED
      BY <3>1, <3>2, Zenon
  <2>2. CASE i > 0 /\ j = 0
    <3>1. i \in 1..m /\ ~(j > 0) /\ i - 1 \in 0..m /\ 0 \in 0..n
      BY <2>2
    <3>2. t[i][0] = i
      BY <3>1 DEF RowsOf, IsRow
    <3>3. t[i - 1][0] = i - 1
      <4>1. CASE i = 1
        BY <1>1, <4>1 DEF FirstRow
      <4>2. CASE i # 1
        <5>1. i - 1 \in 1..m
          BY <3>1, <4>2
        <5> QED
          BY <5>1 DEF RowsOf, IsRow
      <4> QED
        BY <4>1, <4>2
    <3>4. t[i][j] = t[i - 1][j] + 1 /\ t[i][j] <= t[i - 1][j] + 1
      BY <2>2, <3>1, <3>2, <3>3
    <3> QED
      BY <2>2, <3>1, <3>4, Zenon
  <2>3. CASE i > 0 /\ j > 0
    <3>1. i \in 1..m /\ j \in 1..n /\ i - 1 \in 0..m /\ j - 1 \in 0..n
      BY <2>3
    <3>2. t[i][j] = Entry(t[i][j - 1], t[i - 1][j], t[i - 1][j - 1], Cost(a, b, i, j))
      BY <3>1 DEF RowsOf, IsRow
    <3>3. t[i][j - 1] \in Int /\ t[i - 1][j] \in Int /\ t[i - 1][j - 1] \in Int
      BY <1>2, <3>1
    <3>4. Cost(a, b, i, j) \in Int
      BY DEF Cost
    <3> DEFINE c == Cost(a, b, i, j)
    <3> HIDE DEF c
    <3>5. LeastOf(Entry(t[i][j - 1], t[i - 1][j], t[i - 1][j - 1], c),
                  t[i][j - 1], t[i - 1][j], t[i - 1][j - 1], c)
      BY <3>3, <3>4, EntryLeast DEF c
    <3>6. LeastOf(t[i][j], t[i][j - 1], t[i - 1][j], t[i - 1][j - 1], c)
      BY <3>2, <3>5, Zenon DEF c
    <3> QED
      BY <2>3, <3>6, Zenon DEF LeastOf, c
  <2>4. i = 0 \/ (i > 0 /\ j = 0) \/ (i > 0 /\ j > 0)
    OBVIOUS
  <2> QED
    BY <2>1, <2>2, <2>3, <2>4, Zenon
<1>4. t[0][0] = 0
  BY <1>1 DEF FirstRow
<1> HIDE DEF Cost
<1> QED
  BY <1>1, <1>3, <1>4, Zenon DEF IsTable

LEMMA RowsExist ==
  ASSUME NEW a, NEW b, NEW m \in Nat, NEW n \in Nat
  PROVE  \E t : RowsOf(t, a, m, b, n)
<1> DEFINE R == [0..n -> Int]
           next(i, p) == CHOOSE q \in R : IsRow(q, p, a, b, n, i)
           step == [c \in (1..m) \X R |-> next(c[1], c[2])]
<1>1. ASSUME NEW i \in 1..m, NEW p \in R PROVE next(i, p) \in R /\ IsRow(next(i, p), p, a, b, n, i)
  <2>1. i \in Int /\ p \in [0..n -> Int]
    OBVIOUS
  <2>2. \E q \in [0..n -> Int] : IsRow(q, p, a, b, n, i)
    BY <2>1, RowExists
  <2> QED
    BY <2>2, Zenon
<1>2. FirstRow(n) \in R
  BY DEF FirstRow
<1> HIDE DEF next, R
<1>3. step \in [(1..m) \X R -> R] /\ \A i \in 1..m, p \in R : step[<<i, p>>] = next(i, p)
  BY <1>1
<1> HIDE DEF step
<1>4. PICK t \in [0..m -> R] : IsRun(t, m, FirstRow(n), step)
  BY <1>2, <1>3, RunExists
<1>5. ASSUME NEW i \in 1..m PROVE IsRow(t[i], t[i - 1], a, b, n, i)
  <2>1. t[i - 1] \in R
    BY <1>4
  <2>2. t[i] = next(i, t[i - 1])
    BY <1>3, <1>4, <2>1 DEF IsRun
  <2> QED
    BY <1>1, <2>1, <2>2
<1>6. RowsOf(t, a, m, b, n)
  BY <1>4, <1>5 DEF RowsOf, IsRun, R
<1> QED
  BY <1>6

\* Once a whole row is beyond the bound, every later one is.
RowAbove(t, i, n, d) == \A j \in 0..n : t[i][j] > d

LEMMA StaysAbove ==
  ASSUME NEW a, NEW b, NEW m \in Nat, NEW n \in Nat, NEW t, IsTable(t, a, m, b, n),
         NEW d \in Nat, NEW i \in 1..m, RowAbove(t, i - 1, n, d)
  PROVE  RowAbove(t, i, n, d)
<1> DEFINE P == {j \in 0..n : t[i][j] > d}
<1>1. \A x \in 0..m, y \in 0..n : t[x][y] \in Int
  BY EntryType
<1>2. i \in 0..m /\ i - 1 \in 0..m /\ i > 0 /\ 0 \in 0..n
  OBVIOUS
<1>3. 0 \in P
  <2>1. t[i][0] = i /\ t[i - 1][0] = i - 1
    <3>1. \A x \in 0..m : t[x][0] = x
      BY FirstColumnValue, Zenon
    <3> QED
      BY <1>2, <3>1
  <2>2. t[i - 1][0] > d
    BY <1>2 DEF RowAbove
  <2> QED
    BY <1>2, <2>1, <2>2
<1>4. ASSUME NEW j \in 1..n, j - 1 \in P PROVE j \in P
  <2>1. j \in 0..n /\ j - 1 \in 0..n /\ j > 0
    OBVIOUS
  <2>2. t[i][j - 1] > d /\ t[i - 1][j] > d /\ t[i - 1][j - 1] > d
    BY <1>4, <2>1 DEF RowAbove
  <2>3. /\ t[i][j] \in Int /\ t[i][j - 1] \in Int /\ t[i - 1][j] \in Int
        /\ t[i - 1][j - 1] \in Int
    BY <1>1, <1>2, <2>1
  <2>4. EntryMoves(t, a, b, i, j)
    BY <1>2, <2>1, EveryEntryMoves
  <2>5. \/ t[i][j] = t[i - 1][j] + 1
        \/ t[i][j] = t[i][j - 1] + 1
        \/ t[i][j] = t[i - 1][j - 1]
        \/ t[i][j] = t[i - 1][j - 1] + 1
    BY <1>2, <2>1, <2>4 DEF EntryMoves
  <2>6. t[i][j] > d
    BY <2>2, <2>3, <2>5
  <2> QED
    BY <2>1, <2>6
<1> HIDE DEF P
<1>5. \A j \in 0..n : j \in P
  BY <1>3, <1>4, HoldsAlong
<1> QED
  BY <1>5 DEF P, RowAbove

LEMMA ListFacts ==
  ASSUME NEW n \in Nat, NEW p \in [0..n -> Int], NEW d \in Nat
  PROVE  /\ AsList(p, n) # <<>> /\ Last(AsList(p, n)) = p[n]
         /\ GivesUp(AsList(p, n), d) <=> \A j \in 0..n : p[j] > d
<1> DEFINE s == AsList(p, n)
<1>1. DOMAIN s = 1..(n + 1) /\ \A x \in 1..(n + 1) : s[x] = p[x - 1]
  BY DEF AsList
<1>2. s \in Seq(Int) /\ Len(s) = n + 1
  BY DEF AsList
<1>3. \A j \in 0..n : j + 1 \in 1..(n + 1) /\ (j + 1) - 1 = j
  OBVIOUS
<1>4. \A x \in 1..(n + 1) : x - 1 \in 0..n
  OBVIOUS
<1> HIDE DEF s
<1>5. s # <<>> /\ Last(s) = p[n]
  <2>1. n \in 0..n
    OBVIOUS
  <2> QED
    BY <1>1, <1>2, <1>3, <2>1 DEF Last
<1>6. GivesUp(s, d) <=> \A x \in 1..(n + 1) : p[x - 1] > d
  BY <1>1 DEF GivesUp
<1>7. (\A x \in 1..(n + 1) : p[x - 1] > d) <=> \A j \in 0..n : p[j] > d
  BY <1>3, <1>4
<1> QED
  BY <1>5, <1>6, <1>7 DEF s

-----------------------------------------------------------------------------
(* The search of _edit_distance_lte, with its early exits. *)

\* A run over the letters of a: the row so far, or <<>> once the search is given up.
Searches(r, a, b, m, n, d) ==
  /\ r[0] = AsList(FirstRow(n), n)
  /\ \A i \in 1..m :
       r[i] = IF r[i - 1] = <<>> \/ GivesUp(NextRow(r[i - 1], a, b, i), d)
              THEN <<>>
              ELSE NextRow(r[i - 1], a, b, i)

SearchesTo(row, a, b, m, n, d) == \E r : Searches(r, a, b, m, n, d) /\ row = r[m]

EndsWithin(row, d) == row # <<>> /\ Last(row) <= d

LEMMA SearchRuns ==
  ASSUME NEW V, NEW a \in Seq(V), NEW b \in Seq(V), NEW m, m = Len(a), NEW n, n = Len(b), NEW d \in Nat
  PROVE  \E row : /\ SearchesTo(row, a, b, m, n, d)
                  /\ EditDistanceLte(a, b, d) <=>
                       a = b \/ (Distance(m, n) <= d /\ EndsWithin(row, d))
<1> DEFINE T == {<<>>} \cup {AsList(p, n) : p \in [0..n -> Int]}
           base == [j \in 1..Len(b) + 1 |-> j - 1]
           more(i, prev) == IF prev = <<>> \/ GivesUp(NextRow(prev, a, b, i), d)
                            THEN <<>>
                            ELSE NextRow(prev, a, b, i)
           at == [x \in DOMAIN a |-> x]
           follows(g) == g = [t \in SUBSET DOMAIN a |->
                                IF t = {} THEN base ELSE more(at[Max(t)], g[t \ {Max(t)}])]
           fold == CHOOSE g : follows(g)
           step == [p \in (1..m) \X T |-> more(p[1], p[2])]
<1>1. EditDistanceLte(a, b, d) <=>
        a = b \/ (Distance(m, n) <= d /\ EndsWithin(fold[DOMAIN a], d))
  BY Zenon DEF EditDistanceLte, FoldLeftDomain, FoldLeft, MapThenFoldSet, EndsWithin
<1>2. m \in Nat /\ n \in Nat /\ DOMAIN a = 1..m /\ \A i \in 1..m : at[i] = i
  OBVIOUS
<1>3. base = AsList(FirstRow(n), n) /\ base \in T
  <2>1. FirstRow(n) \in [0..n -> Int] /\ \A j \in 0..n : FirstRow(n)[j] = j
    BY <1>2 DEF FirstRow
  <2>2. \A x \in 1..(n + 1) : x - 1 \in 0..n
    BY <1>2
  <2>3. base = AsList(FirstRow(n), n)
    BY <2>1, <2>2 DEF AsList
  <2> QED
    BY <2>1, <2>3
<1>4. ASSUME NEW i \in 1..m, NEW prev \in T PROVE more(i, prev) \in T
  <2>1. CASE prev = <<>>
    BY <2>1
  <2>2. CASE \E p \in [0..n -> Int] : prev = AsList(p, n)
    <3>1. PICK p \in [0..n -> Int] : prev = AsList(p, n)
      BY <2>2
    <3>2. i \in Int
      OBVIOUS
    <3>3. PICK q \in [0..n -> Int] : IsRow(q, p, a, b, n, i)
      BY <1>2, <3>2, RowExists
    <3>4. NextRow(AsList(p, n), a, b, i) = AsList(q, n)
      BY <3>2, <3>3, NextRowIs
    <3>5. AsList(q, n) \in T /\ <<>> \in T
      OBVIOUS
    <3> HIDE DEF T
    <3> QED
      BY <3>1, <3>4, <3>5
  <2> QED
    BY <2>1, <2>2
<1> HIDE DEF T, base, more, at
<1>5. step \in [(1..m) \X T -> T] /\ \A i \in 1..m, prev \in T : step[<<i, prev>>] = more(i, prev)
  BY <1>4
<1> HIDE DEF step
<1>6. \E g : follows(g)
  <2>1. PICK g \in [SUBSET (1..m) -> T] : IsPositionFold(g, m, base, step)
    BY <1>2, <1>3, <1>5, PositionFold
  <2>2. ASSUME NEW t \in SUBSET (1..m), t # {}
        PROVE  step[<<Max(t), g[t \ {Max(t)}]>>] = more(at[Max(t)], g[t \ {Max(t)}])
    <3>1. Max(t) \in 1..m /\ g[t \ {Max(t)}] \in T
      BY <1>2, <2>2, LastOfInterval
    <3> QED
      BY <1>2, <1>5, <3>1
  <2>3. follows(g)
    BY <1>2, <2>1, <2>2 DEF IsPositionFold
  <2> QED
    BY <2>3, Zenon
<1>7. follows(fold)
  <2> HIDE DEF follows
  <2> QED
    BY <1>6, Zenon
<1> HIDE DEF fold
<1>8. Follows(fold, m, T, base, step)
  <2>1. {} \in SUBSET (1..m)
    OBVIOUS
  <2>2. \A t \in SUBSET (1..m) : t # {} => Max(t) \in 1..m
    BY <1>2, LastOfInterval
  <2>3. fold[{}] = base
    BY <1>2, <1>7, <2>1
  <2>4. \A t \in SUBSET (1..m) : t # {} => fold[t] = more(at[Max(t)], fold[t \ {Max(t)}])
    BY <1>2, <1>7
  <2>5. ASSUME NEW t \in SUBSET (1..m), t # {}, fold[t \ {Max(t)}] \in T
        PROVE  fold[t] = step[<<Max(t), fold[t \ {Max(t)}]>>]
    <3>1. Max(t) \in 1..m /\ at[Max(t)] = Max(t)
      BY <1>2, <2>2, <2>5
    <3> QED
      BY <1>5, <2>4, <2>5, <3>1
  <2> QED
    BY <2>3, <2>5 DEF Follows
<1>9. PICK r \in [0..m -> T] : IsRun(r, m, base, step) /\ r[m] = fold[1..m]
  <2>1. RunsTo(fold[1..m], m, T, base, step)
    BY <1>2, <1>3, <1>5, <1>8, FoldRuns
  <2> QED
    BY <2>1 DEF RunsTo
<1>10. ASSUME NEW i \in 1..m PROVE r[i] = more(i, r[i - 1])
  <2>1. i - 1 \in 0..m
    BY <1>2
  <2>2. r[i - 1] \in T
    BY <2>1
  <2> QED
    BY <1>5, <1>9, <2>2 DEF IsRun
<1>11. r[0] = base /\ r[m] = fold[DOMAIN a]
  BY <1>2, <1>9 DEF IsRun
<1>12. Searches(r, a, b, m, n, d)
  BY <1>3, <1>10, <1>11, Zenon DEF Searches, more
<1> QED
  BY <1>1, <1>11, <1>12 DEF SearchesTo

\* The search finds the last entry of the table within the bound, or gives up where no
\* entry of the row is.
LEMMA SearchFinds ==
  ASSUME NEW V, NEW a \in Seq(V), NEW b \in Seq(V), NEW m, m = Len(a), NEW n, n = Len(b),
         NEW d \in Nat, NEW t, RowsOf(t, a, m, b, n), NEW row, SearchesTo(row, a, b, m, n, d)
  PROVE  EndsWithin(row, d) <=> t[m][n] <= d
<1>1. m \in Nat /\ n \in Nat /\ m \in 0..m /\ n \in 0..n /\ 0 \in 0..m
  OBVIOUS
<1>2. IsTable(t, a, m, b, n)
  BY <1>1, RowsMakeTable
<1>3. PICK r : Searches(r, a, b, m, n, d) /\ row = r[m]
  BY DEF SearchesTo
<1>4. \A i \in 0..m : t[i] \in [0..n -> Int]
  BY DEF RowsOf
<1> DEFINE P == {i \in 0..m : \/ r[i] = <<>> /\ RowAbove(t, i, n, d)
                              \/ r[i] = AsList(t[i], n)}
<1>5. 0 \in P
  BY <1>1, <1>3 DEF Searches, RowsOf
<1>6. ASSUME NEW i \in 1..m, i - 1 \in P PROVE i \in P
  <2>1. i \in 0..m /\ i - 1 \in 0..m /\ i \in Int
    BY <1>1
  <2>2. r[i] = IF r[i - 1] = <<>> \/ GivesUp(NextRow(r[i - 1], a, b, i), d)
               THEN <<>>
               ELSE NextRow(r[i - 1], a, b, i)
    BY <1>3 DEF Searches
  <2>3. CASE r[i - 1] = <<>> /\ RowAbove(t, i - 1, n, d)
    <3>1. RowAbove(t, i, n, d)
      BY <1>1, <1>2, <2>3, StaysAbove
    <3> QED
      BY <2>1, <2>2, <2>3, <3>1
  <2>4. CASE r[i - 1] = AsList(t[i - 1], n)
    <3>1. t[i - 1] \in [0..n -> Int] /\ t[i] \in [0..n -> Int]
      BY <1>4, <2>1
    <3>2. IsRow(t[i], t[i - 1], a, b, n, i)
      BY DEF RowsOf
    <3>3. NextRow(AsList(t[i - 1], n), a, b, i) = AsList(t[i], n)
      BY <2>1, <3>1, <3>2, NextRowIs
    <3>4. AsList(t[i - 1], n) # <<>>
      BY <1>1, <3>1, ListFacts
    <3>5. GivesUp(AsList(t[i], n), d) <=> RowAbove(t, i, n, d)
      BY <1>1, <3>1, ListFacts DEF RowAbove
    <3>6. r[i] = IF RowAbove(t, i, n, d) THEN <<>> ELSE AsList(t[i], n)
      BY <2>2, <2>4, <3>3, <3>4, <3>5, Zenon
    <3> QED
      BY <2>1, <3>6
  <2> QED
    BY <1>6, <2>3, <2>4
<1> HIDE DEF P
<1>7. m \in P
  <2>1. \A i \in 0..m : i \in P
    BY <1>1, <1>5, <1>6, HoldsAlong
  <2> QED
    BY <1>1, <2>1
<1>8. t[m] \in [0..n -> Int] /\ t[m][n] \in Int
  BY <1>1, <1>4
<1>9. CASE row = <<>> /\ RowAbove(t, m, n, d)
  <2>1. t[m][n] > d
    BY <1>1, <1>9 DEF RowAbove
  <2> QED
    BY <1>8, <1>9, <2>1 DEF EndsWithin
<1>10. CASE row = AsList(t[m], n)
  <2>1. row # <<>> /\ Last(row) = t[m][n]
    BY <1>1, <1>8, <1>10, ListFacts
  <2> QED
    BY <2>1 DEF EndsWithin
<1> QED
  BY <1>3, <1>7, <1>9, <1>10 DEF P

\* The early exits of _edit_distance_lte change no answer.
LEMMA WithinIsTable ==
  ASSUME NEW V, NEW a \in Seq(V), NEW b \in Seq(V), NEW m, m = Len(a), NEW n, n = Len(b),
         NEW d \in Nat, NEW t, RowsOf(t, a, m, b, n)
  PROVE  EditDistanceLte(a, b, d) <=> t[m][n] <= d
<1>1. m \in Nat /\ n \in Nat /\ m \in 0..m /\ n \in 0..n
  OBVIOUS
<1>2. IsTable(t, a, m, b, n)
  BY <1>1, RowsMakeTable
<1>3. PICK row : /\ SearchesTo(row, a, b, m, n, d)
                 /\ EditDistanceLte(a, b, d) <=>
                      a = b \/ (Distance(m, n) <= d /\ EndsWithin(row, d))
  BY SearchRuns
<1>4. EndsWithin(row, d) <=> t[m][n] <= d
  BY <1>3, SearchFinds
<1>5. t[m][n] \in Int /\ t[m][n] >= Distance(m, n)
  BY <1>1, <1>2, DistanceOfLengths
<1>6. t[m][n] <= d => Distance(m, n) <= d
  <2>1. Distance(m, n) \in Int
    BY <1>1 DEF Distance
  <2> QED
    BY <1>5, <2>1
<1>7. a = b => t[m][n] <= d
  <2> SUFFICES ASSUME a = b PROVE t[m][n] <= d
    OBVIOUS
  <2>1. m = n /\ IsTable(t, a, m, a, m)
    BY <1>2
  <2>2. t[m][m] <= 0
    BY <1>1, <2>1, NoDistanceFromItself
  <2> QED
    BY <1>5, <2>1, <2>2
<1> QED
  BY <1>3, <1>4, <1>6, <1>7

\* There is one table only.
LEMMA TablesAgree ==
  ASSUME NEW a, NEW b, NEW m \in Nat, NEW n \in Nat,
         NEW t, IsTable(t, a, m, b, n), NEW s, IsTable(s, a, m, b, n)
  PROVE  t[m][n] = s[m][n]
<1>1. ASSUME NEW x, IsTable(x, a, m, b, n), NEW y, IsTable(y, a, m, b, n)
      PROVE  y[m][n] <= x[m][n]
  <2>1. Within(y, 0, x, 0, m, 0)
    BY <1>1, FirstColumn
  <2>2. 0 \in Nat /\ 0 + n <= n /\ \A j \in 1..n : b[0 + j] = b[0 + j]
    OBVIOUS
  <2>3. \A j \in 0..n : Within(y, 0 + j, x, 0 + j, m, 0)
    BY <1>1, <2>1, <2>2, StaysClose, Zenon
  <2>4. n \in 0..n /\ m \in 0..m /\ 0 + n = n
    OBVIOUS
  <2>5. Within(y, n, x, n, m, 0)
    BY <2>3, <2>4
  <2>6. y[m][n] <= x[m][n] + 0
    BY <2>4, <2>5 DEF Within
  <2>7. x[m][n] \in Int
    BY <1>1, <2>4, EntryType
  <2> QED
    BY <2>6, <2>7
<1>2. m \in 0..m /\ n \in 0..n
  OBVIOUS
<1>3. t[m][n] \in Int /\ s[m][n] \in Int
  BY <1>2, EntryType
<1> QED
  BY <1>1, <1>3

\* The search with early exits says of two words of any letters what the whole table of
\* their Levenshtein distances says (etl/rules.py:_edit_distance_lte).
THEOREM EarlyExitsChangeNothing ==
  ASSUME NEW V, NEW a \in Seq(V), NEW b \in Seq(V), NEW d \in Nat
  PROVE  /\ \E t : IsTable(t, a, Len(a), b, Len(b))
         /\ \A t : IsTable(t, a, Len(a), b, Len(b)) =>
              (EditDistanceLte(a, b, d) <=> t[Len(a)][Len(b)] <= d)
<1> DEFINE m == Len(a)
           n == Len(b)
<1>1. m \in Nat /\ n \in Nat
  OBVIOUS
<1>2. PICK s : RowsOf(s, a, m, b, n)
  BY <1>1, RowsExist
<1>3. IsTable(s, a, m, b, n)
  BY <1>1, <1>2, RowsMakeTable
<1>4. EditDistanceLte(a, b, d) <=> s[m][n] <= d
  BY <1>2, WithinIsTable
<1> HIDE DEF m, n
<1>5. \A t : IsTable(t, a, m, b, n) => t[m][n] = s[m][n]
  BY <1>1, <1>3, TablesAgree
<1>6. \A t : IsTable(t, a, m, b, n) => (EditDistanceLte(a, b, d) <=> t[m][n] <= d)
  BY <1>4, <1>5
<1> QED
  BY <1>3, <1>6 DEF m, n

\* Within two edits is one edit from either side of some word.
LEMMA WithinTwoMeets ==
  ASSUME NEW V, NEW a \in Seq(V), NEW b \in Seq(V)
  PROVE  EditDistanceLte(a, b, 2) <=> MeetUpTo(V, a, Len(a), b, Len(b))
<1> DEFINE m == Len(a)
           n == Len(b)
<1>1. /\ m \in Nat /\ n \in Nat /\ m \in 0..m /\ n \in 0..n
      /\ a \in [1..m -> V] /\ b \in [1..n -> V]
  OBVIOUS
<1>2. PICK t : RowsOf(t, a, m, b, n)
  BY <1>1, RowsExist
<1>3. IsTable(t, a, m, b, n)
  BY <1>1, <1>2, RowsMakeTable
<1>4. EditDistanceLte(a, b, 2) <=> t[m][n] <= 2
  BY <1>2, WithinIsTable
<1>5. t[m][n] \in Int
  BY <1>1, <1>3, EntryType
<1> HIDE DEF m, n
<1>6. t[m][n] <= 2 => MeetUpTo(V, a, m, b, n)
  <2>1. \A i \in 0..m, j \in 0..n : t[i][j] <= 2 => MeetUpTo(V, a, i, b, j)
    BY <1>1, <1>3, DistanceTwoMeets
  <2> QED
    BY <1>1, <2>1
<1>7. ASSUME MeetUpTo(V, a, m, b, n) PROVE t[m][n] <= 2
  <2>1. PICK l \in Nat : \E w \in [1..l -> V] : EditedUpTo(a, m, w, l) /\ EditedUpTo(b, n, w, l)
    BY <1>7 DEF MeetUpTo
  <2>2. PICK w \in [1..l -> V] : EditedUpTo(a, m, w, l) /\ EditedUpTo(b, n, w, l)
    BY <2>1
  <2>3. PICK s : IsTable(s, a, m, a, m)
    BY <1>1, RowsExist, RowsMakeTable
  <2>4. PICK r : IsTable(r, a, m, w, l)
    BY <1>1, RowsExist, RowsMakeTable
  <2>5. s[m][m] <= 0 /\ s[m][m] \in Int /\ r[m][l] \in Int
    <3>1. s[m][m] <= 0
      BY <1>1, <2>3, NoDistanceFromItself
    <3>2. s[m][m] \in Int
      BY <1>1, <2>3, EntryType
    <3>3. r[m][l] \in Int
      <4>1. l \in 0..l
        OBVIOUS
      <4> QED
        BY <1>1, <2>4, <4>1, EntryType
    <3> QED
      BY <3>1, <3>2, <3>3
  <2>6. r[m][l] <= s[m][m] + 1
    <3>1. PICK k \in Nat, p \in {0, 1}, q \in {0, 1} : EditedAt(a, m, w, l, k, p, q)
      BY <2>2 DEF EditedUpTo
    <3> QED
      BY <1>1, <2>3, <2>4, <3>1, OneEditFurther
  <2>7. t[m][n] <= r[m][l] + 1
    <3>1. EditedUpTo(w, l, b, n)
      BY <1>1, <2>2, EditTurns
    <3>2. PICK k \in Nat, p \in {0, 1}, q \in {0, 1} : EditedAt(w, l, b, n, k, p, q)
      BY <3>1 DEF EditedUpTo
    <3> QED
      BY <1>1, <1>3, <2>4, <3>2, OneEditFurther
  <2> QED
    BY <1>5, <2>5, <2>6, <2>7
<1> QED
  BY <1>4, <1>6, <1>7 DEF m, n
=============================================================================
