------------------------------ MODULE TypoDistance ------------------------------
(***************************************************************************)
(* The bounded edit distance of etl/rules.py (_edit_distance_lte): the      *)
(* table of Levenshtein distances, computed row by row, given up as soon as *)
(* the answer can no longer be yes.  A word is a sequence of letters.       *)
(***************************************************************************)
EXTENDS Integers, Sequences, SequencesExt

Least(m, n) == IF m < n THEN m ELSE n
Distance(m, n) == IF m < n THEN n - m ELSE m - n

\* The row of the table for the i-th letter of a: row[j + 1] is the distance between
\* the first i letters of a and the first j of b; cur ends with the entry before (cur[j - 1]
\* of the code).
NextRow(prev, a, b, i) ==
  FoldLeftDomain(
    LAMBDA cur, j : Append(cur, Least(Least(Last(cur) + 1, prev[j + 1] + 1),
                                      prev[j] + (IF a[i] = b[j] THEN 0 ELSE 1))),
    <<i>>, b)

\* Variant: gives up when the row's least entry reaches the bound.
GivesUpEarly(row, maxDist) == \A j \in DOMAIN row : row[j] >= maxDist

GivesUp(row, maxDist) == \A j \in DOMAIN row : row[j] > maxDist

EditDistanceLte(a, b, maxDist) ==
  \/ a = b
  \/ /\ Distance(Len(a), Len(b)) <= maxDist
     /\ LET first == [j \in 1..Len(b) + 1 |-> j - 1]
            Step(prev, i) ==
              IF prev = <<>> \/ GivesUp(NextRow(prev, a, b, i), maxDist)
              THEN <<>>
              ELSE NextRow(prev, a, b, i)
            last == FoldLeftDomain(Step, first, a)
        IN last # <<>> /\ Last(last) <= maxDist
=============================================================================
