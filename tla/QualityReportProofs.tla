-------------------------- MODULE QualityReportProofs --------------------------
(***************************************************************************)
(* Proofs that the report's figures are those of the file, for any lines,   *)
(* any cut into batches and any number of examples kept.                    *)
(***************************************************************************)
EXTENDS QualityReport, FoldLemmas

\* The positions of s that hold a line of G.
Holding(s, G) == {i \in DOMAIN s : s[i] \in G}

------------------------------------------------------------------------------
(* Counting lines in a sequence. *)

\* There are finitely many positions.
LEMMA HoldingFinite ==
  ASSUME NEW S, NEW s \in Seq(S), NEW G
  PROVE  IsFiniteSet(Holding(s, G)) /\ Cardinality(Holding(s, G)) \in Nat
<1>1. DOMAIN s = 1..Len(s) /\ Len(s) \in Nat
  OBVIOUS
<1>2. IsFiniteSet(1..Len(s))
  BY <1>1, FS_Interval
<1>3. Holding(s, G) \in SUBSET (1..Len(s))
  BY <1>1 DEF Holding
<1>4. IsFiniteSet(Holding(s, G))
  BY <1>2, <1>3, FS_Subset
<1> QED
  BY <1>4, FS_CardinalityType

\* Appending a batch adds the batch's count.
LEMMA CountAppended ==
  ASSUME NEW S, NEW s \in Seq(S), NEW b \in Seq(S), NEW G
  PROVE  Cardinality(Holding(s \o b, G)) = Cardinality(Holding(s, G)) + Cardinality(Holding(b, G))
<1> DEFINE A == Holding(s, G)
           B == Holding(b, G)
           Shifted == {i \in (Len(s) + 1)..(Len(s) + Len(b)) : b[i - Len(s)] \in G}
           shift == [j \in B |-> j + Len(s)]
<1>1. /\ Len(s) \in Nat /\ Len(b) \in Nat /\ DOMAIN s = 1..Len(s) /\ DOMAIN b = 1..Len(b)
      /\ DOMAIN (s \o b) = 1..(Len(s) + Len(b))
      /\ \A i \in 1..(Len(s) + Len(b)) : (s \o b)[i] = IF i <= Len(s) THEN s[i] ELSE b[i - Len(s)]
  OBVIOUS
<1>2. Holding(s \o b, G) = A \cup Shifted
  BY <1>1 DEF Holding
<1>3. A \cap Shifted = {}
  BY <1>1 DEF Holding
<1>4. shift \in Bijection(B, Shifted)
  <2>1. shift \in [B -> Shifted]
    BY <1>1 DEF Holding
  <2>2. \A i, j \in B : shift[i] = shift[j] => i = j
    BY <1>1 DEF Holding
  <2>3. \A k \in Shifted : \E j \in B : shift[j] = k
    <3> SUFFICES ASSUME NEW k \in Shifted PROVE \E j \in B : shift[j] = k
      OBVIOUS
    <3>1. k - Len(s) \in B
      BY <1>1 DEF Holding
    <3>2. shift[k - Len(s)] = k
      BY <1>1, <3>1
    <3> QED
      BY <3>1, <3>2
  <2> QED
    BY <2>1, <2>2, <2>3 DEF Bijection, Injection, Surjection, IsInjective
<1>5. IsFiniteSet(A) /\ IsFiniteSet(B) /\ Cardinality(A) \in Nat /\ Cardinality(B) \in Nat
  BY HoldingFinite
<1>6. IsFiniteSet(Shifted) /\ Cardinality(Shifted) = Cardinality(B)
  BY <1>4, <1>5, FS_Bijection DEF ExistsBijection
<1> HIDE DEF A, B, Shifted, shift
<1>7. Cardinality(A \cup Shifted) = Cardinality(A) + Cardinality(Shifted) - Cardinality({})
  BY <1>3, <1>5, <1>6, FS_Union
<1> QED
  BY <1>2, <1>5, <1>6, <1>7, FS_EmptySet DEF A, B

\* The figures as counts of lines.
RestyledLines == {l \in Lines : l.restyled}
GapLines(c) == {l \in Lines : l.cells[c] # "ok"}
UnparsedLines(c) == {l \in Lines : l.cells[c] = "bad"}
DatedLines == {l \in Lines : l.date # NoDate}
LinesOfDate(d) == {l \in Lines : l.date = d}

LEMMA FiguresAreCounts ==
  ASSUME NEW s \in Seq(Lines)
  PROVE  /\ Restyled(s) = Holding(s, RestyledLines)
         /\ Dated(s) = Holding(s, DatedLines)
         /\ \A c \in Columns : /\ Gaps(s, c) = Holding(s, GapLines(c))
                               /\ Unparsed(s, c) = Holding(s, UnparsedLines(c))
         /\ \A d \in Dates : DatedAs(s, d) = Holding(s, LinesOfDate(d))
<1>1. \A i \in DOMAIN s : s[i] \in Lines
  OBVIOUS
<1> QED
  BY <1>1 DEF Restyled, Dated, Gaps, Unparsed, DatedAs, Holding, RestyledLines, DatedLines,
     GapLines, UnparsedLines, LinesOfDate

\* What a batch adds to each figure of the lines read.
LEMMA FiguresAppended ==
  ASSUME NEW s \in Seq(Lines), NEW b \in Seq(Lines)
  PROVE  /\ Cardinality(Restyled(s \o b)) = Cardinality(Restyled(s)) + Cardinality(Restyled(b))
         /\ Cardinality(Dated(s \o b)) = Cardinality(Dated(s)) + Cardinality(Dated(b))
         /\ \A c \in Columns :
              /\ Cardinality(Gaps(s \o b, c)) = Cardinality(Gaps(s, c)) + Cardinality(Gaps(b, c))
              /\ Cardinality(Unparsed(s \o b, c))
                   = Cardinality(Unparsed(s, c)) + Cardinality(Unparsed(b, c))
         /\ \A d \in Dates : Cardinality(DatedAs(s \o b, d))
                               = Cardinality(DatedAs(s, d)) + Cardinality(DatedAs(b, d))
<1>1. s \o b \in Seq(Lines)
  OBVIOUS
<1>2. \A G : Cardinality(Holding(s \o b, G)) = Cardinality(Holding(s, G)) + Cardinality(Holding(b, G))
  BY CountAppended
<1>3. ASSUME NEW c \in Columns
      PROVE  /\ Cardinality(Gaps(s \o b, c)) = Cardinality(Gaps(s, c)) + Cardinality(Gaps(b, c))
             /\ Cardinality(Unparsed(s \o b, c))
                  = Cardinality(Unparsed(s, c)) + Cardinality(Unparsed(b, c))
  BY <1>1, <1>2, FiguresAreCounts
<1>4. ASSUME NEW d \in Dates
      PROVE  Cardinality(DatedAs(s \o b, d)) = Cardinality(DatedAs(s, d)) + Cardinality(DatedAs(b, d))
  BY <1>1, <1>2, FiguresAreCounts
<1>5. /\ Cardinality(Restyled(s \o b)) = Cardinality(Restyled(s)) + Cardinality(Restyled(b))
      /\ Cardinality(Dated(s \o b)) = Cardinality(Dated(s)) + Cardinality(Dated(b))
  BY <1>1, <1>2, FiguresAreCounts
<1> QED
  BY <1>3, <1>4, <1>5

LEMMA FiguresAreNaturals ==
  ASSUME NEW s \in Seq(Lines)
  PROVE  /\ Cardinality(Restyled(s)) \in Nat
         /\ Cardinality(Dated(s)) \in Nat /\ (Dated(s) = {} <=> Cardinality(Dated(s)) = 0)
         /\ \A c \in Columns : Cardinality(Gaps(s, c)) \in Nat /\ Cardinality(Unparsed(s, c)) \in Nat
         /\ \A d \in Dates : Cardinality(DatedAs(s, d)) \in Nat
<1>1. \A G : IsFiniteSet(Holding(s, G)) /\ Cardinality(Holding(s, G)) \in Nat
  BY HoldingFinite
<1>2. Dated(s) = Holding(s, DatedLines)
  BY FiguresAreCounts
<1>3. IsFiniteSet(Dated(s))
  BY <1>1, <1>2
<1>4. Dated(s) = {} <=> Cardinality(Dated(s)) = 0
  BY <1>3, FS_EmptySet
<1> QED
  BY <1>1, <1>4, FiguresAreCounts

------------------------------------------------------------------------------
(* The invariant. *)

\* The list of examples is as long as the cap allows.
ExamplesFit == examples = Least(MaxExamples, cats)

\* The uniformity figures are those of the lines read.
DatesFit ==
  /\ \A d \in Dates : dateCounts[d] = Cardinality(DatedAs(read, d))
  /\ allMidnight <=> \A i \in Dated(read) : read[i].date \in Midnight
  /\ phase = "done" => findings = Derived

FigureTypes ==
  /\ read \in Seq(Lines) /\ cats \in Nat /\ examples \in Nat /\ totalRows \in Nat
  /\ missing \in [Columns -> Nat] /\ parseFails \in [Parsed -> Nat]
  /\ dateCounts \in [Dates -> Nat] /\ dateTotal \in Nat /\ allMidnight \in BOOLEAN

FiguresInv == FigureTypes /\ CountsOfFile /\ ExamplesFit /\ DatesFit

\* The category arithmetic: whatever the batch's number of mismatches, the count grows
\* by that number, and the list stays as long as the cap allows.
LEMMA CategoryStep ==
  ASSUME cats \in Nat, ExamplesFit, NEW n \in Nat
  PROVE  /\ CategoryCount(n) = cats + n
         /\ ExamplesAfter(n) = Least(MaxExamples, cats + n) /\ ExamplesAfter(n) \in Nat
  BY SizesAssumption DEF ExamplesFit, CategoryCount, ExamplesAfter, Least

\* A round of the batch loop keeps the invariant.
LEMMA BatchStep ==
  ASSUME FiguresInv, ReadBatch
  PROVE  FiguresInv'
<1>0. PICK n \in 1..MaxBatch : \E b \in [1..n -> Lines] : Accumulate(b)
  BY DEF ReadBatch
<1>1. PICK b \in [1..n -> Lines] : Accumulate(b)
  BY <1>0
<1>2. n \in Nat /\ b \in Seq(Lines) /\ read \in Seq(Lines)
  BY SizesAssumption DEF FiguresInv, FigureTypes
<1>3. /\ read' = read \o b /\ read' \in Seq(Lines) /\ Len(read') = Len(read) + Len(b)
      /\ Len(read) \in Nat /\ Len(b) \in Nat
  BY <1>1, <1>2 DEF Accumulate
<1> DEFINE m == Cardinality(Restyled(b))
<1>4. m \in Nat
  BY <1>2, FiguresAreNaturals
<1>5. cats' = cats + m /\ examples' = Least(MaxExamples, cats + m) /\ cats' \in Nat /\ examples' \in Nat
  <2>1. cats \in Nat /\ ExamplesFit
    BY DEF FiguresInv, FigureTypes
  <2>2. cats' = CategoryCount(m) /\ examples' = ExamplesAfter(m)
    BY <1>1 DEF Accumulate
  <2> HIDE DEF m
  <2>3. CategoryCount(m) = cats + m /\ ExamplesAfter(m) = Least(MaxExamples, cats + m)
        /\ ExamplesAfter(m) \in Nat
    BY <1>4, <2>1, CategoryStep
  <2> QED
    BY <1>4, <2>1, <2>2, <2>3
<1> HIDE DEF m
<1>6. FigureTypes'
  <2>1. /\ Cardinality(Dated(b)) \in Nat
        /\ \A c \in Columns : Cardinality(Gaps(b, c)) \in Nat /\ Cardinality(Unparsed(b, c)) \in Nat
        /\ \A d \in Dates : Cardinality(DatedAs(b, d)) \in Nat
    BY <1>2, FiguresAreNaturals
  <2>2. totalRows' \in Nat /\ dateTotal' \in Nat /\ allMidnight' \in BOOLEAN
    <3>1. totalRows' = totalRows + Len(b) /\ dateTotal' = dateTotal + Cardinality(Dated(b))
          /\ allMidnight' = (allMidnight /\ \A i \in Dated(b) : b[i].date \in Midnight)
      BY <1>1 DEF Accumulate, StillMidnight
    <3>2. totalRows \in Nat /\ dateTotal \in Nat
      BY DEF FiguresInv, FigureTypes
    <3>3. totalRows' \in Nat /\ dateTotal' \in Nat
      BY <1>3, <2>1, <3>1, <3>2
    <3> QED
      BY <3>1, <3>3
  <2>3. missing' \in [Columns -> Nat] /\ parseFails' \in [Parsed -> Nat]
    BY <1>1, <2>1, ColumnsAssumption DEF Accumulate, FiguresInv, FigureTypes
  <2>4. dateCounts' \in [Dates -> Nat]
    BY <1>1, <2>1 DEF Accumulate, FiguresInv, FigureTypes
  <2> QED
    BY <1>3, <1>5, <2>2, <2>3, <2>4 DEF FigureTypes
<1>7. CountsOfFile'
  <2>1. totalRows' = Len(read')
    BY <1>1, <1>3 DEF Accumulate, FiguresInv, CountsOfFile
  <2>2. /\ \A c \in Columns : missing'[c] = Cardinality(Gaps(read', c))
        /\ \A c \in Parsed : parseFails'[c] = Cardinality(Unparsed(read', c))
    BY <1>1, <1>2, <1>3, FiguresAppended, ColumnsAssumption
       DEF Accumulate, FiguresInv, CountsOfFile
  <2>3. cats' = Cardinality(Restyled(read'))
    BY <1>2, <1>3, <1>5, FiguresAppended DEF FiguresInv, CountsOfFile, m
  <2>4. dateTotal' = Cardinality(Dated(read'))
    BY <1>1, <1>2, <1>3, FiguresAppended DEF Accumulate, FiguresInv, CountsOfFile
  <2> QED
    BY <2>1, <2>2, <2>3, <2>4 DEF CountsOfFile, Gaps, Unparsed, Restyled, Dated
<1>8. ExamplesFit'
  BY <1>5 DEF ExamplesFit
<1>9. DatesFit'
  <2>1. \A d \in Dates : dateCounts'[d] = Cardinality(DatedAs(read, d))'
    BY <1>1, <1>2, <1>3, FiguresAppended DEF Accumulate, FiguresInv, FigureTypes, DatesFit
  <2>2. (\A i \in Dated(read \o b) : (read \o b)[i].date \in Midnight)
        <=> /\ \A i \in Dated(read) : read[i].date \in Midnight
            /\ \A i \in Dated(b) : b[i].date \in Midnight
    <3>1. ASSUME NEW i \in DOMAIN b
          PROVE  Len(read) + i \in DOMAIN (read \o b) /\ (read \o b)[Len(read) + i] = b[i]
      BY <1>2
    <3>2. \A i \in DOMAIN read : i \in DOMAIN (read \o b) /\ (read \o b)[i] = read[i]
      BY <1>2
    <3>3. ASSUME NEW k \in DOMAIN (read \o b)
          PROVE  \/ k \in DOMAIN read /\ (read \o b)[k] = read[k]
                 \/ k - Len(read) \in DOMAIN b /\ (read \o b)[k] = b[k - Len(read)]
      BY <1>2
    <3> QED
      BY <3>1, <3>2, <3>3 DEF Dated
  <2>3. allMidnight' <=> (\A i \in Dated(read) : read[i].date \in Midnight)'
    BY <1>1, <1>3, <2>2 DEF Accumulate, StillMidnight, FiguresInv, DatesFit
  <2>4. phase' # "done"
    BY DEF ReadBatch
  <2> QED
    BY <2>1, <2>3, <2>4 DEF DatesFit
<1> QED
  BY <1>6, <1>7, <1>8, <1>9 DEF FiguresInv

\* Nothing is counted at first.
LEMMA InitFigures == Init => FiguresInv
<1> SUFFICES ASSUME Init PROVE FiguresInv
  OBVIOUS
<1>1. read = <<>> /\ read \in Seq(Lines) /\ Len(read) = 0 /\ DOMAIN read = {}
  BY DEF Init
<1>2. FigureTypes
  BY <1>1 DEF Init, FigureTypes
<1>3. CountsOfFile
  BY <1>1, FS_EmptySet DEF Init, CountsOfFile, Gaps, Unparsed, Restyled, Dated
<1>4. ExamplesFit /\ DatesFit
  BY <1>1, FS_EmptySet, SizesAssumption DEF Init, ExamplesFit, Least, DatesFit, DatedAs, Dated
<1> QED
  BY <1>2, <1>3, <1>4 DEF FiguresInv

\* Every step keeps the invariant.
LEMMA StepFigures == FiguresInv /\ [Next]_vars => FiguresInv'
<1> SUFFICES ASSUME FiguresInv, [Next]_vars PROVE FiguresInv'
  OBVIOUS
<1>1. CASE ReadBatch
  BY <1>1, BatchStep
<1>2. CASE EndOfFile
  BY <1>2 DEF EndOfFile, counters, FiguresInv, FigureTypes, CountsOfFile, ExamplesFit, DatesFit
<1>3. CASE Report
  BY <1>3 DEF Report, counters, FiguresInv, FigureTypes, CountsOfFile, ExamplesFit, DatesFit,
     Derived, Uniform
<1>4. CASE UNCHANGED vars
  BY <1>4 DEF vars, counters, FiguresInv, FigureTypes, CountsOfFile, ExamplesFit, DatesFit,
     Derived, Uniform
<1> QED
  BY <1>1, <1>2, <1>3, <1>4 DEF Next

LEMMA FiguresInvariant == Spec => []FiguresInv
<1>1. Init => FiguresInv
  BY InitFigures
<1>2. FiguresInv /\ [Next]_vars => FiguresInv'
  BY StepFigures
<1> QED
  BY <1>1, <1>2, PTL DEF Spec

\* The figures are those of the lines read, wherever the reader cuts the file and
\* however many examples are kept (service.py:984-987).
THEOREM CountsAreOfFile == Spec => []CountsOfFile
<1>1. FiguresInv => CountsOfFile
  BY DEF FiguresInv
<1> QED
  BY <1>1, FiguresInvariant, PTL

\* The report has the uniformity finding exactly when the condition of the code holds.
LEMMA TemporalFinding ==
  Finding("temporal_uniformity", "order_date", "info") \in Derived <=> Uniform
<1> DEFINE f == Finding("temporal_uniformity", "order_date", "info")
<1>1. f.check = "temporal_uniformity"
  BY DEF Finding
<1>2. \A c, v : /\ Finding("missing_ratio", c, v) # f /\ Finding("parse_failure", c, v) # f
                /\ Finding("duplicates", c, v) # f /\ Finding("category_normalization", c, v) # f
                /\ Finding("null_heavy", c, v) # f
  BY DEF Finding
<1> HIDE DEF f
<1> QED
  BY <1>1, <1>2 DEF Derived, f

\* The uniformity finding speaks of the whole file, wherever it is cut.
THEOREM TemporalIsOfFile == Spec => []TemporalOfFile
<1>1. FiguresInv => TemporalOfFile
  <2> SUFFICES ASSUME FiguresInv, phase = "done"
               PROVE  Uniform <=>
                        /\ Dated(read) # {}
                        /\ \/ \E d \in Dates : 10 * Cardinality(DatedAs(read, d))
                                                 >= 9 * Cardinality(Dated(read))
                           \/ \A i \in Dated(read) : read[i].date \in Midnight
    BY TemporalFinding DEF TemporalOfFile, FiguresInv, DatesFit
  <2>1. dateTotal = Cardinality(Dated(read)) /\ (dateTotal > 0 <=> Dated(read) # {})
    BY FiguresAreNaturals DEF FiguresInv, FigureTypes, CountsOfFile
  <2> QED
    BY <2>1 DEF Uniform, FiguresInv, DatesFit
<1> QED
  BY <1>1, FiguresInvariant, PTL
------------------------------------------------------------------------------
(* Repeated ids.                                                              *)

IdsOf(s) == {s[i].id : i \in DOMAIN s}

\* There are no more ids than lines.
LEMMA IdsFinite ==
  ASSUME NEW s \in Seq(Lines)
  PROVE  /\ IsFiniteSet(DOMAIN s) /\ Cardinality(DOMAIN s) = Len(s)
         /\ IsFiniteSet(IdsOf(s)) /\ Cardinality(IdsOf(s)) <= Len(s)
<1>1. DOMAIN s = 1..Len(s) /\ Len(s) \in Nat
  OBVIOUS
<1>2. IsFiniteSet(DOMAIN s) /\ Cardinality(DOMAIN s) = Len(s)
  BY <1>1, FS_Interval
<1> DEFINE f == [i \in DOMAIN s |-> s[i].id]
<1>3. f \in Surjection(DOMAIN s, IdsOf(s))
  BY DEF Surjection, IdsOf
<1> HIDE DEF f
<1> QED
  BY <1>2, <1>3, FS_Surjection

\* Each id has one line that repeats none before it: the repeats are all the others.
LEMMA RepeatsCounted ==
  ASSUME NEW s \in Seq(Lines), \A i \in DOMAIN s : s[i].id # NoId
  PROVE  Cardinality(Repeats(s)) = Len(s) - Cardinality(IdsOf(s))
<1> DEFINE firsts == DOMAIN s \ Repeats(s)
           f == [i \in firsts |-> s[i].id]
<1>1. DOMAIN s = 1..Len(s) /\ Len(s) \in Nat
  OBVIOUS
<1>2. \A i \in DOMAIN s : i \in Repeats(s) <=> \E j \in 1..(i - 1) : s[j].id = s[i].id
  BY DEF Repeats
<1>3. f \in Injection(firsts, IdsOf(s))
  <2>1. \A i, j \in firsts : i < j => s[i].id # s[j].id
    BY <1>1, <1>2
  <2>2. \A i, j \in firsts : s[i].id = s[j].id => i = j
    BY <1>1, <2>1
  <2>3. f \in [firsts -> IdsOf(s)]
    BY DEF IdsOf
  <2> QED
    BY <2>2, <2>3 DEF Injection, IsInjective
<1>4. f \in Surjection(firsts, IdsOf(s))
  <2>1. ASSUME NEW v \in IdsOf(s) PROVE \E i \in firsts : s[i].id = v
    <3> DEFINE T == {i \in DOMAIN s : s[i].id = v}
    <3>1. T # {} /\ T \in SUBSET Nat
      BY <1>1 DEF IdsOf
    <3>2. PICK i \in T : \A j \in T : i <= j
      BY <3>1, LeastOfNaturals
    <3>3. i \notin Repeats(s)
      <4>1. \A j \in 1..(i - 1) : j \in DOMAIN s /\ j < i
        BY <1>1
      <4>2. \A j \in 1..(i - 1) : j \notin T
        BY <1>1, <3>2, <4>1
      <4> QED
        BY <1>2, <4>1, <4>2
    <3> QED
      BY <3>3
  <2>2. f \in [firsts -> IdsOf(s)]
    BY DEF IdsOf
  <2> QED
    BY <2>1, <2>2 DEF Surjection
<1> HIDE DEF f
<1>5. IsFiniteSet(firsts) /\ Cardinality(firsts) = Cardinality(IdsOf(s))
  <2>1. IsFiniteSet(firsts)
    BY IdsFinite, FS_Difference
  <2> QED
    BY <1>3, <1>4, <2>1, FS_Surjection
<1>6. Cardinality(DOMAIN s \ Repeats(s)) = Len(s) - Cardinality(Repeats(s))
  <2>1. DOMAIN s \cap Repeats(s) = Repeats(s)
    BY DEF Repeats
  <2> QED
    BY <2>1, IdsFinite, FS_Difference
<1>7. Cardinality(Repeats(s)) \in Nat /\ Cardinality(IdsOf(s)) \in Nat
  <2>1. Repeats(s) \subseteq DOMAIN s
    BY DEF Repeats
  <2> QED
    BY <2>1, IdsFinite, FS_Subset, FS_CardinalityType
<1> QED
  BY <1>1, <1>5, <1>6, <1>7

(* What seen_ids and the count of duplicates amount to. *)

AllNamed(s) == \A i \in DOMAIN s : s[i].id # NoId

SeenInv ==
  /\ dry \in BOOLEAN /\ phase \in {"reading", "checks", "done"}
  /\ seen \subseteq Ids \cup {NoId, HashId} /\ IsFiniteSet(seen) /\ dups \in Nat
  /\ AllNamed(read) => seen = IdsOf(read) /\ dups + Cardinality(seen) = Len(read)

LEMMA SeenStep ==
  ASSUME FiguresInv, SeenInv, ReadBatch
  PROVE  SeenInv'
<1>0. PICK n \in 1..MaxBatch : \E b \in [1..n -> Lines] : Accumulate(b)
  BY DEF ReadBatch
<1>1. PICK b \in [1..n -> Lines] : Accumulate(b)
  BY <1>0
<1>2. /\ n \in Nat \ {0} /\ b \in Seq(Lines) /\ read \in Seq(Lines) /\ DOMAIN b = 1..n
      /\ Len(b) = n /\ Len(read) \in Nat
  BY SizesAssumption DEF FiguresInv, FigureTypes
<1>3. /\ read' = read \o b /\ Len(read') = Len(read) + Len(b)
  <2>1. read' = read \o b
    BY <1>1 DEF Accumulate
  <2>2. Len(read \o b) = Len(read) + Len(b)
    BY <1>2
  <2> QED
    BY <2>1, <2>2
<1> DEFINE I == StoredIds(b)
<1>10. seen' = seen \cup I /\ dups' = dups + (Len(b) - Cardinality(I \ seen))
  BY <1>1 DEF Accumulate, NewRepeats
<1>4. IsFiniteSet(I) /\ Cardinality(I) <= Len(b) /\ I \subseteq Ids \cup {NoId, HashId}
  <2>1. CASE \A i \in DOMAIN b : b[i].id = NoId
    <3>1. I = {HashId}
      BY <2>1 DEF StoredIds
    <3>2. IsFiniteSet({HashId}) /\ Cardinality({HashId}) = 1
      BY FS_Singleton
    <3> HIDE DEF I
    <3> QED
      BY <1>2, <3>1, <3>2
  <2>2. CASE ~\A i \in DOMAIN b : b[i].id = NoId
    <3>1. I = IdsOf(b)
      BY <2>2 DEF StoredIds, IdsOf
    <3>2. \A i \in DOMAIN b : b[i].id \in Ids \cup {NoId}
      BY <1>2, LinesAssumption DEF LineType
    <3> QED
      BY <1>2, <3>1, <3>2, IdsFinite DEF IdsOf
  <2> QED
    BY <2>1, <2>2
<1> HIDE DEF I
<1>5. /\ IsFiniteSet(I \ seen) /\ Cardinality(I \ seen) \in Nat /\ Cardinality(I \ seen) <= Len(b)
      /\ IsFiniteSet(seen \cup I) /\ Cardinality(seen) \in Nat
      /\ Cardinality(seen \cup I) = Cardinality(seen) + Cardinality(I \ seen)
  <2>1. IsFiniteSet(seen) /\ Cardinality(seen) \in Nat /\ Cardinality(I) \in Nat
    BY <1>4, FS_CardinalityType DEF SeenInv
  <2>2. IsFiniteSet(I \ seen) /\ Cardinality(I \ seen) \in Nat /\ Cardinality(I \ seen) <= Cardinality(I)
    <3>1. (I \ seen) \subseteq I
      OBVIOUS
    <3> QED
      BY <1>4, <3>1, FS_Subset, FS_CardinalityType
  <2>3. seen \cup I = seen \cup (I \ seen) /\ seen \cap (I \ seen) = {}
    OBVIOUS
  <2>4. /\ IsFiniteSet(seen \cup (I \ seen))
        /\ Cardinality(seen \cup (I \ seen)) =
             Cardinality(seen) + Cardinality(I \ seen) - Cardinality(seen \cap (I \ seen))
    BY <2>1, <2>2, FS_Union
  <2>5. Cardinality(seen \cap (I \ seen)) = 0
    BY <2>3, FS_EmptySet
  <2>6. /\ IsFiniteSet(seen \cup I)
        /\ Cardinality(seen \cup I) = Cardinality(seen) + Cardinality(I \ seen)
    <3>1. Cardinality(seen \cup I) = Cardinality(seen \cup (I \ seen))
      BY <2>3
    <3>2. IsFiniteSet(seen \cup I)
      BY <2>3, <2>4
    <3> QED
      BY <2>1, <2>2, <2>4, <2>5, <3>1, <3>2
  <2>7. Cardinality(I \ seen) <= Len(b)
    BY <1>2, <1>4, <2>1, <2>2
  <2> QED
    BY <2>1, <2>2, <2>6, <2>7
<1>6. dups' = dups + (Len(b) - Cardinality(I \ seen)) /\ dups' \in Nat
  BY <1>2, <1>5, <1>10 DEF SeenInv
<1>7. ASSUME AllNamed(read')
      PROVE  seen' = IdsOf(read') /\ dups' + Cardinality(seen') = Len(read')
  <2>1. \A i \in DOMAIN read : i \in DOMAIN read' /\ read'[i] = read[i]
    BY <1>2, <1>3
  <2>2. \A i \in DOMAIN b : Len(read) + i \in DOMAIN read' /\ read'[Len(read) + i] = b[i]
    BY <1>2, <1>3
  <2>3. ASSUME NEW k \in DOMAIN read'
        PROVE  \/ k \in DOMAIN read /\ read'[k] = read[k]
               \/ k - Len(read) \in DOMAIN b /\ read'[k] = b[k - Len(read)]
    BY <1>2, <1>3
  <2>4. AllNamed(read) /\ AllNamed(b)
    BY <1>7, <2>1, <2>2 DEF AllNamed
  <2>5. I = IdsOf(b)
    BY <1>2, <2>4 DEF I, StoredIds, IdsOf, AllNamed
  <2>6. IdsOf(read') = IdsOf(read) \cup IdsOf(b)
    BY <2>1, <2>2, <2>3 DEF IdsOf
  <2>7. seen = IdsOf(read) /\ dups + Cardinality(seen) = Len(read) /\ dups \in Nat
    BY <2>4 DEF SeenInv
  <2>8. seen' = IdsOf(read')
    BY <1>10, <2>5, <2>6, <2>7
  <2>9. Cardinality(seen') = Cardinality(seen) + Cardinality(I \ seen)
    BY <1>5, <1>10
  <2>10. dups' + Cardinality(seen') = Len(read')
    <3>1. Cardinality(I \ seen) \in Nat /\ Cardinality(seen) \in Nat
      BY <1>5
    <3>2. dups' = dups + (Len(b) - Cardinality(I \ seen))
      BY <1>6
    <3>3. Len(read') = Len(read) + Len(b)
      BY <1>3
    <3>4. Len(read) \in Nat /\ Len(b) \in Nat
      BY <1>2
    <3> QED
      BY <2>7, <2>9, <3>1, <3>2, <3>3, <3>4
  <2> QED
    BY <2>8, <2>10
<1>8. seen' \subseteq Ids \cup {NoId, HashId} /\ IsFiniteSet(seen')
  BY <1>10, <1>4, <1>5 DEF SeenInv
<1>9. dry' \in BOOLEAN /\ phase' \in {"reading", "checks", "done"}
  BY DEF ReadBatch, SeenInv
<1> QED
  BY <1>6, <1>7, <1>8, <1>9 DEF SeenInv

LEMMA SeenAlways == Spec => []SeenInv
<1>1. Init => SeenInv
  <2> SUFFICES ASSUME Init PROVE SeenInv
    OBVIOUS
  <2>1. /\ read = <<>> /\ Len(read) = 0 /\ DOMAIN read = {} /\ seen = {} /\ dups = 0
        /\ dry \in BOOLEAN /\ phase = "reading"
    BY DEF Init
  <2>2. IsFiniteSet(seen) /\ Cardinality(seen) = 0 /\ seen = IdsOf(read)
    BY <2>1, FS_EmptySet DEF IdsOf
  <2> QED
    BY <2>1, <2>2 DEF SeenInv
<1>2. FiguresInv /\ SeenInv /\ [Next]_vars => SeenInv'
  <2> SUFFICES ASSUME FiguresInv, SeenInv, [Next]_vars PROVE SeenInv'
    OBVIOUS
  <2>1. CASE ReadBatch
    BY <2>1, SeenStep
  <2>2. CASE EndOfFile
    BY <2>2 DEF EndOfFile, counters, SeenInv
  <2>3. CASE Report
    BY <2>3 DEF Report, counters, SeenInv
  <2>4. CASE UNCHANGED vars
    BY <2>4 DEF vars, counters, SeenInv
  <2> QED
    BY <2>1, <2>2, <2>3, <2>4 DEF Next
<1> QED
  BY <1>1, <1>2, FiguresInvariant, PTL DEF Spec

\* TypeOK: every figure of the accumulator keeps its type.
THEOREM TypeCorrect == Spec => []TypeOK
<1>1. FiguresInv /\ SeenInv => TypeOK
  BY DEF FiguresInv, FigureTypes, SeenInv, TypeOK
<1> QED
  BY <1>1, FiguresInvariant, SeenAlways, PTL

\* Where every line has its id, a line counts as a duplicate exactly when an earlier line
\* of the file has its id, however the file was cut (service.py:1052-1058).
THEOREM DuplicatesAreOfFile == Spec => []DuplicatesOfFile
<1>1. FiguresInv /\ SeenInv => DuplicatesOfFile
  <2> SUFFICES ASSUME FiguresInv, SeenInv, AllNamed(read)
               PROVE  dups = Cardinality(Repeats(read))
    BY DEF DuplicatesOfFile, AllNamed
  <2>1. read \in Seq(Lines) /\ Len(read) \in Nat /\ Cardinality(IdsOf(read)) \in Nat
    BY IdsFinite, FS_CardinalityType DEF FiguresInv, FigureTypes
  <2>2. Cardinality(Repeats(read)) = Len(read) - Cardinality(IdsOf(read))
    BY <2>1, RepeatsCounted DEF AllNamed
  <2> QED
    BY <2>1, <2>2 DEF SeenInv
<1> QED
  BY <1>1, FiguresInvariant, SeenAlways, PTL
==============================================================================
