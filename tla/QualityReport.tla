----------------------------- MODULE QualityReport -----------------------------
(***************************************************************************)
(* The quality report of one run_etl call: the accumulator of              *)
(* etl/quality.py, what the batch loop of etl/service.py feeds it, and the  *)
(* findings derived from it.  The file is cut into batches wherever the     *)
(* reader likes, so the report should say something about the file and not  *)
(* about the cuts.                                                         *)
(*                                                                         *)
(* A CSV line is a record: its transaction id (or NoId), whether its        *)
(* category is not in lower case, the state of its required columns after   *)
(* the transform and its order date (or NoDate).                            *)
(*                                                                         *)
(* Definitions whose comment starts with "Variant" are altered copies of    *)
(* the definition after them, used by no specification.                     *)
(***************************************************************************)
EXTENDS Naturals, Sequences, FiniteSets

CONSTANTS
  Ids, NoId,      \* transaction ids; a missing one
  HashId,         \* what the hash fallback gives every row of a batch without ids
  Columns,        \* REQUIRED_TRANSACTION_COLUMNS
  Parsed,         \* those whose parse failures are counted; others are cast silently
  Dates, NoDate,  \* order dates; a missing one
  Midnight,       \* those at 00:00:00
  Lines,          \* the lines a file may hold
  MaxBatch,       \* settings.etl_batch_size
  MaxRows,        \* bound on the length of the file
  MaxExamples     \* 5, both the slice of a batch's mismatches and the cap of the list

\* A cell after the transform; "bad" is one with a text in the file that is null now.
CellStates == {"ok", "gap", "bad"}
LineType == [id : Ids \cup {NoId}, restyled : BOOLEAN,
             cells : [Columns -> CellStates], date : Dates \cup {NoDate}]

ASSUME LinesAssumption == Lines \subseteq LineType /\ NoId \notin Ids /\ NoDate \notin Dates
ASSUME ColumnsAssumption == Parsed \subseteq Columns
ASSUME SizesAssumption == MaxBatch \in Nat /\ MaxRows \in Nat /\ MaxExamples \in Nat

VARIABLES
  dry,         \* dry_run
  phase,       \* "reading", "checks" or "done"
  read,        \* the lines read so far (history)
  totalRows, missing, parseFails, dups, cats,
  examples,    \* len(category_examples)
  seen,        \* seen_ids
  dateCounts, dateTotal, allMidnight,
  findings

counters == <<totalRows, missing, parseFails, dups, cats, examples, seen,
              dateCounts, dateTotal, allMidnight>>
vars == <<dry, phase, read, counters, findings>>

\* Positions of the lines of s that count for each figure.
Restyled(s) == {i \in DOMAIN s : s[i].restyled}
Gaps(s, c) == {i \in DOMAIN s : s[i].cells[c] # "ok"}
Unparsed(s, c) == {i \in DOMAIN s : s[i].cells[c] = "bad"}
Dated(s) == {i \in DOMAIN s : s[i].date # NoDate}
DatedAs(s, d) == {i \in DOMAIN s : s[i].date = d}

Least(m, n) == IF m < n THEN m ELSE n

Init ==
  /\ dry \in BOOLEAN
  /\ phase = "reading" /\ read = <<>> /\ findings = {}
  /\ totalRows = 0 /\ dups = 0 /\ cats = 0 /\ examples = 0
  /\ missing = [c \in Columns |-> 0] /\ parseFails = [c \in Parsed |-> 0]
  /\ seen = {}
  /\ dateCounts = [d \in Dates |-> 0] /\ dateTotal = 0 /\ allMidnight = TRUE

\* The ids a batch is stored with.  Only a batch without any id gets the hash; its
\* input holds the null id itself, so all its rows hash alike.  A missing id beside
\* present ones is written as str(None).
StoredIds(b) ==
  IF \A i \in DOMAIN b : b[i].id = NoId
  THEN {HashId}
  ELSE {b[i].id : i \in DOMAIN b}

\* Variant: seen_ids is forgotten between batches.
NewRepeatsOfBatch(b) == Len(b) - Cardinality(StoredIds(b))

\* Each row but the first of a new id counts as a repeat.
NewRepeats(b) == Len(b) - Cardinality(StoredIds(b) \ seen)

\* Variant: the list's length is taken before the batch's examples are added.
CategoryCountEarly(n) == cats + Least(n, MaxExamples) + (IF n > examples THEN n - examples ELSE 0)

\* A batch with n mismatches: the first few are added one by one, the rest by the
\* difference with the length the example list has by then.
ExamplesAfter(n) == Least(MaxExamples, examples + Least(n, MaxExamples))

\* Variant: the difference is taken even when the list is the longer of the two.
CategoryCountNegative(n) == cats + Least(n, MaxExamples) + (n - ExamplesAfter(n))

CategoryCount(n) ==
  cats + Least(n, MaxExamples) + (IF n > ExamplesAfter(n) THEN n - ExamplesAfter(n) ELSE 0)

\* Variant: the flag is computed from the batch alone.
StillMidnightOfBatch(b) == \A i \in Dated(b) : b[i].date \in Midnight

StillMidnight(b) == allMidnight /\ \A i \in Dated(b) : b[i].date \in Midnight

\* One round of the batch loop, as far as the report is concerned.
Accumulate(b) ==
  /\ read' = read \o b
  /\ totalRows' = totalRows + Len(b)
  /\ missing' = [c \in Columns |-> missing[c] + Cardinality(Gaps(b, c))]
  /\ parseFails' = [c \in Parsed |-> parseFails[c] + Cardinality(Unparsed(b, c))]
  /\ cats' = CategoryCount(Cardinality(Restyled(b)))
  /\ examples' = ExamplesAfter(Cardinality(Restyled(b)))
  /\ dups' = dups + NewRepeats(b)
  /\ seen' = seen \cup StoredIds(b)
  /\ dateCounts' = [d \in Dates |-> dateCounts[d] + Cardinality(DatedAs(b, d))]
  /\ dateTotal' = dateTotal + Cardinality(Dated(b))
  /\ allMidnight' = StillMidnight(b)

\* A dry run stops after its first batch.
ReadBatch ==
  /\ phase = "reading"
  /\ \E n \in 1..MaxBatch :
       /\ Len(read) + n <= MaxRows
       /\ \E b \in [1..n -> Lines] : Accumulate(b)
  /\ phase' = IF dry THEN "checks" ELSE "reading"
  /\ UNCHANGED <<dry, findings>>

EndOfFile ==
  /\ phase = "reading"
  /\ phase' = "checks"
  /\ UNCHANGED <<dry, read, counters, findings>>

\* round(m / n, 6), in millionths.
Millionths(m, n) == (2000000 * m + n) \div (2 * n)

Finding(check, column, severity) == [check |-> check, column |-> column, severity |-> severity]

MissingSeverity(m, n) ==
  LET ratio == Millionths(m, n)
  IN IF ratio >= 200000 THEN "error" ELSE IF ratio >= 50000 THEN "warn" ELSE "info"

Uniform == \/ \E d \in Dates : dateTotal > 0 /\ 10 * dateCounts[d] >= 9 * dateTotal
           \/ dateTotal > 0 /\ allMidnight

\* QualityAccumulator.findings, without the outlier statistics of ClickHouse.
Derived ==
  UNION {
    {Finding("missing_ratio", c, MissingSeverity(missing[c], totalRows)) :
       c \in {d \in Columns : totalRows > 0}},
    {Finding("parse_failure", c, "warn") : c \in {d \in Parsed : parseFails[d] > 0}},
    {Finding("duplicates", "transaction_id", "warn") : x \in {y \in {1} : dups > 0}},
    {Finding("category_normalization", "category", "info") : x \in {y \in {1} : cats > 0}},
    {Finding("null_heavy", c, "warn") :
       c \in {d \in Columns : totalRows > 0 /\ 100 * missing[d] >= 95 * totalRows}},
    {Finding("temporal_uniformity", "order_date", "info") : x \in {y \in {1} : Uniform}} }

\* The checks after the loop, and the report.
Report ==
  /\ phase = "checks"
  /\ findings' = Derived
  /\ phase' = "done"
  /\ UNCHANGED <<dry, read, counters>>

Next == ReadBatch \/ EndOfFile \/ Report

Spec == Init /\ [][Next]_vars

------------------------------------------------------------------------------
(* Properties. *)

\* Every variable has its type.
TypeOK ==
  /\ dry \in BOOLEAN /\ phase \in {"reading", "checks", "done"}
  /\ read \in Seq(Lines)
  /\ {totalRows, dups, cats, examples, dateTotal} \subseteq Nat
  /\ missing \in [Columns -> Nat] /\ parseFails \in [Parsed -> Nat]
  /\ dateCounts \in [Dates -> Nat] /\ allMidnight \in BOOLEAN
  /\ seen \subseteq Ids \cup {NoId, HashId}

\* The figures are those of the lines read, however the file was cut: in particular
\* the category count, which is put together from a capped list and a difference
\* (service.py:984-987, quality.py:94-110).  Of a column outside Parsed only the gaps
\* are known, its unparsable cells among them (service.py:960-977, 1044).
CountsOfFile ==
  /\ totalRows = Len(read)
  /\ \A c \in Columns : missing[c] = Cardinality(Gaps(read, c))
  /\ \A c \in Parsed : parseFails[c] = Cardinality(Unparsed(read, c))
  /\ cats = Cardinality(Restyled(read))
  /\ dateTotal = Cardinality(Dated(read))

\* Repeated ids of the lines read, as a reader of the report understands them.
Repeats(s) == {i \in DOMAIN s : s[i].id # NoId /\ \E j \in 1..(i - 1) : s[j].id = s[i].id}

\* In a file where every line has its id, a line counts as a duplicate exactly when an
\* earlier line of the file, in whichever batch, has its id (service.py:1052-1058).
DuplicatesOfFile ==
  (\A i \in DOMAIN read : read[i].id # NoId) => dups = Cardinality(Repeats(read))

\* The uniformity finding speaks of the whole file: nine tenths of its dated lines on
\* one timestamp, or all of them at midnight (service.py:932-958, 1103-1117).
TemporalOfFile ==
  phase = "done" =>
    (Finding("temporal_uniformity", "order_date", "info") \in findings
     <=> /\ Dated(read) # {}
         /\ \/ \E d \in Dates : 10 * Cardinality(DatedAs(read, d)) >= 9 * Cardinality(Dated(read))
            \/ \A i \in Dated(read) : read[i].date \in Midnight)

\* What add_duplicate is for, "Track duplicate transaction IDs" (quality.py:80), and the
\* fallback "to a deterministic hash when source IDs are missing" (service.py:870): in a
\* file whose lines all differ, no line counts as a duplicate unless an earlier one has
\* its id.
DuplicatesAreRepeatedIds ==
  (\A i, j \in DOMAIN read : read[i] = read[j] => i = j) => dups <= Cardinality(Repeats(read))
=============================================================================
