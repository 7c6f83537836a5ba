------------------------------ MODULE EtlPipeline ------------------------------
(***************************************************************************)
(* run_etl of src/backend/app/etl/service.py: the CSV reload that fills     *)
(* ClickHouse's five tables while its progress is recorded in Postgres.     *)
(* Several runs may be in flight at once (ETL endpoint calls on worker      *)
(* threads, the CLI): each is a process with a program counter, and every   *)
(* ClickHouse statement or Postgres commit is one step.                     *)
(*                                                                         *)
(* A CSV row is its position in the file.  Of its contents the model keeps  *)
(* what routing depends on: its transaction id with the surrounding blanks  *)
(* removed, whether it had such blanks, and whether any rule other than the *)
(* duplicate rule flags it.                                                 *)
(*                                                                         *)
(* Definitions whose comment starts with "Variant" are altered copies of    *)
(* the definition after them.  No specification uses them: they show that   *)
(* the properties notice such a change.                                     *)
(***************************************************************************)
EXTENDS Naturals, Sequences, FiniteSets

CONSTANTS
  Runs,         \* identities of EtlRun records
  Tenants,      \* tenants whose data the runs load
  Rows,         \* CSV row positions
  IdOf,         \* IdOf[x]: row x's transaction id, stripped
  Padded,       \* rows whose id has leading or trailing blanks
  Faulty,       \* rows a rule other than the duplicate rule flags
  Sparse,       \* rows missing the required column with most gaps
  Named,        \* rows with a customer_name
  Files,        \* CSV files: [batches: Seq(SUBSET Rows), headersOk: BOOLEAN]
  InsertBatch,  \* settings.etl_insert_batch_size
  LookupBatch,  \* ids one SELECT looks up in CLEAN (5000 in the code)
  MaxActive     \* how many runs the operators let overlap (the code sets no limit)

RowSets == SUBSET Rows
Tables == {"raw", "issues", "clean", "issue", "all"}
FactTables == {"clean", "issue", "all"}
Jobs == [tenant : Tenants, file : Files, dry : BOOLEAN]

ASSUME RowsAssumption ==
  /\ Rows \subseteq Nat
  /\ Padded \subseteq Rows /\ Faulty \subseteq Rows
  /\ DOMAIN IdOf = Rows

\* read_csv_batched cuts the file into consecutive pieces.
ASSUME FilesAssumption ==
  /\ Files \subseteq [batches : Seq(RowSets), headersOk : BOOLEAN]
  /\ \A f \in Files : \A i, j \in 1..Len(f.batches) :
       i < j => \A x \in f.batches[i], y \in f.batches[j] : x < y

ASSUME BoundsAssumption ==
  InsertBatch \in Nat \ {0, 1} /\ LookupBatch \in Nat \ {0} /\ MaxActive \in Nat

VARIABLES
  job,      \* what each run is asked to load; never changes
  alone,    \* history: no other load of its tenant was active beside the run's
  pc,       \* where each run is in run_etl
  batch,    \* number of CSV batches read
  todo,     \* rows the current insert call has still to send, or whose ids are still to be looked up
  flagged,  \* issue_mask of the current batch; before it is computed, the rows found in CLEAN
  cleared,  \* IssuesWriter._cleared_run_ids contains the run
  verdict,  \* final_status
  status,   \* EtlRun.status as committed; "none" before the record exists
  report,   \* the run's QualityReport and findings are committed
  tab       \* tab[t]: the <<run, row>> entries of ClickHouse table t

vars == <<job, alone, pc, batch, todo, flagged, cleared, verdict, status, report, tab>>

\* Statements before the try block, inside it, and the two Postgres ones at its end.
Clearing == {"clear_clean", "clear_issue", "clear_all"}
Setup == {"connect", "users"} \cup Clearing
InTry == {"read", "map", "reset", "finish"} \cup Tables
Ending == {"report", "commit"}
Active == Setup \cup InTry \cup Ending
Ended == {"over", "raised", "crashed"}
FinalStatus == {"success", "warning", "dry_run"}

TenantOf(r) == job[r].tenant
Batches(r) == job[r].file.batches
Current(r) == Batches(r)[batch[r]]
FileRows(r) == UNION {Batches(r)[i] : i \in DOMAIN Batches(r)}
Entries(r, S) == {r} \X S
TenantEntries(t, n) == {e \in tab[t] : TenantOf(e[1]) = n}

Init ==
  /\ job \in [Runs -> Jobs]
  /\ alone = [r \in Runs |-> TRUE]
  /\ pc = [r \in Runs |-> "idle"]
  /\ batch = [r \in Runs |-> 0]
  /\ todo = [r \in Runs |-> {}]
  /\ flagged = [r \in Runs |-> {}]
  /\ cleared = [r \in Runs |-> FALSE]
  /\ verdict = [r \in Runs |-> "success"]
  /\ status = [r \in Runs |-> "none"]
  /\ report = [r \in Runs |-> FALSE]
  /\ tab = [t \in Tables |-> {}]

Goto(r, phase) == pc' = [pc EXCEPT ![r] = phase]

------------------------------------------------------------------------------
(* Before the try block: an exception here is not caught by run_etl. *)

\* The other loads of its tenant that a load overlaps; dry runs load nothing.
Rivals(r) ==
  {q \in Runs \ {r} : /\ pc[q] \in Active /\ TenantOf(q) = TenantOf(r)
                      /\ ~job[q].dry /\ ~job[r].dry}

\* The EtlRun record is committed as "running".
Open(r) ==
  /\ pc[r] = "idle"
  /\ Cardinality({q \in Runs : pc[q] \in Active}) < MaxActive
  /\ Goto(r, "connect")
  /\ status' = [status EXCEPT ![r] = "running"]
  /\ alone' = [q \in Runs |-> IF q = r THEN Rivals(r) = {} ELSE alone[q] /\ q \notin Rivals(r)]
  /\ UNCHANGED <<job, batch, todo, flagged, cleared, verdict, report, tab>>

\* Variant: the clearing is not skipped for a dry run.
ConnectClearsAlways(r) ==
  /\ pc[r] = "connect"
  /\ Goto(r, "clear_clean")
  /\ UNCHANGED <<job, alone, batch, todo, flagged, cleared, verdict, status, report, tab>>

\* Client, schema check, issues writer; a dry run skips the clearing.
Connect(r) ==
  /\ pc[r] = "connect"
  /\ Goto(r, IF job[r].dry THEN "users" ELSE "clear_clean")
  /\ UNCHANGED <<job, alone, batch, todo, flagged, cleared, verdict, status, report, tab>>

\* One synchronous ALTER TABLE ... DELETE per fact table, for the run's tenant.
ClearTable(r, phase, t, next) ==
  /\ pc[r] = phase
  /\ tab' = [tab EXCEPT ![t] = @ \ TenantEntries(t, TenantOf(r))]
  /\ Goto(r, next)
  /\ UNCHANGED <<job, alone, batch, todo, flagged, cleared, verdict, status, report>>

ClearClean(r) == ClearTable(r, "clear_clean", "clean", "clear_issue")

\* Variant: one of the three statements names the wrong table.
ClearIssueNamesClean(r) == ClearTable(r, "clear_issue", "clean", "clear_all")

ClearIssue(r) == ClearTable(r, "clear_issue", "issue", "clear_all")
ClearAll(r) == ClearTable(r, "clear_all", "all", "users")

\* The tenant's NORMAL users are read and the accumulators created.
LoadUsers(r) ==
  /\ pc[r] = "users"
  /\ Goto(r, "read")
  /\ UNCHANGED <<job, alone, batch, todo, flagged, cleared, verdict, status, report, tab>>

\* Schema retries exhausted, a DELETE refused, Postgres gone: the exception leaves
\* run_etl with the record as it was committed.
SetupFails(r) ==
  /\ pc[r] \in Setup
  /\ Goto(r, "raised")
  /\ UNCHANGED <<job, alone, batch, todo, flagged, cleared, verdict, status, report, tab>>

------------------------------------------------------------------------------
(* The batch loop. *)

ReadBatch(r) ==
  /\ pc[r] = "read"
  /\ batch[r] < Len(Batches(r))
  /\ batch' = [batch EXCEPT ![r] = @ + 1]
  /\ \/ job[r].dry /\ Goto(r, "map") /\ UNCHANGED <<todo, flagged>>
     \/ /\ ~job[r].dry
        /\ Goto(r, "raw")
        /\ todo' = [todo EXCEPT ![r] = Batches(r)[batch[r] + 1]]
        /\ flagged' = [flagged EXCEPT ![r] = {}]
  /\ UNCHANGED <<job, alone, cleared, verdict, status, report, tab>>

\* Variant: the loop ends one batch early.
EndOfFileEarly(r) ==
  /\ pc[r] = "read"
  /\ batch[r] + 1 >= Len(Batches(r))
  /\ Goto(r, "finish")
  /\ UNCHANGED <<job, alone, batch, todo, flagged, cleared, verdict, status, report, tab>>

EndOfFile(r) ==
  /\ pc[r] = "read"
  /\ batch[r] = Len(Batches(r))
  /\ Goto(r, "finish")
  /\ UNCHANGED <<job, alone, batch, todo, flagged, cleared, verdict, status, report, tab>>

\* The InsertBatch first rows of S in file order: one INSERT statement.
Chunk(S) == {x \in S : Cardinality({y \in S : y < x}) < InsertBatch}

\* The order of the loop body's insert calls, and the rows each one sends; after RAW
\* come the mapping and the look-up of the batch's ids.
After(t) ==
  CASE t = "raw" -> "map"
    [] t = "issues" -> "clean"
    [] t = "clean" -> "issue"
    [] t = "issue" -> "all"
    [] t = "all" -> "read"

\* Variant: the CLEAN insert sends the batch unfiltered.
PortionUnfiltered(r, phase) ==
  CASE phase \in {"map", "clean"} -> Current(r)
    [] phase = "issue" -> flagged[r]
    [] phase = "all" -> Current(r)
    [] OTHER -> {}

Portion(r, phase) ==
  CASE phase = "map" -> Current(r)
    [] phase = "clean" -> Current(r) \ flagged[r]
    [] phase = "issue" -> flagged[r]
    [] phase = "all" -> Current(r)
    [] OTHER -> {}

\* Variant: the remainder after the last full chunk is dropped.
InsertFullChunks(r, t) ==
  /\ pc[r] = t
  /\ LET chunk == Chunk(todo[r])
         rest == todo[r] \ chunk
     IN /\ tab' = [tab EXCEPT ![t] = @ \cup
                     IF Cardinality(chunk) = InsertBatch THEN Entries(r, chunk) ELSE {}]
        /\ \/ /\ rest # {}
              /\ todo' = [todo EXCEPT ![r] = rest]
              /\ UNCHANGED pc
           \/ /\ rest = {}
              /\ todo' = [todo EXCEPT ![r] = Portion(r, After(t))]
              /\ Goto(r, After(t))
  /\ UNCHANGED <<job, alone, batch, flagged, cleared, verdict, status, report>>

\* write_raw_batch, IssuesWriter.write after its reset, and _insert_clickhouse_table
\* share one loop: full chunks, then the remainder.
InsertRows(r, t) ==
  /\ pc[r] = t
  /\ tab' = [tab EXCEPT ![t] = @ \cup Entries(r, Chunk(todo[r]))]
  /\ LET rest == todo[r] \ Chunk(todo[r])
     IN \/ /\ rest # {}
           /\ todo' = [todo EXCEPT ![r] = rest]
           /\ UNCHANGED pc
        \/ /\ rest = {}
           /\ todo' = [todo EXCEPT ![r] = Portion(r, After(t))]
           /\ Goto(r, After(t))
  /\ UNCHANGED <<job, alone, batch, flagged, cleared, verdict, status, report>>

\* What a SELECT finds: only ids stored without blanks match the stripped ids it
\* looks for.
ExistingIds(r) ==
  {IdOf[e[2]] : e \in {d \in TenantEntries("clean", TenantOf(r)) : d[2] \notin Padded}}

\* _fetch_existing_transaction_ids looks the batch's ids up LookupBatch at a time, in
\* whatever order a set is listed; each SELECT reads CLEAN as it then is.
LookUp(r) ==
  /\ pc[r] = "map"
  /\ ~job[r].dry /\ job[r].file.headersOk
  /\ \E ids \in SUBSET {IdOf[x] : x \in todo[r]} \ {{}} :
       LET rest == {x \in todo[r] : IdOf[x] \notin ids}
       IN /\ Cardinality(ids) <= LookupBatch /\ (rest # {} => Cardinality(ids) = LookupBatch)
          /\ todo' = [todo EXCEPT ![r] = rest]
          /\ flagged' = [flagged EXCEPT ![r] =
               @ \cup {x \in todo[r] : IdOf[x] \in ids \cap ExistingIds(r)}]
  /\ UNCHANGED <<job, alone, pc, batch, cleared, verdict, status, report, tab>>

\* Variant: only the batch is searched for duplicates.
IssueMaskBatchOnly(r) ==
  {x \in Current(r) : x \in Faulty \/ \E y \in Current(r) : y # x /\ IdOf[y] = IdOf[x]}

\* _evaluate_issue_rows: every row of an id that repeats in the batch, every row whose
\* id was found in CLEAN, every row another rule flags.
IssueMask(r) ==
  LET B == Current(r)
  IN {x \in B : \/ x \in Faulty
                \/ \E y \in B : y # x /\ IdOf[y] = IdOf[x]
                \/ x \in flagged[r]}

\* The mask is computed from what the look-ups found and used by the inserts that follow.
Evaluate(r) ==
  /\ pc[r] = "map" /\ todo[r] = {}
  /\ ~job[r].dry /\ job[r].file.headersOk
  /\ flagged' = [flagged EXCEPT ![r] = IssueMask(r)]
  /\ \/ /\ IssueMask(r) # {}
        /\ Goto(r, IF cleared[r] THEN "issues" ELSE "reset")
        /\ todo' = [todo EXCEPT ![r] = IssueMask(r)]
     \/ /\ IssueMask(r) = {}
        /\ Goto(r, "clean")
        /\ todo' = [todo EXCEPT ![r] = Current(r)]
  /\ UNCHANGED <<job, alone, batch, cleared, verdict, status, report, tab>>

\* A dry run stops after its first batch.
ValidateOnly(r) ==
  /\ pc[r] = "map"
  /\ job[r].dry /\ job[r].file.headersOk
  /\ Goto(r, "finish")
  /\ UNCHANGED <<job, alone, batch, todo, flagged, cleared, verdict, status, report, tab>>

\* Variants: the writer forgets that it has reset; the reset is scoped by tenant.
ResetIssuesForgets(r) ==
  /\ pc[r] = "reset"
  /\ tab' = [tab EXCEPT !["issues"] = {e \in @ : e[1] # r}]
  /\ Goto(r, "issues")
  /\ UNCHANGED <<job, alone, batch, todo, flagged, cleared, verdict, status, report>>

ResetIssuesOfTenant(r) ==
  /\ pc[r] = "reset"
  /\ tab' = [tab EXCEPT !["issues"] = @ \ TenantEntries("issues", TenantOf(r))]
  /\ cleared' = [cleared EXCEPT ![r] = TRUE]
  /\ Goto(r, "issues")
  /\ UNCHANGED <<job, alone, batch, todo, flagged, verdict, status, report>>

\* IssuesWriter._reset_run, before the run's first issue records.
ResetIssues(r) ==
  /\ pc[r] = "reset"
  /\ tab' = [tab EXCEPT !["issues"] = {e \in @ : e[1] # r}]
  /\ cleared' = [cleared EXCEPT ![r] = TRUE]
  /\ Goto(r, "issues")
  /\ UNCHANGED <<job, alone, batch, todo, flagged, verdict, status, report>>

------------------------------------------------------------------------------
(* After the loop, and the exception handler. *)

\* Missing share of the worst required column, and the share of named customers
\* among all the tenant's rows in ALL, whichever run loaded them.
NullHeavy(r) ==
  LET read == UNION {Batches(r)[i] : i \in 1..batch[r]}
  IN read # {} /\ 100 * Cardinality(read \cap Sparse) >= 95 * Cardinality(read)

FewNames(r) ==
  LET loaded == TenantEntries("all", TenantOf(r))
  IN loaded # {} /\ 100 * Cardinality({e \in loaded : e[2] \in Named}) <= 5 * Cardinality(loaded)

\* Variant: a dry run settles with the status it was recorded with.
PostLoadChecksSkipDry(r) ==
  /\ pc[r] = "finish"
  /\ verdict' = [verdict EXCEPT ![r] =
       IF job[r].dry THEN status[r]
       ELSE IF NullHeavy(r) \/ FewNames(r) THEN "warning" ELSE "success"]
  /\ Goto(r, "report")
  /\ UNCHANGED <<job, alone, batch, todo, flagged, cleared, status, report, tab>>

PostLoadChecks(r) ==
  /\ pc[r] = "finish"
  /\ verdict' = [verdict EXCEPT ![r] =
       IF job[r].dry THEN "dry_run"
       ELSE IF NullHeavy(r) \/ FewNames(r) THEN "warning" ELSE "success"]
  /\ Goto(r, "report")
  /\ UNCHANGED <<job, alone, batch, todo, flagged, cleared, status, report, tab>>

\* Variant: the report is committed before the status.
FlushReportCommits(r) ==
  /\ pc[r] = "report"
  /\ Goto(r, "commit")
  /\ report' = [report EXCEPT ![r] = TRUE]
  /\ UNCHANGED <<job, alone, batch, todo, flagged, cleared, verdict, status, tab>>

\* The report is flushed, not yet committed.
FlushReport(r) ==
  /\ pc[r] = "report"
  /\ Goto(r, "commit")
  /\ UNCHANGED <<job, alone, batch, todo, flagged, cleared, verdict, status, report, tab>>

\* The handler's own commit raises as well, so "failed" is never stored: Postgres is
\* gone, or a failed flush or commit has left the session unusable until a rollback.
FailureUnrecorded(r) ==
  /\ pc[r] \in InTry \cup Ending
  /\ Goto(r, "raised")
  /\ UNCHANGED <<job, alone, batch, todo, flagged, cleared, verdict, status, report, tab>>

\* Report, findings and final status become visible together.
Commit(r) ==
  /\ pc[r] = "commit"
  /\ Goto(r, "over")
  /\ status' = [status EXCEPT ![r] = verdict[r]]
  /\ report' = [report EXCEPT ![r] = TRUE]
  /\ UNCHANGED <<job, alone, batch, todo, flagged, cleared, verdict, tab>>

\* The handler records "failed" and re-raises; rows already inserted stay.
RecordFailure(r) ==
  /\ Goto(r, "raised")
  /\ status' = [status EXCEPT ![r] = "failed"]
  /\ UNCHANGED <<job, alone, batch, todo, flagged, cleared, verdict, report, tab>>

\* build_explicit_mapping finds no column for a required field.
BadHeaders(r) == pc[r] = "map" /\ ~job[r].file.headersOk /\ RecordFailure(r)

\* A read error or a ClickHouse statement that fails inside the try block.
RunFails(r) == pc[r] \in InTry /\ RecordFailure(r)

\* The process dies between two statements.
Crash(r) ==
  /\ pc[r] \in Active
  /\ Goto(r, "crashed")
  /\ UNCHANGED <<job, alone, batch, todo, flagged, cleared, verdict, status, report, tab>>

\* What run_etl does next when nothing fails on the way.
Progress(r) ==
  \/ Connect(r) \/ ClearClean(r) \/ ClearIssue(r) \/ ClearAll(r) \/ LoadUsers(r)
  \/ ReadBatch(r) \/ EndOfFile(r) \/ LookUp(r) \/ Evaluate(r) \/ ValidateOnly(r) \/ BadHeaders(r)
  \/ ResetIssues(r) \/ (\E t \in Tables : InsertRows(r, t))
  \/ PostLoadChecks(r) \/ FlushReport(r) \/ Commit(r)

Fault(r) == SetupFails(r) \/ RunFails(r) \/ FailureUnrecorded(r) \/ Crash(r)

Next == \E r \in Runs : Open(r) \/ Progress(r) \/ Fault(r)

Spec == Init /\ [][Next]_vars

------------------------------------------------------------------------------
(* Properties. *)

\* Every variable has its type.
TypeOK ==
  /\ job \in [Runs -> Jobs]
  /\ alone \in [Runs -> BOOLEAN]
  /\ pc \in [Runs -> {"idle"} \cup Active \cup Ended]
  /\ batch \in [Runs -> Nat]
  /\ todo \in [Runs -> RowSets]
  /\ flagged \in [Runs -> RowSets]
  /\ cleared \in [Runs -> BOOLEAN]
  /\ verdict \in [Runs -> FinalStatus]
  /\ status \in [Runs -> {"none", "running", "failed"} \cup FinalStatus]
  /\ report \in [Runs -> BOOLEAN]
  /\ tab \in [Tables -> SUBSET (Runs \X Rows)]

\* Every row analytics shows as an issue has the issue record of the same run that
\* says why: the records go in first and the writer's reset never takes them away
\* again (service.py:1069-1081, issues_writer.py:89-92).
IssueFactsExplained == tab["issue"] \subseteq tab["issues"]

\* Every fact can be traced to a raw audit row of the same run (service.py:846-848).
FactsTraceable == \A t \in FactTables : tab[t] \subseteq tab["raw"]

\* Within one run an id is loaded into CLEAN once, across batches and whatever other
\* runs clear or insert meanwhile, unless the earlier row's id is stored with blanks
\* (service.py:405-419, 288-331).
CleanIdsUnique ==
  \A r \in Runs : \A x, y \in Rows :
    (x < y /\ IdOf[x] = IdOf[y] /\ {<<r, x>>, <<r, y>>} \subseteq tab["clean"]) => x \in Padded

\* A row of a run is routed one way: never both clean and issue, and no row a rule
\* flags is ever clean (service.py:1073-1081).
RoutedOnce ==
  /\ tab["clean"] \cap tab["issue"] = {}
  /\ \A e \in tab["clean"] : e[2] \notin Faulty

\* A run recorded as success or warning left a raw row for every row of its file and
\* an issue record for every row a rule flags, whatever other runs did meanwhile and
\* although the fact rows may be gone (service.py:841-1085).
SuccessIsAudited ==
  \A r \in Runs : status[r] \in {"success", "warning"} =>
    /\ Entries(r, FileRows(r)) \subseteq tab["raw"]
    /\ Entries(r, FileRows(r) \cap Faulty) \subseteq tab["issues"]

\* The tenant's facts are the rows of the run's file and nothing else, split between
\* CLEAN and ISSUE as its issue records say.
HoldsExactly(r) ==
  LET n == TenantOf(r)
  IN /\ TenantEntries("all", n) = Entries(r, FileRows(r))
     /\ TenantEntries("clean", n) \cup TenantEntries("issue", n) = TenantEntries("all", n)
     /\ TenantEntries("issue", n) = {e \in tab["issues"] : e[1] = r}

\* A load that no other load of its tenant overlaps leaves exactly its file when it is
\* about to commit, whatever earlier runs left behind when they failed or crashed, and
\* whatever the runs of other tenants and dry runs do meanwhile (service.py:796-1089).
UndisturbedReloadIsExact ==
  \A r \in Runs : (pc[r] = "commit" /\ ~job[r].dry /\ alone[r]) => HoldsExactly(r)

\* What "keep reloads deterministic per tenant" asks (service.py:804): every load that
\* is about to commit leaves exactly its file.
ReloadIsExact == \A r \in Runs : (pc[r] = "commit" /\ ~job[r].dry) => HoldsExactly(r)

\* What _fetch_existing_transaction_ids is for, "Prevent duplicate transaction IDs from
\* being re-ingested" (service.py:297): no two clean rows of a tenant share an id.
CleanIdsUniquePerTenant ==
  \A e, f \in tab["clean"] :
    (TenantOf(e[1]) = TenantOf(f[1]) /\ IdOf[e[2]] = IdOf[f[2]]) => e = f

\* What run_etl's "Returns: EtlRun record with final status" (service.py:784) says of a
\* call that ends by returning or raising: its record is no longer "running".
EndedRunsAreSettled == \A r \in Runs : pc[r] \in {"over", "raised"} => status[r] # "running"

\* What the issues writer promises, "Ensure retries do not duplicate issue records"
\* (issues_writer.py:38): after a retry each row has one record in the tenant.
RetriesKeepOneRecord ==
  \A e, f \in tab["issues"] : (TenantOf(e[1]) = TenantOf(f[1]) /\ e[2] = f[2]) => e = f

\* No step takes audit rows or issue records away, although every run resets its
\* records before writing (raw_writer.py:70-85, issues_writer.py:34-60).
AuditTrailGrows ==
  [][tab["raw"] \subseteq tab'["raw"] /\ tab["issues"] \subseteq tab'["issues"]]_vars

\* Fact rows disappear only by a real (not dry) run of their own tenant that is
\* clearing, and never while it inserts; a dry run's rows get into no table
\* (service.py:796-811, 846, 1060-1089).
OnlyReloadsChange ==
  [][/\ \A t \in FactTables : \A e \in tab[t] \ tab'[t] :
          \E r \in Runs : /\ pc[r] \in Clearing /\ pc'[r] # pc[r]
                          /\ ~job[r].dry /\ TenantOf(r) = TenantOf(e[1])
     /\ \A t \in Tables : \A e \in tab'[t] \ tab[t] : ~job[e[1]].dry]_vars

\* The pipeline implements the ledger that RunLedger describes.
Ledger == INSTANCE RunLedger WITH Runs <- Runs, status <- status, report <- report
LedgerSpec == Ledger!Spec

=============================================================================
