--------------------------- MODULE EtlPipelineProofs ---------------------------
(***************************************************************************)
(* Proofs about EtlPipeline for any set of runs, tenants, files and rows,   *)
(* any insert size and any number of overlapping runs.                      *)
(***************************************************************************)
EXTENDS EtlPipeline, TLAPS

\* The phases in which a batch is held.
LoopBody == {"map", "reset"} \cup Tables

\* A run holds one of its file's batches while it is in the loop body.
BatchInRange ==
  \A r \in Runs : /\ batch[r] <= Len(Batches(r))
                  /\ pc[r] \in LoopBody => batch[r] >= 1

TypeInv == TypeOK /\ BatchInRange

------------------------------------------------------------------------------
(* Lemmas about the operators. *)

\* A file's batches are sets of rows.
LEMMA BatchesAreRowSets ==
  ASSUME TypeOK, NEW r \in Runs
  PROVE  /\ Batches(r) \in Seq(RowSets)
         /\ job[r].file \in Files
         /\ TenantOf(r) \in Tenants
<1>1. job[r] \in Jobs
  BY DEF TypeOK
<1>2. job[r].file \in Files /\ job[r].tenant \in Tenants
  BY <1>1 DEF Jobs
<1>3. job[r].file \in [batches : Seq(RowSets), headersOk : BOOLEAN]
  BY <1>2, FilesAssumption
<1> QED
  BY <1>2, <1>3 DEF Batches, TenantOf

\* The batch a run holds is a set of rows.
LEMMA CurrentIsRowSet ==
  ASSUME TypeInv, NEW r \in Runs, pc[r] \in LoopBody
  PROVE  Current(r) \in RowSets
<1>1. batch[r] \in Nat /\ batch[r] >= 1 /\ batch[r] <= Len(Batches(r))
  BY DEF TypeInv, TypeOK, BatchInRange
<1>2. Batches(r) \in Seq(RowSets)
  BY BatchesAreRowSets DEF TypeInv
<1> QED
  BY <1>1, <1>2 DEF Current

\* A chunk is taken from what remains.
LEMMA ChunkIsSubset == \A S : Chunk(S) \subseteq S
  BY DEF Chunk

\* The issue mask marks rows of the batch.
LEMMA IssueMaskIsSubset == \A r \in Runs : IssueMask(r) \subseteq Current(r)
  BY DEF IssueMask

------------------------------------------------------------------------------
(* Type correctness. *)

\* The initial state has the types.
LEMMA InitTypeInv == Init => TypeInv
<1> SUFFICES ASSUME Init PROVE TypeInv
  OBVIOUS
<1>1. TypeOK
  BY DEF Init, TypeOK, RowSets, FinalStatus, Active, Setup, InTry, Ending, Clearing, Ended
<1>2. BatchInRange
  <2> SUFFICES ASSUME NEW r \in Runs
               PROVE  batch[r] <= Len(Batches(r)) /\ pc[r] \notin LoopBody
    BY DEF BatchInRange
  <2>1. Batches(r) \in Seq(RowSets)
    BY <1>1, BatchesAreRowSets
  <2> QED
    BY <2>1 DEF Init, LoopBody, Tables
<1> QED
  BY <1>1, <1>2 DEF TypeInv

Phases == {"idle"} \cup Active \cup Ended

\* A step that leaves the batch alone and leaves the loop body, or stays in it.
LEMMA OutsideLoopTypeInv ==
  ASSUME TypeInv, NEW r \in Runs, NEW phase \in Phases,
         phase \in LoopBody => pc[r] \in LoopBody,
         Goto(r, phase), UNCHANGED <<job, batch>>, alone' \in [Runs -> BOOLEAN],
         todo' \in [Runs -> RowSets], flagged' \in [Runs -> RowSets],
         cleared' \in [Runs -> BOOLEAN], verdict' \in [Runs -> FinalStatus],
         status' \in [Runs -> {"none", "running", "failed"} \cup FinalStatus],
         report' \in [Runs -> BOOLEAN], tab' \in [Tables -> SUBSET (Runs \X Rows)]
  PROVE  TypeInv'
<1>1. TypeOK'
  BY DEF TypeInv, TypeOK, Goto, Phases
<1>2. BatchInRange'
  BY DEF TypeInv, TypeOK, BatchInRange, Goto, Batches
<1> QED
  BY <1>1, <1>2 DEF TypeInv

\* ReadBatch moves to the next batch of the file.
LEMMA ReadBatchTypeInv ==
  ASSUME TypeInv, NEW r \in Runs, ReadBatch(r)
  PROVE  TypeInv'
<1>1. Batches(r) \in Seq(RowSets) /\ batch[r] \in Nat /\ batch[r] + 1 \in 1..Len(Batches(r))
  BY BatchesAreRowSets DEF ReadBatch, TypeInv, TypeOK
<1>2. Batches(r)[batch[r] + 1] \in RowSets
  BY <1>1
<1>3. todo' \in [Runs -> RowSets] /\ flagged' \in [Runs -> RowSets]
  BY <1>2 DEF ReadBatch, TypeInv, TypeOK, RowSets
<1>4. pc' \in [Runs -> Phases]
  BY DEF ReadBatch, Goto, TypeInv, TypeOK, Phases, Active, InTry, Tables
<1>5. batch' \in [Runs -> Nat]
  BY DEF ReadBatch, TypeInv, TypeOK
<1>6. TypeOK'
  BY <1>3, <1>4, <1>5 DEF ReadBatch, TypeInv, TypeOK, Phases
<1>7. BatchInRange'
  BY <1>1 DEF ReadBatch, Goto, TypeInv, TypeOK, BatchInRange, Batches
<1> QED
  BY <1>6, <1>7 DEF TypeInv

\* An insert sends rows of the batch to an existing table.
LEMMA InsertRowsTypeInv ==
  ASSUME TypeInv, NEW r \in Runs, NEW t \in Tables, InsertRows(r, t)
  PROVE  TypeInv'
<1>1. pc[r] \in LoopBody /\ pc[r] = t
  BY DEF InsertRows, LoopBody
<1>2. Current(r) \in RowSets
  BY <1>1, CurrentIsRowSet
<1>3. flagged[r] \in RowSets /\ todo[r] \in RowSets
  BY DEF TypeInv, TypeOK
<1>4. Portion(r, After(t)) \in RowSets
  BY <1>2, <1>3 DEF Portion, RowSets
<1>5. Chunk(todo[r]) \subseteq Rows
  BY <1>3, ChunkIsSubset DEF RowSets
<1>6. Entries(r, Chunk(todo[r])) \subseteq Runs \X Rows
  BY <1>5 DEF Entries
<1>7. tab' \in [Tables -> SUBSET (Runs \X Rows)]
  BY <1>6 DEF InsertRows, TypeInv, TypeOK
<1>8. todo[r] \ Chunk(todo[r]) \in RowSets
  BY <1>3 DEF RowSets
<1>9. todo' \in [Runs -> RowSets]
  BY <1>4, <1>8 DEF InsertRows, TypeInv, TypeOK
<1>10. After(t) \in Phases
  BY DEF After, Tables, Phases, Active, InTry
<1>11. pc' \in [Runs -> Phases]
  BY <1>10 DEF InsertRows, Goto, TypeInv, TypeOK, Phases
<1>12. TypeOK'
  BY <1>7, <1>9, <1>11 DEF InsertRows, TypeInv, TypeOK, Phases
<1>13. BatchInRange'
  BY <1>1 DEF InsertRows, Goto, TypeInv, TypeOK, BatchInRange, Batches
<1> QED
  BY <1>12, <1>13 DEF TypeInv

\* Looking ids up changes which rows of the batch are still to do and which are found.
LEMMA LookUpEffect ==
  ASSUME TypeInv, NEW r \in Runs, LookUp(r)
  PROVE  \E ids :
           /\ todo' = [todo EXCEPT ![r] = {x \in todo[r] : IdOf[x] \notin ids}]
           /\ flagged' = [flagged EXCEPT ![r] =
                @ \cup {x \in todo[r] : IdOf[x] \in ids \cap ExistingIds(r)}]
           /\ pc[r] = "map" /\ ~job[r].dry
           /\ UNCHANGED <<job, alone, pc, batch, cleared, verdict, status, report, tab>>
  BY DEF LookUp

\* Both stay sets of rows.
LEMMA LookUpTypeInv ==
  ASSUME TypeInv, NEW r \in Runs, LookUp(r)
  PROVE  TypeInv'
<1>1. PICK ids :
        /\ todo' = [todo EXCEPT ![r] = {x \in todo[r] : IdOf[x] \notin ids}]
        /\ flagged' = [flagged EXCEPT ![r] =
             @ \cup {x \in todo[r] : IdOf[x] \in ids \cap ExistingIds(r)}]
        /\ UNCHANGED <<job, alone, pc, batch, cleared, verdict, status, report, tab>>
  BY LookUpEffect
<1>2. todo[r] \in RowSets /\ flagged[r] \in RowSets
  BY DEF TypeInv, TypeOK
<1>3. {x \in todo[r] : IdOf[x] \notin ids} \in RowSets
  BY <1>2 DEF RowSets
<1>4. flagged[r] \cup {x \in todo[r] : IdOf[x] \in ids \cap ExistingIds(r)} \in RowSets
  BY <1>2 DEF RowSets
<1>5. TypeOK'
  BY <1>1, <1>3, <1>4 DEF TypeInv, TypeOK
<1>6. BatchInRange'
  BY <1>1 DEF TypeInv, BatchInRange, Batches
<1> QED
  BY <1>5, <1>6 DEF TypeInv

\* Evaluate stores a set of rows of the batch.
LEMMA EvaluateTypeInv ==
  ASSUME TypeInv, NEW r \in Runs, Evaluate(r)
  PROVE  TypeInv'
<1>1. pc[r] \in LoopBody
  BY DEF Evaluate, LoopBody
<1>2. Current(r) \in RowSets
  BY <1>1, CurrentIsRowSet
<1>3. IssueMask(r) \in RowSets
  BY <1>2, IssueMaskIsSubset DEF RowSets
<1>4. todo' \in [Runs -> RowSets] /\ flagged' \in [Runs -> RowSets]
  BY <1>2, <1>3 DEF Evaluate, TypeInv, TypeOK
<1>5. PICK phase \in {"issues", "reset", "clean"} : Goto(r, phase)
  BY DEF Evaluate
<1>6. phase \in Phases
  BY DEF Phases, Active, InTry, Tables
<1> QED
  BY <1>1, <1>4, <1>5, <1>6, OutsideLoopTypeInv DEF Evaluate, TypeInv, TypeOK

\* Deleting entries keeps a table's type.
LEMMA DeleteKeepsType ==
  ASSUME TypeOK, NEW t \in Tables, NEW S, S \subseteq tab[t]
  PROVE  [tab EXCEPT ![t] = S] \in [Tables -> SUBSET (Runs \X Rows)]
  BY DEF TypeOK

\* Every step keeps them.
LEMMA StepTypeInv == TypeInv /\ [Next]_vars => TypeInv'
<1> SUFFICES ASSUME TypeInv, [Next]_vars PROVE TypeInv'
  OBVIOUS
<1> USE DEF TypeInv
<1>1. CASE UNCHANGED vars
  BY <1>1 DEF vars, TypeOK, BatchInRange, Batches
<1>2. ASSUME NEW r \in Runs, Open(r) \/ Progress(r) \/ Fault(r) PROVE TypeInv'
  <2>1. CASE Open(r)
    <3>1. "connect" \in Phases \ LoopBody
      BY DEF Phases, Active, Setup, LoopBody, Tables
    <3> QED
      BY <2>1, <3>1, OutsideLoopTypeInv DEF Open, TypeOK
  <2>2. CASE Connect(r)
    <3>1. {"users", "clear_clean"} \subseteq Phases \ LoopBody
      BY DEF Phases, Active, Setup, Clearing, LoopBody, Tables
    <3> QED
      BY <2>2, <3>1, OutsideLoopTypeInv DEF Connect, TypeOK
  <2>3. CASE ClearClean(r) \/ ClearIssue(r) \/ ClearAll(r)
    <3>1. PICK from \in {"clear_clean", "clear_issue", "clear_all"}, t \in FactTables,
               next \in {"clear_issue", "clear_all", "users"} : ClearTable(r, from, t, next)
      BY <2>3 DEF ClearClean, ClearIssue, ClearAll, FactTables
    <3>2. next \in Phases /\ next \notin LoopBody /\ t \in Tables
      BY DEF Phases, Active, Setup, Clearing, LoopBody, Tables, FactTables
    <3>3. tab' \in [Tables -> SUBSET (Runs \X Rows)]
      BY <3>1, <3>2, DeleteKeepsType DEF ClearTable
    <3> QED
      BY <3>1, <3>2, <3>3, OutsideLoopTypeInv DEF ClearTable, TypeOK
  <2>4. CASE LoadUsers(r) \/ EndOfFile(r) \/ ValidateOnly(r) \/ FlushReport(r)
    <3>1. {"read", "finish", "commit"} \subseteq Phases \ LoopBody
      BY DEF Phases, Active, InTry, Ending, LoopBody, Tables
    <3> QED
      BY <2>4, <3>1, OutsideLoopTypeInv
         DEF LoadUsers, EndOfFile, ValidateOnly, FlushReport, TypeOK
  <2>5. CASE SetupFails(r) \/ FailureUnrecorded(r) \/ Crash(r)
    <3>1. {"raised", "crashed"} \subseteq Phases \ LoopBody
      BY DEF Phases, Ended, LoopBody, Tables
    <3> QED
      BY <2>5, <3>1, OutsideLoopTypeInv DEF SetupFails, FailureUnrecorded, Crash, TypeOK
  <2>6. CASE BadHeaders(r) \/ RunFails(r)
    <3>1. "raised" \in Phases \ LoopBody
      BY DEF Phases, Ended, LoopBody, Tables
    <3> QED
      BY <2>6, <3>1, OutsideLoopTypeInv DEF BadHeaders, RunFails, RecordFailure, TypeOK
  <2>7. CASE ResetIssues(r)
    <3>1. "issues" \in Phases /\ pc[r] \in LoopBody /\ "issues" \in Tables
      BY <2>7 DEF ResetIssues, Phases, Active, InTry, LoopBody, Tables
    <3>2. tab' \in [Tables -> SUBSET (Runs \X Rows)]
      BY <2>7, <3>1, DeleteKeepsType DEF ResetIssues
    <3> QED
      BY <2>7, <3>1, <3>2, OutsideLoopTypeInv DEF ResetIssues, TypeOK
  <2>8. CASE PostLoadChecks(r)
    <3>1. "report" \in Phases \ LoopBody
      BY DEF Phases, Active, Ending, LoopBody, Tables
    <3>2. verdict' \in [Runs -> FinalStatus]
      BY <2>8 DEF PostLoadChecks, TypeOK, FinalStatus
    <3> QED
      BY <2>8, <3>1, <3>2, OutsideLoopTypeInv DEF PostLoadChecks, TypeOK
  <2>9. CASE Commit(r)
    <3>1. "over" \in Phases \ LoopBody
      BY DEF Phases, Ended, LoopBody, Tables
    <3> QED
      BY <2>9, <3>1, OutsideLoopTypeInv DEF Commit, TypeOK
  <2> QED
    BY <1>2, <2>1, <2>2, <2>3, <2>4, <2>5, <2>6, <2>7, <2>8, <2>9, ReadBatchTypeInv,
       InsertRowsTypeInv, LookUpTypeInv, EvaluateTypeInv DEF Progress, Fault
<1> QED
  BY <1>1, <1>2 DEF Next

\* Every variable keeps its type (TypeOK), and a run in the loop body holds a batch of
\* its file.
THEOREM TypeCorrect == Spec => []TypeInv
<1>1. Init => TypeInv
  BY InitTypeInv
<1>2. TypeInv /\ [Next]_vars => TypeInv'
  BY StepTypeInv
<1> QED
  BY <1>1, <1>2, PTL DEF Spec

\* Every variable keeps its type (service.py:760-1190).
THEOREM TypesHold == Spec => []TypeOK
  BY TypeCorrect, PTL DEF TypeInv

------------------------------------------------------------------------------
(* The audit trail: every fact has its raw row, every issue fact its record. *)

EntriesIn(r, S, t) == \A x \in S : <<r, x>> \in tab[t]

\* Only real runs reach the inserts; the mask marks rows of the batch, all faulty ones
\* included; what is still to be sent is part of what the phase sends.
BatchHeld(r) ==
  /\ pc[r] \in Tables \cup {"reset"} => ~job[r].dry
  /\ pc[r] \in {"reset", "issues", "clean", "issue", "all"} =>
       flagged[r] \subseteq Current(r) /\ Current(r) \cap Faulty \subseteq flagged[r]
  /\ pc[r] = "raw" => todo[r] \subseteq Current(r)
  /\ pc[r] \in {"reset", "issues", "issue"} => todo[r] \subseteq flagged[r]
  /\ pc[r] = "reset" => todo[r] = flagged[r]
  /\ pc[r] = "clean" => todo[r] \subseteq Current(r) \ flagged[r]
  /\ pc[r] = "all" => todo[r] \subseteq Current(r)

\* The reset comes before the run's first issue record, and once.
ResetOnce(r) ==
  /\ pc[r] = "reset" => ~cleared[r]
  /\ pc[r] = "issues" => cleared[r]
  /\ ~cleared[r] => \A x \in Rows : <<r, x>> \notin tab["issues"]

\* The batch is in RAW, its flagged rows in ISSUES, before the facts are inserted.
BatchAudited(r) ==
  /\ pc[r] = "raw" => EntriesIn(r, Current(r) \ todo[r], "raw")
  /\ pc[r] \in LoopBody \ {"raw"} /\ ~job[r].dry => EntriesIn(r, Current(r), "raw")
  /\ pc[r] = "issues" => EntriesIn(r, flagged[r] \ todo[r], "issues")
  /\ pc[r] \in {"clean", "issue", "all"} => EntriesIn(r, flagged[r], "issues")

FactsAudited ==
  \A r \in Runs : \A x \in Rows :
    /\ \A t \in FactTables : <<r, x>> \in tab[t] => <<r, x>> \in tab["raw"]
    /\ <<r, x>> \in tab["issue"] => <<r, x>> \in tab["issues"]

RunAudited(r) == BatchHeld(r) /\ ResetOnce(r) /\ BatchAudited(r)

AuditInv == TypeInv /\ FactsAudited /\ \A r \in Runs : RunAudited(r)

\* What a step of one run leaves of another run's part of the state.
OthersKept(r) ==
  /\ job' = job
  /\ \A q \in Runs \ {r} : /\ pc'[q] = pc[q] /\ batch'[q] = batch[q] /\ todo'[q] = todo[q]
                          /\ flagged'[q] = flagged[q] /\ cleared'[q] = cleared[q]
                          /\ \A x \in Rows : <<q, x>> \in tab'["issues"] => <<q, x>> \in tab["issues"]
  /\ \A q \in Runs : \A x \in Rows : \A t \in {"raw", "issues"} :
       <<q, x>> \in tab[t] => <<q, x>> \in tab'[t]

\* Such a step keeps what is known of the other run.
LEMMA OthersAudited ==
  ASSUME AuditInv, TypeInv', NEW r \in Runs, NEW q \in Runs \ {r}, OthersKept(r)
  PROVE  RunAudited(q)'
<1>1. Current(q)' = Current(q) /\ job'[q] = job[q]
  BY DEF OthersKept, Current, Batches
<1>2. pc[q] \in LoopBody => Current(q) \subseteq Rows
  BY CurrentIsRowSet DEF AuditInv, RowSets
<1>3. flagged[q] \subseteq Rows
  BY DEF AuditInv, TypeInv, TypeOK, RowSets
<1>4. BatchHeld(q)'
  BY <1>1 DEF AuditInv, RunAudited, BatchHeld, OthersKept
<1>5. ResetOnce(q)'
  BY <1>1 DEF AuditInv, RunAudited, ResetOnce, OthersKept
<1>6. BatchAudited(q)'
  BY <1>1, <1>2, <1>3 DEF AuditInv, RunAudited, BatchAudited, OthersKept, EntriesIn, LoopBody, Tables
<1> QED
  BY <1>4, <1>5, <1>6 DEF RunAudited

\* A step that inserts nothing and leaves the run outside the loop body, or at its
\* mapping step in a dry run.
LEMMA QuietAudited ==
  ASSUME AuditInv, TypeInv', NEW r \in Runs,
         pc'[r] \notin LoopBody \/ (pc'[r] = "map" /\ job[r].dry), job' = job,
         \A q \in Runs \ {r} : pc'[q] = pc[q], UNCHANGED <<todo, flagged, cleared>>,
         \A q \in Runs \ {r} : batch'[q] = batch[q],
         tab'["raw"] = tab["raw"], tab'["issues"] = tab["issues"],
         \A t \in FactTables : tab'[t] \subseteq tab[t]
  PROVE  AuditInv'
<1>1. OthersKept(r)
  BY DEF OthersKept
<1>2. RunAudited(r)'
  BY DEF AuditInv, RunAudited, BatchHeld, ResetOnce, BatchAudited, LoopBody, Tables
<1>3. FactsAudited'
  BY DEF AuditInv, FactsAudited, FactTables
<1> QED
  BY <1>1, <1>2, <1>3, OthersAudited DEF AuditInv

\* Reading a batch: a real run has all of it still to send to RAW.
LEMMA ReadBatchAudited ==
  ASSUME AuditInv, TypeInv', NEW r \in Runs, ReadBatch(r)
  PROVE  AuditInv'
<1> USE DEF AuditInv
<1>1. CASE job[r].dry
  BY <1>1, QuietAudited DEF ReadBatch, Goto, TypeInv, TypeOK, FactTables
<1>2. CASE ~job[r].dry
  <2>1. OthersKept(r)
    BY DEF OthersKept, ReadBatch, Goto, TypeInv, TypeOK
  <2>2. pc'[r] = "raw" /\ todo'[r] = Current(r)'
    BY <1>2 DEF ReadBatch, Goto, TypeInv, TypeOK, Current, Batches
  <2>3. RunAudited(r)'
    BY <1>2, <2>2 DEF ReadBatch, RunAudited, BatchHeld, ResetOnce, BatchAudited, EntriesIn
  <2>4. FactsAudited'
    BY DEF FactsAudited, ReadBatch
  <2> QED
    BY <2>1, <2>3, <2>4, OthersAudited
<1> QED
  BY <1>1, <1>2

\* Looking ids up: nothing is written, the run stays at its mapping step.
LEMMA LookUpAudited ==
  ASSUME AuditInv, TypeInv', NEW r \in Runs, LookUp(r)
  PROVE  AuditInv'
<1>1. /\ \A q \in Runs \ {r} : todo'[q] = todo[q] /\ flagged'[q] = flagged[q]
      /\ pc[r] = "map" /\ UNCHANGED <<job, pc, batch, cleared, tab>>
  BY LookUpEffect DEF AuditInv, TypeInv, TypeOK
<1>2. OthersKept(r)
  BY <1>1 DEF OthersKept
<1>3. Current(r)' = Current(r)
  BY <1>1 DEF Current, Batches
<1>4. RunAudited(r)'
  BY <1>1, <1>3 DEF AuditInv, RunAudited, BatchHeld, ResetOnce, BatchAudited, EntriesIn, Tables
<1>5. FactsAudited'
  BY <1>1 DEF AuditInv, FactsAudited
<1> QED
  BY <1>2, <1>4, <1>5, OthersAudited DEF AuditInv

\* Evaluating the mask: nothing is written, the mask is what must be recorded.
LEMMA EvaluateAudited ==
  ASSUME AuditInv, TypeInv', NEW r \in Runs, Evaluate(r)
  PROVE  AuditInv'
<1> USE DEF AuditInv
<1>1. OthersKept(r)
  BY DEF OthersKept, Evaluate, Goto, TypeInv, TypeOK
<1>2. /\ pc[r] = "map" /\ ~job[r].dry /\ flagged'[r] = IssueMask(r)
      /\ Current(r)' = Current(r) /\ tab' = tab /\ job' = job /\ cleared' = cleared
  BY DEF Evaluate, Current, Batches, TypeInv, TypeOK
<1>3. \/ pc'[r] = "issues" /\ cleared[r] /\ todo'[r] = IssueMask(r)
      \/ pc'[r] = "reset" /\ ~cleared[r] /\ todo'[r] = IssueMask(r)
      \/ pc'[r] = "clean" /\ IssueMask(r) = {} /\ todo'[r] = Current(r)
  BY DEF Evaluate, Goto, TypeInv, TypeOK
<1>4. IssueMask(r) \subseteq Current(r) /\ Current(r) \cap Faulty \subseteq IssueMask(r)
  BY DEF IssueMask
<1>5. EntriesIn(r, Current(r), "raw")
  BY <1>2 DEF RunAudited, BatchAudited, LoopBody, Tables
<1>6. BatchHeld(r)'
  BY <1>2, <1>3, <1>4 DEF BatchHeld
<1>7. ResetOnce(r)'
  BY <1>2, <1>3 DEF RunAudited, ResetOnce
<1>8. BatchAudited(r)'
  BY <1>2, <1>3, <1>5 DEF BatchAudited, EntriesIn
<1>9. FactsAudited'
  BY <1>2 DEF FactsAudited
<1> QED
  BY <1>1, <1>6, <1>7, <1>8, <1>9, OthersAudited DEF RunAudited

\* The reset finds nothing to delete: the run has no issue records yet.
LEMMA ResetDeletesNothing ==
  ASSUME AuditInv, NEW r \in Runs, ResetIssues(r)
  PROVE  tab' = tab
<1>1. pc[r] = "reset" /\ \A x \in Rows : <<r, x>> \notin tab["issues"]
  BY DEF ResetIssues, AuditInv, RunAudited, ResetOnce
<1>2. tab["issues"] \subseteq Runs \X Rows
  BY DEF AuditInv, TypeInv, TypeOK, Tables
<1>3. {e \in tab["issues"] : e[1] # r} = tab["issues"]
  BY <1>1, <1>2
<1>4. tab' = [tab EXCEPT !["issues"] = tab["issues"]]
  BY <1>3 DEF ResetIssues
<1> QED
  BY <1>4 DEF AuditInv, TypeInv, TypeOK, Tables

\* The reset changes only what the writer remembers.
LEMMA ResetAudited ==
  ASSUME AuditInv, TypeInv', NEW r \in Runs, ResetIssues(r)
  PROVE  AuditInv'
<1> USE DEF AuditInv
<1>1. tab' = tab
  BY ResetDeletesNothing
<1>2. OthersKept(r)
  BY <1>1 DEF OthersKept, ResetIssues, Goto, TypeInv, TypeOK
<1>3. /\ pc[r] = "reset" /\ pc'[r] = "issues" /\ cleared'[r]
      /\ Current(r)' = Current(r) /\ job' = job /\ todo' = todo /\ flagged' = flagged
  BY DEF ResetIssues, Goto, Current, Batches, TypeInv, TypeOK
<1>4. RunAudited(r)'
  BY <1>1, <1>3 DEF RunAudited, BatchHeld, ResetOnce, BatchAudited, EntriesIn, LoopBody, Tables
<1>5. FactsAudited'
  BY <1>1 DEF FactsAudited
<1> QED
  BY <1>2, <1>4, <1>5, OthersAudited

\* What one INSERT adds.
LEMMA InsertEffect ==
  ASSUME TypeInv, NEW r \in Runs, NEW t \in Tables, InsertRows(r, t)
  PROVE  /\ \A u \in Tables, q \in Runs, x \in Rows :
              <<q, x>> \in tab'[u] <=> <<q, x>> \in tab[u] \/ (u = t /\ q = r /\ x \in Chunk(todo[r]))
         /\ Chunk(todo[r]) \subseteq todo[r] /\ todo[r] \subseteq Rows
         /\ pc[r] = t /\ job' = job /\ batch' = batch /\ flagged' = flagged /\ cleared' = cleared
         /\ Current(r)' = Current(r)
         /\ \A q \in Runs \ {r} : pc'[q] = pc[q] /\ todo'[q] = todo[q]
         /\ \/ pc'[r] = t /\ todo'[r] = todo[r] \ Chunk(todo[r])
            \/ pc'[r] = After(t) /\ todo'[r] = Portion(r, After(t)) /\ todo[r] \subseteq Chunk(todo[r])
<1>1. tab' = [tab EXCEPT ![t] = @ \cup ({r} \X Chunk(todo[r]))]
  BY DEF InsertRows, Entries
<1>2. \A u \in Tables : tab'[u] = IF u = t THEN tab[u] \cup ({r} \X Chunk(todo[r])) ELSE tab[u]
  BY <1>1 DEF TypeInv, TypeOK
<1>3. ASSUME NEW u \in Tables, NEW q \in Runs, NEW x \in Rows
      PROVE  <<q, x>> \in tab'[u] <=> <<q, x>> \in tab[u] \/ (u = t /\ q = r /\ x \in Chunk(todo[r]))
  <2>1. <<q, x>> \in {r} \X Chunk(todo[r]) <=> q = r /\ x \in Chunk(todo[r])
    OBVIOUS
  <2> QED
    BY <1>2, <2>1
<1>4. Chunk(todo[r]) \subseteq todo[r] /\ todo[r] \subseteq Rows
  BY ChunkIsSubset DEF TypeInv, TypeOK, RowSets
<1>5. Current(r)' = Current(r)
  BY DEF InsertRows, Current, Batches
<1>6. /\ pc[r] = t /\ job' = job /\ batch' = batch /\ flagged' = flagged /\ cleared' = cleared
      /\ \A q \in Runs \ {r} : pc'[q] = pc[q] /\ todo'[q] = todo[q]
  BY DEF InsertRows, Goto, TypeInv, TypeOK
<1>7. \/ pc'[r] = t /\ todo'[r] = todo[r] \ Chunk(todo[r])
      \/ pc'[r] = After(t) /\ todo'[r] = Portion(r, After(t)) /\ todo[r] \subseteq Chunk(todo[r])
  BY DEF InsertRows, Goto, TypeInv, TypeOK
<1> QED
  BY <1>3, <1>4, <1>5, <1>6, <1>7

\* Raw rows first, then issue records, then the facts they speak of.
LEMMA InsertAudited ==
  ASSUME AuditInv, TypeInv', NEW r \in Runs, NEW t \in Tables, InsertRows(r, t)
  PROVE  AuditInv'
<1> USE DEF AuditInv
<1> DEFINE chunk == Chunk(todo[r])
<1>1. /\ \A u \in Tables, q \in Runs, x \in Rows :
           <<q, x>> \in tab'[u] <=> <<q, x>> \in tab[u] \/ (u = t /\ q = r /\ x \in chunk)
      /\ chunk \subseteq todo[r] /\ todo[r] \subseteq Rows
      /\ pc[r] = t /\ job' = job /\ batch' = batch /\ flagged' = flagged /\ cleared' = cleared
      /\ Current(r)' = Current(r)
      /\ \A q \in Runs \ {r} : pc'[q] = pc[q] /\ todo'[q] = todo[q]
  BY InsertEffect
<1>2. \/ pc'[r] = t /\ todo'[r] = todo[r] \ chunk
      \/ pc'[r] = After(t) /\ todo'[r] = Portion(r, After(t)) /\ todo[r] \subseteq chunk
  BY InsertEffect
<1>3. Current(r) \subseteq Rows /\ flagged[r] \subseteq Rows
  BY <1>1, CurrentIsRowSet DEF RowSets, TypeInv, TypeOK, LoopBody
<1>4. OthersKept(r)
  BY <1>1 DEF OthersKept, Tables
<1>5. RunAudited(r)
  OBVIOUS
<1> HIDE DEF chunk, AuditInv
<1>6. BatchHeld(r)'
  BY <1>1, <1>2, <1>5 DEF RunAudited, BatchHeld, After, Portion, Tables
<1>7. ResetOnce(r)'
  BY <1>1, <1>2, <1>5 DEF RunAudited, ResetOnce, After, Tables
<1>8. BatchAudited(r)'
  <2>1. CASE t = "raw"
    BY <1>1, <1>2, <1>3, <1>5, <2>1
       DEF RunAudited, BatchHeld, BatchAudited, EntriesIn, After, LoopBody, Tables
  <2>2. CASE t = "issues"
    BY <1>1, <1>2, <1>3, <1>5, <2>2
       DEF RunAudited, BatchHeld, BatchAudited, EntriesIn, After, LoopBody, Tables
  <2>3. CASE t \in FactTables
    BY <1>1, <1>2, <1>3, <1>5, <2>3
       DEF RunAudited, BatchHeld, BatchAudited, EntriesIn, After, LoopBody, Tables, FactTables
  <2> QED
    BY <2>1, <2>2, <2>3 DEF Tables, FactTables
<1>9. FactsAudited'
  <2>1. ASSUME t \in FactTables
        PROVE  /\ \A x \in chunk : <<r, x>> \in tab["raw"]
               /\ t = "issue" => \A x \in chunk : <<r, x>> \in tab["issues"]
    BY <1>1, <1>5, <2>1 DEF RunAudited, BatchHeld, BatchAudited, EntriesIn, LoopBody, Tables, FactTables
  <2>2. FactsAudited
    BY DEF AuditInv
  <2> QED
    BY <1>1, <2>1, <2>2 DEF FactsAudited, FactTables, Tables
<1> QED
  BY <1>4, <1>6, <1>7, <1>8, <1>9, OthersAudited DEF RunAudited, AuditInv

\* Nothing is stored at first.
LEMMA InitAudited == Init => AuditInv
<1> SUFFICES ASSUME Init PROVE AuditInv
  OBVIOUS
<1>1. TypeInv
  BY InitTypeInv
<1>2. FactsAudited
  BY DEF Init, FactsAudited, FactTables, Tables
<1>3. ASSUME NEW r \in Runs PROVE RunAudited(r)
  BY DEF Init, RunAudited, BatchHeld, ResetOnce, BatchAudited, LoopBody, Tables
<1> QED
  BY <1>1, <1>2, <1>3 DEF AuditInv

\* Clearing takes rows from one fact table and moves on.
LEMMA ClearEffect ==
  ASSUME TypeInv, NEW r \in Runs, ClearClean(r) \/ ClearIssue(r) \/ ClearAll(r)
  PROVE  /\ pc[r] \in Clearing /\ pc'[r] \in Setup /\ pc'[r] # pc[r]
         /\ \A q \in Runs \ {r} : pc'[q] = pc[q]
         /\ tab'["raw"] = tab["raw"] /\ tab'["issues"] = tab["issues"]
         /\ \A t \in FactTables : /\ tab'[t] \subseteq tab[t]
                                /\ \A e \in tab[t] \ tab'[t] : TenantOf(e[1]) = TenantOf(r)
         /\ UNCHANGED <<job, batch, todo, flagged, cleared, verdict, status, report>>
<1>1. PICK from \in Clearing, t \in FactTables, next \in Setup :
        ClearTable(r, from, t, next) /\ next # from
  BY DEF ClearClean, ClearIssue, ClearAll, Clearing, FactTables, Setup
<1> QED
  BY <1>1 DEF ClearTable, TenantEntries, Goto, TypeInv, TypeOK, FactTables, Tables

\* Every step keeps the audit trail complete.
LEMMA StepAudited == AuditInv /\ [Next]_vars => AuditInv'
<1> SUFFICES ASSUME AuditInv, [Next]_vars PROVE AuditInv'
  OBVIOUS
<1>0. TypeInv'
  BY StepTypeInv DEF AuditInv
<1>1. CASE UNCHANGED vars
  BY <1>0, <1>1 DEF vars, AuditInv, FactsAudited, RunAudited, BatchHeld, ResetOnce, BatchAudited,
                    EntriesIn, Current, Batches
<1>2. ASSUME NEW r \in Runs, Open(r) \/ Progress(r) \/ Fault(r) PROVE AuditInv'
  <2> USE <1>0
  <2>1. CASE ClearClean(r) \/ ClearIssue(r) \/ ClearAll(r)
    <3>1. pc'[r] \notin LoopBody
      BY <2>1, ClearEffect DEF AuditInv, Setup, Clearing, LoopBody, Tables
    <3> QED
      BY <2>1, <3>1, ClearEffect, QuietAudited DEF AuditInv
  <2>2. CASE Open(r) \/ Connect(r) \/ LoadUsers(r) \/ SetupFails(r)
    BY <2>2, QuietAudited DEF Open, Connect, LoadUsers, SetupFails, Goto, AuditInv, TypeInv,
       TypeOK, LoopBody, Tables, FactTables
  <2>3. CASE EndOfFile(r) \/ ValidateOnly(r) \/ PostLoadChecks(r) \/ FlushReport(r) \/ Commit(r)
    BY <2>3, QuietAudited DEF EndOfFile, ValidateOnly, PostLoadChecks, FlushReport, Commit, Goto,
       AuditInv, TypeInv, TypeOK, LoopBody, Tables, FactTables
  <2>4. CASE BadHeaders(r) \/ RunFails(r) \/ FailureUnrecorded(r) \/ Crash(r)
    BY <2>4, QuietAudited DEF BadHeaders, RunFails, RecordFailure, FailureUnrecorded, Crash, Goto,
       AuditInv, TypeInv, TypeOK, LoopBody, Tables, FactTables
  <2> QED
    BY <1>2, <2>1, <2>2, <2>3, <2>4, ReadBatchAudited, LookUpAudited, EvaluateAudited, ResetAudited,
       InsertAudited DEF Progress, Fault
<1> QED
  BY <1>1, <1>2 DEF Next

\* The inductive invariant behind the audit theorems.
LEMMA AuditInvariant == Spec => []AuditInv
<1>1. Init => AuditInv
  BY InitAudited
<1>2. AuditInv /\ [Next]_vars => AuditInv'
  BY StepAudited
<1> QED
  BY <1>1, <1>2, PTL DEF Spec

\* Every issue fact has the issue record of its run, at every moment of any interleaving.
THEOREM IssueFactsAreExplained == Spec => []IssueFactsExplained
<1>1. AuditInv => IssueFactsExplained
  BY DEF AuditInv, TypeInv, TypeOK, FactsAudited, IssueFactsExplained, Tables
<1> QED
  BY <1>1, AuditInvariant, PTL

\* Every fact has the raw row of its run.
THEOREM FactsAreTraceable == Spec => []FactsTraceable
<1>1. AuditInv => FactsTraceable
  BY DEF AuditInv, TypeInv, TypeOK, FactsAudited, FactsTraceable, Tables, FactTables
<1> QED
  BY <1>1, AuditInvariant, PTL

\* What a step leaves of the audit trail: all of it; the reset of issues_writer.py:34-60
\* finds nothing to delete.
LEMMA StepGrows ==
  ASSUME AuditInv, [Next]_vars
  PROVE  tab["raw"] \subseteq tab'["raw"] /\ tab["issues"] \subseteq tab'["issues"]
<1> DEFINE Grows == tab["raw"] \subseteq tab'["raw"] /\ tab["issues"] \subseteq tab'["issues"]
<1>1. ASSUME NEW r \in Runs, Open(r) \/ Progress(r) \/ Fault(r) PROVE Grows
  <2>1. CASE ClearClean(r) \/ ClearIssue(r) \/ ClearAll(r)
    BY <2>1, ClearEffect DEF AuditInv
  <2>2. CASE ResetIssues(r)
    BY <2>2, ResetDeletesNothing
  <2>3. CASE \E t \in Tables : InsertRows(r, t)
    BY <2>3 DEF InsertRows, AuditInv, TypeInv, TypeOK, Tables
  <2>4. CASE UNCHANGED tab
    BY <2>4
  <2> QED
    BY <1>1, <2>1, <2>2, <2>3, <2>4
       DEF Open, Progress, Fault, Connect, LoadUsers, ReadBatch, EndOfFile, LookUp, Evaluate,
           ValidateOnly, BadHeaders, PostLoadChecks, FlushReport, Commit, SetupFails, RunFails, RecordFailure,
           FailureUnrecorded, Crash
<1>2. CASE UNCHANGED vars
  BY <1>2 DEF vars
<1> QED
  BY <1>1, <1>2 DEF Next

\* Raw rows and issue records are never taken away by any step of any run.
THEOREM AuditTrailOnlyGrows == Spec => AuditTrailGrows
<1>1. AuditInv /\ [Next]_vars =>
        [tab["raw"] \subseteq tab'["raw"] /\ tab["issues"] \subseteq tab'["issues"]]_vars
  BY StepGrows
<1> QED
  BY <1>1, AuditInvariant, PTL DEF Spec, AuditTrailGrows

------------------------------------------------------------------------------
(* What the EtlRun records say: the pipeline implements RunLedger, and a run recorded *)
(* as successful left a complete audit trail.                                         *)


\* A run that is under way is recorded as running and has no report.
RecordedAsRunning(r) ==
  /\ pc[r] = "idle" => status[r] = "none" /\ ~report[r]
  /\ pc[r] \in Active => status[r] = "running" /\ ~report[r]

LedgerInv == TypeInv /\ \A r \in Runs : RecordedAsRunning(r)

\* A step of an active run that leaves the record alone and does not make it idle.
LEMMA QuietLedger ==
  ASSUME LedgerInv, TypeInv', NEW r \in Runs, UNCHANGED <<status, report>>,
         pc[r] \in Active, pc'[r] # "idle", \A q \in Runs \ {r} : pc'[q] = pc[q]
  PROVE  LedgerInv'
  BY DEF LedgerInv, RecordedAsRunning

\* A step after which the run has ended; the other runs and their records are kept.
LEMMA EndingLedger ==
  ASSUME LedgerInv, TypeInv', NEW r \in Runs, pc'[r] \in Ended,
         \A q \in Runs \ {r} : pc'[q] = pc[q] /\ status'[q] = status[q] /\ report'[q] = report[q]
  PROVE  LedgerInv'
<1>1. pc'[r] # "idle" /\ pc'[r] \notin Active
  BY DEF Ended, Active, Setup, Clearing, InTry, Ending, Tables
<1> QED
  BY <1>1 DEF LedgerInv, RecordedAsRunning

\* Every step of a run keeps its record in line with its phase, and is a step of the
\* ledger or none.
LEMMA StepLedger ==
  ASSUME LedgerInv, [Next]_vars
  PROVE  LedgerInv' /\ [Ledger!Next]_<<status, report>>
<1>0. TypeInv' /\ pc \in [Runs -> Phases]
  BY StepTypeInv DEF LedgerInv, TypeInv, TypeOK, Phases
<1>1. CASE UNCHANGED vars
  BY <1>0, <1>1 DEF vars, LedgerInv, RecordedAsRunning
<1>2. ASSUME NEW r \in Runs, Open(r) \/ Progress(r) \/ Fault(r)
      PROVE  LedgerInv' /\ [Ledger!Next]_<<status, report>>
  <2> USE <1>0
  <2>0. /\ status \in [Runs -> {"none", "running", "failed"} \cup FinalStatus]
        /\ report \in [Runs -> BOOLEAN] /\ verdict[r] \in FinalStatus
    BY DEF LedgerInv, TypeInv, TypeOK
  <2>1. CASE Open(r)
    <3>1. status[r] = "none" /\ ~report[r]
      BY <2>1 DEF Open, LedgerInv, RecordedAsRunning
    <3>2. pc' = [pc EXCEPT ![r] = "connect"] /\ status' = [status EXCEPT ![r] = "running"]
          /\ report' = report
      BY <2>1 DEF Open, Goto
    <3>3. Ledger!Next
      BY <3>1, <3>2 DEF Ledger!Next, Ledger!Record
    <3> QED
      BY <2>0, <3>1, <3>2, <3>3 DEF LedgerInv, RecordedAsRunning
  <2>2. CASE Commit(r)
    <3>1. pc[r] \in Active
      BY <2>2 DEF Commit, Active, Ending
    <3>2. status[r] = "running"
      BY <3>1 DEF LedgerInv, RecordedAsRunning
    <3>3. Ledger!Next
      BY <2>0, <2>2, <3>2 DEF Commit, Ledger!Next, Ledger!Settle, Ledger!FinalStatus, FinalStatus
    <3>4. pc'[r] \in Ended /\ \A q \in Runs \ {r} :
            pc'[q] = pc[q] /\ status'[q] = status[q] /\ report'[q] = report[q]
      BY <2>0, <2>2 DEF Commit, Goto, Ended
    <3> QED
      BY <3>3, <3>4, EndingLedger
  <2>3. CASE BadHeaders(r) \/ RunFails(r)
    <3>1. pc[r] \in Active /\ RecordFailure(r)
      BY <2>3 DEF BadHeaders, RunFails, Active, InTry
    <3>2. status[r] = "running"
      BY <3>1 DEF LedgerInv, RecordedAsRunning
    <3>3. Ledger!Next
      BY <3>1, <3>2 DEF RecordFailure, Ledger!Next, Ledger!Fail
    <3>4. pc'[r] \in Ended /\ \A q \in Runs \ {r} :
            pc'[q] = pc[q] /\ status'[q] = status[q] /\ report'[q] = report[q]
      BY <2>0, <3>1 DEF RecordFailure, Goto, Ended
    <3> QED
      BY <3>3, <3>4, EndingLedger
  <2>4. CASE SetupFails(r) \/ FailureUnrecorded(r) \/ Crash(r)
    <3>1. /\ UNCHANGED <<status, report>> /\ pc'[r] \in Ended
          /\ \A q \in Runs \ {r} : pc'[q] = pc[q]
      BY <2>4 DEF SetupFails, FailureUnrecorded, Crash, Goto, Ended
    <3> QED
      BY <3>1, EndingLedger
  <2>5. CASE ClearClean(r) \/ ClearIssue(r) \/ ClearAll(r)
    <3>1. /\ pc[r] \in Clearing /\ pc'[r] \in Setup /\ UNCHANGED <<status, report>>
          /\ \A q \in Runs \ {r} : pc'[q] = pc[q]
      BY <2>5, ClearEffect DEF LedgerInv
    <3>2. pc[r] \in Active /\ pc'[r] # "idle"
      BY <3>1 DEF Active, Setup, Clearing
    <3> QED
      BY <3>1, <3>2, QuietLedger
  <2>6. CASE \E t \in Tables : InsertRows(r, t)
    <3>1. PICK t \in Tables : InsertRows(r, t)
      BY <2>6
    <3>2. /\ pc[r] = t /\ pc'[r] \in {t, After(t)} /\ UNCHANGED <<status, report>>
          /\ \A q \in Runs \ {r} : pc'[q] = pc[q]
      BY <3>1 DEF InsertRows, Goto
    <3>3. t \in Active /\ t # "idle" /\ After(t) # "idle"
      BY DEF After, Tables, Active, InTry
    <3> QED
      BY <3>2, <3>3, QuietLedger
  <2>7. CASE Connect(r) \/ LoadUsers(r) \/ ReadBatch(r) \/ EndOfFile(r) \/ LookUp(r) \/ Evaluate(r)
             \/ ValidateOnly(r) \/ ResetIssues(r) \/ PostLoadChecks(r) \/ FlushReport(r)
    <3>1. /\ pc[r] \in {"connect", "users", "read", "map", "reset", "finish", "report"}
          /\ pc'[r] # "idle" /\ UNCHANGED <<status, report>>
          /\ \A q \in Runs \ {r} : pc'[q] = pc[q]
      BY <2>7 DEF Connect, LoadUsers, ReadBatch, EndOfFile, LookUp, Evaluate, ValidateOnly, ResetIssues,
         PostLoadChecks, FlushReport, Goto
    <3>2. pc[r] \in Active
      BY <3>1 DEF Active, Setup, InTry, Ending
    <3> QED
      BY <3>1, <3>2, QuietLedger
  <2> QED
    BY <1>2, <2>1, <2>2, <2>3, <2>4, <2>5, <2>6, <2>7 DEF Progress, Fault
<1> QED
  BY <1>1, <1>2 DEF Next

\* The pipeline implements the ledger: whatever the interleaving and the faults, a run
\* is recorded once, settled at most once, and gets its report exactly with a final
\* status other than failed.
THEOREM PipelineImplementsLedger == Spec => LedgerSpec
<1>1. Init => LedgerInv /\ Ledger!Init
  BY InitTypeInv DEF Init, LedgerInv, RecordedAsRunning, Ledger!Init, Active, Setup, Clearing,
     InTry, Ending, Tables
<1>2. LedgerInv /\ [Next]_vars => LedgerInv' /\ [Ledger!Next]_<<status, report>>
  BY StepLedger
<1> QED
  BY <1>1, <1>2, PTL DEF Spec, LedgerSpec, Ledger!Spec
------------------------------------------------------------------------------
(* What a success or a warning says about the audit trail. *)

\* The i-th batch of the run's file is in RAW, its faulty rows in ISSUES.
BatchIn(r, i) ==
  \A x \in Batches(r)[i] : /\ <<r, x>> \in tab["raw"]
                           /\ x \in Faulty => <<r, x>> \in tab["issues"]

\* The batches a real run is done with are audited: all it has read, except the one
\* it holds.
DoneBatchesIn(r) ==
  /\ pc[r] \in {"idle"} \cup Setup => batch[r] = 0
  /\ pc[r] \in {"read", "finish"} \cup Ending /\ ~job[r].dry =>
       \A i \in 1..batch[r] : BatchIn(r, i)
  /\ pc[r] \in LoopBody /\ ~job[r].dry =>
       \A i \in 1..batch[r] : i # batch[r] => BatchIn(r, i)

\* After the loop all batches have been read, and the verdict is decided.
VerdictFits(r) ==
  /\ pc[r] \in Clearing => ~job[r].dry
  /\ pc[r] \in {"finish"} \cup Ending /\ ~job[r].dry => batch[r] = Len(Batches(r))
  /\ pc[r] \in Ending /\ job[r].dry => verdict[r] = "dry_run"

SettledIsIn(r) ==
  status[r] \in {"success", "warning"} => \A i \in 1..Len(Batches(r)) : BatchIn(r, i)

Settling(r) == DoneBatchesIn(r) /\ VerdictFits(r) /\ SettledIsIn(r)

SettleInv == AuditInv /\ \A r \in Runs : Settling(r)

\* What a step does to the audit of a batch: nothing but good.
LEMMA BatchInKept ==
  ASSUME SettleInv, [Next]_vars, NEW r \in Runs, NEW i, BatchIn(r, i), job' = job
  PROVE  BatchIn(r, i)' /\ Batches(r)' = Batches(r)
<1>1. tab["raw"] \subseteq tab'["raw"] /\ tab["issues"] \subseteq tab'["issues"]
  BY StepGrows DEF SettleInv
<1> QED
  BY <1>1 DEF BatchIn, Batches

\* A step that keeps the run's place in its file, or ends it without a success.
LEMMA KeptSettling ==
  ASSUME SettleInv, [Next]_vars, NEW q \in Runs, job' = job, batch'[q] = batch[q],
         verdict'[q] = verdict[q], status'[q] = status[q] \/ status'[q] \in {"running", "failed"},
         \/ pc'[q] = pc[q]
         \/ pc'[q] \in Ended
         \/ pc[q] \in LoopBody /\ pc'[q] \in LoopBody
         \/ pc[q] \in {"idle"} \cup Setup /\ pc'[q] \in Setup \ Clearing
         \/ pc[q] \in Setup /\ pc'[q] \in Clearing /\ ~job[q].dry
  PROVE  Settling(q)'
<1>1. Settling(q) /\ Batches(q)' = Batches(q)
  BY DEF SettleInv, Batches
<1>2. \A i : BatchIn(q, i) => BatchIn(q, i)'
  BY BatchInKept
<1>3. DoneBatchesIn(q)'
  BY <1>1, <1>2 DEF Settling, DoneBatchesIn, LoopBody, Setup, Clearing, Ending, Ended, Tables
<1>4. VerdictFits(q)'
  BY <1>1 DEF Settling, VerdictFits, LoopBody, Setup, Clearing, Ending, Ended, Tables
<1>5. SettledIsIn(q)'
  BY <1>1, <1>2 DEF Settling, SettledIsIn
<1> QED
  BY <1>3, <1>4, <1>5 DEF Settling

\* Every step keeps it.
LEMMA StepSettling == SettleInv /\ [Next]_vars => SettleInv'
<1> SUFFICES ASSUME SettleInv, [Next]_vars PROVE SettleInv'
  OBVIOUS
<1>0. AuditInv' /\ TypeOK
  BY StepAudited DEF SettleInv, AuditInv, TypeInv
<1>1. CASE UNCHANGED vars
  BY <1>0, <1>1, KeptSettling DEF vars, SettleInv
<1>2. ASSUME NEW r \in Runs, Open(r) \/ Progress(r) \/ Fault(r) PROVE SettleInv'
  <2> USE <1>0
  <2>0. job' = job /\ Settling(r) /\ Batches(r)' = Batches(r)
    BY <1>2 DEF SettleInv, Batches, Open, Progress, Fault, Connect, ClearClean, ClearIssue, ClearAll,
       ClearTable, LoadUsers, ReadBatch, EndOfFile, LookUp, Evaluate, ValidateOnly, BadHeaders, ResetIssues,
       InsertRows, PostLoadChecks, FlushReport, Commit, SetupFails, RunFails, RecordFailure,
       FailureUnrecorded, Crash
  <2>1. ASSUME NEW q \in Runs \ {r} PROVE Settling(q)'
    <3>1. pc'[q] = pc[q] /\ batch'[q] = batch[q] /\ verdict'[q] = verdict[q] /\ status'[q] = status[q]
      <4>1. CASE ClearClean(r) \/ ClearIssue(r) \/ ClearAll(r)
        BY <4>1, ClearEffect DEF SettleInv, AuditInv
      <4>2. CASE \E t \in Tables : InsertRows(r, t)
        BY <4>2 DEF InsertRows, Goto, TypeOK
      <4> QED
        BY <1>2, <4>1, <4>2 DEF TypeOK, Goto, Open, Progress, Fault, Connect, LoadUsers, ReadBatch,
           EndOfFile, LookUp, Evaluate, ValidateOnly, BadHeaders, ResetIssues, PostLoadChecks, FlushReport,
           Commit, SetupFails, RunFails, RecordFailure, FailureUnrecorded, Crash
    <3> QED
      BY <2>0, <3>1, KeptSettling
  <2> SUFFICES Settling(r)'
    BY <2>1 DEF SettleInv
  <2>2. CASE Open(r) \/ Connect(r)
    <3>1. /\ pc[r] \in {"idle"} \cup Setup
          /\ \/ pc'[r] \in Setup \ Clearing
             \/ pc[r] \in Setup /\ pc'[r] \in Clearing /\ ~job[r].dry
          /\ batch'[r] = batch[r] /\ verdict'[r] = verdict[r]
          /\ status'[r] = status[r] \/ status'[r] = "running"
      BY <2>2 DEF Open, Connect, Goto, TypeOK, Setup, Clearing
    <3> QED
      BY <2>0, <3>1, KeptSettling
  <2>3. CASE ClearClean(r) \/ ClearIssue(r) \/ ClearAll(r)
    <3>1. pc[r] \in Clearing /\ pc'[r] \in Setup /\ UNCHANGED <<job, batch, verdict, status>>
      BY <2>3, ClearEffect DEF SettleInv, AuditInv
    <3>2. ~job[r].dry /\ pc[r] \in Setup
      BY <2>0, <3>1 DEF Settling, VerdictFits, Setup
    <3> QED
      BY <2>0, <3>1, <3>2, KeptSettling
  <2>4. CASE LoadUsers(r)
    <3>1. pc[r] \in Setup /\ pc'[r] = "read" /\ UNCHANGED <<batch, verdict, status>>
      BY <2>4 DEF LoadUsers, Goto, TypeOK, Setup
    <3>2. batch'[r] = 0
      BY <2>0, <3>1 DEF Settling, DoneBatchesIn
    <3>3. \A i : BatchIn(r, i) => BatchIn(r, i)'
      BY <2>0, BatchInKept
    <3> QED
      BY <2>0, <3>1, <3>2, <3>3 DEF Settling, DoneBatchesIn, VerdictFits, SettledIsIn, LoopBody,
         Setup, Clearing, Ending, Tables
  <2>5. CASE ReadBatch(r)
    <3>1. /\ pc[r] = "read" /\ pc'[r] \in LoopBody /\ batch'[r] = batch[r] + 1
          /\ batch[r] \in Nat /\ UNCHANGED <<verdict, status>>
      BY <2>5 DEF ReadBatch, Goto, TypeOK, LoopBody, Tables
    <3>2. \A i : BatchIn(r, i) => BatchIn(r, i)'
      BY <2>0, BatchInKept
    <3>3. DoneBatchesIn(r)'
      BY <2>0, <3>1, <3>2 DEF Settling, DoneBatchesIn, LoopBody, Setup, Clearing, Ending, Tables
    <3> QED
      BY <2>0, <3>1, <3>2, <3>3 DEF Settling, VerdictFits, SettledIsIn, LoopBody, Clearing,
         Ending, Tables
  <2>6. CASE EndOfFile(r) \/ ValidateOnly(r)
    <3>1. /\ \/ pc[r] = "read" /\ batch[r] = Len(Batches(r))
             \/ job[r].dry
          /\ pc'[r] = "finish" /\ UNCHANGED <<batch, verdict, status>>
      BY <2>6 DEF EndOfFile, ValidateOnly, Goto, TypeOK
    <3>2. \A i : BatchIn(r, i) => BatchIn(r, i)'
      BY <2>0, BatchInKept
    <3> QED
      BY <2>0, <3>1, <3>2 DEF Settling, DoneBatchesIn, VerdictFits, SettledIsIn, LoopBody,
         Setup, Clearing, Ending, Tables
  <2>7. CASE LookUp(r) \/ Evaluate(r) \/ ResetIssues(r)
    <3>1. pc[r] \in LoopBody /\ pc'[r] \in LoopBody /\ UNCHANGED <<batch, verdict, status>>
      BY <2>7 DEF LookUp, Evaluate, ResetIssues, Goto, TypeOK, LoopBody, Tables
    <3> QED
      BY <2>0, <3>1, KeptSettling
  <2>8. CASE \E t \in Tables : InsertRows(r, t)
    <3>1. PICK t \in Tables : InsertRows(r, t)
      BY <2>8
    <3>2. pc[r] = t /\ pc'[r] \in {t, After(t)} /\ UNCHANGED <<batch, verdict, status>>
      BY <3>1 DEF InsertRows, Goto, TypeOK
    <3>3. CASE pc'[r] \in LoopBody
      BY <2>0, <3>2, <3>3, KeptSettling DEF LoopBody
    <3>4. CASE pc'[r] \notin LoopBody
      <4>1. t = "all" /\ pc'[r] = "read"
        BY <3>2, <3>4 DEF After, LoopBody, Tables
      <4>2. /\ ~job[r].dry /\ EntriesIn(r, Current(r), "raw") /\ EntriesIn(r, flagged[r], "issues")
            /\ Current(r) \cap Faulty \subseteq flagged[r]
        BY <3>2, <4>1 DEF SettleInv, AuditInv, RunAudited, BatchHeld, BatchAudited, LoopBody, Tables
      <4>3. BatchIn(r, batch[r])
        BY <4>2 DEF EntriesIn, BatchIn, Current
      <4>4. \A i \in 1..batch[r] : BatchIn(r, i)
        BY <2>0, <3>2, <4>1, <4>2, <4>3 DEF Settling, DoneBatchesIn, LoopBody, Tables
      <4>5. \A i : BatchIn(r, i) => BatchIn(r, i)'
        BY <2>0, BatchInKept
      <4> QED
        BY <2>0, <3>2, <4>1, <4>4, <4>5 DEF Settling, DoneBatchesIn, VerdictFits, SettledIsIn,
           LoopBody, Setup, Clearing, Ending, Tables
    <3> QED
      BY <3>3, <3>4
  <2>9. CASE PostLoadChecks(r) \/ FlushReport(r)
    <3>1. /\ pc[r] \in {"finish", "report"} /\ pc'[r] \in Ending /\ UNCHANGED <<batch, status>>
          /\ pc[r] = "finish" /\ job[r].dry => verdict'[r] = "dry_run"
          /\ pc[r] = "report" => verdict' = verdict
      BY <2>9 DEF PostLoadChecks, FlushReport, Goto, TypeOK, Ending
    <3>2. \A i : BatchIn(r, i) => BatchIn(r, i)'
      BY <2>0, BatchInKept
    <3> QED
      BY <2>0, <3>1, <3>2 DEF Settling, DoneBatchesIn, VerdictFits, SettledIsIn, LoopBody,
         Setup, Clearing, Ending, Tables
  <2>10. CASE Commit(r)
    <3>1. pc[r] = "commit" /\ pc'[r] = "over" /\ status'[r] = verdict[r]
          /\ UNCHANGED <<batch, verdict>>
      BY <2>10 DEF Commit, Goto, TypeOK
    <3>2. \A i : BatchIn(r, i) => BatchIn(r, i)'
      BY <2>0, BatchInKept
    <3>3. SettledIsIn(r)'
      BY <2>0, <3>1, <3>2 DEF Settling, DoneBatchesIn, VerdictFits, SettledIsIn, Ending
    <3> QED
      BY <3>1, <3>3 DEF Settling, DoneBatchesIn, VerdictFits, LoopBody, Setup, Clearing, Ending, Tables
  <2>11. CASE BadHeaders(r) \/ RunFails(r) \/ SetupFails(r) \/ FailureUnrecorded(r) \/ Crash(r)
    <3>1. /\ pc'[r] \in Ended /\ UNCHANGED <<batch, verdict>>
          /\ status'[r] = status[r] \/ status'[r] = "failed"
      BY <2>11 DEF BadHeaders, RunFails, RecordFailure, SetupFails, FailureUnrecorded, Crash, Goto,
         TypeOK, Ended
    <3> QED
      BY <2>0, <3>1, KeptSettling
  <2> QED
    BY <1>2, <2>2, <2>3, <2>4, <2>5, <2>6, <2>7, <2>8, <2>9, <2>10, <2>11 DEF Progress, Fault
<1> QED
  BY <1>1, <1>2 DEF Next

LEMMA StartSettled == Init => SettleInv
<1> SUFFICES ASSUME Init PROVE SettleInv
  OBVIOUS
<1>1. ASSUME NEW r \in Runs PROVE Settling(r)
  BY DEF Init, Settling, DoneBatchesIn, VerdictFits, SettledIsIn, LoopBody, Setup, Clearing, Ending,
     Tables
<1> QED
  BY <1>1, InitAudited DEF SettleInv

\* The inductive invariant behind the two theorems that follow.
LEMMA SettleInvariant == Spec => []SettleInv
<1> QED
  BY StartSettled, StepSettling, PTL DEF Spec

\* A run recorded as success or warning has left its whole audit trail, whatever the
\* other runs did (service.py:841-1085, 1179-1182).
THEOREM SuccessIsAlwaysAudited == Spec => []SuccessIsAudited
<1>1. SettleInv => SuccessIsAudited
  <2> SUFFICES ASSUME SettleInv, NEW r \in Runs, status[r] \in {"success", "warning"}
               PROVE  /\ Entries(r, FileRows(r)) \subseteq tab["raw"]
                      /\ Entries(r, FileRows(r) \cap Faulty) \subseteq tab["issues"]
    BY DEF SuccessIsAudited
  <2>1. \A i \in 1..Len(Batches(r)) : BatchIn(r, i)
    BY DEF SettleInv, Settling, SettledIsIn
  <2>2. DOMAIN Batches(r) = 1..Len(Batches(r))
    BY BatchesAreRowSets DEF SettleInv, AuditInv, TypeInv
  <2> QED
    BY <2>1, <2>2 DEF BatchIn, Entries, FileRows
<1> QED
  BY <1>1, SettleInvariant, PTL

\* Only the inserts of a real run add to a table.
LEMMA StepAdds ==
  ASSUME AuditInv, [Next]_vars, NEW t \in Tables, NEW e \in tab'[t] \ tab[t]
  PROVE  ~job[e[1]].dry
<1>1. ASSUME NEW r \in Runs, Open(r) \/ Progress(r) \/ Fault(r) PROVE ~job[e[1]].dry
  <2>1. CASE ClearClean(r) \/ ClearIssue(r) \/ ClearAll(r)
    BY <2>1, ClearEffect DEF AuditInv, Tables, FactTables
  <2>2. CASE ResetIssues(r)
    BY <2>2, ResetDeletesNothing
  <2>3. CASE \E u \in Tables : InsertRows(r, u)
    <3>1. PICK u \in Tables : InsertRows(r, u)
      BY <2>3
    <3>2. ~job[r].dry
      BY <3>1 DEF InsertRows, AuditInv, RunAudited, BatchHeld
    <3>3. e \in {r} \X Chunk(todo[r])
      BY <3>1 DEF InsertRows, Entries, AuditInv, TypeInv, TypeOK
    <3> QED
      BY <3>2, <3>3
  <2>4. CASE UNCHANGED tab
    BY <2>4
  <2> QED
    BY <1>1, <2>1, <2>2, <2>3, <2>4
       DEF Open, Progress, Fault, Connect, LoadUsers, ReadBatch, EndOfFile, LookUp, Evaluate,
           ValidateOnly, BadHeaders, PostLoadChecks, FlushReport, Commit, SetupFails, RunFails,
           RecordFailure, FailureUnrecorded, Crash
<1>2. CASE UNCHANGED vars
  BY <1>2 DEF vars
<1> QED
  BY <1>1, <1>2 DEF Next

\* Facts disappear only when a real run of their own tenant clears, and only real runs
\* add rows to any table (service.py:796-811, 846, 1060-1089).
THEOREM OnlyReloadsEverChange == Spec => OnlyReloadsChange
<1> DEFINE Removed == \A t \in FactTables : \A e \in tab[t] \ tab'[t] :
             \E r \in Runs : /\ pc[r] \in Clearing /\ pc'[r] # pc[r]
                             /\ ~job[r].dry /\ TenantOf(r) = TenantOf(e[1])
           Added == \A t \in Tables : \A e \in tab'[t] \ tab[t] : ~job[e[1]].dry
<1>1. ASSUME SettleInv, [Next]_vars PROVE Removed
  <2>1. ASSUME NEW r \in Runs, Open(r) \/ Progress(r) \/ Fault(r) PROVE Removed
    <3>1. CASE ClearClean(r) \/ ClearIssue(r) \/ ClearAll(r)
      <4>1. pc[r] \in Clearing /\ pc'[r] # pc[r]
            /\ \A t \in FactTables : \A e \in tab[t] \ tab'[t] : TenantOf(e[1]) = TenantOf(r)
        BY <1>1, <3>1, ClearEffect DEF SettleInv, AuditInv
      <4>2. ~job[r].dry
        BY <1>1, <4>1 DEF SettleInv, Settling, VerdictFits
      <4> QED
        BY <4>1, <4>2
    <3>2. CASE \A t \in FactTables : tab[t] \subseteq tab'[t]
      BY <3>2
    <3>3. CASE ResetIssues(r) \/ \E t \in Tables : InsertRows(r, t)
      <4>1. \A t \in FactTables : tab[t] \subseteq tab'[t]
        BY <1>1, <3>3 DEF ResetIssues, InsertRows, SettleInv, AuditInv, TypeInv, TypeOK, FactTables, Tables
      <4> QED
        BY <3>2, <4>1
    <3>4. CASE UNCHANGED tab
      BY <3>2, <3>4
    <3> QED
      BY <2>1, <3>1, <3>3, <3>4
         DEF Open, Progress, Fault, Connect, LoadUsers, ReadBatch, EndOfFile, LookUp, Evaluate,
             ValidateOnly, BadHeaders, PostLoadChecks, FlushReport, Commit, SetupFails, RunFails, RecordFailure,
             FailureUnrecorded, Crash
  <2>2. CASE UNCHANGED vars
    BY <2>2 DEF vars
  <2> QED
    BY <1>1, <2>1, <2>2 DEF Next
<1>2. ASSUME SettleInv, [Next]_vars PROVE Added
  BY <1>2, StepAdds DEF SettleInv
<1>3. SettleInv /\ [Next]_vars => [Removed /\ Added]_vars
  BY <1>1, <1>2
<1> QED
  BY <1>3, SettleInvariant, PTL DEF Spec, OnlyReloadsChange

-----------------------------------------------------------------------------
(* Each row goes one way and no id is loaded twice within a run, for any      *)
(* interleaving; a load that no other load of its tenant overlaps is exact.   *)

RoutedTables == {"clean", "issue"}

\* The run's facts come from batches it has read.
FromReadBatches(r) ==
  \A t \in RoutedTables : \A x \in Rows :
    <<r, x>> \in tab[t] => \E i \in 1..batch[r] : x \in Batches(r)[i]

\* Where the rows of the batch at hand can be.
BatchRouted(r) ==
  /\ pc[r] \in {"raw", "map", "reset", "issues"} =>
       \A x \in Current(r) : <<r, x>> \notin tab["clean"] /\ <<r, x>> \notin tab["issue"]
  /\ pc[r] = "clean" =>
       \A x \in Current(r) : <<r, x>> \notin tab["issue"] /\ (<<r, x>> \in tab["clean"] => x \notin flagged[r])
  /\ pc[r] = "issue" =>
       \A x \in Current(r) : <<r, x>> \in tab["clean"] => x \notin flagged[r]

\* What the mask still guarantees until the batch's clean rows are in: an unflagged id
\* occurs once in the batch, and among the run's earlier clean rows only with blanks.
MaskHolds(r) ==
  pc[r] \in {"reset", "issues", "clean"} =>
    \A x \in Current(r) \ flagged[r] :
      /\ \A y \in Current(r) : y # x => IdOf[y] # IdOf[x]
      /\ \A z \in Rows \ Current(r) :
           (<<r, z>> \in tab["clean"] /\ IdOf[z] = IdOf[x]) => z \in Padded

\* A row whose id was looked up and not found has that id only with blanks among the
\* run's earlier clean rows.
NoneFound(r, x) ==
  \A z \in Rows : (<<r, z>> \in tab["clean"] /\ IdOf[z] = IdOf[x]) => z \in Padded

LookUpsHold(r) ==
  pc[r] = "map" /\ ~job[r].dry =>
    \A x \in Current(r) : x \in todo[r] \/ x \in flagged[r] \/ NoneFound(r, x)

\* The two properties, for one run.
RoutedRight(r) ==
  /\ \A x \in Rows : <<r, x>> \in tab["clean"] => <<r, x>> \notin tab["issue"] /\ x \notin Faulty
  /\ \A x, y \in Rows :
       (x < y /\ IdOf[x] = IdOf[y] /\ <<r, x>> \in tab["clean"] /\ <<r, y>> \in tab["clean"]) => x \in Padded

Routed(r) ==
  FromReadBatches(r) /\ BatchRouted(r) /\ LookUpsHold(r) /\ MaskHolds(r) /\ RoutedRight(r)

RouteInv == AuditInv /\ \A r \in Runs : Routed(r)

------------------------------------------------------------------------------

\* Batches follow one another in the file.
LEMMA BatchOrder ==
  ASSUME TypeInv, NEW r \in Runs, NEW i \in 1..Len(Batches(r)), NEW j \in 1..Len(Batches(r)), i < j,
         NEW x \in Batches(r)[i], NEW y \in Batches(r)[j]
  PROVE  x \in Nat /\ y \in Nat /\ x < y
<1>1. job[r].file \in Files /\ Batches(r) \in Seq(RowSets)
  BY BatchesAreRowSets DEF TypeInv
<1>2. Batches(r)[i] \in RowSets /\ Batches(r)[j] \in RowSets
  BY <1>1
<1>3. x < y
  BY <1>1, FilesAssumption DEF Batches
<1> QED
  BY <1>2, <1>3, RowsAssumption DEF RowSets

\* The batch at hand is later than the ones before it and shares no row with them.
LEMMA EarlierBatches ==
  ASSUME TypeInv, NEW r \in Runs, NEW n \in 1..Len(Batches(r)),
         NEW i \in 1..n, i # n, NEW z \in Batches(r)[i]
  PROVE  \A x \in Batches(r)[n] : z \in Nat /\ x \in Nat /\ z < x
<1>1. i \in 1..Len(Batches(r)) /\ i < n
  BY BatchesAreRowSets DEF TypeInv
<1> QED
  BY <1>1, BatchOrder

\* A run that keeps its place, or leaves the loop body, while its facts can only shrink.
LEMMA KeptRouted ==
  ASSUME RouteInv, NEW q \in Runs, job' = job, batch'[q] = batch[q],
         \/ pc'[q] = pc[q] /\ flagged'[q] = flagged[q] /\ todo'[q] = todo[q]
         \/ pc'[q] \notin LoopBody,
         \A t \in RoutedTables : \A x \in Rows : <<q, x>> \in tab'[t] => <<q, x>> \in tab[t]
  PROVE  Routed(q)'
<1>1. Batches(q)' = Batches(q) /\ Current(q)' = Current(q)
  BY DEF Batches, Current
<1>2. Routed(q)
  BY DEF RouteInv
<1>3. FromReadBatches(q)'
  BY <1>1, <1>2 DEF Routed, FromReadBatches
<1>4. RoutedRight(q)'
  BY <1>2 DEF Routed, RoutedRight, RoutedTables
<1>5. pc'[q] \in LoopBody => Current(q) \in RowSets
  BY CurrentIsRowSet DEF RouteInv, AuditInv
<1>6. pc'[q] \in LoopBody => Current(q) \subseteq Rows
  BY <1>5 DEF RowSets
<1>7. BatchRouted(q)'
  BY <1>1, <1>2, <1>6 DEF Routed, BatchRouted, RoutedTables, LoopBody, Tables
<1>8. MaskHolds(q)'
  BY <1>1, <1>2, <1>6 DEF Routed, MaskHolds, RoutedTables, LoopBody, Tables
<1>9. LookUpsHold(q)'
  BY <1>1, <1>2, <1>6 DEF Routed, LookUpsHold, NoneFound, RoutedTables, LoopBody
<1> QED
  BY <1>3, <1>4, <1>7, <1>8, <1>9 DEF Routed

\* Reading a batch: none of its rows is a fact of the run yet.
LEMMA ReadBatchRouted ==
  ASSUME RouteInv, AuditInv', NEW r \in Runs, ReadBatch(r)
  PROVE  RouteInv'
<1> DEFINE n == batch[r] + 1
<1>1. /\ n \in 1..Len(Batches(r)) /\ batch'[r] = n /\ batch[r] \in Nat
      /\ Batches(r)' = Batches(r) /\ tab' = tab /\ job' = job
      /\ Current(r)' = Batches(r)[n] /\ pc'[r] \in {"raw", "map"}
  BY BatchesAreRowSets DEF ReadBatch, Goto, Batches, Current, RouteInv, AuditInv, TypeInv, TypeOK
<1>2. Routed(r)
  BY DEF RouteInv
<1>3. ASSUME NEW t \in RoutedTables, NEW x \in Rows, <<r, x>> \in tab[t]
      PROVE  x \notin Batches(r)[n] /\ \E i \in 1..n : x \in Batches(r)[i]
  <2>1. PICK i \in 1..batch[r] : x \in Batches(r)[i]
    BY <1>2, <1>3 DEF Routed, FromReadBatches
  <2>2. i \in 1..n /\ i # n
    BY <1>1
  <2> HIDE DEF n
  <2> QED
    BY <1>1, <2>1, <2>2, EarlierBatches DEF RouteInv, AuditInv
<1> HIDE DEF n
<1>4. Batches(r)[n] \subseteq Rows
  <2>1. Batches(r) \in Seq(RowSets)
    BY BatchesAreRowSets DEF RouteInv, AuditInv, TypeInv
  <2>2. Batches(r)[n] \in RowSets
    BY <1>1, <2>1
  <2> QED
    BY <2>2 DEF RowSets
<1>5. FromReadBatches(r)'
  BY <1>1, <1>3 DEF FromReadBatches
<1>6. BatchRouted(r)'
  BY <1>1, <1>3, <1>4 DEF BatchRouted, RoutedTables
<1>7. LookUpsHold(r)' /\ MaskHolds(r)' /\ RoutedRight(r)'
  <2>1. pc'[r] = "map" => job'[r].dry
    BY <1>1 DEF ReadBatch, Goto, RouteInv, AuditInv, TypeInv, TypeOK
  <2> QED
    BY <1>1, <1>2, <2>1 DEF Routed, LookUpsHold, MaskHolds, RoutedRight
<1>8. ASSUME NEW q \in Runs \ {r} PROVE Routed(q)'
  BY KeptRouted DEF ReadBatch, Goto, RouteInv, AuditInv, TypeInv, TypeOK
<1> QED
  BY <1>5, <1>6, <1>7, <1>8 DEF RouteInv, Routed

\* An id the SELECT does not find is new, up to blanks.
LEMMA NotExisting ==
  ASSUME NEW r \in Runs, NEW x, IdOf[x] \notin ExistingIds(r)
  PROVE  NoneFound(r, x)
<1>1. ASSUME NEW z \in Rows, <<r, z>> \in tab["clean"], z \notin Padded
      PROVE  IdOf[z] \in ExistingIds(r)
  <2>1. <<r, z>> \in {d \in TenantEntries("clean", TenantOf(r)) : d[2] \notin Padded}
    BY <1>1 DEF TenantEntries
  <2> QED
    BY <2>1 DEF ExistingIds
<1> QED
  BY <1>1 DEF NoneFound

\* Each look-up reads CLEAN as it is; the run's own rows there do not change meanwhile.
LEMMA LookUpRouted ==
  ASSUME RouteInv, AuditInv', NEW r \in Runs, LookUp(r)
  PROVE  RouteInv'
<1>1. PICK ids :
        /\ todo' = [todo EXCEPT ![r] = {x \in todo[r] : IdOf[x] \notin ids}]
        /\ flagged' = [flagged EXCEPT ![r] =
             @ \cup {x \in todo[r] : IdOf[x] \in ids \cap ExistingIds(r)}]
        /\ pc[r] = "map" /\ ~job[r].dry
        /\ UNCHANGED <<job, pc, batch, tab>>
  BY LookUpEffect DEF RouteInv, AuditInv
<1>2. Routed(r) /\ Batches(r)' = Batches(r) /\ Current(r)' = Current(r)
  BY <1>1 DEF RouteInv, Batches, Current
<1>3. /\ todo'[r] = {x \in todo[r] : IdOf[x] \notin ids}
      /\ flagged'[r] = flagged[r] \cup {x \in todo[r] : IdOf[x] \in ids \cap ExistingIds(r)}
      /\ \A q \in Runs \ {r} : todo'[q] = todo[q] /\ flagged'[q] = flagged[q]
  BY <1>1 DEF RouteInv, AuditInv, TypeInv, TypeOK
<1>4. \A x : NoneFound(r, x)' <=> NoneFound(r, x)
  BY <1>1 DEF NoneFound
<1>5. ASSUME NEW x \in Current(r), x \notin todo'[r], x \notin flagged'[r]
      PROVE  NoneFound(r, x)
  <2>1. CASE x \in todo[r]
    BY <1>3, <1>5, <2>1, NotExisting
  <2>2. CASE x \notin todo[r]
    BY <1>1, <1>2, <1>3, <1>5, <2>2 DEF Routed, LookUpsHold
  <2> QED
    BY <2>1, <2>2
<1>6. LookUpsHold(r)'
  BY <1>2, <1>4, <1>5 DEF LookUpsHold
<1>7. FromReadBatches(r)' /\ BatchRouted(r)' /\ MaskHolds(r)' /\ RoutedRight(r)'
  BY <1>1, <1>2 DEF Routed, FromReadBatches, BatchRouted, MaskHolds, RoutedRight
<1>8. ASSUME NEW q \in Runs \ {r} PROVE Routed(q)'
  BY <1>1, <1>3, KeptRouted
<1> QED
  BY <1>6, <1>7, <1>8 DEF RouteInv, Routed

\* The mask is computed from what was found: an id it lets through is new.
LEMMA EvaluateRouted ==
  ASSUME RouteInv, AuditInv', NEW r \in Runs, Evaluate(r)
  PROVE  RouteInv'
<1>1. /\ pc[r] = "map" /\ pc'[r] \in {"reset", "issues", "clean"} /\ flagged'[r] = IssueMask(r)
      /\ Batches(r)' = Batches(r) /\ Current(r)' = Current(r)
      /\ tab' = tab /\ job' = job /\ batch' = batch
  BY DEF Evaluate, Goto, Batches, Current, RouteInv, AuditInv, TypeInv, TypeOK
<1>2. Routed(r)
  BY DEF RouteInv
<1>3. FromReadBatches(r)' /\ RoutedRight(r)'
  BY <1>1, <1>2 DEF Routed, FromReadBatches, RoutedRight
<1>4. BatchRouted(r)'
  BY <1>1, <1>2 DEF Routed, BatchRouted
<1>5. ASSUME NEW x \in Current(r) \ IssueMask(r)
      PROVE  (\A y \in Current(r) : y # x => IdOf[y] # IdOf[x]) /\ NoneFound(r, x)
  <2>1. \A y \in Current(r) : y # x => IdOf[y] # IdOf[x]
    BY DEF IssueMask
  <2>2. x \notin flagged[r] /\ x \notin todo[r] /\ ~job[r].dry
    BY DEF IssueMask, Evaluate
  <2> QED
    BY <1>1, <1>2, <2>1, <2>2 DEF Routed, LookUpsHold
<1>6. LookUpsHold(r)' /\ MaskHolds(r)'
  BY <1>1, <1>5 DEF LookUpsHold, MaskHolds, NoneFound
<1>7. ASSUME NEW q \in Runs \ {r} PROVE Routed(q)'
  BY <1>1, KeptRouted DEF Evaluate, Goto, RouteInv, AuditInv, TypeInv, TypeOK
<1> QED
  BY <1>3, <1>4, <1>6, <1>7 DEF RouteInv, Routed

\* The inserts that do not route.
LEMMA OtherInsertRouted ==
  ASSUME RouteInv, AuditInv', NEW r \in Runs, NEW t \in Tables \ RoutedTables, InsertRows(r, t)
  PROVE  Routed(r)'
<1>1. /\ \A u \in RoutedTables, q \in Runs, x \in Rows : <<q, x>> \in tab'[u] <=> <<q, x>> \in tab[u]
      /\ pc[r] = t /\ job' = job /\ batch' = batch /\ flagged' = flagged
      /\ Current(r)' = Current(r) /\ Batches(r)' = Batches(r)
      /\ pc'[r] = t \/ (pc'[r] = After(t) /\ todo'[r] = Portion(r, After(t)))
  BY InsertEffect DEF RouteInv, AuditInv, Tables, RoutedTables, Batches
<1>2. Routed(r) /\ Current(r) \subseteq Rows
  BY <1>1, CurrentIsRowSet DEF RouteInv, AuditInv, LoopBody, RowSets
<1>3. FromReadBatches(r)' /\ RoutedRight(r)'
  BY <1>1, <1>2 DEF Routed, FromReadBatches, RoutedRight, RoutedTables
<1>4. BatchRouted(r)'
  BY <1>1, <1>2 DEF Routed, BatchRouted, RoutedTables, After, Tables
<1>5. MaskHolds(r)'
  BY <1>1, <1>2 DEF Routed, MaskHolds, RoutedTables, After, Tables
<1>6. LookUpsHold(r)'
  BY <1>1 DEF LookUpsHold, Portion, After, Tables
<1> QED
  BY <1>3, <1>4, <1>5, <1>6 DEF Routed

\* The CLEAN insert sends unflagged rows: their ids are new, and they are not issues.
LEMMA CleanInsertRouted ==
  ASSUME RouteInv, AuditInv', NEW r \in Runs, InsertRows(r, "clean")
  PROVE  Routed(r)'
<1> DEFINE chunk == Chunk(todo[r])
<1>1. /\ \A q \in Runs, x \in Rows :
           /\ <<q, x>> \in tab'["clean"] <=> <<q, x>> \in tab["clean"] \/ (q = r /\ x \in chunk)
           /\ <<q, x>> \in tab'["issue"] <=> <<q, x>> \in tab["issue"]
      /\ chunk \subseteq todo[r] /\ todo[r] \subseteq Rows
      /\ pc[r] = "clean" /\ job' = job /\ batch' = batch /\ flagged' = flagged
      /\ Current(r)' = Current(r) /\ Batches(r)' = Batches(r) /\ pc'[r] \in {"clean", "issue"}
  BY InsertEffect DEF RouteInv, AuditInv, Tables, After, Batches
<1> HIDE DEF chunk
<1>2. Routed(r) /\ BatchHeld(r)
  BY DEF RouteInv, AuditInv, RunAudited
<1>3. Current(r) \subseteq Rows
  BY <1>1, CurrentIsRowSet DEF RouteInv, AuditInv, LoopBody, Tables, RowSets
<1>4. chunk \subseteq Current(r) \ flagged[r] /\ Current(r) \cap Faulty \subseteq flagged[r]
  BY <1>1, <1>2 DEF BatchHeld
<1>5. batch[r] \in 1..batch[r] /\ batch[r] \in 1..Len(Batches(r)) /\ Current(r) = Batches(r)[batch[r]]
  BY <1>1, BatchesAreRowSets
     DEF RouteInv, AuditInv, TypeInv, TypeOK, BatchInRange, LoopBody, Tables, Current
<1>6. FromReadBatches(r)'
  BY <1>1, <1>2, <1>4, <1>5 DEF Routed, FromReadBatches, RoutedTables
<1>7. BatchRouted(r)'
  BY <1>1, <1>2, <1>3, <1>4 DEF Routed, BatchRouted, RoutedTables
<1>8. ASSUME NEW z \in Rows, <<r, z>> \in tab["clean"], NEW x \in chunk, IdOf[z] = IdOf[x], z # x
      PROVE  z \in Padded /\ ~(x < z)
  <2>1. z \notin Current(r) /\ z \in Padded
    BY <1>1, <1>2, <1>4, <1>8 DEF Routed, MaskHolds
  <2>2. PICK i \in 1..batch[r] : z \in Batches(r)[i]
    BY <1>2, <1>8 DEF Routed, FromReadBatches, RoutedTables
  <2>3. i # batch[r]
    BY <1>5, <2>1, <2>2
  <2>4. z \in Nat /\ x \in Nat /\ z < x
    BY <1>4, <1>5, <2>2, <2>3, EarlierBatches DEF RouteInv, AuditInv
  <2> QED
    BY <2>1, <2>4
<1>9. ASSUME NEW x \in chunk, NEW y \in chunk, IdOf[x] = IdOf[y]
      PROVE  x = y
  BY <1>1, <1>2, <1>4, <1>9 DEF Routed, MaskHolds
<1>10. MaskHolds(r)' /\ LookUpsHold(r)'
  BY <1>1, <1>2, <1>4 DEF Routed, MaskHolds, LookUpsHold
<1>11. RoutedRight(r)'
  <2>1. ASSUME NEW x \in Rows, <<r, x>> \in tab'["clean"]
        PROVE  <<r, x>> \notin tab'["issue"] /\ x \notin Faulty
    BY <1>1, <1>2, <1>4, <2>1 DEF Routed, RoutedRight, BatchRouted
  <2>2. ASSUME NEW x \in Rows, NEW y \in Rows, x < y, IdOf[x] = IdOf[y],
               <<r, x>> \in tab'["clean"], <<r, y>> \in tab'["clean"]
        PROVE  x \in Padded
    <3>1. x \in Nat /\ y \in Nat /\ x # y
      BY <2>2, RowsAssumption
    <3>2. CASE <<r, x>> \in tab["clean"] /\ <<r, y>> \in tab["clean"]
      BY <1>2, <2>2, <3>2 DEF Routed, RoutedRight
    <3>3. CASE <<r, x>> \in tab["clean"] /\ y \in chunk
      BY <1>8, <2>2, <3>1, <3>3
    <3>4. CASE x \in chunk /\ <<r, y>> \in tab["clean"]
      BY <1>8, <2>2, <3>1, <3>4
    <3>5. CASE x \in chunk /\ y \in chunk
      BY <1>9, <2>2, <3>1, <3>5
    <3> QED
      BY <1>1, <2>2, <3>2, <3>3, <3>4, <3>5
  <2> QED
    BY <2>1, <2>2 DEF RoutedRight
<1> QED
  BY <1>6, <1>7, <1>10, <1>11 DEF Routed

\* The ISSUE insert sends flagged rows, none of which is clean.
LEMMA IssueInsertRouted ==
  ASSUME RouteInv, AuditInv', NEW r \in Runs, InsertRows(r, "issue")
  PROVE  Routed(r)'
<1> DEFINE chunk == Chunk(todo[r])
<1>1. /\ \A q \in Runs, x \in Rows :
           /\ <<q, x>> \in tab'["issue"] <=> <<q, x>> \in tab["issue"] \/ (q = r /\ x \in chunk)
           /\ <<q, x>> \in tab'["clean"] <=> <<q, x>> \in tab["clean"]
      /\ chunk \subseteq todo[r] /\ todo[r] \subseteq Rows
      /\ pc[r] = "issue" /\ job' = job /\ batch' = batch /\ flagged' = flagged
      /\ Current(r)' = Current(r) /\ Batches(r)' = Batches(r) /\ pc'[r] \in {"issue", "all"}
  BY InsertEffect DEF RouteInv, AuditInv, Tables, After, Batches
<1> HIDE DEF chunk
<1>2. Routed(r) /\ BatchHeld(r)
  BY DEF RouteInv, AuditInv, RunAudited
<1>3. Current(r) \subseteq Rows
  BY <1>1, CurrentIsRowSet DEF RouteInv, AuditInv, LoopBody, Tables, RowSets
<1>4. chunk \subseteq flagged[r] /\ flagged[r] \subseteq Current(r)
  BY <1>1, <1>2 DEF BatchHeld
<1>5. batch[r] \in 1..batch[r] /\ Current(r) = Batches(r)[batch[r]]
  BY <1>1 DEF RouteInv, AuditInv, TypeInv, TypeOK, BatchInRange, LoopBody, Tables, Current
<1>6. FromReadBatches(r)'
  BY <1>1, <1>2, <1>4, <1>5 DEF Routed, FromReadBatches, RoutedTables
<1>7. BatchRouted(r)' /\ LookUpsHold(r)' /\ MaskHolds(r)'
  BY <1>1, <1>2, <1>3, <1>4 DEF Routed, BatchRouted, LookUpsHold, MaskHolds
<1>8. RoutedRight(r)'
  BY <1>1, <1>2, <1>4 DEF Routed, RoutedRight, BatchRouted
<1> QED
  BY <1>6, <1>7, <1>8 DEF Routed

\* An insert keeps the routing, of its own run and of the others.
LEMMA InsertRouted ==
  ASSUME RouteInv, AuditInv', NEW r \in Runs, NEW t \in Tables, InsertRows(r, t)
  PROVE  RouteInv'
<1>1. Routed(r)'
  BY OtherInsertRouted, CleanInsertRouted, IssueInsertRouted DEF RoutedTables
<1>2. ASSUME NEW q \in Runs \ {r} PROVE Routed(q)'
  <2>1. /\ \A u \in RoutedTables, x \in Rows : <<q, x>> \in tab'[u] <=> <<q, x>> \in tab[u]
        /\ job' = job /\ batch' = batch /\ flagged' = flagged /\ pc'[q] = pc[q] /\ todo'[q] = todo[q]
    BY InsertEffect DEF RouteInv, AuditInv, Tables, RoutedTables
  <2> QED
    BY <2>1, KeptRouted
<1> QED
  BY <1>1, <1>2 DEF RouteInv

\* The reset has no effect on facts.
LEMMA ResetRouted ==
  ASSUME RouteInv, AuditInv', NEW r \in Runs, ResetIssues(r)
  PROVE  RouteInv'
<1>1. /\ tab' = tab /\ pc[r] = "reset" /\ pc'[r] = "issues" /\ job' = job /\ batch' = batch
      /\ flagged' = flagged /\ todo' = todo /\ Batches(r)' = Batches(r) /\ Current(r)' = Current(r)
      /\ \A q \in Runs \ {r} : pc'[q] = pc[q]
  BY ResetDeletesNothing DEF ResetIssues, Goto, Batches, Current, RouteInv, AuditInv, TypeInv, TypeOK
<1>2. Routed(r)'
  BY <1>1 DEF RouteInv, Routed, FromReadBatches, BatchRouted, LookUpsHold, MaskHolds, RoutedRight
<1>3. ASSUME NEW q \in Runs \ {r} PROVE Routed(q)'
  BY <1>1, KeptRouted
<1> QED
  BY <1>2, <1>3 DEF RouteInv

\* Every other step leaves the loop body as it is or leaves it, and adds no fact.
LEMMA QuietRouted ==
  ASSUME RouteInv, AuditInv', NEW r \in Runs, job' = job, batch' = batch, flagged' = flagged, todo' = todo,
         pc'[r] \notin LoopBody, \A q \in Runs \ {r} : pc'[q] = pc[q],
         \A t \in FactTables : tab'[t] \subseteq tab[t]
  PROVE  RouteInv'
<1>1. ASSUME NEW q \in Runs PROVE Routed(q)'
  BY KeptRouted DEF RoutedTables, FactTables
<1> QED
  BY <1>1 DEF RouteInv

\* Every step keeps the routing.
LEMMA StepRouted == RouteInv /\ [Next]_vars => RouteInv'
<1> SUFFICES ASSUME RouteInv, [Next]_vars PROVE RouteInv'
  OBVIOUS
<1>0. AuditInv'
  BY StepAudited DEF RouteInv
<1>1. CASE UNCHANGED vars
  BY <1>0, <1>1 DEF vars, RouteInv, Routed, FromReadBatches, BatchRouted, LookUpsHold, NoneFound,
                    MaskHolds, RoutedRight, Current, Batches
<1>2. ASSUME NEW r \in Runs, Open(r) \/ Progress(r) \/ Fault(r) PROVE RouteInv'
  <2> USE <1>0
  <2>1. CASE ClearClean(r) \/ ClearIssue(r) \/ ClearAll(r)
    <3>1. pc'[r] \notin LoopBody
      BY <2>1, ClearEffect DEF RouteInv, AuditInv, Setup, Clearing, LoopBody, Tables
    <3> QED
      BY <2>1, <3>1, ClearEffect, QuietRouted DEF RouteInv, AuditInv
  <2>2. CASE Open(r) \/ Connect(r) \/ LoadUsers(r) \/ SetupFails(r)
    BY <2>2, QuietRouted DEF Open, Connect, LoadUsers, SetupFails, Goto, RouteInv, AuditInv,
       TypeInv, TypeOK, LoopBody, Tables
  <2>3. CASE EndOfFile(r) \/ ValidateOnly(r) \/ PostLoadChecks(r) \/ FlushReport(r) \/ Commit(r)
    BY <2>3, QuietRouted DEF EndOfFile, ValidateOnly, PostLoadChecks, FlushReport, Commit, Goto,
       RouteInv, AuditInv, TypeInv, TypeOK, LoopBody, Tables
  <2>4. CASE BadHeaders(r) \/ RunFails(r) \/ FailureUnrecorded(r) \/ Crash(r)
    BY <2>4, QuietRouted DEF BadHeaders, RunFails, RecordFailure, FailureUnrecorded, Crash, Goto,
       RouteInv, AuditInv, TypeInv, TypeOK, LoopBody, Tables
  <2> QED
    BY <1>2, <2>1, <2>2, <2>3, <2>4, ReadBatchRouted, LookUpRouted, EvaluateRouted, ResetRouted, InsertRouted
       DEF Progress, Fault
<1> QED
  BY <1>1, <1>2 DEF Next

\* Nothing is routed at first.
LEMMA StartRouted == Init => RouteInv
<1> SUFFICES ASSUME Init PROVE RouteInv
  OBVIOUS
<1>1. ASSUME NEW r \in Runs PROVE Routed(r)
  BY DEF Init, Routed, FromReadBatches, BatchRouted, LookUpsHold, MaskHolds, RoutedRight, RoutedTables,
     Tables
<1> QED
  BY <1>1, InitAudited DEF RouteInv

\* The inductive invariant behind the routing theorems.
LEMMA RouteInvariant == Spec => []RouteInv
  BY StartRouted, StepRouted, PTL DEF Spec

\* A row is clean or an issue, never both, and no faulty row is clean.
THEOREM RowsAreRoutedOnce == Spec => []RoutedOnce
<1>1. RouteInv => RoutedOnce
  BY DEF RouteInv, AuditInv, TypeInv, TypeOK, Routed, RoutedRight, RoutedOnce, Tables
<1> QED
  BY <1>1, RouteInvariant, PTL

\* Within a run no id is loaded into CLEAN twice, unless stored with blanks first.
THEOREM CleanIdsAreUnique == Spec => []CleanIdsUnique
<1>1. RouteInv => CleanIdsUnique
  BY DEF RouteInv, Routed, RoutedRight, CleanIdsUnique
<1> QED
  BY <1>1, RouteInvariant, PTL
------------------------------------------------------------------------------
(* Loads that no other load of their tenant overlaps.                           *)

\* A run beside a rival is not alone.
Apart == \A p \in Runs : pc[p] \in Active /\ Rivals(p) # {} => ~alone[p]

\* A run that has not begun to read has nothing anywhere.
Unread(r) ==
  pc[r] \in {"idle"} \cup Setup =>
    batch[r] = 0 /\ \A t \in Tables, x \in Rows : <<r, x>> \notin tab[t]

\* The fact tables a run has been through hold nobody else's rows of its tenant.
Before(t) ==
  CASE t = "clean" -> {"connect", "clear_clean"}
    [] t = "issue" -> {"connect", "clear_clean", "clear_issue"}
    [] t = "all" -> {"connect"} \cup Clearing

Swept(r) ==
  \A t \in FactTables : pc[r] \notin Before(t) =>
    \A q \in Runs, x \in Rows : <<q, x>> \in tab[t] /\ TenantOf(q) = TenantOf(r) => q = r

\* Every batch before the one at hand is loaded, and nothing but rows read.
FactsIn(r, i) ==
  \A x \in Batches(r)[i] :
    <<r, x>> \in tab["all"] /\ (<<r, x>> \in tab["clean"] \/ <<r, x>> \in tab["issue"])

Loaded(r) ==
  /\ \A i \in 1..batch[r] : FactsIn(r, i) \/ (pc[r] \in LoopBody /\ i = batch[r])
  /\ \A x \in Rows : <<r, x>> \in tab["all"] => \E i \in 1..batch[r] : x \in Batches(r)[i]
  /\ pc[r] \in {"finish"} \cup Ending => batch[r] = Len(Batches(r))

\* How far the batch at hand is.
Loading(r) ==
  /\ pc[r] = "clean" => EntriesIn(r, (Current(r) \ flagged[r]) \ todo[r], "clean")
  /\ pc[r] \in {"issue", "all"} => EntriesIn(r, Current(r) \ flagged[r], "clean")
  /\ pc[r] = "issue" => EntriesIn(r, flagged[r] \ todo[r], "issue")
  /\ pc[r] = "all" => EntriesIn(r, flagged[r], "issue") /\ EntriesIn(r, Current(r) \ todo[r], "all")

\* A record whose fact is not in yet is of a flagged row of the batch at hand.
RecordsMatch(r) ==
  \A x \in Rows : <<r, x>> \in tab["issues"] /\ <<r, x>> \notin tab["issue"] =>
    pc[r] \in {"issues", "clean", "issue"} /\ x \in flagged[r]

Exact(r) ==
  pc[r] \in Active /\ ~job[r].dry /\ alone[r] =>
    Swept(r) /\ Loaded(r) /\ Loading(r) /\ RecordsMatch(r)

ExactInv == SettleInv /\ RouteInv /\ Apart /\ \A r \in Runs : Unread(r) /\ Exact(r)

LEMMA RowsOfReadBatches ==
  ASSUME TypeInv, NEW r \in Runs
  PROVE  \A i \in 1..batch[r] : Batches(r)[i] \subseteq Rows
<1>1. Batches(r) \in Seq(RowSets) /\ batch[r] \in Nat /\ batch[r] <= Len(Batches(r))
  BY BatchesAreRowSets DEF TypeInv, TypeOK, BatchInRange
<1>2. \A i \in 1..Len(Batches(r)) : Batches(r)[i] \in RowSets
  BY <1>1
<1>3. 1..batch[r] \subseteq 1..Len(Batches(r))
  BY <1>1
<1> QED
  BY <1>2, <1>3 DEF RowSets

\* What a step of a run leaves of the other runs' part of the state: their progress, and
\* their rows unless they are of its tenant; and a dry run changes no table.
OthersLeft(r) ==
  /\ pc[r] \in Active /\ job' = job /\ alone' = alone
  /\ \A q \in Runs \ {r} : /\ pc'[q] = pc[q] /\ batch'[q] = batch[q]
                          /\ todo'[q] = todo[q] /\ flagged'[q] = flagged[q]
  /\ job[r].dry => tab' = tab
  /\ \A q \in Runs \ {r}, t \in Tables, x \in Rows :
       /\ <<q, x>> \in tab'[t] => <<q, x>> \in tab[t]
       /\ <<q, x>> \in tab[t] /\ TenantOf(q) # TenantOf(r) => <<q, x>> \in tab'[t]

LEMMA StepLeavesOthers ==
  ASSUME SettleInv, NEW r \in Runs, Progress(r) \/ Fault(r)
  PROVE  OthersLeft(r)
<1> USE DEF SettleInv, AuditInv
<1>1. CASE ClearClean(r) \/ ClearIssue(r) \/ ClearAll(r)
  <2>1. pc[r] \in Clearing /\ ~job[r].dry /\ alone' = alone
    BY <1>1, ClearEffect DEF Settling, VerdictFits, ClearClean, ClearIssue, ClearAll, ClearTable
  <2>2. ASSUME NEW q \in Runs, NEW x \in Rows, NEW t \in Tables
        PROVE  /\ <<q, x>> \in tab'[t] => <<q, x>> \in tab[t]
               /\ <<q, x>> \in tab[t] /\ TenantOf(q) # TenantOf(r) => <<q, x>> \in tab'[t]
    <3>1. CASE t \in FactTables
      BY <1>1, <3>1, ClearEffect
    <3>2. CASE t \in {"raw", "issues"}
      BY <1>1, <3>2, ClearEffect
    <3> QED
      BY <3>1, <3>2 DEF Tables, FactTables
  <2> QED
    BY <1>1, <2>1, <2>2, ClearEffect DEF OthersLeft, Active, Setup
<1>2. CASE ResetIssues(r)
  <2>1. tab' = tab
    BY <1>2, ResetDeletesNothing
  <2> QED
    BY <1>2, <2>1 DEF ResetIssues, Goto, OthersLeft, Active, InTry, TypeInv, TypeOK
<1>3. CASE \E t \in Tables : InsertRows(r, t)
  <2>1. PICK t \in Tables : InsertRows(r, t)
    BY <1>3
  <2>2. ~job[r].dry /\ pc[r] \in Active /\ alone' = alone
    BY <2>1 DEF InsertRows, RunAudited, BatchHeld, Active, InTry
  <2> QED
    BY <2>1, <2>2, InsertEffect DEF OthersLeft
<1>4. CASE ReadBatch(r) \/ LookUp(r) \/ Evaluate(r)
  BY <1>4 DEF ReadBatch, LookUp, Evaluate, Goto, OthersLeft, Active, InTry, TypeInv, TypeOK
<1>5. CASE Connect(r) \/ LoadUsers(r) \/ SetupFails(r) \/ EndOfFile(r) \/ ValidateOnly(r)
  BY <1>5 DEF Connect, LoadUsers, SetupFails, EndOfFile, ValidateOnly, Goto, OthersLeft, Active,
     Setup, InTry, TypeInv, TypeOK
<1>6. CASE PostLoadChecks(r) \/ FlushReport(r) \/ Commit(r)
  BY <1>6 DEF PostLoadChecks, FlushReport, Commit, Goto, OthersLeft, Active, InTry, Ending, TypeInv,
     TypeOK
<1>7. CASE BadHeaders(r) \/ RunFails(r) \/ FailureUnrecorded(r) \/ Crash(r)
  BY <1>7 DEF BadHeaders, RunFails, RecordFailure, FailureUnrecorded, Crash, Goto, OthersLeft, Active,
     InTry, TypeInv, TypeOK
<1> QED
  BY <1>1, <1>2, <1>3, <1>4, <1>5, <1>6, <1>7 DEF Progress, Fault

\* A run that is alone is not disturbed by the steps of others.
LEMMA OthersExact ==
  ASSUME ExactInv, SettleInv', RouteInv', NEW r \in Runs, OthersLeft(r), Unread(r)', Exact(r)'
  PROVE  ExactInv'
<1>1. \A q \in Runs : TenantOf(q)' = TenantOf(q) /\ Batches(q)' = Batches(q)
  BY DEF OthersLeft, TenantOf, Batches
<1>2. Apart'
  <2>1. \A p \in Runs : pc'[p] \in Active => pc[p] \in Active
    BY DEF OthersLeft
  <2>2. ASSUME NEW p \in Runs PROVE Rivals(p)' \subseteq Rivals(p)
    BY <1>1, <2>1 DEF Rivals, OthersLeft
  <2> QED
    BY <2>1, <2>2 DEF ExactInv, Apart, OthersLeft
<1>3. ASSUME NEW q \in Runs \ {r} PROVE Unread(q)'
  BY <1>3 DEF ExactInv, Unread, OthersLeft
<1>4. ASSUME NEW q \in Runs \ {r}, pc'[q] \in Active, ~job'[q].dry, alone'[q]
      PROVE  Swept(q)' /\ Loaded(q)' /\ Loading(q)' /\ RecordsMatch(q)'
  <2>1. /\ pc'[q] = pc[q] /\ batch'[q] = batch[q] /\ todo'[q] = todo[q] /\ flagged'[q] = flagged[q]
        /\ pc[q] \in Active /\ ~job[q].dry /\ alone[q]
    BY <1>4 DEF OthersLeft
  <2>2. Swept(q) /\ Loaded(q) /\ Loading(q) /\ RecordsMatch(q)
    BY <2>1 DEF ExactInv, Exact
  <2>3. job[r].dry \/ TenantOf(q) # TenantOf(r)
    <3>1. r \notin Rivals(q)
      BY <2>1 DEF ExactInv, Apart
    <3> QED
      BY <2>1, <3>1 DEF Rivals, OthersLeft
  <2>4. \A t \in Tables, x \in Rows : <<q, x>> \in tab'[t] <=> <<q, x>> \in tab[t]
    BY <2>3 DEF OthersLeft
  <2>5. Swept(q)'
    <3>1. ASSUME NEW t \in FactTables, pc[q] \notin Before(t), NEW p \in Runs, NEW x \in Rows,
                 <<p, x>> \in tab'[t], TenantOf(p) = TenantOf(q)
          PROVE  p = q
      <4>1. CASE p = r
        <5>1. tab' = tab
          BY <2>3, <3>1, <4>1 DEF OthersLeft
        <5> QED
          BY <2>2, <3>1, <5>1 DEF Swept
      <4>2. CASE p # r
        <5>1. <<p, x>> \in tab[t]
          BY <3>1, <4>2 DEF OthersLeft, Tables, FactTables
        <5> QED
          BY <2>2, <3>1, <5>1 DEF Swept
      <4> QED
        BY <4>1, <4>2
    <3> QED
      BY <1>1, <2>1, <3>1 DEF Swept
  <2>6. \A i \in 1..batch[q] : Batches(q)[i] \subseteq Rows
    BY RowsOfReadBatches DEF ExactInv, RouteInv, AuditInv
  <2>7. \A i \in 1..batch[q] : FactsIn(q, i) => FactsIn(q, i)'
    BY <1>1, <2>4, <2>6 DEF FactsIn, Tables
  <2>8. Loaded(q)'
    BY <1>1, <2>1, <2>2, <2>4, <2>7 DEF Loaded, Tables
  <2>9. pc[q] \in LoopBody => Current(q) \subseteq Rows
    BY CurrentIsRowSet DEF ExactInv, RouteInv, AuditInv, RowSets
  <2>10. flagged[q] \subseteq Rows /\ Current(q)' = Current(q)
    BY <1>1, <2>1 DEF ExactInv, RouteInv, AuditInv, TypeInv, TypeOK, RowSets, Current
  <2>11. Loading(q)'
    BY <2>1, <2>2, <2>4, <2>9, <2>10 DEF Loading, EntriesIn, LoopBody, Tables
  <2>12. RecordsMatch(q)'
    BY <2>1, <2>2, <2>4 DEF RecordsMatch, Tables
  <2> QED
    BY <2>5, <2>8, <2>11, <2>12
<1> QED
  BY <1>2, <1>3, <1>4 DEF ExactInv, Exact

\* A run that begins finds nothing of its own, and takes nobody's claim on but its rivals'.
LEMMA OpenExact ==
  ASSUME ExactInv, SettleInv', RouteInv', NEW r \in Runs, Open(r)
  PROVE  ExactInv'
<1>1. /\ pc[r] = "idle" /\ pc'[r] = "connect" /\ UNCHANGED <<tab, batch, job, todo, flagged>>
      /\ \A q \in Runs \ {r} : pc'[q] = pc[q]
      /\ \A q \in Runs \ {r} : alone'[q] => alone[q] /\ q \notin Rivals(r)
      /\ alone'[r] = (Rivals(r) = {})
  BY DEF Open, Goto, ExactInv, RouteInv, AuditInv, TypeInv, TypeOK
<1>2. \A q \in Runs : /\ TenantOf(q)' = TenantOf(q) /\ Batches(q)' = Batches(q)
                      /\ Current(q)' = Current(q)
  BY <1>1 DEF TenantOf, Batches, Current
<1>3. batch[r] = 0 /\ \A t \in Tables, x \in Rows : <<r, x>> \notin tab[t]
  BY <1>1 DEF ExactInv, Unread
<1>4. Unread(r)'
  BY <1>1, <1>3 DEF Unread
<1>5. Swept(r)' /\ Loading(r)'
  BY <1>1 DEF Swept, Loading, Before, FactTables
<1>6. Loaded(r)' /\ RecordsMatch(r)'
  BY <1>1, <1>3 DEF Loaded, RecordsMatch, Ending, Tables
<1>7. ASSUME NEW q \in Runs \ {r} PROVE Unread(q)' /\ Exact(q)'
  <2>1. Unread(q)'
    BY <1>1 DEF ExactInv, Unread
  <2>2. ASSUME pc'[q] \in Active, ~job'[q].dry, alone'[q]
        PROVE  Swept(q)' /\ Loaded(q)' /\ Loading(q)' /\ RecordsMatch(q)'
    <3>1. Swept(q) /\ Loaded(q) /\ Loading(q) /\ RecordsMatch(q)
      BY <1>1, <2>2 DEF ExactInv, Exact
    <3> QED
      BY <1>1, <1>2, <3>1 DEF Swept, Loaded, FactsIn, Loading, EntriesIn, RecordsMatch
  <2> QED
    BY <2>1, <2>2 DEF Exact
<1>8. Apart'
  <2>1. ASSUME NEW p \in Runs, pc'[p] \in Active, NEW q \in Rivals(p)' PROVE ~alone'[p]
    <3>1. /\ q \in Runs \ {p} /\ pc'[q] \in Active /\ TenantOf(q) = TenantOf(p)
          /\ ~job[q].dry /\ ~job[p].dry
      BY <1>1, <1>2, <2>1 DEF Rivals
    <3>2. CASE p = r
      BY <1>1, <3>1, <3>2 DEF Rivals
    <3>3. CASE q = r
      BY <1>1, <2>1, <3>1, <3>3 DEF Rivals
    <3>4. CASE p # r /\ q # r
      <4>1. q \in Rivals(p) /\ pc[p] \in Active
        BY <1>1, <2>1, <3>1, <3>4 DEF Rivals
      <4> QED
        BY <1>1, <3>4, <4>1 DEF ExactInv, Apart
    <3> QED
      BY <3>2, <3>3, <3>4
  <2> QED
    BY <2>1 DEF Apart
<1> QED
  BY <1>4, <1>5, <1>6, <1>7, <1>8 DEF ExactInv, Exact

\* A run is back before its first batch only while it has nothing.
LEMMA StepUnread ==
  ASSUME ExactInv, NEW r \in Runs, Progress(r) \/ Fault(r)
  PROVE  Unread(r)'
<1> SUFFICES ASSUME pc'[r] \in {"idle"} \cup Setup
             PROVE  batch'[r] = 0 /\ \A t \in Tables, x \in Rows : <<r, x>> \notin tab'[t]
  BY DEF Unread
<1> USE DEF ExactInv, RouteInv, AuditInv
<1>1. CASE Connect(r)
  BY <1>1 DEF Connect, Unread, Setup
<1>2. CASE ClearClean(r) \/ ClearIssue(r) \/ ClearAll(r)
  <2>1. batch' = batch /\ \A t \in Tables : tab'[t] \subseteq tab[t]
    BY <1>2, ClearEffect DEF Tables, FactTables
  <2>2. pc[r] \in Setup
    BY <1>2, ClearEffect DEF Setup
  <2> QED
    BY <2>1, <2>2 DEF Unread
<1>3. CASE \E t \in Tables : InsertRows(r, t)
  <2>1. PICK t \in Tables : pc'[r] = t \/ pc'[r] = After(t)
    BY <1>3 DEF InsertRows, Goto, TypeInv, TypeOK
  <2> QED
    BY <2>1 DEF After, Tables, Setup, Clearing
<1>4. CASE LoadUsers(r) \/ ReadBatch(r) \/ EndOfFile(r) \/ ValidateOnly(r) \/ ResetIssues(r)
  BY <1>4 DEF LoadUsers, ReadBatch, EndOfFile, ValidateOnly, ResetIssues, Goto, TypeInv, TypeOK,
     Setup, Clearing
<1>5. CASE LookUp(r) \/ Evaluate(r)
  BY <1>5 DEF LookUp, Evaluate, Goto, TypeInv, TypeOK, Setup, Clearing
<1>6. CASE PostLoadChecks(r) \/ FlushReport(r) \/ Commit(r)
  BY <1>6 DEF PostLoadChecks, FlushReport, Commit, Goto, TypeInv, TypeOK, Setup, Clearing
<1>7. CASE BadHeaders(r) \/ Fault(r)
  BY <1>7 DEF BadHeaders, Fault, SetupFails, RunFails, RecordFailure, FailureUnrecorded, Crash, Goto,
     TypeInv, TypeOK, Setup, Clearing
<1> QED
  BY <1>1, <1>2, <1>3, <1>4, <1>5, <1>6, <1>7 DEF Progress

\* Up to the first batch the run has nothing; its tenant's tables empty one by one.
LEMMA SetupExact ==
  ASSUME ExactInv, NEW r \in Runs, pc[r] \in Setup, pc'[r] \in Setup \cup {"read"},
         UNCHANGED <<batch, job, alone>>,
         \A t \in Tables : tab'[t] \subseteq tab[t],
         job[r].dry \/ ~alone[r] \/ Swept(r)'
  PROVE  Exact(r)'
<1>1. pc[r] \in Active /\ batch[r] = 0 /\ \A t \in Tables, x \in Rows : <<r, x>> \notin tab'[t]
  BY DEF ExactInv, Unread, Active
<1>2. Loading(r)'
  BY DEF Loading, Setup, Clearing
<1>3. Loaded(r)' /\ RecordsMatch(r)'
  BY <1>1 DEF Loaded, RecordsMatch, Setup, Clearing, Ending, Tables
<1> QED
  BY <1>2, <1>3 DEF Exact

\* Each DELETE leaves its table without rows of the tenant.
LEMMA ClearExact ==
  ASSUME ExactInv, NEW r \in Runs, ClearClean(r) \/ ClearIssue(r) \/ ClearAll(r)
  PROVE  Exact(r)'
<1>1. pc[r] \in Active /\ ~job[r].dry /\ alone[r] => Swept(r)
  BY DEF ExactInv, Exact
<1>2. /\ pc[r] \in Setup /\ pc'[r] \in Setup /\ UNCHANGED <<batch, job, alone>>
  BY ClearEffect
     DEF ExactInv, RouteInv, AuditInv, Setup, ClearClean, ClearIssue, ClearAll, ClearTable
<1>3. \A t \in Tables : tab'[t] \subseteq tab[t]
  BY ClearEffect DEF ExactInv, RouteInv, AuditInv, Tables, FactTables
<1>4. \A q \in Runs : TenantOf(q)' = TenantOf(q)
  BY <1>2 DEF TenantOf
<1>5. ASSUME ~job[r].dry, alone[r] PROVE Swept(r)'
  <2>1. Swept(r)
    BY <1>1, <1>2, <1>5 DEF Active
  <2>2. PICK t \in FactTables, next \in Setup :
          /\ \/ t = "clean" /\ next = "clear_issue" /\ pc[r] = "clear_clean"
             \/ t = "issue" /\ next = "clear_all" /\ pc[r] = "clear_issue"
             \/ t = "all" /\ next = "users" /\ pc[r] = "clear_all"
          /\ ClearTable(r, pc[r], t, next)
    BY DEF ClearClean, ClearIssue, ClearAll, ClearTable, FactTables, Setup, Clearing
  <2>3. pc'[r] = next /\ tab'[t] = tab[t] \ TenantEntries(t, TenantOf(r))
    BY <2>2 DEF ClearTable, Goto, ExactInv, RouteInv, AuditInv, TypeInv, TypeOK, FactTables, Tables
  <2>4. ASSUME NEW q \in Runs, NEW x \in Rows, <<q, x>> \in tab'[t] PROVE TenantOf(q) # TenantOf(r)
    BY <2>3, <2>4 DEF TenantEntries
  <2>5. ASSUME NEW u \in FactTables, u # t, next \notin Before(u) PROVE pc[r] \notin Before(u)
    BY <2>2, <2>5 DEF Before, FactTables, Clearing
  <2> QED
    BY <1>2, <1>3, <1>4, <2>1, <2>3, <2>4, <2>5 DEF Swept, FactTables, Tables
<1> QED
  BY <1>2, <1>3, <1>5, SetupExact

\* Outside the loop body nothing but the place in the code changes.
LEMMA WaitingExact ==
  ASSUME ExactInv, NEW r \in Runs, pc[r] \in {"read", "finish", "report", "map"},
         pc'[r] \in {"finish", "report", "commit"},
         UNCHANGED <<batch, job, alone, tab>>,
         \/ job[r].dry
         \/ pc[r] # "map" /\ (pc[r] = "read" => batch[r] = Len(Batches(r)))
  PROVE  Exact(r)'
<1>1. pc[r] \in Active /\ Batches(r)' = Batches(r) /\ \A q \in Runs : TenantOf(q)' = TenantOf(q)
  BY DEF Active, InTry, Ending, Batches, TenantOf
<1>2. ASSUME ~job[r].dry, alone[r] PROVE Swept(r)' /\ Loaded(r)' /\ Loading(r)' /\ RecordsMatch(r)'
  <2>1. Swept(r) /\ Loaded(r) /\ RecordsMatch(r)
    BY <1>1, <1>2 DEF ExactInv, Exact
  <2>2. Swept(r)'
    BY <1>1, <2>1 DEF Swept, Before, Clearing, FactTables
  <2>3. Loaded(r)'
    BY <1>1, <1>2, <2>1 DEF Loaded, FactsIn, LoopBody, Tables, Ending
  <2>4. RecordsMatch(r)'
    BY <1>2, <2>1 DEF RecordsMatch
  <2> QED
    BY <2>2, <2>3, <2>4 DEF Loading
<1> QED
  BY <1>1, <1>2 DEF Exact

\* A batch that is read is the one at hand; the earlier ones are loaded.
LEMMA ReadBatchExact ==
  ASSUME ExactInv, NEW r \in Runs, ReadBatch(r)
  PROVE  Exact(r)'
<1> DEFINE n == batch[r] + 1
<1>1. /\ pc[r] = "read" /\ pc'[r] \in {"raw", "map"} /\ batch[r] \in Nat /\ batch'[r] = n
      /\ Batches(r)' = Batches(r) /\ UNCHANGED <<tab, job, alone>>
      /\ \A q \in Runs : TenantOf(q)' = TenantOf(q)
  BY DEF ReadBatch, Goto, Batches, TenantOf, ExactInv, RouteInv, AuditInv, TypeInv, TypeOK
<1>2. pc[r] \in Active /\ pc'[r] \in LoopBody
  BY <1>1 DEF Active, InTry, LoopBody, Tables
<1>3. ASSUME ~job[r].dry, alone[r] PROVE Swept(r)' /\ Loaded(r)' /\ Loading(r)' /\ RecordsMatch(r)'
  <2>1. Swept(r) /\ Loaded(r) /\ RecordsMatch(r)
    BY <1>2, <1>3 DEF ExactInv, Exact
  <2>2. Swept(r)'
    BY <1>1, <2>1 DEF Swept, Before, Clearing, FactTables
  <2>3. \A i \in 1..n : i = n \/ FactsIn(r, i)
    BY <1>1, <2>1 DEF Loaded, LoopBody, Tables
  <2>4. \A x \in Rows : <<r, x>> \in tab["all"] => \E i \in 1..n : x \in Batches(r)[i]
    <3>1. 1..batch[r] \subseteq 1..n
      BY <1>1
    <3> QED
      BY <2>1, <3>1 DEF Loaded
  <2>5. \A i : FactsIn(r, i)' <=> FactsIn(r, i)
    BY <1>1 DEF FactsIn
  <2> HIDE DEF n
  <2>6. Loaded(r)'
    BY <1>1, <1>2, <2>3, <2>4, <2>5 DEF Loaded, Ending
  <2>7. RecordsMatch(r)'
    BY <1>1, <2>1 DEF RecordsMatch
  <2> QED
    BY <1>1, <2>2, <2>6, <2>7 DEF Loading
<1> QED
  BY <1>1, <1>2, <1>3 DEF Exact

\* Within the loop body, as long as the batch stays at hand and other runs' rows stay away.
LEMMA BodyExact ==
  ASSUME ExactInv, NEW r \in Runs, pc[r] \in LoopBody, pc'[r] \in LoopBody \cup {"read"},
         UNCHANGED <<batch, job, alone>>,
         \A t \in Tables, q \in Runs, x \in Rows :
           /\ <<q, x>> \in tab[t] => <<q, x>> \in tab'[t]
           /\ <<q, x>> \in tab'[t] /\ <<q, x>> \notin tab[t] =>
                q = r /\ (t = "all" => x \in Current(r)),
         ~job[r].dry, alone[r],
         Loading(r)', RecordsMatch(r)',
         pc'[r] = "read" => FactsIn(r, batch[r])'
  PROVE  Exact(r)'
<1>1. pc[r] \in Active /\ Batches(r)' = Batches(r) /\ \A q \in Runs : TenantOf(q)' = TenantOf(q)
  BY DEF Active, InTry, LoopBody, Batches, TenantOf
<1>2. Swept(r) /\ Loaded(r)
  BY <1>1 DEF ExactInv, Exact
<1>3. Swept(r)'
  <2>1. \A t \in FactTables : pc[r] \notin Before(t)
    BY DEF Before, Clearing, LoopBody, Tables, FactTables
  <2> QED
    BY <1>1, <1>2, <2>1 DEF Swept, FactTables, Tables
<1>4. batch[r] \in 1..batch[r] /\ batch[r] \in 1..Len(Batches(r)) /\ Current(r) = Batches(r)[batch[r]]
  BY BatchesAreRowSets
     DEF ExactInv, RouteInv, AuditInv, TypeInv, TypeOK, BatchInRange, Current
<1>5. \A i \in 1..batch[r] : Batches(r)[i] \subseteq Rows
  BY RowsOfReadBatches DEF ExactInv, RouteInv, AuditInv
<1>6. ASSUME NEW i \in 1..batch[r], FactsIn(r, i) PROVE FactsIn(r, i)'
  BY <1>1, <1>5, <1>6 DEF FactsIn, Tables
<1>7. Loaded(r)'
  <2>1. \A i \in 1..batch[r] : FactsIn(r, i)' \/ (pc'[r] \in LoopBody /\ i = batch[r])
    BY <1>2, <1>6 DEF Loaded
  <2>2. \A x \in Rows : <<r, x>> \in tab'["all"] => \E i \in 1..batch[r] : x \in Batches(r)[i]
    BY <1>2, <1>4 DEF Loaded, Tables
  <2>3. pc'[r] \notin {"finish"} \cup Ending
    BY DEF LoopBody, Tables, Ending
  <2> QED
    BY <1>1, <2>1, <2>2, <2>3 DEF Loaded
<1> QED
  BY <1>1, <1>3, <1>7 DEF Exact

\* The mask and the reset change no table.
LEMMA EvaluateExact ==
  ASSUME ExactInv, NEW r \in Runs, alone[r], Evaluate(r) \/ ResetIssues(r)
  PROVE  Exact(r)'
<1>1. /\ tab' = tab /\ UNCHANGED <<batch, job, alone>> /\ ~job[r].dry
      /\ pc[r] \in {"map", "reset"} /\ pc'[r] \in {"reset", "issues", "clean"}
      /\ pc[r] = "map" => todo'[r] = flagged'[r] \/ (flagged'[r] = {} /\ todo'[r] = Current(r))
      /\ pc[r] = "reset" => pc'[r] = "issues"
      /\ Current(r)' = Current(r)
  BY ResetDeletesNothing
     DEF Evaluate, ResetIssues, Goto, Current, Batches, ExactInv, RouteInv, AuditInv, TypeInv, TypeOK,
         RunAudited, BatchHeld
<1>2. RecordsMatch(r)
  BY <1>1 DEF ExactInv, Exact, Active, InTry
<1>3. RecordsMatch(r)'
  BY <1>1, <1>2 DEF RecordsMatch
<1>4. pc'[r] = "clean" => flagged'[r] = {} /\ todo'[r] = Current(r)
  BY DEF Evaluate, ResetIssues, Goto, ExactInv, RouteInv, AuditInv, TypeInv, TypeOK
<1>5. Loading(r)'
  BY <1>1, <1>4 DEF Loading, EntriesIn
<1>6. pc[r] \in LoopBody /\ pc'[r] \in LoopBody
  BY <1>1 DEF LoopBody, Tables
<1> QED
  BY <1>1, <1>3, <1>5, <1>6, BodyExact

\* Looking ids up changes no table and leaves the run at its mapping step.
LEMMA LookUpExact ==
  ASSUME ExactInv, NEW r \in Runs, alone[r], LookUp(r)
  PROVE  Exact(r)'
<1>1. pc[r] = "map" /\ ~job[r].dry /\ UNCHANGED <<job, alone, pc, batch, tab>>
  BY DEF LookUp
<1>2. pc[r] \in LoopBody /\ pc[r] \in Active
  BY <1>1 DEF LoopBody, Active, InTry
<1>3. RecordsMatch(r)
  BY <1>1, <1>2 DEF ExactInv, Exact
<1>4. Loading(r)' /\ RecordsMatch(r)'
  BY <1>1, <1>3 DEF Loading, RecordsMatch
<1> QED
  BY <1>1, <1>2, <1>4, BodyExact

\* An INSERT brings the batch forward; after the last one into ALL it is loaded.
LEMMA InsertExact ==
  ASSUME ExactInv, NEW r \in Runs, alone[r], NEW t \in Tables, InsertRows(r, t)
  PROVE  Exact(r)'
<1> DEFINE chunk == Chunk(todo[r])
<1>1. /\ \A u \in Tables, q \in Runs, x \in Rows :
           <<q, x>> \in tab'[u] <=> <<q, x>> \in tab[u] \/ (u = t /\ q = r /\ x \in chunk)
      /\ chunk \subseteq todo[r] /\ todo[r] \subseteq Rows
      /\ pc[r] = t /\ UNCHANGED <<batch, job, alone>> /\ flagged' = flagged
      /\ Current(r)' = Current(r)
  <2>1. alone' = alone
    BY DEF InsertRows
  <2> QED
    BY <2>1, InsertEffect DEF ExactInv, RouteInv, AuditInv
<1>2. \/ pc'[r] = t /\ todo'[r] = todo[r] \ chunk
      \/ pc'[r] = After(t) /\ todo'[r] = Portion(r, After(t)) /\ todo[r] \subseteq chunk
  BY InsertEffect DEF ExactInv, RouteInv, AuditInv
<1> HIDE DEF chunk
<1>3. pc[r] \in LoopBody /\ pc[r] \in Active /\ pc'[r] \in LoopBody \cup {"read"}
  BY <1>1, <1>2 DEF LoopBody, Active, InTry, After, Tables
<1>4. BatchHeld(r) /\ ~job[r].dry
  BY <1>1 DEF ExactInv, RouteInv, AuditInv, RunAudited, BatchHeld
<1>5. Current(r) \subseteq Rows /\ flagged[r] \subseteq Rows
  BY <1>3, CurrentIsRowSet DEF ExactInv, RouteInv, AuditInv, TypeInv, TypeOK, RowSets
<1>6. Loading(r) /\ RecordsMatch(r)
  BY <1>3, <1>4 DEF ExactInv, Exact
<1>7. Loading(r)'
  <2>1. CASE t \in {"raw", "issues"}
    BY <1>1, <1>2, <1>5, <1>6, <2>1 DEF Loading, EntriesIn, After, Portion, Tables
  <2>2. CASE t = "clean"
    BY <1>1, <1>2, <1>5, <1>6, <2>2 DEF Loading, EntriesIn, After, Portion, Tables
  <2>3. CASE t = "issue"
    BY <1>1, <1>2, <1>5, <1>6, <2>3 DEF Loading, EntriesIn, After, Portion, Tables
  <2>4. CASE t = "all"
    BY <1>1, <1>2, <1>5, <1>6, <2>4 DEF Loading, EntriesIn, After, Portion, Tables
  <2> QED
    BY <2>1, <2>2, <2>3, <2>4 DEF Tables
<1>8. RecordsMatch(r)'
  <2>1. ASSUME NEW x \in Rows, <<r, x>> \in tab'["issues"], <<r, x>> \notin tab'["issue"]
        PROVE  pc'[r] \in {"issues", "clean", "issue"} /\ x \in flagged[r]
    <3>1. CASE t = "issues"
      BY <1>1, <1>2, <1>4, <1>6, <2>1, <3>1 DEF RecordsMatch, BatchHeld, After, Tables
    <3>2. CASE t # "issues"
      <4>1. <<r, x>> \in tab["issues"] /\ <<r, x>> \notin tab["issue"]
        BY <1>1, <2>1, <3>2 DEF Tables
      <4>2. t \in {"clean", "issue"} /\ x \in flagged[r]
        BY <1>1, <1>6, <3>2, <4>1 DEF RecordsMatch
      <4>3. t = "issue" => x \in todo[r] /\ x \notin chunk
        BY <1>1, <1>6, <2>1, <4>1, <4>2 DEF Loading, EntriesIn, Tables
      <4> QED
        BY <1>2, <4>2, <4>3 DEF After
    <3> QED
      BY <3>1, <3>2
  <2> QED
    BY <1>1, <2>1 DEF RecordsMatch
<1>9. ASSUME pc'[r] = "read" PROVE FactsIn(r, batch[r])'
  <2>1. t = "all" /\ todo[r] \subseteq chunk
    BY <1>1, <1>2, <1>9 DEF After, Tables
  <2>2. \A x \in Current(r) :
          <<r, x>> \in tab'["all"] /\ (<<r, x>> \in tab'["clean"] \/ <<r, x>> \in tab'["issue"])
    BY <1>1, <1>5, <1>6, <2>1 DEF Loading, EntriesIn, Tables
  <2> QED
    BY <1>1, <2>2 DEF FactsIn, Current, Batches
<1>10. ASSUME NEW u \in Tables, NEW q \in Runs, NEW x \in Rows
       PROVE  /\ <<q, x>> \in tab[u] => <<q, x>> \in tab'[u]
              /\ <<q, x>> \in tab'[u] /\ <<q, x>> \notin tab[u] =>
                   q = r /\ (u = "all" => x \in Current(r))
  BY <1>1, <1>4 DEF BatchHeld
<1> QED
  BY <1>1, <1>3, <1>4, <1>7, <1>8, <1>9, <1>10, BodyExact

\* Every step of a run keeps its own claim.
LEMMA OwnExact ==
  ASSUME ExactInv, NEW r \in Runs, Progress(r) \/ Fault(r), alone[r], OthersLeft(r)
  PROVE  Exact(r)'
<1>1. CASE Connect(r)
  <2>1. /\ pc[r] = "connect" /\ pc'[r] \in {"users", "clear_clean"}
        /\ UNCHANGED <<batch, job, alone, tab>>
        /\ job[r].dry \/ pc'[r] = "clear_clean"
    BY <1>1 DEF Connect, Goto, ExactInv, RouteInv, AuditInv, TypeInv, TypeOK
  <2>2. job[r].dry \/ Swept(r)'
    BY <2>1 DEF Swept, Before, Clearing, FactTables
  <2> QED
    BY <2>1, <2>2, SetupExact DEF Setup, Clearing
<1>2. CASE LoadUsers(r)
  <2>1. pc[r] = "users" /\ pc'[r] = "read" /\ UNCHANGED <<batch, job, alone, tab>>
    BY <1>2 DEF LoadUsers, Goto, ExactInv, RouteInv, AuditInv, TypeInv, TypeOK
  <2>2. job[r].dry \/ Swept(r)
    BY <2>1 DEF ExactInv, Exact, Active, Setup
  <2>3. job[r].dry \/ Swept(r)'
    BY <2>1, <2>2 DEF Swept, Before, Clearing, FactTables, TenantOf
  <2> QED
    BY <2>1, <2>3, SetupExact DEF Setup
<1>3. CASE EndOfFile(r) \/ ValidateOnly(r) \/ PostLoadChecks(r) \/ FlushReport(r)
  <2>1. /\ pc[r] \in {"read", "finish", "report", "map"} /\ pc'[r] \in {"finish", "report", "commit"}
        /\ UNCHANGED <<batch, job, alone, tab>>
        /\ job[r].dry \/ (pc[r] # "map" /\ (pc[r] = "read" => batch[r] = Len(Batches(r))))
    BY <1>3 DEF EndOfFile, ValidateOnly, PostLoadChecks, FlushReport, Goto, ExactInv, RouteInv,
       AuditInv, TypeInv, TypeOK
  <2> QED
    BY <2>1, WaitingExact
<1>4. CASE Fault(r) \/ BadHeaders(r) \/ Commit(r)
  <2>1. pc'[r] \in Ended
    BY <1>4 DEF Fault, BadHeaders, RunFails, RecordFailure, FailureUnrecorded, SetupFails, Crash,
       Commit, Goto, Ended, ExactInv, RouteInv, AuditInv, TypeInv, TypeOK
  <2> QED
    BY <2>1 DEF Exact, Ended, Active, Setup, Clearing, InTry, Ending, Tables
<1> QED
  BY <1>1, <1>2, <1>3, <1>4, ClearExact, ReadBatchExact, LookUpExact, EvaluateExact, InsertExact
     DEF Progress

\* Every step keeps it.
LEMMA StepExact == ExactInv /\ [Next]_vars => ExactInv'
<1> SUFFICES ASSUME ExactInv, [Next]_vars PROVE ExactInv'
  OBVIOUS
<1>0. RouteInv' /\ SettleInv'
  BY StepRouted, StepSettling DEF ExactInv
<1>1. CASE UNCHANGED vars
  BY <1>0, <1>1 DEF vars, ExactInv, Apart, Rivals, Unread, Exact, Swept, Loaded, FactsIn, Loading,
     EntriesIn, RecordsMatch, Current, Batches, TenantOf
<1>2. ASSUME NEW r \in Runs, Progress(r) \/ Fault(r) PROVE ExactInv'
  <2>1. OthersLeft(r)
    BY <1>2, StepLeavesOthers DEF ExactInv
  <2>2. Exact(r)'
    <3>1. CASE alone[r]
      BY <1>2, <2>1, <3>1, OwnExact
    <3>2. CASE ~alone[r]
      BY <2>1, <3>2 DEF OthersLeft, Exact
    <3> QED
      BY <3>1, <3>2
  <2> QED
    BY <1>0, <1>2, <2>1, <2>2, StepUnread, OthersExact
<1> QED
  BY <1>0, <1>1, <1>2, OpenExact DEF Next

\* At its commit the run has loaded every batch and nothing else is there.
LEMMA ExactAtCommit == ExactInv => UndisturbedReloadIsExact
<1> SUFFICES ASSUME ExactInv, NEW r \in Runs, pc[r] = "commit", ~job[r].dry, alone[r]
             PROVE  HoldsExactly(r)
  BY DEF UndisturbedReloadIsExact
<1>1. Swept(r) /\ Loaded(r) /\ RecordsMatch(r) /\ FromReadBatches(r)
  BY DEF ExactInv, Exact, Active, Ending, RouteInv, Routed
<1>2. /\ \A t \in Tables : tab[t] \subseteq Runs \X Rows
      /\ \A x \in Rows : <<r, x>> \in tab["issue"] => <<r, x>> \in tab["issues"]
  BY DEF ExactInv, RouteInv, AuditInv, TypeInv, TypeOK, FactsAudited
<1>3. Batches(r) \in Seq(RowSets) /\ batch[r] = Len(Batches(r)) /\ DOMAIN Batches(r) = 1..batch[r]
  <2>1. Batches(r) \in Seq(RowSets)
    BY BatchesAreRowSets DEF ExactInv, RouteInv, AuditInv, TypeInv
  <2>2. batch[r] = Len(Batches(r))
    BY <1>1 DEF Loaded, Ending
  <2> QED
    BY <2>1, <2>2
<1>4. \A i \in 1..batch[r] : Batches(r)[i] \subseteq Rows
  BY <1>3 DEF RowSets
<1>5. \A x : x \in FileRows(r) <=> \E i \in 1..batch[r] : x \in Batches(r)[i]
  BY <1>3 DEF FileRows
<1>6. ASSUME NEW t \in FactTables, NEW e \in TenantEntries(t, TenantOf(r))
      PROVE  e \in Runs \X Rows /\ e[1] = r /\ e \in tab[t] /\ e = <<r, e[2]>>
  <2>1. e \in tab[t] /\ e \in Runs \X Rows /\ TenantOf(e[1]) = TenantOf(r)
    BY <1>2 DEF TenantEntries, FactTables, Tables
  <2>2. PICK q \in Runs, x \in Rows : e = <<q, x>>
    BY <2>1
  <2>3. q = r
    BY <1>1, <2>1, <2>2 DEF Swept, Before, Clearing, FactTables
  <2> QED
    BY <2>1, <2>2, <2>3
<1>7. ASSUME NEW t \in FactTables, NEW x \in Rows
      PROVE  <<r, x>> \in tab[t] <=> <<r, x>> \in TenantEntries(t, TenantOf(r))
  BY DEF TenantEntries
<1>8. \A x \in Rows : /\ <<r, x>> \in tab["all"] <=> x \in FileRows(r)
                      /\ <<r, x>> \in tab["clean"] \/ <<r, x>> \in tab["issue"] <=> x \in FileRows(r)
  <2>1. \A i \in 1..batch[r] : FactsIn(r, i)
    BY <1>1 DEF Loaded, LoopBody, Tables
  <2>2. ASSUME NEW x \in Rows, x \in FileRows(r)
        PROVE  <<r, x>> \in tab["all"] /\ (<<r, x>> \in tab["clean"] \/ <<r, x>> \in tab["issue"])
    BY <1>5, <2>1, <2>2 DEF FactsIn
  <2>3. ASSUME NEW x \in Rows,
               <<r, x>> \in tab["all"] \/ <<r, x>> \in tab["clean"] \/ <<r, x>> \in tab["issue"]
        PROVE  x \in FileRows(r)
    BY <1>1, <1>5, <2>3 DEF Loaded, FromReadBatches, RoutedTables
  <2> QED
    BY <2>2, <2>3
<1>9. FileRows(r) \subseteq Rows
  BY <1>4, <1>5
<1>10. TenantEntries("all", TenantOf(r)) = Entries(r, FileRows(r))
  <2>1. ASSUME NEW e \in TenantEntries("all", TenantOf(r)) PROVE e \in Entries(r, FileRows(r))
    BY <1>6, <1>8 DEF FactTables, Entries
  <2>2. ASSUME NEW e \in Entries(r, FileRows(r)) PROVE e \in TenantEntries("all", TenantOf(r))
    BY <1>7, <1>8, <1>9 DEF FactTables, Entries
  <2> QED
    BY <2>1, <2>2
<1>11. TenantEntries("clean", TenantOf(r)) \cup TenantEntries("issue", TenantOf(r))
         = Entries(r, FileRows(r))
  <2>1. ASSUME NEW t \in {"clean", "issue"}, NEW e \in TenantEntries(t, TenantOf(r))
        PROVE  e \in Entries(r, FileRows(r))
    BY <1>6, <1>8 DEF FactTables, Entries
  <2>2. ASSUME NEW e \in Entries(r, FileRows(r))
        PROVE  e \in TenantEntries("clean", TenantOf(r)) \cup TenantEntries("issue", TenantOf(r))
    BY <1>7, <1>8, <1>9 DEF FactTables, Entries
  <2> QED
    BY <2>1, <2>2
<1>12. TenantEntries("issue", TenantOf(r)) = {e \in tab["issues"] : e[1] = r}
  <2>1. ASSUME NEW e \in TenantEntries("issue", TenantOf(r)) PROVE e \in tab["issues"] /\ e[1] = r
    BY <1>2, <1>6 DEF FactTables
  <2>2. ASSUME NEW e \in tab["issues"], e[1] = r PROVE e \in TenantEntries("issue", TenantOf(r))
    <3>1. PICK x \in Rows : e = <<r, x>>
      BY <1>2, <2>2 DEF Tables
    <3>2. <<r, x>> \in tab["issue"]
      BY <1>1, <3>1 DEF RecordsMatch
    <3> QED
      BY <1>7, <3>1, <3>2 DEF FactTables
  <2> QED
    BY <2>1, <2>2
<1> QED
  BY <1>10, <1>11, <1>12 DEF HoldsExactly

\* A load that no other load of its tenant overlaps leaves the rows of its file and
\* nothing else, whatever failed or crashed before it and whatever other tenants load
\* (service.py:804).
THEOREM ReloadsAreExact == Spec => []UndisturbedReloadIsExact
<1>1. Init => ExactInv
  <2> SUFFICES ASSUME Init PROVE ExactInv
    OBVIOUS
  <2>1. RouteInv /\ SettleInv
    BY StartRouted, StartSettled
  <2>2. ASSUME NEW r \in Runs PROVE pc[r] \notin Active /\ Unread(r)
    BY DEF Init, Unread, Active, Setup, Clearing, InTry, Ending, Tables
  <2> QED
    BY <2>1, <2>2 DEF ExactInv, Apart, Exact
<1>2. ExactInv /\ [Next]_vars => ExactInv'
  BY StepExact
<1>3. ExactInv => UndisturbedReloadIsExact
  BY ExactAtCommit
<1> QED
  BY <1>1, <1>2, <1>3, PTL DEF Spec
=============================================================================
