------------------------------- MODULE RunLedger -------------------------------
(***************************************************************************)
(* What the etl_runs and quality_reports tables promise to a reader such as *)
(* GET /etl/runs or GET /quality/latest: a run is recorded as running, is   *)
(* settled at most once, and has a report exactly when it settled without   *)
(* failing.                                                                *)
(***************************************************************************)
CONSTANT Runs

VARIABLES status, report

FinalStatus == {"success", "warning", "dry_run"}

Init ==
  /\ status = [r \in Runs |-> "none"]
  /\ report = [r \in Runs |-> FALSE]

Record(r) ==
  /\ status[r] = "none"
  /\ status' = [status EXCEPT ![r] = "running"]
  /\ UNCHANGED report

Settle(r) ==
  /\ status[r] = "running"
  /\ \E s \in FinalStatus : status' = [status EXCEPT ![r] = s]
  /\ report' = [report EXCEPT ![r] = TRUE]

Fail(r) ==
  /\ status[r] = "running"
  /\ status' = [status EXCEPT ![r] = "failed"]
  /\ UNCHANGED report

Next == \E r \in Runs : Record(r) \/ Settle(r) \/ Fail(r)

Spec == Init /\ [][Next]_<<status, report>>
=============================================================================
