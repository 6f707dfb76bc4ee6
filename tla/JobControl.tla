----------------------------- MODULE JobControl -----------------------------
(***************************************************************************)
(* What the table job_control_runs shows of a job's runs, whoever looks at *)
(* it: a row appears as STARTED (start_run), and finish_run may record it  *)
(* as SUCCEEDED and then, or instead, as FAILED.  A run that failed has    *)
(* failed for good.  The ingest and the aggregate job implement this; the  *)
(* monitor relies on it.                                                   *)
(***************************************************************************)
CONSTANT Runs    \* the run ids

VARIABLE status  \* job_control_runs.status, "none" before start_run

Status == {"none", "STARTED", "SUCCEEDED", "FAILED"}

Init == status = [r \in Runs |-> "none"]

Start(r) == /\ status[r] = "none"
            /\ status' = [status EXCEPT ![r] = "STARTED"]

Succeed(r) == /\ status[r] = "STARTED"
              /\ status' = [status EXCEPT ![r] = "SUCCEEDED"]

Fail(r) == /\ status[r] \in {"STARTED", "SUCCEEDED"}
           /\ status' = [status EXCEPT ![r] = "FAILED"]

Next == \E r \in Runs : Start(r) \/ Succeed(r) \/ Fail(r)

Spec == Init /\ [][Next]_status
=============================================================================
