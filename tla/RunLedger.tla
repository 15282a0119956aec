----------------------------- MODULE RunLedger -----------------------------
(***************************************************************************)
(* What the audit tables job_runs and source_fetch_runs promise of a run:  *)
(* it is recorded as running before it has an outcome, a failure is final, *)
(* and a recorded success may still turn into a failure.                   *)
(***************************************************************************)
CONSTANT Runs

VARIABLE status

Init == status = [r \in Runs |-> "absent"]

Record(r, from, to) == status[r] = from /\ status' = [status EXCEPT ![r] = to]

Start(r)   == Record(r, "absent", "running")
Succeed(r) == Record(r, "running", "succeeded")
Fail(r)    == Record(r, "running", "failed") \/ Record(r, "succeeded", "failed")

Next == \E r \in Runs : Start(r) \/ Succeed(r) \/ Fail(r)

Spec == Init /\ [][Next]_status
=============================================================================
