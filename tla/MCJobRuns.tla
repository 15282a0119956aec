----------------------------- MODULE MCJobRuns -----------------------------
(***************************************************************************)
(* JobRuns for TLC: two calls of run_job for one job, a scheduled one that *)
(* refreshes both sources and one of run_job_now without a refresh, and a  *)
(* backfill of a period.                                                   *)
(***************************************************************************)
EXTENDS JobRuns

MCJobOf == [e \in JobExecutions |-> "job"]
MCPlan  == [e \in Executions |-> CASE e = "first"  -> <<"placsp", "ted">>
                                   [] e = "second" -> <<>>
                                   [] OTHER        -> <<"placsp">>]
=============================================================================
