------------------------- MODULE MCTenderScheduler -------------------------
(* TenderScheduler for TLC, on two jobs and a cron expression with a typo. *)
EXTENDS TenderScheduler
=============================================================================
