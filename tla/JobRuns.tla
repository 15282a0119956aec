------------------------------ MODULE JobRuns ------------------------------
(***************************************************************************)
(* Executions of DailyJobRunner.run_job and of                             *)
(* SourceIngestor.ingest_placsp_period, by any number of workers, against  *)
(* the tables job_runs, job_results and source_fetch_runs.  An execution   *)
(* awaits a source, the embedder or a database call in every action; each  *)
(* may raise, a commit may take effect and raise all the same, and the     *)
(* process may be lost between any two.                                    *)
(***************************************************************************)
EXTENDS Naturals, Sequences, FiniteSets

CONSTANTS
  Jobs,          \* saved daily jobs
  JobExecutions, \* calls of run_job
  Periods,       \* calls of ingest_placsp_period
  JobOf,         \* the job of a call of run_job
  Sources,       \* "placsp", "ted"
  Plan,          \* the sources an execution refreshes, in order
  Tenders,       \* dedupe keys of tenders
  MaxFaults,     \* bound: exceptions and lost processes in a behaviour
  None           \* no row, no job, no exception

Executions == JobExecutions \cup Periods
Exceptions == {"message", "empty"}

ASSUME JobAssumption    == JobOf \in [JobExecutions -> Jobs] /\ JobExecutions \cap Periods = {}
ASSUME PlanAssumption   == Plan \in [Executions -> Seq(Sources)]
ASSUME OnceAssumption   == \A e \in Executions : \A i, j \in DOMAIN Plan[e] : Plan[e][i] = Plan[e][j] => i = j
ASSUME PeriodAssumption == \A e \in Periods : Len(Plan[e]) = 1
ASSUME NoneAssumption   == None \notin JobExecutions \cup Exceptions
ASSUME FaultAssumption  == MaxFaults \in Nat
ASSUME FiniteAssumption == IsFiniteSet(Tenders)

VARIABLES
  jobRuns,   \* job_runs with its job_results, by execution
  fetchRuns, \* source_fetch_runs, by execution and source
  lastRun,   \* the run whose finished_at is daily_jobs.last_run_at
  tenders,   \* the keys of the tenders table
  began,     \* the calls of run_job in the order of their started_at
  pc,        \* the await each execution is at
  local,     \* its local variables
  faults,    \* number of faults so far
  cause      \* history: those of its awaits that raised that a property names

rowsOf == <<jobRuns, fetchRuns, lastRun, tenders>>
vars   == <<rowsOf, began, pc, local, faults, cause>>

\* stage is the position in Plan of the source being refreshed, got what it or the
\* search has returned, exc the exception being handled.
NoLocals  == [stage |-> 1, got |-> {}, exc |-> None]
got(e)    == local[e].got
exc(e)    == local[e].exc
source(e) == Plan[e][local[e].stage]

NoRun   == [status |-> "absent", rows |-> {}, count |-> 0, error |-> None]
NoFetch == [status |-> "absent", fetched |-> {}, upserted |-> {}, error |-> None]

Init ==
  /\ jobRuns = [e \in JobExecutions |-> NoRun]
  /\ fetchRuns = [e \in Executions |-> [s \in Sources |-> NoFetch]]
  /\ lastRun = [j \in Jobs |-> None] /\ tenders = {} /\ began = <<>>
  /\ pc = [e \in Executions |-> "idle"] /\ local = [e \in Executions |-> NoLocals]
  /\ faults = 0 /\ cause = [e \in Executions |-> {}]

----------------------------------------------------------------------------
Fetching == {"fetch", "persist", "embed", "fetched"}
Running  == {"refresh", "unfetched", "search", "report"}
Ended    == {"returned", "raised", "lost"}
Watched  == {"start", "refresh", "embed", "unfetched", "unreported"}

Goto(e, label, l) ==
  /\ pc' = [pc EXCEPT ![e] = label]
  /\ local' = [local EXCEPT ![e] = IF label \in Ended THEN NoLocals ELSE l]

\* Mutant: the exception of a source leaves the source without a handler.
Uncaught(e) == IF e \in JobExecutions /\ pc[e] \in Fetching \cup Running THEN "unreported" ELSE "raised"

\* Mutant: only the first source is required, the job goes on without the others.
FirstRequired(e) ==
  CASE pc[e] = "fetch" /\ local[e].stage > 1 /\ e \in JobExecutions -> "search"
    [] pc[e] \in Fetching                                      -> "unfetched"
    [] e \in JobExecutions /\ pc[e] \in Running                -> "unreported"
    [] OTHER                                                   -> "raised"

\* Mutant: a run whose failure cannot be recorded is tried again.
RunRetried(e) ==
  CASE pc[e] \in Fetching                       -> "unfetched"
    [] e \in JobExecutions /\ pc[e] \in Running -> "unreported"
    [] pc[e] = "unreported"                     -> "search"
    [] OTHER                                    -> "raised"

\* The except clause that catches an exception of the await e is at, or the caller.
Handler(e) ==
  CASE pc[e] \in Fetching                       -> "unfetched"
    [] e \in JobExecutions /\ pc[e] \in Running -> "unreported"
    [] OTHER                                    -> "raised"

Raise(e) ==
  /\ faults < MaxFaults /\ faults' = faults + 1
  /\ cause' = [cause EXCEPT ![e] = @ \cup ({pc[e]} \cap Watched)]
  /\ \E x \in Exceptions : Goto(e, Handler(e), [local[e] EXCEPT !.exc = x, !.got = {}])

Proceed(e, label, l) == Goto(e, label, l) /\ UNCHANGED <<faults, cause>>

\* The commit of a database call that has taken effect is acknowledged or lost.
Committed(e, label, l) == Proceed(e, label, l) \/ Raise(e)

\* An await of e raises before it has an effect.
AwaitRaises(e) ==
  /\ pc[e] \in Fetching \cup Running \cup {"start", "unreported"}
  /\ pc[e] = "embed" => got(e) # {}
  /\ Raise(e)
  /\ UNCHANGED <<rowsOf, began>>

\* The process is lost, or the task cancelled: no handler runs.
Lose(e) ==
  /\ pc[e] \notin {"idle"} \cup Ended /\ faults < MaxFaults /\ faults' = faults + 1
  /\ Goto(e, "lost", NoLocals)
  /\ UNCHANGED <<rowsOf, began, cause>>

----------------------------------------------------------------------------
CallJob(e) ==
  /\ pc[e] = "idle" /\ e \in JobExecutions
  /\ began' = Append(began, e)
  /\ Proceed(e, "start", NoLocals)
  /\ UNCHANGED rowsOf

\* The URL of the period is built first; one that has no URL leaves no row.
CallPeriod(e) ==
  /\ pc[e] = "idle" /\ e \in Periods
  /\ Proceed(e, "refresh", NoLocals) \/ Proceed(e, "raised", NoLocals)
  /\ UNCHANGED <<rowsOf, began>>

StartJobRun(e) ==
  /\ pc[e] = "start"
  /\ jobRuns' = [jobRuns EXCEPT ![e].status = "started"]
  /\ Committed(e, IF Plan[e] = <<>> THEN "search" ELSE "refresh", local[e])
  /\ UNCHANGED <<fetchRuns, lastRun, tenders, began>>

\* Mutant: one row per execution, drawn anew for each source.
ReusedRow(e) == [s \in Sources |-> [NoFetch EXCEPT !.status = "running"]]

\* Mutant: the status of the other audit table.
StartedRow(e) == [fetchRuns[e] EXCEPT ![source(e)].status = "started"]

FetchRow(e) == [fetchRuns[e] EXCEPT ![source(e)].status = "running"]

\* Mutant: a source is fetched although its audit row could not be written.
StartUnaudited(e) ==
  /\ pc[e] = "refresh"
  /\ fetchRuns' \in {fetchRuns, [fetchRuns EXCEPT ![e] = FetchRow(e)]}
  /\ Committed(e, "fetch", local[e])
  /\ UNCHANGED <<jobRuns, lastRun, tenders, began>>

StartFetchRun(e) ==
  /\ pc[e] = "refresh"
  /\ fetchRuns' = [fetchRuns EXCEPT ![e] = FetchRow(e)]
  /\ Committed(e, "fetch", local[e])
  /\ UNCHANGED <<jobRuns, lastRun, tenders, began>>

Fetch(e) ==
  /\ pc[e] = "fetch"
  /\ \E S \in SUBSET Tenders : Proceed(e, "persist", [local[e] EXCEPT !.got = S])
  /\ UNCHANGED <<rowsOf, began>>

\* Mutant: a failure of upsert_tenders is logged like a failure of embed().
PersistLenient(e) ==
  /\ pc[e] = "persist"
  /\ tenders' \in {tenders, tenders \cup got(e)}
  /\ Committed(e, "embed", local[e])
  /\ UNCHANGED <<jobRuns, fetchRuns, lastRun, began>>

\* upsert_tenders, all or nothing (BatchAtomic of TenderStore).
Persist(e) ==
  /\ pc[e] = "persist"
  /\ tenders' = tenders \cup got(e)
  /\ Committed(e, "embed", local[e])
  /\ UNCHANGED <<jobRuns, fetchRuns, lastRun, began>>

\* No embedder, no tender, an exception of embed(), which is logged, or embeddings
\* that are stored.
Embed(e) ==
  /\ pc[e] = "embed"
  /\ Proceed(e, "fetched", local[e])
  /\ UNCHANGED <<rowsOf, began>>

FinishFetchRun(e) ==
  /\ pc[e] = "fetched"
  /\ fetchRuns' = [fetchRuns EXCEPT ![e][source(e)] =
       [status |-> "succeeded", fetched |-> got(e), upserted |-> got(e), error |-> None]]
  /\ LET next == [local[e] EXCEPT !.stage = @ + 1, !.got = {}] IN
       IF local[e].stage < Len(Plan[e]) THEN Committed(e, "refresh", next)
       ELSE Committed(e, IF e \in JobExecutions THEN "search" ELSE "returned", [next EXCEPT !.stage = 1])
  /\ UNCHANGED <<jobRuns, lastRun, tenders, began>>

\* except Exception: the row is overwritten, whatever it says, and the exception
\* raised again.
FailFetchRun(e) ==
  /\ pc[e] = "unfetched"
  /\ fetchRuns' = [fetchRuns EXCEPT ![e][source(e)] =
       [NoFetch EXCEPT !.status = "failed", !.error = IF exc(e) = "empty" THEN None ELSE exc(e)]]
  /\ Committed(e, Handler(e), local[e])
  /\ UNCHANGED <<jobRuns, lastRun, tenders, began>>

\* search_tenders returns tenders of the table.
Search(e) ==
  /\ pc[e] = "search"
  /\ \E S \in SUBSET tenders : Proceed(e, "report", [local[e] EXCEPT !.got = S])
  /\ UNCHANGED <<rowsOf, began>>

\* Mutant: the results of an earlier call for the run are kept.
RowsKept(e, results) == jobRuns[e].rows \cup results

ResultRows(e, results) == results

\* finish_job_run: the status follows the truth value of the error string.
FinishJobRun(e, results, error) ==
  /\ jobRuns' = [jobRuns EXCEPT ![e] =
       [status |-> IF error = "message" THEN "failed" ELSE "succeeded",
        rows |-> ResultRows(e, results), count |-> Cardinality(results), error |-> error]]
  /\ lastRun' = [lastRun EXCEPT ![JobOf[e]] = e]
  /\ Committed(e, "returned", local[e])
  /\ UNCHANGED <<fetchRuns, tenders, began>>

Report(e)     == pc[e] = "report" /\ FinishJobRun(e, got(e), None)
FailReport(e) == pc[e] = "unreported" /\ FinishJobRun(e, {}, exc(e))

----------------------------------------------------------------------------
Step(e) ==
  \/ StartJobRun(e) \/ StartFetchRun(e) \/ Fetch(e) \/ Persist(e) \/ Embed(e) \/ FinishFetchRun(e)
  \/ FailFetchRun(e) \/ Search(e) \/ Report(e) \/ FailReport(e) \/ AwaitRaises(e)

Next == \E e \in Executions : CallJob(e) \/ CallPeriod(e) \/ Step(e) \/ Lose(e)

\* The event loop resumes an execution whose await is over, and every await ends:
\* the HTTP clients time out and give up, the database answers or disconnects.
Spec == Init /\ [][Next]_vars /\ \A e \in Executions : WF_vars(Step(e))

----------------------------------------------------------------------------
Outcomes == {"absent", "succeeded", "failed"}
Errors   == Exceptions \cup {None}

TypeOK ==
  /\ jobRuns \in [JobExecutions ->
       [status : Outcomes \cup {"started"}, rows : SUBSET Tenders, count : Nat, error : Errors]]
  /\ fetchRuns \in [Executions -> [Sources ->
       [status : Outcomes \cup {"running"}, fetched : SUBSET Tenders, upserted : SUBSET Tenders, error : Errors]]]
  /\ lastRun \in [Jobs -> JobExecutions \cup {None}] /\ tenders \subseteq Tenders
  /\ began \in Seq(JobExecutions)
  /\ pc \in [Executions -> {"idle", "start", "unreported"} \cup Fetching \cup Running \cup Ended]
  /\ local \in [Executions -> [stage : Nat \ {0}, got : SUBSET Tenders, exc : Errors]]
  /\ faults \in 0..MaxFaults /\ cause \in [Executions -> SUBSET Watched]

Refreshed(e) == \A i \in DOMAIN Plan[e] : fetchRuns[e][Plan[e][i]].status = "succeeded"

\* Results are stored only for a run all of whose sources were refreshed: a match
\* list never mixes in a source that failed during the run.
ResultsAreRefreshed == \A e \in JobExecutions : jobRuns[e].rows # {} => Refreshed(e)

\* job_results agrees with the summary in job_runs, also after a commit whose
\* acknowledgement was lost was followed by the failure report of the same run.
RowsMatchRun ==
  \A e \in JobExecutions :
    /\ jobRuns[e].rows # {} => jobRuns[e].status = "succeeded" /\ jobRuns[e].error = None
    /\ Cardinality(jobRuns[e].rows) = jobRuns[e].count

\* What an audit row counts as upserted is in the tenders table.
AuditIsTrue == \A e \in Executions, s \in Sources : fetchRuns[e][s].upserted \subseteq tenders

\* Whatever a source has been asked for, or has delivered, has its audit row
\* ("Every source refresh records a lightweight audit row", README).
RefreshIsAudited ==
  \A e \in Executions : pc[e] \in Fetching \cup {"unfetched"} => fetchRuns[e][source(e)].status # "absent"

LedgerStatus(s) == IF s = "started" THEN "running" ELSE s

jobStatus   == [e \in JobExecutions |-> LedgerStatus(jobRuns[e].status)]
fetchStatus == [r \in Executions \X Sources |-> fetchRuns[r[1]][r[2]].status]

JobLedger   == INSTANCE RunLedger WITH Runs <- JobExecutions, status <- jobStatus
FetchLedger == INSTANCE RunLedger WITH Runs <- Executions \X Sources, status <- fetchStatus

\* Both audit tables are ledgers: no retry, handler or second execution brings a
\* failed run back or restarts a recorded one.
JobLedgerSpec   == JobLedger!Spec
FetchLedgerSpec == FetchLedger!Spec

\* A row that is open gets its outcome, unless the process is lost or the very
\* call that opens or closes the row raises.
RunsEnd ==
  \A e \in Executions :
    /\ e \in JobExecutions =>
         (jobRuns[e].status = "started" ~> \/ jobRuns[e].status \in {"succeeded", "failed"}
                                           \/ pc[e] = "lost" \/ cause[e] \cap {"start", "unreported"} # {})
    /\ \A s \in Sources :
         (fetchRuns[e][s].status = "running" ~> \/ fetchRuns[e][s].status \in {"succeeded", "failed"}
                                                \/ pc[e] = "lost" \/ cause[e] \cap {"refresh", "unfetched"} # {})

\* An execution that raised or that a source failed is not recorded as a success.
FailureIsRecorded ==
  \A e \in JobExecutions :
    (\E s \in Sources : fetchRuns[e][s].status = "failed") => jobRuns[e].status # "succeeded"

\* The embedder and its table never cost a refresh its outcome.
EmbeddingNeverBreaksIngest ==
  \A e \in Executions, s \in Sources : fetchRuns[e][s].status = "failed" => "embed" \notin cause[e]

\* get_job_results: the rows of the run of the job that started last.
JobResults(j) ==
  LET mine == {i \in DOMAIN began : JobOf[began[i]] = j /\ jobRuns[began[i]].status # "absent"}
  IN  UNION {jobRuns[began[i]].rows : i \in {m \in mine : \A k \in mine : k <= m}}

\* The results a run of a job has persisted are what get_job_results returns until
\* another run of the job has ended ("Return latest persisted results for a job").
LatestResultsServed ==
  [][\A j \in Jobs : JobResults(j) # {} /\ JobResults(j)' = {} =>
       \E e \in JobExecutions : /\ JobOf[e] = j /\ jobRuns'[e] # jobRuns[e]
                               /\ jobRuns'[e].status \in {"succeeded", "failed"}]_vars
=============================================================================
