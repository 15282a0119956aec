---------------------------- MODULE JobRunsProofs ----------------------------
(***************************************************************************)
(* For any jobs, executions, plans and faults: what job_runs, job_results  *)
(* and source_fetch_runs say agrees with what has happened, and both audit *)
(* tables implement RunLedger.                                             *)
(***************************************************************************)
EXTENDS JobRuns, FiniteSetTheorems, TLAPS

Labels == {"idle", "start", "unreported"} \cup Fetching \cup Running \cup Ended
Locals == [stage : Nat \ {0}, got : SUBSET Tenders, exc : Errors]
JobRow   == [status : Outcomes \cup {"started"}, rows : SUBSET Tenders,
             count : {Cardinality(S) : S \in SUBSET Tenders}, error : Errors]
FetchRun == [status : Outcomes \cup {"running"}, fetched : SUBSET Tenders, upserted : SUBSET Tenders, error : Errors]

RunTypeOK ==
  /\ jobRuns \in [JobExecutions -> JobRow]
  /\ fetchRuns \in [Executions -> [Sources -> FetchRun]]
  /\ tenders \subseteq Tenders
  /\ pc \in [Executions -> Labels] /\ local \in [Executions -> Locals]

statusAt(e, i) == fetchRuns[e][Plan[e][i]].status

\* Where an execution stands in its plan.
StageInv(e) ==
  /\ pc[e] \in {"idle", "start"} => local[e].stage = 1
  /\ pc[e] \in Fetching \cup {"refresh", "unfetched"} =>
       local[e].stage \in DOMAIN Plan[e] /\ \A i \in DOMAIN Plan[e] : i < local[e].stage => statusAt(e, i) = "succeeded"
  /\ pc[e] \in {"idle", "start", "refresh"} => \A i \in DOMAIN Plan[e] : i >= local[e].stage => statusAt(e, i) = "absent"
  /\ pc[e] \in Fetching => /\ statusAt(e, local[e].stage) = "running"
                           /\ \A i \in DOMAIN Plan[e] : i > local[e].stage => statusAt(e, i) = "absent"
  /\ pc[e] = "unfetched" => statusAt(e, local[e].stage) \in {"running", "succeeded"}

\* What an execution has stored, and what its audit rows say of it.
StoredInv(e) ==
  /\ pc[e] \in {"embed", "fetched"} => got(e) \subseteq tenders
  /\ \A s \in Sources : fetchRuns[e][s].upserted \subseteq tenders

\* What the row and the results of a run have come to; only run_job has any.
JobInv(e) ==
  /\ e \notin JobExecutions => pc[e] \notin {"start", "search", "report", "unreported"}
  /\ e \in JobExecutions =>
       /\ pc[e] \in {"idle", "start"} => jobRuns[e] = NoRun
       /\ pc[e] \in Fetching \cup Running => jobRuns[e].status = "started" /\ jobRuns[e].rows = {}
       /\ pc[e] = "unreported" => jobRuns[e].status \in {"started", "succeeded"}
       /\ pc[e] \in {"search", "report"} => Refreshed(e)
       /\ jobRuns[e].rows # {} => /\ Refreshed(e) /\ pc[e] \in {"unreported"} \cup Ended
                                  /\ jobRuns[e].status = "succeeded" /\ jobRuns[e].error = None
       /\ Cardinality(jobRuns[e].rows) = jobRuns[e].count

RunInv == RunTypeOK /\ \A e \in Executions : StageInv(e) /\ StoredInv(e) /\ JobInv(e)

(***************************************************************************)
(* The pieces the steps are made of.                                       *)
(***************************************************************************)
\* A plan is a sequence of sources, and every position of it has a source.
LEMMA PlanFacts ==
  ASSUME NEW e \in Executions
  PROVE  /\ DOMAIN Plan[e] = 1..Len(Plan[e]) /\ Len(Plan[e]) \in Nat
         /\ \A i \in DOMAIN Plan[e] : Plan[e][i] \in Sources
BY PlanAssumption

LEMMA NoRowsCounted == Cardinality({}) = 0
BY FS_EmptySet

\* A jump of an execution is the only change of its label and its local variables.
LEMMA GotoEffect ==
  ASSUME RunTypeOK, NEW e \in Executions, NEW label \in Labels, NEW l \in Locals, Goto(e, label, l)
  PROVE  /\ pc' \in [Executions -> Labels] /\ local' \in [Executions -> Locals]
         /\ pc'[e] = label /\ local'[e] = IF label \in Ended THEN NoLocals ELSE l
         /\ \A f \in Executions : f # e => pc'[f] = pc[f] /\ local'[f] = local[f]
<1>1. NoLocals \in Locals
  BY DEF NoLocals, Locals, Errors
<1> QED BY <1>1 DEF Goto, RunTypeOK

\* Where an exception takes an execution.
LEMMA RaiseEffect ==
  ASSUME RunTypeOK, NEW e \in Executions, Raise(e)
  PROVE  \E l \in Locals : Goto(e, Handler(e), l) /\ l.stage = local[e].stage /\ l.got = {}
<1>1. PICK x \in Exceptions : Goto(e, Handler(e), [local[e] EXCEPT !.exc = x, !.got = {}])
  BY DEF Raise
<1>2. local[e] \in Locals
  BY DEF RunTypeOK
<1>3. [local[e] EXCEPT !.exc = x, !.got = {}] \in Locals
  BY <1>2 DEF Locals, Errors
<1> QED BY <1>1, <1>2, <1>3 DEF Locals

LEMMA HandlerLabel ==
  ASSUME RunTypeOK, NEW e \in Executions
  PROVE  /\ Handler(e) \in Labels
         /\ pc[e] \in Fetching => Handler(e) = "unfetched"
         /\ pc[e] \notin Fetching => Handler(e) = IF e \in JobExecutions /\ pc[e] \in Running THEN "unreported" ELSE "raised"
BY DEF Handler, Labels, Ended, Fetching, Running

\* Where an execution goes after a commit.
LEMMA CommittedEffect ==
  ASSUME RunTypeOK, NEW e \in Executions, NEW label \in Labels, NEW l \in Locals, Committed(e, label, l)
  PROVE  \/ Goto(e, label, l)
         \/ \E m \in Locals : Goto(e, Handler(e), m) /\ m.stage = local[e].stage /\ m.got = {}
BY RaiseEffect DEF Committed, Proceed

\* An execution keeps its invariants while others move.
LEMMA OthersKeep ==
  ASSUME RunInv, NEW f \in Executions, pc'[f] = pc[f], local'[f] = local[f], fetchRuns'[f] = fetchRuns[f],
         f \in JobExecutions => jobRuns'[f] = jobRuns[f], tenders \subseteq tenders'
  PROVE  StageInv(f)' /\ StoredInv(f)' /\ JobInv(f)'
<1>1. StageInv(f)'
  <2>1. StageInv(f)
    BY DEF RunInv
  <2>2. \A i : statusAt(f, i)' = statusAt(f, i)
    BY DEF statusAt
  <2> QED BY <2>1, <2>2 DEF StageInv
<1>2. StoredInv(f)'
  BY DEF RunInv, StoredInv, got
<1>3. JobInv(f)'
  BY DEF RunInv, JobInv, Refreshed
<1> QED BY <1>1, <1>2, <1>3

\* A step of one execution keeps the invariant if it keeps that of the execution.
LEMMA OneMoves ==
  ASSUME RunInv, NEW e \in Executions, RunTypeOK', StageInv(e)', StoredInv(e)', JobInv(e)', tenders \subseteq tenders',
         \A f \in Executions : f # e => /\ pc'[f] = pc[f] /\ local'[f] = local[f] /\ fetchRuns'[f] = fetchRuns[f]
                                        /\ f \in JobExecutions => jobRuns'[f] = jobRuns[f]
  PROVE  RunInv'
<1>1. ASSUME NEW f \in Executions PROVE StageInv(f)' /\ StoredInv(f)' /\ JobInv(f)'
  <2>1. CASE f = e
    BY <2>1
  <2>2. CASE f # e
    BY <2>2, OthersKeep
  <2> QED BY <2>1, <2>2
<1> QED BY <1>1 DEF RunInv

\* A jump that leaves the tables as they are.
LEMMA QuietMove ==
  ASSUME RunInv, NEW e \in Executions, NEW label \in Labels, NEW l \in Locals, Goto(e, label, l), UNCHANGED rowsOf,
         StageInv(e)', StoredInv(e)', JobInv(e)'
  PROVE  RunInv'
<1>1. RunTypeOK
  BY DEF RunInv
<1>2. RunTypeOK'
  BY <1>1, GotoEffect DEF RunTypeOK, rowsOf
<1>3. \A f \in Executions : f # e => pc'[f] = pc[f] /\ local'[f] = local[f]
  BY <1>1, GotoEffect
<1> QED BY <1>2, <1>3, OneMoves DEF rowsOf

\* An exception of an await that has had no effect.
LEMMA RaiseKeeps ==
  ASSUME RunInv, NEW e \in Executions, pc[e] \notin {"idle"} \cup Ended, Raise(e), UNCHANGED rowsOf
  PROVE  RunInv'
<1>1. RunTypeOK /\ StageInv(e) /\ StoredInv(e) /\ JobInv(e)
  BY DEF RunInv
<1>2. PICK l \in Locals : Goto(e, Handler(e), l) /\ l.stage = local[e].stage
  BY <1>1, RaiseEffect
<1>3. pc'[e] = Handler(e) /\ (Handler(e) \notin Ended => local'[e].stage = local[e].stage)
  BY <1>1, <1>2, GotoEffect, HandlerLabel
<1>4. CASE pc[e] \in Fetching
  <2>1. pc'[e] = "unfetched" /\ local'[e].stage = local[e].stage
    BY <1>3, <1>4, HandlerLabel, <1>1 DEF Ended
  <2>2. StageInv(e)'
    BY <1>1, <1>4, <2>1 DEF StageInv, statusAt, rowsOf, Fetching
  <2>3. StoredInv(e)' /\ JobInv(e)'
    BY <1>1, <1>4, <2>1 DEF StoredInv, JobInv, Refreshed, rowsOf, Fetching, Running, Ended
  <2> QED BY <1>1, <1>2, <2>2, <2>3, HandlerLabel, QuietMove
<1>5. CASE pc[e] \notin Fetching
  <2>1. /\ pc'[e] \in {"unreported", "raised"}
        /\ pc'[e] = "unreported" => e \in JobExecutions /\ pc[e] \in Running
    BY <1>1, <1>3, <1>5, HandlerLabel
  <2>2. StageInv(e)' /\ StoredInv(e)'
    BY <1>1, <2>1 DEF StageInv, StoredInv, rowsOf, Fetching
  <2>3. e \in JobExecutions => (jobRuns[e].rows # {} => pc[e] = "unreported") /\ jobRuns'[e] = jobRuns[e]
    BY <1>1, <1>5 DEF JobInv, rowsOf
  <2>4. JobInv(e)'
    BY <1>1, <2>1, <2>3 DEF JobInv, Refreshed, rowsOf, Fetching, Running, Ended
  <2> QED BY <1>1, <1>2, <2>2, <2>4, HandlerLabel, QuietMove
<1> QED BY <1>4, <1>5

\* A process that is lost.
LEMMA LoseKeeps == ASSUME RunInv, NEW e \in Executions, Lose(e) PROVE RunInv'
<1>1. RunTypeOK /\ StageInv(e) /\ StoredInv(e) /\ JobInv(e)
  BY DEF RunInv
<1>2. NoLocals \in Locals /\ "lost" \in Labels /\ Goto(e, "lost", NoLocals) /\ UNCHANGED rowsOf
  BY DEF NoLocals, Locals, Errors, Labels, Ended, Lose
<1>3. pc'[e] = "lost"
  BY <1>1, <1>2, GotoEffect
<1>4. StageInv(e)' /\ StoredInv(e)' /\ JobInv(e)'
  BY <1>1, <1>2, <1>3 DEF StageInv, StoredInv, JobInv, Refreshed, rowsOf, Fetching, Running, Ended
<1> QED BY <1>2, <1>4, QuietMove

LEMMA CallKeeps == ASSUME RunInv, NEW e \in Executions, CallJob(e) \/ CallPeriod(e) PROVE RunInv'
<1>1. RunTypeOK /\ StageInv(e) /\ StoredInv(e) /\ JobInv(e) /\ pc[e] = "idle" /\ UNCHANGED rowsOf
  BY DEF RunInv, CallJob, CallPeriod
<1>2. PICK label \in {"start", "refresh", "raised"} :
        /\ Goto(e, label, NoLocals) /\ (label = "start" <=> e \in JobExecutions)
        /\ label # "start" => e \in Periods
  BY JobAssumption DEF CallJob, CallPeriod, Proceed
<1>3. label \in Labels /\ NoLocals \in Locals /\ NoLocals.stage = 1
  BY DEF NoLocals, Locals, Errors, Labels, Running, Ended
<1>4. pc'[e] = label /\ local'[e].stage = 1
  BY <1>1, <1>2, <1>3, GotoEffect DEF Ended
<1>5. label = "refresh" => DOMAIN Plan[e] = 1..1
  BY <1>2, PlanFacts, PeriodAssumption
<1>6. StageInv(e)'
  BY <1>1, <1>4, <1>5 DEF StageInv, statusAt, rowsOf, Fetching
<1>7. StoredInv(e)' /\ JobInv(e)'
  BY <1>1, <1>2, <1>4 DEF StoredInv, JobInv, Refreshed, NoRun, rowsOf, Fetching, Running, Ended
<1> QED BY <1>1, <1>2, <1>3, <1>6, <1>7, QuietMove

LEMMA AwaitKeeps == ASSUME RunInv, NEW e \in Executions, Fetch(e) \/ Embed(e) \/ Search(e) PROVE RunInv'
<1>1. RunTypeOK /\ StageInv(e) /\ StoredInv(e) /\ JobInv(e) /\ UNCHANGED rowsOf /\ local[e] \in Locals
  BY DEF RunInv, RunTypeOK, Fetch, Embed, Search
<1>2. PICK label \in {"persist", "fetched", "report"}, l \in Locals :
        /\ Goto(e, label, l) /\ l.stage = local[e].stage
        /\ label = "persist" => pc[e] = "fetch"
        /\ label = "fetched" => pc[e] = "embed" /\ l.got = local[e].got
        /\ label = "report"  => pc[e] = "search"
  <2>1. CASE Fetch(e)
    BY <1>1, <2>1 DEF Fetch, Proceed, Locals
  <2>2. CASE Embed(e)
    BY <1>1, <2>2 DEF Embed, Proceed
  <2>3. CASE Search(e)
    BY <1>1, <2>3 DEF Search, Proceed, Locals, RunTypeOK
  <2> QED BY <2>1, <2>2, <2>3
<1>3. label \in Labels /\ label \notin Ended
  BY <1>2 DEF Labels, Fetching, Running, Ended
<1>4. pc'[e] = label /\ local'[e] = l
  BY <1>1, <1>2, <1>3, GotoEffect
<1>5. StageInv(e)' /\ StoredInv(e)'
  BY <1>1, <1>2, <1>4 DEF StageInv, StoredInv, statusAt, got, rowsOf, Fetching
<1>6. JobInv(e)'
  BY <1>1, <1>2, <1>4 DEF JobInv, Refreshed, rowsOf, Fetching, Running, Ended
<1> QED BY <1>1, <1>2, <1>3, <1>5, <1>6, QuietMove

\* A write of the audit row of the source an execution is at.
LEMMA RowWritten ==
  ASSUME RunTypeOK, NEW e \in Executions, NEW r \in FetchRun, local[e].stage \in DOMAIN Plan[e],
         fetchRuns' = [fetchRuns EXCEPT ![e][source(e)] = r]
  PROVE  /\ fetchRuns' \in [Executions -> [Sources -> FetchRun]]
         /\ \A f \in Executions : f # e => fetchRuns'[f] = fetchRuns[f]
         /\ fetchRuns'[e][source(e)] = r /\ fetchRuns'[e][Plan[e][local[e].stage]] = r
         /\ \A s \in Sources : s # source(e) => fetchRuns'[e][s] = fetchRuns[e][s]
         /\ \A i \in DOMAIN Plan[e] : i # local[e].stage => fetchRuns'[e][Plan[e][i]] = fetchRuns[e][Plan[e][i]]
<1>1. source(e) = Plan[e][local[e].stage] /\ source(e) \in Sources
  BY PlanFacts DEF source
<1>2. \A i \in DOMAIN Plan[e] : i # local[e].stage => Plan[e][i] \in Sources /\ Plan[e][i] # source(e)
  BY <1>1, PlanFacts, OnceAssumption
<1> QED BY <1>1, <1>2 DEF RunTypeOK

LEMMA StartJobRunKeeps == ASSUME RunInv, NEW e \in Executions, StartJobRun(e) PROVE RunInv'
<1>1. RunTypeOK /\ StageInv(e) /\ StoredInv(e) /\ JobInv(e) /\ pc[e] = "start" /\ local[e] \in Locals
  BY DEF RunInv, RunTypeOK, StartJobRun
<1>2. e \in JobExecutions /\ UNCHANGED <<fetchRuns, tenders>> /\ jobRuns' = [jobRuns EXCEPT ![e].status = "started"]
  BY <1>1 DEF JobInv, StartJobRun
<1>3. jobRuns' \in [JobExecutions -> JobRow] /\ jobRuns'[e] = [NoRun EXCEPT !.status = "started"]
        /\ \A f \in JobExecutions : f # e => jobRuns'[f] = jobRuns[f]
  BY <1>1, <1>2 DEF JobInv, NoRun, RunTypeOK, JobRow
<1>4. PICK label \in {"search", "refresh", "raised"}, l \in Locals :
        /\ Goto(e, label, l) /\ l.stage = local[e].stage
        /\ label = "search" => Plan[e] = <<>>
        /\ label = "refresh" => Plan[e] # <<>>
  <2>1. Committed(e, IF Plan[e] = <<>> THEN "search" ELSE "refresh", local[e])
    BY DEF StartJobRun
  <2>2. (IF Plan[e] = <<>> THEN "search" ELSE "refresh") \in Labels /\ Handler(e) = "raised"
    BY <1>1, HandlerLabel DEF Labels, Fetching, Running
  <2> QED BY <1>1, <2>1, <2>2, CommittedEffect
<1>5. label \in Labels
  BY DEF Labels, Running, Ended
<1>6. /\ pc'[e] = label /\ (label # "raised" => local'[e].stage = 1)
      /\ pc' \in [Executions -> Labels] /\ local' \in [Executions -> Locals]
      /\ \A f \in Executions : f # e => pc'[f] = pc[f] /\ local'[f] = local[f]
  BY <1>1, <1>4, <1>5, GotoEffect DEF StageInv, Ended
<1>7. label = "refresh" => 1 \in DOMAIN Plan[e]
  BY <1>4, PlanAssumption
<1>8. label = "search" => DOMAIN Plan[e] = {}
  BY <1>4
<1>9. RunTypeOK'
  BY <1>1, <1>2, <1>3, <1>6 DEF RunTypeOK
<1>10. StageInv(e)' /\ StoredInv(e)'
  BY <1>1, <1>2, <1>6, <1>7, PlanFacts DEF StageInv, StoredInv, statusAt, Fetching
<1>11. JobInv(e)'
  <2>1. jobRuns'[e].status = "started" /\ jobRuns'[e].rows = {} /\ Cardinality(jobRuns'[e].rows) = jobRuns'[e].count
    BY <1>3, NoRowsCounted DEF NoRun
  <2>2. label = "search" => Refreshed(e)'
    BY <1>8 DEF Refreshed
  <2>3. label \in {"search", "refresh", "raised"}
    BY <1>4
  <2> QED BY <1>2, <1>6, <2>1, <2>2, <2>3 DEF JobInv, Fetching, Running, Ended
<1> QED BY <1>2, <1>3, <1>6, <1>9, <1>10, <1>11, OneMoves

LEMMA StartFetchRunKeeps == ASSUME RunInv, NEW e \in Executions, StartFetchRun(e) PROVE RunInv'
<1> DEFINE r == [fetchRuns[e][source(e)] EXCEPT !.status = "running"]
<1>1. RunTypeOK /\ StageInv(e) /\ StoredInv(e) /\ JobInv(e) /\ pc[e] = "refresh" /\ local[e] \in Locals
  BY DEF RunInv, RunTypeOK, StartFetchRun
<1>2. local[e].stage \in DOMAIN Plan[e] /\ source(e) = Plan[e][local[e].stage] /\ source(e) \in Sources
  BY <1>1, PlanFacts DEF StageInv, source
<1>3. r \in FetchRun /\ r.status = "running" /\ r.upserted = fetchRuns[e][source(e)].upserted
  <2>1. fetchRuns[e][source(e)] \in FetchRun
    BY <1>1, <1>2 DEF RunTypeOK
  <2> QED BY <2>1 DEF FetchRun
<1>4. fetchRuns' = [fetchRuns EXCEPT ![e][source(e)] = r] /\ UNCHANGED <<jobRuns, tenders>>
  BY <1>1, <1>2 DEF StartFetchRun, FetchRow, RunTypeOK
<1>5. PICK label \in {"fetch", "unreported", "raised"}, l \in Locals :
        /\ Goto(e, label, l) /\ l.stage = local[e].stage
        /\ label = "unreported" => e \in JobExecutions
  <2>1. "fetch" \in Labels /\ Handler(e) \in {"unreported", "raised"} /\ (Handler(e) = "unreported" => e \in JobExecutions)
    BY <1>1, HandlerLabel DEF Labels, Fetching, Running
  <2>2. Committed(e, "fetch", local[e])
    BY DEF StartFetchRun
  <2> QED BY <1>1, <2>1, <2>2, CommittedEffect
<1>6. label \in Labels
  BY DEF Labels, Fetching, Ended
<1>7. /\ pc'[e] = label /\ (label = "fetch" => local'[e].stage = local[e].stage)
      /\ pc' \in [Executions -> Labels] /\ local' \in [Executions -> Locals]
      /\ \A f \in Executions : f # e => pc'[f] = pc[f] /\ local'[f] = local[f]
  BY <1>1, <1>5, <1>6, GotoEffect DEF Ended
<1> HIDE DEF r
<1>8. /\ fetchRuns' \in [Executions -> [Sources -> FetchRun]]
      /\ \A f \in Executions : f # e => fetchRuns'[f] = fetchRuns[f]
      /\ fetchRuns'[e][source(e)] = r
      /\ \A s \in Sources : s # source(e) => fetchRuns'[e][s] = fetchRuns[e][s]
      /\ \A i \in DOMAIN Plan[e] : i # local[e].stage => fetchRuns'[e][Plan[e][i]] = fetchRuns[e][Plan[e][i]]
  <2>1. fetchRuns' = [fetchRuns EXCEPT ![e][source(e)] = r]
    BY <1>4
  <2>2. RunTypeOK /\ r \in FetchRun /\ local[e].stage \in DOMAIN Plan[e] /\ source(e) = Plan[e][local[e].stage]
         /\ source(e) \in Sources
    BY <1>1, <1>2, <1>3
  <2> QED BY <2>1, <2>2, RowWritten
<1>9. RunTypeOK'
  BY <1>1, <1>4, <1>7, <1>8 DEF RunTypeOK
<1>10. StageInv(e)'
  <2>1. CASE label = "fetch"
    <3>1. /\ pc'[e] = "fetch" /\ local'[e].stage \in DOMAIN Plan[e]
          /\ fetchRuns'[e][Plan[e][local'[e].stage]].status = "running"
      BY <1>2, <1>3, <1>7, <1>8, <2>1
    <3>2. \A i \in DOMAIN Plan[e] : i < local'[e].stage => fetchRuns'[e][Plan[e][i]].status = "succeeded"
      BY <1>1, <1>2, <1>7, <1>8, <2>1, PlanFacts DEF StageInv, statusAt
    <3>3. \A i \in DOMAIN Plan[e] : i > local'[e].stage => fetchRuns'[e][Plan[e][i]].status = "absent"
      BY <1>1, <1>2, <1>7, <1>8, <2>1, PlanFacts DEF StageInv, statusAt
    <3> QED BY <3>1, <3>2, <3>3 DEF StageInv, statusAt, Fetching
  <2>2. CASE label # "fetch"
    BY <1>7, <2>2 DEF StageInv, Fetching
  <2> QED BY <2>1, <2>2
<1>11. StoredInv(e)'
  BY <1>1, <1>2, <1>3, <1>4, <1>7, <1>8 DEF StoredInv
<1>12. JobInv(e)'
  BY <1>1, <1>4, <1>5, <1>7 DEF JobInv, Fetching, Running, Ended
<1> QED BY <1>4, <1>7, <1>8, <1>9, <1>10, <1>11, <1>12, OneMoves

LEMMA PersistKeeps == ASSUME RunInv, NEW e \in Executions, Persist(e) PROVE RunInv'
<1>1. RunTypeOK /\ StageInv(e) /\ StoredInv(e) /\ JobInv(e) /\ pc[e] = "persist" /\ local[e] \in Locals
  BY DEF RunInv, RunTypeOK, Persist
<1>2. UNCHANGED <<jobRuns, fetchRuns>> /\ tenders' = tenders \cup local[e].got /\ tenders' \subseteq Tenders
  BY <1>1 DEF Persist, got, RunTypeOK, Locals
<1>3. PICK label \in {"embed", "unfetched"}, l \in Locals :
        /\ Goto(e, label, l) /\ l.stage = local[e].stage /\ l.got \subseteq local[e].got
  <2>1. "embed" \in Labels /\ Handler(e) = "unfetched" /\ Committed(e, "embed", local[e])
    BY <1>1, HandlerLabel DEF Labels, Fetching, Persist
  <2> QED BY <1>1, <2>1, CommittedEffect
<1>4. label \in Labels /\ label \notin Ended
  BY DEF Labels, Fetching, Running, Ended
<1>5. /\ pc'[e] = label /\ local'[e] = l
      /\ pc' \in [Executions -> Labels] /\ local' \in [Executions -> Locals]
      /\ \A f \in Executions : f # e => pc'[f] = pc[f] /\ local'[f] = local[f]
  BY <1>1, <1>3, <1>4, GotoEffect
<1>6. RunTypeOK' /\ StageInv(e)' /\ StoredInv(e)'
  BY <1>1, <1>2, <1>3, <1>5 DEF RunTypeOK, StageInv, StoredInv, statusAt, got, Fetching
<1>7. JobInv(e)'
  BY <1>1, <1>2, <1>5 DEF JobInv, Refreshed, Fetching, Running, Ended
<1> QED BY <1>2, <1>5, <1>6, <1>7, OneMoves

LEMMA FinishFetchRunKeeps == ASSUME RunInv, NEW e \in Executions, FinishFetchRun(e) PROVE RunInv'
<1> DEFINE r == [status |-> "succeeded", fetched |-> got(e), upserted |-> got(e), error |-> None]
           n == local[e].stage
<1>1. RunTypeOK /\ StageInv(e) /\ StoredInv(e) /\ JobInv(e) /\ pc[e] = "fetched" /\ local[e] \in Locals
  BY DEF RunInv, RunTypeOK, FinishFetchRun
<1>2. n \in DOMAIN Plan[e] /\ source(e) = Plan[e][n] /\ source(e) \in Sources /\ n \in 1..Len(Plan[e]) /\ Len(Plan[e]) \in Nat
  BY <1>1, PlanFacts DEF StageInv, source, Fetching
<1>3. r \in FetchRun /\ r.status = "succeeded" /\ r.upserted \subseteq tenders
  BY <1>1 DEF FetchRun, Locals, Errors, StoredInv, got, Outcomes
<1>4. fetchRuns' = [fetchRuns EXCEPT ![e][source(e)] = r] /\ UNCHANGED <<jobRuns, tenders>>
  BY DEF FinishFetchRun
<1>5. PICK label \in {"refresh", "search", "returned", "unfetched"}, l \in Locals :
        /\ Goto(e, label, l)
        /\ label = "refresh"   => n < Len(Plan[e]) /\ l.stage = n + 1
        /\ label = "search"    => n = Len(Plan[e]) /\ e \in JobExecutions
        /\ label = "returned"  => e \notin JobExecutions
        /\ label = "unfetched" => l.stage = n
  <2> DEFINE next == [local[e] EXCEPT !.stage = n + 1, !.got = {}]
             end  == [next EXCEPT !.stage = 1]
  <2>1. next \in Locals /\ next.stage = n + 1 /\ end \in Locals
    <3>1. n + 1 \in Nat \ {0} /\ 1 \in Nat \ {0}
      BY <1>2
    <3> HIDE DEF n
    <3>2. next \in Locals /\ next.stage = n + 1
      BY <1>1, <3>1 DEF Locals
    <3> HIDE DEF next
    <3>3. end \in Locals
      BY <3>1, <3>2 DEF Locals
    <3> QED BY <3>2, <3>3
  <2>2. Handler(e) = "unfetched" /\ {"refresh", "search", "returned"} \subseteq Labels
    BY <1>1, HandlerLabel DEF Labels, Fetching, Running, Ended
  <2> HIDE DEF end
  <2>3. CASE n < Len(Plan[e])
    <3>1. Committed(e, "refresh", next)
      BY <2>3 DEF FinishFetchRun
    <3> HIDE DEF next
    <3> QED BY <1>1, <2>1, <2>2, <2>3, <3>1, CommittedEffect
  <2>4. CASE ~(n < Len(Plan[e]))
    <3>1. Committed(e, IF e \in JobExecutions THEN "search" ELSE "returned", end)
      BY <2>4 DEF FinishFetchRun, end
    <3>2. n = Len(Plan[e])
      BY <1>2, <2>4
    <3> HIDE DEF next
    <3> QED BY <1>1, <2>1, <2>2, <3>1, <3>2, CommittedEffect
  <2> QED BY <2>3, <2>4
<1>6. label \in Labels
  BY DEF Labels, Running, Ended
<1>7. /\ pc'[e] = label /\ (label # "returned" => local'[e] = l)
      /\ pc' \in [Executions -> Labels] /\ local' \in [Executions -> Locals]
      /\ \A f \in Executions : f # e => pc'[f] = pc[f] /\ local'[f] = local[f]
  BY <1>1, <1>5, <1>6, GotoEffect DEF Ended
<1> HIDE DEF r
<1>8. /\ fetchRuns' \in [Executions -> [Sources -> FetchRun]]
      /\ \A f \in Executions : f # e => fetchRuns'[f] = fetchRuns[f]
      /\ fetchRuns'[e][source(e)] = r /\ fetchRuns'[e][Plan[e][n]] = r
      /\ \A s \in Sources : s # source(e) => fetchRuns'[e][s] = fetchRuns[e][s]
      /\ \A i \in DOMAIN Plan[e] : i # n => fetchRuns'[e][Plan[e][i]] = fetchRuns[e][Plan[e][i]]
  <2>1. fetchRuns' = [fetchRuns EXCEPT ![e][source(e)] = r]
    BY <1>4
  <2>2. RunTypeOK /\ r \in FetchRun /\ local[e].stage \in DOMAIN Plan[e] /\ source(e) = Plan[e][local[e].stage]
         /\ source(e) \in Sources
    BY <1>1, <1>2, <1>3
  <2> QED BY <2>1, <2>2, RowWritten
<1>9. RunTypeOK'
  BY <1>1, <1>4, <1>7, <1>8 DEF RunTypeOK
<1>10. \A i \in DOMAIN Plan[e] : /\ i =< n => fetchRuns'[e][Plan[e][i]].status = "succeeded"
                                 /\ i > n  => fetchRuns'[e][Plan[e][i]].status = "absent"
  BY <1>1, <1>2, <1>3, <1>8, PlanFacts DEF StageInv, statusAt, Fetching
<1>11. StageInv(e)'
  <2>1. CASE label = "refresh"
    <3>1. pc'[e] = "refresh" /\ local'[e].stage = n + 1 /\ local'[e].stage \in DOMAIN Plan[e]
      BY <1>2, <1>5, <1>7, <2>1, PlanFacts
    <3>2. \A i \in DOMAIN Plan[e] : i < local'[e].stage => fetchRuns'[e][Plan[e][i]].status = "succeeded"
      BY <1>2, <1>10, <3>1, PlanFacts
    <3>3. \A i \in DOMAIN Plan[e] : i >= local'[e].stage => fetchRuns'[e][Plan[e][i]].status = "absent"
      BY <1>2, <1>10, <3>1, PlanFacts
    <3> QED BY <3>1, <3>2, <3>3 DEF StageInv, statusAt, Fetching
  <2>2. CASE label = "unfetched"
    <3>1. pc'[e] = "unfetched" /\ local'[e].stage = n /\ local'[e].stage \in DOMAIN Plan[e]
      BY <1>2, <1>5, <1>7, <2>2
    <3>2. \A i \in DOMAIN Plan[e] : i < local'[e].stage => fetchRuns'[e][Plan[e][i]].status = "succeeded"
      BY <1>2, <1>10, <3>1, PlanFacts
    <3>3. fetchRuns'[e][Plan[e][local'[e].stage]].status = "succeeded"
      BY <1>2, <1>3, <1>8, <3>1
    <3> QED BY <3>1, <3>2, <3>3 DEF StageInv, statusAt, Fetching
  <2>3. CASE label \in {"search", "returned"}
    BY <1>7, <2>3 DEF StageInv, Fetching
  <2> QED BY <2>1, <2>2, <2>3
<1>12. StoredInv(e)'
  BY <1>1, <1>2, <1>3, <1>4, <1>7, <1>8 DEF StoredInv
<1>13. label = "search" => Refreshed(e)'
  BY <1>2, <1>5, <1>10, PlanFacts DEF Refreshed
<1>14. JobInv(e)'
  BY <1>1, <1>4, <1>5, <1>7, <1>13 DEF JobInv, Fetching, Running, Ended
<1> QED BY <1>4, <1>7, <1>8, <1>9, <1>11, <1>12, <1>14, OneMoves

LEMMA FailFetchRunKeeps == ASSUME RunInv, NEW e \in Executions, FailFetchRun(e) PROVE RunInv'
<1> DEFINE r == [NoFetch EXCEPT !.status = "failed", !.error = IF exc(e) = "empty" THEN None ELSE exc(e)]
<1>1. RunTypeOK /\ StageInv(e) /\ StoredInv(e) /\ JobInv(e) /\ pc[e] = "unfetched" /\ local[e] \in Locals
  BY DEF RunInv, RunTypeOK, FailFetchRun
<1>2. local[e].stage \in DOMAIN Plan[e] /\ source(e) = Plan[e][local[e].stage] /\ source(e) \in Sources
  BY <1>1, PlanFacts DEF StageInv, source
<1>3. r \in FetchRun /\ r.upserted = {}
  BY <1>1 DEF FetchRun, NoFetch, Locals, Errors, exc, Outcomes
<1>4. fetchRuns' = [fetchRuns EXCEPT ![e][source(e)] = r] /\ UNCHANGED <<jobRuns, tenders>>
  BY DEF FailFetchRun
<1>5. PICK label \in {"unreported", "raised"}, l \in Locals :
        Goto(e, label, l) /\ (label = "unreported" => e \in JobExecutions)
  <2>1. Handler(e) \in {"unreported", "raised"} /\ (Handler(e) = "unreported" => e \in JobExecutions) /\ Handler(e) \in Labels
    BY <1>1, HandlerLabel DEF Fetching, Running
  <2>2. Committed(e, Handler(e), local[e])
    BY DEF FailFetchRun
  <2> QED BY <1>1, <2>1, <2>2, CommittedEffect
<1>6. label \in Labels
  BY DEF Labels, Ended
<1>7. /\ pc'[e] = label
      /\ pc' \in [Executions -> Labels] /\ local' \in [Executions -> Locals]
      /\ \A f \in Executions : f # e => pc'[f] = pc[f] /\ local'[f] = local[f]
  BY <1>1, <1>5, <1>6, GotoEffect
<1> HIDE DEF r
<1>8. /\ fetchRuns' \in [Executions -> [Sources -> FetchRun]]
      /\ \A f \in Executions : f # e => fetchRuns'[f] = fetchRuns[f]
      /\ fetchRuns'[e][source(e)] = r
      /\ \A s \in Sources : s # source(e) => fetchRuns'[e][s] = fetchRuns[e][s]
  <2>1. fetchRuns' = [fetchRuns EXCEPT ![e][source(e)] = r]
    BY <1>4
  <2>2. RunTypeOK /\ r \in FetchRun /\ local[e].stage \in DOMAIN Plan[e] /\ source(e) = Plan[e][local[e].stage]
         /\ source(e) \in Sources
    BY <1>1, <1>2, <1>3
  <2> QED BY <2>1, <2>2, RowWritten
<1>9. RunTypeOK'
  BY <1>1, <1>4, <1>7, <1>8 DEF RunTypeOK
<1>10. StageInv(e)' /\ StoredInv(e)'
  BY <1>1, <1>2, <1>3, <1>4, <1>7, <1>8 DEF StageInv, StoredInv, Fetching
<1>11. JobInv(e)'
  BY <1>1, <1>4, <1>5, <1>7 DEF JobInv, Fetching, Running, Ended
<1> QED BY <1>4, <1>7, <1>8, <1>9, <1>10, <1>11, OneMoves

LEMMA FinishJobRunKeeps == ASSUME RunInv, NEW e \in Executions, Report(e) \/ FailReport(e) PROVE RunInv'
<1>1. RunTypeOK /\ StageInv(e) /\ StoredInv(e) /\ JobInv(e) /\ pc[e] \in {"report", "unreported"} /\ local[e] \in Locals
  BY DEF RunInv, RunTypeOK, Report, FailReport
<1>2. e \in JobExecutions /\ UNCHANGED <<fetchRuns, tenders>>
  BY <1>1 DEF JobInv, Report, FailReport, FinishJobRun
<1>3. PICK results \in SUBSET Tenders, error \in Errors :
        /\ FinishJobRun(e, results, error)
        /\ pc[e] = "report" => error = None
        /\ pc[e] = "unreported" => results = {}
  BY <1>1 DEF Report, FailReport, got, exc, Locals, Errors
<1> DEFINE row == [status |-> IF error = "message" THEN "failed" ELSE "succeeded",
                   rows |-> results, count |-> Cardinality(results), error |-> error]
<1>4. jobRuns' = [jobRuns EXCEPT ![e] = row]
  BY <1>3 DEF FinishJobRun, ResultRows
<1>5. row \in JobRow
  BY DEF JobRow, Outcomes
<1>6. /\ row.rows = results /\ row.count = Cardinality(results)
      /\ pc[e] = "report" => row.status = "succeeded" /\ row.error = None
  BY <1>3, NoneAssumption DEF Exceptions
<1> HIDE DEF row
<1>7. jobRuns' \in [JobExecutions -> JobRow] /\ jobRuns'[e] = row /\ \A f \in JobExecutions : f # e => jobRuns'[f] = jobRuns[f]
  BY <1>1, <1>2, <1>4, <1>5 DEF RunTypeOK
<1>8. PICK label \in {"returned", "unreported", "raised"}, l \in Locals :
        Goto(e, label, l) /\ (label = "unreported" => pc[e] = "report")
  <2>1. Committed(e, "returned", local[e]) /\ "returned" \in Labels
    BY <1>3 DEF FinishJobRun, Labels, Ended
  <2>2. Handler(e) = IF pc[e] = "report" THEN "unreported" ELSE "raised"
    BY <1>1, <1>2, HandlerLabel DEF Fetching, Running
  <2> QED BY <1>1, <2>1, <2>2, CommittedEffect
<1>9. label \in Labels
  BY DEF Labels, Ended
<1>10. /\ pc'[e] = label
       /\ pc' \in [Executions -> Labels] /\ local' \in [Executions -> Locals]
       /\ \A f \in Executions : f # e => pc'[f] = pc[f] /\ local'[f] = local[f]
  BY <1>1, <1>8, <1>9, GotoEffect
<1>11. RunTypeOK'
  BY <1>1, <1>2, <1>7, <1>10 DEF RunTypeOK
<1>12. StageInv(e)' /\ StoredInv(e)'
  BY <1>1, <1>2, <1>10 DEF StageInv, StoredInv, Fetching
<1>13. pc[e] = "report" => Refreshed(e)'
  BY <1>1, <1>2 DEF JobInv, Refreshed
<1>14. JobInv(e)'
  BY <1>1, <1>2, <1>3, <1>6, <1>7, <1>8, <1>10, <1>13 DEF JobInv, Fetching, Running, Ended
<1> QED BY <1>2, <1>7, <1>10, <1>11, <1>12, <1>14, OneMoves

(***************************************************************************)
(* The invariant.                                                          *)
(***************************************************************************)
LEMMA RunInit == Init => RunInv
<1> SUFFICES ASSUME Init PROVE RunInv
  OBVIOUS
<1>1. NoRun \in JobRow /\ NoFetch \in FetchRun /\ NoLocals \in Locals /\ NoLocals.stage = 1
  BY NoRowsCounted DEF NoRun, NoFetch, NoLocals, JobRow, FetchRun, Locals, Errors, Outcomes
<1>2. RunTypeOK
  BY <1>1 DEF Init, RunTypeOK, Labels
<1>3. ASSUME NEW e \in Executions PROVE StageInv(e) /\ StoredInv(e) /\ JobInv(e)
  <2>1. pc[e] = "idle" /\ local[e].stage = 1 /\ \A s \in Sources : fetchRuns[e][s] = NoFetch
    BY <1>1 DEF Init
  <2>2. e \in JobExecutions => jobRuns[e] = NoRun
    BY DEF Init
  <2>3. StageInv(e) /\ StoredInv(e)
    BY <2>1, PlanFacts DEF StageInv, StoredInv, statusAt, NoFetch, Fetching
  <2>4. JobInv(e)
    BY <2>1, <2>2, NoRowsCounted DEF JobInv, NoRun, Fetching, Running, Ended
  <2> QED BY <2>3, <2>4
<1> QED BY <1>2, <1>3 DEF RunInv

LEMMA RunStep == RunInv /\ [Next]_vars => RunInv'
<1> SUFFICES ASSUME RunInv, [Next]_vars PROVE RunInv'
  OBVIOUS
<1>1. CASE UNCHANGED vars
  <2>1. UNCHANGED <<jobRuns, fetchRuns, tenders, pc, local>> /\ UNCHANGED vars
    BY <1>1 DEF vars, rowsOf
  <2>2. RunTypeOK'
    BY <1>1 DEF vars, rowsOf, RunInv, RunTypeOK
  <2>3. ASSUME NEW e \in Executions PROVE StageInv(e)' /\ StoredInv(e)' /\ JobInv(e)'
    <3>1. StageInv(e)'
      BY <2>1 DEF RunInv, StageInv, statusAt
    <3>2. StoredInv(e)'
      BY <2>1 DEF RunInv, StoredInv, statusAt, got
    <3>3. JobInv(e)'
      BY <2>1 DEF RunInv, JobInv, Refreshed
    <3> QED BY <3>1, <3>2, <3>3
  <2> QED BY <2>2, <2>3 DEF RunInv
<1>2. ASSUME NEW e \in Executions, CallJob(e) \/ CallPeriod(e) \/ Step(e) \/ Lose(e) PROVE RunInv'
  <2>1. CASE CallJob(e) \/ CallPeriod(e)
    BY <2>1, CallKeeps
  <2>2. CASE Lose(e)
    BY <2>2, LoseKeeps
  <2>3. CASE StartJobRun(e)
    BY <2>3, StartJobRunKeeps
  <2>4. CASE StartFetchRun(e)
    BY <2>4, StartFetchRunKeeps
  <2>5. CASE Fetch(e) \/ Embed(e) \/ Search(e)
    BY <2>5, AwaitKeeps
  <2>6. CASE Persist(e)
    BY <2>6, PersistKeeps
  <2>7. CASE FinishFetchRun(e)
    BY <2>7, FinishFetchRunKeeps
  <2>8. CASE FailFetchRun(e)
    BY <2>8, FailFetchRunKeeps
  <2>9. CASE Report(e) \/ FailReport(e)
    BY <2>9, FinishJobRunKeeps
  <2>10. CASE AwaitRaises(e)
    BY <2>10, RaiseKeeps DEF AwaitRaises, Fetching, Running, Ended
  <2> QED BY <1>2, <2>1, <2>2, <2>3, <2>4, <2>5, <2>6, <2>7, <2>8, <2>9, <2>10 DEF Step
<1> QED BY <1>1, <1>2 DEF Next

LEMMA RunInvariant == Spec => []RunInv
<1> QED BY RunInit, RunStep, PTL DEF Spec

(***************************************************************************)
(* What the invariant says of the tables.                                  *)
(***************************************************************************)
\* What an audit row counts as upserted is in the tenders table.
THEOREM AuditRowsAreTrue == Spec => []AuditIsTrue
<1>1. RunInv => AuditIsTrue
  BY DEF RunInv, StoredInv, AuditIsTrue
<1> QED BY <1>1, RunInvariant, PTL

\* Whatever a source has been asked for, or has delivered, has its audit row.
THEOREM RefreshesAreAudited == Spec => []RefreshIsAudited
<1>1. RunInv => RefreshIsAudited
  BY DEF RunInv, StageInv, RefreshIsAudited, statusAt, source
<1> QED BY <1>1, RunInvariant, PTL

\* The results of a run agree with its row in job_runs.
THEOREM RowsAgree == Spec => []RowsMatchRun
<1>1. RunInv => RowsMatchRun
  BY DEF RunInv, JobInv, RowsMatchRun, Executions
<1> QED BY <1>1, RunInvariant, PTL

\* Results are stored only for a run all of whose sources were refreshed.
THEOREM ResultsAreOfRefreshed == Spec => []ResultsAreRefreshed
<1>1. RunInv => ResultsAreRefreshed
  BY DEF RunInv, JobInv, ResultsAreRefreshed, Executions
<1> QED BY <1>1, RunInvariant, PTL

(***************************************************************************)
(* Both audit tables implement RunLedger.                                  *)
(***************************************************************************)
LEMMA FetchStatusMoves ==
  ASSUME RunInv, NEW e \in Executions, NEW r \in FetchRun, local[e].stage \in DOMAIN Plan[e],
         fetchRuns' = [fetchRuns EXCEPT ![e][source(e)] = r]
  PROVE  /\ <<e, source(e)>> \in Executions \X Sources
         /\ fetchStatus[<<e, source(e)>>] = statusAt(e, local[e].stage)
         /\ fetchStatus' = [fetchStatus EXCEPT ![<<e, source(e)>>] = r.status]
<1>1. RunTypeOK /\ source(e) \in Sources /\ source(e) = Plan[e][local[e].stage]
  BY PlanFacts DEF RunInv, source
<1>2. \A x \in Executions \X Sources :
        fetchRuns'[x[1]][x[2]].status = IF x = <<e, source(e)>> THEN r.status ELSE fetchRuns[x[1]][x[2]].status
  BY <1>1 DEF RunTypeOK
<1> QED BY <1>1, <1>2 DEF fetchStatus, statusAt

LEMMA FetchLedgerStep == RunInv /\ [Next]_vars => [FetchLedger!Next]_fetchStatus
<1> SUFFICES ASSUME RunInv, [Next]_vars PROVE FetchLedger!Next \/ UNCHANGED fetchStatus
  OBVIOUS
<1>1. CASE UNCHANGED fetchRuns
  BY <1>1 DEF fetchStatus
<1>2. ASSUME NEW e \in Executions, NEW r \in FetchRun, local[e].stage \in DOMAIN Plan[e],
             fetchRuns' = [fetchRuns EXCEPT ![e][source(e)] = r],
             \/ statusAt(e, local[e].stage) = "absent" /\ r.status = "running"
             \/ statusAt(e, local[e].stage) = "running" /\ r.status = "succeeded"
             \/ statusAt(e, local[e].stage) \in {"running", "succeeded"} /\ r.status = "failed"
      PROVE  FetchLedger!Next
  <2> DEFINE x == <<e, source(e)>>
  <2>1. x \in Executions \X Sources /\ fetchStatus[x] = statusAt(e, local[e].stage)
        /\ fetchStatus' = [fetchStatus EXCEPT ![x] = r.status]
    BY <1>2, FetchStatusMoves
  <2> HIDE DEF x
  <2>2. FetchLedger!Start(x) \/ FetchLedger!Succeed(x) \/ FetchLedger!Fail(x)
    BY <1>2, <2>1 DEF FetchLedger!Start, FetchLedger!Succeed, FetchLedger!Fail, FetchLedger!Record
  <2> QED BY <2>1, <2>2 DEF FetchLedger!Next
<1>3. ASSUME NEW e \in Executions PROVE RunTypeOK /\ StageInv(e) /\ local[e] \in Locals
  BY DEF RunInv, RunTypeOK
<1>4. ASSUME NEW e \in Executions, StartFetchRun(e) PROVE FetchLedger!Next
  <2> DEFINE r == [fetchRuns[e][source(e)] EXCEPT !.status = "running"]
  <2>1. local[e].stage \in DOMAIN Plan[e] /\ source(e) \in Sources /\ statusAt(e, local[e].stage) = "absent"
    BY <1>3, <1>4, PlanFacts DEF StartFetchRun, StageInv, source
  <2>2. fetchRuns[e][source(e)] \in FetchRun /\ fetchRuns' = [fetchRuns EXCEPT ![e][source(e)] = r]
    BY <1>3, <1>4, <2>1 DEF StartFetchRun, FetchRow, RunTypeOK
  <2>3. r \in FetchRun /\ r.status = "running"
    BY <2>2 DEF FetchRun
  <2> HIDE DEF r
  <2> QED BY <1>2, <2>1, <2>2, <2>3
<1>5. ASSUME NEW e \in Executions, FinishFetchRun(e) PROVE FetchLedger!Next
  <2> DEFINE r == [status |-> "succeeded", fetched |-> got(e), upserted |-> got(e), error |-> None]
  <2>1. local[e].stage \in DOMAIN Plan[e] /\ statusAt(e, local[e].stage) = "running"
    BY <1>3, <1>5 DEF FinishFetchRun, StageInv, Fetching
  <2>2. r \in FetchRun /\ r.status = "succeeded" /\ fetchRuns' = [fetchRuns EXCEPT ![e][source(e)] = r]
    BY <1>3, <1>5 DEF FinishFetchRun, FetchRun, Locals, Errors, got, Outcomes
  <2> HIDE DEF r
  <2> QED BY <1>2, <2>1, <2>2
<1>6. ASSUME NEW e \in Executions, FailFetchRun(e) PROVE FetchLedger!Next
  <2> DEFINE r == [NoFetch EXCEPT !.status = "failed", !.error = IF exc(e) = "empty" THEN None ELSE exc(e)]
  <2>1. local[e].stage \in DOMAIN Plan[e] /\ statusAt(e, local[e].stage) \in {"running", "succeeded"}
    BY <1>3, <1>6 DEF FailFetchRun, StageInv
  <2>2. r \in FetchRun /\ r.status = "failed" /\ fetchRuns' = [fetchRuns EXCEPT ![e][source(e)] = r]
    BY <1>3, <1>6 DEF FailFetchRun, FetchRun, NoFetch, Locals, Errors, exc, Outcomes
  <2> HIDE DEF r
  <2> QED BY <1>2, <2>1, <2>2
<1>7. CASE \A e \in Executions : ~StartFetchRun(e) /\ ~FinishFetchRun(e) /\ ~FailFetchRun(e)
  <2>1. UNCHANGED fetchRuns
    BY <1>7 DEF Next, Step, CallJob, CallPeriod, Lose, StartJobRun, Fetch, Persist, Embed, Search, Report, FailReport,
                FinishJobRun, AwaitRaises, vars, rowsOf
  <2> QED BY <1>1, <2>1
<1> QED BY <1>4, <1>5, <1>6, <1>7

\* source_fetch_runs: no retry, handler or other execution brings a failed refresh
\* back or restarts a recorded one.
THEOREM FetchRunsAreALedger == Spec => FetchLedgerSpec
<1>1. Init => FetchLedger!Init
  BY DEF Init, FetchLedger!Init, fetchStatus, NoFetch
<1> QED BY <1>1, FetchLedgerStep, RunInvariant, PTL DEF Spec, FetchLedgerSpec, FetchLedger!Spec

LEMMA JobLedgerStep == RunInv /\ [Next]_vars => [JobLedger!Next]_jobStatus
<1> SUFFICES ASSUME RunInv, [Next]_vars PROVE JobLedger!Next \/ UNCHANGED jobStatus
  OBVIOUS
<1>1. CASE UNCHANGED jobRuns
  BY <1>1 DEF jobStatus
<1>2. ASSUME NEW e \in JobExecutions, NEW row \in JobRow, jobRuns' = [jobRuns EXCEPT ![e] = row],
             \/ jobRuns[e].status = "absent" /\ row.status = "started"
             \/ jobRuns[e].status \in {"started", "succeeded"} /\ row.status \in {"succeeded", "failed"}
      PROVE  JobLedger!Next \/ UNCHANGED jobStatus
  <2>1. jobRuns \in [JobExecutions -> JobRow]
    BY DEF RunInv, RunTypeOK
  <2>2. jobStatus[e] = LedgerStatus(jobRuns[e].status) /\ jobStatus' = [jobStatus EXCEPT ![e] = LedgerStatus(row.status)]
    BY <1>2, <2>1 DEF jobStatus
  <2>3. CASE jobRuns[e].status = row.status
    BY <2>2, <2>3 DEF jobStatus
  <2>4. CASE jobRuns[e].status # row.status
    <3>1. \/ jobRuns[e].status = "absent" /\ row.status = "started"
          \/ jobRuns[e].status = "started" /\ row.status = "succeeded"
          \/ jobRuns[e].status \in {"started", "succeeded"} /\ row.status = "failed"
      BY <1>2, <2>4
    <3>2. \/ jobStatus[e] = "absent" /\ LedgerStatus(row.status) = "running"
          \/ jobStatus[e] = "running" /\ LedgerStatus(row.status) = "succeeded"
          \/ jobStatus[e] \in {"running", "succeeded"} /\ LedgerStatus(row.status) = "failed"
      BY <2>2, <3>1 DEF LedgerStatus
    <3>3. JobLedger!Start(e) \/ JobLedger!Succeed(e) \/ JobLedger!Fail(e)
      BY <2>2, <3>2 DEF JobLedger!Start, JobLedger!Succeed, JobLedger!Fail, JobLedger!Record
    <3> QED BY <3>3 DEF JobLedger!Next
  <2> QED BY <2>3, <2>4
<1>3. ASSUME NEW e \in Executions PROVE RunTypeOK /\ JobInv(e) /\ local[e] \in Locals
  BY DEF RunInv, RunTypeOK
<1>4. ASSUME NEW e \in Executions, StartJobRun(e) PROVE JobLedger!Next \/ UNCHANGED jobStatus
  <2> DEFINE row == [NoRun EXCEPT !.status = "started"]
  <2>1. e \in JobExecutions /\ jobRuns[e] = NoRun /\ jobRuns[e] \in JobRow
    BY <1>3, <1>4 DEF JobInv, StartJobRun, RunTypeOK
  <2>2. row \in JobRow /\ row.status = "started" /\ NoRun.status = "absent"
    BY <2>1 DEF JobRow, NoRun
  <2>3. jobRuns' = [jobRuns EXCEPT ![e] = row]
    BY <1>3, <1>4, <2>1 DEF StartJobRun, RunTypeOK
  <2> HIDE DEF row
  <2> QED BY <1>2, <2>1, <2>2, <2>3
<1>5. ASSUME NEW e \in Executions, Report(e) \/ FailReport(e) PROVE JobLedger!Next \/ UNCHANGED jobStatus
  <2>1. e \in JobExecutions /\ jobRuns[e].status \in {"started", "succeeded"}
    <3>1. pc[e] \in {"report", "unreported"}
      BY <1>5 DEF Report, FailReport
    <3> QED BY <1>3, <3>1 DEF JobInv, Running
  <2>2. PICK results \in SUBSET Tenders, error \in Errors : FinishJobRun(e, results, error)
    BY <1>3, <1>5 DEF Report, FailReport, got, exc, Locals, Errors
  <2> DEFINE row == [status |-> IF error = "message" THEN "failed" ELSE "succeeded",
                     rows |-> results, count |-> Cardinality(results), error |-> error]
  <2>3. row \in JobRow /\ row.status \in {"succeeded", "failed"}
    BY DEF JobRow, Outcomes
  <2>4. jobRuns' = [jobRuns EXCEPT ![e] = row]
    BY <2>2 DEF FinishJobRun, ResultRows
  <2> HIDE DEF row
  <2> QED BY <1>2, <2>1, <2>3, <2>4
<1>6. CASE \A e \in Executions : ~StartJobRun(e) /\ ~Report(e) /\ ~FailReport(e)
  <2>1. UNCHANGED jobRuns
    BY <1>6 DEF Next, Step, CallJob, CallPeriod, Lose, StartFetchRun, Fetch, Persist, Embed, FinishFetchRun, FailFetchRun,
                Search, AwaitRaises, vars, rowsOf
  <2> QED BY <1>1, <2>1
<1> QED BY <1>4, <1>5, <1>6

\* job_runs: a run is started once, has one outcome, and the only change of a
\* recorded outcome is a success that turns into a failure.
THEOREM JobRunsAreALedger == Spec => JobLedgerSpec
<1>1. Init => JobLedger!Init
  BY DEF Init, JobLedger!Init, jobStatus, LedgerStatus, NoRun
<1> QED BY <1>1, JobLedgerStep, RunInvariant, PTL DEF Spec, JobLedgerSpec, JobLedger!Spec

(***************************************************************************)
(* Types.                                                                  *)
(***************************************************************************)
RestOK ==
  /\ lastRun \in [Jobs -> JobExecutions \cup {None}] /\ began \in Seq(JobExecutions)
  /\ faults \in 0..MaxFaults /\ cause \in [Executions -> SUBSET Watched]

\* Every jump but the loss of a process raises, or leaves faults and cause alone.
LEMMA RaiseTyped ==
  ASSUME RestOK, NEW e \in Executions, Raise(e) \/ UNCHANGED <<faults, cause>>
  PROVE  faults' \in 0..MaxFaults /\ cause' \in [Executions -> SUBSET Watched]
<1>1. CASE Raise(e)
  <2>1. faults \in 0..MaxFaults /\ faults < MaxFaults /\ faults' = faults + 1
    BY <1>1 DEF Raise, RestOK
  <2>2. cause' = [cause EXCEPT ![e] = @ \cup ({pc[e]} \cap Watched)]
    BY <1>1 DEF Raise
  <2> QED BY <2>1, <2>2, FaultAssumption DEF RestOK
<1>2. CASE UNCHANGED <<faults, cause>>
  BY <1>2 DEF RestOK
<1> QED BY <1>1, <1>2

LEMMA RestStep == RestOK /\ RunInv /\ [Next]_vars => RestOK'
<1> SUFFICES ASSUME RestOK, RunInv, [Next]_vars PROVE RestOK'
  OBVIOUS
<1>1. CASE UNCHANGED vars
  BY <1>1 DEF vars, rowsOf, RestOK
<1>2. ASSUME NEW e \in Executions, CallJob(e) \/ CallPeriod(e) \/ Step(e) \/ Lose(e) PROVE RestOK'
  <2>1. CASE Lose(e)
    BY <2>1, FaultAssumption DEF Lose, RestOK, rowsOf
  <2>2. CASE CallJob(e)
    BY <2>2 DEF CallJob, Proceed, RestOK, rowsOf
  <2>3. CASE Report(e) \/ FailReport(e)
    <3>1. e \in JobExecutions
      BY <2>3 DEF RunInv, JobInv, Report, FailReport
    <3>2. lastRun' = [lastRun EXCEPT ![JobOf[e]] = e] /\ UNCHANGED began
      BY <2>3 DEF Report, FailReport, FinishJobRun
    <3>3. Raise(e) \/ UNCHANGED <<faults, cause>>
      BY <2>3 DEF Report, FailReport, FinishJobRun, Committed, Proceed
    <3> QED BY <3>1, <3>2, <3>3, RaiseTyped, JobAssumption DEF RestOK
  <2>4. CASE ~Lose(e) /\ ~CallJob(e) /\ ~Report(e) /\ ~FailReport(e)
    <3>1. UNCHANGED <<lastRun, began>>
      BY <1>2, <2>4 DEF Step, CallPeriod, StartJobRun, StartFetchRun, Fetch, Persist, Embed, FinishFetchRun, FailFetchRun,
                        Search, AwaitRaises, rowsOf
    <3>2. Raise(e) \/ UNCHANGED <<faults, cause>>
      BY <1>2, <2>4 DEF Step, CallPeriod, StartJobRun, StartFetchRun, Fetch, Persist, Embed, FinishFetchRun, FailFetchRun,
                        Search, AwaitRaises, Committed, Proceed
    <3> QED BY <3>1, <3>2, RaiseTyped DEF RestOK
  <2> QED BY <2>1, <2>2, <2>3, <2>4
<1> QED BY <1>1, <1>2 DEF Next

\* Every variable stays within its type.  That the count of results is a number needs
\* that the tenders are finitely many.
THEOREM RunTypes == Spec => []TypeOK
<1>1. Init => RestOK
  BY FaultAssumption DEF Init, RestOK
<1>2. RunInv /\ RestOK => TypeOK
  <2> SUFFICES ASSUME RunInv, RestOK PROVE TypeOK
    OBVIOUS
  <2>1. {Cardinality(S) : S \in SUBSET Tenders} \subseteq Nat
    BY FiniteAssumption, FS_Subset, FS_CardinalityType
  <2>2. jobRuns \in [JobExecutions ->
          [status : Outcomes \cup {"started"}, rows : SUBSET Tenders, count : Nat, error : Errors]]
    <3>1. \A e \in JobExecutions : jobRuns[e] \in
            [status : Outcomes \cup {"started"}, rows : SUBSET Tenders, count : Nat, error : Errors]
      BY <2>1 DEF RunInv, RunTypeOK, JobRow
    <3> QED BY <3>1 DEF RunInv, RunTypeOK
  <2> QED BY <2>2 DEF RunInv, RunTypeOK, RestOK, TypeOK, FetchRun, Locals, Labels
<1> QED BY <1>1, <1>2, RestStep, RunInvariant, PTL DEF Spec

=============================================================================
