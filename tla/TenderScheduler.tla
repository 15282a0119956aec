-------------------------- MODULE TenderScheduler --------------------------
(***************************************************************************)
(* One process of `licitaciones-mcp scheduler run`: the loop of            *)
(* run_forever reads daily_jobs every minute and brings APScheduler's job  *)
(* store in line, while the MCP server edits the table and the store       *)
(* fires.  The loop runs on the event loop of the fired jobs: between two  *)
(* awaits nothing else happens, so the reload is one action after its      *)
(* read.                                                                   *)
(***************************************************************************)
EXTENDS Naturals, FiniteSets

CONSTANTS
  Jobs,       \* ids of daily_jobs
  Crons,      \* cron expressions, as users write them
  ValidCrons, \* those CronTrigger.from_crontab accepts
  Hours,      \* values of hour_utc
  MaxEdits,   \* bound: edits of daily_jobs
  MaxFaults,  \* bound: failed database calls and lost processes
  None        \* no row, no cron expression, no trigger

Triggers  == ValidCrons \cup Hours
Signature == [cron : Crons \cup {None}, hour : Hours, enabled : BOOLEAN]

ASSUME CronAssumption  == ValidCrons \subseteq Crons /\ None \notin Crons \cup Hours \cup Signature
ASSUME JobsAssumption  == IsFiniteSet(Jobs)
ASSUME BoundAssumption == MaxEdits \in Nat /\ MaxFaults \in Nat

VARIABLES
  daily_jobs, \* the table: the scheduling columns of each job
  known,      \* _known_signatures
  triggers,   \* the trigger of each job in APScheduler's store
  running,    \* the jobs an instance of which is running
  pc,         \* where run_forever is
  snapshot,   \* the rows the reload has read
  beat,       \* jobs_loaded of the last heartbeat of the process
  stopping,   \* the event stop() sets
  edits, faults,
  fresh,      \* history: triggers the table has called for since the last read
  called      \* history: the same since the read of the last reload

loop    == <<known, triggers, snapshot, beat>>
history == <<fresh, called>>
vars    == <<daily_jobs, loop, running, pc, stopping, edits, faults, history>>

----------------------------------------------------------------------------
\* _trigger_for, and the trigger a row calls for: none if it is disabled, or its
\* cron expression is no good.
Valid(d)     == d.cron # None => d.cron \in ValidCrons
TriggerOf(d) == IF d.cron # None THEN d.cron ELSE d.hour
Calls(d)     == IF d # None /\ d.enabled /\ Valid(d) THEN {TriggerOf(d)} ELSE {}

\* What _load_jobs does with a row: leave a signature it knows, add a trigger (in
\* place of the one there is), or remove what it had.
Listed(j) == snapshot[j] # None /\ snapshot[j].enabled

\* Mutant: a job is known by its cron expression alone.
KnownCron(j) == Listed(j) /\ known[j] # None /\ known[j].cron = snapshot[j].cron

Kept(j)  == Listed(j) /\ known[j] = snapshot[j]
Added(j) == Listed(j) /\ ~Kept(j) /\ Valid(snapshot[j])

\* Mutant: the last loop removes the jobs that are no longer listed.
Unlisted(j) == known[j] # None /\ ~Listed(j)

Removed(j) == known[j] # None /\ ~Kept(j) /\ ~Added(j)

Active(j) == IF Kept(j) \/ Added(j) THEN snapshot[j] ELSE None

----------------------------------------------------------------------------
NoJobs == [j \in Jobs |-> None]

Init ==
  /\ daily_jobs = NoJobs /\ known = NoJobs /\ triggers = NoJobs /\ snapshot = NoJobs
  /\ running = {} /\ pc = "down" /\ beat = 0 /\ stopping = FALSE /\ edits = 0 /\ faults = 0
  /\ fresh = [j \in Jobs |-> {}] /\ called = [j \in Jobs |-> {}]

\* create_daily_job inserts a row or replaces its filters, hour, cron and enabled.
CreateDailyJob(j, d) ==
  /\ edits < MaxEdits /\ edits' = edits + 1
  /\ daily_jobs' = [daily_jobs EXCEPT ![j] = d]
  /\ fresh' = [fresh EXCEPT ![j] = @ \cup Calls(d)]
  /\ called' = [called EXCEPT ![j] = @ \cup Calls(d)]
  /\ UNCHANGED <<loop, running, pc, stopping, faults>>

Start ==
  /\ pc = "down" /\ pc' = "read"
  /\ UNCHANGED <<daily_jobs, loop, running, stopping, edits, faults, history>>

Read ==
  /\ pc = "read" /\ pc' = "apply"
  /\ snapshot' = daily_jobs
  /\ fresh' = [j \in Jobs |-> Calls(daily_jobs[j])]
  /\ UNCHANGED <<daily_jobs, known, triggers, beat, running, stopping, edits, faults, called>>

\* The SELECT or the heartbeat raises: the loop logs it and waits.
ReloadFails ==
  /\ pc \in {"read", "beat"} /\ pc' = "wait"
  /\ faults < MaxFaults /\ faults' = faults + 1
  /\ UNCHANGED <<daily_jobs, loop, running, stopping, edits, history>>

\* Mutant: one bad cron expression fails the whole reload.
ApplyAll ==
  /\ pc = "apply"
  /\ IF \E j \in Jobs : Listed(j) /\ ~Kept(j) /\ ~Added(j)
     THEN pc' = "wait" /\ UNCHANGED <<known, triggers, called>>
     ELSE /\ pc' = "beat" /\ called' = fresh
          /\ known' = [j \in Jobs |-> Active(j)]
          /\ triggers' = [j \in Jobs |-> IF Added(j) THEN TriggerOf(snapshot[j])
                                         ELSE IF Removed(j) THEN None ELSE triggers[j]]
  /\ UNCHANGED <<daily_jobs, snapshot, beat, running, stopping, edits, faults, fresh>>

Apply ==
  /\ pc = "apply" /\ pc' = "beat" /\ called' = fresh
  /\ known' = [j \in Jobs |-> Active(j)]
  /\ triggers' = [j \in Jobs |-> IF Added(j) THEN TriggerOf(snapshot[j])
                                 ELSE IF Removed(j) THEN None ELSE triggers[j]]
  /\ UNCHANGED <<daily_jobs, snapshot, beat, running, stopping, edits, faults, fresh>>

Heartbeat ==
  /\ pc = "beat" /\ pc' = "wait"
  /\ beat' = Cardinality({j \in Jobs : known[j] # None})
  /\ UNCHANGED <<daily_jobs, known, triggers, snapshot, running, stopping, edits, faults, history>>

\* Mutant: the loop sleeps out its interval and reloads.
Sleep == pc = "wait" /\ pc' = "read" /\ UNCHANGED <<daily_jobs, loop, running, stopping, edits, faults, history>>

\* The wait for the stop event is over, by the event or by the timeout.
Wake ==
  /\ pc = "wait" /\ pc' = IF stopping THEN "exit" ELSE "read"
  /\ UNCHANGED <<daily_jobs, loop, running, stopping, edits, faults, history>>

Stop ==
  /\ pc # "down" /\ ~stopping /\ stopping' = TRUE
  /\ UNCHANGED <<daily_jobs, loop, running, pc, edits, faults, history>>

\* The process is gone, with the scheduler's store and its running jobs.
Gone ==
  /\ pc' = "down" /\ known' = NoJobs /\ triggers' = NoJobs /\ snapshot' = NoJobs /\ beat' = 0
  /\ running' = {} /\ stopping' = FALSE
  /\ UNCHANGED <<daily_jobs, edits, history>>

\* scheduler.shutdown(wait=False) cancels the running jobs.
Exit  == pc = "exit" /\ Gone /\ UNCHANGED faults
Crash == pc # "down" /\ faults < MaxFaults /\ faults' = faults + 1 /\ Gone

\* The trigger of a job fires: _run_job calls run_job, unless an instance runs.
Fire(j) ==
  /\ pc # "down" /\ triggers[j] # None /\ j \notin running
  /\ running' = running \cup {j}
  /\ UNCHANGED <<daily_jobs, loop, pc, stopping, edits, faults, history>>

RunEnds(j) ==
  /\ j \in running /\ running' = running \ {j}
  /\ UNCHANGED <<daily_jobs, loop, pc, stopping, edits, faults, history>>

Loop == Read \/ Apply \/ Heartbeat \/ Wake \/ Exit

Next ==
  \/ Start \/ Loop \/ ReloadFails \/ Stop \/ Crash
  \/ \E j \in Jobs : Fire(j) \/ RunEnds(j) \/ \E d \in Signature : CreateDailyJob(j, d)

\* The event loop resumes run_forever when its await is over; every await is a
\* database call or a wait with a timeout.
Spec == Init /\ [][Next]_vars /\ WF_vars(Loop)

----------------------------------------------------------------------------
TypeOK ==
  /\ daily_jobs \in [Jobs -> Signature \cup {None}] /\ known \in [Jobs -> Signature \cup {None}]
  /\ snapshot \in [Jobs -> Signature \cup {None}] /\ triggers \in [Jobs -> Triggers \cup {None}]
  /\ running \subseteq Jobs /\ pc \in {"down", "read", "apply", "beat", "wait", "exit"}
  /\ beat \in 0..Cardinality(Jobs) /\ stopping \in BOOLEAN
  /\ edits \in 0..MaxEdits /\ faults \in 0..MaxFaults
  /\ fresh \in [Jobs -> SUBSET Triggers] /\ called \in [Jobs -> SUBSET Triggers]

\* _known_signatures says of APScheduler's store what is in it: the reload decides
\* by the one what to do with the other.
KnownIsScheduled ==
  \A j \in Jobs : IF known[j] = None THEN triggers[j] = None ELSE Calls(known[j]) = {triggers[j]}

\* A job fires only by a schedule the table has held since the last reload read it:
\* an edited, disabled or broken schedule outlives one reload at most.
NoStaleSchedule == \A j \in Jobs : triggers[j] # None => triggers[j] \in called[j]

\* Once the table rests, each job of a worker that stays up has the schedule the
\* table calls for, however often its reloads failed and whatever the others hold.
SchedulesTakeEffect ==
  <>[](pc # "down") =>
    \A j \in Jobs : <>[](IF triggers[j] = None THEN Calls(daily_jobs[j]) = {}
                         ELSE Calls(daily_jobs[j]) = {triggers[j]})

\* stop() ends the process, whatever the loop is waiting for.
StopEnds == stopping ~> pc = "down"
=============================================================================
