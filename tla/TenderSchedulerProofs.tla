----------------------- MODULE TenderSchedulerProofs -----------------------
(* TLAPS proofs about TenderScheduler, for any set of jobs and schedules. *)
EXTENDS TenderScheduler, FiniteSetTheorems, TLAPS

\* What KnownIsScheduled and NoStaleSchedule need to be inductive: what the reload
\* has read has been called for since it read it.
SnapshotIsFresh == pc = "apply" => \A j \in Jobs : Calls(snapshot[j]) \subseteq fresh[j]

ScheduleInv == TypeOK /\ KnownIsScheduled /\ NoStaleSchedule /\ SnapshotIsFresh

USE CronAssumption

LEMMA CallsTyped ==
  ASSUME NEW d \in Signature \cup {None}
  PROVE  Calls(d) \subseteq Triggers /\ None \notin Calls(d)
  BY DEF Calls, Valid, TriggerOf, Triggers, Signature

LEMMA BeatTyped == Cardinality({j \in Jobs : known[j] # None}) \in 0..Cardinality(Jobs)
  <1> DEFINE loaded == {j \in Jobs : known[j] # None}
  <1>1. IsFiniteSet(loaded) /\ Cardinality(loaded) <= Cardinality(Jobs)
    BY JobsAssumption, FS_Subset
  <1>2. Cardinality(loaded) \in Nat /\ Cardinality(Jobs) \in Nat
    BY <1>1, JobsAssumption, FS_CardinalityType
  <1> QED BY <1>1, <1>2

\* The values of a process that is down.
LEMMA DownTyped ==
  /\ NoJobs \in [Jobs -> Signature \cup {None}] /\ NoJobs \in [Jobs -> Triggers \cup {None}]
  /\ 0 \in 0..Cardinality(Jobs) /\ 0 \in 0..MaxEdits /\ 0 \in 0..MaxFaults
  <1>1. Cardinality(Jobs) \in Nat
    BY JobsAssumption, FS_CardinalityType
  <1> QED BY <1>1, BoundAssumption DEF NoJobs

LEMMA ScheduleInit == Init => ScheduleInv
  <1> SUFFICES ASSUME Init PROVE ScheduleInv
    OBVIOUS
  <1>1. TypeOK
    BY DownTyped DEF Init, TypeOK
  <1> QED BY <1>1 DEF Init, ScheduleInv, KnownIsScheduled, NoStaleSchedule, SnapshotIsFresh, NoJobs

\* The reload: a row it keeps, adds or removes has the trigger of its signature.
LEMMA ApplySchedules ==
  ASSUME ScheduleInv, Apply
  PROVE  ScheduleInv'
  <1> USE DEF ScheduleInv
  <1>1. ASSUME NEW j \in Jobs
        PROVE  /\ known'[j] \in Signature \cup {None} /\ triggers'[j] \in Triggers \cup {None}
               /\ IF known'[j] = None THEN triggers'[j] = None ELSE Calls(known'[j]) = {triggers'[j]}
               /\ triggers'[j] # None => triggers'[j] \in fresh[j]
    <2> DEFINE d == snapshot[j]
    <2>1. /\ d \in Signature \cup {None} /\ known[j] \in Signature \cup {None}
          /\ triggers[j] \in Triggers \cup {None} /\ Calls(d) \subseteq fresh[j]
      BY DEF Apply, TypeOK, SnapshotIsFresh
    <2>2. IF known[j] = None THEN triggers[j] = None ELSE Calls(known[j]) = {triggers[j]}
      BY DEF KnownIsScheduled
    <2>3. /\ known'[j] = Active(j)
          /\ triggers'[j] = IF Added(j) THEN TriggerOf(d) ELSE IF Removed(j) THEN None ELSE triggers[j]
      BY DEF Apply
    <2>4. CASE Added(j)
      <3>1. d \in Signature /\ d # None /\ Calls(d) = {TriggerOf(d)}
        BY <2>1, <2>4 DEF Added, Listed, Calls
      <3>2. TriggerOf(d) \in Triggers /\ TriggerOf(d) \in fresh[j]
        BY <2>1, <3>1, CallsTyped
      <3>3. known'[j] = d /\ triggers'[j] = TriggerOf(d)
        BY <2>3, <2>4 DEF Active
      <3> QED BY <3>1, <3>2, <3>3
    <2>5. CASE Kept(j)
      <3>1. known[j] = d /\ d # None /\ known'[j] = d /\ triggers'[j] = triggers[j]
        BY <2>3, <2>5 DEF Kept, Listed, Active, Added, Removed
      <3>2. Calls(d) = {triggers[j]}
        BY <2>2, <3>1
      <3> QED BY <2>1, <3>1, <3>2
    <2>6. CASE ~Added(j) /\ ~Kept(j)
      BY <2>2, <2>3, <2>6 DEF Active, Removed
    <2> QED BY <2>4, <2>5, <2>6
  <1>2. known' \in [Jobs -> Signature \cup {None}] /\ triggers' \in [Jobs -> Triggers \cup {None}]
    BY <1>1 DEF Apply
  <1>3. TypeOK'
    BY <1>2 DEF Apply, TypeOK
  <1>4. KnownIsScheduled'
    BY <1>1 DEF KnownIsScheduled
  <1>5. NoStaleSchedule' /\ SnapshotIsFresh'
    BY <1>1 DEF Apply, NoStaleSchedule, SnapshotIsFresh
  <1> QED BY <1>3, <1>4, <1>5

LEMMA ScheduleNext == ScheduleInv /\ [Next]_vars => ScheduleInv'
  <1> SUFFICES ASSUME ScheduleInv, [Next]_vars PROVE ScheduleInv'
    OBVIOUS
  <1> USE DEF ScheduleInv, KnownIsScheduled, NoStaleSchedule, SnapshotIsFresh, loop, history
  <1>1. ASSUME NEW j \in Jobs, NEW d \in Signature, CreateDailyJob(j, d) PROVE ScheduleInv'
    <2>1. TypeOK'
      BY <1>1, CallsTyped, BoundAssumption DEF CreateDailyJob, TypeOK
    <2> QED BY <1>1, <2>1 DEF CreateDailyJob, TypeOK
  <1>2. CASE Read
    <2>1. \A j \in Jobs : Calls(daily_jobs[j]) \subseteq Triggers
      BY CallsTyped DEF TypeOK
    <2>2. TypeOK'
      BY <1>2, <2>1 DEF Read, TypeOK
    <2> QED BY <1>2, <2>2 DEF Read, TypeOK
  <1>3. CASE Apply
    BY <1>3, ApplySchedules
  <1>4. CASE Heartbeat
    <2>1. TypeOK'
      BY <1>4, BeatTyped DEF Heartbeat, TypeOK
    <2> QED BY <1>4, <2>1 DEF Heartbeat
  <1>5. CASE Exit \/ Crash
    <2>1. faults' \in 0..MaxFaults
      BY <1>5, BoundAssumption DEF Exit, Crash, TypeOK
    <2>2. Gone
      BY <1>5 DEF Exit, Crash
    <2>3. TypeOK'
      BY <2>1, <2>2, DownTyped DEF Gone, TypeOK
    <2> QED BY <1>5, <2>3 DEF Exit, Crash, Gone, NoJobs
  <1>6. CASE Start \/ Wake \/ Stop
    <2>1. TypeOK'
      BY <1>6 DEF Start, Wake, Stop, TypeOK
    <2> QED BY <1>6, <2>1 DEF Start, Wake, Stop
  <1>7. CASE ReloadFails
    <2>1. TypeOK'
      BY <1>7, BoundAssumption DEF ReloadFails, TypeOK
    <2> QED BY <1>7, <2>1 DEF ReloadFails
  <1>8. ASSUME NEW j \in Jobs, Fire(j) \/ RunEnds(j) PROVE ScheduleInv'
    <2>1. TypeOK'
      BY <1>8 DEF Fire, RunEnds, TypeOK
    <2> QED BY <1>8, <2>1 DEF Fire, RunEnds
  <1>9. CASE UNCHANGED vars
    BY <1>9 DEF vars, TypeOK
  <1> QED BY <1>1, <1>2, <1>3, <1>4, <1>5, <1>6, <1>7, <1>8, <1>9 DEF Next, Loop

\* The state of the worker, its reloads and the jobs it runs keeps its types.
THEOREM SchedulerTypes == Spec => []TypeOK
  <1>1. ScheduleInv => TypeOK
    BY DEF ScheduleInv
  <1> QED BY ScheduleInit, ScheduleNext, <1>1, PTL DEF Spec

\* The loop's copy of the signatures and APScheduler's store never disagree.
THEOREM KnownScheduled == Spec => []KnownIsScheduled
  <1>1. ScheduleInv => KnownIsScheduled
    BY DEF ScheduleInv
  <1> QED BY ScheduleInit, ScheduleNext, <1>1, PTL DEF Spec

\* No job fires by a schedule that was gone from the table before the last reload.
THEOREM NoStaleTrigger == Spec => []NoStaleSchedule
  <1>1. ScheduleInv => NoStaleSchedule
    BY DEF ScheduleInv
  <1> QED BY ScheduleInit, ScheduleNext, <1>1, PTL DEF Spec
=============================================================================
