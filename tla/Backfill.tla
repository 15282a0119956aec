------------------------------ MODULE Backfill ------------------------------
(***************************************************************************)
(* `licitaciones-mcp ingest backfill`: walks over the periods of a dataset *)
(* that operators start, abandon and start again, also beside each other,  *)
(* with the cursors of ingest_cursors as their only memory.  One action    *)
(* per await; ingest_placsp_period, an execution of JobRuns, is one await. *)
(* attempts, result_count and last_error decide nothing and are left out,  *)
(* and --limit-per-period is not given.                                    *)
(***************************************************************************)
EXTENDS Naturals

CONSTANTS
  Walks,      \* processes that run the command
  LastPeriod, \* the periods are 1..LastPeriod, oldest first
  Files,      \* files PLACSP publishes
  NoFile,     \* no URL can be built for the period
  FileOf,     \* FileOf[p] is the file of period p: months of early years share one
  Keys,       \* dedupe keys of notices
  Snapshot,   \* Snapshot[f][k]: the snapshot of k that f leaves in the store, or 0
  MaxFaults   \* bound: exceptions and lost processes in a behaviour

Periods == 1..LastPeriod

ASSUME PeriodAssumption   == LastPeriod \in Nat \ {0}
ASSUME FileAssumption     == NoFile \notin Files /\ FileOf \in [Periods -> Files \cup {NoFile}]
ASSUME SnapshotAssumption == Snapshot \in [Files -> [Keys -> Nat]]
ASSUME FaultAssumption    == MaxFaults \in Nat

\* A file holds no older snapshot of a notice than the files of earlier periods.
ASSUME ChronologyAssumption ==
  \A p, q \in Periods : p < q /\ FileOf[p] # NoFile /\ FileOf[q] # NoFile =>
    \A k \in Keys : Snapshot[FileOf[q]][k] # 0 => Snapshot[FileOf[p]][k] <= Snapshot[FileOf[q]][k]

VARIABLES
  cursors, \* the status of each period in ingest_cursors
  notices, \* the snapshot of each notice in tenders, 0 if it has no row
  pc,      \* the await each walk is at
  at,      \* its position in the list of periods
  faults,  \* number of faults so far
  alone    \* history: the only walk ever started, or none yet, or several

walk == <<pc, at>>
vars == <<cursors, notices, walk, faults, alone>>

Ended == {"finished", "aborted"}

\* Mutant: the list of periods starts with the newest.
NewestFirst(w) == LastPeriod + 1 - at[w]

period(w) == at[w]

Init ==
  /\ cursors = [p \in Periods |-> "absent"] /\ notices = [k \in Keys |-> 0]
  /\ pc = [w \in Walks |-> "idle"] /\ at = [w \in Walks |-> 1]
  /\ faults = 0 /\ alone = "none"

Goto(w, label) == pc' = [pc EXCEPT ![w] = label]

\* The next turn of the for loop, or its end.
Advance(w) ==
  \/ at[w] < LastPeriod /\ at' = [at EXCEPT ![w] = @ + 1] /\ Goto(w, "check")
  \/ at[w] = LastPeriod /\ at' = [at EXCEPT ![w] = 1] /\ Goto(w, "finished")

\* Mutant: an exception of the ingest is logged and the period counts as done.
IngestShielded(w) ==
  CASE pc[w] = "ingest" -> "record" [] pc[w] = "record" -> "fail" [] OTHER -> "aborted"

\* The except clause covers the ingest and the recording of its success.
Handler(w) == IF pc[w] \in {"ingest", "record"} THEN "fail" ELSE "aborted"

Raise(w) ==
  /\ faults < MaxFaults /\ faults' = faults + 1
  /\ Goto(w, Handler(w))
  /\ at' = IF Handler(w) = "aborted" THEN [at EXCEPT ![w] = 1] ELSE at

----------------------------------------------------------------------------
Start(w) ==
  /\ pc[w] \in {"idle"} \cup Ended
  /\ Goto(w, "check")
  /\ alone' = IF alone = "none" THEN "one" ELSE "several"
  /\ UNCHANGED <<cursors, notices, at, faults>>

\* Mutant: a period that has a cursor is skipped, whatever its status.
Tried(p) == cursors[p] # "absent"

Skipped(p) == cursors[p] = "done"

Check(w) ==
  /\ pc[w] = "check"
  /\ \/ Skipped(period(w)) /\ Advance(w)
     \/ ~Skipped(period(w)) /\ Goto(w, "ingest") /\ at' = at
  /\ UNCHANGED <<cursors, notices, faults, alone>>

\* build_placsp_period_url raises ValueError.
IngestWithoutUrl(w) ==
  /\ pc[w] = "ingest" /\ FileOf[period(w)] = NoFile
  /\ Goto(w, Handler(w))
  /\ UNCHANGED <<cursors, notices, at, faults, alone>>

\* The tenders of the file are stored; closing the audit row may raise after that.
Ingest(w) ==
  LET f == FileOf[period(w)] IN
  /\ pc[w] = "ingest" /\ f # NoFile
  /\ notices' = [k \in Keys |-> IF Snapshot[f][k] = 0 THEN notices[k] ELSE Snapshot[f][k]]
  /\ \/ Goto(w, "record") /\ UNCHANGED <<at, faults>>
     \/ Raise(w)
  /\ UNCHANGED <<cursors, alone>>

\* record_ingest_cursor overwrites whatever status is there.
Record(w, label, status) ==
  /\ pc[w] = label
  /\ cursors' = [cursors EXCEPT ![period(w)] = status]
  /\ \/ Advance(w) /\ UNCHANGED faults
     \/ Raise(w)
  /\ UNCHANGED <<notices, alone>>

RecordDone(w) == Record(w, "record", "done")

\* Mutant: a failure is printed and not recorded.
FailureUnrecorded(w) ==
  /\ pc[w] = "fail" /\ Advance(w)
  /\ UNCHANGED <<cursors, notices, faults, alone>>

RecordFailed(w) == Record(w, "fail", "failed")

\* An await raises before it has an effect.
AwaitRaises(w) ==
  /\ pc[w] \in {"check", "ingest", "record", "fail"}
  /\ Raise(w)
  /\ UNCHANGED <<cursors, notices, alone>>

Lose(w) ==
  /\ pc[w] \notin {"idle"} \cup Ended /\ faults < MaxFaults /\ faults' = faults + 1
  /\ Goto(w, "aborted") /\ at' = [at EXCEPT ![w] = 1]
  /\ UNCHANGED <<cursors, notices, alone>>

Step(w) ==
  Check(w) \/ IngestWithoutUrl(w) \/ Ingest(w) \/ RecordDone(w) \/ RecordFailed(w) \/ AwaitRaises(w)

Next == \E w \in Walks : Start(w) \/ Step(w) \/ Lose(w)

\* The event loop resumes a walk whose await is over, and every await ends.
Spec == Init /\ [][Next]_vars /\ \A w \in Walks : WF_vars(Step(w))

----------------------------------------------------------------------------
TypeOK ==
  /\ cursors \in [Periods -> {"absent", "done", "failed"}] /\ notices \in [Keys -> Nat]
  /\ pc \in [Walks -> {"idle", "check", "ingest", "record", "fail"} \cup Ended]
  /\ at \in [Walks -> Periods] /\ faults \in 0..MaxFaults /\ alone \in {"none", "one", "several"}

Stored(p) == FileOf[p] # NoFile /\ \A k \in Keys : Snapshot[FileOf[p]][k] # 0 => notices[k] # 0

\* A period that later walks will skip has left its notices in the store, whoever
\* recorded it, after whatever failures.
DoneIsStored == \A p \in Periods : cursors[p] = "done" => Stored(p)

\* A walk that reaches its end has accounted for every period, also for those that
\* raised: none is passed over in silence.
FinishedWalkCovers == \A w \in Walks : pc[w] = "finished" => \A p \in Periods : cursors[p] # "absent"

Current == \A k \in Keys : \A p \in Periods :
  FileOf[p] # NoFile => Snapshot[FileOf[p]][k] <= notices[k]

\* A walk nothing disturbs leaves the newest snapshot of every notice, although the
\* store takes whatever snapshot comes last.
UndisturbedWalkIsCurrent ==
  alone = "one" /\ faults = 0 /\ (\E w \in Walks : pc[w] = "finished") => Current

\* If walks keep being started, every period that can be fetched ends up done: a
\* failed or abandoned one is tried again, and no other walk undoes it for good.
WalksConverge ==
  (\E w \in Walks : []<>(pc[w] = "check" /\ at[w] = 1)) =>
    <>[](\A p \in Periods : FileOf[p] # NoFile => cursors[p] = "done")

\* A backfill that had to be resumed leaves what an undisturbed one leaves
\* ("resumable via the ingest_cursors table").
ResumedWalkIsCurrent ==
  /\ \A w \in Walks : pc[w] \in {"idle"} \cup Ended
  /\ \A p \in Periods : FileOf[p] # NoFile => cursors[p] = "done"
  => Current
=============================================================================
