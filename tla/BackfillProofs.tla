--------------------------- MODULE BackfillProofs ---------------------------
(***************************************************************************)
(* Theorems about Backfill, for any periods, files, notices and walks.     *)
(***************************************************************************)
EXTENDS Backfill, TLAPS

\* Besides the types: a walk that is not under way stands at the first period.
TypeInv == TypeOK /\ \A w \in Walks : pc[w] \in {"idle"} \cup Ended => at[w] = 1

LEMMA TypeInit == Init => TypeInv
BY PeriodAssumption, FaultAssumption DEF Init, TypeInv, TypeOK, Periods, Ended

\* Where a walk may go on in its list of periods.
LEMMA AdvanceTypes ==
  ASSUME TypeInv, NEW w \in Walks, Advance(w)
  PROVE  /\ at' \in [Walks -> Periods]
         /\ pc' \in [Walks -> {"idle", "check", "ingest", "record", "fail"} \cup Ended]
         /\ \A v \in Walks : pc'[v] \in {"idle"} \cup Ended => at'[v] = 1
<1>1. CASE at[w] < LastPeriod /\ at' = [at EXCEPT ![w] = @ + 1] /\ Goto(w, "check")
  BY <1>1, PeriodAssumption DEF TypeInv, TypeOK, Periods, Goto, Ended
<1>2. CASE at[w] = LastPeriod /\ at' = [at EXCEPT ![w] = 1] /\ Goto(w, "finished")
  BY <1>2, PeriodAssumption DEF TypeInv, TypeOK, Periods, Goto, Ended
<1> QED BY <1>1, <1>2 DEF Advance

LEMMA RaiseTypes ==
  ASSUME TypeInv, NEW w \in Walks, pc[w] \notin {"idle"} \cup Ended, Raise(w)
  PROVE  /\ at' \in [Walks -> Periods] /\ faults' \in 0..MaxFaults
         /\ pc' \in [Walks -> {"idle", "check", "ingest", "record", "fail"} \cup Ended]
         /\ \A v \in Walks : pc'[v] \in {"idle"} \cup Ended => at'[v] = 1
<1>1. Handler(w) \in {"fail", "aborted"}
  BY DEF Handler
<1>2. pc' = [pc EXCEPT ![w] = Handler(w)]
  BY DEF Raise, Goto
<1>3. at' = IF Handler(w) = "aborted" THEN [at EXCEPT ![w] = 1] ELSE at
  BY DEF Raise
<1>4. faults' \in 0..MaxFaults
  BY FaultAssumption DEF Raise, TypeInv, TypeOK
<1> QED BY <1>1, <1>2, <1>3, <1>4, PeriodAssumption DEF TypeInv, TypeOK, Periods, Ended

LEMMA TypeStep == TypeInv /\ [Next]_vars => TypeInv'
<1> SUFFICES ASSUME TypeInv, [Next]_vars PROVE TypeInv'
  OBVIOUS
<1>1. ASSUME NEW w \in Walks, Start(w) PROVE TypeInv'
  BY <1>1, PeriodAssumption DEF Start, Goto, TypeInv, TypeOK, Ended
<1>2. ASSUME NEW w \in Walks, Check(w) PROVE TypeInv'
  <2>1. CASE Advance(w)
    BY <1>2, <2>1, AdvanceTypes DEF Check, TypeInv, TypeOK
  <2>2. CASE Goto(w, "ingest") /\ at' = at
    BY <1>2, <2>2 DEF Check, Goto, TypeInv, TypeOK, Ended
  <2> QED BY <1>2, <2>1, <2>2 DEF Check
<1>3. ASSUME NEW w \in Walks, IngestWithoutUrl(w) PROVE TypeInv'
  BY <1>3 DEF IngestWithoutUrl, Handler, Goto, TypeInv, TypeOK, Ended
<1>4. ASSUME NEW w \in Walks, Ingest(w) PROVE TypeInv'
  <2>1. FileOf[period(w)] \in Files
    BY <1>4, FileAssumption DEF Ingest, period, TypeInv, TypeOK
  <2>2. notices' \in [Keys -> Nat]
    BY <1>4, <2>1, SnapshotAssumption DEF Ingest, TypeInv, TypeOK
  <2>3. CASE Goto(w, "record") /\ UNCHANGED <<at, faults>>
    BY <1>4, <2>2, <2>3 DEF Ingest, Goto, TypeInv, TypeOK, Ended
  <2>4. CASE Raise(w)
    BY <1>4, <2>2, <2>4, RaiseTypes DEF Ingest, TypeInv, TypeOK, Ended
  <2> QED BY <1>4, <2>3, <2>4 DEF Ingest
<1>5. ASSUME NEW w \in Walks, NEW label \in {"record", "fail"}, NEW status \in {"done", "failed"},
             Record(w, label, status)
      PROVE  TypeInv'
  <2>1. cursors' \in [Periods -> {"absent", "done", "failed"}]
    BY <1>5 DEF Record, TypeInv, TypeOK
  <2>2. CASE Advance(w) /\ UNCHANGED faults
    BY <1>5, <2>1, <2>2, AdvanceTypes DEF Record, TypeInv, TypeOK
  <2>3. CASE Raise(w)
    BY <1>5, <2>1, <2>3, RaiseTypes DEF Record, TypeInv, TypeOK, Ended
  <2> QED BY <1>5, <2>2, <2>3 DEF Record
<1>6. ASSUME NEW w \in Walks, AwaitRaises(w) PROVE TypeInv'
  BY <1>6, RaiseTypes DEF AwaitRaises, TypeInv, TypeOK, Ended
<1>7. ASSUME NEW w \in Walks, Lose(w) PROVE TypeInv'
  BY <1>7, PeriodAssumption, FaultAssumption DEF Lose, Goto, TypeInv, TypeOK, Periods, Ended
<1>8. CASE UNCHANGED vars
  BY <1>8 DEF vars, walk, TypeInv, TypeOK
<1> QED BY <1>1, <1>2, <1>3, <1>4, <1>5, <1>6, <1>7, <1>8
        DEF Next, Step, RecordDone, RecordFailed

\* A walk is always at one of the periods of its range, and a cursor holds one of the
\* statuses the code writes.
THEOREM WalkTypes == Spec => []TypeOK
<1>1. TypeInv => TypeOK
  BY DEF TypeInv
<1> QED BY TypeInit, TypeStep, <1>1, PTL DEF Spec

----------------------------------------------------------------------------
\* What makes DoneIsStored inductive: the period a walk is about to record as done
\* is stored already, and no notice ever leaves the store.
DoneInv == TypeInv /\ DoneIsStored /\ \A w \in Walks : pc[w] = "record" => Stored(at[w])

\* A stored period stays stored as long as no notice loses its row.
LEMMA StoredStays ==
  ASSUME TypeInv, \A k \in Keys : notices[k] # 0 => notices'[k] # 0, NEW p \in Periods, Stored(p)
  PROVE  Stored(p)'
BY DEF Stored

\* Only Ingest brings a walk to the recording of its success.
LEMMA RecordReached ==
  ASSUME TypeInv, NEW w \in Walks, Raise(w) \/ Advance(w)
  PROVE  \A v \in Walks : pc'[v] = "record" => pc[v] = "record" /\ at'[v] = at[v]
<1>1. CASE Raise(w)
  <2>1. Handler(w) # "record"
    BY DEF Handler
  <2> QED BY <1>1, <2>1 DEF Raise, Goto, TypeInv, TypeOK
<1>2. CASE Advance(w)
  BY <1>2 DEF Advance, Goto, TypeInv, TypeOK
<1> QED BY <1>1, <1>2

LEMMA DoneStep == DoneInv /\ [Next]_vars => DoneInv'
<1> SUFFICES ASSUME DoneInv, [Next]_vars PROVE DoneInv'
  OBVIOUS
<1> USE DEF DoneInv
<1>0. TypeInv' /\ pc \in [Walks -> {"idle", "check", "ingest", "record", "fail"} \cup Ended]
      /\ at \in [Walks -> Periods] /\ at' \in [Walks -> Periods]
  BY TypeStep DEF TypeInv, TypeOK
\* A step that changes neither cursors nor notices, and brings no walk to "record".
<1>1. ASSUME UNCHANGED <<cursors, notices>>,
             \A v \in Walks : pc'[v] = "record" => pc[v] = "record" /\ at'[v] = at[v]
      PROVE  DoneInv'
  BY <1>0, <1>1 DEF DoneIsStored, Stored
<1>2. ASSUME NEW w \in Walks, Start(w) PROVE DoneInv'
  BY <1>0, <1>1, <1>2 DEF Start, Goto
<1>3. ASSUME NEW w \in Walks, Check(w) PROVE DoneInv'
  <2>1. CASE Advance(w)
    BY <1>1, <1>3, <2>1, RecordReached DEF Check
  <2>2. CASE Goto(w, "ingest") /\ at' = at
    BY <1>0, <1>1, <1>3, <2>2 DEF Check, Goto
  <2> QED BY <1>3, <2>1, <2>2 DEF Check
<1>4. ASSUME NEW w \in Walks, IngestWithoutUrl(w) PROVE DoneInv'
  BY <1>0, <1>1, <1>4 DEF IngestWithoutUrl, Handler, Goto
<1>5. ASSUME NEW w \in Walks, Ingest(w) PROVE DoneInv'
  <2> DEFINE f == FileOf[at[w]]
  <2>1. f \in Files /\ f # NoFile /\ at[w] \in Periods
    BY <1>0, <1>5, FileAssumption DEF Ingest, period
  <2>2. notices' = [k \in Keys |-> IF Snapshot[f][k] = 0 THEN notices[k] ELSE Snapshot[f][k]]
    BY <1>5 DEF Ingest, period
  <2>3. \A k \in Keys : notices[k] # 0 => notices'[k] # 0
    BY <2>2
  <2>4. ASSUME NEW p \in Periods, p = at[w] PROVE Stored(p)'
    BY <2>1, <2>2, <2>4 DEF Stored
  <2>5. \A p \in Periods : Stored(p) => Stored(p)'
    BY <2>3, StoredStays
  <2>6. \A v \in Walks : pc'[v] = "record" => (v = w \/ pc[v] = "record") /\ at'[v] = at[v]
    <3>1. CASE Goto(w, "record") /\ UNCHANGED <<at, faults>>
      BY <1>0, <3>1 DEF Goto
    <3>2. CASE Raise(w)
      BY <3>2, RecordReached
    <3> QED BY <1>5, <3>1, <3>2 DEF Ingest
  <2>7. cursors' = cursors
    BY <1>5 DEF Ingest
  <2>8. DoneIsStored'
    BY <2>5, <2>7 DEF DoneIsStored
  <2>9. ASSUME NEW v \in Walks, pc'[v] = "record" PROVE Stored(at[v])'
    <3>1. at'[v] = at[v] /\ at[v] \in Periods /\ (v = w \/ Stored(at[v]))
      BY <1>0, <2>6, <2>9
    <3>2. \A p \in Periods : p = at'[v] => Stored(p)'
      BY <2>4, <2>5, <3>1
    <3> QED BY <3>1, <3>2 DEF Stored
  <2> QED BY <1>0, <2>8, <2>9
<1>6. ASSUME NEW w \in Walks, RecordDone(w) PROVE DoneInv'
  <2>1. pc[w] = "record" /\ notices' = notices /\ cursors' = [cursors EXCEPT ![at[w]] = "done"]
    BY <1>6 DEF RecordDone, Record, period
  <2>2. Stored(at[w])
    BY <2>1
  <2>3. \A v \in Walks : pc'[v] = "record" => pc[v] = "record" /\ at'[v] = at[v]
    BY <1>6, RecordReached DEF RecordDone, Record
  <2>4. DoneIsStored'
    BY <1>0, <2>1, <2>2 DEF DoneIsStored, Stored, TypeInv, TypeOK
  <2> QED BY <1>0, <2>1, <2>3, <2>4 DEF Stored
<1>7. ASSUME NEW w \in Walks, RecordFailed(w) PROVE DoneInv'
  <2>1. notices' = notices /\ cursors' = [cursors EXCEPT ![at[w]] = "failed"]
    BY <1>7 DEF RecordFailed, Record, period
  <2>2. \A v \in Walks : pc'[v] = "record" => pc[v] = "record" /\ at'[v] = at[v]
    BY <1>7, RecordReached DEF RecordFailed, Record
  <2>3. DoneIsStored'
    BY <1>0, <2>1 DEF DoneIsStored, Stored, TypeInv, TypeOK
  <2> QED BY <1>0, <2>1, <2>2, <2>3 DEF Stored
<1>8. ASSUME NEW w \in Walks, AwaitRaises(w) PROVE DoneInv'
  BY <1>1, <1>8, RecordReached DEF AwaitRaises
<1>9. ASSUME NEW w \in Walks, Lose(w) PROVE DoneInv'
  BY <1>0, <1>1, <1>9 DEF Lose, Goto
<1>10. CASE UNCHANGED vars
  BY <1>1, <1>10 DEF vars, walk
<1> QED BY <1>2, <1>3, <1>4, <1>5, <1>6, <1>7, <1>8, <1>9, <1>10 DEF Next, Step

\* Whatever walks, failures and lost processes there have been, a period that is done
\* and will be skipped has left its notices in the store (get_ingest_cursor).
THEOREM DoneStored == Spec => []DoneIsStored
<1>1. Init => DoneInv
  BY TypeInit DEF Init, DoneInv, DoneIsStored
<1>2. DoneInv => DoneIsStored
  BY DEF DoneInv
<1> QED BY <1>1, <1>2, DoneStep, PTL DEF Spec

----------------------------------------------------------------------------
\* What makes FinishedWalkCovers inductive: a walk has left a cursor at every
\* period before the one it stands at, and cursors are never removed.
Passed(w) == \A p \in Periods : p < at[w] => cursors[p] # "absent"
CoverInv  == TypeInv /\ FinishedWalkCovers /\ \A w \in Walks : Passed(w)

\* No step removes a cursor.
LEMMA CursorsStay ==
  ASSUME TypeInv, [Next]_vars
  PROVE  \A p \in Periods : cursors[p] # "absent" => cursors'[p] # "absent"
<1>1. ASSUME NEW w \in Walks, Record(w, "record", "done") \/ Record(w, "fail", "failed")
      PROVE  \A p \in Periods : cursors[p] # "absent" => cursors'[p] # "absent"
  BY <1>1 DEF Record, TypeInv, TypeOK
<1>2. ASSUME cursors' = cursors
      PROVE  \A p \in Periods : cursors[p] # "absent" => cursors'[p] # "absent"
  BY <1>2
<1> QED BY <1>1, <1>2
        DEF Next, Step, Start, Check, IngestWithoutUrl, Ingest, RecordDone, RecordFailed,
            AwaitRaises, Lose, vars

\* A walk that advances from a period with a cursor keeps what it has passed.
LEMMA AdvancePasses ==
  ASSUME TypeInv, NEW w \in Walks, Advance(w), Passed(w), cursors'[at[w]] # "absent",
         \A p \in Periods : cursors[p] # "absent" => cursors'[p] # "absent"
  PROVE  /\ \A p \in Periods : p < at'[w] => cursors'[p] # "absent"
         /\ pc'[w] = "finished" => \A p \in Periods : cursors'[p] # "absent"
         /\ \A v \in Walks \ {w} : at'[v] = at[v] /\ pc'[v] = pc[v]
<1>1. CASE at[w] < LastPeriod /\ at' = [at EXCEPT ![w] = @ + 1] /\ Goto(w, "check")
  BY <1>1, PeriodAssumption DEF Passed, TypeInv, TypeOK, Periods, Goto
<1>2. CASE at[w] = LastPeriod /\ at' = [at EXCEPT ![w] = 1] /\ Goto(w, "finished")
  BY <1>2, PeriodAssumption DEF Passed, TypeInv, TypeOK, Periods, Goto
<1> QED BY <1>1, <1>2 DEF Advance

LEMMA CoverStep == CoverInv /\ [Next]_vars => CoverInv'
<1> SUFFICES ASSUME CoverInv, [Next]_vars PROVE CoverInv'
  OBVIOUS
<1> USE DEF CoverInv
<1>0. TypeInv' /\ \A p \in Periods : cursors[p] # "absent" => cursors'[p] # "absent"
  BY TypeStep, CursorsStay
\* A step by which walks stay or go back, and none finishes.
<1>1. ASSUME \A v \in Walks : at'[v] = at[v] \/ at'[v] = 1,
             \A v \in Walks : pc'[v] = "finished" => pc[v] = "finished"
      PROVE  CoverInv'
  BY <1>0, <1>1 DEF Passed, FinishedWalkCovers, Periods
<1>2. ASSUME NEW w \in Walks, Advance(w), cursors'[at[w]] # "absent" PROVE CoverInv'
  BY <1>0, <1>2, AdvancePasses DEF Passed, FinishedWalkCovers
<1>3. ASSUME NEW w \in Walks, Raise(w) PROVE CoverInv'
  <2>1. Handler(w) # "finished"
    BY DEF Handler
  <2>2. \A v \in Walks : at'[v] = at[v] \/ at'[v] = 1
    BY <1>3 DEF Raise, TypeInv, TypeOK
  <2> QED BY <1>1, <1>3, <2>1, <2>2 DEF Raise, Goto, TypeInv, TypeOK
<1>4. ASSUME NEW w \in Walks, Start(w) PROVE CoverInv'
  BY <1>1, <1>4 DEF Start, Goto, TypeInv, TypeOK
<1>5. ASSUME NEW w \in Walks, Check(w) PROVE CoverInv'
  <2>1. CASE Skipped(period(w)) /\ Advance(w)
    BY <1>2, <1>5, <2>1 DEF Check, Skipped, period
  <2>2. CASE Goto(w, "ingest") /\ at' = at
    BY <1>1, <2>2 DEF Goto, TypeInv, TypeOK
  <2> QED BY <1>5, <2>1, <2>2 DEF Check
<1>6. ASSUME NEW w \in Walks, IngestWithoutUrl(w) PROVE CoverInv'
  BY <1>1, <1>6 DEF IngestWithoutUrl, Handler, Goto, TypeInv, TypeOK
<1>7. ASSUME NEW w \in Walks, Ingest(w) PROVE CoverInv'
  <2>1. CASE Goto(w, "record") /\ UNCHANGED <<at, faults>>
    BY <1>1, <2>1 DEF Goto, TypeInv, TypeOK
  <2> QED BY <1>3, <1>7, <2>1 DEF Ingest
<1>8. ASSUME NEW w \in Walks, NEW label \in {"record", "fail"}, NEW status \in {"done", "failed"},
             Record(w, label, status)
      PROVE  CoverInv'
  <2>1. cursors'[at[w]] # "absent"
    BY <1>8 DEF Record, period, TypeInv, TypeOK
  <2> QED BY <1>2, <1>3, <1>8, <2>1 DEF Record
<1>9. ASSUME NEW w \in Walks, Lose(w) PROVE CoverInv'
  BY <1>1, <1>9 DEF Lose, Goto, TypeInv, TypeOK
<1>10. CASE UNCHANGED vars
  BY <1>1, <1>10 DEF vars, walk
<1> QED BY <1>3, <1>4, <1>5, <1>6, <1>7, <1>8, <1>9, <1>10
        DEF Next, Step, RecordDone, RecordFailed, AwaitRaises

\* A walk that reaches its end has left a cursor, done or failed, at every period.
THEOREM FinishedCovers == Spec => []FinishedWalkCovers
<1>1. Init => CoverInv
  BY TypeInit, PeriodAssumption DEF Init, CoverInv, FinishedWalkCovers, Passed, Periods
<1>2. CoverInv => FinishedWalkCovers
  BY DEF CoverInv
<1> QED BY <1>1, <1>2, CoverStep, PTL DEF Spec

----------------------------------------------------------------------------
\* The store is as new as the files of the periods up to n.
UpTo(n) == \A p \in Periods, k \in Keys :
  p <= n /\ FileOf[p] # NoFile => Snapshot[FileOf[p]][k] <= notices[k]

\* How far a walk has brought the store.
Reach(w) == CASE pc[w] = "finished" -> LastPeriod [] pc[w] = "record" -> at[w] [] OTHER -> at[w] - 1

\* A first walk nothing has disturbed: the periods before it have been stored, those
\* from where it stands have no cursor yet, and it only fails where there is no file.
Undisturbed(w) ==
  /\ \A v \in Walks \ {w} : pc[v] = "idle"
  /\ pc[w] \notin {"idle", "aborted"} /\ UpTo(Reach(w))
  /\ pc[w] = "fail" => FileOf[at[w]] = NoFile
  /\ pc[w] # "finished" => \A p \in Periods : at[w] <= p => cursors[p] = "absent"

CurrentInv ==
  /\ TypeInv
  /\ alone = "none" => (\A w \in Walks : pc[w] = "idle") /\ (\A p \in Periods : cursors[p] = "absent")
  /\ alone = "one" /\ faults = 0 => \E w \in Walks : Undisturbed(w)

LEMMA CurrentStep == CurrentInv /\ [Next]_vars => CurrentInv'
<1> SUFFICES ASSUME CurrentInv, [Next]_vars PROVE CurrentInv'
  OBVIOUS
<1>0. TypeInv /\ TypeInv'
  BY TypeStep DEF CurrentInv
<1>1. CASE UNCHANGED vars
  BY <1>0, <1>1 DEF CurrentInv, Undisturbed, UpTo, Reach, vars, walk
<1>2. ASSUME NEW w \in Walks, Start(w) PROVE CurrentInv'
  <2>1. CASE alone = "none"
    <3>1. pc' = [pc EXCEPT ![w] = "check"] /\ at' = at /\ at[w] = 1 /\ cursors' = cursors
      BY <1>0, <1>2, <2>1 DEF Start, Goto, CurrentInv, TypeInv
    <3>2. Reach(w)' = 0
      BY <1>0, <3>1 DEF Reach, TypeInv, TypeOK
    <3>3. UpTo(Reach(w))'
      BY <3>2 DEF UpTo, Periods
    <3>4. Undisturbed(w)'
      BY <1>0, <2>1, <3>1, <3>3 DEF Undisturbed, CurrentInv, TypeInv, TypeOK
    <3> QED BY <1>0, <1>2, <2>1, <3>4 DEF CurrentInv, Start
  <2>2. CASE alone # "none"
    BY <1>0, <1>2, <2>2 DEF CurrentInv, Start
  <2> QED BY <2>1, <2>2
<1>3. ASSUME NEW w \in Walks, Step(w) \/ Lose(w) PROVE CurrentInv'
  <2>1. pc[w] # "idle" /\ alone' = alone
    BY <1>3 DEF Step, Check, IngestWithoutUrl, Ingest, RecordDone, RecordFailed, Record, AwaitRaises,
                Lose
  <2>2. alone # "none"
    BY <2>1 DEF CurrentInv
  <2>3. SUFFICES ASSUME alone = "one", faults' = 0 PROVE \E v \in Walks : Undisturbed(v)'
    BY <1>0, <2>1, <2>2 DEF CurrentInv
  <2>4. ~Raise(w) /\ ~Lose(w) /\ ~AwaitRaises(w) /\ faults = 0
    BY <1>0, <1>3, <2>3 DEF Raise, Lose, AwaitRaises, Step, Check, IngestWithoutUrl, Ingest,
                            RecordDone, RecordFailed, Record, TypeInv, TypeOK
  <2>5. Undisturbed(w)
    BY <2>1, <2>3, <2>4 DEF CurrentInv, Undisturbed
  <2>6. at[w] \in Periods /\ pc[w] \in {"check", "ingest", "record", "fail"} => cursors[at[w]] = "absent"
    BY <1>0, <2>5 DEF Undisturbed, TypeInv, TypeOK, Periods
  \* A step of w that keeps the notices and goes on from a period it has brought the store to.
  <2>7. ASSUME Advance(w), notices' = notices, UpTo(at[w]), pc[w] # "finished",
               \A p \in Periods : at[w] < p => cursors'[p] = cursors[p]
        PROVE  Undisturbed(w)'
    <3>1. CASE at[w] < LastPeriod /\ at' = [at EXCEPT ![w] = @ + 1] /\ Goto(w, "check")
      <4>1. at'[w] = at[w] + 1 /\ at[w] \in Nat /\ pc' = [pc EXCEPT ![w] = "check"] /\ pc'[w] = "check"
        BY <1>0, <3>1 DEF Goto, TypeInv, TypeOK, Periods
      <4>2. Reach(w)' = at[w]
        BY <4>1 DEF Reach
      <4>3. UpTo(Reach(w))'
        BY <2>7, <4>2 DEF UpTo
      <4>4. \A p \in Periods : at'[w] <= p => cursors'[p] = "absent"
        BY <2>5, <2>7, <4>1 DEF Undisturbed, Periods
      <4> QED BY <1>0, <2>5, <4>1, <4>3, <4>4 DEF Undisturbed, TypeInv, TypeOK
    <3>2. CASE at[w] = LastPeriod /\ at' = [at EXCEPT ![w] = 1] /\ Goto(w, "finished")
      BY <1>0, <2>5, <2>7, <3>2 DEF Undisturbed, UpTo, Reach, Goto, TypeInv, TypeOK, Periods
    <3> QED BY <2>7, <3>1, <3>2 DEF Advance
  <2>8. CASE Check(w)
    <3>1. ~Skipped(period(w))
      BY <1>0, <2>5, <2>8 DEF Check, Skipped, period, Undisturbed, TypeInv, TypeOK, Periods
    <3>2. Goto(w, "ingest") /\ at' = at /\ cursors' = cursors /\ notices' = notices
      BY <2>8, <3>1 DEF Check
    <3> QED BY <1>0, <2>5, <2>8, <3>2
            DEF Check, Undisturbed, UpTo, Reach, Goto, TypeInv, TypeOK
  <2>9. CASE IngestWithoutUrl(w)
    BY <1>0, <2>5, <2>9
       DEF IngestWithoutUrl, Handler, period, Undisturbed, UpTo, Reach, Goto, TypeInv, TypeOK
  <2>10. CASE Ingest(w)
    <3> DEFINE f == FileOf[at[w]]
    <3>1. /\ f \in Files /\ f # NoFile /\ at[w] \in Periods
          /\ pc' = [pc EXCEPT ![w] = "record"] /\ at' = at /\ cursors' = cursors /\ pc[w] = "ingest"
          /\ notices' = [k \in Keys |-> IF Snapshot[f][k] = 0 THEN notices[k] ELSE Snapshot[f][k]]
      BY <1>0, <2>4, <2>10, FileAssumption DEF Ingest, Goto, period, TypeInv, TypeOK
    <3>2. \A p \in Periods, k \in Keys :
            p <= at[w] - 1 /\ FileOf[p] # NoFile => Snapshot[FileOf[p]][k] <= notices[k]
      BY <2>5, <3>1 DEF Undisturbed, UpTo, Reach
    <3>3. ASSUME NEW p \in Periods, NEW k \in Keys, p <= at[w], FileOf[p] # NoFile
          PROVE  Snapshot[FileOf[p]][k] <= notices'[k]
      <4>1. FileOf[p] \in Files /\ Snapshot[FileOf[p]][k] \in Nat /\ Snapshot[f][k] \in Nat /\ notices[k] \in Nat
        BY <1>0, <3>1, <3>3, FileAssumption, SnapshotAssumption DEF TypeInv, TypeOK
      <4>2. CASE p = at[w]
        BY <3>1, <4>1, <4>2
      <4>3. CASE p < at[w] /\ Snapshot[f][k] = 0
        BY <3>1, <3>2, <3>3, <4>1, <4>3 DEF Periods
      <4>4. CASE p < at[w] /\ Snapshot[f][k] # 0
        BY <3>1, <3>3, <4>1, <4>4, ChronologyAssumption
      <4> QED BY <3>1, <3>3, <4>2, <4>3, <4>4 DEF Periods
    <3>4. UpTo(Reach(w))'
      BY <1>0, <3>1, <3>3 DEF UpTo, Reach, TypeInv, TypeOK
    <3> QED BY <1>0, <2>5, <3>1, <3>4 DEF Undisturbed, TypeInv, TypeOK
  <2>11. CASE RecordDone(w)
    <3>1. UpTo(at[w])
      BY <2>5, <2>11 DEF Undisturbed, Reach, RecordDone, Record
    <3> QED BY <1>0, <2>4, <2>7, <2>11, <3>1
            DEF RecordDone, Record, period, TypeInv, TypeOK, Periods
  <2>12. CASE RecordFailed(w)
    <3>1. UpTo(at[w] - 1) /\ FileOf[at[w]] = NoFile
      BY <2>5, <2>12 DEF Undisturbed, Reach, RecordFailed, Record
    <3>2. UpTo(at[w])
      BY <1>0, <3>1 DEF UpTo, TypeInv, TypeOK, Periods
    <3> QED BY <1>0, <2>4, <2>7, <2>12, <3>2
            DEF RecordFailed, Record, period, TypeInv, TypeOK, Periods
  <2> QED BY <1>3, <2>4, <2>8, <2>9, <2>10, <2>11, <2>12 DEF Step
<1> QED BY <1>1, <1>2, <1>3 DEF Next

\* A walk that has been alone and has met no failure ends with the newest snapshot of
\* every notice in the store: the loop takes the periods from the oldest on.
THEOREM UndisturbedCurrent == Spec => []UndisturbedWalkIsCurrent
<1>1. Init => CurrentInv
  BY TypeInit DEF Init, CurrentInv
<1>2. CurrentInv => UndisturbedWalkIsCurrent
  <2> SUFFICES ASSUME CurrentInv, alone = "one", faults = 0, NEW w \in Walks, pc[w] = "finished"
               PROVE  Current
    BY DEF UndisturbedWalkIsCurrent
  <2>1. Undisturbed(w)
    BY DEF CurrentInv, Undisturbed
  <2>2. UpTo(LastPeriod)
    BY <2>1 DEF Undisturbed, Reach
  <2> QED BY <2>2, PeriodAssumption DEF UpTo, Current, Periods
<1> QED BY <1>1, <1>2, CurrentStep, PTL DEF Spec

=============================================================================
