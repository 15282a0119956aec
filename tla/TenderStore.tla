---------------------------- MODULE TenderStore ----------------------------
(***************************************************************************)
(* The tables tenders, tender_documents and tender_embeddings under        *)
(* concurrent calls of SourceIngestor._persist_and_embed: upsert_tenders   *)
(* in one READ COMMITTED transaction over the whole batch, one action per  *)
(* statement SQLAlchemy emits, then upsert_embeddings in a second one.     *)
(* Three facts of the database layer matter: a flush writes only columns   *)
(* that differ from what the session loaded; whoever writes a row, or      *)
(* inserts a unique key, that another transaction has written waits for    *)
(* its end; Postgres aborts a transaction of a cycle of waits.             *)
(***************************************************************************)
EXTENDS Naturals, Sequences, FiniteSets

CONSTANTS
  Writers,     \* calls of _persist_and_embed
  Keys,        \* dedupe keys, one per (source, external_id)
  Columns,     \* the data columns of tenders
  Values,      \* what a column may hold
  Versions,    \* snapshots a source publishes of a notice
  Content,     \* Content[v][c] is column c of snapshot v
  Urls,        \* document links
  Links,       \* Links[v] is the set of document links of snapshot v
  Vectorless,  \* the snapshots that the embedder returns an empty vector for
  Batches,     \* Batches[w] is the set of batches of tenders call w may be given
  Keep,        \* marks a column that a transaction has not written
  NoRow,       \* what a session holds of a tender it has not loaded
  NoWriter     \* no call yet

Item == [key : Keys, ver : Versions]

ASSUME ContentAssumption == Content \in [Versions -> [Columns -> Values]]
ASSUME LinksAssumption   == Links \in [Versions -> SUBSET Urls]
ASSUME FiniteAssumption  == IsFiniteSet(Urls)
ASSUME BatchesAssumption == Batches \in [Writers -> SUBSET Seq(Item)]
ASSUME SentinelAssumption ==
  Keep \notin Values /\ NoRow \notin [Columns -> Values] /\ NoWriter \notin Writers

VARIABLES
  rows,         \* committed rows of tenders
  docs,         \* committed rows of tender_documents
  embeddings,   \* committed rows of tender_embeddings, of one provider and model
  pc,           \* the next statement of each call
  batch,        \* the tenders the call was given
  at,           \* position in the batch of the tender being upserted
  tx,           \* what the session of upsert_tenders has loaded and written
  emb,          \* what the session of upsert_embeddings deletes
  lastWriter,   \* history: the call that committed a tender last
  lastEmbedder, \* history: the call that committed its embeddings last
  txOverlap,    \* history: calls whose first transactions ran at the same time
  embOverlap    \* history: calls whose second transactions ran at the same time

tables  == <<rows, docs, embeddings>>
call    == <<batch, at>>
history == <<lastWriter, lastEmbedder, txOverlap, embOverlap>>
vars    == <<tables, pc, call, tx, emb, history>>

----------------------------------------------------------------------------
\* Rows.  A document or embedding row is identified by the call and the batch
\* position that created it, where the code draws a uuid.
Row       == [key : Keys, id : Writers, cols : [Columns -> Values]]
Doc       == [key : Keys, url : Urls, by : Writers, at : Nat]
Embedding == [key : Keys, ver : Versions, by : Writers, at : Nat]

Tx == [loaded     : [Keys -> [Columns -> Values] \cup {NoRow}],
       collection : [Keys -> SUBSET Doc],                  \* record.documents
       inserted   : SUBSET Keys,
       assigned   : [Keys -> [Columns -> Values \cup {Keep}]],
       newDocs    : SUBSET Doc,
       deadDocs   : SUBSET Doc]                            \* committed rows it deletes

NoWrite == [c \in Columns |-> Keep]
NoTx == [loaded |-> [k \in Keys |-> NoRow], collection |-> [k \in Keys |-> {}],
         inserted |-> {}, assigned |-> [k \in Keys |-> NoWrite], newDocs |-> {}, deadDocs |-> {}]
NoEmb == [victims |-> {}, dropped |-> {}]

InTx  == {"select", "documents", "insert", "update", "write", "commit"}
InEmb == {"lock", "replace"}
Ended == {"aborted", "done", "failed"}

item(w) == batch[w][at[w]]
key(w)  == item(w).key
KeysOf(b) == {b[i].key : i \in DOMAIN b}

\* The pairs that upsert_embeddings keeps, by their place in the batch: empty vectors are skipped.
Clean(b) == {i \in DOMAIN b : b[i].ver \notin Vectorless}
CleanKeys(b) == {b[i].key : i \in Clean(b)}

Committed(k) == {r \in rows : r.key = k}
DocumentsOf(k) == {d \in docs : d.key = k}

\* What the session believes the columns of a tender to be.
Current(w, k) ==
  [c \in Columns |-> IF tx[w].assigned[k][c] # Keep THEN tx[w].assigned[k][c]
                                                    ELSE tx[w].loaded[k][c]]

InIdentityMap(w, k) == k \in tx[w].inserted \/ tx[w].loaded[k] # NoRow

\* _document_to_record of each document of the tender at position i.
DocumentRecords(w, i) ==
  {[key |-> batch[w][i].key, url |-> u, by |-> w, at |-> i] : u \in Links[batch[w][i].ver]}

----------------------------------------------------------------------------
\* Locks and waits.
RowLocks(w) == {k \in Keys : tx[w].assigned[k] # NoWrite}

\* The columns the flush of the current tender writes.
Changed(w) == {c \in Columns : Content[item(w).ver][c] # Current(w, key(w))[c]}

\* The calls whose transactions must end before the next statement of w runs.
WaitsFor(w) ==
  {u \in Writers \ {w} :
     \/ pc[w] = "insert" /\ key(w) \in tx[u].inserted
     \/ pc[w] = "update" /\ Changed(w) # {} /\ key(w) \in RowLocks(u)
     \/ pc[w] = "write"  /\ tx[w].collection[key(w)] \cap tx[u].deadDocs # {}
     \/ pc[w] = "lock"   /\ emb[w].victims \cap emb[u].dropped # {}}

Deadlocked(w) ==
  \E S \in SUBSET Writers :
    /\ w \in S
    /\ \A u \in S : (\E v \in S : v \in WaitsFor(u)) /\ (\E v \in S : u \in WaitsFor(v))

----------------------------------------------------------------------------
Init ==
  /\ rows = {} /\ docs = {} /\ embeddings = {}
  /\ pc = [w \in Writers |-> "idle"]
  /\ batch = [w \in Writers |-> <<>>] /\ at = [w \in Writers |-> 1]
  /\ tx = [w \in Writers |-> NoTx] /\ emb = [w \in Writers |-> NoEmb]
  /\ lastWriter = [k \in Keys |-> NoWriter] /\ lastEmbedder = [k \in Keys |-> NoWriter]
  /\ txOverlap = [w \in Writers |-> {}] /\ embOverlap = [w \in Writers |-> {}]

Goto(w, label) == pc' = [pc EXCEPT ![w] = label]

\* w starts a transaction beside the calls that are at one of the labels.
Meets(overlap, w, labels) ==
  LET beside == {u \in Writers \ {w} : pc[u] \in labels}
  IN  [u \in Writers |-> IF u = w THEN beside
                         ELSE IF u \in beside THEN overlap[u] \cup {w} ELSE overlap[u]]

Begin(w, b) ==
  /\ pc[w] = "idle"
  /\ batch' = [batch EXCEPT ![w] = b]
  /\ Goto(w, IF b = <<>> THEN "commit" ELSE "select")
  /\ txOverlap' = Meets(txOverlap, w, InTx)
  /\ UNCHANGED <<tables, at, tx, emb, lastWriter, lastEmbedder, embOverlap>>

\* SELECT ... WHERE dedupe_key.  For a tender the session holds already, the
\* identity map keeps the attributes and the documents it has.
Select(w) ==
  LET k == key(w) IN
  /\ pc[w] = "select"
  /\ \/ InIdentityMap(w, k) /\ Goto(w, "update") /\ tx' = tx
     \/ ~InIdentityMap(w, k) /\ Committed(k) = {} /\ Goto(w, "insert") /\ tx' = tx
     \/ /\ ~InIdentityMap(w, k) /\ Goto(w, "documents")
        /\ \E r \in Committed(k) : tx' = [tx EXCEPT ![w].loaded[k] = r.cols]
  /\ UNCHANGED <<tables, call, emb, history>>

\* Mutant: the documents are not loaded with the tender, so none is an orphan.
NothingLoaded(k) == {}

\* What selectinload(TenderRecord.documents) reads, in a statement of its own.
LoadedDocuments(k) == DocumentsOf(k)

SelectDocuments(w) ==
  /\ pc[w] = "documents"
  /\ tx' = [tx EXCEPT ![w].collection[key(w)] = LoadedDocuments(key(w))]
  /\ Goto(w, "update")
  /\ UNCHANGED <<tables, call, emb, history>>

\* Mutant: the table has no unique index on dedupe_key.
NotIndexed(k) == {}

\* What the unique index holds against the INSERT of a key.
Conflicts(k) == Committed(k)

Insert(w) ==
  LET k == key(w) IN
  /\ pc[w] = "insert" /\ WaitsFor(w) = {} /\ Conflicts(k) = {}
  /\ tx' = [tx EXCEPT ![w].inserted = @ \cup {k}, ![w].assigned[k] = Content[item(w).ver]]
  /\ Goto(w, "write")
  /\ UNCHANGED <<tables, call, emb, history>>

\* _apply_tender and the UPDATE of the changed columns: none when none changed.
Update(w) ==
  /\ pc[w] = "update" /\ WaitsFor(w) = {}
  /\ tx' = [tx EXCEPT ![w].assigned[key(w)] =
              [c \in Columns |-> IF c \in Changed(w) THEN Content[item(w).ver][c] ELSE @[c]]]
  /\ Goto(w, "write")
  /\ UNCHANGED <<tables, call, emb, history>>

Advance(w) ==
  IF at[w] < Len(batch[w]) THEN at' = [at EXCEPT ![w] = @ + 1] /\ Goto(w, "select")
                           ELSE at' = at /\ Goto(w, "commit")

\* record.documents becomes `stored`: the rows that are gone from it are deleted,
\* unless another transaction has deleted them already.
ReplaceDocuments(w, stored) ==
  LET k == key(w)
      gone == tx[w].collection[k] \ stored
  IN  tx' = [tx EXCEPT ![w].newDocs = (@ \ gone) \cup (stored \ tx[w].collection[k]),
                       ![w].deadDocs = @ \cup (gone \cap docs),
                       ![w].collection[k] = stored]

\* Mutant: a loaded document row is kept when the tender still links its url.
ReuseByUrl(w) ==
  LET kept == {d \in tx[w].collection[key(w)] : d.url \in Links[item(w).ver]}
  IN  kept \cup {d \in DocumentRecords(w, at[w]) : \A o \in kept : o.url # d.url}

\* record.documents = document_records
NewCollection(w) == DocumentRecords(w, at[w])

WriteDocuments(w) ==
  /\ pc[w] = "write" /\ WaitsFor(w) = {}
  /\ ReplaceDocuments(w, NewCollection(w))
  /\ Advance(w)
  /\ UNCHANGED <<tables, batch, emb, history>>

\* Mutant: a tender found again is deleted and inserted with a new id.
Recreated(w, r) ==
  IF r.key \in RowLocks(w) THEN [r EXCEPT !.id = w, !.cols = Current(w, r.key)] ELSE r

\* The transaction's UPDATE of a row, applied to the row as it is now.
Overwritten(w, r) ==
  [r EXCEPT !.cols = [c \in Columns |-> IF tx[w].assigned[r.key][c] # Keep
                                        THEN tx[w].assigned[r.key][c] ELSE r.cols[c]]]

Commit(w) ==
  /\ pc[w] = "commit"
  /\ rows' = {Overwritten(w, r) : r \in rows}
       \cup {[key |-> k, id |-> w, cols |-> tx[w].assigned[k]] : k \in tx[w].inserted}
  /\ docs' = (docs \ tx[w].deadDocs) \cup tx[w].newDocs
  /\ tx' = [tx EXCEPT ![w] = NoTx]
  /\ lastWriter' = [k \in Keys |-> IF k \in KeysOf(batch[w]) THEN w ELSE lastWriter[k]]
  /\ Goto(w, IF batch[w] = <<>> THEN "done" ELSE "embed")
  /\ UNCHANGED <<embeddings, call, emb, lastEmbedder, txOverlap, embOverlap>>

Rollback(w) ==
  /\ tx' = [tx EXCEPT ![w] = NoTx]
  /\ Goto(w, "aborted")
  /\ UNCHANGED <<tables, call, emb, history>>

\* The transaction that inserted the key first has committed.
Conflicting(w) == pc[w] = "insert" /\ WaitsFor(w) = {} /\ Conflicts(key(w)) # {}

\* Mutant: the conflict is caught, the session rolled back and the loop goes on.
ConflictSkipped(w) ==
  /\ Conflicting(w)
  /\ tx' = [tx EXCEPT ![w] = NoTx]
  /\ Advance(w)
  /\ UNCHANGED <<tables, batch, emb, history>>

\* Mutant: the INSERT is sent again until it succeeds.
ConflictRetried(w) == Conflicting(w) /\ UNCHANGED vars

\* IntegrityError leaves upsert_tenders.
InsertConflict(w) == Conflicting(w) /\ Rollback(w)

DeadlockAbort(w) == pc[w] \in InTx /\ Deadlocked(w) /\ Rollback(w)

\* The connection, the task or the process is lost inside the transaction.
Lose(w) == pc[w] \in InTx /\ Rollback(w)

----------------------------------------------------------------------------
\* No embedder, an exception of embed(), a wrong number of vectors or none that is not
\* empty: the ids are returned all the same.
EmbedSkipped(w) ==
  /\ pc[w] = "embed"
  /\ Goto(w, "done")
  /\ UNCHANGED <<tables, call, tx, emb, history>>

\* Mutant: upsert_embeddings adds rows and deletes none.
NoVictims(w) == {}

\* The rows the DELETE of upsert_embeddings sees when it starts.
Victims(w) == {e \in embeddings : e.key \in CleanKeys(batch[w])}

DeleteEmbeddings(w) ==
  /\ pc[w] = "embed" /\ Clean(batch[w]) # {}
  /\ emb' = [emb EXCEPT ![w].victims = Victims(w)]
  /\ embOverlap' = Meets(embOverlap, w, InEmb)
  /\ Goto(w, "lock")
  /\ UNCHANGED <<tables, call, tx, lastWriter, lastEmbedder, txOverlap>>

\* Mutant: the DELETE is committed by itself, before the INSERT.
DeleteCommitted(w) ==
  /\ pc[w] = "lock" /\ WaitsFor(w) = {}
  /\ embeddings' = embeddings \ emb[w].victims
  /\ Goto(w, "replace")
  /\ UNCHANGED <<rows, docs, call, tx, emb, history>>

\* The DELETE has its row locks, all at once; a row deleted meanwhile is skipped.
LockEmbeddings(w) ==
  /\ pc[w] = "lock" /\ WaitsFor(w) = {}
  /\ emb' = [emb EXCEPT ![w].dropped = emb[w].victims \cap embeddings]
  /\ Goto(w, "replace")
  /\ UNCHANGED <<tables, call, tx, history>>

EndEmbedding(w, label) ==
  /\ emb' = [emb EXCEPT ![w] = NoEmb]
  /\ Goto(w, label)
  /\ UNCHANGED <<rows, docs, call, tx, lastWriter, txOverlap, embOverlap>>

\* INSERT one row per vector and commit.  The UPDATE of embedding_vector in between writes
\* only rows that the DELETE has locked or nobody else can see: it is part of the step.
ReplaceEmbeddings(w) ==
  /\ pc[w] = "replace"
  /\ embeddings' = (embeddings \ emb[w].dropped) \cup
       {[key |-> batch[w][i].key, ver |-> batch[w][i].ver, by |-> w, at |-> i] : i \in Clean(batch[w])}
  /\ lastEmbedder' = [k \in Keys |-> IF k \in CleanKeys(batch[w]) THEN w ELSE lastEmbedder[k]]
  /\ EndEmbedding(w, "done")

\* upsert_embeddings raises (mixed dimensions, a lost connection) and rolls back;
\* the exception leaves _persist_and_embed.
EmbeddingsFail(w) ==
  /\ pc[w] \in {"embed"} \cup InEmb
  /\ EndEmbedding(w, "failed")
  /\ UNCHANGED <<embeddings, lastEmbedder>>

----------------------------------------------------------------------------
\* What a call does once it has begun, short of a failure from outside.
Step(w) ==
  \/ Select(w) \/ SelectDocuments(w) \/ Insert(w) \/ Update(w) \/ WriteDocuments(w)
  \/ Commit(w) \/ InsertConflict(w) \/ DeadlockAbort(w)
  \/ EmbedSkipped(w) \/ DeleteEmbeddings(w) \/ LockEmbeddings(w) \/ ReplaceEmbeddings(w)

Next ==
  \E w \in Writers :
    Step(w) \/ (\E b \in Batches[w] : Begin(w, b)) \/ Lose(w) \/ EmbeddingsFail(w)

\* The event loop schedules a call that has begun and the database answers it, or
\* detects its deadlock; nothing obliges a call to begin or to fail.
Spec == Init /\ [][Next]_vars /\ \A w \in Writers : WF_vars(Step(w))

----------------------------------------------------------------------------
TypeOK ==
  /\ rows \subseteq Row /\ docs \subseteq Doc /\ embeddings \subseteq Embedding
  /\ pc \in [Writers -> {"idle", "embed"} \cup InTx \cup InEmb \cup Ended]
  /\ batch \in [Writers -> Seq(Item)] /\ at \in [Writers -> Nat \ {0}]
  /\ tx \in [Writers -> Tx]
  /\ emb \in [Writers -> [victims : SUBSET Embedding, dropped : SUBSET Embedding]]
  /\ lastWriter \in [Keys -> Writers \cup {NoWriter}]
  /\ lastEmbedder \in [Keys -> Writers \cup {NoWriter}]
  /\ txOverlap \in [Writers -> SUBSET Writers] /\ embOverlap \in [Writers -> SUBSET Writers]

\* upsert_tenders of the call has committed.
Persisted(w) == pc[w] \in {"embed", "done", "failed"} \cup InEmb

\* No later position of the batch holds the tender of position i.
IsLast(w, i) == \A j \in DOMAIN batch[w] : batch[w][j].key = batch[w][i].key => j <= i

\* The last snapshot of a tender in the batch of a call.
LastVersion(w, k) ==
  batch[w][CHOOSE i \in DOMAIN batch[w] : batch[w][i].key = k /\ IsLast(w, i)].ver

\* A notice has one row however many calls upsert it at the same time: neither the
\* SELECT by dedupe_key nor the unique index behind it leaves a way round.
OneRowPerTender == \A r, s \in rows : r.key = s.key => r = s

\* A batch is stored whole or not at all: only committed calls have left rows and
\* documents, and every tender whose id a call returned is in the table.
BatchAtomic ==
  /\ \A r \in rows : Persisted(r.id)
  /\ \A d \in docs : Persisted(d.by)
  /\ \A w \in Writers : Persisted(w) => \A k \in KeysOf(batch[w]) : \E r \in rows : r.key = k

\* A tender keeps its id through every re-ingest: the job results and embeddings
\* that other calls have stored refer to it.
TenderIdsAreStable ==
  [][\A r \in rows : \E s \in rows' : s.key = r.key /\ s.id = r.id]_vars

\* Every link of the snapshot committed last has a row in tender_documents, also
\* when another call was replacing the documents of the tender at the same time.
NewestDocumentsPresent ==
  \A w \in Writers : \A i \in DOMAIN batch[w] : LET k == batch[w][i].key IN
    lastWriter[k] = w /\ IsLast(w, i) =>
      \A u \in Links[batch[w][i].ver] : \E d \in docs : d.key = k /\ d.url = u

\* A call beside which no other committed call upserted the tender leaves the
\* tender and its documents exactly as its snapshot has them, whatever mixture of
\* columns and documents it has found.
SerialUpsertIsWhole ==
  \A k \in Keys : LET w == lastWriter[k] IN
    (w # NoWriter /\ \A u \in txOverlap[w] : ~(Persisted(u) /\ k \in KeysOf(batch[u])))
    => /\ \A r \in Committed(k) : r.cols = Content[LastVersion(w, k)]
       /\ {d.url : d \in DocumentsOf(k)} = Links[LastVersion(w, k)]
       /\ Cardinality(DocumentsOf(k)) = Cardinality(Links[LastVersion(w, k)])

\* A tender that semantic search can find stays findable: no step of any call
\* leaves a tender that had an embedding without one.
EmbeddingKept == [][\A e \in embeddings : \E f \in embeddings' : f.key = e.key]_vars

\* upsert_embeddings leaves one row, of its own text, for a tender its batch has one
\* vector of, unless another call replaced the tender's embeddings at the same time.
SerialEmbeddingIsUnique ==
  \A k \in Keys : LET w == lastEmbedder[k] IN
    (/\ w # NoWriter
     /\ Cardinality({i \in Clean(batch[w]) : batch[w][i].key = k}) = 1
     /\ \A u \in embOverlap[w] : ~(pc[u] = "done" /\ k \in CleanKeys(batch[u])))
    => \E e \in embeddings : /\ {f \in embeddings : f.key = k} = {e}
                              /\ \A i \in Clean(batch[w]) : batch[w][i].key = k => e.ver = batch[w][i].ver

\* Every call that has begun ends, through every wait for a row or a unique key
\* that another call holds.
EveryCallEnds == \A w \in Writers : pc[w] \notin {"idle"} \cup Ended ~> pc[w] \in Ended
=============================================================================
