---------------------------- MODULE SearchSchema ----------------------------
(***************************************************************************)
(* The database schema that search needs, and the embeddings stored in it: *)
(* the Alembic revisions 0001 to 0007, the commands init-db, migrate-db    *)
(* and db downgrade run by several operators at a time, the create_all     *)
(* shortcut, stamps of a revision, and `embeddings backfill` running while *)
(* the schema changes.  A database is new, or one that the create_all of   *)
(* the time before the migrations has made.                                *)
(*                                                                         *)
(* A command reads the revision of the database, then runs its migrations  *)
(* in one transaction (env.py): all of them and the new revision are       *)
(* committed together or not at all.  What a migration does besides plain  *)
(* CREATE and DROP depends on what the server offers and on the backend    *)
(* the command is configured with.                                         *)
(***************************************************************************)
EXTENDS Integers, FiniteSetsExt, SequencesExt

CONSTANTS
  Operators,     \* processes that run schema commands
  Embedders,     \* processes that run `embeddings backfill`
  Tenders,       \* notices that may be ingested
  BatchSize,     \* --batch-size
  MaxBatches,    \* --max-batches
  Commands,      \* what the operators run, see CommandRecords
  MaxCommands,   \* bound: schema commands run
  MaxIngests,    \* bound: notices stored or stored again
  MaxFaults      \* bound: calls that raise and processes that are lost

Revisions == 1..7
Backends  == {"bm25", "fts"}
Offers    == {"vector", "pg_textsearch", "preload"}

CommandRecords ==
  [kind : {"upgrade", "downgrade", "bootstrap", "stamp"}, to : 0..7, backend : Backends]

ASSUME SchemaAssumption ==
  /\ BatchSize \in Nat \ {0} /\ MaxBatches \in Nat \ {0}
  /\ Commands \subseteq CommandRecords
  /\ MaxCommands \in Nat /\ MaxIngests \in Nat /\ MaxFaults \in Nat

VARIABLES
  host,     \* what the Postgres server offers: extension files, and "preload"
  db,       \* the committed schema and the rows this module looks at
  proc,     \* each operator: the command it runs and the revision it has read
  emb,      \* each embedder: where it is, its batch, the batches it has left
  spent     \* commands, ingests and faults so far (bounded)

vars == <<host, db, proc, emb, spent>>

(***************************************************************************)
(* What the migrations create.                                             *)
(***************************************************************************)
Baseline   == {"tenders", "tender_documents", "tender_embeddings", "daily_jobs", "job_runs", "job_results"}
Omitted    == "ix_ingest_cursors_source_kind"   \* of no model, see CreateAll
Fts        == {"search_vector", "ingest_cursors", Omitted}
Scheduling == {"daily_jobs.cron", "scheduler_heartbeats"}
Parsing    == {"tender_documents.extracted_text"}
Auditing   == {"source_fetch_runs"}
Shadow     == "tender_embeddings.embedding_vector"
Bm25Index  == "idx_tenders_bm25_text"

Creates == <<Baseline, Fts, Scheduling, Parsing, Auditing, {}, {}>>

(* search_vector is added unless it exists; every other CREATE fails on    *)
(* what exists, every DROP of them on what does not.                       *)
Strict(r) == Creates[r] \ {"search_vector"}

(* What a later revision, or create_all for a new table, adds to tables of *)
(* the baseline: it goes with them.                                        *)
Columns == {"daily_jobs.cron", "tender_documents.extracted_text"}
Added   == Columns \cup {"search_vector", Shadow, Bm25Index}

Nothing == [version |-> 0, objects |-> {}, extensions |-> {}, stored |-> <<>>,
            embedded |-> [t \in Tenders |-> "none"], required |-> FALSE, astray |-> FALSE, failed |-> FALSE]

(* What the create_all of that time left: the baseline, without revision,  *)
(* and tenders in it, some of them embedded.                               *)
Legacy(some) ==
  [Nothing EXCEPT !.objects = Baseline, !.stored = SetToSeq(Tenders),
                  !.embedded = [t \in Tenders |-> IF t \in some THEN "plain" ELSE "none"]]

Has(d, object) == object \in d.objects

(* Base.metadata.create_all: every table of the models that is not there,  *)
(* with the columns and indexes the models declare; a table that is there  *)
(* stays as it is, and those of the baseline are there together.           *)
CreateAll(d) ==
  LET models == (UNION {Creates[r] : r \in Revisions}) \ {"search_vector", Omitted}
  IN  IF Has(d, "tenders") THEN models \ Columns ELSE models

(* to_regtype('vector') and the shadow column: semantic search can run.    *)
EmbeddingVectorAvailable(d) == "vector" \in d.extensions /\ Has(d, Shadow)

(* The extension and the index: text search can run under bm25.            *)
Bm25Available(d) == "pg_textsearch" \in d.extensions /\ Has(d, Bm25Index)

(***************************************************************************)
(* One step of an upgrade or a downgrade on the transaction's view d.      *)
(***************************************************************************)
Fail(d) == [d EXCEPT !.failed = TRUE]

Extend(d, extension) == [d EXCEPT !.extensions = @ \cup ({extension} \cap host)]

(* Mutant: the column is added and not filled.                             *)
ColumnOnly(d) ==
  IF "vector" \in d.extensions THEN [d EXCEPT !.objects = @ \cup {Shadow}] ELSE d

(* Add the shadow column and fill it from the JSON vectors stored so far.  *)
EnsureVector(d) ==
  IF "vector" \in d.extensions
  THEN [d EXCEPT !.objects = @ \cup {Shadow},
                 !.embedded = [t \in Tenders |-> IF @[t] = "plain" THEN "searchable" ELSE @[t]]]
  ELSE d

WithBm25(d) == [Extend(d, "pg_textsearch") EXCEPT !.objects = @ \cup {Bm25Index}]

Bm25Offered == {"pg_textsearch", "preload"} \subseteq host

(* Under fts the extension and the index are created if that works.        *)
TryBm25(d, backend) == IF Bm25Offered THEN WithBm25(d) ELSE d

(* Mutant: what cannot be created is passed over under bm25, too.          *)
SwallowBm25(d, backend) == [TryBm25(d, backend) EXCEPT !.required = backend = "bm25"]

(* Under bm25 an upgrade that cannot create them raises.                   *)
RequireBm25(d, backend) ==
  IF backend = "fts" THEN TryBm25(d, backend)
  ELSE IF Bm25Offered THEN [WithBm25(d) EXCEPT !.required = TRUE]
  ELSE Fail(d)

Body(d, r, backend) ==
  LET created == [d EXCEPT !.objects = @ \cup Creates[r]]
  IN  CASE r = 2 -> Extend(created, "vector")
        [] r = 6 -> EnsureVector(created)
        [] r = 7 -> RequireBm25(created, backend)
        [] OTHER -> created

(* The tables a revision alters, inspects or indexes have to be there:     *)
(* 0006 does it where it finds the extension, 0007 once it can create its. *)
Alters(d, r) ==
  CASE r = 2 -> {"tenders"}
    [] r = 3 -> {"daily_jobs"}
    [] r = 4 -> {"tender_documents"}
    [] r = 6 /\ "vector" \in d.extensions -> {"tender_embeddings"}
    [] r = 7 /\ "pg_textsearch" \in host -> {"tenders"}
    [] OTHER -> {}

(* The new revision is written where the old one is expected: a revision   *)
(* that another command has changed in between fails the migration.        *)
Up(d, r, backend) ==
  IF d.failed \/ d.version # r - 1 \/ d.objects \cap Strict(r) # {} \/ ~ Alters(d, r) \subseteq d.objects THEN Fail(d)
  ELSE [Body(d, r, backend) EXCEPT !.version = r]

(* The vectors go with the column, the JSON they were made from stays.     *)
DropVector(d) ==
  [d EXCEPT !.objects = @ \ {Shadow},
            !.embedded = [t \in Tenders |-> IF @[t] = "searchable" THEN "plain" ELSE @[t]]]

DropBm25(d) == [d EXCEPT !.objects = @ \ {Bm25Index}, !.required = FALSE]

DropTenders(d) ==
  [d EXCEPT !.objects = @ \ Added, !.stored = <<>>, !.embedded = [t \in Tenders |-> "none"], !.required = FALSE]

Dropped(d, r) ==
  LET kept == [d EXCEPT !.objects = @ \ Creates[r]]
  IN  CASE r = 1 -> DropTenders(kept)
        [] r = 6 -> DropVector(kept)
        [] r = 7 -> DropBm25(kept)
        [] OTHER -> kept

(* The tables that a column is dropped from if it is there.                *)
Reverts(r) == CASE r = 2 -> {"tenders"} [] r = 6 -> {"tender_embeddings"} [] OTHER -> {}

Down(d, r) ==
  IF d.failed \/ d.version # r \/ ~ (Strict(r) \cup Reverts(r)) \subseteq d.objects THEN Fail(d)
  ELSE [Dropped(d, r) EXCEPT !.version = r - 1]

(***************************************************************************)
(* The commands, as functions of what they find and the revision they      *)
(* have read: the revisions between it and the one asked for, in order.    *)
(***************************************************************************)
Climbs(d, r, seen, to, backend) == IF seen < r /\ r <= to THEN Up(d, r, backend) ELSE d

Upgrade(d, seen, to, backend) ==
  LET run(e, r) == Climbs(e, r, seen, to, backend)
  IN  run(run(run(run(run(run(run(d, 1), 2), 3), 4), 5), 6), 7)

Descends(d, r, seen, to) == IF to < r /\ r <= seen THEN Down(d, r) ELSE d

Downgrade(d, seen, to) ==
  LET run(e, r) == Descends(e, r, seen, to)
  IN  IF to > seen THEN Fail(d) ELSE run(run(run(run(run(run(run(d, 7), 6), 5), 4), 3), 2), 1)

(* pg_textsearch may be created where its index cannot.                    *)
EnsureBm25(d, backend) ==
  IF backend = "bm25" \/ Bm25Offered THEN RequireBm25(d, backend) ELSE Extend(d, "pg_textsearch")

(* create_all and _ensure_postgres_search_features, in one transaction     *)
(* that leaves no revision behind.                                         *)
Bootstrap(d, backend) ==
  LET tables == [Extend(d, "vector") EXCEPT !.objects = @ \cup CreateAll(d) \cup {"search_vector"}]
  IN  EnsureBm25(EnsureVector(tables), backend)

(* migrations.stamp: the revision is written, nothing is run.              *)
Stamp(d, to) == [d EXCEPT !.version = to]

Result(p) ==
  LET c == proc[p].cmd
  IN  CASE c.kind = "upgrade"   -> Upgrade(db, proc[p].seen, c.to, c.backend)
        [] c.kind = "downgrade" -> Downgrade(db, proc[p].seen, c.to)
        [] c.kind = "bootstrap" -> Bootstrap(db, c.backend)
        [] c.kind = "stamp"     -> Stamp(db, c.to)

(* The objects of the revisions up to a version and of none above it.  A   *)
(* database without a revision is empty, or one create_all has made, that  *)
(* of today or that of the time of the baseline.                           *)
Made(version) == UNION {Creates[r] : r \in 1..version}
Described(version) == IF version = 0 THEN {{}, Baseline, Made(7)} ELSE {Made(version)}

(* The index create_all leaves out may be missing; the shadow column and   *)
(* the BM25 index are where their revisions, or a bootstrap, have run.     *)
Matches(d) ==
  LET plain == d.objects \ {Shadow, Bm25Index}
  IN  /\ \E whole \in Described(d.version) : plain \in {whole, whole \ {Omitted}}
      /\ Has(d, Shadow) => d.version \in {0, 6, 7}
      /\ Has(d, Bm25Index) => d.version \in {0, 7}

(* A bootstrap makes a whole schema of an empty database and keeps one     *)
(* that is whole; of an older schema it makes neither that nor another.    *)
Fit(d) == d.version \in {0, 7} /\ (d.objects = {} \/ Made(7) \ {Omitted} \subseteq d.objects)

(* History: a bootstrap of a schema that is not fit for it, or a stamp of  *)
(* a revision that is not the one of the schema, has left the two apart,   *)
(* and nothing has mended it.                                              *)
Strays(c, d) == (db.astray \/ c.kind = "stamp" \/ (c.kind = "bootstrap" /\ ~ Fit(db))) /\ ~ Matches(d)

(* Nobody else works on a database while it is bootstrapped or stamped.    *)
Shortcuts   == {"bootstrap", "stamp"}
Sensible(c) == \A q \in Operators : proc[q].pc = "read" => {c.kind, proc[q].cmd.kind} \cap Shortcuts = {}

Idle == [pc |-> "idle"]
Rest == [pc |-> "idle", batch |-> {}, left |-> 0]

Init ==
  /\ host = {}
  /\ db \in {Nothing} \cup {Legacy(some) : some \in SUBSET Tenders}
  /\ proc = [p \in Operators |-> Idle]
  /\ emb = [e \in Embedders |-> Rest]
  /\ spent = [commands |-> 0, ingests |-> 0, faults |-> 0]

(* A package is installed on the server, or it is started with the preload.*)
Install ==
  /\ \E offer \in Offers \ host : host' = host \cup {offer}
  /\ UNCHANGED <<db, proc, emb, spent>>

Begin(p) ==
  /\ proc[p].pc = "idle"
  /\ spent.commands < MaxCommands
  /\ \E c \in Commands : /\ Sensible(c)
                         /\ proc' = [proc EXCEPT ![p] = [pc |-> "read", cmd |-> c, seen |-> db.version]]
  /\ spent' = [spent EXCEPT !.commands = @ + 1]
  /\ UNCHANGED <<host, db, emb>>

(* A transaction of an embedder holds tender_embeddings from its DELETE on:*)
(* ALTER TABLE and DROP TABLE wait for it.                                 *)
Locked == \E e \in Embedders : emb[e].pc = "replaced"

Finish(p) ==
  /\ proc[p].pc = "read"
  /\ ~ Locked
  /\ db' = IF Result(p).failed THEN db ELSE [Result(p) EXCEPT !.astray = Strays(proc[p].cmd, Result(p))]
  /\ proc' = [proc EXCEPT ![p] = Idle]
  /\ UNCHANGED <<host, emb, spent>>

(* The connection or the process is lost before the commit.                *)
Abort(p) ==
  /\ proc[p].pc = "read"
  /\ spent.faults < MaxFaults
  /\ spent' = [spent EXCEPT !.faults = @ + 1]
  /\ proc' = [proc EXCEPT ![p] = Idle]
  /\ UNCHANGED <<host, db, emb>>

(***************************************************************************)
(* `embeddings backfill`.                                                  *)
(***************************************************************************)
(* The documents of a tender are selected with all the columns they have   *)
(* in the models: by an update of the tender and by get_tender.            *)
Readable(d) == Has(d, "tender_documents.extracted_text")

(* An ingest stores a notice, or updates it: it is the newest then.        *)
Ingest(t) ==
  /\ Has(db, "tenders") /\ (t \in ToSet(db.stored) => Readable(db))
  /\ spent.ingests < MaxIngests
  /\ db' = [db EXCEPT !.stored = <<t>> \o SelectSeq(@, LAMBDA u : u # t)]
  /\ spent' = [spent EXCEPT !.ingests = @ + 1]
  /\ UNCHANGED <<host, proc, emb>>

(* Mutant: the batch is cut before the embedded tenders are left out.      *)
CutFirst(d) ==
  SelectSeq(SubSeq(d.stored, 1, Min({BatchSize, Len(d.stored)})), LAMBDA t : d.embedded[t] = "none")

(* tender_ids_missing_embeddings: the newest first.                        *)
Missing(d) == SelectSeq(d.stored, LAMBDA t : d.embedded[t] = "none")

Start(e) ==
  /\ emb[e].pc = "idle"
  /\ emb' = [emb EXCEPT ![e] = [pc |-> "list", batch |-> {}, left |-> MaxBatches]]
  /\ UNCHANGED <<host, db, proc, spent>>

(* Without the table the query raises; without a missing row the loop ends.*)
List(e) ==
  /\ emb[e].pc = "list"
  /\ LET ids   == Missing(db)
         batch == ToSet(SubSeq(ids, 1, Min({BatchSize, Len(ids)})))
     IN  emb' = [emb EXCEPT ![e] = IF emb[e].left = 0 \/ ~ Has(db, "tender_embeddings") \/ batch = {} THEN Rest
                                   ELSE [pc |-> "embed", batch |-> batch, left |-> emb[e].left - 1]]
  /\ UNCHANGED <<host, db, proc, spent>>

(* get_tender for each id, which may raise, then one call of the provider. *)
Embed(e) ==
  /\ emb[e].pc = "embed"
  /\ LET found == IF Readable(db) THEN emb[e].batch \cap ToSet(db.stored) ELSE {}
     IN  emb' = [emb EXCEPT ![e] = IF found = {} THEN Rest ELSE [@ EXCEPT !.pc = "write", !.batch = found]]
  /\ UNCHANGED <<host, db, proc, spent>>

(* DELETE and INSERT of upsert_embeddings; a tender that is gone, or the   *)
(* table, makes them raise.                                                *)
Replace(e) ==
  /\ emb[e].pc = "write"
  /\ emb' = [emb EXCEPT ![e] = IF emb[e].batch \subseteq ToSet(db.stored) THEN [@ EXCEPT !.pc = "replaced"] ELSE Rest]
  /\ UNCHANGED <<host, db, proc, spent>>

(* The shadow column is filled if it is there, and the rows are committed. *)
Commit(e) ==
  /\ emb[e].pc = "replaced"
  /\ db' = [db EXCEPT !.embedded = [t \in Tenders |-> IF t \notin emb[e].batch THEN @[t]
                                    ELSE IF EmbeddingVectorAvailable(db) THEN "searchable" ELSE "plain"]]
  /\ emb' = [emb EXCEPT ![e] = [@ EXCEPT !.pc = "list", !.batch = {}]]
  /\ UNCHANGED <<host, proc, spent>>

(* The provider raises or returns too few vectors, a call of the database  *)
(* raises (as the victim of a deadlock, too) or the process is lost: the   *)
(* command ends.                                                           *)
GiveUp(e) ==
  /\ emb[e].pc # "idle"
  /\ spent.faults < MaxFaults
  /\ emb' = [emb EXCEPT ![e] = Rest]
  /\ spent' = [spent EXCEPT !.faults = @ + 1]
  /\ UNCHANGED <<host, db, proc>>

Next ==
  \/ Install
  \/ \E p \in Operators : Begin(p) \/ Finish(p) \/ Abort(p)
  \/ \E t \in Tenders : Ingest(t)
  \/ \E e \in Embedders : Start(e) \/ List(e) \/ Embed(e) \/ Replace(e) \/ Commit(e) \/ GiveUp(e)

(* Commands that run go on; backfills are started again and again.         *)
Fairness ==
  \A e \in Embedders : WF_vars(Start(e) \/ List(e) \/ Embed(e) \/ Replace(e) \/ Commit(e))

Spec == Init /\ [][Next]_vars /\ Fairness

-----------------------------------------------------------------------------
(* What the database holds is what its revision says: the objects of the   *)
(* revisions up to it and of none above it, but for the index create_all   *)
(* leaves out, and the shadow column and the BM25 index only where 0006    *)
(* and 0007 have run: whatever upgrades, downgrades, failures and          *)
(* installations come between, for new databases and for legacy ones that  *)
(* are stamped 0001 and upgraded, and where create_all makes or finds a    *)
(* whole schema.  Except where a bootstrap of an older one, or a stamp, has*)
(* led it astray: 0001 stamped over what create_all makes today is not the *)
(* baseline any more, and the upgrade that follows fails at 0002.  Where   *)
(* 0007 or a bootstrap has run under bm25 and has not been undone, text    *)
(* search can use BM25, astray or not (storage/migrations.py).             *)
RevisionMatchesSchema ==
  /\ ~ db.astray => Matches(db)
  /\ db.required => Bm25Available(db)

Searchable(d) == EmbeddingVectorAvailable(d) => \A t \in Tenders : d.embedded[t] # "plain"

(* Where semantic search can run, it sees every embedding there is: those  *)
(* written before the shadow column was added, those written while it was  *)
(* being added, and those written after it was dropped and added again     *)
(* (upsert_embeddings and revision 0006).                                  *)
EmbeddedIsSearchable == Searchable(db)

(* If tenders can be read and embeddings stored for good and backfills     *)
(* keep being started, every stored tender is embedded: failures, updates  *)
(* that put tenders in front again and limited batches do not keep one out *)
(* for ever (embeddings_backfill).                                         *)
EmbeddingsCatchUp ==
  <>[](Readable(db) /\ Has(db, "tender_embeddings"))
    => <>[](\A t \in ToSet(db.stored) : db.embedded[t] # "none")
=============================================================================
