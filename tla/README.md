# Formal models of licitaciones-mcp

TLA+ modules, TLC configurations and TLAPS proofs for the server that ingests
public tenders from PLACSP and TED into Postgres, searches them, and runs saved
searches every day. The reference is the Python code under
`src/licitaciones_mcp`; paths below are relative to it. `PROJECT.json` maps every
definition to the lines it models, lists the runs, the mutants each property has
been tried against, the hazards and the theorems.

## The system

| Component | State | Operations | Talks to |
|---|---|---|---|
| tender store (`storage/database.py`, `storage/models.py`) | `tenders`, `tender_documents`, `tender_embeddings` | `upsert_tenders`, `upsert_embeddings`, reads | ingestion, search, documents |
| source ingestion and job runner (`jobs/runner.py`) | `source_fetch_runs`, `job_runs`, `job_results`, `daily_jobs.last_run_at` | `run_job`, `ingest_for_filters`, `ingest_placsp_period`, `get_job_results` | connectors, embedder, store, search |
| scheduler worker (`jobs/scheduler.py`) | `_known_signatures`, APScheduler's store, `scheduler_heartbeats` | `run_forever`, `_load_jobs`, `_run_job`, `stop` | `daily_jobs`, job runner |
| backfill (`cli.py`, cursors in `storage/database.py`) | `ingest_cursors` | `ingest backfill` | job runner |
| HTTP client (`http/client.py`) | token buckets | `request`, `stream`, retries | connectors, documents |
| document pipeline (`documents/`, `cli.py`) | parse columns of `tender_documents` | `documents process` | HTTP client, store |
| search (`storage/database.py`, `core/scoring.py`) | none of its own | keyword, semantic and hybrid queries, facets | store, embedder |
| connectors (`sources/`) | none | `fetch`, `fetch_period` | HTTP client |
| migrations (`storage/migrations.py`, `_migrations/`) | the schema and its revision | `upgrade`, stamping | Postgres |
| MCP server, CLI, OCDS export, embedding providers, configuration, deployment | none | hand calls over | everything |

Everything is asynchronous Python in one or more processes (MCP server,
scheduler worker, CLI commands) that share nothing but the database. What makes
it hard is therefore: calls interleave at every `await`; every database call is a
transaction of its own, and the isolation level is READ COMMITTED; a commit may
take effect and its acknowledgement be lost; a process may be lost between two
transactions; sources fail in the middle of a run; and the scheduler keeps in
memory a copy of what the table says.

What makes each component correct:

* store: a batch is atomic, a tender has one row with one id for ever, the latest
  links and snapshot are what is stored, a searchable tender stays searchable,
  calls end;
* runner: a list of matches is never computed over sources that failed, audit
  rows exist for whatever was fetched, tell the truth, and get closed;
* scheduler: what fires is what the table says, at most one reload late, however
  many reloads fail and whatever the other jobs hold;
* backfill: "done" means stored, no period is passed over, repeated walks finish
  the range, and the newest snapshot of a notice is what stays;
* HTTP client: no more requests per host than the bucket allows, none before the
  server's Retry-After, an error after the last attempt, no response left open;
* documents: an outcome belongs to the document it was computed from, and every
  document is processed in the end;
* search: a page is a slice of one ranking of all that matches, every result fits the
  filter, a hybrid answer joins its two sides, a listed filter option leads somewhere;
* connectors: a walk through the pages of TED finds what TED finds;
* migrations: the schema is what its revision says, and semantic search sees every
  embedding, whatever commands and failures come between.

## Modules

| Module | What it is |
|---|---|
| `TenderStore` | `_persist_and_embed` by concurrent callers, one action per SQL statement |
| `TenderStoreProofs` | theorems about `TenderStore` |
| `JobRuns` | `run_job` and `ingest_placsp_period`, one action per await |
| `JobRunsProofs` | theorems about `JobRuns`, among them that it implements `RunLedger` |
| `RunLedger` | what an audit table promises; `JobRuns` implements it twice |
| `TenderScheduler` | the loop of the scheduler worker, edits, firing, crashes |
| `TenderSchedulerProofs` | theorems about `TenderScheduler` |
| `Backfill` | the walk over periods with its cursors, one action per await |
| `BackfillProofs` | theorems about `Backfill` |
| `HttpClient` | requests with their attempts, and the token buckets they share, in time |
| `HttpClientProofs` | theorems about `HttpClient` |
| `DocumentPipeline` | `documents process` by concurrent processes, against re-ingests |
| `DocumentPipelineProofs` | theorems about `DocumentPipeline` |
| `TenderFilter` | filters as the tools build them, what SQL selects and Python keeps by them, scores |
| `SourceFetch` | what the clients of TED and PLACSP make of what the sources send |
| `TenderSearch` | the search tools over the store, one action per await, with a refresh before |
| `TenderSearchProofs` | theorems about `TenderSearch`, and that what SQL selects, Python keeps |
| `SearchSchema` | the Alembic revisions, schema commands, and `embeddings backfill` beside them |
| `SearchSchemaProofs` | theorems about `SearchSchema` |
| `MC*` | instances for TLC |

`TenderSearch` extends `SourceFetch`, which extends `TenderFilter`: the filter that
selects rows is the one that becomes a query to TED and sifts what comes back.

`JobRuns` uses `upsert_tenders` as one atomic step; that is `BatchAtomic` of
`TenderStore`, proved in `TenderStoreProofs`. `TenderScheduler` fires jobs whose
execution is a call of `run_job` in `JobRuns`. The ingest of a period in `Backfill` is
`ingest_placsp_period` of `JobRuns`. That every await of a fetch ends, which the
fairness of `JobRuns` and `Backfill` takes for granted, is `RequestsEnd` of `HttpClient`.

### TenderStore

State: the committed rows of the three tables (`rows`, `docs`, `embeddings`) and,
per call, its batch, its position in it, and what its session has loaded
(`tx.loaded`, `tx.collection`), assigned (`tx.assigned`) and added or deleted.
The actions are the statements SQLAlchemy emits for `_upsert_tender`: `Select`,
`SelectDocuments` (selectinload), `Insert` or `Update` (the flush of the tender
row), `WriteDocuments` (the flush of `record.documents`), then `Commit`; after it
`EmbedSkipped` or the DELETE (`DeleteEmbeddings`, `LockEmbeddings`) and INSERT
(`ReplaceEmbeddings`) of `upsert_embeddings`. A pair with an empty vector is passed over there:
`Clean` is what is left of a batch, and `Vectorless` are the snapshots the provider has no
vector for. The UPDATEs that fill the shadow column of the rows just inserted are part of
`ReplaceEmbeddings`; what that column holds is the concern of `SearchSchema`. Three facts of the database layer
are modelled because the properties turn on them:

* a flush writes only attributes whose value differs from the loaded one, so the
  UPDATE of a call leaves alone columns another call has changed meanwhile;
* a writer of a row, or of a unique key, that another transaction has written
  waits for its end (`WaitsFor`), then fails on a committed key
  (`InsertConflict`), or goes on with the row as it is now;
* a cycle of waits is broken by aborting a member (`DeadlockAbort`).

`Lose` and `EmbeddingsFail` are the failures from outside. A row has the call and
batch position that created it where the code draws a uuid, which is what lets
`TenderIdsAreStable` and `BatchAtomic` be stated. `lastWriter`, `lastEmbedder`,
`txOverlap` and `embOverlap` are history variables that only properties read.

### JobRuns

An execution walks through its awaits: `StartJobRun`, then for each source of its
plan `StartFetchRun`, `Fetch`, `Persist`, `Embed`, `FinishFetchRun`, then `Search`
and `Report`. `AwaitRaises` makes any of them raise before it has an effect,
`Committed` makes a database call raise after it; `Handler` is the except clause
that catches it, which leads to `FailFetchRun`, `FailReport`, or the caller. `Lose`
is the end of the process or the cancellation of the task, which no handler sees.
`Plan` is the list of sources an execution refreshes: `<<"placsp", "ted">>` for a
job with a text or CPV filter, `<<>>` for `refresh_sources=False`. An exception has
a message or has none, because `finish_job_run` tells the two apart. Tenders are
keys; what is upserted and what search returns are sets.

### TenderScheduler

`Read`, `Apply`, `Heartbeat` and `Wake` are the loop of `run_forever`; `Apply` is one
action because there is no await between the read and the end of `_load_jobs`.
`CreateDailyJob` edits the table at any time, also between the read and the
application. `Kept`, `Added` and `Removed` are the three things `_load_jobs` does with
a job, over `known` (`_known_signatures`) and `triggers` (APScheduler's store). A
cron expression is valid or not; a trigger is its cron expression or its hour.
`fresh` and `called` are history: the triggers the table has called for since the
last read.

### Backfill

A walk repeats `Check` (`get_ingest_cursor`), `Ingest` or `IngestWithoutUrl`, and
`RecordDone` for each period; `Handler` is its except clause, which leads to
`RecordFailed`, and what that raises ends the walk. State shared by walks: `cursors`
(`ingest_cursors.status`) and `notices` (the snapshot of each notice in `tenders`,
numbered by age). Any walk may be started at any time, again and beside others, because
the command may be. `FileOf` is `build_placsp_period_url`: months of early years share a
file, and years before the dataset have none. `alone` is history.

### HttpClient

`pc` is the await a call is at: the bucket (`Take`, `Pause`, `Wake`, of
`RateLimiter.acquire`), the exchange (`Respond`, `Refuse`, `NetworkError`, `OtherError`),
the closing of a refused response (`Close`), the sleep of the retry loop
(`NextAttempt`), the body of a stream (`Leave`). `Retry` is what tenacity makes of a
failed attempt. `Tick` passes the time in which a bucket earns one unit; `Cost` units are
a token, so rates that are no integer have their fractions of a token. What `acquire`
does under its lock has no await in it and is one action. `meter` and `asked` are
history: `meter` is the greatest excess, over all spans of time up to now, of the units
granted over the ticks of the span, so `RateBound` speaks of every window at once.
The callers in this repository await one request at a time on each client; the class
is written for concurrent ones (its lock has no other use) and is modelled for them.

### DocumentPipeline

A process repeats `List` (`list_pending_documents`), then for each entry `Download`
(`process_document`, whose outcome is a function of the reply of the server, followed by
the read of the row in `record_document_parse`) and `Record` (its UPDATE). `Assigned` is
what the code assigns, `Written` what the flush writes of it: only the columns that differ
from the row as loaded, so two outcomes can mix (`raced` marks those rows). `Refused` is
an UPDATE of a row that is gone, or of a text with a NUL, and nothing catches it.
`Reingest` is `record.documents = document_records`: the rows of a tender are replaced by
new ones with new ids, pending again. A text is named by the URL it came from, which is
what lets `TextIsOfItsUrl` be stated.

### TenderFilter, SourceFetch, TenderSearch

`TenderFilter` holds the pure functions: `BuildFilters` (`_build_filters`), `SqlMatches`
(`_apply_structured_filters`), `PyMatches` (`tender_matches_filters`), `Score` without a
text. `Ranking` lists a finite set by a strict order; sorted and selected lists are made with
it. A code is a sequence of characters, since prefixes matter; CPV codes are stored as digits,
NUTS codes as the source writes them (`Chars`), and the punctuation of those is left out by
filters and facets alone. A text is a member of a
set with constants for lower case, folding, ILIKE and containment. Days are cut from
instants, once in the time zone of the database session and once in UTC (`Ahead`).
`SourceFetch` has the query that TED gets (texts that name a buyer-country themselves, `Naming`,
keep the country out of it), its pages and where they end, and what a client keeps
of them (`Kept`, which is also the filter in Python over what SQL selected).

`TenderSearch` runs one call after the other (`Receive` is the client taking the response), each
made of its awaits: `ReadFeed`,
`ReadTed`, `StoreTenders`, `StoreVectors` of a refresh, then `EmbedQuery`,
`CheckPgvector`, and `ReadLexical`, or `ReadLexicalSide`, `ReadNearest`, `ReadRecords`,
or `ReadRecent`, or `ReadFacets`. `rows` has the row of each tender, and `vectors` one entry for
each of its embeddings: a call of `upsert_embeddings` inserts a row for every pair of its batch
(`Replaced`), and calls that overlap leave each other's. The LIMIT of a semantic search counts
embeddings (`Entries`), and of a tender found more than once the last, farthest, distance is
kept (`LastDistance`). `Write` and `Embed` are other processes, between any
two. A SELECT returns rows with equal keys in any order (`Orders`). What a text finds and
how it ranks them are the constants `Finds`, `Relevance`, `Distance` over the rows that occur
(`Rows`). `answer` keeps the
response with what it was made from, for the properties; `steady` says that no write came
between the SELECTs of the call. `config` fixes the feed, embedder, pgvector and backend.

### SearchSchema

`db` is the committed schema (tables, columns, indexes as a set of objects), its Alembic
revision, the extensions, and per tender whether its embedding is missing, stored
(`plain`) or stored and in the shadow column (`searchable`). A command reads the revision
(`Begin`) and commits all of its migrations at once or fails (`Finish`, `Abort`), as
`env.py` runs them in one transaction; `Up` and `Down` fail on objects that exist or are
missing and on a revision another command has changed. `Install` is the server gaining
extension files or the preload. `List`, `Embed`, `Replace`, `Commit` are
`embeddings backfill`; its lock on `tender_embeddings` from the DELETE to the commit holds
up schema commands. A database is empty to begin with, or is what `create_all` made before there
were migrations (`Legacy`: the tables of 0001, no revision, tenders with and without embeddings).
A bootstrap may run over any schema, and a stamp may name any revision; a bootstrap of an older
schema (one not `Fit` for it) and a stamp of a wrong revision set the history variable `astray`,
until something mends it. 0001 stamped on a legacy database is right; on what `create_all` makes today
it is not, and the upgrade that follows fails at 0002. Premise: nobody else works on a database
that is being bootstrapped or stamped (`Sensible`). `required` is the history of revision 0007,
or a bootstrap, run under `bm25` and not undone.

## Runs

| Run | Instance | Shows |
|---|---|---|
| `store` | three calls, two notices in opposite orders, one batch with a notice twice and an empty one, four snapshots that differ in status, deadline, links and whether they have a vector | batches are atomic, rows unique, ids stable, links the newest, embeddings kept, calls end |
| `jobs` | two calls of `run_job` for one job (one refreshing both sources, one none), one backfill of a period, one tender, two faults | matches come from refreshed sources, audit rows are true, exist and get closed; both tables implement `RunLedger` |
| `scheduler` | two jobs, a valid and an invalid cron expression, two hours, three edits, one fault | the four of `TenderScheduler` |
| `backfill` | two walks, five months (one without a URL, two that share a file, two with their own), two notices, two faults | the four of `Backfill` |
| `http` | a request and a download to one host, at one token and a half per second, two attempts each, Retry-After of 0, 2 and 5 ticks where the cut is at 4 | the four of `HttpClient` |
| `documents` | two processes, one tender, two documents of which one has a text that cannot be stored, three row ids, one fault | rows have whole outcomes of their own document; all that can get an outcome do |
| `search` | three tenders in three initial stores, each with no or with all embeddings, three configurations, 25 calls of the six tools, one write | pages, filters, fusion, facets, the walk through TED; calls end |
| `schema` | two operators, one backfill, two tenders, a new or a legacy database, eight commands (two of them stamps) of which three are run, two ingests, one fault | schema and revision agree, embeddings are searchable, all tenders get one |
| `jobs_failure_recorded`, `jobs_embedding`, `jobs_latest_results` | the instance of `jobs` | three disagreements, below |
| `backfill_resumed` | the instance of `backfill` | a fourth |

Bounds. Three calls are what the hazards of the store need: two that wait for or
overlap each other and a third that has committed before or commits between; two
notices make a cycle of waits; three snapshots make the mixture of two others, and the
fourth is skipped by the embedding of its batch (192,168 states). Two
faults of `jobs` are an exception and a failure of its handler. A second tender would
add nothing to `jobs`, whose properties relate sets of tenders to statuses. Three
edits of `scheduler` are an edit, another between read and application, and one
after it; faults are the only thing `MaxFaults` bounds.
Two faults of `backfill` are one that fails a period and one that interrupts the
recording of that, or the walk that resumes; five months hold each kind of
period twice where pairs matter. Two calls of `http` make four attempts for a bucket
of one token and a half, so tokens run out, are waited for by both at once and are
earned during sleeps; two attempts are one that is repeated and one that is not.

The third row id of `documents` is the one a re-ingest draws while both processes
hold the others; batches of two and two batches per command end a command in each way.
`search`: windows hold one to four candidates, pages one or two results, TED's pages one
notice, facets count two rows, so that every window is both larger and smaller than what
matches; the three tenders differ in each attribute some filter or order looks at, and two
share their lexical rank. One write suffices: every property compares two reads at most. It may be a second embedding of a
tender, and the feed has a notice twice, so that tenders with several embeddings come before and
behind others (150,023 states).
`schema`: batches of one and two tenders let one keep the other waiting; three commands
are two that race and one that repairs, or an upgrade, downgrade and upgrade; the commands
aim at the revisions around 0006 and 0007, whose effect depends on the server (revision 0005
is where a downgrade leaves the database; the theorems hold for upgrades to it, too); the two stamps
are the one for a legacy database and the one for what `create_all` makes today, and each is run
on the other as well. Two ingests store both tenders, or one and its update (1,076,382 states).

`CHECK_DEADLOCK FALSE` is set for `store` and `jobs`: their calls end and no more
are made.

Fairness. `WF(Step(w))` of a call of the store, `WF(Step(e))` of an execution: the
event loop resumes a coroutine whose await is over, and every await ends, because
the HTTP client has a timeout of 60 seconds and a limit of attempts, and Postgres
answers, detects the deadlock, or drops the connection. Nothing is fair about
beginning a call, failing or losing a process. `WF(Step(w))` of a walk likewise;
`WalksConverge` has in its premise that walks keep being started. `WF(Tick)` and
`WF(Step(r))` of `HttpClient`: time passes, sleeps end, httpx ends every exchange by
its timeout; nobody is promised the next token, and calls end because attempts do. `WF(Loop)` of the scheduler: the
awaits of `run_forever` are database calls and a wait with a timeout. `WF(Step(w))` of a
process of `DocumentPipeline`; `DocumentsGetOutcomes` has in its premise that the command
keeps being started. `WF(Step)` of the one call `TenderSearch` has under way. `SearchSchema`
is fair to each embedder, its start included, because `EmbeddingsCatchUp` speaks of a
backfill that is run regularly; nothing is fair about schema commands, and its premise is
that `tender_embeddings` is there, and tenders can be read, for good. Strong
fairness is nowhere needed: `EveryCallEnds` holds because a wait ends with the
transaction waited for and a cycle is aborted.

## Findings

* `jobs_failure_recorded`: `finish_job_run` takes a run for failed if the error text
  is not empty (`storage/database.py:938`). An exception without a text, such as
  a bare `TimeoutError()`, leaves a run recorded as succeeded without results.
* `jobs_embedding`: "embedding failure must not break ingest" (`jobs/runner.py:70`)
  holds for `embed()`; an exception of `upsert_embeddings` two statements below
  does break it.
* `jobs_latest_results`: "Return latest persisted results for a job"
  (`storage/database.py:986`) is the rows of the run that started last, which has
  none while it is in progress or was lost.
* `backfill_resumed`: a walk is "resumable via the `ingest_cursors` table" (`cli.py:522`),
  but a period fetched after later ones puts its older snapshots over theirs, and
  the later ones, which are done, are not fetched again.

## Proofs

Proved for every value of the constants: any number of calls, notices,
columns, snapshots, documents and batches of any length; any number of jobs,
executions, plans, expressions, hours, periods, requests and processes. The only assumptions are the named ones in the modules
(types of the constants, finitely many links and tenders, sentinels that are no values, and
`MaxLimit + MaxOffset <= CandidateMax`, which in the code is 500 + 1,000 <= 5,000), which TLC
evaluates on the instances, and `Ahead <= 0`, the hypothesis of four theorems on searches.

`TenderStoreProofs`:

* `TypeCorrect`. `TypeInv` strengthens `TypeOK` with what the types need: an
  execution inside the loop has a position within its batch, and a column an
  unfinished transaction believes in comes from a loaded or an inserted row.
* `OneRow`. `UniqueInv`: besides the invariant, two open transactions have never
  inserted the same key, and none has inserted a key with a committed row. The
  first half is what waiting on the unique key gives, the second is preserved by
  commits because of the first.
* `IdsStable`, `EmbeddingStays`: action properties. A commit only overwrites
  columns; the embeddings a transaction drops are of keys of its own batch
  (`EmbInv`), for which it inserts rows in the same step.
* `WholeBatches`. `AtomicInv` says that the keys a transaction has passed are
  inserted by it or already committed (`Holds`), so that at the commit every key of
  the batch has a row.
* `NewestDocuments`. `NewestInv` says that at the commit, the links of the last
  snapshot of each notice are in the session's collection, and that each member of
  the collection is new, or committed and not yet deleted by anybody else, in which
  case the call that deletes it is or will be the last writer (`Stores`).
* `SerialUpserts`. `SerialInv`: while nobody beside it commits the tender, what a session has
  read is what is committed, and its collection is the committed documents less those it
  deletes plus those it adds (`View`); a tender it has passed has the columns of its last
  snapshot, read or written (`Cols`); it writes nothing it has not read or inserted (`Scope`).
  A call that commits the tender meanwhile is in `txOverlap` (`MeetTxInv`), so that the
  property asks nothing (`Whole`). One row per link needs finitely many links.
* `SerialEmbeddings`. `VectorInv`: the rows of its tenders that the `DELETE` of a call does not
  get are of calls beside it (`SeenInv`), every one of which it knows (`MeetInv`). Notices whose
  vector is empty keep the embeddings they had, since `Clean` leaves them out of both statements.

`TenderSchedulerProofs`: `SchedulerTypes`, `KnownScheduled` and `NoStaleTrigger` follow from one
inductive invariant `ScheduleInv`, the two properties with the type invariant and
`SnapshotIsFresh` (while the loop is between its read and its end, what the
snapshot calls for has been called for since the read).

`BackfillProofs`:

* `WalkTypes`. `TypeInv`: besides the types, a walk that is not under way stands at the
  first period.
* `DoneStored`. `DoneInv`: besides the property, a walk about to record "done" is at a
  period whose notices are stored; nothing takes a notice out again.
* `FinishedCovers`. `CoverInv`: the periods a walk has behind it have a cursor, which is
  overwritten but never deleted.
* `UndisturbedCurrent`. `CurrentInv`: of a walk that is alone and without faults, what
  is stored is at least as new as every file behind it. This one uses
  `ChronologyAssumption`, that files of later periods hold no older snapshots; it is a
  fact about the publisher, and what makes the order of the walk matter.

`HttpClientProofs`:

* `RateBounded`. `RateInv`: the meter of a host and the units in its bucket together never
  exceed a full bucket. A token moves from one to the other, a tick adds one unit
  at most and takes one off a meter that is not 0.
* `OutcomesAreFinal`. `OutcomeInv`: besides the property, the response whose body is read is
  final, and a call that backs off has an attempt left.

* `RetryAfterIsHonored`. `WaitInv` follows the wait a server asked for from the response
  (`asked` is within the cut header) through the closing to the sleep, whose timer is at
  least what is left of it; a request that is sent, or waits for a token, owes nothing.
  `LesserOfTwo` is the fact about the cut at 30 seconds.

`JobRunsProofs`: one inductive invariant `RunInv`. `StageInv` says where an execution stands in
its plan: the sources behind it succeeded, the one at hand is running, those ahead have no
row; this needs `OnceAssumption`, that a plan names a source once, which the two `if`s of
`ingest_for_filters` give. `StoredInv`: what is about to be reported is stored. `JobInv`: a row
without outcome has no results, and one with results has all its sources refreshed.

* `AuditRowsAreTrue`, `RefreshesAreAudited`, `RowsAgree`, `ResultsAreOfRefreshed` are its
  consequences.
* `FetchRunsAreALedger`, `JobRunsAreALedger`: the refinement. Each write of a row is a step of
  `RunLedger`, or leaves its status as it was; that it starts from the status the ledger
  requires is `StageInv` and `JobInv`.
* `RunTypes`: the types, of which the count of results is a number only because tenders are
  finitely many (`FiniteAssumption`).

`DocumentPipelineProofs`: `DocInv` strengthens the two properties with what a process carries:
an entry of its batch names the URL its row, if still there, links to, since ids are never
drawn twice (`BatchInv`); the outcome it is about to record is one `process_document` makes of a reply for that URL (`SeenInv`).

* `TextsAreOfTheirUrls`: an outcome reaches only the row it was computed for.
* `OutcomesAreWhole`: the UPDATE of one that differs from the loaded row yields a whole row
  where the row is as loaded; all others are in `raced`.

`TenderSearchProofs`, for any number of tenders, stores, rows, writes, windows, limits and pages:

* `SelectedIsKept`: a row that SQL selects by a filter is kept by Python, so that a page that
  was cut by SQL is not thinned afterwards. Its assumptions say what a plain filter is (no
  wildcard of ILIKE, no type that folds to nothing) and how lower case and folding relate
  (`LowerAssumption`, `LikeAssumption`); and the time zone of the database sessions must not be
  ahead of UTC (`Ahead <= 0`): with one that is, as in Madrid, a tender published in the last
  hours of a day in UTC is selected for the day after and dropped by Python. The theorems on
  results, pages and fusion have this premise too, and for this reason; the instance of
  `search` has sessions in UTC.
* Lists. `RankingIsOrder` and the lemmas after it: what a strict order on a finite set ranks is
  a list of all of the set, each member once. Hence what sorting, filtering, cutting and
  reversing make of a list is drawn from it (`Drawn`: items of it, none taken
  twice), and a sorted one has its keys in order (`SortedItems`).
* `BaseInv` is what holds at each await of a call: which filter and which arguments have led
  there (`Staged`), what a refresh has in hand, that nothing of one call is left for the next, and
  that the ids a semantic search carries are of different tenders that have rows. The last
  is why nothing goes missing between its two SELECTs: no row is ever deleted.
* `FetchesAreWhole`. `WalkInv`: as long as all pages are of one index whose notices are readable,
  what the walk has is the part of it up to the next page (`PageAdded`). That it ends there when a page
  is not full, or empty, is `IsLast`; that what is stored are the ones that fit, `Kept`.
* `ResponsesFit`. `SteadyInv`: where no write came between, the lexical side and the nearest ids are
  what the SELECTs would return now. The records read after them then fit by
  `SelectedIsKept`; on all other paths Python has sifted the list.
* `FacetsLead`: a row that counts for a listed value matches the filter with the value in
  place of what was there, because `_build_filters` leaves of the value what the row has, or a
  prefix of it (`Chosen`, field by field), and it counts once (`CountedOnce`). A NUTS code stored
  with punctuation is the exception (`AsWritten`): it is listed without, and chosen so it is
  compared with what is stored.
* `HybridsAreFused`: the sum of the reciprocal ranks of a tender that is first on both sides is
  greater than that of any other (`SumsAreLess`, for any constant of the fusion), so that it is first
  in the fused list (`FirstStaysFirst`), and the filter in Python keeps it.
* `PagesAreOfOneRanking`: a list without ties is arranged in one way (`Arranged`, `PlaceInOrder`),
  whatever order the database returned; a window that reaches as far as the page, or holds
  all, and is cut at the offset gives the places asked for (`WindowPage`); and a window that holds
  all may be ordered anew (`Rearranged`). On the semantic side a window holds embeddings: the
  tenders in it are the ones that come first (`Nearer`, `Closest`), each at its place, however many
  embeddings any has; that the page is as long as it should be is promised and proved where
  each has one (`Single`).

`SearchSchemaProofs`: one invariant `SchemaInv`. `Sound` is said of the committed schema and of
the view of a transaction after each of its revisions, up (`Climbs`) and down (`Descends`), which the
proof follows one by one because the prover cannot see into a fold. It has the types (`Database`);
what holds of every schema, astray or not (`Steady`): every embedding is where semantic search
looks, what was required of BM25 is there, and the shadow column and the BM25 index are only where
their tables are (`Rooted`); and, unless it is astray, that it has what its revision made but for an
index that databases made by `create_all` may lack. Upgrades and downgrades lead nothing astray
(`View`), since a migration whose objects are there already, or missing, fails; nor does a
bootstrap of an empty or a whole schema (`BootstrapWhole`).

* `SchemaMatchesRevision`, `EmbeddingsSearchable` are its consequences, for any number of
  operators, embedders, commands, stamps of whatever revision, faults, and batches of any size.

Type correctness of the store, the scheduler and the backfill is proved and not repeated in their
runs.

Every invariant, every action property and both refinements that a run checks are proved.
Only model-checked: the liveness properties (`EveryCallEnds`, `RunsEnd`, `SchedulesTakeEffect`,
`StopEnds`, `WalksConverge`, `RequestsEnd`, `DocumentsGetOutcomes`, `SearchesEnd`,
`EmbeddingsCatchUp`), which are beyond the prover's temporal logic here.

## Plan

What is left, in this order:

1. Steps towards the liveness properties that are safety: what the wait of one call of the store for
   another leaves possible, what a walk that ends normally has done.
2. Types of `HttpClient`, `DocumentPipeline` and `TenderSearch` as theorems of their own, where
   their invariants hold only parts of them.
3. Larger instances of `search` (two writes, calls beside each other, which share nothing but
   the store) and of `schema` (two backfills).
4. The quality checks of `core/quality.py` as operators, if they get a consumer.

## Not modelled

Parsing of XML, zip files and JSON, dates and amounts; which documents a text finds and how
BM25, FTS and vector distance rank them, which are the database's; the words a score counts;
the cut of facet lists to their most frequent values; the quality checks and catalogs; the
mapping to OCDS; offline SQL and the authoring of revisions; the HNSW index; the MCP
transport and its authentication; argument parsing, configuration, logging and deployment.
They are conversions or I/O with no order of events to get wrong; the unit tests cover them
by example. `daily_jobs.last_run_at` may go back when two runs of a job end out of order;
nothing decides by it yet, so no property is about it. Disagreements the models know of
and no run shows: the documented `stamp 0001_baseline` for databases made by `create_all`
(`0001_baseline.py:7-9`) is wrong for those today's `create_all` makes, whose upgrade then fails at
0002 (they stay `astray`); of a tender with several embeddings a semantic search takes more than
one place of its LIMIT, so that a page may be short, or empty, and tenders behind it are never
reached; with the revision at 0007, a change of `LICITACIONES_SEARCH_BACKEND` from `fts`
to `bm25` creates no index, because `upgrade` finds nothing to do; and a bootstrapped and
stamped database cannot go below 0002, since `create_all` leaves out an index 0002 drops. Four more hazards in `PROJECT.json` have no property:
an audit row left open by a lost process, a month or a fetch that is cut short and recorded as done,
documents behind one that cannot be stored, a cron expression with a typo; their notes say
what the models show of them. Isolation anomalies below READ COMMITTED, clock skew between processes
and hash collisions of uuids are assumed away.
