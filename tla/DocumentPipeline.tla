-------------------------- MODULE DocumentPipeline --------------------------
(***************************************************************************)
(* `licitaciones-mcp documents process`, run by any number of processes    *)
(* that share nothing but tender_documents, while ingests replace the rows *)
(* of a tender by new ones.  Each await is a step of its own: the list of  *)
(* pending rows, the download with the read of the row that follows it,    *)
(* and the UPDATE that records the outcome.                                *)
(***************************************************************************)
EXTENDS Integers, Sequences, SequencesExt

CONSTANTS
  Workers,    \* processes that run the command
  Tenders,    \* tenders that have documents
  Urls,       \* URLs of documents
  Unstorable, \* URLs whose extracted text Postgres refuses: it holds a NUL
  LastId,     \* bound: the rows ever inserted have the ids 1..LastId
  BatchSize,  \* --batch-size
  MaxBatches, \* --max-batches
  MaxBytes,   \* size above which a download is given up
  MaxFaults,  \* bound: exceptions of the database and lost processes
  None        \* NULL

Ids      == 1..LastId
Messages == {"download_failed", "no_parser_for_content_type", "parse_failed"}

ASSUME BoundAssumption      == LastId \in Nat /\ MaxFaults \in Nat
ASSUME BatchAssumption      == BatchSize \in Nat \ {0} /\ MaxBatches \in Nat \ {0}
ASSUME UnstorableAssumption == Unstorable \subseteq Urls
ASSUME NoneAssumption       == None \notin Urls \cup Messages

VARIABLES
  rows,   \* tender_documents by id, None where there is no row
  used,   \* the ids drawn so far: a uuid is never drawn again
  pc,     \* the await each process is at
  batch,  \* the entries of its batch it has not recorded yet
  round,  \* the number of its batch
  seen,   \* the row as it loaded it, and the outcome it is to record
  faults, \* number of faults so far
  raced   \* history: the ids recorded by a process over a row it had not loaded as such

worker == <<pc, batch, round, seen>>
vars   == <<rows, used, worker, faults, raced>>

Pending(t, u) == [tender |-> t, url |-> u, text |-> None, parsed |-> FALSE, error |-> None]

isPending(i) == rows[i] # None /\ ~rows[i].parsed /\ rows[i].error = None

Ended   == {"idle", "finished", "aborted"}
Nothing == [row |-> None, outcome |-> None]

Init ==
  /\ \E home \in [Urls -> Tenders \cup {None}], id \in [Urls -> Ids] :
       /\ IsInjective(id)
       /\ rows = [i \in Ids |-> IF \E u \in Urls : id[u] = i /\ home[u] # None
                                THEN LET u == CHOOSE u \in Urls : id[u] = i IN Pending(home[u], u)
                                ELSE None]
  /\ used = {i \in Ids : rows[i] # None}
  /\ pc = [w \in Workers |-> "idle"] /\ batch = [w \in Workers |-> <<>>]
  /\ round = [w \in Workers |-> 1] /\ seen = [w \in Workers |-> Nothing]
  /\ faults = 0 /\ raced = {}

----------------------------------------------------------------------------
(* What process_document makes of a reply of the server: never an exception. *)

\* The declared and the real size are told apart by the limit only, the content type
\* and the end of the URL by what PyPdfParser.supports says of them; pages tells
\* whether pypdf can read the file.
Replies == [answered : BOOLEAN, declared : {None, MaxBytes, MaxBytes + 1},
            size : {MaxBytes, MaxBytes + 1}, pdf : BOOLEAN, readable : BOOLEAN]

\* download_document: the size is checked twice, as declared and as it comes in.
Downloaded(reply) ==
  /\ reply.answered
  /\ reply.declared = None \/ reply.declared <= MaxBytes
  /\ reply.size <= MaxBytes

Failed(message) == [text |-> None, error |-> message]

\* PyPdfParser.parse: a page that cannot be read is skipped, a file that cannot raises.
Parsed(url, reply) == IF reply.readable THEN [text |-> url, error |-> None] ELSE Failed("parse_failed")

ProcessDocument(url, reply) ==
  CASE ~Downloaded(reply)                    -> Failed("download_failed")
    [] Downloaded(reply) /\ ~reply.pdf       -> Failed("no_parser_for_content_type")
    [] Downloaded(reply) /\ reply.pdf        -> Parsed(url, reply)

----------------------------------------------------------------------------
Goto(w, label) == pc' = [pc EXCEPT ![w] = label]

\* finally: await database.close().
Leave(w, label) ==
  /\ Goto(w, label)
  /\ batch' = [batch EXCEPT ![w] = <<>>] /\ round' = [round EXCEPT ![w] = 1]
  /\ seen' = [seen EXCEPT ![w] = Nothing]

\* Nothing catches an exception of the database.
Fault(w) == faults < MaxFaults /\ faults' = faults + 1 /\ Leave(w, "aborted")

\* The next document of the batch, the next batch, or the end of the command.
Continue(w) ==
  /\ seen' = [seen EXCEPT ![w] = Nothing]
  /\ \/ /\ Len(batch[w]) > 1 /\ Goto(w, "download")
        /\ batch' = [batch EXCEPT ![w] = Tail(@)] /\ UNCHANGED round
     \/ /\ Len(batch[w]) = 1 /\ round[w] < MaxBatches /\ Goto(w, "list")
        /\ batch' = [batch EXCEPT ![w] = <<>>] /\ round' = [round EXCEPT ![w] = @ + 1]
     \/ /\ Len(batch[w]) = 1 /\ round[w] = MaxBatches /\ Goto(w, "finished")
        /\ batch' = [batch EXCEPT ![w] = <<>>] /\ round' = [round EXCEPT ![w] = 1]

Start(w) ==
  /\ pc[w] \in Ended
  /\ Goto(w, "list")
  /\ UNCHANGED <<rows, used, batch, round, seen, faults, raced>>

\* list_pending_documents: ordered by id, cut to the size of a batch.
PendingIds == {i \in Ids : isPending(i)}

PendingDocuments ==
  {ids \in UNION {[1..n -> PendingIds] : n \in 1..BatchSize} :
     /\ \A k, l \in DOMAIN ids : k < l => ids[k] < ids[l]
     /\ \A i \in PendingIds : \/ \E k \in DOMAIN ids : ids[k] = i
                              \/ BatchSize \in DOMAIN ids /\ \A k \in DOMAIN ids : ids[k] < i}

List(w) ==
  /\ pc[w] = "list"
  /\ \/ /\ PendingIds = {} /\ Leave(w, "finished")
     \/ /\ PendingIds # {} /\ Goto(w, "download")
        /\ \E ids \in PendingDocuments :
             batch' = [batch EXCEPT ![w] = [k \in DOMAIN ids |-> [id |-> ids[k], url |-> rows[ids[k]].url]]]
        /\ UNCHANGED <<round, seen>>
  /\ UNCHANGED <<rows, used, faults, raced>>

\* Mutant: only the columns of the outcome at hand are assigned.
AssignedOnly(row, outcome) ==
  IF outcome.error = None THEN [row EXCEPT !.text = outcome.text, !.parsed = TRUE]
                          ELSE [row EXCEPT !.error = outcome.error]

\* Mutant: a download that fails is left to be tried again.
FailuresLeft(row, outcome) ==
  IF outcome.error = "download_failed" THEN row
  ELSE [row EXCEPT !.text = outcome.text, !.parsed = (outcome.error = None), !.error = outcome.error]

\* record_document_parse assigns every column of the outcome.
Assigned(row, outcome) ==
  [row EXCEPT !.text = outcome.text, !.parsed = (outcome.error = None), !.error = outcome.error]

\* The flush writes a column only if it differs from what was loaded; parsed_at is
\* a new time whenever it is set.
Written(now, loaded, assigned) ==
  [now EXCEPT !.text   = IF assigned.text # loaded.text THEN assigned.text ELSE @,
              !.parsed = IF assigned.parsed # loaded.parsed \/ assigned.parsed THEN assigned.parsed ELSE @,
              !.error  = IF assigned.error # loaded.error THEN assigned.error ELSE @]

\* The document is downloaded and parsed, and its row loaded: one that is gone is
\* passed over without a word.
Download(w) ==
  LET i == Head(batch[w]).id IN
  /\ pc[w] = "download"
  /\ \/ /\ rows[i] = None /\ Continue(w)
     \/ /\ rows[i] # None /\ Goto(w, "record")
        /\ \E reply \in Replies :
             seen' = [seen EXCEPT ![w] = [row |-> rows[i], outcome |-> ProcessDocument(Head(batch[w]).url, reply)]]
        /\ UNCHANGED <<batch, round>>
  /\ UNCHANGED <<rows, used, faults, raced>>

\* The UPDATE of a row that is gone raises StaleDataError, one with a NUL is refused:
\* nothing catches either, and the command ends there.  A row that has the outcome
\* already takes no UPDATE.
Refused(w) ==
  LET assigned == Assigned(seen[w].row, seen[w].outcome) IN
  /\ assigned # seen[w].row \/ assigned.parsed
  /\ rows[Head(batch[w]).id] = None \/ assigned.text \in Unstorable

Record(w) ==
  LET i == Head(batch[w]).id IN
  /\ pc[w] = "record"
  /\ \/ /\ Refused(w) /\ Leave(w, "aborted")
        /\ UNCHANGED <<rows, faults, raced>>
     \/ /\ ~Refused(w)
        /\ rows' = IF rows[i] = None THEN rows
                   ELSE [rows EXCEPT ![i] = Written(@, seen[w].row, Assigned(seen[w].row, seen[w].outcome))]
        /\ raced' = IF rows[i] = seen[w].row THEN raced ELSE raced \cup {i}
        /\ \/ Continue(w) /\ UNCHANGED faults
           \/ Fault(w)
  /\ UNCHANGED used

\* A database call raises before it has an effect, or the process is lost.
Raise(w) ==
  /\ pc[w] \in {"list", "download", "record"}
  /\ Fault(w)
  /\ UNCHANGED <<rows, used, raced>>

\* Mutant: the documents take the rows the tender has already got.
KeptIds(t) == {i \in Ids : rows[i] # None /\ rows[i].tender = t} \cup (Ids \ used)

\* Ids for the rows of a tender that is ingested again: session.add draws a uuid each.
NewIds(t) == Ids \ used

Replaced(t, S, id) ==
  [i \in Ids |-> IF \E u \in S : id[u] = i THEN Pending(t, CHOOSE u \in S : id[u] = i)
                 ELSE IF rows[i] # None /\ rows[i].tender = t THEN None ELSE rows[i]]

\* upsert_tenders: record.documents = document_records deletes the rows of the tender
\* and inserts others, whatever had been made of them.
Reingest(t) ==
  \E S \in SUBSET Urls : \E id \in [S -> NewIds(t)] :
    /\ IsInjective(id)
    /\ rows' = Replaced(t, S, id)
    /\ used' = used \cup {id[u] : u \in S}
    /\ rows' # rows
    /\ UNCHANGED <<worker, faults, raced>>

Step(w) == List(w) \/ Download(w) \/ Record(w) \/ Raise(w)

Next ==
  \/ \E w \in Workers : Start(w) \/ Step(w)
  \/ \E t \in Tenders : Reingest(t)

\* The event loop resumes a process whose await is over, and every await ends.
Spec == Init /\ [][Next]_vars /\ \A w \in Workers : WF_vars(Step(w))

----------------------------------------------------------------------------
Errors == Messages \cup {None}
Row    == [tender : Tenders, url : Urls, text : Urls \cup {None}, parsed : BOOLEAN, error : Errors]

TypeOK ==
  /\ rows \in [Ids -> Row \cup {None}] /\ used \subseteq Ids /\ raced \subseteq Ids
  /\ pc \in [Workers -> {"list", "download", "record"} \cup Ended]
  /\ batch \in [Workers -> Seq([id : Ids, url : Urls])] /\ round \in [Workers -> 1..MaxBatches]
  /\ seen \in [Workers -> [row : Row \cup {None},
                           outcome : [text : Urls \cup {None}, error : Errors] \cup {None}]]
  /\ faults \in 0..MaxFaults

\* A row is pending, parsed with its text, or failed, and never two of these, unless
\* another process recorded an outcome between the read and the UPDATE of this one.
OutcomeIsWhole ==
  \A i \in Ids : rows[i] # None /\ i \notin raced =>
    \/ isPending(i) /\ rows[i].text = None
    \/ rows[i].parsed /\ rows[i].text # None /\ rows[i].error = None
    \/ ~rows[i].parsed /\ rows[i].text = None /\ rows[i].error # None

\* The text of a row was extracted from the document the row links to, although the
\* row may have been replaced while the document was downloaded.
TextIsOfItsUrl == \A i \in Ids : rows[i] # None => rows[i].text \in {None, rows[i].url}

\* Pending rows that no row with a text Postgres refuses comes before.
Reachable(i) == isPending(i) /\ \A j \in 1..i : isPending(j) => rows[j].url \notin Unstorable

\* If the command keeps being started, every document gets an outcome, also those
\* whose download fails and those replaced meanwhile; except that a document whose
\* outcome cannot be stored ends every command at its place in the order of ids.
DocumentsGetOutcomes ==
  (\E w \in Workers : []<>(pc[w] = "list" /\ round[w] = 1)) => <>[](\A i \in Ids : ~Reachable(i))
=============================================================================
