----------------------- MODULE DocumentPipelineProofs -----------------------
(***************************************************************************)
(* For any number of processes, tenders, documents and ingests: the text   *)
(* of a row is that of the document it links to, and an outcome nobody     *)
(* else raced for is whole.                                                *)
(***************************************************************************)
EXTENDS DocumentPipeline, SequenceTheorems, TLAPS

Entry == [id : Ids, url : Urls]

\* What process_document may come to for a document.
Outcome(u) == {[text |-> u, error |-> None]} \cup {[text |-> None, error |-> m] : m \in Messages}

\* An entry of a batch links to the document its row links to, as long as that row is
\* there: its id is taken for good.
Known(entry, table, taken) == entry.id \in taken /\ (table[entry.id] # None => table[entry.id].url = entry.url)

DocTypeOK ==
  /\ rows \in [Ids -> Row \cup {None}] /\ used \subseteq Ids /\ raced \subseteq Ids
  /\ pc \in [Workers -> {"list", "download", "record"} \cup Ended]
  /\ batch \in [Workers -> Seq(Entry)]
  /\ seen = [w \in Workers |-> seen[w]]

RowsInv == \A i \in Ids : rows[i] # None => i \in used

BatchInv ==
  \A w \in Workers : /\ pc[w] \in {"download", "record"} => batch[w] # <<>>
                     /\ \A k \in 1..Len(batch[w]) : Known(batch[w][k], rows, used)

SeenInv ==
  \A w \in Workers : pc[w] = "record" => /\ seen[w].row \in Row
                                         /\ seen[w].outcome \in Outcome(Head(batch[w]).url)

DocInv == DocTypeOK /\ RowsInv /\ BatchInv /\ SeenInv /\ TextIsOfItsUrl /\ OutcomeIsWhole

(***************************************************************************)
(* The pieces the steps are made of.                                       *)
(***************************************************************************)
\* A row that has just been inserted.
LEMMA PendingRow ==
  ASSUME NEW t \in Tenders, NEW u \in Urls
  PROVE  /\ Pending(t, u) \in Row /\ Pending(t, u).url = u /\ Pending(t, u).text = None
         /\ ~Pending(t, u).parsed /\ Pending(t, u).error = None
BY DEF Pending, Row, Errors

\* Every reply of a server leads to an outcome of the document.
LEMMA OutcomeOfReply ==
  ASSUME NEW u \in Urls, NEW reply \in Replies
  PROVE  ProcessDocument(u, reply) \in Outcome(u)
<1>1. CASE ~Downloaded(reply)
  BY <1>1 DEF ProcessDocument, Failed, Outcome, Messages
<1>2. CASE Downloaded(reply) /\ ~reply.pdf
  BY <1>2 DEF ProcessDocument, Failed, Outcome, Messages
<1>3. CASE Downloaded(reply) /\ reply.pdf
  BY <1>3 DEF ProcessDocument, Parsed, Failed, Outcome, Messages
<1>4. reply.pdf \in BOOLEAN
  BY DEF Replies
<1> QED BY <1>1, <1>2, <1>3, <1>4

\* What a record leaves of a row: the row stays that of its document, and becomes the
\* whole outcome if it is what was loaded.
LEMMA WrittenRow ==
  ASSUME NEW now \in Row, NEW loaded \in Row, NEW outcome \in Outcome(now.url), now.text \in {None, now.url}
  PROVE  LET row == Written(now, loaded, Assigned(loaded, outcome))
         IN  /\ row \in Row /\ row.url = now.url /\ row.text \in {None, now.url}
             /\ now = loaded => \/ row.parsed /\ row.text # None /\ row.error = None
                                \/ ~row.parsed /\ row.text = None /\ row.error # None
<1> DEFINE assigned == Assigned(loaded, outcome)
           row      == Written(now, loaded, assigned)
<1>1. /\ assigned.text = outcome.text /\ assigned.parsed = (outcome.error = None)
      /\ assigned.error = outcome.error
  BY DEF Assigned, Row
<1>2. /\ outcome.text \in {None, now.url} /\ outcome.error \in Errors
      /\ outcome.error = None => outcome.text = now.url /\ now.url # None
      /\ outcome.error # None => outcome.text = None
  BY NoneAssumption DEF Outcome, Errors, Row
<1>3. /\ row = [now EXCEPT !.text = row.text, !.parsed = row.parsed, !.error = row.error]
      /\ row.text   = IF assigned.text # loaded.text THEN assigned.text ELSE now.text
      /\ row.parsed = IF assigned.parsed # loaded.parsed \/ assigned.parsed THEN assigned.parsed ELSE now.parsed
      /\ row.error  = IF assigned.error # loaded.error THEN assigned.error ELSE now.error
  BY DEF Written, Row
<1>4. row.text \in {None, now.url} /\ row.parsed \in BOOLEAN /\ row.error \in Errors
  BY <1>1, <1>2, <1>3 DEF Row
<1>5. row \in Row /\ row.url = now.url
  <2> HIDE DEF row
  <2> QED BY <1>3, <1>4 DEF Row
<1>6. ASSUME now = loaded
      PROVE  row.text = outcome.text /\ row.parsed = (outcome.error = None) /\ row.error = outcome.error
  <2>1. loaded.parsed \in BOOLEAN /\ assigned.parsed \in BOOLEAN
    BY <1>1 DEF Row
  <2> HIDE DEF row, assigned
  <2> QED BY <1>1, <1>3, <1>6, <2>1
<1> HIDE DEF row
<1> QED BY <1>2, <1>4, <1>5, <1>6 DEF row, assigned

\* What is left of a batch of entries.
LEMMA RestOfBatch ==
  ASSUME NEW s \in Seq(Entry), s # <<>>
  PROVE  /\ Head(s) \in Entry /\ Head(s) = s[1] /\ 1 \in 1..Len(s)
         /\ Tail(s) \in Seq(Entry) /\ (Len(s) > 1 => Tail(s) # <<>>)
         /\ \A k \in 1..Len(Tail(s)) : k + 1 \in 1..Len(s) /\ Tail(s)[k] = s[k + 1]
<1>1. Len(s) \in Nat \ {0} /\ Len(<<>>) = 0
  BY EmptySeq
<1>2. /\ Head(s) \in Entry /\ Tail(s) \in Seq(Entry) /\ Len(Tail(s)) = Len(s) - 1
      /\ \A k \in 1..Len(Tail(s)) : Tail(s)[k] = s[k + 1]
  BY HeadTailProperties
<1>3. Head(s) = s[1]
  OBVIOUS
<1>4. Len(s) > 1 => Tail(s) # <<>>
  <2> DEFINE t == Tail(s)
  <2>1. Len(t) = Len(s) - 1 /\ Len(s) \in Nat
    BY <1>1, <1>2
  <2> HIDE DEF t
  <2>2. t = <<>> => Len(t) = 0
    BY <1>1
  <2>3. Len(s) > 1 => t # <<>>
    BY <2>1, <2>2
  <2> QED BY <2>3 DEF t
<1>5. \A k \in 1..Len(Tail(s)) : k + 1 \in 1..Len(s)
  BY <1>1, <1>2
<1> QED BY <1>1, <1>2, <1>3, <1>4, <1>5

\* An entry stays known as long as no row comes or changes its link.
LEMMA KnownStays ==
  ASSUME NEW entry \in Entry, NEW table, NEW later, NEW taken, NEW known, taken \subseteq known,
         \A i \in Ids : i \in taken /\ later[i] # None => table[i] # None /\ later[i].url = table[i].url,
         Known(entry, table, taken)
  PROVE  Known(entry, later, known)
BY DEF Known, Entry

\* A step of one process that gives it a batch of known entries and changes no link.
LEMMA BatchStep ==
  ASSUME DocTypeOK, BatchInv, NEW w \in Workers,
         used \subseteq used', NEW s \in Seq(Entry), NEW label, batch' = [batch EXCEPT ![w] = s],
         pc' = [pc EXCEPT ![w] = label], label \in {"download", "record"} => s # <<>>,
         \A i \in Ids : i \in used /\ rows'[i] # None => rows[i] # None /\ rows'[i].url = rows[i].url,
         \A k \in 1..Len(s) : Known(s[k], rows, used)
  PROVE  BatchInv' /\ batch' \in [Workers -> Seq(Entry)]
<1>1. /\ batch' \in [Workers -> Seq(Entry)] /\ batch'[w] = s /\ pc'[w] = label
      /\ \A v \in Workers : v # w => batch'[v] = batch[v] /\ pc'[v] = pc[v]
  BY DEF DocTypeOK
<1>2. ASSUME NEW v \in Workers, NEW k \in 1..Len(batch'[v]) PROVE Known(batch'[v][k], rows', used')
  <2>1. batch'[v][k] \in Entry
    BY <1>1, ElementOfSeq
  <2>2. Known(batch'[v][k], rows, used)
    BY <1>1, <1>2 DEF BatchInv
  <2> QED BY <2>1, <2>2, KnownStays
<1> QED BY <1>1, <1>2 DEF BatchInv

\* The end of a command, by whichever way.
LEMMA LeaveKeeps ==
  ASSUME DocTypeOK, BatchInv, SeenInv, NEW w \in Workers, NEW label \in Ended, Leave(w, label), UNCHANGED used,
         rows' \in [Ids -> Row \cup {None}], raced' \subseteq Ids,
         \A i \in Ids : rows'[i] # None => rows[i] # None /\ rows'[i].url = rows[i].url
  PROVE  DocTypeOK' /\ BatchInv' /\ SeenInv'
<1>1. <<>> \in Seq(Entry) /\ \A k \in 1..Len(<<>>) : FALSE
  BY EmptySeq
<1>2. BatchInv' /\ batch' \in [Workers -> Seq(Entry)]
  <2>1. /\ batch' = [batch EXCEPT ![w] = <<>>] /\ pc' = [pc EXCEPT ![w] = label]
        /\ label \notin {"download", "record"}
    BY DEF Leave, Goto, Ended
  <2>2. \A k \in 1..Len(<<>>) : Known(<<>>[k], rows, used)
    BY <1>1
  <2> QED BY <1>1, <2>1, <2>2, BatchStep
<1>3. DocTypeOK'
  BY <1>2 DEF DocTypeOK, Leave, Goto, Ended
<1>4. SeenInv'
  BY DEF DocTypeOK, SeenInv, Leave, Goto, Ended
<1> QED BY <1>2, <1>3, <1>4

\* The next document of a batch is one of the entries that were known before.
LEMMA ContinueKeeps ==
  ASSUME DocTypeOK, BatchInv, SeenInv, NEW w \in Workers, batch[w] # <<>>, Continue(w), UNCHANGED used,
         rows' \in [Ids -> Row \cup {None}], raced' \subseteq Ids,
         \A i \in Ids : rows'[i] # None => rows[i] # None /\ rows'[i].url = rows[i].url
  PROVE  DocTypeOK' /\ BatchInv' /\ SeenInv'
<1>1. batch[w] \in Seq(Entry) /\ <<>> \in Seq(Entry) /\ \A k \in 1..Len(<<>>) : FALSE
  BY EmptySeq DEF DocTypeOK
<1>2. PICK s \in Seq(Entry), label \in {"list", "download", "finished"} :
        /\ batch' = [batch EXCEPT ![w] = s] /\ pc' = [pc EXCEPT ![w] = label]
        /\ label = "download" => s # <<>>
        /\ \A k \in 1..Len(s) : Known(s[k], rows, used)
  <2>1. CASE /\ Len(batch[w]) > 1 /\ pc' = [pc EXCEPT ![w] = "download"]
             /\ batch' = [batch EXCEPT ![w] = Tail(batch[w])]
    <3>1. \A k \in 1..Len(Tail(batch[w])) : Known(Tail(batch[w])[k], rows, used)
      BY <1>1, RestOfBatch DEF BatchInv
    <3> QED BY <1>1, <2>1, <3>1, RestOfBatch
  <2>2. \A k \in 1..Len(<<>>) : Known(<<>>[k], rows, used)
    BY <1>1
  <2>3. CASE batch' = [batch EXCEPT ![w] = <<>>] /\ pc' = [pc EXCEPT ![w] = "list"]
    BY <1>1, <2>2, <2>3
  <2>4. CASE batch' = [batch EXCEPT ![w] = <<>>] /\ pc' = [pc EXCEPT ![w] = "finished"]
    BY <1>1, <2>2, <2>4
  <2> QED BY <2>1, <2>3, <2>4 DEF Continue, Goto
<1>3. BatchInv' /\ batch' \in [Workers -> Seq(Entry)]
  BY <1>2, BatchStep
<1>4. DocTypeOK'
  <2>1. pc' \in [Workers -> {"list", "download", "record"} \cup Ended]
    BY <1>2 DEF DocTypeOK, Ended
  <2>2. seen' = [v \in Workers |-> seen'[v]]
    BY DEF Continue, DocTypeOK
  <2> QED BY <1>3, <2>1, <2>2 DEF DocTypeOK
<1>5. SeenInv'
  BY <1>2 DEF SeenInv, Continue, DocTypeOK
<1> QED BY <1>3, <1>4, <1>5

(***************************************************************************)
(* The steps.                                                              *)
(***************************************************************************)
LEMMA DocInit == Init => DocInv
<1> SUFFICES ASSUME Init PROVE DocInv
  OBVIOUS
<1>1. PICK home \in [Urls -> Tenders \cup {None}], id \in [Urls -> Ids] :
        rows = [i \in Ids |-> IF \E u \in Urls : id[u] = i /\ home[u] # None
                              THEN LET u == CHOOSE u \in Urls : id[u] = i IN Pending(home[u], u)
                              ELSE None]
        /\ IsInjective(id)
  BY DEF Init
<1>2. ASSUME NEW i \in Ids, rows[i] # None
      PROVE  \E t \in Tenders, u \in Urls : rows[i] = Pending(t, u)
  <2>1. PICK v \in Urls : id[v] = i /\ home[v] # None
    BY <1>1, <1>2
  <2>2. \A u \in Urls : id[u] = i => u = v
    BY <1>1, <2>1 DEF IsInjective
  <2>3. (CHOOSE u \in Urls : id[u] = i) = v
    BY <2>1, <2>2
  <2>4. rows[i] = Pending(home[v], v)
    BY <1>1, <2>1, <2>3
  <2> QED BY <2>1, <2>4
<1>3. \A i \in Ids : rows[i] # None => /\ rows[i] \in Row /\ rows[i].text = None
                                       /\ ~rows[i].parsed /\ rows[i].error = None
  BY <1>2, PendingRow
<1>4. <<>> \in Seq(Entry) /\ \A k \in 1..Len(<<>>) : FALSE
  BY EmptySeq
<1>5. rows \in [Ids -> Row \cup {None}]
  <2>1. rows = [i \in Ids |-> rows[i]]
    BY <1>1
  <2> QED BY <2>1, <1>3
<1>6. DocTypeOK
  BY <1>4, <1>5 DEF DocTypeOK, Init, Ended
<1>7. RowsInv /\ BatchInv /\ SeenInv
  BY <1>4 DEF RowsInv, BatchInv, SeenInv, Init
<1>8. TextIsOfItsUrl /\ OutcomeIsWhole
  BY <1>3 DEF TextIsOfItsUrl, OutcomeIsWhole, isPending
<1> QED BY <1>6, <1>7, <1>8 DEF DocInv

\* What the rows and their history keep when they do not change.
LEMMA RowsStay ==
  ASSUME DocInv, UNCHANGED <<rows, used, raced>>
  PROVE  RowsInv' /\ TextIsOfItsUrl' /\ OutcomeIsWhole'
BY DEF DocInv, RowsInv, TextIsOfItsUrl, OutcomeIsWhole, isPending

LEMMA StartKeeps == ASSUME DocInv, NEW w \in Workers, Start(w) PROVE DocInv'
<1>1. DocTypeOK' /\ SeenInv'
  BY DEF DocInv, DocTypeOK, SeenInv, Start, Goto
<1>2. BatchInv'
  BY DEF DocInv, DocTypeOK, BatchInv, Start, Goto
<1>3. UNCHANGED <<rows, used, raced>>
  BY DEF Start
<1> QED BY <1>1, <1>2, <1>3, RowsStay DEF DocInv

LEMMA ListKeeps == ASSUME DocInv, NEW w \in Workers, List(w) PROVE DocInv'
<1>1. UNCHANGED <<rows, used, raced>>
  BY DEF List
<1>2. CASE Leave(w, "finished")
  BY <1>1, <1>2, LeaveKeeps, RowsStay DEF Ended, DocInv, DocTypeOK
<1>3. ASSUME NEW ids \in PendingDocuments, Goto(w, "download"), UNCHANGED seen,
             batch' = [batch EXCEPT ![w] = [k \in DOMAIN ids |-> [id |-> ids[k], url |-> rows[ids[k]].url]]]
      PROVE  DocInv'
  <2> DEFINE s == [k \in DOMAIN ids |-> [id |-> ids[k], url |-> rows[ids[k]].url]]
  <2>1. PICK n \in 1..BatchSize : ids \in [1..n -> PendingIds]
    BY DEF PendingDocuments
  <2>2. n \in Nat /\ n >= 1
    BY BatchAssumption, <2>1
  <2>3. \A k \in 1..n : /\ ids[k] \in Ids /\ rows[ids[k]] # None /\ rows[ids[k]] \in Row
                        /\ ids[k] \in used
    BY <2>1 DEF PendingIds, isPending, DocInv, DocTypeOK, RowsInv
  <2>4. s \in [1..n -> Entry]
    BY <2>1, <2>3 DEF Entry, Row
  <2>5. DOMAIN s = 1..n /\ \A k \in 1..n : s[k] = [id |-> ids[k], url |-> rows[ids[k]].url]
    BY <2>1
  <2>6. \A k \in 1..n : Known(s[k], rows, used)
    BY <2>3, <2>5 DEF Known
  <2> HIDE DEF s
  <2>7. s \in Seq(Entry)
    BY <2>2, <2>4, SeqDef
  <2>8. DOMAIN s = 1..Len(s)
    BY <2>7, LenProperties
  <2>9. s # <<>>
    <3>1. Len(<<>>) = 0
      BY EmptySeq
    <3>2. s = <<>> => Len(s) = 0
      BY <3>1
    <3> QED BY <3>2, <2>2, <2>5, <2>8
  <2>10. batch' = [batch EXCEPT ![w] = s] /\ pc' = [pc EXCEPT ![w] = "download"]
    BY <1>3 DEF s, Goto
  <2>11. BatchInv' /\ batch' \in [Workers -> Seq(Entry)]
    <3>1. DocTypeOK /\ BatchInv
      BY DEF DocInv
    <3>2. \A k \in 1..Len(s) : Known(s[k], rows, used)
      BY <2>5, <2>6, <2>8
    <3> QED BY <1>1, <2>7, <2>9, <2>10, <3>1, <3>2, BatchStep
  <2>12. DocTypeOK' /\ SeenInv'
    BY <1>1, <1>3, <2>10, <2>11 DEF DocInv, DocTypeOK, SeenInv
  <2> QED BY <1>1, <2>11, <2>12, RowsStay DEF DocInv
<1> QED BY <1>1, <1>2, <1>3 DEF List

LEMMA DownloadKeeps == ASSUME DocInv, NEW w \in Workers, Download(w) PROVE DocInv'
<1> DEFINE i == Head(batch[w]).id
<1>1. UNCHANGED <<rows, used, raced>> /\ pc[w] = "download" /\ batch[w] # <<>>
  BY DEF Download, DocInv, BatchInv
<1>2. batch[w] \in Seq(Entry) /\ Head(batch[w]) \in Entry /\ Head(batch[w]) = batch[w][1]
      /\ 1 \in 1..Len(batch[w])
  BY <1>1, RestOfBatch DEF DocInv, DocTypeOK
<1>3. CASE Continue(w)
  <2>1. DocTypeOK /\ BatchInv /\ SeenInv /\ rows' \in [Ids -> Row \cup {None}] /\ raced' \subseteq Ids
    BY <1>1 DEF DocInv, DocTypeOK
  <2>2. DocTypeOK' /\ BatchInv' /\ SeenInv'
    BY <1>1, <1>3, <2>1, ContinueKeeps
  <2> QED BY <1>1, <2>2, RowsStay DEF DocInv
<1>4. ASSUME NEW reply \in Replies, rows[i] # None, Goto(w, "record"), UNCHANGED <<batch, round>>,
             seen' = [seen EXCEPT ![w] = [row |-> rows[i], outcome |-> ProcessDocument(Head(batch[w]).url, reply)]]
      PROVE  DocInv'
  <2>1. rows[i] \in Row /\ Head(batch[w]).url \in Urls
    BY <1>2, <1>4 DEF DocInv, DocTypeOK, Entry
  <2>2. ProcessDocument(Head(batch[w]).url, reply) \in Outcome(Head(batch[w]).url)
    BY <2>1, OutcomeOfReply
  <2>3. DocTypeOK'
    BY <1>1, <1>4 DEF DocInv, DocTypeOK, Goto
  <2>4. BatchInv'
    BY <1>1, <1>4 DEF DocInv, DocTypeOK, BatchInv, Goto
  <2>5. /\ seen'[w] = [row |-> rows[i], outcome |-> ProcessDocument(Head(batch[w]).url, reply)]
        /\ \A v \in Workers : v # w => seen'[v] = seen[v] /\ pc'[v] = pc[v]
    BY <1>4 DEF DocInv, DocTypeOK, Goto
  <2>6. SeenInv'
    <3> HIDE DEF i
    <3> QED BY <1>4, <2>1, <2>2, <2>5 DEF DocInv, SeenInv, i
  <2> QED BY <1>1, <2>3, <2>4, <2>6, RowsStay DEF DocInv
<1> QED BY <1>3, <1>4 DEF Download

\* The rows after the UPDATE of a row that is still there.
LEMMA RecordRows ==
  ASSUME DocInv, NEW i \in Ids, NEW loaded \in Row, NEW outcome, rows[i] # None => outcome \in Outcome(rows[i].url),
         rows' = IF rows[i] = None THEN rows
                 ELSE [rows EXCEPT ![i] = Written(rows[i], loaded, Assigned(loaded, outcome))],
         raced' = IF rows[i] = loaded THEN raced ELSE raced \cup {i}, used' = used
  PROVE  /\ rows' \in [Ids -> Row \cup {None}] /\ raced' \subseteq Ids
         /\ RowsInv' /\ TextIsOfItsUrl' /\ OutcomeIsWhole'
         /\ \A j \in Ids : rows'[j] # None => rows[j] # None /\ rows'[j].url = rows[j].url
<1>1. CASE rows[i] = None
  <2>1. rows' = rows /\ raced \subseteq raced' /\ raced' \subseteq Ids
    BY <1>1 DEF DocInv, DocTypeOK
  <2> QED BY <2>1 DEF DocInv, DocTypeOK, RowsInv, TextIsOfItsUrl, OutcomeIsWhole, isPending
<1>2. CASE rows[i] # None
  <2> DEFINE row == Written(rows[i], loaded, Assigned(loaded, outcome))
  <2>1. rows[i] \in Row /\ rows[i].text \in {None, rows[i].url} /\ outcome \in Outcome(rows[i].url)
    BY <1>2 DEF DocInv, DocTypeOK, TextIsOfItsUrl
  <2>2. /\ row \in Row /\ row.url = rows[i].url /\ row.text \in {None, rows[i].url}
        /\ rows[i] = loaded => \/ row.parsed /\ row.text # None /\ row.error = None
                               \/ ~row.parsed /\ row.text = None /\ row.error # None
    BY <2>1, WrittenRow
  <2>3. rows' = [rows EXCEPT ![i] = row]
    BY <1>2
  <2> HIDE DEF row
  <2>4. /\ rows' \in [Ids -> Row \cup {None}] /\ rows'[i] = row
        /\ \A j \in Ids : j # i => rows'[j] = rows[j]
    BY <2>2, <2>3 DEF DocInv, DocTypeOK
  <2>5. raced \subseteq raced' /\ raced' \subseteq Ids /\ (rows[i] # loaded => i \in raced')
    BY DEF DocInv, DocTypeOK
  <2>6. RowsInv' /\ TextIsOfItsUrl'
    BY <1>2, <2>2, <2>4 DEF DocInv, RowsInv, TextIsOfItsUrl
  <2>7. OutcomeIsWhole'
    BY <2>2, <2>4, <2>5 DEF DocInv, OutcomeIsWhole, isPending
  <2> QED BY <1>2, <2>2, <2>4, <2>5, <2>6, <2>7
<1> QED BY <1>1, <1>2

LEMMA RecordKeeps == ASSUME DocInv, NEW w \in Workers, Record(w) PROVE DocInv'
<1> DEFINE i == Head(batch[w]).id
<1>1. used' = used /\ pc[w] = "record" /\ batch[w] # <<>>
  BY DEF Record, DocInv, BatchInv
<1>2. batch[w] \in Seq(Entry) /\ Head(batch[w]) \in Entry /\ Head(batch[w]) = batch[w][1]
      /\ 1 \in 1..Len(batch[w])
  BY <1>1, RestOfBatch DEF DocInv, DocTypeOK
<1>3. i \in Ids /\ (rows[i] # None => rows[i].url = Head(batch[w]).url)
  BY <1>2 DEF Entry, DocInv, BatchInv, Known
<1>4. seen[w].row \in Row /\ seen[w].outcome \in Outcome(Head(batch[w]).url)
  BY <1>1 DEF DocInv, SeenInv
<1>5. CASE Leave(w, "aborted") /\ UNCHANGED <<rows, raced>>
  BY <1>1, <1>5, LeaveKeeps, RowsStay DEF Ended, DocInv, DocTypeOK
<1>6. ASSUME rows' = IF rows[i] = None THEN rows
                     ELSE [rows EXCEPT ![i] = Written(rows[i], seen[w].row, Assigned(seen[w].row, seen[w].outcome))],
             raced' = IF rows[i] = seen[w].row THEN raced ELSE raced \cup {i},
             Continue(w) \/ Leave(w, "aborted")
      PROVE  DocInv'
  <2>1. /\ rows' \in [Ids -> Row \cup {None}] /\ raced' \subseteq Ids
        /\ RowsInv' /\ TextIsOfItsUrl' /\ OutcomeIsWhole'
        /\ \A j \in Ids : rows'[j] # None => rows[j] # None /\ rows'[j].url = rows[j].url
    <3> HIDE DEF i
    <3>1. rows[i] # None => seen[w].outcome \in Outcome(rows[i].url)
      BY <1>3, <1>4
    <3>2. i \in Ids /\ used' = used
      BY <1>1, <1>3
    <3> QED BY <1>4, <1>6, <3>1, <3>2, RecordRows
  <2>2. DocTypeOK /\ BatchInv /\ SeenInv
    BY DEF DocInv
  <2>3. DocTypeOK' /\ BatchInv' /\ SeenInv'
    BY <1>1, <1>6, <2>1, <2>2, LeaveKeeps, ContinueKeeps DEF Ended
  <2> QED BY <2>1, <2>3 DEF DocInv
<1> QED BY <1>5, <1>6 DEF Record, Fault

LEMMA RaiseKeeps == ASSUME DocInv, NEW w \in Workers, Raise(w) PROVE DocInv'
BY LeaveKeeps, RowsStay DEF Raise, Fault, Ended, DocInv, DocTypeOK

\* A row that comes takes an id no entry refers to.
LEMMA ReingestKeeps ==
  ASSUME DocInv, NEW t \in Tenders, NEW S \in SUBSET Urls, NEW id \in [S -> NewIds(t)],
         rows' = Replaced(t, S, id), used' = used \cup {id[u] : u \in S}, UNCHANGED <<worker, faults, raced>>
  PROVE  DocInv'
<1> USE DEF Replaced
<1>1. \A u \in S : id[u] \in Ids /\ id[u] \notin used
  BY DEF NewIds
<1>2. ASSUME NEW i \in Ids, \E u \in S : id[u] = i
      PROVE  /\ rows'[i] \in Row /\ rows'[i].text = None /\ ~rows'[i].parsed /\ rows'[i].error = None
             /\ i \notin used /\ i \in used'
  <2>1. (CHOOSE u \in S : id[u] = i) \in Urls
    BY <1>2
  <2>2. rows'[i] = Pending(t, CHOOSE u \in S : id[u] = i)
    BY <1>2
  <2>3. i \notin used /\ i \in used'
    BY <1>1, <1>2
  <2> QED BY <2>1, <2>2, <2>3, PendingRow
<1>3. ASSUME NEW i \in Ids, ~\E u \in S : id[u] = i, rows'[i] # None PROVE rows'[i] = rows[i]
  BY <1>3
<1>4. used \subseteq used' /\ used' \subseteq Ids
  BY <1>1 DEF DocInv, DocTypeOK
<1>5. rows' \in [Ids -> Row \cup {None}]
  <2>1. \A i \in Ids : rows'[i] \in Row \cup {None}
    BY <1>2, <1>3 DEF DocInv, DocTypeOK
  <2> QED BY <2>1
<1>6. RowsInv' /\ TextIsOfItsUrl'
  BY <1>2, <1>3, <1>4 DEF DocInv, RowsInv, TextIsOfItsUrl
<1>7. raced' = raced
  OBVIOUS
<1>8. OutcomeIsWhole'
  BY <1>2, <1>3, <1>7 DEF DocInv, OutcomeIsWhole, isPending
<1>9. UNCHANGED <<pc, batch, seen>>
  BY DEF worker
<1>10. DocTypeOK' /\ SeenInv'
  BY <1>4, <1>5, <1>7, <1>9 DEF DocInv, DocTypeOK, SeenInv
<1>11. BatchInv'
  <2>1. ASSUME NEW w \in Workers, NEW k \in 1..Len(batch[w]) PROVE Known(batch[w][k], rows', used')
    <3>1. batch[w][k] \in Entry
      BY ElementOfSeq DEF DocInv, DocTypeOK
    <3>2. \A i \in Ids : i \in used /\ rows'[i] # None => rows'[i] = rows[i]
      BY <1>2, <1>3
    <3>3. Known(batch[w][k], rows, used)
      BY DEF DocInv, BatchInv
    <3> QED BY <1>4, <3>1, <3>2, <3>3 DEF Known, Entry
  <2> QED BY <1>9, <2>1 DEF DocInv, BatchInv
<1> QED BY <1>6, <1>8, <1>10, <1>11 DEF DocInv

LEMMA DocStep == DocInv /\ [Next]_vars => DocInv'
<1> SUFFICES ASSUME DocInv, [Next]_vars PROVE DocInv'
  OBVIOUS
<1>1. ASSUME NEW w \in Workers, Start(w) \/ Step(w) PROVE DocInv'
  BY <1>1, StartKeeps, ListKeeps, DownloadKeeps, RecordKeeps, RaiseKeeps DEF Step
<1>2. ASSUME NEW t \in Tenders, Reingest(t) PROVE DocInv'
  <2>1. PICK S \in SUBSET Urls : \E id \in [S -> NewIds(t)] :
          rows' = Replaced(t, S, id) /\ used' = used \cup {id[u] : u \in S} /\ UNCHANGED <<worker, faults, raced>>
    BY <1>2 DEF Reingest
  <2>2. PICK id \in [S -> NewIds(t)] :
          rows' = Replaced(t, S, id) /\ used' = used \cup {id[u] : u \in S} /\ UNCHANGED <<worker, faults, raced>>
    BY <2>1
  <2> QED BY <2>2, ReingestKeeps
<1>3. CASE UNCHANGED vars
  BY <1>3, RowsStay DEF vars, worker, DocInv, DocTypeOK, BatchInv, SeenInv
<1> QED BY <1>1, <1>2, <1>3 DEF Next

\* The text of a row was extracted from the document the row links to.
THEOREM TextsAreOfTheirUrls == Spec => []TextIsOfItsUrl
<1>1. DocInv => TextIsOfItsUrl
  BY DEF DocInv
<1> QED BY DocInit, DocStep, <1>1, PTL DEF Spec

\* A row nobody else raced for is pending, parsed with its text, or failed.
THEOREM OutcomesAreWhole == Spec => []OutcomeIsWhole
<1>1. DocInv => OutcomeIsWhole
  BY DEF DocInv
<1> QED BY DocInit, DocStep, <1>1, PTL DEF Spec
=============================================================================
