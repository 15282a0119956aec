------------------------- MODULE TenderStoreProofs -------------------------
(***************************************************************************)
(* TLAPS proofs about TenderStore, for any number of calls, keys, columns, *)
(* snapshots and batches.                                                  *)
(***************************************************************************)
EXTENDS TenderStore, FiniteSetTheorems, TLAPS

OnItem == {"select", "documents", "insert", "update", "write"}

\* While a call works on a tender of its batch, there is one at its position; the
\* session has a value for each column of a tender it has inserted.
PositionInv ==
  \A w \in Writers :
    /\ pc[w] = "idle" => at[w] = 1
    /\ pc[w] \in OnItem => at[w] \in DOMAIN batch[w]
InsertedInv ==
  \A w \in Writers : \A k \in tx[w].inserted : tx[w].assigned[k] \in [Columns -> Values]

TypeInv == TypeOK /\ PositionInv /\ InsertedInv

USE ContentAssumption, LinksAssumption, BatchesAssumption

LEMMA NoTxTyped == NoTx \in Tx
  BY DEF NoTx, Tx, NoWrite

LEMMA ItemTyped ==
  ASSUME TypeInv, NEW w \in Writers, pc[w] \in OnItem
  PROVE  item(w) \in Item /\ key(w) \in Keys /\ item(w).ver \in Versions
  <1>1. batch[w] \in Seq(Item) /\ at[w] \in DOMAIN batch[w]
    BY DEF TypeInv, TypeOK, PositionInv
  <1>2. batch[w][at[w]] \in Item
    BY <1>1
  <1> QED BY <1>2 DEF item, key, Item

LEMMA BatchTyped ==
  ASSUME TypeInv, NEW w \in Writers, NEW i \in DOMAIN batch[w]
  PROVE  i \in Nat \ {0} /\ batch[w][i] \in Item /\ batch[w][i].key \in Keys
  <1>1. batch[w] \in Seq(Item)
    BY DEF TypeInv, TypeOK
  <1>2. i \in Nat \ {0} /\ batch[w][i] \in Item
    BY <1>1
  <1> QED BY <1>2 DEF Item

LEMMA RecordsTyped ==
  ASSUME TypeInv, NEW w \in Writers, pc[w] \in OnItem
  PROVE  DocumentRecords(w, at[w]) \subseteq Doc
  <1>1. batch[w][at[w]] \in Item
    BY ItemTyped DEF item
  <1>2. at[w] \in Nat
    BY DEF TypeInv, TypeOK
  <1>3. \A u \in Links[batch[w][at[w]].ver] : u \in Urls
    BY <1>1 DEF Item
  <1> QED BY <1>1, <1>2, <1>3 DEF DocumentRecords, Doc, Item

LEMMA TypeInit == Init => TypeInv
  <1> SUFFICES ASSUME Init PROVE TypeInv
    OBVIOUS
  <1>1. tx \in [Writers -> Tx]
    BY NoTxTyped DEF Init
  <1>2. emb \in [Writers -> [victims : SUBSET Embedding, dropped : SUBSET Embedding]]
    BY DEF Init, NoEmb
  <1>3. batch \in [Writers -> Seq(Item)]
    BY DEF Init
  <1>4. TypeOK
    BY <1>1, <1>2, <1>3 DEF Init, TypeOK
  <1>5. PositionInv /\ InsertedInv
    BY DEF Init, PositionInv, InsertedInv, OnItem, NoTx
  <1> QED BY <1>4, <1>5 DEF TypeInv

\* The parts of TypeOK that an action leaves alone.
TypedTables  == rows \subseteq Row /\ docs \subseteq Doc /\ embeddings \subseteq Embedding
TypedCall    == batch \in [Writers -> Seq(Item)] /\ at \in [Writers -> Nat \ {0}]
TypedPc      == pc \in [Writers -> {"idle", "embed"} \cup InTx \cup InEmb \cup Ended]
TypedEmb     == emb \in [Writers -> [victims : SUBSET Embedding, dropped : SUBSET Embedding]]
TypedHistory ==
  /\ lastWriter \in [Keys -> Writers \cup {NoWriter}]
  /\ lastEmbedder \in [Keys -> Writers \cup {NoWriter}]
  /\ txOverlap \in [Writers -> SUBSET Writers] /\ embOverlap \in [Writers -> SUBSET Writers]

LEMMA TypeParts ==
  TypeOK <=> TypedTables /\ TypedCall /\ TypedPc /\ TypedEmb /\ TypedHistory /\ tx \in [Writers -> Tx]
  BY DEF TypeOK, TypedTables, TypedCall, TypedPc, TypedEmb, TypedHistory

LEMMA GotoTyped ==
  ASSUME TypedPc, NEW w \in Writers, NEW l \in {"idle", "embed"} \cup InTx \cup InEmb \cup Ended,
         Goto(w, l)
  PROVE  TypedPc' /\ pc'[w] = l /\ \A u \in Writers \ {w} : pc'[u] = pc[u]
  BY DEF TypedPc, Goto

LEMMA MeetsTyped ==
  ASSUME NEW f \in [Writers -> SUBSET Writers], NEW w \in Writers, NEW labels
  PROVE  Meets(f, w, labels) \in [Writers -> SUBSET Writers]
  BY DEF Meets

\* A step that only gives one session a new value.
LEMMA TxTyped ==
  ASSUME tx \in [Writers -> Tx], NEW w \in Writers, NEW t \in Tx, tx' = [tx EXCEPT ![w] = t]
  PROVE  tx' \in [Writers -> Tx] /\ tx'[w] = t /\ \A u \in Writers \ {w} : tx'[u] = tx[u]
  OBVIOUS

LEMMA BeginTyped ==
  ASSUME TypeInv, NEW w \in Writers, NEW b \in Batches[w], Begin(w, b)
  PROVE  TypeInv'
  <1>1. b \in Seq(Item) /\ (b # <<>> => 1 \in DOMAIN b)
    OBVIOUS
  <1>2. TypeOK' /\ pc'[w] = (IF b = <<>> THEN "commit" ELSE "select")
        /\ \A u \in Writers \ {w} : pc'[u] = pc[u]
    <2>1. TypedPc' /\ pc'[w] = (IF b = <<>> THEN "commit" ELSE "select")
          /\ \A u \in Writers \ {w} : pc'[u] = pc[u]
      BY GotoTyped, TypeParts DEF TypeInv, Begin, InTx
    <2>2. TypedHistory'
      BY MeetsTyped, TypeParts DEF TypeInv, Begin, TypedHistory
    <2>3. TypedCall' /\ TypedTables' /\ TypedEmb' /\ (tx \in [Writers -> Tx])'
      BY <1>1, TypeParts DEF TypeInv, Begin, TypedCall, TypedTables, TypedEmb, tables
    <2> QED BY <2>1, <2>2, <2>3, TypeParts DEF TypeOK, TypedTables, TypedCall, TypedPc, TypedEmb, TypedHistory
  <1>3. PositionInv'
    BY <1>1, <1>2 DEF Begin, TypeInv, TypeOK, PositionInv, OnItem
  <1>4. InsertedInv'
    BY DEF Begin, TypeInv, InsertedInv
  <1> QED BY <1>2, <1>3, <1>4 DEF TypeInv

\* A step of w that leaves the tables, the embeddings and the other calls alone.
LEMMA SessionStepTyped ==
  ASSUME TypeInv, NEW w \in Writers, NEW t \in Tx, tx' = [tx EXCEPT ![w] = t],
         NEW l \in InTx \cup Ended, Goto(w, l), NEW n \in Nat \ {0}, at' = [at EXCEPT ![w] = n],
         l \in OnItem => n \in DOMAIN batch[w],
         \A k \in t.inserted : t.assigned[k] \in [Columns -> Values],
         UNCHANGED <<tables, batch, emb, history>>
  PROVE  TypeInv'
  <1> USE DEF TypeInv
  <1>1. tx' \in [Writers -> Tx] /\ tx'[w] = t /\ \A u \in Writers \ {w} : tx'[u] = tx[u]
    BY TxTyped DEF TypeOK
  <1>2. TypedPc' /\ pc'[w] = l /\ \A u \in Writers \ {w} : pc'[u] = pc[u]
    BY GotoTyped, TypeParts
  <1>3. TypedCall' /\ TypedTables' /\ TypedEmb' /\ TypedHistory'
    BY TypeParts DEF TypedCall, TypedTables, TypedEmb, TypedHistory, tables, history
  <1>4. TypeOK'
    BY <1>1, <1>2, <1>3 DEF TypeOK, TypedTables, TypedCall, TypedPc, TypedEmb, TypedHistory
  <1>5. PositionInv'
    BY <1>2 DEF PositionInv, TypeOK, InTx, Ended, OnItem
  <1>6. InsertedInv'
    BY <1>1 DEF InsertedInv
  <1> QED BY <1>4, <1>5, <1>6

LEMMA ReadTyped ==
  ASSUME TypeInv, NEW w \in Writers, Select(w) \/ SelectDocuments(w)
  PROVE  TypeInv'
  <1> DEFINE k == key(w)
  <1>1. pc[w] \in OnItem /\ k \in Keys /\ at[w] \in Nat \ {0} /\ at[w] \in DOMAIN batch[w] /\ tx[w] \in Tx
    BY ItemTyped DEF Select, SelectDocuments, OnItem, TypeInv, TypeOK, PositionInv
  <1>2. UNCHANGED <<tables, batch, emb, history>> /\ at' = [at EXCEPT ![w] = at[w]]
    BY DEF Select, SelectDocuments, call, TypeInv, TypeOK
  <1>3. PICK t \in Tx : /\ tx' = [tx EXCEPT ![w] = t]
                        /\ t.inserted = tx[w].inserted /\ t.assigned = tx[w].assigned
    <2>1. CASE tx' = tx
      <3>1. tx' = [tx EXCEPT ![w] = tx[w]]
        BY <2>1 DEF TypeInv, TypeOK
      <3> QED BY <3>1, <1>1
    <2>2. CASE \E r \in Committed(k) : tx' = [tx EXCEPT ![w].loaded[k] = r.cols]
      <3>1. PICK r \in Committed(k) : tx' = [tx EXCEPT ![w].loaded[k] = r.cols]
        BY <2>2
      <3>2. r.cols \in [Columns -> Values]
        BY DEF Committed, TypeInv, TypeOK, Row
      <3> DEFINE t == [tx[w] EXCEPT !.loaded[k] = r.cols]
      <3>3. t \in Tx /\ t.inserted = tx[w].inserted /\ t.assigned = tx[w].assigned
        BY <3>2, <1>1 DEF Tx
      <3>4. tx' = [tx EXCEPT ![w] = t]
        BY <3>1, <1>1
      <3> QED BY <3>3, <3>4
    <2>3. CASE SelectDocuments(w)
      <3>1. LoadedDocuments(k) \in SUBSET Doc
        BY DEF LoadedDocuments, DocumentsOf, TypeInv, TypeOK
      <3>2. [tx[w] EXCEPT !.collection[k] = LoadedDocuments(k)] \in Tx
        BY <3>1, <1>1 DEF Tx
      <3> QED BY <2>3, <3>2, <1>1 DEF SelectDocuments, TypeInv, TypeOK, Tx
    <2> QED BY <2>1, <2>2, <2>3 DEF Select
  <1>4. PICK l \in InTx : Goto(w, l)
    BY DEF Select, SelectDocuments, InTx
  <1> QED BY <1>1, <1>2, <1>3, <1>4, SessionStepTyped DEF TypeInv, InsertedInv

LEMMA WriteTyped ==
  ASSUME TypeInv, NEW w \in Writers, Insert(w) \/ Update(w)
  PROVE  TypeInv'
  <1> DEFINE k == key(w)
             c == Content[item(w).ver]
             a == [x \in Columns |-> IF x \in Changed(w) THEN c[x] ELSE tx[w].assigned[k][x]]
  <1>1. pc[w] \in OnItem /\ k \in Keys /\ at[w] \in Nat \ {0} /\ at[w] \in DOMAIN batch[w] /\ tx[w] \in Tx
    BY ItemTyped DEF Insert, Update, OnItem, TypeInv, TypeOK, PositionInv
  <1>2. c \in [Columns -> Values]
    BY ItemTyped, <1>1
  <1>3. UNCHANGED <<tables, batch, emb, history>> /\ at' = [at EXCEPT ![w] = at[w]] /\ Goto(w, "write")
    BY DEF Insert, Update, call, TypeInv, TypeOK
  <1>4. CASE Insert(w)
    <2> DEFINE t == [tx[w] EXCEPT !.inserted = @ \cup {k}, !.assigned[k] = c]
    <2>1. tx' = [tx EXCEPT ![w] = t]
      BY <1>4, <1>1 DEF Insert, TypeInv, TypeOK, Tx
    <2>2. t \in Tx
      BY <1>1, <1>2 DEF Tx
    <2>3. \A j \in t.inserted : t.assigned[j] \in [Columns -> Values]
      BY <1>1, <1>2 DEF Tx, TypeInv, InsertedInv
    <2> QED BY <1>1, <1>3, <2>1, <2>2, <2>3, SessionStepTyped DEF InTx
  <1>5. CASE Update(w)
    <2> DEFINE t == [tx[w] EXCEPT !.assigned[k] = a]
    <2>1. tx' = [tx EXCEPT ![w] = t]
      BY <1>5, <1>1 DEF Update, TypeInv, TypeOK, Tx
    <2>2. a \in [Columns -> Values \cup {Keep}]
      BY <1>1, <1>2 DEF Tx
    <2>3. t \in Tx
      BY <1>1, <2>2 DEF Tx
    <2>4. \A j \in t.inserted : t.assigned[j] \in [Columns -> Values]
      <3>1. k \in tx[w].inserted => a \in [Columns -> Values]
        BY <1>2 DEF TypeInv, InsertedInv
      <3> HIDE DEF a
      <3> QED BY <1>1, <3>1 DEF Tx, TypeInv, InsertedInv
    <2> QED BY <1>1, <1>3, <2>1, <2>3, <2>4, SessionStepTyped DEF InTx
  <1> QED BY <1>4, <1>5

LEMMA WriteDocumentsTyped ==
  ASSUME TypeInv, NEW w \in Writers, WriteDocuments(w)
  PROVE  TypeInv'
  <1> DEFINE k == key(w)
             stored == DocumentRecords(w, at[w])
             gone == tx[w].collection[k] \ stored
             t == [tx[w] EXCEPT !.newDocs = (@ \ gone) \cup (stored \ tx[w].collection[k]),
                                !.deadDocs = @ \cup (gone \cap docs),
                                !.collection[k] = stored]
  <1>1. pc[w] \in OnItem /\ k \in Keys /\ at[w] \in Nat \ {0} /\ at[w] \in DOMAIN batch[w] /\ tx[w] \in Tx
    BY ItemTyped DEF WriteDocuments, OnItem, TypeInv, TypeOK, PositionInv
  <1>2. stored \subseteq Doc
    BY <1>1, RecordsTyped
  <1>3. tx' = [tx EXCEPT ![w] = t]
    BY <1>1 DEF WriteDocuments, ReplaceDocuments, NewCollection, TypeInv, TypeOK, Tx
  <1>4. t \in Tx /\ t.inserted = tx[w].inserted /\ t.assigned = tx[w].assigned
    <2>1. tx[w].collection[k] \subseteq Doc /\ docs \subseteq Doc
      BY <1>1 DEF Tx, TypeInv, TypeOK
    <2> HIDE DEF stored
    <2> QED BY <1>1, <1>2, <2>1 DEF Tx
  <1>5. PICK n \in Nat \ {0}, l \in InTx :
          at' = [at EXCEPT ![w] = n] /\ Goto(w, l) /\ (l \in OnItem => n \in DOMAIN batch[w])
    <2>1. CASE at[w] < Len(batch[w])
      <3>1. at' = [at EXCEPT ![w] = at[w] + 1] /\ Goto(w, "select")
        BY <2>1 DEF WriteDocuments, Advance
      <3>2. at[w] + 1 \in DOMAIN batch[w] /\ at[w] + 1 \in Nat \ {0}
        BY <2>1, <1>1 DEF TypeInv, TypeOK
      <3> QED BY <3>1, <3>2 DEF InTx
    <2>2. CASE ~(at[w] < Len(batch[w]))
      <3>1. at' = [at EXCEPT ![w] = at[w]] /\ Goto(w, "commit")
        BY <2>2 DEF WriteDocuments, Advance, TypeInv, TypeOK
      <3> QED BY <3>1, <1>1 DEF InTx, OnItem
    <2> QED BY <2>1, <2>2
  <1>6. \A j \in t.inserted : t.assigned[j] \in [Columns -> Values]
    BY <1>4 DEF TypeInv, InsertedInv
  <1>7. UNCHANGED <<tables, batch, emb, history>>
    BY DEF WriteDocuments
  <1> HIDE DEF t
  <1> QED BY <1>3, <1>4, <1>5, <1>6, <1>7, SessionStepTyped

LEMMA RollbackTyped ==
  ASSUME TypeInv, NEW w \in Writers, Rollback(w), pc[w] \in InTx
  PROVE  TypeInv'
  <1>1. at[w] \in Nat \ {0} /\ at' = [at EXCEPT ![w] = at[w]]
    BY DEF Rollback, call, TypeInv, TypeOK
  <1>2. \A k \in NoTx.inserted : NoTx.assigned[k] \in [Columns -> Values]
    BY DEF NoTx
  <1>3. /\ UNCHANGED <<tables, batch, emb, history>>
        /\ tx' = [tx EXCEPT ![w] = NoTx] /\ Goto(w, "aborted")
    BY DEF Rollback, call
  <1>4. "aborted" \in InTx \cup Ended /\ "aborted" \notin OnItem
    BY DEF Ended, OnItem
  <1> QED BY <1>1, <1>2, <1>3, <1>4, NoTxTyped, SessionStepTyped

LEMMA OverwrittenTyped ==
  ASSUME TypeInv, NEW w \in Writers, NEW r \in rows
  PROVE  /\ Overwritten(w, r) \in Row
         /\ Overwritten(w, r).key = r.key /\ Overwritten(w, r).id = r.id
  <1>1. r \in Row /\ tx[w] \in Tx
    BY DEF TypeInv, TypeOK
  <1>2. \A c \in Columns : tx[w].assigned[r.key][c] # Keep => tx[w].assigned[r.key][c] \in Values
    BY <1>1 DEF Tx, Row
  <1> QED BY <1>1, <1>2 DEF Overwritten, Row

LEMMA CommitTyped ==
  ASSUME TypeInv, NEW w \in Writers, Commit(w)
  PROVE  TypeInv'
  <1>1. tx' \in [Writers -> Tx] /\ tx'[w] = NoTx /\ \A u \in Writers \ {w} : tx'[u] = tx[u]
    BY TxTyped, NoTxTyped DEF Commit, TypeInv, TypeOK
  <1>2. rows' \subseteq Row
    <2>1. {Overwritten(w, r) : r \in rows} \subseteq Row
      BY OverwrittenTyped
    <2>2. {[key |-> k, id |-> w, cols |-> tx[w].assigned[k]] : k \in tx[w].inserted} \subseteq Row
      BY DEF TypeInv, TypeOK, InsertedInv, Tx, Row
    <2> QED BY <2>1, <2>2 DEF Commit
  <1>3. docs' \subseteq Doc
    BY DEF Commit, TypeInv, TypeOK, Tx
  <1>4. lastWriter' \in [Keys -> Writers \cup {NoWriter}]
    BY DEF Commit, TypeInv, TypeOK
  <1>5. TypedPc' /\ pc'[w] \in {"done", "embed"} /\ \A u \in Writers \ {w} : pc'[u] = pc[u]
    BY GotoTyped, TypeParts DEF Commit, TypeInv, Ended
  <1>6. UNCHANGED <<batch, at, embeddings, emb, lastEmbedder, txOverlap, embOverlap>>
    BY DEF Commit, call
  <1>7. TypeOK'
    BY <1>1, <1>2, <1>3, <1>4, <1>5, <1>6 DEF TypeInv, TypeOK, TypedPc
  <1>8. PositionInv' /\ InsertedInv'
    BY <1>1, <1>5, <1>6 DEF TypeInv, PositionInv, InsertedInv, OnItem, NoTx
  <1> QED BY <1>7, <1>8 DEF TypeInv

\* The labels at which a call is done with upsert_tenders.
Past == {"embed", "done", "failed"} \cup InEmb

\* A step of w in or around upsert_embeddings.
LEMMA EmbStepTyped ==
  ASSUME TypeInv, NEW w \in Writers, NEW l \in Past, Goto(w, l),
         UNCHANGED <<rows, docs, batch, at, tx, lastWriter, txOverlap>>,
         embeddings' \subseteq Embedding, TypedEmb', TypedHistory'
  PROVE  TypeInv'
  <1>1. TypedPc' /\ pc'[w] = l /\ \A u \in Writers \ {w} : pc'[u] = pc[u]
    BY GotoTyped, TypeParts DEF TypeInv, Past, Ended
  <1>2. TypeOK'
    BY <1>1 DEF TypeInv, TypeOK, TypedPc, TypedEmb, TypedHistory
  <1>3. PositionInv' /\ InsertedInv'
    BY <1>1 DEF TypeInv, PositionInv, InsertedInv, OnItem, Past, InEmb
  <1> QED BY <1>2, <1>3 DEF TypeInv

\* What the DELETE remembers stays a pair of sets of embeddings.
LEMMA EmbWritten ==
  ASSUME TypedEmb, NEW w \in Writers, NEW S \in SUBSET Embedding
  PROVE  /\ [emb EXCEPT ![w].victims = S] \in [Writers -> [victims : SUBSET Embedding, dropped : SUBSET Embedding]]
         /\ [emb EXCEPT ![w].dropped = S] \in [Writers -> [victims : SUBSET Embedding, dropped : SUBSET Embedding]]
  BY DEF TypedEmb

LEMMA EmbeddingsTyped ==
  ASSUME TypeInv, NEW w \in Writers,
         \/ EmbedSkipped(w) \/ DeleteEmbeddings(w) \/ LockEmbeddings(w)
         \/ ReplaceEmbeddings(w) \/ EmbeddingsFail(w)
  PROVE  TypeInv'
  <1>1. CASE EmbedSkipped(w)
    <2>1. /\ Goto(w, "done") /\ "done" \in Past
          /\ UNCHANGED <<rows, docs, batch, at, tx, lastWriter, txOverlap>>
          /\ UNCHANGED <<embeddings, emb, lastEmbedder, embOverlap>>
      BY <1>1 DEF EmbedSkipped, tables, call, history, Past
    <2>2. embeddings' \subseteq Embedding /\ TypedEmb' /\ TypedHistory'
      BY <2>1 DEF TypeInv, TypeOK, TypedEmb, TypedHistory
    <2> QED BY <2>1, <2>2, EmbStepTyped
  <1>2. CASE DeleteEmbeddings(w)
    <2>1. TypedEmb'
      <3>1. Victims(w) \in SUBSET Embedding /\ TypedEmb
        BY TypeParts DEF Victims, TypeInv, TypeOK
      <3>2. emb' = [emb EXCEPT ![w].victims = Victims(w)]
        BY <1>2 DEF DeleteEmbeddings
      <3> QED BY <3>1, <3>2, EmbWritten DEF TypedEmb
    <2>2. TypedHistory'
      BY <1>2, MeetsTyped DEF DeleteEmbeddings, TypedHistory, TypeInv, TypeOK
    <2>3. /\ Goto(w, "lock") /\ "lock" \in Past
          /\ UNCHANGED <<rows, docs, batch, at, tx, lastWriter, txOverlap>> /\ embeddings' = embeddings
      BY <1>2 DEF DeleteEmbeddings, tables, call, Past, InEmb
    <2>4. embeddings' \subseteq Embedding
      BY <2>3 DEF TypeInv, TypeOK
    <2> QED BY <2>1, <2>2, <2>3, <2>4, EmbStepTyped
  <1>3. CASE LockEmbeddings(w)
    <2>1. TypedEmb'
      <3>1. (emb[w].victims \cap embeddings) \in SUBSET Embedding /\ TypedEmb
        BY TypeParts DEF TypeInv, TypeOK
      <3>2. emb' = [emb EXCEPT ![w].dropped = emb[w].victims \cap embeddings]
        BY <1>3 DEF LockEmbeddings
      <3> QED BY <3>1, <3>2, EmbWritten DEF TypedEmb
    <2>2. /\ Goto(w, "replace") /\ "replace" \in Past
          /\ UNCHANGED <<rows, docs, batch, at, tx, lastWriter, txOverlap>>
          /\ UNCHANGED <<embeddings, lastEmbedder, embOverlap>>
      BY <1>3 DEF LockEmbeddings, tables, call, history, Past, InEmb
    <2>3. embeddings' \subseteq Embedding /\ TypedHistory'
      BY <2>2 DEF TypeInv, TypeOK, TypedHistory
    <2> QED BY <2>1, <2>2, <2>3, EmbStepTyped
  <1>4. CASE ReplaceEmbeddings(w)
    <2>1. TypedEmb'
      BY <1>4 DEF ReplaceEmbeddings, EndEmbedding, TypedEmb, TypeInv, TypeOK, NoEmb
    <2>2. embeddings' \subseteq Embedding
      <3>1. \A i \in Clean(batch[w]) : batch[w][i] \in Item /\ i \in Nat
        BY DEF Clean, TypeInv, TypeOK
      <3>2. {[key |-> batch[w][i].key, ver |-> batch[w][i].ver, by |-> w, at |-> i] : i \in Clean(batch[w])}
              \subseteq Embedding
        BY <3>1 DEF Item, Embedding
      <3> QED BY <1>4, <3>2 DEF ReplaceEmbeddings, TypeInv, TypeOK
    <2>3. TypedHistory'
      BY <1>4 DEF ReplaceEmbeddings, EndEmbedding, TypedHistory, TypeInv, TypeOK
    <2>4. /\ Goto(w, "done") /\ "done" \in Past
          /\ UNCHANGED <<rows, docs, batch, at, tx, lastWriter, txOverlap>>
      BY <1>4 DEF ReplaceEmbeddings, EndEmbedding, call, Past
    <2> QED BY <2>1, <2>2, <2>3, <2>4, EmbStepTyped
  <1>5. CASE EmbeddingsFail(w)
    <2>1. TypedEmb'
      BY <1>5 DEF EmbeddingsFail, EndEmbedding, TypedEmb, TypeInv, TypeOK, NoEmb
    <2>2. /\ Goto(w, "failed") /\ "failed" \in Past
          /\ UNCHANGED <<rows, docs, batch, at, tx, lastWriter, txOverlap>>
          /\ UNCHANGED <<embeddings, lastEmbedder, embOverlap>>
      BY <1>5 DEF EmbeddingsFail, EndEmbedding, call, Past
    <2>3. embeddings' \subseteq Embedding /\ TypedHistory'
      BY <2>2 DEF TypeInv, TypeOK, TypedHistory
    <2> QED BY <2>1, <2>2, <2>3, EmbStepTyped
  <1> QED BY <1>1, <1>2, <1>3, <1>4, <1>5

LEMMA TypeNext == TypeInv /\ [Next]_vars => TypeInv'
  <1> SUFFICES ASSUME TypeInv, [Next]_vars PROVE TypeInv'
    OBVIOUS
  <1>1. CASE UNCHANGED vars
    BY <1>1 DEF vars, tables, call, history, TypeInv, TypeOK, PositionInv, InsertedInv
  <1>2. ASSUME NEW w \in Writers, NEW b \in Batches[w], Begin(w, b) PROVE TypeInv'
    BY <1>2, BeginTyped
  <1>3. ASSUME NEW w \in Writers, Step(w) \/ Lose(w) \/ EmbeddingsFail(w) PROVE TypeInv'
    BY <1>3, ReadTyped, WriteTyped, WriteDocumentsTyped, CommitTyped, RollbackTyped, EmbeddingsTyped
       DEF Step, Lose, InsertConflict, Conflicting, DeadlockAbort, InTx
  <1> QED BY <1>1, <1>2, <1>3 DEF Next

\* The tables, the sessions and the positions of the calls always have their types.
THEOREM TypeCorrect == Spec => []TypeOK
  <1>1. TypeInv => TypeOK
    BY DEF TypeInv
  <1> QED BY TypeInit, TypeNext, <1>1, PTL DEF Spec

-----------------------------------------------------------------------------
\* Every step but Insert and Commit leaves the rows alone and inserts nothing.
Acts(w) == Step(w) \/ (\E b \in Batches[w] : Begin(w, b)) \/ Lose(w) \/ EmbeddingsFail(w)

LEMMA Frame ==
  ASSUME TypeInv, NEW w \in Writers, Acts(w), NEW u \in Writers \ {w}
  PROVE  /\ pc'[u] = pc[u] /\ tx'[u] = tx[u] /\ emb'[u] = emb[u]
         /\ batch'[u] = batch[u] /\ at'[u] = at[u]
  <1> USE DEF TypeInv, TypeOK, Goto, tables, call, history
  <1>1. CASE Select(w) \/ SelectDocuments(w) \/ Insert(w) \/ Update(w)
    BY <1>1 DEF Select, SelectDocuments, Insert, Update
  <1>2. CASE WriteDocuments(w) \/ Commit(w)
    BY <1>2 DEF WriteDocuments, ReplaceDocuments, Advance, Commit
  <1>3. CASE InsertConflict(w) \/ DeadlockAbort(w) \/ Lose(w)
    BY <1>3 DEF InsertConflict, DeadlockAbort, Lose, Rollback
  <1>4. CASE \/ EmbedSkipped(w) \/ DeleteEmbeddings(w) \/ LockEmbeddings(w)
             \/ ReplaceEmbeddings(w) \/ EmbeddingsFail(w)
    BY <1>4 DEF EmbedSkipped, DeleteEmbeddings, LockEmbeddings, ReplaceEmbeddings, EmbeddingsFail, EndEmbedding
  <1>5. CASE \E b \in Batches[w] : Begin(w, b)
    BY <1>5 DEF Begin
  <1> QED BY <1>1, <1>2, <1>3, <1>4, <1>5 DEF Acts, Step

LEMMA RowsFrame ==
  ASSUME TypeInv, NEW w \in Writers, Acts(w)
  PROVE  \/ Insert(w) \/ Commit(w)
         \/ rows' = rows /\ tx'[w].inserted \subseteq tx[w].inserted
  <1> USE DEF TypeInv, TypeOK, Tx, tables, call
  <1>1. CASE Select(w) \/ SelectDocuments(w) \/ Update(w)
    <2>1. CASE SelectDocuments(w)
      BY <2>1 DEF SelectDocuments
    <2>2. CASE Update(w)
      BY <2>2 DEF Update
    <2>3. CASE Select(w)
      BY <2>3 DEF Select
    <2> QED BY <1>1, <2>1, <2>2, <2>3
  <1>4. CASE WriteDocuments(w)
    BY <1>4 DEF WriteDocuments, ReplaceDocuments
  <1>2. CASE InsertConflict(w) \/ DeadlockAbort(w) \/ Lose(w)
    BY <1>2 DEF InsertConflict, DeadlockAbort, Lose, Rollback, NoTx
  <1>3. CASE \/ EmbedSkipped(w) \/ DeleteEmbeddings(w) \/ LockEmbeddings(w)
             \/ ReplaceEmbeddings(w) \/ EmbeddingsFail(w) \/ \E b \in Batches[w] : Begin(w, b)
    BY <1>3 DEF EmbedSkipped, DeleteEmbeddings, LockEmbeddings, ReplaceEmbeddings, EmbeddingsFail,
                EndEmbedding, Begin
  <1> QED BY <1>1, <1>2, <1>3, <1>4 DEF Acts, Step

\* What OneRowPerTender needs to be inductive: a key is inserted by one open
\* transaction at most, and only while the table does not hold it.
UniqueInv ==
  /\ OneRowPerTender
  /\ \A u \in Writers : \A k \in tx[u].inserted : Committed(k) = {}
  /\ \A u, v \in Writers : u # v => tx[u].inserted \cap tx[v].inserted = {}

LEMMA InsertedShape ==
  ASSUME TypeInv, NEW w \in Writers, Insert(w)
  PROVE  /\ tx'[w].inserted = tx[w].inserted \cup {key(w)} /\ rows' = rows
         /\ Committed(key(w)) = {} /\ \A u \in Writers \ {w} : key(w) \notin tx[u].inserted
  BY DEF Insert, Conflicts, WaitsFor, TypeInv, TypeOK, Tx, tables

LEMMA CommittedShape ==
  ASSUME TypeInv, NEW w \in Writers, Commit(w)
  PROVE  /\ tx'[w].inserted = {}
         /\ \A s \in rows' : \/ \E r \in rows : s = Overwritten(w, r) /\ s.key = r.key /\ s.id = r.id
                             \/ \E k \in tx[w].inserted :
                                  s = [key |-> k, id |-> w, cols |-> tx[w].assigned[k]]
         /\ \A r \in rows : Overwritten(w, r) \in rows'
         /\ \A k \in tx[w].inserted : [key |-> k, id |-> w, cols |-> tx[w].assigned[k]] \in rows'
  <1>1. \A r \in rows : Overwritten(w, r).key = r.key /\ Overwritten(w, r).id = r.id
    BY OverwrittenTyped
  <1> QED BY <1>1 DEF Commit, TypeInv, TypeOK, NoTx

LEMMA UniqueNext ==
  ASSUME TypeInv, UniqueInv, NEW w \in Writers, Acts(w)
  PROVE  UniqueInv'
  <1>1. \A u \in Writers \ {w} : tx'[u] = tx[u]
    BY Frame
  <1>2. CASE rows' = rows /\ tx'[w].inserted \subseteq tx[w].inserted
    BY <1>1, <1>2 DEF UniqueInv, OneRowPerTender, Committed
  <1>3. CASE Insert(w)
    BY <1>1, <1>3, InsertedShape DEF UniqueInv, OneRowPerTender, Committed
  <1>4. CASE Commit(w)
    <2>1. \A k \in tx[w].inserted : \A r \in rows : r.key # k
      BY DEF UniqueInv, Committed
    <2>2. OneRowPerTender'
      BY <1>4, <2>1, CommittedShape DEF UniqueInv, OneRowPerTender
    <2>3. \A u \in Writers \ {w} : \A k \in tx[u].inserted : \A s \in rows' : s.key # k
      BY <1>4, CommittedShape DEF UniqueInv, Committed
    <2>4. \A u \in Writers : \A k \in tx'[u].inserted : Committed(k)' = {}
      BY <1>1, <1>4, <2>3, CommittedShape DEF Committed
    <2>5. \A u, v \in Writers : u # v => tx'[u].inserted \cap tx'[v].inserted = {}
      BY <1>1, <1>4, CommittedShape DEF UniqueInv
    <2> QED BY <2>2, <2>4, <2>5 DEF UniqueInv
  <1> QED BY <1>2, <1>3, <1>4, RowsFrame

\* The table never holds two rows of a notice, for any number of calls and any
\* batches: what the SELECT and the unique index guarantee together.
THEOREM OneRow == Spec => []OneRowPerTender
  <1>1. Init => UniqueInv
    BY DEF Init, UniqueInv, OneRowPerTender, NoTx
  <1>2. TypeInv /\ UniqueInv /\ [Next]_vars => UniqueInv'
    <2> SUFFICES ASSUME TypeInv, UniqueInv, [Next]_vars PROVE UniqueInv'
      OBVIOUS
    <2>1. CASE UNCHANGED vars
      BY <2>1 DEF vars, tables, UniqueInv, OneRowPerTender, Committed
    <2>2. CASE Next
      BY <2>2, UniqueNext DEF Next, Acts
    <2> QED BY <2>1, <2>2
  <1>3. UniqueInv => OneRowPerTender
    BY DEF UniqueInv
  <1> QED BY TypeInit, TypeNext, <1>1, <1>2, <1>3, PTL DEF Spec

\* A committed tender keeps its row id through every step of every call.
THEOREM IdsStable == Spec => TenderIdsAreStable
  <1> DEFINE Stable == \A r \in rows : \E s \in rows' : s.key = r.key /\ s.id = r.id
  <1>1. TypeInv /\ [Next]_vars => [Stable]_vars
    <2> SUFFICES ASSUME TypeInv, Next PROVE Stable
      BY DEF vars
    <2>1. PICK w \in Writers : Acts(w)
      BY DEF Next, Acts
    <2>2. CASE Commit(w)
      <3>1. \A r \in rows : /\ Overwritten(w, r) \in rows'
                            /\ Overwritten(w, r).key = r.key /\ Overwritten(w, r).id = r.id
        BY <2>2, CommittedShape, OverwrittenTyped
      <3> QED BY <3>1
    <2>3. CASE ~Commit(w)
      BY <2>1, <2>3, RowsFrame, InsertedShape
    <2> QED BY <2>2, <2>3
  <1> QED BY TypeInit, TypeNext, <1>1, PTL DEF Spec, TenderIdsAreStable

-----------------------------------------------------------------------------
\* What upsert_embeddings deletes belongs to the tenders of the call's batch.
EmbInv ==
  \A w \in Writers :
    /\ pc[w] = "idle" => emb[w] = NoEmb
    /\ \A e \in emb[w].victims \cup emb[w].dropped : e.key \in CleanKeys(batch[w])

LEMMA EmbeddingsFrame ==
  ASSUME TypeInv, NEW w \in Writers, Acts(w)
  PROVE  \/ DeleteEmbeddings(w) \/ LockEmbeddings(w) \/ ReplaceEmbeddings(w)
         \/ /\ embeddings' = embeddings
            /\ \/ emb' = emb /\ batch' = batch /\ (pc'[w] = "idle" => pc[w] = "idle")
               \/ emb' = emb /\ pc[w] = "idle" /\ pc'[w] # "idle"
               \/ emb' = [emb EXCEPT ![w] = NoEmb] /\ batch' = batch
  <1> USE DEF TypeInv, TypeOK, tables, call, Goto
  <1>1. CASE Select(w) \/ SelectDocuments(w) \/ Insert(w) \/ Update(w)
    BY <1>1 DEF Select, SelectDocuments, Insert, Update
  <1>2. CASE WriteDocuments(w) \/ Commit(w)
    BY <1>2 DEF WriteDocuments, ReplaceDocuments, Advance, Commit
  <1>3. CASE InsertConflict(w) \/ DeadlockAbort(w) \/ Lose(w)
    BY <1>3 DEF InsertConflict, DeadlockAbort, Lose, Rollback
  <1>4. CASE EmbedSkipped(w) \/ EmbeddingsFail(w)
    BY <1>4 DEF EmbedSkipped, EmbeddingsFail, EndEmbedding
  <1>5. CASE \E b \in Batches[w] : Begin(w, b)
    BY <1>5 DEF Begin
  <1> QED BY <1>1, <1>2, <1>3, <1>4, <1>5 DEF Acts, Step

LEMMA EmbNext ==
  ASSUME TypeInv, EmbInv, NEW w \in Writers, Acts(w)
  PROVE  EmbInv'
  <1>1. \A u \in Writers \ {w} : pc'[u] = pc[u] /\ emb'[u] = emb[u] /\ batch'[u] = batch[u]
    BY Frame

  <1>2. CASE DeleteEmbeddings(w)
    BY <1>1, <1>2 DEF DeleteEmbeddings, Victims, EmbInv, Goto, call, tables, TypeInv, TypeOK
  <1>3. CASE LockEmbeddings(w)
    BY <1>1, <1>3 DEF LockEmbeddings, EmbInv, Goto, call, TypeInv, TypeOK
  <1>4. CASE emb' = [emb EXCEPT ![w] = NoEmb] /\ batch' = batch
    BY <1>1, <1>4 DEF EmbInv, NoEmb, TypeInv, TypeOK
  <1>5. CASE emb' = emb /\ pc[w] = "idle" /\ pc'[w] # "idle"
    BY <1>1, <1>5 DEF EmbInv, NoEmb
  <1>6. CASE emb' = emb /\ batch' = batch /\ (pc'[w] = "idle" => pc[w] = "idle")
    BY <1>1, <1>6 DEF EmbInv
  <1>7. CASE ReplaceEmbeddings(w)
    BY <1>4, <1>7 DEF ReplaceEmbeddings, EndEmbedding, call
  <1> QED BY <1>2, <1>3, <1>4, <1>5, <1>6, <1>7, EmbeddingsFrame

\* No step leaves a tender that had an embedding without one: whoever deletes the
\* embeddings of a tender stores new ones in the same commit.
THEOREM EmbeddingStays == Spec => EmbeddingKept
  <1> DEFINE Kept == \A e \in embeddings : \E f \in embeddings' : f.key = e.key
  <1>1. Init => EmbInv
    BY DEF Init, EmbInv, NoEmb
  <1>2. TypeInv /\ EmbInv /\ [Next]_vars => EmbInv'
    <2>1. UNCHANGED vars /\ EmbInv => EmbInv'
      BY DEF vars, call, EmbInv
    <2> QED BY <2>1, EmbNext DEF Next, Acts
  <1>3. TypeInv /\ EmbInv /\ [Next]_vars => [Kept]_vars
    <2> SUFFICES ASSUME TypeInv, EmbInv, Next PROVE Kept
      BY DEF vars
    <2>1. PICK w \in Writers : Acts(w)
      BY DEF Next, Acts
    <2>2. CASE ReplaceEmbeddings(w)
      <3>1. \A e \in emb[w].dropped : \E i \in Clean(batch[w]) : batch[w][i].key = e.key
        BY DEF EmbInv, CleanKeys
      <3>2. \A i \in Clean(batch[w]) : \E f \in embeddings' : f.key = batch[w][i].key
        <4> SUFFICES ASSUME NEW i \in Clean(batch[w]) PROVE \E f \in embeddings' : f.key = batch[w][i].key
          OBVIOUS
        <4> DEFINE f == [key |-> batch[w][i].key, ver |-> batch[w][i].ver, by |-> w, at |-> i]
        <4>1. f \in embeddings'
          BY <2>2 DEF ReplaceEmbeddings
        <4> QED BY <4>1
      <3> QED BY <2>2, <3>1, <3>2 DEF ReplaceEmbeddings
    <2>3. CASE ~ReplaceEmbeddings(w)
      BY <2>1, <2>3, EmbeddingsFrame DEF DeleteEmbeddings, LockEmbeddings, tables
    <2> QED BY <2>2, <2>3
  <1> QED BY TypeInit, TypeNext, <1>1, <1>2, <1>3, PTL DEF Spec, EmbeddingKept

-----------------------------------------------------------------------------
HasRow(k) == \E r \in rows : r.key = k

\* The tender of position i has been upserted in the open transaction of w.
Written(w, i) == i < at[w] \/ pc[w] = "commit"

\* What BatchAtomic needs to be inductive: the open transaction of a call holds a
\* row, its own or a committed one, for every tender of the batch it has passed.
Holds(w) ==
  /\ \A d \in tx[w].newDocs : d.by = w
  /\ \A k \in Keys : tx[w].loaded[k] # NoRow => HasRow(k)
  /\ pc[w] \in InTx => \A i \in DOMAIN batch[w] :
       Written(w, i) \/ (i = at[w] /\ pc[w] \in {"documents", "update", "write"})
       => InIdentityMap(w, batch[w][i].key)

AtomicInv == BatchAtomic /\ \A w \in Writers : Holds(w)

\* Rows keep their keys, and only a commit adds rows and documents.
LEMMA TablesFrame ==
  ASSUME TypeInv, NEW w \in Writers, Acts(w)
  PROVE  /\ \A k \in Keys : HasRow(k) => HasRow(k)'
         /\ Commit(w) \/ (rows' = rows /\ docs' = docs)
  <1>1. Commit(w) => \A k \in Keys : HasRow(k) => HasRow(k)'
    BY CommittedShape, OverwrittenTyped DEF HasRow
  <1>2. Commit(w) \/ (rows' = rows /\ docs' = docs)
    <2> USE DEF tables
    <2>1. CASE Select(w) \/ SelectDocuments(w) \/ Insert(w) \/ Update(w) \/ WriteDocuments(w)
      BY <2>1 DEF Select, SelectDocuments, Insert, Update, WriteDocuments
    <2>2. CASE InsertConflict(w) \/ DeadlockAbort(w) \/ Lose(w) \/ \E b \in Batches[w] : Begin(w, b)
      BY <2>2 DEF InsertConflict, DeadlockAbort, Lose, Rollback, Begin
    <2>3. CASE \/ EmbedSkipped(w) \/ DeleteEmbeddings(w) \/ LockEmbeddings(w)
               \/ ReplaceEmbeddings(w) \/ EmbeddingsFail(w)
      BY <2>3 DEF EmbedSkipped, DeleteEmbeddings, LockEmbeddings, ReplaceEmbeddings, EmbeddingsFail, EndEmbedding
    <2> QED BY <2>1, <2>2, <2>3 DEF Acts, Step
  <1> QED BY <1>1, <1>2 DEF HasRow

\* A call that has committed keeps its batch, and stays committed.
LEMMA PersistedFrame ==
  ASSUME TypeInv, NEW w \in Writers, Acts(w), NEW u \in Writers
  PROVE  /\ Persisted(u) => Persisted(u)' /\ batch'[u] = batch[u]
         /\ ~Persisted(u) => ~Persisted(u)' \/ (u = w /\ Commit(w))
         /\ pc[u] # "idle" => batch'[u] = batch[u] /\ pc'[u] # "idle"
  <1> USE DEF TypeInv, TypeOK, tables, call, Goto, Persisted, InEmb
  <1>1. CASE u # w
    BY <1>1, Frame
  <1>2. CASE u = w
    <2>1. CASE Select(w) \/ SelectDocuments(w) \/ Insert(w) \/ Update(w)
      BY <1>2, <2>1 DEF Select, SelectDocuments, Insert, Update
    <2>2. CASE WriteDocuments(w) \/ Commit(w)
      BY <1>2, <2>2 DEF WriteDocuments, Advance, Commit
    <2>3. CASE InsertConflict(w) \/ DeadlockAbort(w) \/ Lose(w)
      BY <1>2, <2>3 DEF InsertConflict, Conflicting, DeadlockAbort, Lose, Rollback, InTx
    <2>4. CASE \/ EmbedSkipped(w) \/ DeleteEmbeddings(w) \/ LockEmbeddings(w)
               \/ ReplaceEmbeddings(w) \/ EmbeddingsFail(w)
      BY <1>2, <2>4 DEF EmbedSkipped, DeleteEmbeddings, LockEmbeddings, ReplaceEmbeddings,
                        EmbeddingsFail, EndEmbedding
    <2>5. CASE \E b \in Batches[w] : Begin(w, b)
      BY <1>2, <2>5 DEF Begin
    <2> QED BY <2>1, <2>2, <2>3, <2>4, <2>5 DEF Acts, Step
  <1> QED BY <1>1, <1>2

LEMMA HoldsNext ==
  ASSUME TypeInv, NEW w \in Writers, Acts(w), Holds(w)
  PROVE  Holds(w)'
  <1> DEFINE k == key(w)
  <1> USE DEF TypeInv, TypeOK, Tx, tables, call, Goto, InIdentityMap
  <1>1. \A j \in Keys : HasRow(j) => HasRow(j)'
    BY TablesFrame
  <1>2. \A i \in DOMAIN batch[w] : batch[w][i].key \in Keys
    BY BatchTyped
  <1>3. CASE Select(w)
    <2>1. at[w] \in DOMAIN batch[w] /\ k = batch[w][at[w]].key /\ k \in Keys
      BY <1>3, ItemTyped DEF Select, OnItem, PositionInv, key, item
    <2>2. CASE InIdentityMap(w, k) /\ pc' = [pc EXCEPT ![w] = "update"] /\ tx' = tx
      BY <1>1, <1>2, <1>3, <2>1, <2>2 DEF Select, Holds, Written, InTx, InIdentityMap
    <2>3. CASE pc' = [pc EXCEPT ![w] = "insert"] /\ tx' = tx
      BY <1>1, <1>2, <1>3, <2>1, <2>3 DEF Select, Holds, Written, InTx
    <2>4. ASSUME NEW r \in Committed(k), pc' = [pc EXCEPT ![w] = "documents"],
                 tx' = [tx EXCEPT ![w].loaded[k] = r.cols]
          PROVE  Holds(w)'
      <3>1. (\E s \in rows' : s.key = k) /\ r.cols # NoRow
        BY <1>3, SentinelAssumption DEF Select, Committed, Row
      <3>3. /\ tx'[w].newDocs = tx[w].newDocs /\ tx'[w].inserted = tx[w].inserted
            /\ \A j \in Keys \ {k} : tx'[w].loaded[j] = tx[w].loaded[j]
            /\ pc'[w] = "documents" /\ at'[w] = at[w] /\ batch'[w] = batch[w] /\ pc[w] = "select"
        <4>1. /\ batch' = batch /\ at' = at /\ pc[w] = "select"
          BY <1>3 DEF Select
        <4>2. pc'[w] = "documents"
          BY <2>4
        <4>3. /\ tx'[w].newDocs = tx[w].newDocs /\ tx'[w].inserted = tx[w].inserted
              /\ tx'[w].loaded = [tx[w].loaded EXCEPT ![k] = r.cols]
          <5>1. tx \in [Writers -> Tx]
            OBVIOUS
          <5> HIDE DEF TypeOK, TypeInv, k, InIdentityMap
          <5> QED BY <2>4, <5>1 DEF Tx
        <4>4. tx[w].loaded \in [Keys -> [Columns -> Values] \cup {NoRow}]
          OBVIOUS
        <4> HIDE DEF k, TypeOK, TypeInv, InIdentityMap
        <4> QED BY <4>1, <4>2, <4>3, <4>4
      <3>4. \A j \in Keys : tx'[w].loaded[j] # NoRow => HasRow(j)'
        BY <1>1, <3>1, <3>3 DEF Holds, HasRow
      <3>5. \A i \in DOMAIN batch[w] : i < at[w] => InIdentityMap(w, batch[w][i].key)
        BY <3>3 DEF Holds, Written, InTx
      <3>6. \A j \in Keys : InIdentityMap(w, j) \/ j = k => InIdentityMap(w, j)'
        BY <2>1, <2>4, <3>1, <3>3 DEF InIdentityMap
      <3> HIDE DEF InIdentityMap
      <3> QED BY <1>2, <2>1, <3>3, <3>4, <3>5, <3>6 DEF Holds, Written
    <2> QED BY <1>3, <2>2, <2>3, <2>4 DEF Select
  <1>4. CASE SelectDocuments(w)
    BY <1>1, <1>2, <1>4 DEF SelectDocuments, Holds, Written, InTx
  <1>5. CASE Insert(w)
    <2>1. /\ tx'[w].newDocs = tx[w].newDocs /\ tx'[w].loaded = tx[w].loaded
          /\ pc'[w] = "write" /\ at'[w] = at[w] /\ batch'[w] = batch[w] /\ pc[w] = "insert"
      BY <1>5 DEF Insert
    <2>2. tx'[w].inserted = tx[w].inserted \cup {batch[w][at[w]].key}
      BY <1>5, InsertedShape DEF key, item
    <2> QED BY <1>1, <1>2, <2>1, <2>2 DEF Holds, Written, InTx
  <1>6. CASE Update(w)
    BY <1>1, <1>2, <1>6 DEF Update, Holds, Written, InTx
  <1>7. CASE WriteDocuments(w)
    <2>1. at[w] \in DOMAIN batch[w] /\ k = batch[w][at[w]].key /\ k \in Keys
      BY <1>7, ItemTyped DEF WriteDocuments, OnItem, PositionInv, key, item
    <2>2. \A d \in DocumentRecords(w, at[w]) : d.by = w
      BY DEF DocumentRecords
    <2>3. /\ tx'[w].inserted = tx[w].inserted /\ tx'[w].loaded = tx[w].loaded
          /\ tx'[w].newDocs \subseteq tx[w].newDocs \cup DocumentRecords(w, at[w])
      BY <1>7 DEF WriteDocuments, ReplaceDocuments, NewCollection
    <2>4. \A i \in DOMAIN batch[w] : Written(w, i)' => Written(w, i) \/ i = at[w]
      BY <1>7 DEF WriteDocuments, Advance, Written
    <2> QED BY <1>1, <1>2, <1>7, <2>1, <2>2, <2>3, <2>4 DEF WriteDocuments, Advance, Holds, InTx
  <1>8. CASE Commit(w)
    BY <1>8 DEF Commit, Holds, NoTx, InTx
  <1>9. CASE InsertConflict(w) \/ DeadlockAbort(w) \/ Lose(w)
    BY <1>9 DEF InsertConflict, DeadlockAbort, Lose, Rollback, Holds, NoTx, InTx
  <1>10. CASE \/ EmbedSkipped(w) \/ DeleteEmbeddings(w) \/ LockEmbeddings(w)
              \/ ReplaceEmbeddings(w) \/ EmbeddingsFail(w)
    BY <1>1, <1>10 DEF EmbedSkipped, DeleteEmbeddings, LockEmbeddings, ReplaceEmbeddings,
                       EmbeddingsFail, EndEmbedding, Holds, InTx
  <1>11. CASE \E b \in Batches[w] : Begin(w, b)
    BY <1>1, <1>11 DEF Begin, Holds, Written, InTx, PositionInv
  <1> QED BY <1>3, <1>4, <1>5, <1>6, <1>7, <1>8, <1>9, <1>10, <1>11 DEF Acts, Step

LEMMA BatchAtomicNext ==
  ASSUME TypeInv, AtomicInv, NEW w \in Writers, Acts(w)
  PROVE  BatchAtomic'
  <1> USE DEF AtomicInv, BatchAtomic
  <1>1. \A u \in Writers : Persisted(u) => Persisted(u)' /\ batch'[u] = batch[u]
    BY PersistedFrame
  <1>2. \A k \in Keys : HasRow(k) => HasRow(k)'
    <2> HIDE DEF AtomicInv, BatchAtomic
    <2> QED BY TablesFrame
  <1>3. \A u \in Writers : \A i \in DOMAIN batch[u] : batch[u][i].key \in Keys
    BY BatchTyped
  <1>4. \A u \in Writers : Persisted(u) => \A k \in KeysOf(batch[u]) : HasRow(k)'
    <2>1. \A u \in Writers : Persisted(u) => \A k \in KeysOf(batch[u]) : HasRow(k)
      BY DEF HasRow
    <2>2. \A u \in Writers : \A k \in KeysOf(batch[u]) : k \in Keys
      BY <1>3 DEF KeysOf
    <2> HIDE DEF AtomicInv, BatchAtomic
    <2> QED BY <1>2, <2>1, <2>2
  <1>5. CASE ~Commit(w)
    <2>1. rows' = rows /\ docs' = docs
      BY <1>5, TablesFrame
    <2>2. \A u \in Writers : Persisted(u)' => Persisted(u)
      BY <1>5, PersistedFrame
    <2>3. \A r \in rows' : Persisted(r.id)'
      BY <1>1, <2>1 DEF TypeInv, TypeOK, Row
    <2>4. \A d \in docs' : Persisted(d.by)'
      BY <1>1, <2>1 DEF TypeInv, TypeOK, Doc
    <2>5. \A u \in Writers : Persisted(u)' => \A k \in KeysOf(batch'[u]) : \E r \in rows' : r.key = k
      BY <1>1, <1>4, <2>2 DEF HasRow
    <2> QED BY <2>3, <2>4, <2>5
  <1>6. CASE Commit(w)
    <2>1. Persisted(w)'
      BY <1>6 DEF Commit, Persisted, Goto, TypeInv, TypeOK
    <2>2. \A s \in rows' : Persisted(s.id)'
      <3>1. \A r \in rows : r.id \in Writers /\ Persisted(r.id)'
        BY <1>1 DEF TypeInv, TypeOK, Row
      <3> QED BY <1>6, <2>1, <3>1, CommittedShape
    <2>3. \A d \in docs' : Persisted(d.by)'
      BY <1>1, <1>6, <2>1 DEF Commit, Holds, TypeInv, TypeOK, Doc
    <2>4. \A k \in KeysOf(batch[w]) : HasRow(k)'
      <3>1. \A k \in tx[w].inserted : HasRow(k)'
        BY <1>6, CommittedShape DEF HasRow
      <3>2. \A i \in DOMAIN batch[w] : batch[w][i].key \in tx[w].inserted \/ HasRow(batch[w][i].key)
        BY <1>3, <1>6 DEF Commit, Holds, InTx, Written, InIdentityMap
      <3> QED BY <1>2, <1>3, <3>1, <3>2 DEF KeysOf
    <2>5. \A u \in Writers : Persisted(u)' => Persisted(u) \/ u = w
      BY PersistedFrame
    <2>6. batch' = batch
      BY <1>6 DEF Commit, call
    <2> QED BY <1>4, <2>2, <2>3, <2>4, <2>5, <2>6 DEF HasRow
  <1> QED BY <1>5, <1>6

LEMMA AtomicNext ==
  ASSUME TypeInv, AtomicInv, NEW w \in Writers, Acts(w)
  PROVE  AtomicInv'
  <1>1. ASSUME NEW u \in Writers \ {w} PROVE Holds(u)'
    <2>1. /\ pc'[u] = pc[u] /\ tx'[u] = tx[u] /\ batch'[u] = batch[u] /\ at'[u] = at[u]
      BY Frame
    <2>2. \A k \in Keys : HasRow(k) => HasRow(k)'
      BY TablesFrame
    <2>3. \A i \in DOMAIN batch[u] : batch[u][i].key \in Keys
      BY BatchTyped
    <2> QED BY <2>1, <2>2, <2>3 DEF AtomicInv, Holds, Written, InIdentityMap
  <1> QED BY <1>1, HoldsNext, BatchAtomicNext DEF AtomicInv

\* A batch is committed whole or leaves nothing, whatever conflict, deadlock or
\* lost connection ends its call, and no id is returned of a tender not stored.
THEOREM WholeBatches == Spec => []BatchAtomic
  <1>1. Init => AtomicInv
    BY DEF Init, AtomicInv, BatchAtomic, Holds, Persisted, InTx, NoTx, InEmb
  <1>2. TypeInv /\ AtomicInv /\ [Next]_vars => AtomicInv'
    <2>1. UNCHANGED vars /\ AtomicInv => AtomicInv'
      BY DEF vars, tables, call, AtomicInv, BatchAtomic, Holds, Persisted, Written, HasRow, InIdentityMap
    <2> QED BY <2>1, AtomicNext DEF Next, Acts
  <1>3. AtomicInv => BatchAtomic
    BY DEF AtomicInv
  <1> QED BY TypeInit, TypeNext, <1>1, <1>2, <1>3, PTL DEF Spec

-----------------------------------------------------------------------------
\* Position i is the last one of its tender that the transaction of w has passed.
WrittenLast(w, i) ==
  Written(w, i) /\ \A j \in DOMAIN batch[w] : Written(w, j) /\ batch[w][j].key = batch[w][i].key => j <= i

\* What NewestDocumentsPresent needs to be inductive: the transaction stores the
\* documents of each tender it has passed, as of its last snapshot, and deletes
\* documents of the tenders of its batch only.
Stores(w) ==
  /\ \A k \in Keys : lastWriter[k] = w => pc[w] # "idle"
  /\ pc[w] = "idle" => tx[w] = NoTx
  /\ pc[w] = "documents" => \A i \in DOMAIN batch[w] : i < at[w] => batch[w][i].key # key(w)
  /\ \A d \in tx[w].deadDocs : d.key \in KeysOf(batch[w])
  /\ \A k \in Keys : \A d \in tx[w].collection[k] :
       d.key = k /\ (d.by = w => d.at < at[w] \/ pc[w] = "commit")
  /\ pc[w] \in InTx => \A i \in DOMAIN batch[w] : WrittenLast(w, i) =>
       /\ tx[w].collection[batch[w][i].key] = DocumentRecords(w, i)
       /\ DocumentRecords(w, i) \subseteq tx[w].newDocs

NewestInv == NewestDocumentsPresent /\ \A w \in Writers : Stores(w)

\* The session of w leaves the documents alone, in a step that is no commit.
SameDocuments(w) ==
  /\ tx'[w].collection = tx[w].collection /\ tx'[w].newDocs = tx[w].newDocs
  /\ tx'[w].deadDocs = tx[w].deadDocs
  /\ at'[w] = at[w] /\ batch'[w] = batch[w] /\ lastWriter' = lastWriter
  /\ pc[w] # "idle" /\ pc'[w] # "idle" /\ (pc'[w] = "commit" <=> pc[w] = "commit")
  /\ pc'[w] \in InTx => pc[w] \in InTx
  /\ pc'[w] = "documents" => \A i \in DOMAIN batch[w] : i < at[w] => batch[w][i].key # key(w)

LEMMA SameStores ==
  ASSUME NEW w \in Writers, Stores(w), SameDocuments(w)
  PROVE  Stores(w)'
  BY DEF Stores, SameDocuments, WrittenLast, Written, DocumentRecords, key, item

LEMMA ClearedStores ==
  ASSUME NEW w \in Writers, Stores(w), tx'[w] = NoTx, pc'[w] \notin InTx \cup {"idle"}
  PROVE  Stores(w)'
  BY DEF Stores, NoTx, InTx

LEMMA DocumentsStored ==
  ASSUME TypeInv, AtomicInv, NEW w \in Writers, Stores(w), WriteDocuments(w)
  PROVE  Stores(w)'
  <1> DEFINE old == tx[w].collection[key(w)]
             new == DocumentRecords(w, at[w])
  <1>1. PICK p \in DOMAIN batch[w], k \in Keys : p = at[w] /\ k = key(w) /\ k = batch[w][p].key
    BY ItemTyped DEF WriteDocuments, OnItem, TypeInv, PositionInv, key, item
  <1>2. /\ tx'[w].collection = [tx[w].collection EXCEPT ![k] = new]
        /\ tx'[w].newDocs = (tx[w].newDocs \ (old \ new)) \cup (new \ old)
        /\ tx'[w].deadDocs = tx[w].deadDocs \cup ((old \ new) \cap docs)
    <2>1. tx' = [tx EXCEPT ![w] = [tx[w] EXCEPT
                   !.newDocs = (@ \ (old \ new)) \cup (new \ old),
                   !.deadDocs = @ \cup ((old \ new) \cap docs), !.collection[k] = new]]
      <3>1. /\ tx[w] \in Tx /\ WriteDocuments(w) /\ tx \in [Writers -> Tx]
        BY DEF TypeInv, TypeOK
      <3> QED BY <1>1, <3>1 DEF WriteDocuments, ReplaceDocuments, NewCollection, Tx
    <2>2. tx[w] \in Tx
      BY DEF TypeInv, TypeOK
    <2> HIDE DEF old, new
    <2> QED BY <2>1, <2>2 DEF TypeInv, TypeOK, Tx
  <1>3. /\ batch' = batch /\ lastWriter' = lastWriter /\ pc[w] = "write" /\ at[w] \in Nat /\ at'[w] \in Nat
        /\ \/ pc'[w] = "select" /\ at'[w] = p + 1
           \/ pc'[w] = "commit" /\ p = Len(batch[w])
    BY <1>1, BatchTyped DEF WriteDocuments, Advance, Goto, history, TypeInv, TypeOK
  <1>4. \A i \in DOMAIN batch[w] : i \in Nat /\ batch[w][i].key \in Keys
    BY BatchTyped
  <1>5. \A i \in DOMAIN batch[w] : Written(w, i)' <=> i <= p
    <2>1. DOMAIN batch[w] = 1..Len(batch[w]) /\ Len(batch[w]) \in Nat
      BY DEF TypeInv, TypeOK
    <2> QED BY <1>1, <1>3, <1>4, <2>1 DEF Written
  <1>6. \A i \in DOMAIN batch[w] : Written(w, i) <=> i < p
    BY <1>1, <1>3, <1>4 DEF Written
  <1>7. \A d \in new : d.key = k /\ d.by = w /\ d.at = p
    BY <1>1 DEF DocumentRecords
  <1>8. \A d \in old : d.key = k /\ (d.by = w => d.at < p)
    BY <1>1, <1>3 DEF Stores
  <1>9. new \cap old = {}
    BY <1>1, <1>4, <1>7, <1>8
  <1>10. \A i \in DOMAIN batch[w] : DocumentRecords(w, i)' = DocumentRecords(w, i)
    BY <1>3 DEF DocumentRecords
  <1> HIDE DEF new, old
  <1>11. ASSUME NEW i \in DOMAIN batch[w], WrittenLast(w, i)'
         PROVE  /\ tx'[w].collection[batch[w][i].key] = DocumentRecords(w, i)
                /\ DocumentRecords(w, i) \subseteq tx'[w].newDocs
    <2>1. CASE i = p
      BY <1>1, <1>2, <1>9, <2>1 DEF TypeInv, TypeOK, Tx, new
    <2>2. CASE i # p
      <3>1. i < p /\ batch[w][i].key # k
        BY <1>1, <1>3, <1>4, <1>5, <1>11, <2>2 DEF WrittenLast
      <3>2. WrittenLast(w, i)
        BY <1>3, <1>4, <1>5, <1>6, <1>11, <3>1 DEF WrittenLast
      <3>3. /\ tx[w].collection[batch[w][i].key] = DocumentRecords(w, i)
            /\ DocumentRecords(w, i) \subseteq tx[w].newDocs
        BY <1>3, <3>2 DEF Stores, InTx
      <3>4. \A d \in DocumentRecords(w, i) : d.key # k
        BY <3>1 DEF DocumentRecords
      <3> QED BY <1>2, <1>4, <1>8, <3>1, <3>3, <3>4 DEF TypeInv, TypeOK, Tx
    <2> QED BY <2>1, <2>2
  <1>12. \A j \in Keys : \A d \in tx'[w].collection[j] :
           d.key = j /\ (d.by = w => d.at < at'[w] \/ pc'[w] = "commit")
    <2>1. \A j \in Keys : \A d \in tx[w].collection[j] : d.key = j /\ (d.by = w => d.at < p) /\ d.at \in Nat
      BY <1>1, <1>3 DEF Stores, TypeInv, TypeOK, Tx, Doc
    <2> QED BY <1>1, <1>2, <1>3, <1>4, <1>7, <2>1 DEF TypeInv, TypeOK, Tx
  <1>13. \A d \in tx'[w].deadDocs : d.key \in KeysOf(batch'[w])
    BY <1>1, <1>2, <1>3, <1>8 DEF Stores, KeysOf
  <1> QED BY <1>3, <1>10, <1>11, <1>12, <1>13 DEF Stores

LEMMA StoresNext ==
  ASSUME TypeInv, AtomicInv, NEW w \in Writers, Acts(w), Stores(w)
  PROVE  Stores(w)'
  <1> USE DEF TypeInv, TypeOK, Tx, tables, call, history, Goto
  <1>1. CASE Select(w)
    <2>1. Goto(w, "documents") => \A i \in DOMAIN batch[w] : i < at[w] => batch[w][i].key # key(w)
      BY <1>1 DEF Select, AtomicInv, Holds, Written, InTx
    <2>2. SameDocuments(w)
      BY <1>1, <2>1 DEF Select, SameDocuments, InTx
    <2> QED BY <2>2, SameStores
  <1>2. CASE Insert(w) \/ Update(w)
    <2>1. SameDocuments(w)
      BY <1>2 DEF Insert, Update, SameDocuments, InTx
    <2> QED BY <2>1, SameStores
  <1>3. CASE SelectDocuments(w)
    <2>1. PICK k \in Keys : k = key(w) /\ k = batch[w][at[w]].key
      BY <1>3, ItemTyped DEF SelectDocuments, OnItem, key, item
    <2>2. /\ tx'[w].collection = [tx[w].collection EXCEPT ![k] = DocumentsOf(k)]
          /\ tx'[w].newDocs = tx[w].newDocs /\ tx'[w].deadDocs = tx[w].deadDocs
          /\ at' = at /\ batch' = batch /\ lastWriter' = lastWriter
          /\ pc[w] = "documents" /\ pc'[w] = "update"
      BY <1>3, <2>1 DEF SelectDocuments, LoadedDocuments
    <2>3. \A d \in DocumentsOf(k) : d.key = k /\ d.by # w
      BY <2>2 DEF DocumentsOf, AtomicInv, BatchAtomic, Persisted, InEmb
    <2>4. \A i \in DOMAIN batch[w] : WrittenLast(w, i)' => WrittenLast(w, i) /\ batch[w][i].key # k
      BY <2>1, <2>2 DEF WrittenLast, Written, Stores
    <2>5. \A i \in DOMAIN batch[w] : DocumentRecords(w, i)' = DocumentRecords(w, i) /\ batch[w][i].key \in Keys
      BY <2>2, BatchTyped DEF DocumentRecords
    <2>6. \A i \in DOMAIN batch[w] : WrittenLast(w, i)' =>
            /\ tx'[w].collection[batch[w][i].key] = DocumentRecords(w, i)
            /\ DocumentRecords(w, i) \subseteq tx'[w].newDocs
      BY <2>2, <2>4, <2>5 DEF Stores, InTx
    <2>7. \A j \in Keys : \A d \in tx'[w].collection[j] :
            d.key = j /\ (d.by = w => d.at < at'[w] \/ pc'[w] = "commit")
      BY <2>1, <2>2, <2>3 DEF Stores
    <2> QED BY <2>2, <2>5, <2>6, <2>7 DEF Stores
  <1>4. CASE Commit(w) \/ InsertConflict(w) \/ DeadlockAbort(w) \/ Lose(w)
    <2>1. tx'[w] = NoTx /\ pc'[w] \notin InTx \cup {"idle"}
      BY <1>4 DEF Commit, InsertConflict, DeadlockAbort, Lose, Rollback, InTx
    <2> QED BY <2>1, ClearedStores
  <1>5. CASE \/ EmbedSkipped(w) \/ DeleteEmbeddings(w) \/ LockEmbeddings(w)
             \/ ReplaceEmbeddings(w) \/ EmbeddingsFail(w)
    <2>1. SameDocuments(w)
      BY <1>5 DEF EmbedSkipped, DeleteEmbeddings, LockEmbeddings, ReplaceEmbeddings, EmbeddingsFail,
                  EndEmbedding, SameDocuments, InTx, InEmb
    <2> QED BY <2>1, SameStores
  <1>6. CASE \E b \in Batches[w] : Begin(w, b)
    <2>1. PICK b \in Batches[w] : Begin(w, b)
      BY <1>6
    <2>2. /\ tx'[w] = NoTx /\ at'[w] = 1 /\ pc'[w] \in {"commit", "select"} /\ lastWriter' = lastWriter
          /\ batch'[w] = b /\ (pc'[w] = "commit" => b = <<>>)
      BY <2>1 DEF Begin, Stores, PositionInv
    <2>3. \A i \in DOMAIN b : i \in Nat \ {0} /\ b # <<>>
      BY <2>1
    <2>4. \A i \in DOMAIN b : ~Written(w, i)'
      BY <2>2, <2>3 DEF Written
    <2> QED BY <2>2, <2>4 DEF Stores, NoTx, WrittenLast
  <1> QED BY <1>1, <1>2, <1>3, <1>4, <1>5, <1>6, DocumentsStored DEF Acts, Step

LEMMA DocumentsFrame ==
  ASSUME NEW w \in Writers, Acts(w), ~Commit(w)
  PROVE  docs' = docs /\ lastWriter' = lastWriter
  <1> USE DEF tables, history
  <1>1. CASE Select(w) \/ SelectDocuments(w) \/ Insert(w) \/ Update(w) \/ WriteDocuments(w)
    BY <1>1 DEF Select, SelectDocuments, Insert, Update, WriteDocuments
  <1>2. CASE InsertConflict(w) \/ DeadlockAbort(w) \/ Lose(w) \/ \E b \in Batches[w] : Begin(w, b)
    BY <1>2 DEF InsertConflict, DeadlockAbort, Lose, Rollback, Begin
  <1>3. CASE \/ EmbedSkipped(w) \/ DeleteEmbeddings(w) \/ LockEmbeddings(w)
             \/ ReplaceEmbeddings(w) \/ EmbeddingsFail(w)
    BY <1>3 DEF EmbedSkipped, DeleteEmbeddings, LockEmbeddings, ReplaceEmbeddings,
                EmbeddingsFail, EndEmbedding
  <1> QED BY <1>1, <1>2, <1>3 DEF Acts, Step

LEMMA NewestNext ==
  ASSUME TypeInv, AtomicInv, NewestInv, NEW w \in Writers, Acts(w)
  PROVE  NewestInv'
  <1>1. ASSUME ~Commit(w) PROVE NewestDocumentsPresent'
    <2>1. docs' = docs /\ lastWriter' = lastWriter
      BY <1>1, DocumentsFrame
    <2>2. \A u \in Writers, k \in Keys : lastWriter[k] = u => batch'[u] = batch[u]
      BY PersistedFrame DEF NewestInv, Stores
    <2>3. ASSUME NEW u \in Writers, NEW i \in DOMAIN batch'[u],
                 lastWriter'[batch'[u][i].key] = u, IsLast(u, i)', NEW l \in Links[batch'[u][i].ver]
          PROVE  \E d \in docs' : d.key = batch'[u][i].key /\ d.url = l
      <3>1. batch'[u][i].key \in Keys
        <4>1. TypeInv'
          BY TypeNext DEF Next, Acts
        <4>2. batch'[u] \in Seq(Item)
          BY <4>1 DEF TypeInv, TypeOK
        <4>3. batch'[u][i] \in Item
          BY <4>2
        <4> QED BY <4>3 DEF Item
      <3>2. batch'[u] = batch[u] /\ lastWriter[batch[u][i].key] = u
        BY <2>1, <2>2, <2>3, <3>1
      <3>3. IsLast(u, i)
        BY <2>3, <3>2 DEF IsLast
      <3> QED BY <2>1, <2>3, <3>2, <3>3 DEF NewestInv, NewestDocumentsPresent
    <2> QED BY <2>3 DEF NewestDocumentsPresent
  <1>2. ASSUME Commit(w) PROVE NewestDocumentsPresent'
    <2>1. /\ batch' = batch /\ docs' = (docs \ tx[w].deadDocs) \cup tx[w].newDocs /\ pc[w] = "commit"
          /\ lastWriter' = [k \in Keys |-> IF k \in KeysOf(batch[w]) THEN w ELSE lastWriter[k]]
      BY <1>2 DEF Commit, call
    <2>2. ASSUME NEW u \in Writers, NEW i \in DOMAIN batch[u],
                 lastWriter'[batch[u][i].key] = u, IsLast(u, i), NEW l \in Links[batch[u][i].ver]
          PROVE  \E d \in docs' : d.key = batch[u][i].key /\ d.url = l
      <3>1. batch[u][i].key \in Keys
        BY BatchTyped
      <3>2. CASE u = w
        <4> DEFINE d == [key |-> batch[w][i].key, url |-> l, by |-> w, at |-> i]
        <4>1. d \in DocumentRecords(w, i)
          BY <2>2, <3>2 DEF DocumentRecords
        <4>2. WrittenLast(w, i)
          BY <2>1, <2>2, <3>2 DEF WrittenLast, Written, IsLast
        <4>3. d \in docs'
          BY <2>1, <3>2, <4>1, <4>2 DEF NewestInv, Stores, InTx
        <4> QED BY <3>2, <4>3
      <3>3. CASE u # w
        <4>1. lastWriter[batch[u][i].key] = u /\ batch[u][i].key \notin KeysOf(batch[w])
          BY <2>1, <2>2, <3>1, <3>3
        <4>2. PICK d \in docs : d.key = batch[u][i].key /\ d.url = l
          BY <2>2, <4>1 DEF NewestInv, NewestDocumentsPresent
        <4>3. d \notin tx[w].deadDocs
          BY <4>1, <4>2 DEF NewestInv, Stores
        <4> QED BY <2>1, <4>2, <4>3
      <3> QED BY <3>2, <3>3
    <2>3. \A u \in Writers : \A i \in DOMAIN batch[u] : IsLast(u, i)' => IsLast(u, i)
      BY <2>1 DEF IsLast
    <2>4. ASSUME NEW u \in Writers, NEW i \in DOMAIN batch'[u],
                 lastWriter'[batch'[u][i].key] = u, IsLast(u, i)', NEW l \in Links[batch'[u][i].ver]
          PROVE  \E d \in docs' : d.key = batch'[u][i].key /\ d.url = l
      <3>1. i \in DOMAIN batch[u] /\ l \in Links[batch[u][i].ver] /\ lastWriter'[batch[u][i].key] = u
        BY <2>1, <2>4
      <3>2. \E d \in docs' : d.key = batch[u][i].key /\ d.url = l
        BY <2>2, <2>3, <2>4, <3>1
      <3> QED BY <2>1, <3>2
    <2> QED BY <2>4 DEF NewestDocumentsPresent
  <1>3. \A u \in Writers \ {w} : Stores(u)'
    <2>1. ASSUME NEW u \in Writers \ {w} PROVE Stores(u)'
      <3>1. pc'[u] = pc[u] /\ tx'[u] = tx[u] /\ batch'[u] = batch[u] /\ at'[u] = at[u]
        BY Frame
      <3>2. \A k \in Keys : lastWriter'[k] = u => lastWriter[k] = u
        BY DocumentsFrame DEF Commit
      <3> QED BY <3>1, <3>2 DEF NewestInv, Stores, WrittenLast, Written, DocumentRecords, key, item
    <2> QED BY <2>1
  <1> QED BY <1>1, <1>2, <1>3, StoresNext DEF NewestInv

\* The documents of the snapshot committed last are in the table, whatever another
\* call was doing to the documents of the same tender.
LEMMA AtomicStutter ==
  ASSUME UNCHANGED vars, AtomicInv
  PROVE  AtomicInv'
  <1>1. UNCHANGED <<rows, docs, pc, tx, batch, at>>
    BY DEF vars, tables, call
  <1>2. BatchAtomic'
    BY <1>1 DEF AtomicInv, BatchAtomic, Persisted, HasRow
  <1>3. \A w \in Writers : Holds(w)'
    <2>1. \A w, k : InIdentityMap(w, k)' <=> InIdentityMap(w, k)
      BY <1>1 DEF InIdentityMap
    <2>2. \A w, i : Written(w, i)' <=> Written(w, i)
      BY <1>1 DEF Written
    <2>3. \A k : HasRow(k)' <=> HasRow(k)
      BY <1>1 DEF HasRow
    <2> QED BY <1>1, <2>1, <2>2, <2>3 DEF AtomicInv, Holds
  <1> QED BY <1>2, <1>3 DEF AtomicInv

LEMMA NewestStutter ==
  ASSUME UNCHANGED vars, NewestInv
  PROVE  NewestInv'
  <1>1. UNCHANGED <<docs, pc, tx, batch, at, lastWriter>>
    BY DEF vars, tables, call, history
  <1>2. NewestDocumentsPresent'
    <2>1. \A w, i : IsLast(w, i)' <=> IsLast(w, i)
      BY <1>1 DEF IsLast
    <2>2. docs' = docs /\ batch' = batch /\ lastWriter' = lastWriter
      BY <1>1
    <2> SUFFICES ASSUME NEW w \in Writers, NEW i \in DOMAIN batch'[w], lastWriter'[batch'[w][i].key] = w,
                        IsLast(w, i)', NEW u \in Links[batch'[w][i].ver]
                 PROVE  \E d \in docs' : d.key = batch'[w][i].key /\ d.url = u
      BY DEF NewestDocumentsPresent
    <2>3. i \in DOMAIN batch[w] /\ lastWriter[batch[w][i].key] = w /\ IsLast(w, i) /\ u \in Links[batch[w][i].ver]
      BY <2>1, <2>2
    <2> QED BY <2>2, <2>3 DEF NewestInv, NewestDocumentsPresent
  <1>3. \A w \in Writers : Stores(w)'
    <2>1. \A w, i : (WrittenLast(w, i)' <=> WrittenLast(w, i)) /\ DocumentRecords(w, i)' = DocumentRecords(w, i)
      BY <1>1 DEF WrittenLast, Written, DocumentRecords
    <2>2. \A w : key(w)' = key(w)
      BY <1>1 DEF key, item
    <2> QED BY <1>1, <2>1, <2>2 DEF NewestInv, Stores
  <1> QED BY <1>2, <1>3 DEF NewestInv

THEOREM NewestDocuments == Spec => []NewestDocumentsPresent
  <1>1. Init => AtomicInv /\ NewestInv
    BY SentinelAssumption DEF Init, AtomicInv, BatchAtomic, Holds, Persisted, InTx, NoTx, InEmb,
                              NewestInv, NewestDocumentsPresent, Stores
  <1>2. TypeInv /\ AtomicInv /\ NewestInv /\ [Next]_vars => AtomicInv' /\ NewestInv'
    <2>1. UNCHANGED vars /\ AtomicInv /\ NewestInv => AtomicInv' /\ NewestInv'
      BY AtomicStutter, NewestStutter
    <2> QED BY <2>1, AtomicNext, NewestNext DEF Next, Acts
  <1>3. NewestInv => NewestDocumentsPresent
    BY DEF NewestInv
  <1> QED BY TypeInit, TypeNext, <1>1, <1>2, <1>3, PTL DEF Spec

-----------------------------------------------------------------------------
\* The row of the vector of position i of the call.
VectorRow(w, i) == [key |-> batch[w][i].key, ver |-> batch[w][i].ver, by |-> w, at |-> i]

\* A row is left by a call that has ended, for a tender of its batch.
OriginInv == \A e \in embeddings : pc[e.by] = "done" /\ e.key \in CleanKeys(batch[e.by])

\* Calls that are in their second transactions together know of each other.
MeetInv == \A u, w \in Writers : u # w /\ pc[u] \in InEmb /\ pc[w] \in InEmb => u \in embOverlap[w]

\* The rows of the call's tenders that its DELETE does not get are of calls beside it.
SeenInv ==
  \A w \in Writers : \A e \in embeddings : e.key \in CleanKeys(batch[w]) =>
    /\ pc[w] = "lock" => e \in emb[w].victims \/ e.by \in embOverlap[w]
    /\ pc[w] = "replace" => e \in emb[w].dropped \/ e.by \in embOverlap[w]

Alone(w, k) == \A u \in embOverlap[w] : ~(pc[u] = "done" /\ k \in CleanKeys(batch[u]))

EmbeddingsOf(k) == {f \in embeddings : f.key = k}
VectorsOf(w, k) == {VectorRow(w, i) : i \in {j \in Clean(batch[w]) : batch[w][j].key = k}}

\* What the last embedder of a tender leaves when nobody was beside it.
Owns(w, k) == pc[w] = "done" /\ (Alone(w, k) => EmbeddingsOf(k) = VectorsOf(w, k))
OwnInv == \A k \in Keys : lastEmbedder[k] # NoWriter => Owns(lastEmbedder[k], k)

VectorInv == EmbInv /\ OriginInv /\ MeetInv /\ SeenInv /\ OwnInv

LEMMA OverlapFrame ==
  ASSUME TypeInv, NEW w \in Writers, Acts(w)
  PROVE  /\ pc[w] # "done"
         /\ batch'[w] = batch[w] \/ pc[w] = "idle"
         /\ ~DeleteEmbeddings(w) => embOverlap' = embOverlap
         /\ ~ReplaceEmbeddings(w) => embeddings' = embeddings /\ lastEmbedder' = lastEmbedder
         /\ ~DeleteEmbeddings(w) /\ ~LockEmbeddings(w) => pc'[w] \notin InEmb
  <1> USE DEF TypeInv, TypeOK, Goto, tables, call, history, InTx, InEmb
  <1>1. CASE Select(w) \/ SelectDocuments(w) \/ Insert(w) \/ Update(w)
    BY <1>1 DEF Select, SelectDocuments, Insert, Update
  <1>2. CASE WriteDocuments(w) \/ Commit(w)
    BY <1>2 DEF WriteDocuments, ReplaceDocuments, Advance, Commit
  <1>3. CASE InsertConflict(w) \/ DeadlockAbort(w) \/ Lose(w)
    BY <1>3 DEF InsertConflict, Conflicting, DeadlockAbort, Lose, Rollback
  <1>4. CASE \/ EmbedSkipped(w) \/ DeleteEmbeddings(w) \/ LockEmbeddings(w)
             \/ ReplaceEmbeddings(w) \/ EmbeddingsFail(w)
    BY <1>4 DEF EmbedSkipped, DeleteEmbeddings, LockEmbeddings, ReplaceEmbeddings, EmbeddingsFail, EndEmbedding
  <1>5. CASE \E b \in Batches[w] : Begin(w, b)
    BY <1>5 DEF Begin
  <1> QED BY <1>1, <1>2, <1>3, <1>4, <1>5 DEF Acts, Step

\* Overlaps only grow but for the call that starts, and what has ended stays.
LEMMA AloneBefore ==
  ASSUME TypeInv, NEW w \in Writers, Acts(w), NEW u \in Writers \ {w}, NEW k \in Keys
  PROVE  embOverlap[u] \subseteq embOverlap'[u] /\ (Alone(u, k)' => Alone(u, k))
  <1>1. embOverlap[u] \subseteq embOverlap'[u]
    <2>1. CASE DeleteEmbeddings(w)
      BY <2>1 DEF DeleteEmbeddings, Meets
    <2> QED BY <2>1, OverlapFrame
  <1>2. \A v \in Writers : pc[v] = "done" => pc'[v] = "done" /\ batch'[v] = batch[v]
    BY Frame, OverlapFrame
  <1>3. embOverlap[u] \subseteq Writers
    BY DEF TypeInv, TypeOK
  <1> QED BY <1>1, <1>2, <1>3 DEF Alone

LEMMA OriginNext ==
  ASSUME TypeInv, OriginInv, NEW w \in Writers, Acts(w)
  PROVE  OriginInv'
  <1>1. \A e \in embeddings : e.by \in Writers
    BY DEF TypeInv, TypeOK, Embedding
  <1>2. \A e \in embeddings : pc'[e.by] = "done" /\ e.key \in CleanKeys(batch'[e.by])
    BY <1>1, Frame, OverlapFrame DEF OriginInv
  <1>3. CASE ReplaceEmbeddings(w)
    <2>1. pc'[w] = "done" /\ batch' = batch
      BY <1>3 DEF ReplaceEmbeddings, EndEmbedding, Goto, call, TypeInv, TypeOK
    <2>2. \A i \in Clean(batch[w]) : VectorRow(w, i).by = w /\ VectorRow(w, i).key \in CleanKeys(batch[w])
      BY DEF VectorRow, CleanKeys
    <2>3. embeddings' \subseteq embeddings \cup {VectorRow(w, i) : i \in Clean(batch[w])}
      BY <1>3 DEF ReplaceEmbeddings, VectorRow
    <2> QED BY <1>2, <2>1, <2>2, <2>3 DEF OriginInv
  <1>4. CASE ~ReplaceEmbeddings(w)
    BY <1>2, <1>4, OverlapFrame DEF OriginInv
  <1> QED BY <1>3, <1>4

LEMMA MeetNext ==
  ASSUME TypeInv, MeetInv, NEW w \in Writers, Acts(w)
  PROVE  MeetInv'
  <1>1. CASE DeleteEmbeddings(w)
    <2>1. /\ embOverlap'[w] = {u \in Writers \ {w} : pc[u] \in InEmb}
          /\ \A u \in Writers \ {w} : pc[u] \in InEmb => w \in embOverlap'[u]
      BY <1>1 DEF DeleteEmbeddings, Meets
    <2>2. \A u \in Writers \ {w} : pc'[u] = pc[u] /\ embOverlap[u] \subseteq embOverlap'[u]
      <3>1. \A u \in Writers \ {w} : embOverlap[u] \subseteq embOverlap'[u]
        BY <1>1 DEF DeleteEmbeddings, Meets
      <3> QED BY <3>1, Frame
    <2> QED BY <2>1, <2>2 DEF MeetInv
  <1>2. CASE LockEmbeddings(w)
    <2>1. pc[w] \in InEmb /\ embOverlap' = embOverlap
      BY <1>2 DEF LockEmbeddings, InEmb, history
    <2> QED BY <2>1, Frame DEF MeetInv
  <1>3. CASE ~DeleteEmbeddings(w) /\ ~LockEmbeddings(w)
    BY <1>3, Frame, OverlapFrame DEF MeetInv
  <1> QED BY <1>1, <1>2, <1>3

LEMMA SeenNext ==
  ASSUME TypeInv, OriginInv, MeetInv, SeenInv, NEW w \in Writers, Acts(w)
  PROVE  SeenInv'
  <1> USE DEF InEmb
  <1>1. \A u \in Writers \ {w} : /\ pc'[u] = pc[u] /\ emb'[u] = emb[u] /\ batch'[u] = batch[u]
                                 /\ embOverlap[u] \subseteq embOverlap'[u]
    <2>1. \A u \in Writers \ {w} : embOverlap[u] \subseteq embOverlap'[u]
      <3>1. CASE DeleteEmbeddings(w)
        BY <3>1 DEF DeleteEmbeddings, Meets
      <3> QED BY <3>1, OverlapFrame
    <2> QED BY <2>1, Frame
  <1>2. CASE DeleteEmbeddings(w)
    <2>1. pc'[w] = "lock" /\ embeddings' = embeddings /\ batch' = batch
          /\ emb'[w].victims = Victims(w)
      BY <1>2 DEF DeleteEmbeddings, Goto, tables, call, TypeInv, TypeOK
    <2> QED BY <1>1, <2>1 DEF SeenInv, Victims
  <1>3. CASE LockEmbeddings(w)
    <2>1. /\ pc[w] = "lock" /\ pc'[w] = "replace" /\ embeddings' = embeddings /\ batch' = batch
          /\ embOverlap' = embOverlap /\ emb'[w].dropped = emb[w].victims \cap embeddings
      BY <1>3 DEF LockEmbeddings, Goto, tables, call, history, TypeInv, TypeOK
    <2> QED BY <1>1, <2>1 DEF SeenInv
  <1>4. CASE ReplaceEmbeddings(w)
    <2>1. pc[w] = "replace" /\ pc'[w] = "done" /\ batch' = batch
      BY <1>4 DEF ReplaceEmbeddings, EndEmbedding, Goto, call, TypeInv, TypeOK
    <2>2. \A e \in embeddings' : e \in embeddings \/ e.by = w
      BY <1>4 DEF ReplaceEmbeddings
    <2>3. \A u \in Writers \ {w} : pc[u] \in InEmb => w \in embOverlap'[u]
      BY <1>1, <2>1 DEF MeetInv
    <2> QED BY <1>1, <2>1, <2>2, <2>3 DEF SeenInv
  <1>5. CASE ~DeleteEmbeddings(w) /\ ~LockEmbeddings(w) /\ ~ReplaceEmbeddings(w)
    BY <1>1, <1>5, OverlapFrame DEF SeenInv
  <1> QED BY <1>2, <1>3, <1>4, <1>5

LEMMA OwnNext ==
  ASSUME TypeInv, VectorInv, NEW w \in Writers, Acts(w)
  PROVE  OwnInv'
  <1> USE DEF VectorInv
  <1>1. \A k \in Keys : lastEmbedder[k] # NoWriter => lastEmbedder[k] \in Writers \ {w}
    <2>1. \A k \in Keys : lastEmbedder[k] \in Writers \cup {NoWriter}
      BY DEF TypeInv, TypeOK
    <2>2. \A k \in Keys : lastEmbedder[k] # NoWriter => lastEmbedder[k] # w
      BY OverlapFrame DEF OwnInv, Owns
    <2> QED BY <2>1, <2>2
  <1>2. ASSUME NEW u \in Writers \ {w}, NEW k \in Keys, Owns(u, k), EmbeddingsOf(k)' = EmbeddingsOf(k)
        PROVE  Owns(u, k)'
    <2>1. pc'[u] = pc[u] /\ (Alone(u, k)' => Alone(u, k))
      BY Frame, AloneBefore
    <2>2. batch'[u] = batch[u]
      BY Frame
    <2>3. VectorsOf(u, k)' = VectorsOf(u, k)
      BY <2>2 DEF VectorsOf, VectorRow
    <2> QED BY <1>2, <2>1, <2>3 DEF Owns
  <1>3. CASE ReplaceEmbeddings(w)
    <2> SUFFICES ASSUME NEW k \in Keys, lastEmbedder'[k] # NoWriter
                 PROVE  Owns(lastEmbedder[k], k)'
      BY DEF OwnInv
    <2>1. /\ pc[w] = "replace" /\ pc'[w] = "done" /\ batch' = batch /\ embOverlap' = embOverlap
          /\ embeddings' = (embeddings \ emb[w].dropped) \cup {VectorRow(w, i) : i \in Clean(batch[w])}
          /\ lastEmbedder'[k] = IF k \in CleanKeys(batch[w]) THEN w ELSE lastEmbedder[k]
      BY <1>3 DEF ReplaceEmbeddings, EndEmbedding, Goto, call, TypeInv, TypeOK, VectorRow
    <2>2. \A i \in Clean(batch[w]) : VectorRow(w, i).key = batch[w][i].key
      BY DEF VectorRow
    <2>3. CASE k \in CleanKeys(batch[w])
      <3>1. ASSUME Alone(w, k)', NEW e \in embeddings, e.key = k, e \notin emb[w].dropped PROVE FALSE
        <4>1. e.by \in embOverlap[w]
          BY <2>1, <2>3, <3>1 DEF SeenInv
        <4>2. pc[e.by] = "done" /\ k \in CleanKeys(batch[e.by]) /\ e.by \in Writers
          BY <3>1 DEF OriginInv, TypeInv, TypeOK, Embedding
        <4>3. pc'[e.by] = "done"
          BY <2>1, <4>2, Frame
        <4> QED BY <2>1, <3>1, <4>1, <4>2, <4>3 DEF Alone
      <3>2. VectorsOf(w, k)' = VectorsOf(w, k)
        BY <2>1 DEF VectorsOf, VectorRow
      <3>3. Alone(w, k)' => EmbeddingsOf(k)' = VectorsOf(w, k)
        BY <2>1, <2>2, <3>1 DEF EmbeddingsOf, VectorsOf
      <3>4. Owns(w, k)'
        BY <2>1, <3>2, <3>3 DEF Owns
      <3> QED BY <2>1, <2>3, <3>4 DEF Owns, Alone, VectorsOf, VectorRow
    <2>4. CASE k \notin CleanKeys(batch[w])
      <3>1. lastEmbedder'[k] = lastEmbedder[k] /\ lastEmbedder[k] \in Writers \ {w}
        BY <1>1, <2>1, <2>4
      <3>2. \A e \in emb[w].dropped : e.key # k
        BY <2>4 DEF EmbInv
      <3>3. \A i \in Clean(batch[w]) : VectorRow(w, i).key # k
        BY <2>2, <2>4 DEF CleanKeys
      <3>4. EmbeddingsOf(k)' = EmbeddingsOf(k)
        BY <2>1, <3>2, <3>3 DEF EmbeddingsOf
      <3>5. Owns(lastEmbedder[k], k)
        BY <3>1, <2>1, <2>4 DEF OwnInv
      <3>6. \A u \in Writers \ {w} : Owns(u, k) => Owns(u, k)'
        BY <1>2, <3>4
      <3> QED BY <3>1, <3>5, <3>6 DEF Owns, Alone, VectorsOf, VectorRow
    <2> QED BY <2>3, <2>4
  <1>4. CASE ~ReplaceEmbeddings(w)
    <2>1. embeddings' = embeddings /\ lastEmbedder' = lastEmbedder
      BY <1>4, OverlapFrame
    <2>2. \A k \in Keys : EmbeddingsOf(k)' = EmbeddingsOf(k)
      BY <2>1 DEF EmbeddingsOf
    <2>3. \A u \in Writers \ {w}, k \in Keys : Owns(u, k) => Owns(u, k)'
      BY <1>2, <2>2
    <2> SUFFICES ASSUME NEW k \in Keys, lastEmbedder[k] # NoWriter PROVE Owns(lastEmbedder[k], k)'
      BY <2>1 DEF OwnInv
    <2>4. lastEmbedder[k] \in Writers \ {w} /\ Owns(lastEmbedder[k], k)
      BY <1>1 DEF OwnInv
    <2> QED BY <2>1, <2>3, <2>4 DEF Owns, Alone, VectorsOf, VectorRow
  <1> QED BY <1>3, <1>4

\* A call beside which no other one replaced the embeddings of a tender leaves one
\* row for it, of the text it embedded.
THEOREM SerialEmbeddings == Spec => []SerialEmbeddingIsUnique
  <1>1. Init => VectorInv
    BY SentinelAssumption DEF Init, NoEmb, VectorInv, EmbInv, OriginInv, MeetInv, SeenInv, OwnInv, InEmb
  <1>2. TypeInv /\ VectorInv /\ [Next]_vars => VectorInv'
    <2>1. UNCHANGED vars /\ VectorInv => VectorInv'
      BY DEF vars, tables, call, history, VectorInv, EmbInv, OriginInv, MeetInv, SeenInv, OwnInv,
             Owns, Alone, EmbeddingsOf, VectorsOf, VectorRow
    <2>2. TypeInv /\ VectorInv /\ Next => VectorInv'
      <3> SUFFICES ASSUME TypeInv, VectorInv, Next PROVE VectorInv'
        OBVIOUS
      <3>1. PICK w \in Writers : Acts(w)
        BY DEF Next, Acts
      <3>2. EmbInv'
        BY <3>1, EmbNext DEF VectorInv
      <3>3. OriginInv'
        BY <3>1, OriginNext DEF VectorInv
      <3>4. MeetInv'
        BY <3>1, MeetNext DEF VectorInv
      <3>5. SeenInv'
        BY <3>1, SeenNext DEF VectorInv
      <3>6. OwnInv'
        BY <3>1, OwnNext
      <3> QED BY <3>2, <3>3, <3>4, <3>5, <3>6 DEF VectorInv
    <2> QED BY <2>1, <2>2
  <1>3. TypeInv /\ VectorInv => SerialEmbeddingIsUnique
    <2>0. TypeInv => \A k \in Keys : lastEmbedder[k] \in Writers \cup {NoWriter}
      BY DEF TypeInv, TypeOK
    <2> SUFFICES ASSUME TypeInv, VectorInv, NEW k \in Keys, NEW w \in Writers, w = lastEmbedder[k],
                        w # NoWriter, Cardinality({i \in Clean(batch[w]) : batch[w][i].key = k}) = 1,
                        Alone(w, k)
                 PROVE  \E e \in embeddings :
                          /\ {f \in embeddings : f.key = k} = {e}
                          /\ \A i \in Clean(batch[w]) : batch[w][i].key = k => e.ver = batch[w][i].ver
      BY <2>0, Zenon DEF SerialEmbeddingIsUnique, Alone
    <2> DEFINE At == {i \in Clean(batch[w]) : batch[w][i].key = k}
    <2>1. batch[w] \in Seq(Item)
      BY DEF TypeInv, TypeOK
    <2>2. Len(batch[w]) \in Nat /\ Clean(batch[w]) \subseteq 1 .. Len(batch[w])
      BY <2>1 DEF Clean
    <2>3. IsFiniteSet(At)
      BY <2>2, FS_BoundedSetOfNaturals, At \in SUBSET Nat, \A i \in At : i <= Len(batch[w])
    <2>4. PICK i : At = {i}
      BY <2>3, FS_Singleton
    <2>5. EmbeddingsOf(k) = {VectorRow(w, i)}
      <3>1. EmbeddingsOf(k) = VectorsOf(w, k)
        BY DEF VectorInv, OwnInv, Owns
      <3>2. VectorsOf(w, k) = {VectorRow(w, j) : j \in At}
        BY DEF VectorsOf
      <3> HIDE DEF At
      <3> QED BY <2>4, <3>1, <3>2
    <2>6. \A j \in Clean(batch[w]) : batch[w][j].key = k => VectorRow(w, i).ver = batch[w][j].ver
      BY <2>4 DEF VectorRow
    <2> QED BY <2>5, <2>6 DEF EmbeddingsOf
  <1> QED BY TypeInit, TypeNext, <1>1, <1>2, <1>3, PTL DEF Spec

-----------------------------------------------------------------------------
AloneTx(w, k) == \A u \in txOverlap[w] : ~(Persisted(u) /\ k \in KeysOf(batch[u]))

\* Transactions that are open together know of each other.
MeetTxInv == \A u, w \in Writers : u # w /\ pc[u] \in InTx /\ pc[w] \in InTx => u \in txOverlap[w]

DocOriginInv == \A d \in docs : d.key \in KeysOf(batch[d.by])

\* The session has the tender and its documents.
HasRead(w, k) == InIdentityMap(w, k) /\ ~(pc[w] = "documents" /\ key(w) = k)

\* A session writes what it has read or inserted, for tenders of its batch; of a
\* tender it has passed there is a last position.
Scope(w) ==
  /\ tx[w].inserted \subseteq KeysOf(batch[w])
  /\ \A d \in tx[w].newDocs : d.key \in KeysOf(batch[w])
  /\ \A k \in Keys : k \notin KeysOf(batch[w]) => tx[w].assigned[k] = NoWrite
  /\ \A k \in Keys : ~HasRead(w, k) =>
       /\ tx[w].assigned[k] = NoWrite /\ tx[w].collection[k] = {}
       /\ \A d \in tx[w].newDocs \cup tx[w].deadDocs : d.key # k
  /\ pc[w] = "insert" => ~InIdentityMap(w, key(w))
  /\ pc[w] \in InTx => \A i \in DOMAIN batch[w] : Written(w, i) =>
       \E j \in DOMAIN batch[w] : WrittenLast(w, j) /\ batch[w][j].key = batch[w][i].key

SessionDocuments(w, k) == {d \in (docs \ tx[w].deadDocs) \cup tx[w].newDocs : d.key = k}

\* What the session of an undisturbed call has read is what is committed.
View(w) ==
  pc[w] \in InTx => \A k \in Keys : AloneTx(w, k) =>
    /\ tx[w].loaded[k] # NoRow => \A r \in Committed(k) : r.cols = tx[w].loaded[k]
    /\ HasRead(w, k) => tx[w].collection[k] = SessionDocuments(w, k)

\* A tender the transaction has passed has the columns of its last snapshot.
Cols(w) ==
  pc[w] \in InTx =>
    /\ pc[w] = "write" => Current(w, key(w)) = Content[item(w).ver]
    /\ \A i \in DOMAIN batch[w] :
         WrittenLast(w, i) /\ ~(pc[w] = "write" /\ key(w) = batch[w][i].key)
         => Current(w, batch[w][i].key) = Content[batch[w][i].ver]

\* What the last writer of a tender leaves when nobody was beside it.
Whole(w, k) ==
  /\ Persisted(w)
  /\ AloneTx(w, k) =>
       \E i \in DOMAIN batch[w] :
         /\ batch[w][i].key = k /\ IsLast(w, i)
         /\ \A r \in Committed(k) : r.cols = Content[batch[w][i].ver]
         /\ DocumentsOf(k) = DocumentRecords(w, i)
WholeInv == \A k \in Keys : lastWriter[k] # NoWriter => Whole(lastWriter[k], k)

SerialInv == MeetTxInv /\ DocOriginInv /\ (\A w \in Writers : Scope(w) /\ View(w) /\ Cols(w)) /\ WholeInv

LEMMA TxOverlapFrame ==
  ASSUME TypeInv, NEW w \in Writers, Acts(w)
  PROVE  /\ \A u \in Writers \ {w} : txOverlap[u] \subseteq txOverlap'[u]
         /\ pc[w] # "idle" => txOverlap' = txOverlap
         /\ pc[w] # "idle" /\ pc'[w] \in InTx => pc[w] \in InTx
         /\ pc[w] = "idle" => \E b \in Batches[w] : Begin(w, b)
  <1> USE DEF TypeInv, TypeOK, Goto, tables, call, history, InTx, InEmb
  <1>1. CASE Select(w) \/ SelectDocuments(w) \/ Insert(w) \/ Update(w)
    BY <1>1 DEF Select, SelectDocuments, Insert, Update
  <1>2. CASE WriteDocuments(w) \/ Commit(w)
    BY <1>2 DEF WriteDocuments, ReplaceDocuments, Advance, Commit
  <1>3. CASE InsertConflict(w) \/ DeadlockAbort(w) \/ Lose(w)
    BY <1>3 DEF InsertConflict, Conflicting, DeadlockAbort, Lose, Rollback
  <1>4. CASE \/ EmbedSkipped(w) \/ DeleteEmbeddings(w) \/ LockEmbeddings(w)
             \/ ReplaceEmbeddings(w) \/ EmbeddingsFail(w)
    BY <1>4 DEF EmbedSkipped, DeleteEmbeddings, LockEmbeddings, ReplaceEmbeddings, EmbeddingsFail, EndEmbedding
  <1>5. CASE \E b \in Batches[w] : Begin(w, b)
    <2>1. pc[w] = "idle" /\ txOverlap' = Meets(txOverlap, w, InTx)
      BY <1>5 DEF Begin
    <2>2. \A u \in Writers \ {w} : txOverlap[u] \subseteq txOverlap'[u]
      BY <2>1 DEF Meets
    <2> QED BY <1>5, <2>1, <2>2
  <1> QED BY <1>1, <1>2, <1>3, <1>4, <1>5 DEF Acts, Step

\* Nobody comes to be alone later.
LEMMA AloneTxBefore ==
  ASSUME TypeInv, NEW w \in Writers, Acts(w), NEW u \in Writers, u # w \/ pc[w] # "idle", NEW k \in Keys,
         AloneTx(u, k)'
  PROVE  AloneTx(u, k)
  <1>1. txOverlap[u] \subseteq txOverlap'[u] /\ txOverlap[u] \subseteq Writers
    BY TxOverlapFrame DEF TypeInv, TypeOK
  <1>2. \A v \in Writers : Persisted(v) => Persisted(v)' /\ batch'[v] = batch[v]
    BY PersistedFrame
  <1> QED BY <1>1, <1>2 DEF AloneTx

LEMMA MeetTxNext ==
  ASSUME TypeInv, MeetTxInv, NEW w \in Writers, Acts(w)
  PROVE  MeetTxInv'
  <1>1. \A u \in Writers \ {w} : pc'[u] = pc[u] /\ txOverlap[u] \subseteq txOverlap'[u]
    BY Frame, TxOverlapFrame
  <1>2. CASE pc[w] = "idle"
    <2>1. \A u \in Writers \ {w} : pc[u] \in InTx => w \in txOverlap'[u] /\ u \in txOverlap'[w]
      BY <1>2, TxOverlapFrame DEF Begin, Meets, TypeInv, TypeOK
    <2> QED BY <1>1, <2>1 DEF MeetTxInv
  <1>3. CASE pc[w] # "idle"
    BY <1>1, <1>3, TxOverlapFrame DEF MeetTxInv
  <1> QED BY <1>2, <1>3

LEMMA DocOriginNext ==
  ASSUME TypeInv, AtomicInv, DocOriginInv, NEW w \in Writers, Scope(w), Acts(w)
  PROVE  DocOriginInv'
  <1>1. \A d \in docs : d.key \in KeysOf(batch'[d.by])
    <2>1. \A d \in docs : d.by \in Writers /\ Persisted(d.by)
      BY DEF TypeInv, TypeOK, Doc, AtomicInv, BatchAtomic
    <2> QED BY <2>1, PersistedFrame DEF DocOriginInv
  <1>2. CASE Commit(w)
    <2>1. \A d \in tx[w].newDocs : d.by = w /\ d.key \in KeysOf(batch'[w])
      BY <1>2 DEF Scope, AtomicInv, Holds, Commit, call
    <2> QED BY <1>1, <1>2, <2>1 DEF DocOriginInv, Commit
  <1>3. CASE ~Commit(w)
    BY <1>1, <1>3, DocumentsFrame DEF DocOriginInv
  <1> QED BY <1>2, <1>3

\* A commit leaves alone the tenders that are not of its batch.
LEMMA OthersKept ==
  ASSUME TypeInv, UniqueInv, NewestInv, NEW w \in Writers, Scope(w), Acts(w), NEW k \in Keys,
         Commit(w) => k \notin KeysOf(batch[w])
  PROVE  Committed(k)' = Committed(k) /\ DocumentsOf(k)' = DocumentsOf(k)
  <1>1. CASE ~Commit(w)
    BY <1>1, TablesFrame DEF Committed, DocumentsOf
  <1>2. CASE Commit(w)
    <2>1. k \notin KeysOf(batch[w]) /\ tx[w].assigned[k] = NoWrite /\ k \notin tx[w].inserted
      BY <1>2 DEF Scope
    <2>2. \A r \in Committed(k) : Overwritten(w, r) = r
      BY <2>1 DEF Committed, Overwritten, NoWrite, TypeInv, TypeOK, Row
    <2>3. \A r \in rows : Overwritten(w, r).key = r.key
      BY OverwrittenTyped
    <2>4. Committed(k)' = Committed(k)
      BY <1>2, <2>1, <2>2, <2>3, CommittedShape DEF Committed
    <2>5. \A d \in tx[w].deadDocs \cup tx[w].newDocs : d.key # k
      BY <2>1 DEF Scope, NewestInv, Stores
    <2>6. DocumentsOf(k)' = DocumentsOf(k)
      BY <1>2, <2>5 DEF Commit, DocumentsOf
    <2> QED BY <2>4, <2>6
  <1> QED BY <1>1, <1>2

LEMMA OtherSession ==
  ASSUME TypeInv, UniqueInv, NewestInv, MeetTxInv, NEW w \in Writers, Scope(w), Acts(w),
         NEW u \in Writers \ {w}, Scope(u), View(u), Cols(u)
  PROVE  Scope(u)' /\ View(u)' /\ Cols(u)'
  <1>1. pc'[u] = pc[u] /\ tx'[u] = tx[u] /\ batch'[u] = batch[u] /\ at'[u] = at[u]
    BY Frame
  <1> USE DEF InIdentityMap, HasRead, key, item, Written, WrittenLast, Current
  <1>2. Scope(u)'
    <2>1. key(u)' = key(u)
      BY <1>1
    <2>2. \A i : WrittenLast(u, i)' <=> WrittenLast(u, i)
      BY <1>1
    <2>3. \A k : HasRead(u, k)' <=> HasRead(u, k)
      BY <1>1
    <2> HIDE DEF HasRead, key, item, WrittenLast
    <2> QED BY <1>1, <2>1, <2>2, <2>3 DEF Scope
  <1>3. Cols(u)'
    <2>1. \A k : Current(u, k)' = Current(u, k)
      BY <1>1
    <2>2. key(u)' = key(u) /\ item(u)' = item(u)
      BY <1>1
    <2>3. \A i : WrittenLast(u, i)' = WrittenLast(u, i)
      BY <1>1
    <2> HIDE DEF Current, key, item, WrittenLast
    <2> QED BY <1>1, <2>1, <2>2, <2>3 DEF Cols
  <1>4. View(u)'
    <2> SUFFICES ASSUME pc[u] \in InTx, NEW k \in Keys, AloneTx(u, k)'
                 PROVE  /\ tx[u].loaded[k] # NoRow => \A r \in Committed(k)' : r.cols = tx[u].loaded[k]
                        /\ HasRead(u, k) => tx[u].collection[k] = SessionDocuments(u, k)'
      BY <1>1 DEF View
    <2>1. AloneTx(u, k)
      BY AloneTxBefore
    <2>2. Commit(w) => k \notin KeysOf(batch[w])
      <3> SUFFICES ASSUME Commit(w), k \in KeysOf(batch[w]) PROVE FALSE
        OBVIOUS
      <3>1. pc[w] = "commit" /\ Persisted(w)' /\ batch' = batch /\ txOverlap' = txOverlap
        BY DEF Commit, Goto, Persisted, call, TypeInv, TypeOK
      <3>2. w \in txOverlap'[u]
        BY <3>1 DEF MeetTxInv, InTx
      <3> QED BY <3>1, <3>2 DEF AloneTx
    <2>3. Committed(k)' = Committed(k) /\ DocumentsOf(k)' = DocumentsOf(k)
      BY <2>2, OthersKept
    <2>4. SessionDocuments(u, k)' = SessionDocuments(u, k)
      BY <1>1, <2>3 DEF SessionDocuments, DocumentsOf
    <2> QED BY <2>1, <2>3, <2>4 DEF View
  <1> QED BY <1>2, <1>3, <1>4

\* A step of w inside its transaction that stays at the tender and commits nothing.
SameTender(w) ==
  /\ rows' = rows /\ docs' = docs /\ batch'[w] = batch[w] /\ at'[w] = at[w]
  /\ pc[w] \in OnItem /\ pc'[w] \in OnItem

LEMMA SameTenderFrame ==
  ASSUME TypeInv, NEW w \in Writers, Acts(w), SameTender(w)
  PROVE  /\ key(w)' = key(w) /\ item(w)' = item(w) /\ key(w) \in Keys /\ at[w] \in DOMAIN batch[w]
         /\ key(w) = batch[w][at[w]].key /\ key(w) \in KeysOf(batch[w])
         /\ \A i \in DOMAIN batch[w] : batch[w][i].key \in Keys
         /\ \A i : (Written(w, i)' <=> Written(w, i)) /\ (WrittenLast(w, i)' <=> WrittenLast(w, i))
         /\ \A k \in Keys : AloneTx(w, k)' => AloneTx(w, k)
         /\ \A k : Committed(k)' = Committed(k)
         /\ pc[w] \in InTx
  <1>1. key(w) \in Keys /\ at[w] \in DOMAIN batch[w] /\ \A i \in DOMAIN batch[w] : batch[w][i].key \in Keys
    BY ItemTyped, BatchTyped DEF SameTender, TypeInv, PositionInv
  <1>2. \A k \in Keys : AloneTx(w, k)' => AloneTx(w, k)
    BY AloneTxBefore DEF SameTender, OnItem
  <1> QED BY <1>1, <1>2 DEF SameTender, key, item, KeysOf, OnItem, InTx, Written, WrittenLast, Committed

LEMMA SelectSerial ==
  ASSUME TypeInv, UniqueInv, AtomicInv, NEW w \in Writers, Scope(w), View(w), Cols(w), Select(w)
  PROVE  Scope(w)' /\ View(w)' /\ Cols(w)'
  <1> DEFINE t == tx[w]
             k == key(w)
  <1>1. SameTender(w) /\ pc[w] = "select" /\ Acts(w)
    BY DEF Select, SameTender, OnItem, Goto, tables, call, TypeInv, TypeOK, Acts, Step
  <1>2. /\ t.inserted = tx'[w].inserted /\ t.assigned = tx'[w].assigned
        /\ t.collection = tx'[w].collection /\ t.newDocs = tx'[w].newDocs /\ t.deadDocs = tx'[w].deadDocs
        /\ \/ InIdentityMap(w, k) /\ pc'[w] = "update" /\ tx'[w].loaded = t.loaded
           \/ ~InIdentityMap(w, k) /\ Committed(k) = {} /\ pc'[w] = "insert" /\ tx'[w].loaded = t.loaded
           \/ /\ ~InIdentityMap(w, k) /\ pc'[w] = "documents"
              /\ \E r \in Committed(k) : tx'[w].loaded = [t.loaded EXCEPT ![k] = r.cols]
    <2>1. tx[w] \in Tx /\ tx \in [Writers -> Tx] /\ pc \in [Writers -> {"idle", "embed"} \cup InTx \cup InEmb \cup Ended]
      BY DEF TypeInv, TypeOK
    <2>2. CASE /\ tx' = tx
               /\ \/ InIdentityMap(w, k) /\ Goto(w, "update")
                  \/ ~InIdentityMap(w, k) /\ Committed(k) = {} /\ Goto(w, "insert")
      BY <2>1, <2>2 DEF Goto
    <2>3. CASE /\ ~InIdentityMap(w, k) /\ Goto(w, "documents")
               /\ \E r \in Committed(k) : tx' = [tx EXCEPT ![w].loaded[k] = r.cols]
      <3>1. pc'[w] = "documents"
        BY <2>1, <2>3 DEF Goto
      <3>2. ASSUME NEW r \in Committed(k), tx' = [tx EXCEPT ![w].loaded[k] = r.cols]
            PROVE  /\ tx'[w].inserted = t.inserted /\ tx'[w].assigned = t.assigned
                   /\ tx'[w].collection = t.collection /\ tx'[w].newDocs = t.newDocs
                   /\ tx'[w].deadDocs = t.deadDocs /\ tx'[w].loaded = [t.loaded EXCEPT ![k] = r.cols]
        <4> HIDE DEF k
        <4>1. tx'[w] = [t EXCEPT !.loaded = [@ EXCEPT ![k] = r.cols]]
          BY <2>1, <3>2
        <4> QED BY <2>1, <4>1 DEF Tx
      <3> HIDE DEF k, t
      <3> QED BY <2>3, <3>1, <3>2
    <2> HIDE DEF k
    <2> QED BY <2>2, <2>3 DEF Select, k
  <1>3. t \in Tx
    BY DEF TypeInv, TypeOK
  <1>4. \A r, s \in Committed(k) : r.cols = s.cols
    BY DEF UniqueInv, OneRowPerTender, Committed
  <1>5. \A j \in Keys : j # k => tx'[w].loaded[j] = t.loaded[j]
    BY <1>2, <1>3 DEF Tx
  <1>6. \A r \in Committed(k) : r.cols # NoRow
    BY SentinelAssumption DEF Committed, TypeInv, TypeOK, Row
  <1>7. \A j \in Keys : HasRead(w, j)' <=> HasRead(w, j)
    BY <1>1, <1>2, <1>3, <1>5, <1>6, SameTenderFrame DEF HasRead, InIdentityMap, Tx
  <1>8. Scope(w)'
    BY <1>1, <1>2, <1>7, SameTenderFrame DEF Scope, SameTender, InIdentityMap
  <1>9. View(w)'
    <2> SUFFICES ASSUME NEW j \in Keys, AloneTx(w, j)
                 PROVE  /\ tx'[w].loaded[j] # NoRow => \A r \in Committed(j) : r.cols = tx'[w].loaded[j]
                        /\ HasRead(w, j) => tx'[w].collection[j] = SessionDocuments(w, j)'
      BY <1>1, <1>7, SameTenderFrame DEF View
    <2>1. SessionDocuments(w, j)' = SessionDocuments(w, j)
      BY <1>1, <1>2 DEF SessionDocuments, SameTender
    <2>2. CASE j = k
      <3>1. tx'[w].loaded[j] = t.loaded[j] \/ \E r \in Committed(j) : tx'[w].loaded[j] = r.cols
        BY <1>2, <1>3, <2>2 DEF Tx
      <3>2. /\ t.loaded[j] # NoRow => \A r \in Committed(j) : r.cols = t.loaded[j]
            /\ HasRead(w, j) => t.collection[j] = SessionDocuments(w, j)
        BY <1>1, SameTenderFrame DEF View
      <3>3. tx'[w].collection = t.collection
        BY <1>2
      <3> HIDE DEF t, k
      <3> QED BY <1>4, <2>1, <2>2, <3>1, <3>2, <3>3
    <2>3. CASE j # k
      BY <1>1, <1>2, <1>5, <2>1, <2>3, SameTenderFrame DEF View
    <2> QED BY <2>2, <2>3
  <1>10. Cols(w)'
    <2>1. ASSUME NEW i \in DOMAIN batch[w], WrittenLast(w, i)
          PROVE  Current(w, batch[w][i].key)' = Content[batch[w][i].ver]
      <3>1. Current(w, batch[w][i].key) = Content[batch[w][i].ver] /\ batch[w][i].key \in Keys
        BY <1>1, <2>1, SameTenderFrame DEF Cols
      <3>2. InIdentityMap(w, batch[w][i].key)
        BY <1>1, <2>1, SameTenderFrame DEF AtomicInv, Holds, WrittenLast
      <3>3. tx'[w].loaded[batch[w][i].key] = t.loaded[batch[w][i].key]
        BY <1>2, <1>5, <3>1, <3>2
      <3>4. tx'[w].assigned = t.assigned /\ batch'[w] = batch[w]
        BY <1>1, <1>2 DEF SameTender
      <3>5. \A j : tx'[w].loaded[j] = t.loaded[j]
                    => Current(w, j) = [c \in Columns |-> IF tx'[w].assigned[j][c] # Keep
                                                         THEN tx'[w].assigned[j][c] ELSE tx'[w].loaded[j][c]]
        BY <3>4 DEF Current
      <3> HIDE DEF t, k
      <3>6. Current(w, batch[w][i].key)' =
              [c \in Columns |-> IF tx'[w].assigned[batch[w][i].key][c] # Keep
                                 THEN tx'[w].assigned[batch[w][i].key][c] ELSE tx'[w].loaded[batch[w][i].key][c]]
        BY <3>4 DEF Current
      <3> QED BY <3>1, <3>3, <3>5, <3>6
    <2> QED BY <1>1, <1>2, <2>1, SameTenderFrame DEF Cols, SameTender
  <1> QED BY <1>8, <1>9, <1>10

LEMMA DocumentsSerial ==
  ASSUME TypeInv, AtomicInv, NewestInv, NEW w \in Writers, Scope(w), View(w), Cols(w), SelectDocuments(w)
  PROVE  Scope(w)' /\ View(w)' /\ Cols(w)'
  <1> DEFINE t == tx[w]
             k == key(w)
  <1>1. SameTender(w) /\ pc[w] = "documents" /\ pc'[w] = "update" /\ Acts(w)
    BY DEF SelectDocuments, SameTender, OnItem, Goto, tables, call, TypeInv, TypeOK, Acts, Step
  <1>2. t \in Tx /\ k \in Keys
    BY <1>1, SameTenderFrame DEF TypeInv, TypeOK
  <1>3. /\ t.inserted = tx'[w].inserted /\ t.assigned = tx'[w].assigned /\ tx'[w].loaded = t.loaded
        /\ t.newDocs = tx'[w].newDocs /\ t.deadDocs = tx'[w].deadDocs
        /\ tx'[w].collection = [t.collection EXCEPT ![k] = DocumentsOf(k)]
    BY <1>2 DEF SelectDocuments, LoadedDocuments, TypeInv, TypeOK, Tx
  <1>4. InIdentityMap(w, k) /\ ~HasRead(w, k)
    BY <1>1, SameTenderFrame DEF AtomicInv, Holds, HasRead
  <1>5. \A j \in Keys : j # k => (HasRead(w, j)' <=> HasRead(w, j)) /\ tx'[w].collection[j] = t.collection[j]
    BY <1>1, <1>2, <1>3, SameTenderFrame DEF HasRead, InIdentityMap, Tx
  <1>6. HasRead(w, k)'
    BY <1>1, <1>3, <1>4, SameTenderFrame DEF HasRead, InIdentityMap
  <1>7. Scope(w)'
    BY <1>1, <1>3, <1>5, <1>6, SameTenderFrame DEF Scope, SameTender
  <1>8. View(w)'
    <2> SUFFICES ASSUME NEW j \in Keys, AloneTx(w, j)
                 PROVE  /\ tx'[w].loaded[j] # NoRow => \A r \in Committed(j) : r.cols = tx'[w].loaded[j]
                        /\ HasRead(w, j)' => tx'[w].collection[j] = SessionDocuments(w, j)'
      BY <1>1, SameTenderFrame DEF View
    <2>1. SessionDocuments(w, j)' = SessionDocuments(w, j)
      BY <1>1, <1>3 DEF SessionDocuments, SameTender
    <2>2. CASE j = k
      <3>1. SessionDocuments(w, k) = DocumentsOf(k)
        BY <1>2, <1>4 DEF SessionDocuments, DocumentsOf, Scope
      <3> QED BY <1>1, <1>2, <1>3, <2>1, <2>2, <3>1, SameTenderFrame DEF View, Tx
    <2>3. CASE j # k
      BY <1>1, <1>3, <1>5, <2>1, <2>3, SameTenderFrame DEF View
    <2> QED BY <2>2, <2>3
  <1>9. Cols(w)'
    <2>1. \A j : Current(w, j)' = Current(w, j)
      BY <1>3 DEF Current
    <2> QED BY <1>1, <2>1, SameTenderFrame DEF Cols, SameTender
  <1> QED BY <1>7, <1>8, <1>9

LEMMA InsertSerial ==
  ASSUME TypeInv, UniqueInv, AtomicInv, NewestInv, DocOriginInv, NEW w \in Writers,
         Scope(w), View(w), Cols(w), Insert(w)
  PROVE  Scope(w)' /\ View(w)' /\ Cols(w)'
  <1> DEFINE t == tx[w]
             k == key(w)
             c == Content[item(w).ver]
  <1>1. SameTender(w) /\ pc[w] = "insert" /\ pc'[w] = "write" /\ Acts(w) /\ Committed(k) = {}
    BY DEF Insert, Conflicts, SameTender, OnItem, Goto, tables, call, TypeInv, TypeOK, Acts, Step
  <1>2. t \in Tx /\ k \in Keys /\ c \in [Columns -> Values]
    BY <1>1, SameTenderFrame, ItemTyped DEF TypeInv, TypeOK, SameTender
  <1>3. /\ tx'[w].inserted = t.inserted \cup {k} /\ tx'[w].loaded = t.loaded
        /\ tx'[w].assigned = [t.assigned EXCEPT ![k] = c]
        /\ t.newDocs = tx'[w].newDocs /\ t.deadDocs = tx'[w].deadDocs /\ t.collection = tx'[w].collection
    BY <1>2 DEF Insert, TypeInv, TypeOK, Tx
  <1>4. ~InIdentityMap(w, k) /\ ~HasRead(w, k)
    BY <1>1 DEF Scope, HasRead
  <1>5. \A j \in Keys : j # k => (HasRead(w, j)' <=> HasRead(w, j)) /\ tx'[w].assigned[j] = t.assigned[j]
    BY <1>1, <1>2, <1>3, SameTenderFrame DEF HasRead, InIdentityMap, Tx
  <1>6. HasRead(w, k)'
    BY <1>1, <1>3, SameTenderFrame DEF HasRead, InIdentityMap
  <1>7. Scope(w)'
    BY <1>1, <1>3, <1>5, <1>6, SameTenderFrame DEF Scope, SameTender
  <1>8. DocumentsOf(k) = {}
    <2> SUFFICES ASSUME NEW d \in docs, d.key = k PROVE FALSE
      BY DEF DocumentsOf
    <2>1. d.by \in Writers /\ Persisted(d.by) /\ k \in KeysOf(batch[d.by])
      BY DEF AtomicInv, BatchAtomic, DocOriginInv, TypeInv, TypeOK, Doc
    <2>2. \E r \in rows : r.key = k
      BY <2>1 DEF AtomicInv, BatchAtomic
    <2> QED BY <1>1, <2>2 DEF Committed
  <1>9. View(w)'
    <2> SUFFICES ASSUME NEW j \in Keys, AloneTx(w, j)
                 PROVE  /\ tx'[w].loaded[j] # NoRow => \A r \in Committed(j) : r.cols = tx'[w].loaded[j]
                        /\ HasRead(w, j)' => tx'[w].collection[j] = SessionDocuments(w, j)'
      BY <1>1, SameTenderFrame DEF View
    <2>1. SessionDocuments(w, j)' = SessionDocuments(w, j)
      BY <1>1, <1>3 DEF SessionDocuments, SameTender
    <2>2. CASE j = k
      <3>1. SessionDocuments(w, k) = {} /\ t.collection[k] = {}
        BY <1>2, <1>4, <1>8 DEF SessionDocuments, DocumentsOf, Scope
      <3> QED BY <1>1, <1>3, <2>1, <2>2, <3>1
    <2>3. CASE j # k
      BY <1>1, <1>3, <1>5, <2>1, <2>3, SameTenderFrame DEF View
    <2> QED BY <2>2, <2>3
  <1>10. Cols(w)'
    <2>1. \A j \in Keys : j # k => Current(w, j)' = Current(w, j)
      BY <1>3, <1>5 DEF Current
    <2>2. Current(w, k)' = c
      <3>1. tx'[w].assigned[k] = c
        BY <1>2, <1>3 DEF Tx
      <3>2. \A x \in Columns : c[x] # Keep
        BY <1>2, SentinelAssumption
      <3> QED BY <1>1, <1>2, <3>1, <3>2, SameTenderFrame DEF Current
    <2> QED BY <1>1, <2>1, <2>2, SameTenderFrame DEF Cols, SameTender
  <1> QED BY <1>7, <1>9, <1>10

LEMMA UpdateSerial ==
  ASSUME TypeInv, AtomicInv, NEW w \in Writers, Scope(w), View(w), Cols(w), Update(w)
  PROVE  Scope(w)' /\ View(w)' /\ Cols(w)'
  <1> DEFINE t == tx[w]
             k == key(w)
             c == Content[item(w).ver]
             a == [x \in Columns |-> IF x \in Changed(w) THEN c[x] ELSE t.assigned[k][x]]
  <1>1. SameTender(w) /\ pc[w] = "update" /\ pc'[w] = "write" /\ Acts(w)
    BY DEF Update, SameTender, OnItem, Goto, tables, call, TypeInv, TypeOK, Acts, Step
  <1>2. t \in Tx /\ k \in Keys /\ c \in [Columns -> Values]
    BY <1>1, SameTenderFrame, ItemTyped DEF TypeInv, TypeOK, SameTender
  <1>3. /\ tx'[w].inserted = t.inserted /\ tx'[w].loaded = t.loaded
        /\ tx'[w].assigned = [t.assigned EXCEPT ![k] = a]
        /\ t.newDocs = tx'[w].newDocs /\ t.deadDocs = tx'[w].deadDocs /\ t.collection = tx'[w].collection
    BY <1>2 DEF Update, TypeInv, TypeOK, Tx
  <1>4. HasRead(w, k)
    BY <1>1, SameTenderFrame DEF AtomicInv, Holds, HasRead
  <1>5. \A j \in Keys : (HasRead(w, j)' <=> HasRead(w, j)) /\ (j # k => tx'[w].assigned[j] = t.assigned[j])
    BY <1>1, <1>2, <1>3, SameTenderFrame DEF HasRead, InIdentityMap, Tx
  <1> HIDE DEF a
  <1>6. Scope(w)'
    BY <1>1, <1>3, <1>4, <1>5, SameTenderFrame DEF Scope, SameTender
  <1>7. View(w)'
    <2>1. \A j : SessionDocuments(w, j)' = SessionDocuments(w, j)
      BY <1>1, <1>3 DEF SessionDocuments, SameTender
    <2> QED BY <1>1, <1>3, <1>5, <2>1, SameTenderFrame DEF View
  <1>8. Cols(w)'
    <2>1. \A j \in Keys : j # k => Current(w, j)' = Current(w, j)
      BY <1>3, <1>5 DEF Current
    <2>2. Current(w, k)' = c
      <3>1. tx'[w].assigned[k] = a
        BY <1>2, <1>3 DEF Tx
      <3>2. ASSUME NEW x \in Columns PROVE Current(w, k)'[x] = c[x]
        <4>1. Current(w, k)'[x] = IF a[x] # Keep THEN a[x] ELSE t.loaded[k][x]
          BY <1>1, <1>3, <3>1, SameTenderFrame DEF Current
        <4>2. c[x] # Keep
          BY <1>2, SentinelAssumption
        <4>3. Current(w, k)[x] = IF t.assigned[k][x] # Keep THEN t.assigned[k][x] ELSE t.loaded[k][x]
          BY DEF Current
        <4>4. x \in Changed(w) <=> c[x] # Current(w, k)[x]
          BY DEF Changed
        <4> QED BY <4>1, <4>2, <4>3, <4>4 DEF a
      <3> QED BY <1>2, <3>2 DEF Current
    <2> QED BY <1>1, <2>1, <2>2, SameTenderFrame DEF Cols, SameTender
  <1> QED BY <1>6, <1>7, <1>8

\* The transaction has passed the positions before at.
LEMMA PassedShape ==
  ASSUME TypeInv, NEW w \in Writers, WriteDocuments(w)
  PROVE  /\ pc[w] = "write" /\ pc'[w] \in {"select", "commit"} /\ batch'[w] = batch[w]
         /\ rows' = rows /\ docs' = docs
         /\ at[w] \in DOMAIN batch[w] /\ key(w) = batch[w][at[w]].key /\ key(w) \in Keys
         /\ \A i \in DOMAIN batch[w] : i \in Nat /\ batch[w][i].key \in Keys
         /\ \A i \in DOMAIN batch[w] : (Written(w, i) <=> i < at[w]) /\ (Written(w, i)' <=> i <= at[w])
  <1>1. at[w] \in DOMAIN batch[w] /\ key(w) = batch[w][at[w]].key /\ key(w) \in Keys
    BY ItemTyped DEF WriteDocuments, OnItem, TypeInv, PositionInv, key, item
  <1>2. \A i \in DOMAIN batch[w] : i \in Nat /\ batch[w][i].key \in Keys
    BY BatchTyped
  <1>3. /\ batch' = batch /\ pc[w] = "write" /\ rows' = rows /\ docs' = docs
        /\ \/ pc'[w] = "select" /\ at'[w] = at[w] + 1
           \/ pc'[w] = "commit" /\ at[w] = Len(batch[w])
    BY <1>1, <1>2 DEF WriteDocuments, Advance, Goto, tables, TypeInv, TypeOK
  <1>4. DOMAIN batch[w] = 1..Len(batch[w]) /\ Len(batch[w]) \in Nat /\ at[w] \in Nat
    BY DEF TypeInv, TypeOK
  <1>5. \A i \in DOMAIN batch[w] : (Written(w, i) <=> i < at[w]) /\ (Written(w, i)' <=> i <= at[w])
    BY <1>1, <1>2, <1>3, <1>4 DEF Written
  <1> QED BY <1>1, <1>2, <1>3, <1>5

LEMMA WriteSerial ==
  ASSUME TypeInv, AtomicInv, NewestInv, NEW w \in Writers, Scope(w), View(w), Cols(w), WriteDocuments(w)
  PROVE  Scope(w)' /\ View(w)' /\ Cols(w)'
  <1> DEFINE t == tx[w]
             k == key(w)
             old == t.collection[k]
             new == DocumentRecords(w, at[w])
  <1>1. t \in Tx /\ k \in Keys
    BY PassedShape DEF TypeInv, TypeOK
  <1>2. /\ tx'[w].inserted = t.inserted /\ tx'[w].loaded = t.loaded /\ tx'[w].assigned = t.assigned
        /\ tx'[w].collection = [t.collection EXCEPT ![k] = new]
        /\ tx'[w].newDocs = (t.newDocs \ (old \ new)) \cup (new \ old)
        /\ tx'[w].deadDocs = t.deadDocs \cup ((old \ new) \cap docs)
    <2>1. tx' = [tx EXCEPT ![w] = [t EXCEPT
                   !.newDocs = (@ \ (old \ new)) \cup (new \ old),
                   !.deadDocs = @ \cup ((old \ new) \cap docs), !.collection[k] = new]]
      <3>1. tx \in [Writers -> Tx]
        BY DEF TypeInv, TypeOK
      <3> QED BY <1>1, <3>1 DEF WriteDocuments, ReplaceDocuments, NewCollection, Tx
    <2> HIDE DEF old, new, k
    <2> QED BY <1>1, <2>1 DEF TypeInv, TypeOK, Tx
  <1>3. (\A d \in new : d.key = k) /\ (\A d \in old : d.key = k)
    BY <1>1, PassedShape DEF DocumentRecords, NewestInv, Stores
  <1>4. InIdentityMap(w, k) /\ k \in KeysOf(batch[w])
    BY PassedShape DEF AtomicInv, Holds, KeysOf, InTx
  <1>5. \A j \in Keys : HasRead(w, j)' <=> HasRead(w, j)
    BY <1>2, PassedShape DEF HasRead, InIdentityMap
  <1>6. \A j \in Keys : j # k => tx'[w].collection[j] = t.collection[j]
    BY <1>1, <1>2 DEF Tx
  <1>7. tx'[w].collection[k] = new
    BY <1>1, <1>2 DEF Tx
  <1> HIDE DEF old, new
  <1>8. \A i \in DOMAIN batch[w] : batch[w][i].key # k => (WrittenLast(w, i)' <=> WrittenLast(w, i))
    BY PassedShape DEF WrittenLast
  <1>9. \A i \in DOMAIN batch[w] : batch[w][i].key = k => (WrittenLast(w, i)' <=> i = at[w])
    <2>1. \A i \in DOMAIN batch[w] : WrittenLast(w, i)' <=>
            i <= at[w] /\ \A j \in DOMAIN batch[w] : j <= at[w] /\ batch[w][j].key = batch[w][i].key => j <= i
      BY PassedShape DEF WrittenLast
    <2> QED BY <2>1, PassedShape
  <1>10. Scope(w)'
    <2>1. \A d \in tx'[w].newDocs : d \in t.newDocs \/ d.key = k
      BY <1>2, <1>3
    <2>2. \A d \in tx'[w].deadDocs : d \in t.deadDocs \/ d.key = k
      BY <1>2, <1>3
    <2>3. \A j \in Keys : ~HasRead(w, j) => j # k
      BY <1>4, PassedShape DEF HasRead
    <2>4. ASSUME NEW j \in Keys, ~HasRead(w, j)
          PROVE  /\ tx'[w].assigned[j] = NoWrite /\ tx'[w].collection[j] = {}
                 /\ \A d \in tx'[w].newDocs \cup tx'[w].deadDocs : d.key # j
      BY <1>2, <1>6, <2>1, <2>2, <2>3, <2>4 DEF Scope
    <2>5. \A i \in DOMAIN batch[w] : Written(w, i)' =>
            \E j \in DOMAIN batch[w] : WrittenLast(w, j)' /\ batch[w][j].key = batch[w][i].key
      <3> SUFFICES ASSUME NEW i \in DOMAIN batch[w], Written(w, i)'
                   PROVE  \E j \in DOMAIN batch[w] : WrittenLast(w, j)' /\ batch[w][j].key = batch[w][i].key
        OBVIOUS
      <3>1. CASE batch[w][i].key = k
        BY <1>9, <3>1, PassedShape
      <3>2. CASE batch[w][i].key # k
        <4>1. Written(w, i)
          BY <3>2, PassedShape
        <4>2. PICK j \in DOMAIN batch[w] : WrittenLast(w, j) /\ batch[w][j].key = batch[w][i].key
          BY <4>1, PassedShape DEF Scope, InTx
        <4> QED BY <1>8, <3>2, <4>2
      <3> QED BY <3>1, <3>2
    <2> QED BY <1>2, <1>4, <1>5, <2>1, <2>4, <2>5, PassedShape DEF Scope
  <1>11. View(w)'
    <2>1. Acts(w) /\ pc[w] # "idle"
      BY PassedShape DEF Acts, Step
    <2>2. ASSUME NEW j \in Keys, AloneTx(w, j)'
          PROVE  /\ tx'[w].loaded[j] # NoRow => \A r \in Committed(j)' : r.cols = tx'[w].loaded[j]
                 /\ HasRead(w, j)' => tx'[w].collection[j] = SessionDocuments(w, j)'
      <3>1. AloneTx(w, j)
        BY <2>1, <2>2, AloneTxBefore
      <3>2. Committed(j)' = Committed(j)
        BY PassedShape DEF Committed
      <3>3. /\ t.loaded[j] # NoRow => \A r \in Committed(j) : r.cols = t.loaded[j]
            /\ HasRead(w, j) => t.collection[j] = SessionDocuments(w, j)
        BY <3>1, PassedShape DEF View, InTx
      <3>4. HasRead(w, j) => tx'[w].collection[j] = SessionDocuments(w, j)'
        <4>1. CASE j = k
          BY <1>2, <1>3, <1>7, <3>3, <4>1, PassedShape DEF SessionDocuments, old
        <4>2. CASE j # k
          BY <1>2, <1>3, <1>6, <3>3, <4>2, PassedShape DEF SessionDocuments
        <4> QED BY <4>1, <4>2
      <3> QED BY <1>2, <1>5, <3>2, <3>3, <3>4
    <2> QED BY <2>2 DEF View
  <1>12. Cols(w)'
    <2>1. ASSUME NEW i \in DOMAIN batch[w], WrittenLast(w, i)'
          PROVE  Current(w, batch[w][i].key) = Content[batch[w][i].ver]
      <3>1. CASE batch[w][i].key = k
        BY <1>9, <2>1, <3>1, PassedShape DEF Cols, InTx, item
      <3>2. CASE batch[w][i].key # k
        BY <1>8, <2>1, <3>2, PassedShape DEF Cols, InTx
      <3> QED BY <3>1, <3>2
    <2>2. \A i : Current(w, batch[w][i].key)' = Current(w, batch[w][i].key)
      <3>1. tx'[w].assigned = tx[w].assigned /\ tx'[w].loaded = tx[w].loaded /\ batch'[w] = batch[w]
        BY <1>2, PassedShape
      <3> QED BY <3>1 DEF Current
    <2> QED BY <2>1, <2>2, PassedShape DEF Cols
  <1> QED BY <1>10, <1>11, <1>12

\* Outside of the transaction there is no session.
LEMMA NoSession ==
  ASSUME NEW w \in Writers, tx'[w] = NoTx, pc'[w] \notin InTx \/ \A i \in DOMAIN batch'[w] : ~Written(w, i)',
         pc'[w] \notin {"insert", "write"}
  PROVE  Scope(w)' /\ View(w)' /\ Cols(w)'
  <1>1. \A k \in Keys : ~HasRead(w, k)' /\ tx'[w].loaded[k] = NoRow
    BY DEF NoTx, HasRead, InIdentityMap
  <1>2. Scope(w)'
    BY DEF Scope, NoTx, InTx, InIdentityMap
  <1> QED BY <1>1, <1>2 DEF View, Cols, WrittenLast

LEMMA SessionNext ==
  ASSUME TypeInv, UniqueInv, AtomicInv, NewestInv, DocOriginInv, NEW w \in Writers, Acts(w),
         Scope(w), View(w), Cols(w)
  PROVE  Scope(w)' /\ View(w)' /\ Cols(w)'
  <1>1. CASE \/ Commit(w) \/ InsertConflict(w) \/ DeadlockAbort(w) \/ Lose(w)
    <2>1. tx'[w] = NoTx /\ pc'[w] \notin InTx
      BY <1>1 DEF Commit, InsertConflict, DeadlockAbort, Lose, Rollback, Goto, InTx, TypeInv, TypeOK
    <2> QED BY <2>1, NoSession DEF InTx
  <1>2. CASE \/ EmbedSkipped(w) \/ DeleteEmbeddings(w) \/ LockEmbeddings(w)
             \/ ReplaceEmbeddings(w) \/ EmbeddingsFail(w)
    <2>1. /\ tx' = tx /\ batch' = batch /\ at' = at /\ pc[w] \notin InTx /\ pc'[w] \notin InTx
      BY <1>2 DEF EmbedSkipped, DeleteEmbeddings, LockEmbeddings, ReplaceEmbeddings, EmbeddingsFail,
                  EndEmbedding, Goto, call, InTx, InEmb, TypeInv, TypeOK
    <2>2. \A k : HasRead(w, k)' <=> HasRead(w, k)
      BY <2>1 DEF HasRead, InIdentityMap, InTx
    <2> QED BY <2>1, <2>2 DEF Scope, View, Cols, InTx
  <1>3. CASE \E b \in Batches[w] : Begin(w, b)
    <2>1. PICK b \in Batches[w] : Begin(w, b)
      BY <1>3
    <2>2. tx'[w] = NoTx /\ at'[w] = 1 /\ pc'[w] \in {"commit", "select"} /\ batch'[w] = b
          /\ (pc'[w] = "commit" => b = <<>>)
      BY <2>1 DEF Begin, Goto, NewestInv, Stores, PositionInv, TypeInv, TypeOK
    <2>3. \A i \in DOMAIN b : i \in Nat \ {0} /\ b # <<>>
      OBVIOUS
    <2>4. \A i \in DOMAIN b : ~Written(w, i)'
      BY <2>2, <2>3 DEF Written
    <2> QED BY <2>2, <2>4, NoSession
  <1> QED BY <1>1, <1>2, <1>3, SelectSerial, DocumentsSerial, InsertSerial, UpdateSerial, WriteSerial DEF Acts, Step

\* What the commit of an undisturbed call leaves of a tender of its batch.
LEMMA CommitWhole ==
  ASSUME TypeInv, UniqueInv, AtomicInv, NewestInv, NEW w \in Writers, Scope(w), View(w), Cols(w),
         Commit(w), NEW k \in Keys, k \in KeysOf(batch[w])
  PROVE  Whole(w, k)'
  <1>1. /\ pc[w] = "commit" /\ batch' = batch /\ Persisted(w)' /\ Acts(w)
        /\ docs' = (docs \ tx[w].deadDocs) \cup tx[w].newDocs
    BY DEF Commit, Goto, Persisted, call, TypeInv, TypeOK, Acts, Step
  <1> SUFFICES ASSUME AloneTx(w, k)'
               PROVE  \E i \in DOMAIN batch[w] :
                        /\ batch[w][i].key = k /\ IsLast(w, i)
                        /\ \A r \in Committed(k)' : r.cols = Content[batch[w][i].ver]
                        /\ DocumentsOf(k)' = DocumentRecords(w, i)
    BY <1>1 DEF Whole, IsLast, DocumentRecords
  <1>2. AloneTx(w, k)
    BY <1>1, AloneTxBefore
  <1>3. PICK i \in DOMAIN batch[w] : WrittenLast(w, i) /\ batch[w][i].key = k
    BY <1>1 DEF Scope, Written, InTx, KeysOf
  <1>4. IsLast(w, i)
    BY <1>1, <1>3 DEF WrittenLast, Written, IsLast
  <1>5. Current(w, k) = Content[batch[w][i].ver]
    BY <1>1, <1>3 DEF Cols, InTx
  <1>6. HasRead(w, k) /\ InIdentityMap(w, k)
    BY <1>1, <1>3 DEF AtomicInv, Holds, HasRead, Written, InTx
  <1>7. tx[w].collection[k] = DocumentRecords(w, i)
    BY <1>1, <1>3 DEF NewestInv, Stores, InTx
  <1>8. DocumentsOf(k)' = DocumentRecords(w, i)
    <2>1. tx[w].collection[k] = SessionDocuments(w, k)
      BY <1>1, <1>2, <1>6 DEF View, InTx
    <2> QED BY <1>1, <1>7, <2>1 DEF SessionDocuments, DocumentsOf
  <1>9. ASSUME NEW s \in Committed(k)' PROVE s.cols = Current(w, k)
    <2>1. s \in rows' /\ s.key = k
      BY DEF Committed
    <2>2. CASE \E r \in rows : s = Overwritten(w, r) /\ s.key = r.key
      <3>1. PICK r \in rows : s = Overwritten(w, r) /\ r.key = k
        BY <2>1, <2>2
      <3>2. r \in Committed(k) /\ r \in Row
        BY <3>1 DEF Committed, TypeInv, TypeOK
      <3>3. tx[w].loaded[k] # NoRow
        BY <1>6, <3>2 DEF UniqueInv, InIdentityMap
      <3>4. r.cols = tx[w].loaded[k]
        BY <1>1, <1>2, <3>2, <3>3 DEF View, InTx
      <3>5. s.cols = [c \in Columns |-> IF tx[w].assigned[k][c] # Keep
                                        THEN tx[w].assigned[k][c] ELSE r.cols[c]]
        BY <3>1, <3>2 DEF Overwritten, Row
      <3> QED BY <3>4, <3>5 DEF Current
    <2>3. CASE \E j \in tx[w].inserted : s = [key |-> j, id |-> w, cols |-> tx[w].assigned[j]]
      <3>1. s.cols = tx[w].assigned[k] /\ k \in tx[w].inserted
        BY <2>1, <2>3
      <3>2. s.cols \in [Columns -> Values]
        BY <3>1 DEF TypeInv, InsertedInv
      <3> QED BY <3>1, <3>2, SentinelAssumption DEF Current
    <2> QED BY <2>1, <2>2, <2>3, CommittedShape
  <1> QED BY <1>3, <1>4, <1>5, <1>8, <1>9

LEMMA WholeNext ==
  ASSUME TypeInv, UniqueInv, AtomicInv, NewestInv, NEW w \in Writers, Scope(w), View(w), Cols(w),
         Acts(w), WholeInv
  PROVE  WholeInv'
  <1>1. ASSUME NEW k \in Keys, lastWriter[k] # NoWriter, Commit(w) => k \notin KeysOf(batch[w])
        PROVE  \A v \in Writers : v = lastWriter[k] => Whole(v, k)'
    <2> SUFFICES ASSUME NEW v \in Writers, v = lastWriter[k] PROVE Whole(v, k)'
      OBVIOUS
    <2>1. Whole(v, k)
      BY <1>1 DEF WholeInv
    <2>2. Persisted(v)' /\ batch'[v] = batch[v]
      BY <2>1, PersistedFrame DEF Whole
    <2>3. Committed(k)' = Committed(k) /\ DocumentsOf(k)' = DocumentsOf(k)
      BY <1>1, OthersKept
    <2>4. AloneTx(v, k)' => AloneTx(v, k)
      BY <2>1, AloneTxBefore DEF Whole, Persisted, InEmb
    <2>5. \A i : IsLast(v, i)' = IsLast(v, i) /\ DocumentRecords(v, i)' = DocumentRecords(v, i)
      BY <2>2 DEF IsLast, DocumentRecords
    <2> QED BY <2>1, <2>2, <2>3, <2>4, <2>5 DEF Whole
  <1>2. \A k \in Keys : lastWriter[k] \in Writers \cup {NoWriter}
    BY DEF TypeInv, TypeOK
  <1>3. CASE Commit(w)
    <2>1. lastWriter' = [k \in Keys |-> IF k \in KeysOf(batch[w]) THEN w ELSE lastWriter[k]]
      BY <1>3 DEF Commit
    <2> SUFFICES ASSUME NEW k \in Keys, lastWriter'[k] # NoWriter
                 PROVE  \E v \in Writers : v = lastWriter'[k] /\ Whole(v, k)'
      BY DEF WholeInv
    <2>2. CASE k \in KeysOf(batch[w])
      BY <1>3, <2>1, <2>2, CommitWhole
    <2>3. CASE k \notin KeysOf(batch[w])
      BY <1>1, <1>2, <2>1, <2>3
    <2> QED BY <2>2, <2>3
  <1>4. CASE ~Commit(w)
    <2>1. lastWriter' = lastWriter
      BY <1>4, DocumentsFrame
    <2> SUFFICES ASSUME NEW k \in Keys, lastWriter'[k] # NoWriter
                 PROVE  \E v \in Writers : v = lastWriter'[k] /\ Whole(v, k)'
      BY DEF WholeInv
    <2> QED BY <1>1, <1>2, <1>4, <2>1
  <1> QED BY <1>3, <1>4

\* One row per link.
LEMMA RecordsCounted ==
  ASSUME TypeInv, NEW w \in Writers, NEW i \in DOMAIN batch[w]
  PROVE  LET records == DocumentRecords(w, i)
             links   == Links[batch[w][i].ver]
         IN  {d.url : d \in records} = links /\ Cardinality(records) = Cardinality(links)
  <1> DEFINE records == DocumentRecords(w, i)
             links == Links[batch[w][i].ver]
             R(u) == [key |-> batch[w][i].key, url |-> u, by |-> w, at |-> i]
             f == [u \in links |-> R(u)]
  <1>1. records = {R(u) : u \in links}
    BY DEF DocumentRecords
  <1>2. links \in SUBSET Urls
    BY BatchTyped DEF Item
  <1>3. IsFiniteSet(links)
    BY <1>2, FiniteAssumption, FS_Subset
  <1>4. f \in Bijection(links, records)
    BY <1>1 DEF Bijection, Injection, Surjection, IsInjective
  <1>5. Cardinality(records) = Cardinality(links)
    BY <1>3, <1>4, FS_Bijection DEF ExistsBijection
  <1>6. {d.url : d \in records} = links
    <2>1. \A u \in links : R(u) \in records /\ R(u).url = u
      BY <1>1
    <2>2. \A d \in records : d.url \in links
      BY <1>1
    <2> HIDE DEF R, records, links
    <2> QED BY <2>1, <2>2
  <1> QED BY <1>5, <1>6

\* A call beside which no other one stored a tender leaves the tender and its
\* documents exactly as the last snapshot of its batch has them.
THEOREM SerialUpserts == Spec => []SerialUpsertIsWhole
  <1>1. Init => UniqueInv /\ AtomicInv /\ NewestInv
    BY SentinelAssumption DEF Init, UniqueInv, OneRowPerTender, Committed, AtomicInv, BatchAtomic, Holds,
                              Persisted, InTx, NoTx, InEmb, NewestInv, NewestDocumentsPresent, Stores
  <1>2. Init => SerialInv
    BY DEF Init, SerialInv, MeetTxInv, DocOriginInv, Scope, View, Cols, WholeInv, HasRead, InIdentityMap,
           NoTx, InTx, KeysOf
  <1>3. TypeInv /\ UniqueInv /\ AtomicInv /\ NewestInv /\ SerialInv /\ [Next]_vars
        => UniqueInv' /\ AtomicInv' /\ NewestInv' /\ SerialInv'
    <2>1. UNCHANGED vars /\ UniqueInv /\ AtomicInv /\ NewestInv => UniqueInv' /\ AtomicInv' /\ NewestInv'
      BY AtomicStutter, NewestStutter DEF vars, tables, UniqueInv, OneRowPerTender, Committed
    <2>2. UNCHANGED vars /\ SerialInv => SerialInv'
      <3> SUFFICES ASSUME UNCHANGED vars, SerialInv PROVE SerialInv'
        OBVIOUS
      <3> USE DEF vars, tables, call, history
      <3>1. MeetTxInv' /\ DocOriginInv'
        BY DEF SerialInv, MeetTxInv, DocOriginInv
      <3>2. \A w \in Writers : Scope(w)'
        BY DEF SerialInv, Scope, HasRead, InIdentityMap, Written, WrittenLast, key, item
      <3>3. \A w \in Writers : View(w)'
        BY DEF SerialInv, View, AloneTx, Persisted, Committed, HasRead, InIdentityMap, SessionDocuments, key, item
      <3>4. \A w \in Writers : Cols(w)'
        <4>1. \A w, k : Current(w, k)' = Current(w, k)
          BY DEF Current
        <4>2. \A w : key(w)' = key(w) /\ item(w)' = item(w)
          BY DEF key, item
        <4>3. \A w, i : WrittenLast(w, i)' <=> WrittenLast(w, i)
          BY DEF WrittenLast, Written
        <4> QED BY <4>1, <4>2, <4>3 DEF SerialInv, Cols
      <3>5. WholeInv'
        <4>1. \A w, k : AloneTx(w, k)' <=> AloneTx(w, k)
          BY DEF AloneTx, Persisted
        <4>2. \A k : Committed(k)' = Committed(k) /\ DocumentsOf(k)' = DocumentsOf(k)
          BY DEF Committed, DocumentsOf
        <4>3. \A w, i : DocumentRecords(w, i)' = DocumentRecords(w, i) /\ (IsLast(w, i)' <=> IsLast(w, i))
          BY DEF DocumentRecords, IsLast
        <4>4. \A w : Persisted(w)' <=> Persisted(w)
          BY DEF Persisted
        <4>5. \A w, k : Whole(w, k) => Whole(w, k)'
          BY <4>1, <4>2, <4>3, <4>4 DEF Whole
        <4> QED BY <4>5 DEF SerialInv, WholeInv
      <3> QED BY <3>1, <3>2, <3>3, <3>4, <3>5 DEF SerialInv
    <2>3. ASSUME TypeInv, UniqueInv, AtomicInv, NewestInv, SerialInv, Next
          PROVE  UniqueInv' /\ AtomicInv' /\ NewestInv' /\ SerialInv'
      <3>1. PICK w \in Writers : Acts(w)
        BY <2>3 DEF Next, Acts
      <3>2. UniqueInv' /\ AtomicInv' /\ NewestInv'
        BY <2>3, <3>1, UniqueNext, AtomicNext, NewestNext
      <3>3. \A u \in Writers : Scope(u) /\ View(u) /\ Cols(u)
        BY <2>3 DEF SerialInv
      <3>4. MeetTxInv' /\ DocOriginInv'
        BY <2>3, <3>1, <3>3, MeetTxNext, DocOriginNext DEF SerialInv
      <3>5. \A u \in Writers : Scope(u)' /\ View(u)' /\ Cols(u)'
        BY <2>3, <3>1, <3>3, SessionNext, OtherSession DEF SerialInv
      <3>6. WholeInv'
        BY <2>3, <3>1, <3>3, WholeNext DEF SerialInv
      <3> QED BY <3>2, <3>4, <3>5, <3>6 DEF SerialInv
    <2> QED BY <2>1, <2>2, <2>3
  <1>4. TypeInv /\ SerialInv => SerialUpsertIsWhole
    <2> SUFFICES ASSUME TypeInv, SerialInv, NEW k \in Keys, NEW w \in Writers, w = lastWriter[k],
                        w # NoWriter, AloneTx(w, k)
                 PROVE  /\ \A r \in Committed(k) : r.cols = Content[LastVersion(w, k)]
                        /\ {d.url : d \in DocumentsOf(k)} = Links[LastVersion(w, k)]
                        /\ Cardinality(DocumentsOf(k)) = Cardinality(Links[LastVersion(w, k)])
      BY DEF SerialUpsertIsWhole, AloneTx, TypeInv, TypeOK
    <2>1. PICK i \in DOMAIN batch[w] :
            /\ batch[w][i].key = k /\ IsLast(w, i)
            /\ \A r \in Committed(k) : r.cols = Content[batch[w][i].ver]
            /\ DocumentsOf(k) = DocumentRecords(w, i)
      BY DEF SerialInv, WholeInv, Whole
    <2>2. LastVersion(w, k) = batch[w][i].ver
      <3>1. \A j \in DOMAIN batch[w] : j \in Nat
        BY BatchTyped
      <3>2. \A j \in DOMAIN batch[w] : batch[w][j].key = k /\ IsLast(w, j) => j = i
        BY <2>1, <3>1 DEF IsLast
      <3> QED BY <2>1, <3>2 DEF LastVersion
    <2> QED BY <2>1, <2>2, RecordsCounted
  <1> QED BY TypeInit, TypeNext, <1>1, <1>2, <1>3, <1>4, PTL DEF Spec

=============================================================================
