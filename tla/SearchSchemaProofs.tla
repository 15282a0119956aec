------------------------- MODULE SearchSchemaProofs -------------------------
(***************************************************************************)
(* The schema and its revision agree, and semantic search sees every       *)
(* embedding, for any operators, embedders, commands and bounds.           *)
(***************************************************************************)
EXTENDS SearchSchema, TLAPS

Objects  == (UNION {Creates[r] : r \in Revisions}) \cup {Shadow, Bm25Index}
Special  == {Shadow, Bm25Index}
plain(d) == d.objects \ Special

\* A view of the database; the rows of tenders are whatever they are.
Database(d) ==
  d \in [version : 0..7, objects : SUBSET Objects, extensions : SUBSET Offers, stored : {d.stored},
         embedded : [Tenders -> {"none", "plain", "searchable"}], required : BOOLEAN, astray : BOOLEAN, failed : BOOLEAN]

\* The shadow column and the BM25 index are there with their tables, the column with its type.
Rooted(d) ==
  /\ Has(d, Shadow) => Has(d, "tender_embeddings") /\ "vector" \in d.extensions
  /\ Has(d, Bm25Index) => Has(d, "tenders")

\* What holds of every schema, astray or not.
Steady(d) == Searchable(d) /\ (d.required => Bm25Available(d)) /\ Rooted(d)

\* What is to be shown of the committed database and of the view of a transaction
\* that has not failed.
Sound(d) == Database(d) /\ (~d.failed => Steady(d) /\ (~d.astray => Matches(d)))

\* The view of a transaction: upgrades and downgrades lead nothing astray.
View(d) == Sound(d) /\ d.astray = db.astray

SchemaInv ==
  /\ host \subseteq Offers
  /\ proc \in [Operators -> {Idle} \cup [pc : {"read"}, cmd : Commands, seen : 0..7]]
  /\ Sound(db) /\ db.failed = FALSE

(***************************************************************************)
(* What the revisions create.                                              *)
(***************************************************************************)
\* No two revisions create the same object, and none creates what is conditional.
LEMMA CreatesApart ==
  /\ \A r \in Revisions : Creates[r] \cap Special = {} /\ Creates[r] \subseteq Objects
  /\ \A r, s \in Revisions : r # s => Creates[r] \cap Creates[s] = {}
  /\ \A r \in Revisions : Omitted \in Creates[r] => r = 2
<1>1. Revisions = {1, 2, 3, 4, 5, 6, 7}
  BY DEF Revisions
<1>2. /\ Creates[1] = Baseline /\ Creates[2] = Fts /\ Creates[3] = Scheduling /\ Creates[4] = Parsing
      /\ Creates[5] = Auditing /\ Creates[6] = {} /\ Creates[7] = {}
  BY DEF Creates
<1>3. \A r \in Revisions : Creates[r] \subseteq Objects
  BY DEF Objects
<1>4. \A S \in {Baseline, Fts, Scheduling, Parsing, Auditing} : S \cap Special = {} /\ (Omitted \in S => S = Fts)
  BY DEF Baseline, Fts, Scheduling, Parsing, Auditing, Special, Shadow, Bm25Index, Omitted
<1>5. /\ Baseline \cap Fts = {} /\ Baseline \cap Scheduling = {} /\ Baseline \cap Parsing = {}
      /\ Baseline \cap Auditing = {} /\ Fts \cap Scheduling = {} /\ Fts \cap Parsing = {} /\ Fts \cap Auditing = {}
      /\ Scheduling \cap Parsing = {} /\ Scheduling \cap Auditing = {} /\ Parsing \cap Auditing = {}
  BY DEF Baseline, Fts, Scheduling, Parsing, Auditing
<1>6. Omitted \notin Baseline /\ Omitted \notin Scheduling /\ Omitted \notin Parsing /\ Omitted \notin Auditing
  BY DEF Baseline, Scheduling, Parsing, Auditing, Omitted
<1>7. \A r \in Revisions : Creates[r] \cap Special = {} /\ (Omitted \in Creates[r] => r = 2)
  BY <1>1, <1>2, <1>4, <1>6
<1>8. \A r, s \in Revisions : r # s => Creates[r] \cap Creates[s] = {}
  BY <1>1, <1>2, <1>5
<1> QED BY <1>3, <1>7, <1>8

\* A revision adds its objects to those of the revisions before it.
LEMMA MadeStep ==
  /\ Made(0) = {}
  /\ \A v \in 0..7 : Made(v) \cap Special = {}
  /\ \A r \in Revisions : Made(r) = Made(r - 1) \cup Creates[r] /\ Made(r) \ Creates[r] = Made(r - 1)
<1>1. \A r \in Revisions : 1..r = (1..(r - 1)) \cup {r} /\ r \notin 1..(r - 1) /\ 1..r \subseteq Revisions
  BY DEF Revisions
<1>2. Made(0) = {}
  BY DEF Made
<1>3. \A v \in 0..7 : Made(v) \cap Special = {}
  <2>1. \A v \in 0..7 : 1..v \subseteq Revisions
    BY DEF Revisions
  <2> QED BY <2>1, CreatesApart DEF Made
<1>4. \A r \in Revisions : Made(r) = Made(r - 1) \cup Creates[r]
  BY <1>1 DEF Made
<1>5. \A r \in Revisions : Made(r - 1) \cap Creates[r] = {}
  <2>1. ASSUME NEW r \in Revisions, NEW x \in Made(r - 1), x \in Creates[r] PROVE FALSE
    <3>1. PICK s \in 1..(r - 1) : x \in Creates[s]
      BY DEF Made
    <3>2. s \in Revisions /\ s # r
      BY <1>1
    <3> QED BY <2>1, <3>1, <3>2, CreatesApart
  <2> QED BY <2>1
<1> QED BY <1>2, <1>3, <1>4, <1>5

\* The revisions after the first leave the tables of the baseline alone, and add to them
\* what goes with them.
LEMMA BaselineObjects ==
  /\ {"tenders", "tender_embeddings"} \subseteq Creates[1] /\ {"tenders", "tender_embeddings"} \cap Columns = {}
  /\ "tenders" \in Strict(1) /\ "tender_embeddings" \in Strict(1)
  /\ Creates[1] = Baseline /\ Omitted \notin Baseline
  /\ \A r \in Revisions : r # 1 => Creates[r] \cap {"tenders", "tender_embeddings"} = {}
  /\ Shadow \in Added /\ Bm25Index \in Added
<1>1. 1 \in Revisions /\ Creates[1] = Baseline
  BY DEF Revisions, Creates
<1>2. {"tenders", "tender_embeddings"} \subseteq Baseline /\ Omitted \notin Baseline
  BY DEF Baseline, Omitted
<1>3. \A r \in Revisions : r # 1 => Creates[r] \cap {"tenders", "tender_embeddings"} = {}
  BY <1>1, <1>2, CreatesApart
<1>4. "tenders" \in Strict(1) /\ "tender_embeddings" \in Strict(1)
  BY <1>1, <1>2 DEF Strict
<1> QED BY <1>1, <1>2, <1>3, <1>4 DEF Columns, Added

\* create_all makes objects of the revisions, the tables of the baseline among them.
LEMMA CreateAllMakes ==
  ASSUME NEW d
  PROVE  /\ CreateAll(d) \cup {"search_vector"} \subseteq Objects
         /\ (CreateAll(d) \cup {"search_vector"}) \cap Special = {}
         /\ {"tenders", "tender_embeddings"} \subseteq CreateAll(d)
<1> DEFINE all == UNION {Creates[r] : r \in Revisions}
<1>1. 1 \in Revisions /\ 2 \in Revisions /\ "search_vector" \in Creates[2]
  BY DEF Revisions, Creates, Fts
<1>2. all \cap Special = {} /\ all \subseteq Objects /\ "search_vector" \in all
  BY <1>1, CreatesApart DEF Objects
<1>3. {"tenders", "tender_embeddings"} \subseteq all
  BY <1>1, BaselineObjects
<1>4. CreateAll(d) \in {all \ {"search_vector", Omitted},
                        (all \ {"search_vector", Omitted}) \ Columns}
  BY DEF CreateAll, Omitted
<1> HIDE DEF all
<1> QED BY <1>2, <1>3, <1>4, BaselineObjects

\* What create_all makes of nothing, and that it makes nothing else.
LEMMA CreateAllWhole ==
  ASSUME NEW d
  PROVE  LET made == CreateAll(d) \cup {"search_vector"} IN
         /\ d.objects = {} => made = Made(7) \ {Omitted}
         /\ made \subseteq Made(7) \ {Omitted}
         /\ Made(7) \subseteq Objects /\ Made(7) \cap Special = {}
         /\ "daily_jobs.cron" \in Made(7) \ {Omitted} /\ "daily_jobs.cron" \notin Baseline
<1> DEFINE all == UNION {Creates[r] : r \in Revisions}
<1>1. all = Made(7)
  BY DEF Made, Revisions
<1>2. 2 \in Revisions /\ 3 \in Revisions /\ "search_vector" \in Creates[2] /\ "daily_jobs.cron" \in Creates[3]
  BY DEF Revisions, Creates, Fts, Scheduling
<1>3. all \cap Special = {} /\ all \subseteq Objects /\ {"search_vector", "daily_jobs.cron"} \subseteq all
  BY <1>2, CreatesApart DEF Objects
<1>4. CreateAll(d) = IF Has(d, "tenders") THEN (all \ {"search_vector", Omitted}) \ Columns ELSE all \ {"search_vector", Omitted}
  BY DEF CreateAll, Omitted
<1>5. "search_vector" # Omitted /\ "daily_jobs.cron" # Omitted /\ "daily_jobs.cron" \notin Baseline
  BY DEF Omitted, Baseline
<1>6. d.objects = {} => ~Has(d, "tenders")
  BY DEF Has
<1> HIDE DEF all
<1> QED BY <1>1, <1>3, <1>4, <1>5, <1>6

(***************************************************************************)
(* The steps of an upgrade.                                                *)
(***************************************************************************)
\* What a revision finds where it may run: the revisions before it and nothing else.
LEMMA UpFinds ==
  ASSUME NEW d, Matches(d), Rooted(d), NEW r \in Revisions, d.version = r - 1, d.objects \cap Strict(r) = {}
  PROVE  /\ plain(d) \in {Made(r - 1), Made(r - 1) \ {Omitted}}
         /\ Shadow \in d.objects => r = 7
         /\ Bm25Index \notin d.objects
<1>1. PICK whole \in Described(r - 1) : plain(d) \in {whole, whole \ {Omitted}}
  BY DEF Matches, plain, Special, Omitted
<1>2. (Shadow \in d.objects => r - 1 \in {0, 6, 7}) /\ (Bm25Index \in d.objects => r - 1 \in {0, 7})
  BY DEF Matches, Has
<1>3. CASE r = 1
  <2>1. "tenders" \notin d.objects /\ "tender_embeddings" \notin d.objects
    BY <1>3, BaselineObjects
  <2>2. Shadow \notin d.objects /\ Bm25Index \notin d.objects
    BY <2>1 DEF Rooted, Has
  <2>3. whole \in {{}, Baseline, Made(7)}
    BY <1>1, <1>3 DEF Described
  <2>4. "tenders" \in Baseline /\ "tenders" \in Made(7) /\ "tenders" # Omitted
    <3>1. "tenders" \in Baseline /\ Creates[1] = Baseline /\ Omitted \notin Baseline
      BY BaselineObjects
    <3> QED BY <3>1 DEF Made
  <2>5. "tenders" \notin plain(d)
    BY <2>1 DEF plain
  <2>6. whole = {}
    BY <1>1, <2>3, <2>4, <2>5
  <2>7. Made(r - 1) = {}
    BY <1>3, MadeStep
  <2> QED BY <1>1, <2>2, <2>6, <2>7
<1>4. CASE r # 1
  <2>1. r - 1 # 0 /\ r - 1 # 7 /\ (r - 1 = 6 => r = 7)
    BY <1>4 DEF Revisions
  <2>2. whole = Made(r - 1)
    BY <1>1, <2>1 DEF Described
  <2> QED BY <1>1, <1>2, <2>1, <2>2
<1> QED BY <1>3, <1>4

\* An extension is created if the server has it.
LEMMA ExtendFields ==
  ASSUME NEW d, Database(d), NEW x \in Offers
  PROVE  /\ Database(Extend(d, x)) /\ Extend(d, x).extensions = d.extensions \cup ({x} \cap host)
         /\ Extend(d, x).version = d.version /\ Extend(d, x).objects = d.objects
         /\ Extend(d, x).embedded = d.embedded /\ Extend(d, x).required = d.required
         /\ Extend(d, x).failed = d.failed /\ Extend(d, x).astray = d.astray
BY DEF Extend, Database

\* The shadow column is added and filled where the extension is.
LEMMA EnsureVectorFields ==
  ASSUME NEW d, Database(d)
  PROVE  LET e == EnsureVector(d) IN
         /\ Database(e) /\ e.version = d.version /\ e.extensions = d.extensions
         /\ e.objects = IF "vector" \in d.extensions THEN d.objects \cup {Shadow} ELSE d.objects
         /\ e.required = d.required /\ e.failed = d.failed /\ e.astray = d.astray /\ Searchable(e)
<1> DEFINE e == EnsureVector(d)
           filled == [t \in Tenders |-> IF d.embedded[t] = "plain" THEN "searchable" ELSE d.embedded[t]]
<1>1. CASE "vector" \in d.extensions
  <2>1. e = [d EXCEPT !.objects = @ \cup {Shadow}, !.embedded = filled]
    BY <1>1 DEF EnsureVector
  <2>2. filled \in [Tenders -> {"none", "plain", "searchable"}] /\ \A t \in Tenders : filled[t] # "plain"
    BY DEF Database
  <2>3. Shadow \in Objects
    BY DEF Objects
  <2> HIDE DEF filled, e
  <2>4. /\ e.objects = d.objects \cup {Shadow} /\ e.embedded = filled /\ e.version = d.version
        /\ e.extensions = d.extensions /\ e.required = d.required /\ e.failed = d.failed
        /\ e.astray = d.astray /\ Database(e)
    BY <2>1, <2>2, <2>3 DEF Database
  <2>5. Searchable(e)
    BY <2>2, <2>4 DEF Searchable
  <2> QED BY <1>1, <2>4, <2>5 DEF e
<1>2. CASE "vector" \notin d.extensions
  BY <1>2 DEF EnsureVector, Searchable, EmbeddingVectorAvailable
<1> QED BY <1>1, <1>2

\* What is done for BM25: the extension is there or added, the index with it, and what is
\* required is available.
Ranks(d, e) ==
  /\ Database(e) /\ (d.failed => e.failed) /\ e.astray = d.astray
  /\ ~e.failed => /\ e.version = d.version /\ e.embedded = d.embedded
                  /\ e.extensions \in {d.extensions, d.extensions \cup {"pg_textsearch"}}
                  /\ e.objects \in {d.objects, d.objects \cup {Bm25Index}}
                  /\ e.objects # d.objects => "pg_textsearch" \in host
                  /\ e.required => d.required \/ Bm25Available(e)

\* The extension and the index of BM25 come together or, under fts, not at all.
LEMMA RequireBm25Fields ==
  ASSUME NEW d, Database(d), NEW backend, host \subseteq Offers
  PROVE  Ranks(d, RequireBm25(d, backend))
<1> DEFINE x == Extend(d, "pg_textsearch")
           w == WithBm25(d)
           e == RequireBm25(d, backend)
<1>1. /\ Database(x) /\ x.extensions = d.extensions \cup ({"pg_textsearch"} \cap host) /\ x.version = d.version
      /\ x.objects = d.objects /\ x.embedded = d.embedded /\ x.required = d.required /\ x.failed = d.failed
      /\ x.astray = d.astray
  BY ExtendFields DEF Offers
<1>2. Bm25Index \in Objects
  BY DEF Objects
<1>3. /\ Database(w) /\ w.extensions = x.extensions /\ w.version = d.version /\ w.objects = d.objects \cup {Bm25Index}
      /\ w.embedded = d.embedded /\ w.required = d.required /\ w.failed = d.failed /\ w.astray = d.astray
  <2> HIDE DEF x
  <2>1. w = [x EXCEPT !.objects = @ \cup {Bm25Index}]
    BY DEF WithBm25, x
  <2> HIDE DEF w
  <2> QED BY <1>1, <1>2, <2>1 DEF Database
<1>4. Database(Fail(d)) /\ Fail(d).failed = TRUE /\ Fail(d).astray = d.astray
  BY DEF Fail, Database
<1>5. CASE backend = "fts" /\ Bm25Offered
  <2>1. e = w
    BY <1>5 DEF RequireBm25, TryBm25
  <2>2. "pg_textsearch" \in host
    BY <1>5 DEF Bm25Offered
  <2> HIDE DEF e, w, x
  <2> QED BY <1>1, <1>3, <2>1, <2>2 DEF e, Ranks
<1>6. CASE backend = "fts" /\ ~Bm25Offered
  <2>1. e = d
    BY <1>6 DEF RequireBm25, TryBm25
  <2> HIDE DEF e, w, x
  <2> QED BY <2>1 DEF e, Ranks
<1>7. CASE backend # "fts" /\ Bm25Offered
  <2>1. e = [w EXCEPT !.required = TRUE]
    BY <1>7 DEF RequireBm25
  <2>2. "pg_textsearch" \in host
    BY <1>7 DEF Bm25Offered
  <2> HIDE DEF e, w, x
  <2>3. /\ Database(e) /\ e.extensions = w.extensions /\ e.version = w.version /\ e.objects = w.objects
        /\ e.embedded = w.embedded /\ e.failed = w.failed /\ e.astray = w.astray
    BY <1>3, <2>1 DEF Database
  <2>4. Bm25Available(e)
    BY <1>1, <1>3, <2>2, <2>3 DEF Bm25Available, Has
  <2> QED BY <1>1, <1>3, <2>2, <2>3, <2>4 DEF e, Ranks
<1>8. CASE backend # "fts" /\ ~Bm25Offered
  <2>1. e = Fail(d)
    BY <1>8 DEF RequireBm25
  <2> HIDE DEF e
  <2> QED BY <1>4, <2>1 DEF e, Ranks
<1> QED BY <1>5, <1>6, <1>7, <1>8

\* What holds of every schema holds of what a revision makes of it, which is the objects
\* it creates and the column and the index of their revisions.
LEMMA BodySteady ==
  ASSUME NEW d, Database(d), Steady(d), NEW r \in Revisions, NEW backend, host \subseteq Offers,
         Alters(d, r) \subseteq d.objects
  PROVE  LET b == Body(d, r, backend) IN
         /\ Database(b) /\ b.astray = d.astray /\ (d.failed => b.failed)
         /\ ~b.failed => /\ Steady(b) /\ plain(b) = plain(d) \cup Creates[r]
                         /\ Shadow \in b.objects => Shadow \in d.objects \/ r = 6
                         /\ Bm25Index \in b.objects => Bm25Index \in d.objects \/ r = 7
<1> DEFINE created == [d EXCEPT !.objects = @ \cup Creates[r]]
           b == Body(d, r, backend)
<1>1. /\ Database(created) /\ created.objects = d.objects \cup Creates[r] /\ created.version = d.version
      /\ created.extensions = d.extensions /\ created.embedded = d.embedded
      /\ created.required = d.required /\ created.failed = d.failed /\ created.astray = d.astray
  BY CreatesApart DEF Database
<1>2. Creates[r] \cap Special = {}
  BY CreatesApart
<1>3. Searchable(d) /\ (d.required => Bm25Available(d)) /\ Rooted(d)
  BY DEF Steady
<1>4. b = CASE r = 2 -> Extend(created, "vector")
            [] r = 6 -> EnsureVector(created)
            [] r = 7 -> RequireBm25(created, backend)
            [] OTHER -> created
  BY DEF Body
<1> HIDE DEF created, b
<1>5. plain(created) = plain(d) \cup Creates[r] /\ (created.objects \cap Special = d.objects \cap Special)
  BY <1>1, <1>2 DEF plain
<1>6. /\ Steady(created)
      /\ Shadow \in created.objects <=> Shadow \in d.objects
      /\ Bm25Index \in created.objects <=> Bm25Index \in d.objects
  <2>1. /\ Shadow \in created.objects <=> Shadow \in d.objects
        /\ Bm25Index \in created.objects <=> Bm25Index \in d.objects
    BY <1>5 DEF Special
  <2> QED BY <1>1, <1>3, <2>1 DEF Steady, Searchable, EmbeddingVectorAvailable, Bm25Available, Rooted, Has
<1>7. CASE r = 2
  <2>1. b = Extend(created, "vector")
    BY <1>4, <1>7
  <2>2. /\ Database(b) /\ b.objects = created.objects /\ b.extensions = created.extensions \cup ({"vector"} \cap host)
        /\ b.embedded = created.embedded /\ b.required = created.required /\ b.failed = created.failed
        /\ b.astray = created.astray
    BY <1>1, <2>1, ExtendFields DEF Offers
  <2>3. Steady(b)
    BY <1>6, <2>2 DEF Steady, Searchable, EmbeddingVectorAvailable, Bm25Available, Rooted, Has
  <2> QED BY <1>1, <1>5, <1>6, <2>2, <2>3 DEF b, plain
<1>8. CASE r = 6
  <2>1. b = EnsureVector(created)
    BY <1>4, <1>8
  <2>2. /\ Database(b) /\ b.extensions = created.extensions
        /\ b.objects = IF "vector" \in created.extensions THEN created.objects \cup {Shadow} ELSE created.objects
        /\ b.required = created.required /\ b.failed = created.failed /\ b.astray = created.astray /\ Searchable(b)
    BY <1>1, <2>1, EnsureVectorFields
  <2>3. "vector" \in created.extensions => "tender_embeddings" \in created.objects
    BY <1>1, <1>8 DEF Alters
  <2>4. Rooted(b)
    BY <1>6, <2>2, <2>3 DEF Steady, Rooted, Has, Shadow, Bm25Index
  <2>5. b.required => Bm25Available(b)
    BY <1>6, <2>2 DEF Steady, Bm25Available, Has
  <2>6. plain(b) = plain(created) /\ (Bm25Index \in b.objects => Bm25Index \in created.objects)
    BY <2>2 DEF plain, Special, Shadow, Bm25Index
  <2> QED BY <1>1, <1>5, <1>6, <1>8, <2>2, <2>4, <2>5, <2>6 DEF b, Steady
<1>9. CASE r = 7
  <2>1. b = RequireBm25(created, backend)
    BY <1>4, <1>9
  <2>2. Ranks(created, b)
    BY <1>1, <2>1, RequireBm25Fields
  <2>3. "pg_textsearch" \in host => "tenders" \in created.objects
    BY <1>1, <1>9 DEF Alters
  <2>4. ~b.failed => Rooted(b)
    BY <1>6, <2>2, <2>3 DEF Ranks, Steady, Rooted, Has, Shadow, Bm25Index
  <2>5. ~b.failed => Searchable(b) /\ (b.required => Bm25Available(b))
    BY <1>6, <2>2 DEF Ranks, Steady, Searchable, EmbeddingVectorAvailable, Bm25Available, Has, Shadow, Bm25Index
  <2>6. ~b.failed => plain(b) = plain(created) /\ (Shadow \in b.objects => Shadow \in created.objects)
    BY <2>2 DEF Ranks, plain, Special, Shadow, Bm25Index
  <2> QED BY <1>1, <1>5, <1>6, <1>9, <2>2, <2>4, <2>5, <2>6 DEF b, Steady, Ranks
<1>10. CASE r \notin {2, 6, 7}
  <2>1. b = created
    BY <1>4, <1>10
  <2> QED BY <1>1, <1>5, <1>6, <2>1 DEF b
<1> QED BY <1>7, <1>8, <1>9, <1>10

\* A revision keeps the schema and its number together.
LEMMA UpSound ==
  ASSUME NEW d, Sound(d), NEW r \in Revisions, NEW backend, host \subseteq Offers
  PROVE  Sound(Up(d, r, backend)) /\ Up(d, r, backend).astray = d.astray
<1> DEFINE u == Up(d, r, backend)
           b == Body(d, r, backend)
<1>1. Database(Fail(d)) /\ Fail(d).failed = TRUE /\ Fail(d).astray = d.astray /\ Database(d)
  BY DEF Fail, Sound, Database
<1>2. CASE d.failed \/ d.version # r - 1 \/ d.objects \cap Strict(r) # {} \/ ~ Alters(d, r) \subseteq d.objects
  <2>1. u = Fail(d)
    BY <1>2 DEF Up
  <2> HIDE DEF u
  <2> QED BY <1>1, <2>1 DEF Sound, u
<1>3. CASE ~(d.failed \/ d.version # r - 1 \/ d.objects \cap Strict(r) # {} \/ ~ Alters(d, r) \subseteq d.objects)
  <2>1. u = [b EXCEPT !.version = r]
    BY <1>3 DEF Up
  <2>2. /\ Database(b) /\ b.astray = d.astray
        /\ ~b.failed => /\ Steady(b) /\ plain(b) = plain(d) \cup Creates[r]
                        /\ Shadow \in b.objects => Shadow \in d.objects \/ r = 6
                        /\ Bm25Index \in b.objects => Bm25Index \in d.objects \/ r = 7
    BY <1>1, <1>3, BodySteady DEF Sound
  <2> HIDE DEF b, u
  <2>3. /\ Database(u) /\ u.version = r /\ u.objects = b.objects /\ u.extensions = b.extensions
        /\ u.embedded = b.embedded /\ u.required = b.required /\ u.failed = b.failed /\ u.astray = b.astray
    BY <2>1, <2>2 DEF Database, Revisions
  <2>4. ~u.failed => Steady(u)
    BY <2>2, <2>3 DEF Steady, Searchable, EmbeddingVectorAvailable, Bm25Available, Rooted, Has
  <2>5. ASSUME ~u.failed, ~u.astray PROVE Matches(u)
    <3>1. Matches(d) /\ Rooted(d)
      BY <1>3, <2>2, <2>3, <2>5 DEF Sound, Steady
    <3>2. /\ plain(d) \in {Made(r - 1), Made(r - 1) \ {Omitted}} /\ (Shadow \in d.objects => r = 7)
          /\ Bm25Index \notin d.objects
      BY <1>3, <3>1, UpFinds
    <3>3. plain(d) \cup Creates[r] \in {Made(r), Made(r) \ {Omitted}}
      BY <3>2, MadeStep
    <3>4. plain(u) \in {Made(r), Made(r) \ {Omitted}}
      BY <2>2, <2>3, <2>5, <3>3 DEF plain
    <3>5. (Has(u, Shadow) => r \in {6, 7}) /\ (Has(u, Bm25Index) => r = 7)
      BY <2>2, <2>3, <2>5, <3>2 DEF Has
    <3>6. Made(r) \in Described(u.version)
      BY <2>3 DEF Described, Revisions
    <3> QED BY <2>3, <3>4, <3>5, <3>6 DEF Matches, plain, Special, Omitted
  <2> QED BY <2>2, <2>3, <2>4, <2>5 DEF Sound, u
<1> QED BY <1>2, <1>3

(***************************************************************************)
(* The steps of a downgrade.                                               *)
(***************************************************************************)
\* What each drop leaves of the view.
LEMMA DroppedFields ==
  ASSUME NEW d, Database(d), NEW r \in Revisions
  PROVE  LET e == Dropped(d, r) IN
         /\ Database(e) /\ e.extensions = d.extensions /\ e.failed = d.failed /\ e.astray = d.astray
         /\ plain(e) = plain(d) \ (Creates[r] \cup IF r = 1 THEN Added ELSE {})
         /\ e.objects \subseteq d.objects /\ (r = 6 => Shadow \notin e.objects) /\ (r = 7 => Bm25Index \notin e.objects)
         /\ Steady(d) => Steady(e)
<1> DEFINE kept == [d EXCEPT !.objects = @ \ Creates[r]]
           e == Dropped(d, r)
<1>1. /\ Database(kept) /\ kept.objects = d.objects \ Creates[r]
      /\ kept.extensions = d.extensions /\ kept.embedded = d.embedded /\ kept.astray = d.astray
      /\ kept.required = d.required /\ kept.failed = d.failed
  BY DEF Database
<1>2. Creates[r] \cap Special = {} /\ (r # 1 => Creates[r] \cap {"tenders", "tender_embeddings"} = {})
  BY CreatesApart, BaselineObjects
<1> HIDE DEF kept
<1>3. plain(kept) = plain(d) \ Creates[r]
  BY <1>1, <1>2 DEF plain
<1>4. /\ Bm25Index \in d.objects <=> Bm25Index \in kept.objects
      /\ Shadow \in d.objects <=> Shadow \in kept.objects
  BY <1>1, <1>2 DEF Special
<1>5. r # 1 => /\ "tenders" \in d.objects <=> "tenders" \in kept.objects
               /\ "tender_embeddings" \in d.objects <=> "tender_embeddings" \in kept.objects
  BY <1>1, <1>2
<1>6. /\ Steady(d) => Searchable(kept) /\ (kept.required => Bm25Available(kept))
      /\ Steady(d) /\ r # 1 => Rooted(kept)
  BY <1>1, <1>4, <1>5 DEF Steady, Searchable, EmbeddingVectorAvailable, Bm25Available, Rooted, Has
<1>7. CASE r = 1
  <2> DEFINE none == [t \in Tenders |-> "none"]
  <2>1. e = [kept EXCEPT !.objects = @ \ Added, !.stored = <<>>, !.embedded = none, !.required = FALSE]
    BY <1>7 DEF Dropped, DropTenders, kept
  <2>2. none \in [Tenders -> {"none", "plain", "searchable"}] /\ \A t \in Tenders : none[t] # "plain"
    OBVIOUS
  <2> HIDE DEF e, none
  <2>3. /\ Database(e) /\ e.objects = kept.objects \ Added /\ e.extensions = kept.extensions
        /\ e.embedded = none /\ e.required = FALSE /\ e.failed = kept.failed /\ e.astray = kept.astray
    BY <1>1, <2>1, <2>2 DEF Database
  <2>4. Shadow \notin e.objects /\ Bm25Index \notin e.objects
    BY <2>3, BaselineObjects
  <2>5. Steady(e)
    BY <2>2, <2>3, <2>4 DEF Steady, Searchable, Rooted, Has
  <2>6. plain(e) = plain(d) \ (Creates[r] \cup Added)
    BY <1>1, <2>3 DEF plain
  <2> QED BY <1>1, <1>7, <2>3, <2>5, <2>6 DEF e
<1>8. CASE r = 6
  <2> DEFINE left == [t \in Tenders |-> IF kept.embedded[t] = "searchable" THEN "plain" ELSE kept.embedded[t]]
  <2>1. e = [kept EXCEPT !.objects = @ \ {Shadow}, !.embedded = left]
    BY <1>8 DEF Dropped, DropVector, kept
  <2>2. left \in [Tenders -> {"none", "plain", "searchable"}]
    BY <1>1 DEF Database
  <2> HIDE DEF e, left
  <2>3. /\ Database(e) /\ e.objects = kept.objects \ {Shadow}
        /\ e.extensions = kept.extensions /\ e.required = kept.required /\ e.failed = kept.failed
        /\ e.astray = kept.astray
    BY <1>1, <2>1, <2>2 DEF Database
  <2>4. Searchable(e)
    BY <2>3 DEF Searchable, EmbeddingVectorAvailable, Has
  <2>5. plain(e) = plain(kept) /\ (Bm25Index \in kept.objects <=> Bm25Index \in e.objects)
        /\ ("tenders" \in kept.objects <=> "tenders" \in e.objects)
    BY <2>3 DEF plain, Special, Shadow, Bm25Index
  <2>6. Steady(d) => Steady(e)
    BY <1>6, <1>8, <2>3, <2>4, <2>5 DEF Steady, Bm25Available, Rooted, Has
  <2> QED BY <1>1, <1>3, <1>8, <2>3, <2>5, <2>6 DEF e
<1>9. CASE r = 7
  <2>1. e = [kept EXCEPT !.objects = @ \ {Bm25Index}, !.required = FALSE]
    BY <1>9 DEF Dropped, DropBm25, kept
  <2> HIDE DEF e
  <2>2. /\ Database(e) /\ e.objects = kept.objects \ {Bm25Index}
        /\ e.extensions = kept.extensions /\ e.embedded = kept.embedded /\ e.required = FALSE /\ e.failed = kept.failed
        /\ e.astray = kept.astray
    BY <1>1, <2>1 DEF Database
  <2>3. plain(e) = plain(kept)
    BY <2>2 DEF plain, Special
  <2>4. ("tender_embeddings" \in kept.objects <=> "tender_embeddings" \in e.objects)
    BY <2>2 DEF Bm25Index
  <2>5. Steady(d) => Steady(e)
    BY <1>6, <1>9, <2>2, <2>4 DEF Steady, Searchable, EmbeddingVectorAvailable, Rooted, Has
  <2> QED BY <1>1, <1>3, <1>9, <2>2, <2>3, <2>5 DEF e
<1>10. CASE r \notin {1, 6, 7}
  <2>1. e = kept
    BY <1>10 DEF Dropped, kept
  <2> HIDE DEF e
  <2>2. Steady(d) => Steady(e)
    BY <1>6, <1>10, <2>1 DEF Steady
  <2> QED BY <1>1, <1>3, <1>10, <2>1, <2>2 DEF e
<1> QED BY <1>7, <1>8, <1>9, <1>10

LEMMA DownSound ==
  ASSUME NEW d, Sound(d), NEW r \in Revisions
  PROVE  Sound(Down(d, r)) /\ Down(d, r).astray = d.astray
<1> DEFINE u == Down(d, r)
           b == Dropped(d, r)
<1>1. Database(Fail(d)) /\ Fail(d).failed = TRUE /\ Fail(d).astray = d.astray /\ Database(d)
  BY DEF Fail, Sound, Database
<1>2. CASE d.failed \/ d.version # r \/ ~ (Strict(r) \cup Reverts(r)) \subseteq d.objects
  <2>1. u = Fail(d)
    BY <1>2 DEF Down
  <2> HIDE DEF u
  <2> QED BY <1>1, <2>1 DEF Sound, u
<1>3. CASE ~(d.failed \/ d.version # r \/ ~ (Strict(r) \cup Reverts(r)) \subseteq d.objects)
  <2>1. u = [b EXCEPT !.version = r - 1]
    BY <1>3 DEF Down
  <2>2. /\ Database(b) /\ b.extensions = d.extensions /\ b.failed = d.failed /\ b.astray = d.astray
        /\ plain(b) = plain(d) \ (Creates[r] \cup IF r = 1 THEN Added ELSE {})
        /\ b.objects \subseteq d.objects /\ (r = 6 => Shadow \notin b.objects) /\ (r = 7 => Bm25Index \notin b.objects)
        /\ Steady(d) => Steady(b)
    BY <1>1, DroppedFields
  <2> HIDE DEF b, u
  <2>3. /\ Database(u) /\ u.version = r - 1 /\ u.objects = b.objects /\ u.extensions = b.extensions
        /\ u.embedded = b.embedded /\ u.required = b.required /\ u.failed = b.failed /\ u.astray = b.astray
    BY <2>1, <2>2 DEF Database, Revisions
  <2>4. Steady(u)
    BY <1>3, <2>2, <2>3 DEF Sound, Steady, Searchable, EmbeddingVectorAvailable, Bm25Available, Rooted, Has
  <2>5. ASSUME ~u.astray PROVE Matches(u)
    <3>1. Matches(d)
      BY <1>3, <2>2, <2>3, <2>5 DEF Sound
    <3>2. plain(d) \in {Made(r), Made(r) \ {Omitted}}
      BY <1>3, <3>1 DEF Matches, Described, plain, Special, Omitted, Revisions
    <3>3. plain(u) \in {Made(r - 1), Made(r - 1) \ {Omitted}}
      <4>1. CASE r = 1
        <5>1. Made(1) = Creates[1] /\ Made(0) = {}
          <6>1. 1 \in Revisions /\ Made(0) = {}
            BY MadeStep DEF Revisions
          <6>2. Made(1) = Made(1 - 1) \cup Creates[1]
            BY ONLY MadeStep, <6>1
          <6>3. 1 - 1 = 0
            OBVIOUS
          <6> QED BY <6>1, <6>2, <6>3
        <5> QED BY <2>2, <2>3, <3>2, <4>1, <5>1 DEF plain
      <4>2. CASE r # 1
        <5>1. plain(u) = plain(d) \ Creates[r]
          BY <2>2, <2>3, <4>2 DEF plain
        <5>2. Made(r) \ Creates[r] = Made(r - 1)
          BY MadeStep
        <5>3. CASE plain(d) = Made(r)
          BY <5>1, <5>2, <5>3
        <5>4. CASE plain(d) = Made(r) \ {Omitted}
          <6>1. plain(u) = (Made(r) \ Creates[r]) \ {Omitted}
            BY <5>1, <5>4
          <6> QED BY <5>2, <6>1
        <5> QED BY <3>2, <5>3, <5>4
      <4> QED BY <4>1, <4>2
    <3>4. /\ Shadow \in d.objects => r \in {6, 7}
          /\ Bm25Index \in d.objects => r = 7
      BY <1>3, <3>1 DEF Matches, Has, Revisions
    <3>5. (Shadow \in u.objects => r = 7) /\ Bm25Index \notin u.objects
      BY <2>2, <2>3, <3>4
    <3>6. Made(r - 1) \in Described(u.version)
      BY <2>3, MadeStep DEF Described, Revisions
    <3> QED BY <2>3, <3>3, <3>5, <3>6 DEF Matches, plain, Special, Omitted, Has, Revisions
  <2> QED BY <1>3, <2>2, <2>3, <2>4, <2>5 DEF Sound, u
<1> QED BY <1>2, <1>3

(***************************************************************************)
(* The commands.                                                           *)
(***************************************************************************)
LEMMA ClimbsSound ==
  ASSUME NEW d, View(d), NEW r \in Revisions, NEW seen, NEW to, NEW backend, host \subseteq Offers
  PROVE  View(Climbs(d, r, seen, to, backend))
BY UpSound DEF Climbs, View

\* An upgrade from any revision to any other one.
LEMMA UpgradeSound ==
  ASSUME NEW d, View(d), NEW seen, NEW to, NEW backend, host \subseteq Offers
  PROVE  View(Upgrade(d, seen, to, backend))
<1> DEFINE run(e, r) == Climbs(e, r, seen, to, backend)
<1>1. ASSUME NEW e, View(e) PROVE \A r \in Revisions : View(run(e, r))
  BY <1>1, ClimbsSound
<1>2. \A r \in 1..7 : r \in Revisions
  BY DEF Revisions
<1> DEFINE e1 == run(d, 1)
           e2 == run(e1, 2)
           e3 == run(e2, 3)
           e4 == run(e3, 4)
           e5 == run(e4, 5)
           e6 == run(e5, 6)
           e7 == run(e6, 7)
<1>3. Upgrade(d, seen, to, backend) = e7
  BY DEF Upgrade
<1> HIDE DEF run
<1>4. View(e1)
  BY <1>1, <1>2
<1> HIDE DEF e1
<1>5. View(e2)
  BY <1>1, <1>2, <1>4
<1> HIDE DEF e2
<1>6. View(e3)
  BY <1>1, <1>2, <1>5
<1> HIDE DEF e3
<1>7. View(e4)
  BY <1>1, <1>2, <1>6
<1> HIDE DEF e4
<1>8. View(e5)
  BY <1>1, <1>2, <1>7
<1> HIDE DEF e5
<1>9. View(e6)
  BY <1>1, <1>2, <1>8
<1> HIDE DEF e6
<1>10. View(e7)
  BY <1>1, <1>2, <1>9
<1> HIDE DEF e7
<1> QED BY <1>3, <1>10

LEMMA DescendsSound ==
  ASSUME NEW d, View(d), NEW r \in Revisions, NEW seen, NEW to
  PROVE  View(Descends(d, r, seen, to))
BY DownSound DEF Descends, View

LEMMA DowngradeSound ==
  ASSUME NEW d, View(d), NEW seen, NEW to
  PROVE  View(Downgrade(d, seen, to))
<1> DEFINE run(e, r) == Descends(e, r, seen, to)
<1>1. ASSUME NEW e, View(e) PROVE \A r \in Revisions : View(run(e, r))
  BY <1>1, DescendsSound
<1>2. \A r \in 1..7 : r \in Revisions
  BY DEF Revisions
<1> DEFINE e7 == run(d, 7)
           e6 == run(e7, 6)
           e5 == run(e6, 5)
           e4 == run(e5, 4)
           e3 == run(e4, 3)
           e2 == run(e3, 2)
           e1 == run(e2, 1)
<1>3. Downgrade(d, seen, to) = IF to > seen THEN Fail(d) ELSE e1
  BY DEF Downgrade
<1>4. View(Fail(d))
  BY DEF View, Sound, Fail, Database
<1> HIDE DEF run
<1>5. View(e7)
  BY <1>1, <1>2
<1> HIDE DEF e7
<1>6. View(e6)
  BY <1>1, <1>2, <1>5
<1> HIDE DEF e6
<1>7. View(e5)
  BY <1>1, <1>2, <1>6
<1> HIDE DEF e5
<1>8. View(e4)
  BY <1>1, <1>2, <1>7
<1> HIDE DEF e4
<1>9. View(e3)
  BY <1>1, <1>2, <1>8
<1> HIDE DEF e3
<1>10. View(e2)
  BY <1>1, <1>2, <1>9
<1> HIDE DEF e2
<1>11. View(e1)
  BY <1>1, <1>2, <1>10
<1> HIDE DEF e1
<1> QED BY <1>3, <1>4, <1>11

LEMMA EnsureBm25Fields ==
  ASSUME NEW d, Database(d), NEW backend, host \subseteq Offers
  PROVE  Ranks(d, EnsureBm25(d, backend))
<1> DEFINE e == EnsureBm25(d, backend)
<1>1. CASE backend = "bm25" \/ Bm25Offered
  <2>1. e = RequireBm25(d, backend)
    BY <1>1 DEF EnsureBm25
  <2> HIDE DEF e
  <2> QED BY <2>1, RequireBm25Fields DEF e
<1>2. CASE ~(backend = "bm25" \/ Bm25Offered)
  <2>1. e = Extend(d, "pg_textsearch")
    BY <1>2 DEF EnsureBm25
  <2> HIDE DEF e
  <2>2. /\ Database(e) /\ e.extensions = d.extensions \cup ({"pg_textsearch"} \cap host)
        /\ e.version = d.version /\ e.objects = d.objects /\ e.embedded = d.embedded
        /\ e.required = d.required /\ e.failed = d.failed /\ e.astray = d.astray
    BY <2>1, ExtendFields DEF Offers
  <2>3. e.extensions \in {d.extensions, d.extensions \cup {"pg_textsearch"}}
    BY <2>2
  <2> QED BY <2>2, <2>3 DEF e, Ranks
<1> QED BY <1>1, <1>2

\* create_all, and what search needs, whatever it finds.
LEMMA BootstrapSteady ==
  ASSUME NEW d, Database(d), Steady(d), NEW backend, host \subseteq Offers
  PROVE  LET u == Bootstrap(d, backend) IN Database(u) /\ (~u.failed => Steady(u))
<1> DEFINE x == Extend(d, "vector")
           tables == [x EXCEPT !.objects = @ \cup CreateAll(d) \cup {"search_vector"}]
           v == EnsureVector(tables)
           u == Bootstrap(d, backend)
<1>1. /\ Database(x) /\ x.objects = d.objects /\ x.required = d.required /\ d.extensions \subseteq x.extensions
  BY ExtendFields DEF Offers
<1>2. /\ CreateAll(d) \cup {"search_vector"} \subseteq Objects
      /\ (CreateAll(d) \cup {"search_vector"}) \cap Special = {}
      /\ {"tenders", "tender_embeddings"} \subseteq CreateAll(d)
  BY CreateAllMakes
<1>3. /\ Database(tables) /\ tables.objects = d.objects \cup CreateAll(d) \cup {"search_vector"}
      /\ tables.required = d.required /\ tables.extensions = x.extensions
  <2> HIDE DEF x
  <2> QED BY <1>1, <1>2 DEF Database
<1> HIDE DEF tables
<1>4. /\ Database(v) /\ v.extensions = tables.extensions
      /\ v.objects = IF "vector" \in tables.extensions THEN tables.objects \cup {Shadow} ELSE tables.objects
      /\ v.required = tables.required /\ Searchable(v)
  BY <1>3, EnsureVectorFields
<1>5. /\ d.objects \subseteq v.objects /\ d.extensions \subseteq v.extensions
      /\ Shadow \in v.objects => Shadow \in d.objects \/ "vector" \in v.extensions
      /\ {"tenders", "tender_embeddings"} \subseteq v.objects
  BY <1>1, <1>2, <1>3, <1>4 DEF Special
<1> HIDE DEF v
<1>6. u = EnsureBm25(v, backend)
  BY DEF Bootstrap, v, tables
<1>7. Ranks(v, u)
  BY <1>4, <1>6, EnsureBm25Fields
<1> HIDE DEF u
<1>8. ~u.failed => Searchable(u)
  BY <1>4, <1>7 DEF Ranks, Searchable, EmbeddingVectorAvailable, Has, Shadow, Bm25Index
<1>9. ~u.failed => (u.required => Bm25Available(u))
  BY <1>1, <1>3, <1>4, <1>5, <1>7 DEF Ranks, Steady, Bm25Available, Has
<1>10. ~u.failed => Rooted(u)
  BY <1>5, <1>7 DEF Ranks, Steady, Rooted, Has, Shadow, Bm25Index
<1> QED BY <1>7, <1>8, <1>9, <1>10 DEF Ranks, Steady, u

\* create_all leaves a whole schema behind where it finds one, or nothing.
LEMMA BootstrapWhole ==
  ASSUME NEW d, Database(d), Matches(d), Fit(d), NEW backend, host \subseteq Offers
  PROVE  LET u == Bootstrap(d, backend) IN ~u.failed => Matches(u)
<1> DEFINE x == Extend(d, "vector")
           made == CreateAll(d) \cup {"search_vector"}
           tables == [x EXCEPT !.objects = @ \cup made]
           v == EnsureVector(tables)
           u == Bootstrap(d, backend)
<1>1. Database(x) /\ x.objects = d.objects /\ x.version = d.version
  BY ExtendFields DEF Offers
<1>2. made \subseteq Objects /\ made \cap Special = {}
  BY CreateAllMakes
<1>3. plain(d) \cup made \in {Made(7), Made(7) \ {Omitted}}
  <2>1. (d.objects = {} => made = Made(7) \ {Omitted}) /\ made \subseteq Made(7) \ {Omitted}
    BY CreateAllWhole
  <2>2. CASE d.objects = {}
    BY <2>1, <2>2 DEF plain
  <2>3. CASE Made(7) \ {Omitted} \subseteq d.objects
    <3>1. Made(7) \subseteq Objects /\ Made(7) \cap Special = {}
      BY CreateAllWhole
    <3>2. Made(7) \ {Omitted} \subseteq plain(d) /\ plain(d) \subseteq Made(7)
      <4>1. "daily_jobs.cron" \in Made(7) \ {Omitted} /\ "daily_jobs.cron" \notin Baseline
        BY CreateAllWhole
      <4>2. Made(7) \ {Omitted} \subseteq plain(d)
        BY <2>3, <3>1 DEF plain
      <4>3. PICK whole \in {{}, Baseline, Made(7)} : plain(d) \in {whole, whole \ {Omitted}}
        BY DEF Matches, Described, Fit, plain, Special, Omitted
      <4>4. whole = Made(7)
        BY <4>1, <4>2, <4>3
      <4> QED BY <4>2, <4>3, <4>4
    <3> QED BY <2>1, <3>2
  <2> QED BY <2>2, <2>3 DEF Fit
<1> HIDE DEF made
<1>4. /\ Database(tables) /\ tables.objects = d.objects \cup made /\ tables.version = d.version
  <2> HIDE DEF x
  <2> QED BY <1>1, <1>2 DEF Database
<1> HIDE DEF tables
<1>5. Database(v) /\ v.objects \in {tables.objects, tables.objects \cup {Shadow}} /\ v.version = tables.version
  BY <1>4, EnsureVectorFields
<1> HIDE DEF v
<1>6. u = EnsureBm25(v, backend)
  BY DEF Bootstrap, v, tables, made
<1>7. Ranks(v, u)
  BY <1>5, <1>6, EnsureBm25Fields
<1> HIDE DEF u
<1>8. ~u.failed => u.version = d.version /\ plain(u) = plain(d) \cup made
  BY <1>2, <1>4, <1>5, <1>7 DEF Ranks, plain, Special
<1>9. Made(7) \in Described(d.version) /\ d.version \in {0, 7}
  BY DEF Fit, Described
<1>10. ~u.failed => Matches(u)
  BY <1>3, <1>8, <1>9 DEF Matches, plain, Special, Omitted
<1> QED BY <1>10 DEF u

\* The stamp of any revision.
LEMMA StampSteady ==
  ASSUME NEW d, Database(d), Steady(d), NEW to \in 0..7
  PROVE  Database(Stamp(d, to)) /\ Steady(Stamp(d, to))
<1> DEFINE u == Stamp(d, to)
<1>1. u = [d EXCEPT !.version = to]
  BY DEF Stamp
<1> HIDE DEF u
<1>2. /\ Database(u) /\ u.objects = d.objects /\ u.extensions = d.extensions
      /\ u.embedded = d.embedded /\ u.required = d.required
  BY <1>1 DEF Database
<1> QED BY <1>2 DEF Steady, Searchable, EmbeddingVectorAvailable, Bm25Available, Rooted, Has, u

(***************************************************************************)
(* The invariant.                                                          *)
(***************************************************************************)
\* What an operator reads or does not, by the type of its state.
LEMMA ProcKinds ==
  ASSUME SchemaInv, NEW p \in Operators
  PROVE  proc[p].pc = "read" => /\ proc[p].cmd.kind \in {"upgrade", "downgrade", "bootstrap", "stamp"}
                                /\ proc[p].cmd.to \in 0..7
<1>1. proc[p] \in {Idle} \cup [pc : {"read"}, cmd : Commands, seen : 0..7]
  BY DEF SchemaInv
<1>2. CASE proc[p] = Idle
  BY <1>2 DEF Idle
<1>3. CASE proc[p] \in [pc : {"read"}, cmd : Commands, seen : 0..7]
  BY <1>3, SchemaAssumption DEF CommandRecords
<1> QED BY <1>1, <1>2, <1>3

\* Whatever a command makes of the database it finds holds together; an upgrade, a
\* downgrade and a bootstrap that is fit keep the schema and its revision together, too.
LEMMA ResultSound ==
  ASSUME SchemaInv, NEW p \in Operators, proc[p].pc = "read"
  PROVE  LET r == Result(p) IN
         /\ Database(r) /\ (~r.failed => Steady(r))
         /\ ~r.failed /\ ~Strays(proc[p].cmd, r) => Matches(r)
<1>1. Sound(db) /\ View(db) /\ ~db.failed /\ host \subseteq Offers /\ Database(db) /\ Steady(db)
  BY DEF SchemaInv, View, Sound
<1> DEFINE c == proc[p].cmd
<1>2. ASSUME NEW r, View(r) PROVE Database(r) /\ (~r.failed => Steady(r))
                                      /\ (~r.failed /\ ~Strays(c, r) => Matches(r))
  BY <1>2 DEF View, Sound, Strays
<1>3. CASE c.kind = "upgrade"
  <2>1. Result(p) = Upgrade(db, proc[p].seen, c.to, c.backend)
    BY <1>3 DEF Result
  <2> QED BY <1>1, <1>2, <2>1, UpgradeSound
<1>4. CASE c.kind = "downgrade"
  <2>1. Result(p) = Downgrade(db, proc[p].seen, c.to)
    BY <1>4 DEF Result
  <2> QED BY <1>1, <1>2, <2>1, DowngradeSound
<1>5. CASE c.kind = "bootstrap"
  <2>1. Result(p) = Bootstrap(db, c.backend)
    BY <1>5 DEF Result
  <2>2. CASE Fit(db) /\ ~db.astray
    <3>1. Matches(db)
      BY <1>1, <2>2 DEF Sound
    <3> QED BY <1>1, <2>1, <2>2, <3>1, BootstrapSteady, BootstrapWhole
  <2>3. CASE ~(Fit(db) /\ ~db.astray)
    BY <1>1, <1>5, <2>1, <2>3, BootstrapSteady DEF Strays
  <2> QED BY <2>2, <2>3
<1>6. CASE c.kind = "stamp"
  <2>1. Result(p) = Stamp(db, c.to)
    BY <1>6 DEF Result
  <2>2. c.to \in 0..7
    BY ProcKinds
  <2> QED BY <1>1, <1>6, <2>1, <2>2, StampSteady DEF Strays
<1>7. c.kind \in {"upgrade", "downgrade", "bootstrap", "stamp"}
  BY ProcKinds
<1> QED BY <1>3, <1>4, <1>5, <1>6, <1>7

LEMMA SchemaInit == Init => SchemaInv
<1> SUFFICES ASSUME Init PROVE SchemaInv
  OBVIOUS
<1>1. /\ Database(db) /\ db.version = 0 /\ db.objects \in {{}, Baseline} /\ db.extensions = {} /\ db.required = FALSE
      /\ db.failed = FALSE
  <2>1. Baseline \subseteq Objects
    BY CreatesApart, BaselineObjects DEF Revisions
  <2>2. CASE db = Nothing
    <3> DEFINE none == [t \in Tenders |-> "none"]
    <3>1. db = [version |-> 0, objects |-> {}, extensions |-> {}, stored |-> <<>>, embedded |-> none,
                required |-> FALSE, astray |-> FALSE, failed |-> FALSE]
      BY <2>2 DEF Nothing
    <3>2. none \in [Tenders -> {"none", "plain", "searchable"}]
      OBVIOUS
    <3> HIDE DEF none
    <3> QED BY <3>1, <3>2 DEF Database
  <2>3. ASSUME NEW some \in SUBSET Tenders, db = Legacy(some)
        PROVE  /\ Database(db) /\ db.version = 0 /\ db.objects = Baseline /\ db.extensions = {} /\ db.required = FALSE
               /\ db.failed = FALSE
    <3> DEFINE old == [t \in Tenders |-> IF t \in some THEN "plain" ELSE "none"]
               list == SetToSeq(Tenders)
    <3>1. db = [version |-> 0, objects |-> Baseline, extensions |-> {}, stored |-> list, embedded |-> old,
                required |-> FALSE, astray |-> FALSE, failed |-> FALSE]
      BY <2>3 DEF Legacy, Nothing
    <3>2. old \in [Tenders -> {"none", "plain", "searchable"}]
      OBVIOUS
    <3> HIDE DEF old, list
    <3> QED BY <2>1, <3>1, <3>2 DEF Database
  <2> QED BY <2>2, <2>3 DEF Init
<1>2. Baseline \cap Special = {} /\ Shadow \in Special /\ Bm25Index \in Special
  BY CreatesApart, BaselineObjects DEF Revisions, Special
<1>3. Shadow \notin db.objects /\ Bm25Index \notin db.objects
  BY <1>1, <1>2
<1>4. Matches(db)
  BY <1>1, <1>3 DEF Matches, Described, Has
<1>5. Steady(db)
  BY <1>1, <1>3 DEF Steady, Searchable, EmbeddingVectorAvailable, Rooted, Has
<1>6. host = {} /\ proc = [p \in Operators |-> Idle]
  BY DEF Init
<1> QED BY <1>1, <1>4, <1>5, <1>6 DEF SchemaInv, Sound

LEMMA SchemaNext == SchemaInv /\ [Next]_vars => SchemaInv'
<1> SUFFICES ASSUME SchemaInv, [Next]_vars PROVE SchemaInv'
  OBVIOUS
<1>1. /\ host \subseteq Offers /\ Sound(db) /\ db.failed = FALSE /\ Database(db) /\ Steady(db)
      /\ ~db.astray => Matches(db)
      /\ proc \in [Operators -> {Idle} \cup [pc : {"read"}, cmd : Commands, seen : 0..7]]
  BY DEF SchemaInv, Sound
<1>2. ASSUME host' \subseteq Offers, db' = db,
             proc' \in [Operators -> {Idle} \cup [pc : {"read"}, cmd : Commands, seen : 0..7]]
      PROVE  SchemaInv'
  <2>1. Sound(db)'
    BY <1>1, <1>2 DEF Sound, Database, Matches, Described, Made, Steady, Searchable, Bm25Available,
                      EmbeddingVectorAvailable, Rooted, Has
  <2> QED BY <1>1, <1>2, <2>1 DEF SchemaInv
<1>3. CASE Install
  BY <1>1, <1>2, <1>3 DEF Install
<1>4. ASSUME NEW p \in Operators, Begin(p) PROVE SchemaInv'
  <2>1. PICK c \in Commands : proc' = [proc EXCEPT ![p] = [pc |-> "read", cmd |-> c, seen |-> db.version]]
    BY <1>4 DEF Begin
  <2>2. host' = host /\ db' = db
    BY <1>4 DEF Begin
  <2>3. db.version \in 0..7
    BY <1>1 DEF Database
  <2> QED BY <1>1, <1>2, <2>1, <2>2, <2>3
<1>5. ASSUME NEW p \in Operators, Finish(p) PROVE SchemaInv'
  <2> DEFINE r == Result(p)
             lost == Strays(proc[p].cmd, r)
  <2>1. /\ proc[p].pc = "read" /\ proc' = [proc EXCEPT ![p] = Idle] /\ host' = host
        /\ db' = IF r.failed THEN db ELSE [r EXCEPT !.astray = lost]
    BY <1>5 DEF Finish
  <2>2. /\ Database(r) /\ (~r.failed => Steady(r))
        /\ ~r.failed /\ ~lost => Matches(r)
    BY <2>1, ResultSound
  <2>3. lost \in BOOLEAN /\ (~r.failed /\ ~lost => Matches(r))
    BY <2>2 DEF Strays
  <2>4. proc' \in [Operators -> {Idle} \cup [pc : {"read"}, cmd : Commands, seen : 0..7]]
    BY <1>1, <2>1
  <2>5. CASE r.failed
    BY <1>1, <1>2, <2>1, <2>4, <2>5
  <2>6. CASE ~r.failed
    <3> HIDE DEF r, lost
    <3>1. /\ Database(db') /\ db'.version = r.version /\ db'.objects = r.objects /\ db'.extensions = r.extensions
          /\ db'.embedded = r.embedded /\ db'.required = r.required /\ db'.failed = r.failed /\ db'.astray = lost
      BY <2>1, <2>2, <2>3, <2>6 DEF Database
    <3>2. Steady(db')
      BY <2>2, <2>6, <3>1 DEF Steady, Searchable, EmbeddingVectorAvailable, Bm25Available, Rooted, Has
    <3>3. ~db'.astray => Matches(db')
      BY <2>3, <2>6, <3>1 DEF Matches, Has
    <3>4. db'.failed = FALSE
      BY <2>2, <2>6, <3>1 DEF Database
    <3> QED BY <1>1, <2>1, <2>4, <3>1, <3>2, <3>3, <3>4 DEF SchemaInv, Sound
  <2> QED BY <2>5, <2>6
<1>6. ASSUME NEW p \in Operators, Abort(p) PROVE SchemaInv'
  BY <1>1, <1>2, <1>6 DEF Abort
<1>7. ASSUME NEW t \in Tenders, Ingest(t) PROVE SchemaInv'
  <2> DEFINE newest == <<t>> \o SelectSeq(db.stored, LAMBDA u : u # t)
  <2>1. db' = [db EXCEPT !.stored = newest] /\ host' = host /\ proc' = proc
    BY <1>7 DEF Ingest
  <2> HIDE DEF newest
  <2>2. /\ Database(db') /\ db'.version = db.version /\ db'.objects = db.objects /\ db'.extensions = db.extensions
        /\ db'.embedded = db.embedded /\ db'.required = db.required /\ db'.failed = db.failed /\ db'.astray = db.astray
    BY <1>1, <2>1 DEF Database
  <2>3. (~db'.astray => Matches(db')) /\ Steady(db')
    BY <1>1, <2>2 DEF Matches, Steady, Searchable, Bm25Available, EmbeddingVectorAvailable, Rooted, Has
  <2> QED BY <1>1, <2>1, <2>2, <2>3 DEF SchemaInv, Sound
<1>8. ASSUME NEW e \in Embedders, Commit(e) PROVE SchemaInv'
  <2> DEFINE seen == IF EmbeddingVectorAvailable(db) THEN "searchable" ELSE "plain"
             written == [t \in Tenders |-> IF t \notin emb[e].batch THEN db.embedded[t] ELSE seen]
  <2>1. db' = [db EXCEPT !.embedded = written] /\ host' = host /\ proc' = proc
    BY <1>8 DEF Commit
  <2>2. written \in [Tenders -> {"none", "plain", "searchable"}]
    BY <1>1 DEF Database
  <2>3. EmbeddingVectorAvailable(db) => \A t \in Tenders : written[t] # "plain"
    BY <1>1 DEF Steady, Searchable
  <2> HIDE DEF written
  <2>4. /\ Database(db') /\ db'.version = db.version /\ db'.objects = db.objects /\ db'.extensions = db.extensions
        /\ db'.embedded = written /\ db'.required = db.required /\ db'.failed = db.failed /\ db'.astray = db.astray
    BY <1>1, <2>1, <2>2 DEF Database
  <2>5. (~db'.astray => Matches(db')) /\ Steady(db')
    BY <1>1, <2>3, <2>4 DEF Matches, Steady, Searchable, Bm25Available, EmbeddingVectorAvailable, Rooted, Has
  <2> QED BY <1>1, <2>1, <2>4, <2>5 DEF SchemaInv, Sound
<1>9. ASSUME NEW e \in Embedders, Start(e) \/ List(e) \/ Embed(e) \/ Replace(e) \/ GiveUp(e) PROVE SchemaInv'
  <2>1. host' = host /\ db' = db /\ proc' = proc
    BY <1>9 DEF Start, List, Embed, Replace, GiveUp
  <2> QED BY <1>1, <1>2, <2>1
<1>10. CASE UNCHANGED vars
  BY <1>1, <1>2, <1>10 DEF vars
<1> QED BY <1>3, <1>4, <1>5, <1>6, <1>7, <1>8, <1>9, <1>10 DEF Next

LEMMA SchemaInvariant == Spec => []SchemaInv
<1> QED BY SchemaInit, SchemaNext, PTL DEF Spec

(***************************************************************************)
(* Whatever upgrades and downgrades are run by however many operators,     *)
(* whatever fails and whatever the server comes to offer: on a new         *)
(* database, and on one that the create_all of the time of the baseline    *)
(* has made and that is stamped 0001, the committed schema is the one its  *)
(* revision says, for as long as no bootstrap and no stamp of a revision   *)
(* that is not its own leads it astray.  And whatever is bootstrapped or   *)
(* stamped, the BM25 index that 0007 or a bootstrap has made under bm25    *)
(* is there until it is undone (storage/migrations.py, revision 0007).     *)
(***************************************************************************)
THEOREM SchemaMatchesRevision == Spec => []RevisionMatchesSchema
<1>1. SchemaInv => RevisionMatchesSchema
  BY DEF SchemaInv, Sound, Steady, RevisionMatchesSchema
<1> QED BY <1>1, SchemaInvariant, PTL

(***************************************************************************)
(* Whatever backfills and schema commands do in between, where semantic    *)
(* search can run no embedding is left out of the shadow column            *)
(* (upsert_embeddings and revision 0006).                                  *)
(***************************************************************************)
THEOREM EmbeddingsSearchable == Spec => []EmbeddedIsSearchable
<1>1. SchemaInv => EmbeddedIsSearchable
  BY DEF SchemaInv, Sound, Steady, EmbeddedIsSearchable
<1> QED BY <1>1, SchemaInvariant, PTL

=============================================================================
