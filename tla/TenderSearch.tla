---------------------------- MODULE TenderSearch ----------------------------
(***************************************************************************)
(* The search tools over the store: one call at a time, made of the awaits *)
(* of TenderToolService and TenderDatabase, while other processes write    *)
(* tenders and their embeddings.  A call may first refresh the sources,    *)
(* embeds its text for a semantic or hybrid search, and makes one SELECT   *)
(* or, where embeddings are involved, several that see different states.   *)
(***************************************************************************)
EXTENDS SourceFetch

CONSTANTS
  Ids,                 \* tenders
  Rows,                \* the rows of tenders that occur
  Stores,              \* the contents of the store to begin with: [Ids -> Rows or None]
  Snapshots,           \* the rows other processes write
  Feeds, Indexes,      \* what PLACSP publishes, and what TED finds for a query
  Configs,             \* the settings: feed, embedder, pgvector, backend, bm25
  Calls,               \* the calls clients make
  Relevance, Distance, \* [text][row]: its lexical rank, and the distance of its embedding
  CandidateMin, CandidateMultiplier, CandidateMax, \* _SEARCH_CANDIDATE_...
  FacetWindow,         \* _FACET_ROW_WINDOW
  RecentMax,           \* the most recent tenders a client gets
  RrfK,                \* the constant of reciprocal rank fusion
  Now,                 \* the instant of the calls
  MaxWrites            \* bound: the writes of other processes

ASSUME WindowAssumption ==
  /\ CandidateMin \in Nat /\ CandidateMultiplier \in Nat \ {0} /\ CandidateMax \in Nat
  /\ MaxLimit + MaxOffset <= CandidateMax
  /\ FacetWindow \in Nat /\ RecentMax \in Nat \ {0} /\ RrfK \in Nat /\ Now \in Int
ASSUME RowsAssumption ==
  /\ IsFiniteSet(Ids) /\ Rows \subseteq TenderRows /\ None \notin Rows
  /\ Stores \subseteq [Ids -> Rows \cup {None}] /\ Snapshots \subseteq Rows
  /\ Feeds \cup Indexes \subseteq Seq([id : Ids, row : Rows] \cup {Unreadable})
ASSUME QueryAssumption ==
  /\ None \notin DOMAIN Finds /\ Finds \in [DOMAIN Finds -> SUBSET Rows]
  /\ Relevance \in [DOMAIN Finds -> [Rows -> Int]] /\ Distance \in [DOMAIN Finds -> [Rows -> Int]]

\* The arguments of a call, whatever its tool makes of them.  What lists of codes, statuses
\* and sources hold is not looked at.
Arguments(a) ==
  /\ a \in [text : DOMAIN Finds \cup {None}, cpvs : {a.cpvs}, prefixes : {a.prefixes}, nuts : {a.nuts},
            regions : SUBSET (Texts \cup {None}), buyer : Texts \cup {None}, statuses : {a.statuses},
            sources : {a.sources}, exact : [ExactFields -> SUBSET (Texts \cup {None})], onlyOpen : BOOLEAN,
            country : {a.country}, from : [DateFields -> Int \cup {None}], to : [DateFields -> Int \cup {None}],
            least : Int \cup {None}, most : Int \cup {None}, limit : Int, offset : Int,
            orderBy : {a.orderBy}, order : {a.order}, mode : {a.mode}, refresh : BOOLEAN]

ASSUME CallAssumption ==
  \A c \in Calls : Arguments(c.args) /\ (c.tool = "semantic" => c.args.text # None)

VARIABLES
  rows,    \* tenders: the row of each, or None
  vectors, \* tender_embeddings: the rows that were embedded for each, one for every entry
  config,  \* the settings of the process and what the database has installed
  pc,      \* the await the call is at
  call,    \* the arguments asked for and the filter built of them, or None
  fetch,   \* a refresh: what has been fetched, and the state of a walk through the pages of TED
  got,     \* the results of the lexical side, and the nearest ids with their distances
  seen,    \* history: the writes there were at the first SELECT of a call that makes several
  answer,  \* the response, and for the properties what it was made from
  writes   \* the writes of other processes so far

store == <<rows, vectors>>
vars  == <<rows, vectors, config, pc, call, fetch, got, seen, answer, writes>>

NoFetch == [source |-> None, batch |-> <<>>, tenders |-> <<>>, page |-> 1, indexes |-> {}]
Nothing == [lexical |-> <<>>, nearest |-> <<>>]

Init ==
  /\ rows \in Stores
  /\ vectors \in {[i \in Ids |-> <<>>], [i \in Ids |-> IF rows[i] = None THEN <<>> ELSE <<rows[i]>>]}
  /\ config \in Configs
  /\ pc = "answered" /\ call = None /\ fetch = NoFetch /\ got = Nothing /\ seen = None
  /\ answer = None /\ writes = 0

----------------------------------------------------------------------------
(* Orders and windows *)

Firsts(s, n) == SubSeq(s, 1, Min({n, Len(s)}))

\* results[offset : offset + limit]
Slice(s, f) == SubSeq(s, f.offset + 1, Min({f.offset + f.limit, Len(s)}))

\* A SELECT leaves the order of rows with equal keys open.
Orders(S, R) ==
  {s \in SetToSeqs(S) : \A j, k \in 1..Cardinality(S) : j < k => <<s[k], s[j]>> \notin R}

\* sorted() keeps the order of what has equal keys, also if it is reversed.
Before(keys, order) ==
  {p \in (1..Len(keys)) \X (1..Len(keys)) :
     \/ IF order = "desc" THEN keys[p[1]] > keys[p[2]] ELSE keys[p[1]] < keys[p[2]]
     \/ keys[p[1]] = keys[p[2]] /\ p[1] < p[2]}

Sorted(s, keys, order) ==
  LET ranks == Ranking(1..Len(s), Before(keys, order)) IN [k \in 1..Len(s) |-> s[ranks[k]]]

OrNothing(v) == IF v = None THEN -1 ELSE v

\* The attribute results are ordered by, where it is not the score.
Attribute(r, f) == OrNothing(IF f.orderBy = "value" THEN r.value ELSE r.at[f.orderBy])

Newer(r, s) == OrNothing(r.at["published"]) > OrNothing(s.at["published"])

\* Mutant: the window does not grow with the page asked for.
FirstWindow(f) == Min({Max({Min({f.limit, MaxLimit}) * CandidateMultiplier, CandidateMin}), CandidateMax})

\* _search_candidate_limit
CandidateLimit(f) ==
  Min({Max({(Min({f.limit, MaxLimit}) + f.offset) * CandidateMultiplier, CandidateMin}), CandidateMax})

----------------------------------------------------------------------------
(* TenderDatabase.search_tenders *)

HasText(r, f) == f.text # None => r \in Finds[f.text]

Candidates(f) == {i \in Ids : rows[i] # None /\ SqlMatches(rows[i], f) /\ HasText(rows[i], f)}

Ranked(r, s, f) ==
  IF f.text = None THEN Newer(r, s)
  ELSE \/ Relevance[f.text][r] > Relevance[f.text][s]
       \/ Relevance[f.text][r] = Relevance[f.text][s] /\ Newer(r, s)

\* The candidates as SQL may return them, less those that tender_matches_filters drops.
Selections(f) ==
  {Kept([k \in 1..Len(s) |-> [id |-> s[k], row |-> rows[s[k]]]], f) :
     s \in {Firsts(o, CandidateLimit(f)) :
              o \in Orders(Candidates(f), {p \in Candidates(f) \X Candidates(f) : Ranked(rows[p[1]], rows[p[2]], f)})}}

\* _slice_retrieval_results: retrieval order stands for the score.
SliceRetrieval(results, f) ==
  Slice(CASE f.orderBy = "score" /\ f.order = "desc" -> results
          [] f.orderBy = "score" /\ f.order = "asc"  -> Reverse(results)
          [] f.orderBy # "score" -> Sorted(results, [k \in 1..Len(results) |-> Attribute(results[k].row, f)], f.order), f)

\* rank_tenders and _sort_results
RankTenders(results, f) ==
  LET key(r) == IF f.orderBy = "score" THEN Score(r, f, Now) ELSE Attribute(r, f)
  IN  Slice(Sorted(results, [k \in 1..Len(results) |-> key(results[k].row)], f.order), f)

SearchTenders(selected, f) ==
  IF f.text # None THEN SliceRetrieval(selected, f) ELSE RankTenders(selected, f)

\* The backend that is required is not there.
BackendMissing(f) == f.text # None /\ config.backend = "bm25" /\ ~config.bm25

----------------------------------------------------------------------------
(* hybrid_search: reciprocal rank fusion *)

Position(results, i) == CHOOSE k \in 1..Len(results) : results[k].id = i
Members(results)     == {results[k].id : k \in 1..Len(results)}

\* 1 / (k + rank), summed over the sides that hold the tender, as a fraction.
Fusion(i, lexical, semantic) ==
  LET p == RrfK + Position(lexical, i)
      q == RrfK + Position(semantic, i)
  IN  IF i \in Members(lexical) \cap Members(semantic) THEN [num |-> p + q, den |-> p * q]
      ELSE [num |-> 1, den |-> IF i \in Members(lexical) THEN p ELSE q]

\* By descending sums; the tenders that come first in all stay first where sums are equal.
FusedOrder(all, lexical, semantic) ==
  LET sum(k) == Fusion(all[k].id, lexical, semantic)
      places == 1..Len(all)
      above(j, k) == \/ sum(j).num * sum(k).den > sum(k).num * sum(j).den
                     \/ sum(j).num * sum(k).den = sum(k).num * sum(j).den /\ j < k
      ranks  == Ranking(places, {p \in places \X places : above(p[1], p[2])})
  IN  [k \in places |-> all[ranks[k]]]

\* Mutant: the two lists are not joined by tender.
FuseTwice(lexical, semantic) == FusedOrder(lexical \o semantic, lexical, semantic)

\* A tender on both sides is taken as the lexical side saw it.
Fuse(lexical, semantic) ==
  LET others == Pick(semantic, {k \in 1..Len(semantic) : semantic[k].id \notin Members(lexical)})
  IN  FusedOrder(lexical \o others, lexical, semantic)

HybridResults(fused, f) == SliceRetrieval(Kept(fused, f), f)

FusionWindow(f) == f.limit + f.offset

\* The lexical side asks for all of the window at once.
LexicalFilter(f) ==
  [f EXCEPT !.offset = 0, !.limit = Max({1, Min({FusionWindow(f), CandidateMax})}), !.orderBy = "score", !.order = "desc"]

----------------------------------------------------------------------------
(* semantic_search_tenders: the ids of the nearest embeddings, then their rows *)

\* Mutant: the filter does not reach the SELECT.
AllEmbedded(f) == {i \in Ids : rows[i] # None /\ vectors[i] # <<>>}

Embedded(f) == {i \in Ids : rows[i] # None /\ vectors[i] # <<>> /\ SqlMatches(rows[i], f)}

SemanticLimit(f) == Max({1, Min({f.limit + f.offset, CandidateMax})})

\* The join has a tender once for each of its embeddings, and LIMIT counts those.
Entries(f) == UNION {{i} \X DOMAIN vectors[i] : i \in Embedded(f)}

Nearest(f) ==
  LET distance(e) == Distance[f.text][vectors[e[1]][e[2]]]
  IN  IF ~config.pgvector THEN {<<>>}
      ELSE {[k \in 1..Len(s) |-> [id |-> s[k][1], distance |-> distance(s[k])]] :
              s \in {Firsts(o, SemanticLimit(f)) :
                       o \in Orders(Entries(f), {p \in Entries(f) \X Entries(f) : distance(p[1]) < distance(p[2])})}}

\* The distance that is kept of a tender found more than once.
LastDistance(nearest, i) == nearest[Max({k \in 1..Len(nearest) : nearest[k].id = i})].distance

\* The tenders found, each once, come in any order and are sorted by the distances.
Records(nearest) ==
  LET nearer(i, j) == LastDistance(nearest, i) < LastDistance(nearest, j)
      ids == Members(nearest)
  IN  {[k \in 1..Len(s) |-> [id |-> s[k], row |-> rows[s[k]]]] : s \in Orders(ids, {p \in ids \X ids : nearer(p[1], p[2])})}

----------------------------------------------------------------------------
(* list_filter_options *)

CodeFields == {"cpv", "prefix", "nuts"}
NameFields == {"region", "buyer"}

NewestOf(S) ==
  {ToSet(Firsts(o, FacetWindow)) : o \in Orders(S, {p \in S \X S : Newer(rows[p[1]], rows[p[2]])})}

\* Mutant: the facets are those of all tenders.
AllRows(f) == NewestOf({i \in Ids : rows[i] # None})

\* The newest of the rows the filter selects.
FacetRows(f) == NewestOf(Candidates(f))

\* What a row counts for in each list of values: a CPV code counts for its sector again.
FacetValues(r, field) ==
  CASE field \in ExactFields -> {IF field = "dataset" THEN Lower[v] ELSE v : v \in {r.exact[field]} \ {None}}
    [] field = "status"      -> {r.status}
    [] field = "source"      -> {r.source}
    [] field = "cpv"         -> r.cpv
    [] field = "prefix"      -> {SubSeq(c, 1, 2) : c \in {d \in r.cpv : Len(d) >= 2}}
    [] field = "nuts"        -> {Alphanumeric(c) : c \in r.nuts} \ {<<>>}
    [] field = "region"      -> {r.region} \ {None}
    [] field = "buyer"       -> {r.buyer} \ {None}

\* What of a row is counted for a value: every code it stands for, else the value.
Hits(r, field, v) ==
  CASE field = "prefix" -> {c \in r.cpv : SubSeq(c, 1, 2) = v}
    [] field = "nuts"   -> {c \in r.nuts : Alphanumeric(c) = v}
    [] OTHER            -> {v} \cap FacetValues(r, field)

Fields == ExactFields \cup CodeFields \cup NameFields \cup {"status", "source"}

Facets(ids) ==
  [field \in Fields |->
     {[value |-> v, count |-> Cardinality(UNION {{i} \X Hits(rows[i], field, v) : i \in ids})] :
        v \in UNION {FacetValues(rows[i], field) : i \in ids}}]

----------------------------------------------------------------------------
(* The tools: what each makes of its arguments, and where it begins *)

Defaults ==
  [text |-> None, cpvs |-> {}, prefixes |-> {}, nuts |-> {}, regions |-> {}, buyer |-> None, statuses |-> {},
   sources |-> {}, exact |-> [x \in ExactFields |-> {}], onlyOpen |-> FALSE, country |-> None,
   from |-> [d \in DateFields |-> None], to |-> [d \in DateFields |-> None], least |-> None, most |-> None,
   limit |-> 20, offset |-> 0, orderBy |-> "score", order |-> "desc", mode |-> "keyword", refresh |-> FALSE]

\* match_tenders: a profile looks for open tenders unless it says otherwise.
MatchArguments(p) ==
  [Defaults EXCEPT !.text = p.text, !.cpvs = p.cpvs, !.prefixes = p.prefixes, !.nuts = p.nuts, !.regions = p.regions,
                   !.buyer = p.buyer, !.exact["dataset"] = p.exact["dataset"], !.onlyOpen = p.onlyOpen,
                   !.limit = p.limit, !.refresh = p.refresh]

ExportArguments(a) ==
  [Defaults EXCEPT !.text = a.text, !.cpvs = a.cpvs, !.prefixes = a.prefixes, !.regions = a.regions,
                   !.onlyOpen = a.onlyOpen, !.limit = a.limit]

\* list_filter_options takes no dates, values or pages.
FacetArguments(a) ==
  [a EXCEPT !.from = Defaults.from, !.to = Defaults.to, !.least = None, !.most = None, !.offset = 0,
            !.orderBy = "score", !.order = "desc", !.mode = "keyword", !.limit = MaxLimit]

\* semantic_search_tenders has no filter, and no bound but that of the SELECT.
SemanticFilter(a) == [Defaults EXCEPT !.text = a.text, !.limit = Clamped(a.limit, 1, CandidateMax), !.mode = "semantic"]

Goto(label) == pc' = label

\* Where a search goes on once the sources are fresh.
Dispatch(f) == IF f.mode \in {"semantic", "hybrid"} /\ f.text # None THEN "embed" ELSE "lexical"

Begin(a, f, label) ==
  /\ call' = [asked |-> a, f |-> f] /\ Goto(label)
  /\ UNCHANGED <<store, config, fetch, got, seen, answer, writes>>

\* The response ends the call; what it was made from is kept for the properties.
Answer(error, results, facets, path) ==
  /\ Goto("answered") /\ fetch' = NoFetch /\ got' = Nothing /\ seen' = None /\ call' = None
  /\ answer' = [error |-> error, results |-> results, facets |-> facets, path |-> path, call |-> call,
                rows |-> rows, vectors |-> vectors, steady |-> seen \in {None, writes}]
  /\ UNCHANGED <<store, config, writes>>

Error(error) == Answer(error, <<>>, None, "none")

\* Arguments that are not valid are answered at once.
Refuse(a) ==
  /\ ~ValidArguments(a)
  /\ Error("invalid_filters")

AskSearch(a) ==
  \/ ValidArguments(a) /\ Begin(a, BuildFilters(a), IF a.refresh THEN "feed" ELSE Dispatch(BuildFilters(a)))
  \/ Refuse(a)

AskMatch(p) ==
  LET f == BuildFilters(MatchArguments(p)) IN Begin(MatchArguments(p), f, IF p.refresh THEN "feed" ELSE Dispatch(f))

AskExport(a) == Begin(ExportArguments(a), BuildFilters(ExportArguments(a)), "lexical")

AskFacets(a) ==
  \/ ValidArguments(a) /\ Begin(FacetArguments(a), BuildFilters(FacetArguments(a)), "facets")
  \/ Refuse(a)

AskSemantic(a) == Begin(SemanticFilter(a), SemanticFilter(a), "embed")

\* get_recent_tenders: a source that does not exist raises.
AskRecent(a) ==
  \/ /\ a.sources \subseteq Sources
     /\ Begin(a, [Defaults EXCEPT !.sources = a.sources, !.limit = Clamped(a.limit, 1, RecentMax)], "recent")
  \/ ~(a.sources \subseteq Sources) /\ Error("raised")

\* A client asks once it has the response to what it asked before.
Ready == pc = "answered" /\ answer = None

Ask(c) ==
  \/ c.tool = "search" /\ AskSearch(c.args)
  \/ c.tool = "match" /\ AskMatch(c.args)
  \/ c.tool = "export" /\ AskExport(c.args)
  \/ c.tool = "facets" /\ AskFacets(c.args)
  \/ c.tool = "semantic" /\ AskSemantic(c.args)
  \/ c.tool = "recent" /\ AskRecent(c.args)

\* The client has the response.
Receive ==
  /\ answer # None /\ answer' = None
  /\ UNCHANGED <<store, config, pc, call, fetch, got, seen, writes>>

\* A call of the database, a source or the embedder raises, and the tool with it.
Raise == pc # "answered" /\ Error("raised")

----------------------------------------------------------------------------
(* ingest_for_filters: the sources are fetched, stored and embedded one after the other *)

filters == call.f

\* TED is asked only if there is a text or a code to ask for.
AfterFeed == IF filters.text # None \/ filters.cpvs # {} THEN "ted" ELSE Dispatch(filters)

ReadFeed ==
  /\ pc = "feed"
  /\ \/ ~config.feed /\ Goto(AfterFeed) /\ UNCHANGED fetch
     \/ /\ config.feed /\ Goto("store")
        /\ \E feed \in Feeds : fetch' = [NoFetch EXCEPT !.source = "placsp", !.batch = PlacspResult(feed, filters)]
  /\ UNCHANGED <<store, config, call, got, seen, answer, writes>>

\* What TED finds may have changed since the page before.
Replies ==
  {[index |-> index, page |-> Parsed(TedPage(TedFinds(index, TedQuery(filters)), fetch.page, filters))] : index \in Indexes}

ReadTed ==
  /\ pc = "ted" /\ TedSupports(filters)
  /\ \E reply \in Replies :
       LET tenders == fetch.tenders \o reply.page
           done    == IsLast(reply.page, filters) \/ Len(tenders) >= filters.limit
       IN  /\ fetch' = [source |-> "ted", tenders |-> tenders, indexes |-> fetch.indexes \cup {reply.index},
                        batch |-> IF done THEN TedResult(tenders, filters) ELSE <<>>,
                        page  |-> IF done THEN fetch.page ELSE fetch.page + 1]
           /\ Goto(IF done THEN "store" ELSE "ted")
  /\ UNCHANGED <<store, config, call, got, seen, answer, writes>>

\* upsert_tenders: what comes last in a batch stays.
Upserted(table, batch) ==
  [i \in Ids |-> IF i \in Members(batch) THEN batch[Max({k \in 1..Len(batch) : batch[k].id = i})].row ELSE table[i]]

\* upsert_embeddings deletes what a tender has, and inserts all that the batch holds of it.
Replaced(table, items) ==
  LET new(i) == Pick(items, {k \in 1..Len(items) : items[k].id = i})
  IN  [i \in Ids |-> IF new(i) = <<>> THEN table[i] ELSE [k \in 1..Len(new(i)) |-> new(i)[k].row]]

AfterStore == IF fetch.source = "placsp" THEN AfterFeed ELSE Dispatch(filters)

Stored(label) ==
  /\ Goto(label)
  /\ fetch' = IF label = "vectors" THEN fetch ELSE NoFetch

StoreTenders ==
  /\ pc = "store"
  /\ rows' = Upserted(rows, fetch.batch)
  /\ Stored(IF config.embedder /\ fetch.batch # <<>> THEN "vectors" ELSE AfterStore)
  /\ UNCHANGED <<vectors, config, call, got, seen, answer, writes>>

\* A failure of the embedder is logged and passed over, and so are vectors that are empty.
StoreVectors ==
  /\ pc = "vectors"
  /\ \E places \in SUBSET (1..Len(fetch.batch)) : vectors' = Replaced(vectors, Pick(fetch.batch, places))
  /\ Stored(AfterStore)
  /\ UNCHANGED <<rows, config, call, got, seen, answer, writes>>

----------------------------------------------------------------------------
(* The search *)

\* Mutant: the search is called again, not the lexical one.
SearchAgain(f) == Dispatch(f)

\* Where a hybrid search goes on that has no embeddings to use.
Fallback(f) == "lexical"

Move(label) ==
  /\ Goto(label)
  /\ UNCHANGED <<store, config, call, fetch, got, seen, answer, writes>>

\* There is no embedder, or it returns no vector.
EmbedQuery ==
  /\ pc = "embed"
  /\ \/ config.embedder /\ Move("check")
     \/ filters.mode = "semantic" /\ Error("embeddings_disabled")
     \/ filters.mode = "hybrid" /\ Move(Fallback(filters))

CheckPgvector ==
  /\ pc = "check"
  /\ \/ config.pgvector /\ Move(IF filters.mode = "semantic" THEN "nearest" ELSE "fuse")
     \/ ~config.pgvector /\ filters.mode = "semantic" /\ Error("pgvector_unavailable")
     \/ ~config.pgvector /\ filters.mode = "hybrid" /\ Move(Fallback(filters))

ReadLexical ==
  /\ pc = "lexical" /\ ~BackendMissing(filters)
  /\ \E s \in Selections(filters) : Answer("none", SearchTenders(s, filters), None, "lexical")

\* A SELECT that others follow.
Look == seen' = IF seen = None THEN writes ELSE seen

ReadLexicalSide ==
  /\ pc = "fuse" /\ ~BackendMissing(filters)
  /\ \E s \in Selections(LexicalFilter(filters)) :
       got' = [got EXCEPT !.lexical = SearchTenders(s, LexicalFilter(filters))]
  /\ Look /\ Goto("nearest")
  /\ UNCHANGED <<store, config, call, fetch, answer, writes>>

Finish(semantic) ==
  \/ filters.mode = "semantic" /\ Answer("none", Slice(semantic, filters), None, "semantic")
  \/ /\ filters.mode = "hybrid"
     /\ \E fused \in {Fuse(got.lexical, semantic)} : Answer("none", HybridResults(fused, filters), None, "hybrid")

ReadNearest ==
  /\ pc = "nearest"
  /\ \E nearest \in Nearest(filters) :
       \/ nearest = <<>> /\ Finish(<<>>)
       \/ /\ nearest # <<>> /\ got' = [got EXCEPT !.nearest = nearest]
          /\ Look /\ Goto("records")
          /\ UNCHANGED <<store, config, call, fetch, answer, writes>>

ReadRecords ==
  /\ pc = "records"
  /\ \E semantic \in Records(got.nearest) : Finish(semantic)

\* get_recent_tenders
ReadRecent ==
  /\ pc = "recent"
  /\ LET recent == {i \in Ids : rows[i] # None /\ (filters.sources # {} => rows[i].source \in filters.sources)}
     IN  \E o \in Orders(recent, {p \in recent \X recent : Newer(rows[p[1]], rows[p[2]])}) :
           Answer("none", [k \in 1..Len(Firsts(o, filters.limit)) |-> [id |-> o[k], row |-> rows[o[k]]]], None, "recent")

ReadFacets ==
  /\ pc = "facets"
  /\ \E ids \in FacetRows(filters) : Answer("none", <<>>, Facets(ids), "facets")

----------------------------------------------------------------------------
(* Other processes ingest tenders, and embed them some time later. *)

Write(i, r) ==
  /\ writes < MaxWrites /\ writes' = writes + 1 /\ rows[i] # r
  /\ rows' = [rows EXCEPT ![i] = r]
  /\ UNCHANGED <<vectors, config, pc, call, fetch, got, seen, answer>>

\* A call of upsert_embeddings does not delete what a call it overlaps inserts.
Embed(i) ==
  /\ writes < MaxWrites /\ writes' = writes + 1 /\ rows[i] # None
  /\ \E entries \in {<<rows[i]>>, Append(vectors[i], rows[i])} :
       entries # vectors[i] /\ vectors' = [vectors EXCEPT ![i] = entries]
  /\ UNCHANGED <<rows, config, pc, call, fetch, got, seen, answer>>

Refresh == ReadFeed \/ ReadTed \/ StoreTenders \/ StoreVectors
Search  == EmbedQuery \/ CheckPgvector \/ ReadLexical \/ ReadLexicalSide \/ ReadNearest \/ ReadRecords
Step    == Refresh \/ Search \/ ReadRecent \/ ReadFacets \/ Raise

Next ==
  \/ Ready /\ \E c \in Calls : Ask(c)
  \/ Receive
  \/ Step
  \/ \E i \in Ids : Embed(i) \/ \E r \in Snapshots : Write(i, r)

\* Every await ends, and the event loop resumes the call.
Spec == Init /\ [][Next]_vars /\ WF_vars(Step)

----------------------------------------------------------------------------
(* The pages of a search are slices of one ranking of all that matches. *)

Matching(a) == {i \in Ids : a.rows[i] # None /\ SqlMatches(a.rows[i], a.call.f) /\ HasText(a.rows[i], a.call.f)}
Vectors(a)  == {i \in Ids : a.rows[i] # None /\ a.vectors[i] # <<>> /\ SqlMatches(a.rows[i], a.call.f)}

\* What the client asked to be ranked by.
LexicalBefore(a, i, j) ==
  LET f == a.call.f
      r == a.rows[i]
      s == a.rows[j]
      above(x, y) == IF f.order = "desc" THEN x > y ELSE x < y
  IN  IF f.orderBy # "score" THEN above(Attribute(r, f), Attribute(s, f))
      ELSE IF f.text = None THEN above(Score(r, f, Now), Score(s, f, Now))
      ELSE IF f.order = "desc" THEN Ranked(r, s, f) ELSE Ranked(s, r, f)

\* Every embedding of the one is nearer than any of the other.
SemanticBefore(a, i, j) ==
  \A m \in DOMAIN a.vectors[i], n \in DOMAIN a.vectors[j] :
    Distance[a.call.f.text][a.vectors[i][m]] < Distance[a.call.f.text][a.vectors[j][n]]

IsFull(results, S, f) == Len(results) = Max({0, Min({f.limit, Cardinality(S) - f.offset})})

IsSlice(results, S, before(_, _), f) ==
  \A k \in 1..Len(results) :
    results[k].id \in S /\ Cardinality({j \in S : before(j, results[k].id)}) = f.offset + k - 1

Ties(S, before(_, _)) == \E i \in S, j \in S : i # j /\ ~before(i, j) /\ ~before(j, i)

Answered == answer # None /\ answer.error = "none"

\* The page a lexical or semantic search answers is the one asked for of the ranking of
\* all tenders that match: pages neither repeat nor skip a tender.  Except for ties,
\* offsets beyond the largest, filters that PostgreSQL and Python read differently, and
\* rankings that are not the one of the SELECT, where more tenders match than its window
\* holds.  Where a tender has several embeddings, as LIMIT counts those, a semantic page
\* may hold less than it should, or nothing, but each of its tenders still has its place;
\* if some of them lie between those of another tender, the two are tied.
\* (The window of a hybrid search grows with the page: it promises nothing.)
PagesAreSlices ==
  Answered /\ answer.steady /\ answer.path \in {"lexical", "semantic"} =>
    LET f      == answer.call.f
        within == \/ Cardinality(Matching(answer)) <= CandidateLimit([f EXCEPT !.offset = 0])
                  \/ f.text # None /\ f.orderBy = "score" /\ f.order = "desc"
        lexical(i, j)  == LexicalBefore(answer, i, j)
        semantic(i, j) == SemanticBefore(answer, i, j)
    IN  answer.call.asked.offset <= MaxOffset /\ Plain(f) =>
          IF answer.path = "lexical"
          THEN within /\ ~Ties(Matching(answer), lexical) =>
                 IsSlice(answer.results, Matching(answer), lexical, f) /\ IsFull(answer.results, Matching(answer), f)
          ELSE ~Ties(Vectors(answer), semantic) =>
                 /\ IsSlice(answer.results, Vectors(answer), semantic, f)
                 /\ (\A i \in Vectors(answer) : Len(answer.vectors[i]) = 1) => IsFull(answer.results, Vectors(answer), f)

\* Every tender in a response fits the filter, though a semantic search selects ids by it
\* and reads the tenders afterwards: except where one was written in between.
ResultsFit ==
  Answered /\ Plain(answer.call.f) /\ (answer.path = "semantic" => answer.steady) =>
    \A k \in 1..Len(answer.results) : PyMatches(answer.results[k].row, answer.call.f)

\* A hybrid search that no write comes between returns what one of its sides found, no
\* tender twice, and the one that is first on both sides first.
HybridIsFused ==
  Answered /\ answer.steady /\ answer.path = "hybrid" /\ Plain(answer.call.f) =>
    LET f == answer.call.f
        first(S, before(_, _)) == {i \in S : \A j \in S \ {i} : before(i, j)}
        ranked(i, j)  == Ranked(answer.rows[i], answer.rows[j], f)
        distance(i, j) == SemanticBefore(answer, i, j)
        both == first(Matching(answer), ranked) \cap first(Vectors(answer), distance)
    IN  /\ \A j, k \in 1..Len(answer.results) : j # k => answer.results[j].id # answer.results[k].id
        /\ Members(answer.results) \subseteq Matching(answer) \cup Vectors(answer)
        /\ both # {} /\ f.orderBy = "score" /\ f.order = "desc" /\ f.offset = 0 =>
             Len(answer.results) > 0 /\ answer.results[1].id \in both

\* The filter with one value in place of what it had in a field.
With(f, field, v) ==
  CASE field \in ExactFields -> [f EXCEPT !.exact[field] = {v}]
    [] field = "status" -> [f EXCEPT !.statuses = {v}]
    [] field = "source" -> [f EXCEPT !.sources = {v}]
    [] field = "cpv"    -> [f EXCEPT !.cpvs = {v}]
    [] field = "prefix" -> [f EXCEPT !.prefixes = {v}]
    [] field = "nuts"   -> [f EXCEPT !.nuts = {v}]
    [] field = "region" -> [f EXCEPT !.regions = {v}]
    [] field = "buyer"  -> [f EXCEPT !.buyer = v]

\* No tender has a NUTS code that is listed as a value but written with other characters.
AsWritten(a, field, v) ==
  field = "nuts" => \A i \in Ids : a.rows[i] # None => \A c \in a.rows[i].nuts : Alphanumeric(c) = v => c = v

\* A value listed among the filter options finds a tender when it is chosen, and at least
\* as many as it is listed with; only the counts of sectors count codes, not tenders.
\* Except for a NUTS code that is stored with punctuation: the list and the filter leave
\* it out, the comparison with what is stored does not.
FacetsLeadSomewhere ==
  Answered /\ answer.path = "facets" =>
    \A field \in Fields : \A facet \in answer.facets[field] :
      LET g     == BuildFilters(With(answer.call.f, field, facet.value))
          found == {i \in Ids : /\ answer.rows[i] # None /\ HasText(answer.rows[i], g)
                                /\ SqlMatches(answer.rows[i], g) /\ PyMatches(answer.rows[i], g)}
      IN  Plain(g) /\ AsWritten(answer, field, facet.value) =>
            found # {} /\ (field # "prefix" => Cardinality(found) >= facet.count)

\* A walk through the pages of TED that ends before the limit has found every tender that
\* TED finds for its query, if TED answered all pages alike and every notice is readable.
FetchIsWhole ==
  pc = "store" /\ fetch.source = "ted" /\ Len(fetch.tenders) < filters.limit =>
    \A index \in fetch.indexes :
      fetch.indexes = {index} /\ (\A k \in 1..Len(index) : index[k] # Unreadable) =>
        fetch.batch = Kept(TedFinds(index, TedQuery(filters)), filters)

\* Every call is answered.
SearchesEnd == pc # "answered" ~> pc = "answered"

=============================================================================
