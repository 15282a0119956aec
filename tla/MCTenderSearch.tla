--------------------------- MODULE MCTenderSearch ---------------------------
(***************************************************************************)
(* TenderSearch for TLC: three tenders that differ in what the filters     *)
(* look at, windows of one to four rows, pages of one notice at TED.       *)
(***************************************************************************)
EXTENDS TenderSearch

MCTexts == {"", "works", "Works", "norte", "costa norte"}
MCLower == [v \in MCTexts |-> IF v = "Works" THEN "works" ELSE v]
MCPart  == {<<p, v>> \in MCTexts \X MCTexts : p \in {"", v} \/ <<p, v>> = <<"norte", "costa norte">>}
MCLike  == {<<p, v>> \in MCTexts \X MCTexts : <<MCLower[p], MCLower[v]>> \in MCPart}

Roads    == <<4, 5, 2, 3, 0, 0, 0, 0>>
Building == <<4, 5, 2, 1, 0, 0, 0, 0>>
Desks    == <<3, 9, 1, 2, 0, 0, 0, 0>>

Row(status, cpv, nuts, region, type, published, value) ==
  [status |-> status, source |-> "ted", country |-> "ES", cpv |-> cpv, nuts |-> nuts, region |-> region, buyer |-> "norte",
   exact |-> [x \in ExactFields |-> IF x = "contract" THEN type ELSE None],
   at |-> [published |-> published, deadline |-> IF status = "open" THEN 35 ELSE None], value |-> value]

A == Row("open", {Roads, Building}, {<<3, 0>>}, "norte", "works", 12, 1)
B == Row("open", {Building}, {<<3, 36, 1>>}, "costa norte", "Works", 27, None)
C == Row("closed", {Desks}, {<<5, 1>>}, None, None, None, 2)
D == [A EXCEPT !.status = "closed", !.at = [published |-> 31, deadline |-> None]]

MCRows      == {A, B, C, D}
MCStores    == {[i \in Ids |-> <<A, B, C>>[i]], [i \in Ids |-> <<B, A, None>>[i]], [i \in Ids |-> <<D, A, B>>[i]]}
MCSnapshots == {D}
MCFinds     == [q \in {"q"} |-> {A, B, D}]
MCRelevance == [q \in {"q"} |-> [r \in MCRows |-> IF r = B THEN 2 ELSE IF r = C THEN 0 ELSE 1]]
MCDistance  == [q \in {"q"} |-> [r \in MCRows |-> CASE r = A -> 1 [] r = B -> 2 [] r = C -> 3 [] r = D -> 3]]

Entry(i, r) == [id |-> i, row |-> r]
MCFeeds   == {<<Entry(1, A), Entry(1, D)>>}
MCIndexes == {<<Entry(1, A), Entry(3, B)>>, <<Entry(2, B), Unreadable, Entry(1, A)>>}

MCConfigs ==
  {[feed |-> TRUE, embedder |-> TRUE, pgvector |-> TRUE, backend |-> "bm25", bm25 |-> TRUE],
   [feed |-> FALSE, embedder |-> TRUE, pgvector |-> FALSE, backend |-> "bm25", bm25 |-> FALSE],
   [feed |-> FALSE, embedder |-> FALSE, pgvector |-> FALSE, backend |-> "fts", bm25 |-> FALSE]}

Page(k)  == [Defaults EXCEPT !.limit = 1, !.offset = k]
Texted   == [Defaults EXCEPT !.text = "q", !.limit = 1]
Mode(m)  == [Texted EXCEPT !.mode = m, !.onlyOpen = TRUE]
Call(tool, args) == [tool |-> tool, args |-> args]

MCCalls ==
  {Call("search", a) : a \in
     {Page(k) : k \in {0, 1}} \cup {[Texted EXCEPT !.offset = k] : k \in {0, 1, 3}}
     \cup {[Page(k) EXCEPT !.cpvs = {Roads}, !.regions = {"norte"}, !.onlyOpen = TRUE] : k \in {0, 1}}
     \cup {[Page(0) EXCEPT !.orderBy = o, !.from["published"] = 1, !.statuses = {"open", "void"}] : o \in {"value", "published"}}
     \cup {[Texted EXCEPT !.order = "asc", !.limit = 2], [Mode("semantic") EXCEPT !.offset = 1], Mode("semantic"),
           Mode("hybrid"), [Mode("hybrid") EXCEPT !.limit = 2], [Defaults EXCEPT !.country = "XX"],
           [Mode("hybrid") EXCEPT !.refresh = TRUE, !.limit = 2],
           [Defaults EXCEPT !.exact["contract"] = {"works"}, !.nuts = {<<3, 36>>}]}}
  \cup {Call("match", [Texted EXCEPT !.onlyOpen = TRUE, !.refresh = TRUE, !.regions = {"norte"}]),
        Call("export", [Texted EXCEPT !.prefixes = {<<4, 5>>}, !.limit = 2]), Call("semantic", Texted),
        Call("recent", [Defaults EXCEPT !.sources = {"ted"}]), Call("recent", [Defaults EXCEPT !.sources = {"void"}]),
        Call("facets", Defaults), Call("facets", [Texted EXCEPT !.onlyOpen = TRUE]), Call("facets", [Defaults EXCEPT !.country = "XX"])}
=============================================================================
