---------------------------- MODULE SourceFetch ----------------------------
(***************************************************************************)
(* What the clients of the sources make of what the sources send: which    *)
(* notices become tenders, when the pages of TED end, and what is kept.    *)
(***************************************************************************)
EXTENDS TenderFilter

CONSTANTS
  Unreadable,   \* a notice without an identifier or a title, or a feed that is no XML
  HomeCountry,  \* the country searched where the filter names none
  TedCountries, \* the countries that TED has a code for
  Finds,        \* Finds[text]: the rows a search for a text finds, here and at TED
  Naming,       \* the texts that name a buyer-country
  TedMaxPage    \* the most notices TED is asked for at a time

ASSUME PageAssumption == TedMaxPage \in Nat \ {0}

\* build_ted_search_payload raises where TED has no code for the country.
TedCountry(f)  == IF f.country = None THEN HomeCountry ELSE f.country
TedSupports(f) == TedCountry(f) \in TedCountries

\* The parts of the query are joined by AND: a notice has to have every CPV code and
\* every region of the filter, and to be of the country unless a part names one itself.
\* Buyers, NUTS codes, dates and values are not asked for.
TedQuery(f) ==
  [text |-> f.text, cpvs |-> f.cpvs, regions |-> f.regions, notices |-> f.exact["notice"],
   country |-> IF Naming \cap ({f.text} \cup f.regions \cup f.exact["notice"]) = {} THEN TedCountry(f) ELSE None]

\* What TED finds for a query.
TedFinds(index, q) ==
  Pick(index, {k \in 1..Len(index) : index[k] = Unreadable \/
    LET r == index[k].row
    IN  /\ q.country # None => r.country = q.country
        /\ q.cpvs \subseteq r.cpv
        /\ q.text # None => r \in Finds[q.text]
        /\ q.notices # {} => r.exact["notice"] \in q.notices
        /\ \A p \in q.regions : r.region # None /\ <<p, r.region>> \in Like})

TedPageLimit(f) == Clamped(f.limit, 1, TedMaxPage)

\* A page of what TED finds: the API counts pages from 1.
TedPage(found, page, f) ==
  SubSeq(found, (page - 1) * TedPageLimit(f) + 1, Min({page * TedPageLimit(f), Len(found)}))

\* parse_ted_search_response and parse_placsp_atom pass over what they cannot read.
Parsed(notices) == Pick(notices, {k \in 1..Len(notices) : notices[k] # Unreadable})

\* Mutant: a full page is taken for the last one.
FullIsLast(tenders, f) == Len(tenders) <= TedPageLimit(f)

\* A page that yields fewer tenders than it may hold is taken for the last one.
IsLast(tenders, f) == Len(tenders) < TedPageLimit(f)

Kept(tenders, f) == Pick(tenders, {k \in 1..Len(tenders) : PyMatches(tenders[k].row, f)})

\* TEDClient.fetch filters what all the pages held, then cuts.
TedResult(tenders, f) == SubSeq(Kept(tenders, f), 1, Min({f.limit, Len(Kept(tenders, f))}))

\* PLACSPClient.fetch takes all of the feed.
PlacspResult(feed, f) == Kept(Parsed(feed), f)
=============================================================================
