---------------------------- MODULE TenderFilter ----------------------------
(***************************************************************************)
(* What a search asks for: the filters as the tools build them, the rows   *)
(* PostgreSQL selects by them, the tenders Python keeps of those, and the  *)
(* score that ranks tenders when there is no text to rank them by.         *)
(***************************************************************************)
EXTENDS Integers, Sequences, SequencesExt

CONSTANTS
  Statuses, Sources, Countries, \* the values of the enums, and the country codes known
  Open,      \* the status open
  Texts,     \* names of regions, buyers and types, without needless white space
  Lower,     \* [Texts -> Texts]: a text in lower case
  Fold,      \* [Texts -> Texts]: fold_text of a text, lower case and ASCII only
  Blank,     \* the empty text, which fold_text makes of a text without ASCII
  Like,      \* the pairs <<p, v>> with v ILIKE '%p%'
  Part,      \* the pairs <<p, v>> with p in v, for folded texts
  Wild,      \* the texts with a character that ILIKE takes as a wildcard or an escape
  Alnum,     \* the ASCII letters and digits, without regard to case; a digit is its number
  Chars,     \* the characters that occur in the NUTS codes of the sources
  MaxLimit,  \* MAX_TENDER_SEARCH_LIMIT
  MaxOffset, \* MAX_TENDER_SEARCH_OFFSET
  DayLength, \* instants of a day
  Ahead,     \* how far the time zone of the database sessions is ahead of UTC
  None       \* NULL

ASSUME TextAssumption ==
  /\ Blank \in Texts
  /\ Lower \in [Texts -> Texts] /\ Fold \in [Texts -> Texts] /\ Fold[Blank] = Blank
  /\ Like \subseteq Texts \X Texts /\ Part \subseteq Texts \X Texts /\ None \notin Texts
  /\ \A v \in Texts : <<Blank, v>> \in Part
\* Lower case stays lower case, and two texts equal but for case fold to the same text; a
\* text without wildcards is found in itself, and where it is found it is found folded.
ASSUME LowerAssumption ==
  \A p, v \in Texts : Lower[Lower[v]] = Lower[v] /\ (Lower[p] = Lower[v] => Fold[p] = Fold[v])
ASSUME LikeAssumption ==
  \A p \in Texts \ Wild, v \in Texts : <<p, p>> \in Like /\ (<<p, v>> \in Like => <<Fold[p], Fold[v]>> \in Part)
ASSUME CharsAssumption == Alnum \subseteq Chars
ASSUME DayAssumption   == DayLength \in Nat \ {0} /\ Ahead \in (1 - DayLength)..(DayLength - 1)
ASSUME NoneAssumption  == None \notin Int /\ None \notin Countries
ASSUME LimitAssumption == MaxLimit \in Nat \ {0} /\ MaxOffset \in Nat

ExactFields == {"procedure", "contract", "notice", "dataset"}
DateFields  == {"published", "deadline"}

\* A row of tenders, as far as filters and scores look at it.  Codes are sequences of characters:
\* CPV codes are normalised before they are stored, NUTS codes stay as the source writes them.
TenderRows ==
  [status : Statuses, source : Sources, country : Countries,
   cpv : SUBSET Seq(Alnum), nuts : SUBSET Seq(Chars),
   region : Texts \cup {None}, buyer : Texts \cup {None},
   exact : [ExactFields -> Texts \cup {None}], at : [DateFields -> Int \cup {None}], value : Int \cup {None}]

\* The structured part of a TenderFilters; days and values are None where not asked for.
FilterFields(f) ==
  /\ f.onlyOpen \in BOOLEAN /\ f.statuses \subseteq Statuses /\ f.sources \subseteq Sources
  /\ f.country \in Countries \cup {None}
  /\ f.regions \subseteq Texts /\ f.buyer \in Texts \cup {None}
  /\ f.exact \in [ExactFields -> SUBSET Texts]
  /\ f.from \in [DateFields -> Int \cup {None}] /\ f.to \in [DateFields -> Int \cup {None}]
  /\ f.least \in Int \cup {None} /\ f.most \in Int \cup {None}

----------------------------------------------------------------------------
(* Sequences *)

\* The members of a finite set in the order of a relation that is strict and total on it.
Ranking(S, R) ==
  [k \in 1..Cardinality(S) |-> CHOOSE x \in S : Cardinality({y \in S : <<y, x>> \in R}) = k - 1]

Less == {p \in Nat \X Nat : p[1] < p[2]}

\* The items of a sequence at some of its places, in their order.
Pick(s, places) ==
  LET ranks == Ranking(places, Less) IN [k \in 1..Cardinality(places) |-> s[ranks[k]]]

----------------------------------------------------------------------------
(* _build_filters. *)

Clamped(n, low, high) == IF n < low THEN low ELSE IF n > high THEN high ELSE n

\* normalize_cpv_code and normalize_cpv_prefix: what is no code is dropped.
IsDigits(c) == \A k \in 1..Len(c) : c[k] \in 0..9
CpvCodes(S)    == {c \in S : Len(c) = 8 /\ IsDigits(c)}
CpvPrefixes(S) == {c \in S : Len(c) \in 2..8 /\ IsDigits(c)}

\* An unknown country, mode or order makes the arguments invalid.
ValidArguments(a) ==
  /\ a.country \in Countries \cup {None}
  /\ a.mode \in {"keyword", "semantic", "hybrid"}
  /\ a.orderBy \in {"score", "value"} \cup DateFields /\ a.order \in {"asc", "desc"}

\* Unknown statuses and sources, and texts that are empty (None), are dropped in silence:
\* a list that held nothing else does not restrict the search.
BuildFilters(a) ==
  [a EXCEPT !.statuses = @ \cap Statuses, !.sources = @ \cap Sources,
            !.cpvs = CpvCodes(@), !.prefixes = CpvPrefixes(@),
            !.regions = @ \ {None}, !.exact = [x \in ExactFields |-> @[x] \ {None}],
            !.limit = Clamped(@, 1, MaxLimit), !.offset = Clamped(@, 0, MaxOffset)]

\* _alnum_prefix and _sanitize_sql_prefixes: a code is compared without punctuation.
Alphanumeric(c) == Pick(c, {k \in 1..Len(c) : c[k] \in Alnum})
NutsPrefixes(f) == {Alphanumeric(p) : p \in f.nuts} \ {<<>>}

----------------------------------------------------------------------------
(* _apply_structured_filters: the rows that PostgreSQL selects.  A comparison with NULL is not true. *)

AtLeast(bound, value) == bound # None => value # None /\ value >= bound
AtMost(bound, value)  == bound # None => value # None /\ value <= bound

\* A date compared with a timestamptz is its midnight in the time zone of the session.
Midnight(day) == IF day = None THEN None ELSE day * DayLength - Ahead

HasPrefix(codes, prefixes) == \E c \in codes, p \in prefixes : IsPrefix(p, c)

SqlText(r, f) ==
  /\ f.buyer # None => r.buyer # None /\ <<f.buyer, r.buyer>> \in Like
  /\ f.regions # {} => r.region # None /\ \E p \in f.regions : <<p, r.region>> \in Like
  /\ \A x \in ExactFields : f.exact[x] # {} =>
       r.exact[x] # None /\ \E v \in f.exact[x] : Lower[v] = Lower[r.exact[x]]

SqlMatches(r, f) ==
  /\ f.sources # {} => r.source \in f.sources
  /\ f.statuses # {} => r.status \in f.statuses
  /\ f.onlyOpen => r.status = Open
  /\ f.country # None => r.country = f.country
  /\ \A d \in DateFields : AtLeast(Midnight(f.from[d]), r.at[d]) /\ AtMost(Midnight(f.to[d]), r.at[d])
  /\ AtLeast(f.least, r.value) /\ AtMost(f.most, r.value)
  /\ f.cpvs # {} => r.cpv \cap f.cpvs # {}
  /\ f.prefixes # {} => HasPrefix(r.cpv, f.prefixes)
  /\ NutsPrefixes(f) # {} => HasPrefix(r.nuts, NutsPrefixes(f))
  /\ SqlText(r, f)

----------------------------------------------------------------------------
(* tender_matches_filters: the tenders that Python keeps. *)

\* _cpv_score in quarters: codes are close if they share a division, a group or a category.
Closeness(c, w) ==
  LET shared(n) == SubSeq(c, 1, n) = SubSeq(w, 1, n)
  IN  CASE c = w                           -> 4
        [] c # w /\ shared(5)              -> 3
        [] ~shared(5) /\ shared(3)         -> 2
        [] ~shared(3) /\ shared(2)         -> 1
        [] OTHER                           -> 0

CpvOverlaps(codes, wanted) == \E c \in codes, w \in wanted : Closeness(c, w) > 0

Folded(v) == IF v = None THEN Blank ELSE Fold[v]

\* date(): the day in UTC.
Day(t) == IF t = None THEN None ELSE t \div DayLength

\* A region fits if it contains what is wanted or the other way round, a NULL one always.
PyText(r, f) ==
  /\ f.buyer # None => <<Fold[f.buyer], Folded(r.buyer)>> \in Part
  /\ f.regions # {} => \E p \in f.regions : {<<Fold[p], Folded(r.region)>>, <<Folded(r.region), Fold[p]>>} \cap Part # {}
  /\ \A x \in ExactFields : f.exact[x] # {} =>
       Folded(r.exact[x]) # Blank /\ \E v \in f.exact[x] : Fold[v] = Folded(r.exact[x])

PyMatches(r, f) ==
  /\ f.onlyOpen => r.status = Open
  /\ f.statuses # {} => r.status \in f.statuses
  /\ f.sources # {} => r.source \in f.sources
  /\ f.country # None => r.country = f.country
  /\ f.cpvs # {} => CpvOverlaps(r.cpv, f.cpvs)
  /\ f.prefixes # {} => HasPrefix(r.cpv, f.prefixes)
  /\ NutsPrefixes(f) # {} => HasPrefix(r.nuts, NutsPrefixes(f))
  /\ PyText(r, f)
  /\ \A d \in DateFields : AtLeast(f.from[d], Day(r.at[d])) /\ AtMost(f.to[d], Day(r.at[d]))
  /\ AtLeast(f.least, r.value) /\ AtMost(f.most, r.value)

\* A filter without wildcards and without a type that folds to nothing.
Plain(f) ==
  /\ f.buyer \notin Wild /\ f.regions \cap Wild = {}
  /\ \A x \in ExactFields : \A v \in f.exact[x] : Fold[v] # Blank

----------------------------------------------------------------------------
(* score_tender without a text, in quarters of a point: the code multiplies *)
(* the closeness of the CPV codes, a quarter at a time, by 35.              *)

CpvScore(codes, wanted) == Max({0} \cup {Closeness(c, w) : c \in codes, w \in wanted})

\* The days left until an active deadline count up to seven.
Urgency(t, now) ==
  LET left == (t - now) \div DayLength
  IN  IF left < 0 THEN 0 ELSE 7 - Clamped(left, 0, 7)

Score(r, f, now) ==
  LET points(holds, n) == IF holds THEN 4 * n ELSE 0
  IN  35 * CpvScore(r.cpv, f.cpvs)
      + points(HasPrefix(r.cpv, f.prefixes), 18)
      + points(f.regions # {} /\ r.region # None, 10)
      + points(f.buyer # None /\ r.buyer # None, 8)
      + points(r.status = Open, 8)
      + points(r.at["deadline"] # None, IF r.at["deadline"] = None THEN 0 ELSE Urgency(r.at["deadline"], now))
=============================================================================
