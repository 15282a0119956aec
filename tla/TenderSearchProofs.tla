------------------------- MODULE TenderSearchProofs -------------------------
(***************************************************************************)
(* Searches answer what was asked for.  PostgreSQL selects a window of     *)
(* candidates and Python drops those that do not fit the filter: the first *)
(* part shows that there is nothing to drop, so that a page is not thinned *)
(* after it was cut.  The next parts show that ordering and cutting a list *)
(* neither loses nor repeats a tender, and the invariants of a call on its *)
(* way.  Then, each with what it needs: the walk through TED, what is in a *)
(* response, the filter options, the fusion of two sides, and the pages.   *)
(***************************************************************************)
EXTENDS TenderSearch, FunctionTheorems, FiniteSetTheorems, SequenceTheorems, TLAPS

(* The filter *)

\* The instants from a midnight on lie on that day or later.
LEMMA MidnightReached == \A day, t \in Int : t >= day * DayLength => t \div DayLength >= day
<1> SUFFICES ASSUME NEW day \in Int, NEW t \in Int, t >= day * DayLength, t \div DayLength < day
             PROVE  FALSE
  BY DayAssumption
<1> DEFINE q == t \div DayLength
<1>1. q \in Int /\ t < (q + 1) * DayLength
  BY DayAssumption, Z3
<1>2. (q + 1) * DayLength <= day * DayLength
  BY <1>1, DayAssumption, Z3
<1> QED
  BY <1>1, <1>2, DayAssumption

\* The instants less than a day after a midnight lie on that day or before.
LEMMA MidnightPassed == \A day, t \in Int : t < (day + 1) * DayLength => t \div DayLength <= day
<1> SUFFICES ASSUME NEW day \in Int, NEW t \in Int, t < (day + 1) * DayLength, t \div DayLength > day
             PROVE  FALSE
  BY DayAssumption
<1> DEFINE q == t \div DayLength
<1>1. q \in Int /\ q * DayLength <= t
  BY DayAssumption, Z3
<1>2. (day + 1) * DayLength <= q * DayLength
  BY <1>1, DayAssumption, Z3
<1> QED
  BY <1>1, <1>2, DayAssumption

\* A CPV code that is wanted is as close as can be to itself.
LEMMA SameCode == \A codes, wanted : codes \cap wanted # {} => CpvOverlaps(codes, wanted)
<1> SUFFICES ASSUME NEW codes, NEW wanted, NEW c \in codes \cap wanted PROVE Closeness(c, c) > 0
  BY DEF CpvOverlaps
<1> QED
  BY DEF Closeness

\* The texts: names, regions and types that PostgreSQL finds, Python finds in folded form.
LEMMA TextsKept ==
  ASSUME NEW r \in TenderRows, NEW f, FilterFields(f), Plain(f), SqlText(r, f)
  PROVE  PyText(r, f)
<1>1. f.buyer # None => <<Fold[f.buyer], Folded(r.buyer)>> \in Part
  BY LikeAssumption DEF SqlText, Plain, FilterFields, TenderRows, Folded
<1>2. ASSUME f.regions # {}
      PROVE  \E p \in f.regions : {<<Fold[p], Folded(r.region)>>, <<Folded(r.region), Fold[p]>>} \cap Part # {}
  <2>1. PICK p \in f.regions : r.region # None /\ <<p, r.region>> \in Like
    BY <1>2 DEF SqlText
  <2>2. <<Fold[p], Folded(r.region)>> \in Part
    BY <2>1, LikeAssumption DEF Plain, FilterFields, TenderRows, Folded
  <2> QED
    BY <2>2
<1>3. ASSUME NEW x \in ExactFields, f.exact[x] # {}
      PROVE  Folded(r.exact[x]) # Blank /\ \E v \in f.exact[x] : Fold[v] = Folded(r.exact[x])
  <2>1. PICK v \in f.exact[x] : r.exact[x] # None /\ Lower[v] = Lower[r.exact[x]]
    BY <1>3 DEF SqlText
  <2>2. v \in Texts /\ r.exact[x] \in Texts
    BY <1>3, <2>1 DEF FilterFields, TenderRows
  <2>3. Fold[v] = Folded(r.exact[x])
    BY <2>1, <2>2, LowerAssumption DEF Folded
  <2> QED
    BY <2>1, <2>3, <1>3 DEF Plain
<1> QED
  BY <1>1, <1>2, <1>3 DEF PyText

\* The dates: no instant PostgreSQL takes for a day lies on another side of it in UTC.
LEMMA DatesKept ==
  ASSUME Ahead <= 0, NEW r \in TenderRows, NEW f, FilterFields(f), NEW d \in DateFields,
         AtLeast(Midnight(f.from[d]), r.at[d]), AtMost(Midnight(f.to[d]), r.at[d])
  PROVE  AtLeast(f.from[d], Day(r.at[d])) /\ AtMost(f.to[d], Day(r.at[d]))
<1> DEFINE from == f.from[d]
           to   == f.to[d]
           t    == r.at[d]
<1>0. /\ from \in Int \cup {None} /\ to \in Int \cup {None} /\ t \in Int \cup {None}
      /\ AtLeast(Midnight(from), t) /\ AtMost(Midnight(to), t)
  BY DEF FilterFields, TenderRows
<1> HIDE DEF from, to, t
<1>1. AtLeast(from, Day(t))
  <2> SUFFICES ASSUME from # None PROVE Day(t) # None /\ Day(t) >= from
    BY DEF AtLeast
  <2>1. from * DayLength \in Int /\ from * DayLength - Ahead # None
    BY <1>0, DayAssumption, NoneAssumption
  <2>2. t \in Int /\ t >= from * DayLength
    BY <1>0, <2>1, DayAssumption DEF AtLeast, Midnight
  <2>3. t # None /\ t \div DayLength \in Int
    BY <2>2, DayAssumption, NoneAssumption
  <2> QED
    BY <1>0, <2>2, <2>3, MidnightReached, NoneAssumption DEF Day
<1>2. AtMost(to, Day(t))
  <2> SUFFICES ASSUME to # None PROVE Day(t) # None /\ Day(t) <= to
    BY DEF AtMost
  <2>1. to * DayLength \in Int /\ to * DayLength - Ahead # None /\ (to + 1) * DayLength = to * DayLength + DayLength
    BY <1>0, DayAssumption, NoneAssumption
  <2>2. t \in Int /\ t < (to + 1) * DayLength
    BY <1>0, <2>1, DayAssumption DEF AtMost, Midnight
  <2>3. t # None /\ t \div DayLength \in Int
    BY <2>2, DayAssumption, NoneAssumption
  <2> QED
    BY <1>0, <2>2, <2>3, MidnightPassed, NoneAssumption DEF Day
<1> QED
  BY <1>1, <1>2 DEF from, to, t

\* What PostgreSQL selects, Python keeps for all but its dates.
LEMMA KeptByDates ==
  ASSUME NEW r \in TenderRows, NEW f, FilterFields(f), Plain(f), SqlMatches(r, f),
         \A d \in DateFields : AtLeast(f.from[d], Day(r.at[d])) /\ AtMost(f.to[d], Day(r.at[d]))
  PROVE  PyMatches(r, f)
<1>1. PyText(r, f)
  BY TextsKept DEF SqlMatches
<1>2. f.cpvs # {} => CpvOverlaps(r.cpv, f.cpvs)
  BY SameCode DEF SqlMatches
<1>3. AtLeast(f.least, r.value) /\ AtMost(f.most, r.value)
  BY DEF SqlMatches
<1> QED
  BY <1>1, <1>2, <1>3 DEF SqlMatches, PyMatches

\* Whatever PostgreSQL selects by a plain filter, tender_matches_filters keeps, if the
\* sessions of the database are not ahead of UTC.
THEOREM SelectedIsKept ==
  ASSUME Ahead <= 0, NEW r \in TenderRows, NEW f, FilterFields(f), Plain(f), SqlMatches(r, f)
  PROVE  PyMatches(r, f)
<1>1. \A d \in DateFields : AtLeast(f.from[d], Day(r.at[d])) /\ AtMost(f.to[d], Day(r.at[d]))
  BY DatesKept DEF SqlMatches
<1> QED
  BY <1>1, KeptByDates

----------------------------------------------------------------------------
(* Rankings and the items of a sequence at some places *)

\* A relation that puts the members of a set in one order.
Linear(S, R) ==
  /\ \A x \in S : <<x, x>> \notin R
  /\ \A x, y \in S : x # y => <<x, y>> \in R \/ <<y, x>> \in R
  /\ \A x, y, z \in S : <<x, y>> \in R /\ <<y, z>> \in R => <<x, z>> \in R

\* A ranking holds every member once, in the order of the relation.
LEMMA RankingIsOrder ==
  ASSUME NEW S, IsFiniteSet(S), NEW R, Linear(S, R)
  PROVE  /\ Cardinality(S) \in Nat
         /\ Ranking(S, R) \in [1..Cardinality(S) -> S]
         /\ \A j, k \in 1..Cardinality(S) : j < k => <<Ranking(S, R)[j], Ranking(S, R)[k]>> \in R
         /\ \A j, k \in 1..Cardinality(S) : Ranking(S, R)[j] = Ranking(S, R)[k] => j = k
         /\ \A x \in S : \E k \in 1..Cardinality(S) : Ranking(S, R)[k] = x
<1> DEFINE n        == Cardinality(S)
           o        == Ranking(S, R)
           below(x) == {y \in S : <<y, x>> \in R}
           b        == [x \in S |-> Cardinality(below(x))]
<1>0. n \in Nat
  BY FS_CardinalityType
<1>1. ASSUME NEW x \in S PROVE IsFiniteSet(below(x)) /\ b[x] \in Nat
  BY FS_Subset, FS_CardinalityType
<1>2. ASSUME NEW x \in S, NEW y \in S, <<x, y>> \in R PROVE b[x] < b[y]
  <2>1. below(x) \cup {x} \in SUBSET below(y) /\ x \notin below(x)
    BY <1>2 DEF Linear
  <2>2. Cardinality(below(x) \cup {x}) = b[x] + 1
    BY <1>1, <2>1, FS_AddElement
  <2>3. Cardinality(below(x) \cup {x}) <= b[y]
    BY <1>1, <2>1, FS_Subset
  <2> QED
    BY <1>1, <2>2, <2>3
<1>3. ASSUME NEW x \in S PROVE b[x] \in 0..(n - 1)
  <2>1. below(x) \in SUBSET (S \ {x})
    BY DEF Linear
  <2>2. IsFiniteSet(S \ {x}) /\ Cardinality(S \ {x}) = n - 1
    BY FS_RemoveElement
  <2> HIDE DEF below, n
  <2>3. /\ IsFiniteSet(below(x)) /\ Cardinality(below(x)) <= Cardinality(S \ {x})
        /\ Cardinality(S \ {x}) = Cardinality(below(x)) => S \ {x} = below(x)
    BY <2>1, <2>2, FS_Subset
  <2>4. b[x] = Cardinality(below(x))
    OBVIOUS
  <2> QED
    BY <1>0, <1>1, <2>2, <2>3, <2>4
<1>4. b \in [S -> 0..(n - 1)]
  BY <1>3
<1> HIDE DEF b
<1>5. \A x, y \in S : b[x] = b[y] => x = y
  <2> SUFFICES ASSUME NEW x \in S, NEW y \in S, b[x] = b[y], x # y PROVE FALSE
    OBVIOUS
  <2>1. <<x, y>> \in R \/ <<y, x>> \in R
    BY DEF Linear
  <2>2. b[x] < b[y] \/ b[y] < b[x]
    BY <1>2, <2>1
  <2>3. b[x] \in Nat
    BY <1>1
  <2> QED
    BY <2>2, <2>3
<1>6. IsFiniteSet(0..(n - 1)) /\ Cardinality(0..(n - 1)) = n
  BY <1>0, FS_Interval
<1>7. \A i \in 0..(n - 1) : \E x \in S : b[x] = i
  <2>1. b \in Injection(S, 0..(n - 1))
    BY <1>4, <1>5, Fun_IsInj
  <2>2. b \in Surjection(S, 0..(n - 1))
    BY <1>6, <2>1, FS_Injection
  <2> QED
    BY <2>2 DEF Surjection
<1>8. ASSUME NEW k \in 1..n PROVE o[k] \in S /\ b[o[k]] = k - 1
  <2>1. k - 1 \in 0..(n - 1)
    BY <1>0
  <2>2. \E x \in S : b[x] = k - 1
    BY <1>7, <2>1
  <2>3. \E x \in S : Cardinality({y \in S : <<y, x>> \in R}) = k - 1
    BY <2>2 DEF b
  <2>4. o[k] = CHOOSE x \in S : Cardinality({y \in S : <<y, x>> \in R}) = k - 1
    BY DEF Ranking
  <2> QED
    BY <2>3, <2>4 DEF b
<1>9. o \in [1..n -> S]
  BY <1>8 DEF Ranking
<1> HIDE DEF n, o
<1>10. \A j, k \in 1..n : j < k => <<o[j], o[k]>> \in R
  <2> SUFFICES ASSUME NEW j \in 1..n, NEW k \in 1..n, j < k, <<o[j], o[k]>> \notin R PROVE FALSE
    OBVIOUS
  <2>1. o[j] \in S /\ o[k] \in S /\ b[o[j]] = j - 1 /\ b[o[k]] = k - 1
    BY <1>8
  <2>2. o[j] # o[k]
    BY <2>1, <1>0
  <2>3. b[o[k]] < b[o[j]]
    BY <2>1, <2>2, <1>2 DEF Linear
  <2> QED
    BY <1>0, <2>1, <2>3
<1>11. \A j, k \in 1..n : o[j] = o[k] => j = k
  <2> SUFFICES ASSUME NEW j \in 1..n, NEW k \in 1..n, o[j] = o[k] PROVE j = k
    OBVIOUS
  <2>1. b[o[j]] = j - 1 /\ b[o[k]] = k - 1
    BY <1>8
  <2> QED
    BY <1>0, <2>1
<1>12. ASSUME NEW x \in S PROVE \E k \in 1..n : o[k] = x
  <2>1. b[x] \in 0..(n - 1) /\ b[x] + 1 \in 1..n
    BY <1>0, <1>3
  <2>2. o[b[x] + 1] \in S /\ b[o[b[x] + 1]] = b[x] + 1 - 1
    BY <1>8, <2>1
  <2>3. b[o[b[x] + 1]] = b[x]
    BY <2>1, <2>2
  <2> QED
    BY <1>5, <2>1, <2>2, <2>3
<1> QED
  BY <1>0, <1>9, <1>10, <1>11, <1>12 DEF n, o

\* A function on 1..n is a sequence of n items.
LEMMA ListOf ==
  ASSUME NEW T, NEW n \in Nat, NEW s \in [1..n -> T]
  PROVE  s \in Seq(T) /\ Len(s) = n
<1>1. s \in Seq(T)
  BY SeqDef
<1>2. Len(s) \in Nat /\ 1..Len(s) = 1..n
  BY <1>1, LenProperties
<1> QED
  BY <1>1, <1>2

LEMMA LessIsLinear == \A S \in SUBSET Nat : Linear(S, Less)
BY DEF Linear, Less

LEMMA Places == \A n \in Nat : IsFiniteSet(1..n) /\ Cardinality(1..n) = n
BY FS_Interval

\* What is picked are the items at the places, each once, in their order.
LEMMA PickedItems ==
  ASSUME NEW T, NEW s \in Seq(T), NEW places \in SUBSET (1..Len(s))
  PROVE  LET m     == Cardinality(places)
             ranks == Ranking(places, Less)
         IN  /\ m \in 0..Len(s) /\ ranks \in [1..m -> places]
             /\ Pick(s, places) \in Seq(T) /\ Len(Pick(s, places)) = m
             /\ \A k \in 1..m : Pick(s, places)[k] = s[ranks[k]]
             /\ \A j, k \in 1..m : j < k => ranks[j] < ranks[k]
             /\ \A p \in places : \E k \in 1..m : ranks[k] = p
<1> DEFINE m     == Cardinality(places)
           ranks == Ranking(places, Less)
<1>1. Len(s) \in Nat /\ \A p \in 1..Len(s) : s[p] \in T
  BY LenProperties, ElementOfSeq
<1>2. IsFiniteSet(1..Len(s)) /\ Cardinality(1..Len(s)) = Len(s)
  BY <1>1, Places
<1>3. IsFiniteSet(places) /\ m \in Nat /\ m <= Len(s)
  BY <1>2, FS_Subset, FS_CardinalityType
<1>4. places \in SUBSET Nat
  BY <1>1
<1>5. Linear(places, Less)
  BY <1>4, LessIsLinear
<1>6. /\ ranks \in [1..m -> places]
      /\ \A j, k \in 1..m : j < k => <<ranks[j], ranks[k]>> \in Less
      /\ \A p \in places : \E k \in 1..m : ranks[k] = p
  BY <1>3, <1>5, RankingIsOrder
<1> HIDE DEF m, ranks
<1>7. Pick(s, places) = [k \in 1..m |-> s[ranks[k]]]
  BY DEF Pick, m, ranks
<1>8. Pick(s, places) \in [1..m -> T]
  BY <1>1, <1>6, <1>7
<1>9. Pick(s, places) \in Seq(T) /\ Len(Pick(s, places)) = m
  BY <1>3, <1>8, ListOf
<1>10. \A j, k \in 1..m : j < k => ranks[j] < ranks[k]
  BY <1>6 DEF Less
<1>11. \A k \in 1..m : Pick(s, places)[k] = s[ranks[k]]
  BY <1>7
<1> QED
  BY <1>1, <1>3, <1>6, <1>9, <1>10, <1>11 DEF m, ranks

\* Who picks all gets the sequence.
LEMMA PickAll ==
  ASSUME NEW T, NEW s \in Seq(T)
  PROVE  Pick(s, 1..Len(s)) = s
<1> DEFINE n     == Len(s)
           ranks == Ranking(1..n, Less)
<1>1. n \in Nat /\ Cardinality(1..n) = n
  BY LenProperties, Places
<1>2. ASSUME NEW x \in 1..n PROVE Cardinality({y \in 1..n : <<y, x>> \in Less}) = x - 1
  <2>1. {y \in 1..n : <<y, x>> \in Less} = 1..(x - 1)
    BY <1>1 DEF Less
  <2>2. x - 1 \in Nat
    OBVIOUS
  <2> QED
    BY <2>1, <2>2, Places
<1>3. ASSUME NEW k \in 1..n PROVE ranks[k] = k
  <2>1. ranks[k] = CHOOSE x \in 1..n : Cardinality({y \in 1..n : <<y, x>> \in Less}) = k - 1
    BY <1>1 DEF Ranking
  <2>2. /\ ranks[k] \in 1..n
        /\ Cardinality({y \in 1..n : <<y, ranks[k]>> \in Less}) = k - 1
    BY <1>2, <2>1
  <2>3. ranks[k] - 1 = k - 1
    BY <1>2, <2>2
  <2> QED
    BY <1>1, <2>2, <2>3
<1>4. /\ Pick(s, 1..n) \in Seq(T) /\ Len(Pick(s, 1..n)) = n
      /\ \A k \in 1..n : Pick(s, 1..n)[k] = s[ranks[k]]
  BY <1>1, PickedItems
<1>5. \A k \in 1..n : Pick(s, 1..n)[k] = s[k]
  BY <1>3, <1>4
<1> HIDE DEF n
<1> QED
  BY <1>4, <1>5, SeqEqual DEF n

\* The tenders that tender_matches_filters keeps.
LEMMA KeptItems ==
  ASSUME NEW T, NEW s \in Seq(T), NEW f
  PROVE  /\ Kept(s, f) \in Seq(T) /\ Len(Kept(s, f)) \in 0..Len(s)
         /\ \A k \in 1..Len(Kept(s, f)) : PyMatches(Kept(s, f)[k].row, f)
<1> DEFINE places == {k \in 1..Len(s) : PyMatches(s[k].row, f)}
           ranks  == Ranking(places, Less)
           m      == Cardinality(places)
<1>1. places \in SUBSET (1..Len(s)) /\ \A p \in places : PyMatches(s[p].row, f)
  OBVIOUS
<1>2. Kept(s, f) = Pick(s, places)
  BY DEF Kept
<1> HIDE DEF places
<1>3. /\ m \in 0..Len(s) /\ ranks \in [1..m -> places]
      /\ Pick(s, places) \in Seq(T) /\ Len(Pick(s, places)) = m
      /\ \A k \in 1..m : Pick(s, places)[k] = s[ranks[k]]
  BY <1>1, PickedItems
<1> HIDE DEF ranks, m
<1>4. \A k \in 1..m : PyMatches(Pick(s, places)[k].row, f)
  BY <1>1, <1>3
<1> QED
  BY <1>2, <1>3, <1>4

LEMMA KeptAll ==
  ASSUME NEW T, NEW s \in Seq(T), NEW f, \A k \in 1..Len(s) : PyMatches(s[k].row, f)
  PROVE  Kept(s, f) = s
<1>1. {k \in 1..Len(s) : PyMatches(s[k].row, f)} = 1..Len(s)
  OBVIOUS
<1> QED
  BY <1>1, PickAll DEF Kept

----------------------------------------------------------------------------
(* Lists drawn from lists *)

\* The items of a list are items of another one, each taken at most once.
Drawn(s, t) ==
  \E places \in [1..Len(s) -> 1..Len(t)] :
    /\ \A j, k \in 1..Len(s) : places[j] = places[k] => j = k
    /\ \A k \in 1..Len(s) : s[k] = t[places[k]]

LEMMA DrawnFrom ==
  ASSUME NEW s, NEW t, NEW places \in [1..Len(s) -> 1..Len(t)],
         \A j, k \in 1..Len(s) : places[j] = places[k] => j = k,
         \A k \in 1..Len(s) : s[k] = t[places[k]]
  PROVE  Drawn(s, t)
BY DEF Drawn

LEMMA DrawnAgain == ASSUME NEW s, NEW t, NEW u, Drawn(s, t), Drawn(t, u) PROVE Drawn(s, u)
<1>1. PICK p \in [1..Len(s) -> 1..Len(t)] :
        /\ \A j, k \in 1..Len(s) : p[j] = p[k] => j = k
        /\ \A k \in 1..Len(s) : s[k] = t[p[k]]
  BY DEF Drawn
<1>2. PICK q \in [1..Len(t) -> 1..Len(u)] :
        /\ \A j, k \in 1..Len(t) : q[j] = q[k] => j = k
        /\ \A k \in 1..Len(t) : t[k] = u[q[k]]
  BY DEF Drawn
<1> DEFINE r == [k \in 1..Len(s) |-> q[p[k]]]
<1>3. r \in [1..Len(s) -> 1..Len(u)] /\ \A k \in 1..Len(s) : r[k] = q[p[k]] /\ p[k] \in 1..Len(t)
  BY <1>1, <1>2
<1> HIDE DEF r
<1>4. ASSUME NEW j \in 1..Len(s), NEW k \in 1..Len(s), r[j] = r[k] PROVE j = k
  <2>1. q[p[j]] = q[p[k]] /\ p[j] \in 1..Len(t) /\ p[k] \in 1..Len(t)
    BY <1>3, <1>4
  <2>2. p[j] = p[k]
    BY <1>2, <2>1
  <2> QED
    BY <1>1, <2>2
<1>5. ASSUME NEW k \in 1..Len(s) PROVE s[k] = u[r[k]]
  <2>1. p[k] \in 1..Len(t) /\ r[k] = q[p[k]]
    BY <1>3
  <2>2. s[k] = t[p[k]]
    BY <1>1
  <2>3. t[p[k]] = u[q[p[k]]]
    BY <1>2, <2>1
  <2> QED
    BY <2>1, <2>2, <2>3
<1> QED
  BY <1>3, <1>4, <1>5 DEF Drawn

LEMMA KeptIsDrawn == ASSUME NEW T, NEW s \in Seq(T), NEW f PROVE Drawn(Kept(s, f), s)
<1> DEFINE places == {k \in 1..Len(s) : PyMatches(s[k].row, f)}
           ranks  == Ranking(places, Less)
           m      == Cardinality(places)
<1>1. places \in SUBSET (1..Len(s))
  OBVIOUS
<1>2. Kept(s, f) = Pick(s, places)
  BY DEF Kept
<1> HIDE DEF places
<1>3. /\ m \in 0..Len(s) /\ ranks \in [1..m -> places]
      /\ Len(Pick(s, places)) = m
      /\ \A k \in 1..m : Pick(s, places)[k] = s[ranks[k]]
      /\ \A j, k \in 1..m : j < k => ranks[j] < ranks[k]
  BY <1>1, PickedItems
<1> HIDE DEF ranks, m
<1>4. ranks \in [1..m -> 1..Len(s)]
  BY <1>1, <1>3
<1>5. Len(s) \in Nat
  BY LenProperties
<1>6. ASSUME NEW j \in 1..m, NEW k \in 1..m, ranks[j] = ranks[k] PROVE j = k
  <2>1. ranks[j] \in Int /\ ranks[k] \in Int /\ m \in Int
    BY <1>3, <1>4, <1>5
  <2>2. ~(j < k) /\ ~(k < j)
    BY <1>3, <1>6, <2>1
  <2> QED
    BY <2>1, <2>2
<1> QED
  BY <1>2, <1>3, <1>4, <1>6 DEF Drawn

LEMMA DrawnSelf == ASSUME NEW s PROVE Drawn(s, s)
<1> DEFINE places == [k \in 1..Len(s) |-> k]
<1>1. places \in [1..Len(s) -> 1..Len(s)] /\ \A k \in 1..Len(s) : places[k] = k
  OBVIOUS
<1> HIDE DEF places
<1> QED
  BY <1>1 DEF Drawn

\* What is taken from a list, from some place to another.
Taken(part, s, m, n) ==
  /\ Len(part) = IF m <= n THEN n - m + 1 ELSE 0
  /\ \A k \in 1..Len(part) : m + k - 1 \in 1..Len(s) /\ part[k] = s[m + k - 1]

LEMMA PartIsDrawn ==
  ASSUME NEW T, NEW s \in Seq(T), NEW m \in Nat \ {0}, NEW n \in Int, n <= Len(s)
  PROVE  SubSeq(s, m, n) \in Seq(T) /\ Drawn(SubSeq(s, m, n), s) /\ Taken(SubSeq(s, m, n), s, m, n)
<1> DEFINE part   == SubSeq(s, m, n)
           places == [k \in 1..Len(part) |-> m + k - 1]
<1>1. Len(s) \in Nat /\ \A i \in m..n : s[i] \in T
  BY LenProperties, ElementOfSeq
<1>2. /\ part \in Seq(T) /\ Len(part) = (IF m <= n THEN n - m + 1 ELSE 0)
      /\ \A k \in 1..(n - m + 1) : part[k] = s[m + k - 1]
  BY <1>1, SubSeqProperties
<1> HIDE DEF part
<1>3. \A k \in 1..Len(part) : m + k - 1 \in 1..Len(s) /\ part[k] = s[m + k - 1]
  BY <1>1, <1>2
<1>4. places \in [1..Len(part) -> 1..Len(s)]
  BY <1>3
<1>5. \A j, k \in 1..Len(part) : places[j] = places[k] => j = k
  BY <1>1, <1>2
<1>6. \A k \in 1..Len(part) : part[k] = s[places[k]]
  BY <1>3
<1> HIDE DEF places
<1>7. Drawn(part, s)
  BY <1>4, <1>5, <1>6, DrawnFrom
<1>8. Taken(part, s, m, n)
  BY <1>2, <1>3 DEF Taken
<1> QED
  BY <1>2, <1>7, <1>8 DEF part

LEMMA Minimum == \A a, b \in Int : Min({a, b}) = IF a <= b THEN a ELSE b
BY DEF Min

LEMMA MinimumIsPositive == \A a, b \in Nat \ {0} : Min({a, b}) \in Nat \ {0}
<1> TAKE a, b \in Nat \ {0}
<1>1. Min({a, b}) = IF a <= b THEN a ELSE b
  BY Minimum
<1> QED
  BY <1>1

LEMMA Maximum == \A a, b \in Int : Max({a, b}) = IF a >= b THEN a ELSE b
BY DEF Max

\* The first items of a list.
LEMMA FirstItems ==
  ASSUME NEW T, NEW s \in Seq(T), NEW n \in Nat
  PROVE  /\ Firsts(s, n) \in Seq(T) /\ Len(Firsts(s, n)) = Min({n, Len(s)}) /\ Drawn(Firsts(s, n), s)
         /\ \A k \in 1..Len(Firsts(s, n)) : Firsts(s, n)[k] = s[k]
<1> DEFINE m == Min({n, Len(s)})
<1>1. m \in Nat /\ m <= Len(s)
  BY LenProperties, Minimum
<1> HIDE DEF m
<1>2. /\ SubSeq(s, 1, m) \in Seq(T) /\ Len(SubSeq(s, 1, m)) = m /\ Drawn(SubSeq(s, 1, m), s)
      /\ \A k \in 1..Len(SubSeq(s, 1, m)) : SubSeq(s, 1, m)[k] = s[1 + k - 1]
  <2>1. SubSeq(s, 1, m) \in Seq(T) /\ Drawn(SubSeq(s, 1, m), s) /\ Taken(SubSeq(s, 1, m), s, 1, m)
    BY <1>1, PartIsDrawn
  <2>2. m = IF 1 <= m THEN m - 1 + 1 ELSE 0
    BY <1>1
  <2> QED
    BY <2>1, <2>2 DEF Taken
<1>3. \A k \in 1..Len(SubSeq(s, 1, m)) : SubSeq(s, 1, m)[k] = s[k]
  BY <1>1, <1>2
<1> QED
  BY <1>2, <1>3 DEF Firsts, m

\* What is cut from a list, beginning at an offset.
Cut(part, s, f) ==
  /\ Len(part) = Max({0, Min({f.limit, Len(s) - f.offset})})
  /\ \A k \in 1..Len(part) : f.offset + k \in 1..Len(s) /\ part[k] = s[f.offset + k]

\* A page of a list.
LEMMA SliceItems ==
  ASSUME NEW T, NEW s \in Seq(T), NEW f, f.offset \in Nat, f.limit \in Nat
  PROVE  Slice(s, f) \in Seq(T) /\ Drawn(Slice(s, f), s) /\ Cut(Slice(s, f), s, f)
<1> DEFINE n == Min({f.offset + f.limit, Len(s)})
           m == f.offset + 1
<1>1. Len(s) \in Nat
  BY LenProperties
<1>2. m \in Nat \ {0} /\ n = (IF f.offset + f.limit <= Len(s) THEN f.offset + f.limit ELSE Len(s))
  <2>1. f.offset + f.limit \in Int
    OBVIOUS
  <2> QED
    BY <1>1, <2>1, Minimum
<1>3. (IF m <= n THEN n - m + 1 ELSE 0) = Max({0, Min({f.limit, Len(s) - f.offset})})
  <2> DEFINE rest  == Len(s) - f.offset
             least == Min({f.limit, rest})
  <2>1. rest \in Int
    BY <1>1
  <2>2. least = IF f.limit <= rest THEN f.limit ELSE rest
    BY <2>1, Minimum
  <2> HIDE DEF least
  <2>3. least \in Int
    BY <2>1, <2>2
  <2>4. Max({0, least}) = IF 0 >= least THEN 0 ELSE least
    BY <2>3, Maximum
  <2> HIDE DEF n
  <2>5. IF m <= n THEN n - m + 1 = least /\ least >= 0 ELSE 0 >= least
    <3>1. f.offset + f.limit <= Len(s) <=> f.limit <= rest
      BY <1>1
    <3>2. CASE f.limit <= rest
      BY <1>1, <1>2, <2>2, <3>1, <3>2
    <3>3. CASE ~(f.limit <= rest)
      BY <1>1, <1>2, <2>2, <3>1, <3>3
    <3> QED
      BY <3>2, <3>3
  <2>6. (IF m <= n THEN n - m + 1 ELSE 0) = Max({0, least})
    BY <2>3, <2>4, <2>5
  <2> QED
    BY <2>6 DEF least
<1>4. Slice(s, f) = SubSeq(s, m, n)
  BY DEF Slice
<1>5. \A k \in Nat : m + k - 1 = f.offset + k
  OBVIOUS
<1> HIDE DEF n
<1>6. /\ SubSeq(s, m, n) \in Seq(T) /\ Len(SubSeq(s, m, n)) = (IF m <= n THEN n - m + 1 ELSE 0)
      /\ \A k \in 1..Len(SubSeq(s, m, n)) : m + k - 1 \in 1..Len(s) /\ SubSeq(s, m, n)[k] = s[m + k - 1]
      /\ Drawn(SubSeq(s, m, n), s)
  <2>1. n \in Int /\ n <= Len(s)
    BY <1>1, <1>2
  <2>2. m \in Nat \ {0}
    BY <1>2
  <2> HIDE DEF m
  <2>3. SubSeq(s, m, n) \in Seq(T) /\ Drawn(SubSeq(s, m, n), s) /\ Taken(SubSeq(s, m, n), s, m, n)
    BY <2>1, <2>2, PartIsDrawn
  <2> QED
    BY <2>3 DEF Taken
<1>7. \A k \in 1..Len(SubSeq(s, m, n)) : k \in Nat
  BY <1>6, LenProperties
<1>8. \A k \in 1..Len(SubSeq(s, m, n)) : f.offset + k \in 1..Len(s) /\ SubSeq(s, m, n)[k] = s[f.offset + k]
  BY <1>5, <1>6, <1>7
<1>9. Cut(SubSeq(s, m, n), s, f)
  <2> DEFINE part == SubSeq(s, m, n)
  <2>1. Len(part) = Max({0, Min({f.limit, Len(s) - f.offset})})
    BY <1>3, <1>6
  <2>2. \A k \in 1..Len(part) : f.offset + k \in 1..Len(s) /\ part[k] = s[f.offset + k]
    BY <1>8
  <2> HIDE DEF part
  <2>3. Cut(part, s, f)
    BY <2>1, <2>2 DEF Cut
  <2> QED
    BY <2>3 DEF part
<1> QED
  BY <1>4, <1>6, <1>9

LEMMA ReversedIsDrawn == ASSUME NEW T, NEW s \in Seq(T) PROVE Reverse(s) \in Seq(T) /\ Len(Reverse(s)) = Len(s) /\ Drawn(Reverse(s), s)
<1> DEFINE n      == Len(s)
           places == [k \in 1..n |-> n - k + 1]
<1>1. n \in Nat /\ \A k \in 1..n : s[k] \in T
  BY LenProperties, ElementOfSeq
<1>2. places \in [1..n -> 1..n] /\ \A k \in 1..n : places[k] = n - k + 1
  BY <1>1
<1>3. Reverse(s) \in [1..n -> T] /\ \A k \in 1..n : Reverse(s)[k] = s[places[k]]
  BY <1>1, <1>2 DEF Reverse
<1>4. \A j, k \in 1..n : places[j] = places[k] => j = k
  BY <1>1, <1>2
<1> HIDE DEF places
<1>5. Reverse(s) \in Seq(T) /\ Len(Reverse(s)) = n
  BY <1>1, <1>3, ListOf
<1> HIDE DEF n
<1>6. /\ places \in [1..Len(Reverse(s)) -> 1..Len(s)]
      /\ \A j, k \in 1..Len(Reverse(s)) : places[j] = places[k] => j = k
      /\ \A k \in 1..Len(Reverse(s)) : Reverse(s)[k] = s[places[k]]
  BY <1>2, <1>3, <1>4, <1>5 DEF n
<1>7. Drawn(Reverse(s), s)
  BY <1>6, DrawnFrom
<1> QED
  BY <1>5, <1>7 DEF n

----------------------------------------------------------------------------
(* sorted() *)

LEMMA BeforeIsLinear ==
  ASSUME NEW keys, Len(keys) \in Nat, \A k \in 1..Len(keys) : keys[k] \in Int, NEW order
  PROVE  Linear(1..Len(keys), Before(keys, order))
<1> DEFINE n == Len(keys)
<1>1. \A j, k \in 1..n : <<j, k>> \in Before(keys, order) <=>
        \/ IF order = "desc" THEN keys[j] > keys[k] ELSE keys[j] < keys[k]
        \/ keys[j] = keys[k] /\ j < k
  BY DEF Before
<1>2. n \in Nat /\ \A k \in 1..n : k \in Int /\ keys[k] \in Int
  OBVIOUS
<1> HIDE DEF n
<1>3. \A k \in 1..n : <<k, k>> \notin Before(keys, order)
  BY <1>1, <1>2
<1>4. \A j, k \in 1..n : j # k => <<j, k>> \in Before(keys, order) \/ <<k, j>> \in Before(keys, order)
  BY <1>1, <1>2
<1>5. ASSUME NEW i \in 1..n, NEW j \in 1..n, NEW k \in 1..n,
             <<i, j>> \in Before(keys, order), <<j, k>> \in Before(keys, order)
      PROVE  <<i, k>> \in Before(keys, order)
  <2>1. keys[i] \in Int /\ keys[j] \in Int /\ keys[k] \in Int
    BY <1>2
  <2>2. CASE order = "desc"
    BY <1>1, <1>5, <2>1, <2>2
  <2>3. CASE order # "desc"
    BY <1>1, <1>5, <2>1, <2>3
  <2> QED
    BY <2>2, <2>3
<1> QED
  BY <1>3, <1>4, <1>5 DEF Linear, n

\* Sorting keeps every item, and the keys are in order.
LEMMA SortedItems ==
  ASSUME NEW T, NEW s \in Seq(T), NEW keys \in [1..Len(s) -> Int], NEW order
  PROVE  LET ranks == Ranking(1..Len(s), Before(keys, order))
         IN  /\ ranks \in [1..Len(s) -> 1..Len(s)]
             /\ Sorted(s, keys, order) \in Seq(T) /\ Len(Sorted(s, keys, order)) = Len(s)
             /\ \A k \in 1..Len(s) : Sorted(s, keys, order)[k] = s[ranks[k]]
             /\ \A j, k \in 1..Len(s) : j < k => <<ranks[j], ranks[k]>> \in Before(keys, order)
             /\ \A j, k \in 1..Len(s) : ranks[j] = ranks[k] => j = k
             /\ \A p \in 1..Len(s) : \E k \in 1..Len(s) : ranks[k] = p
             /\ Drawn(Sorted(s, keys, order), s)
<1> DEFINE n     == Len(s)
           R     == Before(keys, order)
           ranks == Ranking(1..n, R)
<1>1. n \in Nat /\ \A k \in 1..n : s[k] \in T
  BY LenProperties, ElementOfSeq
<1>2. Len(keys) = n
  BY <1>1, ListOf
<1>3. Linear(1..n, R)
  BY <1>1, <1>2, BeforeIsLinear
<1>4. IsFiniteSet(1..n) /\ Cardinality(1..n) = n
  BY <1>1, Places
<1> HIDE DEF n, R
<1>5. /\ ranks \in [1..n -> 1..n]
      /\ \A j, k \in 1..n : j < k => <<ranks[j], ranks[k]>> \in R
      /\ \A j, k \in 1..n : ranks[j] = ranks[k] => j = k
      /\ \A p \in 1..n : \E k \in 1..n : ranks[k] = p
  <2> DEFINE c == Cardinality(1..n)
  <2>1. /\ ranks \in [1..c -> 1..n]
        /\ \A j, k \in 1..c : j < k => <<ranks[j], ranks[k]>> \in R
        /\ \A j, k \in 1..c : ranks[j] = ranks[k] => j = k
        /\ \A p \in 1..n : \E k \in 1..c : ranks[k] = p
    BY <1>3, <1>4, RankingIsOrder
  <2> HIDE DEF ranks
  <2> QED
    BY <1>4, <2>1
<1>6. Sorted(s, keys, order) = [k \in 1..n |-> s[ranks[k]]]
  BY DEF Sorted, n, R
<1> HIDE DEF ranks
<1>7. /\ Sorted(s, keys, order) \in [1..n -> T]
      /\ \A k \in 1..n : Sorted(s, keys, order)[k] = s[ranks[k]]
  <2>1. \A k \in 1..n : s[ranks[k]] \in T
    BY <1>1, <1>5
  <2> QED
    BY <1>6, <2>1
<1>8. Sorted(s, keys, order) \in Seq(T) /\ Len(Sorted(s, keys, order)) = n
  BY <1>1, <1>7, ListOf
<1>9. Drawn(Sorted(s, keys, order), s)
  <2> DEFINE sorted == Sorted(s, keys, order)
  <2>1. /\ ranks \in [1..Len(sorted) -> 1..Len(s)]
        /\ \A j, k \in 1..Len(sorted) : ranks[j] = ranks[k] => j = k
        /\ \A k \in 1..Len(sorted) : sorted[k] = s[ranks[k]]
    BY <1>5, <1>7, <1>8 DEF n
  <2> HIDE DEF sorted
  <2>2. Drawn(sorted, s)
    BY <2>1, DrawnFrom
  <2> QED
    BY <2>2 DEF sorted
<1> QED
  BY <1>5, <1>7, <1>8, <1>9 DEF n, R, ranks

----------------------------------------------------------------------------
(* What results are ordered by *)

LEMMA AttributeType ==
  ASSUME NEW r \in TenderRows, NEW f, f.orderBy \in {"value"} \cup DateFields
  PROVE  Attribute(r, f) \in Int
<1>1. r.value \in Int \cup {None} /\ \A d \in DateFields : r.at[d] \in Int \cup {None}
  BY DEF TenderRows
<1> QED
  BY <1>1 DEF Attribute, OrNothing

LEMMA CpvScoreType == ASSUME NEW codes, NEW wanted PROVE CpvScore(codes, wanted) \in 0..4
<1> DEFINE S == {0} \cup {Closeness(c, w) : c \in codes, w \in wanted}
<1>1. S \in SUBSET {0, 1, 2, 3, 4} /\ 0 \in S
  BY DEF Closeness
<1> HIDE DEF S
<1>2. \E x \in S : \A y \in S : x >= y
  <2>1. CASE 4 \in S
    BY <1>1, <2>1
  <2>2. CASE 4 \notin S /\ 3 \in S
    BY <1>1, <2>2
  <2>3. CASE 4 \notin S /\ 3 \notin S /\ 2 \in S
    BY <1>1, <2>3
  <2>4. CASE 4 \notin S /\ 3 \notin S /\ 2 \notin S
    BY <1>1, <2>4
  <2> QED
    BY <2>1, <2>2, <2>3, <2>4
<1>3. Max(S) \in S
  BY <1>2 DEF Max
<1>4. Max(S) \in 0..4
  <2>1. S \subseteq 0..4
    BY <1>1
  <2> QED
    BY <1>3, <2>1
<1> QED
  BY <1>4 DEF S, CpvScore

LEMMA ScoreType == ASSUME NEW r \in TenderRows, NEW f PROVE Score(r, f, Now) \in Int
<1>1. CpvScore(r.cpv, f.cpvs) \in Int
  BY CpvScoreType
<1>2. ASSUME NEW t \in Int PROVE Urgency(t, Now) \in Int
  <2>1. (t - Now) \div DayLength \in Int
    BY DayAssumption, WindowAssumption
  <2> QED
    BY <2>1 DEF Urgency, Clamped
<1>3. r.at["deadline"] \in Int \cup {None}
  BY DEF TenderRows, DateFields
<1>4. (IF r.at["deadline"] = None THEN 0 ELSE Urgency(r.at["deadline"], Now)) \in Int
  BY <1>2, <1>3
<1> QED
  BY <1>1, <1>4 DEF Score

----------------------------------------------------------------------------
(* The pages of results *)

Results == [id : Ids, row : Rows]

\* What a filter says of the page and its order.
Pageable(f) ==
  /\ f.offset \in Nat /\ f.limit \in Nat \ {0}
  /\ f.orderBy \in {"score", "value"} \cup DateFields /\ f.order \in {"asc", "desc"}

\* The keys sorted by.
AttributeKeys(results, f) == [k \in 1..Len(results) |-> Attribute(results[k].row, f)]
ScoreKeys(results, f)     == [k \in 1..Len(results) |-> Score(results[k].row, f, Now)]

LEMMA KeyTypes ==
  ASSUME NEW s \in Seq(Results), NEW f
  PROVE  /\ f.orderBy \in {"value"} \cup DateFields => AttributeKeys(s, f) \in [1..Len(s) -> Int]
         /\ ScoreKeys(s, f) \in [1..Len(s) -> Int]
<1>1. \A k \in 1..Len(s) : s[k].row \in TenderRows
  <2> SUFFICES ASSUME NEW k \in 1..Len(s) PROVE s[k].row \in TenderRows
    OBVIOUS
  <2>1. s[k] \in Results
    BY ElementOfSeq
  <2> QED
    BY <2>1, RowsAssumption DEF Results
<1> QED
  BY <1>1, AttributeType, ScoreType DEF AttributeKeys, ScoreKeys

\* _slice_retrieval_results cuts the results, the results from behind, or the sorted results.
LEMMA SlicedResults ==
  ASSUME NEW s \in Seq(Results), NEW f, Pageable(f)
  PROVE  /\ f.orderBy = "score" /\ f.order = "desc" => SliceRetrieval(s, f) = Slice(s, f)
         /\ f.orderBy = "score" /\ f.order = "asc" => SliceRetrieval(s, f) = Slice(Reverse(s), f)
         /\ f.orderBy # "score" => SliceRetrieval(s, f) = Slice(Sorted(s, AttributeKeys(s, f), f.order), f)
BY DEF SliceRetrieval, AttributeKeys, Pageable

LEMMA SlicedAreDrawn ==
  ASSUME NEW s \in Seq(Results), NEW f, Pageable(f)
  PROVE  SliceRetrieval(s, f) \in Seq(Results) /\ Drawn(SliceRetrieval(s, f), s)
<1>0. f.offset \in Nat /\ f.limit \in Nat /\ f.order \in {"asc", "desc"}
  BY DEF Pageable
<1>1. CASE f.orderBy = "score" /\ f.order = "desc"
  <2>1. Slice(s, f) \in Seq(Results) /\ Drawn(Slice(s, f), s)
    BY <1>0, SliceItems
  <2> QED
    BY <1>1, <2>1, SlicedResults
<1>2. CASE f.orderBy = "score" /\ f.order = "asc"
  <2>1. Reverse(s) \in Seq(Results) /\ Drawn(Reverse(s), s)
    BY ReversedIsDrawn
  <2>2. Slice(Reverse(s), f) \in Seq(Results) /\ Drawn(Slice(Reverse(s), f), Reverse(s))
    BY <1>0, <2>1, SliceItems
  <2>3. Drawn(Slice(Reverse(s), f), s)
    BY <2>1, <2>2, DrawnAgain
  <2> QED
    BY <1>2, <2>2, <2>3, SlicedResults
<1>3. CASE f.orderBy # "score"
  <2> DEFINE sorted == Sorted(s, AttributeKeys(s, f), f.order)
  <2>1. AttributeKeys(s, f) \in [1..Len(s) -> Int]
    BY <1>3, KeyTypes DEF Pageable
  <2>2. sorted \in Seq(Results) /\ Drawn(sorted, s)
    BY <2>1, SortedItems
  <2>3. SliceRetrieval(s, f) = Slice(sorted, f)
    BY <1>3, SlicedResults
  <2> HIDE DEF sorted
  <2>4. Slice(sorted, f) \in Seq(Results) /\ Drawn(Slice(sorted, f), sorted)
    BY <1>0, <2>2, SliceItems
  <2>5. Drawn(Slice(sorted, f), s)
    BY <2>2, <2>4, DrawnAgain
  <2> QED
    BY <2>3, <2>4, <2>5
<1> QED
  BY <1>0, <1>1, <1>2, <1>3

\* rank_tenders sorts by the score, or by the attribute asked for, and cuts.
LEMMA RankedResults ==
  ASSUME NEW s, NEW f
  PROVE  RankTenders(s, f) =
           Slice(Sorted(s, IF f.orderBy = "score" THEN ScoreKeys(s, f) ELSE AttributeKeys(s, f), f.order), f)
<1>1. CASE f.orderBy = "score"
  BY <1>1 DEF RankTenders, ScoreKeys
<1>2. CASE f.orderBy # "score"
  BY <1>2 DEF RankTenders, AttributeKeys
<1> QED
  BY <1>1, <1>2

LEMMA SearchedAreDrawn ==
  ASSUME NEW s \in Seq(Results), NEW f, Pageable(f)
  PROVE  SearchTenders(s, f) \in Seq(Results) /\ Drawn(SearchTenders(s, f), s)
<1>1. CASE f.text # None
  BY <1>1, SlicedAreDrawn DEF SearchTenders
<1>2. CASE f.text = None
  <2> DEFINE keys   == IF f.orderBy = "score" THEN ScoreKeys(s, f) ELSE AttributeKeys(s, f)
             sorted == Sorted(s, keys, f.order)
  <2>1. keys \in [1..Len(s) -> Int]
    BY KeyTypes DEF Pageable
  <2>2. SearchTenders(s, f) = Slice(sorted, f)
    BY <1>2, RankedResults DEF SearchTenders
  <2> HIDE DEF keys
  <2>3. sorted \in Seq(Results) /\ Drawn(sorted, s)
    BY <2>1, SortedItems
  <2> HIDE DEF sorted
  <2>4. Slice(sorted, f) \in Seq(Results) /\ Drawn(Slice(sorted, f), sorted)
    BY <2>3, SliceItems DEF Pageable
  <2>5. Drawn(Slice(sorted, f), s)
    BY <2>3, <2>4, DrawnAgain
  <2> QED
    BY <2>2, <2>4, <2>5
<1> QED
  BY <1>1, <1>2

----------------------------------------------------------------------------
(* What the sources send *)

Notices == Results \cup {Unreadable}

LEMMA ParsedItems ==
  ASSUME NEW s \in Seq(Notices)
  PROVE  Parsed(s) \in Seq(Results) /\ Len(Parsed(s)) <= Len(s)
<1> DEFINE places == {k \in 1..Len(s) : s[k] # Unreadable}
           ranks  == Ranking(places, Less)
           m      == Cardinality(places)
<1>1. /\ Len(s) \in Nat /\ places \in SUBSET (1..Len(s))
      /\ \A p \in places : s[p] \in Results
  <2>1. \A p \in 1..Len(s) : s[p] \in Notices
    BY ElementOfSeq
  <2> QED
    BY <2>1, LenProperties DEF Notices
<1>2. Parsed(s) = Pick(s, places)
  BY DEF Parsed
<1> HIDE DEF places
<1>3. /\ m \in 0..Len(s) /\ ranks \in [1..m -> places]
      /\ Pick(s, places) \in Seq(Notices) /\ Len(Pick(s, places)) = m
      /\ \A k \in 1..m : Pick(s, places)[k] = s[ranks[k]]
  BY <1>1, PickedItems
<1> HIDE DEF ranks, m
<1>4. Pick(s, places) \in [1..m -> Results]
  <2>1. \A k \in 1..m : Pick(s, places)[k] \in Results
    BY <1>1, <1>3
  <2>2. DOMAIN Pick(s, places) = 1..m /\ Pick(s, places) \in [1..m -> Notices]
    BY <1>3, LenProperties
  <2> QED
    BY <2>1, <2>2
<1>5. m \in Nat
  BY <1>1, <1>3
<1> QED
  BY <1>1, <1>2, <1>3, <1>4, <1>5, ListOf

\* Where every notice can be read, all are.
LEMMA ParsedAll ==
  ASSUME NEW s \in Seq(Notices), \A k \in 1..Len(s) : s[k] # Unreadable
  PROVE  Parsed(s) = s
<1>1. {k \in 1..Len(s) : s[k] # Unreadable} = 1..Len(s)
  OBVIOUS
<1> QED
  BY <1>1, PickAll DEF Parsed

\* What TED finds are notices of its index.
LEMMA FoundItems ==
  ASSUME NEW index \in Seq(Notices), NEW q
  PROVE  /\ TedFinds(index, q) \in Seq(Notices)
         /\ (\A k \in 1..Len(index) : index[k] # Unreadable) =>
               \A k \in 1..Len(TedFinds(index, q)) : TedFinds(index, q)[k] # Unreadable
<1> DEFINE places == {k \in 1..Len(index) : index[k] = Unreadable \/
             LET r == index[k].row
             IN  /\ q.country # None => r.country = q.country
                 /\ q.cpvs \subseteq r.cpv
                 /\ q.text # None => r \in Finds[q.text]
                 /\ q.notices # {} => r.exact["notice"] \in q.notices
                 /\ \A p \in q.regions : r.region # None /\ <<p, r.region>> \in Like}
           ranks  == Ranking(places, Less)
           m      == Cardinality(places)
<1>1. places \in SUBSET (1..Len(index))
  OBVIOUS
<1>2. TedFinds(index, q) = Pick(index, places)
  BY DEF TedFinds
<1> HIDE DEF places
<1>3. /\ ranks \in [1..m -> places]
      /\ Pick(index, places) \in Seq(Notices) /\ Len(Pick(index, places)) = m
      /\ \A k \in 1..m : Pick(index, places)[k] = index[ranks[k]]
  BY <1>1, PickedItems
<1> HIDE DEF ranks, m
<1> QED
  BY <1>1, <1>2, <1>3

LEMMA NoticeTypes ==
  /\ \A feed \in Feeds : feed \in Seq(Notices)
  /\ \A index \in Indexes : index \in Seq(Notices)
BY RowsAssumption DEF Notices, Results

----------------------------------------------------------------------------
(* Filters *)

\* A record with the fields of a filter.
Shaped(f) ==
  f \in [text : {f.text}, cpvs : {f.cpvs}, prefixes : {f.prefixes}, nuts : {f.nuts}, regions : {f.regions},
         buyer : {f.buyer}, statuses : {f.statuses}, sources : {f.sources}, exact : {f.exact}, onlyOpen : {f.onlyOpen},
         country : {f.country}, from : {f.from}, to : {f.to}, least : {f.least}, most : {f.most},
         limit : {f.limit}, offset : {f.offset}, orderBy : {f.orderBy}, order : {f.order}, mode : {f.mode},
         refresh : {f.refresh}]

\* What the tools make of their arguments.
Filter(f) ==
  f \in [text : DOMAIN Finds \cup {None}, cpvs : {f.cpvs}, prefixes : {f.prefixes}, nuts : {f.nuts}, regions : {f.regions},
         buyer : {f.buyer}, statuses : {f.statuses}, sources : {f.sources}, exact : {f.exact}, onlyOpen : {f.onlyOpen},
         country : {f.country}, from : {f.from}, to : {f.to}, least : {f.least}, most : {f.most},
         limit : Nat \ {0}, offset : 0..MaxOffset, orderBy : {"score", "value"} \cup DateFields, order : {"asc", "desc"},
         mode : {"keyword", "semantic", "hybrid"}, refresh : {f.refresh}]

\* A filter that _build_filters has cleaned.
Clean(f) == FilterFields(f) /\ f.cpvs = CpvCodes(f.cpvs) /\ f.prefixes = CpvPrefixes(f.prefixes)

LEMMA FilterIsPageable == ASSUME NEW f, Filter(f) PROVE Pageable(f)
<1>1. /\ f.offset \in 0..MaxOffset /\ f.limit \in Nat \ {0}
      /\ f.orderBy \in {"score", "value"} \cup DateFields /\ f.order \in {"asc", "desc"}
  BY DEF Filter
<1> QED
  BY <1>1, LimitAssumption DEF Pageable

LEMMA ShapedArguments ==
  ASSUME NEW p, Shaped(p),
         p.text \in DOMAIN Finds \cup {None}, p.regions \in SUBSET (Texts \cup {None}), p.buyer \in Texts \cup {None},
         p.exact \in [ExactFields -> SUBSET (Texts \cup {None})], p.onlyOpen \in BOOLEAN,
         p.from \in [DateFields -> Int \cup {None}], p.to \in [DateFields -> Int \cup {None}],
         p.least \in Int \cup {None}, p.most \in Int \cup {None}, p.limit \in Int, p.offset \in Int, p.refresh \in BOOLEAN
  PROVE  Arguments(p)
BY DEF Shaped, Arguments

LEMMA ArgumentsAreShaped == ASSUME NEW a, Arguments(a) PROVE Shaped(a)
BY DEF Arguments, Shaped

\* What _build_filters makes of every field.
LEMMA BuiltFields ==
  ASSUME NEW a, Shaped(a)
  PROVE  LET f == BuildFilters(a)
         IN  /\ f.text = a.text /\ f.nuts = a.nuts /\ f.buyer = a.buyer /\ f.onlyOpen = a.onlyOpen /\ f.country = a.country
             /\ f.from = a.from /\ f.to = a.to /\ f.least = a.least /\ f.most = a.most
             /\ f.orderBy = a.orderBy /\ f.order = a.order /\ f.mode = a.mode /\ f.refresh = a.refresh
             /\ f.statuses = a.statuses \cap Statuses /\ f.sources = a.sources \cap Sources
             /\ f.cpvs = CpvCodes(a.cpvs) /\ f.prefixes = CpvPrefixes(a.prefixes) /\ f.regions = a.regions \ {None}
             /\ f.exact = [x \in ExactFields |-> a.exact[x] \ {None}]
             /\ f.limit = Clamped(a.limit, 1, MaxLimit) /\ f.offset = Clamped(a.offset, 0, MaxOffset)
             /\ Shaped(f)
BY DEF BuildFilters, Shaped

LEMMA BuiltFilters ==
  ASSUME NEW a, Arguments(a), ValidArguments(a)
  PROVE  Filter(BuildFilters(a)) /\ Clean(BuildFilters(a)) /\ BuildFilters(a).limit <= MaxLimit
<1> DEFINE f == BuildFilters(a)
<1>0. Shaped(a)
  BY ArgumentsAreShaped
<1>1. /\ f.text = a.text /\ f.nuts = a.nuts /\ f.buyer = a.buyer /\ f.onlyOpen = a.onlyOpen /\ f.country = a.country
      /\ f.from = a.from /\ f.to = a.to /\ f.least = a.least /\ f.most = a.most
      /\ f.orderBy = a.orderBy /\ f.order = a.order /\ f.mode = a.mode /\ f.refresh = a.refresh
      /\ f.statuses = a.statuses \cap Statuses /\ f.sources = a.sources \cap Sources
      /\ f.cpvs = CpvCodes(a.cpvs) /\ f.prefixes = CpvPrefixes(a.prefixes) /\ f.regions = a.regions \ {None}
      /\ f.exact = [x \in ExactFields |-> a.exact[x] \ {None}]
      /\ f.limit = Clamped(a.limit, 1, MaxLimit) /\ f.offset = Clamped(a.offset, 0, MaxOffset)
      /\ Shaped(f)
  BY <1>0, BuiltFields
<1> HIDE DEF f
<1>2. /\ a.text \in DOMAIN Finds \cup {None} /\ a.regions \in SUBSET (Texts \cup {None}) /\ a.buyer \in Texts \cup {None}
      /\ a.exact \in [ExactFields -> SUBSET (Texts \cup {None})] /\ a.onlyOpen \in BOOLEAN
      /\ a.from \in [DateFields -> Int \cup {None}] /\ a.to \in [DateFields -> Int \cup {None}]
      /\ a.least \in Int \cup {None} /\ a.most \in Int \cup {None} /\ a.limit \in Int /\ a.offset \in Int
  BY DEF Arguments
<1>3. /\ a.country \in Countries \cup {None} /\ a.mode \in {"keyword", "semantic", "hybrid"}
      /\ a.orderBy \in {"score", "value"} \cup DateFields /\ a.order \in {"asc", "desc"}
  BY DEF ValidArguments
<1>4. f.limit \in 1..MaxLimit /\ f.offset \in 0..MaxOffset
  <2>1. MaxLimit \in Int /\ 1 <= MaxLimit /\ MaxOffset \in Int /\ 0 <= MaxOffset
    BY LimitAssumption
  <2>2. a.limit \in Int /\ a.offset \in Int
    BY <1>2
  <2>3. Clamped(a.limit, 1, MaxLimit) \in 1..MaxLimit /\ Clamped(a.offset, 0, MaxOffset) \in 0..MaxOffset
    BY <2>1, <2>2 DEF Clamped
  <2> QED
    BY <1>1, <2>3
<1>5. f.limit \in Nat \ {0} /\ f.limit <= MaxLimit
  BY <1>4, LimitAssumption
<1>6. Filter(f)
  BY <1>1, <1>2, <1>3, <1>4, <1>5 DEF Filter, Shaped
<1>7. f.cpvs = CpvCodes(f.cpvs) /\ f.prefixes = CpvPrefixes(f.prefixes)
  BY <1>1 DEF CpvCodes, CpvPrefixes
<1>8. f.exact \in [ExactFields -> SUBSET Texts]
  BY <1>1, <1>2
<1>9. FilterFields(f)
  BY <1>1, <1>2, <1>3, <1>8 DEF FilterFields
<1> QED
  BY <1>5, <1>6, <1>7, <1>9 DEF Clean, f

\* The tools that have arguments of their own give every one that a filter has.
LEMMA ToolArguments ==
  ASSUME NEW a, Arguments(a)
  PROVE  /\ Arguments(MatchArguments(a)) /\ ValidArguments(MatchArguments(a))
         /\ Arguments(ExportArguments(a)) /\ ValidArguments(ExportArguments(a))
         /\ Arguments(FacetArguments(a)) /\ (ValidArguments(a) => ValidArguments(FacetArguments(a)))
<1>1. /\ a.text \in DOMAIN Finds \cup {None} /\ a.regions \in SUBSET (Texts \cup {None}) /\ a.buyer \in Texts \cup {None}
      /\ a.exact \in [ExactFields -> SUBSET (Texts \cup {None})] /\ a.onlyOpen \in BOOLEAN
      /\ a.limit \in Int /\ a.refresh \in BOOLEAN
  BY DEF Arguments
<1>2. /\ Shaped(Defaults) /\ Defaults.text = None /\ Defaults.regions = {} /\ Defaults.buyer = None
      /\ Defaults.exact \in [ExactFields -> SUBSET (Texts \cup {None})] /\ Defaults.onlyOpen = FALSE
      /\ Defaults.from \in [DateFields -> Int \cup {None}] /\ Defaults.to \in [DateFields -> Int \cup {None}]
      /\ Defaults.least = None /\ Defaults.most = None /\ Defaults.limit = 20 /\ Defaults.offset = 0
      /\ Defaults.country = None /\ Defaults.orderBy = "score" /\ Defaults.order = "desc"
      /\ Defaults.mode = "keyword" /\ Defaults.refresh = FALSE
  BY DEF Defaults, Shaped
<1>3. Arguments(MatchArguments(a)) /\ ValidArguments(MatchArguments(a))
  <2> DEFINE p == MatchArguments(a)
  <2>1. /\ Shaped(p) /\ p.text = a.text /\ p.regions = a.regions /\ p.buyer = a.buyer
        /\ p.exact = [Defaults.exact EXCEPT !["dataset"] = a.exact["dataset"]] /\ p.onlyOpen = a.onlyOpen
        /\ p.from = Defaults.from /\ p.to = Defaults.to /\ p.least = None /\ p.most = None
        /\ p.limit = a.limit /\ p.offset = 0 /\ p.country = None /\ p.orderBy = "score" /\ p.order = "desc"
        /\ p.mode = "keyword" /\ p.refresh = a.refresh
    BY <1>2 DEF MatchArguments, Shaped
  <2> HIDE DEF p
  <2>2. p.exact \in [ExactFields -> SUBSET (Texts \cup {None})]
    BY <1>1, <1>2, <2>1 DEF ExactFields
  <2>3. Arguments(p)
    BY <1>1, <1>2, <2>1, <2>2, ShapedArguments
  <2>4. ValidArguments(p)
    BY <2>1 DEF ValidArguments
  <2> QED
    BY <2>3, <2>4 DEF p
<1>4. Arguments(ExportArguments(a)) /\ ValidArguments(ExportArguments(a))
  <2> DEFINE p == ExportArguments(a)
  <2>1. /\ Shaped(p) /\ p.text = a.text /\ p.regions = a.regions /\ p.buyer = None
        /\ p.exact = Defaults.exact /\ p.onlyOpen = a.onlyOpen
        /\ p.from = Defaults.from /\ p.to = Defaults.to /\ p.least = None /\ p.most = None
        /\ p.limit = a.limit /\ p.offset = 0 /\ p.country = None /\ p.orderBy = "score" /\ p.order = "desc"
        /\ p.mode = "keyword" /\ p.refresh = FALSE
    BY <1>2 DEF ExportArguments, Shaped
  <2> HIDE DEF p
  <2>2. p.refresh \in BOOLEAN
    BY <2>1
  <2>3. Arguments(p)
    BY <1>1, <1>2, <2>1, <2>2, ShapedArguments
  <2>4. ValidArguments(p)
    BY <2>1 DEF ValidArguments
  <2> QED
    BY <2>3, <2>4 DEF p
<1>5. Arguments(FacetArguments(a)) /\ (ValidArguments(a) => ValidArguments(FacetArguments(a)))
  <2> DEFINE p == FacetArguments(a)
  <2>0. Shaped(a)
    BY ArgumentsAreShaped
  <2>1. /\ Shaped(p) /\ p.text = a.text /\ p.regions = a.regions /\ p.buyer = a.buyer
        /\ p.exact = a.exact /\ p.onlyOpen = a.onlyOpen
        /\ p.from = Defaults.from /\ p.to = Defaults.to /\ p.least = None /\ p.most = None
        /\ p.limit = MaxLimit /\ p.offset = 0 /\ p.country = a.country /\ p.orderBy = "score" /\ p.order = "desc"
        /\ p.mode = "keyword" /\ p.refresh = a.refresh
    BY <2>0 DEF FacetArguments, Shaped
  <2> HIDE DEF p
  <2>2. MaxLimit \in Int
    BY LimitAssumption
  <2>3. Arguments(p)
    BY <1>1, <1>2, <2>1, <2>2, ShapedArguments
  <2>4. ValidArguments(a) => ValidArguments(p)
    BY <2>1 DEF ValidArguments
  <2> QED
    BY <2>3, <2>4 DEF p
<1> QED
  BY <1>3, <1>4, <1>5

----------------------------------------------------------------------------
(* What SELECTs return *)

StoreType == rows \in [Ids -> Rows \cup {None}] /\ vectors \in [Ids -> Seq(Rows)]

\* A SELECT returns every row once, and none before one that has to come first.
LEMMA OrderItems ==
  ASSUME NEW S, IsFiniteSet(S), NEW R, NEW o \in Orders(S, R)
  PROVE  /\ o \in Seq(S) /\ Len(o) = Cardinality(S) /\ Cardinality(S) \in Nat
         /\ \A j, k \in 1..Len(o) : o[j] = o[k] => j = k
         /\ \A x \in S : \E k \in 1..Len(o) : o[k] = x
         /\ \A j, k \in 1..Len(o) : j < k => <<o[k], o[j]>> \notin R
<1> DEFINE n == Cardinality(S)
<1>1. n \in Nat
  BY FS_CardinalityType
<1>2. /\ o \in [1..n -> S] /\ \A j, k \in 1..n : j # k => o[j] # o[k]
      /\ \A j, k \in 1..n : j < k => <<o[k], o[j]>> \notin R
  BY DEF Orders, SetToSeqs
<1>3. IsFiniteSet(1..n) /\ Cardinality(1..n) = n
  BY <1>1, Places
<1>4. \A x \in S : \E k \in 1..n : o[k] = x
  <2>1. o \in Injection(1..n, S)
    BY <1>2, Fun_IsInj
  <2>2. o \in Surjection(1..n, S)
    BY <1>3, <2>1, FS_Injection
  <2> QED
    BY <2>2 DEF Surjection
<1> HIDE DEF n
<1>5. o \in Seq(S) /\ Len(o) = n
  BY <1>1, <1>2, ListOf
<1> QED
  BY <1>1, <1>2, <1>4, <1>5 DEF n

\* The tenders with the given ids, as they are in the store.
Listing(t) == [k \in 1..Len(t) |-> [id |-> t[k], row |-> rows[t[k]]]]

LEMMA ListingItems ==
  ASSUME StoreType, NEW t \in Seq(Ids), \A k \in 1..Len(t) : rows[t[k]] # None
  PROVE  /\ Listing(t) \in Seq(Results) /\ Len(Listing(t)) = Len(t)
         /\ \A k \in 1..Len(t) : Listing(t)[k].id = t[k] /\ Listing(t)[k].row = rows[t[k]]
<1>1. Len(t) \in Nat /\ \A k \in 1..Len(t) : t[k] \in Ids
  BY LenProperties, ElementOfSeq
<1>2. Listing(t) \in [1..Len(t) -> Results]
  BY <1>1 DEF Listing, Results, StoreType
<1>3. Listing(t) \in Seq(Results) /\ Len(Listing(t)) = Len(t)
  BY <1>1, <1>2, ListOf
<1>4. \A k \in 1..Len(t) : Listing(t)[k].id = t[k] /\ Listing(t)[k].row = rows[t[k]]
  BY DEF Listing
<1> QED
  BY <1>3, <1>4

CandidateOrder(f) == {p \in Candidates(f) \X Candidates(f) : Ranked(rows[p[1]], rows[p[2]], f)}

LEMMA Selected ==
  ASSUME NEW f, NEW s \in Selections(f)
  PROVE  \E o \in Orders(Candidates(f), CandidateOrder(f)) : s = Kept(Listing(Firsts(o, CandidateLimit(f))), f)
BY DEF Selections, Listing, CandidateOrder

LEMMA FiniteCandidates ==
  ASSUME NEW f
  PROVE  /\ IsFiniteSet(Candidates(f)) /\ Candidates(f) \subseteq Ids
         /\ IsFiniteSet(Embedded(f)) /\ Embedded(f) \subseteq Ids
<1>1. IsFiniteSet(Ids)
  BY RowsAssumption
<1>2. Candidates(f) \in SUBSET Ids /\ Embedded(f) \in SUBSET Ids
  BY DEF Candidates, Embedded
<1> QED
  BY <1>1, <1>2, FS_Subset

\* The entries of the tenders that match: one at least for each.
LEMMA EntryItems ==
  ASSUME StoreType, NEW f
  PROVE  /\ IsFiniteSet(Entries(f))
         /\ \A e \in Entries(f) : e = <<e[1], e[2]>> /\ e[1] \in Embedded(f) /\ e[2] \in DOMAIN vectors[e[1]]
         /\ \A i \in Embedded(f) : 1 \in DOMAIN vectors[i] /\ \A m \in DOMAIN vectors[i] : <<i, m>> \in Entries(f)
         /\ \A i \in Embedded(f) : \A m \in DOMAIN vectors[i] : vectors[i][m] \in Rows
<1> DEFINE S == Embedded(f)
           part == [i \in S |-> {i} \X DOMAIN vectors[i]]
<1>1. \A i \in S : vectors[i] \in Seq(Rows) /\ vectors[i] # <<>>
  BY DEF Embedded, StoreType
<1>2. \A i \in S : /\ Len(vectors[i]) \in Nat \ {0} /\ DOMAIN vectors[i] = 1..Len(vectors[i])
                   /\ \A m \in DOMAIN vectors[i] : vectors[i][m] \in Rows
  <2> SUFFICES ASSUME NEW i \in S
               PROVE  /\ Len(vectors[i]) \in Nat \ {0} /\ DOMAIN vectors[i] = 1..Len(vectors[i])
                      /\ \A m \in DOMAIN vectors[i] : vectors[i][m] \in Rows
    OBVIOUS
  <2> DEFINE s == vectors[i]
  <2>1. s \in Seq(Rows) /\ s # <<>>
    BY <1>1
  <2> HIDE DEF s
  <2>2. Len(s) \in Nat /\ DOMAIN s = 1..Len(s) /\ Len(s) # 0
    BY <2>1, LenProperties, EmptySeq
  <2>3. \A m \in DOMAIN s : s[m] \in Rows
    BY <2>1, <2>2, ElementOfSeq
  <2> QED
    BY <2>2, <2>3 DEF s
<1>3. Entries(f) = UNION {part[i] : i \in S}
  BY DEF Entries
<1>4. \A e \in Entries(f) : e = <<e[1], e[2]>> /\ e[1] \in S /\ e[2] \in DOMAIN vectors[e[1]]
  BY <1>3
<1>5. \A i \in S : \A m \in DOMAIN vectors[i] : <<i, m>> \in Entries(f)
  BY <1>3
<1>6. IsFiniteSet({part[i] : i \in S})
  <2>1. IsFiniteSet(S)
    BY FiniteCandidates
  <2>2. part \in Surjection(S, {part[i] : i \in S})
    <3>1. part \in [S -> {part[i] : i \in S}] /\ \A T \in {part[i] : i \in S} : \E i \in S : part[i] = T
      OBVIOUS
    <3> HIDE DEF part, S
    <3> QED
      BY <3>1, Fun_IsSurj
  <2> HIDE DEF part, S
  <2> QED
    BY <2>1, <2>2, FS_Surjection
<1>7. ASSUME NEW T \in {part[i] : i \in S} PROVE IsFiniteSet(T)
  <2>1. PICK i \in S : T = {i} \X DOMAIN vectors[i]
    BY <1>7
  <2>2. IsFiniteSet({i}) /\ IsFiniteSet(DOMAIN vectors[i])
    <3>1. IsFiniteSet({i})
      BY FS_Singleton
    <3>2. DOMAIN vectors[i] = 1..Len(vectors[i]) /\ Len(vectors[i]) \in Int
      BY <1>2, <2>1
    <3>3. IsFiniteSet(1..Len(vectors[i]))
      BY <3>2, FS_Interval
    <3> QED
      BY <3>1, <3>2, <3>3
  <2> QED
    BY <2>1, <2>2, FS_Product
<1>8. IsFiniteSet(Entries(f))
  BY <1>3, <1>6, <1>7, FS_UNION
<1> QED
  BY <1>2, <1>4, <1>5, <1>8

\* The window is as large as the page asked for wants it, and not smaller for a later page.
LEMMA WindowReaches ==
  ASSUME NEW f, f.limit \in Nat \ {0}, f.offset \in Nat
  PROVE  /\ CandidateLimit(f) \in Nat \ {0}
         /\ f.limit <= MaxLimit /\ f.offset <= MaxOffset => f.offset + f.limit <= CandidateLimit(f)
<1> DEFINE least  == IF f.limit <= MaxLimit THEN f.limit ELSE MaxLimit
           size   == (least + f.offset) * CandidateMultiplier
           most   == IF size >= CandidateMin THEN size ELSE CandidateMin
           window == IF most <= CandidateMax THEN most ELSE CandidateMax
<1>1. least \in Nat \ {0} /\ least + f.offset \in Nat \ {0}
  BY LimitAssumption
<1>2. size \in Nat \ {0} /\ least + f.offset <= size
  <2> DEFINE n == least + f.offset
             c == CandidateMultiplier
  <2>1. n \in Nat \ {0} /\ c \in Nat \ {0}
    BY <1>1, WindowAssumption
  <2> HIDE DEF n, c
  <2>2. n * c \in Nat \ {0} /\ n <= n * c
    BY <2>1, Z3
  <2> QED
    BY <2>2 DEF n, c
<1>3. Min({f.limit, MaxLimit}) = least
  BY LimitAssumption, Minimum
<1> HIDE DEF size
<1>4. Max({size, CandidateMin}) = most
  BY <1>2, WindowAssumption, Maximum
<1>5. most \in Nat \ {0} /\ size <= most
  BY <1>2, WindowAssumption
<1> HIDE DEF most
<1>6. Min({most, CandidateMax}) = window
  BY <1>5, WindowAssumption, Minimum
<1>7. CandidateLimit(f) = window
  BY <1>3, <1>4, <1>6 DEF CandidateLimit, size
<1>8. CandidateMax \in Nat \ {0} /\ MaxLimit + MaxOffset <= CandidateMax /\ MaxLimit \in Nat /\ MaxOffset \in Nat
  BY LimitAssumption, WindowAssumption
<1>9. window \in Nat \ {0}
  BY <1>5, <1>8
<1>10. f.limit <= MaxLimit /\ f.offset <= MaxOffset => f.offset + f.limit <= window
  BY <1>2, <1>5, <1>8
<1> QED
  BY <1>7, <1>9, <1>10

\* No two results are of one tender.
Distinct(s) == \A j, k \in 1..Len(s) : s[j].id = s[k].id => j = k

LEMMA DrawnDistinct ==
  ASSUME NEW s, NEW t, Drawn(s, t), Distinct(t)
  PROVE  Distinct(s)
<1>1. PICK p \in [1..Len(s) -> 1..Len(t)] :
        /\ \A j, k \in 1..Len(s) : p[j] = p[k] => j = k
        /\ \A k \in 1..Len(s) : s[k] = t[p[k]]
  BY DEF Drawn
<1>2. ASSUME NEW j \in 1..Len(s), NEW k \in 1..Len(s), s[j].id = s[k].id PROVE j = k
  <2>1. t[p[j]].id = t[p[k]].id /\ p[j] \in 1..Len(t) /\ p[k] \in 1..Len(t)
    BY <1>1, <1>2
  <2>2. p[j] = p[k]
    BY <2>1 DEF Distinct
  <2> QED
    BY <1>1, <2>2
<1> QED
  BY <1>2 DEF Distinct

\* The results of the lexical SELECT are candidates as they are in the store, each once.
LEMMA SelectedItems ==
  ASSUME StoreType, NEW f, f.limit \in Nat \ {0}, f.offset \in Nat, NEW s \in Selections(f)
  PROVE  /\ s \in Seq(Results) /\ Distinct(s)
         /\ \A k \in 1..Len(s) : s[k].id \in Candidates(f) /\ s[k].row = rows[s[k].id] /\ PyMatches(s[k].row, f)
<1>1. PICK o \in Orders(Candidates(f), CandidateOrder(f)) : s = Kept(Listing(Firsts(o, CandidateLimit(f))), f)
  BY Selected
<1> DEFINE t    == Firsts(o, CandidateLimit(f))
           list == Listing(t)
<1>2. /\ o \in Seq(Candidates(f))
      /\ \A j, k \in 1..Len(o) : o[j] = o[k] => j = k
  BY FiniteCandidates, OrderItems
<1>3. CandidateLimit(f) \in Nat
  BY WindowReaches
<1>4. /\ t \in Seq(Candidates(f)) /\ Len(t) = Min({CandidateLimit(f), Len(o)}) /\ Drawn(t, o)
      /\ \A k \in 1..Len(t) : t[k] = o[k]
  BY <1>2, <1>3, FirstItems
<1>5. \A k \in 1..Len(t) : k \in 1..Len(o)
  BY <1>2, <1>3, <1>4, LenProperties, Minimum
<1> HIDE DEF t
<1>6. t \in Seq(Ids) /\ \A k \in 1..Len(t) : t[k] \in Candidates(f) /\ rows[t[k]] # None
  <2>1. \A k \in 1..Len(t) : t[k] \in Candidates(f)
    BY <1>4, ElementOfSeq
  <2>2. Candidates(f) \subseteq Ids
    BY FiniteCandidates
  <2>3. t \in Seq(Ids)
    BY <1>4, <2>2, SeqMonotonic
  <2> QED
    BY <2>1, <2>3 DEF Candidates
<1>7. /\ list \in Seq(Results) /\ Len(list) = Len(t)
      /\ \A k \in 1..Len(t) : list[k].id = t[k] /\ list[k].row = rows[t[k]]
  BY <1>6, ListingItems
<1> HIDE DEF list
<1>8. Distinct(list)
  <2> SUFFICES ASSUME NEW j \in 1..Len(t), NEW k \in 1..Len(t), list[j].id = list[k].id PROVE j = k
    BY <1>7 DEF Distinct
  <2>1. o[j] = o[k]
    BY <1>4, <1>7
  <2> QED
    BY <1>2, <1>5, <2>1
<1>9. /\ s \in Seq(Results) /\ Drawn(s, list)
      /\ \A k \in 1..Len(s) : PyMatches(s[k].row, f)
  BY <1>1, <1>7, KeptItems, KeptIsDrawn DEF list, t
<1>10. PICK p \in [1..Len(s) -> 1..Len(list)] : \A k \in 1..Len(s) : s[k] = list[p[k]]
  BY <1>9 DEF Drawn
<1>11. \A k \in 1..Len(s) : s[k].id \in Candidates(f) /\ s[k].row = rows[s[k].id]
  BY <1>6, <1>7, <1>10
<1> QED
  BY <1>8, <1>9, <1>11, DrawnDistinct

Neighbours == [id : Ids, distance : Int]

\* The distance of an embedding from the text asked for.
Far(e, f) == Distance[f.text][vectors[e[1]][e[2]]]

DistanceOrder(f) == {p \in Entries(f) \X Entries(f) : Far(p[1], f) < Far(p[2], f)}

\* The tenders of the given embeddings, with the distances of those.
Distances(t, f) == [k \in 1..Len(t) |-> [id |-> t[k][1], distance |-> Far(t[k], f)]]

LEMMA Near ==
  ASSUME config.pgvector, NEW f, NEW nearest \in Nearest(f)
  PROVE  \E o \in Orders(Entries(f), DistanceOrder(f)) : nearest = Distances(Firsts(o, SemanticLimit(f)), f)
<1> DEFINE distance(e) == Distance[f.text][vectors[e[1]][e[2]]]
<1>1. PICK t \in {Firsts(o, SemanticLimit(f)) :
                    o \in Orders(Entries(f), {p \in Entries(f) \X Entries(f) : distance(p[1]) < distance(p[2])})} :
        nearest = [k \in 1..Len(t) |-> [id |-> t[k][1], distance |-> distance(t[k])]]
  BY DEF Nearest
<1>2. PICK o \in Orders(Entries(f), DistanceOrder(f)) : t = Firsts(o, SemanticLimit(f))
  BY <1>1 DEF DistanceOrder, Far
<1> QED
  BY <1>1, <1>2 DEF Distances, Far

LEMMA SemanticWindow ==
  ASSUME NEW f, f.limit \in Nat \ {0}, f.offset \in Nat
  PROVE  /\ SemanticLimit(f) \in Nat \ {0}
         /\ f.limit + f.offset <= CandidateMax => f.limit + f.offset <= SemanticLimit(f)
<1> DEFINE size == f.limit + f.offset
           most == IF size <= CandidateMax THEN size ELSE CandidateMax
<1>1. size \in Nat \ {0} /\ CandidateMax \in Nat
  BY WindowAssumption
<1> HIDE DEF size
<1>2. Min({size, CandidateMax}) = most
  BY <1>1, Minimum
<1>3. most \in Nat
  BY <1>1
<1>4. size <= CandidateMax => size <= most
  BY <1>1
<1> HIDE DEF most
<1>5. Max({1, most}) = IF 1 >= most THEN 1 ELSE most
  BY <1>3, Maximum
<1>6. SemanticLimit(f) = IF 1 >= most THEN 1 ELSE most
  BY <1>2, <1>5 DEF SemanticLimit, size
<1> QED
  BY <1>1, <1>3, <1>4, <1>6 DEF size

\* A list of neighbours is how an order of all embeddings begins.
Begins(nearest, o, f) ==
  /\ nearest \in Seq(Neighbours) /\ Len(nearest) = Min({SemanticLimit(f), Len(o)})
  /\ \A k \in 1..Len(nearest) : /\ k \in 1..Len(o) /\ nearest[k].id = o[k][1] /\ o[k] \in Entries(f)
                                /\ nearest[k].distance = Far(o[k], f)

LEMMA FarIsInt ==
  ASSUME StoreType, NEW f, f.text \in DOMAIN Finds, NEW e \in Entries(f)
  PROVE  e[1] \in Ids /\ Far(e, f) \in Int
<1>1. e[1] \in Embedded(f) /\ vectors[e[1]][e[2]] \in Rows
  BY EntryItems
<1>2. Distance[f.text] \in [Rows -> Int]
  BY QueryAssumption
<1> QED
  BY <1>1, <1>2, FiniteCandidates DEF Far

\* The neighbours are entries of tenders that match, with their distances.
LEMMA NearestItems ==
  ASSUME StoreType, NEW f, f.text \in DOMAIN Finds, f.limit \in Nat \ {0}, f.offset \in Nat,
         NEW o \in Orders(Entries(f), DistanceOrder(f))
  PROVE  Begins(Distances(Firsts(o, SemanticLimit(f)), f), o, f)
<1> DEFINE t       == Firsts(o, SemanticLimit(f))
           nearest == Distances(t, f)
<1>1. o \in Seq(Entries(f))
  BY EntryItems, OrderItems
<1>2. SemanticLimit(f) \in Nat
  BY SemanticWindow
<1>3. /\ t \in Seq(Entries(f)) /\ Len(t) = Min({SemanticLimit(f), Len(o)})
      /\ \A k \in 1..Len(t) : t[k] = o[k]
  BY <1>1, <1>2, FirstItems
<1>4. Len(t) \in Nat /\ \A k \in 1..Len(t) : k \in 1..Len(o)
  BY <1>1, <1>2, <1>3, LenProperties, Minimum
<1>5. nearest = [k \in 1..Len(t) |-> [id |-> t[k][1], distance |-> Far(t[k], f)]]
  BY DEF Distances
<1> HIDE DEF t, nearest
<1>6. \A k \in 1..Len(t) : t[k] \in Entries(f)
  BY <1>3, ElementOfSeq
<1>7. \A k \in 1..Len(t) : t[k][1] \in Ids /\ Far(t[k], f) \in Int
  BY <1>6, FarIsInt
<1>8. nearest \in [1..Len(t) -> Neighbours]
  BY <1>5, <1>7 DEF Neighbours
<1>9. nearest \in Seq(Neighbours) /\ Len(nearest) = Len(t)
  BY <1>4, <1>8, ListOf
<1>10. \A k \in 1..Len(nearest) : /\ k \in 1..Len(o) /\ nearest[k].id = o[k][1] /\ o[k] \in Entries(f)
                                  /\ nearest[k].distance = Far(o[k], f)
  BY <1>3, <1>4, <1>5, <1>6, <1>9
<1>11. Begins(nearest, o, f)
  BY <1>3, <1>9, <1>10 DEF Begins
<1> QED
  BY <1>11 DEF t, nearest

LEMMA NearestAreEmbedded ==
  ASSUME StoreType, NEW f, f.text \in DOMAIN Finds, f.limit \in Nat \ {0}, f.offset \in Nat, NEW nearest \in Nearest(f)
  PROVE  nearest \in Seq(Neighbours) /\ \A k \in 1..Len(nearest) : nearest[k].id \in Embedded(f)
<1>1. CASE ~config.pgvector
  <2>1. nearest = <<>>
    BY <1>1 DEF Nearest
  <2> QED
    BY <2>1, EmptySeq
<1>2. CASE config.pgvector
  <2>1. PICK o \in Orders(Entries(f), DistanceOrder(f)) : nearest = Distances(Firsts(o, SemanticLimit(f)), f)
    BY <1>2, Near
  <2>2. Begins(nearest, o, f)
    BY <2>1, NearestItems
  <2>3. \A k \in 1..Len(nearest) : nearest[k].id = o[k][1] /\ o[k] \in Entries(f)
    BY <2>2 DEF Begins
  <2> QED
    BY <2>2, <2>3, EntryItems DEF Begins
<1> QED
  BY <1>1, <1>2

\* The second SELECT reads the tenders found, each once, which are sorted by the distances kept of them.
ReadFrom(semantic, nearest) ==
  /\ Len(semantic) = Cardinality(Members(nearest))
  /\ \A k \in 1..Len(semantic) : semantic[k].id \in Members(nearest) /\ semantic[k].row = rows[semantic[k].id]
  /\ \A i \in Members(nearest) : \E k \in 1..Len(semantic) : semantic[k].id = i
  /\ \A j, k \in 1..Len(semantic) :
       j < k => ~(LastDistance(nearest, semantic[k].id) < LastDistance(nearest, semantic[j].id))

LEMMA MembersAreIds ==
  ASSUME NEW nearest \in Seq(Neighbours)
  PROVE  Members(nearest) \subseteq Ids /\ IsFiniteSet(Members(nearest))
<1>1. \A k \in 1..Len(nearest) : nearest[k].id \in Ids
  <2> SUFFICES ASSUME NEW k \in 1..Len(nearest) PROVE nearest[k].id \in Ids
    OBVIOUS
  <2>1. nearest[k] \in Neighbours
    BY ElementOfSeq
  <2> QED
    BY <2>1 DEF Neighbours
<1>2. Members(nearest) \in SUBSET Ids
  BY <1>1 DEF Members
<1> QED
  BY <1>2, RowsAssumption, FS_Subset

LEMMA RecordItems ==
  ASSUME StoreType, NEW nearest \in Seq(Neighbours), \A k \in 1..Len(nearest) : rows[nearest[k].id] # None,
         NEW semantic \in Records(nearest)
  PROVE  semantic \in Seq(Results) /\ Distinct(semantic) /\ ReadFrom(semantic, nearest)
<1> DEFINE ids == Members(nearest)
           R   == {p \in ids \X ids : LastDistance(nearest, p[1]) < LastDistance(nearest, p[2])}
<1>1. PICK s \in Orders(ids, R) : semantic = [k \in 1..Len(s) |-> [id |-> s[k], row |-> rows[s[k]]]]
  BY DEF Records
<1>2. /\ IsFiniteSet(ids) /\ ids \subseteq Ids /\ \A i \in ids : rows[i] # None
  BY MembersAreIds DEF Members
<1>3. \A i, j \in ids : <<i, j>> \in R <=> LastDistance(nearest, i) < LastDistance(nearest, j)
  OBVIOUS
<1> HIDE DEF ids, R
<1>4. /\ s \in Seq(ids) /\ Len(s) = Cardinality(ids)
      /\ \A j, k \in 1..Len(s) : s[j] = s[k] => j = k
      /\ \A i \in ids : \E k \in 1..Len(s) : s[k] = i
      /\ \A j, k \in 1..Len(s) : j < k => <<s[k], s[j]>> \notin R
  BY <1>1, <1>2, OrderItems
<1>5. \A k \in 1..Len(s) : s[k] \in ids
  BY <1>4, ElementOfSeq
<1>6. s \in Seq(Ids)
  BY <1>2, <1>4, SeqMonotonic
<1>7. semantic = Listing(s)
  BY <1>1 DEF Listing
<1>8. /\ semantic \in Seq(Results) /\ Len(semantic) = Len(s)
      /\ \A k \in 1..Len(s) : semantic[k].id = s[k] /\ semantic[k].row = rows[s[k]]
  BY <1>2, <1>5, <1>6, <1>7, ListingItems
<1>9. Distinct(semantic)
  BY <1>4, <1>8 DEF Distinct
<1>10. ReadFrom(semantic, nearest)
  <2>1. \A j, k \in 1..Len(s) : j < k => ~(LastDistance(nearest, s[k]) < LastDistance(nearest, s[j]))
    BY <1>3, <1>4, <1>5
  <2> QED
    <3>1. \A k \in 1..Len(semantic) : semantic[k].id \in Members(nearest)
      BY <1>5, <1>8 DEF ids
    <3>2. \A i \in Members(nearest) : \E k \in 1..Len(semantic) : semantic[k].id = i
      BY <1>4, <1>8 DEF ids
    <3>3. Len(semantic) = Cardinality(Members(nearest))
      BY <1>4, <1>8 DEF ids
    <3> QED
      BY <1>8, <2>1, <3>1, <3>2, <3>3 DEF ReadFrom
<1> QED
  BY <1>8, <1>9, <1>10

----------------------------------------------------------------------------
(* What holds at each await *)

Labels == {"answered", "feed", "ted", "store", "vectors", "embed", "check", "lexical", "fuse", "nearest", "records",
           "recent", "facets"}

Undated(f) == f.from = [d \in DateFields |-> None] /\ f.to = [d \in DateFields |-> None]

\* The filter of get_recent_tenders.
RecentFilter(f) == [Defaults EXCEPT !.sources = f.sources, !.limit = f.limit]

\* The filter that a call may have at an await.
Staged(label, f) ==
  /\ Filter(f)
  /\ label = "recent" => f = RecentFilter(f)
  /\ label # "recent" => Clean(f)
  /\ \/ f.limit <= MaxLimit \/ label = "recent"
     \/ f.mode = "semantic" /\ f.limit + f.offset <= CandidateMax /\ label \in {"embed", "check", "nearest", "records"}
  /\ label \in {"embed", "check", "fuse", "nearest", "records"} => f.text # None /\ f.mode \in {"semantic", "hybrid"}
  /\ label = "fuse" => f.mode = "hybrid"
  /\ label = "facets" => Undated(f)

StoreInv == StoreType /\ writes \in Nat /\ pc \in Labels

CallInv == pc # "answered" => Staged(pc, filters)

FetchInv ==
  /\ fetch.batch \in Seq(Results) /\ fetch.tenders \in Seq(Results) /\ fetch.page \in Nat \ {0}
  /\ pc \notin {"ted", "store", "vectors"} => fetch = NoFetch

SeenInv ==
  /\ pc \notin {"nearest", "records"} => seen = None /\ got = Nothing
  /\ pc = "nearest" /\ filters.mode # "hybrid" => seen = None /\ got = Nothing
  /\ pc = "nearest" /\ filters.mode = "hybrid" => seen \in 0..writes
  /\ pc = "records" => seen \in 0..writes
  /\ got = [lexical |-> got.lexical, nearest |-> got.nearest]
  /\ got.lexical \in Seq(Results) /\ Distinct(got.lexical)
  /\ got.nearest \in Seq(Neighbours)
  /\ \A k \in 1..Len(got.nearest) : rows[got.nearest[k].id] # None

BaseInv == StoreInv /\ CallInv /\ FetchInv /\ SeenInv

\* Nothing is left of the calls before.
Fresh == fetch = NoFetch /\ got = Nothing /\ seen = None

LEMMA FreshIsEmpty ==
  /\ NoFetch.batch \in Seq(Results) /\ NoFetch.tenders \in Seq(Results) /\ NoFetch.page \in Nat \ {0}
  /\ Nothing = [lexical |-> Nothing.lexical, nearest |-> Nothing.nearest]
  /\ Nothing.lexical \in Seq(Results) /\ Distinct(Nothing.lexical)
  /\ Nothing.nearest \in Seq(Neighbours) /\ 1..Len(Nothing.nearest) = {}
<1>1. <<>> \in Seq(Results) /\ <<>> \in Seq(Neighbours) /\ Len(<<>>) = 0
  BY EmptySeq
<1>2. Distinct(<<>>)
  BY <1>1 DEF Distinct
<1> QED
  BY <1>1, <1>2 DEF NoFetch, Nothing

LEMMA BaseInit == Init => BaseInv
<1> SUFFICES ASSUME Init PROVE BaseInv
  OBVIOUS
<1>1. StoreType
  <2>1. rows \in [Ids -> Rows \cup {None}]
    BY RowsAssumption DEF Init
  <2>2. \A r \in Rows : <<r>> \in Seq(Rows)
    OBVIOUS
  <2>3. <<>> \in Seq(Rows)
    BY EmptySeq
  <2> QED
    BY <2>1, <2>2, <2>3 DEF Init, StoreType
<1>2. Fresh /\ pc = "answered" /\ writes \in Nat
  BY DEF Init, Fresh
<1> QED
  BY <1>1, <1>2, FreshIsEmpty DEF BaseInv, StoreInv, CallInv, FetchInv, SeenInv, Labels, Fresh

\* A response ends the call.
LEMMA AnswerKeeps ==
  ASSUME BaseInv, pc' = "answered", Fresh', UNCHANGED <<store, writes>>
  PROVE  BaseInv'
<1>1. StoreInv'
  BY DEF BaseInv, StoreInv, StoreType, Labels, store
<1> QED
  BY <1>1, FreshIsEmpty DEF BaseInv, CallInv, FetchInv, SeenInv, Fresh

\* A call begins with a filter that its first await may have.
LEMMA BeginKeeps ==
  ASSUME BaseInv, pc = "answered", NEW a, NEW f, NEW label \in {"feed", "embed", "lexical", "recent", "facets"},
         Staged(label, f), Begin(a, f, label)
  PROVE  BaseInv'
<1>1. /\ pc' = label /\ filters' = f /\ rows' = rows /\ vectors' = vectors /\ fetch' = fetch /\ got' = got /\ seen' = seen
      /\ writes' = writes
  BY DEF Begin, Goto, store, filters
<1>2. Fresh
  BY DEF BaseInv, FetchInv, SeenInv, Fresh
<1>3. StoreInv'
  BY <1>1 DEF BaseInv, StoreInv, StoreType, Labels
<1>4. CallInv'
  BY <1>1 DEF CallInv
<1>5. FetchInv' /\ SeenInv'
  BY <1>1, <1>2, FreshIsEmpty DEF FetchInv, SeenInv, Fresh
<1> QED
  BY <1>3, <1>4, <1>5 DEF BaseInv

\* Where a search begins, and where it goes on after a refresh.
LEMMA DispatchStages ==
  ASSUME NEW f, Filter(f), Clean(f), f.limit <= MaxLimit
  PROVE  /\ Dispatch(f) \in {"embed", "lexical"} /\ Staged(Dispatch(f), f)
         /\ \A label \in {"feed", "ted", "store", "vectors", "lexical"} : Staged(label, f)
BY DEF Dispatch, Staged

LEMMA AskKeeps ==
  ASSUME BaseInv, Ready, NEW c \in Calls, Ask(c)
  PROVE  BaseInv'
<1> DEFINE a == c.args
<1>0. pc = "answered" /\ Arguments(a) /\ (c.tool = "semantic" => a.text # None)
  BY CallAssumption DEF Ready
<1> HIDE DEF a
<1>1. ASSUME Refuse(a) PROVE BaseInv'
  BY <1>1, AnswerKeeps DEF Refuse, Error, Answer, Goto, Fresh, store
<1>2. ASSUME AskSearch(a) PROVE BaseInv'
  <2>1. CASE Refuse(a)
    BY <1>1, <2>1
  <2>2. CASE ~Refuse(a)
    <3> DEFINE f     == BuildFilters(a)
               label == IF a.refresh THEN "feed" ELSE Dispatch(f)
    <3>1. ValidArguments(a) /\ Begin(a, f, label)
      BY <1>2, <2>2 DEF AskSearch
    <3>2. Filter(f) /\ Clean(f) /\ f.limit <= MaxLimit
      BY <1>0, <3>1, BuiltFilters
    <3> HIDE DEF f
    <3>3. label \in {"feed", "embed", "lexical"} /\ Staged(label, f)
      BY <3>2, DispatchStages
    <3> QED
      BY <1>0, <3>1, <3>3, BeginKeeps
  <2> QED
    BY <2>1, <2>2
<1>3. ASSUME AskMatch(a) PROVE BaseInv'
  <2> DEFINE b     == MatchArguments(a)
             f     == BuildFilters(b)
             label == IF a.refresh THEN "feed" ELSE Dispatch(f)
  <2>1. Begin(b, f, label)
    BY <1>3 DEF AskMatch
  <2>2. Filter(f) /\ Clean(f) /\ f.limit <= MaxLimit
    BY <1>0, ToolArguments, BuiltFilters
  <2> HIDE DEF b, f
  <2>3. label \in {"feed", "embed", "lexical"} /\ Staged(label, f)
    BY <2>2, DispatchStages
  <2> QED
    BY <1>0, <2>1, <2>3, BeginKeeps
<1>4. ASSUME AskExport(a) PROVE BaseInv'
  <2> DEFINE b == ExportArguments(a)
             f == BuildFilters(b)
  <2>1. Begin(b, f, "lexical")
    BY <1>4 DEF AskExport
  <2>2. Filter(f) /\ Clean(f) /\ f.limit <= MaxLimit
    BY <1>0, ToolArguments, BuiltFilters
  <2> HIDE DEF b, f
  <2>3. Staged("lexical", f)
    BY <2>2, DispatchStages
  <2> QED
    BY <1>0, <2>1, <2>3, BeginKeeps
<1>5. ASSUME AskFacets(a) PROVE BaseInv'
  <2>1. CASE Refuse(a)
    BY <1>1, <2>1
  <2>2. CASE ~Refuse(a)
    <3> DEFINE b == FacetArguments(a)
               f == BuildFilters(b)
    <3>1. ValidArguments(a) /\ Begin(b, f, "facets")
      BY <1>5, <2>2 DEF AskFacets
    <3>2. Filter(f) /\ Clean(f) /\ f.limit <= MaxLimit
      BY <1>0, <3>1, ToolArguments, BuiltFilters
    <3>3. Undated(f)
      <4>1. Shaped(a)
        BY <1>0, ArgumentsAreShaped
      <4>2. b.from = Defaults.from /\ b.to = Defaults.to /\ Shaped(b)
        BY <4>1 DEF FacetArguments, Shaped
      <4> HIDE DEF b
      <4>3. f.from = b.from /\ f.to = b.to
        BY <4>2 DEF BuildFilters, Shaped
      <4> HIDE DEF f
      <4> QED
        BY <4>2, <4>3 DEF Undated, Defaults
    <3> HIDE DEF b, f
    <3>4. Staged("facets", f)
      BY <3>2, <3>3 DEF Staged
    <3> QED
      BY <1>0, <3>1, <3>4, BeginKeeps
  <2> QED
    BY <2>1, <2>2
<1>6. ASSUME AskSemantic(a), c.tool = "semantic" PROVE BaseInv'
  <2> DEFINE f == SemanticFilter(a)
  <2>1. /\ Shaped(f) /\ f.text = a.text /\ f.cpvs = {} /\ f.prefixes = {} /\ f.regions = {} /\ f.buyer = None /\ f.statuses = {}
        /\ f.sources = {} /\ f.exact = Defaults.exact /\ f.onlyOpen = FALSE /\ f.country = None
        /\ f.from = Defaults.from /\ f.to = Defaults.to /\ f.least = None /\ f.most = None
        /\ f.limit = Clamped(a.limit, 1, CandidateMax) /\ f.offset = 0 /\ f.orderBy = "score" /\ f.order = "desc"
        /\ f.mode = "semantic"
    BY DEF SemanticFilter, Defaults, Shaped
  <2>2. Begin(f, f, "embed")
    BY <1>6 DEF AskSemantic
  <2> HIDE DEF f
  <2>3. a.limit \in Int /\ a.text \in DOMAIN Finds
    BY <1>0, <1>6 DEF Arguments
  <2>4. CandidateMax \in Int /\ 1 <= CandidateMax /\ 0 \in 0..MaxOffset
    BY LimitAssumption, WindowAssumption
  <2>5. f.limit \in Nat \ {0} /\ f.limit <= CandidateMax
    BY <2>1, <2>3, <2>4 DEF Clamped
  <2>6. Filter(f)
    BY <2>1, <2>3, <2>4, <2>5 DEF Filter, Shaped
  <2>7. Clean(f)
    <3>1. /\ Defaults.exact \in [ExactFields -> SUBSET Texts] /\ Defaults.from \in [DateFields -> Int \cup {None}]
          /\ Defaults.to \in [DateFields -> Int \cup {None}]
      BY DEF Defaults
    <3>2. f.onlyOpen \in BOOLEAN
      BY <2>1
    <3>3. FilterFields(f)
      BY <2>1, <3>1, <3>2 DEF FilterFields
    <3> QED
      BY <2>1, <3>3 DEF Clean, CpvCodes, CpvPrefixes
  <2>8. f.limit + f.offset <= CandidateMax
    BY <2>1, <2>4, <2>5
  <2>9. f.text # None
    BY <2>1, <2>3, QueryAssumption
  <2>10. Staged("embed", f)
    BY <2>1, <2>6, <2>7, <2>8, <2>9 DEF Staged
  <2> QED
    BY <1>0, <2>2, <2>10, BeginKeeps
<1>7. ASSUME AskRecent(a) PROVE BaseInv'
  <2> DEFINE f == [Defaults EXCEPT !.sources = a.sources, !.limit = Clamped(a.limit, 1, RecentMax)]
  <2>1. /\ Shaped(f) /\ f.text = None /\ f.limit = Clamped(a.limit, 1, RecentMax) /\ f.offset = 0 /\ f.orderBy = "score"
        /\ f.order = "desc" /\ f.mode = "keyword" /\ f.sources = a.sources
    BY DEF Defaults, Shaped
  <2>2. Begin(a, f, "recent") \/ Error("raised")
    BY <1>7 DEF AskRecent
  <2>3. f = RecentFilter(f)
    BY DEF RecentFilter, Defaults
  <2> HIDE DEF f
  <2>4. a.limit \in Int /\ RecentMax \in Int /\ 1 <= RecentMax /\ 0 \in 0..MaxOffset
    BY <1>0, LimitAssumption, WindowAssumption DEF Arguments
  <2>5. f.limit \in Nat \ {0}
    BY <2>1, <2>4 DEF Clamped
  <2>6. Filter(f)
    BY <2>1, <2>4, <2>5 DEF Filter, Shaped
  <2>7. Staged("recent", f)
    BY <2>3, <2>6 DEF Staged
  <2>8. CASE Error("raised")
    BY <2>8, AnswerKeeps DEF Error, Answer, Goto, Fresh, store
  <2> QED
    BY <1>0, <2>2, <2>7, <2>8, BeginKeeps
<1> QED
  BY <1>2, <1>3, <1>4, <1>5, <1>6, <1>7 DEF Ask, a

\* A step to another await that leaves what the call has read as it is.
LEMMA StepKeeps ==
  ASSUME BaseInv, StoreType', FetchInv', UNCHANGED <<call, got, seen, writes>>,
         pc \notin {"answered", "nearest", "records"}, pc' \in Labels \ {"answered", "records"}, Staged(pc', filters),
         pc' = "nearest" => filters.mode # "hybrid"
  PROVE  BaseInv'
<1>1. filters' = filters
  BY DEF filters
<1>2. StoreInv'
  BY DEF BaseInv, StoreInv
<1>3. CallInv'
  BY <1>1 DEF CallInv
<1>4. seen = None /\ got = Nothing
  BY DEF BaseInv, SeenInv
<1>5. SeenInv'
  BY <1>1, <1>4, FreshIsEmpty DEF SeenInv
<1> QED
  BY <1>2, <1>3, <1>5 DEF BaseInv

\* The filter of a call that is not one for recent tenders.
LEMMA AtStage ==
  ASSUME BaseInv, pc # "answered"
  PROVE  /\ Staged(pc, filters) /\ Filter(filters)
         /\ filters.limit \in Nat \ {0} /\ filters.offset \in Nat /\ Pageable(filters)
<1>1. Staged(pc, filters) /\ Filter(filters)
  BY DEF BaseInv, CallInv, Staged
<1>2. Pageable(filters)
  BY <1>1, FilterIsPageable
<1> QED
  BY <1>1, <1>2 DEF Pageable

\* The pages of TED are parts of what it finds.
LEMMA PageItems ==
  ASSUME NEW found \in Seq(Notices), NEW page \in Nat \ {0}, NEW f, f.limit \in Nat \ {0}
  PROVE  LET L == TedPageLimit(f)
             n == IF page * L <= Len(found) THEN page * L ELSE Len(found)
         IN  /\ L \in Nat \ {0} /\ (page - 1) * L \in Nat /\ page * L = (page - 1) * L + L
             /\ TedPage(found, page, f) = SubSeq(found, (page - 1) * L + 1, n)
             /\ TedPage(found, page, f) \in Seq(Notices)
<1> DEFINE L == TedPageLimit(f)
           n == IF page * L <= Len(found) THEN page * L ELSE Len(found)
           m == (page - 1) * L
<1>1. L \in Nat \ {0}
  BY PageAssumption DEF TedPageLimit, Clamped
<1>2. Len(found) \in Nat
  BY LenProperties
<1> HIDE DEF L
<1>3. m \in Nat /\ page * L = m + L
  BY <1>1, Z3
<1>4. TedPage(found, page, f) = SubSeq(found, m + 1, n)
  <2>1. Min({page * L, Len(found)}) = n
    BY <1>1, <1>2, <1>3, Minimum
  <2> QED
    BY <2>1 DEF TedPage, L
<1> HIDE DEF m
<1>5. n \in Int /\ n <= Len(found) /\ m + 1 \in Nat \ {0}
  BY <1>1, <1>2, <1>3
<1> HIDE DEF n
<1>6. SubSeq(found, m + 1, n) \in Seq(Notices)
  <2>1. /\ SubSeq(found, m + 1, n) \in Seq(Notices) /\ Drawn(SubSeq(found, m + 1, n), found)
        /\ Taken(SubSeq(found, m + 1, n), found, m + 1, n)
    BY <1>5, PartIsDrawn
  <2> QED
    BY <2>1
<1> QED
  BY <1>1, <1>3, <1>4, <1>6 DEF L, n, m

LEMMA ReplyItems ==
  ASSUME BaseInv, pc = "ted", NEW reply \in Replies
  PROVE  \E index \in Indexes :
           /\ index \in Seq(Notices) /\ TedFinds(index, TedQuery(filters)) \in Seq(Notices)
           /\ reply = [index |-> index, page |-> Parsed(TedPage(TedFinds(index, TedQuery(filters)), fetch.page, filters))]
           /\ reply.page \in Seq(Results)
<1>1. PICK index \in Indexes :
        reply = [index |-> index, page |-> Parsed(TedPage(TedFinds(index, TedQuery(filters)), fetch.page, filters))]
  BY DEF Replies
<1>2. index \in Seq(Notices)
  BY NoticeTypes
<1>3. TedFinds(index, TedQuery(filters)) \in Seq(Notices)
  BY <1>2, FoundItems
<1>4. fetch.page \in Nat \ {0} /\ filters.limit \in Nat \ {0}
  BY AtStage DEF BaseInv, FetchInv
<1>5. TedPage(TedFinds(index, TedQuery(filters)), fetch.page, filters) \in Seq(Notices)
  BY <1>3, <1>4, PageItems
<1>6. reply.page \in Seq(Results)
  BY <1>1, <1>5, ParsedItems
<1> QED
  BY <1>1, <1>2, <1>3, <1>6

LEMMA TedResultType ==
  ASSUME NEW s \in Seq(Results), NEW f, f.limit \in Nat
  PROVE  TedResult(s, f) \in Seq(Results)
<1>1. Kept(s, f) \in Seq(Results)
  BY KeptItems
<1>2. TedResult(s, f) = Firsts(Kept(s, f), f.limit)
  BY DEF TedResult, Firsts
<1> QED
  BY <1>1, <1>2, FirstItems

----------------------------------------------------------------------------
(* The refresh of the sources *)

LEMMA LargestPlace ==
  ASSUME NEW n \in Nat, NEW S \in SUBSET (1..n), S # {}
  PROVE  Max(S) \in S
<1> DEFINE m     == Cardinality(S)
           ranks == Ranking(S, Less)
<1>1. IsFiniteSet(S)
  BY Places, FS_Subset
<1>2. Linear(S, Less)
  BY LessIsLinear
<1>3. /\ m \in Nat /\ ranks \in [1..m -> S]
      /\ \A j, k \in 1..m : j < k => <<ranks[j], ranks[k]>> \in Less
      /\ \A x \in S : \E k \in 1..m : ranks[k] = x
  BY <1>1, <1>2, RankingIsOrder
<1> HIDE DEF m, ranks
<1>4. m \in 1..m
  <2>1. PICK x \in S : TRUE
    OBVIOUS
  <2>2. PICK k \in 1..m : ranks[k] = x
    BY <1>3
  <2> QED
    BY <1>3, <2>2
<1>5. ASSUME NEW y \in S PROVE ranks[m] >= y
  <2>1. PICK k \in 1..m : ranks[k] = y
    BY <1>3
  <2>2. CASE k = m
    BY <1>3, <1>4, <2>1, <2>2
  <2>3. CASE k < m
    <3>1. <<ranks[k], ranks[m]>> \in Less
      BY <1>3, <1>4, <2>3
    <3> QED
      BY <2>1, <3>1 DEF Less
  <2> QED
    BY <1>3, <2>1, <2>2, <2>3
<1>6. \E x \in S : \A y \in S : x >= y
  BY <1>3, <1>4, <1>5
<1> QED
  BY <1>6 DEF Max

LEMMA UpsertedType ==
  ASSUME NEW table \in [Ids -> Rows \cup {None}], NEW batch \in Seq(Results)
  PROVE  Upserted(table, batch) \in [Ids -> Rows \cup {None}]
<1> SUFFICES ASSUME NEW i \in Ids PROVE Upserted(table, batch)[i] \in Rows \cup {None}
  BY DEF Upserted
<1> DEFINE S == {k \in 1..Len(batch) : batch[k].id = i}
<1>1. CASE i \notin Members(batch)
  BY <1>1 DEF Upserted
<1>2. CASE i \in Members(batch)
  <2>1. Len(batch) \in Nat /\ \A k \in 1..Len(batch) : batch[k] \in Results
    BY LenProperties, ElementOfSeq
  <2>2. S \in SUBSET (1..Len(batch)) /\ S # {}
    BY <1>2 DEF Members
  <2>3. Upserted(table, batch)[i] = batch[Max(S)].row
    BY <1>2 DEF Upserted
  <2> HIDE DEF S
  <2>4. Max(S) \in 1..Len(batch)
    BY <2>1, <2>2, LargestPlace
  <2> QED
    BY <2>1, <2>3, <2>4 DEF Results
<1> QED
  BY <1>1, <1>2

\* Where a refresh goes on: everything a search may begin with is still so.
LEMMA RefreshStages ==
  ASSUME BaseInv, pc \in {"feed", "ted", "store", "vectors"}
  PROVE  /\ Filter(filters) /\ Clean(filters) /\ filters.limit <= MaxLimit
         /\ \A label \in {"feed", "ted", "store", "vectors"} : Staged(label, filters)
         /\ Dispatch(filters) \in {"embed", "lexical"} /\ Staged(Dispatch(filters), filters)
         /\ AfterFeed \in {"ted", "embed", "lexical"} /\ Staged(AfterFeed, filters)
         /\ AfterStore \in {"ted", "embed", "lexical"} /\ Staged(AfterStore, filters)
<1>1. Filter(filters) /\ Clean(filters) /\ filters.limit <= MaxLimit
  BY DEF BaseInv, CallInv, Staged
<1>2. /\ Dispatch(filters) \in {"embed", "lexical"} /\ Staged(Dispatch(filters), filters)
      /\ \A label \in {"feed", "ted", "store", "vectors"} : Staged(label, filters)
  BY <1>1, DispatchStages
<1>3. AfterFeed \in {"ted", "embed", "lexical"} /\ Staged(AfterFeed, filters)
  BY <1>2 DEF AfterFeed
<1>4. AfterStore \in {"ted", "embed", "lexical"} /\ Staged(AfterStore, filters)
  BY <1>2, <1>3 DEF AfterStore
<1> QED
  BY <1>1, <1>2, <1>3, <1>4

LEMMA ReadFeedKeeps == ASSUME BaseInv, ReadFeed PROVE BaseInv'
<1>1. pc = "feed" /\ UNCHANGED <<store, call, got, seen, writes>>
  BY DEF ReadFeed
<1>2. fetch = NoFetch /\ StoreType
  BY <1>1 DEF BaseInv, FetchInv, StoreInv
<1>3. StoreType'
  BY <1>1, <1>2 DEF StoreType, store
<1>4. CASE Goto(AfterFeed) /\ UNCHANGED fetch
  <2>1. FetchInv'
    BY <1>2, <1>4, FreshIsEmpty DEF FetchInv
  <2>2. pc' \in {"ted", "embed", "lexical"} /\ Staged(pc', filters)
    BY <1>1, <1>4, RefreshStages DEF Goto
  <2> QED
    BY <1>1, <1>3, <2>1, <2>2, StepKeeps DEF Labels
<1>5. ASSUME Goto("store"), NEW feed \in Feeds, fetch' = [NoFetch EXCEPT !.source = "placsp", !.batch = PlacspResult(feed, filters)]
      PROVE  BaseInv'
  <2>1. Parsed(feed) \in Seq(Results)
    BY NoticeTypes, ParsedItems
  <2>2. PlacspResult(feed, filters) \in Seq(Results)
    BY <2>1, KeptItems DEF PlacspResult
  <2>3. fetch'.batch = PlacspResult(feed, filters) /\ fetch'.tenders = NoFetch.tenders /\ fetch'.page = NoFetch.page
    BY <1>5 DEF NoFetch
  <2>4. FetchInv'
    BY <1>5, <2>2, <2>3, FreshIsEmpty DEF FetchInv, Goto
  <2>5. pc' = "store" /\ Staged(pc', filters)
    BY <1>1, <1>5, RefreshStages DEF Goto
  <2> QED
    BY <1>1, <1>3, <2>4, <2>5, StepKeeps DEF Labels
<1> QED
  BY <1>4, <1>5 DEF ReadFeed

LEMMA ReadTedKeeps == ASSUME BaseInv, ReadTed PROVE BaseInv'
<1>1. pc = "ted" /\ UNCHANGED <<store, call, got, seen, writes>>
  BY DEF ReadTed
<1>2. StoreType'
  BY <1>1 DEF StoreType, store, BaseInv, StoreInv
<1>3. PICK reply \in Replies :
        LET tenders == fetch.tenders \o reply.page
            done    == IsLast(reply.page, filters) \/ Len(tenders) >= filters.limit
        IN  /\ fetch' = [source |-> "ted", tenders |-> tenders, indexes |-> fetch.indexes \cup {reply.index},
                         batch |-> IF done THEN TedResult(tenders, filters) ELSE <<>>,
                         page  |-> IF done THEN fetch.page ELSE fetch.page + 1]
            /\ Goto(IF done THEN "store" ELSE "ted")
  BY DEF ReadTed
<1> DEFINE tenders == fetch.tenders \o reply.page
           done    == IsLast(reply.page, filters) \/ Len(tenders) >= filters.limit
<1>4. reply.page \in Seq(Results)
  BY <1>1, ReplyItems
<1>5. tenders \in Seq(Results) /\ fetch.page \in Nat \ {0}
  BY <1>4, ConcatProperties DEF BaseInv, FetchInv
<1>6. /\ fetch'.tenders = tenders /\ fetch'.batch = (IF done THEN TedResult(tenders, filters) ELSE <<>>)
      /\ fetch'.page = (IF done THEN fetch.page ELSE fetch.page + 1)
      /\ pc' = IF done THEN "store" ELSE "ted"
  BY <1>3 DEF Goto
<1> HIDE DEF tenders, done
<1>7. TedResult(tenders, filters) \in Seq(Results) /\ <<>> \in Seq(Results)
  BY <1>1, <1>5, AtStage, TedResultType, EmptySeq
<1>8. FetchInv'
  BY <1>5, <1>6, <1>7 DEF FetchInv
<1>9. pc' \in {"store", "ted"} /\ Staged(pc', filters)
  BY <1>1, <1>6, RefreshStages
<1> QED
  BY <1>1, <1>2, <1>8, <1>9, StepKeeps DEF Labels

LEMMA StoredKeeps ==
  ASSUME BaseInv, pc \in {"store", "vectors"}, StoreType', UNCHANGED <<call, got, seen, writes>>,
         NEW label \in {"ted", "vectors", "embed", "lexical"}, Staged(label, filters), Stored(label)
  PROVE  BaseInv'
<1>1. pc' = label /\ fetch' = (IF label = "vectors" THEN fetch ELSE NoFetch)
  BY DEF Stored, Goto
<1>2. FetchInv'
  BY <1>1, FreshIsEmpty DEF FetchInv, BaseInv
<1> QED
  BY <1>1, <1>2, StepKeeps DEF Labels

LEMMA StoreTendersKeeps == ASSUME BaseInv, StoreTenders PROVE BaseInv'
<1> DEFINE label == IF config.embedder /\ fetch.batch # <<>> THEN "vectors" ELSE AfterStore
<1>1. /\ pc = "store" /\ rows' = Upserted(rows, fetch.batch) /\ Stored(label)
      /\ UNCHANGED <<vectors, call, got, seen, writes>>
  BY DEF StoreTenders
<1>2. rows' \in [Ids -> Rows \cup {None}]
  BY <1>1, UpsertedType DEF BaseInv, StoreInv, StoreType, FetchInv
<1>3. StoreType'
  BY <1>1, <1>2 DEF BaseInv, StoreInv, StoreType
<1>4. label \in {"ted", "vectors", "embed", "lexical"} /\ Staged(label, filters)
  BY <1>1, RefreshStages
<1> HIDE DEF label
<1> QED
  BY <1>1, <1>3, <1>4, StoredKeeps

\* Every tender keeps what it had, or has the rows of the batch.
LEMMA ReplacedType ==
  ASSUME NEW table \in [Ids -> Seq(Rows)], NEW batch \in Seq(Results)
  PROVE  Replaced(table, batch) \in [Ids -> Seq(Rows)]
<1> SUFFICES ASSUME NEW i \in Ids PROVE Replaced(table, batch)[i] \in Seq(Rows)
  BY DEF Replaced
<1> DEFINE new == Pick(batch, {k \in 1..Len(batch) : batch[k].id = i})
<1>1. new \in Seq(Results)
  BY PickedItems
<1> HIDE DEF new
<1>2. Len(new) \in Nat /\ \A k \in 1..Len(new) : new[k].row \in Rows
  <2>1. \A k \in 1..Len(new) : new[k] \in Results
    BY <1>1, ElementOfSeq
  <2> QED
    BY <1>1, <2>1, LenProperties DEF Results
<1>3. [k \in 1..Len(new) |-> new[k].row] \in Seq(Rows)
  <2>1. [k \in 1..Len(new) |-> new[k].row] \in [1..Len(new) -> Rows]
    BY <1>2
  <2> QED
    BY <1>2, <2>1, ListOf
<1>4. Replaced(table, batch)[i] = IF new = <<>> THEN table[i] ELSE [k \in 1..Len(new) |-> new[k].row]
  BY DEF Replaced, new
<1> QED
  BY <1>3, <1>4

LEMMA StoreVectorsKeeps == ASSUME BaseInv, StoreVectors PROVE BaseInv'
<1>1. PICK places \in SUBSET (1..Len(fetch.batch)) : vectors' = Replaced(vectors, Pick(fetch.batch, places))
  BY DEF StoreVectors
<1>2. pc = "vectors" /\ Stored(AfterStore) /\ UNCHANGED <<rows, call, got, seen, writes>>
  BY DEF StoreVectors
<1>3. vectors' \in [Ids -> Seq(Rows)]
  <2>1. vectors \in [Ids -> Seq(Rows)] /\ fetch.batch \in Seq(Results)
    BY DEF BaseInv, StoreInv, StoreType, FetchInv
  <2>2. Pick(fetch.batch, places) \in Seq(Results)
    BY <2>1, PickedItems
  <2> QED
    BY <1>1, <2>1, <2>2, ReplacedType
<1>4. StoreType'
  BY <1>2, <1>3 DEF BaseInv, StoreInv, StoreType
<1>5. AfterStore \in {"ted", "embed", "lexical"} /\ Staged(AfterStore, filters)
  BY <1>2, RefreshStages
<1> QED
  BY <1>2, <1>4, <1>5, StoredKeeps

----------------------------------------------------------------------------
(* The search *)

LEMMA EmbedQueryKeeps == ASSUME BaseInv, EmbedQuery PROVE BaseInv'
<1>1. pc = "embed" /\ Staged("embed", filters) /\ fetch = NoFetch
  BY AtStage DEF EmbedQuery, BaseInv, FetchInv
<1>2. CASE Move("check") \/ (filters.mode = "hybrid" /\ Move("lexical"))
  <2>1. pc' \in {"check", "lexical"} /\ UNCHANGED <<store, call, fetch, got, seen, writes>>
    BY <1>2 DEF Move, Goto
  <2>2. Staged(pc', filters)
    BY <1>1, <1>2, <2>1 DEF Staged, Move, Goto
  <2>3. StoreType' /\ FetchInv'
    BY <1>1, <2>1 DEF BaseInv, StoreInv, StoreType, FetchInv, store
  <2> QED
    BY <1>1, <2>1, <2>2, <2>3, StepKeeps DEF Labels
<1>3. CASE Error("embeddings_disabled")
  BY <1>3, AnswerKeeps DEF Error, Answer, Goto, Fresh, store
<1> QED
  BY <1>2, <1>3 DEF EmbedQuery, Fallback

LEMMA CheckPgvectorKeeps == ASSUME BaseInv, CheckPgvector PROVE BaseInv'
<1>1. pc = "check" /\ Staged("check", filters) /\ fetch = NoFetch
  BY AtStage DEF CheckPgvector, BaseInv, FetchInv
<1>2. CASE Move(IF filters.mode = "semantic" THEN "nearest" ELSE "fuse") \/ (filters.mode = "hybrid" /\ Move("lexical"))
  <2>1. /\ pc' \in {"nearest", "fuse", "lexical"} /\ UNCHANGED <<store, call, fetch, got, seen, writes>>
        /\ (pc' = "nearest" => filters.mode = "semantic") /\ (pc' # "nearest" => filters.mode = "hybrid")
    BY <1>1, <1>2 DEF Move, Goto, Staged
  <2>2. Staged(pc', filters)
    BY <1>1, <2>1 DEF Staged
  <2>3. StoreType' /\ FetchInv'
    BY <1>1, <2>1 DEF BaseInv, StoreInv, StoreType, FetchInv, store
  <2> QED
    BY <1>1, <2>1, <2>2, <2>3, StepKeeps DEF Labels
<1>3. CASE Error("pgvector_unavailable")
  BY <1>3, AnswerKeeps DEF Error, Answer, Goto, Fresh, store
<1> QED
  BY <1>2, <1>3 DEF CheckPgvector, Fallback

\* The filter of the lexical side differs in its page and order only.
LEMMA LexicalSide ==
  ASSUME NEW f, Filter(f)
  PROVE  LET g == LexicalFilter(f)
         IN  /\ Pageable(g) /\ g.limit \in Nat \ {0} /\ g.offset = 0 /\ g.orderBy = "score" /\ g.order = "desc"
             /\ g.text = f.text /\ g.cpvs = f.cpvs /\ g.prefixes = f.prefixes /\ g.nuts = f.nuts /\ g.regions = f.regions
             /\ g.buyer = f.buyer /\ g.statuses = f.statuses /\ g.sources = f.sources /\ g.exact = f.exact
             /\ g.onlyOpen = f.onlyOpen /\ g.country = f.country /\ g.from = f.from /\ g.to = f.to
             /\ g.least = f.least /\ g.most = f.most
<1> DEFINE g == LexicalFilter(f)
           n == Max({1, Min({FusionWindow(f), CandidateMax})})
<1>1. Shaped(f) /\ f.limit \in Nat \ {0} /\ f.offset \in Nat
  <2>1. Pageable(f)
    BY FilterIsPageable
  <2> QED
    BY <2>1 DEF Filter, Shaped, Pageable
<1>2. n \in Nat \ {0}
  <2>1. n = SemanticLimit(f)
    BY DEF SemanticLimit, FusionWindow
  <2> QED
    BY <1>1, <2>1, SemanticWindow
<1>3. g = [f EXCEPT !.offset = 0, !.limit = n, !.orderBy = "score", !.order = "desc"]
  BY DEF LexicalFilter
<1> HIDE DEF n, g
<1>4. /\ g.limit = n /\ g.offset = 0 /\ g.orderBy = "score" /\ g.order = "desc"
      /\ g.text = f.text /\ g.cpvs = f.cpvs /\ g.prefixes = f.prefixes /\ g.nuts = f.nuts /\ g.regions = f.regions
      /\ g.buyer = f.buyer /\ g.statuses = f.statuses /\ g.sources = f.sources /\ g.exact = f.exact
      /\ g.onlyOpen = f.onlyOpen /\ g.country = f.country /\ g.from = f.from /\ g.to = f.to
      /\ g.least = f.least /\ g.most = f.most
  BY <1>1, <1>3 DEF Shaped
<1>5. Pageable(g)
  BY <1>2, <1>4 DEF Pageable
<1> QED
  BY <1>2, <1>4, <1>5 DEF g

\* What the lexical side contributes: candidates as they are in the store, each once.
LEMMA LexicalItems ==
  ASSUME StoreType, NEW f, Pageable(f), NEW s \in Selections(f)
  PROVE  LET results == SearchTenders(s, f)
         IN  /\ results \in Seq(Results) /\ Distinct(results)
             /\ \A k \in 1..Len(results) : /\ results[k].id \in Candidates(f) /\ results[k].row = rows[results[k].id]
                                           /\ PyMatches(results[k].row, f)
<1> DEFINE results == SearchTenders(s, f)
<1>1. /\ s \in Seq(Results) /\ Distinct(s)
      /\ \A k \in 1..Len(s) : s[k].id \in Candidates(f) /\ s[k].row = rows[s[k].id] /\ PyMatches(s[k].row, f)
  BY SelectedItems DEF Pageable
<1>2. results \in Seq(Results) /\ Drawn(results, s)
  BY <1>1, SearchedAreDrawn
<1> HIDE DEF results
<1>3. PICK p \in [1..Len(results) -> 1..Len(s)] : \A k \in 1..Len(results) : results[k] = s[p[k]]
  BY <1>2 DEF Drawn
<1>4. \A k \in 1..Len(results) : /\ results[k].id \in Candidates(f) /\ results[k].row = rows[results[k].id]
                                 /\ PyMatches(results[k].row, f)
  BY <1>1, <1>3
<1>5. Distinct(results)
  BY <1>1, <1>2, DrawnDistinct
<1> QED
  BY <1>2, <1>4, <1>5 DEF results

LEMMA ReadLexicalSideKeeps == ASSUME BaseInv, ReadLexicalSide PROVE BaseInv'
<1>1. /\ pc = "fuse" /\ Staged("fuse", filters) /\ Filter(filters) /\ fetch = NoFetch /\ seen = None /\ got = Nothing
      /\ StoreType /\ writes \in Nat
  BY AtStage DEF ReadLexicalSide, BaseInv, FetchInv, SeenInv, StoreInv
<1> DEFINE g == LexicalFilter(filters)
<1>2. PICK s \in Selections(g) : got' = [got EXCEPT !.lexical = SearchTenders(s, g)]
  BY DEF ReadLexicalSide
<1>3. pc' = "nearest" /\ seen' = writes /\ UNCHANGED <<store, call, fetch, writes>>
  BY <1>1 DEF ReadLexicalSide, Look, Goto
<1>4. Pageable(g)
  BY <1>1, LexicalSide
<1> HIDE DEF g
<1>5. SearchTenders(s, g) \in Seq(Results) /\ Distinct(SearchTenders(s, g))
  BY <1>1, <1>4, LexicalItems
<1>6. /\ got'.lexical = SearchTenders(s, g) /\ got'.nearest = Nothing.nearest
      /\ got' = [lexical |-> got'.lexical, nearest |-> got'.nearest]
  BY <1>1, <1>2 DEF Nothing
<1>7. filters' = filters /\ filters.mode = "hybrid"
  BY <1>1, <1>3 DEF filters, Staged
<1>8. StoreInv'
  BY <1>1, <1>3 DEF StoreInv, StoreType, store, Labels
<1>9. CallInv'
  <2>1. Staged("nearest", filters)
    BY <1>1 DEF Staged
  <2> QED
    BY <1>3, <1>7, <2>1 DEF CallInv
<1>10. FetchInv'
  BY <1>1, <1>3, FreshIsEmpty DEF FetchInv
<1>11. SeenInv'
  BY <1>1, <1>3, <1>5, <1>6, <1>7, FreshIsEmpty DEF SeenInv
<1> QED
  BY <1>8, <1>9, <1>10, <1>11 DEF BaseInv

\* The first response that ends a call, and every other one.
LEMMA FinishKeeps == ASSUME BaseInv, NEW semantic, Finish(semantic) PROVE BaseInv'
BY AnswerKeeps DEF Finish, Answer, Goto, Fresh, store

LEMMA ReadNearestKeeps == ASSUME BaseInv, ReadNearest PROVE BaseInv'
<1>1. /\ pc = "nearest" /\ Staged("nearest", filters) /\ Filter(filters) /\ fetch = NoFetch /\ StoreType /\ writes \in Nat
      /\ filters.text \in DOMAIN Finds /\ filters.limit \in Nat \ {0} /\ filters.offset \in Nat
  BY AtStage DEF ReadNearest, BaseInv, FetchInv, StoreInv, Staged, Filter
<1>2. PICK nearest \in Nearest(filters) :
        \/ nearest = <<>> /\ Finish(<<>>)
        \/ /\ nearest # <<>> /\ got' = [got EXCEPT !.nearest = nearest]
           /\ Look /\ Goto("records")
           /\ UNCHANGED <<store, config, call, fetch, answer, writes>>
  BY DEF ReadNearest
<1>3. CASE Finish(<<>>)
  BY <1>3, FinishKeeps
<1>4. CASE /\ got' = [got EXCEPT !.nearest = nearest]
           /\ Look /\ Goto("records")
           /\ UNCHANGED <<store, config, call, fetch, answer, writes>>
  <2>2. nearest \in Seq(Neighbours) /\ \A k \in 1..Len(nearest) : nearest[k].id \in Embedded(filters)
    BY <1>1, NearestAreEmbedded
  <2>3. \A k \in 1..Len(nearest) : rows[nearest[k].id] # None
    BY <2>2 DEF Embedded
  <2>4. /\ got'.lexical = got.lexical /\ got'.nearest = nearest
        /\ got' = [lexical |-> got'.lexical, nearest |-> got'.nearest]
    <3>1. got = [lexical |-> got.lexical, nearest |-> got.nearest]
      BY DEF BaseInv, SeenInv
    <3> QED
      BY <1>4, <3>1
  <2>5. /\ pc' = "records" /\ seen' = (IF seen = None THEN writes ELSE seen) /\ filters' = filters
        /\ UNCHANGED <<rows, vectors, call, fetch, writes>>
    BY <1>4 DEF Look, Goto, store, filters
  <2>6. StoreInv'
    BY <1>1, <2>5 DEF StoreInv, StoreType, Labels
  <2>7. CallInv'
    <3>1. Staged("records", filters)
      BY <1>1 DEF Staged
    <3> QED
      BY <2>5, <3>1 DEF CallInv
  <2>8. FetchInv'
    BY <1>1, <2>5, FreshIsEmpty DEF FetchInv
  <2>9. seen' \in 0..writes
    BY <1>1, <2>5 DEF BaseInv, SeenInv, Staged
  <2>10. got.lexical \in Seq(Results) /\ Distinct(got.lexical)
    BY DEF BaseInv, SeenInv
  <2>11. SeenInv'
    BY <2>2, <2>3, <2>4, <2>5, <2>9, <2>10 DEF SeenInv
  <2> QED
    BY <2>6, <2>7, <2>8, <2>11 DEF BaseInv
<1> QED
  BY <1>2, <1>3, <1>4

----------------------------------------------------------------------------
(* The other processes *)

\* A tender that was written stays in the store, and so does an embedding.
LEMMA WrittenKeeps ==
  ASSUME BaseInv, rows' \in [Ids -> Rows \cup {None}], vectors' \in [Ids -> Seq(Rows)],
         \A i \in Ids : rows[i] # None => rows'[i] # None,
         writes' \in Nat, writes <= writes', UNCHANGED <<pc, call, fetch, got, seen>>
  PROVE  BaseInv'
<1>1. filters' = filters
  BY DEF filters
<1>2. StoreInv'
  BY DEF BaseInv, StoreInv, StoreType
<1>3. CallInv' /\ FetchInv'
  BY <1>1 DEF BaseInv, CallInv, FetchInv
<1>4. 0..writes \subseteq 0..writes'
  BY DEF BaseInv, StoreInv
<1>5. ASSUME NEW k \in 1..Len(got.nearest) PROVE rows'[got.nearest[k].id] # None
  <2>1. got.nearest \in Seq(Neighbours) /\ rows[got.nearest[k].id] # None
    BY <1>5 DEF BaseInv, SeenInv
  <2>2. got.nearest[k] \in Neighbours
    BY <2>1, ElementOfSeq
  <2> QED
    BY <2>1, <2>2 DEF Neighbours
<1>6. SeenInv'
  <2>1. /\ pc' \notin {"nearest", "records"} => seen' = None /\ got' = Nothing
        /\ pc' = "nearest" /\ filters'.mode # "hybrid" => seen' = None /\ got' = Nothing
    BY <1>1 DEF BaseInv, SeenInv
  <2>2. /\ pc' = "nearest" /\ filters'.mode = "hybrid" => seen' \in 0..writes'
        /\ pc' = "records" => seen' \in 0..writes'
    BY <1>1, <1>4 DEF BaseInv, SeenInv
  <2>3. /\ got' = [lexical |-> got'.lexical, nearest |-> got'.nearest]
        /\ got'.lexical \in Seq(Results) /\ Distinct(got'.lexical)
        /\ got'.nearest \in Seq(Neighbours)
    BY DEF BaseInv, SeenInv
  <2> QED
    BY <1>5, <2>1, <2>2, <2>3 DEF SeenInv
<1> QED
  BY <1>2, <1>3, <1>6 DEF BaseInv

LEMMA WriteKeeps ==
  ASSUME BaseInv, NEW i \in Ids, NEW r \in Snapshots, Write(i, r)
  PROVE  BaseInv'
<1>1. /\ rows \in [Ids -> Rows \cup {None}] /\ vectors \in [Ids -> Seq(Rows)] /\ writes \in Nat
      /\ r \in Rows /\ r # None
  BY RowsAssumption DEF BaseInv, StoreInv, StoreType
<1>2. /\ rows' = [rows EXCEPT ![i] = r] /\ writes' = writes + 1
      /\ UNCHANGED <<vectors, pc, call, fetch, got, seen>>
  BY DEF Write
<1>3. rows' \in [Ids -> Rows \cup {None}] /\ \A j \in Ids : rows[j] # None => rows'[j] # None
  BY <1>1, <1>2
<1>4. writes' \in Nat /\ writes <= writes'
  BY <1>1, <1>2
<1> QED
  BY <1>1, <1>2, <1>3, <1>4, WrittenKeeps

LEMMA EmbedKeeps ==
  ASSUME BaseInv, NEW i \in Ids, Embed(i)
  PROVE  BaseInv'
<1>1. rows \in [Ids -> Rows \cup {None}] /\ vectors \in [Ids -> Seq(Rows)] /\ writes \in Nat
  BY DEF BaseInv, StoreInv, StoreType
<1>2. PICK entries \in {<<rows[i]>>, Append(vectors[i], rows[i])} : vectors' = [vectors EXCEPT ![i] = entries]
  BY DEF Embed
<1>3. rows[i] \in Rows /\ writes' = writes + 1 /\ UNCHANGED <<rows, pc, call, fetch, got, seen>>
  BY <1>1 DEF Embed
<1>4. entries \in Seq(Rows)
  <2> DEFINE r == rows[i]
             s == vectors[i]
  <2>1. r \in Rows /\ s \in Seq(Rows) /\ entries \in {<<r>>, Append(s, r)}
    BY <1>1, <1>2, <1>3
  <2> HIDE DEF r, s
  <2>2. <<r>> \in Seq(Rows) /\ Append(s, r) \in Seq(Rows)
    BY <2>1
  <2> QED
    BY <2>1, <2>2
<1>5. vectors' \in [Ids -> Seq(Rows)]
  BY <1>1, <1>2, <1>4
<1>6. writes' \in Nat /\ writes <= writes'
  BY <1>1, <1>3
<1> QED
  BY <1>1, <1>3, <1>5, <1>6, WrittenKeeps

\* What leaves everything but the response as it is.
LEMMA SameKeeps ==
  ASSUME BaseInv, UNCHANGED <<store, pc, call, fetch, got, seen, writes>>
  PROVE  BaseInv'
BY WrittenKeeps DEF BaseInv, StoreInv, StoreType, store

LEMMA BaseNext == ASSUME BaseInv, [Next]_vars PROVE BaseInv'
<1>1. ASSUME Ready, NEW c \in Calls, Ask(c) PROVE BaseInv'
  BY <1>1, AskKeeps
<1>2. CASE Receive
  BY <1>2, SameKeeps DEF Receive
<1>3. CASE Refresh
  BY <1>3, ReadFeedKeeps, ReadTedKeeps, StoreTendersKeeps, StoreVectorsKeeps DEF Refresh
<1>4. CASE Search
  <2>1. CASE ReadLexical
    BY <2>1, AnswerKeeps DEF ReadLexical, Answer, Goto, Fresh, store
  <2>2. CASE ReadRecords
    BY <2>2, FinishKeeps DEF ReadRecords
  <2> QED
    BY <1>4, <2>1, <2>2, EmbedQueryKeeps, CheckPgvectorKeeps, ReadLexicalSideKeeps, ReadNearestKeeps DEF Search
<1>5. CASE ReadRecent
  BY <1>5, AnswerKeeps DEF ReadRecent, Answer, Goto, Fresh, store
<1>6. CASE ReadFacets
  BY <1>6, AnswerKeeps DEF ReadFacets, Answer, Goto, Fresh, store
<1>7. CASE Raise
  BY <1>7, AnswerKeeps DEF Raise, Error, Answer, Goto, Fresh, store
<1>8. ASSUME NEW i \in Ids, Embed(i) \/ \E r \in Snapshots : Write(i, r) PROVE BaseInv'
  BY <1>8, WriteKeeps, EmbedKeeps
<1>9. CASE UNCHANGED vars
  BY <1>9, SameKeeps DEF vars, store
<1> QED
  BY <1>1, <1>2, <1>3, <1>4, <1>5, <1>6, <1>7, <1>8, <1>9 DEF Next, Step

----------------------------------------------------------------------------
(* The walk through the pages of TED *)

\* The number of notices on the pages before a page.
Passed(page, f) == (page - 1) * TedPageLimit(f)

Readable(index) == \A k \in 1..Len(index) : index[k] # Unreadable

\* As long as TED answers all pages alike and every notice is readable, what has been
\* fetched is what it found as far as the page that comes next.
WalkInv ==
  pc = "ted" =>
    /\ fetch.indexes \subseteq Indexes
    /\ \A index \in Indexes :
         LET found == TedFinds(index, TedQuery(filters))
         IN  fetch.indexes \subseteq {index} /\ Readable(index) =>
               /\ Passed(fetch.page, filters) \in 0..Len(found)
               /\ fetch.tenders = SubSeq(found, 1, Passed(fetch.page, filters))

\* A page that is added to those before makes the list longer by the page, and the page is
\* the last one if it is not full.
LEMMA PageAdded ==
  ASSUME NEW found \in Seq(Notices), \A k \in 1..Len(found) : found[k] # Unreadable,
         NEW page \in Nat \ {0}, NEW f, f.limit \in Nat \ {0}, Passed(page, f) \in 0..Len(found)
  PROVE  LET added   == Parsed(TedPage(found, page, f))
             fetched == SubSeq(found, 1, Passed(page, f)) \o added
         IN  /\ IsLast(added, f) => fetched = found
             /\ ~IsLast(added, f) => /\ Passed(page + 1, f) \in 0..Len(found)
                                     /\ fetched = SubSeq(found, 1, Passed(page + 1, f))
<1> DEFINE L     == TedPageLimit(f)
           m     == Passed(page, f)
           n     == IF page * L <= Len(found) THEN page * L ELSE Len(found)
           added == Parsed(TedPage(found, page, f))
<1>1. /\ L \in Nat \ {0} /\ m \in Nat /\ page * L = m + L
      /\ TedPage(found, page, f) = SubSeq(found, m + 1, n)
  BY PageItems DEF Passed
<1>2. Len(found) \in Nat /\ m <= Len(found) /\ Passed(page + 1, f) = page * L
  BY LenProperties DEF Passed
<1> HIDE DEF L
<1>3. n \in m..Len(found) /\ (page * L <= Len(found) => n = m + L) /\ (Len(found) < page * L => n = Len(found) /\ n < m + L)
  BY <1>1, <1>2
<1> HIDE DEF n, m
<1>4. /\ SubSeq(found, m + 1, n) \in Seq(Notices) /\ Len(SubSeq(found, m + 1, n)) = n - m
      /\ \A k \in 1..Len(SubSeq(found, m + 1, n)) : m + 1 + k - 1 \in 1..Len(found) /\ SubSeq(found, m + 1, n)[k] = found[m + 1 + k - 1]
  <2>1. m + 1 \in Nat \ {0} /\ n \in Int /\ n <= Len(found)
    BY <1>1, <1>2, <1>3
  <2>2. /\ SubSeq(found, m + 1, n) \in Seq(Notices) /\ Drawn(SubSeq(found, m + 1, n), found)
        /\ Taken(SubSeq(found, m + 1, n), found, m + 1, n)
    BY <2>1, PartIsDrawn
  <2>3. n - m = IF m + 1 <= n THEN n - (m + 1) + 1 ELSE 0
    BY <1>1, <1>3
  <2>4. Len(SubSeq(found, m + 1, n)) = n - m
    BY <2>2, <2>3 DEF Taken
  <2> QED
    BY <2>2, <2>4 DEF Taken
<1>5. added = SubSeq(found, m + 1, n)
  BY <1>1, <1>4, ParsedAll
<1>6. SubSeq(found, 1, m) \o SubSeq(found, m + 1, n) = SubSeq(found, 1, n)
  BY <1>1, <1>2, <1>3, ConcatAdjacentSubSeq
<1>7. IsLast(added, f) <=> n - m < L
  BY <1>4, <1>5 DEF IsLast, L
<1>8. Len(SubSeq(found, 1, n)) = n /\ SubSeq(found, 1, Len(found)) = found
  <2>1. n \in Int /\ n <= Len(found) /\ n = IF 1 <= n THEN n - 1 + 1 ELSE 0
    BY <1>1, <1>2, <1>3
  <2>2. SubSeq(found, 1, n) \in Seq(Notices) /\ Drawn(SubSeq(found, 1, n), found) /\ Taken(SubSeq(found, 1, n), found, 1, n)
    BY <2>1, PartIsDrawn
  <2>3. SubSeq(found, 1, Len(found)) = found
    BY SubSeqFull
  <2> QED
    BY <2>1, <2>2, <2>3 DEF Taken
<1>9. SubSeq(found, 1, m) \o added = SubSeq(found, 1, n)
  BY <1>5, <1>6
<1> HIDE DEF added
<1>10. IsLast(added, f) => SubSeq(found, 1, m) \o added = found
  <2>1. n < m + L => n = Len(found)
    BY <1>1, <1>2, <1>3
  <2>2. IsLast(added, f) => n < m + L
    BY <1>1, <1>3, <1>7
  <2> QED
    BY <1>8, <1>9, <2>1, <2>2
<1>11. ~IsLast(added, f) => Passed(page + 1, f) = n /\ n \in 0..Len(found)
  <2> DEFINE e == page * L
  <2>1. /\ e \in Nat /\ e = m + L /\ Passed(page + 1, f) = e /\ n \in m..Len(found)
        /\ (Len(found) < e => n < m + L) /\ (e <= Len(found) => n = m + L)
    BY <1>1, <1>2, <1>3
  <2> HIDE DEF e
  <2>2. ~(n < m + L) => Passed(page + 1, f) = n /\ n \in 0..Len(found)
    <3>1. L \in Nat /\ m \in Nat /\ Len(found) \in Nat
      BY <1>1, <1>2
    <3>2. ~(n < m + L) => e = n
      BY <2>1, <3>1
    <3>3. n \in 0..Len(found)
      BY <2>1, <3>1
    <3> QED
      BY <2>1, <3>2, <3>3
  <2>3. ~IsLast(added, f) => ~(n < m + L)
    BY <1>1, <1>3, <1>7
  <2> QED
    BY <2>2, <2>3
<1> QED
  BY <1>9, <1>10, <1>11 DEF m, added

\* What is fetched in the end is cut to the limit, which cuts nothing off a shorter list.
LEMMA ShortResult ==
  ASSUME NEW s \in Seq(Notices), NEW f, f.limit \in Nat \ {0}, Len(s) < f.limit
  PROVE  TedResult(s, f) = Kept(s, f)
<1>1. Kept(s, f) \in Seq(Notices) /\ Len(Kept(s, f)) \in 0..Len(s) /\ Len(s) \in Nat
  BY KeptItems, LenProperties
<1>2. Min({f.limit, Len(Kept(s, f))}) = Len(Kept(s, f))
  BY <1>1, Minimum
<1> QED
  BY <1>1, <1>2, SubSeqFull DEF TedResult

LEMMA ReadTedWalks ==
  ASSUME BaseInv, WalkInv, ReadTed
  PROVE  WalkInv' /\ FetchIsWhole'
<1>1. /\ pc = "ted" /\ filters' = filters /\ fetch.page \in Nat \ {0} /\ filters.limit \in Nat \ {0}
      /\ fetch.indexes \subseteq Indexes
  BY AtStage DEF ReadTed, BaseInv, FetchInv, WalkInv, filters
<1>2. PICK reply \in Replies :
        LET tenders == fetch.tenders \o reply.page
            done    == IsLast(reply.page, filters) \/ Len(tenders) >= filters.limit
        IN  /\ fetch' = [source |-> "ted", tenders |-> tenders, indexes |-> fetch.indexes \cup {reply.index},
                         batch |-> IF done THEN TedResult(tenders, filters) ELSE <<>>,
                         page  |-> IF done THEN fetch.page ELSE fetch.page + 1]
            /\ Goto(IF done THEN "store" ELSE "ted")
  BY DEF ReadTed
<1> DEFINE tenders == fetch.tenders \o reply.page
           done    == IsLast(reply.page, filters) \/ Len(tenders) >= filters.limit
<1>3. /\ fetch'.tenders = tenders /\ fetch'.batch = (IF done THEN TedResult(tenders, filters) ELSE <<>>)
      /\ fetch'.page = (IF done THEN fetch.page ELSE fetch.page + 1)
      /\ fetch'.indexes = fetch.indexes \cup {reply.index} /\ pc' = IF done THEN "store" ELSE "ted"
  BY <1>2 DEF Goto
<1>4. /\ reply.index \in Indexes
      /\ reply.page = Parsed(TedPage(TedFinds(reply.index, TedQuery(filters)), fetch.page, filters))
  BY DEF Replies
<1> HIDE DEF done
<1>5. ASSUME NEW index \in Indexes, fetch'.indexes \subseteq {index}, Readable(index)
      PROVE  LET found == TedFinds(index, TedQuery(filters))
             IN  /\ found \in Seq(Notices)
                 /\ IsLast(reply.page, filters) => tenders = found
                 /\ ~IsLast(reply.page, filters) => /\ Passed(fetch.page + 1, filters) \in 0..Len(found)
                                                    /\ tenders = SubSeq(found, 1, Passed(fetch.page + 1, filters))
  <2> DEFINE found == TedFinds(index, TedQuery(filters))
  <2>1. index = reply.index /\ fetch.indexes \subseteq {index}
    BY <1>3, <1>5
  <2>2. found \in Seq(Notices) /\ \A k \in 1..Len(found) : found[k] # Unreadable
    BY <1>5, FoundItems, NoticeTypes DEF Readable
  <2>3. reply.page = Parsed(TedPage(found, fetch.page, filters))
    BY <1>4, <2>1
  <2>4. Passed(fetch.page, filters) \in 0..Len(found) /\ fetch.tenders = SubSeq(found, 1, Passed(fetch.page, filters))
    BY <1>1, <1>5, <2>1 DEF WalkInv
  <2> HIDE DEF found
  <2> DEFINE added   == Parsed(TedPage(found, fetch.page, filters))
             fetched == SubSeq(found, 1, Passed(fetch.page, filters)) \o added
  <2>5. /\ IsLast(added, filters) => fetched = found
        /\ ~IsLast(added, filters) => /\ Passed(fetch.page + 1, filters) \in 0..Len(found)
                                      /\ fetched = SubSeq(found, 1, Passed(fetch.page + 1, filters))
    BY <1>1, <2>2, <2>4, PageAdded
  <2>6. fetched = tenders /\ added = reply.page
    BY <2>3, <2>4
  <2> HIDE DEF added, fetched, tenders
  <2> QED
    BY <2>2, <2>5, <2>6 DEF found
<1>6. WalkInv'
  <2>1. pc' = "ted" => ~done /\ fetch'.page = fetch.page + 1
    BY <1>3
  <2>2. done \/ ~IsLast(reply.page, filters)
    BY DEF done
  <2> HIDE DEF tenders
  <2>3. fetch'.indexes \subseteq Indexes
    BY <1>1, <1>3, <1>4
  <2> QED
    BY <1>1, <1>3, <1>5, <2>1, <2>2, <2>3 DEF WalkInv
<1>7. FetchIsWhole'
  <2> SUFFICES ASSUME pc' = "store", Len(fetch'.tenders) < filters.limit, NEW index \in fetch'.indexes,
                      fetch'.indexes = {index}, \A k \in 1..Len(index) : index[k] # Unreadable
               PROVE  fetch'.batch = Kept(TedFinds(index, TedQuery(filters)), filters)
    BY <1>1 DEF FetchIsWhole
  <2>1. index \in Indexes /\ Readable(index)
    BY <1>1, <1>3, <1>4 DEF Readable
  <2>2. done
    BY <1>3
  <2>3. tenders \in Seq(Results)
    BY <1>1, ReplyItems, ConcatProperties DEF BaseInv, FetchInv
  <2>4. IsLast(reply.page, filters)
    <3>1. IsLast(reply.page, filters) \/ Len(tenders) >= filters.limit
      BY <2>2 DEF done
    <3> HIDE DEF tenders
    <3>2. Len(tenders) \in Nat /\ Len(tenders) < filters.limit
      BY <1>3, <2>3, LenProperties
    <3> QED
      BY <1>1, <3>1, <3>2
  <2> HIDE DEF tenders
  <2>5. tenders = TedFinds(index, TedQuery(filters)) /\ TedFinds(index, TedQuery(filters)) \in Seq(Notices)
    BY <1>5, <2>1, <2>4
  <2> QED
    BY <1>1, <1>3, <2>2, <2>5, ShortResult
<1> QED
  BY <1>6, <1>7

\* A walk begins with nothing fetched.
LEMMA WalkBegins ==
  ASSUME fetch' = NoFetch, pc' = "ted", filters'.limit \in Nat \ {0}
  PROVE  WalkInv' /\ FetchIsWhole'
<1>1. /\ fetch'.indexes = {} /\ fetch'.page = 1 /\ fetch'.tenders = <<>>
  BY DEF NoFetch
<1>2. Passed(1, filters') = 0
  <2> DEFINE L == TedPageLimit(filters')
  <2>1. L \in Int
    BY PageAssumption DEF TedPageLimit, Clamped
  <2> HIDE DEF L
  <2>2. (1 - 1) * L = 0
    BY <2>1
  <2> QED
    BY <2>2 DEF Passed, L
<1>3. ASSUME NEW index \in Indexes
      PROVE  LET found == TedFinds(index, TedQuery(filters')) IN 0 \in 0..Len(found) /\ SubSeq(found, 1, 0) = <<>>
  <2> DEFINE found == TedFinds(index, TedQuery(filters'))
  <2>1. found \in Seq(Notices)
    BY FoundItems, NoticeTypes
  <2> HIDE DEF found
  <2>2. Len(found) \in Nat /\ SubSeq(found, 1, 0) = <<>>
    BY <2>1, LenProperties, SubSeqEmpty
  <2> QED
    BY <2>2 DEF found
<1> QED
  BY <1>1, <1>2, <1>3 DEF WalkInv, FetchIsWhole

\* Other steps do not go on with a walk.
LEMMA WalkNext ==
  ASSUME BaseInv, WalkInv, FetchIsWhole, [Next]_vars
  PROVE  WalkInv' /\ FetchIsWhole'
<1>1. CASE UNCHANGED <<pc, call, fetch>>
  BY <1>1 DEF WalkInv, FetchIsWhole, filters
<1>2. CASE pc' \notin {"ted", "store"}
  BY <1>2 DEF WalkInv, FetchIsWhole
<1>3. ASSUME NEW c \in Calls, Ask(c) PROVE pc' \notin {"ted", "store"}
  BY <1>3 DEF Ask, AskSearch, AskMatch, AskExport, AskFacets, AskSemantic, AskRecent, Refuse, Error, Answer, Begin, Goto, Dispatch
<1>4. CASE ReadFeed
  <2>1. pc = "feed" /\ fetch = NoFetch /\ filters' = filters /\ filters.limit \in Nat \ {0}
    BY <1>4, AtStage DEF ReadFeed, BaseInv, FetchInv, filters
  <2>2. CASE Goto("store") /\ fetch'.source = "placsp"
    BY <2>2 DEF Goto, WalkInv, FetchIsWhole
  <2>3. CASE Goto(AfterFeed) /\ UNCHANGED fetch
    BY <1>2, <2>1, <2>3, WalkBegins, RefreshStages DEF Goto
  <2> QED
    BY <1>4, <2>2, <2>3 DEF ReadFeed, NoFetch
<1>5. CASE StoreTenders \/ StoreVectors
  <2>1. filters' = filters /\ filters.limit \in Nat \ {0} /\ pc \in {"store", "vectors"}
    BY <1>5, AtStage DEF StoreTenders, StoreVectors, filters
  <2>2. \E label \in {"vectors", "ted", "embed", "lexical"} : Stored(label)
    BY <1>5, <2>1, RefreshStages DEF StoreTenders, StoreVectors
  <2> QED
    BY <1>2, <2>1, <2>2, WalkBegins DEF Stored, Goto
<1>6. CASE ReadTed
  BY <1>6, ReadTedWalks
<1>7. CASE Search \/ ReadRecent \/ ReadFacets \/ Raise
  BY <1>2, <1>7 DEF Search, EmbedQuery, CheckPgvector, ReadLexical, ReadLexicalSide, ReadNearest, ReadRecords, Finish, ReadRecent,
                    ReadFacets, Raise, Error, Answer, Move, Goto, Fallback
<1>8. CASE Receive \/ UNCHANGED vars \/ \E i \in Ids : Embed(i) \/ \E r \in Snapshots : Write(i, r)
  BY <1>1, <1>8 DEF Receive, vars, Embed, Write
<1> QED
  BY <1>2, <1>3, <1>4, <1>5, <1>6, <1>7, <1>8 DEF Next, Step, Refresh

WalkOk == BaseInv /\ WalkInv /\ FetchIsWhole

\* However the pages come and whatever other processes write in between: what a complete
\* walk through the pages of TED stores is all of what TED finds that fits the filter.
THEOREM FetchesAreWhole == Spec => []FetchIsWhole
<1>1. Init => WalkOk
  BY BaseInit DEF Init, WalkInv, FetchIsWhole, WalkOk
<1>2. WalkOk /\ [Next]_vars => WalkOk'
  BY BaseNext, WalkNext DEF WalkOk
<1>3. WalkOk => FetchIsWhole
  BY DEF WalkOk
<1> QED
  BY <1>1, <1>2, <1>3, PTL DEF Spec

----------------------------------------------------------------------------
(* Reciprocal rank fusion *)

\* The order of fractions carries over from one pair to the next.
LEMMA FractionsCarry ==
  \A a, b, c, d, e, g \in Nat \ {0} :
    /\ a * d >= c * b /\ c * g >= e * d => a * g >= e * b
    /\ a * d > c * b /\ c * g >= e * d => a * g > e * b
    /\ a * d >= c * b /\ c * g > e * d => a * g > e * b
<1> SUFFICES ASSUME NEW a \in Nat \ {0}, NEW b \in Nat \ {0}, NEW c \in Nat \ {0}, NEW d \in Nat \ {0},
                    NEW e \in Nat \ {0}, NEW g \in Nat \ {0}, a * d >= c * b, c * g >= e * d
             PROVE  /\ a * g >= e * b
                    /\ a * d > c * b \/ c * g > e * d => a * g > e * b
  BY Z3
<1>1. ASSUME NEW x \in Nat, NEW y \in Nat, NEW z \in Nat \ {0}
      PROVE  (x >= y <=> x * z >= y * z) /\ (x > y <=> x * z > y * z)
  BY Z3
<1>2. /\ (a * d) * g = (a * g) * d /\ (c * b) * g = (c * g) * b /\ (e * d) * b = (e * b) * d
      /\ a * d \in Nat /\ c * b \in Nat /\ c * g \in Nat /\ e * d \in Nat /\ a * g \in Nat /\ e * b \in Nat
  BY Z3
<1>3. (a * d) * g >= (c * b) * g /\ (a * d > c * b => (a * d) * g > (c * b) * g)
  BY <1>1, <1>2
<1>4. (c * g) * b >= (e * d) * b /\ (c * g > e * d => (c * g) * b > (e * d) * b)
  BY <1>1, <1>2
<1>5. (a * g) * d >= (e * b) * d /\ (a * d > c * b \/ c * g > e * d => (a * g) * d > (e * b) * d)
  BY <1>2, <1>3, <1>4
<1> QED
  BY <1>1, <1>2, <1>5

\* By descending fractions, and by place where they are equal.
Above(n, num, den) ==
  {p \in (1..n) \X (1..n) :
     \/ num[p[1]] * den[p[2]] > num[p[2]] * den[p[1]]
     \/ num[p[1]] * den[p[2]] = num[p[2]] * den[p[1]] /\ p[1] < p[2]}

LEMMA AboveIsLinear ==
  ASSUME NEW n \in Nat, NEW num \in [1..n -> Nat \ {0}], NEW den \in [1..n -> Nat \ {0}]
  PROVE  Linear(1..n, Above(n, num, den))
<1> DEFINE R       == Above(n, num, den)
           q(j, k) == num[j] * den[k]
<1>1. \A j, k \in 1..n : q(j, k) \in Nat
  BY Z3
<1>2. \A j, k \in 1..n : <<j, k>> \in R <=> q(j, k) > q(k, j) \/ (q(j, k) = q(k, j) /\ j < k)
  BY DEF Above
<1>3. \A j, k, l \in 1..n : /\ q(j, k) >= q(k, j) /\ q(k, l) >= q(l, k) => q(j, l) >= q(l, j)
                            /\ q(j, k) > q(k, j) /\ q(k, l) >= q(l, k) => q(j, l) > q(l, j)
                            /\ q(j, k) >= q(k, j) /\ q(k, l) > q(l, k) => q(j, l) > q(l, j)
  <2> SUFFICES ASSUME NEW j \in 1..n, NEW k \in 1..n, NEW l \in 1..n
               PROVE  /\ q(j, k) >= q(k, j) /\ q(k, l) >= q(l, k) => q(j, l) >= q(l, j)
                      /\ q(j, k) > q(k, j) /\ q(k, l) >= q(l, k) => q(j, l) > q(l, j)
                      /\ q(j, k) >= q(k, j) /\ q(k, l) > q(l, k) => q(j, l) > q(l, j)
    OBVIOUS
  <2>1. /\ num[j] \in Nat \ {0} /\ den[j] \in Nat \ {0} /\ num[k] \in Nat \ {0} /\ den[k] \in Nat \ {0}
        /\ num[l] \in Nat \ {0} /\ den[l] \in Nat \ {0}
    OBVIOUS
  <2> QED
    BY <2>1, FractionsCarry
<1> HIDE DEF q, R
<1>4. \A j \in 1..n : <<j, j>> \notin R
  BY <1>1, <1>2
<1>5. ASSUME NEW j \in 1..n, NEW k \in 1..n, j # k PROVE <<j, k>> \in R \/ <<k, j>> \in R
  <2>1. q(j, k) \in Nat /\ q(k, j) \in Nat /\ j \in Nat /\ k \in Nat
    BY <1>1
  <2>2. q(j, k) > q(k, j) \/ q(k, j) > q(j, k) \/ (q(j, k) = q(k, j) /\ q(k, j) = q(j, k) /\ (j < k \/ k < j))
    BY <1>5, <2>1
  <2> QED
    BY <1>2, <2>2
<1>6. ASSUME NEW j \in 1..n, NEW k \in 1..n, NEW l \in 1..n, <<j, k>> \in R, <<k, l>> \in R
      PROVE  <<j, l>> \in R
  <2>0. q(j, k) \in Nat /\ q(k, j) \in Nat /\ q(k, l) \in Nat /\ q(l, k) \in Nat /\ j \in Nat /\ k \in Nat /\ l \in Nat
    BY <1>1
  <2>1. /\ q(j, k) >= q(k, j) /\ (q(j, k) = q(k, j) => j < k)
        /\ q(k, l) >= q(l, k) /\ (q(k, l) = q(l, k) => k < l)
    <3>1. q(j, k) > q(k, j) \/ (q(j, k) = q(k, j) /\ j < k)
      BY <1>2, <1>6
    <3>2. q(k, l) > q(l, k) \/ (q(k, l) = q(l, k) /\ k < l)
      BY <1>2, <1>6
    <3>3. q(j, k) >= q(k, j) /\ (q(j, k) = q(k, j) => j < k)
      BY <2>0, <3>1
    <3>4. q(k, l) >= q(l, k) /\ (q(k, l) = q(l, k) => k < l)
      BY <2>0, <3>2
    <3> QED
      BY <3>3, <3>4
  <2>2. q(j, l) >= q(l, j) /\ (q(j, k) > q(k, j) \/ q(k, l) > q(l, k) => q(j, l) > q(l, j))
    BY <1>1, <1>3, <2>1
  <2>3. q(j, k) > q(k, j) \/ q(k, l) > q(l, k) \/ j < l
    BY <2>0, <2>1
  <2> QED
    BY <1>1, <1>2, <2>2, <2>3
<1> QED
  BY <1>4, <1>5, <1>6 DEF Linear, R

LEMMA PositionItems ==
  ASSUME NEW s, Len(s) \in Nat, NEW i \in Members(s)
  PROVE  Position(s, i) \in 1..Len(s) /\ s[Position(s, i)].id = i
BY DEF Position, Members

LEMMA FusionType ==
  ASSUME NEW lexical \in Seq(Results), NEW semantic \in Seq(Results), NEW i \in Members(lexical) \cup Members(semantic)
  PROVE  Fusion(i, lexical, semantic).num \in Nat \ {0} /\ Fusion(i, lexical, semantic).den \in Nat \ {0}
<1> DEFINE p == RrfK + Position(lexical, i)
           q == RrfK + Position(semantic, i)
<1>1. Len(lexical) \in Nat /\ Len(semantic) \in Nat /\ RrfK \in Nat
  BY LenProperties, WindowAssumption
<1>2. (i \in Members(lexical) => p \in Nat \ {0}) /\ (i \in Members(semantic) => q \in Nat \ {0})
  <2>1. i \in Members(lexical) => Position(lexical, i) \in Nat \ {0}
    BY <1>1, PositionItems
  <2>2. i \in Members(semantic) => Position(semantic, i) \in Nat \ {0}
    BY <1>1, PositionItems
  <2> QED
    BY <1>1, <2>1, <2>2
<1>3. Fusion(i, lexical, semantic) =
        IF i \in Members(lexical) \cap Members(semantic) THEN [num |-> p + q, den |-> p * q]
        ELSE [num |-> 1, den |-> IF i \in Members(lexical) THEN p ELSE q]
  BY DEF Fusion
<1> HIDE DEF p, q
<1>4. CASE i \in Members(lexical) \cap Members(semantic)
  <2>1. p + q \in Nat \ {0} /\ p * q \in Nat \ {0}
    BY <1>2, <1>4, Z3
  <2> QED
    BY <1>3, <1>4, <2>1
<1>5. CASE i \notin Members(lexical) \cap Members(semantic)
  BY <1>2, <1>3, <1>5
<1> QED
  BY <1>4, <1>5

\* The sum of a tender on a list of tenders that come from the two sides.
Nums(all, lexical, semantic) == [k \in 1..Len(all) |-> Fusion(all[k].id, lexical, semantic).num]
Dens(all, lexical, semantic) == [k \in 1..Len(all) |-> Fusion(all[k].id, lexical, semantic).den]
SumOrder(all, lexical, semantic) == Above(Len(all), Nums(all, lexical, semantic), Dens(all, lexical, semantic))

\* Ordering by the sums keeps every item.
\* All items of a list in the order of a relation on their places.
Merged(fused, ranks, all, R) ==
  /\ Len(fused) = Len(all) /\ ranks \in [1..Len(all) -> 1..Len(all)]
  /\ \A k \in 1..Len(all) : fused[k] = all[ranks[k]]
  /\ \A j, k \in 1..Len(all) : j < k => <<ranks[j], ranks[k]>> \in R
  /\ \A p \in 1..Len(all) : \E k \in 1..Len(all) : ranks[k] = p

LEMMA FusedItems ==
  ASSUME NEW lexical \in Seq(Results), NEW semantic \in Seq(Results), NEW all \in Seq(Results),
         Members(all) \subseteq Members(lexical) \cup Members(semantic)
  PROVE  LET fused == FusedOrder(all, lexical, semantic)
             ranks == Ranking(1..Len(all), SumOrder(all, lexical, semantic))
         IN  fused \in Seq(Results) /\ Drawn(fused, all) /\ Merged(fused, ranks, all, SumOrder(all, lexical, semantic))
<1> DEFINE n     == Len(all)
           num   == Nums(all, lexical, semantic)
           den   == Dens(all, lexical, semantic)
           R     == SumOrder(all, lexical, semantic)
           ranks == Ranking(1..n, R)
           fused == FusedOrder(all, lexical, semantic)
<1>1. n \in Nat /\ \A k \in 1..n : all[k] \in Results /\ all[k].id \in Members(all)
  BY LenProperties, ElementOfSeq DEF Members
<1>2. num \in [1..n -> Nat \ {0}] /\ den \in [1..n -> Nat \ {0}]
  <2>1. \A k \in 1..n : /\ Fusion(all[k].id, lexical, semantic).num \in Nat \ {0}
                        /\ Fusion(all[k].id, lexical, semantic).den \in Nat \ {0}
    BY <1>1, FusionType
  <2> QED
    BY <2>1 DEF Nums, Dens
<1>3. R = {p \in (1..n) \X (1..n) :
             \/ Fusion(all[p[1]].id, lexical, semantic).num * Fusion(all[p[2]].id, lexical, semantic).den
                > Fusion(all[p[2]].id, lexical, semantic).num * Fusion(all[p[1]].id, lexical, semantic).den
             \/ /\ Fusion(all[p[1]].id, lexical, semantic).num * Fusion(all[p[2]].id, lexical, semantic).den
                   = Fusion(all[p[2]].id, lexical, semantic).num * Fusion(all[p[1]].id, lexical, semantic).den
                /\ p[1] < p[2]}
  <2> SUFFICES ASSUME NEW j \in 1..n, NEW k \in 1..n
               PROVE  /\ num[j] = Fusion(all[j].id, lexical, semantic).num
                      /\ den[j] = Fusion(all[j].id, lexical, semantic).den
    BY DEF SumOrder, Above
  <2> QED
    BY DEF Nums, Dens
<1>4. fused = [k \in 1..n |-> all[ranks[k]]]
  BY <1>3 DEF FusedOrder
<1>5. Linear(1..n, R)
  BY <1>1, <1>2, AboveIsLinear DEF SumOrder
<1>6. IsFiniteSet(1..n) /\ Cardinality(1..n) = n
  BY <1>1, Places
<1> HIDE DEF n, R, fused
<1>7. /\ ranks \in [1..n -> 1..n]
      /\ \A j, k \in 1..n : j < k => <<ranks[j], ranks[k]>> \in R
      /\ \A j, k \in 1..n : ranks[j] = ranks[k] => j = k
      /\ \A p \in 1..n : \E k \in 1..n : ranks[k] = p
  <2> DEFINE c == Cardinality(1..n)
  <2>1. /\ ranks \in [1..c -> 1..n]
        /\ \A j, k \in 1..c : j < k => <<ranks[j], ranks[k]>> \in R
        /\ \A j, k \in 1..c : ranks[j] = ranks[k] => j = k
        /\ \A p \in 1..n : \E k \in 1..c : ranks[k] = p
    BY <1>5, <1>6, RankingIsOrder
  <2> HIDE DEF ranks
  <2> QED
    BY <1>6, <2>1
<1> HIDE DEF ranks
<1>8. fused \in [1..n -> Results] /\ \A k \in 1..n : fused[k] = all[ranks[k]]
  BY <1>1, <1>4, <1>7
<1>9. fused \in Seq(Results) /\ Len(fused) = n
  BY <1>1, <1>8, ListOf
<1>10. Drawn(fused, all)
  <2>1. /\ ranks \in [1..Len(fused) -> 1..Len(all)]
        /\ \A j, k \in 1..Len(fused) : ranks[j] = ranks[k] => j = k
        /\ \A k \in 1..Len(fused) : fused[k] = all[ranks[k]]
    BY <1>7, <1>8, <1>9 DEF n
  <2> QED
    BY <2>1, DrawnFrom
<1>11. Merged(fused, ranks, all, R)
  BY <1>7, <1>8, <1>9 DEF n, Merged
<1> QED
  BY <1>9, <1>10, <1>11 DEF n, R, fused, ranks

\* The two lists joined by tender.
Joined(lexical, semantic) ==
  lexical \o Pick(semantic, {k \in 1..Len(semantic) : semantic[k].id \notin Members(lexical)})

LEMMA JoinedItems ==
  ASSUME NEW lexical \in Seq(Results), NEW semantic \in Seq(Results), Distinct(lexical), Distinct(semantic)
  PROVE  LET all == Joined(lexical, semantic)
         IN  /\ all \in Seq(Results) /\ Distinct(all) /\ Members(all) = Members(lexical) \cup Members(semantic)
             /\ Len(all) >= Len(lexical) /\ \A k \in 1..Len(lexical) : all[k] = lexical[k]
             /\ \A k \in 1..Len(all) : \/ \E j \in 1..Len(lexical) : all[k] = lexical[j]
                                       \/ \E j \in 1..Len(semantic) : all[k] = semantic[j]
<1> DEFINE places == {k \in 1..Len(semantic) : semantic[k].id \notin Members(lexical)}
           m      == Cardinality(places)
           ranks  == Ranking(places, Less)
           others == Pick(semantic, places)
           all    == Joined(lexical, semantic)
           n      == Len(lexical)
<1>1. n \in Nat /\ Len(semantic) \in Nat /\ all = lexical \o others
  BY LenProperties DEF Joined
<1>2. \A p \in 1..Len(semantic) : p \in places <=> semantic[p].id \notin Members(lexical)
  OBVIOUS
<1> HIDE DEF places
<1>3. /\ m \in Nat /\ ranks \in [1..m -> 1..Len(semantic)] /\ others \in Seq(Results) /\ Len(others) = m
      /\ \A k \in 1..m : others[k] = semantic[ranks[k]] /\ ranks[k] \in places
      /\ \A j, k \in 1..m : ranks[j] = ranks[k] => j = k
      /\ \A p \in places : \E k \in 1..m : ranks[k] = p
  <2>1. places \in SUBSET (1..Len(semantic))
    BY DEF places
  <2>2. /\ m \in 0..Len(semantic) /\ ranks \in [1..m -> places]
        /\ Pick(semantic, places) \in Seq(Results) /\ Len(Pick(semantic, places)) = m
        /\ \A k \in 1..m : Pick(semantic, places)[k] = semantic[ranks[k]]
        /\ \A j, k \in 1..m : j < k => ranks[j] < ranks[k]
        /\ \A p \in places : \E k \in 1..m : ranks[k] = p
    BY <2>1, PickedItems
  <2> HIDE DEF m, ranks
  <2>3. m \in Nat /\ ranks \in [1..m -> 1..Len(semantic)]
    <3>1. ranks \in [1..m -> 1..Len(semantic)]
      BY <2>1, <2>2
    <3> QED
      BY <1>1, <2>2, <3>1
  <2>4. \A j, k \in 1..m : ranks[j] = ranks[k] => j = k
    <3> SUFFICES ASSUME NEW j \in 1..m, NEW k \in 1..m, ranks[j] = ranks[k], j # k PROVE FALSE
      OBVIOUS
    <3>1. j < k \/ k < j
      BY <2>3
    <3>2. ranks[j] < ranks[k] \/ ranks[k] < ranks[j]
      BY <2>2, <3>1
    <3>3. ranks[j] \in Int
      BY <2>3
    <3> QED
      BY <3>2, <3>3
  <2>5. \A k \in 1..m : ranks[k] \in places
    BY <2>2
  <2> QED
    BY <2>2, <2>3, <2>4, <2>5
<1> HIDE DEF m, ranks, others, all
<1>4. /\ all \in Seq(Results) /\ Len(all) = n + m
      /\ \A k \in 1..(n + m) : all[k] = IF k <= n THEN lexical[k] ELSE others[k - n]
  <2>1. others \in Seq(Results) /\ Len(others) = m
    BY <1>3
  <2>2. /\ lexical \o others \in Seq(Results) /\ Len(lexical \o others) = Len(lexical) + Len(others)
        /\ \A k \in 1..(Len(lexical) + Len(others)) :
             (lexical \o others)[k] = IF k <= Len(lexical) THEN lexical[k] ELSE others[k - Len(lexical)]
    BY <2>1, ConcatProperties
  <2> QED
    BY <1>1, <2>1, <2>2
<1> HIDE DEF n
<1>5. \A k \in 1..(n + m) : k <= n => all[k] = lexical[k] /\ k \in 1..n
  BY <1>1, <1>4
<1>6. \A k \in 1..(n + m) : ~(k <= n) => /\ k - n \in 1..m /\ all[k] = semantic[ranks[k - n]]
                                         /\ ranks[k - n] \in 1..Len(semantic)
                                         /\ semantic[ranks[k - n]].id \notin Members(lexical)
  <2> SUFFICES ASSUME NEW k \in 1..(n + m), ~(k <= n)
               PROVE  /\ k - n \in 1..m /\ all[k] = semantic[ranks[k - n]]
                      /\ ranks[k - n] \in 1..Len(semantic)
                      /\ semantic[ranks[k - n]].id \notin Members(lexical)
    OBVIOUS
  <2>1. k - n \in 1..m /\ all[k] = others[k - n]
    BY <1>1, <1>3, <1>4
  <2> QED
    BY <1>2, <1>3, <2>1
<1>7. ASSUME NEW j \in 1..Len(all), NEW k \in 1..Len(all), all[j].id = all[k].id
      PROVE  j = k
  <2>0. j \in 1..(n + m) /\ k \in 1..(n + m) /\ j \in Nat /\ k \in Nat
    BY <1>1, <1>3, <1>4
  <2>1. CASE j <= n /\ k <= n
    BY <1>5, <1>7, <2>0, <2>1 DEF Distinct, n
  <2>2. CASE j <= n /\ ~(k <= n)
    BY <1>5, <1>6, <1>7, <2>0, <2>2 DEF Members, n
  <2>3. CASE ~(j <= n) /\ k <= n
    BY <1>5, <1>6, <1>7, <2>0, <2>3 DEF Members, n
  <2>4. CASE ~(j <= n) /\ ~(k <= n)
    <3>1. /\ j - n \in 1..m /\ all[j] = semantic[ranks[j - n]] /\ ranks[j - n] \in 1..Len(semantic)
          /\ k - n \in 1..m /\ all[k] = semantic[ranks[k - n]] /\ ranks[k - n] \in 1..Len(semantic)
      BY <1>6, <2>0, <2>4
    <3>2. ranks[j - n] = ranks[k - n]
      BY <1>7, <3>1 DEF Distinct
    <3>3. j - n = k - n
      BY <1>3, <3>1, <3>2
    <3> QED
      BY <1>1, <2>0, <3>3
  <2> QED
    BY <2>1, <2>2, <2>3, <2>4
<1>8. ASSUME NEW k \in 1..Len(all)
      PROVE  \/ \E j \in 1..Len(lexical) : all[k] = lexical[j]
             \/ \E j \in 1..Len(semantic) : all[k] = semantic[j]
  BY <1>4, <1>5, <1>6 DEF n
<1>9. Members(lexical) \subseteq Members(all)
  <2> SUFFICES ASSUME NEW k \in 1..n PROVE lexical[k].id \in Members(all)
    BY DEF Members, n
  <2>1. k \in 1..(n + m) /\ k <= n
    BY <1>1, <1>3
  <2>2. all[k] = lexical[k]
    BY <1>5, <2>1
  <2> QED
    BY <1>4, <2>1, <2>2 DEF Members
<1>10. Members(semantic) \subseteq Members(all)
  <2> SUFFICES ASSUME NEW p \in 1..Len(semantic), p \in places PROVE semantic[p].id \in Members(all)
    BY <1>2, <1>9 DEF Members
  <2>1. PICK k \in 1..m : ranks[k] = p
    BY <1>3
  <2>2. n + k \in 1..(n + m) /\ ~(n + k <= n) /\ (n + k) - n = k
    BY <1>1, <1>3
  <2>3. all[n + k] = semantic[p]
    BY <1>6, <2>1, <2>2
  <2> QED
    BY <1>4, <2>2, <2>3 DEF Members
<1>11. Members(all) \subseteq Members(lexical) \cup Members(semantic)
  BY <1>8 DEF Members
<1>12. Len(all) >= n /\ \A k \in 1..n : all[k] = lexical[k]
  BY <1>1, <1>3, <1>4
<1> QED
  BY <1>4, <1>7, <1>8, <1>9, <1>10, <1>11, <1>12 DEF all, n, Distinct

LEMMA FuseItems ==
  ASSUME NEW lexical \in Seq(Results), NEW semantic \in Seq(Results), Distinct(lexical), Distinct(semantic)
  PROVE  LET fused == Fuse(lexical, semantic)
         IN  /\ fused \in Seq(Results) /\ Distinct(fused) /\ Members(fused) \subseteq Members(lexical) \cup Members(semantic)
             /\ \A k \in 1..Len(fused) : \/ \E j \in 1..Len(lexical) : fused[k] = lexical[j]
                                         \/ \E j \in 1..Len(semantic) : fused[k] = semantic[j]
<1> DEFINE all   == Joined(lexical, semantic)
           fused == Fuse(lexical, semantic)
<1>1. /\ all \in Seq(Results) /\ Distinct(all) /\ Members(all) \subseteq Members(lexical) \cup Members(semantic)
      /\ \A k \in 1..Len(all) : \/ \E j \in 1..Len(lexical) : all[k] = lexical[j]
                                \/ \E j \in 1..Len(semantic) : all[k] = semantic[j]
  BY JoinedItems
<1>2. fused = FusedOrder(all, lexical, semantic)
  BY DEF Fuse, Joined
<1> HIDE DEF all, fused
<1>3. fused \in Seq(Results) /\ Drawn(fused, all)
  BY <1>1, <1>2, FusedItems
<1>4. PICK places \in [1..Len(fused) -> 1..Len(all)] : \A k \in 1..Len(fused) : fused[k] = all[places[k]]
  BY <1>3 DEF Drawn
<1>5. \A k \in 1..Len(fused) : \/ \E j \in 1..Len(lexical) : fused[k] = lexical[j]
                               \/ \E j \in 1..Len(semantic) : fused[k] = semantic[j]
  <2> SUFFICES ASSUME NEW k \in 1..Len(fused)
               PROVE  \/ \E j \in 1..Len(lexical) : fused[k] = lexical[j]
                      \/ \E j \in 1..Len(semantic) : fused[k] = semantic[j]
    OBVIOUS
  <2>1. places[k] \in 1..Len(all) /\ fused[k] = all[places[k]]
    BY <1>4
  <2> QED
    BY <1>1, <2>1
<1>6. Distinct(fused)
  BY <1>1, <1>3, DrawnDistinct
<1> QED
  BY <1>3, <1>5, <1>6 DEF fused, Members

----------------------------------------------------------------------------
(* What a response is made from *)

\* The results of the semantic side, or those of none.
Located(semantic) ==
  \/ pc = "nearest" /\ <<>> \in Nearest(filters) /\ semantic = <<>>
  \/ pc = "records" /\ semantic \in Records(got.nearest)

LEMMA LocatedItems ==
  ASSUME BaseInv, NEW semantic, Located(semantic)
  PROVE  /\ semantic \in Seq(Results) /\ Distinct(semantic)
         /\ \A k \in 1..Len(semantic) : semantic[k].row = rows[semantic[k].id]
         /\ Staged(pc, filters) /\ pc \in {"nearest", "records"}
<1>1. pc \in {"nearest", "records"} /\ Staged(pc, filters)
  BY AtStage DEF Located
<1>2. CASE semantic = <<>>
  <2>1. Len(<<>>) = 0 /\ <<>> \in Seq(Results)
    BY EmptySeq
  <2> QED
    BY <1>1, <1>2, <2>1 DEF Distinct
<1>3. CASE pc = "records" /\ semantic \in Records(got.nearest)
  <2> DEFINE nearest == got.nearest
  <2>1. /\ StoreType /\ nearest \in Seq(Neighbours)
        /\ \A k \in 1..Len(nearest) : rows[nearest[k].id] # None
    BY DEF BaseInv, StoreInv, SeenInv
  <2>2. semantic \in Records(nearest)
    BY <1>3
  <2> HIDE DEF nearest
  <2>3. semantic \in Seq(Results) /\ Distinct(semantic) /\ ReadFrom(semantic, nearest)
    BY <2>1, <2>2, RecordItems
  <2>4. \A k \in 1..Len(semantic) : semantic[k].row = rows[semantic[k].id]
    BY <2>3 DEF ReadFrom
  <2> QED
    BY <1>1, <2>3, <2>4
<1> QED
  BY <1>2, <1>3 DEF Located

\* A call gets to the semantic SELECTs where pgvector is installed.
Installed == pc \in {"fuse", "nearest", "records"} => config.pgvector

\* Where no write came between, a call has read the store as it is.
ReadInv ==
  pc \in {"nearest", "records"} /\ seen = writes =>
    /\ filters.mode = "hybrid" =>
         \E s \in Selections(LexicalFilter(filters)) : got.lexical = SearchTenders(s, LexicalFilter(filters))
    /\ pc = "records" => got.nearest \in Nearest(filters)

LEMMA SameStore ==
  ASSUME UNCHANGED <<store, config>>, NEW f
  PROVE  Selections(f)' = Selections(f) /\ Nearest(f)' = Nearest(f)
<1>1. rows' = rows /\ vectors' = vectors
  BY DEF store
<1>2. Candidates(f)' = Candidates(f) /\ Embedded(f)' = Embedded(f)
  BY <1>1 DEF Candidates, Embedded
<1>3. Selections(f)' = Selections(f)
  BY <1>1, <1>2 DEF Selections
<1>4. Nearest(f)' = Nearest(f)
  <2>1. Entries(f)' = Entries(f)
    BY <1>1, <1>2 DEF Entries
  <2> QED
    BY <1>1, <2>1 DEF Nearest
<1> QED
  BY <1>3, <1>4

LEMMA SameCall ==
  ASSUME UNCHANGED <<store, config, call>>
  PROVE  /\ filters' = filters
         /\ (Selections(LexicalFilter(filters)))' = Selections(LexicalFilter(filters))
         /\ (Nearest(filters))' = Nearest(filters)
<1>1. filters' = filters
  BY DEF filters
<1> QED
  BY <1>1, SameStore

\* A write has come between from now on.
LEMMA WrittenUnsteady ==
  ASSUME BaseInv, writes' = writes + 1, UNCHANGED <<pc, call, seen>>
  PROVE  ReadInv'
<1>1. writes \in Nat
  BY DEF BaseInv, StoreInv
<1>2. pc = "records" \/ (pc = "nearest" /\ filters.mode = "hybrid") => seen \in 0..writes
  BY DEF BaseInv, SeenInv
<1>3. pc = "records" \/ (pc = "nearest" /\ filters.mode = "hybrid") => seen # writes'
  BY <1>1, <1>2
<1>4. filters' = filters
  BY DEF filters
<1> QED
  BY <1>3, <1>4 DEF ReadInv

LEMMA ReadNearestSteady ==
  ASSUME BaseInv, ReadInv, ReadNearest
  PROVE  ReadInv'
<1>1. PICK nearest \in Nearest(filters) :
        \/ nearest = <<>> /\ Finish(<<>>)
        \/ /\ nearest # <<>> /\ got' = [got EXCEPT !.nearest = nearest]
           /\ Look /\ Goto("records")
           /\ UNCHANGED <<store, config, call, fetch, answer, writes>>
  BY DEF ReadNearest
<1>2. CASE Finish(<<>>)
  BY <1>2 DEF Finish, Answer, Goto, ReadInv
<1>3. CASE /\ got' = [got EXCEPT !.nearest = nearest]
           /\ Look /\ Goto("records")
           /\ UNCHANGED <<store, config, call, fetch, answer, writes>>
  <2>1. /\ pc = "nearest" /\ pc' = "records" /\ seen' = (IF seen = None THEN writes ELSE seen) /\ filters' = filters
        /\ writes' = writes /\ UNCHANGED <<store, config, call>>
    BY <1>3 DEF Look, Goto, ReadNearest, filters
  <2>2. got = [lexical |-> got.lexical, nearest |-> got.nearest]
    BY DEF BaseInv, SeenInv
  <2>3. got'.lexical = got.lexical /\ got'.nearest = nearest
    BY <1>3, <2>2
  <2>4. got'.nearest \in (Nearest(filters))'
    BY <1>3, <2>3, SameCall
  <2>5. ASSUME filters.mode = "hybrid", seen' = writes
        PROVE  \E s \in Selections(LexicalFilter(filters)) : got'.lexical = SearchTenders(s, LexicalFilter(filters))
    <3>1. seen \in 0..writes /\ writes \in Nat
      BY <2>1, <2>5 DEF BaseInv, SeenInv, StoreInv
    <3>2. seen = writes
      BY <2>1, <2>5, <3>1, NoneAssumption
    <3> QED
      BY <2>1, <2>3, <2>5, <3>2 DEF ReadInv
  <2> QED
    BY <1>3, <2>1, <2>4, <2>5, SameCall DEF ReadInv
<1> QED
  BY <1>1, <1>2, <1>3

LEMMA ReadLexicalSideSteady ==
  ASSUME BaseInv, ReadLexicalSide
  PROVE  ReadInv'
<1>1. PICK s \in Selections(LexicalFilter(filters)) : got' = [got EXCEPT !.lexical = SearchTenders(s, LexicalFilter(filters))]
  BY DEF ReadLexicalSide
<1>2. pc' = "nearest" /\ UNCHANGED <<store, config, call>>
  BY DEF ReadLexicalSide, Goto
<1>3. got = [lexical |-> got.lexical, nearest |-> got.nearest]
  BY DEF BaseInv, SeenInv
<1>4. got'.lexical = SearchTenders(s, LexicalFilter(filters))
  BY <1>1, <1>3
<1>5. s \in (Selections(LexicalFilter(filters)))'
  BY <1>2, SameCall
<1> QED
  BY <1>2, <1>4, <1>5, SameCall DEF ReadInv

LEMMA ReadNext ==
  ASSUME BaseInv, ReadInv, [Next]_vars
  PROVE  ReadInv'
<1>1. CASE pc' \notin {"nearest", "records"}
  BY <1>1 DEF ReadInv
<1>2. CASE UNCHANGED <<store, config, pc, call, got, seen, writes>>
  <2>1. filters' = filters
    BY <1>2 DEF filters
  <2> QED
    BY <1>2, <2>1, SameCall DEF ReadInv
<1>3. ASSUME NEW c \in Calls, Ask(c) PROVE pc' \notin {"nearest", "records"}
  BY <1>3 DEF Ask, AskSearch, AskMatch, AskExport, AskFacets, AskSemantic, AskRecent, Refuse, Error, Answer, Begin, Goto, Dispatch
<1>4. CASE ReadFeed
  BY <1>1, <1>4, RefreshStages DEF ReadFeed, Goto
<1>5. CASE ReadTed
  BY <1>1, <1>5 DEF ReadTed, Goto
<1>6. CASE StoreTenders \/ StoreVectors
  BY <1>1, <1>6, RefreshStages DEF StoreTenders, StoreVectors, Stored, Goto
<1>7. CASE EmbedQuery \/ ReadLexical \/ ReadRecords \/ ReadRecent \/ ReadFacets \/ Raise
  BY <1>1, <1>7 DEF EmbedQuery, ReadLexical, ReadRecords, Finish, ReadRecent, ReadFacets, Raise, Error, Answer, Move, Goto, Fallback
<1>8. CASE CheckPgvector
  <2>1. CASE Move("nearest") /\ filters.mode = "semantic"
    BY <2>1 DEF Move, Goto, ReadInv, filters
  <2> QED
    BY <1>1, <1>8, <2>1 DEF CheckPgvector, Error, Answer, Move, Goto, Fallback
<1>9. CASE ReadLexicalSide \/ ReadNearest
  BY <1>9, ReadLexicalSideSteady, ReadNearestSteady
<1>10. CASE \E i \in Ids : Embed(i) \/ \E r \in Snapshots : Write(i, r)
  BY <1>10, WrittenUnsteady DEF Embed, Write
<1>11. CASE Receive \/ UNCHANGED vars
  BY <1>2, <1>11 DEF Receive, vars, store
<1> QED
  BY <1>1, <1>3, <1>4, <1>5, <1>6, <1>7, <1>8, <1>9, <1>10, <1>11 DEF Next, Step, Refresh, Search

LEMMA InstalledNext ==
  ASSUME Installed, [Next]_vars
  PROVE  Installed'
<1>1. CASE pc' \notin {"fuse", "nearest", "records"}
  BY <1>1 DEF Installed
<1>2. CASE UNCHANGED <<config, pc>>
  BY <1>2 DEF Installed
<1>3. ASSUME NEW c \in Calls, Ask(c) PROVE pc' \notin {"fuse", "nearest", "records"}
  BY <1>3 DEF Ask, AskSearch, AskMatch, AskExport, AskFacets, AskSemantic, AskRecent, Refuse, Error, Answer, Begin, Goto, Dispatch
<1>4. CASE Refresh
  BY <1>1, <1>4 DEF Refresh, ReadFeed, ReadTed, StoreTenders, StoreVectors, Stored, Goto, AfterFeed, AfterStore, Dispatch
<1>5. CASE EmbedQuery \/ ReadLexical \/ ReadRecords \/ ReadRecent \/ ReadFacets \/ Raise
  BY <1>1, <1>5 DEF EmbedQuery, ReadLexical, ReadRecords, Finish, ReadRecent, ReadFacets, Raise, Error, Answer, Move, Goto, Fallback
<1>6. CASE CheckPgvector
  BY <1>1, <1>6 DEF CheckPgvector, Error, Answer, Move, Goto, Fallback, Installed
<1>7. CASE ReadLexicalSide \/ ReadNearest
  BY <1>1, <1>7 DEF ReadLexicalSide, ReadNearest, Finish, Answer, Goto, Installed
<1>8. CASE \E i \in Ids : Embed(i) \/ \E r \in Snapshots : Write(i, r)
  BY <1>2, <1>8 DEF Embed, Write
<1>9. CASE Receive \/ UNCHANGED vars
  BY <1>2, <1>9 DEF Receive, vars
<1> QED
  BY <1>1, <1>3, <1>4, <1>5, <1>6, <1>7, <1>8, <1>9 DEF Next, Step, Search

SteadyInv == Installed /\ ReadInv

LEMMA SteadyNext ==
  ASSUME BaseInv, SteadyInv, [Next]_vars
  PROVE  SteadyInv'
BY ReadNext, InstalledNext DEF SteadyInv

\* Every other step leaves the response as it is, takes it away or is an error.
LEMMA Responses ==
  ASSUME [Next]_vars
  PROVE  \/ answer' = answer \/ ~Answered'
         \/ ReadLexical \/ ReadRecent \/ ReadFacets
         \/ \E semantic : Located(semantic) /\ Finish(semantic)
<1>1. ASSUME NEW error, error # "none", Error(error) PROVE ~Answered'
  BY <1>1 DEF Error, Answer, Answered
<1>2. CASE UNCHANGED vars
  BY <1>2 DEF vars
<1>3. CASE Receive
  BY <1>3 DEF Receive, Answered
<1>4. ASSUME NEW c \in Calls, Ask(c) PROVE answer' = answer \/ ~Answered'
  BY <1>1, <1>4 DEF Ask, AskSearch, AskMatch, AskExport, AskFacets, AskSemantic, AskRecent, Refuse, Begin
<1>5. CASE Refresh \/ EmbedQuery \/ CheckPgvector \/ ReadLexicalSide \/ Raise
  BY <1>1, <1>5 DEF Refresh, ReadFeed, ReadTed, StoreTenders, StoreVectors, EmbedQuery, CheckPgvector, ReadLexicalSide, Raise, Move
<1>6. CASE ReadNearest
  <2>1. PICK nearest \in Nearest(filters) : (nearest = <<>> /\ Finish(<<>>)) \/ answer' = answer
    BY <1>6 DEF ReadNearest
  <2>2. CASE nearest = <<>> /\ Finish(<<>>)
    <3>1. Located(<<>>)
      BY <1>6, <2>2 DEF Located, ReadNearest
    <3> QED
      BY <2>2, <3>1
  <2> QED
    BY <2>1, <2>2
<1>7. CASE ReadRecords
  BY <1>7 DEF ReadRecords, Located
<1>8. CASE \E i \in Ids : Embed(i) \/ \E r \in Snapshots : Write(i, r)
  BY <1>8 DEF Embed, Write
<1> QED
  BY <1>2, <1>3, <1>4, <1>5, <1>6, <1>7, <1>8 DEF Next, Step, Search

\* What is kept with a response.
LEMMA Response ==
  ASSUME NEW error, NEW results, NEW facets, NEW path, Answer(error, results, facets, path)
  PROVE  /\ answer'.error = error /\ answer'.results = results /\ answer'.facets = facets /\ answer'.path = path
         /\ answer'.call = call /\ answer'.call.f = filters /\ answer'.rows = rows /\ answer'.vectors = vectors
         /\ answer'.steady = (seen \in {None, writes})
BY DEF Answer, filters

\* What the properties compare a response with is what the SELECTs chose from.
LEMMA Selectable ==
  ASSUME NEW a, a.rows = rows, a.vectors = vectors, a.call = call
  PROVE  Matching(a) = Candidates(filters) /\ Vectors(a) = Embedded(filters)
BY DEF Matching, Vectors, Candidates, Embedded, filters

\* Every embedding of one tender is nearer than any of another.
Nearer(i, j, f) == \A m \in DOMAIN vectors[i], n \in DOMAIN vectors[j] : Far(<<i, m>>, f) < Far(<<j, n>>, f)

\* No tender that matches has several embeddings.
Single(f) == \A i \in Embedded(f) : Len(vectors[i]) = 1

\* The distance kept of a tender is that of one of its embeddings.
LEMMA LastEntry ==
  ASSUME NEW nearest \in Seq(Neighbours), NEW i \in Members(nearest)
  PROVE  \E k \in 1..Len(nearest) : nearest[k].id = i /\ LastDistance(nearest, i) = nearest[k].distance
<1> DEFINE S == {k \in 1..Len(nearest) : nearest[k].id = i}
<1>1. Len(nearest) \in Nat
  BY LenProperties
<1>2. S \in SUBSET (1..Len(nearest)) /\ S # {}
  BY DEF Members
<1>3. LastDistance(nearest, i) = nearest[Max(S)].distance
  BY DEF LastDistance
<1> HIDE DEF S
<1>4. Max(S) \in S
  BY <1>1, <1>2, LargestPlace
<1> QED
  BY <1>3, <1>4 DEF S

\* Tenders nearer than one that was found were found, and are sorted before it.
LEMMA NearerAreFound ==
  ASSUME StoreType, NEW f, f.text \in DOMAIN Finds, NEW o \in Orders(Entries(f), DistanceOrder(f)),
         NEW nearest, Begins(nearest, o, f), NEW i \in Embedded(f), NEW j \in Members(nearest), Nearer(i, j, f)
  PROVE  i \in Members(nearest) /\ i # j /\ LastDistance(nearest, i) < LastDistance(nearest, j)
<1> DEFINE n == Len(nearest)
<1>1. /\ nearest \in Seq(Neighbours) /\ n \in Nat
      /\ \A k \in 1..n : /\ k \in 1..Len(o) /\ nearest[k].id = o[k][1] /\ o[k] \in Entries(f)
                         /\ nearest[k].distance = Far(o[k], f)
  BY LenProperties DEF Begins
<1>2. /\ Len(o) \in Nat /\ \A e \in Entries(f) : \E k \in 1..Len(o) : o[k] = e
      /\ \A k, m \in 1..Len(o) : k < m => <<o[m], o[k]>> \notin DistanceOrder(f)
  BY EntryItems, OrderItems
<1>3. \A e \in Entries(f) : e = <<e[1], e[2]>> /\ e[2] \in DOMAIN vectors[e[1]] /\ Far(e, f) \in Int
  BY EntryItems, FarIsInt
<1>4. /\ <<i, 1>> \in Entries(f) /\ 1 \in DOMAIN vectors[i]
  BY EntryItems
<1>5. \A d, e \in Entries(f) : d[1] = i /\ e[1] = j => Far(d, f) < Far(e, f)
  <2> SUFFICES ASSUME NEW d \in Entries(f), NEW e \in Entries(f), d[1] = i, e[1] = j PROVE Far(d, f) < Far(e, f)
    OBVIOUS
  <2>1. d = <<i, d[2]>> /\ e = <<j, e[2]>> /\ d[2] \in DOMAIN vectors[i] /\ e[2] \in DOMAIN vectors[j]
    BY <1>3
  <2>2. Far(<<i, d[2]>>, f) < Far(<<j, e[2]>>, f)
    BY <2>1 DEF Nearer
  <2> QED
    BY <2>1, <2>2
<1> HIDE DEF n
<1>6. PICK q \in 1..n : nearest[q].id = j
  BY DEF Members, n
<1>7. i \in Members(nearest)
  <2>1. PICK p \in 1..Len(o) : o[p] = <<i, 1>>
    BY <1>2, <1>4
  <2>2. q \in 1..Len(o) /\ o[q] \in Entries(f) /\ o[q][1] = j
    BY <1>1, <1>6
  <2>3. o[p] \in Entries(f) /\ o[p][1] = i
    BY <1>4, <2>1
  <2>4. Far(o[p], f) < Far(o[q], f)
    BY <1>5, <2>2, <2>3
  <2>5. <<o[p], o[q]>> \in DistanceOrder(f)
    BY <2>2, <2>3, <2>4 DEF DistanceOrder
  <2>6. ~(q < p)
    BY <1>2, <2>2, <2>5
  <2>7. p \in 1..n
    BY <1>1, <1>2, <2>6
  <2> QED
    BY <1>1, <2>3, <2>7 DEF Members, n
<1>8. LastDistance(nearest, i) < LastDistance(nearest, j)
  <2>1. PICK k \in 1..n : nearest[k].id = i /\ LastDistance(nearest, i) = nearest[k].distance
    BY <1>1, <1>7, LastEntry DEF n
  <2>2. PICK m \in 1..n : nearest[m].id = j /\ LastDistance(nearest, j) = nearest[m].distance
    BY <1>1, LastEntry DEF n
  <2>3. Far(o[k], f) < Far(o[m], f)
    BY <1>1, <1>5, <2>1, <2>2
  <2> QED
    BY <1>1, <2>1, <2>2, <2>3
<1>9. i # j
  <2>1. o[q] \in Entries(f) /\ o[q][1] = j
    BY <1>1, <1>6
  <2>2. i = j => Far(o[q], f) < Far(o[q], f)
    BY <1>5, <2>1
  <2> QED
    BY <1>3, <2>1, <2>2
<1> QED
  BY <1>7, <1>8, <1>9

\* Where every tender has one embedding, as many tenders are found as LIMIT allows.
LEMMA SinglesAreFound ==
  ASSUME StoreType, NEW f, f.limit \in Nat \ {0}, f.offset \in Nat, Single(f),
         NEW o \in Orders(Entries(f), DistanceOrder(f)), NEW nearest, Begins(nearest, o, f)
  PROVE  Cardinality(Members(nearest)) = Min({SemanticLimit(f), Cardinality(Embedded(f))})
<1> DEFINE n == Len(nearest)
           S == Embedded(f)
           E == Entries(f)
           M == Members(nearest)
           first == [e \in E |-> e[1]]
           place == [k \in 1..n |-> nearest[k].id]
<1>1. /\ nearest \in Seq(Neighbours) /\ n \in Nat /\ n = Min({SemanticLimit(f), Len(o)})
      /\ \A k \in 1..n : k \in 1..Len(o) /\ nearest[k].id = o[k][1] /\ o[k] \in E
  BY LenProperties DEF Begins
<1>2. /\ Len(o) = Cardinality(E) /\ \A j, k \in 1..Len(o) : o[j] = o[k] => j = k
  BY EntryItems, OrderItems
<1>3. /\ IsFiniteSet(E) /\ \A e \in E : e = <<e[1], 1>> /\ e[1] \in S
      /\ \A i \in S : <<i, 1>> \in E
  <2>1. /\ IsFiniteSet(E) /\ \A e \in E : e = <<e[1], e[2]>> /\ e[1] \in S /\ e[2] \in DOMAIN vectors[e[1]]
        /\ \A i \in S : 1 \in DOMAIN vectors[i] /\ \A m \in DOMAIN vectors[i] : <<i, m>> \in E
    BY EntryItems
  <2>2. \A i \in S : DOMAIN vectors[i] = {1}
    <3> SUFFICES ASSUME NEW i \in S PROVE DOMAIN vectors[i] = {1}
      OBVIOUS
    <3> DEFINE s == vectors[i]
    <3>1. s \in Seq(Rows) /\ Len(s) = 1
      BY FiniteCandidates DEF StoreType, Single
    <3> HIDE DEF s
    <3>2. DOMAIN s = 1..1
      BY <3>1, LenProperties
    <3> QED
      BY <3>2 DEF s
  <2> HIDE DEF E, S
  <2>3. \A e \in E : e[2] = 1
    BY <2>1, <2>2
  <2> QED
    BY <2>1, <2>3
<1> HIDE DEF n, S, E
<1>4. Cardinality(S) = Cardinality(E)
  <2>1. first \in [E -> S] /\ \A d, e \in E : first[d] = first[e] => d = e
    BY <1>3
  <2>2. \A i \in S : \E e \in E : first[e] = i
    <3> SUFFICES ASSUME NEW i \in S PROVE \E e \in E : first[e] = i
      OBVIOUS
    <3>1. <<i, 1>> \in E /\ first[<<i, 1>>] = i
      BY <1>3
    <3> QED
      BY <3>1
  <2> HIDE DEF first
  <2>3. first \in Injection(E, S) /\ first \in Surjection(E, S)
    BY <2>1, <2>2, Fun_IsInj, Fun_IsSurj
  <2> QED
    BY <1>3, <2>3, FS_Surjection
<1>5. Cardinality(M) = n
  <2>1. IsFiniteSet(1..n) /\ Cardinality(1..n) = n
    BY <1>1, Places
  <2>2. M = {place[k] : k \in 1..n} /\ place \in [1..n -> M]
    BY DEF Members, n
  <2>3. \A j, k \in 1..n : place[j] = place[k] => j = k
    <3> SUFFICES ASSUME NEW j \in 1..n, NEW k \in 1..n, place[j] = place[k] PROVE j = k
      OBVIOUS
    <3>1. o[j] \in E /\ o[k] \in E /\ o[j][1] = o[k][1] /\ j \in 1..Len(o) /\ k \in 1..Len(o)
      BY <1>1
    <3>2. o[j] = o[k]
      BY <1>3, <3>1
    <3> QED
      BY <1>2, <3>1, <3>2
  <2>4. \A i \in M : \E k \in 1..n : place[k] = i
    BY <2>2
  <2> HIDE DEF place, M
  <2>5. place \in Injection(1..n, M) /\ place \in Surjection(1..n, M)
    BY <2>2, <2>3, <2>4, Fun_IsInj, Fun_IsSurj
  <2> QED
    BY <2>1, <2>5, FS_Surjection
<1> QED
  BY <1>1, <1>2, <1>4, <1>5 DEF S

\* The results of the semantic side are the nearest tenders of the store, nearest first.
Closest(semantic, f) ==
  /\ \A k \in 1..Len(semantic) : semantic[k].id \in Embedded(f) /\ semantic[k].row = rows[semantic[k].id]
  /\ \A k \in 1..Len(semantic), i \in Embedded(f) :
       Nearer(i, semantic[k].id, f) => \E m \in 1..Len(semantic) : m < k /\ semantic[m].id = i
  /\ Embedded(f) # {} => Len(semantic) # 0
  /\ Single(f) => Len(semantic) = Min({SemanticLimit(f), Cardinality(Embedded(f))})

LEMMA ClosestItems ==
  ASSUME StoreType, NEW f, f.text \in DOMAIN Finds, f.limit \in Nat \ {0}, f.offset \in Nat,
         NEW o \in Orders(Entries(f), DistanceOrder(f)), NEW nearest, Begins(nearest, o, f),
         NEW semantic \in Seq(Results), ReadFrom(semantic, nearest)
  PROVE  Closest(semantic, f)
<1> DEFINE n == Len(semantic)
           M == Members(nearest)
<1>1. /\ n \in Nat /\ n = Cardinality(M)
      /\ \A k \in 1..n : semantic[k].id \in M /\ semantic[k].row = rows[semantic[k].id]
      /\ \A i \in M : \E k \in 1..n : semantic[k].id = i
      /\ \A j, k \in 1..n :
           j < k => ~(LastDistance(nearest, semantic[k].id) < LastDistance(nearest, semantic[j].id))
  BY LenProperties DEF ReadFrom
<1>2. M \subseteq Embedded(f)
  <2>1. \A k \in 1..Len(nearest) : nearest[k].id = o[k][1] /\ o[k] \in Entries(f)
    BY DEF Begins
  <2>2. \A e \in Entries(f) : e[1] \in Embedded(f)
    BY EntryItems
  <2> QED
    BY <2>1, <2>2 DEF Members
<1>3. \A i \in Embedded(f), j \in M :
        Nearer(i, j, f) => i \in M /\ i # j /\ LastDistance(nearest, i) < LastDistance(nearest, j)
  BY NearerAreFound
<1> HIDE DEF n, M
<1>4. ASSUME NEW k \in 1..n, NEW i \in Embedded(f), Nearer(i, semantic[k].id, f)
      PROVE  \E m \in 1..n : m < k /\ semantic[m].id = i
  <2> DEFINE j == semantic[k].id
  <2>1. j \in M /\ i \in M /\ i # j /\ LastDistance(nearest, i) < LastDistance(nearest, j)
    BY <1>1, <1>3, <1>4
  <2>2. PICK m \in 1..n : semantic[m].id = i
    BY <1>1, <2>1
  <2>3. m # k
    BY <2>1, <2>2
  <2>4. ~(k < m)
    BY <1>1, <2>1, <2>2
  <2>5. n \in Nat /\ k \in Nat /\ m \in Nat
    BY <1>1
  <2> HIDE DEF j
  <2>6. m < k
    BY ONLY <2>3, <2>4, <2>5
  <2> QED
    BY <2>2, <2>6
<1>5. ASSUME Embedded(f) # {} PROVE n # 0
  <2>1. PICK i \in Embedded(f) : TRUE
    BY <1>5
  <2>2. <<i, 1>> \in Entries(f) /\ SemanticLimit(f) \in Nat \ {0}
    BY EntryItems, SemanticWindow
  <2>3. Len(o) \in Nat /\ \E k \in 1..Len(o) : o[k] = <<i, 1>>
    <3> DEFINE S == Entries(f)
               R == DistanceOrder(f)
    <3>1. IsFiniteSet(S) /\ o \in Orders(S, R) /\ <<i, 1>> \in S
      BY <2>2, EntryItems
    <3> HIDE DEF S, R
    <3>2. Len(o) \in Nat /\ \A x \in S : \E k \in 1..Len(o) : o[k] = x
      BY <3>1, OrderItems
    <3> QED
      BY <3>1, <3>2
  <2>4. Len(o) \in Nat \ {0}
    BY <2>3
  <2>5. Len(nearest) \in Nat \ {0}
    <3>1. Len(nearest) = Min({SemanticLimit(f), Len(o)})
      BY DEF Begins
    <3>2. Min({SemanticLimit(f), Len(o)}) \in Nat \ {0}
      BY <2>2, <2>4, MinimumIsPositive
    <3> QED
      BY <3>1, <3>2
  <2>6. nearest[1].id \in M
    BY <2>5 DEF M, Members
  <2> QED
    BY <1>1, <2>6
<1>6. Single(f) => n = Min({SemanticLimit(f), Cardinality(Embedded(f))})
  BY <1>1, SinglesAreFound DEF M
<1>7. \A k \in 1..n : semantic[k].id \in Embedded(f) /\ semantic[k].row = rows[semantic[k].id]
  BY <1>1, <1>2
<1> QED
  BY <1>4, <1>5, <1>6, <1>7 DEF Closest, n

LEMMA SteadyItems ==
  ASSUME BaseInv, SteadyInv, NEW semantic, Located(semantic), seen \in {None, writes}
  PROVE  Closest(semantic, filters)
<1> DEFINE f == filters
<1>1. /\ f.text \in DOMAIN Finds /\ f.limit \in Nat \ {0} /\ f.offset \in Nat /\ pc \in {"nearest", "records"}
      /\ StoreType /\ semantic \in Seq(Results)
  BY LocatedItems, AtStage DEF Located, Staged, Filter, BaseInv, StoreInv
<1>2. config.pgvector
  BY <1>1 DEF SteadyInv, Installed
<1>3. PICK nearest \in Nearest(f) :
        \/ nearest = <<>> /\ semantic = <<>>
        \/ semantic \in Records(nearest) /\ \A k \in 1..Len(nearest) : rows[nearest[k].id] # None
  <2>1. CASE pc = "nearest" /\ <<>> \in Nearest(filters) /\ semantic = <<>>
    BY <2>1
  <2>2. CASE pc = "records" /\ semantic \in Records(got.nearest)
    <3>1. got.nearest \in Nearest(filters) /\ \A k \in 1..Len(got.nearest) : rows[got.nearest[k].id] # None
      BY <2>2, NoneAssumption DEF SteadyInv, ReadInv, BaseInv, SeenInv, StoreInv
    <3> QED
      BY <2>2, <3>1
  <2> QED
    BY <2>1, <2>2 DEF Located
<1> HIDE DEF f
<1>4. PICK o \in Orders(Entries(f), DistanceOrder(f)) : nearest = Distances(Firsts(o, SemanticLimit(f)), f)
  BY <1>2, Near
<1>5. Begins(nearest, o, f)
  BY <1>1, <1>4, NearestItems
<1>6. nearest \in Seq(Neighbours)
  BY <1>5 DEF Begins
<1>7. ReadFrom(semantic, nearest)
  <2>1. CASE nearest = <<>> /\ semantic = <<>>
    <3>1. Members(nearest) = {} /\ 1..Len(semantic) = {} /\ Len(semantic) = 0
      BY <2>1, EmptySeq DEF Members
    <3> QED
      BY <3>1, FS_EmptySet DEF ReadFrom
  <2>2. CASE semantic \in Records(nearest) /\ \A k \in 1..Len(nearest) : rows[nearest[k].id] # None
    BY <1>1, <1>6, <2>2, RecordItems
  <2> QED
    BY <1>3, <2>1, <2>2
<1>8. Closest(semantic, f)
  BY <1>1, <1>4, <1>5, <1>7, ClosestItems
<1> QED
  BY <1>8 DEF f

----------------------------------------------------------------------------
(* Results fit the filter *)

\* The fit of every item carries over to a list that is drawn from theirs.
LEMMA DrawnFit ==
  ASSUME NEW s, NEW t, Drawn(s, t), NEW f, \A k \in 1..Len(t) : PyMatches(t[k].row, f)
  PROVE  \A k \in 1..Len(s) : PyMatches(s[k].row, f)
<1>1. PICK places \in [1..Len(s) -> 1..Len(t)] : \A k \in 1..Len(s) : s[k] = t[places[k]]
  BY DEF Drawn
<1> QED
  BY <1>1

LEMMA LexicalFits == ASSUME BaseInv, ReadLexical PROVE ResultsFit'
<1>1. PICK s \in Selections(filters) : Answer("none", SearchTenders(s, filters), None, "lexical")
  BY DEF ReadLexical
<1>2. StoreType /\ Pageable(filters)
  BY AtStage DEF ReadLexical, BaseInv, StoreInv
<1>3. \A k \in 1..Len(SearchTenders(s, filters)) : PyMatches(SearchTenders(s, filters)[k].row, filters)
  BY <1>2, LexicalItems
<1>4. answer'.results = SearchTenders(s, filters) /\ answer'.call.f = filters
  BY <1>1, Response
<1> QED
  BY <1>3, <1>4 DEF ResultsFit

LEMMA SemanticFits ==
  ASSUME Ahead <= 0, BaseInv, SteadyInv, NEW semantic, Located(semantic), seen \in {None, writes}, Plain(filters)
  PROVE  \A k \in 1..Len(semantic) : PyMatches(semantic[k].row, filters)
<1>1. Closest(semantic, filters)
  BY SteadyItems
<1>2. Clean(filters) /\ StoreType
  BY LocatedItems DEF Staged, BaseInv, StoreInv
<1> SUFFICES ASSUME NEW k \in 1..Len(semantic) PROVE PyMatches(semantic[k].row, filters)
  OBVIOUS
<1>3. semantic[k].row \in TenderRows /\ SqlMatches(semantic[k].row, filters)
  <2>1. semantic[k].id \in Embedded(filters) /\ semantic[k].row = rows[semantic[k].id]
    BY <1>1 DEF Closest
  <2> QED
    BY <1>2, <2>1, RowsAssumption DEF Embedded, StoreType
<1> QED
  BY <1>2, <1>3, SelectedIsKept DEF Clean

LEMMA HybridItems ==
  ASSUME BaseInv, NEW semantic, Located(semantic)
  PROVE  LET fused   == Fuse(got.lexical, semantic)
             results == HybridResults(fused, filters)
         IN  /\ fused \in Seq(Results) /\ Distinct(fused) /\ Pageable(filters)
             /\ \A k \in 1..Len(fused) : \/ \E j \in 1..Len(got.lexical) : fused[k] = got.lexical[j]
                                         \/ \E j \in 1..Len(semantic) : fused[k] = semantic[j]
             /\ Kept(fused, filters) \in Seq(Results) /\ Drawn(Kept(fused, filters), fused)
             /\ results \in Seq(Results) /\ Drawn(results, Kept(fused, filters))
<1> DEFINE lexical == got.lexical
           fused   == Fuse(lexical, semantic)
           kept    == Kept(fused, filters)
<1>1. /\ lexical \in Seq(Results) /\ Distinct(lexical) /\ semantic \in Seq(Results) /\ Distinct(semantic)
      /\ Pageable(filters)
  BY LocatedItems, AtStage DEF BaseInv, SeenInv, Located
<1> HIDE DEF lexical
<1>2. /\ fused \in Seq(Results) /\ Distinct(fused)
      /\ \A k \in 1..Len(fused) : \/ \E j \in 1..Len(lexical) : fused[k] = lexical[j]
                                  \/ \E j \in 1..Len(semantic) : fused[k] = semantic[j]
  BY <1>1, FuseItems
<1> HIDE DEF fused
<1>3. kept \in Seq(Results) /\ Drawn(kept, fused)
  BY <1>2, KeptItems, KeptIsDrawn
<1> HIDE DEF kept
<1>4. SliceRetrieval(kept, filters) \in Seq(Results) /\ Drawn(SliceRetrieval(kept, filters), kept)
  BY <1>1, <1>3, SlicedAreDrawn
<1> QED
  BY <1>1, <1>2, <1>3, <1>4 DEF HybridResults, lexical, fused, kept

LEMMA FinishFits ==
  ASSUME Ahead <= 0, BaseInv, SteadyInv, NEW semantic, Located(semantic), Finish(semantic)
  PROVE  ResultsFit'
<1> DEFINE f == filters
<1>1. semantic \in Seq(Results) /\ f.limit \in Nat /\ f.offset \in Nat
  BY LocatedItems, AtStage DEF Located
<1>2. CASE Answer("none", Slice(semantic, f), None, "semantic")
  <2>1. /\ answer'.results = Slice(semantic, f) /\ answer'.call.f = f /\ answer'.steady = (seen \in {None, writes})
        /\ answer'.path = "semantic"
    BY <1>2, Response
  <2>2. Drawn(Slice(semantic, f), semantic)
    BY <1>1, SliceItems
  <2> HIDE DEF f
  <2>3. ASSUME Plain(f), seen \in {None, writes}
        PROVE  \A k \in 1..Len(Slice(semantic, f)) : PyMatches(Slice(semantic, f)[k].row, f)
    <3>1. \A k \in 1..Len(semantic) : PyMatches(semantic[k].row, f)
      BY <2>3, SemanticFits DEF f
    <3> QED
      BY <2>2, <3>1, DrawnFit
  <2> QED
    BY <2>1, <2>3 DEF ResultsFit
<1>3. CASE \E fused \in {Fuse(got.lexical, semantic)} : Answer("none", HybridResults(fused, f), None, "hybrid")
  <2> DEFINE fused == Fuse(got.lexical, semantic)
  <2>1. answer'.results = HybridResults(fused, f) /\ answer'.call.f = f
    BY <1>3, Response
  <2>2. fused \in Seq(Results) /\ Drawn(HybridResults(fused, f), Kept(fused, f))
    BY HybridItems
  <2> HIDE DEF fused, f
  <2>3. \A k \in 1..Len(HybridResults(fused, f)) : PyMatches(HybridResults(fused, f)[k].row, f)
    <3>1. \A k \in 1..Len(Kept(fused, f)) : PyMatches(Kept(fused, f)[k].row, f)
      BY <2>2, KeptItems
    <3> QED
      BY <2>2, <3>1, DrawnFit
  <2> QED
    BY <2>1, <2>3 DEF ResultsFit
<1> QED
  BY <1>2, <1>3 DEF Finish

\* get_recent_tenders filters by sources and by nothing else.
LEMMA RecentFits == ASSUME BaseInv, ReadRecent PROVE ResultsFit'
<1> DEFINE f      == filters
           recent == {i \in Ids : rows[i] # None /\ (f.sources # {} => rows[i].source \in f.sources)}
           R      == {p \in recent \X recent : Newer(rows[p[1]], rows[p[2]])}
<1>1. pc = "recent" /\ StoreType /\ f = RecentFilter(f) /\ f.limit \in Nat
  BY AtStage DEF ReadRecent, BaseInv, StoreInv, Staged
<1>2. PICK o \in Orders(recent, R) :
        Answer("none", [k \in 1..Len(Firsts(o, f.limit)) |-> [id |-> o[k], row |-> rows[o[k]]]], None, "recent")
  BY DEF ReadRecent
<1> DEFINE results == [k \in 1..Len(Firsts(o, f.limit)) |-> [id |-> o[k], row |-> rows[o[k]]]]
<1>3. answer'.results = results /\ answer'.call.f = f
  BY <1>2, Response
<1> HIDE DEF R
<1>4. o \in Seq(recent)
  <2>1. IsFiniteSet(recent)
    BY RowsAssumption, FS_Subset
  <2> HIDE DEF recent
  <2> QED
    BY <2>1, OrderItems
<1>5. \A k \in 1..Len(Firsts(o, f.limit)) : o[k] \in recent
  <2> HIDE DEF recent, f
  <2>1. Firsts(o, f.limit) \in Seq(recent) /\ \A k \in 1..Len(Firsts(o, f.limit)) : Firsts(o, f.limit)[k] = o[k]
    BY <1>1, <1>4, FirstItems
  <2> QED
    BY <2>1, ElementOfSeq
<1>6. \A k \in 1..Len(results) : \E i \in recent : results[k].row = rows[i]
  <2>1. Len(Firsts(o, f.limit)) \in Nat
    <3> HIDE DEF recent
    <3> QED
      BY <1>1, <1>4, FirstItems, LenProperties
  <2> HIDE DEF recent, f
  <2> QED
    BY <1>5, <2>1
<1>7. ASSUME NEW r, f.sources # {} => r.source \in f.sources PROVE PyMatches(r, f)
  <2>1. /\ f.onlyOpen = FALSE /\ f.statuses = {} /\ f.country = None /\ f.cpvs = {} /\ f.prefixes = {} /\ f.nuts = {}
        /\ f.buyer = None /\ f.regions = {} /\ f.exact = Defaults.exact /\ f.from = Defaults.from /\ f.to = Defaults.to
        /\ f.least = None /\ f.most = None
    <3> HIDE DEF f
    <3>1. f = RecentFilter(f)
      BY <1>1
    <3>2. /\ RecentFilter(f).onlyOpen = FALSE /\ RecentFilter(f).statuses = {} /\ RecentFilter(f).country = None
          /\ RecentFilter(f).cpvs = {} /\ RecentFilter(f).prefixes = {} /\ RecentFilter(f).nuts = {}
      BY DEF RecentFilter, Defaults
    <3>3. /\ RecentFilter(f).buyer = None /\ RecentFilter(f).regions = {} /\ RecentFilter(f).exact = Defaults.exact
          /\ RecentFilter(f).from = Defaults.from /\ RecentFilter(f).to = Defaults.to
          /\ RecentFilter(f).least = None /\ RecentFilter(f).most = None
      BY DEF RecentFilter, Defaults
    <3> HIDE DEF RecentFilter
    <3> QED
      BY <3>1, <3>2, <3>3
  <2> HIDE DEF f
  <2>2. NutsPrefixes(f) = {}
    BY <2>1 DEF NutsPrefixes
  <2>3. PyText(r, f)
    BY <2>1 DEF PyText, Defaults
  <2>4. \A d \in DateFields : AtLeast(f.from[d], Day(r.at[d])) /\ AtMost(f.to[d], Day(r.at[d]))
    BY <2>1 DEF AtLeast, AtMost, Defaults
  <2> QED
    BY <1>7, <2>1, <2>2, <2>3, <2>4 DEF PyMatches, AtLeast, AtMost
<1> HIDE DEF results
<1>8. \A k \in 1..Len(results) : PyMatches(results[k].row, f)
  BY <1>6, <1>7
<1> QED
  BY <1>3, <1>8 DEF ResultsFit

FitOk == BaseInv /\ SteadyInv /\ ResultsFit

LEMMA FitNext ==
  ASSUME Ahead <= 0, FitOk, [Next]_vars
  PROVE  FitOk'
<1>1. BaseInv' /\ SteadyInv'
  BY BaseNext, SteadyNext DEF FitOk
<1> SUFFICES ResultsFit'
  BY <1>1 DEF FitOk
<1>2. CASE ~Answered'
  BY <1>2 DEF ResultsFit
<1>3. CASE answer' = answer
  BY <1>3 DEF FitOk, ResultsFit, Answered
<1>4. CASE ReadLexical \/ ReadRecent
  BY <1>4, LexicalFits, RecentFits DEF FitOk
<1>5. ASSUME NEW semantic, Located(semantic), Finish(semantic) PROVE ResultsFit'
  BY <1>5, FinishFits DEF FitOk
<1>6. CASE ReadFacets
  <2>1. PICK ids : Answer("none", <<>>, Facets(ids), "facets")
    BY <1>6 DEF ReadFacets
  <2>2. 1..Len(answer'.results) = {}
    BY <2>1, Response, EmptySeq
  <2> QED
    BY <2>2 DEF ResultsFit
<1> QED
  BY <1>2, <1>3, <1>4, <1>5, <1>6, Responses

LEMMA SteadyInit == Init => SteadyInv
BY DEF Init, SteadyInv, Installed, ReadInv

\* Every tender of a response fits the filter it was asked for with, whichever way the call
\* took, if the sessions of the database are not ahead of UTC; of a semantic search, whose
\* tenders are read after their ids, if none was written in between.
THEOREM ResponsesFit ==
  ASSUME Ahead <= 0
  PROVE  Spec => []ResultsFit
<1>1. Init => FitOk
  BY BaseInit, SteadyInit DEF Init, ResultsFit, Answered, FitOk
<1>2. FitOk /\ [Next]_vars => FitOk'
  BY FitNext
<1>3. FitOk => ResultsFit
  BY DEF FitOk
<1> QED
  BY <1>1, <1>2, <1>3, PTL DEF Spec

----------------------------------------------------------------------------
(* Filter options *)

\* The filter with another value in one field: the other fields stay as they were.
Chosen(g, f, field, v) ==
  /\ g.text = f.text /\ g.onlyOpen = f.onlyOpen /\ g.country = f.country /\ g.from = f.from /\ g.to = f.to
  /\ g.least = f.least /\ g.most = f.most
  /\ g.statuses = (IF field = "status" THEN {v} \cap Statuses ELSE f.statuses)
  /\ g.sources = (IF field = "source" THEN {v} \cap Sources ELSE f.sources)
  /\ g.cpvs = (IF field = "cpv" THEN CpvCodes({v}) ELSE f.cpvs)
  /\ g.prefixes = (IF field = "prefix" THEN CpvPrefixes({v}) ELSE f.prefixes)
  /\ g.nuts = (IF field = "nuts" THEN {v} ELSE f.nuts)
  /\ g.regions = (IF field = "region" THEN {v} \ {None} ELSE f.regions)
  /\ g.buyer = (IF field = "buyer" THEN v ELSE f.buyer)
  /\ g.exact = [x \in ExactFields |-> IF x = field THEN {v} \ {None} ELSE f.exact[x]]

LEMMA ChosenFields ==
  ASSUME NEW f, Filter(f), Clean(f), NEW field \in Fields, NEW v
  PROVE  Chosen(BuildFilters(With(f, field, v)), f, field, v)
<1> DEFINE w == With(f, field, v)
           g == BuildFilters(w)
<1>1. Shaped(f) /\ FilterFields(f) /\ f.cpvs = CpvCodes(f.cpvs) /\ f.prefixes = CpvPrefixes(f.prefixes)
  BY DEF Filter, Shaped, Clean
<1>2. /\ Shaped(w)
      /\ w.text = f.text /\ w.onlyOpen = f.onlyOpen /\ w.country = f.country /\ w.from = f.from /\ w.to = f.to
      /\ w.least = f.least /\ w.most = f.most
      /\ w.statuses = (IF field = "status" THEN {v} ELSE f.statuses)
      /\ w.sources = (IF field = "source" THEN {v} ELSE f.sources)
      /\ w.cpvs = (IF field = "cpv" THEN {v} ELSE f.cpvs)
      /\ w.prefixes = (IF field = "prefix" THEN {v} ELSE f.prefixes)
      /\ w.nuts = (IF field = "nuts" THEN {v} ELSE f.nuts)
      /\ w.regions = (IF field = "region" THEN {v} ELSE f.regions)
      /\ w.buyer = (IF field = "buyer" THEN v ELSE f.buyer)
      /\ w.exact = (IF field \in ExactFields THEN [f.exact EXCEPT ![field] = {v}] ELSE f.exact)
  <2>1. CASE field \in ExactFields
    <3>1. w = [f EXCEPT !.exact[field] = {v}]
      BY <2>1 DEF With, ExactFields
    <3> HIDE DEF w
    <3> QED
      BY <1>1, <2>1, <3>1 DEF Shaped, ExactFields
  <2>2. CASE field \notin ExactFields
    BY <1>1, <2>2 DEF With, Shaped, Fields, CodeFields, NameFields, ExactFields
  <2> QED
    BY <2>1, <2>2
<1> HIDE DEF w
<1>3. /\ g.text = w.text /\ g.nuts = w.nuts /\ g.buyer = w.buyer /\ g.onlyOpen = w.onlyOpen /\ g.country = w.country
      /\ g.from = w.from /\ g.to = w.to /\ g.least = w.least /\ g.most = w.most
      /\ g.statuses = w.statuses \cap Statuses /\ g.sources = w.sources \cap Sources
      /\ g.cpvs = CpvCodes(w.cpvs) /\ g.prefixes = CpvPrefixes(w.prefixes) /\ g.regions = w.regions \ {None}
      /\ g.exact = [x \in ExactFields |-> w.exact[x] \ {None}]
  BY <1>2, BuiltFields
<1> HIDE DEF g
<1>4. /\ f.statuses \cap Statuses = f.statuses /\ f.sources \cap Sources = f.sources /\ f.regions \ {None} = f.regions
  BY <1>1, TextAssumption DEF FilterFields
<1>5. g.exact = [x \in ExactFields |-> IF x = field THEN {v} \ {None} ELSE f.exact[x]]
  <2> SUFFICES ASSUME NEW x \in ExactFields
               PROVE  w.exact[x] \ {None} = IF x = field THEN {v} \ {None} ELSE f.exact[x]
    BY <1>3
  <2>1. f.exact \in [ExactFields -> SUBSET Texts] /\ f.exact[x] \ {None} = f.exact[x]
    BY <1>1, TextAssumption DEF FilterFields
  <2>2. w.exact[x] = IF x = field THEN {v} ELSE f.exact[x]
    BY <1>2, <2>1
  <2> QED
    BY <2>1, <2>2
<1> QED
  BY <1>1, <1>2, <1>3, <1>4, <1>5 DEF Chosen, w, g

\* A row selected by a filter is also selected, and kept, by the filter that asks for one of the
\* values the row counts for.
LEMMA ChosenMatches ==
  ASSUME NEW f, Filter(f), Clean(f), Undated(f), NEW r \in TenderRows, SqlMatches(r, f),
         NEW field \in Fields, NEW v \in FacetValues(r, field), Plain(BuildFilters(With(f, field, v))),
         field = "nuts" => \A c \in r.nuts : Alphanumeric(c) = v => c = v
  PROVE  LET g == BuildFilters(With(f, field, v))
         IN  g.text = f.text /\ SqlMatches(r, g) /\ PyMatches(r, g)
<1> DEFINE g == BuildFilters(With(f, field, v))
<1>1. Chosen(g, f, field, v)
  BY ChosenFields
<1>2. Plain(g)
  OBVIOUS
<1> HIDE DEF g
<1>3. FilterFields(f)
  BY DEF Clean
<1>4. field = "status" => v = r.status /\ v \in Statuses
  BY DEF FacetValues, TenderRows, ExactFields
<1>5. field = "source" => v = r.source /\ v \in Sources
  BY DEF FacetValues, TenderRows, ExactFields
<1>6. field = "region" => v = r.region /\ v \in Texts /\ v # None
  BY TextAssumption DEF FacetValues, TenderRows, ExactFields
<1>7. field = "buyer" => v = r.buyer /\ v \in Texts /\ v # None
  BY TextAssumption DEF FacetValues, TenderRows, ExactFields
<1>8. field \in ExactFields => /\ r.exact[field] \in Texts /\ r.exact[field] # None /\ v \in Texts /\ v # None
                               /\ Lower[v] = Lower[r.exact[field]]
  <2> SUFFICES ASSUME field \in ExactFields
               PROVE  /\ r.exact[field] \in Texts /\ r.exact[field] # None /\ v \in Texts /\ v # None
                      /\ Lower[v] = Lower[r.exact[field]]
    OBVIOUS
  <2>1. v \in {IF field = "dataset" THEN Lower[u] ELSE u : u \in {r.exact[field]} \ {None}}
    BY DEF FacetValues, ExactFields
  <2>2. r.exact[field] \in Texts /\ r.exact[field] # None /\ (v = r.exact[field] \/ v = Lower[r.exact[field]])
    BY <2>1 DEF TenderRows
  <2> QED
    BY <2>2, TextAssumption, LowerAssumption
<1>9. FilterFields(g)
  <2>1. g.statuses \subseteq Statuses /\ g.sources \subseteq Sources /\ g.regions \subseteq Texts
    BY <1>1, <1>3, <1>6 DEF FilterFields, Chosen
  <2>2. g.buyer \in Texts \cup {None}
    BY <1>1, <1>3, <1>7 DEF FilterFields, Chosen
  <2>3. g.exact \in [ExactFields -> SUBSET Texts]
    BY <1>1, <1>3, <1>8 DEF FilterFields, Chosen
  <2> QED
    BY <1>1, <1>3, <2>1, <2>2, <2>3 DEF FilterFields, Chosen
<1>10. SqlText(r, g)
  <2>1. g.buyer # None => r.buyer # None /\ <<g.buyer, r.buyer>> \in Like
    BY <1>1, <1>2, <1>7, LikeAssumption DEF SqlMatches, SqlText, Plain, Chosen
  <2>2. g.regions # {} => r.region # None /\ \E p \in g.regions : <<p, r.region>> \in Like
    BY <1>1, <1>2, <1>6, LikeAssumption DEF SqlMatches, SqlText, Plain, Chosen
  <2>3. ASSUME NEW x \in ExactFields, g.exact[x] # {}
        PROVE  r.exact[x] # None /\ \E u \in g.exact[x] : Lower[u] = Lower[r.exact[x]]
    BY <1>1, <1>8, <2>3 DEF SqlMatches, SqlText, Chosen
  <2> QED
    BY <2>1, <2>2, <2>3 DEF SqlText
<1>11. g.cpvs # {} => r.cpv \cap g.cpvs # {}
  <2>1. field = "cpv" => v \in r.cpv /\ CpvCodes({v}) \subseteq {v}
    BY DEF FacetValues, ExactFields, CpvCodes
  <2>2. g.cpvs = IF field = "cpv" THEN CpvCodes({v}) ELSE f.cpvs
    BY <1>1 DEF Chosen
  <2>3. f.cpvs # {} => r.cpv \cap f.cpvs # {}
    BY DEF SqlMatches
  <2> QED
    BY <2>1, <2>2, <2>3
<1>12. g.prefixes # {} => HasPrefix(r.cpv, g.prefixes)
  <2>1. CASE field = "prefix"
    <3>1. PICK c \in r.cpv : Len(c) >= 2 /\ v = SubSeq(c, 1, 2)
      BY <2>1 DEF FacetValues, ExactFields
    <3>2. c \in Seq(Alnum) /\ Len(c) \in Nat
      BY LenProperties DEF TenderRows
    <3>3. v \in Seq(Alnum) /\ Len(v) = 2 /\ SubSeq(v, 1, 2) = v
      BY <3>1, <3>2, SubSeqProperties
    <3>4. IsPrefix(v, c)
      BY <3>1, <3>2, <3>3 DEF IsPrefix
    <3>5. CpvPrefixes({v}) \subseteq {v}
      BY DEF CpvPrefixes
    <3> QED
      BY <1>1, <2>1, <3>1, <3>4, <3>5 DEF HasPrefix, Chosen
  <2> QED
    BY <1>1, <2>1 DEF SqlMatches, Chosen
<1>13. NutsPrefixes(g) # {} => HasPrefix(r.nuts, NutsPrefixes(g))
  <2>1. CASE field = "nuts"
    <3>1. PICK c \in r.nuts : v = Alphanumeric(c)
      BY <2>1 DEF FacetValues, ExactFields
    <3>2. c = v
      BY <2>1, <3>1
    <3>3. NutsPrefixes(g) \subseteq {c}
      BY <1>1, <2>1, <3>1, <3>2 DEF NutsPrefixes, Chosen
    <3>4. c \in Seq(Chars)
      BY DEF TenderRows
    <3>5. IsPrefix(c, c)
      BY <3>4, LenProperties DEF IsPrefix
    <3> QED
      BY <3>3, <3>5 DEF HasPrefix
  <2>2. CASE field # "nuts"
    BY <1>1, <2>2 DEF SqlMatches, NutsPrefixes, Chosen
  <2> QED
    BY <2>1, <2>2
<1>14. SqlMatches(r, g)
  <2>1. /\ g.sources # {} => r.source \in g.sources
        /\ g.statuses # {} => r.status \in g.statuses
    BY <1>1, <1>4, <1>5 DEF SqlMatches, Chosen
  <2> QED
    BY <1>1, <1>10, <1>11, <1>12, <1>13, <2>1 DEF SqlMatches, Chosen
<1>15. \A d \in DateFields : AtLeast(g.from[d], Day(r.at[d])) /\ AtMost(g.to[d], Day(r.at[d]))
  BY <1>1 DEF Undated, AtLeast, AtMost, Chosen
<1>16. PyMatches(r, g)
  BY <1>2, <1>9, <1>14, <1>15, KeptByDates
<1> QED
  BY <1>1, <1>14, <1>16 DEF g, Chosen

\* The tenders that a filter selects, and keeps, of those a response was made from.
Leads(a, g) ==
  {i \in Ids : a.rows[i] # None /\ HasText(a.rows[i], g) /\ SqlMatches(a.rows[i], g) /\ PyMatches(a.rows[i], g)}

\* What a value is listed with.
Counted(ids, field, v) == Cardinality(UNION {{i} \X Hits(rows[i], field, v) : i \in ids})

\* A tender counts once for a value, unless several of its codes stand for the value.
LEMMA CountedOnce ==
  ASSUME NEW ids, NEW field, field # "prefix", NEW v, NEW found, IsFiniteSet(found),
         \A i \in ids : v \in FacetValues(rows[i], field) => i \in found,
         field = "nuts" => v # <<>> /\ \A i \in ids : \A c \in rows[i].nuts : Alphanumeric(c) = v => c = v
  PROVE  Counted(ids, field, v) <= Cardinality(found)
<1> DEFINE counted == UNION {{i} \X Hits(rows[i], field, v) : i \in ids}
<1>1. counted \in SUBSET (found \X {v})
  <2> SUFFICES ASSUME NEW i \in ids, NEW p \in {i} \X Hits(rows[i], field, v) PROVE p \in found \X {v}
    OBVIOUS
  <2>1. Hits(rows[i], field, v) \subseteq {v} \cap FacetValues(rows[i], field)
    <3>1. CASE field = "nuts"
      BY <3>1 DEF Hits, FacetValues, ExactFields
    <3>2. CASE field # "nuts"
      BY <3>2 DEF Hits
    <3> QED
      BY <3>1, <3>2
  <2> QED
    BY <2>1
<1> HIDE DEF counted
<1>2. IsFiniteSet({v}) /\ Cardinality({v}) = 1 /\ Cardinality(found) \in Nat
  BY FS_Singleton, FS_CardinalityType
<1>3. IsFiniteSet(found \X {v}) /\ Cardinality(found \X {v}) = Cardinality(found)
  BY <1>2, FS_Product
<1>4. Cardinality(counted) <= Cardinality(found \X {v})
  BY <1>1, <1>3, FS_Subset
<1> QED
  BY <1>3, <1>4 DEF counted, Counted

\* The rows the filter options are taken from are candidates of the filter.
LEMMA FacetRowsMatch ==
  ASSUME NEW f, NEW ids \in FacetRows(f)
  PROVE  ids \subseteq Candidates(f)
<1> DEFINE R == {p \in Candidates(f) \X Candidates(f) : Newer(rows[p[1]], rows[p[2]])}
<1>1. PICK o \in Orders(Candidates(f), R) : ids = ToSet(Firsts(o, FacetWindow))
  BY DEF FacetRows, NewestOf
<1> HIDE DEF R
<1>2. o \in Seq(Candidates(f))
  BY FiniteCandidates, OrderItems
<1>3. Firsts(o, FacetWindow) \in Seq(Candidates(f))
  BY <1>2, WindowAssumption, FirstItems
<1>4. \A k \in DOMAIN Firsts(o, FacetWindow) : Firsts(o, FacetWindow)[k] \in Candidates(f)
  BY <1>3, LenProperties, ElementOfSeq
<1> QED
  BY <1>1, <1>4 DEF ToSet

LEMMA FacetsLeadOn == ASSUME BaseInv, ReadFacets PROVE FacetsLeadSomewhere'
<1> DEFINE f == filters
<1>1. PICK ids \in FacetRows(f) : Answer("none", <<>>, Facets(ids), "facets")
  BY DEF ReadFacets
<1>2. Filter(f) /\ Clean(f) /\ Undated(f) /\ StoreType
  BY AtStage DEF ReadFacets, Staged, BaseInv, StoreInv
<1>3. answer'.facets = Facets(ids) /\ answer'.call.f = f /\ answer'.rows = rows
  BY <1>1, Response
<1>4. \A i \in ids : /\ i \in Ids /\ rows[i] # None /\ rows[i] \in TenderRows
                     /\ SqlMatches(rows[i], f) /\ HasText(rows[i], f)
  BY <1>1, <1>2, FacetRowsMatch, RowsAssumption DEF Candidates, StoreType
<1> HIDE DEF f
<1>5. ASSUME NEW field \in Fields, NEW facet \in Facets(ids)[field], Plain(BuildFilters(With(f, field, facet.value))),
             AsWritten(answer', field, facet.value),
             NEW found, found = Leads(answer', BuildFilters(With(f, field, facet.value)))
      PROVE  found # {} /\ (field # "prefix" => Cardinality(found) >= facet.count)
  <2> DEFINE v == facet.value
             g == BuildFilters(With(f, field, v))
  <2>1. /\ v \in UNION {FacetValues(rows[i], field) : i \in ids}
        /\ facet.count = Counted(ids, field, v)
    <3>1. Facets(ids)[field] = {[value |-> u, count |-> Counted(ids, field, u)] :
                                  u \in UNION {FacetValues(rows[i], field) : i \in ids}}
      BY DEF Facets, Counted
    <3> QED
      BY <1>5, <3>1
  <2>2. Plain(g)
    BY <1>5
  <2>3. found = {i \in Ids : rows[i] # None /\ HasText(rows[i], g) /\ SqlMatches(rows[i], g) /\ PyMatches(rows[i], g)}
    BY <1>3, <1>5 DEF Leads
  <2>8. field = "nuts" => \A i \in ids : \A c \in rows[i].nuts : Alphanumeric(c) = v => c = v
    BY <1>3, <1>4, <1>5 DEF AsWritten
  <2>9. field = "nuts" => v # <<>>
    BY <2>1 DEF FacetValues, ExactFields
  <2> HIDE DEF v
  <2>4. ASSUME NEW i \in ids, v \in FacetValues(rows[i], field) PROVE i \in found
    <3>1. g.text = f.text /\ SqlMatches(rows[i], g) /\ PyMatches(rows[i], g)
      BY <1>2, <1>4, <2>2, <2>4, <2>8, ChosenMatches
    <3>2. HasText(rows[i], g)
      BY <1>4, <3>1 DEF HasText
    <3> HIDE DEF g
    <3> QED
      BY <1>4, <2>3, <3>1, <3>2
  <2> HIDE DEF g
  <2>5. found # {}
    BY <2>1, <2>4
  <2>6. IsFiniteSet(found) /\ Cardinality(found) \in Nat
    <3>1. found \in SUBSET Ids
      BY <2>3
    <3> QED
      BY <3>1, RowsAssumption, FS_Subset, FS_CardinalityType
  <2>7. field # "prefix" => facet.count <= Cardinality(found)
    BY <2>1, <2>4, <2>6, <2>8, <2>9, CountedOnce
  <2> QED
    BY <2>5, <2>7
<1> QED
  BY <1>3, <1>5 DEF FacetsLeadSomewhere, Leads

FacetsOk == BaseInv /\ FacetsLeadSomewhere

LEMMA FacetsNext ==
  ASSUME FacetsOk, [Next]_vars
  PROVE  FacetsOk'
<1>1. BaseInv'
  BY BaseNext DEF FacetsOk
<1> SUFFICES FacetsLeadSomewhere'
  BY <1>1 DEF FacetsOk
<1>2. CASE ~Answered' \/ answer'.path # "facets"
  BY <1>2 DEF FacetsLeadSomewhere
<1>3. CASE answer' = answer
  BY <1>3 DEF FacetsOk, FacetsLeadSomewhere, Answered
<1>4. CASE ReadFacets
  BY <1>4, FacetsLeadOn DEF FacetsOk
<1>5. CASE ReadLexical \/ ReadRecent
  BY <1>2, <1>5, Response DEF ReadLexical, ReadRecent
<1>6. ASSUME NEW semantic, Finish(semantic) PROVE answer'.path # "facets"
  BY <1>6, Response DEF Finish
<1> QED
  BY <1>2, <1>3, <1>4, <1>5, <1>6, Responses

\* A value listed among the filter options finds, when it is chosen, at least as many tenders
\* as it is listed with, or, of a sector, at least one (list_filter_options); except for NUTS
\* codes that are stored with punctuation, which the list leaves out and SQL compares.
THEOREM FacetsLead == Spec => []FacetsLeadSomewhere
<1>1. Init => FacetsOk
  BY BaseInit DEF Init, FacetsLeadSomewhere, Answered, FacetsOk
<1>2. FacetsOk /\ [Next]_vars => FacetsOk'
  BY FacetsNext
<1>3. FacetsOk => FacetsLeadSomewhere
  BY DEF FacetsOk
<1> QED
  BY <1>1, <1>2, <1>3, PTL DEF Spec

----------------------------------------------------------------------------
(* What is first stays first *)

\* What comes before all else is returned first.
LEMMA FirstOfOrder ==
  ASSUME NEW S, IsFiniteSet(S), NEW R, NEW o \in Orders(S, R), NEW x \in S, \A y \in S \ {x} : <<x, y>> \in R
  PROVE  Len(o) \in Nat \ {0} /\ o[1] = x
<1>1. /\ Len(o) \in Nat /\ \A k \in 1..Len(o) : o[k] \in S
      /\ \A j, k \in 1..Len(o) : o[j] = o[k] => j = k
      /\ \A j, k \in 1..Len(o) : j < k => <<o[k], o[j]>> \notin R
  BY OrderItems, ElementOfSeq, LenProperties
<1>2. PICK k \in 1..Len(o) : o[k] = x
  BY OrderItems
<1>3. 1 \in 1..Len(o)
  BY <1>1, <1>2
<1>4. CASE k # 1
  <2>1. 1 < k /\ o[1] \in S \ {x}
    BY <1>1, <1>2, <1>3, <1>4
  <2>2. <<o[k], o[1]>> \notin R
    BY <1>1, <1>3, <2>1
  <2> QED
    BY <1>2, <2>1, <2>2
<1> QED
  BY <1>1, <1>2, <1>3, <1>4

\* The first page begins with the first item.
LEMMA FirstOfSlice ==
  ASSUME NEW T, NEW s \in Seq(T), 1 \in 1..Len(s), NEW f, Pageable(f)
  PROVE  f.offset = 0 => 1 \in 1..Len(Slice(s, f)) /\ Slice(s, f)[1] = s[1]
<1> DEFINE m == IF f.limit <= Len(s) THEN f.limit ELSE Len(s)
<1>1. f.offset \in Nat /\ f.limit \in Nat /\ f.limit # 0 /\ Len(s) \in Nat
  BY LenProperties DEF Pageable
<1>2. /\ Len(Slice(s, f)) = Max({0, Min({f.limit, Len(s) - f.offset})})
      /\ \A k \in 1..Len(Slice(s, f)) : f.offset + k \in 1..Len(s) /\ Slice(s, f)[k] = s[f.offset + k]
  <2>1. Slice(s, f) \in Seq(T) /\ Drawn(Slice(s, f), s) /\ Cut(Slice(s, f), s, f)
    BY <1>1, SliceItems
  <2> QED
    BY <2>1 DEF Cut
<1> SUFFICES ASSUME f.offset = 0 PROVE 1 \in 1..Len(Slice(s, f)) /\ Slice(s, f)[1] = s[1]
  OBVIOUS
<1>3. Len(s) - f.offset = Len(s) /\ m \in Nat \ {0}
  BY <1>1
<1>4. Min({f.limit, Len(s)}) = m
  BY <1>1, Minimum
<1> HIDE DEF m
<1>5. Max({0, m}) = m
  BY <1>3, Maximum
<1>6. Len(Slice(s, f)) = m
  BY <1>2, <1>3, <1>4, <1>5
<1>7. 1 \in 1..Len(Slice(s, f)) /\ f.offset + 1 = 1
  BY <1>3, <1>6
<1> QED
  BY <1>2, <1>7

\* A selection that Python has nothing to drop of: the first candidates in the order of the SELECT.
Whole(s, o, f) ==
  /\ s \in Seq(Results) /\ Len(s) = Min({CandidateLimit(f), Len(o)})
  /\ \A k \in 1..Len(s) : k \in 1..Len(o) /\ s[k].id = o[k] /\ s[k].row = rows[o[k]]

LEMMA WholeSelection ==
  ASSUME Ahead <= 0, StoreType, NEW f, Pageable(f), FilterFields(f), Plain(f), NEW s \in Selections(f)
  PROVE  \E o \in Orders(Candidates(f), CandidateOrder(f)) : Whole(s, o, f)
<1>1. PICK o \in Orders(Candidates(f), CandidateOrder(f)) : s = Kept(Listing(Firsts(o, CandidateLimit(f))), f)
  BY Selected
<1> DEFINE t    == Firsts(o, CandidateLimit(f))
           list == Listing(t)
<1>2. o \in Seq(Candidates(f)) /\ CandidateLimit(f) \in Nat
  BY FiniteCandidates, OrderItems, WindowReaches DEF Pageable
<1>3. /\ t \in Seq(Candidates(f)) /\ Len(t) = Min({CandidateLimit(f), Len(o)})
      /\ \A k \in 1..Len(t) : t[k] = o[k]
  BY <1>2, FirstItems
<1>4. \A k \in 1..Len(t) : k \in 1..Len(o)
  BY <1>2, <1>3, LenProperties, Minimum
<1> HIDE DEF t
<1>5. t \in Seq(Ids) /\ \A k \in 1..Len(t) : rows[t[k]] \in TenderRows /\ rows[t[k]] # None /\ SqlMatches(rows[t[k]], f)
  <2>1. \A k \in 1..Len(t) : t[k] \in Candidates(f)
    BY <1>3, ElementOfSeq
  <2>2. Candidates(f) \subseteq Ids
    BY FiniteCandidates
  <2>3. t \in Seq(Ids)
    BY <1>3, <2>2, SeqMonotonic
  <2> QED
    BY <2>1, <2>3, RowsAssumption DEF Candidates, StoreType
<1>6. /\ list \in Seq(Results) /\ Len(list) = Len(t)
      /\ \A k \in 1..Len(t) : list[k].id = t[k] /\ list[k].row = rows[t[k]]
  BY <1>5, ListingItems
<1> HIDE DEF list
<1>7. \A k \in 1..Len(list) : PyMatches(list[k].row, f)
  BY <1>5, <1>6, SelectedIsKept
<1>8. s = list
  BY <1>1, <1>6, <1>7, KeptAll DEF list, t
<1>9. Whole(s, o, f)
  BY <1>3, <1>4, <1>6, <1>8 DEF Whole
<1> QED
  BY <1>9

\* The lexical side asks for the same tenders in the same order as the call.
LEMMA SideMatches ==
  ASSUME NEW f, Filter(f), Clean(f)
  PROVE  LET g == LexicalFilter(f)
         IN  /\ Candidates(g) = Candidates(f) /\ CandidateOrder(g) = CandidateOrder(f) /\ FilterFields(g)
             /\ Plain(f) => Plain(g)
             /\ \A r : PyMatches(r, g) <=> PyMatches(r, f)
<1> DEFINE g == LexicalFilter(f)
<1>1. /\ g.text = f.text /\ g.cpvs = f.cpvs /\ g.prefixes = f.prefixes /\ g.nuts = f.nuts /\ g.regions = f.regions
      /\ g.buyer = f.buyer /\ g.statuses = f.statuses /\ g.sources = f.sources /\ g.exact = f.exact
      /\ g.onlyOpen = f.onlyOpen /\ g.country = f.country /\ g.from = f.from /\ g.to = f.to
      /\ g.least = f.least /\ g.most = f.most
  BY LexicalSide
<1> HIDE DEF g
<1>2. NutsPrefixes(g) = NutsPrefixes(f)
  BY <1>1 DEF NutsPrefixes
<1>3. \A r : SqlMatches(r, g) <=> SqlMatches(r, f)
  BY <1>1, <1>2 DEF SqlMatches, SqlText
<1>4. \A r : PyMatches(r, g) <=> PyMatches(r, f)
  BY <1>1, <1>2 DEF PyMatches, PyText
<1>5. Candidates(g) = Candidates(f)
  BY <1>1, <1>3 DEF Candidates, HasText
<1>6. \A r, q : Ranked(r, q, g) <=> Ranked(r, q, f)
  BY <1>1 DEF Ranked
<1>7. CandidateOrder(g) = CandidateOrder(f)
  BY <1>5, <1>6 DEF CandidateOrder
<1>8. FilterFields(g) /\ (Plain(f) => Plain(g))
  BY <1>1 DEF Clean, FilterFields, Plain
<1> QED
  BY <1>4, <1>5, <1>7, <1>8 DEF g

\* The first candidate is the first result of the lexical side.
LEMMA LexicalFirst ==
  ASSUME Ahead <= 0, StoreType, NEW f, Filter(f), Clean(f), Plain(f), f.text # None, NEW s \in Selections(LexicalFilter(f)),
         NEW x \in Candidates(f), \A y \in Candidates(f) \ {x} : Ranked(rows[x], rows[y], f)
  PROVE  LET results == SearchTenders(s, LexicalFilter(f))
         IN  1 \in 1..Len(results) /\ results[1].id = x
<1> DEFINE g == LexicalFilter(f)
<1>1. /\ Pageable(g) /\ g.limit \in Nat \ {0} /\ g.offset = 0 /\ g.orderBy = "score" /\ g.order = "desc" /\ g.text # None
      /\ Candidates(g) = Candidates(f) /\ CandidateOrder(g) = CandidateOrder(f) /\ FilterFields(g) /\ Plain(g)
      /\ s \in Selections(g)
  BY LexicalSide, SideMatches
<1> HIDE DEF g
<1>2. PICK o \in Orders(Candidates(f), CandidateOrder(f)) : Whole(s, o, g)
  BY <1>1, WholeSelection
<1>3. Len(o) \in Nat \ {0} /\ o[1] = x
  <2>1. \A y \in Candidates(f) \ {x} : <<x, y>> \in CandidateOrder(f)
    BY DEF CandidateOrder
  <2> QED
    BY <2>1, FiniteCandidates, FirstOfOrder
<1>4. CandidateLimit(g) \in Nat \ {0}
  BY <1>1, WindowReaches
<1>5. s \in Seq(Results) /\ Len(s) \in Nat \ {0} /\ s[1].id = x
  <2>1. s \in Seq(Results) /\ Len(s) = Min({CandidateLimit(g), Len(o)})
    BY <1>2 DEF Whole
  <2>2. Len(s) \in Nat \ {0}
    BY <1>3, <1>4, <2>1, Minimum
  <2>3. 1 \in 1..Len(s)
    BY <2>2
  <2> QED
    BY <1>2, <1>3, <2>1, <2>2, <2>3 DEF Whole
<1>6. SearchTenders(s, g) = Slice(s, g)
  BY <1>1, <1>5, SlicedResults DEF SearchTenders
<1>7. 1 \in 1..Len(Slice(s, g)) /\ Slice(s, g)[1] = s[1]
  <2>1. 1 \in 1..Len(s)
    BY <1>5
  <2> QED
    BY <1>1, <1>5, <2>1, FirstOfSlice
<1> QED
  BY <1>5, <1>6, <1>7 DEF g

\* The nearest tender is the first result of the semantic side.
LEMMA SemanticFirst ==
  ASSUME NEW semantic \in Seq(Results), NEW f, Closest(semantic, f),
         NEW x \in Embedded(f), \A y \in Embedded(f) \ {x} : Nearer(x, y, f)
  PROVE  1 \in 1..Len(semantic) /\ semantic[1].id = x
<1>1. Len(semantic) \in Nat \ {0}
  BY LenProperties DEF Closest
<1>2. 1 \in 1..Len(semantic)
  BY <1>1
<1>3. semantic[1].id \in Embedded(f)
  BY <1>2 DEF Closest
<1>4. ASSUME semantic[1].id # x PROVE FALSE
  <2>1. Nearer(x, semantic[1].id, f)
    BY <1>3, <1>4
  <2>2. \E m \in 1..Len(semantic) : m < 1
    BY <1>2, <2>1 DEF Closest
  <2> QED
    BY <2>2
<1> QED
  BY <1>2, <1>4

LEMMA ProductIsNat == \A a, b \in Nat : a * b \in Nat
BY Z3

\* 1/p and 1/p + 1/q are at most 2/m where p and q are at least m.
LEMMA SumsAreLess ==
  \A m, p, q \in Nat \ {0} :
    /\ p >= m => 1 * (m * m) <= (m + m) * p
    /\ p >= m /\ q >= m => (p + q) * (m * m) <= (m + m) * (p * q)
<1> SUFFICES ASSUME NEW m \in Nat \ {0}, NEW p \in Nat \ {0}, NEW q \in Nat \ {0}, p >= m
             PROVE  /\ 1 * (m * m) <= (m + m) * p
                    /\ q >= m => (p + q) * (m * m) <= (m + m) * (p * q)
  OBVIOUS
<1>1. m * m <= m * p /\ m * p \in Nat /\ m * m \in Nat
  BY Z3
<1>2. (m + m) * p = m * p + m * p
  BY Z3
<1>3. ASSUME q >= m PROVE (p + q) * (m * m) <= (m + m) * (p * q)
  <2>1. p * m <= p * q /\ q * m <= p * q /\ p * m \in Nat /\ q * m \in Nat /\ p * q \in Nat
    BY <1>3, Z3
  <2> DEFINE a == p * m + q * m
             b == p * q + p * q
  <2>2. a <= b /\ a \in Nat /\ b \in Nat
    BY <2>1
  <2>3. (p + q) * (m * m) = a * m
    BY Z3
  <2>4. (m + m) * (p * q) = b * m
    BY Z3
  <2> HIDE DEF a, b
  <2>5. a * m <= b * m
    BY <2>2, Z3
  <2> QED
    BY <2>3, <2>4, <2>5
<1> QED
  BY <1>1, <1>2, <1>3

\* A tender that is first on both sides comes first when they are fused.
LEMMA FirstStaysFirst ==
  ASSUME NEW lexical \in Seq(Results), NEW semantic \in Seq(Results), Distinct(lexical), Distinct(semantic),
         1 \in 1..Len(lexical), 1 \in 1..Len(semantic), lexical[1].id = semantic[1].id
  PROVE  1 \in 1..Len(Fuse(lexical, semantic)) /\ Fuse(lexical, semantic)[1] = lexical[1]
<1> DEFINE all   == Joined(lexical, semantic)
           fused == Fuse(lexical, semantic)
           n     == Len(all)
           R     == SumOrder(all, lexical, semantic)
           ranks == Ranking(1..Len(all), R)
           i     == lexical[1].id
           m     == RrfK + 1
           sum(k) == Fusion(all[k].id, lexical, semantic)
<1>1. /\ all \in Seq(Results) /\ Members(all) = Members(lexical) \cup Members(semantic)
      /\ Len(all) >= Len(lexical) /\ all[1] = lexical[1]
  BY JoinedItems
<1>2. fused = FusedOrder(all, lexical, semantic)
  BY DEF Fuse, Joined
<1>3. Len(lexical) \in Nat /\ Len(semantic) \in Nat /\ RrfK \in Nat /\ m \in Nat \ {0}
  BY LenProperties, WindowAssumption
<1> HIDE DEF all, fused
<1>4. /\ Len(fused) = n /\ ranks \in [1..n -> 1..n]
      /\ \A k \in 1..n : fused[k] = all[ranks[k]]
      /\ \A j, k \in 1..n : j < k => <<ranks[j], ranks[k]>> \in R
      /\ \A p \in 1..n : \E k \in 1..n : ranks[k] = p
  <2>1. Members(all) \subseteq Members(lexical) \cup Members(semantic)
    BY <1>1
  <2>2. /\ FusedOrder(all, lexical, semantic) \in Seq(Results) /\ Drawn(FusedOrder(all, lexical, semantic), all)
        /\ Merged(FusedOrder(all, lexical, semantic), ranks, all, SumOrder(all, lexical, semantic))
    BY <1>1, <2>1, FusedItems
  <2> HIDE DEF ranks
  <2> QED
    BY <1>2, <2>2 DEF Merged
<1> HIDE DEF ranks, R
<1>5. n \in Nat /\ 1 \in 1..n
  BY <1>1, <1>3, LenProperties
<1>6. sum(1).num = m + m /\ sum(1).den = m * m
  <2>1. i \in Members(lexical) \cap Members(semantic)
    BY DEF Members
  <2>2. Position(lexical, i) = 1 /\ Position(semantic, i) = 1
    <3>1. Position(lexical, i) \in 1..Len(lexical) /\ lexical[Position(lexical, i)].id = i
      BY <1>3, <2>1, PositionItems
    <3>2. Position(semantic, i) \in 1..Len(semantic) /\ semantic[Position(semantic, i)].id = i
      BY <1>3, <2>1, PositionItems
    <3> QED
      BY <3>1, <3>2 DEF Distinct
  <2> QED
    BY <1>1, <2>1, <2>2 DEF Fusion
<1>7. ASSUME NEW k \in 1..n
      PROVE  /\ sum(k).num \in Nat /\ sum(k).den \in Nat
             /\ sum(k).num * (m * m) <= (m + m) * sum(k).den
  <2> DEFINE id == all[k].id
             p  == RrfK + Position(lexical, id)
             q  == RrfK + Position(semantic, id)
  <2>1. id \in Members(lexical) \cup Members(semantic)
    <3>1. id \in Members(all)
      BY DEF Members
    <3> QED
      BY <1>1, <3>1
  <2>2. id \in Members(lexical) => p \in Nat \ {0} /\ p >= m
    <3>1. id \in Members(lexical) => Position(lexical, id) \in 1..Len(lexical)
      BY <1>3, PositionItems
    <3> QED
      BY <1>3, <3>1
  <2>3. id \in Members(semantic) => q \in Nat \ {0} /\ q >= m
    <3>1. id \in Members(semantic) => Position(semantic, id) \in 1..Len(semantic)
      BY <1>3, PositionItems
    <3> QED
      BY <1>3, <3>1
  <2>4. sum(k) = IF id \in Members(lexical) \cap Members(semantic) THEN [num |-> p + q, den |-> p * q]
                 ELSE [num |-> 1, den |-> IF id \in Members(lexical) THEN p ELSE q]
    BY DEF Fusion
  <2>5. sum(k).num \in Nat /\ sum(k).den \in Nat
    BY <2>1, FusionType
  <2> HIDE DEF p, q, id, m
  <2>6. CASE id \in Members(lexical) \cap Members(semantic)
    <3>1. (p + q) * (m * m) <= (m + m) * (p * q)
      BY <1>3, <2>2, <2>3, <2>6, SumsAreLess
    <3>2. sum(k).num = p + q /\ sum(k).den = p * q
      BY <2>4, <2>6
    <3> QED
      BY <2>5, <3>1, <3>2
  <2>7. CASE id \notin Members(lexical) \cap Members(semantic) /\ id \in Members(lexical)
    <3>1. 1 * (m * m) <= (m + m) * p
      BY <1>3, <2>2, <2>7, SumsAreLess
    <3>2. sum(k).num = 1 /\ sum(k).den = p
      BY <2>4, <2>7
    <3> QED
      BY <2>5, <3>1, <3>2
  <2>8. CASE id \notin Members(lexical) /\ id \in Members(semantic)
    <3>1. 1 * (m * m) <= (m + m) * q
      BY <1>3, <2>3, <2>8, SumsAreLess
    <3>2. sum(k).num = 1 /\ sum(k).den = q
      BY <2>4, <2>8
    <3> QED
      BY <2>5, <3>1, <3>2
  <2> QED
    BY <2>1, <2>6, <2>7, <2>8
<1> HIDE DEF m
<1>8. ASSUME NEW k \in 1..n PROVE <<k, 1>> \notin R
  <2>1. /\ Nums(all, lexical, semantic)[k] = sum(k).num /\ Nums(all, lexical, semantic)[1] = sum(1).num
        /\ Dens(all, lexical, semantic)[k] = sum(k).den /\ Dens(all, lexical, semantic)[1] = sum(1).den
    BY <1>5 DEF Nums, Dens
  <2>2. <<k, 1>> \in R => \/ sum(k).num * sum(1).den > sum(1).num * sum(k).den
                          \/ k < 1
    BY <2>1 DEF R, SumOrder, Above
  <2> HIDE DEF sum
  <2>3. sum(k).num * (m * m) \in Nat /\ (m + m) * sum(k).den \in Nat
    <3>1. m \in Nat /\ m + m \in Nat /\ sum(k).num \in Nat /\ sum(k).den \in Nat
      BY <1>3, <1>7
    <3> QED
      BY <3>1, ProductIsNat
  <2>4. ~(sum(k).num * sum(1).den > sum(1).num * sum(k).den)
    <3>1. sum(k).num * sum(1).den = sum(k).num * (m * m) /\ sum(1).num * sum(k).den = (m + m) * sum(k).den
      BY <1>6
    <3> QED
      BY <1>7, <2>3, <3>1
  <2> QED
    BY <1>5, <2>2, <2>4
<1> HIDE DEF n
<1>9. PICK k \in 1..n : ranks[k] = 1
  BY <1>4, <1>5
<1>10. k = 1
  <2>1. ranks[1] \in 1..n
    BY <1>4, <1>5
  <2>2. ~(1 < k)
    BY <1>4, <1>5, <1>8, <1>9, <2>1
  <2> QED
    BY <1>5, <2>2
<1>11. fused[1] = all[1]
  <2>1. \A j \in 1..n : fused[j] = all[ranks[j]]
    BY <1>4
  <2> QED
    BY <1>5, <1>9, <1>10, <2>1
<1> QED
  BY <1>1, <1>4, <1>5, <1>11 DEF fused

----------------------------------------------------------------------------
(* Hybrid searches *)

\* x comes first for both sides.
FirstOnBoth(x, f) ==
  /\ x \in Candidates(f) /\ \A y \in Candidates(f) \ {x} : Ranked(rows[x], rows[y], f)
  /\ x \in Embedded(f) /\ \A y \in Embedded(f) \ {x} : Nearer(x, y, f)

\* The two sides of a hybrid search that no write came between.
LEMMA SteadySides ==
  ASSUME Ahead <= 0, BaseInv, SteadyInv, NEW semantic, Located(semantic), filters.mode = "hybrid", seen \in {None, writes},
         Plain(filters)
  PROVE  /\ \A k \in 1..Len(got.lexical) : /\ got.lexical[k].id \in Candidates(filters)
                                           /\ PyMatches(got.lexical[k].row, filters)
         /\ \A k \in 1..Len(semantic) : semantic[k].id \in Embedded(filters) /\ PyMatches(semantic[k].row, filters)
         /\ \A x : FirstOnBoth(x, filters) => /\ 1 \in 1..Len(got.lexical) /\ got.lexical[1].id = x
                                              /\ 1 \in 1..Len(semantic) /\ semantic[1].id = x
<1> DEFINE f == filters
<1>1. /\ Filter(f) /\ Clean(f) /\ StoreType /\ pc \in {"nearest", "records"} /\ f.text # None
      /\ f.limit \in Nat \ {0} /\ f.offset \in Nat
  BY LocatedItems, AtStage DEF Staged, BaseInv, StoreInv
<1>2. seen = writes
  BY <1>1, NoneAssumption DEF BaseInv, SeenInv
<1>3. PICK s \in Selections(LexicalFilter(f)) : got.lexical = SearchTenders(s, LexicalFilter(f))
  BY <1>1, <1>2 DEF SteadyInv, ReadInv
<1>4. Closest(semantic, f) /\ semantic \in Seq(Results)
  BY SteadyItems, LocatedItems
<1>5. \A k \in 1..Len(semantic) : PyMatches(semantic[k].row, f)
  BY SemanticFits
<1>6. Plain(f)
  OBVIOUS
<1> HIDE DEF f
<1> DEFINE g == LexicalFilter(f)
<1>7. Pageable(g) /\ Candidates(g) = Candidates(f) /\ \A r : PyMatches(r, g) <=> PyMatches(r, f)
  BY <1>1, LexicalSide, SideMatches
<1> HIDE DEF g
<1>8. \A k \in 1..Len(got.lexical) : got.lexical[k].id \in Candidates(f) /\ PyMatches(got.lexical[k].row, f)
  <2> DEFINE results == SearchTenders(s, g)
  <2>1. /\ results \in Seq(Results) /\ Distinct(results)
        /\ \A k \in 1..Len(results) : /\ results[k].id \in Candidates(g) /\ results[k].row = rows[results[k].id]
                                      /\ PyMatches(results[k].row, g)
    BY <1>1, <1>3, <1>7, LexicalItems DEF g
  <2>2. got.lexical = results
    BY <1>3 DEF g
  <2> HIDE DEF results
  <2> QED
    BY <1>7, <2>1, <2>2
<1>9. \A k \in 1..Len(semantic) : semantic[k].id \in Embedded(f)
  BY <1>4 DEF Closest
<1>10. ASSUME NEW x, FirstOnBoth(x, f)
       PROVE  /\ 1 \in 1..Len(got.lexical) /\ got.lexical[1].id = x
              /\ 1 \in 1..Len(semantic) /\ semantic[1].id = x
  <2>1. /\ x \in Candidates(f) /\ \A y \in Candidates(f) \ {x} : Ranked(rows[x], rows[y], f)
        /\ x \in Embedded(f) /\ \A y \in Embedded(f) \ {x} : Nearer(x, y, f)
    BY <1>10 DEF FirstOnBoth
  <2>2. 1 \in 1..Len(SearchTenders(s, LexicalFilter(f))) /\ SearchTenders(s, LexicalFilter(f))[1].id = x
    BY <1>1, <1>6, <2>1, LexicalFirst
  <2>3. 1 \in 1..Len(semantic) /\ semantic[1].id = x
    BY <1>4, <2>1, SemanticFirst
  <2> QED
    BY <1>3, <2>2, <2>3
<1> QED
  BY <1>5, <1>8, <1>9, <1>10 DEF f

\* What is right about the results of a hybrid search.
FusedWell(results, f) ==
  /\ Distinct(results) /\ Members(results) \subseteq Candidates(f) \cup Embedded(f)
  /\ f.orderBy = "score" /\ f.order = "desc" /\ f.offset = 0 =>
       \A x : FirstOnBoth(x, f) => 1 \in 1..Len(results) /\ results[1].id = x

LEMMA HybridFuses ==
  ASSUME Ahead <= 0, BaseInv, SteadyInv, NEW semantic, Located(semantic), filters.mode = "hybrid", seen \in {None, writes},
         Plain(filters)
  PROVE  FusedWell(HybridResults(Fuse(got.lexical, semantic), filters), filters)
<1> DEFINE f       == filters
           lexical == got.lexical
           fused   == Fuse(lexical, semantic)
           results == HybridResults(fused, f)
<1>1. /\ lexical \in Seq(Results) /\ Distinct(lexical) /\ semantic \in Seq(Results) /\ Distinct(semantic)
  BY LocatedItems DEF BaseInv, SeenInv
<1>2. /\ fused \in Seq(Results) /\ Distinct(fused) /\ Pageable(f)
      /\ \A k \in 1..Len(fused) : \/ \E j \in 1..Len(lexical) : fused[k] = lexical[j]
                                  \/ \E j \in 1..Len(semantic) : fused[k] = semantic[j]
      /\ Drawn(results, Kept(fused, f))
  BY HybridItems
<1>3. /\ \A k \in 1..Len(lexical) : lexical[k].id \in Candidates(f) /\ PyMatches(lexical[k].row, f)
      /\ \A k \in 1..Len(semantic) : semantic[k].id \in Embedded(f) /\ PyMatches(semantic[k].row, f)
      /\ \A x : FirstOnBoth(x, f) => /\ 1 \in 1..Len(lexical) /\ lexical[1].id = x
                                     /\ 1 \in 1..Len(semantic) /\ semantic[1].id = x
  BY SteadySides
<1> HIDE DEF f, lexical, fused
<1>4. \A k \in 1..Len(fused) : fused[k].id \in Candidates(f) \cup Embedded(f) /\ PyMatches(fused[k].row, f)
  BY <1>2, <1>3
<1>5. Kept(fused, f) = fused
  BY <1>2, <1>4, KeptAll
<1>6. results = SliceRetrieval(fused, f)
  BY <1>5 DEF HybridResults
<1> HIDE DEF results
<1>7. Distinct(results)
  BY <1>2, <1>5, DrawnDistinct
<1>8. Members(results) \subseteq Candidates(f) \cup Embedded(f)
  <2>1. PICK places \in [1..Len(results) -> 1..Len(fused)] : \A k \in 1..Len(results) : results[k] = fused[places[k]]
    BY <1>2, <1>5 DEF Drawn
  <2> QED
    BY <1>4, <2>1 DEF Members
<1>9. ASSUME f.orderBy = "score", f.order = "desc", f.offset = 0, NEW x, FirstOnBoth(x, f)
      PROVE  1 \in 1..Len(results) /\ results[1].id = x
  <2>1. /\ 1 \in 1..Len(lexical) /\ lexical[1].id = x
        /\ 1 \in 1..Len(semantic) /\ semantic[1].id = x
    BY <1>3, <1>9
  <2>2. 1 \in 1..Len(fused) /\ fused[1] = lexical[1]
    <3>1. 1 \in 1..Len(Fuse(lexical, semantic)) /\ Fuse(lexical, semantic)[1] = lexical[1]
      BY <1>1, <2>1, FirstStaysFirst
    <3> QED
      BY <3>1 DEF fused
  <2>3. results = Slice(fused, f)
    BY <1>2, <1>6, <1>9, SlicedResults
  <2>4. 1 \in 1..Len(Slice(fused, f)) /\ Slice(fused, f)[1] = fused[1]
    BY <1>2, <1>9, <2>2, FirstOfSlice DEF Pageable
  <2> QED
    BY <2>1, <2>2, <2>3, <2>4
<1> QED
  BY <1>7, <1>8, <1>9 DEF FusedWell, results, fused, lexical, f

LEMMA FinishFuses ==
  ASSUME Ahead <= 0, BaseInv, SteadyInv, NEW semantic, Located(semantic), Finish(semantic)
  PROVE  HybridIsFused'
<1> DEFINE results == HybridResults(Fuse(got.lexical, semantic), filters)
<1>1. CASE Answer("none", Slice(semantic, filters), None, "semantic")
  <2>1. answer'.path = "semantic"
    BY <1>1, Response
  <2> QED
    BY <2>1 DEF HybridIsFused
<1>2. CASE filters.mode = "hybrid" /\ Answer("none", results, None, "hybrid")
  <2>1. /\ answer'.results = results /\ answer'.call.f = filters /\ answer'.steady = (seen \in {None, writes})
        /\ answer'.rows = rows /\ answer'.vectors = vectors /\ answer'.call = call
    BY <1>2, Response
  <2>2. Matching(answer') = Candidates(filters) /\ Vectors(answer') = Embedded(filters)
    BY <2>1, Selectable
  <2> SUFFICES ASSUME answer'.steady, Plain(filters)
               PROVE  LET f == filters
                          first(S, before(_, _)) == {i \in S : \A j \in S \ {i} : before(i, j)}
                          ranked(i, j)  == Ranked(answer'.rows[i], answer'.rows[j], f)
                          distance(i, j) == SemanticBefore(answer', i, j)
                          both == first(Matching(answer'), ranked) \cap first(Vectors(answer'), distance)
                      IN  /\ \A j, k \in 1..Len(results) : j # k => results[j].id # results[k].id
                          /\ Members(results) \subseteq Matching(answer') \cup Vectors(answer')
                          /\ both # {} /\ f.orderBy = "score" /\ f.order = "desc" /\ f.offset = 0 =>
                               Len(results) > 0 /\ results[1].id \in both
    BY <2>1 DEF HybridIsFused
  <2>3. FusedWell(results, filters)
    BY <1>2, <2>1, HybridFuses
  <2> HIDE DEF results
  <2>4. \A i, j : SemanticBefore(answer', i, j) <=> Nearer(i, j, filters)
    BY <2>1 DEF SemanticBefore, Nearer, Far
  <2>5. \A j, k \in 1..Len(results) : j # k => results[j].id # results[k].id
    BY <2>3 DEF FusedWell, Distinct
  <2>6. \A x : /\ x \in Matching(answer') /\ \A y \in Matching(answer') \ {x} : Ranked(answer'.rows[x], answer'.rows[y], filters)
               /\ x \in Vectors(answer') /\ \A y \in Vectors(answer') \ {x} : SemanticBefore(answer', x, y)
               => FirstOnBoth(x, filters)
    BY <2>1, <2>2, <2>4 DEF FirstOnBoth
  <2>7. Len(results) \in Nat
    BY HybridItems, LenProperties DEF results
  <2> QED
    BY <2>2, <2>3, <2>5, <2>6, <2>7 DEF FusedWell
<1> QED
  BY <1>1, <1>2 DEF Finish

HybridOk == BaseInv /\ SteadyInv /\ HybridIsFused

LEMMA HybridNext ==
  ASSUME Ahead <= 0, HybridOk, [Next]_vars
  PROVE  HybridOk'
<1>1. BaseInv' /\ SteadyInv'
  BY BaseNext, SteadyNext DEF HybridOk
<1> SUFFICES HybridIsFused'
  BY <1>1 DEF HybridOk
<1>2. CASE ~Answered' \/ answer'.path # "hybrid"
  BY <1>2 DEF HybridIsFused
<1>3. CASE answer' = answer
  BY <1>3 DEF HybridOk, HybridIsFused, Answered
<1>4. CASE ReadLexical \/ ReadRecent \/ ReadFacets
  BY <1>2, <1>4, Response DEF ReadLexical, ReadRecent, ReadFacets
<1>5. ASSUME NEW semantic, Located(semantic), Finish(semantic) PROVE HybridIsFused'
  BY <1>5, FinishFuses DEF HybridOk
<1> QED
  BY <1>2, <1>3, <1>4, <1>5, Responses

\* A hybrid search that no write comes between returns what one of its sides found, no tender
\* twice, and a tender that is first on both sides first.
THEOREM HybridsAreFused ==
  ASSUME Ahead <= 0
  PROVE  Spec => []HybridIsFused
<1>1. Init => HybridOk
  BY BaseInit, SteadyInit DEF Init, HybridIsFused, Answered, HybridOk
<1>2. HybridOk /\ [Next]_vars => HybridOk'
  BY HybridNext
<1>3. HybridOk => HybridIsFused
  BY DEF HybridOk
<1> QED
  BY <1>1, <1>2, <1>3, PTL DEF Spec

----------------------------------------------------------------------------
(* Pages are slices *)

\* A list of all members of a set, each once, none after one that it has to come before.
Arranged(o, S, R) ==
  /\ o \in [1..Cardinality(S) -> S] /\ Cardinality(S) \in Nat
  /\ \A j, k \in 1..Cardinality(S) : o[j] = o[k] => j = k
  /\ \A x \in S : \E k \in 1..Cardinality(S) : o[k] = x
  /\ \A j, k \in 1..Cardinality(S) : j < k => <<o[k], o[j]>> \notin R

\* A relation that leaves nothing open.
Decides(S, R) ==
  /\ \A x \in S : <<x, x>> \notin R
  /\ \A x, y \in S : x # y => <<x, y>> \in R \/ <<y, x>> \in R

LEMMA OrderArranges ==
  ASSUME NEW S, IsFiniteSet(S), NEW R, NEW o \in Orders(S, R)
  PROVE  Arranged(o, S, R) /\ Len(o) = Cardinality(S)
<1>1. /\ o \in Seq(S) /\ Len(o) = Cardinality(S) /\ Cardinality(S) \in Nat
      /\ \A j, k \in 1..Len(o) : o[j] = o[k] => j = k
      /\ \A x \in S : \E k \in 1..Len(o) : o[k] = x
      /\ \A j, k \in 1..Len(o) : j < k => <<o[k], o[j]>> \notin R
  BY OrderItems
<1>2. o \in [1..Len(o) -> S]
  BY <1>1, LenProperties
<1> QED
  BY <1>1, <1>2 DEF Arranged

\* The members that come before x.
Preceding(S, R, x) == {y \in S : <<y, x>> \in R}

\* As many come before an item of the list as its place says.
LEMMA PlaceInOrder ==
  ASSUME NEW S, NEW R, Decides(S, R), NEW o, Arranged(o, S, R), NEW k \in 1..Cardinality(S)
  PROVE  Cardinality(Preceding(S, R, o[k])) = k - 1
<1> DEFINE n     == Cardinality(S)
           below == Preceding(S, R, o[k])
           b     == [j \in 1..(k - 1) |-> o[j]]
<1>1. /\ o \in [1..n -> S] /\ n \in Nat
      /\ \A i, j \in 1..n : o[i] = o[j] => i = j
      /\ \A x \in S : \E j \in 1..n : o[j] = x
      /\ \A i, j \in 1..n : i < j => <<o[j], o[i]>> \notin R
  BY DEF Arranged
<1>2. k - 1 \in Nat /\ \A j \in 1..(k - 1) : j \in 1..n /\ j < k
  BY <1>1
<1>3. ASSUME NEW j \in 1..(k - 1) PROVE o[j] \in below
  <2>1. j \in 1..n /\ k \in 1..n /\ j < k
    BY <1>2
  <2>2. o[j] \in S /\ o[k] \in S /\ o[j] # o[k] /\ <<o[k], o[j]>> \notin R
    BY <1>1, <2>1
  <2>3. <<o[j], o[k]>> \in R
    BY <2>2 DEF Decides
  <2> QED
    BY <2>2, <2>3 DEF Preceding
<1>4. ASSUME NEW y \in below PROVE \E j \in 1..(k - 1) : o[j] = y
  <2>1. y \in S /\ <<y, o[k]>> \in R /\ \E j \in 1..n : o[j] = y
    BY <1>1, <1>4 DEF Preceding
  <2> PICK j \in 1..n : o[j] = y
    BY <2>1
  <2>2. ~(k < j)
    BY <1>1, <2>1
  <2>3. k # j
    <3>1. <<o[k], o[k]>> \notin R
      BY <1>1 DEF Decides
    <3> QED
      BY <2>1, <3>1
  <2>4. j \in 1..(k - 1)
    BY <1>1, <2>2, <2>3
  <2> QED
    BY <2>1, <2>4
<1> HIDE DEF below, n
<1>5. b \in [1..(k - 1) -> below] /\ \A j \in 1..(k - 1) : b[j] = o[j]
  BY <1>3
<1>6. b \in Injection(1..(k - 1), below)
  <2>1. \A i, j \in 1..(k - 1) : b[i] = b[j] => i = j
    BY <1>1, <1>2, <1>5
  <2> HIDE DEF b
  <2> QED
    BY <1>5, <2>1, Fun_IsInj
<1>7. b \in Surjection(1..(k - 1), below)
  <2>1. \A y \in below : \E j \in 1..(k - 1) : b[j] = y
    BY <1>4, <1>5
  <2> HIDE DEF b
  <2> QED
    BY <1>5, <2>1, Fun_IsSurj
<1>8. IsFiniteSet(1..(k - 1)) /\ Cardinality(1..(k - 1)) = k - 1
  BY <1>2, Places
<1>9. Cardinality(below) = Cardinality(1..(k - 1))
  BY <1>6, <1>7, <1>8, FS_Surjection
<1> QED
  BY <1>8, <1>9 DEF below

\* The page of an order that a filter asks for.
Page(results, S, R, f) ==
  /\ Len(results) = Max({0, Min({f.limit, Cardinality(S) - f.offset})})
  /\ \A k \in 1..Len(results) :
       results[k].id \in S /\ Cardinality(Preceding(S, R, results[k].id)) = f.offset + k - 1

\* What is cut from a window that reaches as far as the page is the page.
LEMMA WindowPage ==
  ASSUME NEW S, NEW R, Decides(S, R), NEW o, Arranged(o, S, R), NEW s \in Seq(Results), NEW w \in Nat,
         Len(s) = Min({w, Cardinality(S)}), \A k \in 1..Len(s) : s[k].id = o[k],
         NEW f, Pageable(f), f.offset + f.limit <= w \/ Cardinality(S) <= w
  PROVE  Page(Slice(s, f), S, R, f)
<1> DEFINE n == Cardinality(S)
           results == Slice(s, f)
<1>1. /\ f.offset \in Nat /\ f.limit \in Nat /\ n \in Nat /\ Len(s) \in Nat
  BY LenProperties DEF Pageable, Arranged
<1>2. /\ Len(results) = Max({0, Min({f.limit, Len(s) - f.offset})})
      /\ \A k \in 1..Len(results) : f.offset + k \in 1..Len(s) /\ results[k] = s[f.offset + k]
  <2>1. Slice(s, f) \in Seq(Results) /\ Drawn(Slice(s, f), s) /\ Cut(Slice(s, f), s, f)
    BY <1>1, SliceItems
  <2> QED
    BY <2>1 DEF Cut
<1>3. Len(s) = IF w <= n THEN w ELSE n
  BY <1>1, Minimum
<1>4. Len(results) = Max({0, Min({f.limit, n - f.offset})})
  <2> DEFINE a == IF f.limit <= Len(s) - f.offset THEN f.limit ELSE Len(s) - f.offset
             b == IF f.limit <= n - f.offset THEN f.limit ELSE n - f.offset
  <2>1. Min({f.limit, Len(s) - f.offset}) = a
    <3>1. f.limit \in Int /\ Len(s) - f.offset \in Int
      BY <1>1
    <3> QED
      BY <3>1, Minimum
  <2>2. Min({f.limit, n - f.offset}) = b
    <3>1. f.limit \in Int /\ n - f.offset \in Int
      BY <1>1
    <3> HIDE DEF n
    <3> QED
      BY <3>1, Minimum
  <2>3. f.offset + f.limit <= w \/ n <= w
    OBVIOUS
  <2> HIDE DEF n
  <2>4. a \in Int /\ b \in Int /\ a = b
    BY <1>1, <1>3, <2>3
  <2> HIDE DEF a, b, results
  <2> QED
    BY <1>2, <2>1, <2>2, <2>4
<1>5. ASSUME NEW k \in 1..Len(results)
      PROVE  results[k].id \in S /\ Cardinality(Preceding(S, R, results[k].id)) = f.offset + k - 1
  <2>1. f.offset + k \in 1..Len(s) /\ results[k].id = o[f.offset + k]
    BY <1>2
  <2>2. f.offset + k \in 1..n
    BY <1>1, <1>3, <2>1
  <2>3. PICK place \in 1..Cardinality(S) : place = f.offset + k
    BY <2>2
  <2>4. Cardinality(Preceding(S, R, o[place])) = place - 1
    BY PlaceInOrder
  <2>5. o[place] \in S
    BY DEF Arranged
  <2>6. results[k].id = o[place] /\ place - 1 = f.offset + k - 1
    BY <1>1, <2>1, <2>3
  <2> QED
    BY <2>4, <2>5, <2>6
<1> QED
  BY <1>4, <1>5 DEF Page

\* The ways to arrange n items.
Shuffles(n) ==
  {p \in [1..n -> 1..n] : /\ \A j, k \in 1..n : p[j] = p[k] => j = k
                          /\ \A q \in 1..n : \E k \in 1..n : p[k] = q}

\* A list put in another order.
LEMMA Rearranged ==
  ASSUME NEW S, NEW R, NEW q, Arranged(q, S, R), NEW p \in Shuffles(Cardinality(S)), NEW P,
         \A j, k \in 1..Cardinality(S) : j < k => <<q[p[k]], q[p[j]]>> \notin P
  PROVE  Arranged([k \in 1..Cardinality(S) |-> q[p[k]]], S, P)
<1> DEFINE n == Cardinality(S)
           o == [k \in 1..n |-> q[p[k]]]
<1>1. /\ q \in [1..n -> S] /\ n \in Nat
      /\ \A i, j \in 1..n : q[i] = q[j] => i = j
      /\ \A x \in S : \E j \in 1..n : q[j] = x
  BY DEF Arranged
<1>2. /\ p \in [1..n -> 1..n]
      /\ \A j, k \in 1..n : p[j] = p[k] => j = k
      /\ \A i \in 1..n : \E k \in 1..n : p[k] = i
  BY DEF Shuffles
<1>3. \A j, k \in 1..n : j < k => <<q[p[k]], q[p[j]]>> \notin P
  OBVIOUS
<1> HIDE DEF n
<1>4. o \in [1..n -> S] /\ \A k \in 1..n : o[k] = q[p[k]]
  BY <1>1, <1>2
<1> HIDE DEF o
<1>5. \A j, k \in 1..n : o[j] = o[k] => j = k
  BY <1>1, <1>2, <1>4
<1>6. ASSUME NEW x \in S PROVE \E k \in 1..n : o[k] = x
  <2>1. PICK i \in 1..n : q[i] = x
    BY <1>1
  <2>2. PICK k \in 1..n : p[k] = i
    BY <1>2
  <2> QED
    BY <1>4, <2>1, <2>2
<1>7. \A j, k \in 1..n : j < k => <<o[k], o[j]>> \notin P
  BY <1>3, <1>4
<1> QED
  BY <1>1, <1>4, <1>5, <1>6, <1>7 DEF Arranged, o, n

\* The order a client asks for.
LexicalOrder(f) ==
  {p \in Candidates(f) \X Candidates(f) : LexicalBefore([rows |-> rows, call |-> [f |-> f]], p[1], p[2])}

\* What a tender is sorted by, if it is sorted.
Key(i, f) == IF f.orderBy = "score" THEN Score(rows[i], f, Now) ELSE Attribute(rows[i], f)

KeyBefore(i, j, f) == IF f.order = "desc" THEN Key(i, f) > Key(j, f) ELSE Key(i, f) < Key(j, f)

\* Whether the results of the SELECT are sorted again.
Resorted(f) == f.text = None \/ f.orderBy # "score"

LEMMA LexicalOrders ==
  ASSUME NEW f
  PROVE  /\ Resorted(f) =>
              \A i, j \in Candidates(f) : <<i, j>> \in LexicalOrder(f) <=> KeyBefore(i, j, f)
         /\ ~Resorted(f) =>
              \A i, j \in Candidates(f) :
                <<i, j>> \in LexicalOrder(f) <=> IF f.order = "desc" THEN <<i, j>> \in CandidateOrder(f)
                                                 ELSE <<j, i>> \in CandidateOrder(f)
<1>1. \A i, j \in Candidates(f) :
        <<i, j>> \in LexicalOrder(f) <=> LexicalBefore([rows |-> rows, call |-> [f |-> f]], i, j)
  BY DEF LexicalOrder
<1>2. ASSUME Resorted(f), NEW i, NEW j
      PROVE  LexicalBefore([rows |-> rows, call |-> [f |-> f]], i, j) <=> KeyBefore(i, j, f)
  BY <1>2 DEF LexicalBefore, KeyBefore, Key, Resorted
<1>3. ASSUME ~Resorted(f), NEW i, NEW j
      PROVE  LexicalBefore([rows |-> rows, call |-> [f |-> f]], i, j)
               <=> IF f.order = "desc" THEN Ranked(rows[i], rows[j], f) ELSE Ranked(rows[j], rows[i], f)
  BY <1>3 DEF LexicalBefore, Resorted
<1>4. \A i, j \in Candidates(f) : <<i, j>> \in CandidateOrder(f) <=> Ranked(rows[i], rows[j], f)
  BY DEF CandidateOrder
<1> QED
  BY <1>1, <1>2, <1>3, <1>4

LEMMA CandidateKeys ==
  ASSUME StoreType, NEW f, Filter(f), NEW i \in Candidates(f)
  PROVE  /\ rows[i] \in TenderRows /\ rows[i] \in Rows /\ Key(i, f) \in Int
         /\ OrNothing(rows[i].at["published"]) \in Int
         /\ f.text # None => Relevance[f.text][rows[i]] \in Int
<1>1. rows[i] \in Rows /\ rows[i] \in TenderRows
  BY RowsAssumption DEF StoreType, Candidates
<1>2. f.orderBy \in {"score", "value"} \cup DateFields /\ f.text \in DOMAIN Finds \cup {None}
  BY DEF Filter
<1>3. Key(i, f) \in Int
  BY <1>1, <1>2, AttributeType, ScoreType DEF Key
<1>4. OrNothing(rows[i].at["published"]) \in Int
  <2>1. rows[i].at["published"] \in Int \cup {None}
    BY <1>1 DEF TenderRows, DateFields
  <2> QED
    BY <2>1 DEF OrNothing
<1>5. f.text # None => Relevance[f.text][rows[i]] \in Int
  BY <1>1, <1>2, QueryAssumption
<1> QED
  BY <1>1, <1>3, <1>4, <1>5

\* The orders leave open what ties, and nothing else.
LEMMA LexicalDecides ==
  ASSUME StoreType, NEW f, Filter(f),
         \A i, j \in Candidates(f) : i # j => <<i, j>> \in LexicalOrder(f) \/ <<j, i>> \in LexicalOrder(f)
  PROVE  Decides(Candidates(f), LexicalOrder(f))
<1> SUFFICES ASSUME NEW i \in Candidates(f) PROVE <<i, i>> \notin LexicalOrder(f)
  BY DEF Decides
<1>1. CASE Resorted(f)
  <2>1. ~KeyBefore(i, i, f)
    BY CandidateKeys DEF KeyBefore
  <2> QED
    BY <1>1, <2>1, LexicalOrders
<1>2. CASE ~Resorted(f)
  <2>1. ~Ranked(rows[i], rows[i], f)
    BY CandidateKeys DEF Ranked, Newer
  <2>2. <<i, i>> \notin CandidateOrder(f)
    BY <2>1 DEF CandidateOrder
  <2> QED
    BY <1>2, <2>2, LexicalOrders
<1> QED
  BY <1>1, <1>2

\* The window of a page is not smaller than the window of the first one.
LEMMA WindowGrows ==
  ASSUME NEW f, Filter(f)
  PROVE  /\ CandidateLimit([f EXCEPT !.offset = 0]) <= CandidateLimit(f)
         /\ CandidateLimit([f EXCEPT !.offset = 0]) \in Nat /\ CandidateLimit(f) \in Nat
<1> DEFINE g     == [f EXCEPT !.offset = 0]
           least == IF f.limit <= MaxLimit THEN f.limit ELSE MaxLimit
           a     == least * CandidateMultiplier
           b     == (least + f.offset) * CandidateMultiplier
<1>1. f.limit \in Nat \ {0} /\ f.offset \in Nat /\ Shaped(f)
  <2>1. f.limit \in Nat \ {0} /\ f.offset \in Nat
    BY FilterIsPageable DEF Pageable
  <2> QED
    BY <2>1 DEF Filter, Shaped
<1>2. g.limit = f.limit /\ g.offset = 0
  BY <1>1 DEF Shaped
<1> HIDE DEF g
<1>3. Min({f.limit, MaxLimit}) = least /\ least \in Nat
  BY <1>1, LimitAssumption, Minimum
<1>4. a \in Nat /\ b \in Nat /\ a <= b
  <2> DEFINE c == CandidateMultiplier
             o == f.offset
  <2>1. c \in Nat /\ o \in Nat /\ least \in Nat
    BY <1>1, <1>3, WindowAssumption
  <2> HIDE DEF c, o, least
  <2>2. least * c \in Nat /\ (least + o) * c \in Nat /\ least * c <= (least + o) * c
    BY <2>1, Z3
  <2> QED
    BY <2>2 DEF c, o
<1>5. /\ CandidateLimit(g) = Min({Max({a, CandidateMin}), CandidateMax})
      /\ CandidateLimit(f) = Min({Max({b, CandidateMin}), CandidateMax})
  <2>1. (least + g.offset) * CandidateMultiplier = a
    BY <1>2, <1>3
  <2> HIDE DEF a, least
  <2> QED
    BY <1>2, <1>3, <2>1 DEF CandidateLimit
<1> HIDE DEF a, b
<1>6. /\ Max({a, CandidateMin}) = (IF a >= CandidateMin THEN a ELSE CandidateMin)
      /\ Max({b, CandidateMin}) = (IF b >= CandidateMin THEN b ELSE CandidateMin)
  BY <1>4, WindowAssumption, Maximum
<1> DEFINE x == IF a >= CandidateMin THEN a ELSE CandidateMin
           y == IF b >= CandidateMin THEN b ELSE CandidateMin
<1>7. x \in Nat /\ y \in Nat /\ x <= y
  BY <1>4, WindowAssumption
<1>8. CandidateLimit(g) = Min({x, CandidateMax}) /\ CandidateLimit(f) = Min({y, CandidateMax})
  BY <1>5, <1>6
<1> HIDE DEF x, y
<1>9. /\ Min({x, CandidateMax}) = (IF x <= CandidateMax THEN x ELSE CandidateMax)
      /\ Min({y, CandidateMax}) = (IF y <= CandidateMax THEN y ELSE CandidateMax)
  BY <1>7, WindowAssumption, Minimum
<1> QED
  BY <1>7, <1>8, <1>9, WindowAssumption DEF g

\* The lexical results sorted again are in the order asked for.
LEMMA SortedPage ==
  ASSUME StoreType, NEW f, Filter(f), Pageable(f), Resorted(f), Decides(Candidates(f), LexicalOrder(f)),
         NEW q, Arranged(q, Candidates(f), CandidateOrder(f)),
         NEW s \in Seq(Results), Len(s) = Cardinality(Candidates(f)),
         \A k \in 1..Len(s) : s[k].id = q[k] /\ s[k].row = rows[q[k]]
  PROVE  Page(SearchTenders(s, f), Candidates(f), LexicalOrder(f), f)
<1> DEFINE S      == Candidates(f)
           n      == Cardinality(S)
           keys   == IF f.orderBy = "score" THEN ScoreKeys(s, f) ELSE AttributeKeys(s, f)
           ranks  == Ranking(1..Len(s), Before(keys, f.order))
           sorted == Sorted(s, keys, f.order)
           o      == [k \in 1..n |-> q[ranks[k]]]
<1>1. n \in Nat /\ q \in [1..n -> S] /\ Len(s) = n
  BY DEF Arranged
<1>2. keys \in [1..Len(s) -> Int]
  BY KeyTypes DEF Pageable
<1>3. \A k \in 1..n : keys[k] = Key(q[k], f)
  BY <1>1 DEF ScoreKeys, AttributeKeys, Key
<1>4. SearchTenders(s, f) = Slice(sorted, f)
  <2>1. CASE f.text = None
    BY <2>1, RankedResults DEF SearchTenders
  <2>2. CASE f.text # None
    <3>1. f.orderBy # "score"
      BY <2>2 DEF Resorted
    <3>2. SliceRetrieval(s, f) = Slice(Sorted(s, AttributeKeys(s, f), f.order), f)
      BY <3>1, SlicedResults
    <3> QED
      BY <2>2, <3>1, <3>2 DEF SearchTenders
  <2> QED
    BY <2>1, <2>2
<1> HIDE DEF keys
<1>5. /\ ranks \in [1..Len(s) -> 1..Len(s)]
      /\ sorted \in Seq(Results) /\ Len(sorted) = Len(s)
      /\ \A k \in 1..Len(s) : sorted[k] = s[ranks[k]]
      /\ \A j, k \in 1..Len(s) : j < k => <<ranks[j], ranks[k]>> \in Before(keys, f.order)
      /\ \A j, k \in 1..Len(s) : ranks[j] = ranks[k] => j = k
      /\ \A p \in 1..Len(s) : \E k \in 1..Len(s) : ranks[k] = p
      /\ Drawn(sorted, s)
  BY <1>2, SortedItems
<1> HIDE DEF ranks, sorted
<1>6. ranks \in Shuffles(n)
  BY <1>1, <1>5 DEF Shuffles
<1>7. ASSUME NEW j \in 1..n, NEW k \in 1..n, j < k
      PROVE  <<q[ranks[k]], q[ranks[j]]>> \notin LexicalOrder(f)
  <2> DEFINE x == q[ranks[j]]
             y == q[ranks[k]]
  <2>1. ranks[j] \in 1..n /\ ranks[k] \in 1..n /\ <<ranks[j], ranks[k]>> \in Before(keys, f.order)
    BY <1>1, <1>5, <1>7
  <2>2. x \in S /\ y \in S /\ keys[ranks[j]] = Key(x, f) /\ keys[ranks[k]] = Key(y, f)
    BY <1>1, <1>3, <2>1
  <2> HIDE DEF x, y
  <2>3. Key(x, f) \in Int /\ Key(y, f) \in Int
    BY <2>2, CandidateKeys
  <2>4. \/ IF f.order = "desc" THEN Key(x, f) > Key(y, f) ELSE Key(x, f) < Key(y, f)
        \/ Key(x, f) = Key(y, f)
    BY <2>1, <2>2 DEF Before
  <2>5. ~KeyBefore(y, x, f)
    BY <2>3, <2>4 DEF KeyBefore
  <2> QED
    BY <2>2, <2>5, LexicalOrders DEF x, y
<1>8. Arranged(o, S, LexicalOrder(f))
  <2>1. \A j, k \in 1..Cardinality(S) : j < k => <<q[ranks[k]], q[ranks[j]]>> \notin LexicalOrder(f)
    BY <1>7
  <2> HIDE DEF S
  <2> QED
    BY <1>6, <2>1, Rearranged DEF S
<1>9. \A k \in 1..Len(sorted) : sorted[k].id = o[k]
  BY <1>1, <1>5
<1> HIDE DEF o
<1>10. Len(sorted) = Min({n, n})
  BY <1>1, <1>5, Minimum
<1>11. Page(Slice(sorted, f), S, LexicalOrder(f), f)
  <2>1. Cardinality(S) <= n /\ n \in Nat /\ Decides(S, LexicalOrder(f)) /\ Len(sorted) = Min({n, Cardinality(S)})
    BY <1>1, <1>10
  <2>2. sorted \in Seq(Results)
    BY <1>5
  <2> HIDE DEF n, S
  <2> QED
    BY <1>8, <1>9, <2>1, <2>2, WindowPage
<1> QED
  BY <1>4, <1>11

\* The lexical results turned round are in the order asked for.
LEMMA ReversedPage ==
  ASSUME StoreType, NEW f, Pageable(f), ~Resorted(f), f.order = "asc", Decides(Candidates(f), LexicalOrder(f)),
         NEW q, Arranged(q, Candidates(f), CandidateOrder(f)),
         NEW s \in Seq(Results), Len(s) = Cardinality(Candidates(f)),
         \A k \in 1..Len(s) : s[k].id = q[k]
  PROVE  Page(SearchTenders(s, f), Candidates(f), LexicalOrder(f), f)
<1> DEFINE S == Candidates(f)
           n == Cardinality(S)
           p == [k \in 1..n |-> n - k + 1]
           o == [k \in 1..n |-> q[p[k]]]
           t == Reverse(s)
<1>1. n \in Nat /\ q \in [1..n -> S] /\ Len(s) = n /\ \A j, k \in 1..n : j < k => <<q[k], q[j]>> \notin CandidateOrder(f)
  BY DEF Arranged
<1>2. SearchTenders(s, f) = Slice(t, f)
  BY SlicedResults DEF SearchTenders, Resorted
<1> HIDE DEF n
<1>3. /\ p \in [1..n -> 1..n] /\ \A k \in 1..n : p[k] = n - k + 1
  BY <1>1
<1>4. p \in Shuffles(n)
  <2>1. \A j, k \in 1..n : p[j] = p[k] => j = k
    BY <1>1, <1>3
  <2>2. ASSUME NEW i \in 1..n PROVE \E k \in 1..n : p[k] = i
    <3>1. n - i + 1 \in 1..n /\ n - (n - i + 1) + 1 = i
      BY <1>1
    <3>2. p[n - i + 1] = i
      BY <1>3, <3>1
    <3> QED
      BY <3>1, <3>2
  <2> HIDE DEF p
  <2> QED
    BY <1>3, <2>1, <2>2 DEF Shuffles
<1>5. t \in Seq(Results) /\ Len(t) = n /\ \A k \in 1..n : t[k] = s[p[k]]
  <2>1. Reverse(s) \in Seq(Results) /\ Len(Reverse(s)) = Len(s) /\ Drawn(Reverse(s), s)
    BY ReversedIsDrawn
  <2>2. \A k \in 1..n : t[k] = s[n - k + 1]
    BY <1>1 DEF Reverse
  <2> QED
    BY <1>1, <1>3, <2>1, <2>2
<1> HIDE DEF p, t
<1>6. ASSUME NEW j \in 1..n, NEW k \in 1..n, j < k PROVE <<q[p[k]], q[p[j]]>> \notin LexicalOrder(f)
  <2>1. p[j] \in 1..n /\ p[k] \in 1..n /\ p[k] < p[j]
    BY <1>1, <1>3, <1>6
  <2>2. <<q[p[j]], q[p[k]]>> \notin CandidateOrder(f) /\ q[p[j]] \in Candidates(f) /\ q[p[k]] \in Candidates(f)
    BY <1>1, <2>1
  <2> QED
    BY <2>2, LexicalOrders
<1>7. Arranged(o, S, LexicalOrder(f))
  <2>1. p \in Shuffles(Cardinality(S))
    BY <1>4 DEF n
  <2>2. \A j, k \in 1..Cardinality(S) : j < k => <<q[p[k]], q[p[j]]>> \notin LexicalOrder(f)
    BY <1>6 DEF n
  <2> HIDE DEF S
  <2>3. Arranged([k \in 1..Cardinality(S) |-> q[p[k]]], S, LexicalOrder(f))
    BY <2>1, <2>2, Rearranged DEF S
  <2> QED
    BY <2>3 DEF n
<1>8. \A k \in 1..Len(t) : t[k].id = o[k]
  BY <1>1, <1>3, <1>5
<1> HIDE DEF o
<1>9. Len(t) = Min({n, n})
  BY <1>1, <1>5, Minimum
<1>10. Page(Slice(t, f), S, LexicalOrder(f), f)
  <2>1. Cardinality(S) <= n /\ n \in Nat /\ Decides(S, LexicalOrder(f)) /\ Len(t) = Min({n, Cardinality(S)})
    BY <1>1, <1>9 DEF n
  <2> HIDE DEF S
  <2> QED
    BY <1>5, <1>7, <1>8, <2>1, WindowPage
<1> QED
  BY <1>2, <1>10

\* A lexical search answers with the page asked for, if its window holds all that match or its
\* order is the one of the SELECT.
LEMMA LexicalPage ==
  ASSUME Ahead <= 0, StoreType, NEW f, Filter(f), Clean(f), Plain(f), f.limit <= MaxLimit, NEW s \in Selections(f),
         Decides(Candidates(f), LexicalOrder(f)),
         \/ Cardinality(Candidates(f)) <= CandidateLimit([f EXCEPT !.offset = 0])
         \/ f.text # None /\ f.orderBy = "score" /\ f.order = "desc"
  PROVE  Page(SearchTenders(s, f), Candidates(f), LexicalOrder(f), f)
<1> DEFINE S == Candidates(f)
           w == CandidateLimit(f)
<1>1. Pageable(f) /\ f.offset \in Nat /\ f.limit \in Nat \ {0} /\ f.order \in {"asc", "desc"} /\ f.offset <= MaxOffset
  BY FilterIsPageable, LimitAssumption DEF Pageable, Filter
<1>2. PICK q \in Orders(S, CandidateOrder(f)) : Whole(s, q, f)
  BY <1>1, WholeSelection DEF Clean
<1>3. Arranged(q, S, CandidateOrder(f)) /\ Len(q) = Cardinality(S)
  BY FiniteCandidates, OrderArranges
<1>4. /\ s \in Seq(Results) /\ Len(s) = Min({w, Cardinality(S)})
      /\ \A k \in 1..Len(s) : s[k].id = q[k] /\ s[k].row = rows[q[k]]
  BY <1>2, <1>3 DEF Whole
<1>5. w \in Nat /\ f.offset + f.limit <= w
  BY <1>1, WindowReaches
<1>6. CASE ~Resorted(f) /\ f.order = "desc"
  <2>1. \A j, k \in 1..Cardinality(S) : j < k => <<q[k], q[j]>> \notin LexicalOrder(f)
    <3> SUFFICES ASSUME NEW j \in 1..Cardinality(S), NEW k \in 1..Cardinality(S), j < k
                 PROVE  <<q[k], q[j]>> \notin LexicalOrder(f)
      OBVIOUS
    <3>1. <<q[k], q[j]>> \notin CandidateOrder(f) /\ q[k] \in Candidates(f) /\ q[j] \in Candidates(f)
      BY <1>3 DEF Arranged
    <3> QED
      BY <1>6, <3>1, LexicalOrders
  <2>2. Arranged(q, S, LexicalOrder(f))
    BY <1>3, <2>1 DEF Arranged
  <2>3. SearchTenders(s, f) = Slice(s, f)
    BY <1>1, <1>4, <1>6, SlicedResults DEF SearchTenders, Resorted
  <2>4. \A k \in 1..Len(s) : s[k].id = q[k]
    BY <1>4
  <2>5. Decides(S, LexicalOrder(f)) /\ s \in Seq(Results) /\ Len(s) = Min({w, Cardinality(S)})
    BY <1>4
  <2> HIDE DEF S, w
  <2>6. Page(Slice(s, f), S, LexicalOrder(f), f)
    BY <1>1, <1>5, <2>2, <2>4, <2>5, WindowPage
  <2> QED
    BY <2>3, <2>6 DEF S
<1>7. CASE Resorted(f) \/ f.order = "asc"
  <2>1. Cardinality(S) <= w
    <3>1. Cardinality(S) <= CandidateLimit([f EXCEPT !.offset = 0])
      BY <1>7 DEF Resorted
    <3>2. CandidateLimit([f EXCEPT !.offset = 0]) <= w /\ CandidateLimit([f EXCEPT !.offset = 0]) \in Int
      BY WindowGrows
    <3>3. Cardinality(S) \in Int
      BY <1>3 DEF Arranged
    <3> QED
      BY <1>5, <3>1, <3>2, <3>3
  <2>2. Len(s) = Cardinality(S)
    <3>1. Cardinality(S) \in Int /\ w \in Int
      BY <1>3, <1>5 DEF Arranged
    <3>2. Min({w, Cardinality(S)}) = IF w <= Cardinality(S) THEN w ELSE Cardinality(S)
      BY <3>1, Minimum
    <3> QED
      BY <1>4, <2>1, <3>1, <3>2
  <2>3. Arranged(q, Candidates(f), CandidateOrder(f)) /\ Len(s) = Cardinality(Candidates(f))
    BY <1>3, <2>2
  <2> QED
    BY <1>1, <1>4, <1>7, <2>3, SortedPage, ReversedPage
<1> QED
  BY <1>1, <1>6, <1>7

\* The order of the tenders that match by their embeddings.
SemanticOrder(f) == {p \in Embedded(f) \X Embedded(f) : Nearer(p[1], p[2], f)}

\* The place of every item of a page.
Placed(results, S, R, f) ==
  \A k \in 1..Len(results) : results[k].id \in S /\ Cardinality(Preceding(S, R, results[k].id)) = f.offset + k - 1

\* The nearest tenders are arranged among themselves, and none is left out between them.
LEMMA ClosestArranged ==
  ASSUME StoreType, NEW f, f.text \in DOMAIN Finds, NEW semantic \in Seq(Results), Distinct(semantic), Closest(semantic, f),
         \A i, j \in Embedded(f) : i # j => <<i, j>> \in SemanticOrder(f) \/ <<j, i>> \in SemanticOrder(f)
  PROVE  LET I == Members(semantic)
         IN  /\ I \subseteq Embedded(f) /\ Cardinality(I) = Len(semantic)
             /\ Decides(I, SemanticOrder(f)) /\ Arranged([k \in 1..Len(semantic) |-> semantic[k].id], I, SemanticOrder(f))
             /\ \A x \in I : Preceding(Embedded(f), SemanticOrder(f), x) = Preceding(I, SemanticOrder(f), x)
<1> DEFINE n == Len(semantic)
           S == Embedded(f)
           R == SemanticOrder(f)
           I == Members(semantic)
           o == [k \in 1..n |-> semantic[k].id]
<1>1. /\ n \in Nat /\ \A k \in 1..n : semantic[k].id \in S
      /\ \A k \in 1..n, i \in S : <<i, semantic[k].id>> \in R => \E m \in 1..n : m < k /\ semantic[m].id = i
  BY LenProperties DEF Closest, SemanticOrder
<1>2. /\ \A j, k \in 1..n : semantic[j].id = semantic[k].id => j = k
      /\ I = {semantic[k].id : k \in 1..n}
  BY DEF Distinct, Members
<1>3. \A i \in S : <<i, i>> \notin R
  <2> SUFFICES ASSUME NEW i \in S, Nearer(i, i, f) PROVE FALSE
    BY DEF SemanticOrder
  <2>1. 1 \in DOMAIN vectors[i] /\ <<i, 1>> \in Entries(f)
    BY EntryItems
  <2>2. Far(<<i, 1>>, f) \in Int
    BY <2>1, FarIsInt
  <2> QED
    BY <2>1, <2>2 DEF Nearer
<1>4. \A i, j \in S : i # j => <<i, j>> \in R \/ <<j, i>> \in R
  OBVIOUS
<1> HIDE DEF n, S, R, I
<1>5. I \subseteq S
  BY <1>1, <1>2
<1>6. o \in [1..n -> I] /\ \A k \in 1..n : o[k] = semantic[k].id
  BY <1>2
<1> HIDE DEF o
<1>7. Cardinality(I) = n
  <2>1. o \in Injection(1..n, I) /\ o \in Surjection(1..n, I)
    <3>1. \A j, k \in 1..n : o[j] = o[k] => j = k
      BY <1>2, <1>6
    <3>2. \A i \in I : \E k \in 1..n : o[k] = i
      BY <1>2, <1>6
    <3> QED
      BY <1>6, <3>1, <3>2, Fun_IsInj, Fun_IsSurj
  <2>2. IsFiniteSet(1..n) /\ Cardinality(1..n) = n
    BY <1>1, Places
  <2> QED
    BY <2>1, <2>2, FS_Surjection
<1>8. Decides(I, R)
  BY <1>3, <1>4, <1>5 DEF Decides
<1>9. ASSUME NEW j \in 1..n, NEW k \in 1..n, j < k PROVE <<o[k], o[j]>> \notin R
  <2> SUFFICES ASSUME <<semantic[k].id, semantic[j].id>> \in R PROVE FALSE
    BY <1>6
  <2>1. PICK m \in 1..n : m < j /\ semantic[m].id = semantic[k].id
    BY <1>1
  <2>2. m = k
    BY <1>2, <2>1
  <2> QED
    BY <1>1, <1>9, <2>1, <2>2
<1>10. Arranged(o, I, R)
  <2>1. \A j, k \in 1..n : o[j] = o[k] => j = k
    BY <1>2, <1>6
  <2>2. \A i \in I : \E k \in 1..n : o[k] = i
    BY <1>2, <1>6
  <2> QED
    BY <1>1, <1>6, <1>7, <1>9, <2>1, <2>2 DEF Arranged
<1>11. ASSUME NEW x \in I PROVE Preceding(S, R, x) = Preceding(I, R, x)
  <2>1. PICK k \in 1..n : semantic[k].id = x
    BY <1>2
  <2>2. \A i \in S : <<i, x>> \in R => i \in I
    <3> SUFFICES ASSUME NEW i \in S, <<i, semantic[k].id>> \in R PROVE i \in I
      BY <2>1
    <3>1. \E m \in 1..n : semantic[m].id = i
      BY <1>1
    <3> QED
      BY <1>2, <3>1
  <2> QED
    BY <1>5, <2>2 DEF Preceding
<1> QED
  BY <1>5, <1>7, <1>8, <1>10, <1>11 DEF n, S, R, I, o

\* A semantic search answers with a part of the page asked for, and with all of it where
\* every tender that matches has one embedding.
LEMMA SemanticPage ==
  ASSUME BaseInv, SteadyInv, NEW semantic, Located(semantic), seen \in {None, writes},
         \A i, j \in Embedded(filters) :
           i # j => <<i, j>> \in SemanticOrder(filters) \/ <<j, i>> \in SemanticOrder(filters)
  PROVE  /\ Placed(Slice(semantic, filters), Embedded(filters), SemanticOrder(filters), filters)
         /\ Single(filters) => IsFull(Slice(semantic, filters), Embedded(filters), filters)
<1> DEFINE f == filters
           S == Embedded(f)
           R == SemanticOrder(f)
           I == Members(semantic)
           n == Cardinality(I)
           w == SemanticLimit(f)
           o == [k \in 1..Len(semantic) |-> semantic[k].id]
           results == Slice(semantic, f)
<1>1. /\ Staged(pc, f) /\ Filter(f) /\ pc \in {"nearest", "records"} /\ StoreType
      /\ semantic \in Seq(Results) /\ Distinct(semantic)
      /\ f.limit \in Nat \ {0} /\ f.offset \in Nat /\ Pageable(f)
  BY LocatedItems, AtStage DEF BaseInv, StoreInv
<1>2. f.text \in DOMAIN Finds /\ f.offset <= MaxOffset
  BY <1>1, LimitAssumption DEF Staged, Filter
<1>3. f.limit + f.offset <= CandidateMax
  BY <1>1, <1>2, LimitAssumption, WindowAssumption DEF Staged
<1>4. Closest(semantic, f)
  BY SteadyItems
<1>5. \A i, j \in S : i # j => <<i, j>> \in R \/ <<j, i>> \in R
  OBVIOUS
<1> HIDE DEF f
<1>6. w \in Nat /\ f.offset + f.limit <= w
  BY <1>1, <1>3, SemanticWindow
<1>7. /\ I \subseteq S /\ n = Len(semantic) /\ Decides(I, R) /\ Arranged(o, I, R)
      /\ \A x \in I : Preceding(S, R, x) = Preceding(I, R, x)
  BY <1>1, <1>2, <1>4, <1>5, ClosestArranged
<1>8. n \in Nat /\ Cardinality(S) \in Nat
  BY <1>1, <1>7, LenProperties, FiniteCandidates, FS_CardinalityType
<1>9. Page(results, I, R, f)
  <2>1. \A k \in 1..Len(semantic) : semantic[k].id = o[k]
    OBVIOUS
  <2>2. Len(semantic) = Min({n, Cardinality(I)})
    <3> HIDE DEF n
    <3>1. Min({n, n}) = n
      BY <1>8, Minimum
    <3> QED
      BY <1>7, <3>1 DEF n
  <2>3. Cardinality(I) <= n
    BY <1>8
  <2> HIDE DEF o, I, R, n
  <2> QED
    BY <1>1, <1>7, <1>8, <2>1, <2>2, <2>3, WindowPage
<1> HIDE DEF results, S, R, I
<1>10. Placed(results, S, R, f)
  BY <1>7, <1>9 DEF Page, Placed
<1>11. ASSUME Single(f) PROVE IsFull(results, S, f)
  <2> DEFINE c == Cardinality(S)
             a == IF f.limit <= n - f.offset THEN f.limit ELSE n - f.offset
             b == IF f.limit <= c - f.offset THEN f.limit ELSE c - f.offset
  <2>1. n = Min({w, c})
    BY <1>4, <1>7, <1>11 DEF Closest, S
  <2> HIDE DEF n, w, c
  <2>2. n = IF w <= c THEN w ELSE c
    BY <1>6, <1>8, <2>1, Minimum DEF c
  <2>3. Min({f.limit, n - f.offset}) = a
    <3>1. f.limit \in Int /\ n - f.offset \in Int
      BY <1>1, <1>8
    <3> QED
      BY <3>1, Minimum
  <2>4. Min({f.limit, c - f.offset}) = b
    <3>1. f.limit \in Int /\ c - f.offset \in Int
      BY <1>1, <1>8 DEF c
    <3> QED
      BY <3>1, Minimum
  <2>5. Max({0, a}) = Max({0, b})
    <3>1. a \in Int /\ b \in Int
      BY <1>1, <1>8 DEF c
    <3>2. (IF 0 >= a THEN 0 ELSE a) = (IF 0 >= b THEN 0 ELSE b)
      BY <1>1, <1>6, <1>8, <2>2 DEF c
    <3> HIDE DEF a, b
    <3> QED
      BY <3>1, <3>2, Maximum
  <2>6. Len(results) = Max({0, Min({f.limit, n - f.offset})})
    BY <1>9 DEF Page, n
  <2> HIDE DEF a, b
  <2> QED
    BY <2>3, <2>4, <2>5, <2>6 DEF IsFull, c
<1> QED
  BY <1>10, <1>11 DEF results, S, R, f

\* IsSlice and Ties for each of the two orders.
LexicalSlices(results, S, a, f) ==
  \A k \in 1..Len(results) :
    results[k].id \in S /\ Cardinality({j \in S : LexicalBefore(a, j, results[k].id)}) = f.offset + k - 1

SemanticSlices(results, S, a, f) ==
  \A k \in 1..Len(results) :
    results[k].id \in S /\ Cardinality({j \in S : SemanticBefore(a, j, results[k].id)}) = f.offset + k - 1

LexicalTies(S, a)  == \E i \in S, j \in S : i # j /\ ~LexicalBefore(a, i, j) /\ ~LexicalBefore(a, j, i)
SemanticTies(S, a) == \E i \in S, j \in S : i # j /\ ~SemanticBefore(a, i, j) /\ ~SemanticBefore(a, j, i)

\* The properties say the same of a response as the orders do.
LEMMA LexicalSlice ==
  ASSUME NEW f, NEW a, a.rows = rows, a.call.f = f, NEW results
  PROVE  /\ Page(results, Candidates(f), LexicalOrder(f), f) => LexicalSlices(results, Candidates(f), a, f)
         /\ ~LexicalTies(Candidates(f), a) =>
              \A i, j \in Candidates(f) : i # j => <<i, j>> \in LexicalOrder(f) \/ <<j, i>> \in LexicalOrder(f)
<1> DEFINE S == Candidates(f)
           R == LexicalOrder(f)
<1>1. ASSUME NEW i \in S, NEW j \in S PROVE <<i, j>> \in R <=> LexicalBefore(a, i, j)
  <2>1. <<i, j>> \in R <=> LexicalBefore([rows |-> rows, call |-> [f |-> f]], i, j)
    BY DEF LexicalOrder
  <2>2. LexicalBefore([rows |-> rows, call |-> [f |-> f]], i, j) <=> LexicalBefore(a, i, j)
    BY DEF LexicalBefore
  <2> QED
    BY <2>1, <2>2
<1> HIDE DEF S, R
<1>2. \A x \in S : Preceding(S, R, x) = {j \in S : LexicalBefore(a, j, x)}
  BY <1>1 DEF Preceding
<1>3. ASSUME Page(results, S, R, f) PROVE LexicalSlices(results, S, a, f)
  <2> SUFFICES ASSUME NEW k \in 1..Len(results)
               PROVE  /\ results[k].id \in S
                      /\ Cardinality({j \in S : LexicalBefore(a, j, results[k].id)}) = f.offset + k - 1
    BY <1>3 DEF Page, LexicalSlices
  <2>1. results[k].id \in S /\ Cardinality(Preceding(S, R, results[k].id)) = f.offset + k - 1
    BY <1>3 DEF Page
  <2>2. Preceding(S, R, results[k].id) = {j \in S : LexicalBefore(a, j, results[k].id)}
    BY <1>2, <2>1
  <2> QED
    BY <2>1, <2>2
<1>4. ASSUME ~LexicalTies(S, a)
      PROVE  \A i, j \in S : i # j => <<i, j>> \in R \/ <<j, i>> \in R
  BY <1>1, <1>4 DEF LexicalTies
<1> QED
  BY <1>3, <1>4 DEF S, R

LEMMA SemanticSlice ==
  ASSUME NEW f, NEW a, a.rows = rows, a.vectors = vectors, a.call.f = f, NEW results
  PROVE  /\ Placed(results, Embedded(f), SemanticOrder(f), f) => SemanticSlices(results, Embedded(f), a, f)
         /\ ~SemanticTies(Embedded(f), a) =>
              \A i, j \in Embedded(f) : i # j => <<i, j>> \in SemanticOrder(f) \/ <<j, i>> \in SemanticOrder(f)
<1> DEFINE S == Embedded(f)
           R == SemanticOrder(f)
<1>1. \A i, j \in S : <<i, j>> \in R <=> SemanticBefore(a, i, j)
  BY DEF SemanticOrder, SemanticBefore, Nearer, Far
<1> HIDE DEF S, R
<1>2. \A x \in S : Preceding(S, R, x) = {j \in S : SemanticBefore(a, j, x)}
  BY <1>1 DEF Preceding
<1>3. ASSUME Placed(results, S, R, f) PROVE SemanticSlices(results, S, a, f)
  <2> SUFFICES ASSUME NEW k \in 1..Len(results)
               PROVE  /\ results[k].id \in S
                      /\ Cardinality({j \in S : SemanticBefore(a, j, results[k].id)}) = f.offset + k - 1
    BY <1>3 DEF Placed, SemanticSlices
  <2>1. results[k].id \in S /\ Cardinality(Preceding(S, R, results[k].id)) = f.offset + k - 1
    BY <1>3 DEF Placed
  <2>2. Preceding(S, R, results[k].id) = {j \in S : SemanticBefore(a, j, results[k].id)}
    BY <1>2, <2>1
  <2> QED
    BY <2>1, <2>2
<1>4. ASSUME ~SemanticTies(S, a)
      PROVE  \A i, j \in S : i # j => <<i, j>> \in R \/ <<j, i>> \in R
  BY <1>1, <1>4 DEF SemanticTies
<1> QED
  BY <1>3, <1>4 DEF S, R

LEMMA LexicalPages == ASSUME Ahead <= 0, BaseInv, ReadLexical PROVE PagesAreSlices'
<1> DEFINE f == filters
<1>1. PICK s \in Selections(f) : Answer("none", SearchTenders(s, f), None, "lexical")
  BY DEF ReadLexical
<1> DEFINE results == SearchTenders(s, f)
<1>2. /\ answer'.results = results /\ answer'.call.f = f /\ answer'.rows = rows /\ answer'.path = "lexical"
      /\ answer'.vectors = vectors /\ answer'.call = call
  BY <1>1, Response
<1>3. Matching(answer') = Candidates(f)
  BY <1>2, Selectable
<1>4. Filter(f) /\ Clean(f) /\ f.limit <= MaxLimit /\ StoreType
  BY AtStage DEF ReadLexical, Staged, BaseInv, StoreInv
<1> HIDE DEF f, results
<1> SUFFICES ASSUME Plain(f), ~LexicalTies(Candidates(f), answer'),
                    \/ Cardinality(Candidates(f)) <= CandidateLimit([f EXCEPT !.offset = 0])
                    \/ f.text # None /\ f.orderBy = "score" /\ f.order = "desc"
             PROVE  LexicalSlices(results, Candidates(f), answer', f) /\ IsFull(results, Candidates(f), f)
  BY <1>2, <1>3 DEF PagesAreSlices, IsSlice, Ties, LexicalSlices, LexicalTies
<1>5. /\ Page(results, Candidates(f), LexicalOrder(f), f) => LexicalSlices(results, Candidates(f), answer', f)
      /\ \A i, j \in Candidates(f) : i # j => <<i, j>> \in LexicalOrder(f) \/ <<j, i>> \in LexicalOrder(f)
  BY <1>2, LexicalSlice
<1>6. Decides(Candidates(f), LexicalOrder(f))
  BY <1>4, <1>5, LexicalDecides
<1>7. Page(SearchTenders(s, f), Candidates(f), LexicalOrder(f), f)
  BY <1>4, <1>6, LexicalPage
<1> QED
  BY <1>5, <1>7 DEF results, Page, IsFull

LEMMA FinishPages ==
  ASSUME BaseInv, SteadyInv, NEW semantic, Located(semantic), Finish(semantic)
  PROVE  PagesAreSlices'
<1> DEFINE f == filters
           results == Slice(semantic, f)
<1>1. CASE Answer("none", results, None, "semantic")
  <2>1. /\ answer'.results = results /\ answer'.call.f = f /\ answer'.rows = rows /\ answer'.path = "semantic"
        /\ answer'.vectors = vectors /\ answer'.call = call /\ answer'.steady = (seen \in {None, writes})
    BY <1>1, Response
  <2>2. Vectors(answer') = Embedded(f)
    BY <2>1, Selectable
  <2>3. ASSUME seen \in {None, writes},
               \A i, j \in Embedded(f) : i # j => <<i, j>> \in SemanticOrder(f) \/ <<j, i>> \in SemanticOrder(f)
        PROVE  /\ Placed(results, Embedded(f), SemanticOrder(f), f)
               /\ Single(f) => IsFull(results, Embedded(f), f)
    BY <2>3, SemanticPage
  <2> HIDE DEF f, results
  <2> SUFFICES ASSUME seen \in {None, writes}, ~SemanticTies(Embedded(f), answer')
               PROVE  /\ SemanticSlices(results, Embedded(f), answer', f)
                      /\ Single(f) => IsFull(results, Embedded(f), f)
    BY <2>1, <2>2 DEF Single, PagesAreSlices, IsSlice, Ties, SemanticSlices, SemanticTies
  <2>4. /\ Placed(results, Embedded(f), SemanticOrder(f), f) => SemanticSlices(results, Embedded(f), answer', f)
        /\ \A i, j \in Embedded(f) : i # j => <<i, j>> \in SemanticOrder(f) \/ <<j, i>> \in SemanticOrder(f)
    BY <2>1, SemanticSlice
  <2> QED
    BY <2>3, <2>4
<1>2. ASSUME NEW others, Answer("none", others, None, "hybrid") PROVE PagesAreSlices'
  <2>1. answer'.path = "hybrid"
    BY <1>2, Response
  <2> QED
    BY <2>1 DEF PagesAreSlices
<1> QED
  BY <1>1, <1>2 DEF Finish

PagesOk == BaseInv /\ SteadyInv /\ PagesAreSlices

LEMMA PagesNext ==
  ASSUME Ahead <= 0, PagesOk, [Next]_vars
  PROVE  PagesOk'
<1>1. BaseInv' /\ SteadyInv'
  BY BaseNext, SteadyNext DEF PagesOk
<1> SUFFICES PagesAreSlices'
  BY <1>1 DEF PagesOk
<1>2. CASE ~Answered' \/ answer'.path \notin {"lexical", "semantic"}
  BY <1>2 DEF PagesAreSlices
<1>3. CASE answer' = answer
  BY <1>3 DEF PagesOk, PagesAreSlices, IsSlice, IsFull, Ties, Answered
<1>4. CASE ReadRecent \/ ReadFacets
  BY <1>2, <1>4, Response DEF ReadRecent, ReadFacets
<1>5. CASE ReadLexical
  BY <1>5, LexicalPages DEF PagesOk
<1>6. ASSUME NEW semantic, Located(semantic), Finish(semantic) PROVE PagesAreSlices'
  BY <1>6, FinishPages DEF PagesOk
<1> QED
  BY <1>2, <1>3, <1>4, <1>5, <1>6, Responses

\* The page a lexical or semantic search answers with is the one asked for of the ranking of all
\* tenders that match, where that ranking has no ties and the window reaches as far.  A semantic
\* page has each of its tenders at its place however many embeddings a tender has, and holds all
\* that belong on it where each has one.
THEOREM PagesAreOfOneRanking ==
  ASSUME Ahead <= 0
  PROVE  Spec => []PagesAreSlices
<1>1. Init => PagesOk
  BY BaseInit, SteadyInit DEF Init, PagesAreSlices, Answered, PagesOk
<1>2. PagesOk /\ [Next]_vars => PagesOk'
  BY PagesNext
<1>3. PagesOk => PagesAreSlices
  BY DEF PagesOk
<1> QED
  BY <1>1, <1>2, <1>3, PTL DEF Spec

=============================================================================
