--------------------------- MODULE MCTenderStore ---------------------------
(***************************************************************************)
(* TenderStore for TLC: calls that upsert two notices.  Snapshot 1 is the  *)
(* first publication, snapshot 2 changes the status and replaces a link,   *)
(* snapshot 3 changes the deadline of the first one and keeps its link;    *)
(* snapshot 4 is like 2, but the embedder makes an empty vector of it.     *)
(***************************************************************************)
EXTENDS TenderStore

MCColumns == {"status", "deadline"}
MCValues == 1..2
MCVersions == 1..4
MCContent == [v \in MCVersions |->
  [status   |-> IF v \in {2, 4} THEN 2 ELSE 1,
   deadline |-> IF v = 3 THEN 2 ELSE 1]]
MCUrls == {"notice", "annex"}
MCLinks == [v \in MCVersions |-> IF v \in {2, 4} THEN {"annex"} ELSE {"notice"}]

n(k, v) == [key |-> k, ver |-> v]

\* The first two calls meet the keys in opposite orders; the third holds a notice
\* twice, a notice without a vector, or nothing.
MCBatches ==
  [w \in 1..3 |-> CASE w = 1 -> {<<n("a", 1), n("b", 1)>>}
                     [] w = 2 -> {<<n("b", 4), n("a", 2)>>}
                     [] w = 3 -> {<<n("a", 3), n("a", 2)>>, <<n("a", 1)>>, <<n("b", 4)>>, <<>>}]
=============================================================================
