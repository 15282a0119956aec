----------------------------- MODULE MCBackfill -----------------------------
(***************************************************************************)
(* Backfill for TLC: a month before the dataset starts, two months of a    *)
(* year that is published as one file, and two with a file of their own.   *)
(* The notice "a" is published again in each file.                         *)
(***************************************************************************)
EXTENDS Backfill

MCFileOf == <<NoFile, "2020", "2020", "202101", "202102">>
MCSnapshot ==
  [f \in Files |-> CASE f = "2020"   -> [k \in Keys |-> 1]
                     [] f = "202101" -> [k \in Keys |-> IF k = "a" THEN 2 ELSE 0]
                     [] f = "202102" -> [k \in Keys |-> IF k = "a" THEN 3 ELSE 0]]
=============================================================================
