--------------------------- MODULE MCSearchSchema ---------------------------
(***************************************************************************)
(* SearchSchema for TLC: two operators, one backfill, two tenders, batches *)
(* of one; the commands aim at the revisions around what is conditional,   *)
(* the stamps at what create_all made before there were migrations (0001)  *)
(* and at what it makes today (0007).                                      *)
(***************************************************************************)
EXTENDS SearchSchema

Command(kind, to, backend) == [kind |-> kind, to |-> to, backend |-> backend]

MCCommands ==
  {Command("upgrade", 7, "bm25"), Command("upgrade", 7, "fts"),
   Command("downgrade", 0, "bm25"), Command("downgrade", 5, "bm25"),
   Command("bootstrap", 7, "bm25"), Command("bootstrap", 7, "fts")}
  \cup {Command("stamp", to, "bm25") : to \in {1, 7}}
=============================================================================
