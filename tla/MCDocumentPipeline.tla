------------------------ MODULE MCDocumentPipeline ------------------------
(***************************************************************************)
(* DocumentPipeline for TLC: two processes, the documents of one tender,   *)
(* one of them with a text that cannot be stored, and one replacement.     *)
(***************************************************************************)
EXTENDS DocumentPipeline
=============================================================================
