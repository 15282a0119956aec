---------------------------- MODULE MCHttpClient ----------------------------
(***************************************************************************)
(* HttpClient for TLC: a request and a download that share a host.      *)
(***************************************************************************)
EXTENDS HttpClient

MCHostOf == [r \in Requests |-> "host"]
=============================================================================
