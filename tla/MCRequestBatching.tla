-------------------------- MODULE MCRequestBatching --------------------------
(* Two callers on chunks of one instrument; both ways of batching.           *)
EXTENDS RequestBatching
=============================================================================
