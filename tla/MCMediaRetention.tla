--------------------------- MODULE MCMediaRetention ---------------------------
(* A small instance of MediaRetention.  A media's number is its age, the   *)
(* lowest the oldest.                                                      *)
EXTENDS MediaRetention
=============================================================================
