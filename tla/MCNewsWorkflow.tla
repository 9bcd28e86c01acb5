---------------------------- MODULE MCNewsWorkflow ----------------------------
(* Small instances of NewsWorkflow.  Articles are numbered by their id and *)
(* scheduler cycles named in a liveness property, so nothing is symmetric. *)
EXTENDS NewsWorkflow
=============================================================================
