--------------------------- MODULE MCEventPipeline ---------------------------
(* Small instances of EventPipeline.                                       *)
EXTENDS EventPipeline, TLC

MCOneEvent == 1..1

(* Every event is about one aggregate.                                     *)
MCSubject == [e \in Events |-> "wall"]
=============================================================================
