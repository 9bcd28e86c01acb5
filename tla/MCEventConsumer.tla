--------------------------- MODULE MCEventConsumer ---------------------------
(* Small instances of EventConsumer.  The subject of every event is the    *)
(* same aggregate, so that a retraction meets the post it is about.        *)
EXTENDS EventConsumer, TLC

CONSTANT wall

MCSubject == [e \in Events |-> wall]
=============================================================================
