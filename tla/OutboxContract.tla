--------------------------- MODULE OutboxContract ---------------------------
(***************************************************************************)
(* What the transactional outbox promises, with neither locks nor cycles:  *)
(* an event committed with its business write is put in the queue, and is  *)
(* declared published only after that.  Nothing is ever taken back.        *)
(***************************************************************************)
CONSTANT Events

VARIABLES
    written,    \* events whose business transaction has committed
    queued,     \* events with a job in the queue
    published   \* events the outbox no longer works on

vars == <<written, queued, published>>

Init ==
    /\ written = {}
    /\ queued = {}
    /\ published = {}

Write(e) ==
    /\ e \notin written
    /\ written' = written \cup {e}
    /\ UNCHANGED <<queued, published>>

Enqueue(e) ==
    /\ e \in written \ queued
    /\ queued' = queued \cup {e}
    /\ UNCHANGED <<written, published>>

Confirm(e) ==
    /\ e \in queued \ published
    /\ published' = published \cup {e}
    /\ UNCHANGED <<written, queued>>

Next == \E e \in Events : Write(e) \/ Enqueue(e) \/ Confirm(e)

Spec == Init /\ [][Next]_vars

(* No event stays in the outbox for ever.                                  *)
EveryEventPublished == \A e \in Events : e \in written ~> e \in published
=============================================================================
