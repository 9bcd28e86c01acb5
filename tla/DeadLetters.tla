----------------------------- MODULE DeadLetters -----------------------------
(***************************************************************************)
(* The record of an exhausted job and what operators do with it            *)
(* (apps/worker/src/main.ts, dead-letter.service.ts and the API's          *)
(* queue-operations.service.ts).                                           *)
(*                                                                         *)
(* Recording is two writes, a dead_letter_events row and a job in the      *)
(* dead-letter queue; the listener that starts it does not wait for it.    *)
(* Two records of one event in flight at the same await count as one, and  *)
(* of the rows of an event only this is kept: whether there are any, and   *)
(* whether one is unresolved.                                              *)
(***************************************************************************)
CONSTANT Events

VARIABLES
    letters,    \* dead_letter_events
    copies,     \* job ids retained in the dead-letter queue
    recording,  \* <<event, await>> of the records in flight
    resolving   \* operator retries between job.retry and the update after it

vars == <<letters, copies, recording, resolving>>

Awaits == {"insert", "copy"}

TypeOK ==
    /\ letters \in [Events -> {"none", "open", "resolved"}]
    /\ copies \subseteq Events
    /\ recording \subseteq Events \X Awaits
    /\ resolving \subseteq Events

Init ==
    /\ letters = [e \in Events |-> "none"]
    /\ copies = {}
    /\ recording = {}
    /\ resolving = {}

(* Variant: the listener does not compare attemptsMade with attempts.      *)
ListenAlways(e, exhausted) ==
    /\ recording' = recording \cup {<<e, "insert">>}
    /\ UNCHANGED <<letters, copies, resolving>>

(* The failed listener of the worker: a record is started only for a job   *)
(* whose attempts are used up.                                             *)
Listen(e, exhausted) ==
    /\ recording' = IF exhausted THEN recording \cup {<<e, "insert">>} ELSE recording
    /\ UNCHANGED <<letters, copies, resolving>>

Insert(e) ==
    /\ <<e, "insert">> \in recording
    /\ letters' = [letters EXCEPT ![e] = "open"]
    /\ recording' = (recording \ {<<e, "insert">>}) \cup {<<e, "copy">>}
    /\ UNCHANGED <<copies, resolving>>

Copy(e) ==
    /\ <<e, "copy">> \in recording
    /\ copies' = copies \cup {e}
    /\ recording' = recording \ {<<e, "copy">>}
    /\ UNCHANGED <<letters, resolving>>

(* The process dies, or a write is refused and nobody catches the          *)
(* rejection: the record ends where it stands.                             *)
Lose(e, at) ==
    /\ <<e, at>> \in recording
    /\ recording' = recording \ {<<e, at>>}
    /\ UNCHANGED <<letters, copies, resolving>>

(* retryFailed after job.retry succeeded: the open letters are next.       *)
BeginResolve(e) ==
    /\ resolving' = resolving \cup {e}
    /\ UNCHANGED <<letters, copies, recording>>

(* Every open letter of the event is resolved, also one just inserted.     *)
Resolve(e) ==
    /\ e \in resolving
    /\ letters' = [letters EXCEPT ![e] = IF @ = "open" THEN "resolved" ELSE @]
    /\ resolving' = resolving \ {e}
    /\ UNCHANGED <<copies, recording>>

(* The API process dies, or the update fails, after job.retry.             *)
Forget(e) ==
    /\ e \in resolving
    /\ resolving' = resolving \ {e}
    /\ UNCHANGED <<letters, copies, recording>>

(* The steps that involve nothing but the records.                         *)
RecordStep(e) ==
    \/ Insert(e)
    \/ Copy(e)
    \/ \E at \in Awaits : Lose(e, at)
    \/ Resolve(e)
    \/ Forget(e)
=============================================================================
