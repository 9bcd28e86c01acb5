---------------------------- MODULE EventConsumer ----------------------------
(***************************************************************************)
(* The integration-event worker (apps/worker, packages/jobs) on a BullMQ   *)
(* queue: attempts with an idempotency marker, the activity projection,    *)
(* retries, stalls and crashes.                                            *)
(*                                                                         *)
(* BullMQ is external and modelled by how the worker uses it: a job is     *)
(* taken under a lock, a job whose lock expired is given to another slot   *)
(* (MaxStalls times) although the first slot may still run, and only the   *)
(* slot that holds the lock can finish the job.                            *)
(*                                                                         *)
(* An event is one of: a wall post or a published article (each inserts a  *)
(* feed entry), the retraction of a wall post (marks the feed entry of its *)
(* subject), or an event the activity projector ignores.                   *)
(***************************************************************************)
EXTENDS Naturals, FiniteSets

CONSTANTS
    Events,         \* integration events; an event id is also its job id
    Posts,          \* events that insert a wall-post entry
    Articles,       \* events that insert a news entry
    Retractions,    \* events that retract the wall post of their subject
    Subject,        \* the aggregate of each event, a function on Events
    Slots,          \* concurrent attempts, over all worker processes
    NoSlot, NoEvent,
    MaxAttempts,    \* `attempts: 5` of the job options
    MaxStalls       \* BullMQ's maxStalledCount

ASSUME KindsAssumption ==
    /\ Posts \cup Articles \cup Retractions \subseteq Events
    /\ Posts \cap Articles = {}
    /\ (Posts \cup Articles) \cap Retractions = {}
ASSUME NullsAssumption == NoSlot \notin Slots /\ NoEvent \notin Events
ASSUME BoundsAssumption == MaxAttempts \in Nat \ {0} /\ MaxStalls \in Nat

VARIABLES
    job,        \* the retained job of each event
    slot,       \* the attempt each slot runs
    marked,     \* processed_events of this consumer
    entry       \* activity_entries, keyed by sourceEventId

vars == <<job, slot, marked, entry>>

Jobs == [state : {"none", "waiting", "active", "delayed", "completed", "failed"},
         made : 0..MaxAttempts, stalls : 0..MaxStalls, owner : Slots \cup {NoSlot}]

SlotStates == [pc : {"idle", "check", "handle", "mark", "done", "fail"},
               event : Events \cup {NoEvent}]

TypeOK ==
    /\ job \in [Events -> Jobs]
    /\ slot \in [Slots -> SlotStates]
    /\ marked \subseteq Events
    /\ entry \in [Events -> {"none", "visible", "retracted"}]

NoJob == [state |-> "none", made |-> 0, stalls |-> 0, owner |-> NoSlot]

IdleSlot == [pc |-> "idle", event |-> NoEvent]

Init ==
    /\ job = [e \in Events |-> NoJob]
    /\ slot = [s \in Slots |-> IdleSlot]
    /\ marked = {}
    /\ entry = [e \in Events |-> "none"]

-----------------------------------------------------------------------------
(* The queue.                                                              *)

(* Variant: finished jobs are not retained, so their id is free again.     *)
ArriveAgain(e) ==
    /\ job' = IF job[e].state \in {"none", "completed", "failed"}
              THEN [job EXCEPT ![e].state = "waiting"] ELSE job
    /\ UNCHANGED <<slot, marked, entry>>

(* queue.add: a job id that is retained is not added a second time.        *)
Arrive(e) ==
    /\ job' = IF job[e].state = "none" THEN [job EXCEPT ![e].state = "waiting"] ELSE job
    /\ UNCHANGED <<slot, marked, entry>>

(* The backoff of a failed attempt is over.                                *)
Promote(e) ==
    /\ job[e].state = "delayed"
    /\ job' = [job EXCEPT ![e].state = "waiting"]
    /\ UNCHANGED <<slot, marked, entry>>

Take(s, e) ==
    /\ slot[s].pc = "idle"
    /\ job[e].state = "waiting"
    /\ job' = [job EXCEPT ![e] = [@ EXCEPT !.state = "active", !.owner = s]]
    /\ slot' = [slot EXCEPT ![s] = [pc |-> "check", event |-> e]]
    /\ UNCHANGED <<marked, entry>>

(* The lock of an active job expired, its slot dead or merely blocked.     *)
Stall(e) ==
    /\ job[e].state = "active"
    /\ job[e].stalls < MaxStalls
    /\ job' = [job EXCEPT ![e] = [@ EXCEPT !.state = "waiting", !.owner = NoSlot,
                                           !.stalls = job[e].stalls + 1]]
    /\ UNCHANGED <<slot, marked, entry>>

(* An operator's job.retry('failed'); it throws on a job in another state. *)
Retry(e) ==
    /\ job[e].state = "failed"
    /\ job' = [job EXCEPT ![e].state = "waiting"]
    /\ UNCHANGED <<slot, marked, entry>>

-----------------------------------------------------------------------------
(* One attempt: IdempotentIntegrationEventProcessor.process.               *)

Goto(s, pc) == slot' = [slot EXCEPT ![s].pc = pc]

(* Variant: the marker is written before the handler runs.                 *)
CheckThenMark(s) ==
    /\ slot[s].pc = "check"
    /\ Goto(s, IF slot[s].event \in marked THEN "done" ELSE "mark")
    /\ UNCHANGED <<job, marked, entry>>

(* hasProcessed: the marker is read before the handler runs.               *)
Check(s) ==
    /\ slot[s].pc = "check"
    /\ Goto(s, IF slot[s].event \in marked THEN "done" ELSE "handle")
    /\ UNCHANGED <<job, marked, entry>>

Inserts(e) == e \in Posts \cup Articles

Retracts(e, d) ==
    e \in Retractions /\ d \in Posts /\ Subject[d] = Subject[e] /\ entry[d] # "none"

(* Variant: ON CONFLICT DO UPDATE.                                         *)
ProjectedByUpsert(e) ==
    [d \in Events |-> CASE Inserts(e) /\ d = e -> "visible"
                        [] Retracts(e, d)      -> "retracted"
                        [] OTHER               -> entry[d]]

(* The statement of the projector: INSERT ... ON CONFLICT DO NOTHING, or   *)
(* UPDATE of whatever entries the subject has at that moment.              *)
Projected(e) ==
    [d \in Events |-> CASE Inserts(e) /\ d = e /\ entry[d] = "none" -> "visible"
                        [] Retracts(e, d)                           -> "retracted"
                        [] OTHER                                    -> entry[d]]

(* The statement commits; its reply may be lost.                           *)
Handle(s, reply) ==
    /\ slot[s].pc = "handle"
    /\ entry' = Projected(slot[s].event)
    /\ Goto(s, IF reply THEN "mark" ELSE "fail")
    /\ UNCHANGED <<job, marked>>

Mark(s, reply) ==
    /\ slot[s].pc = "mark"
    /\ marked' = marked \cup {slot[s].event}
    /\ Goto(s, IF reply THEN "done" ELSE "fail")
    /\ UNCHANGED <<job, entry>>

(* Variant: the error is caught and the attempt reported as done.          *)
StepFailsSilently(s) ==
    /\ slot[s].pc \in {"check", "handle", "mark"}
    /\ Goto(s, "done")
    /\ UNCHANGED <<job, marked, entry>>

(* The database refuses the statement, or the handler throws.              *)
StepFails(s) ==
    /\ slot[s].pc \in {"check", "handle", "mark"}
    /\ Goto(s, "fail")
    /\ UNCHANGED <<job, marked, entry>>

(* BullMQ still believes s runs the job of e.                              *)
HoldsLock(s, e) == job[e].state = "active" /\ job[e].owner = s

Complete(s) ==
    LET e == slot[s].event
    IN  /\ slot[s].pc = "done"
        /\ job' = IF HoldsLock(s, e)
                  THEN [job EXCEPT ![e] = [@ EXCEPT !.state = "completed",
                                                    !.owner = NoSlot]]
                  ELSE job
        /\ slot' = [slot EXCEPT ![s] = IdleSlot]
        /\ UNCHANGED <<marked, entry>>

(* Variant: a failure does not count as an attempt.                        *)
MadeUncounted(e) == job[e].made

(* attemptsMade after one more failure; beyond MaxAttempts (an operator    *)
(* retried the job) only `attemptsMade >= attempts` matters.               *)
Made(e) == IF job[e].made < MaxAttempts THEN job[e].made + 1 ELSE MaxAttempts

Exhausted(e) == Made(e) >= MaxAttempts

(* The attempt of s threw: BullMQ delays the job, or fails it for good.    *)
Reject(s) ==
    LET e == slot[s].event
    IN  /\ slot[s].pc = "fail"
        /\ job' = IF HoldsLock(s, e)
                  THEN [job EXCEPT ![e] =
                          [@ EXCEPT !.state = IF Exhausted(e) THEN "failed" ELSE "delayed",
                                    !.made = Made(e), !.owner = NoSlot]]
                  ELSE job
        /\ slot' = [slot EXCEPT ![s] = IdleSlot]
        /\ UNCHANGED <<marked, entry>>

(* A job that stalled too often fails for good whatever attempts are left. *)
StallOut(e) ==
    /\ job[e].state = "active"
    /\ job[e].stalls = MaxStalls
    /\ job' = [job EXCEPT ![e] = [@ EXCEPT !.state = "failed", !.made = Made(e),
                                           !.owner = NoSlot]]
    /\ UNCHANGED <<slot, marked, entry>>

(* The worker process dies: its job stays active until it stalls.          *)
Crash(s) ==
    /\ slot[s].pc # "idle"
    /\ slot' = [slot EXCEPT ![s] = IdleSlot]
    /\ UNCHANGED <<job, marked, entry>>

-----------------------------------------------------------------------------
(* The part of an attempt before BullMQ hears of its outcome.              *)
ProcessStep(s) ==
    \/ Check(s)
    \/ \E reply \in BOOLEAN : Handle(s, reply) \/ Mark(s, reply)
    \/ StepFails(s)

Next ==
    \/ \E e \in Events : Arrive(e) \/ Promote(e) \/ Stall(e) \/ StallOut(e) \/ Retry(e)
    \/ \E s \in Slots : ProcessStep(s) \/ Complete(s) \/ Reject(s) \/ Crash(s)
    \/ \E s \in Slots, e \in Events : Take(s, e)

Spec == Init /\ [][Next]_vars

(* Worker processes are restarted and keep taking waiting jobs, attempts   *)
(* advance, BullMQ promotes delayed jobs and finds stalled ones.           *)
Fairness ==
    /\ \A s \in Slots : WF_vars(ProcessStep(s) \/ Complete(s) \/ Reject(s))
    /\ \A e \in Events :
         /\ WF_vars(Promote(e) \/ Stall(e) \/ StallOut(e))
         /\ SF_vars(\E s \in Slots : Take(s, e))

FairSpec == Spec /\ Fairness

-----------------------------------------------------------------------------
(* A marker is never ahead of the effect it stands for, so a redelivery    *)
(* that the marker suppresses loses nothing.                               *)
MarkedIsProjected == \A e \in marked : Inserts(e) => entry[e] # "none"

(* A completed job was handled: its marker is there, whichever of several  *)
(* concurrent attempts BullMQ believed.                                    *)
CompletedIsMarked == \A e \in Events : job[e].state = "completed" => e \in marked

(* A retracted entry never shows again, although its creation may be       *)
(* redelivered, stalled or run twice after the retraction.                 *)
RetractionIsFinal ==
    [][\A e \in Events : entry[e] = "retracted" => entry'[e] = "retracted"]_vars

(* Every job that arrived is completed or fails for good, and does so      *)
(* again after every retry of the operators, however often slots crash.    *)
EveryJobSettles ==
    \A e \in Events :
        job[e].state # "none" ~> job[e].state \in {"completed", "failed"}

(* What postgres-activity.projector.ts says of itself: feed entries are    *)
(* retracted when their source content is tombstoned.                      *)
RetractedPostsAreHidden ==
    \A r \in Retractions \cap marked : \A p \in Posts :
        Subject[p] = Subject[r] => entry[p] # "visible"
=============================================================================
