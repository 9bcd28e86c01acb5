---------------------------- MODULE EventPipeline ----------------------------
(***************************************************************************)
(* The whole way of an integration event: Outbox in the API, EventConsumer *)
(* in the worker, and DeadLetters, joined at three points.  queue.add of a *)
(* dispatch cycle is the arrival of a job at the worker; a job that fails  *)
(* is reported to the listener that records dead letters; the operator's   *)
(* retry puts the job back before it resolves the letters.                 *)
(*                                                                         *)
(* The module extends the worker's, whose Init, Next and vars it uses by   *)
(* their names; what the whole adds to them is named for the pipeline.     *)
(***************************************************************************)
EXTENDS EventConsumer

CONSTANTS
    Cycles, Tokens, NoToken, Limit          \* Outbox

VARIABLES
    row, cycle,                             \* Outbox
    letters, copies, recording, resolving   \* DeadLetters

(* The jobs BullMQ retains are those that arrived.                         *)
Queue == {e \in Events : job[e].state # "none"}

Box     == INSTANCE Outbox WITH queue <- Queue
Letters == INSTANCE DeadLetters

ASSUME BoxAssumption ==
    Box!EventsAssumption /\ Box!TokensAssumption /\ Box!LimitAssumption

boxVars    == <<row, cycle>>
letterVars == <<letters, copies, recording, resolving>>

\* vars are those of the worker.
pipelineVars == <<boxVars, vars, letterVars>>

PipelineInit == Init /\ Letters!Init /\ Box!Init

-----------------------------------------------------------------------------
(* queue.add reaches Redis: the worker sees a job unless it already did.   *)
Enqueue(c, reply) ==
    /\ cycle[c].pc = "add"
    /\ Arrive(cycle[c].current)
    /\ Box!AddJob(c, reply)
    /\ UNCHANGED letterVars

(* A step of one component that the other two do not see.                  *)
BoxOnly(A)    == UNCHANGED vars /\ UNCHANGED letterVars /\ A
WorkerOnly(A) == UNCHANGED boxVars /\ UNCHANGED letterVars /\ A
LetterOnly(A) == UNCHANGED boxVars /\ UNCHANGED vars /\ A

CycleStep(c) ==
    \/ \E reply \in BOOLEAN : Enqueue(c, reply)
    \/ BoxOnly(\/ Box!RecoverStale(c)
               \/ Box!ReadCandidates(c)
               \/ \E e \in Events : Box!Claim(c, e) \/ Box!Skip(c, e)
               \/ \E reply \in BOOLEAN : Box!Publish(c, reply)
               \/ Box!AddFails(c)
               \/ Box!PublishFails(c)
               \/ Box!ScheduleRetry(c))

(* A failed attempt whose slot still holds the job is reported.            *)
ReportReject(s) ==
    LET e == slot[s].event
    IN  /\ Reject(s)
        /\ IF HoldsLock(s, e)
           THEN Letters!Listen(e, Exhausted(e))
           ELSE UNCHANGED letterVars
        /\ UNCHANGED boxVars

(* So is a job that stalled out, with the attempts it made so far.         *)
ReportStallOut(e) ==
    /\ StallOut(e)
    /\ Letters!Listen(e, Exhausted(e))
    /\ UNCHANGED boxVars

(* QueueOperationsService.retryFailed, up to its second await.             *)
RetryFailed(e) ==
    /\ Retry(e)
    /\ Letters!BeginResolve(e)
    /\ UNCHANGED boxVars

AttemptStep(s) ==
    \/ WorkerOnly(ProcessStep(s) \/ Complete(s))
    \/ ReportReject(s)

QueueStep(e) ==
    \/ WorkerOnly(Promote(e) \/ Stall(e))
    \/ ReportStallOut(e)

PipelineNext ==
    \/ \E e \in Events :
         \/ BoxOnly(Box!AppendEvent(e) \/ Box!Time(e))
         \/ QueueStep(e)
         \/ RetryFailed(e)
         \/ LetterOnly(Letters!RecordStep(e))
    \/ \E c \in Cycles : CycleStep(c) \/ BoxOnly(Box!Abort(c))
    \/ \E s \in Slots : AttemptStep(s) \/ WorkerOnly(Crash(s))
    \/ \E s \in Slots, e \in Events : WorkerOnly(Take(s, e))

PipelineSpec == PipelineInit /\ [][PipelineNext]_pipelineVars

(* The fairness of Outbox and of EventConsumer, on the composed steps.     *)
PipelineFairness ==
    /\ \A e \in Events :
         /\ WF_pipelineVars(BoxOnly(Box!Time(e)))
         /\ WF_pipelineVars(QueueStep(e))
         /\ SF_pipelineVars(\E s \in Slots : WorkerOnly(Take(s, e)))
    /\ \A c \in Cycles : WF_pipelineVars(CycleStep(c))
    /\ SF_pipelineVars(\E c \in Cycles : BoxOnly(Box!ReadCandidates(c)))
    /\ SF_pipelineVars(\E c \in Cycles, e \in Events : BoxOnly(Box!Claim(c, e)))
    /\ SF_pipelineVars(\E c \in Cycles : Box!OwnsCurrent(c) /\ Enqueue(c, TRUE))
    /\ SF_pipelineVars(\E c \in Cycles : Box!OwnsCurrent(c) /\ BoxOnly(Box!Publish(c, TRUE)))
    /\ \A s \in Slots : WF_pipelineVars(AttemptStep(s))

FairPipelineSpec == PipelineSpec /\ PipelineFairness

-----------------------------------------------------------------------------
PipelineTypeOK == Box!TypeOK /\ TypeOK /\ Letters!TypeOK

(* Nothing is handled that was not committed, and nothing the outbox calls *)
(* published is unknown to the worker: through lost replies, crashes and   *)
(* late cycles, feed entries and markers stand only for committed events.  *)
OnlyCommittedEventsAreHandled ==
    /\ \A e \in Events :
         e \in marked \/ entry[e] # "none" => row[e].status # "ABSENT"
    /\ \A e \in Events : row[e].status = "PUBLISHED" => job[e].state # "none"

(* Only an exhausted job has a dead letter: an attempt that BullMQ will    *)
(* repeat is never reported to the operators as terminal, and a copy in    *)
(* the dead-letter queue has a row that operators can resolve.             *)
LetterMeansExhausted ==
    \A e \in Events :
        /\ letters[e] # "none" => job[e].made = MaxAttempts
        /\ e \in copies => letters[e] # "none"

(* A completed job is never run again: not by a dispatcher that comes back *)
(* to its event, not by a late failure of a slot that lost it, not by an   *)
(* operator's retry.                                                       *)
CompletedIsFinal ==
    [][\A e \in Events : job[e].state = "completed" => job'[e] = job[e]]_pipelineVars

(* End to end: an event whose business transaction committed is, in the    *)
(* end, handled by the worker or failed for good where operators see it.   *)
EveryEventSettles ==
    \A e \in Events :
        row[e].status # "ABSENT" ~> job[e].state \in {"completed", "failed"}
=============================================================================
