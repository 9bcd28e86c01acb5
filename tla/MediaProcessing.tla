--------------------------- MODULE MediaProcessing ---------------------------
(***************************************************************************)
(* One upload session from intake to a settled media row: the API requests *)
(* that deliver its file (MediaBinaryUploadService), their compensations,  *)
(* abort, the staff's rescan, rejection and retry, and the worker's        *)
(* attempts at the jobs, one action per await of each.                     *)
(*                                                                         *)
(* Sessions share nothing, so one is enough.  A request creates its own    *)
(* media row, and the request's name stands for the row's id; the file in  *)
(* temporary storage and the job id belong to the session.  BullMQ is      *)
(* external, as in EventConsumer.                                          *)
(***************************************************************************)
EXTENDS Naturals

CONSTANTS
    Requests,       \* concurrent deliveries to the session, and their media
    SessionJob,     \* the job whose id is the session's
    ExtraJobs,      \* jobs of rescans and retries, whose ids are fresh uuids
    MayAbort,       \* whether the owner may abort the session, once
    Slots,          \* concurrent attempts, over all worker processes
    NoSlot, NoMedia,
    MaxAttempts,    \* `attempts: 3` of the job options
    MaxStalls,      \* BullMQ's maxStalledCount
    MaxLost,        \* bound on attempts that crash or lose their lock
    MaxFaults       \* bound on API crashes and on failing store calls of attempts

ASSUME NamesAssumption ==
    /\ SessionJob \notin ExtraJobs
    /\ NoSlot \notin Slots
    /\ NoMedia \notin Requests
    /\ MayAbort \in BOOLEAN
ASSUME LimitsAssumption ==
    /\ MaxAttempts \in Nat \ {0}
    /\ MaxStalls \in Nat \ {0} /\ MaxLost \in Nat /\ MaxFaults \in Nat

JobIds == ExtraJobs \cup {SessionJob}
Undoing == {"session", "source", "job", "media"}

VARIABLES
    session,    \* media_upload_sessions.status
    request,    \* where each delivery is, and the compensations it still owes
    abort,      \* MediaUploadSessionService.abort: idle, about to write, or done
    status,     \* media.status of each request's row
    source,     \* the session's file in temporary storage
    objects,    \* media whose destination objects have been written
    job, slot,
    staff,      \* a rescan or a retry between its check and its queue.add
    lost, faults

jobs == <<job, slot, lost>>
intake == <<session, request, abort>>
vars == <<intake, status, source, objects, jobs, staff, faults>>

NoJob == [state |-> "none", media |-> NoMedia, made |-> 0, stalls |-> 0, owner |-> NoSlot]
IdleSlot == [pc |-> "idle", job |-> SessionJob, media |-> NoMedia, rescan |-> FALSE]
IdleStaff == [pc |-> "idle", media |-> NoMedia]

Init ==
    /\ session = "INITIATED"
    /\ request = [r \in Requests |-> [pc |-> "check", owes |-> {}]]
    /\ abort = IF MayAbort THEN "idle" ELSE "done"
    /\ status = [r \in Requests |-> "ABSENT"]
    /\ source = FALSE
    /\ objects = {}
    /\ job = [j \in JobIds |-> NoJob]
    /\ slot = [w \in Slots |-> IdleSlot]
    /\ staff = IdleStaff
    /\ lost = 0 /\ faults = 0

Set(m, to) == status' = [status EXCEPT ![m] = to]

-----------------------------------------------------------------------------
(* Intake: MediaBinaryUploadService.accept.                                *)

Step(r, pc) == request' = [request EXCEPT ![r].pc = pc]

(* The catch: every compensation that the progress so far calls for.       *)
Fail(r, owes) == request' = [request EXCEPT ![r] = [pc |-> "undo", owes |-> owes]]

Check(r) ==
    /\ request[r].pc = "check"
    /\ Step(r, IF session = "INITIATED" THEN "mark" ELSE "refused")
    /\ UNCHANGED <<session, abort, status, source, objects, jobs, staff, faults>>

MarkUploading(r) ==
    /\ request[r].pc = "mark"
    /\ session' = "UPLOADING"
    /\ Step(r, "save")
    /\ UNCHANGED <<abort, status, source, objects, jobs, staff, faults>>

Save(r) ==
    /\ request[r].pc = "save"
    /\ \/ Step(r, "create") /\ source' = TRUE
       \/ Fail(r, {"session"}) /\ UNCHANGED source
    /\ UNCHANGED <<session, abort, status, objects, jobs, staff, faults>>

Create(r) ==
    /\ request[r].pc = "create"
    /\ \/ Step(r, "add") /\ Set(r, "PROCESSING")
       \/ Fail(r, {"session", "source"}) /\ UNCHANGED status
    /\ UNCHANGED <<session, abort, source, objects, jobs, staff, faults>>

(* queue.add: a job id that is retained is not added a second time.        *)
Added(j, m) ==
    IF job[j].state = "none"
    THEN [job EXCEPT ![j] = [NoJob EXCEPT !.state = "waiting", !.media = m]]
    ELSE job

Add(r) ==
    /\ request[r].pc = "add"
    /\ \/ Step(r, "complete") /\ job' = Added(SessionJob, r)
       \/ Fail(r, {"session", "source", "media"}) /\ UNCHANGED job
    /\ UNCHANGED <<session, abort, status, source, objects, slot, lost, staff, faults>>

Complete(r) ==
    /\ request[r].pc = "complete"
    /\ \/ Step(r, "done") /\ session' = "COMPLETED"
       \/ Fail(r, Undoing) /\ UNCHANGED session
    /\ UNCHANGED <<abort, status, source, objects, jobs, staff, faults>>

(* Promise.allSettled runs the compensations in any order; a job that is   *)
(* being worked on cannot be removed.                                      *)
Compensate(r, c) ==
    /\ request[r].pc = "undo"
    /\ c \in request[r].owes
    /\ request' = [request EXCEPT ![r].owes = @ \ {c}]
    /\ session' = IF c = "session" THEN "FAILED" ELSE session
    /\ source' = (source /\ c # "source")
    /\ job' = IF c = "job" /\ job[SessionJob].state # "active"
              THEN [job EXCEPT ![SessionJob] = NoJob] ELSE job
    /\ status' = IF c = "media" THEN [status EXCEPT ![r] = "FAILED"] ELSE status
    /\ UNCHANGED <<abort, objects, slot, lost, staff, faults>>

ApiCrash(r) ==
    /\ request[r].pc \notin {"check", "refused", "done", "dead"}
    /\ faults < MaxFaults
    /\ faults' = faults + 1
    /\ Step(r, "dead")
    /\ UNCHANGED <<session, abort, status, source, objects, jobs, staff>>

AbortCheck ==
    /\ abort = "idle"
    /\ session \in {"INITIATED", "UPLOADING"}
    /\ abort' = "write"
    /\ UNCHANGED <<session, request, status, source, objects, jobs, staff, faults>>

AbortWrite ==
    /\ abort = "write"
    /\ abort' = "done"
    /\ session' = "ABORTED"
    /\ UNCHANGED <<request, status, source, objects, jobs, staff, faults>>

-----------------------------------------------------------------------------
(* Staff: rejection is one conditional write; a rescan checks and adds a   *)
(* job; a retry claims the row and adds a job, or gives the row back.      *)

Reject(m) ==
    /\ status[m] = "QUARANTINED"
    /\ Set(m, "REJECTED")
    /\ UNCHANGED <<intake, source, objects, jobs, staff, faults>>

RequestRescan(m) ==
    /\ staff.pc = "idle"
    /\ status[m] = "QUARANTINED"
    /\ staff' = [pc |-> "rescan", media |-> m]
    /\ UNCHANGED <<intake, status, source, objects, jobs, faults>>

RetryFailed(m) ==
    /\ staff.pc = "idle"
    /\ status[m] = "FAILED"
    /\ Set(m, "PROCESSING")
    /\ staff' = [pc |-> "retry", media |-> m]
    /\ UNCHANGED <<intake, source, objects, jobs, faults>>

StaffAdds(j) ==
    /\ staff.pc # "idle"
    /\ job[j].state = "none"
    /\ job' = Added(j, staff.media)
    /\ staff' = IdleStaff
    /\ UNCHANGED <<intake, status, source, objects, slot, lost, faults>>

(* Variant: a retry that cannot be queued is only reported.                *)
GivenBackNever(m) == status

(* recordFailedRetryQueueFailure.                                          *)
GivenBack(m) ==
    IF status[m] = "PROCESSING" THEN [status EXCEPT ![m] = "FAILED"] ELSE status

StaffAddFails ==
    /\ staff.pc # "idle"
    /\ status' = IF staff.pc = "retry" THEN GivenBack(staff.media) ELSE status
    /\ staff' = IdleStaff
    /\ UNCHANGED <<intake, source, objects, jobs, faults>>

StaffCrash ==
    /\ staff.pc # "idle"
    /\ faults < MaxFaults
    /\ faults' = faults + 1
    /\ staff' = IdleStaff
    /\ UNCHANGED <<intake, status, source, objects, jobs>>

-----------------------------------------------------------------------------
(* The queue.                                                              *)

Take(w, j) ==
    /\ slot[w].pc = "idle"
    /\ job[j].state = "waiting"
    /\ job' = [job EXCEPT ![j].state = "active", ![j].owner = w]
    /\ slot' = [slot EXCEPT ![w] =
           [IdleSlot EXCEPT !.pc = "status", !.job = j, !.media = job[j].media]]
    /\ UNCHANGED <<intake, status, source, objects, lost, staff, faults>>

Promote(j) ==
    /\ job[j].state = "delayed"
    /\ job' = [job EXCEPT ![j].state = "waiting"]
    /\ UNCHANGED <<intake, status, source, objects, slot, lost, staff, faults>>

(* An attempt is blocked so long that its lock expires, and may yet go on. *)
LoseLock(w) ==
    /\ slot[w].pc # "idle" /\ job[slot[w].job].owner = w
    /\ lost < MaxLost
    /\ lost' = lost + 1
    /\ job' = [job EXCEPT ![slot[w].job].owner = NoSlot]
    /\ UNCHANGED <<intake, status, source, objects, slot, staff, faults>>

(* An attempt dies, and the lock it may have had expires.                  *)
Crash(w) ==
    /\ slot[w].pc # "idle"
    /\ lost < MaxLost
    /\ lost' = lost + 1
    /\ slot' = [slot EXCEPT ![w] = IdleSlot]
    /\ job' = IF job[slot[w].job].owner = w
              THEN [job EXCEPT ![slot[w].job].owner = NoSlot] ELSE job
    /\ UNCHANGED <<intake, status, source, objects, staff, faults>>

(* The stalled check gives an ownerless job to another attempt, or fails   *)
(* it without running the processor.                                       *)
Stall(j) ==
    /\ job[j].state = "active" /\ job[j].owner = NoSlot
    /\ job' = IF job[j].stalls < MaxStalls
              THEN [job EXCEPT ![j].state = "waiting", ![j].stalls = @ + 1]
              ELSE [job EXCEPT ![j].state = "failed"]
    /\ UNCHANGED <<intake, status, source, objects, slot, lost, staff, faults>>

-----------------------------------------------------------------------------
(* One attempt: createMediaProcessingProcessor.                            *)

MediaOf(w) == slot[w].media

Goto(w, pc) == slot' = [slot EXCEPT ![w].pc = pc] /\ UNCHANGED <<job, lost>>

(* The attempt returns or throws; only the owner of the job can settle it. *)
Return(w) ==
    LET j == slot[w].job IN
    /\ slot' = [slot EXCEPT ![w] = IdleSlot]
    /\ job' = IF job[j].owner = w
              THEN [job EXCEPT ![j].state = "completed", ![j].owner = NoSlot] ELSE job
    /\ UNCHANGED lost

Throw(w) ==
    LET j == slot[w].job
        made == job[j].made + 1 IN
    /\ slot' = [slot EXCEPT ![w] = IdleSlot]
    /\ job' = IF job[j].owner = w
              THEN [job EXCEPT ![j].state = IF made < MaxAttempts THEN "delayed" ELSE "failed",
                               ![j].made = made, ![j].owner = NoSlot]
              ELSE job
    /\ UNCHANGED lost

Terminal(m) == status[m] \in {"READY", "REJECTED"}

FindStatus(w) ==
    /\ slot[w].pc = "status"
    /\ \/ Terminal(MediaOf(w)) /\ Return(w)
       \/ /\ ~Terminal(MediaOf(w))
          /\ slot' = [slot EXCEPT ![w] =
                 [@ EXCEPT !.pc = IF status[MediaOf(w)] = "FAILED" THEN "claim" ELSE "scan",
                           !.rescan = status[MediaOf(w)] = "QUARANTINED"]]
          /\ UNCHANGED <<job, lost>>
    /\ UNCHANGED <<intake, status, source, objects, staff, faults>>

(* Variant: the retry does not ask whether the row is still FAILED.        *)
ClaimFromAny(m) == TRUE

(* The WHERE of claimFailedRetry.                                          *)
ClaimFrom(m) == status[m] = "FAILED"

ClaimRetry(w) ==
    LET m == MediaOf(w) IN
    /\ slot[w].pc = "claim"
    /\ \/ ClaimFrom(m) /\ Set(m, "PROCESSING") /\ Goto(w, "scan")
       \/ ~ClaimFrom(m) /\ Goto(w, "loser") /\ UNCHANGED status
    /\ UNCHANGED <<intake, source, objects, staff, faults>>

(* A claim loser must not fail the winner's row.                           *)
Loser(w) ==
    /\ slot[w].pc = "loser"
    /\ IF Terminal(MediaOf(w)) THEN Return(w) ELSE Throw(w)
    /\ UNCHANGED <<intake, status, source, objects, staff, faults>>

Scan(w) ==
    /\ slot[w].pc = "scan"
    /\ \E verdict \in {"infected", "unavailable",
                       IF slot[w].rescan THEN "promote" ELSE "transform"} :
           Goto(w, verdict)
    /\ UNCHANGED <<intake, status, source, objects, staff, faults>>

MarkQuarantined(w) ==
    LET m == MediaOf(w) IN
    /\ slot[w].pc \in {"infected", "unavailable"}
    /\ status' = IF status[m] \in {"PROCESSING", "QUARANTINED"}
                 THEN [status EXCEPT ![m] = "QUARANTINED"] ELSE status
    /\ IF slot[w].pc = "infected" THEN Return(w) ELSE Throw(w)
    /\ UNCHANGED <<intake, source, objects, staff, faults>>

MarkProcessing(w) ==
    LET m == MediaOf(w) IN
    /\ slot[w].pc = "promote"
    /\ status' = IF status[m] = "QUARANTINED"
                 THEN [status EXCEPT ![m] = "PROCESSING"] ELSE status
    /\ Goto(w, "transform")
    /\ UNCHANGED <<intake, source, objects, staff, faults>>

(* transform needs the source; it may write the objects and still fail.    *)
Transform(w) ==
    /\ slot[w].pc = "transform"
    /\ \/ source /\ objects' = objects \cup {MediaOf(w)} /\ Goto(w, "ready")
       \/ source /\ objects' = objects \cup {MediaOf(w)} /\ Goto(w, "caught")
       \/ Goto(w, "caught") /\ UNCHANGED objects
    /\ UNCHANGED <<intake, status, source, staff, faults>>

MarkReady(w) ==
    LET m == MediaOf(w) IN
    /\ slot[w].pc = "ready"
    /\ \/ status[m] = "PROCESSING" /\ Set(m, "READY") /\ Goto(w, "cleanup")
       \/ Goto(w, "caught") /\ UNCHANGED status
    /\ UNCHANGED <<intake, source, objects, staff, faults>>

(* cleanupSource; its failure is ignored.                                  *)
CleanupSource(w) ==
    /\ slot[w].pc = "cleanup"
    /\ source' \in {source, FALSE}
    /\ Return(w)
    /\ UNCHANGED <<intake, status, objects, staff, faults>>

(* Variant: the source goes after every attempt.                           *)
CaughtAlways(w) ==
    /\ slot[w].pc = "caught"
    /\ source' = FALSE
    /\ IF status[MediaOf(w)] = "QUARANTINED" THEN Throw(w) ELSE Goto(w, "fail")
    /\ UNCHANGED <<intake, status, objects, staff, faults>>

(* Variant: the failure is not recorded.                                   *)
CaughtUnmarked(w) ==
    /\ slot[w].pc = "caught"
    /\ Throw(w)
    /\ UNCHANGED <<intake, status, source, objects, staff, faults>>

Caught(w) ==
    /\ slot[w].pc = "caught"
    /\ IF status[MediaOf(w)] = "QUARANTINED" THEN Throw(w) ELSE Goto(w, "fail")
    /\ UNCHANGED <<intake, status, source, objects, staff, faults>>

(* markFailed; its failure is swallowed, see StoreFails.                   *)
MarkFailed(w) ==
    LET m == MediaOf(w) IN
    /\ slot[w].pc = "fail"
    /\ status' = IF status[m] = "PROCESSING" THEN [status EXCEPT ![m] = "FAILED"] ELSE status
    /\ Throw(w)
    /\ UNCHANGED <<intake, source, objects, staff, faults>>

(* A call to the store fails: inside the try it reaches the catch, outside *)
(* of it, or in the catch itself, it ends the attempt.                     *)
StoreFails(w) ==
    /\ faults < MaxFaults
    /\ faults' = faults + 1
    /\ \/ slot[w].pc \in {"infected", "unavailable", "promote"} /\ Goto(w, "caught")
       \/ slot[w].pc \in {"status", "claim", "loser", "caught", "fail"} /\ Throw(w)
    /\ UNCHANGED <<intake, status, source, objects, staff>>

-----------------------------------------------------------------------------
Deliver(r) ==
    \/ Check(r) \/ MarkUploading(r) \/ Save(r) \/ Create(r) \/ Add(r) \/ Complete(r)
    \/ \E c \in Undoing : Compensate(r, c)

Attempt(w) ==
    \/ FindStatus(w) \/ ClaimRetry(w) \/ Loser(w) \/ Scan(w) \/ MarkQuarantined(w)
    \/ MarkProcessing(w) \/ Transform(w) \/ MarkReady(w) \/ CleanupSource(w)
    \/ Caught(w) \/ MarkFailed(w)

StaffSettles == StaffAddFails \/ \E j \in ExtraJobs : StaffAdds(j)

Next ==
    \/ \E r \in Requests : Deliver(r) \/ ApiCrash(r)
    \/ AbortCheck \/ AbortWrite
    \/ \E m \in Requests : Reject(m) \/ RequestRescan(m) \/ RetryFailed(m)
    \/ StaffSettles \/ StaffCrash
    \/ \E j \in JobIds : Promote(j) \/ Stall(j) \/ \E w \in Slots : Take(w, j)
    \/ \E w \in Slots : Attempt(w) \/ StoreFails(w) \/ LoseLock(w) \/ Crash(w)

Spec == Init /\ [][Next]_vars

(* The processes run: a request, an attempt or a staff call that has begun *)
(* goes on, and the queue promotes, checks for stalls and hands out jobs.  *)
Fairness ==
    /\ \A r \in Requests : WF_vars(Deliver(r))
    /\ WF_vars(StaffSettles)
    /\ \A w \in Slots : WF_vars(Attempt(w))
    /\ \A j \in JobIds : WF_vars(Promote(j) \/ Stall(j) \/ \E w \in Slots : Take(w, j))

FairSpec == Spec /\ Fairness

-----------------------------------------------------------------------------
TypeOK ==
    /\ session \in {"INITIATED", "UPLOADING", "COMPLETED", "FAILED", "ABORTED"}
    /\ request \in [Requests ->
           [pc : {"check", "refused", "mark", "save", "create", "add", "complete",
                  "done", "undo", "dead"}, owes : SUBSET Undoing]]
    /\ abort \in {"idle", "write", "done"}
    /\ status \in [Requests ->
           {"ABSENT", "PROCESSING", "QUARANTINED", "READY", "FAILED", "REJECTED"}]
    /\ source \in BOOLEAN
    /\ objects \subseteq Requests
    /\ job \in [JobIds ->
           [state : {"none", "waiting", "active", "delayed", "completed", "failed"},
            media : Requests \cup {NoMedia}, made : 0 .. MaxAttempts,
            stalls : 0 .. MaxStalls, owner : Slots \cup {NoSlot}]]
    /\ slot \in [Slots ->
           [pc : {"idle", "status", "claim", "loser", "scan", "infected", "unavailable",
                  "promote", "transform", "ready", "cleanup", "caught", "fail"},
            job : JobIds, media : Requests \cup {NoMedia}, rescan : BOOLEAN]]
    /\ staff \in [pc : {"idle", "rescan", "retry"}, media : Requests \cup {NoMedia}]
    /\ lost \in 0 .. MaxLost /\ faults \in 0 .. MaxFaults

(* No single crash or lost lock of an attempt strands a row: somebody is   *)
(* in charge of every row in PROCESSING and will settle it, a job still to *)
(* run, an attempt under way even if it lost its job, the delivery that    *)
(* will queue it, or a retry about to be queued.  Not so after a second    *)
(* one, for BullMQ fails a job that stalls again without running it; nor   *)
(* after a dead API process or a failed store call; nor once the delivery  *)
(* is undone: its compensation may mark the row FAILED, an attempt claim   *)
(* it back, die, and the job be removed before it reruns.                  *)
UnfinishedIsOwned ==
    \A m \in Requests :
        status[m] = "PROCESSING" /\ request[m].pc # "undo" /\ lost <= 1 /\ faults = 0 =>
            \/ \E j \in JobIds : /\ job[j].media = m
                                 /\ job[j].state \in {"waiting", "delayed", "active"}
            \/ \E w \in Slots : slot[w].pc # "idle" /\ MediaOf(w) = m
            \/ request[m].pc \in {"add", "complete"}
            \/ staff = [pc |-> "retry", media |-> m]

(* As long as a row may still be processed, by a later attempt, a rescan   *)
(* or a manual retry, the file it is processed from is kept, unless the    *)
(* delivery itself was compensated or died.                                *)
SourceIsKept ==
    \A m \in Requests :
        /\ status[m] \in {"PROCESSING", "QUARANTINED", "FAILED"}
        /\ request[m].pc \notin {"undo", "dead"}
        => source

(* A decided row is not taken up again: no late attempt, second job, retry *)
(* or rescan moves a READY or REJECTED row, only the delivery's own        *)
(* compensation may.                                                       *)
DecisionIsFinal ==
    [][\A m \in Requests :
           Terminal(m) /\ status'[m] # status[m] =>
               request[m].pc = "undo" /\ "media" \in request[m].owes]_vars

(* An accepted row does not stay in PROCESSING: some attempt settles it as *)
(* READY, FAILED or QUARANTINED, unless the delivery is undone or a second *)
(* attempt is lost (above), an API process dies before its add, or a store *)
(* call of an attempt fails.                                               *)
EveryUploadSettles ==
    \A m \in Requests :
        status[m] = "PROCESSING" ~>
            status[m] # "PROCESSING" \/ request[m].pc = "undo" \/ lost > 1 \/ faults > 0
=============================================================================
