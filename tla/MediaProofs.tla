------------------------------ MODULE MediaProofs ------------------------------
(***************************************************************************)
(* Proofs about the life of media.  First about MediaProcessing, for any   *)
(* deliveries, jobs, slots and limits; then about MediaRetention, for any  *)
(* media, any number of overlapping passes, any batch size and any users   *)
(* of the media; and last that processing moves a row only as retention    *)
(* expects of it.  The names of the two modules differ, so that both can   *)
(* be extended here; the row's status, one column, is a variable of each.  *)
(***************************************************************************)
EXTENDS MediaProcessing, MediaRetention, TLAPS

-----------------------------------------------------------------------------
(* Jobs and attempts.                                                      *)

JobRows == [state : {"none", "waiting", "active", "delayed", "completed", "failed"},
            media : Requests \cup {NoMedia}, made : 0 .. MaxAttempts,
            stalls : 0 .. MaxStalls, owner : Slots \cup {NoSlot}]
SlotRows == [pc : {"idle", "status", "claim", "loser", "scan", "infected", "unavailable",
                   "promote", "transform", "ready", "cleanup", "caught", "fail"},
             job : JobIds, media : Requests \cup {NoMedia}, rescan : BOOLEAN]
StaffRows == [pc : {"idle", "rescan", "retry"}, media : Requests \cup {NoMedia}]

QueueTypes ==
    /\ job \in [JobIds -> JobRows]
    /\ slot \in [Slots -> SlotRows]
    /\ lost \in 0 .. MaxLost

(* Jobs and attempts are for a medium that exists.                         *)
MediaKnown ==
    /\ \A j \in JobIds : job[j].state # "none" => job[j].media \in Requests
    /\ \A w \in Slots : slot[w].pc # "idle" => slot[w].media \in Requests

(* The owner of a job is at work on it.                                    *)
OwnersWork ==
    \A j \in JobIds :
        job[j].owner # NoSlot =>
            /\ job[j].state = "active"
            /\ slot[job[j].owner].pc # "idle"
            /\ slot[job[j].owner].job = j
            /\ slot[job[j].owner].media = job[j].media

(* A job that may still run has an attempt left.                           *)
AttemptsLeft ==
    \A j \in JobIds :
        job[j].state \in {"none", "waiting", "active", "delayed"} => job[j].made < MaxAttempts

(* Until an attempt dies or loses its lock each owns its job, and the      *)
(* first job without an owner has not stalled before.                      *)
OneLoss ==
    /\ lost = 0 =>
         /\ \A w \in Slots : slot[w].pc # "idle" => job[slot[w].job].owner = w
         /\ \A j \in JobIds : job[j].stalls = 0 /\ (job[j].state = "active" => job[j].owner # NoSlot)
    /\ lost <= 1 =>
         \A j \in JobIds : job[j].state = "active" /\ job[j].owner = NoSlot => job[j].stalls = 0

QInv ==
    /\ QueueTypes
    /\ MediaKnown
    /\ OwnersWork
    /\ AttemptsLeft
    /\ OneLoss

-----------------------------------------------------------------------------
(* What steps do to jobs and attempts.                                     *)

(* An attempt goes on.                                                     *)
GoesOn(w) ==
    /\ slot[w].pc # "idle"
    /\ \E s \in SlotRows :
         /\ slot' = [slot EXCEPT ![w] = s]
         /\ s.pc # "idle" /\ s.job = slot[w].job /\ s.media = slot[w].media
    /\ UNCHANGED <<job, lost>>

(* An attempt ends, and settles its job if it owns it.                     *)
Ends(w) ==
    /\ slot[w].pc # "idle"
    /\ slot' = [slot EXCEPT ![w] = IdleSlot]
    /\ \/ job[slot[w].job].owner # w /\ job' = job
       \/ /\ job[slot[w].job].owner = w
          /\ \E x \in JobRows :
               /\ job' = [job EXCEPT ![slot[w].job] = x]
               /\ x.owner = NoSlot /\ x.state \in {"completed", "delayed", "failed"}
               /\ x.media = job[slot[w].job].media /\ x.stalls = job[slot[w].job].stalls
               /\ x.state = "delayed" => x.made < MaxAttempts
    /\ UNCHANGED lost

(* An attempt dies or loses its lock.                                      *)
Loses(w) ==
    /\ slot[w].pc # "idle"
    /\ lost < MaxLost /\ lost' = lost + 1
    /\ slot' \in {slot, [slot EXCEPT ![w] = IdleSlot]}
    /\ job' = IF job[slot[w].job].owner = w
              THEN [job EXCEPT ![slot[w].job].owner = NoSlot] ELSE job

(* A job is added, removed, promoted, or found stalled.                    *)
JobMoves(j) ==
    /\ UNCHANGED <<slot, lost>>
    /\ job[j].owner = NoSlot
    /\ \E x \in JobRows :
         /\ job' = [job EXCEPT ![j] = x]
         /\ x.owner = NoSlot /\ x.state # "active"
         /\ x.state # "none" => x.media \in Requests
         /\ x.state \in {"none", "waiting"} => x.made < MaxAttempts
         /\ x.state \notin {"none", "waiting"} => x.state = "failed"
         /\ lost = 0 => x.stalls = 0

LEMMA IdleFacts ==
    IdleSlot \in SlotRows /\ IdleSlot.pc = "idle"
  BY DEF IdleSlot, SlotRows, JobIds

LEMMA NoJobFacts ==
    NoJob \in JobRows /\ NoJob.state = "none" /\ NoJob.owner = NoSlot /\ NoJob.made = 0
      /\ NoJob.stalls = 0
  BY LimitsAssumption DEF NoJob, JobRows

LEMMA GoingOn ==
    ASSUME QInv, NEW w \in Slots, GoesOn(w)
    PROVE  QInv'
  <1> USE DEF QInv
  <1>1. PICK s \in SlotRows :
          /\ slot' = [slot EXCEPT ![w] = s]
          /\ s.pc # "idle" /\ s.job = slot[w].job /\ s.media = slot[w].media
    BY DEF GoesOn
  <1>2. job' = job /\ lost' = lost /\ slot[w].pc # "idle"
    BY DEF GoesOn
  <1>3. \A v \in Slots :
          /\ slot'[v].pc # "idle" <=> slot[v].pc # "idle"
          /\ slot'[v].job = slot[v].job /\ slot'[v].media = slot[v].media
    BY <1>1, <1>2 DEF QueueTypes
  <1>4. QueueTypes'
    BY <1>1, <1>2 DEF QueueTypes
  <1>5. MediaKnown' /\ AttemptsLeft' /\ OneLoss'
    BY <1>2, <1>3 DEF MediaKnown, AttemptsLeft, OneLoss
  <1>6. OwnersWork'
    <2>1. \A j \in JobIds : job[j].owner # NoSlot => job[j].owner \in Slots
      BY DEF QueueTypes, JobRows
    <2> QED  BY <1>2, <1>3, <2>1 DEF OwnersWork
  <1> QED  BY <1>4, <1>5, <1>6

LEMMA Ending ==
    ASSUME QInv, NEW w \in Slots, Ends(w)
    PROVE  QInv'
  <1> USE DEF QInv
  <1> DEFINE i == slot[w].job
  <1>1. i \in JobIds /\ slot[w].pc # "idle" /\ lost' = lost
    BY DEF Ends, QueueTypes, SlotRows
  <1>2. /\ slot'[w] = IdleSlot
        /\ \A v \in Slots \ {w} : slot'[v] = slot[v]
    BY DEF Ends, QueueTypes
  <1>3. \A j \in JobIds :
          \/ job'[j] = job[j] /\ job[j].owner # w
          \/ /\ j = i /\ job[j].owner = w
             /\ job'[j].owner = NoSlot /\ job'[j].state \in {"completed", "delayed", "failed"}
             /\ job'[j].media = job[j].media /\ job'[j].stalls = job[j].stalls
             /\ job'[j].state = "delayed" => job'[j].made < MaxAttempts
    <2>1. \A j \in JobIds : job[j].owner = w => j = i
      BY NamesAssumption DEF OwnersWork
    <2>2. CASE job[i].owner # w /\ job' = job
      BY <2>1, <2>2
    <2>3. CASE job[i].owner = w
      <3>1. PICK x \in JobRows :
              /\ job' = [job EXCEPT ![i] = x]
              /\ x.owner = NoSlot /\ x.state \in {"completed", "delayed", "failed"}
              /\ x.media = job[i].media /\ x.stalls = job[i].stalls
              /\ x.state = "delayed" => x.made < MaxAttempts
        BY <2>3 DEF Ends
      <3> QED  BY <1>1, <2>1, <2>3, <3>1 DEF QueueTypes
    <2> QED  BY <2>2, <2>3 DEF Ends
  <1>4. QueueTypes'
    <2>1. job' \in [JobIds -> JobRows]
      BY <1>1 DEF QueueTypes, Ends
    <2>2. slot' \in [Slots -> SlotRows]
      BY IdleFacts DEF QueueTypes, Ends
    <2> QED  BY <1>1, <2>1, <2>2 DEF QueueTypes
  <1> HIDE DEF i
  <1>5. MediaKnown' /\ AttemptsLeft'
    <2>1. \A j \in JobIds : job[j].owner = w => job[j].state = "active"
      BY NamesAssumption DEF OwnersWork
    <2>2. MediaKnown'
      BY <1>1, <1>2, <1>3, <2>1, IdleFacts DEF MediaKnown
    <2>3. AttemptsLeft'
      BY <1>3 DEF AttemptsLeft
    <2> QED  BY <2>2, <2>3
  <1>6. OwnersWork'
    <2>1. \A j \in JobIds : job[j].owner # NoSlot => job[j].owner \in Slots
      BY DEF QueueTypes, JobRows
    <2> QED  BY <1>2, <1>3, <2>1 DEF OwnersWork
  <1>7. OneLoss'
    <2>1. \A j \in JobIds :
            /\ job'[j].stalls = job[j].stalls
            /\ job'[j].state = "active" => job'[j] = job[j]
      BY <1>3
    <2>2. \A v \in Slots : slot'[v].pc # "idle" => v # w /\ slot'[v] = slot[v]
      BY <1>2, IdleFacts
    <2>3. \A v \in Slots : slot[v].job \in JobIds
      BY DEF QueueTypes, SlotRows
    <2>4. lost = 0 => \A v \in Slots : slot'[v].pc # "idle" => job'[slot'[v].job].owner = v
      BY <1>3, <2>2, <2>3 DEF OneLoss
    <2> QED  BY <1>1, <2>1, <2>4 DEF OneLoss
  <1> QED  BY <1>4, <1>5, <1>6, <1>7

LEMMA Losing ==
    ASSUME QInv, NEW w \in Slots, Loses(w)
    PROVE  QInv'
  <1> USE DEF QInv
  <1> DEFINE i == slot[w].job
  <1>1. /\ i \in JobIds /\ slot[w].pc # "idle"
        /\ lost' = lost + 1 /\ lost \in Nat /\ lost' \in 0 .. MaxLost
    BY LimitsAssumption DEF Loses, QueueTypes, SlotRows
  <1>2. \A v \in Slots : slot'[v] = slot[v] \/ (v = w /\ slot'[v] = IdleSlot)
    <2>1. CASE slot' = slot
      BY <2>1
    <2>2. CASE slot' = [slot EXCEPT ![w] = IdleSlot]
      BY <2>2 DEF QueueTypes
    <2> QED  BY <2>1, <2>2 DEF Loses
  <1>3. \A j \in JobIds : job[j].owner = w => j = i /\ job[j].state = "active"
    BY NamesAssumption DEF OwnersWork
  <1>4. \A j \in JobIds :
          /\ job'[j].state = job[j].state /\ job'[j].media = job[j].media
          /\ job'[j].made = job[j].made /\ job'[j].stalls = job[j].stalls
          /\ job[j].owner # w => job'[j].owner = job[j].owner
          /\ job[j].owner = w => job'[j].owner = NoSlot
    <2>1. CASE job[i].owner # w
      BY <1>3, <2>1 DEF Loses
    <2>2. CASE job[i].owner = w
      <3> DEFINE x == [job[i] EXCEPT !.owner = NoSlot]
      <3>1. /\ x.state = job[i].state /\ x.media = job[i].media /\ x.owner = NoSlot
            /\ x.made = job[i].made /\ x.stalls = job[i].stalls
        BY <1>1 DEF QueueTypes, JobRows
      <3>2. job' = [job EXCEPT ![i] = x]
        BY <2>2 DEF Loses
      <3> HIDE DEF x
      <3> QED  BY <1>1, <1>3, <2>2, <3>1, <3>2 DEF QueueTypes
    <2> QED  BY <2>1, <2>2
  <1>5. QueueTypes'
    <2>1. job' \in [JobIds -> JobRows]
      BY <1>1 DEF QueueTypes, Loses, JobRows
    <2>2. slot' \in [Slots -> SlotRows]
      BY IdleFacts DEF QueueTypes, Loses
    <2> QED  BY <1>1, <2>1, <2>2 DEF QueueTypes
  <1> HIDE DEF i
  <1>6. MediaKnown' /\ AttemptsLeft'
    BY <1>2, <1>4, IdleFacts DEF MediaKnown, AttemptsLeft
  <1>7. OwnersWork'
    <2>1. \A j \in JobIds : job[j].owner # NoSlot => job[j].owner \in Slots
      BY DEF QueueTypes, JobRows
    <2> QED  BY <1>2, <1>4, <2>1 DEF OwnersWork
  <1>8. OneLoss'
    BY <1>1, <1>4 DEF OneLoss
  <1> QED  BY <1>5, <1>6, <1>7, <1>8

LEMMA Moving ==
    ASSUME QInv, NEW j \in JobIds, JobMoves(j)
    PROVE  QInv'
  <1> USE DEF QInv
  <1>1. PICK x \in JobRows :
          /\ job' = [job EXCEPT ![j] = x]
          /\ x.owner = NoSlot /\ x.state # "active"
          /\ x.state # "none" => x.media \in Requests
          /\ x.state \in {"none", "waiting"} => x.made < MaxAttempts
          /\ x.state \notin {"none", "waiting"} => x.state = "failed"
          /\ lost = 0 => x.stalls = 0
    BY DEF JobMoves
  <1>2. slot' = slot /\ lost' = lost /\ job[j].owner = NoSlot
    BY DEF JobMoves
  <1>3. job'[j] = x /\ \A k \in JobIds \ {j} : job'[k] = job[k]
    BY <1>1 DEF QueueTypes
  <1>4. QueueTypes'
    BY <1>1, <1>2 DEF QueueTypes
  <1>5. MediaKnown' /\ AttemptsLeft'
    BY <1>1, <1>2, <1>3 DEF MediaKnown, AttemptsLeft
  <1>6. OwnersWork'
    BY <1>1, <1>2, <1>3 DEF OwnersWork
  <1>7. OneLoss'
    <2>1. \A w \in Slots : slot[w].job \in JobIds /\ w # NoSlot
      BY NamesAssumption DEF QueueTypes, SlotRows
    <2>2. lost = 0 => \A w \in Slots : slot[w].pc # "idle" => slot[w].job # j
      BY <1>2, <2>1 DEF OneLoss
    <2> QED  BY <1>1, <1>2, <1>3, <2>1, <2>2 DEF OneLoss
  <1> QED  BY <1>4, <1>5, <1>6, <1>7

LEMMA Taking ==
    ASSUME QInv, NEW w \in Slots, NEW j \in JobIds, Take(w, j)
    PROVE  QInv'
  <1> USE DEF QInv
  <1> DEFINE x == [job[j] EXCEPT !.state = "active", !.owner = w]
             s == [IdleSlot EXCEPT !.pc = "status", !.job = j, !.media = job[j].media]
  <1>1. /\ job' = [job EXCEPT ![j] = x] /\ slot' = [slot EXCEPT ![w] = s] /\ lost' = lost
        /\ slot[w].pc = "idle" /\ job[j].state = "waiting"
    BY DEF Take
  <1>2. /\ x \in JobRows /\ x.state = "active" /\ x.owner = w /\ x.media = job[j].media
        /\ x.made = job[j].made /\ x.stalls = job[j].stalls
    BY DEF QueueTypes, JobRows
  <1>3. s \in SlotRows /\ s.pc = "status" /\ s.job = j /\ s.media = job[j].media
    BY DEF QueueTypes, JobRows, SlotRows, IdleSlot
  <1> HIDE DEF x, s
  <1>4. /\ job'[j] = x /\ \A k \in JobIds \ {j} : job'[k] = job[k]
        /\ slot'[w] = s /\ \A v \in Slots \ {w} : slot'[v] = slot[v]
    BY <1>1 DEF QueueTypes
  <1>5. QueueTypes'
    BY <1>1, <1>2, <1>3 DEF QueueTypes
  <1>6. MediaKnown' /\ AttemptsLeft'
    BY <1>1, <1>2, <1>3, <1>4 DEF MediaKnown, AttemptsLeft
  <1>7. w # NoSlot /\ job[j].owner = NoSlot /\ \A k \in JobIds : job[k].owner # w
    BY <1>1, NamesAssumption DEF OwnersWork
  <1>8. OwnersWork'
    <2>1. \A k \in JobIds : job[k].owner # NoSlot => job[k].owner \in Slots
      BY DEF QueueTypes, JobRows
    <2> QED  BY <1>2, <1>3, <1>4, <1>7, <2>1 DEF OwnersWork
  <1>9. OneLoss'
    <2>1. \A v \in Slots : slot[v].job \in JobIds /\ v # NoSlot
      BY NamesAssumption DEF QueueTypes, SlotRows
    <2>2. ASSUME lost = 0, NEW v \in Slots, slot'[v].pc # "idle"
          PROVE  job'[slot'[v].job].owner = v
      BY <1>2, <1>3, <1>4, <1>7, <2>1, <2>2 DEF OneLoss
    <2>3. \A k \in JobIds : /\ job'[k].stalls = job[k].stalls
                            /\ job'[k].state = "active" => k = j \/ job'[k] = job[k]
      BY <1>2, <1>4
    <2> QED  BY <1>1, <1>2, <1>4, <1>7, <2>2, <2>3 DEF OneLoss
  <1> QED  BY <1>5, <1>6, <1>8, <1>9

LEMMA Resting ==
    ASSUME QInv, UNCHANGED <<job, slot, lost>>
    PROVE  QInv'
  BY DEF QInv, QueueTypes, MediaKnown, OwnersWork, AttemptsLeft, OneLoss

-----------------------------------------------------------------------------
(* Every step does one of these.                                           *)
LEMMA ReturnEnds ==
    ASSUME QInv, NEW w \in Slots, slot[w].pc # "idle", Return(w) \/ Throw(w)
    PROVE  Ends(w)
  <1> USE DEF QInv
  <1> DEFINE i == slot[w].job
             made == job[i].made + 1
  <1>1. i \in JobIds
    BY DEF QueueTypes, SlotRows
  <1>2. job[i] \in JobRows
    BY <1>1 DEF QueueTypes
  <1>3. CASE Return(w)
    <2> DEFINE x == [job[i] EXCEPT !.state = "completed", !.owner = NoSlot]
    <2>1. /\ x \in JobRows /\ x.owner = NoSlot /\ x.state = "completed"
          /\ x.media = job[i].media /\ x.stalls = job[i].stalls
      BY <1>2 DEF JobRows
    <2>2. job' = IF job[i].owner = w THEN [job EXCEPT ![i] = x] ELSE job
      BY <1>3 DEF Return
    <2>3. slot' = [slot EXCEPT ![w] = IdleSlot] /\ lost' = lost
      BY <1>3 DEF Return
    <2> HIDE DEF x
    <2> QED  BY <2>1, <2>2, <2>3 DEF Ends
  <1>4. CASE Throw(w)
    <2> DEFINE x == [job[i] EXCEPT !.state = IF made < MaxAttempts THEN "delayed" ELSE "failed",
                                   !.made = made, !.owner = NoSlot]
    <2>1. slot' = [slot EXCEPT ![w] = IdleSlot] /\ lost' = lost
      BY <1>4 DEF Throw
    <2>2. CASE job[i].owner # w
      BY <1>4, <2>1, <2>2 DEF Throw, Ends
    <2>3. CASE job[i].owner = w
      <3>1. job[i].made < MaxAttempts
        BY <1>1, <2>3, NamesAssumption DEF OwnersWork, AttemptsLeft
      <3>2. made \in 0 .. MaxAttempts
        BY <1>2, <3>1, LimitsAssumption DEF JobRows
      <3>3. /\ x \in JobRows /\ x.owner = NoSlot /\ x.state \in {"delayed", "failed"}
            /\ x.media = job[i].media /\ x.stalls = job[i].stalls
            /\ x.state = "delayed" => x.made < MaxAttempts
        BY <1>2, <3>2 DEF JobRows
      <3>4. job' = [job EXCEPT ![i] = x]
        BY <1>4, <2>3 DEF Throw
      <3> HIDE DEF x
      <3> QED  BY <2>1, <2>3, <3>3, <3>4 DEF Ends
    <2> QED  BY <2>2, <2>3
  <1> QED  BY <1>3, <1>4

Pcs == {"idle", "status", "claim", "loser", "scan", "infected", "unavailable",
        "promote", "transform", "ready", "cleanup", "caught", "fail"}

LEMMA GotoGoesOn ==
    ASSUME QInv, NEW w \in Slots, slot[w].pc # "idle", NEW pc \in Pcs \ {"idle"}, Goto(w, pc)
    PROVE  GoesOn(w)
  <1> DEFINE s == [slot[w] EXCEPT !.pc = pc]
  <1>1. s \in SlotRows /\ s.pc # "idle" /\ s.job = slot[w].job /\ s.media = slot[w].media
    BY DEF QInv, QueueTypes, SlotRows, Pcs
  <1>2. slot' = [slot EXCEPT ![w] = s] /\ UNCHANGED <<job, lost>>
    BY DEF Goto
  <1> HIDE DEF s
  <1> QED  BY <1>1, <1>2 DEF GoesOn

LEMMA AttemptMoves ==
    ASSUME QInv, NEW w \in Slots, Attempt(w) \/ StoreFails(w)
    PROVE  GoesOn(w) \/ Ends(w)
  <1> USE ReturnEnds, GotoGoesOn DEF Pcs
  <1>1. CASE FindStatus(w)
    <2>1. CASE Return(w)
      BY <1>1, <2>1 DEF FindStatus
    <2>2. CASE ~Terminal(MediaOf(w)) /\ ~Return(w)
      <3> DEFINE s == [slot[w] EXCEPT !.pc = IF status[MediaOf(w)] = "FAILED" THEN "claim" ELSE "scan",
                                      !.rescan = status[MediaOf(w)] = "QUARANTINED"]
      <3>1. s \in SlotRows /\ s.pc # "idle" /\ s.job = slot[w].job /\ s.media = slot[w].media
        BY DEF QInv, QueueTypes, SlotRows
      <3>2. slot' = [slot EXCEPT ![w] = s] /\ UNCHANGED <<job, lost>> /\ slot[w].pc # "idle"
        BY <1>1, <2>2 DEF FindStatus
      <3> HIDE DEF s
      <3> QED  BY <3>1, <3>2 DEF GoesOn
    <2> QED  BY <1>1, <2>1, <2>2 DEF FindStatus
  <1>2. CASE Scan(w)
    <2>1. PICK verdict \in {"infected", "unavailable",
                            IF slot[w].rescan THEN "promote" ELSE "transform"} : Goto(w, verdict)
      BY <1>2 DEF Scan
    <2> QED  BY <1>2, <2>1 DEF Scan
  <1>3. CASE ClaimRetry(w) \/ Loser(w) \/ MarkQuarantined(w) \/ MarkProcessing(w)
    BY <1>3 DEF ClaimRetry, Loser, MarkQuarantined, MarkProcessing
  <1>4. CASE Transform(w) \/ MarkReady(w) \/ CleanupSource(w)
    BY <1>4 DEF Transform, MarkReady, CleanupSource
  <1>5. CASE Caught(w) \/ MarkFailed(w) \/ StoreFails(w)
    BY <1>5 DEF Caught, MarkFailed, StoreFails
  <1> QED  BY <1>1, <1>2, <1>3, <1>4, <1>5 DEF Attempt

-----------------------------------------------------------------------------
(* Deliveries, rows and files.                                             *)

RowTypes ==
    /\ session \in {"INITIATED", "UPLOADING", "COMPLETED", "FAILED", "ABORTED"}
    /\ request \in [Requests ->
           [pc : {"check", "refused", "mark", "save", "create", "add", "complete",
                  "done", "undo", "dead"}, owes : SUBSET Undoing]]
    /\ abort \in {"idle", "write", "done"}
    /\ status \in [Requests ->
           {"ABSENT", "PROCESSING", "QUARANTINED", "READY", "FAILED", "REJECTED"}]
    /\ source \in BOOLEAN
    /\ objects \subseteq Requests
    /\ staff \in StaffRows
    /\ faults \in 0 .. MaxFaults

(* The staff acts on a medium that exists.                                 *)
StaffKnows == staff.pc # "idle" => staff.media \in Requests

(* A delivery has no row before it creates it.                             *)
CreatedOnce ==
    \A r \in Requests :
        request[r].pc \in {"check", "refused", "mark", "save", "create"} => status[r] = "ABSENT"

(* A row is marked READY after its objects were written.                   *)
ReadyIsWritten ==
    /\ \A w \in Slots : slot[w].pc = "ready" => slot[w].media \in objects
    /\ \A m \in Requests : status[m] = "READY" => m \in objects

IInv ==
    /\ QInv
    /\ RowTypes
    /\ StaffKnows
    /\ CreatedOnce
    /\ ReadyIsWritten

LEMMA InitIInv == Init => IInv
  <1> SUFFICES ASSUME Init
               PROVE  IInv
    OBVIOUS
  <1>1. QInv
    BY IdleFacts, NoJobFacts, LimitsAssumption
       DEF Init, QInv, QueueTypes, MediaKnown, OwnersWork, AttemptsLeft, OneLoss
  <1>2. IdleStaff \in StaffRows /\ IdleStaff.pc = "idle"
    BY DEF IdleStaff, StaffRows
  <1>3. abort \in {"idle", "write", "done"}
    BY DEF Init
  <1>4. /\ request \in [Requests ->
              [pc : {"check", "refused", "mark", "save", "create", "add", "complete",
                     "done", "undo", "dead"}, owes : SUBSET Undoing]]
        /\ status \in [Requests ->
              {"ABSENT", "PROCESSING", "QUARANTINED", "READY", "FAILED", "REJECTED"}]
        /\ \A m \in Requests : status[m] = "ABSENT"
    BY DEF Init
  <1>5. RowTypes
    <2>1. session = "INITIATED" /\ source = FALSE /\ objects = {} /\ staff = IdleStaff /\ faults = 0
      BY DEF Init
    <2>2. faults \in 0 .. MaxFaults
      BY <2>1, LimitsAssumption
    <2>3. objects \subseteq Requests /\ source \in BOOLEAN /\ staff \in StaffRows
      BY <1>2, <2>1
    <2> QED  BY <1>3, <1>4, <2>1, <2>2, <2>3, Zenon DEF RowTypes
  <1>6. StaffKnows /\ CreatedOnce
    BY <1>2, <1>4 DEF Init, StaffKnows, CreatedOnce
  <1>7. ReadyIsWritten
    BY <1>4, IdleFacts DEF Init, ReadyIsWritten
  <1> QED  BY <1>1, <1>5, <1>6, <1>7 DEF IInv

LEMMA AddMoves ==
    ASSUME IInv, NEW j \in JobIds, NEW m \in Requests, job' = Added(j, m),
           UNCHANGED <<slot, lost>>
    PROVE  JobMoves(j) \/ UNCHANGED jobs
  <1> DEFINE x == [NoJob EXCEPT !.state = "waiting", !.media = m]
  <1>1. /\ x \in JobRows /\ x.owner = NoSlot /\ x.state = "waiting" /\ x.media = m
        /\ x.made = 0 /\ x.stalls = 0
    BY NoJobFacts DEF JobRows
  <1>2. IF job[j].state = "none" THEN job' = [job EXCEPT ![j] = x] ELSE job' = job
    BY DEF Added
  <1>3. job[j].state = "none" => job[j].owner = NoSlot
    BY DEF IInv, QInv, OwnersWork
  <1> HIDE DEF x
  <1> QED  BY <1>1, <1>2, <1>3, LimitsAssumption DEF JobMoves, jobs

LEMMA QueueStep ==
    ASSUME IInv, Next
    PROVE  QInv'
  <1> USE DEF IInv
  <1>1. ASSUME NEW r \in Requests, Deliver(r) \/ ApiCrash(r)
        PROVE  QInv'
    <2>1. CASE Add(r)
      <3>1. SessionJob \in JobIds
        BY DEF JobIds
      <3>2. JobMoves(SessionJob) \/ UNCHANGED jobs
        BY <2>1, <3>1, AddMoves DEF Add, jobs
      <3> QED  BY <3>1, <3>2, Moving, Resting DEF jobs
    <2>2. ASSUME NEW c \in Undoing, Compensate(r, c)
          PROVE  QInv'
      <3>1. CASE job' = job
        BY <2>2, <3>1, Resting DEF Compensate
      <3>2. CASE job[SessionJob].state # "active" /\ job' = [job EXCEPT ![SessionJob] = NoJob]
        <4>1. SessionJob \in JobIds /\ job[SessionJob].owner = NoSlot
          BY <3>2 DEF JobIds, QInv, OwnersWork
        <4>2. JobMoves(SessionJob)
          <5>1. UNCHANGED <<slot, lost>>
            BY <2>2 DEF Compensate
          <5>2. NoJob.made < MaxAttempts
            BY NoJobFacts, LimitsAssumption
          <5> QED  BY <3>2, <4>1, <5>1, <5>2, NoJobFacts DEF JobMoves
        <4> QED  BY <4>1, <4>2, Moving
      <3> QED  BY <2>2, <3>1, <3>2 DEF Compensate
    <2>3. CASE Check(r) \/ MarkUploading(r) \/ Save(r) \/ Create(r) \/ Complete(r) \/ ApiCrash(r)
      BY <2>3, Resting DEF Check, MarkUploading, Save, Create, Complete, ApiCrash, jobs
    <2> QED  BY <1>1, <2>1, <2>2, <2>3 DEF Deliver
  <1>2. ASSUME NEW j \in ExtraJobs, StaffAdds(j)
        PROVE  QInv'
    <2>1. staff.media \in Requests /\ j \in JobIds
      BY <1>2 DEF StaffAdds, StaffKnows, JobIds
    <2>2. JobMoves(j) \/ UNCHANGED jobs
      BY <1>2, <2>1, AddMoves DEF StaffAdds
    <2> QED  BY <2>1, <2>2, Moving, Resting DEF jobs
  <1>3. ASSUME NEW m \in Requests, Reject(m) \/ RequestRescan(m) \/ RetryFailed(m)
        PROVE  QInv'
    BY <1>3, Resting DEF Reject, RequestRescan, RetryFailed, jobs
  <1>4. CASE AbortCheck \/ AbortWrite \/ StaffAddFails \/ StaffCrash
    BY <1>4, Resting DEF AbortCheck, AbortWrite, StaffAddFails, StaffCrash, jobs
  <1>5. ASSUME NEW j \in JobIds, Promote(j)
        PROVE  QInv'
    <2> DEFINE x == [job[j] EXCEPT !.state = "waiting"]
    <2>1. job[j] \in JobRows
      BY DEF QInv, QueueTypes
    <2>2. /\ x \in JobRows /\ x.state = "waiting" /\ x.media = job[j].media
          /\ x.made = job[j].made /\ x.stalls = job[j].stalls /\ x.owner = job[j].owner
      BY <2>1 DEF JobRows
    <2>3. job' = [job EXCEPT ![j] = x] /\ UNCHANGED <<slot, lost>> /\ job[j].state = "delayed"
      BY <1>5 DEF Promote
    <2> HIDE DEF x
    <2>4. JobMoves(j)
      BY <2>2, <2>3 DEF JobMoves, QInv, MediaKnown, OwnersWork, AttemptsLeft, OneLoss
    <2> QED  BY <2>4, Moving
  <1>6. ASSUME NEW j \in JobIds, Stall(j)
        PROVE  QInv'
    <2>1. job[j] \in JobRows /\ job[j].state = "active" /\ job[j].owner = NoSlot
      BY <1>6 DEF QInv, QueueTypes, Stall
    <2>2. lost # 0 /\ job[j].media \in Requests /\ job[j].made < MaxAttempts
      BY <2>1 DEF QInv, OneLoss, MediaKnown, AttemptsLeft
    <2>3. CASE job[j].stalls < MaxStalls
      <3> DEFINE n == job[j].stalls + 1
                 x == [job[j] EXCEPT !.state = "waiting", !.stalls = n]
      <3>1. n \in 0 .. MaxStalls
        BY <2>1, <2>3, LimitsAssumption DEF JobRows
      <3>2. /\ x \in JobRows /\ x.state = "waiting" /\ x.media = job[j].media
            /\ x.made = job[j].made /\ x.owner = NoSlot
        BY <2>1, <3>1 DEF JobRows
      <3>3. job' = [job EXCEPT ![j] = x] /\ UNCHANGED <<slot, lost>>
        BY <1>6, <2>3 DEF Stall
      <3> HIDE DEF x
      <3>4. JobMoves(j)
        BY <2>1, <2>2, <3>2, <3>3 DEF JobMoves
      <3> QED  BY <3>4, Moving
    <2>4. CASE ~(job[j].stalls < MaxStalls)
      <3> DEFINE x == [job[j] EXCEPT !.state = "failed"]
      <3>1. /\ x \in JobRows /\ x.state = "failed" /\ x.media = job[j].media
            /\ x.owner = NoSlot
        BY <2>1 DEF JobRows
      <3>2. job' = [job EXCEPT ![j] = x] /\ UNCHANGED <<slot, lost>>
        BY <1>6, <2>4 DEF Stall
      <3> HIDE DEF x
      <3>3. JobMoves(j)
        BY <2>1, <2>2, <3>1, <3>2 DEF JobMoves
      <3> QED  BY <3>3, Moving
    <2> QED  BY <2>3, <2>4
  <1>7. ASSUME NEW w \in Slots, NEW j \in JobIds, Take(w, j)
        PROVE  QInv'
    BY <1>7, Taking
  <1>8. ASSUME NEW w \in Slots, Attempt(w) \/ StoreFails(w)
        PROVE  QInv'
    BY <1>8, AttemptMoves, GoingOn, Ending
  <1>9. ASSUME NEW w \in Slots, LoseLock(w) \/ Crash(w)
        PROVE  QInv'
    <2>1. Loses(w)
      BY <1>9 DEF LoseLock, Crash, Loses
    <2> QED  BY <2>1, Losing
  <1> QED  BY <1>1, <1>2, <1>3, <1>4, <1>5, <1>6, <1>7, <1>8, <1>9 DEF Next, StaffSettles

-----------------------------------------------------------------------------
(* What a step may do to a row: nothing, create it, undo it, or one of the *)
(* moves between its states.                                               *)
StateMoves ==
    {<<"PROCESSING", "READY">>, <<"PROCESSING", "FAILED">>, <<"PROCESSING", "QUARANTINED">>,
     <<"QUARANTINED", "PROCESSING">>, <<"QUARANTINED", "REJECTED">>, <<"FAILED", "PROCESSING">>}

Creates(m) ==
    /\ request[m].pc = "create" /\ request'[m].pc = "add"
    /\ status[m] = "ABSENT" /\ status'[m] = "PROCESSING"

Undoes(m) ==
    /\ request[m].pc = "undo" /\ "media" \in request[m].owes
    /\ "media" \notin request'[m].owes
    /\ status'[m] = "FAILED"

(* An attempt whose files are written is about to mark the row READY.      *)
Finishing(m) ==
    /\ m \in objects
    /\ \E w \in Slots : slot[w].pc = "ready" /\ MediaOf(w) = m

RowMoves ==
    /\ status' \in [Requests ->
           {"ABSENT", "PROCESSING", "QUARANTINED", "READY", "FAILED", "REJECTED"}]
    /\ \A m \in Requests :
           \/ status'[m] = status[m]
           \/ Creates(m)
           \/ Undoes(m)
           \/ /\ <<status[m], status'[m]>> \in StateMoves
              /\ status'[m] = "READY" => Finishing(m)

LEMMA NothingMoves ==
    ASSUME IInv, status' = status
    PROVE  RowMoves
  BY DEF RowMoves, IInv, RowTypes

LEMMA OneMoves ==
    ASSUME IInv, NEW m \in Requests,
           NEW to \in {"PROCESSING", "QUARANTINED", "READY", "FAILED", "REJECTED"},
           status' = [status EXCEPT ![m] = to],
           \/ to = status[m]
           \/ Creates(m)
           \/ Undoes(m)
           \/ <<status[m], to>> \in StateMoves /\ (to = "READY" => Finishing(m))
    PROVE  RowMoves
  BY DEF RowMoves, IInv, RowTypes

LEMMA DeliveryRows ==
    ASSUME IInv, NEW r \in Requests, Deliver(r) \/ ApiCrash(r)
    PROVE  RowMoves
  <1>1. CASE Create(r)
    <2>1. CASE status' = status
      BY <2>1, NothingMoves
    <2>2. CASE status' # status
      <3>1. status' = [status EXCEPT ![r] = "PROCESSING"] /\ Step(r, "add")
        BY <1>1, <2>2 DEF Create, Set
      <3>2. request[r].pc = "create" /\ status[r] = "ABSENT"
        BY <1>1 DEF Create, IInv, CreatedOnce
      <3>3. Creates(r)
        BY <3>1, <3>2 DEF Creates, Step, IInv, RowTypes
      <3> QED  BY <3>1, <3>3, OneMoves
    <2> QED  BY <2>1, <2>2
  <1>2. ASSUME NEW c \in Undoing, Compensate(r, c)
        PROVE  RowMoves
    <2>1. CASE c = "media"
      <3>1. status' = [status EXCEPT ![r] = "FAILED"]
        BY <1>2, <2>1 DEF Compensate
      <3>2. Undoes(r)
        BY <1>2, <2>1, <3>1 DEF Compensate, Undoes, IInv, RowTypes
      <3> QED  BY <3>1, <3>2, OneMoves
    <2>2. CASE c # "media"
      BY <1>2, <2>2, NothingMoves DEF Compensate
    <2> QED  BY <2>1, <2>2
  <1>3. CASE Check(r) \/ MarkUploading(r) \/ Save(r) \/ Add(r) \/ Complete(r) \/ ApiCrash(r)
    BY <1>3, NothingMoves DEF Check, MarkUploading, Save, Add, Complete, ApiCrash
  <1> QED  BY <1>1, <1>2, <1>3 DEF Deliver

LEMMA StaffRowsMove ==
    ASSUME IInv,
           \/ \E m \in Requests : Reject(m) \/ RequestRescan(m) \/ RetryFailed(m)
           \/ StaffSettles \/ StaffCrash
    PROVE  RowMoves
  <1>1. ASSUME NEW m \in Requests, Reject(m)
        PROVE  RowMoves
    BY <1>1, OneMoves DEF Reject, Set, StateMoves
  <1>2. ASSUME NEW m \in Requests, RetryFailed(m)
        PROVE  RowMoves
    BY <1>2, OneMoves DEF RetryFailed, Set, StateMoves
  <1>3. CASE StaffAddFails
    <2>1. CASE status' = status
      BY <2>1, NothingMoves
    <2>2. CASE status' # status
      <3>1. /\ staff.media \in Requests /\ status[staff.media] = "PROCESSING"
            /\ status' = [status EXCEPT ![staff.media] = "FAILED"]
        BY <1>3, <2>2 DEF StaffAddFails, GivenBack, IInv, StaffKnows
      <3> QED  BY <3>1, OneMoves DEF StateMoves
    <2> QED  BY <2>1, <2>2
  <1>4. ASSUME NEW m \in Requests, RequestRescan(m)
        PROVE  RowMoves
    BY <1>4, NothingMoves DEF RequestRescan
  <1>5. CASE StaffCrash \/ \E j \in ExtraJobs : StaffAdds(j)
    BY <1>5, NothingMoves DEF StaffCrash, StaffAdds
  <1> QED  BY <1>1, <1>2, <1>3, <1>4, <1>5 DEF StaffSettles

LEMMA AttemptRows ==
    ASSUME IInv, NEW w \in Slots, Attempt(w) \/ StoreFails(w)
    PROVE  RowMoves
  <1> DEFINE m == MediaOf(w)
  <1>1. m \in Requests
    <2>1. slot[w].pc # "idle"
      BY DEF Attempt, FindStatus, ClaimRetry, Loser, Scan, MarkQuarantined, MarkProcessing,
             Transform, MarkReady, CleanupSource, Caught, MarkFailed, StoreFails
    <2> QED  BY <2>1 DEF MediaOf, IInv, QInv, MediaKnown
  <1>2. slot[w].pc = "ready" => Finishing(m)
    BY DEF IInv, ReadyIsWritten, MediaOf, Finishing
  <1>3. CASE ClaimRetry(w)
    BY <1>1, <1>3, OneMoves, NothingMoves DEF ClaimRetry, ClaimFrom, Set, StateMoves
  <1>4. CASE MarkQuarantined(w)
    BY <1>1, <1>4, OneMoves, NothingMoves DEF MarkQuarantined, StateMoves
  <1>5. CASE MarkProcessing(w)
    BY <1>1, <1>5, OneMoves, NothingMoves DEF MarkProcessing, StateMoves
  <1>6. CASE MarkReady(w)
    BY <1>1, <1>2, <1>6, OneMoves, NothingMoves DEF MarkReady, Set, StateMoves
  <1>7. CASE MarkFailed(w)
    BY <1>1, <1>7, OneMoves, NothingMoves DEF MarkFailed, StateMoves
  <1>8. CASE \/ FindStatus(w) \/ Loser(w) \/ Scan(w) \/ Transform(w) \/ CleanupSource(w)
             \/ Caught(w) \/ StoreFails(w)
    BY <1>8, NothingMoves DEF FindStatus, Loser, Scan, Transform, CleanupSource, Caught, StoreFails
  <1> QED  BY <1>3, <1>4, <1>5, <1>6, <1>7, <1>8 DEF Attempt

LEMMA RowStep ==
    ASSUME IInv, Next
    PROVE  RowMoves
  <1>1. CASE AbortCheck \/ AbortWrite
    BY <1>1, NothingMoves DEF AbortCheck, AbortWrite
  <1>2. ASSUME NEW j \in JobIds, Promote(j) \/ Stall(j) \/ \E w \in Slots : Take(w, j)
        PROVE  RowMoves
    BY <1>2, NothingMoves DEF Promote, Stall, Take
  <1>3. ASSUME NEW w \in Slots, LoseLock(w) \/ Crash(w)
        PROVE  RowMoves
    BY <1>3, NothingMoves DEF LoseLock, Crash
  <1> QED  BY <1>1, <1>2, <1>3, DeliveryRows, StaffRowsMove, AttemptRows DEF Next

-----------------------------------------------------------------------------
(* The rest of a step: a delivery that has no row yet has not had one, and *)
(* objects stay written.                                                   *)
Early == {"check", "refused", "mark", "save", "create"}
RequestRows == [pc : {"check", "refused", "mark", "save", "create", "add", "complete",
                      "done", "undo", "dead"}, owes : SUBSET Undoing]

OthersMove ==
    /\ session' \in {"INITIATED", "UPLOADING", "COMPLETED", "FAILED", "ABORTED"}
    /\ request' \in [Requests -> RequestRows]
    /\ \A r \in Requests : request'[r].pc \in Early => request[r].pc \in Early
    /\ abort' \in {"idle", "write", "done"}
    /\ source' \in BOOLEAN
    /\ objects \subseteq objects' /\ objects' \subseteq Requests
    /\ staff' \in StaffRows /\ (staff'.pc # "idle" => staff'.media \in Requests)
    /\ faults' \in 0 .. MaxFaults

LEMMA RequestStep ==
    ASSUME IInv, NEW r \in Requests, NEW x \in RequestRows,
           request' = [request EXCEPT ![r] = x],
           x.pc \in Early => request[r].pc \in Early
    PROVE  /\ request' \in [Requests -> RequestRows]
           /\ \A q \in Requests : request'[q].pc \in Early => request[q].pc \in Early
  BY DEF IInv, RowTypes, RequestRows

LEMMA StepMoves ==
    ASSUME IInv, NEW r \in Requests,
           NEW pc \in {"refused", "mark", "save", "create", "add", "complete", "done", "dead"},
           Step(r, pc), pc \in Early => request[r].pc \in Early
    PROVE  /\ request' \in [Requests -> RequestRows]
           /\ \A q \in Requests : request'[q].pc \in Early => request[q].pc \in Early
  <1> DEFINE x == [request[r] EXCEPT !.pc = pc]
  <1>1. x \in RequestRows /\ x.pc = pc
    BY DEF IInv, RowTypes, RequestRows
  <1>2. request' = [request EXCEPT ![r] = x]
    BY DEF Step
  <1> HIDE DEF x
  <1> QED  BY <1>1, <1>2, RequestStep

LEMMA FailMoves ==
    ASSUME IInv, NEW r \in Requests, NEW owes \in SUBSET Undoing, Fail(r, owes)
    PROVE  /\ request' \in [Requests -> RequestRows]
           /\ \A q \in Requests : request'[q].pc \in Early => request[q].pc \in Early
  <1> DEFINE x == [pc |-> "undo", owes |-> owes]
  <1>1. x \in RequestRows /\ x.pc \notin Early
    BY DEF RequestRows, Early
  <1>2. request' = [request EXCEPT ![r] = x]
    BY DEF Fail
  <1> HIDE DEF x
  <1> QED  BY <1>1, <1>2, RequestStep

LEMMA DeliveryOthers ==
    ASSUME IInv, NEW r \in Requests, Deliver(r) \/ ApiCrash(r)
    PROVE  OthersMove
  <1> USE DEF IInv, RowTypes, StaffKnows
  <1>1. /\ abort' = abort /\ objects' = objects /\ staff' = staff
        /\ source' \in BOOLEAN
        /\ session' \in {"INITIATED", "UPLOADING", "COMPLETED", "FAILED", "ABORTED"}
    BY DEF Deliver, Check, MarkUploading, Save, Create, Add, Complete, Compensate, ApiCrash
  <1>2. faults' \in 0 .. MaxFaults
    BY LimitsAssumption
       DEF Deliver, Check, MarkUploading, Save, Create, Add, Complete, Compensate, ApiCrash
  <1>3. /\ request' \in [Requests -> RequestRows]
        /\ \A q \in Requests : request'[q].pc \in Early => request[q].pc \in Early
    <2>1. CASE Check(r) \/ MarkUploading(r) \/ Complete(r) \/ ApiCrash(r)
      BY <2>1, StepMoves, FailMoves DEF Check, MarkUploading, Complete, ApiCrash, Early, Undoing
    <2>2. CASE Save(r) \/ Create(r) \/ Add(r)
      BY <2>2, StepMoves, FailMoves DEF Save, Create, Add, Early, Undoing
    <2>3. ASSUME NEW c \in Undoing, Compensate(r, c)
          PROVE  /\ request' \in [Requests -> RequestRows]
                 /\ \A q \in Requests : request'[q].pc \in Early => request[q].pc \in Early
      <3> DEFINE x == [request[r] EXCEPT !.owes = @ \ {c}]
      <3>1. x \in RequestRows /\ x.pc = request[r].pc
        BY DEF RequestRows
      <3>2. request' = [request EXCEPT ![r] = x]
        BY <2>3 DEF Compensate
      <3> HIDE DEF x
      <3> QED  BY <3>1, <3>2, RequestStep
    <2> QED  BY <2>1, <2>2, <2>3 DEF Deliver
  <1> QED  BY <1>1, <1>2, <1>3 DEF OthersMove

LEMMA OthersStep ==
    ASSUME IInv, Next
    PROVE  OthersMove
  <1> USE DEF IInv, RowTypes, StaffKnows
  <1>1. request' = request =>
          /\ request' \in [Requests -> RequestRows]
          /\ \A r \in Requests : request'[r].pc \in Early => request[r].pc \in Early
    BY DEF RequestRows
  <1>2. CASE AbortCheck \/ AbortWrite
    BY <1>1, <1>2 DEF AbortCheck, AbortWrite, OthersMove
  <1>3. ASSUME NEW m \in Requests, Reject(m) \/ RequestRescan(m) \/ RetryFailed(m)
        PROVE  OthersMove
    BY <1>1, <1>3 DEF Reject, RequestRescan, RetryFailed, OthersMove, intake, StaffRows
  <1>4. CASE StaffSettles \/ StaffCrash
    <2>1. IdleStaff \in StaffRows /\ IdleStaff.pc = "idle"
      BY DEF IdleStaff, StaffRows
    <2>2. faults' \in 0 .. MaxFaults
      BY <1>4, LimitsAssumption DEF StaffSettles, StaffAddFails, StaffAdds, StaffCrash
    <2> QED  BY <1>1, <1>4, <2>1, <2>2
             DEF StaffSettles, StaffAddFails, StaffAdds, StaffCrash, OthersMove, intake
  <1>5. ASSUME NEW j \in JobIds, Promote(j) \/ Stall(j) \/ \E w \in Slots : Take(w, j)
        PROVE  OthersMove
    BY <1>1, <1>5 DEF Promote, Stall, Take, OthersMove, intake
  <1>6. ASSUME NEW w \in Slots, Attempt(w) \/ StoreFails(w) \/ LoseLock(w) \/ Crash(w)
        PROVE  OthersMove
    <2>1. UNCHANGED <<intake, staff>>
      BY <1>6 DEF Attempt, FindStatus, ClaimRetry, Loser, Scan, MarkQuarantined, MarkProcessing,
                  Transform, MarkReady, CleanupSource, Caught, MarkFailed, StoreFails,
                  LoseLock, Crash
    <2>2. faults' \in 0 .. MaxFaults
      <3>1. faults' = faults \/ (faults < MaxFaults /\ faults' = faults + 1)
        BY <1>6
           DEF Attempt, FindStatus, ClaimRetry, Loser, Scan, MarkQuarantined, MarkProcessing,
               Transform, MarkReady, CleanupSource, Caught, MarkFailed, StoreFails,
               LoseLock, Crash
      <3> QED  BY <3>1, LimitsAssumption
    <2>3. source' \in BOOLEAN
      BY <1>6
         DEF Attempt, FindStatus, ClaimRetry, Loser, Scan, MarkQuarantined, MarkProcessing,
             Transform, MarkReady, CleanupSource, Caught, MarkFailed, StoreFails,
             LoseLock, Crash
    <2>4. objects \subseteq objects' /\ objects' \subseteq Requests
      <3>1. CASE Transform(w)
        <4>1. MediaOf(w) \in Requests
          BY <3>1 DEF Transform, MediaOf, QInv, MediaKnown
        <4> QED  BY <3>1, <4>1 DEF Transform
      <3>2. CASE ~Transform(w)
        BY <1>6, <3>2
           DEF Attempt, FindStatus, ClaimRetry, Loser, Scan, MarkQuarantined, MarkProcessing,
               MarkReady, CleanupSource, Caught, MarkFailed, StoreFails, LoseLock, Crash
      <3> QED  BY <3>1, <3>2
    <2> QED  BY <1>1, <2>1, <2>2, <2>3, <2>4 DEF OthersMove, intake
  <1> QED  BY <1>2, <1>3, <1>4, <1>5, <1>6, DeliveryOthers DEF Next

(* What a step may do to an attempt: it gets to mark its row by writing    *)
(* the objects, and to remove the source by marking the row.               *)
Written(w) ==
    slot'[w].pc = "ready" /\ slot'[w].media = slot[w].media /\ slot[w].media \in objects'
Marked(w) ==
    slot'[w].pc = "cleanup" /\ slot'[w].media = slot[w].media /\ status'[slot[w].media] = "READY"

LEMMA SlotSteps ==
    ASSUME IInv, Next, NEW w \in Slots
    PROVE  \/ slot'[w] = slot[w]
           \/ slot'[w].pc \notin {"ready", "cleanup"}
           \/ Written(w) \/ Marked(w)
  <1> DEFINE Elsewhere(v) ==
                 \E x \in SlotRows : /\ x.pc \notin {"ready", "cleanup"}
                                     /\ slot' = [slot EXCEPT ![v] = x]
  <1>1. ASSUME NEW v \in Slots, Elsewhere(v)
        PROVE  slot'[w] = slot[w] \/ slot'[w].pc \notin {"ready", "cleanup"}
    BY <1>1 DEF IInv, QInv, QueueTypes
  <1>2. ASSUME NEW v \in Slots, NEW pc \in Pcs, Goto(v, pc)
        PROVE  /\ pc \notin {"ready", "cleanup"} => Elsewhere(v)
               /\ v # w => slot'[w] = slot[w]
               /\ v = w => slot'[w].pc = pc /\ slot'[w].media = slot[w].media
    <2> DEFINE x == [slot[v] EXCEPT !.pc = pc]
    <2>1. x \in SlotRows /\ x.pc = pc /\ x.media = slot[v].media
      BY DEF IInv, QInv, QueueTypes, SlotRows, Pcs
    <2>2. slot' = [slot EXCEPT ![v] = x]
      BY <1>2 DEF Goto
    <2> HIDE DEF x
    <2> QED  BY <2>1, <2>2 DEF IInv, QInv, QueueTypes
  <1>3. ASSUME NEW v \in Slots, Return(v) \/ Throw(v) \/ slot' = [slot EXCEPT ![v] = IdleSlot]
        PROVE  Elsewhere(v)
    BY <1>3, IdleFacts DEF Return, Throw
  <1>4. ASSUME NEW v \in Slots, FindStatus(v)
        PROVE  Elsewhere(v)
    <2> DEFINE x == [slot[v] EXCEPT !.pc = IF status[MediaOf(v)] = "FAILED" THEN "claim" ELSE "scan",
                                    !.rescan = status[MediaOf(v)] = "QUARANTINED"]
    <2>1. x \in SlotRows /\ x.pc \notin {"ready", "cleanup"}
      BY DEF IInv, QInv, QueueTypes, SlotRows
    <2>2. Return(v) \/ slot' = [slot EXCEPT ![v] = x]
      BY <1>4 DEF FindStatus
    <2> HIDE DEF x
    <2> QED  BY <1>3, <2>1, <2>2
  <1>5. ASSUME NEW v \in Slots, NEW j \in JobIds, Take(v, j)
        PROVE  Elsewhere(v)
    <2> DEFINE x == [IdleSlot EXCEPT !.pc = "status", !.job = j, !.media = job[j].media]
    <2>1. x \in SlotRows /\ x.pc \notin {"ready", "cleanup"}
      BY DEF IInv, QInv, QueueTypes, JobRows, SlotRows, IdleSlot
    <2>2. slot' = [slot EXCEPT ![v] = x]
      BY <1>5 DEF Take
    <2> HIDE DEF x
    <2> QED  BY <2>1, <2>2
  <1>6. ASSUME NEW v \in Slots, Scan(v)
        PROVE  Elsewhere(v)
    <2>1. PICK verdict \in {"infected", "unavailable",
                            IF slot[v].rescan THEN "promote" ELSE "transform"} :
            Goto(v, verdict)
      BY <1>6 DEF Scan
    <2>2. verdict \in Pcs /\ verdict \notin {"ready", "cleanup"}
      BY DEF Pcs
    <2> QED  BY <1>2, <2>1, <2>2
  <1>7. ASSUME NEW v \in Slots, \/ ClaimRetry(v) \/ Loser(v) \/ MarkQuarantined(v)
                                \/ MarkProcessing(v) \/ CleanupSource(v) \/ Caught(v)
                                \/ MarkFailed(v) \/ StoreFails(v)
        PROVE  Elsewhere(v)
    <2> HIDE DEF Elsewhere
    <2> QED  BY <1>2, <1>3, <1>7
                DEF ClaimRetry, Loser, MarkQuarantined, MarkProcessing, CleanupSource,
                    Caught, MarkFailed, StoreFails, Pcs
  <1>8. ASSUME NEW v \in Slots, Transform(v)
        PROVE  Elsewhere(v) \/ slot'[w] = slot[w] \/ Written(w)
    <2> HIDE DEF Elsewhere
    <2>1. \/ Goto(v, "ready") /\ slot[v].media \in objects'
          \/ Goto(v, "caught")
      BY <1>8 DEF Transform, MediaOf
    <2> QED  BY <1>2, <2>1 DEF Written, Pcs
  <1>9. ASSUME NEW v \in Slots, MarkReady(v)
        PROVE  Elsewhere(v) \/ slot'[w] = slot[w] \/ Marked(w)
    <2> HIDE DEF Elsewhere
    <2>1. slot[v].media \in Requests
      BY <1>9 DEF MarkReady, IInv, QInv, MediaKnown
    <2>2. \/ Goto(v, "cleanup") /\ status'[slot[v].media] = "READY"
          \/ Goto(v, "caught")
      BY <1>9, <2>1 DEF MarkReady, MediaOf, Set, IInv, RowTypes
    <2> QED  BY <1>2, <2>2 DEF Marked, Pcs
  <1> HIDE DEF Elsewhere
  <1>10. ASSUME NEW v \in Slots, LoseLock(v) \/ Crash(v)
         PROVE  Elsewhere(v) \/ slot' = slot
    BY <1>3, <1>10 DEF LoseLock, Crash
  <1>11. CASE \/ AbortCheck \/ AbortWrite \/ StaffSettles \/ StaffCrash
              \/ \E m \in Requests : Reject(m) \/ RequestRescan(m) \/ RetryFailed(m)
              \/ \E r \in Requests : Deliver(r) \/ ApiCrash(r)
              \/ \E j \in JobIds : Promote(j) \/ Stall(j)
    <2>1. slot' = slot
      BY <1>11 DEF AbortCheck, AbortWrite, StaffSettles, StaffAddFails, StaffAdds, StaffCrash,
         Reject, RequestRescan, RetryFailed, Deliver, ApiCrash, Check, MarkUploading, Save, Create,
         Add, Complete, Compensate, Promote, Stall, jobs
    <2> QED  BY <2>1
  <1>12. ASSUME NEW v \in Slots, Attempt(v) \/ StoreFails(v) \/ \E j \in JobIds : Take(v, j)
         PROVE  Elsewhere(v) \/ slot'[w] = slot[w] \/ Written(w) \/ Marked(w)
    BY <1>4, <1>5, <1>6, <1>7, <1>8, <1>9, <1>12 DEF Attempt
  <1> QED  BY <1>1, <1>10, <1>11, <1>12 DEF Next

LEMMA ReadyStep ==
    ASSUME IInv, Next, NEW w \in Slots, slot'[w].pc = "ready"
    PROVE  slot'[w].media \in objects'
  <1>1. objects \subseteq objects'
    BY OthersStep DEF OthersMove
  <1>2. \/ slot'[w] = slot[w]
        \/ Written(w)
    BY SlotSteps DEF Marked
  <1> QED  BY <1>1, <1>2 DEF IInv, ReadyIsWritten, Written

LEMMA StepIInv == IInv /\ [Next]_vars => IInv'
  <1> SUFFICES ASSUME IInv, [Next]_vars
               PROVE  IInv'
    OBVIOUS
  <1>1. CASE Next
    <2>1. QInv' /\ RowMoves /\ OthersMove
      BY <1>1, QueueStep, RowStep, OthersStep
    <2>2. RowTypes' /\ StaffKnows'
      BY <2>1 DEF RowMoves, OthersMove, RowTypes, RequestRows, StaffKnows
    <2>3. CreatedOnce'
      BY <2>1 DEF RowMoves, OthersMove, Early, Creates, Undoes, StateMoves, IInv, CreatedOnce
    <2>4. \A m \in Requests : status'[m] = "READY" => m \in objects'
      BY <2>1 DEF RowMoves, OthersMove, Creates, Undoes, Finishing, IInv, ReadyIsWritten
    <2>5. ReadyIsWritten'
      BY <1>1, <2>4, ReadyStep DEF ReadyIsWritten
    <2> QED  BY <2>1, <2>2, <2>3, <2>5 DEF IInv
  <1>2. CASE UNCHANGED vars
    <2>1. QInv'
      BY <1>2, Resting DEF vars, jobs, IInv
    <2> QED  BY <1>2, <2>1
             DEF vars, jobs, intake, IInv, RowTypes, StaffKnows, CreatedOnce, ReadyIsWritten
  <1> QED  BY <1>1, <1>2

THEOREM Inductive == Spec => []IInv
  BY InitIInv, StepIInv, PTL DEF Spec

(* The rows, jobs, attempts and files have their types.                    *)
THEOREM TypeCorrect == Spec => []TypeOK
  <1>1. IInv => TypeOK
    BY DEF IInv, QInv, QueueTypes, RowTypes, TypeOK, JobRows, SlotRows, StaffRows
  <1> QED  BY <1>1, Inductive, PTL

(* A row that is READY has had its objects written.                        *)
THEOREM ReadyAfterWriting == Spec => []ReadyIsWritten
  <1>1. IInv => ReadyIsWritten
    BY DEF IInv
  <1> QED  BY <1>1, Inductive, PTL

(* READY and REJECTED are final but for the delivery's own compensation.   *)
THEOREM DecisionsStand == Spec => DecisionIsFinal
  <1> DEFINE Stands == \A m \in Requests :
                 Terminal(m) /\ status'[m] # status[m] =>
                     request[m].pc = "undo" /\ "media" \in request[m].owes
  <1>1. ASSUME IInv, [Next]_vars
        PROVE  Stands \/ UNCHANGED vars
    <2>1. CASE Next
      <3>1. RowMoves
        BY <1>1, <2>1, RowStep
      <3> QED  BY <3>1 DEF RowMoves, Creates, Undoes, StateMoves, Terminal
    <2> QED  BY <1>1, <2>1
  <1> QED  BY <1>1, Inductive, PTL DEF Spec, DecisionIsFinal

-----------------------------------------------------------------------------
(* A single delivery: its source.                                          *)
SingleDelivery == \E r : Requests = {r}

(* The file is there when the row is created, and an attempt removes it    *)
(* only after it has marked the row.                                       *)
SourceWhileNeeded ==
    \A r \in Requests :
        /\ request[r].pc = "create" => source
        /\ \A w \in Slots :
               slot[w].pc = "cleanup" => status[r] = "READY" \/ request[r].pc \in {"undo", "dead"}

Gone == {"undo", "dead"}

(* What a step may do to a delivery: once undone or dead it stays so, and  *)
(* it gets to its row through Save.                                        *)
LEMMA DeliverySteps ==
    ASSUME IInv, Next, NEW r \in Requests
    PROVE  /\ request[r].pc \in Gone => request'[r].pc \in Gone
           /\ request[r].pc = "undo" => request'[r].pc = "undo" \/ faults' = faults + 1
           /\ request'[r].pc = "create" => request[r].pc = "create" \/ source'
           /\ request'[r].pc # "dead" \/ request[r].pc = "dead" \/ faults' = faults + 1
  <1>1. CASE request' = request
    BY <1>1 DEF Gone
  <1>2. ASSUME NEW q \in Requests, Deliver(q) \/ ApiCrash(q)
        PROVE  \/ request'[r].pc = request[r].pc
               \/ /\ request[r].pc \notin Gone /\ request'[r].pc # "dead"
                  /\ request'[r].pc = "create" => source'
               \/ /\ request[r].pc # "dead" /\ request'[r].pc = "dead"
                  /\ faults' = faults + 1
    <2> USE DEF IInv, RowTypes, Step, Fail, Gone
    <2>1. CASE Check(q) \/ MarkUploading(q) \/ ApiCrash(q)
      BY <2>1 DEF Check, MarkUploading, ApiCrash
    <2>2. CASE Save(q)
      BY <2>2 DEF Save
    <2>3. CASE Create(q) \/ Add(q) \/ Complete(q)
      BY <2>3 DEF Create, Add, Complete
    <2>4. ASSUME NEW c \in Undoing, Compensate(q, c)
          PROVE  request'[r].pc = request[r].pc
      BY <2>4 DEF Compensate
    <2> QED  BY <1>2, <2>1, <2>2, <2>3, <2>4 DEF Deliver
  <1>3. CASE ~ \E q \in Requests : Deliver(q) \/ ApiCrash(q)
    <2>1. request' = request
      BY <1>3 DEF Next, AbortCheck, AbortWrite, Reject, RequestRescan, RetryFailed, StaffSettles,
         StaffAddFails, StaffAdds, StaffCrash, Promote, Stall, Take, Attempt, FindStatus,
         ClaimRetry, Loser, Scan, MarkQuarantined, MarkProcessing, Transform, MarkReady,
         CleanupSource, Caught, MarkFailed, StoreFails, LoseLock, Crash, intake
    <2> QED  BY <1>1, <2>1
  <1> QED  BY <1>2, <1>3 DEF Gone

LEMMA SourceSteps ==
    ASSUME IInv, Next, source, ~source'
    PROVE  \/ \E r \in Requests : request[r].pc = "undo"
           \/ \E w \in Slots : slot[w].pc = "cleanup"
  BY DEF Next, AbortCheck, AbortWrite, Reject, RequestRescan, RetryFailed, StaffSettles,
     StaffAddFails, StaffAdds, StaffCrash, Promote, Stall, Take, Attempt, FindStatus,
     ClaimRetry, Loser, Scan, MarkQuarantined, MarkProcessing, Transform, MarkReady,
     CleanupSource, Caught, MarkFailed, StoreFails, LoseLock, Crash,
     Deliver, ApiCrash, Check, MarkUploading, Save, Create, Add, Complete, Compensate

SourceInv == SourceWhileNeeded /\ SourceIsKept

LEMMA SourceStep ==
    ASSUME SingleDelivery, IInv, SourceInv, Next
    PROVE  SourceInv'
  <1>1. PICK r : Requests = {r}
    BY DEF SingleDelivery
  <1>2. r \in Requests
    BY <1>1
  <1>3. RowMoves
    BY RowStep
  <1>4. /\ request[r].pc \in Gone => request'[r].pc \in Gone
        /\ request'[r].pc = "create" => request[r].pc = "create" \/ source'
    BY <1>2, DeliverySteps
  <1>5. \A w \in Slots : slot[w].pc = "cleanup" => status[r] = "READY" \/ request[r].pc \in Gone
    BY <1>2 DEF SourceInv, SourceWhileNeeded, Gone
  <1>6. source /\ ~source' => status[r] = "READY" \/ request[r].pc \in Gone
    BY <1>1, <1>5, SourceSteps DEF Gone
  <1>7. status[r] = "READY" /\ request[r].pc \notin Gone => status'[r] = "READY"
    BY <1>2, <1>3 DEF RowMoves, Creates, Undoes, StateMoves, Gone
  <1>8. ASSUME NEW w \in Slots, slot'[w].pc = "cleanup"
        PROVE  status'[r] = "READY" \/ request'[r].pc \in Gone
    <2>1. CASE slot'[w] = slot[w]
      BY <1>4, <1>5, <1>7, <1>8, <2>1
    <2>2. CASE Marked(w)
      <3>1. slot[w].media \in Requests \/ slot[w].pc = "idle"
        BY DEF IInv, QInv, MediaKnown
      <3>2. slot'[w].media \in Requests
        BY <1>8, QueueStep DEF QInv, MediaKnown
      <3> QED  BY <1>1, <2>2, <3>2 DEF Marked
    <2> QED  BY <1>8, <2>1, <2>2, SlotSteps DEF Written
  <1>9. request'[r].pc = "create" => source'
    <2>1. request[r].pc = "create" => source /\ status[r] = "ABSENT"
      BY <1>2 DEF SourceInv, SourceWhileNeeded, IInv, CreatedOnce
    <2>2. request'[r].pc = "create" => request[r].pc \notin Gone
      BY <1>4 DEF Gone
    <2> QED  BY <1>4, <1>6, <2>1, <2>2, OthersStep DEF OthersMove, IInv, RowTypes
  <1>10. SourceWhileNeeded'
    BY <1>1, <1>8, <1>9 DEF SourceWhileNeeded, Gone
  <1>11. ASSUME status'[r] \in {"PROCESSING", "QUARANTINED", "FAILED"},
                request'[r].pc \notin Gone
         PROVE  source'
    <2>1. request[r].pc \notin Gone /\ status[r] # "READY"
      BY <1>4, <1>7, <1>11
    <2>2. source \in BOOLEAN /\ source' \in BOOLEAN
      BY OthersStep DEF OthersMove, IInv, RowTypes
    <2>3. CASE Creates(r)
      BY <1>2, <1>6, <2>1, <2>2, <2>3 DEF Creates, SourceInv, SourceWhileNeeded
    <2>4. CASE status[r] \in {"PROCESSING", "QUARANTINED", "FAILED"}
      BY <1>2, <1>6, <2>1, <2>2, <2>4 DEF SourceInv, SourceIsKept, Gone
    <2> QED  BY <1>2, <1>3, <1>11, <2>1, <2>3, <2>4 DEF RowMoves, Undoes, StateMoves, Gone
  <1>12. SourceIsKept'
    BY <1>1, <1>11 DEF SourceIsKept, Gone
  <1> QED  BY <1>10, <1>12 DEF SourceInv

(* While a row may still be processed the file it is processed from is     *)
(* kept, if the session has one delivery.                                  *)
THEOREM SourceOutlivesNeed ==
    ASSUME SingleDelivery
    PROVE  Spec => []SourceIsKept
  <1>1. Init => SourceInv
    BY IdleFacts DEF Init, SourceInv, SourceWhileNeeded, SourceIsKept
  <1>2. IInv /\ IInv' /\ SourceInv /\ [Next]_vars => SourceInv'
    <2> SUFFICES ASSUME IInv, SourceInv, [Next]_vars
                 PROVE  SourceInv'
      OBVIOUS
    <2>1. CASE UNCHANGED vars
      BY <2>1 DEF vars, intake, jobs, SourceInv, SourceWhileNeeded, SourceIsKept
    <2> QED  BY <2>1, SourceStep
  <1>3. SourceInv => SourceIsKept
    BY DEF SourceInv
  <1> QED  BY <1>1, <1>2, <1>3, Inductive, PTL DEF Spec

-----------------------------------------------------------------------------
(* A single delivery: who is in charge of its row.  Not counted are the    *)
(* attempts that may end and leave the row as it is: one that is to claim  *)
(* a row, or has lost its claim, or is done with it.                       *)
Passive == {"idle", "claim", "loser", "cleanup"}

Waits(j, m) ==
    /\ job[j].media = m
    /\ \/ job[j].state \in {"waiting", "delayed"}
       \/ job[j].state = "active" /\ job[j].owner = NoSlot

Works(w, m) == slot[w].pc \notin Passive /\ slot[w].media = m

InCharge(m) ==
    \/ \E j \in JobIds : Waits(j, m)
    \/ \E w \in Slots : Works(w, m)
    \/ request[m].pc = "add"
    \/ staff = [pc |-> "retry", media |-> m]

SomebodyInCharge ==
    \A m \in Requests :
        status[m] = "PROCESSING" /\ request[m].pc # "undo" /\ lost <= 1 /\ faults = 0 =>
            InCharge(m)

(* The session's job is not there before the delivery adds it.             *)
AddedOnce ==
    \A r \in Requests :
        request[r].pc \in Early \cup {"add"} => job[SessionJob].state = "none"

ChargeInv == SomebodyInCharge /\ AddedOnce

(* Jobs and attempts go on without the attempt that was not counted.       *)
LEMMA ChargeKept ==
    ASSUME IInv, NEW m \in Requests, NEW w \in Slots,
           \/ \E j \in JobIds : Waits(j, m)
           \/ \E v \in Slots \ {w} : Works(v, m),
           Ends(w) \/ GoesOn(w)
    PROVE  InCharge(m)'
  <1>1. \A v \in Slots \ {w} : slot'[v] = slot[v]
    BY DEF Ends, GoesOn, IInv, QInv, QueueTypes
  <1>2. \A j \in JobIds : Waits(j, m) => job'[j] = job[j]
    <2>1. ASSUME NEW j \in JobIds, Waits(j, m)
          PROVE  job[j].owner # w
      BY <2>1, NamesAssumption DEF Waits, IInv, QInv, OwnersWork
    <2>2. \A j \in JobIds : job[j].owner # w => job'[j] = job[j]
      BY DEF Ends, GoesOn, IInv, QInv, QueueTypes
    <2> QED  BY <2>1, <2>2
  <1> QED  BY <1>1, <1>2 DEF InCharge, Waits, Works

LEMMA StillIn ==
    ASSUME IInv, NEW m \in Requests, NEW w \in Slots, NEW pc \in Pcs \ Passive, Goto(w, pc),
           slot[w].media = m
    PROVE  InCharge(m)'
  BY DEF Goto, InCharge, Works, IInv, QInv, QueueTypes, SlotRows, Pcs

(* An attempt settles its row, stays in charge, or was not counted.        *)
LEMMA AttemptCharge ==
    ASSUME IInv, NEW r \in Requests, Requests = {r}, NEW w \in Slots, Attempt(w),
           status'[r] = "PROCESSING", request[r].pc # "add",
           staff # [pc |-> "retry", media |-> r],
           status[r] = "PROCESSING" => InCharge(r)
    PROVE  InCharge(r)'
  <1>1. slot[w].media = r /\ slot[w].pc # "idle"
    <2>1. slot[w].pc # "idle"
      BY DEF Attempt, FindStatus, ClaimRetry, Loser, Scan, MarkQuarantined, MarkProcessing,
             Transform, MarkReady, CleanupSource, Caught, MarkFailed
    <2> QED  BY <2>1 DEF IInv, QInv, MediaKnown
  <1>2. MediaOf(w) = r
    BY <1>1 DEF MediaOf
  <1>3. Ends(w) \/ GoesOn(w)
    BY AttemptMoves DEF IInv
  <1>4. ASSUME slot[w].pc \in Passive, status[r] = "PROCESSING"
        PROVE  InCharge(r)'
    <2>1. ~Works(w, r)
      BY <1>4 DEF Works
    <2>2. \/ \E j \in JobIds : Waits(j, r)
          \/ \E v \in Slots \ {w} : Works(v, r)
      BY <1>4, <2>1 DEF InCharge
    <2> QED  BY <1>3, <2>2, ChargeKept
  <1>5. status \in [Requests ->
           {"ABSENT", "PROCESSING", "QUARANTINED", "READY", "FAILED", "REJECTED"}]
    BY DEF IInv, RowTypes
  <1>6. CASE FindStatus(w)
    <2>1. status[r] = "PROCESSING" /\ ~Terminal(r)
      BY <1>6 DEF FindStatus, Terminal
    <2> DEFINE x == [slot[w] EXCEPT !.pc = IF status[MediaOf(w)] = "FAILED" THEN "claim" ELSE "scan",
                                    !.rescan = status[MediaOf(w)] = "QUARANTINED"]
    <2>2. x.pc = "scan" /\ x.media = r
      BY <1>1, <1>2, <2>1 DEF IInv, QInv, QueueTypes, SlotRows
    <2>3. slot' = [slot EXCEPT ![w] = x]
      BY <1>2, <1>6, <2>1 DEF FindStatus
    <2> HIDE DEF x
    <2> QED  BY <2>2, <2>3 DEF InCharge, Works, Passive, IInv, QInv, QueueTypes
  <1>7. CASE ClaimRetry(w)
    <2>1. CASE Goto(w, "scan")
      BY <1>1, <2>1, StillIn DEF Pcs, Passive
    <2>2. CASE UNCHANGED status
      BY <1>4, <1>7, <2>2 DEF ClaimRetry, Passive
    <2> QED  BY <1>7, <2>1, <2>2 DEF ClaimRetry
  <1>8. CASE Loser(w) \/ CleanupSource(w)
    BY <1>4, <1>8 DEF Loser, CleanupSource, Passive
  <1>9. CASE Scan(w)
    <2>1. PICK verdict \in {"infected", "unavailable",
                            IF slot[w].rescan THEN "promote" ELSE "transform"} :
            Goto(w, verdict)
      BY <1>9 DEF Scan
    <2>2. verdict \in Pcs \ Passive
      BY DEF Pcs, Passive
    <2> QED  BY <1>1, <2>1, <2>2, StillIn
  <1>10. CASE MarkQuarantined(w)
    BY <1>2, <1>5, <1>10 DEF MarkQuarantined
  <1>11. CASE MarkProcessing(w) \/ Transform(w)
    BY <1>1, <1>11, StillIn DEF MarkProcessing, Transform, Pcs, Passive
  <1>12. CASE MarkReady(w)
    BY <1>1, <1>2, <1>5, <1>12, StillIn DEF MarkReady, Set, Pcs, Passive
  <1>13. CASE Caught(w)
    BY <1>1, <1>2, <1>13, StillIn DEF Caught, Pcs, Passive
  <1>14. CASE MarkFailed(w)
    BY <1>2, <1>5, <1>14 DEF MarkFailed
  <1> QED  BY <1>6, <1>7, <1>8, <1>9, <1>10, <1>11, <1>12, <1>13, <1>14 DEF Attempt

(* Steps of the queue, and the first attempt to die or to lose its lock.   *)
LEMMA QueueCharge ==
    ASSUME IInv, NEW r \in Requests, Requests = {r}, InCharge(r), lost' <= 1,
           UNCHANGED <<request, staff>>,
           \/ \E j \in JobIds : Promote(j) \/ Stall(j) \/ \E w \in Slots : Take(w, j)
           \/ \E w \in Slots : LoseLock(w) \/ Crash(w)
    PROVE  InCharge(r)'
  <1> USE DEF IInv, QInv
  <1>1. ASSUME NEW j \in JobIds, Promote(j) \/ Stall(j)
        PROVE  InCharge(r)'
    <2>1. Stall(j) => lost <= 1 /\ job[j].stalls = 0
      BY <1>1, LimitsAssumption DEF Stall, OneLoss
    <2>2. Stall(j) => job[j].stalls < MaxStalls
      BY <2>1, LimitsAssumption
    <2>3. job'[j].state = "waiting" /\ job'[j].media = job[j].media
      BY <1>1, <2>2 DEF Promote, Stall, QueueTypes, JobRows
    <2>4. \A k \in JobIds \ {j} : job'[k] = job[k]
      BY <1>1, <2>2 DEF Promote, Stall, QueueTypes
    <2>5. slot' = slot
      BY <1>1 DEF Promote, Stall
    <2> QED  BY <2>3, <2>4, <2>5 DEF InCharge, Waits, Works
  <1>2. ASSUME NEW j \in JobIds, NEW w \in Slots, Take(w, j)
        PROVE  InCharge(r)'
    <2>1. slot'[w].pc = "status" /\ slot'[w].media = job[j].media
      BY <1>2 DEF Take, QueueTypes, SlotRows, IdleSlot
    <2>2. /\ \A k \in JobIds \ {j} : job'[k] = job[k]
          /\ \A v \in Slots \ {w} : slot'[v] = slot[v]
      BY <1>2 DEF Take, QueueTypes
    <2>3. slot[w].pc = "idle"
      BY <1>2 DEF Take
    <2>4. Waits(j, r) => Works(w, r)'
      BY <2>1 DEF Waits, Works, Passive
    <2> QED  BY <2>2, <2>3, <2>4 DEF InCharge, Waits, Works, Passive
  <1>3. ASSUME NEW w \in Slots, LoseLock(w) \/ Crash(w)
        PROVE  InCharge(r)'
    <2>1. lost = 0 /\ slot[w].pc # "idle" /\ slot[w].job \in JobIds /\ slot[w].media = r
      BY <1>3, LimitsAssumption DEF LoseLock, Crash, QueueTypes, SlotRows, MediaKnown
    <2>2. PICK i \in JobIds : i = slot[w].job
      BY <2>1
    <2>3. job[i].owner = w
      BY <2>1, <2>2 DEF OneLoss
    <2>4. job[i].state = "active" /\ job[i].media = r
      BY <2>1, <2>2, <2>3, NamesAssumption DEF OwnersWork
    <2>5. job' = [job EXCEPT ![i].owner = NoSlot]
      BY <1>3, <2>2, <2>3 DEF LoseLock, Crash
    <2>6. job'[i].state = "active" /\ job'[i].media = r /\ job'[i].owner = NoSlot
      BY <2>4, <2>5 DEF QueueTypes, JobRows
    <2> QED  BY <2>6 DEF InCharge, Waits
  <1> QED  BY <1>1, <1>2, <1>3

LEMMA AddWaits ==
    ASSUME QInv, NEW j \in JobIds, NEW m \in Requests, job[j].state = "none",
           job' = Added(j, m)
    PROVE  /\ Waits(j, m)'
           /\ \A k \in JobIds \ {j} : job'[k] = job[k]
  <1> DEFINE x == [NoJob EXCEPT !.state = "waiting", !.media = m]
  <1>1. x.state = "waiting" /\ x.media = m
    BY NoJobFacts DEF JobRows
  <1>2. job' = [job EXCEPT ![j] = x]
    BY DEF Added
  <1> HIDE DEF x
  <1> QED  BY <1>1, <1>2 DEF Waits, QInv, QueueTypes

LEMMA IdleWaiting ==
    ASSUME NEW m, NEW j \in JobIds, job[j].state = "none"
    PROVE  ~Waits(j, m)
  BY DEF Waits

(* The delivery and the staff.                                             *)
LEMMA DeliveryCharge ==
    ASSUME IInv, AddedOnce, NEW r \in Requests, Requests = {r}, Deliver(r),
           status'[r] = "PROCESSING", request'[r].pc # "undo",
           status[r] = "PROCESSING" /\ request[r].pc # "undo" => InCharge(r)
    PROVE  InCharge(r)'
  <1> USE DEF IInv, RowTypes
  <1>1. CASE Create(r)
    BY <1>1 DEF Create, Step, Fail, InCharge
  <1>2. CASE Add(r)
    <2>1. Step(r, "complete") /\ job' = Added(SessionJob, r)
      BY <1>2 DEF Add, Fail
    <2>2. SessionJob \in JobIds /\ job[SessionJob].state = "none"
      BY <1>2 DEF Add, AddedOnce, JobIds
    <2> QED  BY <2>1, <2>2, AddWaits DEF InCharge
  <1>3. ASSUME Check(r) \/ MarkUploading(r) \/ Save(r)
        PROVE  FALSE
    <2>1. request[r].pc \in Early /\ status' = status
      BY <1>3 DEF Check, MarkUploading, Save, Early
    <2> QED  BY <2>1 DEF CreatedOnce, Early
  <1>4. CASE Complete(r)
    <2>1. UNCHANGED <<status, job, slot, staff>> /\ request[r].pc = "complete"
      BY <1>4 DEF Complete, jobs
    <2> QED  BY <2>1 DEF InCharge, Waits, Works
  <1>5. ASSUME NEW c \in Undoing, Compensate(r, c)
        PROVE  FALSE
    BY <1>5 DEF Compensate
  <1> QED  BY <1>1, <1>2, <1>3, <1>4, <1>5 DEF Deliver

LEMMA StaffCharge ==
    ASSUME IInv, NEW r \in Requests, Requests = {r},
           \/ \E m \in Requests : Reject(m) \/ RequestRescan(m) \/ RetryFailed(m)
           \/ StaffSettles,
           status'[r] = "PROCESSING",
           status[r] = "PROCESSING" => InCharge(r)
    PROVE  InCharge(r)'
  <1> USE DEF IInv, RowTypes
  <1>1. ASSUME NEW m \in Requests, Reject(m) \/ RequestRescan(m)
        PROVE  InCharge(r)'
    <2>1. m = r /\ status[r] = "QUARANTINED"
      BY <1>1 DEF Reject, RequestRescan
    <2>2. status'[r] # "PROCESSING"
      BY <1>1, <2>1 DEF Reject, RequestRescan, Set
    <2> QED  BY <2>2
  <1>2. ASSUME NEW m \in Requests, RetryFailed(m)
        PROVE  InCharge(r)'
    <2>1. m = r
      OBVIOUS
    <2> QED  BY <1>2, <2>1 DEF RetryFailed, InCharge
  <1>3. CASE StaffAddFails
    <2>1. /\ status[r] = "PROCESSING" /\ staff # [pc |-> "retry", media |-> r]
      BY <1>3 DEF StaffAddFails, GivenBack, StaffKnows
    <2>2. UNCHANGED <<request, job, slot>>
      BY <1>3 DEF StaffAddFails, intake, jobs
    <2> QED  BY <2>1, <2>2 DEF InCharge, Waits, Works
  <1>4. ASSUME NEW j \in ExtraJobs, StaffAdds(j)
        PROVE  InCharge(r)'
    <2>1. staff.media = r /\ j \in JobIds /\ job[j].state = "none"
      BY <1>4 DEF StaffAdds, StaffKnows, JobIds
    <2>2. Waits(j, r)'
      BY <1>4, <2>1, AddWaits DEF StaffAdds
    <2> QED  BY <2>1, <2>2 DEF InCharge
  <1> QED  BY <1>1, <1>2, <1>3, <1>4 DEF StaffSettles

LEMMA ChargeStep ==
    ASSUME SingleDelivery, IInv, ChargeInv, Next, RowMoves, OthersMove
    PROVE  SomebodyInCharge'
  <1>1. PICK r : Requests = {r}
    BY DEF SingleDelivery
  <1>2. r \in Requests
    BY <1>1
  <1> SUFFICES ASSUME status'[r] = "PROCESSING", request'[r].pc # "undo", lost' <= 1, faults' = 0
               PROVE  InCharge(r)'
    BY <1>1 DEF SomebodyInCharge
  <1>3. lost \in Nat /\ faults \in Nat
    BY LimitsAssumption DEF IInv, QInv, QueueTypes, RowTypes
  <1>4. faults = 0 /\ faults' # faults + 1
    <2>1. faults' = faults \/ faults' = faults + 1
      BY DEF Next, AbortCheck, AbortWrite, Reject, RequestRescan, RetryFailed, StaffSettles,
         StaffAddFails, StaffAdds, StaffCrash, Promote, Stall, Take, Attempt, FindStatus,
         ClaimRetry, Loser, Scan, MarkQuarantined, MarkProcessing, Transform, MarkReady,
         CleanupSource, Caught, MarkFailed, StoreFails, LoseLock, Crash,
         Deliver, ApiCrash, Check, MarkUploading, Save, Create, Add, Complete, Compensate
    <2> QED  BY <1>3, <2>1
  <1>5. lost <= 1
    <2>1. lost' = lost \/ lost' = lost + 1
      BY DEF Next, AbortCheck, AbortWrite, Reject, RequestRescan, RetryFailed, StaffSettles,
         StaffAddFails, StaffAdds, StaffCrash, Promote, Stall, Take, Attempt, FindStatus,
         ClaimRetry, Loser, Scan, MarkQuarantined, MarkProcessing, Transform, MarkReady,
         CleanupSource, Caught, MarkFailed, StoreFails, LoseLock, Crash,
         Deliver, ApiCrash, Check, MarkUploading, Save, Create, Add, Complete, Compensate,
         Return, Throw, Goto, jobs
    <2> QED  BY <1>3, <2>1
  <1>6. status[r] = "PROCESSING" /\ request[r].pc # "undo" => InCharge(r)
    BY <1>2, <1>4, <1>5 DEF ChargeInv, SomebodyInCharge
  <1>7. request[r].pc # "undo"
    BY <1>2, <1>4, DeliverySteps
  <1>8. CASE Deliver(r)
    BY <1>1, <1>2, <1>6, <1>8, DeliveryCharge DEF ChargeInv
  <1>9. CASE \/ \E m \in Requests : Reject(m) \/ RequestRescan(m) \/ RetryFailed(m)
             \/ StaffSettles
    BY <1>1, <1>2, <1>6, <1>7, <1>9, StaffCharge
  <1>10. CASE AbortCheck \/ AbortWrite
    <2>1. UNCHANGED <<status, request, job, slot, staff>>
      BY <1>10 DEF AbortCheck, AbortWrite, jobs
    <2> QED  BY <1>6, <1>7, <2>1 DEF InCharge, Waits, Works
  <1>11. CASE \/ \E j \in JobIds : Promote(j) \/ Stall(j) \/ \E w \in Slots : Take(w, j)
              \/ \E w \in Slots : LoseLock(w) \/ Crash(w)
    <2>1. UNCHANGED <<status, request, staff>>
      BY <1>11 DEF Promote, Stall, Take, LoseLock, Crash, intake
    <2> QED  BY <1>1, <1>2, <1>6, <1>7, <1>11, <2>1, QueueCharge
  <1>12. ASSUME NEW w \in Slots, Attempt(w)
         PROVE  InCharge(r)'
    <2>1. UNCHANGED <<request, staff>>
      BY <1>12 DEF Attempt, FindStatus, ClaimRetry, Loser, Scan, MarkQuarantined, MarkProcessing,
                   Transform, MarkReady, CleanupSource, Caught, MarkFailed, intake
    <2>2. CASE request[r].pc = "add" \/ staff = [pc |-> "retry", media |-> r]
      BY <2>1, <2>2 DEF InCharge
    <2>3. CASE request[r].pc # "add" /\ staff # [pc |-> "retry", media |-> r]
      BY <1>1, <1>2, <1>6, <1>7, <1>12, <2>3, AttemptCharge
    <2> QED  BY <2>2, <2>3
  <1>13. /\ ~StaffCrash
         /\ \A w \in Slots : ~StoreFails(w)
         /\ ~ApiCrash(r)
    BY <1>4 DEF StaffCrash, StoreFails, ApiCrash
  <1> QED  BY <1>1, <1>8, <1>9, <1>10, <1>11, <1>12, <1>13 DEF Next

LEMMA AddedStep ==
    ASSUME SingleDelivery, IInv, AddedOnce, Next
    PROVE  AddedOnce'
  <1>1. PICK r : Requests = {r}
    BY DEF SingleDelivery
  <1> SUFFICES ASSUME request'[r].pc \in Early \cup {"add"}
               PROVE  job'[SessionJob].state = "none"
    BY <1>1 DEF AddedOnce
  <1>2. r \in Requests /\ SessionJob \in JobIds
    BY <1>1 DEF JobIds
  <1> USE DEF IInv, QInv, QueueTypes, RowTypes
  <1>3. ASSUME Deliver(r) \/ ApiCrash(r)
        PROVE  request[r].pc \in Early \cup {"add"} /\ job' = job
    <2>1. CASE Check(r) \/ MarkUploading(r) \/ Save(r) \/ Create(r) \/ ApiCrash(r)
      BY <1>2, <2>1 DEF Check, MarkUploading, Save, Create, ApiCrash, Step, Fail, Early, jobs
    <2>2. CASE Add(r) \/ Complete(r)
      BY <1>2, <2>2 DEF Add, Complete, Step, Fail, Early
    <2>3. ASSUME NEW c \in Undoing, Compensate(r, c)
          PROVE  FALSE
      BY <1>2, <2>3 DEF Compensate, Early
    <2> QED  BY <1>3, <2>1, <2>2, <2>3 DEF Deliver
  <1>4. CASE Deliver(r) \/ ApiCrash(r)
    BY <1>2, <1>3, <1>4 DEF AddedOnce
  <1>5. CASE ~(Deliver(r) \/ ApiCrash(r))
    <2>1. request' = request
      BY <1>1, <1>5 DEF Next, AbortCheck, AbortWrite, Reject, RequestRescan, RetryFailed,
         StaffSettles, StaffAddFails, StaffAdds, StaffCrash, Promote, Stall, Take, Attempt,
         FindStatus, ClaimRetry, Loser, Scan, MarkQuarantined, MarkProcessing, Transform,
         MarkReady, CleanupSource, Caught, MarkFailed, StoreFails, LoseLock, Crash, intake
    <2>2. job[SessionJob].state = "none"
      BY <1>2, <2>1 DEF AddedOnce
    <2>3. ASSUME NEW j \in JobIds, job'[j] # job[j], job[j].state = "none"
          PROVE  j \in ExtraJobs
      <3>1. ASSUME NEW w \in Slots, Attempt(w) \/ StoreFails(w)
            PROVE  job'[j] = job[j]
        <4>1. Ends(w) \/ GoesOn(w)
          BY <3>1, AttemptMoves
        <4>2. \A k \in JobIds : job[k].owner = w => job[k].state = "active"
          BY NamesAssumption DEF OwnersWork
        <4>3. slot[w].job \in JobIds
          BY DEF SlotRows
        <4> QED  BY <2>3, <4>1, <4>2, <4>3 DEF Ends, GoesOn
      <3>2. ASSUME NEW w \in Slots, LoseLock(w) \/ Crash(w)
            PROVE  job'[j] = job[j]
        <4>1. job[slot[w].job].owner = w => job[slot[w].job].state = "active"
          BY NamesAssumption DEF OwnersWork, SlotRows
        <4> QED  BY <2>3, <3>2, <4>1 DEF LoseLock, Crash
      <3>3. ASSUME NEW k \in JobIds, Promote(k) \/ Stall(k) \/ \E w \in Slots : Take(w, k)
            PROVE  job'[j] = job[j]
        BY <2>3, <3>3 DEF Promote, Stall, Take
      <3>4. ASSUME NEW k \in ExtraJobs, StaffAdds(k)
            PROVE  j \in ExtraJobs
        BY <2>3, <3>4 DEF StaffAdds, Added
      <3>5. CASE \/ AbortCheck \/ AbortWrite \/ StaffAddFails \/ StaffCrash
                 \/ \E m \in Requests : Reject(m) \/ RequestRescan(m) \/ RetryFailed(m)
        BY <2>3, <3>5 DEF AbortCheck, AbortWrite, StaffAddFails, StaffCrash, Reject, RequestRescan,
           RetryFailed, jobs
      <3> QED  BY <1>1, <1>5, <2>3, <3>1, <3>2, <3>3, <3>4, <3>5 DEF Next, StaffSettles
    <2> QED  BY <1>2, <2>2, <2>3, NamesAssumption
  <1> QED  BY <1>4, <1>5

(* No single crash or lost lock strands a row: while no API process died   *)
(* and no store call failed, somebody is in charge of every row in         *)
(* PROCESSING, if the session has one delivery.                            *)
THEOREM RowsAreNotStranded ==
    ASSUME SingleDelivery
    PROVE  Spec => []UnfinishedIsOwned
  <1>1. Init => ChargeInv
    BY NoJobFacts DEF Init, ChargeInv, SomebodyInCharge, AddedOnce, JobIds
  <1>2. IInv /\ ChargeInv /\ [Next]_vars => ChargeInv'
    <2> SUFFICES ASSUME IInv, ChargeInv, [Next]_vars
                 PROVE  ChargeInv'
      OBVIOUS
    <2>1. CASE UNCHANGED vars
      BY <2>1 DEF vars, intake, jobs, ChargeInv, SomebodyInCharge, InCharge, Waits, Works, AddedOnce
    <2>2. CASE Next
      BY <2>2, ChargeStep, AddedStep, RowStep, OthersStep DEF ChargeInv
    <2> QED  BY <2>1, <2>2
  <1>3. IInv /\ ChargeInv => UnfinishedIsOwned
    BY DEF ChargeInv, SomebodyInCharge, InCharge, Waits, Works, Passive, UnfinishedIsOwned, MediaOf
  <1> QED  BY <1>1, <1>2, <1>3, Inductive, PTL DEF Spec

-----------------------------------------------------------------------------
(* What the snapshot of an open claim still says of the rows nobody has    *)
(* written since: they are due, no intake is at them, no profile shows     *)
(* them, and their keys are the ones the claim has read.                   *)
Fresh(s, m) ==
    /\ mediaStatus[m] \in Purgeable \cup {"DELETING"}
    /\ m \notin open
    /\ \A place \in ProfileSlots : profile[place] # m
    /\ sweep[s].keys[m] = RecordedKeys(m)

ClaimIsFresh ==
    \A s \in Sweepers :
        sweep[s].pc = "CLAIMING" =>
            /\ ~sweep[s].purged
            /\ \A m \in sweep[s].batch \ sweep[s].stale : Fresh(s, m)

(* What a committed claim holds.                                           *)
Held(s, m) ==
    /\ mediaStatus[m] \in Claimed
    /\ sweep[s].keys[m] = RecordedKeys(m)

ClaimIsHeld ==
    \A s \in Sweepers :
        sweep[s].pc = "DELETING" => \A m \in sweep[s].batch : Held(s, m)

(* Between its deletions and its completion a pass leaves only what an     *)
(* attempt has written in the meantime.                                    *)
PurgedIsEmpty ==
    \A s \in Sweepers, m \in Media :
        At(s, m) /\ sweep[s].purged => stored[m] \cap RecordedKeys(m) \subseteq late[m]

(* No claim takes a row whose intake may still mark it FAILED.             *)
OpenIsYoung ==
    \A m \in open : m \notin aged /\ mediaStatus[m] \notin Claimed \cup {"ABSENT"}

(* Only rows that exist grow old, are undone or processed.                 *)
AgedExist == \A m \in aged : mediaStatus[m] # "ABSENT"

AbsentIsUnknown ==
    /\ \A m \in undone : mediaStatus[m] # "ABSENT"
    /\ \A w \in Writers :
           writer[w].pc # "idle" =>
               writer[w].media \in Media /\ mediaStatus[writer[w].media] # "ABSENT"

(* What an attempt has written so far.                                     *)
ObjectsAt(pc) ==
    IF pc = "variant" THEN {"original"}
    ELSE IF pc = "ready" THEN {"original", "variant"} ELSE {}

(* The files of an attempt under way go only when its row is claimed.      *)
WritesAreKept ==
    \A w \in Writers :
        writer[w].pc # "idle" =>
            \/ mediaStatus[writer[w].media] \in Claimed
            \/ ObjectsAt(writer[w].pc) \subseteq stored[writer[w].media]

RetentionInv ==
    /\ RetentionTypeOK
    /\ ClaimIsFresh
    /\ ClaimIsHeld
    /\ PurgedIsEmpty
    /\ OpenIsYoung
    /\ AgedExist
    /\ AbsentIsUnknown
    /\ WritesAreKept
    /\ ProfileAssetsAreKept
    /\ ReadyHasObjects
    /\ PurgeIsComplete

LEMMA RetentionStarts == RetentionInit => RetentionInv
  BY MediaAssumption, BatchAssumption
     DEF RetentionInit, RetentionInv, RetentionTypeOK, Idle, NotWriting, NoKeys, ClaimIsFresh,
         ClaimIsHeld, PurgedIsEmpty, At, OpenIsYoung, AgedExist, AbsentIsUnknown, WritesAreKept,
         ProfileAssetsAreKept, ReadyHasObjects, PurgeIsComplete, FileKeys, Lifecycle, Purgeable

-----------------------------------------------------------------------------
WriterRecord == [pc : {"idle", "original", "variant", "ready", "cleanup"},
                 media : Media \cup {NoAsset}]
PassRecord == [pc : {"IDLE", "CLAIMING", "DELETING"}, batch : SUBSET Media,
               stale : SUBSET Media, keys : [Media -> SUBSET FileKeys], purged : BOOLEAN]

LEMMA IdlePass ==
    Idle \in PassRecord /\ Idle.pc = "IDLE"
  BY DEF Idle, NoKeys, PassRecord, FileKeys

(* A row write leaves every pass as it was, but for the stale rows of the  *)
(* open claims.                                                            *)
LEMMA WroteFacts ==
    ASSUME RetentionTypeOK, NEW M \in SUBSET Media
    PROVE  /\ Wrote(M) \in [Sweepers -> PassRecord]
           /\ \A s \in Sweepers :
                  /\ Wrote(M)[s].pc = sweep[s].pc
                  /\ Wrote(M)[s].batch = sweep[s].batch
                  /\ Wrote(M)[s].keys = sweep[s].keys
                  /\ Wrote(M)[s].purged = sweep[s].purged
                  /\ sweep[s].pc = "CLAIMING" => Wrote(M)[s].stale = sweep[s].stale \cup M
  <1>1. sweep \in [Sweepers -> PassRecord]
    BY DEF RetentionTypeOK, PassRecord
  <1> QED  BY <1>1 DEF Wrote, PassRecord

LEMMA KeysFacts ==
    ASSUME NEW m \in Media
    PROVE  RecordedKeys(m) \in SUBSET FileKeys
  BY DEF RecordedKeys, FileKeys

(* A step of one pass that leaves the rows alone keeps the invariant when  *)
(* the pass's new record does.                                             *)
LEMMA PassStep ==
    ASSUME RetentionInv, NEW s \in Sweepers, NEW r \in PassRecord,
           sweep' = [sweep EXCEPT ![s] = r], UNCHANGED <<row, attempts, aged, uses>>,
           interrupts' \in 0 .. MaxInterrupts,
           r.pc = "CLAIMING" => \A m \in r.batch \ r.stale :
               /\ mediaStatus[m] \in Purgeable \cup {"DELETING"}
               /\ m \notin open
               /\ \A place \in ProfileSlots : profile[place] # m
               /\ r.keys[m] = RecordedKeys(m),
           r.pc = "DELETING" => \A m \in r.batch :
               /\ mediaStatus[m] \in Claimed
               /\ r.keys[m] = RecordedKeys(m),
           r.pc = "IDLE" \/ ~r.purged
    PROVE  RetentionInv'
  <1> USE DEF RetentionInv
  <1>1. /\ \A t \in Sweepers : sweep'[t] = IF t = s THEN r ELSE sweep[t]
        /\ sweep' \in [Sweepers -> PassRecord]
    BY DEF RetentionTypeOK, PassRecord
  <1>2. \A m : RecordedKeys(m)' = RecordedKeys(m)
    BY DEF RecordedKeys, row
  <1>3. RetentionTypeOK'
    BY <1>1 DEF RetentionTypeOK, PassRecord, row, attempts, uses
  <1>4. ClaimIsFresh'
    BY <1>1, <1>2 DEF ClaimIsFresh, Fresh, row, attempts, uses
  <1>5. ClaimIsHeld'
    BY <1>1, <1>2 DEF ClaimIsHeld, Held, row
  <1>6. PurgedIsEmpty'
    BY <1>1, <1>2 DEF PurgedIsEmpty, At, row, attempts
  <1>7. OpenIsYoung' /\ AgedExist' /\ AbsentIsUnknown' /\ WritesAreKept'
    BY DEF OpenIsYoung, AgedExist, AbsentIsUnknown, WritesAreKept, row, attempts
  <1>8. ProfileAssetsAreKept' /\ ReadyHasObjects' /\ PurgeIsComplete'
    BY <1>2 DEF ProfileAssetsAreKept, ReadyHasObjects, PurgeIsComplete, row, attempts, uses
  <1> QED  BY <1>3, <1>4, <1>5, <1>6, <1>7, <1>8

(* A write of one row that no committed claim holds: open claims that have *)
(* the row become stale, and the row itself need only be sound.            *)
LEMMA RetentionRow ==
    ASSUME RetentionInv, NEW m \in Media,
           mediaStatus[m] \notin Claimed \cup {"ABSENT"},
           NEW to \in Lifecycle \ Claimed,
           mediaStatus' = [mediaStatus EXCEPT ![m] = to],
           variants' \subseteq Media, variants' \ {m} = variants \ {m},
           to = "READY" => {"original", "variant"} \subseteq stored[m],
           sweep' = Wrote({m}),
           undone \subseteq undone', undone' \subseteq undone \cup {m},
           writer' \in [Writers -> WriterRecord],
           \A w \in Writers : /\ writer'[w].media = writer[w].media
                              /\ writer'[w].pc \in {writer[w].pc, "cleanup"}
                              /\ writer'[w].pc # "idle" => writer[w].pc # "idle",
           \A place \in ProfileSlots :
               profile'[place] = m => /\ to = "READY" \/ m \in undone'
                                      /\ {"original", "variant"} \subseteq stored[m],
           \A place \in ProfileSlots : profile'[place] # m => profile'[place] = profile[place],
           profile' \in [ProfileSlots -> Media \cup {NoAsset}],
           UNCHANGED <<stored, late, open, aged, post, attached, interrupts>>
    PROVE  RetentionInv'
  <1> USE DEF RetentionInv
  <1>1. /\ sweep' \in [Sweepers -> PassRecord]
        /\ \A s \in Sweepers :
               /\ sweep'[s].pc = sweep[s].pc
               /\ sweep'[s].batch = sweep[s].batch
               /\ sweep'[s].keys = sweep[s].keys
               /\ sweep'[s].purged = sweep[s].purged
               /\ sweep[s].pc = "CLAIMING" => sweep'[s].stale = sweep[s].stale \cup {m}
    BY WroteFacts
  <1>2. /\ mediaStatus' \in [Media -> Lifecycle \cup {"ABSENT"}]
        /\ mediaStatus'[m] = to
        /\ \A n \in Media \ {m} : /\ mediaStatus'[n] = mediaStatus[n]
                                  /\ RecordedKeys(n)' = RecordedKeys(n)
    BY DEF RetentionTypeOK, RecordedKeys
  <1>3. RetentionTypeOK'
    <2>1. undone' \subseteq Media /\ open' \subseteq Media /\ aged' \subseteq Media
      BY DEF RetentionTypeOK
    <2>2. /\ stored' \in [Media -> SUBSET FileKeys] /\ late' \in [Media -> SUBSET FileKeys]
          /\ post' \in [Posts -> [state : {"NEW", "CHECKED", "LIVE", "TOMBSTONED"},
                                media : Media \cup {NoAsset}]]
          /\ attached' \in [Articles -> SUBSET Media]
          /\ interrupts' \in 0 .. MaxInterrupts
      BY DEF RetentionTypeOK
    <2> QED  BY <1>1, <1>2, <2>1, <2>2 DEF RetentionTypeOK, PassRecord, WriterRecord
  <1>4. ClaimIsFresh'
    <2> SUFFICES ASSUME NEW s \in Sweepers, sweep'[s].pc = "CLAIMING",
                        NEW n \in sweep'[s].batch \ sweep'[s].stale
                 PROVE  Fresh(s, n)'
      BY <1>1 DEF ClaimIsFresh
    <2>1. /\ sweep[s].pc = "CLAIMING" /\ n \in sweep[s].batch
          /\ n # m /\ n \notin sweep[s].stale
      BY <1>1
    <2>2. n \in Media
      BY <2>1 DEF RetentionTypeOK
    <2>3. Fresh(s, n)
      BY <2>1 DEF ClaimIsFresh
    <2>4. \A place \in ProfileSlots : profile'[place] # n
      BY <2>1, <2>3 DEF Fresh
    <2>5. mediaStatus'[n] = mediaStatus[n] /\ RecordedKeys(n)' = RecordedKeys(n)
      BY <1>2, <2>1, <2>2
    <2> QED  BY <1>1, <2>3, <2>4, <2>5 DEF Fresh
  <1>5. ClaimIsHeld'
    <2> SUFFICES ASSUME NEW s \in Sweepers, sweep'[s].pc = "DELETING",
                        NEW n \in sweep'[s].batch
                 PROVE  Held(s, n)'
      BY DEF ClaimIsHeld
    <2>1. n \in Media /\ Held(s, n)
      BY <1>1 DEF ClaimIsHeld, RetentionTypeOK
    <2>2. n # m
      BY <2>1 DEF Held
    <2> QED  BY <1>1, <1>2, <2>1, <2>2 DEF Held
  <1>6. PurgedIsEmpty'
    <2> SUFFICES ASSUME NEW s \in Sweepers, NEW n \in Media, At(s, n)', sweep'[s].purged
                 PROVE  stored'[n] \cap RecordedKeys(n)' \subseteq late'[n]
      BY DEF PurgedIsEmpty
    <2>1. At(s, n) /\ sweep[s].purged
      BY <1>1 DEF At
    <2>2. n # m
      <3>1. Held(s, n)
        BY <2>1 DEF At, ClaimIsHeld
      <3> QED  BY <3>1 DEF Held
    <2>3. stored[n] \cap RecordedKeys(n) \subseteq late[n]
      BY <2>1 DEF PurgedIsEmpty
    <2>4. RecordedKeys(n)' = RecordedKeys(n)
      BY <1>2, <2>2
    <2> QED  BY <2>3, <2>4
  <1>7. OpenIsYoung'
    BY <1>2 DEF OpenIsYoung, RetentionTypeOK, Lifecycle, Purgeable
  <1>8. AbsentIsUnknown' /\ AgedExist'
    <2>1. \A n \in Media : mediaStatus[n] # "ABSENT" => mediaStatus'[n] # "ABSENT"
      BY <1>2 DEF Lifecycle, Purgeable
    <2>2. \A w \in Writers :
              writer'[w].pc # "idle" => writer[w].pc # "idle" /\ writer'[w].media = writer[w].media
      OBVIOUS
    <2> QED  BY <2>1, <2>2 DEF AbsentIsUnknown, AgedExist, RetentionTypeOK
  <1>9. WritesAreKept'
    <2> SUFFICES ASSUME NEW w \in Writers, writer'[w].pc # "idle"
                 PROVE  \/ mediaStatus'[writer'[w].media] \in Claimed
                        \/ ObjectsAt(writer'[w].pc) \subseteq stored[writer'[w].media]
      BY DEF WritesAreKept
    <2>1. /\ writer[w].pc # "idle" /\ writer'[w].media = writer[w].media
          /\ writer[w].media \in Media
          /\ \/ mediaStatus[writer[w].media] \in Claimed
             \/ ObjectsAt(writer[w].pc) \subseteq stored[writer[w].media]
      BY DEF WritesAreKept, AbsentIsUnknown
    <2>2. ObjectsAt("cleanup") = {}
      BY DEF ObjectsAt
    <2>3. mediaStatus[writer[w].media] \in Claimed =>
              mediaStatus'[writer[w].media] \in Claimed
      BY <1>2, <2>1
    <2> QED  BY <2>1, <2>2, <2>3
  <1>10. ProfileAssetsAreKept'
    <2> SUFFICES ASSUME NEW place \in ProfileSlots, profile'[place] # NoAsset
                 PROVE  /\ mediaStatus'[profile'[place]] \notin Claimed
                        /\ {"original", "variant"} \subseteq stored'[profile'[place]]
                        /\ mediaStatus'[profile'[place]] = "READY" \/ profile'[place] \in undone'
      BY DEF ProfileAssetsAreKept
    <2>1. CASE profile'[place] = m
      BY <1>2, <2>1
    <2>2. CASE profile'[place] # m
      <3>1. profile'[place] = profile[place] /\ profile[place] \in Media \ {m}
        BY <2>2 DEF RetentionTypeOK
      <3> QED  BY <1>2, <3>1 DEF ProfileAssetsAreKept
    <2> QED  BY <2>1, <2>2
  <1>11. ReadyHasObjects' /\ PurgeIsComplete'
    BY <1>2 DEF ReadyHasObjects, PurgeIsComplete, Claimed
  <1> QED  BY <1>3, <1>4, <1>5, <1>6, <1>7, <1>8, <1>9, <1>10, <1>11

(* A step that touches files, attempts or the age of rows and leaves the   *)
(* rows and the passes alone: files other than the source stay, and what a *)
(* claimed row gets is known to be late.                                   *)
LEMMA FilesStep ==
    ASSUME RetentionInv, RetentionTypeOK',
           UNCHANGED <<mediaStatus, variants, undone, uses, sweep, interrupts>>,
           open' \subseteq open, open' \cap aged' = {},
           \A m \in Media : /\ stored[m] \ {"temporary"} \subseteq stored'[m]
                            /\ late[m] \subseteq late'[m]
                            /\ mediaStatus[m] \in Claimed => stored'[m] \subseteq stored[m] \cup late'[m],
           AgedExist', AbsentIsUnknown', WritesAreKept'
    PROVE  RetentionInv'
  <1> USE DEF RetentionInv
  <1>1. \A m : RecordedKeys(m)' = RecordedKeys(m)
    BY DEF RecordedKeys
  <1>2. ClaimIsFresh' /\ ClaimIsHeld'
    BY <1>1 DEF ClaimIsFresh, Fresh, ClaimIsHeld, Held, uses
  <1>3. PurgedIsEmpty'
    <2> SUFFICES ASSUME NEW s \in Sweepers, NEW m \in Media, At(s, m), sweep[s].purged
                 PROVE  stored'[m] \cap RecordedKeys(m) \subseteq late'[m]
      BY <1>1 DEF PurgedIsEmpty, At
    <2>1. mediaStatus[m] \in Claimed /\ stored[m] \cap RecordedKeys(m) \subseteq late[m]
      BY DEF PurgedIsEmpty, At, ClaimIsHeld, Held
    <2> QED  BY <2>1
  <1>4. OpenIsYoung'
    BY DEF OpenIsYoung
  <1>5. ProfileAssetsAreKept' /\ ReadyHasObjects'
    BY MediaAssumption DEF ProfileAssetsAreKept, ReadyHasObjects, RetentionTypeOK, uses
  <1>6. PurgeIsComplete'
    <2> SUFFICES ASSUME NEW m \in Media, mediaStatus[m] = "DELETED"
                 PROVE  stored'[m] \cap RecordedKeys(m) \subseteq late'[m]
      BY <1>1 DEF PurgeIsComplete
    <2>1. mediaStatus[m] \in Claimed /\ stored[m] \cap RecordedKeys(m) \subseteq late[m]
      BY DEF PurgeIsComplete, Claimed
    <2> QED  BY <2>1
  <1> QED  BY <1>2, <1>3, <1>4, <1>5, <1>6

(* A pass removes objects of the row it is at, or closes that row, and     *)
(* goes on with the next one or with the completion of this one.           *)
LEMMA PurgeStep ==
    ASSUME RetentionInv, NEW s \in Sweepers, NEW m \in Media, At(s, m),
           NEW gone \in SUBSET sweep[s].keys[m],
           stored' = [stored EXCEPT ![m] = @ \ gone],
           late' = [late EXCEPT ![m] = @ \ gone],
           NEW to \in {mediaStatus[m], "DELETED"},
           mediaStatus' = [mediaStatus EXCEPT ![m] = to],
           to = "DELETED" => mediaStatus[m] = "DELETED" \/ sweep[s].purged,
           NEW r \in PassRecord,
           NEW others \in {sweep, Wrote({m})},
           to # mediaStatus[m] => others = Wrote({m}),
           sweep' = [others EXCEPT ![s] = r],
           \/ r = NextCandidate(s, m)
           \/ gone = sweep[s].keys[m] /\ r = [sweep[s] EXCEPT !.purged = TRUE],
           UNCHANGED <<variants, open, undone, writer, aged, uses, interrupts>>
    PROVE  RetentionInv'
  <1> USE DEF RetentionInv
  <1>1. /\ others \in [Sweepers -> PassRecord]
        /\ \A t \in Sweepers :
               /\ others[t].pc = sweep[t].pc
               /\ others[t].batch = sweep[t].batch
               /\ others[t].keys = sweep[t].keys
               /\ others[t].purged = sweep[t].purged
               /\ sweep[t].pc = "CLAIMING" => /\ sweep[t].stale \subseteq others[t].stale
                                              /\ to # mediaStatus[m] => m \in others[t].stale
    BY WroteFacts DEF RetentionTypeOK, PassRecord
  <1>2. /\ sweep'[s] = r
        /\ \A t \in Sweepers \ {s} : sweep'[t] = others[t]
        /\ sweep' \in [Sweepers -> PassRecord]
    BY <1>1
  <1>3. /\ Held(s, m) /\ sweep[s].pc = "DELETING" /\ m \in sweep[s].batch
        /\ sweep[s].purged => stored[m] \cap RecordedKeys(m) \subseteq late[m]
    BY DEF At, ClaimIsHeld, PurgedIsEmpty
  <1>4. to \in Claimed /\ mediaStatus[m] \in Claimed
    BY <1>3 DEF Held, Claimed
  <1>5. /\ mediaStatus' \in [Media -> Lifecycle \cup {"ABSENT"}]
        /\ stored' \in [Media -> SUBSET FileKeys] /\ late' \in [Media -> SUBSET FileKeys]
        /\ mediaStatus'[m] = to
        /\ stored'[m] = stored[m] \ gone /\ late'[m] = late[m] \ gone
        /\ \A n \in Media : n # m => /\ mediaStatus'[n] = mediaStatus[n]
                                     /\ stored'[n] = stored[n] /\ late'[n] = late[n]
    BY <1>4 DEF RetentionTypeOK, Lifecycle, Claimed
  <1>6. \A n : RecordedKeys(n)' = RecordedKeys(n)
    BY DEF RecordedKeys
  <1>7. /\ r.pc = "IDLE" \/ /\ r.pc = "DELETING"
                            /\ r.batch \subseteq sweep[s].batch
                            /\ r.keys = sweep[s].keys
        /\ r.pc = "IDLE" \/ ~r.purged \/ (gone = sweep[s].keys[m] /\ r.batch = sweep[s].batch)
    <2>1. sweep[s] \in PassRecord
      BY DEF RetentionTypeOK, PassRecord
    <2>2. CASE r = NextCandidate(s, m)
      <3>1. \/ r = Idle
            \/ r = [sweep[s] EXCEPT !.batch = @ \ {m}, !.purged = FALSE]
        BY <2>2 DEF NextCandidate
      <3> QED  BY <1>3, <2>1, <3>1, IdlePass DEF PassRecord
    <2>3. CASE gone = sweep[s].keys[m] /\ r = [sweep[s] EXCEPT !.purged = TRUE]
      BY <1>3, <2>1, <2>3 DEF PassRecord
    <2> QED  BY <2>2, <2>3
  <1>8. RetentionTypeOK'
    BY <1>2, <1>5 DEF RetentionTypeOK, PassRecord, uses
  <1>9. ClaimIsFresh'
    <2> SUFFICES ASSUME NEW t \in Sweepers, sweep'[t].pc = "CLAIMING",
                        NEW n \in sweep'[t].batch \ sweep'[t].stale
                 PROVE  Fresh(t, n)'
      BY <1>1, <1>2, <1>7 DEF ClaimIsFresh
    <2>1. t # s /\ sweep[t].pc = "CLAIMING" /\ n \in sweep[t].batch \ sweep[t].stale
      BY <1>1, <1>2, <1>7
    <2>2. Fresh(t, n) /\ n \in Media
      BY <2>1 DEF ClaimIsFresh, RetentionTypeOK
    <2>3. mediaStatus'[n] = mediaStatus[n]
      BY <1>1, <1>2, <1>5, <2>1, <2>2
    <2> QED  BY <1>1, <1>2, <1>6, <2>1, <2>2, <2>3 DEF Fresh, uses
  <1>10. ClaimIsHeld'
    <2> SUFFICES ASSUME NEW t \in Sweepers, sweep'[t].pc = "DELETING",
                        NEW n \in sweep'[t].batch
                 PROVE  Held(t, n)'
      BY DEF ClaimIsHeld
    <2>1. sweep[t].pc = "DELETING" /\ n \in sweep[t].batch /\ sweep'[t].keys = sweep[t].keys
      BY <1>1, <1>2, <1>3, <1>7
    <2>2. Held(t, n) /\ n \in Media
      BY <2>1 DEF ClaimIsHeld, RetentionTypeOK
    <2> QED  BY <1>4, <1>5, <1>6, <2>1, <2>2 DEF Held
  <1>11. PurgedIsEmpty'
    <2> SUFFICES ASSUME NEW t \in Sweepers, NEW n \in Media, At(t, n)', sweep'[t].purged
                 PROVE  stored'[n] \cap RecordedKeys(n) \subseteq late'[n]
      BY <1>6 DEF PurgedIsEmpty
    <2>1. CASE t # s
      <3>1. At(t, n) /\ sweep[t].purged
        BY <1>1, <1>2, <2>1 DEF At
      <3>2. stored[n] \cap RecordedKeys(n) \subseteq late[n]
        BY <3>1 DEF PurgedIsEmpty
      <3> QED  BY <1>5, <3>2
    <2>2. CASE t = s
      <3>1. gone = sweep[s].keys[m] /\ r.batch = sweep[s].batch /\ sweep'[s].pc = "DELETING"
        BY <1>2, <1>7, <2>2 DEF At
      <3>2. At(s, n)
        BY <1>2, <1>3, <2>2, <3>1 DEF At
      <3>3. n = m
        <4>1. n <= m /\ m <= n /\ n \in Nat /\ m \in Nat
          BY <3>2, MediaAssumption DEF At
        <4> QED  BY <4>1
      <3>4. stored'[m] = stored[m] \ RecordedKeys(m)
        BY <1>3, <3>1 DEF Held, RetentionTypeOK
      <3> QED  BY <3>3, <3>4
    <2> QED  BY <2>1, <2>2
  <1>12. ProfileAssetsAreKept'
    <2>1. \A place \in ProfileSlots : profile[place] # m
      BY <1>4, MediaAssumption DEF ProfileAssetsAreKept
    <2> QED  BY <1>5, <2>1, MediaAssumption DEF ProfileAssetsAreKept, uses, RetentionTypeOK
  <1>13. ReadyHasObjects'
    BY <1>4, <1>5 DEF ReadyHasObjects, Claimed
  <1>14. PurgeIsComplete'
    <2> SUFFICES ASSUME NEW n \in Media, mediaStatus'[n] = "DELETED"
                 PROVE  stored'[n] \cap RecordedKeys(n) \subseteq late'[n]
      BY <1>6 DEF PurgeIsComplete
    <2>1. CASE mediaStatus[n] = "DELETED"
      <3>1. stored[n] \cap RecordedKeys(n) \subseteq late[n]
        BY <2>1 DEF PurgeIsComplete
      <3> QED  BY <1>5, <3>1
    <2>2. CASE mediaStatus[n] # "DELETED"
      BY <1>3, <1>5, <2>2
    <2> QED  BY <2>1, <2>2
  <1>15. OpenIsYoung'
    <2>1. m \notin open
      BY <1>4 DEF OpenIsYoung
    <2> QED  BY <1>5, <2>1 DEF OpenIsYoung, RetentionTypeOK
  <1>16. AbsentIsUnknown' /\ AgedExist'
    <2>1. \A n \in Media : mediaStatus[n] # "ABSENT" => mediaStatus'[n] # "ABSENT"
      BY <1>4, <1>5 DEF Claimed
    <2> QED  BY <2>1 DEF AbsentIsUnknown, AgedExist, RetentionTypeOK
  <1>17. WritesAreKept'
    <2> SUFFICES ASSUME NEW w \in Writers, writer[w].pc # "idle"
                 PROVE  \/ mediaStatus'[writer[w].media] \in Claimed
                        \/ ObjectsAt(writer[w].pc) \subseteq stored'[writer[w].media]
      BY DEF WritesAreKept
    <2>1. writer[w].media \in Media
      BY DEF AbsentIsUnknown
    <2>2. CASE writer[w].media = m
      BY <1>4, <1>5, <2>2
    <2>3. CASE writer[w].media # m
      BY <1>5, <2>1, <2>3 DEF WritesAreKept
    <2> QED  BY <2>2, <2>3
  <1> QED  BY <1>8, <1>9, <1>10, <1>11, <1>12, <1>13, <1>14, <1>15, <1>16, <1>17

-----------------------------------------------------------------------------
LEMMA IntakeStep ==
    ASSUME RetentionInv, NEW m \in Media, Intake(m)
    PROVE  RetentionInv'
  <1> USE DEF RetentionInv
  <1>1. CASE Upload(m)
    <2>1. \A s \in Sweepers :
              /\ sweep[s].pc = "CLAIMING" => m \notin sweep[s].batch \ sweep[s].stale
              /\ sweep[s].pc = "DELETING" => m \notin sweep[s].batch
      BY <1>1 DEF Upload, ClaimIsFresh, Fresh, ClaimIsHeld, Held, Purgeable, Claimed
    <2>2. /\ mediaStatus[m] = "ABSENT"
          /\ mediaStatus' = [mediaStatus EXCEPT ![m] = "PROCESSING"]
          /\ stored' = [stored EXCEPT ![m] = {"temporary"}]
          /\ open' = open \cup {m}
          /\ UNCHANGED <<variants, undone, late, writer, aged, uses, sweep, interrupts>>
      BY <1>1 DEF Upload
    <2>3. \A n : RecordedKeys(n)' = RecordedKeys(n)
      BY <2>2 DEF RecordedKeys
    <2>4. /\ mediaStatus'[m] = "PROCESSING"
          /\ \A n \in Media \ {m} : mediaStatus'[n] = mediaStatus[n] /\ stored'[n] = stored[n]
      BY <2>2 DEF RetentionTypeOK
    <2>5. RetentionTypeOK'
      BY <2>2 DEF RetentionTypeOK, uses, FileKeys, Lifecycle
    <2>6. ClaimIsFresh'
      BY <2>1, <2>2, <2>3, <2>4 DEF ClaimIsFresh, Fresh, RetentionTypeOK, uses
    <2>7. ClaimIsHeld'
      BY <2>1, <2>2, <2>3, <2>4 DEF ClaimIsHeld, Held, RetentionTypeOK
    <2>8. PurgedIsEmpty'
      <3> SUFFICES ASSUME NEW s \in Sweepers, NEW n \in Media, At(s, n), sweep[s].purged
                   PROVE  stored'[n] \cap RecordedKeys(n) \subseteq late[n]
        BY <2>2, <2>3 DEF PurgedIsEmpty, At
      <3>1. n # m
        BY <2>1 DEF At
      <3> QED  BY <2>4, <3>1 DEF PurgedIsEmpty
    <2>9. OpenIsYoung'
      <3>1. m \notin aged
        BY <2>2 DEF AgedExist
      <3> QED  BY <2>2, <2>4, <3>1 DEF OpenIsYoung, Claimed, RetentionTypeOK
    <2>10. AbsentIsUnknown' /\ AgedExist'
      BY <2>2, <2>4 DEF AbsentIsUnknown, AgedExist, RetentionTypeOK
    <2>11. WritesAreKept'
      BY <2>2, <2>4 DEF AbsentIsUnknown, WritesAreKept
    <2>12. ProfileAssetsAreKept'
      <3>1. \A place \in ProfileSlots : profile[place] # m
        BY <2>2, MediaAssumption DEF ProfileAssetsAreKept, AbsentIsUnknown
      <3> QED  BY <2>2, <2>4, <3>1 DEF ProfileAssetsAreKept, uses, RetentionTypeOK
    <2>13. ReadyHasObjects' /\ PurgeIsComplete'
      BY <2>2, <2>3, <2>4 DEF ReadyHasObjects, PurgeIsComplete
    <2> QED  BY <2>5, <2>6, <2>7, <2>8, <2>9, <2>10, <2>11, <2>12, <2>13
  <1>2. CASE UndoRow(m)
    <2>1. mediaStatus[m] \notin Claimed \cup {"ABSENT"}
      BY <1>2 DEF UndoRow, OpenIsYoung
    <2>2. "FAILED" \in Lifecycle \ Claimed
      BY DEF Lifecycle, Purgeable, Claimed
    <2>3. /\ mediaStatus' = [mediaStatus EXCEPT ![m] = "FAILED"]
          /\ undone' = undone \cup {m} /\ sweep' = Wrote({m})
          /\ UNCHANGED <<variants, stored, open, late, writer, aged, profile, post, attached,
                        interrupts>>
      BY <1>2 DEF UndoRow, uses
    <2>4. \A place \in ProfileSlots :
              profile[place] = m => {"original", "variant"} \subseteq stored[m]
      BY MediaAssumption DEF ProfileAssetsAreKept
    <2>5. /\ variants \subseteq Media /\ writer \in [Writers -> WriterRecord]
          /\ profile \in [ProfileSlots -> Media \cup {NoAsset}]
      BY DEF RetentionTypeOK, WriterRecord
    <2> QED  BY <2>1, <2>2, <2>3, <2>4, <2>5, RetentionRow
  <1>3. CASE DropSource(m)
    <2>1. /\ stored' = [stored EXCEPT ![m] = @ \ {"temporary"}]
          /\ UNCHANGED <<mediaStatus, variants, attempts, aged, uses, sweep, interrupts>>
      BY <1>3 DEF DropSource
    <2>2. RetentionTypeOK'
      BY <2>1 DEF RetentionTypeOK, attempts, uses
    <2>3. \A n \in Media : stored[n] \ {"temporary"} \subseteq stored'[n] /\ stored'[n] \subseteq stored[n]
      BY <2>1 DEF RetentionTypeOK
    <2>4. AgedExist' /\ AbsentIsUnknown' /\ WritesAreKept'
      BY <2>1, <2>3 DEF AgedExist, AbsentIsUnknown, WritesAreKept, ObjectsAt, attempts
    <2> QED  BY <2>1, <2>2, <2>3, <2>4, FilesStep DEF attempts, OpenIsYoung
  <1>4. CASE CloseIntake(m)
    <2>1. /\ open' = open \ {m}
          /\ UNCHANGED <<row, undone, late, writer, aged, uses, sweep, interrupts>>
      BY <1>4 DEF CloseIntake
    <2>2. RetentionTypeOK'
      BY <2>1 DEF RetentionTypeOK, row, uses
    <2>3. AgedExist' /\ AbsentIsUnknown' /\ WritesAreKept'
      BY <2>1 DEF AgedExist, AbsentIsUnknown, WritesAreKept, row
    <2> QED  BY <2>1, <2>2, <2>3, FilesStep DEF row, OpenIsYoung
  <1> QED  BY <1>1, <1>2, <1>3, <1>4 DEF Intake

LEMMA RowsStep ==
    ASSUME RetentionInv, NEW m \in Media, Move(m) \/ Age(m)
    PROVE  RetentionInv'
  <1> USE DEF RetentionInv
  <1>1. CASE Move(m)
    <2>1. PICK to \in Lifecycle : /\ <<mediaStatus[m], to>> \in Moves
                                  /\ mediaStatus' = [mediaStatus EXCEPT ![m] = to]
      BY <1>1 DEF Move
    <2>2. /\ mediaStatus[m] \in {"FAILED", "PROCESSING", "QUARANTINED"}
          /\ to \in {"FAILED", "PROCESSING", "QUARANTINED", "REJECTED"}
      BY <2>1 DEF Moves, QueueFailureFrom
    <2>3. /\ mediaStatus[m] \notin Claimed \cup {"ABSENT"}
          /\ to \in Lifecycle \ Claimed /\ to # "READY"
      BY <2>1, <2>2 DEF Claimed
    <2>4. \A place \in ProfileSlots :
              profile[place] = m => m \in undone /\ {"original", "variant"} \subseteq stored[m]
      BY <2>2, MediaAssumption DEF ProfileAssetsAreKept
    <2>5. /\ sweep' = Wrote({m})
          /\ UNCHANGED <<variants, stored, open, undone, late, writer, aged, profile, post,
                        attached, interrupts>>
      BY <1>1 DEF Move, attempts, uses
    <2>6. /\ variants \subseteq Media /\ writer \in [Writers -> WriterRecord]
          /\ profile \in [ProfileSlots -> Media \cup {NoAsset}]
      BY DEF RetentionTypeOK, WriterRecord
    <2> QED  BY <2>1, <2>3, <2>4, <2>5, <2>6, RetentionRow
  <1>2. CASE Age(m)
    <2>1. /\ m \notin open /\ mediaStatus[m] # "ABSENT" /\ aged' = aged \cup {m}
          /\ UNCHANGED <<row, attempts, uses, sweep, interrupts>>
      BY <1>2 DEF Age
    <2>2. RetentionTypeOK' /\ AgedExist'
      BY <2>1 DEF RetentionTypeOK, row, attempts, uses, AgedExist
    <2>3. AbsentIsUnknown' /\ WritesAreKept'
      BY <2>1 DEF AbsentIsUnknown, WritesAreKept, row, attempts
    <2> QED  BY <2>1, <2>2, <2>3, FilesStep DEF row, attempts, OpenIsYoung
  <1> QED  BY <1>1, <1>2

(* An attempt writes a file: one more object, and a late one if the row is *)
(* claimed.                                                                *)
LEMMA WriteStep ==
    ASSUME RetentionInv, NEW w \in Writers, writer[w].pc # "idle",
           NEW key \in {"original", "variant"}, WriteObject(w, key),
           NEW pc \in {"variant", "ready"}, Proceed(w, pc),
           ObjectsAt(pc) = ObjectsAt(writer[w].pc) \cup {key}
    PROVE  RetentionInv'
  <1> USE DEF RetentionInv
  <1> DEFINE m == writer[w].media
  <1>1. /\ m \in Media /\ mediaStatus[m] # "ABSENT"
        /\ mediaStatus[m] \in Claimed \/ ObjectsAt(writer[w].pc) \subseteq stored[m]
    BY DEF AbsentIsUnknown, WritesAreKept
  <1>2. /\ stored' = [stored EXCEPT ![m] = @ \cup {key}]
        /\ late' = IF mediaStatus[m] \in Claimed THEN [late EXCEPT ![m] = @ \cup {key}] ELSE late
        /\ UNCHANGED <<mediaStatus, variants, open, undone, aged, uses, sweep, interrupts>>
    BY DEF WriteObject
  <1>3. /\ writer' \in [Writers -> WriterRecord]
        /\ writer'[w].pc = pc /\ writer'[w].media = m
        /\ \A v \in Writers \ {w} : writer'[v] = writer[v]
    <2>1. writer' = [writer EXCEPT ![w].pc = pc] /\ writer \in [Writers -> WriterRecord]
      BY DEF Proceed, RetentionTypeOK, WriterRecord
    <2> QED  BY <2>1 DEF WriterRecord
  <1>4. /\ stored' \in [Media -> SUBSET FileKeys] /\ late' \in [Media -> SUBSET FileKeys]
        /\ stored'[m] = stored[m] \cup {key}
        /\ mediaStatus[m] \in Claimed => late'[m] = late[m] \cup {key}
        /\ mediaStatus[m] \notin Claimed => late'[m] = late[m]
        /\ \A n \in Media \ {m} : stored'[n] = stored[n] /\ late'[n] = late[n]
    BY <1>1, <1>2 DEF RetentionTypeOK, FileKeys
  <1> HIDE DEF m
  <1>5. RetentionTypeOK'
    BY <1>2, <1>3, <1>4 DEF RetentionTypeOK, WriterRecord, uses
  <1>6. \A n \in Media : /\ stored[n] \ {"temporary"} \subseteq stored'[n]
                         /\ stored[n] \subseteq stored'[n]
                         /\ late[n] \subseteq late'[n]
                         /\ mediaStatus[n] \in Claimed => stored'[n] \subseteq stored[n] \cup late'[n]
    BY <1>4
  <1>7. AbsentIsUnknown'
    BY <1>1, <1>2, <1>3 DEF AbsentIsUnknown
  <1>8. WritesAreKept'
    <2> SUFFICES ASSUME NEW v \in Writers, writer'[v].pc # "idle"
                 PROVE  \/ mediaStatus[writer'[v].media] \in Claimed
                        \/ ObjectsAt(writer'[v].pc) \subseteq stored'[writer'[v].media]
      BY <1>2 DEF WritesAreKept
    <2>1. CASE v = w
      BY <1>1, <1>3, <1>4, <2>1
    <2>2. CASE v # w
      <3>1. writer'[v] = writer[v] /\ writer[v].media \in Media
        BY <1>3, <2>2 DEF AbsentIsUnknown
      <3> QED  BY <1>6, <3>1 DEF WritesAreKept
    <2> QED  BY <2>1, <2>2
  <1>9. AgedExist' /\ open' \cap aged' = {}
    BY <1>2 DEF AgedExist, OpenIsYoung
  <1> QED  BY <1>2, <1>5, <1>6, <1>7, <1>8, <1>9, FilesStep

(* An attempt begins or ends: no file but the source goes.                 *)
LEMMA AttemptEdge ==
    ASSUME RetentionInv, NEW w \in Writers,
           NEW x \in WriterRecord, writer' = [writer EXCEPT ![w] = x],
           x.pc # "idle" => /\ x.pc = "original" /\ x.media \in Media
                            /\ mediaStatus[x.media] # "ABSENT",
           \A m \in Media : stored[m] \ {"temporary"} \subseteq stored'[m] /\ stored'[m] \subseteq stored[m],
           stored' \in [Media -> SUBSET FileKeys],
           UNCHANGED <<mediaStatus, variants, open, undone, late, aged, uses, sweep, interrupts>>
    PROVE  RetentionInv'
  <1> USE DEF RetentionInv
  <1>1. /\ writer' \in [Writers -> WriterRecord] /\ writer'[w] = x
        /\ \A v \in Writers \ {w} : writer'[v] = writer[v]
    BY DEF RetentionTypeOK, WriterRecord
  <1>2. RetentionTypeOK'
    BY <1>1 DEF RetentionTypeOK, WriterRecord, uses
  <1>3. AbsentIsUnknown'
    BY <1>1 DEF AbsentIsUnknown
  <1>4. WritesAreKept'
    <2> SUFFICES ASSUME NEW v \in Writers, writer'[v].pc # "idle"
                 PROVE  \/ mediaStatus[writer'[v].media] \in Claimed
                        \/ ObjectsAt(writer'[v].pc) \subseteq stored'[writer'[v].media]
      BY DEF WritesAreKept
    <2>1. CASE v = w
      BY <1>1, <2>1 DEF ObjectsAt
    <2>2. CASE v # w
      <3>1. /\ writer'[v] = writer[v] /\ writer[v].media \in Media
            /\ \/ mediaStatus[writer[v].media] \in Claimed
               \/ ObjectsAt(writer[v].pc) \subseteq stored[writer[v].media]
        BY <1>1, <2>2 DEF AbsentIsUnknown, WritesAreKept
      <3>2. "temporary" \notin ObjectsAt(writer[v].pc)
        BY DEF ObjectsAt
      <3> QED  BY <3>1, <3>2
    <2> QED  BY <2>1, <2>2
  <1>5. AgedExist' /\ open' \cap aged' = {}
    BY DEF AgedExist, OpenIsYoung
  <1> QED  BY <1>2, <1>3, <1>4, <1>5, FilesStep

LEMMA WritingStep ==
    ASSUME RetentionInv, NEW w \in Writers, Writing(w)
    PROVE  RetentionInv'
  <1> USE DEF RetentionInv
  <1>1. NotWriting \in WriterRecord /\ NotWriting.pc = "idle"
    BY DEF NotWriting, WriterRecord
  <1>2. stored \in [Media -> SUBSET FileKeys]
    BY DEF RetentionTypeOK
  <1>3. ASSUME NEW m \in Media, BeginTransform(w, m)
        PROVE  RetentionInv'
    <2> DEFINE x == [pc |-> "original", media |-> m]
    <2>1. x \in WriterRecord /\ x.pc = "original" /\ x.media = m
      BY DEF WriterRecord
    <2>2. /\ writer' = [writer EXCEPT ![w] = x] /\ mediaStatus[m] # "ABSENT"
          /\ UNCHANGED <<mediaStatus, variants, stored, open, undone, late, aged, uses, sweep,
                        interrupts>>
      BY <1>3 DEF BeginTransform, row
    <2> HIDE DEF x
    <2> QED  BY <1>2, <2>1, <2>2, AttemptEdge
  <1>4. CASE EndAttempt(w)
    BY <1>1, <1>2, <1>4, AttemptEdge DEF EndAttempt, row
  <1>5. CASE RemoveTemporary(w)
    <2>1. /\ stored' = [stored EXCEPT ![writer[w].media] = @ \ {"temporary"}]
          /\ writer' = [writer EXCEPT ![w] = NotWriting]
          /\ UNCHANGED <<mediaStatus, variants, open, undone, late, aged, uses, sweep, interrupts>>
      BY <1>5 DEF RemoveTemporary
    <2>2. /\ stored' \in [Media -> SUBSET FileKeys]
          /\ \A m \in Media : /\ stored[m] \ {"temporary"} \subseteq stored'[m]
                              /\ stored'[m] \subseteq stored[m]
      BY <1>2, <2>1
    <2> QED  BY <1>1, <2>1, <2>2, AttemptEdge
  <1>6. CASE WriteOriginal(w)
    <2>1. /\ writer[w].pc = "original" /\ Proceed(w, "variant") /\ WriteObject(w, "original")
          /\ ObjectsAt("variant") = ObjectsAt("original") \cup {"original"}
      BY <1>6 DEF WriteOriginal, ObjectsAt
    <2> QED  BY <2>1, WriteStep
  <1>7. CASE WriteVariants(w)
    <2>1. /\ writer[w].pc = "variant" /\ Proceed(w, "ready") /\ WriteObject(w, "variant")
          /\ ObjectsAt("ready") = ObjectsAt("variant") \cup {"variant"}
      BY <1>7 DEF WriteVariants, ObjectsAt
    <2> QED  BY <2>1, WriteStep
  <1>8. CASE BecomeReady(w)
    <2> DEFINE m == writer[w].media
    <2>1. /\ writer[w].pc = "ready" /\ mediaStatus[m] = "PROCESSING"
          /\ mediaStatus' = [mediaStatus EXCEPT ![m] = "READY"]
          /\ variants' = variants \cup {m} /\ sweep' = Wrote({m})
          /\ writer' = [writer EXCEPT ![w].pc = "cleanup"]
          /\ UNCHANGED <<stored, open, undone, late, aged, profile, post, attached, interrupts>>
      BY <1>8 DEF BecomeReady, Proceed, uses
    <2>2. /\ m \in Media /\ mediaStatus[m] \notin Claimed \cup {"ABSENT"}
          /\ {"original", "variant"} \subseteq stored[m]
      BY <2>1 DEF AbsentIsUnknown, WritesAreKept, ObjectsAt, Claimed
    <2>3. /\ writer' \in [Writers -> WriterRecord]
          /\ \A v \in Writers : /\ writer'[v].media = writer[v].media
                                /\ writer'[v].pc \in {writer[v].pc, "cleanup"}
                                /\ writer'[v].pc # "idle" => writer[v].pc # "idle"
      <3>1. writer \in [Writers -> WriterRecord]
        BY DEF RetentionTypeOK, WriterRecord
      <3> QED  BY <2>1, <3>1 DEF WriterRecord
    <2>4. "READY" \in Lifecycle \ Claimed
      BY DEF Lifecycle, Purgeable, Claimed
    <2>5. /\ variants' \subseteq Media /\ variants' \ {m} = variants \ {m}
          /\ profile \in [ProfileSlots -> Media \cup {NoAsset}]
      BY <2>1, <2>2 DEF RetentionTypeOK
    <2> HIDE DEF m
    <2> QED  BY <2>1, <2>2, <2>3, <2>4, <2>5, RetentionRow
  <1> QED  BY <1>3, <1>4, <1>5, <1>6, <1>7, <1>8 DEF Writing

LEMMA UsingStep ==
    ASSUME RetentionInv, Using
    PROVE  RetentionInv'
  <1> USE DEF RetentionInv
  <1>1. ASSUME NEW place \in ProfileSlots, NEW m \in Media, Assign(place, m)
        PROVE  RetentionInv'
    <2>1. /\ mediaStatus[m] = "READY" /\ sweep' = Wrote({m})
          /\ profile' = [profile EXCEPT ![place] = m]
          /\ UNCHANGED <<mediaStatus, variants, stored, open, undone, late, writer, aged, post,
                        attached, interrupts>>
      BY <1>1 DEF Assign, GuardWrite, row, attempts
    <2>2. /\ mediaStatus' = [mediaStatus EXCEPT ![m] = "READY"]
          /\ {"original", "variant"} \subseteq stored[m]
      BY <2>1 DEF RetentionTypeOK, ReadyHasObjects
    <2>3. "READY" \in Lifecycle \ Claimed /\ "READY" \notin Claimed \cup {"ABSENT"}
      BY DEF Lifecycle, Purgeable, Claimed
    <2>4. /\ profile' \in [ProfileSlots -> Media \cup {NoAsset}]
          /\ \A other \in ProfileSlots : profile'[other] # m => profile'[other] = profile[other]
      BY <2>1 DEF RetentionTypeOK
    <2>5. variants \subseteq Media /\ writer \in [Writers -> WriterRecord]
      BY DEF RetentionTypeOK, WriterRecord
    <2> QED  BY <2>1, <2>2, <2>3, <2>4, <2>5, RetentionRow
  <1>2. ASSUME UNCHANGED <<row, attempts, aged, sweep, interrupts>>, RetentionTypeOK',
               \A place \in ProfileSlots : profile'[place] \in {profile[place], NoAsset}
        PROVE  RetentionInv'
    <2>1. ProfileAssetsAreKept'
      BY <1>2, MediaAssumption DEF RetentionTypeOK, row, attempts, ProfileAssetsAreKept
    <2>2. UNCHANGED <<mediaStatus, stored, variants, open, undone, late, writer, sweep>>
      BY <1>2 DEF row, attempts
    <2>3. \A m : UNCHANGED RecordedKeys(m)
      BY <2>2 DEF RecordedKeys
    <2>4. ClaimIsFresh'
      <3>1. \A m \in Media, place \in ProfileSlots : profile[place] # m => profile'[place] # m
        BY <1>2, MediaAssumption
      <3>2. \A s \in Sweepers : sweep[s].batch \subseteq Media
        BY DEF RetentionTypeOK
      <3>3. \A s \in Sweepers, m \in Media : Fresh(s, m) => Fresh(s, m)'
        BY <2>2, <2>3, <3>1 DEF Fresh
      <3> QED  BY <2>2, <3>2, <3>3 DEF ClaimIsFresh
    <2>5. ClaimIsHeld'
      BY <2>2, <2>3 DEF ClaimIsHeld, Held
    <2>6. PurgedIsEmpty'
      BY <2>2, <2>3 DEF PurgedIsEmpty, At
    <2>7. ReadyHasObjects' /\ PurgeIsComplete'
      BY <2>2, <2>3 DEF ReadyHasObjects, PurgeIsComplete
    <2>8. OpenIsYoung' /\ AgedExist' /\ AbsentIsUnknown' /\ WritesAreKept'
      BY <1>2, <2>2 DEF OpenIsYoung, AgedExist, AbsentIsUnknown, WritesAreKept
    <2> QED  BY <1>2, <2>1, <2>4, <2>5, <2>6, <2>7, <2>8
  <1>3. ASSUME NEW place \in ProfileSlots, Remove(place)
        PROVE  RetentionInv'
    BY <1>2, <1>3 DEF Remove, RetentionTypeOK, row, attempts
  <1>4. ASSUME NEW p \in Posts,
               InsertWallPost(p) \/ TombstoneWallPost(p) \/ \E m \in Media : CheckWallImage(p, m)
        PROVE  RetentionInv'
    <2>1. UNCHANGED <<row, attempts, aged, profile, attached, sweep, interrupts>>
      BY <1>4 DEF InsertWallPost, TombstoneWallPost, CheckWallImage
    <2>2. RetentionTypeOK'
      <3>1. post' \in [Posts -> [state : {"NEW", "CHECKED", "LIVE", "TOMBSTONED"},
                                 media : Media \cup {NoAsset}]]
        <4>1. post[p] \in [state : {"NEW", "CHECKED", "LIVE", "TOMBSTONED"},
                            media : Media \cup {NoAsset}]
          BY DEF RetentionTypeOK
        <4>2. PICK new \in [state : {"NEW", "CHECKED", "LIVE", "TOMBSTONED"},
                             media : Media \cup {NoAsset}] :
                  post' = [post EXCEPT ![p] = new]
          <5>1. CASE InsertWallPost(p)
            BY <4>1, <5>1 DEF InsertWallPost
          <5>2. CASE TombstoneWallPost(p)
            BY <4>1, <5>2 DEF TombstoneWallPost
          <5>3. CASE \E m \in Media : CheckWallImage(p, m)
            BY <5>3 DEF CheckWallImage
          <5> QED  BY <1>4, <5>1, <5>2, <5>3
        <4> QED  BY <4>2 DEF RetentionTypeOK
      <3> QED  BY <2>1, <3>1 DEF RetentionTypeOK, row, attempts
    <2> QED  BY <1>2, <2>1, <2>2
  <1>5. ASSUME NEW a \in Articles, NEW M \in SUBSET Media, SaveDraft(a, M)
        PROVE  RetentionInv'
    BY <1>2, <1>5 DEF SaveDraft, RetentionTypeOK, row, attempts
  <1> QED  BY <1>1, <1>3, <1>4, <1>5 DEF Using

LEMMA SweepingStep ==
    ASSUME RetentionInv, NEW s \in Sweepers, Sweeping(s)
    PROVE  RetentionInv'
  <1> USE DEF RetentionInv
  <1>1. sweep[s] \in PassRecord /\ interrupts \in 0 .. MaxInterrupts
    BY DEF RetentionTypeOK, PassRecord
  <1>2. CASE StartClaim(s)
    <2>1. PICK B \in SUBSET Candidates :
              sweep' = [sweep EXCEPT ![s] =
                  [Idle EXCEPT !.pc = "CLAIMING", !.batch = B,
                      !.keys = [m \in Media |-> IF m \in B THEN RecordedKeys(m) ELSE {}]]]
      BY <1>2 DEF StartClaim
    <2> DEFINE keys == [m \in Media |-> IF m \in B THEN RecordedKeys(m) ELSE {}]
               r == [Idle EXCEPT !.pc = "CLAIMING", !.batch = B, !.keys = keys]
    <2>2. B \subseteq Media /\ keys \in [Media -> SUBSET FileKeys]
      BY KeysFacts DEF Candidates
    <2>3. \A m \in B : /\ keys[m] = RecordedKeys(m)
                       /\ mediaStatus[m] \in Purgeable \cup {"DELETING"}
                       /\ m \notin open
                       /\ \A place \in ProfileSlots : profile[place] # m
      BY <2>2 DEF Candidates, Used, OpenIsYoung, Claimed
    <2> HIDE DEF keys
    <2>4. r \in PassRecord /\ r.pc = "CLAIMING" /\ r.batch = B /\ r.keys = keys
          /\ ~r.purged
      BY <2>2 DEF Idle, PassRecord
    <2>5. sweep' = [sweep EXCEPT ![s] = r] /\ UNCHANGED <<row, attempts, aged, uses, interrupts>>
      BY <1>2, <2>1 DEF StartClaim, keys
    <2> HIDE DEF r
    <2> QED  BY <1>1, <2>3, <2>4, <2>5, PassStep
  <1>3. CASE ConflictClaim(s) \/ Interrupt(s)
    <2>1. sweep' = [sweep EXCEPT ![s] = Idle] /\ UNCHANGED <<row, attempts, aged, uses>>
      BY <1>3 DEF ConflictClaim, Interrupt, RolledBack
    <2>2. interrupts' \in 0 .. MaxInterrupts
      BY <1>1, <1>3, BatchAssumption DEF ConflictClaim, Interrupt
    <2> QED  BY <2>1, <2>2, IdlePass, PassStep
  <1>4. CASE CommitClaim(s)
    <2> DEFINE B == sweep[s].batch
               r == IF B = {} THEN Idle ELSE [sweep[s] EXCEPT !.pc = "DELETING", !.stale = {}]
    <2>1. /\ sweep[s].pc = "CLAIMING" /\ B \subseteq Media
          /\ \A m \in B : Fresh(s, m)
          /\ mediaStatus' = [m \in Media |-> IF m \in B THEN "DELETING" ELSE mediaStatus[m]]
          /\ sweep' = [Wrote(B) EXCEPT ![s] = r]
          /\ UNCHANGED <<variants, stored, open, undone, late, writer, aged, uses, interrupts>>
      BY <1>1, <1>4 DEF CommitClaim, NoConflict, ClaimIsFresh, PassRecord, attempts
    <2>2. /\ r \in PassRecord
          /\ r.pc = "IDLE" \/ /\ r.pc = "DELETING" /\ r.batch = B
                              /\ r.keys = sweep[s].keys /\ ~r.purged
      BY <1>1, <1>4, IdlePass DEF CommitClaim, ClaimIsFresh, PassRecord
    <2>3. /\ Wrote(B) \in [Sweepers -> PassRecord]
          /\ \A t \in Sweepers :
                 /\ Wrote(B)[t].pc = sweep[t].pc
                 /\ Wrote(B)[t].batch = sweep[t].batch
                 /\ Wrote(B)[t].keys = sweep[t].keys
                 /\ Wrote(B)[t].purged = sweep[t].purged
                 /\ sweep[t].pc = "CLAIMING" => Wrote(B)[t].stale = sweep[t].stale \cup B
      BY <2>1, WroteFacts
    <2> HIDE DEF r
    <2>4. /\ sweep'[s] = r
          /\ \A t \in Sweepers \ {s} : sweep'[t] = Wrote(B)[t]
          /\ sweep' \in [Sweepers -> PassRecord]
      BY <2>1, <2>2, <2>3
    <2>5. /\ mediaStatus' \in [Media -> Lifecycle \cup {"ABSENT"}]
          /\ \A m \in Media : mediaStatus'[m] = IF m \in B THEN "DELETING" ELSE mediaStatus[m]
          /\ \A m : RecordedKeys(m)' = RecordedKeys(m)
      BY <2>1 DEF RetentionTypeOK, Lifecycle, RecordedKeys
    <2>6. RetentionTypeOK'
      BY <2>1, <2>4, <2>5 DEF RetentionTypeOK, PassRecord, uses
    <2>7. ClaimIsFresh'
      <3> SUFFICES ASSUME NEW t \in Sweepers, sweep'[t].pc = "CLAIMING"
                   PROVE  /\ ~sweep'[t].purged
                          /\ \A n \in sweep'[t].batch \ sweep'[t].stale : Fresh(t, n)'
        BY DEF ClaimIsFresh
      <3>1. t # s /\ sweep[t].pc = "CLAIMING" /\ ~sweep'[t].purged
        BY <2>2, <2>3, <2>4 DEF ClaimIsFresh
      <3>2. ASSUME NEW n \in sweep'[t].batch \ sweep'[t].stale
            PROVE  Fresh(t, n)'
        <4>1. n \in sweep[t].batch /\ n \notin sweep[t].stale /\ n \notin B
          BY <2>3, <2>4, <3>1, <3>2
        <4>2. Fresh(t, n) /\ n \in Media
          BY <3>1, <4>1 DEF ClaimIsFresh, RetentionTypeOK
        <4> QED  BY <2>1, <2>3, <2>4, <2>5, <3>1, <4>1, <4>2 DEF Fresh, uses
      <3> QED  BY <3>1, <3>2
    <2>8. ClaimIsHeld'
      <3> SUFFICES ASSUME NEW t \in Sweepers, sweep'[t].pc = "DELETING",
                          NEW n \in sweep'[t].batch
                   PROVE  Held(t, n)'
        BY DEF ClaimIsHeld
      <3>1. CASE t = s
        BY <2>1, <2>2, <2>4, <2>5, <3>1 DEF Held, Fresh, Claimed
      <3>2. CASE t # s
        <4>1. Held(t, n) /\ n \in Media
          BY <2>3, <2>4, <3>2 DEF ClaimIsHeld, RetentionTypeOK
        <4> QED  BY <2>3, <2>4, <2>5, <3>2, <4>1 DEF Held, Claimed
      <3> QED  BY <3>1, <3>2
    <2>9. PurgedIsEmpty'
      <3> SUFFICES ASSUME NEW t \in Sweepers, NEW n \in Media, At(t, n)', sweep'[t].purged
                   PROVE  stored'[n] \cap RecordedKeys(n)' \subseteq late'[n]
        BY DEF PurgedIsEmpty
      <3>1. t # s
        BY <2>2, <2>4 DEF At
      <3>2. At(t, n) /\ sweep[t].purged
        BY <2>3, <2>4, <3>1 DEF At
      <3> QED  BY <2>1, <2>5, <3>2 DEF PurgedIsEmpty
    <2>10. ProfileAssetsAreKept'
      BY <2>1, <2>5 DEF ProfileAssetsAreKept, Fresh, uses, RetentionTypeOK
    <2>11. ReadyHasObjects' /\ PurgeIsComplete'
      BY <2>1, <2>5 DEF ReadyHasObjects, PurgeIsComplete, Fresh
    <2>12. OpenIsYoung' /\ AgedExist' /\ AbsentIsUnknown'
      BY <2>1, <2>5 DEF OpenIsYoung, AgedExist, AbsentIsUnknown, Fresh, RetentionTypeOK
    <2>13. WritesAreKept'
      BY <2>1, <2>5 DEF WritesAreKept, AbsentIsUnknown, Claimed
    <2> QED  BY <2>6, <2>7, <2>8, <2>9, <2>10, <2>11, <2>12, <2>13
  <1>5. ASSUME NEW m \in Media, DeleteObjects(s, m)
        PROVE  RetentionInv'
    <2> DEFINE r == [sweep[s] EXCEPT !.purged = TRUE]
    <2>1. /\ At(s, m)
          /\ stored' = [stored EXCEPT ![m] = @ \ sweep[s].keys[m]]
          /\ late' = [late EXCEPT ![m] = @ \ sweep[s].keys[m]]
          /\ mediaStatus' = [mediaStatus EXCEPT ![m] = mediaStatus[m]]
          /\ sweep' = [sweep EXCEPT ![s] = r]
          /\ UNCHANGED <<variants, open, undone, writer, aged, uses, interrupts>>
      BY <1>5 DEF DeleteObjects, RetentionTypeOK
    <2>2. r \in PassRecord
      BY <1>1 DEF PassRecord
    <2>3. mediaStatus[m] # "DELETED" \/ mediaStatus[m] = "DELETED"
      OBVIOUS
    <2> HIDE DEF r
    <2> QED  BY <2>1, <2>2, <2>3, PurgeStep DEF r
  <1>6. ASSUME NEW m \in Media, CompleteCleanup(s, m)
        PROVE  RetentionInv'
    <2> DEFINE to == IF mediaStatus[m] = "DELETING" THEN "DELETED" ELSE mediaStatus[m]
               r == NextCandidate(s, m)
    <2>1. /\ At(s, m) /\ sweep[s].purged
          /\ stored' = [stored EXCEPT ![m] = @ \ {}]
          /\ late' = [late EXCEPT ![m] = @ \ {}]
          /\ mediaStatus' = [mediaStatus EXCEPT ![m] = to]
          /\ sweep' = [Wrote({m}) EXCEPT ![s] = r]
          /\ UNCHANGED <<variants, open, undone, writer, aged, uses, interrupts>>
      BY <1>6 DEF CompleteCleanup, RetentionTypeOK, attempts
    <2>2. r \in PassRecord
      BY <1>1, IdlePass DEF NextCandidate, PassRecord
    <2>3. to \in {mediaStatus[m], "DELETED"}
      OBVIOUS
    <2>4. {} \in SUBSET sweep[s].keys[m]
      OBVIOUS
    <2> HIDE DEF to, r
    <2> QED  BY <2>1, <2>2, <2>3, <2>4, PurgeStep DEF r
  <1>7. ASSUME NEW m \in Media, FailCandidate(s, m)
        PROVE  RetentionInv'
    <2> DEFINE r == NextCandidate(s, m)
    <2>1. PICK gone \in SUBSET sweep[s].keys[m] :
              /\ stored' = [stored EXCEPT ![m] = @ \ gone]
              /\ late' = [late EXCEPT ![m] = @ \ gone]
      BY <1>7 DEF FailCandidate
    <2>2. /\ At(s, m)
          /\ mediaStatus' = [mediaStatus EXCEPT ![m] = mediaStatus[m]]
          /\ sweep' = [sweep EXCEPT ![s] = r]
          /\ UNCHANGED <<variants, open, undone, writer, aged, uses, interrupts>>
      BY <1>7 DEF FailCandidate, RetentionTypeOK
    <2>3. r \in PassRecord
      BY <1>1, IdlePass DEF NextCandidate, PassRecord
    <2> HIDE DEF r
    <2> QED  BY <2>1, <2>2, <2>3, PurgeStep DEF r
  <1> QED  BY <1>2, <1>3, <1>4, <1>5, <1>6, <1>7 DEF Sweeping

-----------------------------------------------------------------------------
LEMMA RetentionSteps == RetentionInv /\ [RetentionNext]_retentionVars => RetentionInv'
  <1> SUFFICES ASSUME RetentionInv, [RetentionNext]_retentionVars
               PROVE  RetentionInv'
    OBVIOUS
  <1>1. CASE RetentionNext
    BY <1>1, IntakeStep, RowsStep, WritingStep, UsingStep, SweepingStep DEF RetentionNext
  <1>2. CASE UNCHANGED retentionVars
    <2> USE DEF RetentionInv
    <2>1. UNCHANGED <<mediaStatus, variants, stored, open, undone, late, writer, aged, profile, post,
                     attached, sweep, interrupts>>
      BY <1>2 DEF retentionVars, row, attempts, uses
    <2>2. RetentionTypeOK'
      BY <2>1 DEF RetentionTypeOK
    <2>3. \A m : RecordedKeys(m)' = RecordedKeys(m)
      BY <2>1 DEF RecordedKeys
    <2>4. ClaimIsFresh' /\ ClaimIsHeld' /\ PurgedIsEmpty'
      BY <2>1, <2>3 DEF ClaimIsFresh, Fresh, ClaimIsHeld, Held, PurgedIsEmpty, At
    <2>5. OpenIsYoung' /\ AgedExist' /\ AbsentIsUnknown' /\ WritesAreKept'
      BY <2>1 DEF OpenIsYoung, AgedExist, AbsentIsUnknown, WritesAreKept
    <2>6. ProfileAssetsAreKept' /\ ReadyHasObjects' /\ PurgeIsComplete'
      BY <2>1, <2>3 DEF ProfileAssetsAreKept, ReadyHasObjects, PurgeIsComplete
    <2> QED  BY <2>2, <2>4, <2>5, <2>6
  <1> QED  BY <1>1, <1>2

LEMMA RetentionInductive == RetentionSpec => []RetentionInv
  BY RetentionStarts, RetentionSteps, PTL DEF RetentionSpec

(* Every reachable state has the types and bounds of the tables, the       *)
(* objects and the passes.                                                 *)
THEOREM RetentionTypes == RetentionSpec => []RetentionTypeOK
  <1>1. RetentionInv => RetentionTypeOK
    BY DEF RetentionInv
  <1> QED  BY <1>1, RetentionInductive, PTL

(* However many passes overlap with an assignment, the media a profile     *)
(* slot shows is not claimed, its objects are on the disk, and it is READY *)
(* unless the compensation of its intake has taken it back.                *)
THEOREM ProfileAssetsKept == RetentionSpec => []ProfileAssetsAreKept
  <1>1. RetentionInv => ProfileAssetsAreKept
    BY DEF RetentionInv
  <1> QED  BY <1>1, RetentionInductive, PTL

(* A READY media has all its objects.                                      *)
THEOREM ReadyKeepsObjects == RetentionSpec => []ReadyHasObjects
  <1>1. RetentionInv => ReadyHasObjects
    BY DEF RetentionInv
  <1> QED  BY <1>1, RetentionInductive, PTL

(* What a DELETED row names and is on the disk was written by an attempt   *)
(* after the row had been claimed: the purge itself leaves nothing.        *)
THEOREM PurgeCompletes == RetentionSpec => []PurgeIsComplete
  <1>1. RetentionInv => PurgeIsComplete
    BY DEF RetentionInv
  <1> QED  BY <1>1, RetentionInductive, PTL

(* A row leaves DELETING only to DELETED, which is final.                  *)
THEOREM DeletionNeverReverts == RetentionSpec => DeletionIsOneWay
  <1> DEFINE OneWay == \A m \in Media :
                 /\ mediaStatus[m] = "DELETING" => mediaStatus'[m] \in {"DELETING", "DELETED"}
                 /\ mediaStatus[m] = "DELETED" => mediaStatus'[m] = "DELETED"
  <1>1. ASSUME RetentionInv, [RetentionNext]_retentionVars
        PROVE  OneWay
    <2> SUFFICES ASSUME NEW m \in Media, mediaStatus[m] \in {"DELETING", "DELETED"}
                 PROVE  mediaStatus'[m] = mediaStatus[m] \/ mediaStatus'[m] = "DELETED" \/
                        (mediaStatus[m] = "DELETING" /\ mediaStatus'[m] = "DELETING")
      OBVIOUS
    <2>1. mediaStatus \in [Media -> Lifecycle \cup {"ABSENT"}]
      BY <1>1 DEF RetentionInv, RetentionTypeOK
    <2>2. CASE UNCHANGED mediaStatus
      BY <2>2
    <2>3. ASSUME NEW n, NEW to, mediaStatus[n] \notin {"DELETING", "DELETED"},
                 mediaStatus' = [mediaStatus EXCEPT ![n] = to]
          PROVE  mediaStatus'[m] = mediaStatus[m]
      BY <2>1, <2>3
    <2>4. ASSUME NEW s \in Sweepers, CommitClaim(s)
          PROVE  mediaStatus'[m] = mediaStatus[m]
      <3>1. \A n \in sweep[s].batch : mediaStatus[n] \in Purgeable \cup {"DELETING"}
        BY <1>1, <2>4 DEF CommitClaim, NoConflict, RetentionInv, ClaimIsFresh, Fresh
      <3> QED  BY <2>4, <3>1 DEF CommitClaim, Purgeable
    <2>5. ASSUME NEW s \in Sweepers, NEW n \in Media, CompleteCleanup(s, n)
          PROVE  mediaStatus'[m] = mediaStatus[m] \/ mediaStatus'[m] = "DELETED"
      BY <2>1, <2>5 DEF CompleteCleanup
    <2>6. \/ UNCHANGED mediaStatus
          \/ \E n, to : /\ mediaStatus[n] \notin {"DELETING", "DELETED"}
                        /\ mediaStatus' = [mediaStatus EXCEPT ![n] = to]
          \/ \E s \in Sweepers : CommitClaim(s)
          \/ \E s \in Sweepers, n \in Media : CompleteCleanup(s, n)
      <3>1. CASE UNCHANGED retentionVars
        BY <3>1 DEF retentionVars, row
      <3>2. ASSUME NEW n \in Media, Intake(n) \/ Move(n) \/ Age(n)
            PROVE  \/ UNCHANGED mediaStatus
                   \/ \E to : /\ mediaStatus[n] \notin {"DELETING", "DELETED"}
                              /\ mediaStatus' = [mediaStatus EXCEPT ![n] = to]
        <4>1. n \in open => mediaStatus[n] \notin {"DELETING", "DELETED"}
          BY <1>1 DEF RetentionInv, OpenIsYoung, Claimed
        <4> QED  BY <3>2, <4>1 DEF Intake, Upload, UndoRow, DropSource, CloseIntake, Move, Moves,
                    QueueFailureFrom, Age, row
      <3>3. ASSUME NEW w \in Writers, Writing(w)
            PROVE  \/ UNCHANGED mediaStatus
                   \/ \E n, to : /\ mediaStatus[n] \notin {"DELETING", "DELETED"}
                                 /\ mediaStatus' = [mediaStatus EXCEPT ![n] = to]
        BY <3>3 DEF Writing, BeginTransform, WriteOriginal, WriteVariants, WriteObject, BecomeReady,
           RemoveTemporary, EndAttempt, row
      <3>4. CASE Using
        BY <3>4 DEF Using, Remove, Assign, CheckWallImage, InsertWallPost,
           TombstoneWallPost, SaveDraft, row
      <3>5. CASE \E s \in Sweepers : Sweeping(s)
        BY <3>5 DEF Sweeping, StartClaim, ConflictClaim, Interrupt, DeleteObjects,
           FailCandidate, row
      <3> QED  BY <1>1, <3>1, <3>2, <3>3, <3>4, <3>5 DEF RetentionNext
    <2> QED  BY <2>2, <2>3, <2>4, <2>5, <2>6
  <1> HIDE DEF OneWay
  <1>2. [][OneWay]_retentionVars => DeletionIsOneWay
    BY PTL DEF DeletionIsOneWay, OneWay
  <1> QED  BY <1>1, <1>2, RetentionInductive, PTL DEF RetentionSpec

-----------------------------------------------------------------------------
(* Processing as the environment of retention.                             *)

(* Whatever works on a medium works on one that has its row.               *)
Rows == {m \in Requests : status[m] # "ABSENT"}

WorkHasRow ==
    /\ \A j \in JobIds : job[j].state # "none" => job[j].media \in Rows
    /\ \A w \in Slots : slot[w].pc # "idle" => slot[w].media \in Rows
    /\ staff.pc # "idle" => staff.media \in Rows
    /\ \A r \in Requests : request[r].pc \in {"add", "complete"} => r \in Rows

(* A step that gives jobs, attempts and staff only media that have a row.  *)
LEMMA WorkKept ==
    ASSUME IInv, WorkHasRow, Next,
           \A j \in JobIds :
               job'[j].state # "none" =>
                   \/ job[j].state # "none" /\ job'[j].media = job[j].media
                   \/ job'[j].media \in Rows,
           \A w \in Slots :
               slot'[w].pc # "idle" =>
                   \/ slot[w].pc # "idle" /\ slot'[w].media = slot[w].media
                   \/ slot'[w].media \in Rows,
           staff'.pc # "idle" => staff' = staff \/ staff'.media \in Rows,
           \A r \in Requests :
               request'[r].pc \in {"add", "complete"} =>
                   request[r].pc \in {"add", "complete"} \/ r \in Rows'
    PROVE  WorkHasRow'
  <1>1. Rows \subseteq Rows'
    BY RowStep DEF RowMoves, Creates, Undoes, StateMoves, Rows
  <1> QED  BY <1>1 DEF WorkHasRow

LEMMA WorkStep == IInv /\ WorkHasRow /\ [Next]_vars => WorkHasRow'
  <1> SUFFICES ASSUME IInv, WorkHasRow, [Next]_vars
               PROVE  WorkHasRow'
    OBVIOUS
  <1> USE DEF IInv
  <1> DEFINE JobsKept == \A j \in JobIds :
                 job'[j].state # "none" =>
                     \/ job[j].state # "none" /\ job'[j].media = job[j].media
                     \/ job'[j].media \in Rows
             SlotsKept == \A w \in Slots :
                 slot'[w].pc # "idle" =>
                     \/ slot[w].pc # "idle" /\ slot'[w].media = slot[w].media
                     \/ slot'[w].media \in Rows
             StaffKept == staff'.pc # "idle" => staff' = staff \/ staff'.media \in Rows
             RequestsKept == \A r \in Requests :
                 request'[r].pc \in {"add", "complete"} =>
                     request[r].pc \in {"add", "complete"} \/ r \in Rows'
  <1>1. /\ job \in [JobIds -> JobRows] /\ slot \in [Slots -> SlotRows]
        /\ request \in [Requests -> RequestRows]
        /\ status \in [Requests -> {"ABSENT", "PROCESSING", "QUARANTINED", "READY", "FAILED",
                                     "REJECTED"}]
    BY DEF QInv, QueueTypes, RowTypes, RequestRows
  <1>2. ASSUME NEW j \in JobIds, NEW m \in Rows, job' = Added(j, m)
        PROVE  JobsKept
    <2> DEFINE x == [NoJob EXCEPT !.state = "waiting", !.media = m]
    <2>1. x.media = m
      BY DEF NoJob
    <2>2. job' = job \/ job' = [job EXCEPT ![j] = x]
      BY <1>2 DEF Added
    <2> HIDE DEF x
    <2> QED  BY <1>1, <1>2, <2>1, <2>2
  <1>3. CASE UNCHANGED vars
    BY <1>3 DEF vars, intake, jobs, WorkHasRow, Rows
  <1>4. ASSUME NEW r \in Requests, Next, Deliver(r) \/ ApiCrash(r)
        PROVE  WorkHasRow'
    <2>1. SlotsKept /\ StaffKept
      <3>1. slot' = slot /\ staff' = staff
        BY <1>4 DEF Deliver, Check, MarkUploading, Save, Create, Add, Complete, Compensate, ApiCrash, jobs
      <3> QED  BY <3>1
    <2>2. JobsKept
      <3>1. CASE Add(r) /\ job' # job
        <4>1. r \in Rows /\ job' = Added(SessionJob, r) /\ SessionJob \in JobIds
          BY <3>1 DEF Add, WorkHasRow, JobIds
        <4> QED  BY <1>2, <4>1
      <3>2. CASE job' \in {job, [job EXCEPT ![SessionJob] = NoJob]}
        BY <1>1, <3>2, NoJobFacts
      <3>3. (Add(r) /\ job' # job) \/ job' \in {job, [job EXCEPT ![SessionJob] = NoJob]}
        BY <1>4 DEF Deliver, Check, MarkUploading, Save, Create, Complete, Compensate, ApiCrash, jobs
      <3> QED  BY <3>1, <3>2, <3>3
    <2>3. RequestsKept
      <3>1. ASSUME NEW pc, Step(r, pc), pc \notin {"add", "complete"}
            PROVE  RequestsKept
        BY <1>1, <3>1 DEF Step, RequestRows
      <3>2. ASSUME NEW owes, Fail(r, owes)
            PROVE  RequestsKept
        BY <1>1, <3>2 DEF Fail
      <3>3. CASE Create(r)
        <4>1. CASE Step(r, "add") /\ Set(r, "PROCESSING")
          <5>1. r \in Rows'
            BY <1>1, <4>1 DEF Set, Rows
          <5> QED  BY <1>1, <4>1, <5>1 DEF Step
        <4> QED  BY <3>2, <3>3, <4>1 DEF Create
      <3>4. CASE Add(r)
        <4>1. CASE Step(r, "complete")
          BY <1>1, <3>4, <4>1 DEF Step, Add
        <4> QED  BY <3>2, <3>4, <4>1 DEF Add
      <3>5. ASSUME NEW c \in Undoing, Compensate(r, c)
            PROVE  RequestsKept
        BY <1>1, <3>5 DEF Compensate, RequestRows
      <3>6. CASE Check(r) \/ MarkUploading(r) \/ Save(r) \/ Complete(r) \/ ApiCrash(r)
        <4> HIDE DEF RequestsKept
        <4> QED  BY <3>1, <3>2, <3>6 DEF Check, MarkUploading, Save, Complete, ApiCrash
      <3> HIDE DEF RequestsKept
      <3> QED  BY <1>4, <3>3, <3>4, <3>5, <3>6 DEF Deliver
    <2> QED  BY <1>4, <2>1, <2>2, <2>3, WorkKept
  <1>5. ASSUME Next, \/ \E m \in Requests : Reject(m) \/ RequestRescan(m) \/ RetryFailed(m)
                     \/ StaffSettles \/ StaffCrash \/ AbortCheck \/ AbortWrite
        PROVE  WorkHasRow'
    <2>1. slot' = slot /\ request' = request
      BY <1>5 DEF Reject, RequestRescan, RetryFailed, StaffSettles, StaffAddFails, StaffAdds,
         StaffCrash, AbortCheck, AbortWrite, jobs, intake
    <2>2. JobsKept
      <3>1. ASSUME NEW j \in ExtraJobs, StaffAdds(j)
            PROVE  JobsKept
        <4>1. /\ staff.media \in Rows
              /\ job' = Added(j, staff.media) /\ j \in JobIds
          BY <3>1 DEF StaffAdds, StaffKnows, WorkHasRow, JobIds
        <4> QED  BY <1>2, <4>1
      <3>2. job' = job \/ \E j \in ExtraJobs : StaffAdds(j)
        BY <1>5 DEF Reject, RequestRescan, RetryFailed, StaffSettles, StaffAddFails,
           StaffCrash, AbortCheck, AbortWrite, jobs
      <3> QED  BY <3>1, <3>2
    <2>3. StaffKept
      <3>1. ASSUME NEW m \in Requests, Reject(m) \/ RequestRescan(m) \/ RetryFailed(m)
            PROVE  StaffKept
        BY <1>1, <3>1 DEF Reject, RequestRescan, RetryFailed, Set, Rows
      <3>2. CASE StaffSettles \/ StaffCrash
        BY <3>2 DEF StaffSettles, StaffAddFails, StaffAdds, StaffCrash, IdleStaff
      <3>3. CASE AbortCheck \/ AbortWrite
        BY <3>3 DEF AbortCheck, AbortWrite
      <3> QED  BY <1>5, <3>1, <3>2, <3>3
    <2> QED  BY <1>5, <2>1, <2>2, <2>3, WorkKept
  <1>6. ASSUME Next, NEW j \in JobIds, Promote(j) \/ Stall(j) \/ \E w \in Slots : Take(w, j)
        PROVE  WorkHasRow'
    <2>1. request' = request /\ staff' = staff
      BY <1>6 DEF Promote, Stall, Take, intake
    <2>2. JobsKept
      <3>1. job[j].state # "none"
        BY <1>6 DEF Promote, Stall, Take
      <3>2. \A i \in JobIds : job'[i] = job[i] \/ (i = j /\ job'[i].media = job[i].media)
        BY <1>1, <1>6 DEF Promote, Stall, Take, JobRows
      <3> QED  BY <3>1, <3>2
    <2>3. SlotsKept
      <3>1. ASSUME NEW w \in Slots, Take(w, j)
            PROVE  SlotsKept
        <4>1. job[j].state = "waiting" /\ job[j].media \in Rows
          BY <3>1 DEF Take, QInv, MediaKnown, WorkHasRow
        <4>2. \A v \in Slots : slot'[v] = slot[v] \/ slot'[v].media = job[j].media
          BY <1>1, <3>1 DEF Take, IdleSlot
        <4> QED  BY <4>1, <4>2
      <3>2. slot' = slot \/ \E w \in Slots : Take(w, j)
        BY <1>6 DEF Promote, Stall
      <3> QED  BY <3>1, <3>2
    <2> QED  BY <1>6, <2>1, <2>2, <2>3, WorkKept
  <1>7. ASSUME Next, NEW w \in Slots, Attempt(w) \/ StoreFails(w) \/ LoseLock(w) \/ Crash(w)
        PROVE  WorkHasRow'
    <2>1. request' = request /\ staff' = staff
      BY <1>7 DEF Attempt, FindStatus, ClaimRetry, Loser, Scan, MarkQuarantined, MarkProcessing,
         Transform, MarkReady, CleanupSource, Caught, MarkFailed, StoreFails, LoseLock, Crash, intake
    <2>2. GoesOn(w) \/ Ends(w) \/ Loses(w)
      BY <1>7, AttemptMoves DEF LoseLock, Crash, Loses
    <2>3. JobsKept
      <3>1. CASE job' = job
        BY <3>1
      <3>2. ASSUME NEW i \in JobIds, NEW x \in JobRows, job' = [job EXCEPT ![i] = x],
                   job[i].state # "none", x.media = job[i].media
            PROVE  JobsKept
        BY <1>1, <3>2
      <3>3. slot[w].pc # "idle" /\ slot[w].job \in JobIds
        BY <1>1, <2>2 DEF GoesOn, Ends, Loses, SlotRows
      <3>4. job[slot[w].job].owner = w => job[slot[w].job].state # "none"
        <4>1. OwnersWork /\ NoSlot # w
          BY NamesAssumption DEF QInv
        <4> QED  BY <3>3, <4>1 DEF OwnersWork
      <3>5. CASE Loses(w) /\ job[slot[w].job].owner = w
        <4> DEFINE x == [job[slot[w].job] EXCEPT !.owner = NoSlot]
        <4>1. x \in JobRows /\ x.media = job[slot[w].job].media
          BY <1>1, <3>3 DEF JobRows
        <4>2. job' = [job EXCEPT ![slot[w].job] = x]
          BY <3>5 DEF Loses
        <4> HIDE DEF x
        <4> QED  BY <3>2, <3>3, <3>4, <3>5, <4>1, <4>2
      <3>6. CASE Ends(w) /\ job[slot[w].job].owner = w
        <4>1. PICK x \in JobRows : /\ job' = [job EXCEPT ![slot[w].job] = x]
                                   /\ x.media = job[slot[w].job].media
          BY <3>6 DEF Ends
        <4> QED  BY <3>2, <3>3, <3>4, <3>6, <4>1
      <3> HIDE DEF JobsKept
      <3> QED  BY <2>2, <3>1, <3>5, <3>6 DEF GoesOn, Ends, Loses
    <2>4. SlotsKept
      <3>1. CASE GoesOn(w)
        BY <1>1, <3>1 DEF GoesOn
      <3>2. CASE slot' \in {slot, [slot EXCEPT ![w] = IdleSlot]}
        BY <1>1, <3>2, IdleFacts
      <3> QED  BY <2>2, <3>1, <3>2 DEF Ends, Loses
    <2> QED  BY <1>7, <2>1, <2>3, <2>4, WorkKept
  <1> QED  BY <1>3, <1>4, <1>5, <1>6, <1>7 DEF Next

LEMMA WorkAlwaysHasRow == Spec => []WorkHasRow
  <1>1. Init => WorkHasRow
    BY IdleFacts, NoJobFacts DEF Init, WorkHasRow, IdleStaff
  <1> QED  BY <1>1, WorkStep, Inductive, PTL DEF Spec

(* The guards of retention's steps on a row of processing, whose intake is *)
(* open from its creation to the end of the request: UndoRow takes back a  *)
(* row once, BecomeReady closes what an attempt has written, and the       *)
(* attempt writes from the source of a row that exists.                    *)
Finishes(m) ==
    /\ status[m] = "PROCESSING" /\ status'[m] = "READY"
    /\ Finishing(m)

Transforms(m) ==
    /\ source /\ m \in Rows /\ status'[m] = status[m]
    /\ \E w \in Slots : slot[w].pc = "transform" /\ MediaOf(w) = m

(* What processing does to a row and its files is what retention allows    *)
(* for: the row is created (Upload), makes one of the moves of Move, is    *)
(* marked READY by an attempt whose files are written (BecomeReady), or is *)
(* taken back by the compensation of its intake (UndoRow); and its files   *)
(* appear while the status stays, from an attempt at its transform with    *)
(* the source on the disk (BeginTransform, WriteOriginal, WriteVariants).  *)
ProcessingIsExpected ==
    [][\A m \in Requests :
           /\ \/ status'[m] = status[m]
              \/ Creates(m) \/ Undoes(m) \/ Finishes(m)
              \/ <<status[m], status'[m]>> \in Moves
           /\ (m \in objects' <=> m \in objects) \/ Transforms(m)]_vars

(* The steps of a delivery, of its jobs and of the staff change a row and  *)
(* its files only as the steps of MediaRetention's environment do.         *)
THEOREM ProcessingKeepsToRetention == Spec => ProcessingIsExpected
  <1> DEFINE Expected == \A m \in Requests :
                 /\ \/ status'[m] = status[m]
                    \/ Creates(m) \/ Undoes(m) \/ Finishes(m)
                    \/ <<status[m], status'[m]>> \in Moves
                 /\ (m \in objects' <=> m \in objects) \/ Transforms(m)
  <1>1. ASSUME IInv, WorkHasRow, Next, NEW m \in Requests
        PROVE  \/ status'[m] = status[m]
               \/ Creates(m) \/ Undoes(m) \/ Finishes(m)
               \/ <<status[m], status'[m]>> \in Moves
    <2>1. RowMoves
      BY <1>1, RowStep
    <2>2. ASSUME <<status[m], status'[m]>> \in StateMoves, status'[m] = "READY" => Finishing(m)
          PROVE  Finishes(m) \/ <<status[m], status'[m]>> \in Moves
      BY <2>2 DEF StateMoves, Finishes, Moves, QueueFailureFrom
    <2> QED  BY <2>1, <2>2 DEF RowMoves
  <1>2. ASSUME IInv, WorkHasRow, Next, NEW m \in Requests
        PROVE  (m \in objects' <=> m \in objects) \/ Transforms(m)
    <2>1. ASSUME NEW w \in Slots, Transform(w)
          PROVE  (m \in objects' <=> m \in objects) \/ Transforms(m)
      <3>1. slot[w].pc = "transform" /\ MediaOf(w) \in Rows /\ status' = status
        BY <1>2, <2>1 DEF Transform, WorkHasRow, MediaOf
      <3>2. objects' = objects \/ (source /\ objects' = objects \cup {MediaOf(w)})
        BY <2>1 DEF Transform
      <3> QED  BY <3>1, <3>2 DEF Transforms
    <2>2. objects' = objects \/ \E w \in Slots : Transform(w)
      BY <1>2 DEF Next, Deliver, Check, MarkUploading, Save, Create, Add, Complete, Compensate,
         ApiCrash, AbortCheck, AbortWrite, Reject, RequestRescan, RetryFailed, StaffSettles,
         StaffAddFails, StaffAdds, StaffCrash, Promote, Stall, Take, Attempt, FindStatus, ClaimRetry,
         Loser, Scan, MarkQuarantined, MarkProcessing, MarkReady, CleanupSource, Caught, MarkFailed,
         StoreFails, LoseLock, Crash
    <2> QED  BY <2>1, <2>2
  <1>3. ASSUME IInv, WorkHasRow, [Next]_vars
        PROVE  Expected \/ UNCHANGED vars
    BY <1>1, <1>2, <1>3
  <1> QED  BY <1>3, Inductive, WorkAlwaysHasRow, PTL DEF Spec, ProcessingIsExpected
=============================================================================
