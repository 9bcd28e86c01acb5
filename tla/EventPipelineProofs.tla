------------------------- MODULE EventPipelineProofs -------------------------
(***************************************************************************)
(* Proofs about EventPipeline for any events, dispatch cycles, attempts    *)
(* and limits.  First about its worker alone, EventConsumer, which any     *)
(* sequence of arrivals may feed; then that every behaviour of the         *)
(* pipeline is one of its outbox and one of its worker; and then about     *)
(* what the two and the dead letters keep together.                        *)
(***************************************************************************)
EXTENDS EventPipeline, TLAPS

-----------------------------------------------------------------------------
(* The worker.                                                             *)

(* What an attempt has already achieved at each of its awaits.             *)
AttemptProgress ==
    \A s \in Slots :
        /\ slot[s].pc # "idle" => slot[s].event \in Events
        /\ slot[s].pc = "mark" /\ Inserts(slot[s].event) =>
             entry[slot[s].event] # "none"
        /\ slot[s].pc = "done" => slot[s].event \in marked

(* Only jobs that arrived are worked on, marked or projected.              *)
OnlyArrivedAreHandled ==
    /\ \A s \in Slots : slot[s].pc # "idle" => job[slot[s].event].state # "none"
    /\ \A e \in Events : e \in marked \/ entry[e] # "none" => job[e].state # "none"

WorkerIInv ==
    /\ TypeOK
    /\ MarkedIsProjected
    /\ CompletedIsMarked
    /\ AttemptProgress
    /\ OnlyArrivedAreHandled

(* What the projector's statement does to the feed: it is well typed, it   *)
(* never removes an entry, never shows a retracted one again, leaves an    *)
(* entry for the event it was run for, and creates none for another.       *)
LEMMA ProjectedFacts ==
    ASSUME TypeOK, NEW e \in Events
    PROVE  /\ Projected(e) \in [Events -> {"none", "visible", "retracted"}]
           /\ \A d \in Events : entry[d] # "none" => Projected(e)[d] # "none"
           /\ \A d \in Events : entry[d] = "retracted" => Projected(e)[d] = "retracted"
           /\ Inserts(e) => Projected(e)[e] # "none"
           /\ \A d \in Events : Projected(e)[d] # "none" => d = e \/ entry[d] # "none"
  BY DEF TypeOK, Projected, Retracts

LEMMA MadeType ==
    ASSUME TypeOK, NEW e \in Events
    PROVE  /\ Made(e) \in 0..MaxAttempts
           /\ job[e].made = MaxAttempts => Made(e) = MaxAttempts
           /\ Exhausted(e) => Made(e) = MaxAttempts
  BY BoundsAssumption DEF TypeOK, Jobs, Made, Exhausted

LEMMA WorkerInit == Init => WorkerIInv
  BY BoundsAssumption
     DEF Init, WorkerIInv, TypeOK, Jobs, SlotStates, NoJob, IdleSlot, MarkedIsProjected,
         CompletedIsMarked, AttemptProgress, OnlyArrivedAreHandled

(* How a job moves: it does not vanish, a completed one stays as it is,    *)
(* and one whose attempts are used up stays so.                            *)
Moves(old, new) ==
    /\ new.state # "none"
    /\ old.state = "completed" => new = old
    /\ old.made = MaxAttempts => new.made = MaxAttempts

JobMoves(e) ==
    \/ job' = job
    \/ \E j \in Jobs : /\ job' = [job EXCEPT ![e] = j]
                       /\ Moves(job[e], j)
                       /\ j.state = "completed" => e \in marked

LEMMA ArrivalMoves ==
    ASSUME WorkerIInv, NEW e \in Events, Arrive(e)
    PROVE  JobMoves(e) /\ job'[e].state # "none"
  <1> USE DEF WorkerIInv, TypeOK
  <1> DEFINE j == [job[e] EXCEPT !.state = "waiting"]
  <1>1. j \in Jobs /\ j.state = "waiting" /\ j.made = job[e].made
    BY DEF Jobs
  <1>2. IF job[e].state = "none" THEN job' = [job EXCEPT ![e] = j] ELSE job' = job
    BY DEF Arrive
  <1> HIDE DEF j
  <1> QED  BY <1>1, <1>2 DEF JobMoves, Moves

(* Steps of the queue and the operators.                                   *)
LEMMA QueueMoves ==
    ASSUME WorkerIInv, NEW e \in Events,
           \/ Promote(e) \/ Stall(e) \/ StallOut(e)
           \/ Retry(e)
    PROVE  JobMoves(e) /\ job[e].state # "none"
  <1> USE DEF WorkerIInv, TypeOK
  <1>1. job[e] \in Jobs
    OBVIOUS
  <1>2. CASE Promote(e) \/ Retry(e)
    <2> DEFINE j == [job[e] EXCEPT !.state = "waiting"]
    <2>1. /\ j \in Jobs /\ j.state = "waiting" /\ j.made = job[e].made
          /\ job[e].state \in {"delayed", "failed"}
      BY <1>1, <1>2 DEF Jobs, Promote, Retry
    <2>2. job' = [job EXCEPT ![e] = j]
      BY <1>2 DEF Promote, Retry
    <2> HIDE DEF j
    <2> QED  BY <2>1, <2>2 DEF JobMoves, Moves
  <1>3. CASE Stall(e)
    <2> DEFINE n == job[e].stalls + 1
               j == [job[e] EXCEPT !.state = "waiting", !.owner = NoSlot, !.stalls = n]
    <2>1. n \in 0..MaxStalls
      BY <1>1, <1>3, BoundsAssumption DEF Stall, Jobs
    <2>2. /\ j \in Jobs /\ j.state = "waiting" /\ j.made = job[e].made
          /\ job[e].state = "active"
      BY <1>1, <1>3, <2>1 DEF Jobs, Stall
    <2>3. job' = [job EXCEPT ![e] = j]
      BY <1>3 DEF Stall, Jobs
    <2> HIDE DEF j
    <2> QED  BY <2>2, <2>3 DEF JobMoves, Moves
  <1>4. CASE StallOut(e)
    <2> DEFINE j == [job[e] EXCEPT !.state = "failed", !.made = Made(e),
                                   !.owner = NoSlot]
    <2>1. /\ j \in Jobs /\ j.state = "failed" /\ j.made = Made(e)
          /\ job[e].state = "active"
      BY <1>1, <1>4, MadeType DEF StallOut, Jobs
    <2>2. job' = [job EXCEPT ![e] = j]
      BY <1>4 DEF StallOut
    <2> HIDE DEF j
    <2> QED  BY <2>1, <2>2, MadeType DEF JobMoves, Moves
  <1> QED  BY <1>2, <1>3, <1>4

(* How an attempt begins and ends.                                         *)
LEMMA TakeMoves ==
    ASSUME WorkerIInv, NEW s \in Slots, NEW e \in Events, Take(s, e)
    PROVE  JobMoves(e) /\ job[e].state # "none"
  <1> USE DEF WorkerIInv, TypeOK
  <1> DEFINE j == [job[e] EXCEPT !.state = "active", !.owner = s]
  <1>1. /\ j \in Jobs /\ j.state = "active" /\ j.made = job[e].made
        /\ job[e].state = "waiting"
    BY DEF Jobs, Take
  <1>2. job' = [job EXCEPT ![e] = j]
    BY DEF Take
  <1> HIDE DEF j
  <1> QED  BY <1>1, <1>2 DEF JobMoves, Moves

LEMMA EndMoves ==
    ASSUME WorkerIInv, NEW s \in Slots,
           Complete(s) \/ Reject(s) \/ Crash(s)
    PROVE  slot[s].event \in Events /\ JobMoves(slot[s].event)
  <1> USE DEF WorkerIInv, TypeOK
  <1>1. PICK e \in Events : e = slot[s].event
    BY DEF AttemptProgress, Complete, Reject, Crash
  <1>2. job[e] \in Jobs
    OBVIOUS
  <1>3. CASE Complete(s)
    <2> DEFINE j == [job[e] EXCEPT !.state = "completed", !.owner = NoSlot]
    <2>1. /\ j \in Jobs /\ j.state = "completed" /\ j.made = job[e].made
          /\ e \in marked
      BY <1>1, <1>2, <1>3 DEF Complete, AttemptProgress, Jobs
    <2>2. job' = job \/ (job' = [job EXCEPT ![e] = j] /\ job[e].state = "active")
      BY <1>1, <1>3 DEF Complete, HoldsLock
    <2> HIDE DEF j
    <2> QED  BY <1>1, <2>1, <2>2 DEF JobMoves, Moves
  <1>4. CASE Reject(s)
    <2> DEFINE to == IF Exhausted(e) THEN "failed" ELSE "delayed"
               j == [job[e] EXCEPT !.state = to, !.made = Made(e), !.owner = NoSlot]
    <2>1. to \in {"failed", "delayed"}
      OBVIOUS
    <2>2. job' = job \/ (job' = [job EXCEPT ![e] = j] /\ job[e].state = "active")
      BY <1>1, <1>4 DEF Reject, HoldsLock
    <2> HIDE DEF to
    <2>3. j \in Jobs /\ j.state = to /\ j.made = Made(e)
      BY <1>2, <2>1, MadeType DEF Jobs
    <2> HIDE DEF j
    <2> QED  BY <1>1, <2>1, <2>2, <2>3, MadeType DEF JobMoves, Moves
  <1>5. CASE Crash(s)
    BY <1>1, <1>5 DEF Crash, JobMoves
  <1> QED  BY <1>1, <1>3, <1>4, <1>5

(* What a move of a job leaves true.                                       *)
LEMMA MoveKeeps ==
    ASSUME WorkerIInv, NEW e \in Events, JobMoves(e)
    PROVE  /\ job' \in [Events -> Jobs]
           /\ \A d \in Events : /\ job[d].state # "none" => job'[d].state # "none"
                                /\ job[d].state = "completed" => job'[d] = job[d]
                                /\ job[d].made = MaxAttempts => job'[d].made = MaxAttempts
                                /\ job'[d].state = "completed" => d \in marked
                                /\ d # e => job'[d] = job[d]
  BY DEF JobMoves, Moves, WorkerIInv, TypeOK, CompletedIsMarked

(* Steps that move a job and leave the attempts alone.                     *)
LEMMA JobsStep ==
    ASSUME WorkerIInv, NEW e \in Events, JobMoves(e), UNCHANGED <<slot, marked, entry>>
    PROVE  WorkerIInv'
  <1>1. TypeOK'
    BY MoveKeeps DEF WorkerIInv, TypeOK
  <1>2. CompletedIsMarked'
    BY MoveKeeps DEF CompletedIsMarked
  <1>3. MarkedIsProjected' /\ AttemptProgress'
    BY DEF WorkerIInv, MarkedIsProjected, AttemptProgress
  <1>4. OnlyArrivedAreHandled'
    BY MoveKeeps DEF WorkerIInv, OnlyArrivedAreHandled, AttemptProgress
  <1> QED  BY <1>1, <1>2, <1>3, <1>4 DEF WorkerIInv

(* Steps that move a job and put one slot to another attempt, or to none.  *)
LEMMA SlotStep ==
    ASSUME WorkerIInv, NEW s \in Slots, NEW e \in Events, NEW new \in SlotStates,
           JobMoves(e), slot' = [slot EXCEPT ![s] = new], UNCHANGED <<marked, entry>>,
           new.pc = "idle" \/ (new.pc = "check" /\ new.event = e /\ job[e].state # "none")
    PROVE  WorkerIInv'
  <1>1. /\ slot' \in [Slots -> SlotStates]
        /\ \A w \in Slots : slot'[w] = IF w = s THEN new ELSE slot[w]
    BY DEF WorkerIInv, TypeOK
  <1>2. TypeOK'
    BY <1>1, MoveKeeps DEF WorkerIInv, TypeOK
  <1>3. CompletedIsMarked'
    BY MoveKeeps DEF CompletedIsMarked
  <1>4. MarkedIsProjected' /\ AttemptProgress'
    BY <1>1 DEF WorkerIInv, MarkedIsProjected, AttemptProgress
  <1>5. OnlyArrivedAreHandled'
    BY <1>1, MoveKeeps DEF WorkerIInv, OnlyArrivedAreHandled, AttemptProgress
  <1> QED  BY <1>2, <1>3, <1>4, <1>5 DEF WorkerIInv

LEMMA TakeStep ==
    ASSUME WorkerIInv, NEW s \in Slots, NEW e \in Events, Take(s, e)
    PROVE  WorkerIInv'
  <1> DEFINE new == [pc |-> "check", event |-> e]
  <1>1. new \in SlotStates /\ new.pc = "check" /\ new.event = e
    BY DEF SlotStates
  <1>2. slot' = [slot EXCEPT ![s] = new] /\ UNCHANGED <<marked, entry>>
    BY DEF Take
  <1> HIDE DEF new
  <1> QED  BY <1>1, <1>2, TakeMoves, SlotStep

LEMMA EndStep ==
    ASSUME WorkerIInv, NEW s \in Slots,
           Complete(s) \/ Reject(s) \/ Crash(s)
    PROVE  WorkerIInv'
  <1>1. IdleSlot \in SlotStates /\ IdleSlot.pc = "idle"
    BY DEF IdleSlot, SlotStates
  <1>2. slot' = [slot EXCEPT ![s] = IdleSlot] /\ UNCHANGED <<marked, entry>>
    BY DEF Complete, Reject, Crash
  <1> QED  BY <1>1, <1>2, EndMoves, SlotStep

(* The awaits of one attempt.                                              *)
LEMMA ProcessStepKeeps ==
    ASSUME WorkerIInv, NEW s \in Slots, ProcessStep(s)
    PROVE  WorkerIInv' /\ UNCHANGED job
  <1> USE DEF WorkerIInv, TypeOK
  <1>1. PICK e \in Events : e = slot[s].event /\ job[e].state # "none"
    BY DEF AttemptProgress, OnlyArrivedAreHandled, ProcessStep, Check,
           Handle, Mark, StepFails
  <1>2. PICK pc \in {"handle", "mark", "done", "fail"} :
          /\ slot' = [slot EXCEPT ![s].pc = pc]
          /\ pc = "mark" => /\ slot[s].pc = "handle"
                            /\ entry' = Projected(e)
          /\ pc = "done" => e \in marked'
    BY <1>1 DEF ProcessStep, Check, Handle, Mark,
                StepFails, Goto
  <1>3. /\ UNCHANGED job
        /\ \/ UNCHANGED <<marked, entry>>
           \/ entry' = Projected(e) /\ UNCHANGED marked
           \/ /\ marked' = marked \cup {e} /\ UNCHANGED entry
              /\ Inserts(e) => entry[e] # "none"
    BY <1>1 DEF ProcessStep, Check, Handle, Mark,
                StepFails, AttemptProgress
  <1> DEFINE new == [slot[s] EXCEPT !.pc = pc]
  <1>4. new \in SlotStates /\ new.pc = pc /\ new.event = e
    BY <1>1 DEF SlotStates
  <1>5. slot' = [slot EXCEPT ![s] = new]
    BY <1>2
  <1> HIDE DEF new
  <1>6. /\ slot' \in [Slots -> SlotStates]
        /\ \A w \in Slots : slot'[w] = IF w = s THEN new ELSE slot[w]
    BY <1>4, <1>5
  <1>7. /\ entry' \in [Events -> {"none", "visible", "retracted"}]
        /\ \A d \in Events : entry[d] # "none" => entry'[d] # "none"
        /\ \A d \in Events : entry'[d] # "none" => d = e \/ entry[d] # "none"
        /\ marked' \subseteq Events /\ marked \subseteq marked' /\ marked' \subseteq marked \cup {e}
    BY <1>3, ProjectedFacts
  <1>8. TypeOK'
    BY <1>3, <1>6, <1>7
  <1>9. MarkedIsProjected'
    BY <1>3, <1>7 DEF MarkedIsProjected, Inserts
  <1>10. CompletedIsMarked'
    BY <1>3, <1>7 DEF CompletedIsMarked
  <1>11. AttemptProgress'
    BY <1>1, <1>2, <1>4, <1>6, <1>7, ProjectedFacts DEF AttemptProgress, Inserts
  <1>12. OnlyArrivedAreHandled'
    BY <1>1, <1>3, <1>4, <1>6, <1>7 DEF OnlyArrivedAreHandled, AttemptProgress
  <1> QED  BY <1>3, <1>8, <1>9, <1>10, <1>11, <1>12

LEMMA WorkerNext == WorkerIInv /\ [Next]_vars => WorkerIInv'
  <1> SUFFICES ASSUME WorkerIInv, [Next]_vars PROVE WorkerIInv'
    OBVIOUS
  <1>1. CASE UNCHANGED vars
    BY <1>1 DEF vars, WorkerIInv, TypeOK, MarkedIsProjected,
                CompletedIsMarked, AttemptProgress, OnlyArrivedAreHandled
  <1>2. ASSUME NEW e \in Events,
               \/ Arrive(e) \/ Promote(e) \/ Stall(e)
               \/ StallOut(e) \/ Retry(e)
        PROVE  WorkerIInv'
    <2>1. UNCHANGED <<slot, marked, entry>>
      BY <1>2 DEF Arrive, Promote, Stall, StallOut,
                  Retry
    <2> QED  BY <1>2, <2>1, ArrivalMoves, QueueMoves, JobsStep
  <1>3. ASSUME NEW s \in Slots,
               \/ ProcessStep(s) \/ Complete(s) \/ Reject(s)
               \/ Crash(s)
        PROVE  WorkerIInv'
    BY <1>3, ProcessStepKeeps, EndStep
  <1> QED  BY <1>1, <1>2, <1>3, TakeStep DEF Next

(* The strengthened invariant of the worker, whatever jobs arrive.         *)
THEOREM WorkerInductive == Spec => []WorkerIInv
  BY WorkerInit, WorkerNext, PTL DEF Spec

(* Jobs, attempts, markers and feed entries keep their types: no job is    *)
(* attempted or stalls more often than its limits allow.                   *)
THEOREM WorkerTypeCorrect == Spec => []TypeOK
  <1>1. WorkerIInv => TypeOK
    BY DEF WorkerIInv
  <1> QED  BY <1>1, WorkerInductive, PTL

(* However many attempts of a job overlap, a marker is never ahead of the  *)
(* feed entry it stands for.                                               *)
THEOREM MarkerFollowsEffect == Spec => []MarkedIsProjected
  <1>1. WorkerIInv => MarkedIsProjected
    BY DEF WorkerIInv
  <1> QED  BY <1>1, WorkerInductive, PTL

(* BullMQ holds a job for completed only when its marker is persisted.     *)
THEOREM CompletionFollowsMarker == Spec => []CompletedIsMarked
  <1>1. WorkerIInv => CompletedIsMarked
    BY DEF WorkerIInv
  <1> QED  BY <1>1, WorkerInductive, PTL

(* No redelivery of a creation shows a retracted entry again.              *)
THEOREM RetractionNeverReverts == Spec => RetractionIsFinal
  <1> DEFINE Sticks == \A e \in Events : entry[e] = "retracted" => entry'[e] = "retracted"
  <1>1. WorkerIInv /\ [Next]_vars => [Sticks]_vars
    <2> SUFFICES ASSUME WorkerIInv, Next PROVE Sticks
      OBVIOUS
    <2>1. ASSUME NEW s \in Slots, NEW reply \in BOOLEAN, Handle(s, reply)
          PROVE  Sticks
      <3>1. slot[s].event \in Events
        BY <2>1 DEF WorkerIInv, AttemptProgress, Handle
      <3> QED  BY <2>1, <3>1, ProjectedFacts DEF WorkerIInv, Handle
    <2>2. CASE UNCHANGED entry
      BY <2>2
    <2> QED  BY <2>1, <2>2
             DEF Next, Arrive, Promote, Stall,
                 StallOut, Retry, Take, ProcessStep,
                 Check, Mark, StepFails, Complete,
                 Reject, Crash
  <1> QED  BY <1>1, WorkerInductive, PTL DEF Spec, RetractionIsFinal

-----------------------------------------------------------------------------
(* The outbox, with the jobs that arrived for its queue.                   *)

(* A cycle past its claim carries a committed event, and past queue.add    *)
(* one whose job arrived.                                                  *)
CarriesClaim ==
    \A c \in Cycles :
        /\ cycle[c].pc \in {"add", "publish", "retry"} =>
              /\ cycle[c].current \in Events
              /\ row[cycle[c].current].status # "ABSENT"
        /\ cycle[c].pc = "publish" => cycle[c].current \in Queue

BoxIInv ==
    /\ Box!TypeOK
    /\ Box!PublishedIsQueued
    /\ CarriesClaim

LEMMA TokenFact == NoToken \notin Tokens
  BY BoxAssumption DEF Box!TokensAssumption

LEMMA LoopingType ==
    ASSUME NEW rest \in SUBSET Events
    PROVE  Box!Looping(rest) \in Box!CycleStates /\ Box!Looping(rest).pc \in {"idle", "claim"}
  BY DEF Box!Looping, Box!CycleStates, Box!Points

LEMMA ReleasedType ==
    ASSUME NEW r \in Box!Rows
    PROVE  /\ Box!Released(r) \in Box!Rows /\ Box!Released(r).status = "PENDING"
           /\ [Box!Released(r) EXCEPT !.due = FALSE] \in Box!Rows
           /\ [Box!Released(r) EXCEPT !.due = FALSE].status = "PENDING"
  BY DEF Box!Released, Box!Rows, Box!Statuses

LEMMA BoxInit == Box!Init => BoxIInv
  BY DEF Box!Init, BoxIInv, Box!TypeOK, Box!Rows, Box!Statuses, Box!CycleStates, Box!Points,
         Box!IdleCycle, Box!PublishedIsQueued, CarriesClaim

(* Rows move on: what was committed stays so, and a row gets PUBLISHED     *)
(* only if its job arrived.                                                *)
RowsMoveOn ==
    /\ row' \in [Events -> Box!Rows]
    /\ \A e \in Events :
         /\ row[e].status # "ABSENT" => row'[e].status # "ABSENT"
         /\ row'[e].status = "PUBLISHED" => e \in Queue'

(* A commit, and the passing of time.                                      *)
LEMMA AppendStep ==
    ASSUME BoxIInv, NEW e \in Events, Box!AppendEvent(e) \/ Box!Time(e)
    PROVE  RowsMoveOn /\ BoxIInv'
  <1> USE DEF BoxIInv, Box!TypeOK
  <1>1. PICK r \in Box!Rows :
          /\ row' = [row EXCEPT ![e] = r]
          /\ r.status # "ABSENT"
          /\ r.status = "PUBLISHED" => row[e].status = "PUBLISHED"
    <2>1. CASE Box!AppendEvent(e)
      <3> DEFINE r == [status |-> "PENDING", lock |-> NoToken, stale |-> FALSE, due |-> TRUE]
      <3>1. r \in Box!Rows /\ r.status = "PENDING"
        BY DEF Box!Rows, Box!Statuses
      <3> QED  BY <2>1, <3>1 DEF Box!AppendEvent
    <2>2. CASE Box!BecomeDue(e)
      <3>1. /\ [row[e] EXCEPT !.due = TRUE] \in Box!Rows
            /\ [row[e] EXCEPT !.due = TRUE].status = "PENDING"
        BY <2>2 DEF Box!Rows, Box!BecomeDue
      <3> QED  BY <2>2, <3>1 DEF Box!BecomeDue
    <2>3. CASE Box!LockAges(e)
      <3>1. /\ [row[e] EXCEPT !.stale = TRUE] \in Box!Rows
            /\ [row[e] EXCEPT !.stale = TRUE].status = "PROCESSING"
        BY <2>3 DEF Box!Rows, Box!LockAges
      <3> QED  BY <2>3, <3>1 DEF Box!LockAges
    <2> QED  BY <2>1, <2>2, <2>3 DEF Box!Time
  <1>2. Queue' = Queue /\ cycle' = cycle
    BY DEF Box!AppendEvent, Box!Time, Box!BecomeDue, Box!LockAges
  <1>3. RowsMoveOn
    BY <1>1, <1>2 DEF RowsMoveOn, Box!PublishedIsQueued
  <1> QED  BY <1>2, <1>3 DEF RowsMoveOn, Box!PublishedIsQueued, CarriesClaim

(* A step that moves one cycle.                                            *)
LEMMA CycleMoves ==
    ASSUME BoxIInv, RowsMoveOn, NEW c \in Cycles, NEW new \in Box!CycleStates,
           cycle' = [cycle EXCEPT ![c] = new],
           Queue' \in SUBSET Events, Queue \subseteq Queue',
           new.pc \in {"add", "publish", "retry"} =>
               new.current \in Events /\ row'[new.current].status # "ABSENT",
           new.pc = "publish" => new.current \in Queue'
    PROVE  BoxIInv'
  <1>1. /\ cycle' \in [Cycles -> Box!CycleStates]
        /\ \A d \in Cycles : cycle'[d] = IF d = c THEN new ELSE cycle[d]
    BY DEF BoxIInv, Box!TypeOK
  <1>2. Box!TypeOK' /\ Box!PublishedIsQueued'
    BY <1>1 DEF RowsMoveOn, Box!TypeOK, Box!PublishedIsQueued
  <1>3. CarriesClaim'
    BY <1>1 DEF BoxIInv, CarriesClaim, RowsMoveOn
  <1> QED  BY <1>2, <1>3 DEF BoxIInv

(* The start of a cycle, the turns of its loop, and its end.               *)
LEMMA LoopStep ==
    ASSUME BoxIInv, NEW c \in Cycles,
           \/ Box!RecoverStale(c) \/ Box!ReadCandidates(c)
           \/ \E e \in Events : Box!Skip(c, e)
           \/ Box!Abort(c)
    PROVE  RowsMoveOn /\ BoxIInv'
  <1> USE DEF BoxIInv, Box!TypeOK
  <1>1. Queue' = Queue
    BY DEF Box!RecoverStale, Box!ReadCandidates, Box!Skip, Box!Abort
  <1>2. RowsMoveOn
    <2>1. CASE Box!RecoverStale(c)
      <3>1. row' = Box!Recovered
        BY <2>1 DEF Box!RecoverStale
      <3>2. \A e \in Events : /\ Box!Recovered[e] \in Box!Rows
                              /\ Box!Recovered[e] = row[e] \/ Box!Recovered[e].status = "PENDING"
        BY ReleasedType DEF Box!Recovered
      <3>3. Box!Recovered \in [Events -> Box!Rows]
        BY <3>2 DEF Box!Recovered
      <3> QED  BY <1>1, <3>1, <3>2, <3>3 DEF RowsMoveOn, Box!PublishedIsQueued
    <2>2. CASE row' = row
      BY <1>1, <2>2 DEF RowsMoveOn, Box!PublishedIsQueued
    <2> QED  BY <2>1, <2>2 DEF Box!ReadCandidates, Box!Skip, Box!Abort
  <1>3. PICK new \in Box!CycleStates :
          cycle' = [cycle EXCEPT ![c] = new] /\ new.pc \in {"idle", "read", "claim"}
    <2>1. CASE Box!RecoverStale(c)
      <3>1. /\ [cycle[c] EXCEPT !.pc = "read"] \in Box!CycleStates
            /\ [cycle[c] EXCEPT !.pc = "read"].pc = "read"
        BY DEF Box!CycleStates, Box!Points
      <3> QED  BY <2>1, <3>1 DEF Box!RecoverStale
    <2>2. CASE Box!ReadCandidates(c)
      <3>1. Box!Oldest(Box!Candidates) \in SUBSET Events
        BY DEF Box!Oldest, Box!Candidates
      <3> QED  BY <2>2, <3>1, LoopingType DEF Box!ReadCandidates
    <2>3. ASSUME NEW e \in Events, Box!Skip(c, e)
          PROVE  \E new \in Box!CycleStates :
                   cycle' = [cycle EXCEPT ![c] = new] /\ new.pc \in {"idle", "read", "claim"}
      <3>1. cycle[c].batch \ {e} \in SUBSET Events
        BY DEF Box!CycleStates
      <3> QED  BY <2>3, <3>1, LoopingType DEF Box!Skip
    <2>4. CASE Box!Abort(c)
      <3>1. Box!IdleCycle \in Box!CycleStates /\ Box!IdleCycle.pc = "idle"
        BY DEF Box!IdleCycle, Box!CycleStates, Box!Points
      <3> QED  BY <2>4, <3>1 DEF Box!Abort
    <2> QED  BY <2>1, <2>2, <2>3, <2>4
  <1> QED  BY <1>1, <1>2, <1>3, CycleMoves

LEMMA ClaimStep ==
    ASSUME BoxIInv, NEW c \in Cycles, NEW e \in Events, Box!Claim(c, e)
    PROVE  RowsMoveOn /\ BoxIInv'
  <1> USE DEF BoxIInv, Box!TypeOK
  <1>1. PICK t \in Tokens :
          /\ row' = [row EXCEPT ![e] = [@ EXCEPT !.status = "PROCESSING",
                                                 !.lock = t, !.stale = FALSE]]
          /\ cycle' = [cycle EXCEPT ![c] = [pc |-> "add", batch |-> @.batch \ {e},
                                            current |-> e, token |-> t]]
    BY DEF Box!Claim
  <1> DEFINE r == [row[e] EXCEPT !.status = "PROCESSING", !.lock = t, !.stale = FALSE]
             new == [pc |-> "add", batch |-> cycle[c].batch \ {e}, current |-> e, token |-> t]
  <1>2. r \in Box!Rows /\ r.status = "PROCESSING"
    BY DEF Box!Rows, Box!Statuses
  <1>3. new \in Box!CycleStates /\ new.pc = "add" /\ new.current = e
    BY DEF Box!CycleStates, Box!Points
  <1>4. row' = [row EXCEPT ![e] = r] /\ cycle' = [cycle EXCEPT ![c] = new] /\ Queue' = Queue
    BY <1>1 DEF Box!Claim
  <1> HIDE DEF r, new
  <1>5. RowsMoveOn /\ row'[e].status # "ABSENT"
    BY <1>2, <1>4 DEF RowsMoveOn, Box!PublishedIsQueued
  <1> QED  BY <1>3, <1>4, <1>5, CycleMoves

(* queue.add, and the failures that lead to the catch clause.              *)
LEMMA AddStep ==
    ASSUME BoxIInv, NEW c \in Cycles,
           \/ \E reply \in BOOLEAN : Box!AddJob(c, reply)
           \/ Box!AddFails(c) \/ Box!PublishFails(c)
    PROVE  RowsMoveOn /\ BoxIInv'
  <1> USE DEF BoxIInv, Box!TypeOK
  <1>1. PICK pc \in {"publish", "retry"} :
          /\ cycle[c].pc \in {"add", "publish"}
          /\ cycle' = [cycle EXCEPT ![c].pc = pc]
          /\ pc = "publish" => Queue' = Queue \cup {cycle[c].current}
    BY DEF Box!AddJob, Box!AddFails, Box!PublishFails
  <1>2. row' = row /\ Queue' \in {Queue, Queue \cup {cycle[c].current}}
    BY DEF Box!AddJob, Box!AddFails, Box!PublishFails
  <1>3. /\ cycle[c].current \in Events /\ row[cycle[c].current].status # "ABSENT"
        /\ Queue' \in SUBSET Events /\ Queue \subseteq Queue'
    BY <1>1, <1>2 DEF CarriesClaim
  <1> DEFINE new == [cycle[c] EXCEPT !.pc = pc]
  <1>4. new \in Box!CycleStates /\ new.pc = pc /\ new.current = cycle[c].current
    BY DEF Box!CycleStates, Box!Points
  <1>5. cycle' = [cycle EXCEPT ![c] = new]
    BY <1>1
  <1> HIDE DEF new
  <1>6. RowsMoveOn
    BY <1>2, <1>3 DEF RowsMoveOn, Box!PublishedIsQueued
  <1>7. new.current \in Events /\ row'[new.current].status # "ABSENT"
    BY <1>2, <1>3, <1>4
  <1>8. new.pc = "publish" => new.current \in Queue'
    BY <1>1, <1>4
  <1> QED  BY <1>3, <1>4, <1>5, <1>6, <1>7, <1>8, CycleMoves

(* The two fenced updates.                                                 *)
LEMMA SettleStep ==
    ASSUME BoxIInv, NEW c \in Cycles,
           (\E reply \in BOOLEAN : Box!Publish(c, reply)) \/ Box!ScheduleRetry(c)
    PROVE  RowsMoveOn /\ BoxIInv'
  <1> USE DEF BoxIInv, Box!TypeOK
  <1>1. PICK e \in Events : e = cycle[c].current /\ row[e].status # "ABSENT"
    BY DEF Box!Publish, Box!ScheduleRetry, CarriesClaim
  <1>2. Queue' = Queue /\ cycle[c].batch \in SUBSET Events /\ row[e] \in Box!Rows
    BY DEF Box!Publish, Box!ScheduleRetry, Box!CycleStates
  <1>3. PICK r \in Box!Rows :
          /\ row' = [row EXCEPT ![e] = r] \/ row' = row
          /\ r.status \in {"PENDING", "PUBLISHED"}
          /\ r.status = "PUBLISHED" => e \in Queue
    <2>1. CASE \E reply \in BOOLEAN : Box!Publish(c, reply)
      <3> DEFINE r == [row[e] EXCEPT !.status = "PUBLISHED", !.lock = NoToken, !.stale = FALSE]
      <3>1. r \in Box!Rows /\ r.status = "PUBLISHED"
        BY <1>2 DEF Box!Rows, Box!Statuses
      <3>2. e \in Queue
        BY <1>1, <2>1 DEF Box!Publish, CarriesClaim
      <3>3. row' = [row EXCEPT ![e] = r] \/ row' = row
        BY <1>1, <2>1 DEF Box!Publish, Box!Settle
      <3> HIDE DEF r
      <3> QED  BY <3>1, <3>2, <3>3
    <2>2. CASE Box!ScheduleRetry(c)
      <3> DEFINE r == [Box!Released(row[e]) EXCEPT !.due = FALSE]
      <3>1. r \in Box!Rows /\ r.status = "PENDING"
        BY <1>2, ReleasedType
      <3>2. row' = [row EXCEPT ![e] = r] \/ row' = row
        BY <1>1, <2>2 DEF Box!ScheduleRetry, Box!Settle
      <3> HIDE DEF r
      <3> QED  BY <3>1, <3>2
    <2> QED  BY <2>1, <2>2
  <1>4. RowsMoveOn
    BY <1>2, <1>3 DEF RowsMoveOn, Box!PublishedIsQueued
  <1>5. PICK new \in Box!CycleStates :
          /\ cycle' = [cycle EXCEPT ![c] = new]
          /\ new.pc \in {"idle", "claim"} \/ (new.pc = "retry" /\ new.current = e)
    <2>1. /\ Box!Looping(cycle[c].batch) \in Box!CycleStates
          /\ Box!Looping(cycle[c].batch).pc \in {"idle", "claim"}
      BY <1>2, LoopingType
    <2> DEFINE retry == [cycle[c] EXCEPT !.pc = "retry"]
    <2>2. retry \in Box!CycleStates /\ retry.pc = "retry" /\ retry.current = e
      BY <1>1 DEF Box!CycleStates, Box!Points
    <2>3. ASSUME NEW reply \in BOOLEAN, Box!Publish(c, reply)
          PROVE  \/ cycle' = [cycle EXCEPT ![c] = Box!Looping(cycle[c].batch)]
                 \/ cycle' = [cycle EXCEPT ![c] = retry]
      <3>1. CASE reply
        BY <2>3, <3>1 DEF Box!Publish
      <3>2. CASE ~reply
        BY <2>3, <3>2 DEF Box!Publish
      <3> QED  BY <3>1, <3>2
    <2>4. CASE Box!ScheduleRetry(c)
      BY <2>1, <2>4 DEF Box!ScheduleRetry
    <2> HIDE DEF retry
    <2> QED  BY <2>1, <2>2, <2>3, <2>4
  <1>6. row'[e].status # "ABSENT"
    BY <1>1, <1>4 DEF RowsMoveOn
  <1> QED  BY <1>1, <1>2, <1>4, <1>5, <1>6, CycleMoves

LEMMA BoxNext ==
    ASSUME BoxIInv, [Box!Next]_(Box!vars)
    PROVE  RowsMoveOn /\ BoxIInv'
  <1>1. CASE UNCHANGED Box!vars
    BY <1>1 DEF Box!vars, BoxIInv, RowsMoveOn, Box!TypeOK, Box!PublishedIsQueued, CarriesClaim
  <1>2. ASSUME NEW e \in Events, Box!AppendEvent(e) \/ Box!Time(e)
        PROVE  RowsMoveOn /\ BoxIInv'
    BY <1>2, AppendStep
  <1>3. ASSUME NEW c \in Cycles, Box!CycleStep(c) \/ Box!Abort(c)
        PROVE  RowsMoveOn /\ BoxIInv'
    BY <1>3, LoopStep, ClaimStep, AddStep, SettleStep DEF Box!CycleStep
  <1> QED  BY <1>1, <1>2, <1>3 DEF Box!Next

-----------------------------------------------------------------------------
(* The composition.                                                        *)

(* A job arrives only for an event that was committed.                     *)
CommittedFirst == \A e \in Events : job[e].state # "none" => row[e].status # "ABSENT"

(* A record is started, and a letter written, only for a job whose         *)
(* attempts are used up; a copy follows its letter.                        *)
RecordsAreDue ==
    \A e \in Events :
        /\ letters[e] # "none" \/ <<e, "insert">> \in recording => job[e].made = MaxAttempts
        /\ <<e, "copy">> \in recording \/ e \in copies => letters[e] # "none"

PIInv ==
    /\ BoxIInv
    /\ WorkerIInv
    /\ Letters!TypeOK
    /\ CommittedFirst
    /\ RecordsAreDue

(* Jobs move on: a completed one is done with, the attempts of a job stay  *)
(* used up, and none arrives that was not committed.                       *)
JobsMoveOn ==
    \A e \in Events :
        /\ job[e].state = "completed" => job'[e] = job[e]
        /\ job[e].made = MaxAttempts => job'[e].made = MaxAttempts
        /\ job'[e].state # "none" => job[e].state # "none" \/ row[e].status # "ABSENT"

(* Whatever the worker does to jobs it has, the retained ids are the same. *)
LEMMA SameQueue ==
    ASSUME WorkerIInv, NEW e \in Events, JobMoves(e), job[e].state # "none"
    PROVE  Queue' = Queue /\ JobsMoveOn
  <1>1. \A d \in Events : job'[d].state # "none" <=> job[d].state # "none"
    BY MoveKeeps
  <1>2. Queue' = Queue
    BY <1>1 DEF Queue
  <1> QED  BY <1>1, <1>2, MoveKeeps DEF JobsMoveOn

LEMMA WorkerAlone ==
    ASSUME WorkerIInv,
           \/ \E e \in Events : \/ Promote(e) \/ Stall(e)
                                \/ StallOut(e) \/ Retry(e)
           \/ \E s \in Slots : \/ ProcessStep(s) \/ Complete(s)
                               \/ Reject(s) \/ Crash(s)
           \/ \E s \in Slots, e \in Events : Take(s, e)
    PROVE  Queue' = Queue /\ JobsMoveOn /\ Next
  <1>1. Next
    BY DEF Next
  <1>2. ASSUME NEW e \in Events,
               \/ Promote(e) \/ Stall(e)
               \/ StallOut(e) \/ Retry(e)
        PROVE  Queue' = Queue /\ JobsMoveOn
    BY <1>2, QueueMoves, SameQueue
  <1>3. ASSUME NEW s \in Slots, ProcessStep(s)
        PROVE  Queue' = Queue /\ JobsMoveOn
    BY <1>3, ProcessStepKeeps DEF Queue, JobsMoveOn
  <1>4. ASSUME NEW s \in Slots,
               Complete(s) \/ Reject(s) \/ Crash(s)
        PROVE  Queue' = Queue /\ JobsMoveOn
    <2>1. job[slot[s].event].state # "none"
      BY <1>4 DEF Complete, Reject, Crash, WorkerIInv,
                  OnlyArrivedAreHandled
    <2> QED  BY <1>4, <2>1, EndMoves, SameQueue
  <1>5. ASSUME NEW s \in Slots, NEW e \in Events, Take(s, e)
        PROVE  Queue' = Queue /\ JobsMoveOn
    BY <1>5, TakeMoves, SameQueue
  <1> QED  BY <1>1, <1>2, <1>3, <1>4, <1>5

(* What the outbox does without its queue the worker does not see.         *)
LEMMA BoxAlone ==
    ASSUME UNCHANGED vars
    PROVE  Queue' = Queue /\ JobsMoveOn
  BY DEF vars, Queue, JobsMoveOn

(* queue.add is a step of both.                                            *)
LEMMA EnqueueIsBoth ==
    ASSUME BoxIInv, WorkerIInv, NEW c \in Cycles, NEW reply \in BOOLEAN, Enqueue(c, reply)
    PROVE  Box!Next /\ Next /\ JobsMoveOn
  <1>1. PICK e \in Events : e = cycle[c].current /\ row[e].status # "ABSENT"
    BY DEF Enqueue, BoxIInv, CarriesClaim
  <1>2. Box!Next
    BY DEF Enqueue, Box!Next, Box!CycleStep
  <1>3. Arrive(e)
    BY <1>1 DEF Enqueue
  <1>4. JobsMoveOn
    BY <1>1, <1>3, ArrivalMoves, MoveKeeps DEF JobsMoveOn
  <1> QED  BY <1>2, <1>3, <1>4 DEF Next

(* Every step of the pipeline is one of each component, or a stutter.      *)
LEMMA StepOfEach ==
    ASSUME BoxIInv, WorkerIInv, [PipelineNext]_pipelineVars
    PROVE  [Box!Next]_(Box!vars) /\ [Next]_vars /\ JobsMoveOn
  <1> DEFINE Goal == [Box!Next]_(Box!vars) /\ [Next]_vars /\ JobsMoveOn
  <1>1. ASSUME UNCHANGED boxVars, UNCHANGED vars
        PROVE  Goal
    BY <1>1, BoxAlone DEF boxVars, Box!vars
  <1>2. ASSUME UNCHANGED boxVars, Queue' = Queue, JobsMoveOn, Next
        PROVE  Goal
    BY <1>2 DEF boxVars, Box!vars
  <1>3. ASSUME UNCHANGED vars, Box!Next
        PROVE  Goal
    BY <1>3, BoxAlone
  <1> HIDE DEF Goal
  <1>4. ASSUME NEW e \in Events,
               \/ BoxOnly(Box!AppendEvent(e) \/ Box!Time(e))
               \/ QueueStep(e) \/ RetryFailed(e) \/ LetterOnly(Letters!RecordStep(e))
        PROVE  Goal
    <2>1. CASE BoxOnly(Box!AppendEvent(e) \/ Box!Time(e))
      BY <1>3, <2>1 DEF BoxOnly, Box!Next
    <2>2. CASE QueueStep(e)
      BY <1>2, <2>2, WorkerAlone DEF QueueStep, WorkerOnly, ReportStallOut
    <2>3. CASE RetryFailed(e)
      BY <1>2, <2>3, WorkerAlone DEF RetryFailed
    <2>4. CASE LetterOnly(Letters!RecordStep(e))
      BY <1>1, <2>4 DEF LetterOnly
    <2> QED  BY <1>4, <2>1, <2>2, <2>3, <2>4
  <1>5. ASSUME NEW c \in Cycles, CycleStep(c) \/ BoxOnly(Box!Abort(c))
        PROVE  Goal
    <2>1. ASSUME NEW reply \in BOOLEAN, Enqueue(c, reply)
          PROVE  Goal
      BY <2>1, EnqueueIsBoth DEF Goal
    <2>2. ASSUME UNCHANGED vars, Box!CycleStep(c) \/ Box!Abort(c)
          PROVE  Goal
      BY <1>3, <2>2 DEF Box!Next
    <2>3. CASE BoxOnly(Box!Abort(c))
      BY <2>2, <2>3 DEF BoxOnly
    <2>4. CASE CycleStep(c)
      BY <2>1, <2>2, <2>4 DEF CycleStep, BoxOnly, Box!CycleStep
    <2> QED  BY <1>5, <2>3, <2>4
  <1>6. ASSUME NEW s \in Slots,
               \/ AttemptStep(s) \/ WorkerOnly(Crash(s))
               \/ \E e \in Events : WorkerOnly(Take(s, e))
        PROVE  Goal
    BY <1>2, <1>6, WorkerAlone DEF AttemptStep, WorkerOnly, ReportReject
  <1> SUFFICES Goal
    BY DEF Goal
  <1>7. CASE UNCHANGED pipelineVars
    <2>1. UNCHANGED boxVars /\ UNCHANGED vars
      BY <1>7 DEF pipelineVars, boxVars, vars
    <2> QED  BY <1>1, <2>1
  <1>8. CASE PipelineNext
    <2>1. CASE \E e \in Events : \/ BoxOnly(Box!AppendEvent(e) \/ Box!Time(e))
                                 \/ QueueStep(e) \/ RetryFailed(e)
                                 \/ LetterOnly(Letters!RecordStep(e))
      BY <1>4, <2>1
    <2>2. CASE \E c \in Cycles : CycleStep(c) \/ BoxOnly(Box!Abort(c))
      BY <1>5, <2>2
    <2>3. CASE \/ \E s \in Slots : AttemptStep(s) \/ WorkerOnly(Crash(s))
               \/ \E s \in Slots, e \in Events : WorkerOnly(Take(s, e))
      BY <1>6, <2>3
    <2> QED  BY <1>8, <2>1, <2>2, <2>3 DEF PipelineNext
  <1> QED  BY <1>7, <1>8

(* The failed listener sees a job whose attempts it may believe.           *)
LEMMA ListenerIsRight ==
    ASSUME WorkerIInv, NEW e \in Events, Exhausted(e),
           \/ StallOut(e)
           \/ \E s \in Slots : /\ Reject(s) /\ slot[s].event = e
                               /\ HoldsLock(s, e)
    PROVE  job'[e].made = MaxAttempts
  <1> USE DEF WorkerIInv, TypeOK
  <1>1. job[e] \in Jobs /\ job \in [Events -> Jobs]
    BY DEF Jobs
  <1>2. Made(e) = MaxAttempts
    BY <1>1, MadeType DEF Exhausted, Made, Jobs
  <1>3. job' = [job EXCEPT ![e] = [job[e] EXCEPT !.state = "failed", !.made = Made(e),
                                                 !.owner = NoSlot]]
    <2>1. CASE StallOut(e)
      BY <2>1 DEF StallOut
    <2>2. ASSUME NEW s \in Slots, Reject(s), slot[s].event = e, HoldsLock(s, e)
          PROVE  job' = [job EXCEPT ![e] = [job[e] EXCEPT !.state = "failed",
                                                          !.made = Made(e),
                                                          !.owner = NoSlot]]
      BY <2>2 DEF Reject
    <2> QED  BY <2>1, <2>2
  <1> DEFINE failed == [job[e] EXCEPT !.state = "failed", !.made = Made(e),
                                      !.owner = NoSlot]
  <1>4. failed.made = Made(e)
    BY <1>1 DEF Jobs
  <1>5. job' = [job EXCEPT ![e] = failed]
    BY <1>3
  <1> HIDE DEF failed
  <1> QED  BY <1>1, <1>2, <1>4, <1>5

(* What the records do to the letters.                                     *)
LEMMA LettersStep ==
    ASSUME Letters!TypeOK, RecordsAreDue, JobsMoveOn,
           \/ UNCHANGED letterVars
           \/ \E e \in Events : Letters!RecordStep(e) \/ Letters!BeginResolve(e)
           \/ \E e \in Events, exhausted \in BOOLEAN :
                Letters!Listen(e, exhausted) /\ (exhausted => job'[e].made = MaxAttempts)
    PROVE  Letters!TypeOK' /\ RecordsAreDue'
  <1> USE DEF Letters!TypeOK, Letters!Awaits
  <1>1. CASE UNCHANGED letterVars
    BY <1>1 DEF letterVars, RecordsAreDue, JobsMoveOn
  <1>2. ASSUME NEW e \in Events, Letters!Insert(e) PROVE Letters!TypeOK' /\ RecordsAreDue'
    BY <1>2 DEF Letters!Insert, RecordsAreDue, JobsMoveOn
  <1>3. ASSUME NEW e \in Events, Letters!Copy(e) PROVE Letters!TypeOK' /\ RecordsAreDue'
    BY <1>3 DEF Letters!Copy, RecordsAreDue, JobsMoveOn
  <1>4. ASSUME NEW e \in Events, NEW at \in Letters!Awaits, Letters!Lose(e, at)
        PROVE  Letters!TypeOK' /\ RecordsAreDue'
    BY <1>4 DEF Letters!Lose, RecordsAreDue, JobsMoveOn
  <1>5. ASSUME NEW e \in Events, Letters!Resolve(e) PROVE Letters!TypeOK' /\ RecordsAreDue'
    BY <1>5 DEF Letters!Resolve, RecordsAreDue, JobsMoveOn
  <1>6. ASSUME NEW e \in Events, Letters!Forget(e) \/ Letters!BeginResolve(e)
        PROVE  Letters!TypeOK' /\ RecordsAreDue'
    BY <1>6 DEF Letters!Forget, Letters!BeginResolve, RecordsAreDue, JobsMoveOn
  <1>7. ASSUME NEW e \in Events, NEW exhausted \in BOOLEAN,
               Letters!Listen(e, exhausted), exhausted => job'[e].made = MaxAttempts
        PROVE  Letters!TypeOK' /\ RecordsAreDue'
    BY <1>7 DEF Letters!Listen, RecordsAreDue, JobsMoveOn
  <1> QED  BY <1>1, <1>2, <1>3, <1>4, <1>5, <1>6, <1>7 DEF Letters!RecordStep

(* The letters in every step of the pipeline.                              *)
LEMMA RecordsFollow ==
    ASSUME PIInv, JobsMoveOn, [PipelineNext]_pipelineVars
    PROVE  Letters!TypeOK' /\ RecordsAreDue'
  <1> DEFINE Goal == Letters!TypeOK' /\ RecordsAreDue'
  <1>1. ASSUME UNCHANGED letterVars PROVE Goal
    BY <1>1, LettersStep DEF PIInv
  <1>2. ASSUME NEW e \in Events, Letters!RecordStep(e) \/ Letters!BeginResolve(e) PROVE Goal
    BY <1>2, LettersStep DEF PIInv
  <1>3. ASSUME NEW e \in Events, Letters!Listen(e, Exhausted(e)),
               Exhausted(e) => job'[e].made = MaxAttempts
        PROVE  Goal
    <2>1. Exhausted(e) \in BOOLEAN
      BY DEF Exhausted
    <2> QED  BY <1>3, <2>1, LettersStep DEF PIInv
  <1> HIDE DEF Goal
  <1>4. ASSUME NEW s \in Slots, ReportReject(s) PROVE Goal
    <2>1. PICK e \in Events : e = slot[s].event /\ Reject(s)
      BY <1>4, EndMoves DEF ReportReject, PIInv
    <2>2. CASE HoldsLock(s, e)
      BY <1>3, <1>4, <2>1, <2>2, ListenerIsRight DEF ReportReject, PIInv
    <2>3. CASE ~HoldsLock(s, e)
      BY <1>1, <1>4, <2>1, <2>3 DEF ReportReject
    <2> QED  BY <2>2, <2>3
  <1>5. ASSUME NEW e \in Events, ReportStallOut(e) PROVE Goal
    BY <1>3, <1>5, ListenerIsRight DEF ReportStallOut, PIInv
  <1>6. ASSUME NEW e \in Events, RetryFailed(e) \/ LetterOnly(Letters!RecordStep(e))
        PROVE  Goal
    BY <1>2, <1>6 DEF RetryFailed, LetterOnly
  <1>7. ASSUME NEW c \in Cycles, CycleStep(c) PROVE Goal
    BY <1>1, <1>7 DEF CycleStep, Enqueue, BoxOnly
  <1>8. Goal
    BY <1>1, <1>4, <1>5, <1>6, <1>7
       DEF PipelineNext, pipelineVars, QueueStep, AttemptStep, BoxOnly, WorkerOnly
  <1> QED  BY <1>8 DEF Goal

LEMMA InitPIInv == PipelineInit => PIInv
  <1> SUFFICES ASSUME PipelineInit PROVE PIInv
    OBVIOUS
  <1>1. BoxIInv /\ WorkerIInv
    BY BoxInit, WorkerInit DEF PipelineInit
  <1>2. \A e \in Events : job[e].state = "none"
    BY DEF PipelineInit, Init, NoJob
  <1>3. Letters!TypeOK /\ RecordsAreDue
    BY DEF PipelineInit, Letters!Init, Letters!TypeOK, RecordsAreDue
  <1> QED  BY <1>1, <1>2, <1>3 DEF PIInv, CommittedFirst

LEMMA NextPIInv ==
    ASSUME PIInv, [PipelineNext]_pipelineVars
    PROVE  PIInv' /\ JobsMoveOn
  <1>1. [Box!Next]_(Box!vars) /\ [Next]_vars /\ JobsMoveOn
    BY StepOfEach DEF PIInv
  <1>2. BoxIInv' /\ RowsMoveOn
    BY <1>1, BoxNext DEF PIInv
  <1>3. WorkerIInv'
    BY <1>1, WorkerNext DEF PIInv
  <1>4. CommittedFirst'
    BY <1>1, <1>2 DEF PIInv, CommittedFirst, JobsMoveOn, RowsMoveOn
  <1>5. Letters!TypeOK' /\ RecordsAreDue'
    BY <1>1, RecordsFollow
  <1> QED  BY <1>1, <1>2, <1>3, <1>4, <1>5 DEF PIInv

(* The strengthened invariant of the pipeline.                             *)
THEOREM PipelineInductive == PipelineSpec => []PIInv
  BY InitPIInv, NextPIInv, PTL DEF PipelineSpec

(* Every part of the pipeline keeps its types.                             *)
THEOREM PipelineTypeCorrect == PipelineSpec => []PipelineTypeOK
  <1>1. PIInv => PipelineTypeOK
    BY DEF PIInv, BoxIInv, WorkerIInv, PipelineTypeOK
  <1> QED  BY <1>1, PipelineInductive, PTL

(* The pipeline runs the outbox: joined to the worker, the dispatch cycles *)
(* do what Outbox says, with the jobs BullMQ retains for its queue, so all *)
(* that holds of Outbox holds here.                                        *)
THEOREM PipelineRunsOutbox == PipelineSpec => Box!Spec
  <1>1. PIInv /\ [PipelineNext]_pipelineVars => [Box!Next]_(Box!vars)
    BY StepOfEach DEF PIInv
  <1>2. PipelineInit => Box!Init
    BY DEF PipelineInit
  <1> QED  BY <1>1, <1>2, PipelineInductive, PTL DEF PipelineSpec, Box!Spec

(* And it runs the worker: fed by nothing but dispatch cycles, its         *)
(* attempts do what EventConsumer says.                                    *)
THEOREM PipelineRunsWorker == PipelineSpec => Spec
  <1>1. PIInv /\ [PipelineNext]_pipelineVars => [Next]_vars
    BY StepOfEach DEF PIInv
  <1>2. PipelineInit => Init
    BY DEF PipelineInit
  <1> QED  BY <1>1, <1>2, PipelineInductive, PTL DEF PipelineSpec, Spec

(* Through lost replies, crashes and late cycles, feed entries and markers *)
(* stand only for committed events, and whatever is PUBLISHED has a job.   *)
THEOREM NothingUncommittedIsHandled == PipelineSpec => []OnlyCommittedEventsAreHandled
  <1>1. PIInv => OnlyCommittedEventsAreHandled
    BY DEF PIInv, BoxIInv, WorkerIInv, OnlyArrivedAreHandled, CommittedFirst, Queue,
           Box!PublishedIsQueued, OnlyCommittedEventsAreHandled
  <1> QED  BY <1>1, PipelineInductive, PTL

(* Operators see a dead letter only of a job that used up its attempts.    *)
THEOREM LettersAreTerminal == PipelineSpec => []LetterMeansExhausted
  <1>1. PIInv => LetterMeansExhausted
    BY DEF PIInv, RecordsAreDue, LetterMeansExhausted
  <1> QED  BY <1>1, PipelineInductive, PTL

(* A completed job is never run again, whoever comes back to it.           *)
THEOREM CompletedStaysCompleted == PipelineSpec => CompletedIsFinal
  <1> DEFINE Stays == \A e \in Events : job[e].state = "completed" => job'[e] = job[e]
  <1>1. PIInv /\ [PipelineNext]_pipelineVars => [Stays]_pipelineVars
    BY NextPIInv DEF JobsMoveOn
  <1> QED  BY <1>1, PipelineInductive, PTL DEF PipelineSpec, CompletedIsFinal
=============================================================================
