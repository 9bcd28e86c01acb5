---------------------------- MODULE OutboxProofs ----------------------------
(***************************************************************************)
(* Proofs about Outbox for any events, any number of overlapping cycles    *)
(* and any supply of claim tokens.                                         *)
(***************************************************************************)
EXTENDS Outbox, TLAPS

-----------------------------------------------------------------------------
(* The inductive invariant.                                                *)

(* A cycle carries an event and a token exactly from its claim on, and the *)
(* event was committed; past queue.add the job of the event is retained.   *)
CarriesClaim ==
    \A c \in Cycles :
        /\ cycle[c].pc \in {"add", "publish", "retry"} =>
              /\ cycle[c].current \in Events
              /\ cycle[c].token \in Tokens
              /\ row[cycle[c].current].status # "ABSENT"
        /\ cycle[c].pc \in {"idle", "read", "claim"} => cycle[c].token = NoToken
        /\ cycle[c].pc = "publish" => cycle[c].current \in queue

(* No two cycles carry the same token: what makes a token an identity.     *)
DistinctTokens ==
    \A c, d \in Cycles :
        c # d /\ cycle[c].token # NoToken => cycle[c].token # cycle[d].token

IInv ==
    /\ TypeOK
    /\ LockedWhileProcessing
    /\ PublishedIsQueued
    /\ CarriesClaim
    /\ DistinctTokens

-----------------------------------------------------------------------------
(* The shapes a step gives to rows and cycle states are well typed.        *)
LEMMA LoopingType ==
    ASSUME NEW rest \in SUBSET Events
    PROVE  /\ Looping(rest) \in CycleStates
           /\ Looping(rest).pc \in {"idle", "claim"}
           /\ Looping(rest).token = NoToken
  BY DEF Looping, CycleStates, Points

LEMMA ReleasedType ==
    ASSUME NEW r \in Rows
    PROVE  /\ Released(r) \in Rows
           /\ Released(r).status = "PENDING"
           /\ Released(r).lock = NoToken
           /\ [Released(r) EXCEPT !.due = FALSE] \in Rows
  BY DEF Released, Rows, Statuses

LEMMA InitIInv == Init => IInv
  BY TokensAssumption DEF Init, IInv, TypeOK, Rows, Statuses, CycleStates, Points,
     IdleCycle, LockedWhileProcessing, PublishedIsQueued, CarriesClaim, DistinctTokens

(* Steps that change one row without a cycle: commit and time.             *)
LEMMA RowStep ==
    ASSUME IInv, NEW e \in Events, AppendEvent(e) \/ Time(e)
    PROVE  IInv'
  <1> USE TokensAssumption DEF IInv, TypeOK, Rows, Statuses
  <1>1. TypeOK'
    <2>1. CASE AppendEvent(e)
      BY <2>1 DEF AppendEvent
    <2>2. CASE BecomeDue(e)
      BY <2>2 DEF BecomeDue
    <2>3. CASE LockAges(e)
      BY <2>3 DEF LockAges
    <2> QED  BY <2>1, <2>2, <2>3 DEF Time
  <1>2. LockedWhileProcessing'
    BY DEF AppendEvent, Time, BecomeDue, LockAges, LockedWhileProcessing
  <1>3. PublishedIsQueued'
    BY DEF AppendEvent, Time, BecomeDue, LockAges, PublishedIsQueued
  <1>4. CarriesClaim'
    BY DEF AppendEvent, Time, BecomeDue, LockAges, CarriesClaim
  <1>5. DistinctTokens'
    BY DEF AppendEvent, Time, BecomeDue, LockAges, DistinctTokens
  <1> QED  BY <1>1, <1>2, <1>3, <1>4, <1>5

LEMMA RecoverStaleStep ==
    ASSUME IInv, NEW c \in Cycles, RecoverStale(c)
    PROVE  IInv'
  <1> USE TokensAssumption DEF IInv, TypeOK
  <1>1. \A e \in Events : /\ row'[e] \in Rows
                          /\ row'[e] = row[e] \/ (/\ row'[e].status = "PENDING"
                                                  /\ row'[e].lock = NoToken)
    BY ReleasedType DEF RecoverStale, Recovered
  <1>2. row' \in [Events -> Rows]
    BY <1>1 DEF RecoverStale, Recovered
  <1>3. cycle' \in [Cycles -> CycleStates]
    BY DEF RecoverStale, CycleStates, Points
  <1>4. TypeOK'
    BY <1>2, <1>3 DEF RecoverStale
  <1>5. LockedWhileProcessing'
    BY <1>1 DEF LockedWhileProcessing
  <1>6. PublishedIsQueued'
    BY <1>1 DEF RecoverStale, PublishedIsQueued
  <1>7. CarriesClaim'
    BY <1>1 DEF RecoverStale, CarriesClaim, CycleStates
  <1>8. DistinctTokens'
    BY DEF RecoverStale, DistinctTokens, CycleStates
  <1> QED  BY <1>4, <1>5, <1>6, <1>7, <1>8

LEMMA ClaimStep ==
    ASSUME IInv, NEW c \in Cycles, NEW e \in Events, Claim(c, e)
    PROVE  IInv'
  <1> USE TokensAssumption DEF IInv, TypeOK
  <1>1. PICK t \in Tokens \ LiveTokens :
          /\ row' = [row EXCEPT ![e] = [@ EXCEPT !.status = "PROCESSING",
                                                 !.lock = t, !.stale = FALSE]]
          /\ cycle' = [cycle EXCEPT ![c] = [pc |-> "add", batch |-> @.batch \ {e},
                                            current |-> e, token |-> t]]
    BY DEF Claim
  <1>2. t # NoToken /\ \A d \in Cycles : cycle[d].token # t
    BY DEF LiveTokens
  <1>3. row' \in [Events -> Rows]
    BY <1>1 DEF Rows, Statuses
  <1>4. cycle' \in [Cycles -> CycleStates]
    BY <1>1 DEF CycleStates, Points
  <1>5. TypeOK'
    BY <1>3, <1>4 DEF Claim
  <1>6. LockedWhileProcessing'
    BY <1>1, <1>2 DEF LockedWhileProcessing, Rows
  <1>7. PublishedIsQueued'
    BY <1>1 DEF Claim, PublishedIsQueued, Rows
  <1>8. CarriesClaim'
    BY <1>1 DEF Claim, CarriesClaim, CycleStates, Rows
  <1>9. DistinctTokens'
    BY <1>1, <1>2 DEF DistinctTokens, CycleStates
  <1> QED  BY <1>5, <1>6, <1>7, <1>8, <1>9

(* Steps that end or begin a turn of the loop without touching a row.      *)
LEMMA LoopStep ==
    ASSUME IInv, NEW c \in Cycles,
           \/ ReadCandidates(c)
           \/ \E e \in Events : Skip(c, e)
           \/ Abort(c)
    PROVE  IInv'
  <1> USE TokensAssumption DEF IInv, TypeOK
  <1>1. PICK s \in CycleStates :
          /\ cycle' = [cycle EXCEPT ![c] = s]
          /\ s.token = NoToken
          /\ s.pc \in {"idle", "claim"}
    <2>1. CASE ReadCandidates(c)
      <3>1. Oldest(Candidates) \in SUBSET Events
        BY DEF Oldest, Candidates
      <3> QED  BY <2>1, <3>1, LoopingType DEF ReadCandidates
    <2>2. ASSUME NEW e \in Events, Skip(c, e)
          PROVE  \E s \in CycleStates : /\ cycle' = [cycle EXCEPT ![c] = s]
                                        /\ s.token = NoToken
                                        /\ s.pc \in {"idle", "claim"}
      <3>1. cycle[c].batch \ {e} \in SUBSET Events
        BY DEF CycleStates
      <3> QED  BY <2>2, <3>1, LoopingType DEF Skip
    <2>3. CASE Abort(c)
      <3>1. IdleCycle \in CycleStates /\ IdleCycle.token = NoToken /\ IdleCycle.pc = "idle"
        BY DEF IdleCycle, CycleStates, Points
      <3> QED  BY <2>3, <3>1 DEF Abort
    <2> QED  BY <2>1, <2>2, <2>3
  <1>2. UNCHANGED <<row, queue>>
    BY DEF ReadCandidates, Skip, Abort
  <1>3. TypeOK'
    BY <1>1, <1>2
  <1>4. LockedWhileProcessing' /\ PublishedIsQueued'
    BY <1>2 DEF LockedWhileProcessing, PublishedIsQueued
  <1>5. CarriesClaim'
    BY <1>1, <1>2 DEF CarriesClaim
  <1>6. DistinctTokens'
    BY <1>1 DEF DistinctTokens
  <1> QED  BY <1>3, <1>4, <1>5, <1>6

(* queue.add, and the failures that lead to the catch clause.              *)
LEMMA QueueStep ==
    ASSUME IInv, NEW c \in Cycles,
           \/ \E reply \in BOOLEAN : AddJob(c, reply)
           \/ AddFails(c)
           \/ PublishFails(c)
    PROVE  IInv'
  <1> USE DEF IInv, TypeOK
  <1>1. PICK p \in {"publish", "retry"} :
          /\ cycle[c].pc \in {"add", "publish"}
          /\ cycle' = [cycle EXCEPT ![c].pc = p]
          /\ p = "publish" => queue' = queue \cup {cycle[c].current}
    BY DEF AddJob, AddFails, PublishFails
  <1>2. /\ row' = row
        /\ queue' \in {queue, queue \cup {cycle[c].current}}
    BY DEF AddJob, AddFails, PublishFails
  <1>3. cycle[c].current \in Events /\ queue' \subseteq Events /\ queue \subseteq queue'
    BY <1>1, <1>2 DEF CarriesClaim
  <1>4. TypeOK'
    BY <1>1, <1>2, <1>3 DEF CycleStates, Points
  <1>5. LockedWhileProcessing' /\ PublishedIsQueued'
    BY <1>2, <1>3 DEF LockedWhileProcessing, PublishedIsQueued
  <1>6. CarriesClaim'
    BY <1>1, <1>2, <1>3 DEF CarriesClaim, CycleStates
  <1>7. DistinctTokens'
    BY <1>1 DEF DistinctTokens, CycleStates
  <1> QED  BY <1>4, <1>5, <1>6, <1>7

(* The two fenced updates.                                                 *)
LEMMA SettleStep ==
    ASSUME IInv, NEW c \in Cycles,
           (\E reply \in BOOLEAN : Publish(c, reply)) \/ ScheduleRetry(c)
    PROVE  IInv'
  <1> USE TokensAssumption DEF IInv, TypeOK
  <1> DEFINE e == cycle[c].current
  <1>1. e \in Events /\ cycle[c].batch \in SUBSET Events
    BY DEF Publish, ScheduleRetry, CarriesClaim, CycleStates
  <1>2. PICK r \in Rows :
          /\ row' = IF Owns(c, e) THEN [row EXCEPT ![e] = r] ELSE row
          /\ r.lock = NoToken
          /\ r.status \in {"PENDING", "PUBLISHED"}
          /\ r.status = "PUBLISHED" => e \in queue
    <2>1. CASE \E reply \in BOOLEAN : Publish(c, reply)
      <3>1. [row[e] EXCEPT !.status = "PUBLISHED", !.lock = NoToken, !.stale = FALSE] \in Rows
        BY <1>1 DEF Rows, Statuses
      <3>2. e \in queue
        BY <2>1 DEF Publish, CarriesClaim
      <3> QED  BY <1>1, <2>1, <3>1, <3>2 DEF Publish, Settle, Rows
    <2>2. CASE ScheduleRetry(c)
      <3>1. row[e] \in Rows
        BY <1>1
      <3> QED  BY <1>1, <2>2, <3>1, ReleasedType DEF ScheduleRetry, Settle, Rows
    <2> QED  BY <2>1, <2>2
  <1>3. PICK s \in CycleStates :
          /\ cycle' = [cycle EXCEPT ![c] = s]
          /\ \/ s.token = NoToken /\ s.pc \in {"idle", "claim"}
             \/ s.token = cycle[c].token /\ s.current = e /\ s.pc = "retry"
    <2>1. CASE \E reply \in BOOLEAN : Publish(c, reply)
      <3> PICK reply \in BOOLEAN : Publish(c, reply)
        BY <2>1
      <3>1. CASE reply
        BY <1>1, <3>1, LoopingType DEF Publish
      <3>2. CASE ~reply
        <4>1. [cycle[c] EXCEPT !.pc = "retry"] \in CycleStates
          BY DEF CycleStates, Points
        <4> QED  BY <3>2, <4>1 DEF Publish, CycleStates
      <3> QED  BY <3>1, <3>2
    <2>2. CASE ScheduleRetry(c)
      BY <1>1, <2>2, LoopingType DEF ScheduleRetry
    <2> QED  BY <2>1, <2>2
  <1>4. queue' = queue
    BY DEF Publish, ScheduleRetry
  <1>5. cycle[c].token \in Tokens /\ row[e].status # "ABSENT"
    BY DEF Publish, ScheduleRetry, CarriesClaim
  <1>6. TypeOK'
    BY <1>1, <1>2, <1>3, <1>4
  <1>7. LockedWhileProcessing'
    BY <1>1, <1>2 DEF LockedWhileProcessing
  <1>8. PublishedIsQueued'
    BY <1>1, <1>2, <1>4 DEF PublishedIsQueued
  <1>9. CarriesClaim'
    <2>1. \A d \in Events : row[d].status # "ABSENT" => row'[d].status # "ABSENT"
      BY <1>1, <1>2
    <2> QED  BY <1>1, <1>3, <1>4, <1>5, <2>1 DEF CarriesClaim
  <1>10. DistinctTokens'
    BY <1>3 DEF DistinctTokens
  <1> QED  BY <1>6, <1>7, <1>8, <1>9, <1>10

LEMMA StutterStep == IInv /\ UNCHANGED vars => IInv'
  BY DEF IInv, vars, TypeOK, LockedWhileProcessing, PublishedIsQueued, CarriesClaim,
     DistinctTokens

LEMMA NextIInv == IInv /\ [Next]_vars => IInv'
  <1> SUFFICES ASSUME IInv, [Next]_vars PROVE IInv'
    OBVIOUS
  <1>1. ASSUME NEW e \in Events, AppendEvent(e) \/ Time(e) PROVE IInv'
    BY <1>1, RowStep
  <1>2. ASSUME NEW c \in Cycles, CycleStep(c) \/ Abort(c) PROVE IInv'
    BY <1>2, RecoverStaleStep, ClaimStep, LoopStep, QueueStep, SettleStep DEF CycleStep
  <1>3. CASE UNCHANGED vars
    BY <1>3, StutterStep
  <1> QED  BY <1>1, <1>2, <1>3 DEF Next

(* The strengthened invariant holds in every reachable state.              *)
THEOREM Inductive == Spec => []IInv
  BY InitIInv, NextIInv, PTL DEF Spec

(* Rows, queue and cycles keep their types.                                *)
THEOREM TypeCorrect == Spec => []TypeOK
  <1>1. IInv => TypeOK
    BY DEF IInv
  <1> QED  BY <1>1, Inductive, PTL

(* No row is PUBLISHED before its job is in the queue, whatever replies    *)
(* are lost and however many cycles overlap.                               *)
THEOREM PublishedOnlyAfterEnqueue == Spec => []PublishedIsQueued
  <1>1. IInv => PublishedIsQueued
    BY DEF IInv
  <1> QED  BY <1>1, Inductive, PTL

(* A row carries a lock exactly while it is PROCESSING.                    *)
THEOREM LockMeansProcessing == Spec => []LockedWhileProcessing
  <1>1. IInv => LockedWhileProcessing
    BY DEF IInv
  <1> QED  BY <1>1, Inductive, PTL

(* Of all the cycles that claimed a row, at most one can still settle it.  *)
THEOREM FencedSettlement == Spec => []OneSettler
  <1>1. IInv => OneSettler
    BY DEF IInv, OneSettler, DistinctTokens, LockedWhileProcessing, Owns
  <1> QED  BY <1>1, Inductive, PTL

-----------------------------------------------------------------------------
(* Action properties.                                                      *)

(* No step of any cycle, however late, takes a PUBLISHED row back.         *)
THEOREM PublishedNeverReverts == Spec => PublishedIsFinal
  <1> DEFINE Keeps == \A e \in Events : row[e].status = "PUBLISHED" => row'[e] = row[e]
  <1>1. IInv /\ [Next]_vars => [Keeps]_vars
    <2> SUFFICES ASSUME IInv, Next, NEW e \in Events, row[e].status = "PUBLISHED"
                 PROVE  row'[e] = row[e]
      OBVIOUS
    <2> USE DEF IInv, TypeOK
    <2>1. ASSUME NEW d \in Events, AppendEvent(d) \/ Time(d) PROVE row'[e] = row[e]
      BY <2>1 DEF AppendEvent, Time, BecomeDue, LockAges
    <2>2. ASSUME NEW c \in Cycles, CycleStep(c) \/ Abort(c) PROVE row'[e] = row[e]
      <3>1. CASE RecoverStale(c)
        BY <3>1 DEF RecoverStale, Recovered
      <3>2. ASSUME NEW d \in Events, Claim(c, d) PROVE row'[e] = row[e]
        BY <3>2 DEF Claim
      <3>3. ASSUME NEW reply \in BOOLEAN, Publish(c, reply) PROVE row'[e] = row[e]
        BY <3>3 DEF Publish, Settle, Owns
      <3>4. CASE ScheduleRetry(c)
        BY <3>4 DEF ScheduleRetry, Settle, Owns
      <3> QED  BY <2>2, <3>1, <3>2, <3>3, <3>4
               DEF CycleStep, ReadCandidates, Skip, AddJob, AddFails, PublishFails, Abort
    <2> QED  BY <2>1, <2>2 DEF Next
  <1>2. PublishedIsFinal <=> [][Keeps]_vars
    BY DEF PublishedIsFinal
  <1> QED  BY <1>1, Inductive, PTL DEF Spec, PublishedIsFinal

-----------------------------------------------------------------------------
(* Refinement.                                                             *)

(* Every dispatch cycle implements the outbox contract: what is queued was *)
(* committed, what is published was queued, and neither is taken back.     *)
THEOREM OutboxImplementsContract == Spec => ImplementsContract
  <1>1. Init => Contract!Init
    BY DEF Init, Contract!Init
  <1>2. IInv /\ [Next]_vars => [Contract!Next]_(Contract!vars)
    <2> SUFFICES ASSUME IInv, [Next]_vars
                 PROVE  Contract!Next \/ UNCHANGED Contract!vars
      OBVIOUS
    <2> USE DEF IInv, TypeOK
    <2> DEFINE written   == {e \in Events : row[e].status # "ABSENT"}
               published == {e \in Events : row[e].status = "PUBLISHED"}
    <2>1. ASSUME NEW e \in Events, AppendEvent(e) PROVE Contract!Write(e)
      BY <2>1 DEF AppendEvent, Contract!Write
    <2>2. ASSUME NEW e \in Events, Time(e) PROVE UNCHANGED Contract!vars
      <3>1. \A d \in Events : row'[d].status = row[d].status
        BY <2>2 DEF Time, BecomeDue, LockAges, Rows
      <3> QED  BY <2>2, <3>1 DEF Time, BecomeDue, LockAges, Contract!vars
    <2>3. ASSUME NEW c \in Cycles, RecoverStale(c) PROVE UNCHANGED Contract!vars
      BY <2>3, ReleasedType DEF RecoverStale, Recovered, Contract!vars
    <2>4. ASSUME NEW c \in Cycles, NEW e \in Events, Claim(c, e)
          PROVE  UNCHANGED Contract!vars
      BY <2>4 DEF Claim, Contract!vars
    <2>5. ASSUME NEW c \in Cycles, NEW reply \in BOOLEAN, AddJob(c, reply)
          PROVE  Contract!Enqueue(cycle[c].current) \/ UNCHANGED Contract!vars
      BY <2>5 DEF AddJob, CarriesClaim, Contract!Enqueue, Contract!vars
    <2>6. ASSUME NEW c \in Cycles, NEW reply \in BOOLEAN, Publish(c, reply)
          PROVE  Contract!Confirm(cycle[c].current) \/ UNCHANGED Contract!vars
      BY <2>6 DEF Publish, Settle, Owns, CarriesClaim, Contract!Confirm, Contract!vars
    <2>7. ASSUME NEW c \in Cycles, ScheduleRetry(c) PROVE UNCHANGED Contract!vars
      BY <2>7, ReleasedType DEF ScheduleRetry, Settle, Owns, CarriesClaim, Contract!vars
    <2>8. ASSUME NEW c \in Cycles, UNCHANGED <<row, queue>>
          PROVE  UNCHANGED Contract!vars
      BY <2>8 DEF Contract!vars
    <2>9. CASE UNCHANGED vars
      BY <2>9 DEF vars, Contract!vars
    <2>10. ASSUME NEW c \in Cycles, CycleStep(c) \/ Abort(c)
           PROVE  Contract!Next \/ UNCHANGED Contract!vars
      <3>1. cycle[c].pc \in {"add", "publish"} => cycle[c].current \in Events
        BY DEF CarriesClaim
      <3>2. ASSUME NEW reply \in BOOLEAN, AddJob(c, reply) \/ Publish(c, reply)
            PROVE  Contract!Next \/ UNCHANGED Contract!vars
        <4>1. cycle[c].current \in Events
          BY <3>1, <3>2 DEF AddJob, Publish
        <4>2. CASE AddJob(c, reply)
          BY <2>5, <4>1, <4>2 DEF Contract!Next
        <4>3. CASE Publish(c, reply)
          <5>1. Contract!Confirm(cycle[c].current) \/ UNCHANGED Contract!vars
            BY <2>6, <4>3
          <5>2. Contract!Confirm(cycle[c].current) => Contract!Next
            BY <4>1 DEF Contract!Next, Contract!Confirm
          <5> QED  BY <5>1, <5>2
        <4> QED  BY <3>2, <4>2, <4>3
      <3>3. ASSUME \/ ReadCandidates(c)
                   \/ \E e \in Events : Skip(c, e)
                   \/ AddFails(c) \/ PublishFails(c) \/ Abort(c)
            PROVE  UNCHANGED <<row, queue>>
        BY <3>3 DEF ReadCandidates, Skip, AddFails, PublishFails, Abort
      <3>4. ASSUME \/ RecoverStale(c)
                   \/ \E e \in Events : Claim(c, e)
                   \/ ScheduleRetry(c)
            PROVE  UNCHANGED Contract!vars
        <4>1. CASE RecoverStale(c)
          BY <2>3, <4>1
        <4>2. CASE \E e \in Events : Claim(c, e)
          <5> PICK e \in Events : Claim(c, e)
            BY <4>2
          <5> QED  BY <2>4
        <4>3. CASE ScheduleRetry(c)
          BY <2>7, <4>3
        <4> QED  BY <3>4, <4>1, <4>2, <4>3
      <3>5. \/ \E reply \in BOOLEAN : AddJob(c, reply) \/ Publish(c, reply)
            \/ UNCHANGED <<row, queue>>
            \/ UNCHANGED Contract!vars
        BY <2>10, <3>3, <3>4 DEF CycleStep
      <3> QED  BY <2>8, <3>2, <3>5
    <2> QED  BY <2>1, <2>2, <2>9, <2>10 DEF Next, Contract!Next
  <1> QED  BY <1>1, <1>2, Inductive, PTL DEF Spec, ImplementsContract, Contract!Spec
=============================================================================
