------------------------------- MODULE Outbox -------------------------------
(***************************************************************************)
(* The transactional outbox and its dispatch cycles                        *)
(* (apps/api/src/core/events, apps/api/src/core/queue).                    *)
(*                                                                         *)
(* A business transaction commits an outbox row.  Every API process ticks  *)
(* a timer whose callback runs one cycle: release the locks older than a   *)
(* minute, read the due PENDING rows, then for each of them claim it, add  *)
(* a job to the queue and mark it PUBLISHED.  Nothing stops a tick while   *)
(* the previous cycle still awaits, and several processes may run: a       *)
(* member of Cycles is one call of runOnce that may be in flight.          *)
(*                                                                         *)
(* Time is kept only as two facts about a row: `due` (availableAt has      *)
(* passed) and `stale` (lockedAt is more than a minute old).  An event is  *)
(* the number of its place in createdAt order.  `attempts` and `lastError` *)
(* are written but never read by this code, and are left out.              *)
(***************************************************************************)
EXTENDS Naturals, FiniteSets

CONSTANTS
    Events,     \* outbox events, numbered in createdAt order
    Cycles,     \* calls of runOnce that may be in flight at once
    Tokens,     \* claim tokens: `${pid}:${uuid}`
    NoToken,    \* lockedBy IS NULL
    NoEvent,    \* a cycle that is between two events
    Limit       \* the most candidates one cycle reads

ASSUME EventsAssumption == Events \subseteq Nat /\ NoEvent \notin Events
ASSUME TokensAssumption == NoToken \notin Tokens
ASSUME LimitAssumption  == Limit \in Nat \ {0}

VARIABLES
    row,    \* outbox_events: what the table holds for each event
    queue,  \* ids of the jobs BullMQ retains for integrationEvents
    cycle   \* the local state of each cycle

vars == <<row, queue, cycle>>

Statuses == {"ABSENT", "PENDING", "PROCESSING", "PUBLISHED"}

(* The await a cycle is at.                                                *)
Points == {"idle", "read", "claim", "add", "publish", "retry"}

Rows == [status : Statuses, lock : Tokens \cup {NoToken},
         stale : BOOLEAN, due : BOOLEAN]

CycleStates == [pc : Points, batch : SUBSET Events,
                current : Events \cup {NoEvent}, token : Tokens \cup {NoToken}]

IdleCycle == [pc |-> "idle", batch |-> {}, current |-> NoEvent, token |-> NoToken]

TypeOK ==
    /\ row \in [Events -> Rows]
    /\ queue \subseteq Events
    /\ cycle \in [Cycles -> CycleStates]

Init ==
    /\ row = [e \in Events |-> [status |-> "ABSENT", lock |-> NoToken,
                                stale |-> FALSE, due |-> FALSE]]
    /\ queue = {}
    /\ cycle = [c \in Cycles |-> IdleCycle]

-----------------------------------------------------------------------------
(* The business transaction that appended e commits: the row is PENDING    *)
(* and available at once.  Commits need not follow createdAt order.        *)
AppendEvent(e) ==
    /\ row[e].status = "ABSENT"
    /\ row' = [row EXCEPT ![e] = [status |-> "PENDING", lock |-> NoToken,
                                  stale |-> FALSE, due |-> TRUE]]
    /\ UNCHANGED <<queue, cycle>>

(* A PENDING row held back for a second becomes available again.           *)
BecomeDue(e) ==
    /\ row[e].status = "PENDING"
    /\ ~row[e].due
    /\ row' = [row EXCEPT ![e].due = TRUE]
    /\ UNCHANGED <<queue, cycle>>

(* A minute passes over a lock.                                            *)
LockAges(e) ==
    /\ row[e].status = "PROCESSING"
    /\ ~row[e].stale
    /\ row' = [row EXCEPT ![e].stale = TRUE]
    /\ UNCHANGED <<queue, cycle>>

-----------------------------------------------------------------------------
(* Rows go back to PENDING without their lock; recovery leaves availableAt.*)
Released(r) == [r EXCEPT !.status = "PENDING", !.lock = NoToken, !.stale = FALSE]

(* Variant: the tick never releases a lock.                                *)
RecoveredNone == row

Recovered == [e \in Events |->
                IF row[e].status = "PROCESSING" /\ row[e].stale
                THEN Released(row[e])
                ELSE row[e]]

(* A timer tick: the cycle starts by releasing every stale lock.           *)
RecoverStale(c) ==
    /\ cycle[c].pc = "idle"
    /\ row' = Recovered
    /\ cycle' = [cycle EXCEPT ![c].pc = "read"]
    /\ UNCHANGED queue

Candidates == {e \in Events : row[e].status = "PENDING" /\ row[e].due}

(* The first Limit candidates in createdAt order.                          *)
Oldest(S) == {e \in S : Cardinality({d \in S : d < e}) < Limit}

(* Where the loop stands once `rest` are the candidates left in its batch. *)
Looping(rest) == [pc |-> IF rest = {} THEN "idle" ELSE "claim", batch |-> rest,
                  current |-> NoEvent, token |-> NoToken]

ReadCandidates(c) ==
    /\ cycle[c].pc = "read"
    /\ cycle' = [cycle EXCEPT ![c] = Looping(Oldest(Candidates))]
    /\ UNCHANGED <<row, queue>>

(* e is the next candidate of the loop of c.                               *)
NextInBatch(c, e) ==
    /\ cycle[c].pc = "claim"
    /\ e \in cycle[c].batch
    /\ \A d \in cycle[c].batch : e <= d

(* Tokens some row or some cycle still carries.  A fresh UUID differs from *)
(* them all; one that nobody carries any more may stand for a new one.     *)
LiveTokens == {row[e].lock : e \in Events} \cup {cycle[c].token : c \in Cycles}

(* The conditional update PENDING -> PROCESSING matched: c owns the row.   *)
(* It does not look at availableAt again.                                  *)
Claim(c, e) ==
    /\ NextInBatch(c, e)
    /\ row[e].status = "PENDING"
    /\ \E t \in Tokens \ LiveTokens :
         /\ row' = [row EXCEPT ![e] = [@ EXCEPT !.status = "PROCESSING",
                                                !.lock = t, !.stale = FALSE]]
         /\ cycle' = [cycle EXCEPT ![c] = [pc |-> "add", batch |-> @.batch \ {e},
                                           current |-> e, token |-> t]]
    /\ UNCHANGED queue

(* The conditional update matched no row: another cycle took it first.     *)
Skip(c, e) ==
    /\ NextInBatch(c, e)
    /\ row[e].status # "PENDING"
    /\ cycle' = [cycle EXCEPT ![c] = Looping(@.batch \ {e})]
    /\ UNCHANGED <<row, queue>>

(* queue.add with the event id as job id: adding a retained id changes     *)
(* nothing.  The reply may be lost after Redis stored the job.             *)
AddJob(c, reply) ==
    /\ cycle[c].pc = "add"
    /\ queue' = queue \cup {cycle[c].current}
    /\ cycle' = [cycle EXCEPT ![c].pc = IF reply THEN "publish" ELSE "retry"]
    /\ UNCHANGED row

(* Variant: the error of queue.add is swallowed.                           *)
AddFailsSilently(c) ==
    /\ cycle[c].pc = "add"
    /\ cycle' = [cycle EXCEPT ![c].pc = "publish"]
    /\ UNCHANGED <<row, queue>>

AddFails(c) ==
    /\ cycle[c].pc = "add"
    /\ cycle' = [cycle EXCEPT ![c].pc = "retry"]
    /\ UNCHANGED <<row, queue>>

(* The row is still PROCESSING under the token of this very claim.         *)
Owns(c, e) == row[e].status = "PROCESSING" /\ row[e].lock = cycle[c].token

(* Variant: the update names the row by its id alone.                      *)
SettleById(c, new) == row' = [row EXCEPT ![cycle[c].current] = new]

(* Set `new` on the row of c if c still owns it, and touch nothing if not. *)
Settle(c, new) ==
    LET e == cycle[c].current
    IN  row' = IF Owns(c, e) THEN [row EXCEPT ![e] = new] ELSE row

(* The fenced update to PUBLISHED.  When its reply is lost the catch       *)
(* clause runs although the row is PUBLISHED.                              *)
Publish(c, reply) ==
    /\ cycle[c].pc = "publish"
    /\ Settle(c, [row[cycle[c].current] EXCEPT !.status = "PUBLISHED",
                                               !.lock = NoToken, !.stale = FALSE])
    /\ cycle' = [cycle EXCEPT ![c] = IF reply THEN Looping(@.batch)
                                              ELSE [@ EXCEPT !.pc = "retry"]]
    /\ UNCHANGED queue

PublishFails(c) ==
    /\ cycle[c].pc = "publish"
    /\ cycle' = [cycle EXCEPT ![c].pc = "retry"]
    /\ UNCHANGED <<row, queue>>

(* The catch clause: give the row back, available in one second.           *)
ScheduleRetry(c) ==
    /\ cycle[c].pc = "retry"
    /\ Settle(c, [Released(row[cycle[c].current]) EXCEPT !.due = FALSE])
    /\ cycle' = [cycle EXCEPT ![c] = Looping(@.batch)]
    /\ UNCHANGED queue

(* An exception leaves runOnce, or the API process dies at any await.      *)
Abort(c) ==
    /\ cycle[c].pc # "idle"
    /\ cycle' = [cycle EXCEPT ![c] = IdleCycle]
    /\ UNCHANGED <<row, queue>>

-----------------------------------------------------------------------------
Time(e) == BecomeDue(e) \/ LockAges(e)

CycleStep(c) ==
    \/ RecoverStale(c)
    \/ ReadCandidates(c)
    \/ \E e \in Events : Claim(c, e) \/ Skip(c, e)
    \/ \E reply \in BOOLEAN : AddJob(c, reply) \/ Publish(c, reply)
    \/ AddFails(c)
    \/ PublishFails(c)
    \/ ScheduleRetry(c)

Next ==
    \/ \E e \in Events : AppendEvent(e) \/ Time(e)
    \/ \E c \in Cycles : CycleStep(c) \/ Abort(c)

Spec == Init /\ [][Next]_vars

(* The interval timer keeps ticking and awaits return (WF of the cycles),  *)
(* time passes, and the failures of Redis, PostgreSQL and the processes    *)
(* are not permanent: if again and again some cycle can read, claim, or    *)
(* add or publish while the lock is still its own, one day one does (SF).  *)
OwnsCurrent(c) == cycle[c].current # NoEvent /\ Owns(c, cycle[c].current)

Fairness ==
    /\ \A e \in Events : WF_vars(Time(e))
    /\ \A c \in Cycles : WF_vars(CycleStep(c))
    /\ SF_vars(\E c \in Cycles : ReadCandidates(c))
    /\ SF_vars(\E c \in Cycles, e \in Events : Claim(c, e))
    /\ SF_vars(\E c \in Cycles : OwnsCurrent(c) /\ AddJob(c, TRUE))
    /\ SF_vars(\E c \in Cycles : OwnsCurrent(c) /\ Publish(c, TRUE))

FairSpec == Spec /\ Fairness

-----------------------------------------------------------------------------
(* A row is locked exactly while it is PROCESSING, so the fenced updates   *)
(* and stale recovery always see the lock of the latest claim.             *)
LockedWhileProcessing ==
    \A e \in Events : row[e].lock # NoToken <=> row[e].status = "PROCESSING"

(* A row is never PUBLISHED unless its job is in the queue, whatever       *)
(* replies were lost and whichever cycle's late completion came through:   *)
(* the outbox forgets an event only after BullMQ holds it.                 *)
PublishedIsQueued ==
    \A e \in Events : row[e].status = "PUBLISHED" => e \in queue

(* At most one in-flight cycle may still settle a row: of all the cycles   *)
(* that claimed it one after the other, only the last one matches its lock.*)
OneSettler ==
    \A e \in Events : \A c, d \in Cycles :
        /\ cycle[c].current = e /\ Owns(c, e)
        /\ cycle[d].current = e /\ Owns(d, e)
        => c = d

(* A late completion never takes a PUBLISHED row back: the catch clause of *)
(* a cycle that lost its lock, or whose publish reply was lost, is inert.  *)
PublishedIsFinal ==
    [][\A e \in Events : row[e].status = "PUBLISHED" => row'[e] = row[e]]_vars

-----------------------------------------------------------------------------
(* What the outbox promises the rest of the system.                        *)
Contract == INSTANCE OutboxContract WITH
    written   <- {e \in Events : row[e].status # "ABSENT"},
    queued    <- queue,
    published <- {e \in Events : row[e].status = "PUBLISHED"}

(* Every step of the dispatch cycles is a step of the contract or leaves   *)
(* its state alone: only committed events are queued, each becomes         *)
(* published once, after it was queued.                                    *)
ImplementsContract == Contract!Spec

(* Under the fairness above every committed event is queued and published. *)
KeepsPromise == Contract!EveryEventPublished
=============================================================================
