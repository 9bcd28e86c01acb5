--------------------------- MODULE CommunityPoints ---------------------------
(***************************************************************************)
(* The community-points ledger of one member under one rule: the           *)
(* transactions of PrismaCommunityPointsRepository and the consumer that   *)
(* calls them.  A reputation decision is delivered as an award event, its  *)
(* reversal as a second event; either may be delivered repeatedly, before  *)
(* the other, and to two workers at once.  The event's id is the id of its *)
(* ledger entry (sourceEventId is unique) and of its source (one           *)
(* ReputationEntry per event).                                             *)
(*                                                                         *)
(* Every statement of a transaction reads what is committed when it runs   *)
(* (READ COMMITTED), so a transaction is several steps; its writes appear  *)
(* in the last one.  The advisory locks are held to that last step.        *)
(***************************************************************************)
EXTENDS Integers, FiniteSets

CONSTANTS
  Events,     \* the award events, which are also the ledger entries they make
  DayOf,      \* [Events -> day]: the UTC day on which the event occurred
  Workers,    \* the queue workers that may run the consumer
  Admins,     \* the moderators that reverse entries by hand
  Limits,     \* the daily limits the rule may have
  NoLimit     \* dailyLimit = null

ASSUME LimitsAssumption == Limits \subseteq Nat \ {0} /\ NoLimit \notin Limits
ASSUME EventsAssumption == IsFiniteSet(Events) /\ Events # {}

VARIABLES
  rule,       \* CommunityPointRule: [limit, enabled]
  entries,    \* the original entries, by event
  reversed,   \* the entries that a reversal entry points to
  limitOf,    \* history: the limit under which an entry was awarded
  revoked,    \* CommunityPointRevokedSource
  processed,  \* ProcessedEvent of this consumer
  worker,     \* [pc, event, limit, found] of each worker
  admin       \* [pc, event] of each moderator

vars == <<rule, entries, reversed, limitOf, revoked, processed, worker, admin>>

Idle == "IDLE"
AwardSteps == {"TAKEN", "LOCKED", "CLEARED", "COUNTED"}
RevokeSteps == {"REVOKING", "REVERSING"}

Resting == [pc |-> Idle, event |-> CHOOSE e \in Events : TRUE,
            limit |-> NoLimit, found |-> FALSE]
AtDesk == [pc |-> Idle, event |-> CHOOSE e \in Events : TRUE]

Rules == [limit : Limits \cup {NoLimit}, enabled : BOOLEAN]

TypeOK ==
  /\ rule \in Rules
  /\ entries \subseteq Events
  /\ reversed \subseteq entries
  /\ limitOf \in [Events -> Limits \cup {NoLimit}]
  /\ revoked \subseteq Events
  /\ processed \subseteq Events
  /\ worker \in [Workers -> [pc : {Idle} \cup AwardSteps \cup RevokeSteps,
                             event : Events, limit : Limits \cup {NoLimit},
                             found : BOOLEAN]]
  /\ admin \in [Admins -> [pc : {Idle, "ASKED", "CHECKED"}, event : Events]]

PointsInit ==
  /\ rule \in Rules
  /\ entries = {} /\ reversed = {} /\ revoked = {} /\ processed = {}
  /\ limitOf = [e \in Events |-> NoLimit]
  /\ worker = [w \in Workers |-> Resting]
  /\ admin = [a \in Admins |-> AtDesk]

-----------------------------------------------------------------------------
(* The locks, as who holds them.                                           *)

HoldsEvent(w, e) ==
  worker[w].pc \in {"LOCKED", "CLEARED", "COUNTED"} /\ worker[w].event = e

HoldsCap(w, day) ==
  /\ worker[w].pc = "COUNTED" /\ worker[w].limit # NoLimit
  /\ DayOf[worker[w].event] = day

HoldsSource(w, e) ==
  worker[w].pc \in {"REVOKING", "REVERSING"} /\ worker[w].event = e

HoldsReversal(a, e) == admin[a].pc = "CHECKED" /\ admin[a].event = e

(* Variant: the daily-cap lock is left out. *)
CapIsFreeAlways(day) == TRUE

CapIsFree(day) == \A w \in Workers : ~HoldsCap(w, day)

OnDay(day) == {e \in entries : DayOf[e] = day}

(* Variant: an award does not look for the tombstone of its source. *)
IsRevokedNever(e) == FALSE

IsRevoked(e) == e \in revoked

-----------------------------------------------------------------------------
(* CommunityPointsService.consume of an award event.                       *)

(* The rules are read before any transaction; without an enabled rule the  *)
(* event is ignored and not even marked.                                   *)
Take(w, e) ==
  /\ worker[w].pc = Idle
  /\ rule.enabled
  /\ worker' = [worker EXCEPT ![w] =
       [pc |-> "TAKEN", event |-> e, limit |-> rule.limit, found |-> FALSE]]
  /\ UNCHANGED <<rule, entries, reversed, limitOf, revoked, processed, admin>>

(* The event lock and the look for the ProcessedEvent row; a duplicate     *)
(* ends here.                                                              *)
LockEvent(w) ==
  LET e == worker[w].event IN
  /\ worker[w].pc = "TAKEN"
  /\ \A o \in Workers : ~HoldsEvent(o, e)
  /\ worker' = IF e \in processed
               THEN [worker EXCEPT ![w] = Resting]
               ELSE [worker EXCEPT ![w].pc = "LOCKED"]
  /\ UNCHANGED <<rule, entries, reversed, limitOf, revoked, processed, admin>>

(* An event whose source has been withdrawn is marked and pays nothing.    *)
CheckSource(w) ==
  LET e == worker[w].event IN
  /\ worker[w].pc = "LOCKED"
  /\ IF IsRevoked(e)
     THEN /\ processed' = processed \cup {e}
          /\ worker' = [worker EXCEPT ![w] = Resting]
     ELSE /\ worker' = [worker EXCEPT ![w].pc = "CLEARED"]
          /\ UNCHANGED processed
  /\ UNCHANGED <<rule, entries, reversed, limitOf, revoked, admin>>

(* A limited rule takes the lock of (member, rule, day) and counts the     *)
(* originals of that day; a full day marks the event and pays nothing.     *)
Count(w) ==
  LET e == worker[w].event
      limited == worker[w].limit # NoLimit IN
  /\ worker[w].pc = "CLEARED"
  /\ limited => CapIsFree(DayOf[e])
  /\ IF limited /\ Cardinality(OnDay(DayOf[e])) >= worker[w].limit
     THEN /\ processed' = processed \cup {e}
          /\ worker' = [worker EXCEPT ![w] = Resting]
     ELSE /\ worker' = [worker EXCEPT ![w].pc = "COUNTED"]
          /\ UNCHANGED processed
  /\ UNCHANGED <<rule, entries, reversed, limitOf, revoked, admin>>

(* The entry, its evidence and the mark commit together.                   *)
Award(w) ==
  LET e == worker[w].event IN
  /\ worker[w].pc = "COUNTED"
  /\ entries' = entries \cup {e}
  /\ limitOf' = [limitOf EXCEPT ![e] = worker[w].limit]
  /\ processed' = processed \cup {e}
  /\ worker' = [worker EXCEPT ![w] = Resting]
  /\ UNCHANGED <<rule, reversed, revoked, admin>>

-----------------------------------------------------------------------------
(* consumeReputationReversal: the source of an event is withdrawn.         *)

(* Nothing is read before the transaction, which takes the lock of the     *)
(* source first; a tombstone ends it.                                      *)
LockSource(w, e) ==
  /\ worker[w].pc = Idle
  /\ \A o \in Workers : ~HoldsSource(o, e)
  /\ e \notin revoked
  /\ worker' = [worker EXCEPT ![w] =
       [pc |-> "REVOKING", event |-> e, limit |-> NoLimit, found |-> FALSE]]
  /\ UNCHANGED <<rule, entries, reversed, limitOf, revoked, processed, admin>>

(* The tombstone is inserted, invisible until the commit, and the          *)
(* unreversed entries of the source are read.                              *)
FindOriginals(w) ==
  LET e == worker[w].event IN
  /\ worker[w].pc = "REVOKING"
  /\ worker' = [worker EXCEPT ![w] =
       [pc |-> "REVERSING", event |-> e, limit |-> NoLimit, found |-> e \in entries \ reversed]]
  /\ UNCHANGED <<rule, entries, reversed, limitOf, revoked, processed, admin>>

(* The reversals and the tombstone commit together.  An entry that a       *)
(* moderator reversed meanwhile breaks the unique reversesEntryId, and the *)
(* whole transaction with it: that is Fail.                                *)
Revoke(w) ==
  LET e == worker[w].event IN
  /\ worker[w].pc = "REVERSING"
  /\ worker[w].found => e \notin reversed
  /\ revoked' = revoked \cup {e}
  /\ reversed' = IF worker[w].found THEN reversed \cup {e} ELSE reversed
  /\ worker' = [worker EXCEPT ![w] = Resting]
  /\ UNCHANGED <<rule, entries, limitOf, processed, admin>>

(* The process dies, the transaction is rolled back or its insert breaks a *)
(* constraint: locks and writes are gone, and the event may be delivered   *)
(* again.                                                                  *)
Fail(w) ==
  /\ worker[w].pc # Idle
  /\ worker' = [worker EXCEPT ![w] = Resting]
  /\ UNCHANGED <<rule, entries, reversed, limitOf, revoked, processed, admin>>

-----------------------------------------------------------------------------
(* CommunityPointsService.reverse, by hand: the entry is looked up and     *)
(* found unreversed, then locked and looked up again, then reversed.       *)

AskReversal(a, e) ==
  /\ admin[a].pc = Idle
  /\ e \in entries \ reversed
  /\ admin' = [admin EXCEPT ![a] = [pc |-> "ASKED", event |-> e]]
  /\ UNCHANGED <<rule, entries, reversed, limitOf, revoked, processed, worker>>

CheckReversal(a) ==
  LET e == admin[a].event IN
  /\ admin[a].pc = "ASKED"
  /\ \A o \in Admins : ~HoldsReversal(o, e)
  /\ admin' = IF e \in reversed
              THEN [admin EXCEPT ![a] = AtDesk]
              ELSE [admin EXCEPT ![a].pc = "CHECKED"]
  /\ UNCHANGED <<rule, entries, reversed, limitOf, revoked, processed, worker>>

(* A source reversal that committed meanwhile makes the insert fail on     *)
(* reversesEntryId; nothing is written then.                               *)
Reverse(a) ==
  LET e == admin[a].event IN
  /\ admin[a].pc = "CHECKED"
  /\ reversed' = reversed \cup {e}
  /\ admin' = [admin EXCEPT ![a] = AtDesk]
  /\ UNCHANGED <<rule, entries, limitOf, revoked, processed, worker>>

UpdateRule(new) ==
  /\ rule # new
  /\ rule' = new
  /\ UNCHANGED <<entries, reversed, limitOf, revoked, processed, worker, admin>>

-----------------------------------------------------------------------------
WorkerNext(w) ==
  \/ \E e \in Events : Take(w, e) \/ LockSource(w, e)
  \/ LockEvent(w) \/ CheckSource(w) \/ Count(w) \/ Award(w)
  \/ FindOriginals(w) \/ Revoke(w)
  \/ Fail(w)

AdminNext(a) ==
  \/ \E e \in Events : AskReversal(a, e)
  \/ CheckReversal(a) \/ Reverse(a)

PointsNext ==
  \/ \E w \in Workers : WorkerNext(w)
  \/ \E a \in Admins : AdminNext(a)
  \/ \E new \in Rules : UpdateRule(new)

PointsSpec == PointsInit /\ [][PointsNext]_vars

-----------------------------------------------------------------------------
(* The awards of a UTC day stay within the rule's daily limit, however the *)
(* deliveries overlap and whenever the rule changes: with no unlimited     *)
(* award among them, they are no more than the limit of one of them.  A    *)
(* reversed award keeps its place (dailyAwardCount, line 372).             *)
DailyCapIsKept ==
  \A day \in {DayOf[e] : e \in Events} :
    \/ OnDay(day) = {}
    \/ \E e \in OnDay(day) :
         \/ limitOf[e] = NoLimit
         \/ Cardinality(OnDay(day)) <= limitOf[e]

(* The points of an event are settled as withdrawn: the source has its     *)
(* tombstone, no entry of it counts, and no delivery of the award has read *)
(* that the source was good.                                               *)
Withdrawn(e) ==
  /\ e \in revoked
  /\ e \notin entries \ reversed
  /\ \A w \in Workers :
       ~(worker[w].pc \in {"CLEARED", "COUNTED"} /\ worker[w].event = e)

(* Withdrawn points stay withdrawn: an award event that is delivered after *)
(* the reversal of its source (the two may overtake each other) pays       *)
(* nothing, on any delivery (award lines 165-180).                         *)
WithdrawnStaysWithdrawn ==
  [][\A e \in Events : Withdrawn(e) => Withdrawn(e)']_vars
=============================================================================
