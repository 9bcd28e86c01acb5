------------------------ MODULE GamificationRouting ------------------------
(***************************************************************************)
(* Routing of outbox events to the gamification destination                *)
(* (apps/api/src/composition/gamification-delivery): the operators'        *)
(* control row, the two discovery lanes that turn committed outbox events  *)
(* into deliveries, and the fenced publication of deliveries.              *)
(*                                                                         *)
(* Every action is one database transaction: control takes the activation  *)
(* row FOR UPDATE, scans and claims take it FOR SHARE, and scans take the  *)
(* discovery row FOR UPDATE.  An event that commits between the statement  *)
(* that opens an epoch and the one that reads its page is as good as       *)
(* committed before both when its key is inside the window, and after both *)
(* when it is not.                                                         *)
(*                                                                         *)
(* An event is the number of its key (createdAt, id) in key order; commit  *)
(* order is free, so an event may become visible behind a cursor that has  *)
(* passed it.  A cutoff is the number of the first key at or after it; 0   *)
(* stands for a NULL key or cutoff.  A claim is identified by its token,   *)
(* cycle and cycleAttempts together; nothing in this code starts a new     *)
(* cycle, so the attempt number of the delivery stands for all three.      *)
(* Operational counters and timestamps that no code reads are left out.    *)
(***************************************************************************)
EXTENDS Naturals, FiniteSets

CONSTANTS
    Events,         \* keys of outbox events
    Cutoffs,        \* the values an activation may stamp
    Operators,
    SourceBatch,    \* ROUTING_SOURCE_BATCH
    ClaimBatch,     \* ROUTING_CLAIM_BATCH
    Budget,         \* ROUTING_PUBLICATION_BUDGET
    MaxRevision     \* bound of the checked instances, not of the code

ASSUME KeysAssumption == Events \subseteq Nat \ {0} /\ Cutoffs \subseteq Nat \ {0}
ASSUME SizesAssumption ==
    /\ SourceBatch \in Nat \ {0}
    /\ ClaimBatch \in Nat \ {0}
    /\ Budget \in Nat \ {0}
    /\ MaxRevision \in Nat

VARIABLES
    committed,  \* outbox events whose transaction has committed
    activation, \* gamification_activations, one row at most
    view,       \* the revision each operator last read
    forward,    \* key of the forward cursor
    epoch,      \* the reconciliation window: upper and sweep keys
    delivery,   \* gamification_deliveries, keyed by event
    failures,   \* rows of gamification_publication_failures, by event
    held,       \* claims <<event, attempt>> that publishers still hold
    owed        \* history: the eligible events visible when the latest epoch opened

control   == <<activation, view>>
discovery == <<forward, epoch, owed>>
vars == <<committed, control, discovery, delivery, failures, held>>

Deliveries == [state : {"NONE", "WAITING", "CLAIMED", "QUEUED", "BLOCKED"},
               attempts : 0..Budget,
               ready : BOOLEAN]     \* WAITING: availableAt passed; CLAIMED: lease over

TypeOK ==
    /\ committed \subseteq Events /\ IsFiniteSet(committed)
    /\ activation \in [state : {"NONE", "PREPARED", "ACTIVE", "PAUSED"},
                       cutoff : {0} \cup Cutoffs, revision : 0..MaxRevision]
    /\ view \in [Operators -> 0..MaxRevision]
    /\ forward \in {0} \cup Events
    /\ epoch \in [open : BOOLEAN, upper : {0} \cup Events, sweep : {0} \cup Events]
    /\ delivery \in [Events -> Deliveries]
    /\ failures \in [Events -> Nat]
    /\ held \subseteq Events \X (1..Budget)
    /\ owed \subseteq Events

ClosedEpoch == [open |-> FALSE, upper |-> 0, sweep |-> 0]

Init ==
    /\ committed = {}
    /\ activation = [state |-> "NONE", cutoff |-> 0, revision |-> 0]
    /\ view = [o \in Operators |-> 0]
    /\ forward = 0
    /\ epoch = ClosedEpoch
    /\ delivery = [e \in Events |-> [state |-> "NONE", attempts |-> 0, ready |-> FALSE]]
    /\ failures = [e \in Events |-> 0]
    /\ held = {}
    /\ owed = {}

(* A transaction that wrote outbox event e commits.                        *)
Commit(e) ==
    /\ e \notin committed
    /\ committed' = committed \cup {e}
    /\ UNCHANGED <<control, discovery, delivery, failures, held>>

-----------------------------------------------------------------------------
(* Control.                                                                *)

controlOthers == <<committed, discovery, delivery, failures, held>>

(* prepare: creates the row once and leaves an existing one alone; either  *)
(* way the operator learns the current revision.                           *)
Prepare(o) ==
    /\ activation' = IF activation.state = "NONE"
                     THEN [activation EXCEPT !.state = "PREPARED"]
                     ELSE activation
    /\ view' = [view EXCEPT ![o] = activation.revision]
    /\ UNCHANGED controlOthers

(* The row exists and nobody changed it since o read it.                   *)
Current(o) ==
    /\ activation.state # "NONE"
    /\ activation.revision = view[o]
    /\ activation.revision < MaxRevision

Activate(o) ==
    /\ Current(o)
    /\ activation.state = "PREPARED"
    /\ \E t \in Cutoffs :
         activation' = [state |-> "ACTIVE", cutoff |-> t,
                        revision |-> activation.revision + 1]
    /\ view' = [view EXCEPT ![o] = activation.revision + 1]
    /\ UNCHANGED controlOthers

(* setPaused with the opposite of the present state; asking for the        *)
(* present state changes nothing.                                          *)
SetPaused(o) ==
    /\ Current(o)
    /\ activation.state \in {"ACTIVE", "PAUSED"}
    /\ activation' = [activation EXCEPT
                        !.state = IF activation.state = "ACTIVE" THEN "PAUSED" ELSE "ACTIVE",
                        !.revision = activation.revision + 1]
    /\ view' = [view EXCEPT ![o] = activation.revision + 1]
    /\ UNCHANGED controlOthers

-----------------------------------------------------------------------------
(* Discovery.                                                              *)

Running == activation.state \in {"ACTIVE", "PAUSED"}

(* Variant: the cutoff is applied only where there is no cursor.           *)
EligibleIgnoringCutoff == committed

(* outbox_events with createdAt >= cutoff.                                 *)
Eligible == {e \in committed : e >= activation.cutoff}

IsGreatest(e, S) == e \in S /\ \A d \in S : d <= e

(* B is what ORDER BY key LIMIT limit keeps of S, for a limit assertBatch  *)
(* lets through.                                                           *)
IsPage(B, S) ==
    /\ B \subseteq S
    /\ \A e \in B : \A d \in S : d < e => d \in B
    /\ \E limit \in 1..SourceBatch :
         Cardinality(B) = IF Cardinality(S) < limit THEN Cardinality(S) ELSE limit

(* INSERT ... ON CONFLICT DO NOTHING.                                      *)
Routed(B) ==
    [e \in Events |-> IF e \in B /\ delivery[e].state = "NONE"
                      THEN [state |-> "WAITING", attempts |-> 0, ready |-> TRUE]
                      ELSE delivery[e]]

(* The forward lane: the next page after the cursor, which stays where it  *)
(* is when there is none.                                                  *)
Forward ==
    /\ Running
    /\ \E B \in SUBSET Eligible :
         /\ IsPage(B, {e \in Eligible : e > forward})
         /\ \E last \in B : IsGreatest(last, B) /\ forward' = last
         /\ delivery' = Routed(B)
    /\ UNCHANGED <<committed, control, epoch, owed, failures, held>>

(* Variant: the reconciliation lane starts from the forward cursor.        *)
SweepFromForward(upper, sweep) ==
    \E B \in SUBSET Eligible :
        /\ IsPage(B, {e \in Eligible : e > forward /\ e <= upper})
        /\ delivery' = Routed(B)
        /\ \/ /\ B = {} \/ upper \in B
              /\ epoch' = ClosedEpoch
           \/ /\ upper \notin B
              /\ \E last \in B :
                   /\ IsGreatest(last, B)
                   /\ epoch' = [open |-> TRUE, upper |-> upper, sweep |-> last]

(* The next page of the window of an epoch; the epoch closes when there is *)
(* no page or the page ends at upper.                                      *)
Sweep(upper, sweep) ==
    \E B \in SUBSET Eligible :
        /\ IsPage(B, {e \in Eligible : e > sweep /\ e <= upper})
        /\ delivery' = Routed(B)
        /\ \/ /\ B = {} \/ upper \in B
              /\ epoch' = ClosedEpoch
           \/ /\ upper \notin B
              /\ \E last \in B :
                   /\ IsGreatest(last, B)
                   /\ epoch' = [open |-> TRUE, upper |-> upper, sweep |-> last]

(* The reconciliation lane opens an epoch up to the greatest visible key   *)
(* if none is open, and sweeps one page of it.                             *)
OpenEpoch ==
    /\ ~epoch.open
    /\ owed' = Eligible
    /\ \/ Eligible = {} /\ UNCHANGED <<epoch, delivery>>
       \/ \E upper \in Eligible : IsGreatest(upper, Eligible) /\ Sweep(upper, 0)

ContinueEpoch ==
    /\ epoch.open
    /\ Sweep(epoch.upper, epoch.sweep)
    /\ UNCHANGED owed

Reconcile ==
    /\ Running
    /\ OpenEpoch \/ ContinueEpoch
    /\ UNCHANGED <<committed, control, forward, failures, held>>

-----------------------------------------------------------------------------
(* Publication.                                                            *)

publicationOthers == <<committed, control, discovery>>

Due == {e \in Events : delivery[e].state = "WAITING" /\ delivery[e].ready}

(* claim: some due rows, SKIP LOCKED passing over those another            *)
(* transaction holds.                                                      *)
Claim(S) ==
    /\ activation.state = "ACTIVE"
    /\ S \subseteq Due /\ S # {} /\ Cardinality(S) <= ClaimBatch
    /\ delivery' = [e \in Events |->
                      IF e \in S THEN [state |-> "CLAIMED", ready |-> FALSE,
                                       attempts |-> delivery[e].attempts + 1]
                                 ELSE delivery[e]]
    /\ held' = held \cup {<<e, delivery[e].attempts + 1>> : e \in S}
    /\ UNCHANGED <<publicationOthers, failures>>

(* Variants: the update names the state but not the claim, or the reverse. *)
OwnsByState(e, n) == delivery[e].state = "CLAIMED"
OwnsByClaim(e, n) == delivery[e].attempts = n

(* The conditional update of a claim finds its row.                        *)
Owns(e, n) == delivery[e].state = "CLAIMED" /\ delivery[e].attempts = n

(* acknowledge, possibly late or repeated; a lost claim changes nothing.   *)
Acknowledge(e, n) ==
    /\ <<e, n>> \in held
    /\ Owns(e, n)
    /\ delivery' = [delivery EXCEPT ![e] = [@ EXCEPT !.state = "QUEUED", !.ready = FALSE]]
    /\ UNCHANGED <<publicationOthers, failures, held>>

(* Variant: the attempt that failed is not counted yet.                    *)
AfterFailureUncounted(d) ==
    [d EXCEPT !.state = IF d.attempts > Budget THEN "BLOCKED" ELSE "WAITING",
              !.ready = FALSE]

(* settleFailure: back to WAITING with a delay, or BLOCKED at the budget.  *)
AfterFailure(d) ==
    [d EXCEPT !.state = IF d.attempts >= Budget THEN "BLOCKED" ELSE "WAITING",
              !.ready = FALSE]

(* fail, possibly late or repeated: the update and one failure row.        *)
Fail(e, n) ==
    /\ <<e, n>> \in held
    /\ Owns(e, n)
    /\ delivery' = [delivery EXCEPT ![e] = AfterFailure(@)]
    /\ failures' = [failures EXCEPT ![e] = @ + 1]
    /\ UNCHANGED <<publicationOthers, held>>

Expired == {e \in Events : delivery[e].state = "CLAIMED" /\ delivery[e].ready}

(* Variant: recovery, like claiming, needs an ACTIVE destination.          *)
RecoverWhileActive(S) ==
    /\ activation.state = "ACTIVE"
    /\ S \subseteq Expired /\ S # {} /\ Cardinality(S) <= ClaimBatch
    /\ delivery' = [e \in Events |-> IF e \in S THEN AfterFailure(delivery[e])
                                                ELSE delivery[e]]
    /\ failures' = [e \in Events |-> IF e \in S THEN failures[e] + 1 ELSE failures[e]]
    /\ UNCHANGED <<publicationOthers, held>>

(* recover: some claims whose lease is over, each settled as a failure.    *)
Recover(S) ==
    /\ Running
    /\ S \subseteq Expired /\ S # {} /\ Cardinality(S) <= ClaimBatch
    /\ delivery' = [e \in Events |-> IF e \in S THEN AfterFailure(delivery[e])
                                                ELSE delivery[e]]
    /\ failures' = [e \in Events |-> IF e \in S THEN failures[e] + 1 ELSE failures[e]]
    /\ UNCHANGED <<publicationOthers, held>>

(* A publisher dies or is done with a claim.                               *)
Drop(e, n) ==
    /\ <<e, n>> \in held
    /\ held' = held \ {<<e, n>>}
    /\ UNCHANGED <<publicationOthers, delivery, failures>>

(* A backoff or a lease runs out.                                          *)
TimePasses(e) ==
    /\ delivery[e].state \in {"WAITING", "CLAIMED"}
    /\ ~delivery[e].ready
    /\ delivery' = [delivery EXCEPT ![e].ready = TRUE]
    /\ UNCHANGED <<publicationOthers, failures, held>>

-----------------------------------------------------------------------------
Next ==
    \/ \E e \in Events : Commit(e) \/ TimePasses(e)
    \/ \E o \in Operators : Prepare(o) \/ Activate(o) \/ SetPaused(o)
    \/ Forward
    \/ Reconcile
    \/ \E S \in SUBSET Events : Claim(S) \/ Recover(S)
    \/ \E e \in Events, n \in 1..Budget : Acknowledge(e, n) \/ Fail(e, n) \/ Drop(e, n)

Spec == Init /\ [][Next]_vars

(* The clock, and what DEBT_007_ROUTING_PROTOCOL.md demands of the caller  *)
(* that is not in the repository yet: it keeps calling reconcile, however  *)
(* busy the forward lane is, and claim and recover.                        *)
Fairness ==
    /\ WF_vars(Reconcile)
    /\ \A e \in Events :
         /\ WF_vars(TimePasses(e))
         /\ SF_vars(\E S \in SUBSET Events : e \in S /\ Claim(S))
         /\ WF_vars(\E S \in SUBSET Events : e \in S /\ Recover(S))

FairSpec == Spec /\ Fairness

-----------------------------------------------------------------------------
(* Only committed events at or after the cutoff are ever routed.           *)
OnlyEligibleAreRouted ==
    \A e \in Events :
        delivery[e].state # "NONE" =>
            activation.cutoff # 0 /\ e \in committed /\ e >= activation.cutoff

(* A closed epoch left nothing behind: every event that was visible when   *)
(* it opened has its delivery, also one that committed late, behind a      *)
(* forward cursor that will never return to it; while the epoch is open    *)
(* this holds up to its sweep key.                                         *)
EpochLeavesNoGap ==
    \A e \in owed :
        \/ delivery[e].state # "NONE"
        \/ epoch.open /\ e > epoch.sweep

(* An open epoch has keys left to look at, for a page that reaches upper   *)
(* closes it, and a closed one keeps no key: so the table's window CHECK   *)
(* never rejects a scan.                                                   *)
EpochWindow ==
    IF epoch.open THEN epoch.upper # 0 /\ epoch.sweep < epoch.upper
                  ELSE epoch = ClosedEpoch

(* The budget CHECK of the table: a delivery waits only with attempts left,*)
(* is blocked only with none left, and is claimed or queued by an attempt. *)
BudgetIsKept ==
    \A e \in Events :
        CASE delivery[e].state = "NONE"    -> delivery[e].attempts = 0
          [] delivery[e].state = "WAITING" -> delivery[e].attempts < Budget
          [] delivery[e].state = "BLOCKED" -> delivery[e].attempts = Budget
          [] OTHER                         -> delivery[e].attempts > 0

(* The failure history is exact: one row per attempt that was settled as a *)
(* failure, whoever of publisher and recovery got there first, and none    *)
(* for an attempt in flight or acknowledged.                               *)
HistoryIsExact ==
    \A e \in Events :
        delivery[e].attempts = IF delivery[e].state \in {"CLAIMED", "QUEUED"}
                               THEN failures[e] + 1 ELSE failures[e]

(* Within its lease an attempt is settled by nobody but the publisher that *)
(* made it: not by one that answers for an earlier attempt, and not by     *)
(* recovery.                                                               *)
LeaseIsExclusive ==
    [][\A e \in Events :
          /\ delivery[e].state = "CLAIMED" /\ ~delivery[e].ready
          /\ <<e, delivery[e].attempts>> \notin held
          => delivery'[e].state = "CLAIMED" /\ delivery'[e].attempts = delivery[e].attempts]_vars

(* The cutoff is stamped once, whichever operators race to activate.       *)
CutoffIsFinal ==
    [][activation.cutoff # 0 => activation'.cutoff = activation.cutoff]_vars

(* QUEUED and BLOCKED are final: no late failure, recovery or rescan takes *)
(* a delivery back.                                                        *)
SettledIsFinal ==
    [][\A e \in Events : delivery[e].state \in {"QUEUED", "BLOCKED"} =>
          delivery'[e] = delivery[e]]_vars

(* Every eligible event is routed in the end, whatever order events commit *)
(* in: the reconciliation lane alone suffices.                             *)
EveryEligibleIsRouted ==
    \A e \in Events :
        Running /\ e \in Eligible ~> delivery[e].state # "NONE"

(* Every delivery is queued or blocked in the end, or waits in a paused    *)
(* destination, even if publishers always die: a claim made before a pause *)
(* is given back during it, and a resumed destination takes up what waits. *)
EveryDeliverySettles ==
    \A e \in Events :
        delivery[e].state # "NONE" ~>
            \/ delivery[e].state \in {"QUEUED", "BLOCKED"}
            \/ delivery[e].state = "WAITING" /\ activation.state = "PAUSED"
=============================================================================
