---------------------- MODULE GamificationRoutingProofs ----------------------
(***************************************************************************)
(* Proofs about GamificationRouting for any events, cutoffs and operators, *)
(* any page and claim sizes and any budget.                                *)
(***************************************************************************)
EXTENDS GamificationRouting, FiniteSetTheorems, TLAPS

-----------------------------------------------------------------------------
(* A cutoff is stamped by activation and by nothing else.                  *)
Boundary == activation.state \in {"NONE", "PREPARED"} <=> activation.cutoff = 0

(* What an epoch owes lies inside its window.                              *)
OwedInWindow ==
    /\ owed # {} => activation.cutoff # 0
    /\ owed \subseteq Eligible
    /\ epoch.open => \A e \in owed : e <= epoch.upper

IInv ==
    /\ TypeOK
    /\ Boundary
    /\ OwedInWindow
    /\ OnlyEligibleAreRouted
    /\ EpochWindow
    /\ EpochLeavesNoGap
    /\ BudgetIsKept
    /\ HistoryIsExact

-----------------------------------------------------------------------------
(* A page of a set that is not empty is not empty.                         *)
LEMMA PageIsNotEmpty ==
    ASSUME NEW S, IsFiniteSet(S), IsPage({}, S)
    PROVE  S = {}
  <1>1. Cardinality({}) = 0
    BY FS_EmptySet
  <1>2. PICK limit \in 1..SourceBatch :
          0 = IF Cardinality(S) < limit THEN Cardinality(S) ELSE limit
    BY <1>1 DEF IsPage
  <1>3. Cardinality(S) = 0
    BY <1>2, SizesAssumption
  <1> QED  BY <1>3, FS_EmptySet

(* Routing keeps every delivery there is and makes one for every event of  *)
(* the page.                                                               *)
LEMMA RoutedFacts ==
    ASSUME TypeOK, BudgetIsKept, HistoryIsExact, NEW B \in SUBSET Events,
           delivery' = Routed(B), failures' = failures
    PROVE  /\ delivery' \in [Events -> Deliveries]
           /\ \A e \in Events : delivery[e].state # "NONE" => delivery'[e].state # "NONE"
           /\ \A e \in B : delivery'[e].state # "NONE"
           /\ \A e \in Events :
                delivery'[e].state # "NONE" => delivery[e].state # "NONE" \/ e \in B
           /\ BudgetIsKept'
           /\ HistoryIsExact'
  <1>1. \A e \in Events : delivery[e].state = "NONE" => delivery[e].attempts = 0
    BY DEF BudgetIsKept
  <1>2. [state |-> "WAITING", attempts |-> 0, ready |-> TRUE] \in Deliveries
    BY SizesAssumption DEF Deliveries
  <1>3. delivery' \in [Events -> Deliveries]
    BY <1>2 DEF Routed, TypeOK
  <1>4. BudgetIsKept'
    BY SizesAssumption DEF Routed, BudgetIsKept, TypeOK
  <1>5. HistoryIsExact'
    BY <1>1 DEF Routed, HistoryIsExact, TypeOK
  <1> QED  BY <1>3, <1>4, <1>5 DEF Routed

(* A settled failure gives back a delivery of the right shape.             *)
LEMMA AfterFailureFacts ==
    ASSUME NEW d \in Deliveries, d.state = "CLAIMED"
    PROVE  /\ AfterFailure(d) \in Deliveries
           /\ AfterFailure(d).attempts = d.attempts
           /\ \/ AfterFailure(d).state = "BLOCKED" /\ d.attempts = Budget
              \/ AfterFailure(d).state = "WAITING" /\ d.attempts < Budget
  <1>1. d.attempts \in 0..Budget /\ Budget \in Nat
    BY SizesAssumption DEF Deliveries
  <1>2. CASE d.attempts >= Budget
    <2>1. AfterFailure(d) = [d EXCEPT !.state = "BLOCKED", !.ready = FALSE]
      BY <1>2 DEF AfterFailure
    <2>2. d.attempts = Budget
      BY <1>1, <1>2
    <2> QED  BY <2>1, <2>2 DEF Deliveries
  <1>3. CASE ~(d.attempts >= Budget)
    <2>1. AfterFailure(d) = [d EXCEPT !.state = "WAITING", !.ready = FALSE]
      BY <1>3 DEF AfterFailure
    <2>2. d.attempts < Budget
      BY <1>1, <1>3
    <2> QED  BY <2>1, <2>2 DEF Deliveries
  <1> QED  BY <1>2, <1>3

LEMMA InitIInv == Init => IInv
  <1>1. IsFiniteSet({})
    BY FS_EmptySet
  <1> QED  BY <1>1, SizesAssumption DEF Init, IInv, TypeOK, Deliveries, ClosedEpoch, Boundary,
       OwedInWindow, OnlyEligibleAreRouted, EpochWindow, EpochLeavesNoGap, BudgetIsKept,
       HistoryIsExact, Eligible

LEMMA CommitStep ==
    ASSUME IInv, NEW e \in Events, Commit(e)
    PROVE  IInv'
  <1> USE DEF IInv, TypeOK, Commit, control, discovery
  <1>1. IsFiniteSet(committed')
    BY FS_AddElement
  <1>2. TypeOK'
    BY <1>1
  <1>3. Eligible \subseteq Eligible'
    BY DEF Eligible
  <1> QED  BY <1>2, <1>3 DEF Boundary, OwedInWindow, OnlyEligibleAreRouted, EpochWindow,
       EpochLeavesNoGap, BudgetIsKept, HistoryIsExact

(* Operators change the control row only, and its cutoff only before       *)
(* anything was routed or owed.                                            *)
LEMMA ControlStep ==
    ASSUME IInv, NEW o \in Operators, Prepare(o) \/ Activate(o) \/ SetPaused(o)
    PROVE  IInv'
  <1> USE DEF IInv, TypeOK
  <1>1. UNCHANGED <<committed, forward, epoch, owed, delivery, failures, held>>
    BY DEF Prepare, Activate, SetPaused, controlOthers, discovery
  <1>2. TypeOK'
    <2>1. CASE Prepare(o)
      BY <1>1, <2>1 DEF Prepare
    <2>2. CASE Activate(o)
      BY <1>1, <2>2, SizesAssumption DEF Activate, Current
    <2>3. CASE SetPaused(o)
      <3> DEFINE r == activation.revision + 1
                 z == IF activation.state = "ACTIVE" THEN "PAUSED" ELSE "ACTIVE"
      <3>1. r \in 0..MaxRevision
        BY <2>3, SizesAssumption DEF SetPaused, Current
      <3>2. z \in {"ACTIVE", "PAUSED"}
        OBVIOUS
      <3>3. /\ activation' = [activation EXCEPT !.state = z, !.revision = r]
            /\ view' = [view EXCEPT ![o] = r]
        BY <2>3 DEF SetPaused
      <3> HIDE DEF r, z
      <3> QED  BY <1>1, <3>1, <3>2, <3>3
    <2> QED  BY <2>1, <2>2, <2>3
  <1>3. Boundary'
    <2>1. CASE Prepare(o)
      BY <2>1 DEF Boundary, Prepare
    <2>2. CASE Activate(o)
      BY <2>2, KeysAssumption DEF Boundary, Activate
    <2>3. CASE SetPaused(o)
      <3> DEFINE z == IF activation.state = "ACTIVE" THEN "PAUSED" ELSE "ACTIVE"
      <3>1. z \in {"ACTIVE", "PAUSED"}
        OBVIOUS
      <3>2. activation'.state = z /\ activation'.cutoff = activation.cutoff
        BY <2>3 DEF SetPaused
      <3> HIDE DEF z
      <3> QED  BY <2>3, <3>1, <3>2 DEF Boundary, SetPaused
    <2> QED  BY <2>1, <2>2, <2>3
  <1>4. activation.cutoff # 0 => activation'.cutoff = activation.cutoff
    BY DEF Boundary, Prepare, Activate, SetPaused
  <1>5. OwedInWindow'
    BY <1>1, <1>4 DEF OwedInWindow, Eligible
  <1>6. OnlyEligibleAreRouted'
    BY <1>1, <1>4 DEF OnlyEligibleAreRouted, Eligible
  <1> QED  BY <1>1, <1>2, <1>3, <1>5, <1>6 DEF EpochWindow, EpochLeavesNoGap, BudgetIsKept,
       HistoryIsExact

LEMMA ForwardStep ==
    ASSUME IInv, Forward
    PROVE  IInv'
  <1> USE DEF IInv
  <1>1. PICK B \in SUBSET Eligible :
          /\ \E last \in B : IsGreatest(last, B) /\ forward' = last
          /\ delivery' = Routed(B)
    BY DEF Forward
  <1>2. B \in SUBSET Events
    BY DEF Eligible, TypeOK
  <1>3. UNCHANGED <<committed, activation, view, epoch, owed, failures, held>>
    BY DEF Forward, control
  <1>4. BudgetIsKept' /\ HistoryIsExact'
    BY <1>1, <1>2, <1>3, RoutedFacts
  <1>5. TypeOK'
    BY <1>1, <1>2, <1>3, RoutedFacts DEF TypeOK
  <1>6. OnlyEligibleAreRouted'
    BY <1>1, <1>2, <1>3, RoutedFacts DEF OnlyEligibleAreRouted, Eligible, Forward, Running,
       Boundary
  <1>7. EpochLeavesNoGap'
    BY <1>1, <1>2, <1>3, RoutedFacts DEF EpochLeavesNoGap, TypeOK
  <1> QED  BY <1>3, <1>4, <1>5, <1>6, <1>7 DEF Boundary, OwedInWindow, EpochWindow, Eligible

(* The heart of reconciliation: one page, swept from a point up to which   *)
(* nothing of W is missing, leaves nothing of W missing up to the point it *)
(* reached, and closes the epoch only when it reached all of W.            *)
LEMMA SweepFacts ==
    ASSUME IInv, NEW upper \in Events, NEW sweep \in {0} \cup Events, sweep < upper,
           Sweep(upper, sweep), failures' = failures, NEW W \in SUBSET Eligible,
           \A e \in W : e <= upper,
           \A e \in W : e > sweep \/ delivery[e].state # "NONE"
    PROVE  /\ delivery' \in [Events -> Deliveries]
           /\ BudgetIsKept' /\ HistoryIsExact'
           /\ \A e \in Events :
                delivery'[e].state # "NONE" => delivery[e].state # "NONE" \/ e \in Eligible
           /\ \/ epoch' = ClosedEpoch
              \/ \E last \in Events : /\ last < upper
                                      /\ epoch' = [open |-> TRUE, upper |-> upper, sweep |-> last]
           /\ \A e \in W : \/ delivery'[e].state # "NONE"
                           \/ epoch'.open /\ e > epoch'.sweep
  <1> USE DEF IInv
  <1> DEFINE S == {e \in Eligible : e > sweep /\ e <= upper}
  <1>1. PICK B \in SUBSET Eligible :
          /\ IsPage(B, S)
          /\ delivery' = Routed(B)
          /\ \/ /\ B = {} \/ upper \in B
                /\ epoch' = ClosedEpoch
             \/ /\ upper \notin B
                /\ \E last \in B :
                     /\ IsGreatest(last, B)
                     /\ epoch' = [open |-> TRUE, upper |-> upper, sweep |-> last]
    BY DEF Sweep
  <1>2. B \in SUBSET Events /\ Events \subseteq Nat /\ Eligible \subseteq Events
    BY KeysAssumption DEF Eligible, TypeOK
  <1>3. B \subseteq S /\ \A e \in B : \A d \in S : d < e => d \in B
    BY <1>1 DEF IsPage
  <1>4. /\ delivery' \in [Events -> Deliveries]
        /\ BudgetIsKept' /\ HistoryIsExact'
        /\ \A e \in Events : delivery[e].state # "NONE" => delivery'[e].state # "NONE"
        /\ \A e \in B : delivery'[e].state # "NONE"
        /\ \A e \in Events :
             delivery'[e].state # "NONE" => delivery[e].state # "NONE" \/ e \in B
    BY <1>1, <1>2, RoutedFacts
  <1>5. CASE B = {}
    <2>1. IsFiniteSet(S)
      <3>1. S \subseteq committed /\ IsFiniteSet(committed)
        BY DEF Eligible, TypeOK
      <3> QED  BY <3>1, FS_Subset
    <2>2. S = {}
      BY <1>1, <1>5, <2>1, PageIsNotEmpty
    <2>3. \A e \in W : delivery[e].state # "NONE"
      BY <2>2
    <2>4. epoch' = ClosedEpoch
      BY <1>1, <1>5
    <2> QED  BY <1>2, <1>4, <2>3, <2>4
  <1>6. CASE upper \in B
    <2>1. \A e \in W : e > sweep => e \in B
      BY <1>2, <1>3, <1>6
    <2>2. epoch' = ClosedEpoch
      BY <1>1, <1>6
    <2> QED  BY <1>2, <1>4, <2>1, <2>2
  <1>7. CASE B # {} /\ upper \notin B
    <2>1. PICK last \in B :
            /\ IsGreatest(last, B)
            /\ epoch' = [open |-> TRUE, upper |-> upper, sweep |-> last]
      BY <1>1, <1>7
    <2>2. last \in Events /\ last < upper
      BY <1>2, <1>3, <1>7, <2>1
    <2>3. \A e \in W : e > last \/ e <= sweep \/ e \in B
      BY <1>2, <1>3, <2>1
    <2>4. \A e \in W : e > last \/ delivery'[e].state # "NONE"
      BY <1>2, <1>4, <2>3
    <2>5. epoch'.open /\ epoch'.sweep = last
      BY <2>1
    <2> QED  BY <1>4, <2>1, <2>2, <2>4, <2>5, <1>2
  <1> QED  BY <1>5, <1>6, <1>7

LEMMA ReconcileStep ==
    ASSUME IInv, Reconcile
    PROVE  IInv'
  <1> USE DEF IInv
  <1>1. UNCHANGED <<committed, activation, view, forward, failures, held>>
    BY DEF Reconcile, control
  <1>2. activation.cutoff # 0 /\ Eligible \subseteq Events /\ Events \subseteq Nat
    BY KeysAssumption DEF Reconcile, Running, Boundary, Eligible, TypeOK
  <1>3. Eligible' = Eligible
    BY <1>1 DEF Eligible
  (* Both ways to scan a page meet this.                                   *)
  <1>4. ASSUME NEW upper \in Events, NEW sweep \in {0} \cup Events, sweep < upper,
               Sweep(upper, sweep), owed' \subseteq Eligible,
               \A e \in owed' : e <= upper,
               \A e \in owed' : e > sweep \/ delivery[e].state # "NONE"
        PROVE  IInv'
    <2>1. /\ delivery' \in [Events -> Deliveries]
          /\ BudgetIsKept' /\ HistoryIsExact'
          /\ \A e \in Events :
               delivery'[e].state # "NONE" => delivery[e].state # "NONE" \/ e \in Eligible
          /\ \/ epoch' = ClosedEpoch
             \/ \E last \in Events :
                  /\ last < upper
                  /\ epoch' = [open |-> TRUE, upper |-> upper, sweep |-> last]
          /\ \A e \in owed' : \/ delivery'[e].state # "NONE"
                              \/ epoch'.open /\ e > epoch'.sweep
      <3> DEFINE W == owed'
      <3>1. W \in SUBSET Eligible /\ \A e \in W : e <= upper
        BY <1>4
      <3>2. \A e \in W : e > sweep \/ delivery[e].state # "NONE"
        BY <1>4
      <3> HIDE DEF W
      <3>3. /\ delivery' \in [Events -> Deliveries]
            /\ BudgetIsKept' /\ HistoryIsExact'
            /\ \A e \in Events :
                 delivery'[e].state # "NONE" => delivery[e].state # "NONE" \/ e \in Eligible
            /\ \/ epoch' = ClosedEpoch
               \/ \E last \in Events :
                    /\ last < upper
                    /\ epoch' = [open |-> TRUE, upper |-> upper, sweep |-> last]
            /\ \A e \in W : \/ delivery'[e].state # "NONE"
                            \/ epoch'.open /\ e > epoch'.sweep
        BY <1>1, <1>4, <3>1, <3>2, SweepFacts
      <3> QED  BY <3>3 DEF W
    <2>2. /\ epoch' \in [open : BOOLEAN, upper : {0} \cup Events, sweep : {0} \cup Events]
          /\ EpochWindow'
          /\ epoch'.open => epoch'.upper = upper
      <3>1. CASE epoch' = ClosedEpoch
        BY <3>1 DEF ClosedEpoch, EpochWindow
      <3>2. ASSUME NEW last \in Events, last < upper,
                   epoch' = [open |-> TRUE, upper |-> upper, sweep |-> last]
            PROVE  /\ epoch' \in [open : BOOLEAN, upper : {0} \cup Events,
                                   sweep : {0} \cup Events]
                   /\ EpochWindow'
                   /\ epoch'.upper = upper
        <4>1. epoch'.open /\ epoch'.upper = upper /\ epoch'.sweep = last /\ upper # 0
          BY <3>2, KeysAssumption
        <4> QED  BY <3>2, <4>1 DEF EpochWindow
      <3> QED  BY <2>1, <3>1, <3>2 DEF ClosedEpoch
    <2>3. TypeOK'
      BY <1>1, <1>2, <1>4, <2>1, <2>2 DEF TypeOK
    <2>4. OwedInWindow'
      BY <1>1, <1>2, <1>3, <1>4, <2>2 DEF OwedInWindow
    <2>5. OnlyEligibleAreRouted'
      BY <1>1, <1>2, <1>3, <2>1 DEF OnlyEligibleAreRouted, Eligible
    <2>6. EpochLeavesNoGap'
      BY <2>1 DEF EpochLeavesNoGap
    <2> QED  BY <1>1, <2>1, <2>2, <2>3, <2>4, <2>5, <2>6 DEF Boundary
  <1>5. CASE OpenEpoch
    <2>1. CASE Eligible = {} /\ UNCHANGED <<epoch, delivery>>
      <3>1. owed' = {}
        BY <1>5, <2>1 DEF OpenEpoch
      <3> QED  BY <1>1, <1>3, <2>1, <3>1 DEF TypeOK, Boundary, OwedInWindow,
               OnlyEligibleAreRouted, EpochWindow, EpochLeavesNoGap, BudgetIsKept,
               HistoryIsExact
    <2>2. ASSUME NEW upper \in Eligible, IsGreatest(upper, Eligible), Sweep(upper, 0)
          PROVE  IInv'
      <3>1. owed' = Eligible /\ \A e \in owed' : e <= upper /\ e > 0
        BY <1>2, <1>5, <2>2, KeysAssumption DEF OpenEpoch, IsGreatest
      <3>2. upper \in Events /\ 0 < upper
        BY <1>2, KeysAssumption
      <3> QED  BY <1>4, <2>2, <3>1, <3>2
    <2> QED  BY <1>5, <2>1, <2>2 DEF OpenEpoch
  <1>6. CASE ContinueEpoch
    <2>1. owed' = owed /\ epoch.open /\ Sweep(epoch.upper, epoch.sweep)
      BY <1>6 DEF ContinueEpoch
    <2>2. epoch.upper \in Events /\ epoch.sweep \in {0} \cup Events /\ epoch.sweep < epoch.upper
      BY <2>1 DEF EpochWindow, TypeOK
    <2>3. owed \subseteq Eligible /\ \A e \in owed : e <= epoch.upper
      BY <2>1 DEF OwedInWindow
    <2>4. \A e \in owed : e > epoch.sweep \/ delivery[e].state # "NONE"
      BY DEF EpochLeavesNoGap
    <2> QED  BY <1>4, <2>1, <2>2, <2>3, <2>4
  <1> QED  BY <1>5, <1>6 DEF Reconcile

(* Publication leaves control and discovery alone, never makes or drops a  *)
(* delivery, and must keep the books of attempts and failures.             *)
LEMMA PublicationFrame ==
    ASSUME IInv, UNCHANGED <<committed, control, discovery>>,
           delivery' \in [Events -> Deliveries], failures' \in [Events -> Nat],
           held' \subseteq Events \X (1..Budget),
           \A e \in Events : (delivery'[e].state = "NONE") <=> (delivery[e].state = "NONE"),
           BudgetIsKept', HistoryIsExact'
    PROVE  IInv'
  <1> USE DEF IInv, control, discovery
  <1>1. TypeOK'
    BY DEF TypeOK
  <1>2. OwedInWindow' /\ Boundary' /\ EpochWindow'
    BY DEF OwedInWindow, Boundary, EpochWindow, Eligible
  <1>3. OnlyEligibleAreRouted'
    BY DEF OnlyEligibleAreRouted, Eligible
  <1>4. EpochLeavesNoGap'
    BY DEF EpochLeavesNoGap, TypeOK
  <1> QED  BY <1>1, <1>2, <1>3, <1>4

LEMMA ClaimStep ==
    ASSUME IInv, NEW S \in SUBSET Events, Claim(S)
    PROVE  IInv'
  <1> USE DEF IInv
  <1>1. \A e \in S : /\ delivery[e].state = "WAITING"
                     /\ delivery[e].attempts \in 0..Budget
                     /\ delivery[e].attempts < Budget
    BY DEF Claim, Due, BudgetIsKept, TypeOK, Deliveries
  <1>2. \A e \in S : delivery[e].attempts + 1 \in 1..Budget
    BY <1>1, SizesAssumption
  <1>3. delivery' \in [Events -> Deliveries]
    BY <1>2, SizesAssumption DEF Claim, TypeOK, Deliveries
  <1>4. held' \subseteq Events \X (1..Budget)
    BY <1>2 DEF Claim, TypeOK
  <1>5. \A e \in Events \ S : delivery'[e] = delivery[e]
    BY DEF Claim
  <1>6. \A e \in S : /\ delivery'[e].state = "CLAIMED"
                     /\ delivery'[e].attempts = delivery[e].attempts + 1
    BY DEF Claim
  <1>7. BudgetIsKept'
    BY <1>1, <1>5, <1>6 DEF BudgetIsKept
  <1>8. HistoryIsExact'
    BY <1>1, <1>5, <1>6 DEF HistoryIsExact, Claim
  <1> QED  BY <1>1, <1>3, <1>4, <1>5, <1>6, <1>7, <1>8, PublicationFrame
           DEF Claim, publicationOthers, TypeOK

LEMMA AcknowledgeStep ==
    ASSUME IInv, NEW e \in Events, NEW n \in 1..Budget, Acknowledge(e, n)
    PROVE  IInv'
  <1> USE DEF IInv
  <1>1. delivery[e].state = "CLAIMED"
    BY DEF Acknowledge, Owns
  <1>2. delivery' \in [Events -> Deliveries]
    BY DEF Acknowledge, TypeOK, Deliveries
  <1>3. \A d \in Events \ {e} : delivery'[d] = delivery[d]
    BY DEF Acknowledge, TypeOK
  <1>4. delivery'[e].state = "QUEUED" /\ delivery'[e].attempts = delivery[e].attempts
    BY DEF Acknowledge, TypeOK, Deliveries
  <1>5. BudgetIsKept'
    BY <1>1, <1>3, <1>4 DEF BudgetIsKept
  <1>6. HistoryIsExact'
    BY <1>1, <1>3, <1>4 DEF HistoryIsExact, Acknowledge
  <1> QED  BY <1>1, <1>2, <1>3, <1>4, <1>5, <1>6, PublicationFrame
           DEF Acknowledge, publicationOthers, TypeOK

(* A failure of any claims S, one failure row each: the publisher's answer *)
(* is the case of one claim, recovery the case of a page of them.          *)
LEMMA FailureStep ==
    ASSUME IInv, NEW S \in SUBSET Events, \A e \in S : delivery[e].state = "CLAIMED",
           delivery' = [e \in Events |-> IF e \in S THEN AfterFailure(delivery[e])
                                                    ELSE delivery[e]],
           failures' = [e \in Events |-> IF e \in S THEN failures[e] + 1 ELSE failures[e]],
           UNCHANGED <<publicationOthers, held>>
    PROVE  IInv'
  <1> USE DEF IInv
  <1>1. \A e \in S :
          /\ delivery'[e] \in Deliveries
          /\ delivery'[e].attempts = delivery[e].attempts
          /\ \/ delivery'[e].state = "BLOCKED" /\ delivery[e].attempts = Budget
             \/ delivery'[e].state = "WAITING" /\ delivery[e].attempts < Budget
    BY AfterFailureFacts DEF TypeOK
  <1>2. \A e \in Events \ S : delivery'[e] = delivery[e] /\ failures'[e] = failures[e]
    OBVIOUS
  <1>3. delivery' \in [Events -> Deliveries] /\ failures' \in [Events -> Nat]
    <2>1. \A e \in Events : (IF e \in S THEN AfterFailure(delivery[e])
                                        ELSE delivery[e]) \in Deliveries
      BY AfterFailureFacts DEF TypeOK
    <2>2. delivery' \in [Events -> Deliveries]
      BY <2>1
    <2> QED  BY <2>2 DEF TypeOK
  <1>4. BudgetIsKept'
    BY <1>1, <1>2 DEF BudgetIsKept
  <1>5. HistoryIsExact'
    BY <1>1, <1>2 DEF HistoryIsExact, TypeOK
  <1> QED  BY <1>1, <1>2, <1>3, <1>4, <1>5, PublicationFrame DEF publicationOthers, TypeOK

LEMMA FailStep ==
    ASSUME IInv, NEW e \in Events, NEW n \in 1..Budget, Fail(e, n)
    PROVE  IInv'
  <1> DEFINE S == {e}
  <1>1. S \in SUBSET Events /\ \A d \in S : delivery[d].state = "CLAIMED"
    BY DEF Fail, Owns
  <1>2. delivery' = [d \in Events |-> IF d \in S THEN AfterFailure(delivery[d])
                                                 ELSE delivery[d]]
    BY DEF Fail, IInv, TypeOK
  <1>3. failures' = [d \in Events |-> IF d \in S THEN failures[d] + 1 ELSE failures[d]]
    BY DEF Fail, IInv, TypeOK
  <1>4. UNCHANGED <<publicationOthers, held>>
    BY DEF Fail
  <1> HIDE DEF S
  <1> QED  BY <1>1, <1>2, <1>3, <1>4, FailureStep

LEMMA RecoverStep ==
    ASSUME IInv, NEW S \in SUBSET Events, Recover(S)
    PROVE  IInv'
  BY FailureStep DEF Recover, Expired

LEMMA TimeStep ==
    ASSUME IInv, NEW e \in Events, TimePasses(e)
    PROVE  IInv'
  <1> USE DEF IInv
  <1>1. \A d \in Events : /\ delivery'[d].state = delivery[d].state
                          /\ delivery'[d].attempts = delivery[d].attempts
    BY DEF TimePasses, TypeOK, Deliveries
  <1>2. delivery' \in [Events -> Deliveries]
    BY DEF TimePasses, TypeOK, Deliveries
  <1>3. BudgetIsKept' /\ HistoryIsExact'
    BY <1>1 DEF BudgetIsKept, HistoryIsExact, TimePasses
  <1> QED  BY <1>1, <1>2, <1>3, PublicationFrame DEF TimePasses, publicationOthers, TypeOK

LEMMA DropStep ==
    ASSUME IInv, NEW e \in Events, NEW n \in 1..Budget, Drop(e, n)
    PROVE  IInv'
  BY PublicationFrame DEF IInv, Drop, publicationOthers, TypeOK, BudgetIsKept, HistoryIsExact

LEMMA Stutter ==
    ASSUME IInv, UNCHANGED vars
    PROVE  IInv'
  BY DEF IInv, vars, control, discovery, TypeOK, Boundary, OwedInWindow, OnlyEligibleAreRouted,
     EpochWindow, EpochLeavesNoGap, BudgetIsKept, HistoryIsExact, Eligible

(* The inductive invariant holds in every reachable state.                 *)
THEOREM Inductive == Spec => []IInv
  <1>1. ASSUME IInv, [Next]_vars PROVE IInv'
    BY <1>1, CommitStep, ControlStep, ForwardStep, ReconcileStep, ClaimStep, AcknowledgeStep,
       FailStep, RecoverStep, TimeStep, DropStep, Stutter DEF Next
  <1> QED  BY InitIInv, <1>1, PTL DEF Spec

(* Every variable keeps its type; the attempts of a delivery never pass    *)
(* the budget.                                                             *)
THEOREM TypeCorrect == Spec => []TypeOK
  BY Inductive, PTL DEF IInv

(* Only committed events at or after the cutoff are routed (the cutoff of  *)
(* outboxRoutingWindow), whatever order events commit in.                  *)
THEOREM RoutingRespectsCutoff == Spec => []OnlyEligibleAreRouted
  BY Inductive, PTL DEF IInv

(* No event that was visible when an epoch opened is missing once the      *)
(* epoch is closed: paging in scan skips nothing, for any page size.       *)
THEOREM ReconciliationIsComplete == Spec => []EpochLeavesNoGap
  BY Inductive, PTL DEF IInv

(* An open epoch always has a window, a closed one keeps no key.           *)
THEOREM WindowIsWellFormed == Spec => []EpochWindow
  BY Inductive, PTL DEF IInv

(* A delivery is blocked exactly when its attempts are used up.            *)
THEOREM BudgetHolds == Spec => []BudgetIsKept
  BY Inductive, PTL DEF IInv

(* settleFailure writes one row per failed attempt, whoever settles it.    *)
THEOREM FailureHistoryIsExact == Spec => []HistoryIsExact
  BY Inductive, PTL DEF IInv

(* Racing operators stamp the cutoff once: the loser finds the revision    *)
(* moved or the row no longer PREPARED.                                    *)
THEOREM CutoffStampedOnce == Spec => CutoffIsFinal
  <1>1. ASSUME IInv, [Next]_vars
        PROVE  activation.cutoff # 0 => activation'.cutoff = activation.cutoff
    <2>1. ASSUME NEW o \in Operators, Prepare(o) \/ Activate(o) \/ SetPaused(o)
          PROVE  activation.cutoff # 0 => activation'.cutoff = activation.cutoff
      <3>1. CASE Prepare(o)
        BY <1>1, <3>1 DEF IInv, TypeOK, Prepare
      <3>2. CASE Activate(o)
        BY <1>1, <3>2 DEF IInv, Boundary, Activate
      <3>3. CASE SetPaused(o)
        BY <1>1, <3>3 DEF IInv, TypeOK, SetPaused
      <3> QED  BY <2>1, <3>1, <3>2, <3>3
    <2>2. \/ UNCHANGED activation
          \/ \E o \in Operators : Prepare(o) \/ Activate(o) \/ SetPaused(o)
      BY <1>1 DEF Next, vars, control, discovery, publicationOthers, Commit, TimePasses, Forward,
         Reconcile, Claim, Recover, Acknowledge, Fail, Drop
    <2> QED  BY <2>1, <2>2
  <1> QED  BY Inductive, <1>1, PTL DEF CutoffIsFinal, Spec

(* What one step does to a delivery.                                       *)
LEMMA DeliverySteps ==
    ASSUME IInv, [Next]_vars, NEW e \in Events
    PROVE  \/ delivery'[e] = delivery[e]
           \/ delivery[e].state = "NONE"
           \/ delivery[e].state = "WAITING"
           \/ /\ delivery[e].state = "CLAIMED"
              /\ \/ delivery[e].ready
                 \/ <<e, delivery[e].attempts>> \in held
                 \/ /\ delivery'[e].state = "CLAIMED"
                    /\ delivery'[e].attempts = delivery[e].attempts
  <1> USE DEF IInv, TypeOK
  <1>1. ASSUME NEW d \in Events, Commit(d) \/ TimePasses(d) PROVE
          \/ delivery'[e] = delivery[e]
          \/ delivery[e].state = "WAITING"
          \/ /\ delivery[e].state = "CLAIMED"
             /\ delivery'[e].state = "CLAIMED"
             /\ delivery'[e].attempts = delivery[e].attempts
    BY <1>1 DEF Commit, TimePasses, Deliveries
  <1>2. ASSUME NEW o \in Operators, Prepare(o) \/ Activate(o) \/ SetPaused(o)
        PROVE  delivery'[e] = delivery[e]
    BY <1>2 DEF Prepare, Activate, SetPaused, controlOthers
  <1>3. CASE Forward \/ Reconcile
    <2>1. ASSUME NEW B, delivery' = Routed(B)
          PROVE  delivery'[e] = delivery[e] \/ delivery[e].state = "NONE"
      BY <2>1 DEF Routed
    <2> QED  BY <1>3, <2>1 DEF Forward, Reconcile, OpenEpoch, ContinueEpoch, Sweep
  <1>4. ASSUME NEW S \in SUBSET Events, Claim(S) \/ Recover(S)
        PROVE  \/ delivery'[e] = delivery[e]
               \/ delivery[e].state = "WAITING"
               \/ delivery[e].state = "CLAIMED" /\ delivery[e].ready
    BY <1>4 DEF Claim, Due, Recover, Expired
  <1>5. ASSUME NEW d \in Events, NEW n \in 1..Budget,
               Acknowledge(d, n) \/ Fail(d, n) \/ Drop(d, n)
        PROVE  \/ delivery'[e] = delivery[e]
               \/ delivery[e].state = "CLAIMED" /\ <<e, delivery[e].attempts>> \in held
    BY <1>5 DEF Acknowledge, Fail, Drop, Owns
  <1>6. CASE UNCHANGED vars
    BY <1>6 DEF vars
  <1> QED  BY <1>1, <1>2, <1>3, <1>4, <1>5, <1>6 DEF Next

(* QUEUED and BLOCKED deliveries stay as they are: no scan, late answer or *)
(* recovery takes one back.                                                *)
THEOREM SettlementIsFinal == Spec => SettledIsFinal
  <1>1. ASSUME IInv, [Next]_vars, NEW e \in Events, delivery[e].state \in {"QUEUED", "BLOCKED"}
        PROVE  delivery'[e] = delivery[e]
    BY <1>1, DeliverySteps
  <1>2. ASSUME IInv, [Next]_vars
        PROVE  \A e \in Events : delivery[e].state \in {"QUEUED", "BLOCKED"} =>
                                     delivery'[e] = delivery[e]
    BY <1>1, <1>2
  <1> QED  BY Inductive, <1>2, PTL DEF SettledIsFinal, Spec

(* Within its lease a claim is settled by the publisher that made it and   *)
(* by nobody else: the fence of acknowledge and settleFailure.             *)
THEOREM LeaseFencesOthers == Spec => LeaseIsExclusive
  <1>1. ASSUME IInv, [Next]_vars, NEW e \in Events,
               delivery[e].state = "CLAIMED", ~delivery[e].ready,
               <<e, delivery[e].attempts>> \notin held
        PROVE  /\ delivery'[e].state = "CLAIMED"
               /\ delivery'[e].attempts = delivery[e].attempts
    BY <1>1, DeliverySteps
  <1>2. ASSUME IInv, [Next]_vars
        PROVE  \A e \in Events :
                 /\ delivery[e].state = "CLAIMED" /\ ~delivery[e].ready
                 /\ <<e, delivery[e].attempts>> \notin held
                 => delivery'[e].state = "CLAIMED" /\ delivery'[e].attempts = delivery[e].attempts
    BY <1>1, <1>2
  <1> QED  BY Inductive, <1>2, PTL DEF LeaseIsExclusive, Spec
=============================================================================
