-------------------------- MODULE NewsWorkflowProofs --------------------------
(***************************************************************************)
(* Proofs about NewsWorkflow for any articles, any number of editors and   *)
(* of overlapping scheduler cycles, any batch size and any bounds: it      *)
(* implements NewsContract, and search never answers from an older text.   *)
(***************************************************************************)
EXTENDS NewsWorkflow, TLAPS

-----------------------------------------------------------------------------
(* A request names an article that existed, and a decision was begun from  *)
(* a status it may be taken from.                                          *)
RequestsAreSound ==
    \A e \in Editors :
        /\ request[e].action # "NONE" => request[e].article \in Articles
        /\ request[e].action \in Actions => request[e].status \in From(request[e].action)

(* The backfill scanned an article.                                        *)
SourceIsKnown == fill # NoSource => fill.article \in Articles

(* A row nobody has created is blank.                                      *)
AbsentIsBlank == \A a \in Articles : article[a].status = "ABSENT" => article[a].approved = 0

(* Past its review an article has the version that was approved, and it    *)
(* is announced when it is published: never before, and not again.         *)
PublishedAsApproved ==
    \A a \in Articles :
        /\ article[a].status \in {"APPROVED", "SCHEDULED", "PUBLISHED"} =>
             article[a].approved = article[a].version
        /\ announced[a] = IF article[a].status = "PUBLISHED" THEN 1 ELSE 0

IInv ==
    /\ TypeOK
    /\ RequestsAreSound
    /\ SourceIsKnown
    /\ AbsentIsBlank
    /\ PublishedAsApproved
    /\ SearchIsCurrent

RequestRows == [action : Actions \cup {"NONE", "SAVE"}, article : Articles \cup {0},
                status : Statuses, version : Versions, due : 0 .. MaxTime]
CycleRows == [running : BOOLEAN, batch : SUBSET CandidateRows]

-----------------------------------------------------------------------------
(* Rows.                                                                   *)
LEMMA RestingTypes ==
    /\ Absent \in Rows /\ Absent.status = "ABSENT" /\ Absent.version = 0 /\ Absent.approved = 0
    /\ Draft \in Rows /\ Draft.status = "DRAFT" /\ Draft.version = 1 /\ Draft.approved = 0
    /\ NoRequest \in RequestRows /\ NoRequest.action = "NONE"
    /\ NoCycle \in CycleRows
    /\ NoSource \in [article : Articles \cup {0}, version : Versions]
    <1>1. 0 \in Versions /\ 1 \in Versions /\ 0 \in 0 .. MaxTime
        BY BoundsAssumption DEF Versions
    <1>2. Absent \in Rows /\ Absent.status = "ABSENT" /\ Absent.version = 0 /\ Absent.approved = 0
        BY <1>1 DEF Absent, Rows, Statuses
    <1>3. Draft \in Rows /\ Draft.status = "DRAFT" /\ Draft.version = 1 /\ Draft.approved = 0
        BY <1>1, <1>2 DEF Draft, Rows, Statuses
    <1>4. NoRequest \in RequestRows /\ NoRequest.action = "NONE"
        BY <1>1 DEF NoRequest, RequestRows, Statuses
    <1>5. NoCycle \in CycleRows /\ NoSource \in [article : Articles \cup {0}, version : Versions]
        BY <1>1 DEF NoCycle, CycleRows, NoSource
    <1> QED  BY <1>2, <1>3, <1>4, <1>5

(* What each decision makes of a status.                                   *)
LEMMA DecisionStatuses ==
    ASSUME NEW action \in Actions
    PROVE  /\ From(action) \subseteq Statuses \ {"ABSENT", "PUBLISHED"}
           /\ To(action) \in Statuses \ {"ABSENT", "DRAFT"}
           /\ action = "SUBMITTED" => From(action) = Editable /\ To(action) = "IN_REVIEW"
           /\ action = "CHANGES_REQUESTED" =>
                From(action) = {"IN_REVIEW"} /\ To(action) = "CHANGES_REQUESTED"
           /\ action = "APPROVED" => From(action) = {"IN_REVIEW"} /\ To(action) = "APPROVED"
           /\ action = "SCHEDULED" => From(action) = {"APPROVED"} /\ To(action) = "SCHEDULED"
           /\ action = "SCHEDULE_CANCELLED" =>
                From(action) = {"SCHEDULED"} /\ To(action) = "APPROVED"
           /\ action = "PUBLISHED" => From(action) = {"APPROVED"} /\ To(action) = "PUBLISHED"
    BY DEF Actions, From, To, Editable, Statuses

(* The row a decision leaves.                                              *)
LEMMA DecidedRow ==
    ASSUME NEW row \in Rows, NEW action \in Actions, NEW version \in Versions,
           NEW due \in 0 .. MaxTime
    PROVE  LET new == Decided(row, action, version, due) IN
           /\ new \in Rows
           /\ new.status = To(action)
           /\ new.version = row.version
           /\ new.approved = IF action \in {"SUBMITTED", "CHANGES_REQUESTED"} THEN 0
                             ELSE IF action = "APPROVED" THEN version ELSE row.approved
    <1>1. To(action) \in Statuses
        BY DecisionStatuses
    <1>2. /\ Approval(row, action, version) \in Versions
          /\ Approval(row, action, version) =
               IF action \in {"SUBMITTED", "CHANGES_REQUESTED"} THEN 0
               ELSE IF action = "APPROVED" THEN version ELSE row.approved
        BY BoundsAssumption DEF Approval, Actions, Rows, Versions
    <1>3. DueDate(row, action, due) \in 0 .. MaxTime
        BY BoundsAssumption DEF DueDate, Actions, Rows
    <1> HIDE DEF Rows
    <1> QED  BY <1>1, <1>2, <1>3 DEF Decided, Rows

-----------------------------------------------------------------------------
(* Drafts.                                                                 *)
LEMMA CreateStep ==
    ASSUME IInv, NEW a \in Articles, CreateDraft(a)
    PROVE  IInv'
    <1> USE DEF IInv
    <1>1. /\ article' = [article EXCEPT ![a] = Draft] /\ projection' = [projection EXCEPT ![a] = 1]
          /\ article[a].status = "ABSENT"
          /\ UNCHANGED <<announced, request, cycle, fill, now, failures>>
        BY DEF CreateDraft
    <1>2. /\ article' \in [Articles -> Rows] /\ projection' \in [Articles -> Versions]
          /\ \A b \in Articles : /\ article'[b] = IF b = a THEN Draft ELSE article[b]
                                 /\ projection'[b] = IF b = a THEN 1 ELSE projection[b]
        BY <1>1, RestingTypes, BoundsAssumption DEF TypeOK, Versions
    <1>3. TypeOK'
        BY <1>1, <1>2 DEF TypeOK
    <1>4. RequestsAreSound' /\ SourceIsKnown'
        BY <1>1 DEF RequestsAreSound, SourceIsKnown
    <1>5. AbsentIsBlank' /\ PublishedAsApproved' /\ SearchIsCurrent'
        BY <1>1, <1>2, RestingTypes DEF AbsentIsBlank, PublishedAsApproved, SearchIsCurrent
    <1> QED  BY <1>3, <1>4, <1>5

(* A request starts, or ends without touching a row.                       *)
LEMMA RequestStep ==
    ASSUME IInv, NEW e \in Editors, NEW q \in RequestRows,
           request' = [request EXCEPT ![e] = q],
           q.action # "NONE" => q.article \in Articles,
           q.action \in Actions => q.status \in From(q.action),
           UNCHANGED <<article, announced, projection, cycle, fill, now, failures>>
    PROVE  IInv'
    <1> USE DEF IInv
    <1>1. /\ request' \in [Editors -> RequestRows]
          /\ \A f \in Editors : request'[f] = IF f = e THEN q ELSE request[f]
        BY DEF TypeOK, RequestRows
    <1>2. TypeOK'
        BY <1>1 DEF TypeOK, RequestRows
    <1>3. RequestsAreSound'
        BY <1>1 DEF RequestsAreSound
    <1>4. SourceIsKnown' /\ AbsentIsBlank' /\ PublishedAsApproved' /\ SearchIsCurrent'
        BY DEF SourceIsKnown, AbsentIsBlank, PublishedAsApproved, SearchIsCurrent
    <1> QED  BY <1>2, <1>3, <1>4

LEMMA BeginStep ==
    ASSUME IInv, NEW e \in Editors, NEW a \in Articles,
           BeginSave(e, a) \/ \E d \in Actions : BeginDecision(e, a, d)
    PROVE  IInv'
    <1>1. /\ article[a] \in Rows /\ article[a].version \in Versions
          /\ article[a].version \in Nat /\ article[a].status \in Statuses
          /\ now \in 0 .. MaxTime
        BY BoundsAssumption DEF IInv, TypeOK, Rows, Versions
    <1>2. CASE BeginSave(e, a)
        <2>1. PICK base \in 1 .. article[a].version :
                request' = [request EXCEPT ![e] =
                    [NoRequest EXCEPT !.action = "SAVE", !.article = a, !.version = base]]
            BY <1>2 DEF BeginSave
        <2>2. base \in Versions
            BY <1>1, BoundsAssumption DEF Versions
        <2> DEFINE q == [NoRequest EXCEPT !.action = "SAVE", !.article = a, !.version = base]
        <2>3. q \in RequestRows /\ q.action = "SAVE" /\ q.article = a
            BY <2>2, RestingTypes DEF RequestRows
        <2>4. request' = [request EXCEPT ![e] = q]
            BY <2>1
        <2> HIDE DEF q
        <2> QED  BY <1>2, <2>3, <2>4, RequestStep DEF BeginSave, Actions
    <1>3. ASSUME NEW d \in Actions, BeginDecision(e, a, d)
          PROVE  IInv'
        <2>1. PICK due \in IF d = "SCHEDULED" THEN now + 1 .. MaxTime ELSE {0} :
                request' = [request EXCEPT ![e] =
                    [action |-> d, article |-> a, status |-> article[a].status,
                     version |-> article[a].version, due |-> due]]
            BY <1>3 DEF BeginDecision
        <2>2. due \in 0 .. MaxTime
            BY <1>1, <2>1, BoundsAssumption
        <2> DEFINE q == [action |-> d, article |-> a, status |-> article[a].status,
                         version |-> article[a].version, due |-> due]
        <2>3. q \in RequestRows /\ q.action = d /\ q.article = a /\ q.status = article[a].status
            BY <1>1, <2>2 DEF RequestRows
        <2>4. request' = [request EXCEPT ![e] = q]
            BY <2>1
        <2> HIDE DEF q
        <2> QED  BY <1>3, <2>3, <2>4, RequestStep DEF BeginDecision
    <1> QED  BY <1>2, <1>3

(* The row that is saved is the one the request has read, and editable.    *)
LEMMA SaveStep ==
    ASSUME IInv, NEW e \in Editors, CommitSave(e)
    PROVE  IInv'
    <1> USE DEF IInv
    <1>1. PICK a \in Articles : a = request[e].article
        BY DEF CommitSave, RequestsAreSound
    <1>2. request' = [request EXCEPT ![e] = NoRequest]
          /\ UNCHANGED <<announced, cycle, fill, now, failures>>
        BY DEF CommitSave
    <1>3. CASE ~MaySave(a, request[e].version)
        BY <1>1, <1>2, <1>3, RestingTypes, RequestStep DEF CommitSave, Actions
    <1>4. CASE MaySave(a, request[e].version)
        <2> DEFINE new == [article[a] EXCEPT !.version = article[a].version + 1]
        <2>1. article[a] \in Rows /\ article[a].version \in Nat /\ article[a].status \in Editable
              /\ article[a].version < MaxVersion
            BY <1>1, <1>4, BoundsAssumption DEF CommitSave, MaySave, TypeOK, Rows, Versions
        <2>2. article[a].version + 1 \in Versions
            BY <2>1, BoundsAssumption DEF Versions
        <2>3. /\ new \in Rows /\ new.status = article[a].status
              /\ new.version = article[a].version + 1
            BY <2>1, <2>2 DEF Rows
        <2>4. /\ article' = [article EXCEPT ![a] = new]
              /\ projection' = [projection EXCEPT ![a] = article[a].version + 1]
            BY <1>1, <1>4 DEF CommitSave
        <2> HIDE DEF new
        <2>5. /\ article' \in [Articles -> Rows] /\ projection' \in [Articles -> Versions]
              /\ \A b \in Articles :
                   /\ article'[b] = IF b = a THEN new ELSE article[b]
                   /\ projection'[b] = IF b = a THEN article[a].version + 1 ELSE projection[b]
            BY <2>2, <2>3, <2>4 DEF TypeOK
        <2>6. request' \in [Editors -> RequestRows] /\ RequestsAreSound'
            BY <1>2, RestingTypes DEF TypeOK, RequestRows, RequestsAreSound, Actions
        <2>7. TypeOK'
            BY <1>2, <2>5, <2>6 DEF TypeOK, RequestRows
        <2>8. AbsentIsBlank' /\ PublishedAsApproved' /\ SearchIsCurrent'
            BY <1>2, <2>1, <2>3, <2>5 DEF AbsentIsBlank, PublishedAsApproved, SearchIsCurrent, Editable, Rows
        <2> QED  BY <1>2, <2>6, <2>7, <2>8 DEF SourceIsKnown
    <1> QED  BY <1>3, <1>4

-----------------------------------------------------------------------------
(* Decisions, of editors and of the scheduler.                             *)

(* What a transition does to the rows, for whoever commits it.             *)
LEMMA TransitionRows ==
    ASSUME IInv, NEW a \in Articles, NEW action \in Actions, NEW status \in Statuses,
           NEW version \in Versions, NEW due \in 0 .. MaxTime,
           status \in From(action) \/ (action = "PUBLISHED" /\ status = "SCHEDULED"),
           Transition(a, action, status, version, due), UNCHANGED projection
    PROVE  /\ article' \in [Articles -> Rows]
           /\ announced' \in [Articles -> Nat]
           /\ AbsentIsBlank'
           /\ PublishedAsApproved'
           /\ SearchIsCurrent'
    <1> USE DEF IInv
    <1>1. CASE ~Fenced(a, action, status, version)
        BY <1>1 DEF Transition, TypeOK, AbsentIsBlank, PublishedAsApproved, SearchIsCurrent
    <1>2. CASE Fenced(a, action, status, version)
        <2> DEFINE new == Decided(article[a], action, version, due)
        <2>1. article[a] \in Rows /\ article[a].status = status /\ article[a].version = version
              /\ (action = "PUBLISHED" => article[a].approved = version)
            BY <1>2 DEF Fenced, TypeOK
        <2>2. /\ new \in Rows /\ new.status = To(action) /\ new.version = version
              /\ new.approved = IF action \in {"SUBMITTED", "CHANGES_REQUESTED"} THEN 0
                                ELSE IF action = "APPROVED" THEN version ELSE article[a].approved
            BY <2>1, DecidedRow
        <2>3. /\ article' = [article EXCEPT ![a] = new]
              /\ announced' = IF action = "PUBLISHED" THEN [announced EXCEPT ![a] = @ + 1]
                              ELSE announced
            BY <1>2 DEF Transition
        <2> HIDE DEF new
        <2>4. /\ article' \in [Articles -> Rows] /\ announced' \in [Articles -> Nat]
              /\ \A b \in Articles :
                   /\ article'[b] = IF b = a THEN new ELSE article[b]
                   /\ announced'[b] = IF b = a /\ action = "PUBLISHED" THEN announced[b] + 1
                                      ELSE announced[b]
            BY <2>2, <2>3 DEF TypeOK
        <2>5. status # "PUBLISHED" /\ announced[a] = 0
            BY <2>1, DecisionStatuses DEF PublishedAsApproved
        <2>6. /\ To(action) \in {"APPROVED", "SCHEDULED", "PUBLISHED"} => new.approved = version
              /\ To(action) = "PUBLISHED" <=> action = "PUBLISHED"
            BY <2>1, <2>2, DecisionStatuses DEF Actions, PublishedAsApproved
        <2>7. PublishedAsApproved'
            BY <2>2, <2>4, <2>5, <2>6 DEF PublishedAsApproved
        <2>8. AbsentIsBlank'
            BY <2>2, <2>4, DecisionStatuses DEF AbsentIsBlank
        <2>9. SearchIsCurrent'
            BY <2>1, <2>2, <2>4 DEF SearchIsCurrent
        <2> QED  BY <2>4, <2>7, <2>8, <2>9
    <1> QED  BY <1>1, <1>2

(* What a decision in progress asks for.                                   *)
LEMMA DecisionFacts ==
    ASSUME IInv, NEW e \in Editors, request[e].action \in Actions
    PROVE  /\ request[e].article \in Articles /\ request[e].status \in Statuses
           /\ request[e].version \in Versions /\ request[e].due \in 0 .. MaxTime
           /\ request[e].status \in From(request[e].action)
    <1>1. request[e] \in RequestRows
        BY DEF IInv, TypeOK, RequestRows
    <1> QED  BY <1>1 DEF IInv, RequestsAreSound, RequestRows, Actions

LEMMA DecisionStep ==
    ASSUME IInv, NEW e \in Editors, CommitDecision(e)
    PROVE  IInv'
    <1>1. /\ request[e].action \in Actions
          /\ Transition(request[e].article, request[e].action, request[e].status,
                        request[e].version, request[e].due)
          /\ request' = [request EXCEPT ![e] = NoRequest]
          /\ UNCHANGED <<projection, cycle, fill, now, failures>>
        BY DEF CommitDecision
    <1>2. /\ article' \in [Articles -> Rows] /\ announced' \in [Articles -> Nat]
          /\ AbsentIsBlank' /\ PublishedAsApproved' /\ SearchIsCurrent'
        BY <1>1, DecisionFacts, TransitionRows
    <1>3. request' \in [Editors -> RequestRows] /\ RequestsAreSound'
        BY <1>1, RestingTypes DEF IInv, TypeOK, RequestRows, RequestsAreSound, Actions
    <1>4. TypeOK' /\ SourceIsKnown'
        BY <1>1, <1>2, <1>3 DEF IInv, TypeOK, RequestRows, SourceIsKnown
    <1> QED  BY <1>2, <1>3, <1>4 DEF IInv

(* The batch of a cycle names articles.                                    *)
LEMMA CandidateTypes ==
    ASSUME IInv
    PROVE  Candidates \subseteq CandidateRows /\ Batch \subseteq CandidateRows
    <1>1. ASSUME NEW a \in Articles
          PROVE  [article |-> a, version |-> article[a].version, due |-> article[a].due]
                     \in CandidateRows
        BY DEF IInv, TypeOK, Rows, CandidateRows
    <1>2. Candidates \subseteq CandidateRows
        BY <1>1 DEF Candidates
    <1> QED  BY <1>2 DEF Batch

LEMMA CycleStep ==
    ASSUME IInv, NEW s \in Schedulers, Cycling(s) \/ FailCycle(s)
    PROVE  IInv'
    <1> USE DEF IInv
    <1>1. cycle \in [Schedulers -> CycleRows] /\ cycle[s] \in CycleRows
        BY DEF TypeOK, CycleRows
    <1>2. ASSUME NEW c \in CycleRows, cycle' = [cycle EXCEPT ![s] = c]
          PROVE  cycle' \in [Schedulers -> CycleRows]
        BY <1>1, <1>2
    <1>3. CASE StartCycle(s)
        <2> DEFINE c == [running |-> TRUE, batch |-> Batch]
        <2>1. c \in CycleRows
            BY CandidateTypes DEF CycleRows
        <2>2. cycle' = [cycle EXCEPT ![s] = c]
            BY <1>3 DEF StartCycle
        <2> HIDE DEF c
        <2>3. TypeOK'
            BY <1>2, <1>3, <2>1, <2>2 DEF StartCycle, TypeOK, CycleRows
        <2> QED  BY <1>3, <2>3
                 DEF StartCycle, RequestsAreSound, SourceIsKnown, AbsentIsBlank, PublishedAsApproved,
                     SearchIsCurrent
    <1>4. CASE FailCycle(s)
        <2>1. cycle' \in [Schedulers -> CycleRows]
            BY <1>2, <1>4, RestingTypes DEF FailCycle
        <2>2. failures' \in 0 .. MaxFailures
            BY <1>4, BoundsAssumption DEF FailCycle, TypeOK
        <2>3. TypeOK'
            BY <1>4, <2>1, <2>2 DEF FailCycle, TypeOK, CycleRows
        <2> QED  BY <1>4, <2>3
                 DEF FailCycle, RequestsAreSound, SourceIsKnown, AbsentIsBlank, PublishedAsApproved,
                     SearchIsCurrent
    <1>5. ASSUME NEW c \in cycle[s].batch, PublishNext(s, c)
          PROVE  IInv'
        <2>1. c.article \in Articles /\ c.version \in Versions
            BY <1>1 DEF CycleRows, CandidateRows
        <2>2. 0 \in 0 .. MaxTime /\ "PUBLISHED" \in Actions /\ "SCHEDULED" \in Statuses
            BY BoundsAssumption DEF Actions, Statuses
        <2>3. /\ article' \in [Articles -> Rows] /\ announced' \in [Articles -> Nat]
              /\ AbsentIsBlank' /\ PublishedAsApproved' /\ SearchIsCurrent'
            BY <1>5, <2>1, <2>2, TransitionRows DEF PublishNext
        <2> DEFINE rest == cycle[s].batch \ {c}
                   next == IF rest = {} THEN NoCycle ELSE [cycle[s] EXCEPT !.batch = rest]
        <2>4. next \in CycleRows
            BY <1>1, RestingTypes DEF CycleRows
        <2>5. cycle' = [cycle EXCEPT ![s] = next]
            BY <1>5 DEF PublishNext
        <2> HIDE DEF next
        <2>6. TypeOK'
            BY <1>2, <1>5, <2>3, <2>4, <2>5 DEF PublishNext, TypeOK, CycleRows
        <2> QED  BY <1>5, <2>3, <2>6 DEF PublishNext, RequestsAreSound, SourceIsKnown
    <1> QED  BY <1>3, <1>4, <1>5 DEF Cycling

-----------------------------------------------------------------------------
(* The backfill: what it installs is what the article has.                 *)
LEMMA FillStep ==
    ASSUME IInv, Install \/ \E a \in Articles : Scan(a)
    PROVE  IInv'
    <1> USE DEF IInv
    <1>1. ASSUME NEW a \in Articles, Scan(a)
          PROVE  IInv'
        <2>1. article[a].version \in Versions
            BY DEF TypeOK, Rows
        <2> DEFINE source == [article |-> a, version |-> article[a].version]
        <2>2. /\ source \in [article : Articles \cup {0}, version : Versions]
              /\ source.article \in Articles
            BY <2>1
        <2>3. fill' = source
            BY <1>1 DEF Scan
        <2> HIDE DEF source
        <2>4. TypeOK'
            BY <1>1, <2>2, <2>3 DEF Scan, TypeOK
        <2> QED  BY <1>1, <2>2, <2>3, <2>4
                 DEF Scan, RequestsAreSound, SourceIsKnown, AbsentIsBlank, PublishedAsApproved, SearchIsCurrent
    <1>2. CASE Install
        <2>1. fill.article \in Articles /\ fill.version \in Versions
            BY <1>2 DEF Install, SourceIsKnown, TypeOK
        <2>2. projection' \in [Articles -> Versions]
            BY <1>2, <2>1 DEF Install, TypeOK
        <2>3. TypeOK'
            BY <1>2, <2>2, RestingTypes DEF Install, TypeOK
        <2>4. SearchIsCurrent'
            BY <1>2, <2>1 DEF Install, StillSource, SearchIsCurrent, TypeOK
        <2> QED  BY <1>2, <2>3, <2>4
                 DEF Install, RequestsAreSound, SourceIsKnown, AbsentIsBlank, PublishedAsApproved
    <1> QED  BY <1>1, <1>2

LEMMA TickStep ==
    ASSUME IInv, Tick
    PROVE  IInv'
    <1>1. now' \in 0 .. MaxTime
        BY BoundsAssumption DEF IInv, Tick, TypeOK
    <1>2. TypeOK'
        BY <1>1 DEF IInv, Tick, TypeOK
    <1> QED  BY <1>2 DEF IInv, Tick, RequestsAreSound, SourceIsKnown, AbsentIsBlank, PublishedAsApproved,
                         SearchIsCurrent

-----------------------------------------------------------------------------
LEMMA InitIInv == Init => IInv
    <1> SUFFICES ASSUME Init PROVE IInv
        OBVIOUS
    <1>1. article \in [Articles -> Rows]
        BY RestingTypes DEF Init
    <1>2. \A a \in Articles : /\ article[a].status \in {"ABSENT", "DRAFT"}
                              /\ article[a].version \in Versions
                              /\ article[a].approved = 0
        BY <1>1, RestingTypes DEF Init, Rows
    <1>3. request \in [Editors -> RequestRows] /\ cycle \in [Schedulers -> CycleRows]
        BY RestingTypes DEF Init
    <1>4. 0 \in Versions /\ 0 \in 0 .. MaxTime /\ 0 \in 0 .. MaxFailures
        BY BoundsAssumption DEF Versions
    <1>5. TypeOK
        BY <1>1, <1>3, <1>4, RestingTypes DEF Init, TypeOK, RequestRows, CycleRows
    <1>6. RequestsAreSound /\ SourceIsKnown
        BY RestingTypes DEF Init, RequestsAreSound, SourceIsKnown, Actions
    <1>7. AbsentIsBlank /\ PublishedAsApproved /\ SearchIsCurrent
        BY <1>2 DEF Init, AbsentIsBlank, PublishedAsApproved, SearchIsCurrent
    <1> QED  BY <1>5, <1>6, <1>7 DEF IInv

(* The inductive invariant holds.                                          *)
THEOREM Inductive == Spec => []IInv
    <1>1. IInv /\ [Next]_vars => IInv'
        <2> SUFFICES ASSUME IInv, [Next]_vars PROVE IInv'
            OBVIOUS
        <2>1. CASE UNCHANGED vars
            BY <2>1 DEF vars, IInv, TypeOK, RequestsAreSound, SourceIsKnown, AbsentIsBlank, PublishedAsApproved,
                        SearchIsCurrent
        <2>2. ASSUME NEW a \in Articles, CreateDraft(a) \/ Scan(a) PROVE IInv'
            BY <2>2, CreateStep, FillStep
        <2>3. ASSUME NEW e \in Editors, Requesting(e) PROVE IInv'
            BY <2>3, BeginStep, SaveStep, DecisionStep DEF Requesting
        <2>4. ASSUME NEW s \in Schedulers, Cycling(s) \/ FailCycle(s) PROVE IInv'
            BY <2>4, CycleStep
        <2> QED  BY <2>1, <2>2, <2>3, <2>4, FillStep, TickStep DEF Next
    <1> QED  BY <1>1, InitIInv, PTL DEF Spec

(* Type correctness.                                                       *)
THEOREM TypeCorrect == Spec => []TypeOK
    BY Inductive, PTL DEF IInv

(* Search never answers from a text the article no longer has.             *)
THEOREM SearchStaysCurrent == Spec => []SearchIsCurrent
    BY Inductive, PTL DEF IInv

(* Whatever is approved, scheduled or published is the version that was    *)
(* approved, and it is announced exactly when it is published: stale       *)
(* requests and overlapping cycles of the scheduler do not add a second    *)
(* news.article.published.                                                 *)
THEOREM PublishedOnce == Spec => []PublishedAsApproved
    BY Inductive, PTL DEF IInv

-----------------------------------------------------------------------------
(* The refinement of NewsContract.                                         *)

LEMMA InitRefines == Init => Contract!Init
    <1> SUFFICES ASSUME Init PROVE Contract!Init
        OBVIOUS
    <1>1. \A a \in Articles : article[a] = Absent \/ article[a] = Draft
        BY DEF Init
    <1>2. Stage("ABSENT") = "NONE" /\ Stage("DRAFT") = "OPEN"
        BY DEF Stage, Editable
    <1> QED  BY <1>1, <1>2, RestingTypes DEF Init, Contract!Init

(* The stages the statuses stand for.                                      *)
LEMMA Stages ==
    /\ Stage("ABSENT") = "NONE"
    /\ \A status \in Editable : Stage(status) = "OPEN"
    /\ Stage("IN_REVIEW") = "REVIEW"
    /\ Stage("APPROVED") = "CLEARED" /\ Stage("SCHEDULED") = "CLEARED"
    /\ Stage("PUBLISHED") = "LIVE"
    BY DEF Stage, Editable

(* A step that changes the row of one article.                             *)
LEMMA RowRefines ==
    ASSUME NEW a \in Articles, NEW new, article \in [Articles -> Rows],
           article' = [article EXCEPT ![a] = new]
    PROVE  /\ [b \in Articles |-> Stage(article'[b].status)] =
                [[b \in Articles |-> Stage(article[b].status)] EXCEPT ![a] = Stage(new.status)]
           /\ [b \in Articles |-> article'[b].version] =
                [[b \in Articles |-> article[b].version] EXCEPT ![a] = new.version]
           /\ [b \in Articles |-> article'[b].approved] =
                [[b \in Articles |-> article[b].approved] EXCEPT ![a] = new.approved]
    OBVIOUS

LEMMA StutterRefines ==
    ASSUME article' = article, announced' = announced
    PROVE  UNCHANGED Contract!vars
    BY DEF Contract!vars

LEMMA CreateRefines ==
    ASSUME IInv, NEW a \in Articles, CreateDraft(a)
    PROVE  Contract!Create(a)
    <1>1. /\ article' = [article EXCEPT ![a] = Draft] /\ announced' = announced
          /\ article[a].status = "ABSENT"
        BY DEF CreateDraft
    <1>2. article[a].approved = 0
        BY <1>1 DEF IInv, AbsentIsBlank
    <1>3. /\ [b \in Articles |-> Stage(article'[b].status)] =
               [[b \in Articles |-> Stage(article[b].status)] EXCEPT ![a] = "OPEN"]
          /\ [b \in Articles |-> article'[b].version] =
               [[b \in Articles |-> article[b].version] EXCEPT ![a] = 1]
          /\ [b \in Articles |-> article'[b].approved] = [b \in Articles |-> article[b].approved]
        BY <1>1, <1>2, RowRefines, RestingTypes, Stages DEF IInv, TypeOK, Editable
    <1> QED  BY <1>1, <1>3, Stages DEF Contract!Create, Contract!Move

LEMMA SaveRefines ==
    ASSUME IInv, NEW e \in Editors, CommitSave(e)
    PROVE  (\E a \in Articles : Contract!Edit(a)) \/ UNCHANGED Contract!vars
    <1>1. PICK a \in Articles : a = request[e].article
        BY DEF CommitSave, IInv, RequestsAreSound
    <1>2. announced' = announced
        BY DEF CommitSave
    <1>3. CASE ~MaySave(a, request[e].version)
        BY <1>1, <1>2, <1>3, StutterRefines DEF CommitSave
    <1>4. CASE MaySave(a, request[e].version)
        <2> DEFINE new == [article[a] EXCEPT !.version = article[a].version + 1]
        <2>1. article \in [Articles -> Rows] /\ article[a] \in Rows /\ article[a].status \in Editable
            BY <1>4 DEF MaySave, IInv, TypeOK
        <2>2. /\ new.status = article[a].status /\ new.version = article[a].version + 1
              /\ new.approved = article[a].approved
            BY <2>1 DEF Rows
        <2>3. article' = [article EXCEPT ![a] = new]
            BY <1>1, <1>4 DEF CommitSave
        <2> HIDE DEF new
        <2>4. /\ [b \in Articles |-> Stage(article'[b].status)] =
                   [b \in Articles |-> Stage(article[b].status)]
              /\ [b \in Articles |-> article'[b].version] =
                   [[b \in Articles |-> article[b].version] EXCEPT ![a] = @ + 1]
              /\ [b \in Articles |-> article'[b].approved] =
                   [b \in Articles |-> article[b].approved]
            BY <2>1, <2>2, <2>3, RowRefines
        <2>5. Stage(article[a].status) = "OPEN"
            BY <2>1, Stages
        <2> QED  BY <1>2, <2>4, <2>5 DEF Contract!Edit
    <1> QED  BY <1>3, <1>4

(* Each decision is the contract's step of its stages; what moves between  *)
(* APPROVED and SCHEDULED stutters.                                        *)
LEMMA TransitionRefines ==
    ASSUME IInv, NEW a \in Articles, NEW action \in Actions, NEW status \in Statuses,
           NEW version \in Versions, NEW due \in 0 .. MaxTime,
           status \in From(action) \/ (action = "PUBLISHED" /\ status = "SCHEDULED"),
           Transition(a, action, status, version, due)
    PROVE  Contract!Next \/ UNCHANGED Contract!vars
    <1>1. CASE ~Fenced(a, action, status, version)
        BY <1>1, StutterRefines DEF Transition
    <1>2. CASE Fenced(a, action, status, version)
        <2> DEFINE new == Decided(article[a], action, version, due)
        <2>1. /\ article \in [Articles -> Rows] /\ article[a] \in Rows
              /\ article[a].status = status /\ article[a].version = version
              /\ (action = "PUBLISHED" => article[a].approved = version)
            BY <1>2 DEF Fenced, IInv, TypeOK
        <2>2. /\ new.status = To(action) /\ new.version = version
              /\ new.approved = IF action \in {"SUBMITTED", "CHANGES_REQUESTED"} THEN 0
                                ELSE IF action = "APPROVED" THEN version ELSE article[a].approved
            BY <2>1, DecidedRow
        <2>3. /\ article' = [article EXCEPT ![a] = new]
              /\ announced' = IF action = "PUBLISHED" THEN [announced EXCEPT ![a] = @ + 1]
                              ELSE announced
            BY <1>2 DEF Transition
        <2> HIDE DEF new
        <2>4. /\ [b \in Articles |-> Stage(article'[b].status)] =
                   [[b \in Articles |-> Stage(article[b].status)] EXCEPT ![a] = Stage(To(action))]
              /\ [b \in Articles |-> article'[b].version] = [b \in Articles |-> article[b].version]
              /\ [b \in Articles |-> article'[b].approved] =
                   [[b \in Articles |-> article[b].approved] EXCEPT ![a] = new.approved]
            BY <2>1, <2>2, <2>3, RowRefines
        <2>5. CASE action = "SUBMITTED"
            <3>1. Contract!Submit(a)
                BY <2>1, <2>2, <2>3, <2>4, <2>5, DecisionStatuses, Stages
                   DEF Contract!Submit, Contract!Move
            <3> QED  BY <3>1 DEF Contract!Next
        <2>6. CASE action = "CHANGES_REQUESTED"
            <3>1. Contract!Return(a)
                BY <2>1, <2>2, <2>3, <2>4, <2>6, DecisionStatuses, Stages
                   DEF Contract!Return, Contract!Move, Editable
            <3> QED  BY <3>1 DEF Contract!Next
        <2>7. CASE action = "APPROVED"
            <3>1. Contract!Clear(a)
                BY <2>1, <2>2, <2>3, <2>4, <2>7, DecisionStatuses, Stages
                   DEF Contract!Clear, Contract!Move
            <3> QED  BY <3>1 DEF Contract!Next
        <2>8. CASE action = "PUBLISHED"
            <3>1. new.approved = article[a].approved
                BY <2>2, <2>8
            <3>2. Contract!Release(a)
                BY <2>1, <2>3, <2>4, <2>8, <3>1, DecisionStatuses, Stages
                   DEF Contract!Release, Contract!Move
            <3> QED  BY <3>2 DEF Contract!Next
        <2>9. CASE action \in {"SCHEDULED", "SCHEDULE_CANCELLED"}
            <3>1. new.approved = article[a].approved
                BY <2>2, <2>9
            <3>2. Stage(To(action)) = "CLEARED" /\ Stage(article[a].status) = "CLEARED"
                BY <2>1, <2>9, DecisionStatuses, Stages
            <3>3. announced' = announced
                BY <2>3, <2>9
            <3> QED  BY <2>4, <3>1, <3>2, <3>3 DEF Contract!vars
        <2> QED  BY <2>5, <2>6, <2>7, <2>8, <2>9 DEF Actions
    <1> QED  BY <1>1, <1>2

(* The workflow implements the contract: whatever stale requests, several  *)
(* schedulers and failing cycles do, only the version a review cleared     *)
(* goes live, it is frozen from then on, and it is announced once.         *)
THEOREM Refinement == Spec => ImplementsContract
    <1>1. IInv /\ [Next]_vars => [Contract!Next]_(Contract!vars)
        <2> SUFFICES ASSUME IInv, [Next]_vars PROVE Contract!Next \/ UNCHANGED Contract!vars
            OBVIOUS
        <2>1. CASE UNCHANGED vars
            BY <2>1, StutterRefines DEF vars
        <2>2. ASSUME NEW a \in Articles, CreateDraft(a)
              PROVE  Contract!Next \/ UNCHANGED Contract!vars
            BY <2>2, CreateRefines DEF Contract!Next
        <2>3. ASSUME NEW e \in Editors, CommitSave(e)
              PROVE  Contract!Next \/ UNCHANGED Contract!vars
            BY <2>3, SaveRefines DEF Contract!Next
        <2>4. ASSUME NEW e \in Editors, CommitDecision(e)
              PROVE  Contract!Next \/ UNCHANGED Contract!vars
            BY <2>4, DecisionFacts, TransitionRefines DEF CommitDecision
        <2>5. ASSUME NEW s \in Schedulers, NEW c \in cycle[s].batch, PublishNext(s, c)
              PROVE  Contract!Next \/ UNCHANGED Contract!vars
            <3>1. c.article \in Articles /\ c.version \in Versions
                BY DEF IInv, TypeOK, CandidateRows
            <3>2. 0 \in 0 .. MaxTime /\ "PUBLISHED" \in Actions /\ "SCHEDULED" \in Statuses
                BY BoundsAssumption DEF Actions, Statuses
            <3> QED  BY <2>5, <3>1, <3>2, TransitionRefines DEF PublishNext
        <2>6. ASSUME \/ \E a \in Articles : Scan(a)
                     \/ \E e \in Editors, a \in Articles :
                            BeginSave(e, a) \/ \E d \in Actions : BeginDecision(e, a, d)
                     \/ \E s \in Schedulers : StartCycle(s) \/ FailCycle(s)
                     \/ Install \/ Tick
              PROVE  UNCHANGED Contract!vars
            BY <2>6, StutterRefines
               DEF Scan, BeginSave, BeginDecision, StartCycle, FailCycle, Install, Tick
        <2> QED  BY <2>1, <2>2, <2>3, <2>4, <2>5, <2>6 DEF Next, Requesting, Cycling
    <1> QED  BY <1>1, InitRefines, Inductive, PTL DEF Spec, ImplementsContract, Contract!Spec
=============================================================================
