---------------------------- MODULE NewsWorkflow ----------------------------
(***************************************************************************)
(* The editorial workflow of News: authors save drafts, editors decide,    *)
(* every API process runs a scheduler that publishes due articles, and an  *)
(* operator's backfill repairs search projections, all at once.            *)
(*                                                                         *)
(* A request reads the article, checks it, and later commits one           *)
(* transaction fenced by the status and version it read.  The content is   *)
(* abstracted to its version: saveDraft writes both at once.  Validation,  *)
(* permissions and readiness of media only refuse and are left out.        *)
(***************************************************************************)
EXTENDS Naturals, FiniteSets

CONSTANTS
    Articles,       \* article ids, in their order
    Editors,        \* requests of authors and editors in progress
    Schedulers,     \* API processes, one NewsSchedulerService each
    Limit,          \* publishDue's limit
    MaxVersion,     \* bound on the versions of an article
    MaxTime,        \* bound on the clock
    MaxFailures     \* bound on cycles that die or throw

ASSUME ArticlesAssumption == Articles \subseteq Nat \ {0}
ASSUME BoundsAssumption ==
    /\ Limit \in Nat \ {0}
    /\ MaxVersion \in Nat \ {0}
    /\ MaxTime \in Nat
    /\ MaxFailures \in Nat

VARIABLES
    article,    \* the news_articles rows; 0 stands for a null column
    announced,  \* news.article.published events appended per article
    projection, \* the version of the current-format search projection
    request,    \* what each editor's request read
    cycle,      \* the candidates a scheduler cycle has still to publish
    fill,       \* the source the backfill has scanned
    now, failures

vars == <<article, announced, projection, request, cycle, fill, now, failures>>

Statuses == {"ABSENT", "DRAFT", "IN_REVIEW", "CHANGES_REQUESTED", "APPROVED",
             "SCHEDULED", "PUBLISHED"}
Editable == {"DRAFT", "CHANGES_REQUESTED"}
Actions == {"SUBMITTED", "CHANGES_REQUESTED", "APPROVED", "SCHEDULED",
            "SCHEDULE_CANCELLED", "PUBLISHED"}

Absent == [status |-> "ABSENT", version |-> 0, approved |-> 0, due |-> 0]
Draft == [Absent EXCEPT !.status = "DRAFT", !.version = 1]
NoRequest == [action |-> "NONE", article |-> 0, status |-> "ABSENT", version |-> 0, due |-> 0]
NoCycle == [running |-> FALSE, batch |-> {}]
NoSource == [article |-> 0, version |-> 0]

(* Articles that exist when the projections are introduced have none.      *)
Init ==
    /\ article \in [Articles -> {Absent, Draft}]
    /\ announced = [a \in Articles |-> 0]
    /\ projection = [a \in Articles |-> 0]
    /\ request = [e \in Editors |-> NoRequest]
    /\ cycle = [s \in Schedulers |-> NoCycle]
    /\ fill = NoSource
    /\ now = 0
    /\ failures = 0

-----------------------------------------------------------------------------
(* Drafts.                                                                 *)

CreateDraft(a) ==
    /\ article[a].status = "ABSENT"
    /\ article' = [article EXCEPT ![a] = Draft]
    /\ projection' = [projection EXCEPT ![a] = 1]
    /\ UNCHANGED <<announced, request, cycle, fill, now, failures>>

(* The service's checks; the base version is what the client last saw.     *)
BeginSave(e, a) ==
    /\ request[e] = NoRequest
    /\ article[a].status \in Editable
    /\ \E base \in 1 .. article[a].version :
           request' = [request EXCEPT ![e] =
               [NoRequest EXCEPT !.action = "SAVE", !.article = a, !.version = base]]
    /\ UNCHANGED <<article, announced, projection, cycle, fill, now, failures>>

(* Variant: the status is checked by the service alone.                    *)
MaySaveAnyStatus(a, base) == article[a].version = base

(* The WHERE of saveDraft.                                                 *)
MaySave(a, base) ==
    article[a].version = base /\ article[a].status \in Editable

CommitSave(e) ==
    /\ request[e].action = "SAVE"
    /\ LET a == request[e].article IN
       IF MaySave(a, request[e].version)
       THEN /\ article[a].version < MaxVersion
            /\ article' = [article EXCEPT ![a].version = @ + 1]
            /\ projection' = [projection EXCEPT ![a] = article[a].version + 1]
       ELSE UNCHANGED <<article, projection>>
    /\ request' = [request EXCEPT ![e] = NoRequest]
    /\ UNCHANGED <<announced, cycle, fill, now, failures>>

-----------------------------------------------------------------------------
(* Decisions.                                                              *)

From(action) ==
    CASE action = "SUBMITTED" -> Editable
      [] action \in {"CHANGES_REQUESTED", "APPROVED"} -> {"IN_REVIEW"}
      [] action \in {"PUBLISHED", "SCHEDULED"} -> {"APPROVED"}
      [] action = "SCHEDULE_CANCELLED" -> {"SCHEDULED"}

To(action) ==
    CASE action = "SUBMITTED" -> "IN_REVIEW"
      [] action = "SCHEDULE_CANCELLED" -> "APPROVED"
      [] OTHER -> action

(* What the timestamps of a decision make of approvedVersion.              *)
Approval(row, action, version) ==
    CASE action \in {"SUBMITTED", "CHANGES_REQUESTED"} -> 0
      [] action = "APPROVED" -> version
      [] OTHER -> row.approved

(* What they make of scheduledFor.                                         *)
DueDate(row, action, due) ==
    CASE action = "SCHEDULED" -> due
      [] action \in {"SCHEDULE_CANCELLED", "PUBLISHED"} -> 0
      [] OTHER -> row.due

Decided(row, action, version, due) ==
    [status |-> To(action), version |-> row.version,
     approved |-> Approval(row, action, version), due |-> DueDate(row, action, due)]

(* The service's read and checks; a schedule lies in the future.           *)
BeginDecision(e, a, action) ==
    /\ request[e] = NoRequest
    /\ article[a].status \in From(action)
    /\ action \in {"PUBLISHED", "SCHEDULED"} => article[a].approved = article[a].version
    /\ \E due \in IF action = "SCHEDULED" THEN now + 1 .. MaxTime ELSE {0} :
           request' = [request EXCEPT ![e] =
               [action |-> action, article |-> a, status |-> article[a].status,
                version |-> article[a].version, due |-> due]]
    /\ UNCHANGED <<article, announced, projection, cycle, fill, now, failures>>

(* The WHERE of transition.                                                *)
Fenced(a, action, status, version) ==
    /\ article[a].status = status
    /\ article[a].version = version
    /\ action = "PUBLISHED" => article[a].approved = version

(* transition: one transaction, or null when the article has moved on.     *)
Transition(a, action, status, version, due) ==
    IF Fenced(a, action, status, version)
    THEN /\ article' = [article EXCEPT ![a] = Decided(@, action, version, due)]
         /\ announced' = IF action = "PUBLISHED"
                         THEN [announced EXCEPT ![a] = @ + 1]
                         ELSE announced
    ELSE UNCHANGED <<article, announced>>

CommitDecision(e) ==
    LET r == request[e] IN
    /\ r.action \in Actions
    /\ Transition(r.article, r.action, r.status, r.version, r.due)
    /\ request' = [request EXCEPT ![e] = NoRequest]
    /\ UNCHANGED <<projection, cycle, fill, now, failures>>

-----------------------------------------------------------------------------
(* The scheduler: runOnce, unless a cycle of the process is running.       *)

Due(a) == article[a].status = "SCHEDULED" /\ article[a].due <= now

Candidates == {[article |-> a, version |-> article[a].version, due |-> article[a].due] :
                  a \in {b \in Articles : Due(b)}}

Earlier(c, d) ==
    c.due < d.due \/ (c.due = d.due /\ c.article < d.article)

(* The first Limit candidates in the order of the date, then the id.       *)
Batch == {c \in Candidates : Cardinality({d \in Candidates : Earlier(d, c)}) < Limit}

StartCycle(s) ==
    /\ ~cycle[s].running
    /\ Candidates # {}
    /\ cycle' = [cycle EXCEPT ![s] = [running |-> TRUE, batch |-> Batch]]
    /\ UNCHANGED <<article, announced, projection, request, fill, now, failures>>

PublishNext(s, c) ==
    /\ c \in cycle[s].batch
    /\ \A d \in cycle[s].batch \ {c} : Earlier(c, d)
    /\ Transition(c.article, "PUBLISHED", "SCHEDULED", c.version, 0)
    /\ LET rest == cycle[s].batch \ {c} IN
       cycle' = [cycle EXCEPT ![s] = IF rest = {} THEN NoCycle ELSE [@ EXCEPT !.batch = rest]]
    /\ UNCHANGED <<projection, request, fill, now, failures>>

(* Variant: a cycle that throws leaves `running' set.                      *)
FailCycleStillRunning(s) ==
    /\ cycle[s].running
    /\ failures < MaxFailures
    /\ failures' = failures + 1
    /\ cycle' = [cycle EXCEPT ![s].batch = {}]
    /\ UNCHANGED <<article, announced, projection, request, fill, now>>

(* A transition throws, or the process restarts: the rest of the batch is  *)
(* left to a later cycle, for `running' is reset.                          *)
FailCycle(s) ==
    /\ cycle[s].running
    /\ failures < MaxFailures
    /\ failures' = failures + 1
    /\ cycle' = [cycle EXCEPT ![s] = NoCycle]
    /\ UNCHANGED <<article, announced, projection, request, fill, now>>

-----------------------------------------------------------------------------
(* The search backfill.                                                    *)

Scan(a) ==
    /\ fill = NoSource
    /\ article[a].status # "ABSENT"
    /\ projection[a] # article[a].version
    /\ fill' = [article |-> a, version |-> article[a].version]
    /\ UNCHANGED <<article, announced, projection, request, cycle, now, failures>>

(* Variant: the projection scanned is installed whatever came since.       *)
StillSourceAny(a, version) == TRUE

(* The article still has the version and document that were scanned.       *)
StillSource(a, version) == article[a].version = version

Install ==
    /\ fill # NoSource
    /\ projection' =
           IF StillSource(fill.article, fill.version)
           THEN [projection EXCEPT ![fill.article] = fill.version]
           ELSE projection
    /\ fill' = NoSource
    /\ UNCHANGED <<article, announced, request, cycle, now, failures>>

Tick ==
    /\ now < MaxTime
    /\ now' = now + 1
    /\ UNCHANGED <<article, announced, projection, request, cycle, fill, failures>>

-----------------------------------------------------------------------------
Requesting(e) ==
    \/ \E a \in Articles : BeginSave(e, a) \/ \E d \in Actions : BeginDecision(e, a, d)
    \/ CommitSave(e) \/ CommitDecision(e)

Cycling(s) ==
    \/ StartCycle(s)
    \/ \E c \in cycle[s].batch : PublishNext(s, c)

Next ==
    \/ \E a \in Articles : CreateDraft(a) \/ Scan(a)
    \/ \E e \in Editors : Requesting(e)
    \/ \E s \in Schedulers : Cycling(s) \/ FailCycle(s)
    \/ Install
    \/ Tick

Spec == Init /\ [][Next]_vars

(* The timer of each process keeps calling runOnce, and a cycle that has   *)
(* started goes on: it is one chain of awaits.                             *)
FairSpec == Spec /\ \A s \in Schedulers : WF_vars(Cycling(s))

-----------------------------------------------------------------------------
Versions == 0 .. MaxVersion
Rows == [status : Statuses, version : Versions, approved : Versions, due : 0 .. MaxTime]
CandidateRows == [article : Articles, version : Versions, due : 0 .. MaxTime]

TypeOK ==
    /\ article \in [Articles -> Rows]
    /\ announced \in [Articles -> Nat]
    /\ projection \in [Articles -> Versions]
    /\ request \in [Editors -> [action : Actions \cup {"NONE", "SAVE"},
                                article : Articles \cup {0}, status : Statuses,
                                version : Versions, due : 0 .. MaxTime]]
    /\ cycle \in [Schedulers -> [running : BOOLEAN, batch : SUBSET CandidateRows]]
    /\ fill \in [article : Articles \cup {0}, version : Versions]
    /\ now \in 0 .. MaxTime
    /\ failures \in 0 .. MaxFailures

(* The workflow as NewsContract sees it.                                   *)
Stage(status) ==
    CASE status = "ABSENT" -> "NONE"
      [] status \in Editable -> "OPEN"
      [] status = "IN_REVIEW" -> "REVIEW"
      [] status \in {"APPROVED", "SCHEDULED"} -> "CLEARED"
      [] status = "PUBLISHED" -> "LIVE"

Contract == INSTANCE NewsContract WITH
    stage <- [a \in Articles |-> Stage(article[a].status)],
    content <- [a \in Articles |-> article[a].version],
    cleared <- [a \in Articles |-> article[a].approved]

(* Stale requests and overlapping scheduler cycles never show: only the    *)
(* version a review cleared goes live, it is frozen from then on, and it   *)
(* is announced once.                                                      *)
ImplementsContract == Contract!Spec

(* Search never answers from a text the article no longer has: a draft     *)
(* saved between the backfill's scan and its write keeps its own.          *)
SearchIsCurrent ==
    \A a \in Articles : projection[a] \in {0, article[a].version}

(* A due article does not stay scheduled for ever, although cycles throw,  *)
(* batches are bounded and editors cancel and reschedule.                  *)
DueIsPublished ==
    \A a \in Articles : []<>~Due(a)
=============================================================================
