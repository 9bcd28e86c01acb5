---------------------------- MODULE MediaRetention ----------------------------
(***************************************************************************)
(* Retention of media binaries: MediaRetentionService claims old, unused   *)
(* media rows in one Serializable transaction, deletes their objects and   *)
(* closes the rows, while profile assignment, wall posts, news drafts, the *)
(* intake's compensation and the processing worker write the same rows,    *)
(* references and files.  The worker writes the files of a row before, and *)
(* without, the condition on the row's status that its row writes have.    *)
(*                                                                         *)
(* A Serializable transaction is two steps: the snapshot it reads and its  *)
(* commit, refused when a row it updates was physically written since.     *)
(* Read Committed transactions that touch one row first are one step.      *)
(*                                                                         *)
(* MediaProofs extends this module and MediaProcessing, whose names it     *)
(* keeps clear of: its own specification is RetentionSpec.                 *)
(***************************************************************************)
EXTENDS Integers, FiniteSets

CONSTANTS
    Media,          \* media ids, in the order of createdAt
    Sweepers,       \* API processes, each with a retention service
    ProfileSlots,   \* profile asset slots (AVATAR, COVER)
    Posts,          \* wall posts
    Articles,       \* news articles
    Writers,        \* concurrent worker attempts that are in transform or past it
    BatchSize,      \* CLEANUP_BATCH_SIZE
    MaxInterrupts,  \* bound on passes that die or roll back for no conflict
    NoAsset         \* no media

ASSUME MediaAssumption == Media \subseteq Nat /\ NoAsset \notin Media
ASSUME BatchAssumption == BatchSize \in Nat \ {0} /\ MaxInterrupts \in Nat

FileKeys == {"temporary", "original", "variant"}
Purgeable == {"READY", "FAILED", "REJECTED"}
Lifecycle == {"PROCESSING", "QUARANTINED", "DELETING", "DELETED"} \cup Purgeable

Claimed == {"DELETING", "DELETED"}

VARIABLES
    mediaStatus, \* media.status, "ABSENT" before the row exists
    open,        \* media whose intake request (accept) is under way
    undone,      \* rows that the compensation of their intake has marked FAILED
    aged,        \* rows whose createdAt lies before the retention window
    variants,    \* rows that have their media_variants rows
    stored,      \* the objects of a media that are on the disk
    late,        \* history: the objects written since the row was claimed
    writer,      \* where an attempt is between access(source) and its end
    profile,     \* the slot's field and its active reference, one transaction
    post,        \* wall post: NEW, CHECKED, LIVE or TOMBSTONED, and its image
    attached,    \* the active attachment references of an article
    sweep,       \* one pass of runOnce per process
    interrupts

row == <<mediaStatus, variants, stored>>
attempts == <<open, undone, late, writer>>
uses == <<profile, post, attached>>
retentionVars == <<row, attempts, aged, uses, sweep, interrupts>>

NoKeys == [m \in Media |-> {}]
NotWriting == [pc |-> "idle", media |-> NoAsset]
Idle == [pc |-> "IDLE", batch |-> {}, stale |-> {}, keys |-> NoKeys, purged |-> FALSE]

RetentionInit ==
    /\ mediaStatus = [m \in Media |-> "ABSENT"]
    /\ open = {} /\ undone = {} /\ aged = {}
    /\ variants = {}
    /\ stored = NoKeys /\ late = NoKeys
    /\ writer = [w \in Writers |-> NotWriting]
    /\ profile = [slot \in ProfileSlots |-> NoAsset]
    /\ post = [p \in Posts |-> [state |-> "NEW", media |-> NoAsset]]
    /\ attached = [a \in Articles |-> {}]
    /\ sweep = [s \in Sweepers |-> Idle]
    /\ interrupts = 0

-----------------------------------------------------------------------------
(* A physical write of rows M: every open claim sees a newer row version.  *)
Wrote(M) ==
    [s \in Sweepers |->
        IF sweep[s].pc = "CLAIMING"
        THEN [sweep[s] EXCEPT !.stale = @ \cup M]
        ELSE sweep[s]]

(* The claim's predicate on references and profile fields.                 *)
Used(m) ==
    \/ \E slot \in ProfileSlots : profile[slot] = m
    \/ \E p \in Posts : post[p] = [state |-> "LIVE", media |-> m]
    \/ \E a \in Articles : m \in attached[a]

(* Variant: rows already DELETING are not taken up again.                  *)
CandidatesOnce ==
    {m \in Media : mediaStatus[m] \in Purgeable /\ m \in aged /\ ~Used(m)}

Candidates ==
    {m \in Media :
        /\ \/ mediaStatus[m] \in Purgeable /\ m \in aged
           \/ mediaStatus[m] = "DELETING"
        /\ ~Used(m)}

(* The keys a row names: storageKey, metadata.temporaryKey, its variants.  *)
RecordedKeys(m) ==
    {"original", "temporary"} \cup IF m \in variants THEN {"variant"} ELSE {}

-----------------------------------------------------------------------------
(* The life of the row outside retention.                                  *)

(* accept has saved the file and created the row.                          *)
Upload(m) ==
    /\ mediaStatus[m] = "ABSENT"
    /\ mediaStatus' = [mediaStatus EXCEPT ![m] = "PROCESSING"]
    /\ stored' = [stored EXCEPT ![m] = {"temporary"}]
    /\ open' = open \cup {m}
    /\ UNCHANGED <<variants, undone, late, writer, aged, uses, sweep, interrupts>>

(* The compensation of accept: the row becomes FAILED by its id alone, and *)
(* the source goes, in any order and each of them or neither.              *)
UndoRow(m) ==
    /\ m \in open \ undone
    /\ mediaStatus' = [mediaStatus EXCEPT ![m] = "FAILED"]
    /\ undone' = undone \cup {m}
    /\ sweep' = Wrote({m})
    /\ UNCHANGED <<variants, stored, open, late, writer, aged, uses, interrupts>>

DropSource(m) ==
    /\ m \in open
    /\ stored' = [stored EXCEPT ![m] = @ \ {"temporary"}]
    /\ UNCHANGED <<mediaStatus, variants, attempts, aged, uses, sweep, interrupts>>

CloseIntake(m) ==
    /\ m \in open
    /\ open' = open \ {m}
    /\ UNCHANGED <<row, undone, late, writer, aged, uses, sweep, interrupts>>

(* Variant: recordFailedRetryQueueFailure does not look at the status.     *)
QueueFailureFromAny == Lifecycle

(* The WHERE of recordFailedRetryQueueFailure.                             *)
QueueFailureFrom == {"PROCESSING"}

(* The other conditional status writes: markFailed, retry, quarantine,     *)
(* rescan, reject.                                                         *)
Moves ==
    {<<"PROCESSING", "FAILED">>, <<"FAILED", "PROCESSING">>, <<"PROCESSING", "QUARANTINED">>,
     <<"QUARANTINED", "PROCESSING">>, <<"QUARANTINED", "REJECTED">>}
        \cup (QueueFailureFrom \X {"FAILED"})

Move(m) ==
    /\ \E to \in Lifecycle :
           /\ <<mediaStatus[m], to>> \in Moves
           /\ mediaStatus' = [mediaStatus EXCEPT ![m] = to]
    /\ sweep' = Wrote({m})
    /\ UNCHANGED <<variants, stored, attempts, aged, uses, interrupts>>

(* createdAt leaves the window, which is a day or more: no request lasts   *)
(* that long.                                                              *)
Age(m) ==
    /\ mediaStatus[m] # "ABSENT"
    /\ m \notin open \cup aged
    /\ aged' = aged \cup {m}
    /\ UNCHANGED <<row, attempts, uses, sweep, interrupts>>

-----------------------------------------------------------------------------
(* The worker's attempts, from transform on.  An attempt read the status   *)
(* before its scan, and a lost lock does not stop it: it may get here when *)
(* the row is in any state.                                                *)

Proceed(w, pc) == writer' = [writer EXCEPT ![w].pc = pc]

BeginTransform(w, m) ==
    /\ writer[w].pc = "idle"
    /\ mediaStatus[m] # "ABSENT" /\ "temporary" \in stored[m]
    /\ writer' = [writer EXCEPT ![w] = [pc |-> "original", media |-> m]]
    /\ UNCHANGED <<row, open, undone, late, aged, uses, sweep, interrupts>>

(* A file is written, whatever has become of the row.                      *)
WriteObject(w, key) ==
    LET m == writer[w].media IN
    /\ stored' = [stored EXCEPT ![m] = @ \cup {key}]
    /\ late' = IF mediaStatus[m] \in Claimed THEN [late EXCEPT ![m] = @ \cup {key}] ELSE late
    /\ UNCHANGED <<mediaStatus, variants, open, undone, aged, uses, sweep, interrupts>>

WriteOriginal(w) ==
    /\ writer[w].pc = "original"
    /\ Proceed(w, "variant")
    /\ WriteObject(w, "original")

WriteVariants(w) ==
    /\ writer[w].pc = "variant"
    /\ Proceed(w, "ready")
    /\ WriteObject(w, "variant")

(* markReady: only a row that is still PROCESSING.                         *)
BecomeReady(w) ==
    LET m == writer[w].media IN
    /\ writer[w].pc = "ready"
    /\ mediaStatus[m] = "PROCESSING"
    /\ mediaStatus' = [mediaStatus EXCEPT ![m] = "READY"]
    /\ variants' = variants \cup {m}
    /\ Proceed(w, "cleanup")
    /\ sweep' = Wrote({m})
    /\ UNCHANGED <<stored, open, undone, late, aged, uses, interrupts>>

(* cleanupSource, best effort, after the commit.                           *)
RemoveTemporary(w) ==
    /\ writer[w].pc = "cleanup"
    /\ stored' = [stored EXCEPT ![writer[w].media] = @ \ {"temporary"}]
    /\ writer' = [writer EXCEPT ![w] = NotWriting]
    /\ UNCHANGED <<mediaStatus, variants, open, undone, late, aged, uses, sweep, interrupts>>

(* The attempt fails or dies: some of the files may have been written.     *)
(* Its markFailed is a Move, and may come before its last file.            *)
EndAttempt(w) ==
    /\ writer[w].pc # "idle"
    /\ writer' = [writer EXCEPT ![w] = NotWriting]
    /\ UNCHANGED <<row, open, undone, late, aged, uses, sweep, interrupts>>

-----------------------------------------------------------------------------
(* The users of media.                                                     *)

(* Variant: the guard only reads the row, or locks it.                     *)
GuardRead(m) ==
    /\ mediaStatus[m] = "READY"
    /\ UNCHANGED sweep

(* guardReadyPublicProfileMediaForAssignment writes the row without        *)
(* changing it: READY, and a new row version.                              *)
GuardWrite(m) ==
    /\ mediaStatus[m] = "READY"
    /\ sweep' = Wrote({m})

Assign(slot, m) ==
    /\ GuardWrite(m)
    /\ profile' = [profile EXCEPT ![slot] = m]
    /\ UNCHANGED <<row, attempts, aged, post, attached, interrupts>>

Remove(slot) ==
    /\ profile' = [profile EXCEPT ![slot] = NoAsset]
    /\ UNCHANGED <<row, attempts, aged, post, attached, sweep, interrupts>>

(* isAttachableImage, outside the transaction that inserts the reference.  *)
CheckWallImage(p, m) ==
    /\ post[p].state = "NEW"
    /\ mediaStatus[m] = "READY"
    /\ post' = [post EXCEPT ![p] = [state |-> "CHECKED", media |-> m]]
    /\ UNCHANGED <<row, attempts, aged, profile, attached, sweep, interrupts>>

InsertWallPost(p) ==
    /\ post[p].state = "CHECKED"
    /\ post' = [post EXCEPT ![p].state = "LIVE"]
    /\ UNCHANGED <<row, attempts, aged, profile, attached, sweep, interrupts>>

TombstoneWallPost(p) ==
    /\ post[p].state = "LIVE"
    /\ post' = [post EXCEPT ![p].state = "TOMBSTONED"]
    /\ UNCHANGED <<row, attempts, aged, profile, attached, sweep, interrupts>>

(* A draft may attach any media that exists; its coverMediaId is a plain   *)
(* string that no claim looks at.                                          *)
SaveDraft(a, M) ==
    /\ \A m \in M : mediaStatus[m] # "ABSENT"
    /\ attached' = [attached EXCEPT ![a] = M]
    /\ UNCHANGED <<row, attempts, aged, profile, post, sweep, interrupts>>

-----------------------------------------------------------------------------
(* The retention pass.                                                     *)

(* findMany ... orderBy createdAt, take limit.                             *)
OldestOf(M, B) ==
    /\ B \subseteq M
    /\ Cardinality(B) <= BatchSize
    /\ Cardinality(B) = BatchSize \/ B = M
    /\ \A m \in B, n \in M \ B : m < n

StartClaim(s) ==
    /\ sweep[s].pc = "IDLE"
    /\ \E B \in SUBSET Candidates :
           /\ OldestOf(Candidates, B)
           /\ sweep' = [sweep EXCEPT ![s] =
                  [Idle EXCEPT !.pc = "CLAIMING", !.batch = B,
                      !.keys = [m \in Media |-> IF m \in B THEN RecordedKeys(m) ELSE {}]]]
    /\ UNCHANGED <<row, attempts, aged, uses, interrupts>>

(* Variant: Read Committed, the update rechecks the status alone.          *)
NoConflictByStatus(s) ==
    \A m \in sweep[s].batch : mediaStatus[m] \in Purgeable \cup {"DELETING"}

(* No row of the batch has a newer version: every conditional update       *)
(* matches in the snapshot, and the claim commits as a whole.              *)
NoConflict(s) == sweep[s].batch \cap sweep[s].stale = {}

CommitClaim(s) ==
    /\ sweep[s].pc = "CLAIMING"
    /\ NoConflict(s)
    /\ mediaStatus' = [m \in Media |-> IF m \in sweep[s].batch THEN "DELETING" ELSE mediaStatus[m]]
    /\ sweep' = [Wrote(sweep[s].batch) EXCEPT ![s] =
           IF sweep[s].batch = {} THEN Idle
           ELSE [sweep[s] EXCEPT !.pc = "DELETING", !.stale = {}]]
    /\ UNCHANGED <<variants, stored, attempts, aged, uses, interrupts>>

(* Variant: the keys of the rolled-back claim are returned.                *)
RolledBackWithKeys(s) == [sweep[s] EXCEPT !.pc = "DELETING", !.stale = {}]

(* What the process is left with when its claim is rolled back (P2034):    *)
(* an empty batch, whose pass ends at once.                                *)
RolledBack(s) == Idle

ConflictClaim(s) ==
    /\ sweep[s].pc = "CLAIMING"
    /\ ~NoConflict(s)
    /\ sweep' = [sweep EXCEPT ![s] = RolledBack(s)]
    /\ UNCHANGED <<row, attempts, aged, uses, interrupts>>

(* The candidate the loop is at.                                           *)
At(s, m) ==
    /\ sweep[s].pc = "DELETING"
    /\ m \in sweep[s].batch
    /\ \A n \in sweep[s].batch : m <= n

NextCandidate(s, m) ==
    IF sweep[s].batch = {m} THEN Idle
    ELSE [sweep[s] EXCEPT !.batch = @ \ {m}, !.purged = FALSE]

(* storage.delete of every key the claim returned; an absent object is no  *)
(* error.                                                                  *)
DeleteObjects(s, m) ==
    /\ At(s, m)
    /\ ~sweep[s].purged
    /\ stored' = [stored EXCEPT ![m] = @ \ sweep[s].keys[m]]
    /\ late' = [late EXCEPT ![m] = @ \ sweep[s].keys[m]]
    /\ sweep' = [sweep EXCEPT ![s].purged = TRUE]
    /\ UNCHANGED <<mediaStatus, variants, open, undone, writer, aged, uses, interrupts>>

CompleteCleanup(s, m) ==
    /\ At(s, m)
    /\ sweep[s].purged
    /\ mediaStatus' = [mediaStatus EXCEPT ![m] = IF @ = "DELETING" THEN "DELETED" ELSE @]
    /\ sweep' = [Wrote({m}) EXCEPT ![s] = NextCandidate(s, m)]
    /\ UNCHANGED <<variants, stored, attempts, aged, uses, interrupts>>

(* A delete fails after some of the keys, or completeCleanup fails: the    *)
(* failure is audited and the row stays DELETING for a later pass.         *)
FailCandidate(s, m) ==
    /\ At(s, m)
    /\ \E gone \in SUBSET sweep[s].keys[m] :
           /\ stored' = [stored EXCEPT ![m] = @ \ gone]
           /\ late' = [late EXCEPT ![m] = @ \ gone]
    /\ sweep' = [sweep EXCEPT ![s] = NextCandidate(s, m)]
    /\ UNCHANGED <<mediaStatus, variants, open, undone, writer, aged, uses, interrupts>>

(* The process stops, or its transaction fails without a conflict.         *)
Interrupt(s) ==
    /\ sweep[s].pc # "IDLE"
    /\ interrupts < MaxInterrupts
    /\ interrupts' = interrupts + 1
    /\ sweep' = [sweep EXCEPT ![s] = Idle]
    /\ UNCHANGED <<row, attempts, aged, uses>>

-----------------------------------------------------------------------------
Intake(m) == Upload(m) \/ UndoRow(m) \/ DropSource(m) \/ CloseIntake(m)

Writing(w) ==
    \/ \E m \in Media : BeginTransform(w, m)
    \/ WriteOriginal(w) \/ WriteVariants(w) \/ BecomeReady(w)
    \/ RemoveTemporary(w) \/ EndAttempt(w)

Using ==
    \/ \E slot \in ProfileSlots : Remove(slot) \/ \E m \in Media : Assign(slot, m)
    \/ \E p \in Posts : \/ \E m \in Media : CheckWallImage(p, m)
                        \/ InsertWallPost(p)
                        \/ TombstoneWallPost(p)
    \/ \E a \in Articles, M \in SUBSET Media : SaveDraft(a, M)

Sweeping(s) ==
    \/ StartClaim(s) \/ CommitClaim(s) \/ ConflictClaim(s) \/ Interrupt(s)
    \/ \E m \in Media : DeleteObjects(s, m) \/ CompleteCleanup(s, m) \/ FailCandidate(s, m)

RetentionNext ==
    \/ \E m \in Media : Intake(m) \/ Move(m) \/ Age(m)
    \/ \E w \in Writers : Writing(w)
    \/ Using
    \/ \E s \in Sweepers : Sweeping(s)

RetentionSpec == RetentionInit /\ [][RetentionNext]_retentionVars

(* The timer keeps starting passes; neither the contention on a row nor    *)
(* the failures of the storage last for ever.                              *)
RetentionFairness ==
    /\ \A s \in Sweepers : WF_retentionVars(StartClaim(s) \/ CommitClaim(s) \/ ConflictClaim(s))
    /\ \A m \in Media :
           /\ SF_retentionVars(\E s \in Sweepers : CommitClaim(s) /\ m \in sweep[s].batch)
           /\ SF_retentionVars(\E s \in Sweepers : DeleteObjects(s, m))
           /\ SF_retentionVars(\E s \in Sweepers : CompleteCleanup(s, m))

RetentionFairSpec == RetentionSpec /\ RetentionFairness

-----------------------------------------------------------------------------
RetentionTypeOK ==
    /\ mediaStatus \in [Media -> Lifecycle \cup {"ABSENT"}]
    /\ open \subseteq Media /\ undone \subseteq Media /\ aged \subseteq Media
    /\ variants \subseteq Media
    /\ stored \in [Media -> SUBSET FileKeys] /\ late \in [Media -> SUBSET FileKeys]
    /\ writer \in [Writers -> [pc : {"idle", "original", "variant", "ready", "cleanup"},
                               media : Media \cup {NoAsset}]]
    /\ profile \in [ProfileSlots -> Media \cup {NoAsset}]
    /\ post \in [Posts -> [state : {"NEW", "CHECKED", "LIVE", "TOMBSTONED"},
                           media : Media \cup {NoAsset}]]
    /\ attached \in [Articles -> SUBSET Media]
    /\ sweep \in [Sweepers -> [pc : {"IDLE", "CLAIMING", "DELETING"},
                               batch : SUBSET Media, stale : SUBSET Media,
                               keys : [Media -> SUBSET FileKeys], purged : BOOLEAN]]
    /\ interrupts \in 0 .. MaxInterrupts

(* Assignment and cleanup never both win: whatever the order of the        *)
(* assignment, the snapshots and the commits of any number of passes, the  *)
(* media a profile slot shows is neither claimed nor deleted, its objects  *)
(* are on the disk, and it is READY unless the compensation of its intake, *)
(* which looks at no status, has taken it back.                            *)
ProfileAssetsAreKept ==
    \A slot \in ProfileSlots :
        profile[slot] # NoAsset =>
            /\ mediaStatus[profile[slot]] \notin Claimed
            /\ {"original", "variant"} \subseteq stored[profile[slot]]
            /\ mediaStatus[profile[slot]] = "READY" \/ profile[slot] \in undone

(* A pass deletes objects only of rows its committed claim holds: a media  *)
(* that is READY, or became READY again after a rolled-back claim, has all *)
(* its objects.                                                            *)
ReadyHasObjects ==
    \A m \in Media :
        mediaStatus[m] = "READY" => {"original", "variant"} \subseteq stored[m]

(* A row is closed as DELETED only when the objects it names are gone,     *)
(* even if the claim read its keys before a retry added the variants: what *)
(* a DELETED row has on the disk, an attempt wrote after the row had been  *)
(* claimed.                                                                *)
PurgeIsComplete ==
    \A m \in Media :
        mediaStatus[m] = "DELETED" => stored[m] \cap RecordedKeys(m) \subseteq late[m]

(* Deletion is one-way: no retry, quarantine decision or late worker write *)
(* takes a row out of DELETING except to DELETED, and DELETED is final.    *)
DeletionIsOneWay ==
    [][\A m \in Media :
           /\ mediaStatus[m] = "DELETING" => mediaStatus'[m] \in {"DELETING", "DELETED"}
           /\ mediaStatus[m] = "DELETED" => mediaStatus'[m] = "DELETED"]_retentionVars

(* No media stays for ever both unused and due: a claim that was rolled    *)
(* back, or whose objects could not be deleted, is taken up again.         *)
UnusedMediaIsPurged ==
    \A m \in Media :
        []<>~(/\ mediaStatus[m] = "DELETING" \/ (mediaStatus[m] \in Purgeable /\ m \in aged)
              /\ ~Used(m))
=============================================================================
