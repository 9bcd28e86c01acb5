# A TLA+ verification of DSS Universe

DSS Universe is a community platform: a NestJS API over PostgreSQL (Prisma), a
worker process that consumes BullMQ queues, and a Next.js client. Most of the API
is single-transaction CRUD that unit tests cover well. What tests hardly reach is
where several processes, retries and crashes meet: the transactional outbox and
its consumers, the routing of events to gamification, the life of media from
upload to purge, an account and its sessions, the editorial workflow of News, the
points ledger, and drafts saved from several tabs. These are modelled here; the
parts still to come are in the [plan](#plan).

Paths below are relative to the repository. `api/` is `apps/api/src/`, `worker/`
is `apps/worker/src/`.

## Inventory

The modelled parts first. For each: the state it keeps, its operations, what it
talks to, what is hard about it, and what makes it correct.

**Outbox and its dispatch** (`api/core/events`, `api/core/queue`).
*State:* `outbox_events` rows with status, lock (`lockedBy`, `lockedAt`) and
`availableAt`; the local state of each dispatch cycle.
*Operations:* append in a business transaction; a timer's `runOnce`: recover stale
locks, read due candidates, claim each, `queue.add`, publish, or schedule a retry.
*Interacts* with every module that writes an event, and with BullMQ.
*Hard:* `setInterval` starts a cycle while the previous one awaits, every process
has a timer, a reply of `queue.add` may be lost, a claim may be recovered under
the feet of the cycle that holds it.
*Correct when* a row is published only after its job is queued, at most one cycle
settles a row, a cycle that lost its claim settles nothing, and every committed event
is published in the end.

**Integration-event worker and activity projection** (`worker/`, `packages/jobs`).
*State:* BullMQ jobs (attempts, delay, lock), `processed_events` markers, activity
entries. *Operations:* take a job, look for the marker, project, mark, complete;
stalls, retries with a delay, terminal failure.
*Interacts* with the outbox through the queue, with dead letters through the
`failed` event, with the feed through `activity_entries`.
*Hard:* marker lookup, projection and marker are separate statements; a stalled
job runs in a second slot while the first continues; events about one post are
handled in any order.
*Correct when* markers follow effects, completion follows markers, a retraction is
never undone, and every job settles.

**Dead letters and queue operations** (`worker/dead-letter.service.ts`, `worker/main.ts`,
`api/core/queue/services/queue-operations.service.ts`).
*State:* `dead_letter_events` and the dead-letter queue. *Operations:* record on
terminal failure (insert, then copy), an operator's `retryFailed` (retry the job,
then resolve the letters). *Hard:* the record is a promise nobody awaits; the
operator's two steps race with a new failure.
*Correct when* a letter means an exhausted job and a finished job never runs again.

**Gamification routing** (`api/composition/gamification-delivery`).
*State:* an activation row (cutoff, state, revision), a discovery row (forward
coordinate, reconciliation epoch), deliveries with their attempts, leases and
failure history. *Operations:* prepare, activate, pause; forward scan; reconcile;
claim, acknowledge, fail, recover. *Interacts* with the outbox table it reads.
*Hard:* transactions commit out of key order, so the forward coordinate misses
events; publishers answer after their lease; a pause finds deliveries claimed; budget
off by one.
*Correct when* nothing before the cutoff is routed, a completed epoch leaves no gap,
the budget and the failure history are exact, only the lease's holder settles a
delivery, and with a caller everything eligible is routed and settled.

**Media intake and processing** (`api/modules/media`, `worker/media-processing.processor.ts`).
*State:* upload session, media row, the file in temporary storage, jobs, attempts.
*Operations:* delivery (`accept`: check, UPLOADING, save, create, add, COMPLETED)
with compensations; abort; staff rejection, rescan and retry; the worker's attempt
(status, claim, scan, promote, transform, READY, cleanup, failure).
*Hard:* checks on rows read earlier, compensations that fail or come late, two
jobs on one row, crashes between the row and its job.
*Correct when* no PROCESSING row is stranded, the file it needs is kept, decisions
stand, and every accepted upload settles.

**Media retention and media references** (`media-retention.service.ts`,
`prisma-media-library.operations.ts`, profile assets, wall posts, news drafts).
*State:* media rows, their objects on disk, references, the local state of a
cleanup pass and of a worker attempt that writes files. *Operations:* claim in one
Serializable transaction, delete objects, complete or record failure; assign and remove
profile assets; post, tombstone; save a draft; the intake's compensation; transform and
the row writes around it. *Hard:* snapshot reads against concurrent assignment,
rolled-back claims, retries that add variants while the row is claimed, files written
without a look at the row, checks outside the inserting transaction. *Correct when* a
shown asset is never deleted and keeps its objects, deletion is one-way, a closed row
has no object that was there when it was claimed, and unused media is purged.

**Accounts and sessions** (`api/modules/auth`, the recovery and verification workers).
*State:* the user's status, address and `authVersion`; sessions; the second factor and
its recovery codes; one reset and one verification row; mails under way.
*Operations:* login and reactivation with a second factor, refresh, change of password
or e-mail, deactivation, enrolment and removal of the factor, logout, revocation,
request, issue, mail and use of a link. *Interacts* with two mail queues, whose workers
write the link rows. *Hard:* each request reads the account, compares hashes, and
writes later; mail jobs are retried and run out of order; an address changes while its
link is under way. *Correct when* no tokens signed before a change of credentials are
accepted after it, a recovery code works once, a link acts only for the address it was
sent to, and the newest link is the one that works.

**News editorial workflow** (`api/modules/news`, the draft transaction of the
composition layer). *State:* articles with status, version, approved version and date;
search projections; each request's reading; each scheduler cycle's candidates.
*Operations:* create and save a draft, submit, request changes, approve, publish,
schedule, cancel, `publishDue`, the projection backfill. *Interacts* with the outbox
(one announcement per publication). *Hard:* editors act on what they read earlier, one
scheduler per process acts on candidates, a cycle throws halfway, the backfill writes
what it scanned. *Correct when* only the version a review cleared goes live, once and
frozen; search never holds an older text; what is due is published.

**Points and levels** (`api/modules/community-points`, `api/modules/levels`).
*State:* append-only entries and reversals, tombstones of withdrawn sources, processed
events, advisory locks, a rule; the last level transition, and what each running delivery
has read. *Operations:* award, reverse a source, reverse by hand, change the rule, synchronise the level.
*Interacts:* the ledger's events drive the levels. *Hard:* under Read Committed each
statement sees the commits of the moment; events arrive twice and out of order; the
balance is read before the lock under which the level is recorded. *Correct when* the
daily cap holds, withdrawn points stay withdrawn, and the level ends at the balance's.

**Draft autosave** (`packages/editor/src/autosave.ts`, its React hook, comment drafts).
*State:* per tab the pending text, the save in flight, timer, version and phase; the
draft row. *Operations:* edit, flush, reply, failure, unmount; open, restore, discard;
save with a base version. *Hard:* edits during a save, lost replies, requests that
arrive after they were given up, two tabs. *Correct when* a tab never loses what was
typed, nobody's text is replaced unseen, and no older text comes back.

Not modelled yet, but planned: **IAM access groups**, **moderation and blocks**, and
the other ledgers (**reputation, achievements, titles**).

Not modelled, with the reason:

| part | why not |
| --- | --- |
| news delivery, search, pins, taxonomy, links | read paths and single-transaction CRUD |
| activity feed reading, leaderboards, content gates | read-only, decided per request |
| comments, reactions, bookmarks | one transaction each, uniqueness constrained by the database |
| profile, privacy, presence, notification preferences | single-row updates or a cache entry |
| editor documents (validation, rendering), storage keys | pure functions on data, unit-tested |
| AI assistance | one call to an external service, no state |
| composition layer | adapters that make several writers one transaction: one atomic action where used |
| API core, web client, build and scripts | infrastructure, rendering, tooling |

## Modules

| module | what it is | models |
| --- | --- | --- |
| `Outbox` | the dispatch cycles, one action per await | `outbox-dispatcher.service.ts`, `outbox-dispatcher-runner.service.ts`, `outbox-writer.service.ts` |
| `OutboxContract` | what the outbox promises, in three sets | abstract; `Outbox` implements it by the mapping at its end |
| `EventConsumer` | jobs, attempts, markers and projections | `packages/jobs`, `postgres-activity.projector.ts`, `processed-event.store.ts`, worker wiring |
| `DeadLetters` | records of exhausted jobs | `dead-letter.service.ts`, `main.ts`, `queue-operations.service.ts` |
| `EventPipeline` | extends `EventConsumer`, with `Outbox` and `DeadLetters` as instances | the wiring: `queue.add` is a job's arrival, a failure starts a record, an operator's retry ends one |
| `GamificationRouting` | control, discovery and publication | the three Prisma repositories of routing, the outbox source, the migration |
| `MediaProcessing` | one session from intake to a settled row | `accept`, abort, staff services, the worker's processor and store |
| `MediaRetention` | cleanup against everything that uses media | the retention service, the library's claim, the reference writers |
| `AccountAuth` | one account, every request a process with one step per await | `auth.service.ts`, its repositories, the recovery and verification processors |
| `NewsContract` | what publication promises, per article | abstract; `NewsWorkflow` implements it by the mapping at its end |
| `NewsWorkflow` | drafts, decisions, scheduler, search backfill | the news services and repositories, the draft transaction |
| `CommunityPoints` | the ledger of one member under one rule, statement by statement | `prisma-community-points.repository.ts`, `community-points.service.ts` |
| `Levels` | `CommunityPoints` with the consumer that follows its events | `levels.service.ts`, `prisma-levels.repository.ts` |
| `EditorAutosave` | the coordinator of each tab, its host left open | `autosave.ts`, `use-editor-autosave.ts` |
| `CommentDrafts` | `EditorAutosave` with its one real host | `comment-draft-editor.tsx`, the comment draft service and repository |
| `…Proofs` | theorems of the module they are named after and of those it extends: `OutboxProofs`, `EventPipelineProofs` (with `EventConsumer`), `GamificationRoutingProofs`, `MediaProofs` (of `MediaProcessing`, of `MediaRetention`, and of what joins them), `AccountAuthProofs`, `NewsWorkflowProofs`, `LevelsProofs` (with `CommunityPoints`), `CommentDraftsProofs` (with `EditorAutosave`) | |
| `MC…` | small instances for TLC | |

State corresponds to code as each module's VARIABLES comments say: tables become
functions from ids to records of the columns the code's decisions read; a local
variable that lives across an `await` becomes a field of its process (`cycle`,
`slot`, `sweep`, `request`, `worker`). One action is what happens between two awaits, or one
database transaction. PROJECT.json maps each definition to its lines.

Definitions marked *Variant* are plausible bugs (a dropped guard, a missing reset);
no specification uses them. They exist to show that each property can tell them
from the code: with the variant in place of the definition TLC finds the
property violated.

**Two external systems** are modelled by how the code uses them. *BullMQ* keeps a
job under its id so a second add under that id has no effect; runs an attempt
under a lock; gives a job whose lock expired to another slot, up to
`maxStalledCount` times, although the first slot may still run; counts attempts;
delays retries; lets only the lock's holder finish a job. *PostgreSQL* makes
Read Committed statements atomic, re-evaluating a WHERE on the current row; a
Serializable transaction reads a snapshot and is refused at commit when a row
it updates was written since (`MediaRetention`'s `stale` set). In `CommunityPoints` a
transaction is split at its statements, its locks are who is past which statement, and
its writes appear with its last step; where a transaction takes its row lock first (the
account, the article), it is one step.

Abstracted: time (a row is due or not, a lock is stale or not, a lease runs or has
expired), identities, payloads, file contents, counters nobody reads.

## Runs

Every run is exhaustive for its bounds. Deadlock is checked, except where the system
really stops: a settled upload, requests and links used up, articles at the bound of
their versions, unmounted editors.

| run | bounds | shows |
| --- | --- | --- |
| `outbox` | 2 events, 2 overlapping cycles, 3 tokens, batches of 2 | every step, of a cycle that lost its lock too, is a step of `OutboxContract`; every committed event is queued and published |
| `consumer` | a post and its retraction, 2 slots, 2 attempts, 1 stall | markers follow effects, completion follows markers, a retraction stays, every job settles |
| `consumer_retraction` | the same, 1 slot | *violated:* a retraction handled before its post leaves the post visible |
| `pipeline` | 1 event, 1 cycle, 1 slot, 2 attempts, 1 stall | only committed events are handled; a letter means an exhausted job; completed jobs never run again, whatever is added or retried later; a committed event is handled or fails for good |
| `routing` | 2 events, cutoffs at either, 2 operators, 3 revisions (activate, pause, resume), pages of 1, claims of 2, budget 2 | cutoff respected, no gap after an epoch, budget and failure history exact, fenced leases; with a caller everything eligible is routed, no delivery stays claimed, and none waits for ever in a destination that is active |
| `retention` | 1 medium, 2 overlapping passes, 1 worker attempt at a time, a profile slot, a wall post, an article, 1 interrupt | shown assets are kept, READY media has its objects, DELETED media has of those it records only what an attempt wrote after the claim, deletion is one-way, unused due media does not stay |
| `processing_safety` | 1 delivery, its job and a staff job, 2 slots, 2 attempts, 1 crash or lost lock | the source is kept from a second attempt that overlaps the first, the first loss strands no row, decisions stand |
| `processing_liveness` | the same with 1 slot and 1 attempt, an abort, 1 API crash or failing store call | without a fault every accepted upload settles |
| `auth` | 2 requests of any kind, 2 mail jobs of 2 attempts, 2 addresses, 1 recovery code, 2 changes of credentials | usable tokens were signed since the last change, recovery codes work once, links act for their address, the newest works |
| `news` | 2 articles in batches of 1, 2 editors, 2 scheduler processes, 2 versions, 2 failing cycles | every step is a step of `NewsContract`; search is never behind its article; what is due is published |
| `ledger` | 2 events of one day, 2 workers, 1 moderator, a limit of 1 or none, 2 levels, 2 overlapping deliveries of the levels consumer | the cap is kept, withdrawn points stay withdrawn, the level follows the balance unless the last recording was overtaken |
| `drafts` | 2 tabs of 2 edits, a draft created twice | typed text is kept, unmounted editors have saved, only seen text is replaced, no older text comes back |

**Why the bounds are enough.** Two cycles, slots, passes, requests or tabs are needed for
every race here and suffice for it: each property relates one process to one row, and
a third process can only do to the row what the second did. Two events, articles or
keys are needed for order (a batch, a page, a window, a retraction and its
post). Two attempts make the first retry and the last failure different, one stall
makes a job run twice at once; the attempts of the code (5, 3) and BullMQ's stall
limit only lengthen the same path. One crash or fault reaches each hole by itself.
A limit of one is the smallest two awards can exceed. `retention` has one medium because
its safety is proved for any number, and rows meet only in the order of a batch; what
two media would add to its liveness is the starvation named under
[Findings](#findings). One attempt at a time writes files there: it may begin in any
status, end at any point and be followed by the next, and two attempts at a row write the
same files, so that a second one adds no file and no status to what one can leave. Three
revisions are the fewest in which a destination is activated, paused and resumed, two
failing cycles the fewest that could leave each process's running flag set. The safety
properties of every run that passes are also proved for all constants (`SourceIsKept` and
`UnfinishedIsOwned` for sessions with one delivery), so bounds matter only for liveness.
`MaxRevision`, `MaxInterrupts`, `MaxLost`, `MaxFaults`, `MaxChanges`, `MaxVersion`,
`MaxTime`, `MaxFailures`, `MaxEdits` and `MaxDrafts` bound what the code leaves unbounded;
they appear in the guards of the actions they count. At most one draft
save at a time is on its way after its tab gave it up (the guard of `LoseCall`). Two changes of
credentials let a request be overtaken by one and meet the next.

The `ledger` run alone has a state constraint (`OneTransaction` in `MCLevels`): the
interleavings of the ledger's own transactions are explored before the first delivery of
the levels consumer, which sees of them nothing but what has committed; from then on
one of them runs at a time, between the steps of the two deliveries.

**Symmetry** is used only in safety runs: worker slots (`ProcessingSafety.cfg`, `Ledger.cfg`),
deliveries of the levels consumer (`Ledger.cfg`), requests, addresses and codes (`Auth.cfg`), and tabs (`Drafts.cfg`) are interchangeable;
mail jobs and articles are not, their order decides.

## Fairness, and why the code justifies it

- **Outbox.** `OutboxDispatcherRunnerService` arms an interval timer that nothing
  stops short of shutdown, so cycles start and their awaits return (weak fairness of
  each cycle), and time passes. Redis, PostgreSQL or a process may fail any number of
  times but not for ever: if again and again *some* cycle could read, claim, or add
  or publish under its own lock, some day one does (strong fairness of these steps).
- **Consumer.** Attempts advance, BullMQ promotes delayed jobs and finds stalled ones
  (weak). A worker that dies is started again, so a job that can be taken again and
  again is taken (strong). Operators owe nothing.
- **Pipeline.** The two together; nothing is assumed of recording or of operators.
- **Routing.** The repository has the operations and no runner;
  `docs/development/DEBT_007_ROUTING_PROTOCOL.md:148` demands of its caller one
  reconciliation per forward batch. So: Reconcile and Recover are not put off for
  ever (weak), nor is Claim of a delivery that can be claimed again and again (strong).
  Recover is owed while the destination is paused too. Forward, the operators and the
  publishers owe nothing, so a paused destination may never be resumed.
- **Retention.** The configuration schema sets `MEDIA_CLEANUP_INTERVAL_MS` to an hour by
  default; liveness is about a deployment that does not set it to 0. Passes go on
  (weak); a claim of some row is not rolled back, and its objects and completion do not
  fail, for ever (strong). No attempt of the worker owes anything.
- **Processing.** Requests, attempts and staff calls that have begun go on, the queue
  hands out, promotes and checks for stalls (all weak).
- **News.** With `NEWS_SCHEDULER_INTERVAL_MS` set, each process calls `runOnce` for ever and
  a cycle is one chain of awaits: weak fairness of each scheduler. Failing cycles are
  bounded by `MaxFailures`, and editors, authors, the backfill and the clock owe nothing.
- **Accounts, ledger, drafts** have safety properties only. A user who does not come
  back, a mail that does not arrive and an autosave without a timer (finding 9) are
  nobody's fault the code could be held to.

## Proofs

`tlapm` checks every theorem, for any constants that satisfy the named assumptions of
the modules. TLC evaluates those assumptions in each run. Each proof module defines an
inductive invariant `IInv`, proves `Init => IInv` and `IInv /\ [Next]_vars => IInv'`
with one step per action, and takes the theorems from it.

| module | inductive invariant beyond the properties | why it is needed |
| --- | --- | --- |
| `OutboxProofs` | `CarriesClaim`: past its claim a cycle knows its event, at `publish` the event is queued; `DistinctTokens`: no two cycles carry one token | `PublishedIsQueued` needs what a cycle at `publish` has done already; the fence needs that no other cycle passes it |
| `EventPipelineProofs`, the worker alone | `AttemptProgress`: what each attempt has done by each await; `OnlyArrivedAreHandled`: only jobs that arrived are worked on, marked or projected | a marker is written by an attempt that has projected, a job completed by one that has marked, however many attempts overlap |
| `EventPipelineProofs`, the composition | the worker's invariant; the outbox's, again, since a theorem cannot be cited through an instance; `CommittedFirst`: what arrived was committed; `RecordsAreDue`: a letter, a pending insert or copy belongs to a job whose attempts are used up | an event is handled because its job arrived, and the job arrived because a cycle held a committed row; a letter outlives the failure it tells of, so what it says must be stable: attempts are never given back |
| `GamificationRoutingProofs` | `Boundary`: a cutoff exists from activation on and not before; `OwedInWindow`: what an epoch owes is eligible and within its window; `EpochWindow`: its sweep stays within the window | the gap property is about a closed epoch and is carried through the open one page by page |
| `MediaProofs`, processing | `OwnersWork`: the owner of a job is an attempt at it; `AttemptsLeft`, `OneLoss`: a job that may run has attempts and stalls left, and the first loss is one ownerless job or one attempt; `CreatedOnce`, `ReadyIsWritten`; `SourceWhileNeeded`: who may still need the file; `SomebodyInCharge`, `AddedOnce` | what a row says is the word of an attempt several awaits back, which may no longer own its job; that the row has somebody in charge must be carried through each of them, and through the delivery before its job exists |
| `MediaProofs`, the two together | processing's invariant and `WorkHasRow`: jobs, attempts, staff and deliveries work on media that have a row | retention lets an attempt begin in any status of a row, but of a row |
| `MediaProofs`, retention | `ClaimIsFresh`: what a snapshot still says of the rows nobody has written since; `ClaimIsHeld`: what a committed claim holds; `PurgedIsEmpty`; `OpenIsYoung`, `AgedExist`, `AbsentIsUnknown`: which rows may be claimed, undone or worked on at all; `WritesAreKept`: what an attempt has written is there unless its row was claimed | a commit is safe because every row it takes is unchanged, and each assignment changes its row; READY is written two steps after the files it stands for, and by then only a claim can have removed them |
| `AccountAuthProofs` | `VersionsAreDates`: the account's version counts its changes, a session's dates its issue; `RequestsAreSound`: what a request knows by each await; `StoredCodesUnspent`; `JobsAreSound`: what a mail job has behind it; `LinksAreAddressed`: the links that can still act were issued for the present address; `NewestIsStored` | a session created from a version read before a change is harmless because that version dates it; a change of address must leave no link of the old one that could act, although old jobs may still write |
| `NewsWorkflowProofs` | `PublishedAsApproved`: past its review an article has the version that was approved, and it is announced just when it is published; `RequestsAreSound`: a decision was begun from a status it may be taken from; `AbsentIsBlank`, `SourceIsKnown` | the fence of a transition compares status and version with what was read, so a step of the contract follows only with what the current row says of its review |
| `LevelsProofs` | `EventIsHeldAlone`, `DayIsHeldAlone`: whose lock an award holds; `PlaceIsFree`: what its count still says under that lock; `LevelInv`: a running delivery that is not late and handles the last event left has read the present balance | an award pays on the word of a count it took two steps earlier; nothing but the lock of the day keeps that count true. A delivery records what it read before the lock; whatever changes the balance in between leaves an event that is not consumed, or another delivery that makes it late |
| `CommentDraftsProofs` | `NewestIsHeld`: where the newest text of a tab is; `SavingIsRequested`, `PhasesOfATab`; `SentAreOlder`: whatever a tab has sent is no newer than what it is saving; `LateAreBehind`: a given-up save meets an older text of its tab or a later version; `KnownIsSeen`: with the present version a tab has seen the present text | a save compares versions only; that it replaces nothing unseen and nothing newer needs what a version tells about texts |

The theorems:

- *Outbox:* type correctness; `PublishedIsQueued`, `LockedWhileProcessing`, `OneSettler`;
  no step leaves PUBLISHED (`PublishedIsFinal`); `Outbox` implements `OutboxContract`: initial states map to initial states, each step to a
  step or a stutter.
- *EventConsumer:* type correctness, `MarkedIsProjected`, `CompletedIsMarked`,
  `RetractionIsFinal`, whatever sequence of arrivals feeds it.
- *EventPipeline:* type correctness, `OnlyCommittedEventsAreHandled`,
  `LetterMeansExhausted`, `CompletedIsFinal`; every behaviour of the pipeline is one of
  its `Outbox` and one of its `EventConsumer`, so what is proved of each holds in it.
- *GamificationRouting:* type correctness, the cutoff, the gap-free epoch and its window,
  budget, history, a cutoff stamped once, settlement for good, exclusive leases.
- *MediaProcessing:* type correctness, `ReadyIsWritten` and `DecisionIsFinal` for any
  deliveries to a session; `SourceIsKept` and `UnfinishedIsOwned` for one delivery, since
  of two (finding 4) one may remove the file and the job that both use.
- *MediaRetention:* type correctness, `ProfileAssetsAreKept`, `ReadyHasObjects`,
  `PurgeIsComplete`, `DeletionIsOneWay`.
- *The two together:* `ProcessingIsExpected`: every change of a row in `MediaProcessing` is
  one of `Upload`, `Move`, `BecomeReady` (by an attempt whose files are written) and
  `UndoRow` (the compensation, whatever the status), the actions in which retention has
  modelled it, and files appear only from an attempt at its transform that found the
  source. It is a theorem about rows and files; the steps of the sweep are retention's own.
- *AccountAuth:* type correctness, `UsableIsCurrent`, `RecoveryCodeOnce`,
  `LinksProveTheAddress`, `NewestLinkWorks`.
- *NewsWorkflow:* type correctness, `SearchIsCurrent`, `PublishedAsApproved`; it
  implements `NewsContract`: initial states map to initial states, each step to a step
  or a stutter, a cycle's batch included.
- *CommunityPoints and Levels:* type correctness, `DailyCapIsKept`,
  `WithdrawnStaysWithdrawn`, `LevelFollowsBalance`.
- *EditorAutosave and CommentDrafts:* type correctness, `EditIsKept`,
  `UnmountedHasSaved`, `OnlySeenTextIsReplaced`, `NoTextComesBack`.

*Only model-checked:* all liveness (the prover does not treat fairness), and of course the
refuted property.

Proved but stated by no run, because a stronger one is or TLC has confirmed them as
conjuncts of the inductive invariants: type correctness, `PublishedIsQueued`,
`OneSettler`, `LockedWhileProcessing`, `PublishedIsFinal` (the contract implies them),
`PublishedAsApproved` (likewise), `SettledIsFinal`, `EpochWindow`,
`CutoffIsFinal`, `ReadyIsWritten`, and the two theorems that give the pipeline its parts.
`LevelInv`, the lock conjuncts of `LevelsProofs` and `ProcessingIsExpected` are proved only.

Two proof attempts corrected a model. `OnlySeenTextIsReplaced` was not inductive, and with
more edits than the run has it was false. A save that its tab had given up could meet the
draft created after the tab's own was discarded, and the history variable `seen` then
counted the tab as one of the new draft, whose versions it had never read. Now a late save
leaves `seen` at the draft the tab's version belongs to (see finding 10).
`UnfinishedIsOwned` held in its run, where one attempt may be lost, and could not be proved
for more: the second loss of a job is a stall BullMQ no longer forgives. The property now
says that it speaks of the first (finding 13), and a crash, which ends an attempt, and the
loss of a lock, which does not, are two actions.

## Findings

The first is shown by a run TLC refutes:

1. **A retracted post can stay visible** (`consumer_retraction`).
   `retractWallPost` (`worker/postgres-activity.projector.ts:129`) updates an entry that
   exists; handled before its post it changes nothing and is marked processed.

The others were met while modelling. They are one read and one write, or no
interleaving at all, and have no run of their own; the models do what the code does.

2. A terminal failure can go unrecorded: `worker/main.ts:172` neither awaits nor catches
   the record, and skips jobs failed for stalling.
3. A wall image can be deleted under a live post: the check of `user-wall.service.ts:72` and
   the insert are separate transactions.
4. One upload session can make two media: `accept` checks the session read earlier and
   writes UPLOADING without a condition.
5. A news cover is a plain string the cleanup claim does not read, so an aged READY
   cover is purged (`prisma-media-library.operations.ts:149`).
6. Variants written by a failed transform are recorded nowhere, so purge leaves them
   (`local-media-file.processor.ts:81`); `PurgeIsComplete` promises recorded objects only.
7. `abort` overwrites a session that completed meanwhile
   (`media-upload-session.service.ts:100`).
8. The compensation of a failed intake writes FAILED over QUARANTINED or READY
   (`media-binary-upload.service.ts:201`), also when a profile slot already shows the
   media; `DecisionIsFinal`, `EveryUploadSettles` and `ProfileAssetsAreKept` exempt it by
   name.
9. What is typed while a save is in flight gets no timer (`autosave.ts:168`): `schedule()`
   runs before `activeSave` is cleared. It is saved with the next edit or at unmount,
   which is why `UnmountedHasSaved` speaks of unmounted editors. A browser tab that is
    closed runs no cleanup and saves nothing more.
10. A draft discarded and created again counts from version 1, so a tab of the discarded
    one can save over it unseen (`prisma-comment-drafts.repository.ts:63`);
    `OnlySeenTextIsReplaced` spares that tab, also when a save it gave up meets the new draft.
11. An article rescheduled for later between the scheduler's read and its transition is
    published at once (`prisma-news-workflow.repository.ts:168`): the fence has no date.
12. An award that has read its source before the source's reversal commits still pays
    (`prisma-community-points.repository.ts:168`); `Withdrawn` excludes it.
13. A media job that stalls twice (`maxStalledCount` is left at BullMQ's default of one) is
    failed without running, so nothing takes its row out of PROCESSING
    (`media-processing.processor.ts:112` would, in an attempt); the manual retry accepts
    FAILED rows only.
14. An attempt that outlives its lock writes the files of a row that has been claimed or
    marked DELETED since (`local-media-file.processor.ts:76`), and no later pass looks at
    that row; `PurgeIsComplete` says that a DELETED row has nothing else.
15. Of two overlapping deliveries of the levels consumer the one that read the older
    balance may record last (`levels.service.ts:134`): the lock that the documents name is
    taken after the read. `LevelFollowsBalance` spares such a recording (`overtaken`).
    Without that condition TLC refutes it: a delivery reads, the award is reversed, a
    second delivery consumes the reversal, and the first records the balance before it.

Smaller limits seen on the way: as many rows whose objects can never be deleted fill
every cleanup batch; a manual `retryFailed` resolves a letter of the very retry when the
job fails again at once; after the lost reply of a save every retry of the tab conflicts
with its own save. A login compares the password with a hash read at the start
(`auth.service.ts:115`) and signs tokens from a later read (`:305`), so one begun with the
old password may sign at the version of the new one; `UsableIsCurrent` dates tokens by
the second read, and `docs/audits/D3_ACCOUNT_CREDENTIAL_COMMANDS_2026-10-11.md:37` leaves
such races open. The stored hash of a refresh token compares the first 72 bytes, which
tell accounts and not rotations, so `Rotate` models the version of a session's tokens and
no single token.

And limits of the models: files exist or not, so a late attempt that rewrites a file
already there changes nothing; two rows of one session share a temporary file in the code
and not in `MediaRetention`, which is about one intake per row; the retention window is a
day at least (`MEDIA_RETENTION_DAYS` in `api/core/config/validation.schema.ts:69`), so a row
does not age while its intake request runs; the latest level transition is the one written
last, which the code finds by a timestamp of milliseconds.

Properties that hold and say where they stop: `UnfinishedIsOwned` and
`EveryUploadSettles` do not speak of a delivery being undone, of a second lost attempt
(`lost`), nor of an API process that dies between the PROCESSING row and its job or a store
call that fails (`faults`), all of which strand the row. `ProfileAssetsAreKept`,
`PurgeIsComplete` and `LevelFollowsBalance` carry one exemption each, by a history
variable (`undone`, `late`, `overtaken`) that only the steps of findings 8, 14 and 15 set.

## Plan

Order: what loses or duplicates user-visible effects first (done), then authority, then
editorial and social state.

1. *Done:* outbox, consumer, dead letters, pipeline, routing, retention, processing,
   accounts, news, points and levels, comment drafts; proofs of the safety of all of them.
2. *Theorems to come:* `SourceIsKept` of several deliveries, as far as their
   compensations allow; the safety of each new module.
3. *Modules to come:* *AccessGroups* (grants, revocations and the last owner under row
   locks); *Moderation* (reports and their resolution, blocks against follows);
   *Reputation* in front of `CommunityPoints`, so that its events are decided rather than
   given.
   Each new module follows the form of the present ones: constants with named
   assumptions, one action per await or transaction, no recursive operators.

## Running it

    tlc -config Outbox.cfg MCOutbox.tla          # any run: see PROJECT.json
    tlapm OutboxProofs.tla                       # any proof module
