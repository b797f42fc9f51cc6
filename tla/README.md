# A TLA+ model of the web3 university platform

The platform sells courses for a token, follows what students watch, and mints a soul-bound
certificate when a course is complete. Several processes share one PostgreSQL database and one
EVM chain: the NestJS API, a media worker, and any number of Go workers. This directory models
the parts of it where steps of several actors meet, checks the models with TLC, and proves the
most important of their properties with TLAPS.

## The system

| | component | state | operations | interacts by |
|---|---|---|---|---|
| A | certificate delivery (`services/worker`: `runner.go`, `outbox.sql`, `certificate.go`) | `OutboxEvent`, `CourseCompletion` rows with leases; each worker's cycle | claim, look for receipts, check, mint, record, retry, fail | rows and RPC; receives jobs from F |
| B | contracts (`packages/contracts/src`) | offers, balances, allowances, purchases, certificates | `buyCourse`, `approve`, `pause`, `configureCourse`, `setCourseStatus`, `mintCertificate` | transactions and logs |
| C | indexers (`services/worker/internal/indexer`) | `ChainCheckpoint`, `PurchaseEvent`, `EntitlementProjection`, `Course.status` | read head, checkpoint and logs; apply a range | logs of B; rows read by D and F |
| D | course workflow (`apps/api/src/courses`, `teachers`) | `Course`, `Lesson` | create, edit, add lesson, submit, review, recover package | published by C's catalog indexer |
| E | media (`apps/api/src/media`, `media-worker`) | `LessonAsset` with version, `MediaProcessJob` with lease | upload session, complete upload; claim, process, complete, fail | object store; D requires READY assets |
| F | learning (`apps/api/src/learning`) | sessions, events, segments, completions | start, heartbeat, confirm document, complete course | reads C's entitlements; writes A's outbox row |
| G | identity and small services (`users`, `auth`, `comments`, `certificates`, `common`) | users, wallets, profile challenges, comments | login, challenge, display name, comments | guards of all API calls |
| H | web application (`apps/web/src`) | per page: reducer state, cached queries, calls in progress | approve, buy, play and report, authorize and swap | the student's wallet, contracts of B, an exchange, HTTP to F and G |
| I | legacy learning service (`learning.service.ts`) | events, ranges, lesson and course completions | record a watched range, progress | the player of H reports to it; writes A's outbox row |
| J | subgraph, shared schemas | | | declarative |

What is hard, and what correctness means:

* **A** Leases expire while calls are under way, a broadcast can succeed without its hash being
  recorded, blocks are reorganised, transactions are forgotten, processes die. Rows that agree; `MINTED` only with
  a final certificate; attempts counted once; every job ends, unless its transaction was forgotten.
* **B** Guards that hold across transactions of many accounts: one purchase per pair, one certificate
  per pair, price and split as quoted.
* **C** Logs are read before they are applied, heads regress, several processes share a checkpoint.
  Tables equal the chain below the overlap; access exactly for confirmed purchases, in the end.
* **D** Check-then-write without a lock. What is published is what was reviewed, with assets READY.
* **E** API calls and workers write the same two rows, under versions and leases. Rows that agree; a lease
  holder that is current; READY only for what was inspected; every job ends once workers stop dying.
* **F** Duplicate and reordered heartbeats, session races, serialisation retries. Coverage only from
  time spent; one completion and one outbox row.
* **G** A wallet row is found and written statement by statement while calls overlap; a challenge is checked
  before the signature and spent after it. A call acts with a wallet of its user, who has one primary
  wallet; a name was signed for, and a challenge gives one name.
* **H** Every `await` of a page is a point where the student clicks again, edits, seeks, reloads or
  switches the account, and where prices, allowances and rates change. A busy page has a call that
  ends its phase; what it confirms has happened, for the wallet it confirms it for; a swap gives what was
  accepted; what is reported as watched was played, or there is one of two causes.
* **I** Concurrent reports delete and create the same rows. Ranges are those of the events; the last two
  lessons complete the course though they complete together.

The full list, line by line, is `hazards` in `PROJECT.json`.

## The modules

| module | models | state and actions |
|---|---|---|
| `CertificateService` | what delivery promises | status of each completion, the set certified on chain |
| `MintJobs` | names shared by outbox and chain | jobs, transaction hashes |
| `MintOutbox` | `outbox.sql` and the store over it | `outbox`, `completion` rows; one operator per statement, both halves of its two UPDATEs |
| `CertificateChain` | `CertificateSBT` and the client that reads it | status and job of each transaction, which are final |
| `CertificateDelivery` | `Runner.RunOnce` of several workers | per worker `pc`, clock reading, batch, job and copies; one action per database or RPC call; composes the two modules above |
| `CertificateDeliveryProofs` | proofs about it | |
| `PurchaseChain` | the chain as the purchase indexer reads it, with `buyCourse`'s one-purchase rule | head, highest head, block of each purchase |
| `PurchaseIndexer` | `PurchaseIndexer.Sync` and `ApplyPurchaseRange` | checkpoint, event and entitlement rows; per indexer step, safe head, first block, logs |
| `PurchaseIndexerProofs` | proofs about it | |
| `CourseMarket` | `CourseMarket.sol`, with the offer of `CourseCatalog` and the balances of `YDToken` that `buyCourse` needs | offer, pause, balances, allowances, the quote of each purchase; one action per function |
| `Checkout` | the checkout page of `app.tsx` and `purchase-machine.ts`; composed with `CourseMarket` | connected account, price shown, reducer state, what each click is doing, the wallet confirmed |
| `CheckoutProofs` | proofs about both, with the sums of prices and shares | |
| `VideoPlayer` | the video handlers of `LearningCourse` in `app.tsx` | video element, `lastSentMs`, `lastObservedMs`, the report in flight; what was played |
| `ProgressRecords` | `learning.service.ts` | event, range and completion rows; what each transaction has read |
| `SwapPage` | `SwapPage.tsx`, `swap-domain.ts` | form, phase, authorization query, what each call is doing; allowance, permit and rates |
| `Accounts` | `auth.guard.ts`, `users.service.ts`, `saveUsername` of the web page | linked subjects, wallet, name and challenge rows, signatures made; what each call is doing |
| `CoverageRanges` | `ranges.ts`: the merge loop, coverage, the 95% rule | functions of sets of ranges, folds where the code loops |
| `CoverageRangesProofs` | what the loop computes | |
| `LearningSessions` | `learning-sessions.service.ts`, `heartbeat-policy.ts` | clock, course and entitlements as projected; session, event, segment and completion rows; what each request is doing |
| `LearningSessionsProofs` | proofs about it | |
| `AssetLifecycle` | what the media service promises | status and version of the asset of each lesson |
| `MediaPipeline` | `media.service.ts`, `addVideo`, `job-store.ts`, `worker.ts`, `processor.ts` | asset and job rows, uploaded and published objects, open URLs; what each call and each worker is doing |
| `MediaPipelineProofs` | proofs about it | |
| `CourseLifecycle` | what the publication of a course promises | its status and what is listed |
| `CatalogChain` | `CourseCatalog` and its event log | events, how many are confirmed |
| `CoursePublishing` | `courses.service.ts`, the administrator's wallet, `catalog.go` and its statements | course and lesson rows, content of the lessons, packages, checkpoint; what each call and each sync is doing |
| `CoursePublishingProofs` | proofs about it | |
| `StudentPages` | the parts of a student side by side: `LearningSessions`, `Checkout`, `VideoPlayer`, `ProgressRecords`, `SwapPage`, `Accounts` | `page` selects the part that moves |
| `StudentPagesProofs` | proofs about the last four of them | |
| `MCCourseCompletion` | an instance of `StudentPages`; compares the merge with its meaning | fewer initial states: the parts that do not move begin in one |
| `MCEarnedCertificate` | from a played lesson to its certificate, side by side: `LearningSessions` and `CertificateDelivery` | `part` selects the one that moves |
| `MCWorkerLoop` | what a worker calls in every cycle side by side: `PurchaseIndexer` and `CertificateDelivery`, with their fairness | `loop` selects the one that moves |
| `MCCourseContent` | the teacher's side: `MediaPipeline` and `CoursePublishing`, with their fairness | `part` selects the one that moves |
| `MCCertificateDelivery`, `MCPurchaseIndexer`, `MCLearningSessions`, `MCMediaPipeline`, `MCCoursePublishing`, `MCCheckout` | model values, symmetry and bounds for TLC | |

*Side by side* means that a behaviour chooses its part at the beginning and keeps it, while the variables of the others do
not change. The behaviours are then the union of those of each part, so a property of a part holds in the
run exactly if it holds of the part alone. Nothing is said of steps of two parts: those that have
shared state (checkout and market; worker and outbox and chain) are composed in modules of their own.

### Certificate delivery

A worker's cycle: `StartCycle` reads the clock once; `ClaimBroadcasts` leases the broadcast jobs it
can; for each, `ReadReceipt`, then `ReadMinted` and `ConfirmMinted` or `RetryReverted`; then
`ClaimMint`, `CheckExisting`, `Reconcile` or `Mint` and `RecordBroadcast`; `Retry` on any error.
Any database or RPC call can fail, and a failed call may have had its effect: a broadcast that
reached the network, a statement that committed. `Crash` puts a worker back at `idle` without what
it held; the restarted process has a new worker id in the code (`config.go:127`) and the old name in
the model, which only makes the leases weaker. Statements of `outbox.sql` test ownership
(`Holds`), never whether the worker's copy is current: that this suffices is the property.

A job has no second certificate because `mintCertificate` refuses one whose key has a token
(`CertificateSBT.sol`), whatever the workers do; that guard is `MintSucceeds`, and no property repeats it. What
the workers can get wrong is the rest: the rows, the attempts, and a job that is left behind.

Abstracted: which job a claim picks among those due (any of them, where the code orders by time),
payload contents, error texts, gas. A token is named by the transaction that minted it. A block
number is only "not yet final" or "final".

### Purchase indexer

`ReadHead`, `LoadCheckpoint`, `ReadLogs`, `ReadHash`, `ApplyPurchaseRange`, each a call of its own;
`Fail` is an error return or the death of the process in between. `Grow` mines a block with any
purchases the contract admits; `Fork` takes the head back, and mines nothing, so that the head a
node answers can be lower than before, as it is with a lagging node.

Abstracted: block hashes, which are stored and never compared; malformed logs; the order of the
statements in the one transaction of `ApplyPurchaseRange`, which is one step; the catalog indexer
that runs before this one in the same cycle.

### Learning sessions

A request authorises itself and reads the clock (`StartSession`, `Heartbeat`, `ConfirmDocument`),
then does its transactions. A start has three steps, since `startSession` is not one transaction:
`OpenSession` replaces the student's active sessions (`READ COMMITTED`, under an advisory lock, so
one step), then `GrantAccess` or `SignReadFails` after the URL was signed. Heartbeats and
confirmations run at level `Serializable`: `Begin` takes the snapshot, then `CommitUncounted`,
`CommitPlayed` or `CommitConfirmation`, or `SerializationFailure` and again `Begin`, or `Fails`.

Only what a snapshot can differ in is remembered of it: which lessons were done (`done`), whether
the course was published (`open`, written by the catalog indexer without `Serializable`), and
whether a commit since then changed rows this transaction reads or writes (`fresh`). PostgreSQL
guarantees that a transaction with `fresh = FALSE` fails; `Invalidate` says which ones those are:
those of the same student after a commit (they read its completions, segments or session), those of the
sessions a start rewrote. The advisory lock is taken inside the transaction, after which the snapshot is already
fixed, so it is not what protects these rows and the model does not rely on it. The mutant
`NotIsolated` shows what happens at a weaker level: two last lessons miss each other.

`LearningSessions` ends where `CertificateDelivery` begins: `courseWallet` is the `CourseCompletion`
row, and its `certificate.mint` row is created in the same step.

Abstracted: the required lessons are fixed and their assets READY, since a published course is not
edited; all videos have one duration; payloads; `progress`, which only reads; a user's login, which
fixes `owner`. Sequence numbers and positions are any within the bounds, one beyond the end included.

### Media pipeline

A call of the API has up to three steps: it reads the asset (`BeginUpload`, `BeginFinalize`,
`BeginRetry`, `BeginAddVideo`), may ask the object store (`CheckUpload`, `Recheck`), and then writes
under the condition that the version is still the one it read (`CreateAsset`, `ReplaceAsset`,
`RejectUpload`, `Enqueue`, `Requeue`); a lost comparison is `DropCall`. The browser writes an object as
long as its URL is open (`Put`), also over one it has written before and after the upload was
declared complete. A worker claims a job in one statement (`Claim`), reads the source (`Download`),
writes the ready object (`PublishReady`) and then records the result in one transaction (`Complete`,
`Fail`), if both rows are still as it needs them (`MayComplete`). A lost lease makes it try to record a
failure, which is refused, and that ends the process (`LeaseLost`, `FailRefused`).
The answer to a committed completion can be lost (`CompleteUnheard`); a worker can die (`Crash`) or
outlive its lease (`LeaseOutlived`).

Abstracted: what inspection makes of the bytes is a property of the file (`Contents`, `wrong`,
`corrupt`); keys are named by the version that made them; the delay before a retry may have passed
at any time; the rule that a course must be DRAFT is looked at when a call reads and not
when it writes, and a course can become DRAFT again, so the model lets a call begin at any time. A video added
by `addVideo` has no job and stays PROCESSING for ever: the exception that `RowsAgree` names.

### Course publishing

No call of the course service is a transaction. Each finds the course in the state it needs
(`BeginUpdate`, `BeginAddLesson`, `BeginMedia`, `BeginSubmit`, `BeginReview`), reads the lessons by another query where it needs
them (`Compose`, `Inspect`), and writes: `submit` and `review` under the status they expect
(`SubmitCourse`, `ApproveCourse`, `RejectCourse`), `update`, `addLesson` and the media calls without
looking again (`UpdateCourse`, `AddLesson`, `ChangeMedia`). The package of an approved course is the row a review read at its
beginning or a later `RecoverPackage`. The administrator signs it as it is or with a mistake
(`Configure`), and may delist and relist any course (`SetStatus`). A sync of the catalog indexer is
`ReadHead`, `LoadCheckpoint`, an `ApplyEvent` for each block and `SaveCheckpoint`; `FailSync` stops it anywhere,
with the events before applied. Reading the events is no step: those of confirmed blocks stay.

The content of lessons is not the media pipeline itself but its promise: `CoursePublishing` uses
`AssetLifecycle`, which `MediaPipeline` is shown to implement.

Abstracted: one course, since the id of a course is part of every hash and of its id on the chain; price, payout wallet
and certificate URI are one value, since they are set, cleared and compared together (the URI is not
compared with the chain, where it is not); a hash is its content; one event in a block.

### Checkout and CourseMarket

A function of the contract is one action, whose guard is what `buyCourse`, the catalog and the two
transfers require; what is refused changes nothing. The page's buttons start a call
(`ApproveExact`, `BuyExact`) with the wallet, and for a purchase the approved amount, of the render that showed
them. The call then awaits the fresh price (`ReadFreshPrice`), the wallet (`Sign`), the receipt (`Mine`),
the contract (`FindAllowance`, `FindPurchase`) and the refetch (`Refetch`). The phase that disables
the buttons is only dispatched after the first of these, so clicks overlap, and the reducer ignores what
does not fit its phase: the call goes on all the same. A call can fail at every await
(`CallFails`); its transaction can be included although the page gave up or was left
(`LoseReceipt`, `Reload`, then `MineLost`); the account can be switched at any time (`SwitchAccount`),
so that a purchase may be signed by another wallet than the one it is looked up for. Meanwhile the administrator changes
price, listing and pause, and buyers act in other tabs (`Elsewhere`).

Abstracted: deadlines, whose expiry is a revert (`CallFails`); a new treasury; gas; the connection
of a wallet and the change of its network.

### Video player and progress records

The player's handlers are `Play`, `Seek`, `TimeUpdate`, `Pause` and `SelectLesson`; a report is one call at a
time, `Sync` to `Answered` or `NotAnswered`, and `Refetched`. A point `p` of a video stands for the
playback from `p` to `p + 1`, and `played` remembers what really ran.

That only what was watched is reported, as a comment says (`app.tsx:822`, `OnlyWatchedIsReported`), does not
hold, for two reasons.

* The answer of a report moves `lastSentMs` to the end of the reported range (`app.tsx:727`), also when the student
  has sought elsewhere since. Play from 0 to 2, let the report be in flight, seek to 3, let it be answered and pause: [2, 3) is reported though it was skipped.
* The buttons of the lessons are not disabled for the active one. A click on it sets `lastSentMs` and
  `lastObservedMs` to 0 (`app.tsx:775-779`), while the video plays on where it is. Play at 0, seek to 1, click the
  active lesson and pause: [0, 1) is reported, with no report in flight. A longer gap is noticed if the video
  goes on (`onTimeUpdate` sees a jump), not if the pause comes first.

`OverreportHasCause` says that there is no third one: `skipped` has what a seek passed while a report was in flight
and what such a click claimed, and every report is within what was played or is in it. Another
weakness is a report that fails: the next one begins where the last counted one ended, and when it
has grown beyond 120 s (`learning.service.ts:74`) it is refused until the student plays or seeks
anew. `NotAnswered` has the refusal.

`ProgressRecords` follows one student's reports as `LearningSessions` follows heartbeats: `Record`,
`Begin` with its snapshot, then `Store`, `Replay`, `Conflict`, `SerializationFailure` or
`UniqueViolation`. A snapshot here keeps all it read, since the transaction writes all the ranges of its lesson again.
At this commit no controller has the route `POST /v1/lessons/:id/progress` that the page calls,
nor does a module provide the service: the module is about the service as it stands.

Abstracted: one duration for all videos, documents and images, which the service does not count.

### Swap page

A call keeps the inputs of its click, whereas every edit makes the page idle, so that the calls of several
clicks overlap. An authorization reads the allowance, resets it if it is not zero, approves the token, reads the
permit and approves it (`ReadAllowance` to `ApprovePermit`); a swap of Test USDT asks for the authorization again
(`CheckReady`), reads a quote (`FreshQuote`), and is executed with the minimum and the deadline made of it
(`Execute`). `Refetched` is the query for the amount that is in the form at that time. Each
step may fail (`Fails`). A transaction may be included although its receipt was lost and the page gave up
(`LoseReceipt`): a swap (`ExecuteLost`), or a step of an authorization (`AuthorizeLost`), so that an
allowance or a permit changes while a later call reads it. Token, Permit2, router and pool are external and modelled by what
the page needs of them.

Abstracted: balances; encoding of the router's commands; one wallet account, which is not switched while the
page is open; a transaction is sent and included in one step unless its receipt was lost.

### Accounts

Each call is authenticated (`Arrive`) and then finds or creates the rows, one statement after the other
(`FindWallet`, `CountPrimary`, `WriteWallet` or `WriteFails`); the unique indexes of the
migration, one row per address and one primary wallet per user, are the guards of the last. The profile's
calls follow: `CreateChallenge`, after which any wallet may sign; `SubmitName`, which looks at the
challenge and verifies the signature; `Consume`, which compares and spends the challenge in one
transaction. A wallet may be moved to another subject at the identity provider (`Relink`).

Abstracted: tokens; a signature is a record of what was signed and by whom; emails.

## The runs

| run | bounds | question |
|---|---|---|
| `earned_certificate` | delivery: 2 workers, 2 jobs (one whose mint always reverts), 3 transactions, 2 attempts, lease 2, clock to 3, any 2 faults; or playback: 1 student, 1 video of length 2, 2 requests, 2 sessions, 2 sequence numbers, clock to 2 | leases, rows, certificates and the refinement; sessions, segments and the 95% rule |
| `certified_not_delivered` | 1 fault, 2 attempts | is a final certificate always reconciled? no |
| `dropped_mint` | 1 dropped transaction, 2 attempts | does every job end? no |
| `worker_loop` | 1 indexer, 3 purchases of 2 pairs, 5 blocks, 1 reorganisation, overlap 2, 2 confirmations, changes up to 3 deep, 1 fault; or 2 certificate runners, 1 job, 3 attempts, clock to 12, 2 faults of any kind but slow calls | the tables and the chain; does access become what the chain confirms? yes. Does every job end whose transaction is not dropped? yes |
| `two_indexers` | 2 indexers, overlap 1, no reorganisation, no fault | the same with two processes? no |
| `course_completion` | see below | when, for whom and how often is a course completed; what checkout, player, progress, swap page and account promise |
| `course_content` | media: 1 lesson, 2 calls, 2 workers, versions to 2, 2 attempts, 1 fault; or publishing: 1 lesson, 2 calls, versions to 2, 3 events, overlap 1, a node 1 block behind, 2 faults | rows, leases, the life cycle of an asset; does every job end once workers stop dying? yes. What is listed, the states of a course, the indexer and the contract; does a confirmed proposal become public? yes |
| `attempt_limit` | 1 lesson, 1 call, 2 attempts, 1 fault | is a job given up at the limit, whoever dies? no |
| `stale_publish` | 1 lesson, 2 workers, two files that pass | are the bytes of a READY asset those that were recorded? no |
| `approved_is_kept` | 2 lessons, 2 calls, version 1 | is an approved course what its hash says? no |
| `server_time` | 1 session, video of length 4, clock to 3, 4 sequence numbers | does counted playback fit in the time that passed? no |
| `shown_price` | 1 buyer, 2 calls, prices 1 and 2, 1 move | does a buyer sign at the price shown? no |

| part of `course_completion` | bounds |
|---|---|
| course | 1 student with 2 wallets, 2 documents, 2 requests, 3 attempts, 3 outside changes |
| checkout | 2 buyers with 2 YD, prices 1 and 2, 2 calls, 2 moves of administrator, other tabs, account or page |
| player | 2 lessons of length 3, a jump is more than 1, a chunk 2, at least 1 is reported, at most 2 counted |
| progress | 2 lessons of length 2, 2 wallets, 2 keys, 2 calls, 2 attempts |
| swap | amounts 1 and 2, both assets, 5% slippage, rates 90 and 100, beginning at 100, deadline 1, permit 2, clock to 2, 2 calls, 1 edit or outside change |
| account | 2 users, 2 wallets, 2 names, 1 challenge with a life of 1, clock to 1, 2 calls, 1 wallet moved |

**Bounds.** Two workers are enough for every lease race, since a statement tests one owner. Three
transactions allow a mint, a second that reverts because of it, and a third after a retry. The clock
passes a whole lease and an attempt's backoff. Their hashes are interchangeable, so TLC follows
the behaviours in which they are used in the order of their numbers (`SentInOrder`). For liveness, `worker_loop` leaves out
one kind of fault: slow calls, between which the clock would have to go on without a bound; they are in
`earned_certificate`. `SettledUnlessStranded` excepts the job whose recorded transaction was dropped and nothing
else; that this job indeed never ends is `dropped_mint`. In the purchase runs the deepest change the overlap
admits (`Finality < ReorgDepth + Confirmations`, `3 < 4`) happens below a five-block head, so blocks
on both sides of the overlap exist; one block more of change violates `OverlapSettled`.
In the learning runs two requests and two sessions give every
race between starts and between a start and a heartbeat; two sequence numbers are a baseline and one
counted range, which is a whole video of length 2 at the rate allowed there. `PlaybackBound` keeps to playback after
the purchase: no archival or revocation, no document and no second attempt of a transaction comes between
(`course_completion` has them, and the theorems cover all of them together). Without a second attempt, a transaction
that meets a conflict can only fail, and a failure may come before the other commit as well (`NoConflict`); a position
beyond the end is refused, and is sent while no other call is under way (`OneBeyondEnd`). In `earned_certificate`
requests and workers have the same two names, since one permutation is then a symmetry of either part. Longer sets of ranges are
covered by the assumptions `MergeIsExact` and `MergeIsIncremental` of `MCCourseCompletion`, which TLC
evaluates on all sets of up to three ranges within 0..5. Rows of different lessons never meet in the
media pipeline, so one lesson is enough; two versions above the first allow a replaced upload, an
enqueued one and a retry, each against a late call of an older one. A course needs three events to be
listed, delisted and listed again, or listed wrong first. A node may be behind by one block, and a larger
overlap does not help one that is further behind: with a lag of two, a sync begins two blocks below the
overlap of the checkpoint, and when it fails there after an old event, the next one begins above the event that
corrects it. Then a course stays ARCHIVED that the contract has published. TLC shows it with a lag of two, an
overlap of one and four events, and with an overlap of two and five; hence the assumption `ShortLag`
of the theorem. Two calls of a page are every overlap of clicks, and with two moves the
administrator can change and restore a price, or the account can be switched and the page be left. Two calls, two wallets and
two users give each race for a wallet row; one challenge is enough to be spent twice. In the player
a length of 3 holds a chunk, a seek past it and the rest. `MaxLogs`, `MaxLag`, `MaxClock`, `MaxFaults`, `MaxHeight`,
`MaxReorgs`, `MaxSessions`, `MaxSequence`, `MaxChanges`, `MaxMoves`, `MaxUpdate`, `MaxLinks`,
`MaxTime`, `MaxVersion`, `MaxWorkerClock`, `MaxMediaFaults` and `MaxAssetVersion` are bounds of the model, not of the code; the
proofs hold for all their values.

**Fairness.** `runLoop` (`main.go:89-109`) runs a cycle again whatever the last one returned, so each
worker's next step is weakly fair (`LoopFairness` says it of both parts of a cycle, each while it moves); the chain
keeps mining and confirming; time passes. The media worker polls for ever (`media-worker/main.ts:21-36`), but an error that
leaves its loop ends the process. That somebody starts it again is an assumption about the
deployment: nothing in the repository does. Without it no job would be sure to end. Its deaths are bounded by
`MaxMediaFaults`, so `EveryJobSettles` says that jobs end once workers stop dying; it does not say that anything limits
how often they die, and the limit of attempts does not (`attempt_limit`). A lease whose worker is gone
runs out. Of publishing only the loop of the indexer is fair, and its failures, bounded by `MaxFaults`, end. Nothing else
is fair: faults and crashes need never happen, and teachers, administrators and students need not act. On the web pages nothing
is fair: their properties are of safety. The check for deadlock is on where the model can always step, since
indexers and workers go on polling when the bounds are used up. It is off where a part is driven by people, who
may have nothing left to do within the bounds: in `earned_certificate`, `course_content`, `course_completion`,
and in the violation runs of media, publishing and checkout.

**Not run again.** The type invariants of delivery, indexer and media, `ReceiptMeansCertificate`, `AttemptsBounded` and
`EndedSessionsStay` are consequences of the theorems below and of other properties; they are stated in
their modules and are proved.

## What the runs show against the documents

* `certified_not_delivered`: one lost answer to a broadcast is enough. Every retry looks at the
  confirmed block, where the certificate is not yet, and fails at the latest block, where it already
  is. When the attempts are used up the completion is `FAILED`, and no claim looks at it again although its
  certificate becomes final. `docs/flows.md:80-81` promises reconciliation.
* `dropped_mint`: a receipt that is not found is passed over (`runner.go:127`), and neither when a transaction was
  sent nor how often it was looked up is stored. When the network forgets it, the job stays MINTING, keeps its
  attempts, and is claimed again in every cycle. The certificate delivery feature wants dropped and unknown
  transactions to leave MINTING in bounded time (`requirements.md:33`, `design.md:4`), and `services/worker/README.md:15-16`
  promises retries and an explicit failed state.
* `attempt_limit`: the claim takes a job whose lease ran out whatever its attempts are (`job-store.ts:42`); only `fail` looks at
  the limit, and a dead worker does not get there. `design.md:82` of the content feature and
  `infra/media/README.md:11-12` promise FAILED at the limit.
* `stale_publish`: every attempt at one version writes the same ready object, before the lease is
  compared. A worker that outlived its lease is refused its facts but has written its bytes: if the file was
  uploaded again in between, the READY asset has the hash of one file and the bytes of the other.
  `design.md:59-60` of the content feature promises the opposite.
* `approved_is_kept`: an edit that found the course in DRAFT is written by id alone after its submission,
  and clears the proposal of a course under review. The administrator, whose call read the course before, approves it: APPROVED, no
  package to sign, no event that matches, no way out. `CourseCatalog.sol:9` says that the hash binds the
  content, `design.md:132` of the publication feature that the proposal is immutable.
* `shown_price`: the page shows the price of a cached query, and `approveExact` reads and approves a
  fresh one. What is compared before the purchase is the fresh price with the approved one (`app.tsx:472`),
  never with the price shown. `docs/flows.md:52-53` says that the quote prevents a silent change between page
  load and execution: it prevents one between approval and execution.
* `two_indexers`: the checkpoint is read before the logs and written after them without a comparison.
  A slow sync can put it back between the reads of two others, and a confirmed purchase falls below
  every later overlap.
* `server_time`: the clock is read before the transaction. A delayed heartbeat is answered `STALE`,
  but puts `lastHeartbeatAt` back, and the next heartbeat counts time again that was counted before.
  `design.md:65` of the feature says that counted playback must not exceed the real time between two
  heartbeats by much. Per heartbeat the policy is right; over three it is not.

## The proofs

All hold for every value of the constants, so without the bounds above.

*Certificate delivery.* `DeliveryInv` is inductive. Its core is the lease argument: as long as a row
still names the worker that claimed it, nobody else wrote it, so the worker's copy is current
(`CopyOf`); a worker whose lease was taken writes nothing. To it are added what the rows say of the
chain (`RowSound`), what each worker knows of it (`KnowledgeSound`), and what the contract guarantees: a job has at most one
successful mint (`ChainSound`). None of the properties is inductive alone: `RowsAgree` needs current
copies, `MintedIsCertified` needs that a token read at the confirmed block stays. The assumption on
the chain is that final blocks are not reorganised. `Refinement` maps every step to a step of
`CertificateService` or a stutter.

*Purchase indexer.* `TypeCorrect` and `AccessIsBacked` hold for any number of indexers and any
reorganisation. `IndexerInv` assumes `OneIndexer` and `ShortReorgs`: it says that blocks which the
checkpoint or the safe head of a running sync has left behind by the overlap cannot change any more
(`DeepIsOld`), hence what was read of them is still true when it is applied; that the range starts
either at the beginning or a whole overlap below the checkpoint, so the part of the tables it does
not replace is the chain; and that a pair has one canonical purchase. The `two_indexers` run shows
that `OneIndexer` cannot be dropped.

*Ranges.* `ranges.ts` merges in a loop, so `CoverageRanges` is written with folds of the community modules. The
library states induction for operators, which no installed prover can instantiate; `SetInduction` and
`NatSetInduction` derive it for sets from minimal elements of a well-founded order. `FoldOverSet` gives the
recursive definition of a fold its solution, and `MergeLoopMerged` is the invariant of the loop: what it has passed so far is
merged, in order and apart, and has the positions of what was merged. From it follow, for every length and every
set of ranges: merging adds and loses no position (`MergeKeepsPositions`); the covered length is the number of
positions, each counted once (`CoveredCountsPositions`); merging what is stored with one more range is merging
everything (`MergingIsIncremental`, because separate ranges are determined by their positions); and a lesson is complete when
95% of its positions are covered (`CompleteMeansCovered`). The assumptions `MergeIsExact` and
`MergeIsIncremental` compare the same operators with another definition, on small sets.

*Learning sessions.* `Base` (types, every call names a wallet that bought and a session that
exists, every session a wallet and a lesson) is inductive. Every step is first reduced to one of four effects,
and each invariant is proved of the effects. `CertifiedExactlyWhenDone` needs
`SnapshotsFresh`: a fresh snapshot's `done` is what is committed, for which the invalidation of the
student's other transactions at each commit is exactly enough. It also needs `CertificatesGoToBuyers`,
because the code looks for an existing completion by user or by wallet. `OneActiveSessionAlways`
holds because `OpenSession` expires all others in the step that creates one. `SegmentsAlwaysWatched` needs that
the segments of a video are the merge of the ranges counted for it, and
`MergingIsIncremental`; with `CompleteMeansCovered` it gives `VideosAlwaysEarned`.

*Media pipeline.* `MediaInv` adds to the checked properties what calls and workers know. While a job is
leased its asset is PROCESSING (`RowsAgree`), no call writes an asset that is PROCESSING, because its
version would have to be the one the call read when it was at rest (`RequestsKnow`), and so the
holder's version, key and attempts are those of the rows (`HolderIsCurrent`), which in turn keeps
`RowsAgree`: none of them is inductive alone. `AttemptsPaid` lets an expired or abandoned lease hold a
fault in reserve. Every step is reduced to one of six effects; `Refinement` is read off them.

*Course publishing.* `PublishInv` adds to `ListingIsConfirmed` what every writer of the course knows.
A call carries a proposal that was composed from READY lessons, and its hash has its own price and wallet
(`CallsKnow`, `Sound`): the listing is of such a proposal because the indexer compares the event with the row, not because
anything looks at the lessons again. A sync applies blocks that were confirmed when it read the head
(`SyncsKnow`), which no reorganisation takes back. No other assumption is made: any number of
indexers, lagging nodes, calls and events, and events for other terms or another course. Every step is reduced to the effect of a call, of the chain or of
an indexer; `Refinement` is read off them.

An indexer leaves the course as the contract has it (`SyncedAlwaysAgrees`) under two assumptions: one indexer,
and nodes at most one block behind (`ShortLag`). `SyncInv` says that the status is that of a block
above which neither this sync nor the next one skips anything (`NothingSkipped`), and that a sync begins at
most one block below the overlap (`SyncsBeginLow`), so an event it applies is again within reach of the next.
It holds for every overlap and any number of failures; with a lag of two it is false, see the bounds.

*Checkout.* `CheckoutInv` is inductive. `CompleteIsPurchased` speaks of the wallet that the page confirms and
`BusyHasCall` of the calls behind a phase; what connects them is `CallsKnow`: a call that has found the purchase
is a purchase of the wallet of its click, and stays true because no transaction takes a purchase back
(`MarketStep`). `BusyHasCall` needs nothing but the reducer's own tests of the amount: a second click can neither
begin nor end the phase of a call with another amount. `MoneyAlwaysMatches` is about sums over a set of buyers: a sum is a
function on its subsets (`IsSum`), every finite set has one (`SumExists`), and a purchase
changes three of them by its price, its fee and its share (`OneMorePurchase`).

*Player, progress, swap and account.* Each part has an invariant of its own, and `PagesInv` says that of the page
that moves.

* `PlayerInv` adds what the next report takes for granted: from `lastSentMs`, and from the end of a report in
  flight, every point up to the position was played, or is in `skipped`: passed by a seek while a report was in
  flight, or claimed by a click on the active lesson. With it `OverreportHasCause` is inductive.
* `ProgressInv` adds what a transaction has read: one that may commit has read the rows as they are (`CallIsFresh`).
  `SegmentsAlwaysEvents` then is `MergingIsIncremental`, and `AlwaysCompletedWhenCovered` follows from
  `CompleteMeansCovered` for the lesson that is reported and from the rows for the others.
* `SwapInv` adds that a transaction asks for the minimum of its quote (`AsksMinimum`). What the router gives is at
  least that, and the division loses less than one unit (`MinimumRounds`). `BusyHasTrade` is inductive: every end of a
  call takes the page out of its busy phases, even that of another call.
* `AccountsInv` says what the statements of a call so far let the next ones take for granted
  (`Knows`): the owner of a wallet that was found, a primary wallet that was counted, a signature that was verified. These stay
  true in all steps of others because owners are written once and primary wallets and signatures are not taken
  back (`RowsStay`). A call that counted no primary wallet knows nothing: there the unique index decides
  (`Insertable`). That a challenge is spent once rests on the condition of the second statement.

The theorems assume `PartsAssumption` of the constants, which TLC evaluates for the instance it checks: lessons
are finitely many and have a length, amounts and rates are positive, the slippage is between 0.1% and 5%
as the page's form has it.

*Model-checked only.* The liveness properties (`Converges`, `SettledUnlessStranded`, `EveryJobSettles`,
`ConfirmedIsPublished`), since fairness and ENABLED are out of the prover's reach. Every invariant and every
action property of the passing runs has a theorem.

## Plan

1. Compositions: purchase to entitlement to learning to completion to certificate; the two indexers in
   one cycle, with `PurchaseChain` as the abstraction of `CourseMarket`.
2. The approval of teachers.

## Not modelled

Reading of tokens, object storage, file inspection, rendering and generated database access: they are input and
output. The readers of entitlements, certificates and comments have one statement each. The rate
limit is a counter of one process. The administrator's and teacher's forms and the demo mode of the web
application send calls that the modules of the API accept from anyone. The subgraph and the shared schemas
are declarative. Of the contracts, roles, the token's supply, the oracle and a new treasury are left out: no
other part reads them.
