# Critiq backend: a verification development

Critiq scans the diff of every push to a connected pull request (PR): static
rules in a worker process, then an AI review, and shows the findings, reviews
and comments of a PR next to its diff. This directory holds TLA+ models of that
program, the TLC configurations that check them on small instances, and proofs
checked by TLAPS. Paths below are relative to the repository root.

The models describe what the program *does*. Where a comment, a doc or the
schema promises something the code does not keep, the section on the module says
so under "Not claimed"; for two such promises a run of its own shows the
counterexample ("violation" runs).

## 1. The system

One API process (NestJS), one or more worker processes, Postgres, Redis with
BullMQ queues, and the providers (GitHub, GitLab, an AI provider). Processes
share nothing but the database, Redis and the queues. Every `await` is a point
where another request, job or process may run.

| Component | State it keeps | Operations | Meets others through | What is hard | What makes it correct |
|---|---|---|---|---|---|
| Scan queue (`src/queue/scan-queue.service.ts`) | `Scan` rows, the `scan` queue | `enqueue`, `cancelPending`, `decideScanMode` | called by webhooks, rescans, merge; feeds the scan processor | check-then-act over Postgres and BullMQ with no transaction around both | one scan of a PR in flight, every commit has one, an incremental scan has a usable base |
| Scan processor (`src/queue/scan.processor.ts`) | `Scan`, `Finding`, `PullRequest.latestScanId` | `process`, `onFailed` | jobs; calls the AI decision | retries, stalled jobs run twice, results that arrive after the scan was superseded | findings stored once, outcomes final, `latestScanId` settled |
| Scan API (`src/modules/scans`) | – | rescan, lists | enqueues | refuses while something is in flight, not atomically | no rescan over a running scan |
| AI decision (`src/modules/ai/scan/ai-scan.service.ts`) | `Scan.ai*`, `AiSummary`, AI findings, `AiUsageDaily`, the Redis cache | `maybeEnqueue` and its copies from base or cache, `recordUsage` | called by the scan processor and by regenerate | settings change between decision and run | one run per scan, answers belong to the settings they are shown for |
| AI processor (`src/queue/ai-scan.processor.ts`) | the same, the `ai` queue | `process`, `onFailed` | jobs | money is spent before the result is stored | late answers dropped, tokens counted once |
| AI orphan reaper (`src/queue/ai-orphan-reaper.ts`) | `Scan.aiStatus` | a sweep every five minutes | reads the queue | judges rows and jobs it read at different times | every review ends, none that is alive is killed |
| Finding lifecycle (`src/queue/lifecycle`) | `Finding.status`, counts | carry forward, match, merge | scan and AI processors | line shifts, reopened findings | counts agree with rows, no finding lost or twice |
| Static rules (`src/queue/rules`, `diff`) | – | pure functions of a diff | scan processor | text | covered by the repository's tests |
| Webhooks (`src/modules/webhooks`) | Redis delivery claims | PR, comment, installation events | enqueue, upsert, ingest | redelivery, reordering, partial handling | a delivery's effects happen once |
| Pulls (`src/modules/pulls`) | `PullRequest` | upsert from webhooks, diff, summary, regenerate | all of the above | events out of order | the row follows the provider |
| Reviews and merge (`src/modules/reviews`, `src/queue/review-sync.processor.ts`) | `PullReview`, the `review-sync` queue | submit, retry, merge | provider | at-least-once sends, order of two decisions | the provider shows the last decision |
| Comments (`src/modules/comments`, `src/queue/comment-sync.processor.ts`) | `PullComment`, the `comment-sync` queue | create, ingest, sync | provider, webhooks | an echo that overtakes the job, parent before reply | one row per comment, one comment per row |
| Members (`src/modules/members`) | `Membership`, `Invitation` | invite, accept, resend, change role, remove | mail queue | concurrent changes of Admins | an organization keeps an Admin |
| Integrations (`src/modules/integrations`) | `Integration`, install intents | GitHub App install, GitLab token | webhooks, callbacks | events out of order, callbacks never coming | the connection's state follows the provider |
| Repositories (`src/modules/repos`) | `Repository`, `BranchConfig` | connect, disconnect, policies, bulk rescan | webhooks, enqueue | partial provider failures | a connected repo has a webhook |
| Settings, rules profile (`src/modules/settings`, `src/modules/rules`) | `Organization.ai*`, `AiCredential`, disabled tiers | update, test connection | read by decisions and jobs | changes while jobs are queued | jobs use what the user sees |
| Realtime (`src/common/realtime`) | – | publish, stream | everything publishes | lossy by design | never fails its caller |
| Auth, dashboard, insights, activity, search, health, common | – | request-scoped reads and guards | – | – | – |

`PROJECT.json` lists the same components with their status, and every hazard at
the line where it bites.

## 2. Modules and plan

Modules in the order of what a defect would cost:

| Module | Subject | Proofs |
|---|---|---|
| `ScanPipeline` | scan queue, scan processor and their callers | `ScanPipelineProofs`, `ScanHistoryProofs` |
| `ScanBoard` | what the pipeline promises to whoever looks at a PR; `ScanPipeline` implements it | the refinement, in `ScanPipelineProofs` |
| `AiReview` | AI decision, processor, cache, usage, reaper | `AiReviewProofs` |
| `Members` | roles and invitations, the email job | `MembersProofs` |
| `CommentSync` | comments, the sync job, the webhook echo, delivery dedupe | `CommentSyncProofs` |
| `ReviewSync` | submit, retry, sync job, merge | `ReviewSyncProofs` |
| `FindingLifecycle` | what becomes of a finding from scan to scan and run to run | `FindingLifecycleProofs` |
| `Connections` | integrations, the GitHub installation round trip, GitLab hooks, branch scope | `ConnectionsProofs` |

Each is checked through an `MC` module that adds only the symmetry sets (and,
for `FindingLifecycle`, two titles).

How they compose. The scan processor's DONE is `AiReview`'s `FinishStatic`; the
outcome of `AiReview` is in `ScanPipeline` only the non-deterministic
`aiWantsFull` of `decideScanMode`. `FindingLifecycle`
is what a stored result *is*: a scan is one step, because `ScanPipeline` shows that
its result is stored once; a run of the AI is two, a load and a store, with anything
in between, and it may be of any finished scan, because `AiReview`, which knows one
scan only, drops nothing on account of a newer one.
`ReviewSync` sees scans only through what `mergeBlockers` and `submit` read of
them, `Connections` and `CommentSync` share with the others only the claim of a
webhook delivery. They are not multiplied into one specification: the product
has nothing the parts do not show and is out of TLC's reach.

The plan is done: every safety property that a passing run checks is a theorem,
liveness is model-checked (section 8), and section 9 says what is left out.

## 3. ScanPipeline

One PR. Requests of the API process are slots `req[r]`, jobs in execution are
slots `worker[w]`; each slot holds a program counter and what the code read
before its last `await`. One action is one query of the code.

| State | Code |
|---|---|
| `remoteHead`, `pushed`, `lineage` | the PR's head at the provider; the commits pushed so far and the history of each |
| `pullHead`, `pullOpen`, `latest` | `PullRequest.headSha`, `state`, `latestScanId` |
| `profile` | `RULESET_VERSION` of the deployed code and the organization's enabled tiers |
| `created`, `scan`, `status` | the `Scan` rows in creation order; columns written at creation; `status` |
| `readAt`, `writes`, `returned` | history: which commit's diff was analysed, how often findings were stored, which commits the branch was forced back to |
| `job` | the BullMQ job of each scan: state, attempts made, stalls |

| Actions | Code |
|---|---|
| `DeliverPush`, `DeliverClose` | `WebhooksService.processVerifiedEvent`, `PullsService.upsertFromWebhook`, `MergeService` |
| `RequestRescan`, `RescanRefused`, `RescanAllowed`, `RescanOpenPulls` | `ScansService.requestRescan`, `ReposService.rescanOpenPulls` |
| `ReadLatest`, `LookupDuplicate`, `LookupFresh` | `enqueue`: latest scan of the commit, tiers, webhook dedupe |
| `CancelFind`, `CancelPeek`, `CancelRemove`, `CancelRemoveThrows`, `CancelMark` | `cancelPending` |
| `ReadBase`, `CreateScan`, `CreateConflict`, `AddJob`, `AddThrows`, `UndoCreate` | `enqueue`: base and mode, row, unique key, job |
| `Pick`, `Claim`, `SkipNotRunnable`, `FetchCompare`, `FetchForcePush`, `FetchFull`, `Persist`, `DiscardResult`, `DecideAi`, `Complete` | `ScanProcessor.process` |
| `Fail`, `OnFailed`, `OnFailedThrows` | a failed attempt; `onFailed` |
| `ApiCrash`, `WorkerCrash`, `Stalled` | a process dies or a query throws; BullMQ's stalled check |

BullMQ is modelled from how the code uses it: a job is handed to one worker with
a lock; a job whose lock was not renewed goes back to waiting although its first
worker may still run (that worker keeps its slot with `lock = FALSE`, and BullMQ
ignores its completion); a job that stalled too often is failed as
unrecoverable; `remove()` of a locked job throws.

Left out: the rescan rate limiter (two manual rescans overlap more often here
than in the code, so what is shown to hold holds a fortiori; no violation run
needs more than the overlap of two webhooks, of a rescan and a webhook, or of a
request and a worker), realtime events, logging, and what a result contains.

### The promise (`ScanBoard`)

`ScanBoard` knows no requests, jobs, workers, retries or crashes: a scan is
opened once, and either published (its findings stored once, `latestScanId`
switched to it, in one step), given up, superseded by something newer, or
refused because its job could not be queued. `ImplementsBoard` maps `status` to
the outcome, `writes` to the findings and `latest` to what is shown. Three
plainer invariants follow from it and are theorems of their own: the PR only
shows a DONE or FAILED scan (`LatestIsSettled`), findings are stored exactly once
(`FindingsWrittenOnce`), an outcome never changes (`PublishedIsFinal`).

### Runs (`MCScanPipeline`)

| Run | Expect | Shows |
|---|---|---|
| `pipeline_races` | pass | Two requests and two workers, crashes of both processes, a stalled job, failing recovery writes, a force push, a deploy, a tier change or a branch forced back to an older commit at any moment. All of it implements `ScanBoard`; an incremental scan has a DONE base made under its rules (`IncrementalHasDoneBase`); attempts of a commit follow creation order (`AttemptsInCreationOrder`); annotations shown at the current head were computed from it, unless the branch was forced back to the commit of a FULL scan (`AnnotationsMatchHead`) |
| `pipeline_orderly` | pass | Requests come one at a time, API processes live, recovery writes succeed; attempts fail and are retried, workers die, a stalled job runs in two workers. At most one scan in flight (`OneInFlightPerPull`), each with something that will settle it (`InFlightHasWork`), `latest` only moves forward (`LatestNeverGoesBack`), and every scan reaches an outcome (`EveryScanSettles`) |

Not claimed, and the reader of the code should know:

- two deliveries of one push: the loser of the unique key has already superseded
  the winner's scan, so the head may be left with a SUPERSEDED scan only.
  `scan-queue.service.ts:298` says "the unique constraint lets exactly one through;
  the loser returns the winner";
- an error or crash after the result is stored (`scan.processor.ts:384`): the retry
  finds DONE and never calls `maybeEnqueue`. `aiStatus` then stays null, which
  `schema.prisma:549` reserves for scans "the AI step never evaluated";
- with two requests, `OneInFlightPerPull` fails: two enqueues of different
  commits may both be past `cancelPending` before either creates its row
  (`scan-queue.service.ts:238`);
- `CancelRemoveThrows`: a worker may take the job between `getState()` and
  `remove()` (lines 393 to 399); `remove()` then throws, and the scan of a closed
  PR stays in flight until it finishes;
- `UndoCreate` leaves `latestScanId` where it was: a scan that could not be
  queued is FAILED without becoming the PR's latest (line 346);
- a FULL scan reads the diff of whatever the head is by then
  (`scan.processor.ts:172`, the history variable `readAt`). An incremental scan on
  top of it continues from its own, older commit; and when the branch is forced
  back to that commit, the diff view trusts findings that are of another one. This
  is why `AnnotationsMatchHead` excepts FULL scans of commits in `returned`: without
  the exception TLC finds the run (queued at A, B pushed, B's diff read and stored
  for A, back to A).

Bounds: two requests, two workers and two scans are enough for every
interleaving the properties speak of (each relates at most two scans, or two
actors on one scan); two pushes give an older and a newer head, and `NumChanges = 1` one return to the older one (or
one deploy or tier change instead); one stall gives
two workers on one job, and `StallLimit = 0` in `pipeline_orderly` makes a second
stall a failure. Two attempts give a retry and a final failure in
`pipeline_orderly`; in `pipeline_races`, where the second worker of a stalled job
plays the part of a retry, one attempt is enough and keeps the two requests
affordable. Deadlock checking is off in all runs: a model stops when its bounded
inputs are used up, as the program idles when nothing arrives.

## 4. AiReview

The scans of one commit (so that they share cache keys), the decisions made for
them and their AI jobs. `ai[s]` holds the `ai*` columns of a `Scan` row; `id` is
the pair `aiModel`, `aiLocale` as stored, while the history fields `by` and
`parts` say which model and language the stored summary and findings were really
made with. They may differ (see the cache below); no property claims they do not.
`tokens` says whose `aiTokensIn` and `aiTokensOut` the row shows, an answer's or a
failed call's, and `raw` whether it has an `aiRawRef`.

| Actions | Code |
|---|---|
| `ChangeSettings` | `SettingsService`: provider, model, language, consent |
| `StartScan`, `FinishStatic` | a scan of the commit is created (only when `rescanBlocker` and `decideScanMode` allow it), its static part is DONE and `maybeEnqueue` is called |
| `Regenerate` | `PullSummaryService.regenerate` without `force` (with it, a new scan) |
| `Decide`, `Settle`, `ReadBase`, `CopyBase`, `CheckBudget`, `CacheHit`, `CacheMiss`, `CopyCache`, `ClaimRun`, `AlreadyClaimed`, `AddJob`, `AddThrows`, `UndoClaim` | `AiScanService.decide` and its helpers, in the order of their queries |
| `Pick` … `Complete`, `Fail`, `OnFailed`, `OnFailedThrows` | `AiScanProcessor`; `Load` and `UseProvider` are two reads, as in the code, so the settings may change in between. A failed call is followed by its three writes, each of which may be refused: `Bill` (the daily usage), `ShowUsage` (the tokens on the scan, by id alone) and, of an unusable answer, `KeepRaw` |
| `ReaperFind`, `ReaperJobs`, `Reap`, `ReaperFails` | the three steps of `AiOrphanReaper.reap` |
| `GraceElapses` | more than `REAP_GRACE_MS` has passed since `aiStartedAt ?? finishedAt` |

Time is one Boolean per row (`old`). It turns true at any moment, except while
the decision that follows the static scan is still running: that this takes less
than two minutes is the reaper's own assumption. A regenerate is given no such
help, because the code does not reset the time it is measured from.

The tokens of a call are one; the budget is a number of calls; a diff that is too
large is a budget already spent. The optional `force` of `maybeEnqueue` has no
caller and is left out. Which findings a merge keeps is left to
`FindingLifecycle`; here a stored result is the set of settings its findings
come from.

### Runs (`MCAiReview`)

| Run | Expect | Shows |
|---|---|---|
| `review_races` | pass | Two decisions, two workers, a stall, the reaper and refused writes on one scan: a settled review changes only by a new decision, its identity, summary and findings never by a late answer or a late failure, which leaves nothing but its tokens and its raw answer (`LateAnswersAreDropped`); no token is counted twice, though two workers may run one job (`NeverOvercounted`) |
| `review_calm` | pass | Three scans of a commit, the last a rescan without changes, with settings and consent changing and a budget that runs out, while nothing dies, writes succeed and the reaper is away: at most one worker asks the model for a scan (`OneRunPerScan`), every token is counted (`TokensAccounted`), every review in flight has a job (`InFlightHasWork`), and a run in flight is settled by its own worker only, never by a decision that ends without a run (`RunsNotClobbered`). Answers are taken from the model, the cache and the base |
| `review_liveness` | pass | With the reaper, every review in flight ends whatever crashes and whichever write is refused |

Not claimed, although the code comes close to it:

- that a settled review keeps the tokens it cost: `recordFailedUsage` and
  `keepRawResponse` update the scan by its id alone
  (`ai-scan.processor.ts:646`, line 675), so a call that fails after its run was
  given up, or was answered by another worker, overwrites the tokens shown with
  the review (`pull-summary.service.ts:113`);
- two runs of one scan: an attempt fails after its answer was stored
  (`logWindowMisses`), a regenerate queues another run, the retry of the first
  joins it, against `ai-queue.constants.ts:21`. `OneRunPerScan` holds while
  that step cannot fail;
- consent (`schema.prisma:63`) is read when a review is decided: a diff queued
  before the consent is revoked is still sent;
- the key of the cache has the model of the claim (`ai-scan.processor.ts:440`), the
  answer is that of the run (line 158): after a change of settings in between, a
  cache hit hands out another model's answer (`ai-scan.service.ts:519`);
- the grace of the reaper does not cover a regenerate: `findOrphans` measures it
  from `aiStartedAt ?? finishedAt` (`ai-orphan-reaper.ts:55`), which the claim of a
  regenerate does not reset, so a sweep between that claim and `queue.add` may
  fail the review;
- `mergePrevious` is decided with the settings of the decision, the run uses those of
  its start: the stored findings (`parts`) may be of two models
  (`ai-scan.service.ts:255`);
- a rescan without changes copies its base's `aiStatus`, also QUEUED when the base
  was regenerated meanwhile (`ai-scan.service.ts:481`); only the reaper ends it;
- several reviews may pass the budget check before any has spent a token
  (`ai-scan.service.ts:233`): the budget is an estimate, as the code means it.

Bounds: one scan for the races of its own row, three for the copies (a source, a
scan with a decision of its own, a rescan without changes); two decisions, two
workers, two runs (an older and a newer), a budget of two calls, one stall. The
settings vary between a model and none, consent given and not: enough for a
decision, or a job, to find others than the one before it. Liveness uses one decision and one worker at a time; the
crashes make up for what concurrency would add there, since only the reaper and
the retries matter for termination.

## 5. The other modules

Five more modules, one table of actions and runs each. They have no fairness: they
say what may never happen.

### Members (`MembersService`, `InvitationEmailProcessor`)

The memberships of one organization, its invitations and the email job of each
link. A request slot holds what it read; a Prisma transaction is its reads and
one write, `SELECT ... FOR UPDATE` is the set of locked Admin rows.

| Actions | Code |
|---|---|
| `StartInvite` ... `CreateInvite`, `EnqueueEmail`, `MarkUnsent` | `invite` |
| `StartResend`, `AssertOpen`, `ResendReplace`, `ResendTooLate` | `resend` |
| `StartRevoke`, `RevokeFind`, `Revoke`, `Expire` | `revoke`, `expiresAt` |
| `StartChange`, `FindMember`, `LockAdmins`, `WriteMember` | `changeRole`, `remove`, `leave`, `assertAnotherAdmin` |
| `StartAccept`, `AcceptFind`, `AcceptCheckMember`, `AcceptClaim` | `accept` |
| `TakeMail`, `SendMail`, `SendFails`, `SettleMail`, `MailThrows`, `MailStalls` | the email worker: a query of an attempt may throw, a job that stalls more often than `maxStalledCount` (`StallLimit`) is failed by BullMQ |

| Run | Expect | Shows |
|---|---|---|
| `members_races` | pass | One link makes one member and a cancelled one none (`OneOutcome`); whoever joined used the last link (`JoinedByLastLink`); an ended email job leaves no open link PENDING, whatever the mail server answers, unless BullMQ itself failed the job (`EmailJobSettles`); only a request that never counted the Admins can take the last one (`CountedAdminsRemain`) |
| `members_last_admin` | violation | Exactly that happens: `remove` and `changeRole` read the role before they lock (`members.service.ts:358`), and the organization has no Admin, against lines 87-89 |

Bounds: three people, two requests at a time and three in all (a promotion, a
demotion and the removal that read before them), two roles, one invitation with
two links.

Not claimed: `settle`'s guard on PENDING lets the job of an old link mark a resent
invitation SENT (`invitation-email.processor.ts:118`); `MarkUnsent` is
unconditional (`members.service.ts:526`); two invitations of one address may both
be created (line 153), and whoever accepts both keeps the role of the last upsert (line 446);
the email queue has no `onFailed`: a job that stalls twice, or whose last attempt ends
in an error of `findUnique` or of `settle`'s update (`invitation-email.processor.ts:34`,
line 127), leaves its open invitation PENDING; `EmailJobSettles` exempts these jobs (`lost`).

### CommentSync (`CommentsService`, `CommentSyncProcessor`, `CommentIngestService`)

A provider comment is a note, a thread is named by its first note; `of` is what
the note's marker says. Deliveries come in any order, repeatedly or never.

| Actions | Code |
|---|---|
| `CreateComment`, `EnqueueSync`, `EnqueueThrows`, `MarkFailed`, `RetrySync`, `ApiCrash` | `create`, `reply`, `retrySync` |
| `TakeJob`, `WaitForParent`, `Send`, `SendAnswerLost`, `SendFails`, `StoreIds`, `StoreFailure`, `StoreThrows`, `Stalled`, `WorkerDies` | the sync job |
| `WriteNote`, `ChangeNote` | people on the provider |
| `Deliver`, `RemoveRow`, `EditRow`, `LinkOwn`, `CreateRow`, `HookFails` | the delivery claim and `ingest` |

Run `comments_races` (pass): two rows never stand for one note and a row is linked
only to copies of its own (`OneRowPerNote`), each extra copy is paid for by a lost
answer, lock or write (`RepostsAreForced`), a comment shown as pending has work
left (`PendingHasWork`), a reply is posted in the thread that a copy of its parent
began, or that its foreign parent was written in (`RepliesJoinTheirThread`), no late
`created` undoes an edit (`EditsStay`). Bounds: two comments (a parent and a reply,
or an own and a foreign one), two notes, two deliveries and two workers at a
time, one fault, one retry, on each of the three kinds of place a comment can have.

Not claimed: `IngestOwn`'s link is written on an older read and without a thread id
(`comment-ingest.service.ts:153`); a GitLab reply ingested before the worker stores
the thread begins a second root; a deletion delivered before the row knows its
note is ignored; of two edits delivered in the wrong order the older text wins; a crash
keeps the delivery claim for a day; a comment whose request or job died stays
PENDING, and `retrySync` refuses it; `MarkFailed` is unconditional
(`comments.service.ts:244`), also after a `queue.add` that went through with its answer
lost, which is not modelled. Edits that remove the marker are not modelled.

### ReviewSync (`ReviewsService`, `MergeService`, `ReviewSyncProcessor`)

The row of one PR, the PR at the provider, decisions in creation order, and a
scan that may change at any moment. `merge` records what the rules of a merge
were read from.

| Actions | Code |
|---|---|
| `StartSubmit`, `CheckMine`, `CreateReview`, `EnqueueSync`, `EnqueueThrows`, `MarkFailed`, `StartRetry`, `Retry` | `submit`, `retry` |
| `StartMerge`, `CheckBlockers`, `CallMerge`, `MergeAnswerLost`, `MergeRefused`, `RecordMerge` | `merge`, `mergeBlockers` |
| `TakeJob`, `Send`, `SendAnswerLost`, `SendNote`, `SendFails`, `StoreSynced`, `StoreFailed`, `StoreThrows`, `WorkerDies` | the sync job |
| `Push`, `DeliverPull`, `ScanChanges` | provider, webhooks, scans |

Run `reviews_races` (pass): a commit merged from Critiq was itself approved,
scanned and without open requests for changes when the rules were applied
(`MergedCleared`); under REQUIRE_BOTH an approval is of a commit whose AI review was
finished (`RequireBothSeen`); an approval never lands on another commit
(`ApprovalsPinned`); `PendingHasWork`. Bounds: two reviewers, two commits, two
decisions, three requests, one scan change or fault.

Not claimed: two submits of one reviewer may both pass the check for an earlier
decision (`reviews.service.ts:98`; `README.md:203` lists 409 `already_reviewed`); a
retry of an older decision may land after a newer one; GitLab's 401 with an older
approval in place counts as success; a late `opened` event re-opens the row of a
merged PR; a request for changes submitted between the blockers and the merge is
not seen; a crash after the provider's merge leaves it unrecorded until the webhook;
an approval may be submitted just after a regenerate took back the AI review it was made
with (`reviews.service.ts:98`: `RequireBothSeen` asks that the review was finished
once); a decision whose request or job died stays PENDING.

### FindingLifecycle (`src/queue/lifecycle`, `dedupe-findings.ts`, `regenerate-merge.ts`)

Scans and AI runs over one file. `MapOldLine`, `Assignments`,
`PlanFindings`, `MergeWithPrevious` are the pure functions of the code, as
operators; where the database gives rows in no order, they give the set of
results. The lines of the file have identities, which the program does not see
and the properties compare with: they are the reference the line arithmetic is
checked against. `Candidate` and `Row` are the types `CandidateFinding` and
`FindingRow`, as far as the properties tell their fields apart.

| Actions | Code |
|---|---|
| `Insert`, `Delete` | a commit |
| `StaticScan` | `analyzeDiff`, `dedupeFindings`, `planFindings` in either mode, under the tiers the profile has on |
| `AiLoad` | a run of the AI on any finished scan has its answer, loads (`ai-scan.processor.ts:360`) and plans its rows |
| `AiStore` | its transaction (`:384`), some time later or never: the merge with an earlier run of the scan, the rows replaced, the foreign key |

Nothing in the code keeps runs of two scans apart: `cancelPending` touches the status
of a scan only, the claim of a run its `aiStatus` only, a regenerate may be asked of any
scan, and `AI_CONCURRENCY` is two. So `answers` holds any number of runs that
have loaded and not stored, of one scan or of several, and `late` remembers those that
were stored when their scan had a successor. Two reductions are sound because the steps
commute. A run reads versions of scans only, so it may be taken to load and store
before the next commit. The static step loads its base some awaits before it stores; a
run of the base that is stored in between either deletes a row the step carries, and
then the foreign key refuses the attempt, or might as well be stored after it.

| Run | Expect | Shows |
|---|---|---|
| `findings` | pass | A live finding stands on the lines it was reported on (`AtItsLine`); an added secret is an active finding in every scan whose profile has its rule on (`UniqueHitsReported`); which findings alone may disappear without a row that continues or closes them (`NeverDropped`); histories are whole, but for what a late run cuts off (`HistoryWhole`); a plan is refused only if another run rewrote what it had loaded (`ReportedStorable`); a comparable rerun loses no finding and lowers no severity (`RerunKeeps`) |
| `findings_refused` | violation | A regenerate of a FULL scan carries a REOPENED row along whose origin it deletes (`regenerate-merge.ts:110`): the foreign key refuses the answer, and every retry of it, against `lifecycle-context.ts:57-59` |

Bounds: three lines, two commits after the first, three scans, three AI runs, and of
all these eight steps (`MaxSteps`; a run counts as two); profiles with all tiers on or
the tier of these rules off; a secret in code or in a comment (suppressed), a rule that
knows a line only, two similar titles. A finding can be carried, moved, resolved,
re-opened and repeated, and a run of one scan can load or store after the next scan, or
after another run, has stored.

What the code does not keep, and the properties therefore name:

- a run of scan *s* that is stored after the next scan has loaded its base is not carried
  on: its findings have no row in the next scan (`late` in `NeverDropped`);
- a finding of a tier that was turned off "just leaves the PR"
  (`scan.processor.ts:230`, `ai-scan.persistence.ts:86`);
- a rerun of scan *s* deletes rows that scan *s + 1* carries on; their
  `originFindingId` becomes null (`schema.prisma:688`) while they still say that they
  were first seen in *s*, or before (`late` in `HistoryWhole`);
- the same, between the load and the transaction of a run of *s + 1*, makes the
  foreign key refuse that run; it is retried with a new load. `Kind` calls such a row
  stale if another run has rewritten the scan of its origin since the load, and
  `ReportedStorable` says that nothing else makes a reported row unstorable;
- `loadRecentResolved` takes the pull request's last finished scans, not those before
  its own, as the comment at `lifecycle-context.ts:53` says: a late run of *s* may
  re-open a row of *s + 1*. `Recent` is the code's window.

Not claimed: `UniqueHitsReported` only holds while no version holds two lines of one
rule. `dropPersistedDuplicates` (`status-matcher.ts:25`) drops a real hit whose
fingerprint equals a carried suppressed row's, although `dedupe-findings.ts:33`
says that must not happen; a widened range loses both occurrences when a line
between them is edited. A suppressed AI row may lose its row to an active twin; a
regenerate of a scan can leave a base finding both RESOLVED and PERSISTED;
RESOLVED rows that were re-opened already stay in the pool. Not modelled: patches
without text, caps, counts, folding within one answer, `ai.keepDeduped` (off by
default), several files, a base that is not the scan before. An answer of the AI holds
one finding at most, in the runs and in the theorems: what several similar findings of
one answer do to each other when a comparable rerun of a FULL scan matches them (`regenerate-merge.ts:166-185`) is not claimed.

### Connections (`IntegrationsService`, `GithubInstallIntentService`, `ReposService`, hooks)

A behaviour follows one provider. One action per query or provider call; queries
that nothing can tell apart from the call beside them share its action. A
`createRepos` request connects one project.

| Actions | Code |
|---|---|
| `CreateIntent`, `IntentExpires`, `Callback`, `Consume`, `Verify`, `ConnectGithub`, `PendingRead`, `MarkPending` | the installation round trip |
| `Installed`, `Suspended`, `Unsuspended`, `Uninstalled`, `InstallationEvent`, `EventLost` | GitHub, and `handleInstallation` |
| `DisconnectGithub`, `Uninstall`, `Forget`, `DisconnectGitlab`, `Revoke` | `disconnect` |
| `ConnectGitlab`, `StoreToken`, `TokenAges`, `Health`, `WriteHealth` | the GitLab token |
| `CreateRepo`, `InsertRepo`, `InstallWebhook`, `RecordHook`, `HookDelivery` | repositories and their hooks |
| `BranchDeleted`, `UpdateScanConfig`, `FindUnknownBranches`, `FindBranchPolicies`, `SaveScanConfig` | the scan scope |

Run `connections` (pass): a disconnect drops the row only after the installation it read
there is removed (`ForgottenWhenGone`); UNINSTALLED and SUSPENDED are said only of the
installation the row holds now (`AlarmIsAboutThisInstallation`); a delivery is taken only
for the organization that made the hook (`DeliveredToItsOwner`); a hook without a row has
a failure, a 404, a crash or a disconnect to explain it (`OrphanHooksExplained`); through
overlapping saves the default branch stays in scope, branches come only from the
provider and no policy is left outside of the scope (`ScopeIsSound`). Bounds: two
organizations, two requests at a time and four in all, two installations, two
events, one fault. Invalid inputs (422) and read-only endpoints are not modelled.

Not claimed:

- two overlapping saves: one removes a branch, the other, which read it before,
  puts it back into scope without a policy, against the comment at
  `repos.service.ts:239`;
- a late `suspend` after `deleted` turns UNINSTALLED into SUSPENDED and a late
  `unsuspend` then into ACTIVE, against `webhooks.service.ts:62`; an uninstall
  between verification and upsert, or the connection of a suspended installation, shows ACTIVE;
- `markGithubPendingApproval` reads, then upserts: a row connected in between
  becomes PENDING_APPROVAL; a PENDING row without installation cannot be disconnected;
- a reconnect with another installation overwrites its id and leaves the old App
  installed and unseen; a disconnect racing a reconnect deletes the row with the new
  installation, which can still read code (`integrations.service.ts:329`, against lines
  307-309): `ForgottenWhenGone` speaks of the installation the disconnect read;
- `deleteProjectHook` counts a 404 as success (`gitlab-api.service.ts:661`), also when a
  replaced token does not see the project or belongs to another instance: the hook
  stays. In the model this is one of the failures of `Revoke`, whose effect is the same;
  the run has one token;
- two organizations with one GitLab project: `findFirst` may pick the other's row,
  which answers a valid hook with 401; a delivery that comes before its hook's
  secret is stored is refused too;
- a crash in the middle of a disconnect leaves rows whose hooks are gone; the health
  check may mark a replaced token INVALID; an error while handling an installation event is
  answered 200, so the event is lost.

## 6. Fairness

`FairSpec`, in `ScanPipeline` and `AiReview`, assumes: a live process finishes what it started (weak
fairness of each handler, not of any particular outcome: a handler may always
fail instead); BullMQ hands out waiting jobs; its stalled check finds an active
job that no live worker holds. A crash, a new request, a push, a settings change or a stall
of a live worker is never assumed to happen. `AiReview` adds: time passes, the sweep's
interval timer fires (`setInterval` in `onApplicationBootstrap`), and a sweep
that is tried again and again does not fail for ever (strong fairness of its last two
steps; the code swallows any error and retries in five minutes).

`EveryScanSettles` holds under `ApiMayCrash = FALSE` and `DbMayFail = FALSE`:
static scans have no reaper, so an API process that dies between the row and its
job, or a final failure that cannot be written, leaves a scan QUEUED or RUNNING
for ever. `EveryReviewSettles` needs neither.

## 7. Proofs

`ScanPipelineProofs` proves for every number of requests, workers, scans,
pushes and attempts, and with every switch on or off:

| Theorem | States |
|---|---|
| `TypeCorrect` | `Spec => []TypeOK` |
| `LatestSettled` | `Spec => []LatestIsSettled` |
| `FindingsOnce` | `Spec => []FindingsWrittenOnce` |
| `OutcomesAreFinal` | `Spec => PublishedIsFinal` |
| `PipelineImplementsBoard` | `Spec => ImplementsBoard` |

Assumptions: only the two named assumptions of `ScanPipeline` on its constants.

The argument. `LatestIsSettled` and `FindingsWrittenOnce` are not inductive: the
failure branch of `enqueue` (`UndoCreate`) marks a scan FAILED with no condition on
its status, which would undo a published result. It never does, because a row
whose job is not added yet belongs to exactly one request and no job or worker
knows it. The invariant therefore adds `RowsExist` (jobs and workers only know
created rows, rows beyond `created` are blank) and `AddsOwnRow` (a request at
`add` or `undo` owns its row: the row is QUEUED or SUPERSEDED, no other request
is adding it, it has no job and no worker knows it). `TypeInv` strengthens `TypeOK` by what an executing slot
refers to. Each action gets one step, and each conjunct it can disturb a step below
it. `PublishedIsFinal` then follows from the same invariant, step by step.

The refinement uses the same invariant. `BoardWrite` reduces a step to what it does
to one scan's `status`, its `writes` and `latest`; most actions change none of the three
(`QuietRequest`, `QuietWorker`) and stutter. `CreateScan` maps to `Open`,
`CancelMark` to `Supersede`, `UndoCreate` to `Refuse` (here `AddsOwnRow` is needed),
`Persist` to `Publish`, `OnFailed` to `GiveUp`; the two writes of a worker are
guarded by the status they find, the invariant says that this is a pending outcome
with no findings stored.

### The history of scans

`ScanHistoryProofs` extends `ScanPipelineProofs`, under the same assumptions:

| Theorem | States |
|---|---|
| `IncrementalRestsOnDone` | `Spec => []IncrementalHasDoneBase` |
| `AttemptsInOrder` | `Spec => []AttemptsInCreationOrder` |
| `AnnotationsTrusted` | `Spec => []AnnotationsMatchHead` |

The argument. None of the three is inductive, because each is about what a
request or worker read some steps before it writes. `BaseInv` says of a request about to
create a row what the row will say: its base is DONE, which is final, and of its
rules. `AttemptInv` says that the attempts of a commit have no gaps and that a
request carries the attempt after one that exists; the unique key refuses an
attempt that is taken, and when it is free so is every higher one, therefore a new
row always comes last. `HeadInv` says that no scan, request or PR is
ahead of what was pushed, and what a finished scan, or one about to be stored, has
read is the diff of its own commit, or else it is FULL and the branch was not at its
commit then. A commit that exists is not pushed a second time, so the branch is at
that commit again only if it was forced back there, which `returned` remembers.

Three more theorems have the hypotheses of the run `pipeline_orderly`: `OneAtATime`
says that `Requests` has one member at most, so that requests of the PR are served
one after the other, any number of them. Workers, stalls, failed attempts and
pushes stay free.

| Theorem | States | Under |
|---|---|---|
| `OneScanInFlight` | `Spec => []OneInFlightPerPull` | `OneAtATime` |
| `ResultsMoveForward` | `Spec => LatestNeverGoesBack` | `OneAtATime` |
| `ScansInFlightHaveWork` | `Spec => []InFlightHasWork` | `OneAtATime`, no `ApiMayCrash`, no `DbMayFail` |

The argument. `CancelInv` follows the request through `cancelPending`: what it found
is all there is in flight, one scan at most, and from the marking until the row of
the new scan is created nothing is, because only `CreateScan` puts a scan in flight
(`PendingMoves`). `LatestInv` keeps every scan in flight at or above the one the PR
shows, and the PR comes to show only what has just been in flight (`LatestMoves`).
`StageInv` ties the workers in: one that has its result has claimed the scan, so the
scan is not QUEUED any more; one past storing it has a scan that is settled. With
these, each step that takes away a scan's job, its failure handler or its request
leaves another of the three, or settles the scan.

The hypotheses are needed, not convenient. With two requests, both may be past
`cancelPending` before either creates its row (section 3), and a `cancelPending` of
the two scans they leave, whose second `remove()` throws, has already taken the job
of the first. With a dying API process, or a write of a failure that fails, a scan
keeps its row and has nobody left; `pipeline_races` allows both.

### FindingLifecycle

`FindingLifecycleProofs`, for files of any length, any number of commits, scans and
AI runs, any titles and any relation of likeness between them, window and distances:

| Theorem | States |
|---|---|
| `LifecycleHolds` | `Spec => []LifecycleInv` |
| `LifecycleTypes` | `Spec => []TypeOK` |
| `FindingsAtTheirLines` | `Spec => []AtItsLine` |
| `UniqueHitsAreReported` | `Spec => []UniqueHitsReported` |
| `FindingsAreNeverDropped` | `Spec => []NeverDropped` |
| `ReportedAreStorable` | `Spec => []ReportedStorable` |
| `HistoryStaysWhole` | `Spec => []HistoryWhole` |
| `RerunsKeepFindings` | `Spec => RerunKeeps` |
| `MapOldLineIsExact` | `mapOldLine` finds a line where the new version has it, or nowhere |

Assumptions: `LifecycleAssumption` (the texts the rules tell apart; the AI's titles are
not the rules') and `NoneAssumption` (the absent row is not a row, as the code's `null`
is not).

The argument has three parts. *The functions.* No function of the module is
recursive: hunks are sets of positions and the offset of `mapOldLine` is a
difference of cardinalities, so what they compute can be proved for every input.
Two versions of the file share their lines in one order (`SameOrder`), because a
commit adds a new line or deletes one. The lines of the old version before a line
that both have are then those deleted and those kept, in the new version those added
and those kept, and the offset is exact (`SplitIsExact` for hunks without
context, `WholeIsExact` for one hunk with the whole file). The lemmas on
`PlanFindings` and `MergeWithPrevious` say what their results consist of, which
candidate or earlier row each row comes from, and which of these are sure to have one.

*The invariant.* None of the properties is inductive.
`VersionInv`: all versions seen are without repetition and in one order. `RowInv`: the
ids of a scan tell its rows apart, and a live row is on the lines it was reported
on (`Placed`); the old line of a row must be right for its new one to be. `HistInv`:
a row is the first of its finding, or follows a row that is as old, or is the AI's and
was cut off by a late run; the rows a later AI run of a scan does not replace
(`Staying`) point at none of that scan that it does. `ContInv`: each live row of
a base that the next scan was bound to load (`Followed`: of a tier that is on, not
stored late) is continued by a row that stays, or, the AI's after a FULL scan, by each
run anew. `FitInv`: a live static row is on a line that its rule still reports, so a
carried row and a new hit of one line are one finding. `QuietInv`: while no version
held two lines of one rule, each added line has an active row of its own.

A run that has loaded and not stored is the hard part: what it planned must still be
right whatever is stored meanwhile. `AnsInv` says of every waiting run that its rows are
well formed and apart from those of its scan that stay (`Planning`), that no stored row
bears its number (`Fresh`), that each row of it is the first of its finding or points at a
row that no other waiting run will write, follows it as long as it is stored, and reaches
it unless another run has rewritten its scan (`Tied`, `missed`), and that it continues or
closes each live AI finding of the base but the late ones (`Covers`). A store by another
run therefore changes, of what a waiting run needs, only what `missed` and `late`
remember. `EditKeeps`, `StaticKeeps`, `LoadKeeps` and `StoreKeeps` show that the four
kinds of step keep the invariant.

*What follows.* The invariants are parts of `LifecycleInv` or follow from it in one
state. `RerunsKeepFindings` needs the step too: the merge keeps an earlier row
or the one it repeats, at the higher severity.

The hypothesis of `UniqueHitsReported` is needed, and `CarriedStorable`, the property of
`findings_refused`, is no theorem: a REOPENED row that is carried along may point
outside of `Staying`, to a row the same run deletes.

### AiReview

`AiReviewProofs`, for every number of scans, models, locales, decisions, workers, runs,
attempts and stalls, from `BoundsAssumption`, `SlotsAssumption` and
`SwitchesAssumption`. The last three theorems have the switches of the run
`review_calm` as hypotheses:

| Theorem | States | Hypotheses |
|---|---|---|
| `TypeCorrect` | `Spec => []TypeInv` | – |
| `RunsAreNotClobbered` | `Spec => RunsNotClobbered` | – |
| `LateAnswersChangeNoReview` | `Spec => LateAnswersAreDropped` | – |
| `TokensNeverOvercounted` | `Spec => []NeverOvercounted` | – |
| `TokensAreAccounted` | `Spec => []TokensAccounted` | no stalls, writes succeed |
| `OneRunPerScanAtATime` | `Spec => []OneRunPerScan` | no stalls, no reaper, writes succeed |
| `ReviewsInFlightHaveWork` | `Spec => []InFlightHasWork` | the same, and no decision dies |

The argument. `TypeInv` adds to the types that executions and decisions refer to
scans and jobs that exist, and that a run number is known to one decision only until its
job is added (`OwnRunInv`). One lemma reduces each step to what it does to one row
(`AiMove`: it claims, ends, reaps or decides it), another to what it does to the
tokens (`TokensMove`: a reply comes in, is recorded, or is lost when a write is
refused or a worker dies); the two action properties and the two sums follow case by case.

`OneRunPerScan` needs to know who holds the claim of a run. `CalmInv` says it: the
decision that made the claim, its job while it waits, or the worker that has the
job; at most one of them for each scan (`AloneInv`), each with its review in
flight (`HeldInv`), and a worker at work has its job's lock alone (`LockInv`). A
new claim is made only on a review that is not in flight, hence held by nothing.
`FoundInv` is the converse, that a review in flight is held. The hypotheses are
needed: with refused writes a job that failed *after* its answer was stored is
retried and may take over the claim of a newer decision (section 4), and a stall
gives one job to two workers.

### CommentSync

`CommentSyncProofs`, for every number of rows, notes, requests, workers, deliveries,
retries, attempts and faults, from `BoundsAssumption` and `SlotsAssumption`:

| Theorem | States |
|---|---|
| `TypeCorrect` | `Spec => []TypeInv` |
| `EditsAreKept` | `Spec => EditsStay` |
| `NotesHaveOneRow` | `Spec => []OneRowPerNote` |
| `RepliesAreThreaded` | `Spec => []RepliesJoinTheirThread` |
| `PendingCommentsHaveWork` | `Spec => []PendingHasWork` |
| `RepostsArePaid` | `Spec => []RepostsAreForced` |

The argument. `TypeInv` adds `RefsInv`: jobs, executions and requests are about
comments of Critiq's, and what a delivery read of its note and its row before it
writes is still true, since neither an author nor a root changes. `LinkInv` says
that a row is linked to a copy of itself, and that no two rows share a note: the
worker, the echo and other deliveries all write under the unique key. `ThreadInv`
follows a reply from the parent's id that its job read (`RepliesHeading`) to the
note it posts (`RepliesPosted`); it rests on the copies of a root heading their own
threads (`CopiesOfRoots`) and on threads having roots (`ThreadsOfRoots`).
`PostsArePaid` is an accounting: the copies of a comment, its waiting jobs, the
executions that may post it, the requests about to queue it and its failed row are
together at most one more than its faults. Each step moves a comment from one of
these to the next (the lemmas `WaitingMove`, `SendingMove`, `AskingMove`,
`FailedMove`, `CopiesMove`), and only a fault adds one; two copies of a comment without a
fault would be two posts for one.

### Connections

`ConnectionsProofs`, for every set of organizations, branches, installations and tokens
and every bound, for GitHub and GitLab, from `BranchesAssumption`,
`BoundsAssumption` and `NullsAssumption` (an absent value is not a value: TLC's
model values satisfy it, as the code's `null` does):

| Theorem | States |
|---|---|
| `TypeCorrect` | `Spec => []TypeInv` |
| `AlarmsAreOwn` | `Spec => []AlarmIsAboutThisInstallation` |
| `NeverForgotten` | `Spec => ForgottenWhenGone` |
| `ScopesAreSound` | `Spec => []ScopeIsSound` |
| `DeliveriesAreOwned` | `Spec => []DeliveredToItsOwner` |
| `OrphansAreExplained` | `Spec => []OrphanHooksExplained` |

The argument. `TypeInv` adds that a behaviour only has requests of its provider and
that repositories have their Integration (the cascade). `ForgetInv`: a
disconnect about to delete its row was told by GitHub that the installation is
gone. `ScopeInv`: the branches a request carries were seen at the provider, and
the default branch is among them. `HooksInv`: a hook belongs to the
organization of the row that records it (`OwnerInv`), a repository gets its hook from
the one request that inserted it (`HookingInv`), and a disconnect leaves no recorded
hook behind that it has not removed, still has to remove, or was refused (`RevokeInv`).

### Members

`MembersProofs`, for every set of people, number of requests, invitations, links,
attempts and allowed stalls, with API crashes or without, from `UsersAssumption` and
`BoundsAssumption`:

| Theorem | States |
|---|---|
| `TypeCorrect` | `Spec => []TypeOK` |
| `OneMemberPerLink` | `Spec => []OneOutcome` |
| `OldLinksStopWorking` | `Spec => []JoinedByLastLink` |
| `EmailJobsSettle` | `Spec => []EmailJobSettles` |
| `LastAdminIsCounted` | `Spec => CountedAdminsRemain` |

The argument. The inductive invariant `IInv` has a part for each reason the
properties hold. `TypeInv`: a request that works on an invitation has one.
`RequestInv`: what a request read of its invitation may be stale, but its link was
issued. `JoinInv`: whoever joined did so by an invitation that is accepted, not
revoked, and still has the link used; since `AcceptClaim` and `ResendReplace` find
the invitation open when they write, neither can follow an acceptance.
`MailInv`: an ended job whose link is still current has settled its row, unless BullMQ
failed it. `AdminInv`:
a request that has counted the Admins holds their locks, and those it counted are
still Admins; a step that takes the last one is therefore one of a request that
never counted, which is the run `members_last_admin`.

### ReviewSync

`ReviewSyncProofs`, for every number of reviewers, requests, commits, decisions,
faults and attempts and every policy, from `BoundsAssumption`:

| Theorem | States |
|---|---|
| `TypeCorrect` | `Spec => []TypeOK` |
| `MergesAreCleared` | `Spec => []MergedCleared` |
| `BothWereSeen` | `Spec => []RequireBothSeen` |
| `ApprovalsArePinned` | `Spec => []ApprovalsPinned` |
| `PendingIsAttended` | `Spec => []PendingHasWork` |

The argument. `MergeInv` says of a merge in progress what `MergedCleared` says of a
recorded one: the head, the decisions and the scan the rules were applied to, as read then, clear it.
It is stable because decisions are only added and never change who decided what
on which commit (`KeepsReviews`). `SeenInv` remembers in `analysed` every commit whose
AI review was finished, and follows a head from the read in `submit` to the row.
`ApprovalInv` ties each approval at the provider to the decision that caused it:
the head sent is that of the row, never the PR's head of the day. `PendingHasWork`
is inductive once the types say that a job belongs to an existing decision.

## 8. Only model-checked

Liveness (`EveryScanSettles`, `EveryReviewSettles`), which is out of the proof
system's reach: it has no rules for fairness and ENABLED. Every invariant and action
property of a passing run is a theorem.

`TypeOK` of `ScanPipeline` is part of its run and a theorem; in the other modules it
is a theorem, alone or as a part of `TypeInv`. The parts of the inductive invariants
that no run lists were checked by TLC on the bounds of the runs before they were
proved. The two properties that runs expect to be violated are not theorems, of course.

## 9. Not modelled

Listed with reasons in `PROJECT.json`. In short: text processing (rule patterns,
prompts, answer repair, the provider clients' HTTP) has no state and is tested by the
repository; read-only endpoints, the dashboard, search, authentication and realtime
events change nothing a property speaks of; rate limits and caps are left out, so
what holds, holds with more requests than the program would let through.
