---------------------------- MODULE ScanPipeline ----------------------------
(***************************************************************************)
(* The static scan pipeline of one pull request: webhook and rescan        *)
(* requests in the API process create Scan rows and queue one job per row  *)
(* (ScanQueueService), worker processes run the jobs and publish their     *)
(* result on the PR (ScanProcessor).                                       *)
(*                                                                         *)
(* Every `await` on Postgres or Redis is a point where another request or  *)
(* worker may run, so each handler is cut into one action per query, and   *)
(* what it read stays in its own record (`req[r]`, `worker[w]`) until the  *)
(* write that uses it.                                                     *)
(*                                                                         *)
(* Abstractions: a commit is the number of the push that brought it; the   *)
(* ruleset version and the organization's enabled tiers are version        *)
(* numbers; the outcome of the AI step is only "decided or not" (AiReview  *)
(* has the rest), so a rescan that the AI review would refuse is one that  *)
(* is never asked for.                                                     *)
(***************************************************************************)
EXTENDS Integers, FiniteSets

CONSTANTS
    Requests,       \* slots for requests the API handles at the same time
    Workers,        \* job executors of the worker processes
    NumPushes,      \* bound: commits pushed to the PR
    NumChanges,     \* bound: changes of the ruleset or of the tiers, and
                    \* commits the branch is forced back to
    MaxScans,       \* bound: Scan rows of the PR
    Attempts,       \* the job option `attempts`
    MaxStalls,      \* bound: times one job may lose its worker or its lock
    StallLimit,     \* BullMQ's maxStalledCount
    ForcePushed,    \* the pushes that rewrote history
    ApiMayCrash,    \* the API process may die between two queries
    DbMayFail       \* writes made while recovering from an error may fail

ASSUME BoundsAssumption ==
    /\ NumPushes \in Nat /\ NumChanges \in Nat /\ MaxScans \in Nat
    /\ Attempts \in Nat \ {0} /\ MaxStalls \in Nat /\ StallLimit \in Nat

ASSUME SwitchesAssumption ==
    /\ ForcePushed \subseteq Nat
    /\ ApiMayCrash \in BOOLEAN /\ DbMayFail \in BOOLEAN

VARIABLES
    remoteHead,     \* the commit the PR is at on GitHub/GitLab
    pushed,         \* the commits 1..pushed exist there
    lineage,        \* each commit's history, itself included
    returned,       \* history: the commits the branch was forced back to
    pullHead,       \* PullRequest.headSha (0: none yet)
    pullOpen,       \* PullRequest.state = OPEN
    latest,         \* PullRequest.latestScanId (0: null)
    profile,        \* RULESET_VERSION and the enabled tiers, now
    created,        \* Scan rows exist for ids 1..created, in createdAt order
    scan,           \* what a Scan row is created with
    status,         \* Scan.status
    readAt,         \* history: the commit whose diff the scan analysed
    writes,         \* history: how often the scan's findings were stored
    job,            \* the BullMQ job of each scan
    req,            \* API requests in progress
    worker          \* jobs being executed

pullVars == <<remoteHead, pushed, lineage, returned, pullHead, pullOpen, latest,
              profile>>
scanVars == <<created, scan, status, readAt, writes>>
vars == <<pullVars, scanVars, job, req, worker>>

-----------------------------------------------------------------------------
ScanIds == 1..MaxScans
Commits == 0..NumPushes
NoScan == 0

InFlight == {"QUEUED", "RUNNING"}                     \* SCAN_IN_FLIGHT
DedupeStatuses == {"QUEUED", "RUNNING", "DONE"}       \* WEBHOOK_DEDUPE_STATUSES
Statuses == {"none", "QUEUED", "RUNNING", "DONE", "FAILED", "SUPERSEDED"}

Profiles == [ruleset : Nat, tiers : Nat]
FirstProfile == [ruleset |-> 0, tiers |-> 0]

ScanRow == [sha : Commits, attempt : Nat, profile : Profiles,
            mode : {"FULL", "INCREMENTAL"}, base : ScanIds \cup {NoScan},
            prev : Commits]
NoRow == [sha |-> 0, attempt |-> 0, profile |-> FirstProfile, mode |-> "FULL",
          base |-> NoScan, prev |-> 0]

JobStates == {"none", "waiting", "delayed", "active", "completed", "failed"}
Job == [state : JobStates, made : Nat, stalls : Nat]
NoJob == [state |-> "none", made |-> 0, stalls |-> 0]
Removable == {"waiting", "delayed"}

ReqPcs == {"idle", "inFlight", "lookup", "tiers", "find", "peek", "remove",
           "base", "create", "add", "undo"}
Request == [pc : ReqPcs, kind : {"webhook", "rescan", "close"},
            full : BOOLEAN, sha : Commits, attempt : Nat,
            profile : Profiles, seen : Statuses,
            found : SUBSET ScanIds, todo : SUBSET ScanIds,
            cur : ScanIds \cup {NoScan}, mode : {"FULL", "INCREMENTAL"},
            base : ScanIds \cup {NoScan}]
NoRequest == [pc |-> "idle", kind |-> "close", full |-> FALSE, sha |-> 0,
              attempt |-> 0, profile |-> FirstProfile, seen |-> "none",
              found |-> {}, todo |-> {},
              cur |-> NoScan, mode |-> "FULL", base |-> NoScan]

WorkerPcs == {"idle", "stalled", "claim", "fetch", "fetchFull", "persist",
              "ai", "notify", "finish", "onFailed"}
Execution == [pc : WorkerPcs, scan : ScanIds \cup {NoScan}, lock : BOOLEAN]
NoExecution == [pc |-> "idle", scan |-> NoScan, lock |-> FALSE]

-----------------------------------------------------------------------------
TypeOK ==
    /\ remoteHead \in Commits /\ pullHead \in Commits
    /\ pushed \in Commits /\ returned \subseteq Commits
    /\ lineage \in [Commits -> SUBSET Commits]
    /\ pullOpen \in BOOLEAN
    /\ latest \in ScanIds \cup {NoScan}
    /\ profile \in Profiles
    /\ created \in 0..MaxScans
    /\ scan \in [ScanIds -> ScanRow]
    /\ status \in [ScanIds -> Statuses]
    /\ readAt \in [ScanIds -> Commits]
    /\ writes \in [ScanIds -> Nat]
    /\ job \in [ScanIds -> Job]
    /\ req \in [Requests -> Request]
    /\ worker \in [Workers -> Execution]

Init ==
    /\ remoteHead = 0 /\ pushed = 0 /\ returned = {}
    /\ lineage = [c \in Commits |-> {}]
    /\ pullHead = 0
    /\ pullOpen = TRUE
    /\ latest = NoScan
    /\ profile = FirstProfile
    /\ created = 0
    /\ scan = [s \in ScanIds |-> NoRow]
    /\ status = [s \in ScanIds |-> "none"]
    /\ readAt = [s \in ScanIds |-> 0]
    /\ writes = [s \in ScanIds |-> 0]
    /\ job = [s \in ScanIds |-> NoJob]
    /\ req = [r \in Requests |-> NoRequest]
    /\ worker = [w \in Workers |-> NoExecution]

-----------------------------------------------------------------------------
(* The environment: pushes, and deploys or profile edits.                  *)

Changes == profile.ruleset + profile.tiers + Cardinality(returned)

(* A new commit, on top of the branch or in place of its history.          *)
Push ==
    LET c == pushed + 1
    IN  /\ pushed < NumPushes
        /\ pushed' = c /\ remoteHead' = c
        /\ lineage' = [lineage EXCEPT ![c] =
                          {c} \cup IF c \in ForcePushed THEN {}
                                  ELSE lineage[remoteHead]]
        /\ UNCHANGED <<returned, pullHead, pullOpen, latest, profile,
                       scanVars, job, req, worker>>

(* The branch is forced back to a commit it has left.                      *)
ForceBack(c) ==
    /\ c # remoteHead
    /\ Changes < NumChanges
    /\ remoteHead' = c
    /\ returned' = returned \cup {c}
    /\ UNCHANGED <<pushed, lineage, pullHead, pullOpen, latest, profile,
                   scanVars, job, req, worker>>

ChangeProfile ==
    /\ Changes < NumChanges
    /\ \/ profile' = [profile EXCEPT !.ruleset = @ + 1]
       \/ profile' = [profile EXCEPT !.tiers = @ + 1]
    /\ UNCHANGED <<remoteHead, pushed, lineage, returned, pullHead, pullOpen,
                   latest, scanVars, job, req, worker>>

-----------------------------------------------------------------------------
(* API requests.  A request only starts while a row is left for it, so the *)
(* bound MaxScans never blocks one half way.                               *)

Busy == {r \in Requests : req[r].pc # "idle"}
MayStart(r) == /\ req[r].pc = "idle"
               /\ Cardinality(Busy) + created < MaxScans

(* upsertFromWebhook overwrites headSha and state with the payload's,      *)
(* whatever order deliveries come in.                                      *)
UpsertPull(c) == pullHead' = c /\ pullOpen' = TRUE

(* The event of an opened, reopened or pushed PR: once the row is upserted *)
(* enqueue() runs.                                                         *)
DeliverPush(r, c) ==
    /\ MayStart(r)
    /\ c \in 1..pushed
    /\ UpsertPull(c)
    /\ req' = [req EXCEPT ![r] = [NoRequest EXCEPT !.pc = "lookup",
                                                   !.kind = "webhook",
                                                   !.sha = c]]
    /\ UNCHANGED <<remoteHead, pushed, lineage, returned, latest, profile,
                   scanVars, job, worker>>

(* The PR was closed or merged (webhook, or MergeService): cancelPending.  *)
DeliverClose(r) ==
    /\ MayStart(r)
    /\ pullHead # 0
    /\ pullOpen' = FALSE
    /\ req' = [req EXCEPT ![r] = [NoRequest EXCEPT !.pc = "find"]]
    /\ UNCHANGED <<remoteHead, pushed, lineage, returned, pullHead, latest,
                   profile, scanVars, job, worker>>

SomeInFlight == \E s \in ScanIds : status[s] \in InFlight

(* ScansService.requestRescan: the head commit is read first, and is the   *)
(* one that enqueue() gets; the request is refused while a scan is in      *)
(* flight.                                                                 *)
RequestRescan(r, full) ==
    /\ MayStart(r)
    /\ pullHead # 0
    /\ req' = [req EXCEPT ![r] = [NoRequest EXCEPT !.pc = "inFlight",
                                                   !.kind = "rescan",
                                                   !.full = full,
                                                   !.sha = pullHead]]
    /\ UNCHANGED <<pullVars, scanVars, job, worker>>

RescanRefused(r) ==
    /\ req[r].pc = "inFlight"
    /\ SomeInFlight
    /\ req' = [req EXCEPT ![r] = NoRequest]
    /\ UNCHANGED <<pullVars, scanVars, job, worker>>

RescanAllowed(r) ==
    /\ req[r].pc = "inFlight"
    /\ ~SomeInFlight
    /\ req' = [req EXCEPT ![r].pc = "lookup"]
    /\ UNCHANGED <<pullVars, scanVars, job, worker>>

RulesetUpToDate == /\ latest # NoScan
                   /\ scan[latest].profile.ruleset = profile.ruleset

(* ReposService.rescanOpenPulls, for this PR of the repository; one query  *)
(* reads the PR, its latest scan and whether one is in flight.             *)
RescanOpenPulls(r, staleOnly) ==
    /\ MayStart(r)
    /\ pullOpen /\ pullHead # 0
    /\ ~SomeInFlight
    /\ ~(staleOnly /\ RulesetUpToDate)
    /\ req' = [req EXCEPT ![r] = [NoRequest EXCEPT !.pc = "lookup",
                                                   !.kind = "rescan",
                                                   !.sha = pullHead]]
    /\ UNCHANGED <<pullVars, scanVars, job, worker>>

ScansOf(c) == {s \in ScanIds : s <= created /\ scan[s].sha = c}

(* The scan of a commit with the highest attempt, if it has any.           *)
IsLatestFor(c, s) ==
    \/ ScansOf(c) = {} /\ s = NoScan
    \/ /\ s \in ScansOf(c)
       /\ \A t \in ScansOf(c) : scan[t].attempt <= scan[s].attempt

(* enqueue: the latest scan of the commit is read ...                      *)
ReadLatest(r, s) ==
    /\ req[r].pc = "lookup"
    /\ IsLatestFor(req[r].sha, s)
    /\ req' = [req EXCEPT ![r] = [@ EXCEPT !.pc = "tiers", !.cur = s,
                                           !.seen = IF s = NoScan THEN "none"
                                                    ELSE status[s]]]
    /\ UNCHANGED <<pullVars, scanVars, job, worker>>

(* ... then the organization's tiers; a DONE scan of other rules is not a  *)
(* duplicate ...                                                           *)
RulesetIsStale(q) == q.seen = "DONE" /\ scan[q.cur].profile # profile

IsDuplicate(q) ==
    /\ q.kind = "webhook"
    /\ q.cur # NoScan
    /\ q.seen \in DedupeStatuses
    /\ ~RulesetIsStale(q)

(* ... and a repeated webhook ends here.                                   *)
LookupDuplicate(r) ==
    /\ req[r].pc = "tiers"
    /\ IsDuplicate(req[r])
    /\ req' = [req EXCEPT ![r] = NoRequest]
    /\ UNCHANGED <<pullVars, scanVars, job, worker>>

NextAttempt(q) == IF q.cur = NoScan THEN 1 ELSE scan[q.cur].attempt + 1

LookupFresh(r) ==
    /\ req[r].pc = "tiers"
    /\ ~IsDuplicate(req[r])
    /\ req' = [req EXCEPT ![r] = [@ EXCEPT !.pc = "find",
                                           !.attempt = NextAttempt(req[r]),
                                           !.profile = profile,
                                           !.cur = NoScan,
                                           !.seen = "none"]]
    /\ UNCHANGED <<pullVars, scanVars, job, worker>>

(* Where a request goes once cancelPending returns.                        *)
AfterCancel(q) ==
    IF q.kind = "close" THEN NoRequest
    ELSE [q EXCEPT !.pc = "base", !.found = {}, !.todo = {}, !.cur = NoScan]

(* cancelPending: the scans to supersede are read once ...                 *)
CancelFind(r) ==
    LET found == {s \in ScanIds : status[s] \in InFlight}
    IN  /\ req[r].pc = "find"
        /\ req' = [req EXCEPT ![r] =
                     IF found = {} THEN AfterCancel(@)
                     ELSE [@ EXCEPT !.pc = "peek", !.found = found,
                                    !.todo = found]]
        /\ UNCHANGED <<pullVars, scanVars, job, worker>>

(* ... then the state of each job is read ...                              *)
CancelPeek(r, s) ==
    /\ req[r].pc = "peek"
    /\ s \in req[r].todo
    /\ req' = [req EXCEPT ![r] =
                 IF job[s].state \in Removable
                 THEN [req[r] EXCEPT !.pc = "remove", !.cur = s]
                 ELSE [req[r] EXCEPT !.todo = @ \ {s}]]
    /\ UNCHANGED <<pullVars, scanVars, job, worker>>

(* ... and a waiting job is removed.  BullMQ refuses to remove a job that  *)
(* a worker has locked meanwhile: remove() throws, and so does enqueue().  *)
CancelRemove(r) ==
    LET s == req[r].cur
    IN  /\ req[r].pc = "remove"
        /\ job[s].state # "active"
        /\ job' = [job EXCEPT ![s] = NoJob]
        /\ req' = [req EXCEPT ![r] = [req[r] EXCEPT !.pc = "peek",
                                                    !.todo = @ \ {s},
                                                    !.cur = NoScan]]
        /\ UNCHANGED <<pullVars, scanVars, worker>>

CancelRemoveThrows(r) ==
    /\ req[r].pc = "remove"
    /\ job[req[r].cur].state = "active"
    /\ req' = [req EXCEPT ![r] = NoRequest]
    /\ UNCHANGED <<pullVars, scanVars, job, worker>>

(* Mutants of Superseded: no update at all, and a status the enum does not *)
(* have.                                                                   *)
SupersededNever(found) == status
SupersededAsCancelled(found) ==
    [s \in ScanIds |-> IF s \in found /\ status[s] \in InFlight
                       THEN "CANCELLED" ELSE status[s]]

(* The conditional updateMany that supersedes what was found.              *)
Superseded(found) ==
    [s \in ScanIds |-> IF s \in found /\ status[s] \in InFlight
                       THEN "SUPERSEDED" ELSE status[s]]

CancelMark(r) ==
    /\ req[r].pc = "peek"
    /\ req[r].todo = {}
    /\ status' = Superseded(req[r].found)
    /\ req' = [req EXCEPT ![r] = AfterCancel(@)]
    /\ UNCHANGED <<pullVars, created, scan, readAt, writes, job, worker>>

(* Mutant of DoneScans: any finished scan is a base.                       *)
FinishedScans == {s \in ScanIds : status[s] \in {"DONE", "FAILED"}}

DoneScans == {s \in ScanIds : status[s] = "DONE"}

(* The last finished scan of the PR; none is NoScan, which is below all.   *)
IsLastDone(base) == /\ base \in DoneScans \cup {NoScan}
                    /\ \A s \in DoneScans : s <= base

(* Mutant of DecideScanMode: the rules the base ran under are not compared. *)
ModeWhateverTheRules(base, full, prof, aiWantsFull) ==
    IF base = NoScan \/ full \/ aiWantsFull THEN "FULL" ELSE "INCREMENTAL"

(* decideScanMode; `aiWantsFull` stands for its two AI tests (prompt or    *)
(* language changed, the base was never reviewed), which read AI state.    *)
DecideScanMode(base, full, prof, aiWantsFull) ==
    IF base = NoScan \/ full \/ scan[base].profile # prof \/ aiWantsFull
    THEN "FULL" ELSE "INCREMENTAL"

ReadBase(r, base, aiWantsFull) ==
    /\ req[r].pc = "base"
    /\ IsLastDone(base)
    /\ req' = [req EXCEPT ![r] =
                 [@ EXCEPT !.pc = "create",
                           !.base = base,
                           !.mode = DecideScanMode(base, req[r].full,
                                        req[r].profile, aiWantsFull)]]
    /\ UNCHANGED <<pullVars, scanVars, job, worker>>

(* Mutant of AttemptTaken: the unique key is dropped.                      *)
NothingTaken(q) == FALSE

(* The unique key (repositoryId, pullId, headSha, attempt).                *)
AttemptTaken(q) == \E s \in ScansOf(q.sha) : scan[s].attempt = q.attempt

CreateScan(r) ==
    LET s == created + 1
        q == req[r]
    IN  /\ q.pc = "create"
        /\ created < MaxScans
        /\ ~AttemptTaken(q)
        /\ created' = s
        /\ scan' = [scan EXCEPT ![s] =
                      [sha |-> q.sha, attempt |-> q.attempt,
                       profile |-> q.profile, mode |-> q.mode,
                       base |-> q.base,
                       prev |-> IF q.mode = "INCREMENTAL"
                                THEN scan[q.base].sha ELSE 0]]
        /\ status' = [status EXCEPT ![s] = "QUEUED"]
        /\ req' = [req EXCEPT ![r] = [NoRequest EXCEPT !.pc = "add",
                                                       !.kind = q.kind,
                                                       !.cur = s]]
        /\ UNCHANGED <<pullVars, readAt, writes, job, worker>>

(* P2002: the loser answers with the scan that holds the key.              *)
CreateConflict(r) ==
    /\ req[r].pc = "create"
    /\ AttemptTaken(req[r])
    /\ req' = [req EXCEPT ![r] = NoRequest]
    /\ UNCHANGED <<pullVars, scanVars, job, worker>>

AddJob(r) ==
    /\ req[r].pc = "add"
    /\ job' = [job EXCEPT ![req[r].cur] = [NoJob EXCEPT !.state = "waiting"]]
    /\ req' = [req EXCEPT ![r] = NoRequest]
    /\ UNCHANGED <<pullVars, scanVars, worker>>

(* queue.add throws: the row is failed, by an update on the id alone.      *)
AddThrows(r) ==
    /\ req[r].pc = "add"
    /\ req' = [req EXCEPT ![r].pc = "undo"]
    /\ UNCHANGED <<pullVars, scanVars, job, worker>>

UndoCreate(r) ==
    /\ req[r].pc = "undo"
    /\ status' = [status EXCEPT ![req[r].cur] = "FAILED"]
    /\ req' = [req EXCEPT ![r] = NoRequest]
    /\ UNCHANGED <<pullVars, created, scan, readAt, writes, job, worker>>

(* The API process dies, or a query of the request throws.                 *)
ApiCrash(r) ==
    /\ ApiMayCrash
    /\ req[r].pc # "idle"
    /\ req' = [req EXCEPT ![r] = NoRequest]
    /\ UNCHANGED <<pullVars, scanVars, job, worker>>

-----------------------------------------------------------------------------
(* Workers.                                                                *)

(* A worker takes a job and its lock.  A job that stalled too often is     *)
(* handed out once more only to be failed.                                 *)
Pick(w, s) ==
    /\ worker[w].pc = "idle"
    /\ job[s].state \in Removable
    /\ job' = [job EXCEPT ![s].state = "active"]
    /\ worker' = [worker EXCEPT ![w] =
                    [pc |-> IF job[s].stalls > StallLimit THEN "stalled"
                            ELSE "claim",
                     scan |-> s, lock |-> TRUE]]
    /\ UNCHANGED <<pullVars, scanVars, req>>

Goto(w, pc) == worker' = [worker EXCEPT ![w].pc = pc]

(* Mutant of Claimable: a retry does not find its own scan.                *)
ClaimableOnce(s) == status[s] = "QUEUED"

(* 1. Claim: RUNNING is accepted too, so that a retry resumes its scan.    *)
Claimable(s) == status[s] \in InFlight

Claim(w) ==
    LET s == worker[w].scan
    IN  /\ worker[w].pc = "claim"
        /\ Claimable(s)
        /\ status' = [status EXCEPT ![s] = "RUNNING"]
        /\ Goto(w, "fetch")
        /\ UNCHANGED <<pullVars, created, scan, readAt, writes, job, req>>

SkipNotRunnable(w) ==
    /\ worker[w].pc = "claim"
    /\ ~Claimable(worker[w].scan)
    /\ Goto(w, "finish")
    /\ UNCHANGED <<pullVars, scanVars, job, req>>

(* The compare API: does history run straight from one commit to another?  *)
IsAncestor(from, to) == from \in lineage[to]

(* getCompareDiff: a commit and itself need no provider.                   *)
CompareDiff(from, to) ==
    [of |-> to, ancestor |-> from = to \/ IsAncestor(from, to)]

(* 2. INCREMENTAL: the diff between two named commits.                     *)
FetchCompare(w) ==
    LET s == worker[w].scan
    IN  /\ worker[w].pc = "fetch"
        /\ scan[s].mode = "INCREMENTAL"
        /\ CompareDiff(scan[s].prev, scan[s].sha).ancestor
        /\ readAt' = [readAt EXCEPT ![s] =
                         CompareDiff(scan[s].prev, scan[s].sha).of]
        /\ Goto(w, "persist")
        /\ UNCHANGED <<pullVars, created, scan, status, writes, job, req>>

(* The base is no longer an ancestor: FULL, reason FORCE_PUSH.             *)
FetchForcePush(w) ==
    LET s == worker[w].scan
    IN  /\ worker[w].pc = "fetch"
        /\ scan[s].mode = "INCREMENTAL"
        /\ ~CompareDiff(scan[s].prev, scan[s].sha).ancestor
        /\ scan' = [scan EXCEPT ![s] = [@ EXCEPT !.mode = "FULL",
                                                 !.prev = 0]]
        /\ Goto(w, "fetchFull")
        /\ UNCHANGED <<pullVars, created, status, readAt, writes, job, req>>

(* Mutant of GetDiff: the diff of the head the PR row has.                 *)
GetStoredDiff == pullHead

(* getDiff asks the provider for the PR's diff, not for a commit's: it is  *)
(* that of the head the PR has there, and is read again for every view.    *)
GetDiff == remoteHead

(* FULL: the same diff as the diff view's.                                 *)
FetchFull(w) ==
    LET s == worker[w].scan
    IN  /\ \/ worker[w].pc = "fetchFull"
           \/ worker[w].pc = "fetch" /\ scan[s].mode = "FULL"
        /\ readAt' = [readAt EXCEPT ![s] = GetDiff]
        /\ Goto(w, "persist")
        /\ UNCHANGED <<pullVars, created, scan, status, writes, job, req>>

(* Mutant of MayPersist: the result is stored unconditionally.             *)
AlwaysPersist(s) == TRUE

(* 7. One transaction, conditional on the row still being RUNNING.         *)
MayPersist(s) == status[s] = "RUNNING"

Persist(w) ==
    LET s == worker[w].scan
    IN  /\ worker[w].pc = "persist"
        /\ MayPersist(s)
        /\ status' = [status EXCEPT ![s] = "DONE"]
        /\ writes' = [writes EXCEPT ![s] = @ + 1]
        /\ latest' = s
        /\ Goto(w, "ai")
        /\ UNCHANGED <<remoteHead, pushed, lineage, returned, pullHead,
                       pullOpen, profile, created, scan, readAt, job, req>>

DiscardResult(w) ==
    /\ worker[w].pc = "persist"
    /\ ~MayPersist(worker[w].scan)
    /\ Goto(w, "finish")
    /\ UNCHANGED <<pullVars, scanVars, job, req>>

(* 8. maybeEnqueue: an error in it is logged and swallowed, so the scan is *)
(* DONE whatever becomes of its AI run (AiReview).                         *)
DecideAi(w) ==
    /\ worker[w].pc = "ai"
    /\ Goto(w, "notify")
    /\ UNCHANGED <<pullVars, scanVars, job, req>>

(* BullMQ records the end of an attempt only for the worker that still     *)
(* holds the job's lock.                                                   *)
Complete(w) ==
    LET s == worker[w].scan
    IN  /\ worker[w].pc \in {"notify", "finish"}
        /\ job' = IF worker[w].lock
                  THEN [job EXCEPT ![s].state = "completed"] ELSE job
        /\ worker' = [worker EXCEPT ![w] = NoExecution]
        /\ UNCHANGED <<pullVars, scanVars, req>>

(* loadPullWithAccess: a credential that is dead refuses either fetch.     *)
Refusable == {"fetch", "fetchFull"}

(* An attempt fails.  A ScanFailure (refused credential, rejected request, *)
(* diff too large, deadline, all rules crashed) is an UnrecoverableError,  *)
(* and so is BullMQ's own failure of a stalled job; any other error, also  *)
(* one after the result was stored, is retried.                            *)
MayFail(pc, unrecoverable) ==
    IF unrecoverable
    THEN pc \in Refusable \cup {"stalled", "persist"}
    ELSE pc \in {"claim", "fetch", "fetchFull", "persist", "ai", "notify"}

IsFinal(made, unrecoverable) == unrecoverable \/ made >= Attempts

Fail(w, unrecoverable) ==
    LET s == worker[w].scan
        made == job[s].made + 1
        final == IsFinal(made, unrecoverable)
    IN  /\ MayFail(worker[w].pc, unrecoverable)
        /\ IF worker[w].lock
           THEN /\ job' = [job EXCEPT ![s] =
                             [@ EXCEPT !.made = made,
                                       !.state = IF final THEN "failed"
                                                 ELSE "delayed"]]
                /\ worker' = [worker EXCEPT ![w] =
                                IF final THEN [@ EXCEPT !.pc = "onFailed"]
                                ELSE NoExecution]
           ELSE /\ worker' = [worker EXCEPT ![w] = NoExecution]
                /\ UNCHANGED job
        /\ UNCHANGED <<pullVars, scanVars, req>>

(* Mutant of MaySettle: only a claimed scan is failed.                     *)
SettleClaimed(s) == status[s] = "RUNNING"

(* onFailed of the final attempt.                                          *)
MaySettle(s) == status[s] \in InFlight

OnFailed(w) ==
    LET s == worker[w].scan
    IN  /\ worker[w].pc = "onFailed"
        /\ IF MaySettle(s)
           THEN /\ status' = [status EXCEPT ![s] = "FAILED"]
                /\ latest' = s
           ELSE UNCHANGED <<status, latest>>
        /\ worker' = [worker EXCEPT ![w] = NoExecution]
        /\ UNCHANGED <<remoteHead, pushed, lineage, returned, pullHead,
                       pullOpen, profile, created, scan, readAt, writes, job,
                       req>>

OnFailedThrows(w) ==
    /\ DbMayFail
    /\ worker[w].pc = "onFailed"
    /\ worker' = [worker EXCEPT ![w] = NoExecution]
    /\ UNCHANGED <<pullVars, scanVars, job, req>>

(* A worker process dies; its job stays active until the lock expires.     *)
WorkerCrash(w) ==
    /\ worker[w].pc \notin {"idle", "onFailed"}
    /\ job[worker[w].scan].stalls < MaxStalls
    /\ worker' = [worker EXCEPT ![w] = NoExecution]
    /\ UNCHANGED <<pullVars, scanVars, job, req>>

(* BullMQ's stalled check gives a job whose lock was not renewed to the    *)
(* next worker.  The one that lost it may still be running.                *)
Stalled(s) ==
    /\ job[s].state = "active"
    /\ job[s].stalls < MaxStalls
    /\ job' = [job EXCEPT ![s] = [job[s] EXCEPT !.state = "waiting",
                                               !.stalls = @ + 1]]
    /\ worker' = [w \in Workers |->
                    IF worker[w].scan = s
                    THEN [worker[w] EXCEPT !.lock = FALSE] ELSE worker[w]]
    /\ UNCHANGED <<pullVars, scanVars, req>>

-----------------------------------------------------------------------------
Environment == Push \/ (\E c \in 1..pushed : ForceBack(c)) \/ ChangeProfile

Arrive(r) ==
    \/ \E c \in 1..NumPushes : DeliverPush(r, c)
    \/ DeliverClose(r)
    \/ \E full \in BOOLEAN : RequestRescan(r, full)
    \/ \E staleOnly \in BOOLEAN : RescanOpenPulls(r, staleOnly)

Handle(r) ==
    \/ RescanRefused(r) \/ RescanAllowed(r)
    \/ \E s \in ScanIds \cup {NoScan} : ReadLatest(r, s)
    \/ LookupDuplicate(r) \/ LookupFresh(r)
    \/ CancelFind(r) \/ \E s \in ScanIds : CancelPeek(r, s)
    \/ CancelRemove(r) \/ CancelRemoveThrows(r) \/ CancelMark(r)
    \/ \E base \in ScanIds \cup {NoScan}, aiWantsFull \in BOOLEAN :
           ReadBase(r, base, aiWantsFull)
    \/ CreateScan(r) \/ CreateConflict(r)
    \/ AddJob(r) \/ AddThrows(r) \/ UndoCreate(r)

Execute(w) ==
    \/ Claim(w) \/ SkipNotRunnable(w)
    \/ FetchCompare(w) \/ FetchForcePush(w) \/ FetchFull(w)
    \/ Persist(w) \/ DiscardResult(w)
    \/ DecideAi(w)
    \/ Complete(w)
    \/ \E unrecoverable \in BOOLEAN : Fail(w, unrecoverable)
    \/ OnFailed(w) \/ OnFailedThrows(w)

Next ==
    \/ Environment
    \/ \E r \in Requests : Arrive(r) \/ Handle(r) \/ ApiCrash(r)
    \/ \E w \in Workers : Execute(w) \/ WorkerCrash(w)
    \/ \E w \in Workers, s \in ScanIds : Pick(w, s)
    \/ \E s \in ScanIds : Stalled(s)

Spec == Init /\ [][Next]_vars


-----------------------------------------------------------------------------
(* Safety.                                                                 *)

(* The PR shows a finished result: never a scan still waiting or running,  *)
(* and never one that a newer push superseded, whichever worker, retry or  *)
(* failure handler wrote latestScanId last.                                *)
LatestIsSettled == latest # NoScan => status[latest] \in {"DONE", "FAILED"}

(* A result's findings are stored once, whatever retries, stalled jobs and *)
(* workers that lost their lock do, and only a DONE scan has any.          *)
FindingsWrittenOnce ==
    \A s \in ScanIds : writes[s] = IF status[s] = "DONE" THEN 1 ELSE 0

(* An incremental scan continues a finished scan created before it, under  *)
(* the same rules, from exactly the commit that scan was made for.         *)
IncrementalHasDoneBase ==
    \A s \in ScanIds :
        status[s] # "none" /\ scan[s].mode = "INCREMENTAL" =>
            LET b == scan[s].base
            IN  /\ b # NoScan /\ b < s
                /\ status[b] = "DONE"
                /\ scan[s].prev = scan[b].sha
                /\ scan[s].profile = scan[b].profile

(* A commit is scanned at most once per attempt, and its attempts are the  *)
(* order its scans were created in, though two requests may have read the  *)
(* same "latest" scan: a rescan never hides behind an older attempt.       *)
AttemptsInCreationOrder ==
    \A s, t \in 1..created :
        s < t /\ scan[s].sha = scan[t].sha =>
            scan[s].attempt < scan[t].attempt

(* buildAnnotations: the findings of the latest scan go with the diff, and *)
(* the head they are said to be of.                                        *)
Annotations ==
    [scan |-> latest, head |-> IF latest = NoScan THEN 0 ELSE scan[latest].sha]

(* The diff view marks the findings on a diff it has just asked for, and   *)
(* trusts them when their scan's head is that diff's.  A FULL scan takes   *)
(* whatever the PR's diff is by then (getDiff), so its findings may be of  *)
(* another commit, but then the branch is not at the scan's commit any     *)
(* more: they are only ever shown on a diff they are not of if the branch  *)
(* was forced back to that commit (buildAnnotations).                      *)
AnnotationsMatchHead ==
    LET shown == Annotations
    IN  /\ shown.scan # NoScan /\ shown.head = GetDiff
        /\ status[shown.scan] = "DONE"
        => \/ readAt[shown.scan] = GetDiff
           \/ scan[shown.scan].mode = "FULL" /\ shown.head \in returned

(* A published outcome is never changed, and a superseded scan never runs  *)
(* again or publishes: enqueue's own "could not enqueue" is the only write *)
(* that may still mark it FAILED.                                          *)
PublishedIsFinal ==
    [][\A s \in ScanIds :
          /\ status[s] \in {"DONE", "FAILED"} => status'[s] = status[s]
          /\ status[s] = "SUPERSEDED" =>
                 status'[s] \in {"SUPERSEDED", "FAILED"}]_vars

(* What a pull request shows of its scans: ScanBoard, implemented by this  *)
(* module.  A finished scan's result, its findings and latestScanId change *)
(* together, whichever worker, retry or failure handler wins.              *)
OutcomeOf(s) == IF status[s] \in InFlight THEN "PENDING" ELSE status[s]

Board == INSTANCE ScanBoard WITH
            Scans    <- ScanIds,
            outcome  <- [s \in ScanIds |-> OutcomeOf(s)],
            findings <- writes,
            shown    <- latest

ImplementsBoard == Board!Spec

(* With one request at a time, a PR has at most one scan in flight: the    *)
(* rows cancelPending superseded never come back while it is away.         *)
OneInFlightPerPull ==
    \A s, t \in ScanIds :
        status[s] \in InFlight /\ status[t] \in InFlight => s = t

(* With one request at a time, the result shown on the PR only moves to a  *)
(* newer scan: a slow worker of an older one cannot take it back.          *)
LatestNeverGoesBack == [][latest' >= latest]_vars

JobIsLive(s) == job[s].state \in {"waiting", "delayed", "active"}

(* Every scan shown as in flight has something that will settle it: a live *)
(* job, the failure handler of its last attempt, or a request about to add *)
(* its job, to fail it or to supersede it.  Holds while no process dies    *)
(* between two writes.                                                     *)
InFlightHasWork ==
    \A s \in ScanIds : status[s] \in InFlight =>
        \/ JobIsLive(s)
        \/ \E w \in Workers : worker[w].pc = "onFailed" /\ worker[w].scan = s
        \/ \E r \in Requests :
              \/ req[r].pc \in {"add", "undo"} /\ req[r].cur = s
              \/ req[r].pc \in {"peek", "remove"} /\ s \in req[r].found

-----------------------------------------------------------------------------
(* Liveness.                                                               *)

(* A live process finishes what it started, queued jobs are handed out,    *)
(* and BullMQ's stalled check finds every active job nobody holds.         *)
LockHeld(s) == \E w \in Workers : worker[w].scan = s /\ worker[w].lock

FairSpec ==
    /\ Spec
    /\ \A r \in Requests : WF_vars(Handle(r))
    /\ \A w \in Workers : WF_vars(Execute(w))
    /\ \A s \in ScanIds : WF_vars(\E w \in Workers : Pick(w, s))
    /\ \A s \in ScanIds : WF_vars(~LockHeld(s) /\ Stalled(s))

(* Every scan created reaches an outcome, through lost workers, failing    *)
(* attempts and requests that are refused half way.                        *)
EveryScanSettles ==
    \A s \in ScanIds :
        status[s] \in InFlight ~>
            status[s] \in {"DONE", "FAILED", "SUPERSEDED"}

=============================================================================
