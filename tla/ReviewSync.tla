------------------------------ MODULE ReviewSync ------------------------------
(***************************************************************************)
(* Decisions on one pull request: reviewers approve or request changes in  *)
(* Critiq (ReviewsService), the decisions are copied to the provider       *)
(* (ReviewSyncProcessor), and the pull request is merged from Critiq       *)
(* (MergeService), while commits are pushed, scans come and go and         *)
(* webhooks report the provider's state late and out of order.             *)
(*                                                                         *)
(* One action per query or provider call; commits are numbered in the      *)
(* order they are pushed.  A request that is refused and changes nothing   *)
(* is left out.                                                            *)
(***************************************************************************)
EXTENDS Integers, Sequences, FiniteSets

CONSTANTS
    Reviewers,      \* Admins and Reviewers of the organization
    Nobody,         \* no reviewer
    Requests,       \* slots for requests the API handles at the same time
    Policies,       \* the effective policies the pull request may have
    MaxHeads,       \* bound: commits of the pull request
    MaxReviews,     \* bound: decisions
    MaxCalls,       \* bound: requests
    MaxEvents,      \* bound: scans that change and everything that goes wrong
    Attempts        \* REVIEW_SYNC_JOB_ATTEMPTS

ASSUME BoundsAssumption ==
    /\ Policies \subseteq {"REQUIRE_BOTH", "OTHER"}
    /\ MaxHeads \in Nat \ {0} /\ MaxReviews \in Nat
    /\ MaxCalls \in Nat /\ MaxEvents \in Nat /\ Attempts \in Nat \ {0}

VARIABLES
    source,         \* the provider of the repository
    policy,         \* effectivePolicy, a snapshot taken with the first event
    prov,           \* the pull request on the provider
    events,         \* states of it that webhooks report
    pull,           \* the PullRequest row
    scan,           \* its latest scan
    reviews,        \* PullReview rows, in the order of their creation
    job,            \* the review-sync job of each review
    req,            \* requests in progress
    count,          \* what the bounds count
    analysed,       \* history: the commits whose AI review was finished
    merge,          \* history: the merge made from Critiq
    abandoned       \* history: reviews whose request or job died on the way

vars == <<source, policy, prov, events, pull, scan, reviews, job, req, count,
          analysed, merge, abandoned>>

-----------------------------------------------------------------------------
Heads == 1..MaxHeads
ReviewIds == 1..MaxReviews
Decisions == {"APPROVE", "REQUEST_CHANGES"}

Remote == [head : Heads, state : {"OPEN", "MERGED"},
           approved : SUBSET (ReviewIds \X Heads)]
Pull == [head : Heads, state : {"OPEN", "MERGED"}]

(* A scan that is not DONE, or AI that is not DONE or CACHED, is one       *)
(* without a result.                                                       *)
Scan == [head : Heads, done : BOOLEAN, critical : BOOLEAN, ai : BOOLEAN]

Review == [head : Heads, decision : Decisions, by : Reviewers,
           sync : {"PENDING", "SYNCED", "FAILED"}]

JobPcs == {"none", "waiting", "send", "note", "store", "fail"}
Job == [pc : JobPcs, made : Nat, stalled : BOOLEAN]
NoJob == [pc |-> "none", made |-> 0, stalled |-> FALSE]

ReqPcs == {"idle", "mine", "create", "enqueue", "mark", "retry",
           "blockers", "merge", "record"}
Request == [pc : ReqPcs, by : Reviewers \cup {Nobody}, decision : Decisions,
            review : ReviewIds \cup {0}, head : Heads, scan : Scan,
            override : BOOLEAN, read : 0..MaxReviews]

NoScan == [head |-> 1, done |-> FALSE, critical |-> FALSE, ai |-> FALSE]
NoRequest == [pc |-> "idle", by |-> Nobody,
              decision |-> "APPROVE", review |-> 0, head |-> 1,
              scan |-> NoScan, override |-> FALSE, read |-> 0]
NoMerge == [head |-> 0, read |-> 0, scan |-> NoScan, override |-> FALSE]

TypeOK ==
    /\ source \in {"GITHUB", "GITLAB"}
    /\ policy \in Policies
    /\ prov \in Remote /\ pull \in Pull /\ scan \in Scan
    /\ events \subseteq Heads \X {"OPEN", "MERGED"}
    /\ reviews \in Seq(Review) /\ Len(reviews) <= MaxReviews
    /\ job \in [ReviewIds -> Job]
    /\ req \in [Requests -> Request]
    /\ count \in [calls : 0..MaxCalls, events : 0..MaxEvents]
    /\ analysed \subseteq Heads
    /\ merge \in [head : Heads \cup {0}, read : 0..MaxReviews, scan : Scan,
                  override : BOOLEAN]
    /\ abandoned \subseteq ReviewIds

(* Opened, scanned and reviewed by the AI, with nothing decided yet.       *)
Init ==
    /\ source \in {"GITHUB", "GITLAB"}
    /\ policy \in Policies
    /\ prov = [head |-> 1, state |-> "OPEN", approved |-> {}]
    /\ events = {}
    /\ pull = [head |-> 1, state |-> "OPEN"]
    /\ scan = [NoScan EXCEPT !.done = TRUE, !.ai = TRUE]
    /\ reviews = << >>
    /\ job = [v \in ReviewIds |-> NoJob]
    /\ req = [r \in Requests |-> NoRequest]
    /\ count = [calls |-> 0, events |-> 0]
    /\ analysed = {1}
    /\ merge = NoMerge
    /\ abandoned = {}

remote == <<source, policy, prov, events>>
local == <<pull, scan, analysed>>

Event == /\ count.events < MaxEvents
         /\ count' = [count EXCEPT !.events = @ + 1]

-----------------------------------------------------------------------------
(* The provider and what it reports.                                       *)

Push ==
    /\ prov.state = "OPEN" /\ prov.head < MaxHeads
    /\ prov' = [prov EXCEPT !.head = @ + 1]
    /\ events' = events \cup {<<prov.head + 1, "OPEN">>}
    /\ UNCHANGED <<source, policy, local, reviews, job, req, count, merge,
                   abandoned>>

(* mapGithubPayload, mapGitlabPayload: a locked merge request is open.     *)
MapPayload(e) == [head |-> e[1],
                  state |-> IF e[2] = "MERGED" THEN "MERGED" ELSE "OPEN"]

(* upsertFromWebhook: the row is what the delivery says, however late.     *)
DeliverPull(e) ==
    /\ pull' = MapPayload(e)
    /\ UNCHANGED <<remote, scan, reviews, job, req, count, analysed, merge,
                   abandoned>>

(* A scan is requested, finishes, or its AI review is decided again.       *)
ScanChanges(s) ==
    /\ Event
    /\ s.head <= prov.head
    /\ s.ai \/ s.critical => s.done
    /\ scan' = s
    /\ analysed' = IF s.ai THEN analysed \cup {s.head} ELSE analysed
    /\ UNCHANGED <<remote, pull, reviews, job, req, merge, abandoned>>

-----------------------------------------------------------------------------
(* ReviewsService.submit.                                                  *)

Reply(r) == req' = [req EXCEPT ![r] = NoRequest]
Continue(r, pc) == req' = [req EXCEPT ![r].pc = pc]

(* Mutant of AiReviewedHead: a finished AI review of any commit will do.   *)
AiReviewedSome(h) == scan.done /\ scan.ai

AiReviewedHead(h) == scan.done /\ scan.head = h /\ scan.ai

(* A request begins.                                                       *)
Called(r) == /\ req[r].pc = "idle" /\ count.calls < MaxCalls
             /\ count' = [count EXCEPT !.calls = @ + 1]

(* The pull request and its latest scan are read together; what require    *)
(* both asks of them is checked on that reading, so it is asked here.      *)
StartSubmit(r, u, d) ==
    /\ Called(r) /\ Len(reviews) < MaxReviews
    /\ pull.state = "OPEN"
    /\ d = "APPROVE" /\ policy = "REQUIRE_BOTH" => AiReviewedHead(pull.head)
    /\ req' = [req EXCEPT ![r] = [NoRequest EXCEPT !.pc = "mine", !.by = u,
                                    !.decision = d, !.head = pull.head]]
    /\ UNCHANGED <<remote, local, reviews, job, merge, abandoned>>

Mine(q) == {v \in DOMAIN reviews : reviews[v].by = q.by
                                   /\ reviews[v].head = q.head}

CheckMine(r) ==
    /\ req[r].pc = "mine"
    /\ IF \E v \in Mine(req[r]) :
            /\ \A x \in Mine(req[r]) : x <= v
            /\ reviews[v].decision = req[r].decision
       THEN Reply(r) ELSE Continue(r, "create")
    /\ UNCHANGED <<remote, local, reviews, job, count, merge, abandoned>>

CreateReview(r) ==
    /\ req[r].pc = "create" /\ Len(reviews) < MaxReviews
    /\ reviews' = Append(reviews,
         [head |-> req[r].head, decision |-> req[r].decision,
          by |-> req[r].by, sync |-> "PENDING"])
    /\ req' = [req EXCEPT ![r] = [NoRequest EXCEPT !.pc = "enqueue",
                                    !.review = Len(reviews) + 1]]
    /\ UNCHANGED <<remote, local, job, count, merge, abandoned>>

(* enqueueSync.                                                            *)
EnqueueSync(r) ==
    /\ req[r].pc = "enqueue"
    /\ job' = [job EXCEPT ![req[r].review] = [NoJob EXCEPT !.pc = "waiting"]]
    /\ Reply(r)
    /\ UNCHANGED <<remote, local, reviews, count, merge, abandoned>>

EnqueueThrows(r) ==
    /\ req[r].pc = "enqueue"
    /\ Continue(r, "mark")
    /\ Event
    /\ UNCHANGED <<remote, local, reviews, job, merge, abandoned>>

MarkFailed(r) ==
    /\ req[r].pc = "mark"
    /\ reviews' = [reviews EXCEPT ![req[r].review].sync = "FAILED"]
    /\ Reply(r)
    /\ UNCHANGED <<remote, local, job, count, merge, abandoned>>

(* retrySync: a decision on an older commit is not sent again.             *)
StartRetry(r, v) ==
    /\ Called(r)
    /\ v \in DOMAIN reviews
    /\ reviews[v].sync = "FAILED" /\ reviews[v].head = pull.head
    /\ req' = [req EXCEPT ![r] = [NoRequest EXCEPT !.pc = "retry",
                                    !.review = v]]
    /\ UNCHANGED <<remote, local, reviews, job, merge, abandoned>>

Retry(r) ==
    LET v == req[r].review
    IN  /\ req[r].pc = "retry"
        /\ IF reviews[v].sync = "FAILED"
           THEN /\ reviews' = [reviews EXCEPT ![v].sync = "PENDING"]
                /\ Continue(r, "enqueue")
           ELSE Reply(r) /\ UNCHANGED reviews
        /\ UNCHANGED <<remote, local, job, count, merge, abandoned>>

-----------------------------------------------------------------------------
(* MergeService.merge.                                                     *)

StartMerge(r, override) ==
    /\ Called(r)
    /\ pull.state = "OPEN"
    /\ req' = [req EXCEPT ![r] = [NoRequest EXCEPT !.pc = "blockers",
                                    !.head = pull.head,
                                    !.scan = scan, !.override = override]]
    /\ UNCHANGED <<remote, local, reviews, job, merge, abandoned>>

OnHead(h, n) == {v \in 1..n : reviews[v].head = h}

(* Mutant of LatestPerReviewer: each reviewer's first decision.            *)
FirstPerReviewer(h, n) ==
    {reviews[v].decision : v \in
        {v \in OnHead(h, n) : \A x \in OnHead(h, n) :
                               reviews[x].by = reviews[v].by => v <= x}}

(* latestPerReviewer: the decisions that count, among the first n reviews. *)
LatestPerReviewer(h, n) ==
    {reviews[v].decision : v \in
        {v \in OnHead(h, n) : \A x \in OnHead(h, n) :
                               reviews[x].by = reviews[v].by => x <= v}}

(* mergeBlockers, for a pull request that was read as open.                *)
MergeBlockers(q) ==
    LET decisions == LatestPerReviewer(q.head, Len(reviews))
        scanned == q.scan.done /\ q.scan.head = q.head
    IN  (IF "APPROVE" \in decisions THEN {} ELSE {"approval_required"})
        \cup (decisions \cap {"REQUEST_CHANGES"})
        \cup (IF ~scanned THEN {"scan_required"}
              ELSE IF q.scan.critical THEN {"critical_findings"} ELSE {})

CheckBlockers(r) ==
    LET overridden == IF req[r].override THEN {"critical_findings"} ELSE {}
    IN  /\ req[r].pc = "blockers"
        /\ IF MergeBlockers(req[r]) \subseteq overridden
           THEN req' = [req EXCEPT ![r].pc = "merge",
                                   ![r].read = Len(reviews)]
           ELSE Reply(r)
        /\ UNCHANGED <<remote, local, reviews, job, count, merge, abandoned>>

(* Mutant of Mergeable: the merge names no commit.                         *)
MergeableUnpinned(h) == prov.state = "OPEN"

(* The provider merges that very commit, or refuses.                       *)
Mergeable(h) == prov.state = "OPEN" /\ prov.head = h

MergeOnProvider(r) ==
    /\ req[r].pc = "merge" /\ Mergeable(req[r].head)
    /\ prov' = [prov EXCEPT !.state = "MERGED"]
    /\ events' = events \cup {<<prov.head, "MERGED">>}
    /\ merge' = [head |-> prov.head, read |-> req[r].read,
                 scan |-> req[r].scan, override |-> req[r].override]
    /\ UNCHANGED <<source, policy, local, reviews, job, abandoned>>

CallMerge(r) ==
    /\ MergeOnProvider(r)
    /\ Continue(r, "record")
    /\ UNCHANGED count

MergeAnswerLost(r) ==
    /\ MergeOnProvider(r)
    /\ Reply(r)
    /\ Event

MergeRefused(r) ==
    /\ req[r].pc = "merge"
    /\ Reply(r)
    /\ UNCHANGED <<remote, local, reviews, job, count, merge, abandoned>>

(* The scans it cancels are in flight: none that the rules ask for.        *)
RecordMerge(r) ==
    /\ req[r].pc = "record"
    /\ pull' = [pull EXCEPT !.state = "MERGED"]
    /\ Reply(r)
    /\ UNCHANGED <<remote, scan, reviews, job, count, analysed, merge,
                   abandoned>>

(* The API process dies; a review waiting for its job stays without one.   *)
ApiCrash(r) ==
    /\ req[r].pc # "idle"
    /\ abandoned' = IF req[r].pc \in {"enqueue", "mark"}
                    THEN abandoned \cup {req[r].review} ELSE abandoned
    /\ Reply(r)
    /\ Event
    /\ UNCHANGED <<remote, local, reviews, job, merge>>

-----------------------------------------------------------------------------
(* ReviewSyncProcessor.                                                    *)

Goto(v, pc) == job' = [job EXCEPT ![v].pc = pc]

TakeJob(v) ==
    /\ job[v].pc = "waiting"
    /\ job' = [job EXCEPT ![v] = IF reviews[v].sync = "PENDING"
                                 THEN [job[v] EXCEPT !.pc = "send"]
                                 ELSE NoJob]
    /\ UNCHANGED <<remote, local, reviews, req, count, merge, abandoned>>

(* Mutant of GivesUp: the attempt that exhausts the job throws as well.    *)
GivesUpRefused(v, retryable) == ~retryable

GivesUp(v, retryable) == ~retryable \/ job[v].made + 1 >= Attempts

Again(v) == IF job[v].made + 1 < Attempts
            THEN [job[v] EXCEPT !.pc = "waiting", !.made = @ + 1] ELSE NoJob

(* The catch of process.                                                   *)
SendFailed(v, retryable) ==
    IF GivesUp(v, retryable) THEN Goto(v, "fail")
    ELSE job' = [job EXCEPT ![v] = Again(v)]

Withdraws(v) == source = "GITLAB" /\ reviews[v].decision = "REQUEST_CHANGES"

(* Mutant of Accepted: GitLab is not told which commit is approved.        *)
AcceptedUnpinned(v) == TRUE

(* GitLab approves only the head it has; GitHub reviews a commit.          *)
Accepted(v) ==
    source = "GITLAB" /\ reviews[v].decision = "APPROVE"
        => prov.head = reviews[v].head

(* The approvals once the provider has taken review v.  On GitLab all are  *)
(* given by the one user of the token: an approval that is already there   *)
(* is the outcome asked for, a request for changes withdraws it.           *)
Approvals(v) ==
    CASE source = "GITHUB" /\ reviews[v].decision = "APPROVE" ->
            prov.approved \cup {<<v, reviews[v].head>>}
      [] source = "GITLAB" /\ reviews[v].decision = "APPROVE" ->
            IF prov.approved = {} THEN {<<v, prov.head>>} ELSE prov.approved
      [] Withdraws(v) -> {}
      [] OTHER -> prov.approved

SendOnProvider(v) ==
    /\ job[v].pc = "send" /\ prov.state = "OPEN" /\ Accepted(v)
    /\ prov' = [prov EXCEPT !.approved = Approvals(v)]
    /\ UNCHANGED <<source, policy, events, local, reviews, req, merge,
                   abandoned>>

Send(v) ==
    /\ SendOnProvider(v)
    /\ Goto(v, IF Withdraws(v) THEN "note" ELSE "store")
    /\ UNCHANGED count

SendAnswerLost(v) ==
    /\ SendOnProvider(v)
    /\ SendFailed(v, TRUE)
    /\ Event

(* GitLab has no such verb: the note that gives the reason is the          *)
(* substance, and its failure that of the whole attempt.                   *)
SendNote(v) ==
    /\ job[v].pc = "note"
    /\ Goto(v, "store")
    /\ UNCHANGED <<remote, local, reviews, req, count, merge, abandoned>>

SendFails(v, retryable) ==
    /\ job[v].pc \in {"send", "note"}
    /\ SendFailed(v, retryable)
    /\ UNCHANGED <<remote, local, reviews, req, count, merge, abandoned>>

Settle(v, status) ==
    /\ reviews' = IF reviews[v].sync = "PENDING"
                  THEN [reviews EXCEPT ![v].sync = status] ELSE reviews
    /\ job' = [job EXCEPT ![v] = NoJob]
    /\ UNCHANGED <<remote, local, req, count, merge, abandoned>>

StoreSynced(v) == job[v].pc = "store" /\ Settle(v, "SYNCED")

StoreFailed(v) == job[v].pc = "fail" /\ Settle(v, "FAILED")

(* The write is not inside the try: the attempt fails, or the job.         *)
StoreThrows(v) ==
    /\ job[v].pc \in {"store", "fail"}
    /\ job' = [job EXCEPT ![v] = Again(v)]
    /\ abandoned' = IF Again(v) = NoJob THEN abandoned \cup {v} ELSE abandoned
    /\ Event
    /\ UNCHANGED <<remote, local, reviews, req, merge>>

(* The worker dies; the stalled check gives the job to another one, once.  *)
WorkerDies(v) ==
    /\ job[v].pc \in JobPcs \ {"none", "waiting"}
    /\ job' = [job EXCEPT ![v] = IF job[v].stalled THEN NoJob
                                 ELSE [job[v] EXCEPT !.pc = "waiting",
                                                     !.stalled = TRUE]]
    /\ abandoned' = IF job[v].stalled THEN abandoned \cup {v} ELSE abandoned
    /\ Event
    /\ UNCHANGED <<remote, local, reviews, req, merge>>

-----------------------------------------------------------------------------
Api(r) ==
    \/ \E u \in Reviewers, d \in Decisions : StartSubmit(r, u, d)
    \/ CheckMine(r) \/ CreateReview(r)
    \/ EnqueueSync(r) \/ EnqueueThrows(r) \/ MarkFailed(r)
    \/ \E v \in ReviewIds : StartRetry(r, v)
    \/ Retry(r)
    \/ \E override \in BOOLEAN : StartMerge(r, override)
    \/ CheckBlockers(r) \/ CallMerge(r) \/ MergeAnswerLost(r)
    \/ MergeRefused(r) \/ RecordMerge(r) \/ ApiCrash(r)

Sync(v) ==
    \/ TakeJob(v) \/ Send(v) \/ SendAnswerLost(v) \/ SendNote(v)
    \/ \E retryable \in BOOLEAN : SendFails(v, retryable)
    \/ StoreSynced(v) \/ StoreFailed(v) \/ StoreThrows(v) \/ WorkerDies(v)

Next ==
    \/ Push
    \/ \E e \in events : DeliverPull(e)
    \/ \E s \in Scan : ScanChanges(s)
    \/ \E r \in Requests : Api(r)
    \/ \E v \in ReviewIds : Sync(v)

Spec == Init /\ [][Next]_vars

-----------------------------------------------------------------------------
(* Safety.                                                                 *)

(* MergeService: Critiq's rules run first and the provider merges the      *)
(* commit they ran on.  Whatever is pushed, decided, scanned or delivered  *)
(* late meanwhile, the merged commit itself was approved, its scan done    *)
(* and clean (or overridden), and nobody's last word on it, when the rules *)
(* were applied, was a request for changes.                                *)
MergedCleared ==
    merge.head # 0 =>
        LET given == {v \in 1..merge.read : reviews[v].head = merge.head}
        IN  /\ \E v \in given : reviews[v].decision = "APPROVE"
            /\ \A v \in given :
                 reviews[v].decision = "REQUEST_CHANGES" =>
                     \E x \in given : x > v /\ reviews[x].by = reviews[v].by
            /\ merge.scan.done /\ merge.scan.head = merge.head
            /\ merge.scan.critical => merge.override

(* Require both: whatever a later rescan or regenerate does to the scan,   *)
(* an approval was given for a commit whose own AI review was finished.    *)
RequireBothSeen ==
    policy = "REQUIRE_BOTH" =>
        \A v \in DOMAIN reviews :
            reviews[v].decision = "APPROVE" => reviews[v].head \in analysed

(* submit: "the decision is for the commit the reviewer saw".  Copied      *)
(* late, retried or sent twice, an approval never lands on another commit. *)
ApprovalsPinned == \A a \in prov.approved : reviews[a[1]].head = a[2]

(* A decision shown as on its way is: a request is about to queue it or    *)
(* mark it failed, or its job is left, unless the API or the job died.     *)
PendingHasWork ==
    \A v \in DOMAIN reviews :
        reviews[v].sync = "PENDING" /\ v \notin abandoned =>
            \/ \E r \in Requests : /\ req[r].review = v
                                   /\ req[r].pc \in {"enqueue", "mark"}
            \/ job[v].pc # "none"

=============================================================================
