-------------------------- MODULE ReviewSyncProofs --------------------------
(***************************************************************************)
(* Proofs about ReviewSync, for any number of reviewers, concurrent        *)
(* requests, commits, decisions, faults and attempts.  The inductive       *)
(* invariant IInv has five parts, one section each: the types; what a      *)
(* merge in progress and a recorded merge were cleared on; what the        *)
(* reviewers of a require-both pull request had seen; where an approval    *)
(* stands on the provider; and who still works on a pending decision.      *)
(***************************************************************************)
EXTENDS ReviewSync, SequenceTheorems, TLAPS

USE BoundsAssumption

-----------------------------------------------------------------------------
(* Types.  A request that works on a review has one; so has a job.         *)

OnReview == {"enqueue", "mark", "retry"}

RequestOK(q) ==
    /\ q \in Request
    /\ q.pc \in {"mine", "create"} => q.by \in Reviewers
    /\ q.pc \in OnReview => q.review \in DOMAIN reviews

TypeInv ==
    /\ TypeOK
    /\ \A r \in Requests : RequestOK(req[r])
    /\ \A v \in ReviewIds : job[v].pc # "none" => v \in DOMAIN reviews

(* Reviews are only added, and keep who decided what on which commit.      *)
KeepsReviews ==
    /\ Len(reviews) <= Len(reviews')
    /\ \A v \in DOMAIN reviews : /\ reviews'[v].head = reviews[v].head
                                 /\ reviews'[v].by = reviews[v].by
                                 /\ reviews'[v].decision = reviews[v].decision

LEMMA InitType == Init => TypeInv
<1> SUFFICES ASSUME Init PROVE TypeInv
  OBVIOUS
<1>1. 1 \in Heads /\ NoScan \in Scan
  BY DEF Heads, NoScan, Scan
<1>2. NoRequest \in Request /\ NoRequest.pc = "idle"
  BY <1>1 DEF NoRequest, Request, ReqPcs, Decisions
<1>3. /\ prov \in Remote /\ pull \in Pull /\ scan \in Scan
  BY <1>1 DEF Init, Remote, Pull, Scan, NoScan
<1>4. /\ reviews \in Seq(Review) /\ Len(reviews) <= MaxReviews
      /\ DOMAIN reviews = {}
  BY DEF Init
<1>5. job \in [ReviewIds -> Job] /\ \A v \in ReviewIds : job[v].pc = "none"
  BY DEF Init, NoJob, Job, JobPcs
<1>6. merge \in [head : Heads \cup {0}, read : 0..MaxReviews, scan : Scan,
                 override : BOOLEAN]
  BY <1>1 DEF Init, NoMerge
<1>7. /\ count \in [calls : 0..MaxCalls, events : 0..MaxEvents]
      /\ events \subseteq Heads \X {"OPEN", "MERGED"}
      /\ analysed \subseteq Heads /\ abandoned \subseteq ReviewIds
      /\ source \in {"GITHUB", "GITLAB"} /\ policy \in Policies
      /\ req \in [Requests -> Request]
  BY <1>1, <1>2 DEF Init
<1>8. \A r \in Requests : RequestOK(req[r])
  BY <1>2 DEF Init, RequestOK, OnReview
<1> QED
  BY <1>3, <1>4, <1>5, <1>6, <1>7, <1>8 DEF TypeInv, TypeOK

LEMMA Bounds ==
  ASSUME TypeInv
  PROVE  /\ reviews \in Seq(Review) /\ Len(reviews) \in Nat
         /\ DOMAIN reviews = 1..Len(reviews) /\ Len(reviews) <= MaxReviews
         /\ DOMAIN reviews \subseteq ReviewIds
         /\ \A v \in DOMAIN reviews : v \in Int /\ reviews[v] \in Review
<1>1. reviews \in Seq(Review) /\ Len(reviews) <= MaxReviews
  BY DEF TypeInv, TypeOK
<1>2. Len(reviews) \in Nat /\ DOMAIN reviews = 1..Len(reviews)
  BY <1>1, LenProperties
<1>3. \A v \in 1..Len(reviews) : v \in Int /\ v \in ReviewIds
  BY <1>1, <1>2 DEF ReviewIds
<1>4. \A v \in 1..Len(reviews) : reviews[v] \in Review
  BY <1>1, ElementOfSeq
<1> QED
  BY <1>1, <1>2, <1>3, <1>4

Stable ==
    /\ reviews' \in Seq(Review) /\ Len(reviews') <= MaxReviews
    /\ DOMAIN reviews \subseteq DOMAIN reviews'
    /\ KeepsReviews

LEMMA SyncWritten ==
  ASSUME TypeInv, NEW v \in DOMAIN reviews,
         NEW s \in {"PENDING", "SYNCED", "FAILED"},
         reviews' = [reviews EXCEPT ![v].sync = s]
  PROVE  /\ Stable /\ DOMAIN reviews' = DOMAIN reviews
         /\ \A x \in DOMAIN reviews : x # v => reviews'[x] = reviews[x]
         /\ reviews'[v].sync = s
<1>1. PICK w : w = [reviews[v] EXCEPT !.sync = s]
  OBVIOUS
<1>2. /\ w \in Review /\ w.head = reviews[v].head /\ w.by = reviews[v].by
      /\ w.decision = reviews[v].decision /\ w.sync = s
  BY <1>1, Bounds DEF Review
<1>3. reviews' = [reviews EXCEPT ![v] = w]
  BY <1>1
<1>4. /\ reviews' \in Seq(Review) /\ Len(reviews') = Len(reviews)
      /\ \A x \in 1..Len(reviews) : reviews'[x] = IF x = v THEN w ELSE reviews[x]
  BY <1>2, <1>3, Bounds, ExceptSeq
<1>5. DOMAIN reviews' = DOMAIN reviews
  BY <1>3
<1>6. /\ \A x \in DOMAIN reviews : x # v => reviews'[x] = reviews[x]
      /\ reviews'[v] = w
  BY <1>4, Bounds
<1>7. KeepsReviews
  BY <1>2, <1>4, <1>6, Bounds DEF KeepsReviews
<1> QED
  BY <1>2, <1>4, <1>5, <1>6, <1>7, Bounds DEF Stable

LEMMA ReviewAdded ==
  ASSUME TypeInv, NEW r \in Requests, CreateReview(r)
  PROVE  /\ Stable /\ DOMAIN reviews' = DOMAIN reviews \cup {Len(reviews) + 1}
         /\ Len(reviews) + 1 \notin DOMAIN reviews
         /\ \A x \in DOMAIN reviews : reviews'[x] = reviews[x]
         /\ reviews'[Len(reviews) + 1] =
              [head |-> req[r].head, decision |-> req[r].decision,
               by |-> req[r].by, sync |-> "PENDING"]
<1>1. PICK w : w = [head |-> req[r].head, decision |-> req[r].decision,
                    by |-> req[r].by, sync |-> "PENDING"]
  OBVIOUS
<1>2. w \in Review
  <2>1. req[r] \in Request /\ req[r].by \in Reviewers
    BY DEF TypeInv, RequestOK, CreateReview
  <2> QED
    BY <1>1, <2>1 DEF Request, Review
<1>3. reviews' = Append(reviews, w)
  BY <1>1 DEF CreateReview
<1>4. /\ reviews' \in Seq(Review) /\ Len(reviews') = Len(reviews) + 1
      /\ \A x \in 1..Len(reviews) : reviews'[x] = reviews[x]
      /\ reviews'[Len(reviews) + 1] = w
  BY <1>2, <1>3, Bounds, AppendProperties
<1>5. DOMAIN reviews' = 1..(Len(reviews) + 1)
  BY <1>4, LenProperties
<1>6. /\ DOMAIN reviews' = DOMAIN reviews \cup {Len(reviews) + 1}
      /\ Len(reviews) + 1 \notin DOMAIN reviews
  BY <1>5, Bounds
<1>7. Len(reviews') <= MaxReviews /\ Len(reviews) <= Len(reviews')
  BY <1>4, Bounds DEF CreateReview
<1> QED
  BY <1>1, <1>4, <1>6, <1>7, Bounds DEF Stable, KeepsReviews

(* Which rows a step writes.                                               *)
WriteSync ==
    \E v \in DOMAIN reviews, s \in {"PENDING", "SYNCED", "FAILED"} :
        reviews' = [reviews EXCEPT ![v].sync = s]

LEMMA RowsStep ==
  ASSUME TypeInv, [Next]_vars
  PROVE  UNCHANGED reviews \/ WriteSync \/ \E r \in Requests : CreateReview(r)
<1>0. /\ \A r \in Requests : RequestOK(req[r])
      /\ \A v \in ReviewIds : job[v].pc # "none" => v \in DOMAIN reviews
  BY DEF TypeInv
<1>1. ASSUME NEW r \in Requests, Api(r)
      PROVE  UNCHANGED reviews \/ WriteSync \/ CreateReview(r)
  <2>1. CASE MarkFailed(r)
    BY <1>0, <2>1 DEF MarkFailed, WriteSync, RequestOK, OnReview
  <2>2. CASE Retry(r)
    BY <1>0, <2>2 DEF Retry, WriteSync, RequestOK, OnReview
  <2>3. CASE ~MarkFailed(r) /\ ~Retry(r) /\ ~CreateReview(r)
    BY <1>1, <2>3 DEF Api, StartSubmit, CheckMine, EnqueueSync, EnqueueThrows,
       StartRetry, StartMerge, CheckBlockers, CallMerge, MergeAnswerLost,
       MergeOnProvider, MergeRefused, RecordMerge, ApiCrash
  <2> QED
    BY <2>1, <2>2, <2>3
<1>2. ASSUME NEW v \in ReviewIds, Sync(v) PROVE UNCHANGED reviews \/ WriteSync
  <2>1. ASSUME NEW s \in {"SYNCED", "FAILED"}, Settle(v, s), job[v].pc # "none"
        PROVE  UNCHANGED reviews \/ WriteSync
    BY <1>0, <2>1 DEF Settle, WriteSync
  <2>2. CASE StoreSynced(v) \/ StoreFailed(v)
    BY <2>1, <2>2 DEF StoreSynced, StoreFailed
  <2>3. CASE ~StoreSynced(v) /\ ~StoreFailed(v)
    BY <1>2, <2>3 DEF Sync, TakeJob, Send, SendAnswerLost, SendOnProvider,
       SendNote, SendFails, StoreThrows, WorkerDies
  <2> QED
    BY <2>2, <2>3
<1> QED
  BY <1>1, <1>2 DEF Next, Push, DeliverPull, ScanChanges, vars

LEMMA ReviewsStable == ASSUME TypeInv, [Next]_vars PROVE Stable
<1>1. CASE UNCHANGED reviews
  BY <1>1, Bounds DEF Stable, KeepsReviews
<1>2. CASE WriteSync
  BY <1>2, SyncWritten DEF WriteSync
<1>3. CASE \E r \in Requests : CreateReview(r)
  BY <1>3, ReviewAdded
<1> QED
  BY <1>1, <1>2, <1>3, RowsStep

RequestsOK == req \in [Requests -> Request] /\ \A r \in Requests : RequestOK(req[r])

LEMMA RequestsStep == ASSUME TypeInv, [Next]_vars PROVE RequestsOK'
<1>0. /\ TypeOK /\ \A r \in Requests : req[r] \in Request /\ RequestOK(req[r])
      /\ DOMAIN reviews \subseteq DOMAIN reviews'
  BY ReviewsStable DEF TypeInv, RequestOK, Stable
<1>1. ASSUME NEW q, RequestOK(q) PROVE RequestOK(q)'
  BY <1>0, <1>1 DEF RequestOK
<1>2. ASSUME NEW r \in Requests, NEW q, RequestOK(q)', req' = [req EXCEPT ![r] = q]
      PROVE  RequestsOK'
  <2>1. q \in Request
    BY <1>2 DEF RequestOK
  <2>2. req' \in [Requests -> Request]
    BY <1>0, <1>2, <2>1 DEF TypeOK
  <2>3. ASSUME NEW x \in Requests PROVE RequestOK(req[x])'
    <3>1. PICK p : p = req[x]
      OBVIOUS
    <3>2. RequestOK(p)'
      BY <1>0, <1>1, <3>1
    <3>3. req'[x] = p \/ req'[x] = q
      BY <1>0, <1>2, <3>1 DEF TypeOK
    <3> QED
      BY <1>2, <3>2, <3>3 DEF RequestOK
  <2> QED
    BY <2>2, <2>3 DEF RequestsOK
<1>3. ASSUME NEW r \in Requests, Reply(r) PROVE RequestsOK'
  <2>1. RequestOK(NoRequest)'
    BY DEF RequestOK, NoRequest, OnReview, Request, ReqPcs, Decisions, Heads,
       NoScan, Scan
  <2> QED
    BY <1>2, <1>3, <2>1 DEF Reply
<1>4. ASSUME NEW r \in Requests, NEW pc \in ReqPcs, Continue(r, pc),
             pc \in {"mine", "create"} => req[r].pc \in {"mine", "create"},
             pc \in OnReview => req[r].pc \in OnReview
      PROVE  RequestsOK'
  <2>1. PICK q : q = [req[r] EXCEPT !.pc = pc]
    OBVIOUS
  <2>2. RequestOK(q)
    BY <1>0, <1>4, <2>1 DEF RequestOK, Request
  <2> QED
    BY <1>1, <1>2, <1>4, <2>1, <2>2 DEF Continue
<1>5. ASSUME UNCHANGED req PROVE RequestsOK'
  <2>1. ASSUME NEW x \in Requests PROVE RequestOK(req[x])'
    <3>1. PICK p : p = req[x]
      OBVIOUS
    <3>2. RequestOK(p)'
      BY <1>0, <1>1, <3>1
    <3> QED
      BY <1>5, <3>1, <3>2 DEF RequestOK
  <2> QED
    BY <1>0, <1>5, <2>1 DEF RequestsOK, TypeOK
<1>n. NoRequest \in Request
  BY DEF NoRequest, NoScan, Scan, Heads, Request, ReqPcs, Decisions
<1> USE DEF RequestOK, OnReview, Request, ReqPcs
<1>6. ASSUME NEW r \in Requests, NEW u \in Reviewers, NEW d \in Decisions,
             StartSubmit(r, u, d)
      PROVE  RequestsOK'
  <2>1. pull.head \in Heads /\ 1 \in Heads
    BY <1>0 DEF TypeOK, Pull, Heads
  <2>2. PICK q : q = [NoRequest EXCEPT !.pc = "mine", !.by = u, !.decision = d,
                                       !.head = pull.head]
    OBVIOUS
  <2>3. q \in Request /\ q.pc = "mine" /\ q.by = u
    BY <1>n, <2>1, <2>2
  <2>4. RequestOK(q)
    BY <2>3
  <2> HIDE DEF RequestOK, Request
  <2> QED
    BY <1>1, <1>2, <1>6, <2>2, <2>4 DEF StartSubmit
<1>7. ASSUME NEW r \in Requests, CreateReview(r) PROVE RequestsOK'
  <2>1. PICK v : v = Len(reviews) + 1
    OBVIOUS
  <2>2. PICK q : q = [NoRequest EXCEPT !.pc = "enqueue", !.review = v]
    OBVIOUS
  <2>3. v \in DOMAIN reviews'
    BY <1>7, <2>1, ReviewAdded
  <2>4. v \in ReviewIds /\ 1 \in Heads
    BY <1>0, <1>7, <2>1, Bounds DEF CreateReview, ReviewIds, Heads
  <2>5. q \in Request /\ q.pc = "enqueue" /\ q.review = v
    BY <1>n, <2>2, <2>4
  <2>6. RequestOK(q)'
    BY <2>3, <2>5
  <2> HIDE DEF RequestOK, Request
  <2> QED
    BY <1>2, <1>7, <2>1, <2>2, <2>6 DEF CreateReview
<1>8. ASSUME NEW r \in Requests, NEW v \in ReviewIds, StartRetry(r, v)
      PROVE  RequestsOK'
  <2>1. PICK q : q = [NoRequest EXCEPT !.pc = "retry", !.review = v]
    OBVIOUS
  <2>2. v \in DOMAIN reviews /\ 1 \in Heads
    BY <1>8 DEF StartRetry, Heads
  <2>3. q \in Request /\ q.pc = "retry" /\ q.review = v
    BY <1>n, <2>1, <2>2
  <2>4. RequestOK(q)
    BY <2>2, <2>3
  <2> HIDE DEF RequestOK, Request
  <2> QED
    BY <1>1, <1>2, <1>8, <2>1, <2>4 DEF StartRetry
<1>9. ASSUME NEW r \in Requests, NEW o \in BOOLEAN, StartMerge(r, o)
      PROVE  RequestsOK'
  <2>1. pull.head \in Heads /\ 1 \in Heads /\ scan \in Scan
    BY <1>0 DEF TypeOK, Pull, Heads
  <2>2. PICK q : q = [NoRequest EXCEPT !.pc = "blockers", !.head = pull.head,
                                       !.scan = scan, !.override = o]
    OBVIOUS
  <2>3. q \in Request /\ q.pc = "blockers"
    BY <1>n, <2>1, <2>2
  <2>4. RequestOK(q)
    BY <2>3
  <2> HIDE DEF RequestOK, Request
  <2> QED
    BY <1>1, <1>2, <1>9, <2>2, <2>4 DEF StartMerge
<1>10. ASSUME NEW r \in Requests, CheckBlockers(r) PROVE RequestsOK'
  <2>1. PICK n : n = Len(reviews)
    OBVIOUS
  <2>2. PICK q : q = [req[r] EXCEPT !.pc = "merge", !.read = n]
    OBVIOUS
  <2>3. n \in 0..MaxReviews
    BY <2>1, Bounds
  <2>4. RequestOK(q)
    BY <1>0, <2>2, <2>3
  <2>5. Reply(r) \/ req' = [req EXCEPT ![r] = q]
    BY <1>10, <2>1, <2>2 DEF CheckBlockers
  <2> HIDE DEF RequestOK, Request
  <2> QED
    BY <1>1, <1>2, <1>3, <2>4, <2>5
<1> HIDE DEF RequestOK, Request
<1>11. ASSUME NEW r \in Requests, Retry(r) PROVE RequestsOK'
  BY <1>3, <1>4, <1>11 DEF Retry
<1>12. ASSUME NEW r \in Requests, Api(r) PROVE RequestsOK'
  <2>1. CASE \/ CheckMine(r) \/ EnqueueSync(r) \/ EnqueueThrows(r)
             \/ MarkFailed(r) \/ CallMerge(r) \/ MergeAnswerLost(r)
             \/ MergeRefused(r) \/ RecordMerge(r) \/ ApiCrash(r)
    BY <1>3, <1>4, <2>1
       DEF CheckMine, EnqueueSync, EnqueueThrows, MarkFailed, CallMerge,
           MergeAnswerLost, MergeRefused, RecordMerge, ApiCrash,
           MergeOnProvider
  <2> QED
    BY <1>6, <1>7, <1>8, <1>9, <1>10, <1>11, <1>12, <2>1 DEF Api
<1>13. ASSUME NEW v \in ReviewIds, Sync(v) PROVE UNCHANGED req
  BY <1>13 DEF Sync, TakeJob, Send, SendAnswerLost, SendOnProvider, SendNote,
     SendFails, StoreSynced, StoreFailed, Settle, StoreThrows, WorkerDies
<1> QED
  BY <1>5, <1>12, <1>13 DEF Next, Push, DeliverPull, ScanChanges, vars

JobsOK ==
    /\ job \in [ReviewIds -> Job]
    /\ \A v \in ReviewIds : job[v].pc # "none" => v \in DOMAIN reviews

LEMMA JobsStep == ASSUME TypeInv, [Next]_vars PROVE JobsOK'
<1>0. /\ TypeOK /\ DOMAIN reviews \subseteq DOMAIN reviews'
      /\ \A v \in ReviewIds : /\ job[v] \in Job
                              /\ job[v].pc # "none" => v \in DOMAIN reviews
  BY ReviewsStable DEF TypeInv, TypeOK, Stable
<1>1. ASSUME NEW v \in ReviewIds, NEW j \in Job, job' = [job EXCEPT ![v] = j],
             j.pc # "none" => v \in DOMAIN reviews
      PROVE  JobsOK'
  BY <1>0, <1>1 DEF JobsOK, TypeOK
<1>2. CASE UNCHANGED job
  BY <1>0, <1>2 DEF JobsOK, TypeOK
<1>3. NoJob \in Job /\ NoJob.pc = "none"
  BY DEF NoJob, Job, JobPcs
<1>4. ASSUME NEW r \in Requests, EnqueueSync(r) PROVE JobsOK'
  <2>1. PICK v : v = req[r].review
    OBVIOUS
  <2>2. v \in DOMAIN reviews /\ v \in ReviewIds
    BY <1>4, <2>1, Bounds DEF EnqueueSync, TypeInv, RequestOK, OnReview
  <2>3. PICK j : j = [NoJob EXCEPT !.pc = "waiting"]
    OBVIOUS
  <2>4. j \in Job
    BY <2>3 DEF NoJob, Job, JobPcs
  <2> QED
    BY <1>1, <1>4, <2>1, <2>2, <2>3, <2>4 DEF EnqueueSync
<1>5. ASSUME NEW v \in ReviewIds, Sync(v) PROVE JobsOK'
  <2>1. job[v].pc # "none" /\ v \in DOMAIN reviews
    BY <1>0, <1>5 DEF Sync, TakeJob, Send, SendAnswerLost, SendOnProvider,
       SendNote, SendFails, StoreSynced, StoreFailed, StoreThrows, WorkerDies
  <2>2. ASSUME NEW j \in Job, job' = [job EXCEPT ![v] = j] PROVE JobsOK'
    BY <1>1, <2>1, <2>2
  <2>3. ASSUME NEW pc \in JobPcs, Goto(v, pc) PROVE JobsOK'
    <3>1. PICK j : j = [job[v] EXCEPT !.pc = pc]
      OBVIOUS
    <3>2. j \in Job
      BY <1>0, <3>1 DEF Job
    <3> QED
      BY <2>2, <2>3, <3>1, <3>2 DEF Goto
  <2>4. Again(v) \in Job
    <3>1. job[v].made + 1 \in Nat
      BY <1>0 DEF Job
    <3>2. [job[v] EXCEPT !.pc = "waiting", !.made = job[v].made + 1] \in Job
      BY <1>0, <3>1 DEF Job, JobPcs
    <3> QED
      BY <1>3, <3>2 DEF Again
  <2>5. ASSUME NEW b \in BOOLEAN, SendFailed(v, b) PROVE JobsOK'
    BY <2>2, <2>3, <2>4, <2>5 DEF SendFailed, JobPcs
  <2>6. CASE TakeJob(v) \/ WorkerDies(v)
    <3>1. PICK j : j = [job[v] EXCEPT !.pc = "send"]
      OBVIOUS
    <3>2. PICK k : k = [job[v] EXCEPT !.pc = "waiting", !.stalled = TRUE]
      OBVIOUS
    <3>3. j \in Job /\ k \in Job
      BY <1>0, <3>1, <3>2 DEF Job, JobPcs
    <3>4. \/ job' = [job EXCEPT ![v] = j] \/ job' = [job EXCEPT ![v] = k]
          \/ job' = [job EXCEPT ![v] = NoJob]
      BY <2>6, <3>1, <3>2 DEF TakeJob, WorkerDies
    <3> QED
      BY <1>3, <2>2, <3>3, <3>4
  <2>7. CASE Send(v) \/ SendAnswerLost(v) \/ SendNote(v)
    BY <2>3, <2>5, <2>7 DEF Send, SendAnswerLost, SendNote, JobPcs
  <2>8. ASSUME NEW b \in BOOLEAN, SendFails(v, b) PROVE JobsOK'
    BY <2>5, <2>8 DEF SendFails
  <2>9. CASE StoreSynced(v) \/ StoreFailed(v) \/ StoreThrows(v)
    BY <1>3, <2>2, <2>4, <2>9 DEF StoreSynced, StoreFailed, Settle, StoreThrows
  <2> QED
    BY <1>5, <2>6, <2>7, <2>8, <2>9 DEF Sync
<1>6. ASSUME NEW r \in Requests, Api(r) PROVE EnqueueSync(r) \/ UNCHANGED job
  BY <1>6 DEF Api, StartSubmit, CheckMine, CreateReview, EnqueueThrows,
     MarkFailed, StartRetry, Retry, StartMerge, CheckBlockers, CallMerge,
     MergeAnswerLost, MergeOnProvider, MergeRefused, RecordMerge, ApiCrash
<1> QED
  BY <1>2, <1>4, <1>5, <1>6 DEF Next, Push, DeliverPull, ScanChanges, vars

RestOK ==
    /\ source \in {"GITHUB", "GITLAB"}
    /\ policy \in Policies
    /\ prov \in Remote /\ pull \in Pull /\ scan \in Scan
    /\ events \subseteq Heads \X {"OPEN", "MERGED"}
    /\ count \in [calls : 0..MaxCalls, events : 0..MaxEvents]
    /\ analysed \subseteq Heads
    /\ merge \in [head : Heads \cup {0}, read : 0..MaxReviews, scan : Scan,
                  override : BOOLEAN]
    /\ abandoned \subseteq ReviewIds

LEMMA RestStep == ASSUME TypeInv, [Next]_vars PROVE RestOK'
<1>0. RestOK /\ \A r \in Requests : RequestOK(req[r]) /\ req[r] \in Request
  BY DEF TypeInv, TypeOK, RestOK, RequestOK
<1>1. ASSUME Event PROVE count' \in [calls : 0..MaxCalls, events : 0..MaxEvents]
  BY <1>0, <1>1 DEF Event, RestOK
<1>2. ASSUME NEW r \in Requests, Called(r)
      PROVE  count' \in [calls : 0..MaxCalls, events : 0..MaxEvents]
  BY <1>0, <1>2 DEF Called, RestOK
<1>3. CASE Push
  <2>1. /\ prov.head \in Heads /\ prov.head + 1 \in Heads
    BY <1>0, <1>3 DEF Push, RestOK, Remote, Heads
  <2>2. prov' \in Remote
    BY <1>0, <1>3, <2>1 DEF Push, RestOK, Remote
  <2> QED
    BY <1>0, <1>3, <2>1, <2>2 DEF Push, RestOK, local
<1>4. ASSUME NEW e \in events, DeliverPull(e) PROVE RestOK'
  <2>1. e[1] \in Heads /\ e[2] \in {"OPEN", "MERGED"}
    BY <1>0 DEF RestOK
  <2> QED
    BY <1>0, <1>4, <2>1 DEF DeliverPull, MapPayload, RestOK, remote, Pull
<1>5. ASSUME NEW s \in Scan, ScanChanges(s) PROVE RestOK'
  <2>1. s.head \in Heads
    BY DEF Scan
  <2> QED
    BY <1>0, <1>1, <1>5, <2>1 DEF ScanChanges, RestOK, remote
<1>6. ASSUME NEW r \in Requests, MergeOnProvider(r)
      PROVE  /\ prov' \in Remote /\ events' \subseteq Heads \X {"OPEN", "MERGED"}
             /\ merge' \in [head : Heads \cup {0}, read : 0..MaxReviews,
                            scan : Scan, override : BOOLEAN]
             /\ UNCHANGED <<source, policy, local, abandoned>>
  BY <1>0, <1>6 DEF MergeOnProvider, RestOK, Remote, Request
<1>7. ASSUME NEW r \in Requests, Api(r) PROVE RestOK'
  <2>1. CASE CallMerge(r) \/ MergeAnswerLost(r)
    BY <1>0, <1>1, <1>6, <2>1
       DEF CallMerge, MergeAnswerLost, RestOK, local
  <2>2. CASE RecordMerge(r)
    BY <1>0, <2>2 DEF RecordMerge, RestOK, remote, Pull
  <2>3. CASE ApiCrash(r)
    <3>1. abandoned' \subseteq ReviewIds
      BY <1>0, <2>3, Bounds DEF ApiCrash, RestOK, RequestOK, OnReview
    <3> QED
      BY <1>0, <1>1, <2>3, <3>1 DEF ApiCrash, RestOK, remote, local
  <2>4. CASE \/ \E u \in Reviewers, d \in Decisions : StartSubmit(r, u, d)
             \/ \E v \in ReviewIds : StartRetry(r, v)
             \/ \E o \in BOOLEAN : StartMerge(r, o)
    <3>1. Called(r) /\ UNCHANGED <<remote, local, merge, abandoned>>
      BY <2>4 DEF StartSubmit, StartRetry, StartMerge
    <3> QED
      BY <1>0, <1>2, <3>1 DEF RestOK, remote, local
  <2>5. CASE \/ CheckMine(r) \/ CreateReview(r) \/ EnqueueSync(r)
             \/ EnqueueThrows(r) \/ MarkFailed(r) \/ Retry(r)
             \/ CheckBlockers(r) \/ MergeRefused(r)
    <3>1. /\ UNCHANGED <<remote, local, merge, abandoned>>
          /\ UNCHANGED count \/ Event
      BY <2>5 DEF CheckMine, CreateReview, EnqueueSync, EnqueueThrows,
         MarkFailed, Retry, CheckBlockers, MergeRefused
    <3> QED
      BY <1>0, <1>1, <3>1 DEF RestOK, remote, local
  <2> QED
    BY <1>7, <2>1, <2>2, <2>3, <2>4, <2>5 DEF Api
<1>8. ASSUME NEW v \in ReviewIds, Sync(v) PROVE RestOK'
  <2>1. CASE Send(v) \/ SendAnswerLost(v)
    <3>1. v \in DOMAIN reviews /\ reviews[v].head \in Heads
      <4>1. v \in DOMAIN reviews
        BY <2>1 DEF Send, SendAnswerLost, SendOnProvider, TypeInv
      <4> QED
        BY <4>1, Bounds DEF Review
    <3>2. Approvals(v) \subseteq ReviewIds \X Heads
      BY <1>0, <3>1 DEF Approvals, RestOK, Remote
    <3>3. prov' \in Remote
      BY <1>0, <2>1, <3>2 DEF Send, SendAnswerLost, SendOnProvider, RestOK, Remote
    <3> QED
      BY <1>0, <1>1, <2>1, <3>3
         DEF Send, SendAnswerLost, SendOnProvider, RestOK, local
  <2>2. CASE ~Send(v) /\ ~SendAnswerLost(v)
    <3>1. /\ UNCHANGED <<remote, local, merge>>
          /\ UNCHANGED count \/ Event
          /\ abandoned' \subseteq abandoned \cup {v}
      BY <1>8, <2>2 DEF Sync, TakeJob, SendNote, SendFails, StoreSynced,
         StoreFailed, Settle, StoreThrows, WorkerDies
    <3> QED
      BY <1>0, <1>1, <3>1 DEF RestOK, remote, local
  <2> QED
    BY <2>1, <2>2
<1> QED
  BY <1>0, <1>3, <1>4, <1>5, <1>7, <1>8 DEF Next, vars, RestOK

LEMMA StepType == TypeInv /\ [Next]_vars => TypeInv'
  BY ReviewsStable, RequestsStep, JobsStep, RestStep
     DEF Stable, RequestsOK, JobsOK, RestOK, TypeInv, TypeOK

(* Every variable keeps its type.                                          *)
THEOREM TypeCorrect == Spec => []TypeOK
<1>1. TypeInv => TypeOK
  BY DEF TypeInv
<1> QED
  BY <1>1, InitType, StepType, PTL DEF Spec

-----------------------------------------------------------------------------
(* Merging.  What the rules of a merge read of commit h, among the first n *)
(* decisions and with the scan s, holds of it for ever: decisions are only *)
(* added.                                                                  *)

Cleared(h, n, s, override) ==
    LET given == {v \in 1..n : reviews[v].head = h}
    IN  /\ n \in 0..Len(reviews)
        /\ \E v \in given : reviews[v].decision = "APPROVE"
        /\ \A v \in given :
             reviews[v].decision = "REQUEST_CHANGES" =>
                 \E x \in given : x > v /\ reviews[x].by = reviews[v].by
        /\ s.done /\ s.head = h
        /\ s.critical => override

MergeInv ==
    /\ merge.head # 0 =>
           Cleared(merge.head, merge.read, merge.scan, merge.override)
    /\ \A r \in Requests :
           req[r].pc = "merge" =>
               Cleared(req[r].head, req[r].read, req[r].scan, req[r].override)

LEMMA ClearedStays ==
  ASSUME TypeInv, [Next]_vars, NEW h, NEW n, NEW s, NEW o, Cleared(h, n, s, o)
  PROVE  Cleared(h, n, s, o)'
<1>1. n \in 0..Len(reviews) /\ n \in 0..Len(reviews')
  BY ReviewsStable, Bounds, LenProperties DEF Cleared, Stable, KeepsReviews
<1>2. \A v \in 1..n : v \in DOMAIN reviews
  BY <1>1, Bounds
<1>3. \A v \in 1..n : /\ reviews'[v].head = reviews[v].head
                      /\ reviews'[v].by = reviews[v].by
                      /\ reviews'[v].decision = reviews[v].decision
  BY <1>2, ReviewsStable DEF Stable, KeepsReviews
<1>4. {v \in 1..n : reviews'[v].head = h} = {v \in 1..n : reviews[v].head = h}
  BY <1>3
<1>5. PICK given : given = {v \in 1..n : reviews[v].head = h}
  OBVIOUS
<1>6. /\ \E v \in given : reviews[v].decision = "APPROVE"
      /\ \A v \in given :
           reviews[v].decision = "REQUEST_CHANGES" =>
               \E x \in given : x > v /\ reviews[x].by = reviews[v].by
      /\ s.done /\ s.head = h
      /\ s.critical => o
  BY <1>5 DEF Cleared
<1>7. \A v \in given : v \in 1..n
  BY <1>5
<1>8. /\ \E v \in given : reviews'[v].decision = "APPROVE"
      /\ \A v \in given :
           reviews'[v].decision = "REQUEST_CHANGES" =>
               \E x \in given : x > v /\ reviews'[x].by = reviews'[v].by
  BY <1>3, <1>6, <1>7
<1>9. given = {v \in 1..n : reviews'[v].head = h}
  BY <1>4, <1>5
<1> QED
  BY <1>1, <1>6, <1>8, <1>9 DEF Cleared

(* The rules, passed on the decisions there are.                           *)
LEMMA RulesClear ==
  ASSUME TypeInv, NEW r \in Requests,
         MergeBlockers(req[r]) \subseteq
             IF req[r].override THEN {"critical_findings"} ELSE {}
  PROVE  Cleared(req[r].head, Len(reviews), req[r].scan, req[r].override)
<1> DEFINE h == req[r].head
           n == Len(reviews)
           s == req[r].scan
           given == {v \in 1..n : reviews[v].head = h}
           decisions == LatestPerReviewer(h, n)
<1>0. n \in Nat /\ \A v \in 1..n : v \in Int
  BY Bounds
<1>1. /\ "approval_required" \notin MergeBlockers(req[r])
      /\ "REQUEST_CHANGES" \notin MergeBlockers(req[r])
      /\ "scan_required" \notin MergeBlockers(req[r])
      /\ "critical_findings" \in MergeBlockers(req[r]) => req[r].override
  OBVIOUS
<1>2. "APPROVE" \in decisions /\ "REQUEST_CHANGES" \notin decisions
  BY <1>1 DEF MergeBlockers
<1>3. s.done /\ s.head = h /\ (s.critical => req[r].override)
  BY <1>1 DEF MergeBlockers
<1>4. given = OnHead(h, n)
  BY DEF OnHead
<1>5. \E v \in given : reviews[v].decision = "APPROVE"
  BY <1>2, <1>4 DEF LatestPerReviewer
<1>6. ASSUME NEW v \in given, reviews[v].decision = "REQUEST_CHANGES"
      PROVE  \E x \in given : x > v /\ reviews[x].by = reviews[v].by
  <2>1. ~\A x \in given : reviews[x].by = reviews[v].by => x <= v
    BY <1>2, <1>4, <1>6 DEF LatestPerReviewer
  <2>2. PICK x \in given : reviews[x].by = reviews[v].by /\ ~(x <= v)
    BY <2>1
  <2>3. x \in Int /\ v \in Int
    BY <1>0
  <2>4. x > v
    BY <2>2, <2>3
  <2> QED
    BY <2>2, <2>4
<1> QED
  BY <1>0, <1>3, <1>5, <1>6 DEF Cleared

(* A request's step leaves the other requests alone, and begins a merge    *)
(* only when the rules are passed.                                         *)
LEMMA OthersKept ==
  ASSUME TypeInv, NEW r \in Requests, Api(r)
  PROVE  \A x \in Requests : x # r => req'[x] = req[x]
<1>0. req \in [Requests -> Request]
  BY DEF TypeInv, TypeOK
<1>1. CASE \/ \E u \in Reviewers, d \in Decisions : StartSubmit(r, u, d)
           \/ \E v \in ReviewIds : StartRetry(r, v)
           \/ \E o \in BOOLEAN : StartMerge(r, o)
           \/ CreateReview(r)
  <2> HIDE DEF NoRequest
  <2> QED
    BY <1>0, <1>1 DEF StartSubmit, StartRetry, StartMerge, CreateReview
<1>2. CASE CheckBlockers(r)
  BY <1>0, <1>2 DEF CheckBlockers, Reply
<1>3. CASE \/ CheckMine(r) \/ EnqueueSync(r) \/ EnqueueThrows(r)
           \/ MarkFailed(r) \/ Retry(r) \/ CallMerge(r) \/ MergeAnswerLost(r)
           \/ MergeRefused(r) \/ RecordMerge(r) \/ ApiCrash(r)
  <2>1. Reply(r) \/ \E pc \in ReqPcs : Continue(r, pc)
    BY <1>3 DEF CheckMine, EnqueueSync, EnqueueThrows, MarkFailed, Retry,
       CallMerge, MergeAnswerLost, MergeRefused, RecordMerge, ApiCrash, ReqPcs
  <2> QED
    BY <1>0, <2>1 DEF Reply, Continue
<1> QED
  BY <1>1, <1>2, <1>3 DEF Api

LEMMA MergeBegins ==
  ASSUME TypeInv, NEW r \in Requests, Api(r), req'[r].pc = "merge"
  PROVE  CheckBlockers(r)
<1>0. req \in [Requests -> Request] /\ req[r] \in Request
  BY DEF TypeInv, TypeOK
<1>1. ASSUME Reply(r) PROVE FALSE
  BY <1>0, <1>1 DEF Reply, NoRequest
<1>2. ASSUME NEW pc, Continue(r, pc) PROVE pc = "merge"
  BY <1>0, <1>2 DEF Continue, Request
<1>3. CASE \/ \E u \in Reviewers, d \in Decisions : StartSubmit(r, u, d)
           \/ \E v \in ReviewIds : StartRetry(r, v)
           \/ \E o \in BOOLEAN : StartMerge(r, o)
           \/ CreateReview(r)
  <2>1. ASSUME NEW u, NEW d, StartSubmit(r, u, d) PROVE req'[r].pc = "mine"
    BY <1>0, <2>1 DEF StartSubmit, NoRequest
  <2>2. ASSUME NEW v, StartRetry(r, v) PROVE req'[r].pc = "retry"
    BY <1>0, <2>2 DEF StartRetry, NoRequest
  <2>3. ASSUME NEW o, StartMerge(r, o) PROVE req'[r].pc = "blockers"
    BY <1>0, <2>3 DEF StartMerge, NoRequest
  <2>4. CASE CreateReview(r)
    BY <1>0, <2>4 DEF CreateReview, NoRequest
  <2> QED
    BY <1>3, <2>1, <2>2, <2>3, <2>4
<1>4. CASE \/ CheckMine(r) \/ EnqueueSync(r) \/ EnqueueThrows(r)
           \/ MarkFailed(r) \/ Retry(r) \/ CallMerge(r) \/ MergeAnswerLost(r)
           \/ MergeRefused(r) \/ RecordMerge(r) \/ ApiCrash(r)
  BY <1>1, <1>2, <1>4 DEF CheckMine, EnqueueSync, EnqueueThrows, MarkFailed,
     Retry, CallMerge, MergeAnswerLost, MergeRefused, RecordMerge, ApiCrash
<1> QED
  BY <1>3, <1>4 DEF Api

LEMMA NotARequest ==
  ASSUME [Next]_vars
  PROVE  UNCHANGED req \/ \E r \in Requests : Api(r)
<1>1. ASSUME NEW v \in ReviewIds, Sync(v) PROVE UNCHANGED req
  BY <1>1 DEF Sync, TakeJob, Send, SendAnswerLost, SendOnProvider, SendNote,
     SendFails, StoreSynced, StoreFailed, Settle, StoreThrows, WorkerDies
<1> QED
  BY <1>1 DEF Next, Push, DeliverPull, ScanChanges, vars

LEMMA MergeStep == ASSUME TypeInv, MergeInv, [Next]_vars PROVE MergeInv'
<1>0. TypeOK
  BY DEF TypeInv
<1>1. merge' = merge \/ \E r \in Requests : MergeOnProvider(r)
  <2>1. ASSUME NEW r \in Requests, Api(r) PROVE merge' = merge \/ MergeOnProvider(r)
    BY <2>1 DEF Api, StartSubmit, CheckMine, CreateReview, EnqueueSync,
       EnqueueThrows, MarkFailed, StartRetry, Retry, StartMerge, CheckBlockers,
       CallMerge, MergeAnswerLost, MergeRefused, RecordMerge, ApiCrash
  <2>2. ASSUME NEW v \in ReviewIds, Sync(v) PROVE merge' = merge
    BY <2>2 DEF Sync, TakeJob, Send, SendAnswerLost, SendOnProvider, SendNote,
       SendFails, StoreSynced, StoreFailed, Settle, StoreThrows, WorkerDies
  <2> QED
    BY <2>1, <2>2 DEF Next, Push, DeliverPull, ScanChanges, vars
<1>2. ASSUME merge'.head # 0
      PROVE  Cleared(merge.head, merge.read, merge.scan, merge.override)'
  <2>1. PICK h, n, s, o : /\ h = merge'.head /\ n = merge'.read
                          /\ s = merge'.scan /\ o = merge'.override
    OBVIOUS
  <2>2. Cleared(h, n, s, o)
    <3>1. CASE merge' = merge
      BY <1>2, <2>1, <3>1 DEF MergeInv
    <3>2. ASSUME NEW r \in Requests, MergeOnProvider(r)
          PROVE  Cleared(h, n, s, o)
      <4>1. /\ h = req[r].head /\ n = req[r].read
            /\ s = req[r].scan /\ o = req[r].override
        BY <2>1, <3>2 DEF MergeOnProvider, Mergeable
      <4> QED
        BY <3>2, <4>1 DEF MergeInv, MergeOnProvider
    <3> QED
      BY <1>1, <3>1, <3>2
  <2>3. Cleared(h, n, s, o)'
    BY <2>2, ClearedStays
  <2> QED
    BY <2>1, <2>3 DEF Cleared
<1>3. ASSUME NEW r \in Requests, req'[r].pc = "merge"
      PROVE  Cleared(req[r].head, req[r].read, req[r].scan, req[r].override)'
  <2>1. PICK q : q = req'[r]
    OBVIOUS
  <2>2. Cleared(q.head, q.read, q.scan, q.override)
    <3>1. CASE req'[r] = req[r]
      BY <1>3, <2>1, <3>1 DEF MergeInv
    <3>2. CASE req'[r] # req[r]
      <4>1. PICK x \in Requests : Api(x)
        BY <3>2, NotARequest
      <4>2. CheckBlockers(r)
        BY <1>3, <3>2, <4>1, OthersKept, MergeBegins
      <4>3. /\ MergeBlockers(req[r]) \subseteq
                 IF req[r].override THEN {"critical_findings"} ELSE {}
            /\ q = [req[r] EXCEPT !.pc = "merge", !.read = Len(reviews)]
        <5>1. ~Reply(r)
          BY <1>0, <1>3 DEF Reply, NoRequest, TypeOK
        <5> QED
          BY <1>0, <2>1, <4>2, <5>1 DEF CheckBlockers, TypeOK
      <4>4. /\ q.head = req[r].head /\ q.read = Len(reviews)
            /\ q.scan = req[r].scan /\ q.override = req[r].override
        BY <1>0, <4>3 DEF TypeOK, Request
      <4> QED
        BY <4>3, <4>4, RulesClear
    <3> QED
      BY <3>1, <3>2
  <2>3. PICK h, n, s, o : /\ h = q.head /\ n = q.read
                          /\ s = q.scan /\ o = q.override
    OBVIOUS
  <2>4. Cleared(h, n, s, o)'
    BY <2>2, <2>3, ClearedStays
  <2> QED
    BY <2>1, <2>3, <2>4 DEF Cleared
<1> QED
  BY <1>2, <1>3 DEF MergeInv

LEMMA MergeInvIsEnough == MergeInv => MergedCleared
  BY DEF MergeInv, MergedCleared, Cleared

-----------------------------------------------------------------------------
(* Require both.  A finished AI review is remembered, so what was asked of *)
(* the scan when the request began still holds when the row is written.    *)

Approves(q) == q.pc \in {"mine", "create"} /\ q.decision = "APPROVE"

SeenInv ==
    /\ scan.ai => scan.head \in analysed
    /\ policy = "REQUIRE_BOTH" =>
           /\ \A r \in Requests : Approves(req[r]) => req[r].head \in analysed
           /\ \A v \in DOMAIN reviews :
                  reviews[v].decision = "APPROVE" => reviews[v].head \in analysed

(* What require both stands on only grows.                                 *)
LEMMA AnalysedGrows ==
  ASSUME [Next]_vars
  PROVE  /\ analysed \subseteq analysed' /\ policy' = policy
         /\ \/ UNCHANGED scan
            \/ scan'.ai => scan'.head \in analysed'
<1>1. ASSUME NEW r \in Requests, Api(r) PROVE UNCHANGED <<policy, scan, analysed>>
  BY <1>1 DEF Api, StartSubmit, CheckMine, CreateReview, EnqueueSync,
     EnqueueThrows, MarkFailed, StartRetry, Retry, StartMerge, CheckBlockers,
     CallMerge, MergeAnswerLost, MergeOnProvider, MergeRefused, RecordMerge,
     ApiCrash, remote, local
<1>2. ASSUME NEW v \in ReviewIds, Sync(v) PROVE UNCHANGED <<policy, scan, analysed>>
  BY <1>2 DEF Sync, TakeJob, Send, SendAnswerLost, SendOnProvider, SendNote,
     SendFails, StoreSynced, StoreFailed, Settle, StoreThrows, WorkerDies,
     remote, local
<1>3. ASSUME NEW s \in Scan, ScanChanges(s)
      PROVE  /\ analysed \subseteq analysed' /\ policy' = policy
             /\ scan'.ai => scan'.head \in analysed'
  BY <1>3 DEF ScanChanges, remote
<1> QED
  BY <1>1, <1>2, <1>3 DEF Next, Push, DeliverPull, vars, remote, local

LEMMA SeenStep == ASSUME TypeInv, SeenInv, [Next]_vars PROVE SeenInv'
<1>0. TypeOK /\ \A r \in Requests : req[r] \in Request
  BY DEF TypeInv, TypeOK
<1>1. scan'.ai => scan'.head \in analysed'
  BY AnalysedGrows DEF SeenInv
<1>2. ASSUME policy = "REQUIRE_BOTH", NEW r \in Requests, Approves(req'[r])
      PROVE  req'[r].head \in analysed
  <2>1. CASE req'[r] = req[r]
    BY <1>2, <2>1 DEF SeenInv
  <2>2. CASE req'[r] # req[r]
    <3>1. Api(r)
      BY <2>2, NotARequest, OthersKept
    <3>2. ASSUME NEW pc, Continue(r, pc), pc \in {"mine", "create"}
          PROVE  req'[r].head = req[r].head /\ req'[r].decision = req[r].decision
      BY <1>0, <3>2 DEF Continue, TypeOK, Request
    <3>3. ASSUME Reply(r) PROVE FALSE
      BY <1>0, <1>2, <3>3 DEF Reply, NoRequest, TypeOK, Approves
    <3>4. CASE CheckMine(r)
      <4>1. Continue(r, "create") /\ req[r].pc = "mine"
        BY <3>3, <3>4 DEF CheckMine
      <4> QED
        BY <1>2, <3>2, <4>1 DEF SeenInv, Approves
    <3>5. ASSUME NEW u \in Reviewers, NEW d \in Decisions, StartSubmit(r, u, d)
          PROVE  req'[r].head \in analysed
      <4>1. req'[r].head = pull.head /\ req'[r].decision = d
        BY <1>0, <3>5 DEF StartSubmit, NoRequest, TypeOK
      <4>2. AiReviewedHead(pull.head)
        BY <1>2, <3>5, <4>1 DEF StartSubmit, Approves
      <4> QED
        BY <4>1, <4>2 DEF AiReviewedHead, SeenInv
    <3>6. ASSUME NEW pc, Continue(r, pc) PROVE req'[r].pc = pc
      BY <1>0, <3>6 DEF Continue, TypeOK, Request
    <3>7. CASE \/ EnqueueSync(r) \/ EnqueueThrows(r) \/ MarkFailed(r)
               \/ Retry(r) \/ CallMerge(r) \/ MergeAnswerLost(r)
               \/ MergeRefused(r) \/ RecordMerge(r) \/ ApiCrash(r)
      BY <1>2, <3>3, <3>6, <3>7 DEF EnqueueSync, EnqueueThrows, MarkFailed,
         Retry, CallMerge, MergeAnswerLost, MergeRefused, RecordMerge,
         ApiCrash, Approves
    <3>8. CASE \/ CreateReview(r) \/ CheckBlockers(r)
               \/ \E v \in ReviewIds : StartRetry(r, v)
               \/ \E o \in BOOLEAN : StartMerge(r, o)
      <4>1. req'[r].pc \notin {"mine", "create"}
        <5>1. CASE CheckBlockers(r)
          <6>1. req' = [req EXCEPT ![r] = [req[r] EXCEPT !.pc = "merge",
                                                         !.read = Len(reviews)]]
            BY <3>3, <5>1 DEF CheckBlockers
          <6> QED
            BY <1>0, <6>1 DEF TypeOK, Request
        <5>2. CASE ~CheckBlockers(r)
          <6>0. req \in [Requests -> Request]
            BY <1>0 DEF TypeOK
          <6>1. CASE CreateReview(r)
            BY <6>0, <6>1 DEF CreateReview, NoRequest
          <6>2. ASSUME NEW v \in ReviewIds, StartRetry(r, v)
                PROVE  req'[r].pc = "retry"
            BY <6>0, <6>2 DEF StartRetry, NoRequest
          <6>3. ASSUME NEW o \in BOOLEAN, StartMerge(r, o)
                PROVE  req'[r].pc = "blockers"
            BY <6>0, <6>3 DEF StartMerge, NoRequest
          <6> QED
            BY <3>8, <5>2, <6>1, <6>2, <6>3
        <5> QED
          BY <5>1, <5>2
      <4> QED
        BY <1>2, <4>1 DEF Approves
    <3> QED
      BY <3>1, <3>4, <3>5, <3>7, <3>8 DEF Api
  <2> QED
    BY <2>1, <2>2
<1>3. ASSUME policy = "REQUIRE_BOTH", NEW v \in DOMAIN reviews',
             reviews'[v].decision = "APPROVE"
      PROVE  reviews'[v].head \in analysed
  <2>1. CASE v \in DOMAIN reviews
    BY <1>3, <2>1, ReviewsStable DEF Stable, KeepsReviews, SeenInv
  <2>2. CASE v \notin DOMAIN reviews
    <3>1. PICK r \in Requests : CreateReview(r)
      BY <1>3, <2>2, RowsStep, SyncWritten DEF WriteSync
    <3>2. reviews'[v] = [head |-> req[r].head, decision |-> req[r].decision,
                         by |-> req[r].by, sync |-> "PENDING"]
      BY <1>3, <2>2, <3>1, ReviewAdded
    <3>3. Approves(req[r]) /\ reviews'[v].head = req[r].head
      BY <1>3, <3>1, <3>2 DEF CreateReview, Approves
    <3> QED
      BY <1>3, <3>3 DEF SeenInv
  <2> QED
    BY <2>1, <2>2
<1> QED
  BY <1>1, <1>2, <1>3, AnalysedGrows DEF SeenInv

-----------------------------------------------------------------------------
(* Approvals.  They stand at the commit of a decision that exists.         *)

ApprovalInv ==
    \A a \in prov.approved :
        a[1] \in DOMAIN reviews /\ reviews[a[1]].head = a[2]

LEMMA ApprovalStep == ASSUME TypeInv, ApprovalInv, [Next]_vars PROVE ApprovalInv'
<1>0. TypeOK /\ Stable
  BY ReviewsStable DEF TypeInv
<1>1. \A a \in prov.approved :
          a[1] \in DOMAIN reviews' /\ reviews'[a[1]].head = a[2]
  BY <1>0 DEF ApprovalInv, Stable, KeepsReviews
<1>2. ASSUME NEW v \in ReviewIds, Send(v) \/ SendAnswerLost(v) PROVE ApprovalInv'
  <2>1. /\ v \in DOMAIN reviews /\ Accepted(v) /\ reviews' = reviews
        /\ prov'.approved = Approvals(v)
    BY <1>0, <1>2 DEF Send, SendAnswerLost, SendOnProvider, TypeInv, TypeOK,
       Remote
  <2>2. \A a \in Approvals(v) :
            a \in prov.approved \/ a = <<v, reviews[v].head>>
    BY <1>0, <2>1 DEF Approvals, Accepted, Withdraws, TypeOK
  <2> QED
    BY <1>1, <2>1, <2>2 DEF ApprovalInv
<1>3. \/ prov'.approved = prov.approved
      \/ \E v \in ReviewIds : Send(v) \/ SendAnswerLost(v)
  <2>0. prov \in Remote
    BY <1>0 DEF TypeOK
  <2>1. ASSUME NEW r \in Requests, Api(r) PROVE prov'.approved = prov.approved
    <3>1. CASE MergeOnProvider(r)
      BY <2>0, <3>1 DEF MergeOnProvider, Remote
    <3>2. CASE ~MergeOnProvider(r)
      BY <2>1, <3>2 DEF Api, StartSubmit, CheckMine, CreateReview, EnqueueSync,
         EnqueueThrows, MarkFailed, StartRetry, Retry, StartMerge,
         CheckBlockers, CallMerge, MergeAnswerLost, MergeRefused, RecordMerge,
         ApiCrash, remote
    <3> QED
      BY <3>1, <3>2
  <2>2. ASSUME NEW v \in ReviewIds, Sync(v), ~(Send(v) \/ SendAnswerLost(v))
        PROVE  prov' = prov
    BY <2>2 DEF Sync, TakeJob, SendNote, SendFails, StoreSynced, StoreFailed,
       Settle, StoreThrows, WorkerDies, remote
  <2>3. CASE Push
    BY <2>0, <2>3 DEF Push, Remote
  <2> QED
    BY <2>1, <2>2, <2>3 DEF Next, DeliverPull, ScanChanges, vars, remote
<1> QED
  BY <1>1, <1>2, <1>3 DEF ApprovalInv

-----------------------------------------------------------------------------
(* Pending decisions.  Whoever takes the work on one away, settles it.     *)

WorkOn(v) ==
    \/ \E r \in Requests : req[r].review = v /\ req[r].pc \in {"enqueue", "mark"}
    \/ job[v].pc # "none"

Attended(v) == reviews[v].sync = "PENDING" /\ v \notin abandoned => WorkOn(v)

LEMMA PendingStep == ASSUME TypeInv, PendingHasWork, [Next]_vars PROVE PendingHasWork'
<1>0. /\ TypeOK /\ Stable /\ \A r \in Requests : req[r] \in Request
      /\ \A v \in DOMAIN reviews : v \in ReviewIds /\ Attended(v)
  BY ReviewsStable, Bounds
     DEF TypeInv, TypeOK, PendingHasWork, Attended, WorkOn
<1>1. SUFFICES ASSUME NEW v \in DOMAIN reviews', reviews'[v].sync = "PENDING",
                      v \notin abandoned'
               PROVE  WorkOn(v)'
  BY DEF PendingHasWork, WorkOn
<1>2. CASE \E r \in Requests : CreateReview(r)
  <2>1. PICK r \in Requests : CreateReview(r)
    BY <1>2
  <2>2. CASE v = Len(reviews) + 1
    <3>1. req'[r].review = v /\ req'[r].pc = "enqueue"
      BY <1>0, <2>1, <2>2 DEF CreateReview, NoRequest, TypeOK
    <3> QED
      BY <3>1 DEF WorkOn
  <2>3. CASE v # Len(reviews) + 1
    <3>1. v \in DOMAIN reviews /\ reviews'[v] = reviews[v]
      BY <1>1, <2>1, <2>3, ReviewAdded
    <3>2. WorkOn(v)
      BY <1>0, <1>1, <2>1, <3>1 DEF CreateReview, Attended
    <3>3. job' = job /\ Api(r) /\ req[r].pc = "create"
      BY <2>1 DEF CreateReview, Api
    <3> QED
      BY <3>2, <3>3, OthersKept DEF WorkOn
  <2> QED
    BY <2>2, <2>3
<1>3. ASSUME ~\E r \in Requests : CreateReview(r) PROVE v \in DOMAIN reviews
  BY <1>1, <1>3, RowsStep, SyncWritten DEF WriteSync
<1>4. ASSUME NEW r \in Requests, Api(r), ~CreateReview(r), v \in DOMAIN reviews
      PROVE  WorkOn(v)'
  <2>0. v \in ReviewIds /\ req \in [Requests -> Request]
        /\ job \in [ReviewIds -> Job]
    BY <1>0, <1>4 DEF TypeOK
  <2>1. CASE EnqueueSync(r)
    <3>1. CASE v = req[r].review
      <4>1. job'[v].pc = "waiting"
        BY <2>0, <2>1, <3>1 DEF EnqueueSync, NoJob
      <4> QED
        BY <4>1 DEF WorkOn
    <3>2. CASE v # req[r].review
      <4>1. WorkOn(v)
        BY <1>0, <1>1, <1>4, <2>1 DEF EnqueueSync, Attended
      <4>2. job'[v] = job[v]
        BY <2>0, <2>1, <3>2 DEF EnqueueSync
      <4> QED
        BY <1>4, <3>2, <4>1, <4>2, OthersKept DEF WorkOn
    <3> QED
      BY <3>1, <3>2
  <2>2. CASE EnqueueThrows(r)
    <3>1. WorkOn(v) /\ job' = job
      BY <1>0, <1>1, <1>4, <2>2 DEF EnqueueThrows, Attended
    <3>2. req'[r].pc = "mark" /\ req'[r].review = req[r].review
      BY <1>0, <2>0, <2>2 DEF EnqueueThrows, Continue, Request
    <3> QED
      BY <1>4, <3>1, <3>2, OthersKept DEF WorkOn
  <2>3. CASE MarkFailed(r)
    <3>1. req[r].review \in DOMAIN reviews /\ job' = job
      BY <2>3 DEF MarkFailed, TypeInv, RequestOK, OnReview
    <3>2. v # req[r].review /\ reviews'[v] = reviews[v]
      BY <1>1, <1>4, <2>3, <3>1, SyncWritten DEF MarkFailed
    <3>3. WorkOn(v)
      BY <1>0, <1>1, <1>4, <2>3, <3>2 DEF MarkFailed, Attended
    <3> QED
      BY <1>4, <3>1, <3>2, <3>3, OthersKept DEF WorkOn
  <2>4. CASE Retry(r)
    <3>0. job' = job /\ abandoned' = abandoned
          /\ req[r].review \in DOMAIN reviews /\ req[r].pc = "retry"
      BY <2>4 DEF Retry, TypeInv, RequestOK, OnReview
    <3>1. CASE v = req[r].review /\ reviews[v].sync = "FAILED"
      <4>1. Continue(r, "enqueue")
        BY <2>4, <3>1 DEF Retry
      <4>2. req'[r].pc = "enqueue" /\ req'[r].review = v
        BY <1>0, <2>0, <3>1, <4>1 DEF Continue, Request
      <4> QED
        BY <4>2 DEF WorkOn
    <3>2. CASE ~(v = req[r].review /\ reviews[v].sync = "FAILED")
      <4>1. reviews'[v] = reviews[v]
        BY <1>4, <2>4, <3>0, <3>2, SyncWritten DEF Retry
      <4>2. WorkOn(v)
        BY <1>0, <1>1, <1>4, <3>0, <4>1 DEF Attended
      <4> QED
        BY <1>4, <3>0, <4>2, OthersKept DEF WorkOn
    <3> QED
      BY <3>1, <3>2
  <2>5. CASE ApiCrash(r)
    <3>1. /\ job' = job /\ reviews' = reviews /\ abandoned \subseteq abandoned'
          /\ req[r].pc \in {"enqueue", "mark"} => req[r].review \in abandoned'
      BY <2>5 DEF ApiCrash
    <3>2. WorkOn(v)
      BY <1>0, <1>1, <1>4, <3>1 DEF Attended
    <3> QED
      BY <1>1, <1>4, <3>1, <3>2, OthersKept DEF WorkOn
  <2>6. CASE \/ \E u \in Reviewers, d \in Decisions : StartSubmit(r, u, d)
             \/ \E w \in ReviewIds : StartRetry(r, w)
             \/ \E o \in BOOLEAN : StartMerge(r, o)
             \/ CheckMine(r) \/ CheckBlockers(r) \/ CallMerge(r)
             \/ MergeAnswerLost(r) \/ MergeRefused(r) \/ RecordMerge(r)
    <3>1. /\ job' = job /\ reviews' = reviews /\ abandoned' = abandoned
          /\ req[r].pc \notin {"enqueue", "mark"}
      BY <2>6 DEF StartSubmit, StartRetry, StartMerge, Called, CheckMine,
         CheckBlockers, CallMerge, MergeAnswerLost, MergeOnProvider,
         MergeRefused, RecordMerge
    <3>2. WorkOn(v)
      BY <1>0, <1>1, <1>4, <3>1 DEF Attended
    <3> QED
      BY <1>4, <3>1, <3>2, OthersKept DEF WorkOn
  <2> QED
    BY <1>4, <2>1, <2>2, <2>3, <2>4, <2>5, <2>6 DEF Api
<1>5. ASSUME NEW w \in ReviewIds, Sync(w), v \in DOMAIN reviews
      PROVE  WorkOn(v)'
  <2>0. /\ job \in [ReviewIds -> Job] /\ v \in ReviewIds /\ req' = req
        /\ abandoned \subseteq abandoned'
    BY <1>0, <1>5 DEF TypeOK, Sync, TakeJob, Send, SendAnswerLost,
       SendOnProvider, SendNote, SendFails, StoreSynced, StoreFailed, Settle,
       StoreThrows, WorkerDies
  <2>1. CASE v # w
    <3>1. job'[v] = job[v]
      <4>1. \E j : job' = [job EXCEPT ![w] = j]
        BY <1>5 DEF Sync, TakeJob, Send, SendAnswerLost, SendNote, SendFails,
           SendFailed, Goto, StoreSynced, StoreFailed, Settle, StoreThrows,
           WorkerDies
      <4> QED
        BY <2>0, <2>1, <4>1
    <3>2. reviews'[v] = reviews[v]
      <4>1. \/ reviews' = reviews
            \/ /\ w \in DOMAIN reviews
               /\ \E s \in {"PENDING", "SYNCED", "FAILED"} :
                      reviews' = [reviews EXCEPT ![w].sync = s]
        BY <1>5 DEF TypeInv, Sync, TakeJob, Send, SendAnswerLost,
           SendOnProvider, SendNote, SendFails, StoreSynced, StoreFailed,
           Settle, StoreThrows, WorkerDies
      <4> QED
        BY <1>5, <2>1, <4>1, SyncWritten
    <3> QED
      BY <1>0, <1>1, <1>5, <2>0, <3>1, <3>2 DEF Attended, WorkOn
  <2>2. CASE v = w
    <3>0. job[w] \in Job /\ w \in DOMAIN reviews
      BY <1>5, <2>0, <2>2
    <3>1. ASSUME NEW pc, pc # "none", Goto(w, pc) PROVE WorkOn(v)'
      <4>1. job'[w].pc = pc
        BY <2>0, <3>0, <3>1 DEF Goto, Job
      <4> QED
        BY <2>2, <3>1, <4>1 DEF WorkOn
    <3>2. job[w].made + 1 < Attempts => Again(w).pc = "waiting"
      BY <3>0 DEF Again, Job
    <3>3. ASSUME NEW b \in BOOLEAN, SendFailed(w, b) PROVE WorkOn(v)'
      <4>1. CASE GivesUp(w, b)
        BY <3>1, <3>3, <4>1 DEF SendFailed
      <4>2. CASE ~GivesUp(w, b)
        <5>1. job[w].made + 1 < Attempts
          BY <3>0, <4>2 DEF GivesUp, Job
        <5>2. job'[w] = Again(w)
          BY <2>0, <3>3, <4>2 DEF SendFailed
        <5> QED
          BY <2>2, <3>2, <5>1, <5>2 DEF WorkOn
      <4> QED
        BY <4>1, <4>2
    <3>4. CASE TakeJob(w)
      <4>1. reviews' = reviews /\ reviews[w].sync = "PENDING"
        BY <1>1, <2>2, <3>4 DEF TakeJob
      <4>2. PICK j : j = [job[w] EXCEPT !.pc = "send"]
        OBVIOUS
      <4>3. j.pc = "send" /\ job'[w] = j
        BY <2>0, <3>0, <3>4, <4>1, <4>2 DEF TakeJob, Job
      <4> QED
        BY <2>2, <4>3 DEF WorkOn
    <3>5. CASE Send(w) \/ SendAnswerLost(w) \/ SendNote(w)
      BY <3>1, <3>3, <3>5 DEF Send, SendAnswerLost, SendNote
    <3>6. ASSUME NEW b \in BOOLEAN, SendFails(w, b) PROVE WorkOn(v)'
      BY <3>3, <3>6 DEF SendFails
    <3>7. ASSUME NEW s \in {"SYNCED", "FAILED"}, Settle(w, s) PROVE FALSE
      <4>1. CASE reviews[w].sync = "PENDING"
        <5>1. reviews'[w].sync = s
          BY <3>0, <3>7, <4>1, SyncWritten DEF Settle
        <5> QED
          BY <1>1, <2>2, <5>1
      <4>2. CASE reviews[w].sync # "PENDING"
        BY <1>1, <2>2, <3>7, <4>2 DEF Settle
      <4> QED
        BY <4>1, <4>2
    <3>8. CASE StoreThrows(w)
      <4>1. w \notin abandoned' /\ job'[w] = Again(w)
        BY <1>1, <2>0, <2>2, <3>8 DEF StoreThrows
      <4>2. Again(w) # NoJob
        BY <3>8, <4>1 DEF StoreThrows
      <4>3. Again(w).pc = "waiting"
        BY <3>2, <4>2 DEF Again
      <4> QED
        BY <2>2, <4>1, <4>3 DEF WorkOn
    <3>9. CASE WorkerDies(w)
      <4>1. ~job[w].stalled
        BY <1>1, <2>2, <3>9 DEF WorkerDies
      <4>2. PICK j : j = [job[w] EXCEPT !.pc = "waiting", !.stalled = TRUE]
        OBVIOUS
      <4>3. j.pc = "waiting" /\ job'[w] = j
        BY <2>0, <3>0, <3>9, <4>1, <4>2 DEF WorkerDies, Job
      <4> QED
        BY <2>2, <4>3 DEF WorkOn
    <3> QED
      BY <1>5, <3>4, <3>5, <3>6, <3>7, <3>8, <3>9
         DEF Sync, StoreSynced, StoreFailed
  <2> QED
    BY <2>1, <2>2
<1>6. CASE UNCHANGED <<reviews, job, req, abandoned>>
  BY <1>0, <1>1, <1>6 DEF Attended, WorkOn
<1> QED
  BY <1>2, <1>3, <1>4, <1>5, <1>6
     DEF Next, Push, DeliverPull, ScanChanges, vars

-----------------------------------------------------------------------------
(* The theorems.                                                           *)

IInv == TypeInv /\ MergeInv /\ SeenInv /\ ApprovalInv /\ PendingHasWork

LEMMA Inductive == Spec => []IInv
<1>1. Init => IInv
  <2> SUFFICES ASSUME Init PROVE IInv
    OBVIOUS
  <2>1. TypeInv /\ DOMAIN reviews = {}
    BY InitType DEF Init
  <2>2. MergeInv
    BY DEF Init, MergeInv, NoMerge, NoRequest
  <2>3. SeenInv
    BY <2>1 DEF Init, SeenInv, NoScan, NoRequest, Approves
  <2>4. ApprovalInv
    BY DEF Init, ApprovalInv
  <2>5. PendingHasWork
    BY <2>1 DEF PendingHasWork
  <2> QED
    BY <2>1, <2>2, <2>3, <2>4, <2>5 DEF IInv
<1>2. IInv /\ [Next]_vars => IInv'
  BY StepType, MergeStep, SeenStep, ApprovalStep, PendingStep DEF IInv
<1> QED
  BY <1>1, <1>2, PTL DEF Spec

(* A commit merged from Critiq was itself approved, scanned and clean (or  *)
(* overridden) and without an open request for changes when mergeBlockers  *)
(* read it, whatever was pushed, decided or scanned meanwhile.             *)
THEOREM MergesAreCleared == Spec => []MergedCleared
<1>1. IInv => MergedCleared
  BY MergeInvIsEnough DEF IInv
<1> QED
  BY <1>1, Inductive, PTL

(* Under REQUIRE_BOTH, submit stores approvals only of commits whose own   *)
(* AI review was finished.                                                 *)
THEOREM BothWereSeen == Spec => []RequireBothSeen
<1>1. IInv => RequireBothSeen
  BY DEF IInv, SeenInv, RequireBothSeen
<1> QED
  BY <1>1, Inductive, PTL

(* No approval that ReviewSyncProcessor sends, however late or often,      *)
(* lands on a commit other than the one decided on.                        *)
THEOREM ApprovalsArePinned == Spec => []ApprovalsPinned
<1>1. IInv => ApprovalsPinned
  BY DEF IInv, ApprovalInv, ApprovalsPinned
<1> QED
  BY <1>1, Inductive, PTL

(* A decision shown as on its way has a request or a job that will settle  *)
(* it, unless that request or job died.                                    *)
THEOREM PendingIsAttended == Spec => []PendingHasWork
<1>1. IInv => PendingHasWork
  BY DEF IInv
<1> QED
  BY <1>1, Inductive, PTL

=============================================================================
