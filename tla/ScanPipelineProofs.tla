------------------------- MODULE ScanPipelineProofs -------------------------
(***************************************************************************)
(* Proofs about ScanPipeline, for any number of concurrent requests,       *)
(* workers, pushes, scans, attempts and stalls.                            *)
(***************************************************************************)
EXTENDS ScanPipeline, TLAPS

USE BoundsAssumption, SwitchesAssumption

-----------------------------------------------------------------------------
(* Types.  Where a handler uses a scan id it read earlier, it has one.     *)

RequestOK(q) ==
    /\ q \in Request
    /\ q.pc \in {"remove", "add", "undo"} => q.cur \in ScanIds
    /\ q.pc = "create" /\ q.mode = "INCREMENTAL" => q.base \in ScanIds

ExecutionOK(x) ==
    /\ x \in Execution
    /\ x.pc # "idle" => x.scan \in ScanIds

TypeInv ==
    /\ TypeOK
    /\ \A r \in Requests : RequestOK(req[r])
    /\ \A w \in Workers : ExecutionOK(worker[w])

RequestsTyped == /\ req' \in [Requests -> Request]
                 /\ \A r \in Requests : RequestOK(req'[r])
WorkersTyped == /\ worker' \in [Workers -> Execution]
                /\ \A w \in Workers : ExecutionOK(worker'[w])

(* A request that is not running satisfies every claim about requests.     *)
LEMMA NoRequestOK == RequestOK(NoRequest)
  BY DEF RequestOK, NoRequest, Request, ReqPcs, Commits, Statuses, Profiles,
     FirstProfile, ScanIds, NoScan

(* A record with fresh program counter is a request if the old one was.    *)
LEMMA SetRequest ==
  ASSUME TypeInv, NEW r \in Requests, NEW q, RequestOK(q),
         req' = [req EXCEPT ![r] = q]
  PROVE  RequestsTyped
  BY DEF TypeInv, TypeOK, RequestsTyped, RequestOK

LEMMA KeepRequests == ASSUME TypeInv, UNCHANGED req PROVE RequestsTyped
  BY DEF TypeInv, TypeOK, RequestsTyped

LEMMA SetExecution ==
  ASSUME TypeInv, NEW w \in Workers, NEW x, ExecutionOK(x),
         worker' = [worker EXCEPT ![w] = x]
  PROVE  WorkersTyped
  BY DEF TypeInv, TypeOK, WorkersTyped, ExecutionOK

LEMMA KeepWorkers == ASSUME TypeInv, UNCHANGED worker PROVE WorkersTyped
  BY DEF TypeInv, TypeOK, WorkersTyped

LEMMA InitType == Init => TypeInv
<1> SUFFICES ASSUME Init PROVE TypeInv
  OBVIOUS
<1>1. TypeOK
  BY NoRequestOK DEF Init, TypeOK, RequestOK, Commits, ScanIds, NoScan,
     Statuses, Profiles, FirstProfile, ScanRow, NoRow, Job, NoJob, JobStates,
     Execution, NoExecution, WorkerPcs
<1>2. \A r \in Requests : RequestOK(req[r])
  BY NoRequestOK DEF Init
<1>3. \A w \in Workers : ExecutionOK(worker[w])
  BY DEF Init, ExecutionOK, Execution, NoExecution, WorkerPcs, NoScan
<1> QED
  BY <1>1, <1>2, <1>3 DEF TypeInv

LEMMA EnvironmentType == TypeInv /\ Environment => TypeInv'
<1> SUFFICES ASSUME TypeInv, Environment PROVE TypeInv'
  OBVIOUS
<1>1. RequestsTyped /\ WorkersTyped
  BY KeepRequests, KeepWorkers DEF Environment, Push, ForceBack,
     ChangeProfile
<1>2. CASE Push
  <2>1. pushed + 1 \in Commits /\ remoteHead \in Commits
    BY <1>2 DEF Push, TypeInv, TypeOK, Commits
  <2>2. lineage' \in [Commits -> SUBSET Commits]
    BY <1>2, <2>1 DEF Push, TypeInv, TypeOK
  <2> QED
    BY <1>1, <1>2, <2>1, <2>2 DEF Push, TypeInv, TypeOK, RequestsTyped,
       WorkersTyped, scanVars
<1>3. ASSUME NEW c \in 1..pushed, ForceBack(c) PROVE TypeInv'
  <2>1. c \in Commits
    BY DEF TypeInv, TypeOK, Commits
  <2> QED
    BY <1>1, <1>3, <2>1 DEF ForceBack, TypeInv, TypeOK, RequestsTyped,
       WorkersTyped, scanVars
<1>4. CASE ChangeProfile
  BY <1>1, <1>4 DEF TypeInv, TypeOK, RequestsTyped, WorkersTyped,
     ChangeProfile, Profiles, scanVars
<1> QED
  BY <1>2, <1>3, <1>4 DEF Environment

-----------------------------------------------------------------------------
LEMMA ArriveType == \A r \in Requests : TypeInv /\ Arrive(r) => TypeInv'
<1> SUFFICES ASSUME NEW r \in Requests, TypeInv, Arrive(r)
             PROVE  TypeInv'
  OBVIOUS
<1> USE DEF RequestOK, NoRequest
<1>1. ASSUME NEW c \in 1..NumPushes, DeliverPush(r, c) PROVE TypeInv'
  <2>1. c \in Commits
    BY DEF Commits
  <2>2. RequestsTyped /\ WorkersTyped
    BY <1>1, <2>1, NoRequestOK, SetRequest, KeepWorkers
       DEF DeliverPush, Request, ReqPcs
  <2> QED
    BY <1>1, <2>1, <2>2 DEF DeliverPush, UpsertPull, TypeInv, TypeOK,
       RequestsTyped, WorkersTyped, scanVars
<1>2. CASE DeliverClose(r)
  <2>1. RequestsTyped /\ WorkersTyped
    BY <1>2, NoRequestOK, SetRequest, KeepWorkers
       DEF DeliverClose, Request, ReqPcs
  <2> QED
    BY <1>2, <2>1 DEF DeliverClose, TypeInv, TypeOK, RequestsTyped,
       WorkersTyped, scanVars
<1>3. ASSUME NEW full \in BOOLEAN, RequestRescan(r, full) PROVE TypeInv'
  <2>1. pullHead \in Commits
    BY DEF TypeInv, TypeOK
  <2>2. RequestOK([NoRequest EXCEPT !.pc = "inFlight", !.kind = "rescan",
                                    !.full = full, !.sha = pullHead])
    BY <2>1, NoRequestOK DEF Request, ReqPcs
  <2>3. RequestsTyped /\ WorkersTyped
    BY <1>3, <2>2, SetRequest, KeepWorkers DEF RequestRescan
  <2> QED
    BY <1>3, <2>3 DEF RequestRescan, TypeInv, TypeOK, RequestsTyped,
       WorkersTyped, scanVars, pullVars
<1>4. ASSUME NEW staleOnly \in BOOLEAN, RescanOpenPulls(r, staleOnly)
      PROVE TypeInv'
  <2>1. pullHead \in Commits
    BY DEF TypeInv, TypeOK
  <2>2. RequestsTyped /\ WorkersTyped
    BY <1>4, <2>1, NoRequestOK, SetRequest, KeepWorkers
       DEF RescanOpenPulls, Request, ReqPcs
  <2> QED
    BY <1>4, <2>2 DEF RescanOpenPulls, TypeInv, TypeOK, RequestsTyped,
       WorkersTyped, scanVars, pullVars
<1> QED
  BY <1>1, <1>2, <1>3, <1>4 DEF Arrive

-----------------------------------------------------------------------------
LEMMA LookupType ==
  ASSUME TypeInv, NEW r \in Requests,
         \/ RescanRefused(r) \/ RescanAllowed(r)
         \/ \E s \in ScanIds \cup {NoScan} : ReadLatest(r, s)
         \/ LookupDuplicate(r) \/ LookupFresh(r)
  PROVE  RequestsTyped
<1> USE DEF RequestOK
<1>0. req[r] \in Request /\ profile \in Profiles
  BY DEF TypeInv, TypeOK
<1>1. CASE RescanRefused(r) \/ LookupDuplicate(r)
  BY <1>1, NoRequestOK, SetRequest DEF RescanRefused, LookupDuplicate
<1>2. CASE RescanAllowed(r)
  BY <1>2, <1>0, SetRequest DEF RescanAllowed, Request, ReqPcs
<1>3. ASSUME NEW s \in ScanIds \cup {NoScan}, ReadLatest(r, s)
      PROVE  RequestsTyped
  <2> DEFINE seen == IF s = NoScan THEN "none" ELSE status[s]
  <2>1. seen \in Statuses
    BY DEF TypeInv, TypeOK, Statuses
  <2> HIDE DEF seen
  <2>2. [req[r] EXCEPT !.pc = "tiers", !.cur = s, !.seen = seen] \in Request
    BY <1>0, <2>1 DEF Request, ReqPcs
  <2> QED
    BY <1>3, <1>0, <2>2, SetRequest DEF ReadLatest, seen, Request
<1>4. CASE LookupFresh(r)
  <2>1. NextAttempt(req[r]) \in Nat
    BY <1>0 DEF NextAttempt, TypeInv, TypeOK, ScanRow, Request, NoScan
  <2>2. [req[r] EXCEPT !.pc = "find", !.attempt = NextAttempt(req[r]),
                       !.profile = profile, !.cur = NoScan, !.seen = "none"]
          \in Request
    BY <1>0, <2>1 DEF Request, ReqPcs, Statuses
  <2> QED
    BY <1>4, <1>0, <2>2, SetRequest DEF LookupFresh, Request
<1> QED
  BY <1>1, <1>2, <1>3, <1>4

LEMMA AfterCancelOK ==
  ASSUME NEW q \in Request
  PROVE  RequestOK(AfterCancel(q))
<1>1. CASE q.kind = "close"
  BY <1>1, NoRequestOK DEF AfterCancel
<1>2. CASE q.kind # "close"
  <2>1. [q EXCEPT !.pc = "base", !.found = {}, !.todo = {}, !.cur = NoScan]
          \in Request
    BY DEF Request, ReqPcs
  <2> QED
    BY <1>2, <2>1 DEF AfterCancel, RequestOK, Request
<1> QED
  BY <1>1, <1>2

LEMMA CancelType ==
  ASSUME TypeInv, NEW r \in Requests,
         \/ CancelFind(r) \/ \E s \in ScanIds : CancelPeek(r, s)
         \/ CancelRemove(r) \/ CancelRemoveThrows(r) \/ CancelMark(r)
  PROVE  RequestsTyped
<1>0. req[r] \in Request
  BY DEF TypeInv, TypeOK
<1>1. CASE CancelFind(r)
  <2> DEFINE found == {s \in ScanIds : status[s] \in InFlight}
  <2>1. RequestOK([req[r] EXCEPT !.pc = "peek", !.found = found,
                                 !.todo = found])
    BY <1>0 DEF RequestOK, Request, ReqPcs
  <2> QED
    BY <1>1, <1>0, <2>1, AfterCancelOK, SetRequest DEF CancelFind
<1>2. ASSUME NEW s \in ScanIds, CancelPeek(r, s) PROVE RequestsTyped
  <2>1. RequestOK([req[r] EXCEPT !.pc = "remove", !.cur = s])
    BY <1>0 DEF RequestOK, Request, ReqPcs
  <2>2. RequestOK([req[r] EXCEPT !.todo = req[r].todo \ {s}])
    BY <1>0, <1>2 DEF RequestOK, Request, ReqPcs, CancelPeek
  <2> QED
    BY <1>2, <2>1, <2>2, SetRequest DEF CancelPeek
<1>3. CASE CancelRemove(r)
  <2>1. RequestOK([req[r] EXCEPT !.pc = "peek",
                                 !.todo = req[r].todo \ {req[r].cur},
                                 !.cur = NoScan])
    BY <1>0 DEF RequestOK, Request, ReqPcs
  <2> QED
    BY <1>3, <2>1, SetRequest DEF CancelRemove
<1>4. CASE CancelRemoveThrows(r)
  BY <1>4, NoRequestOK, SetRequest DEF CancelRemoveThrows
<1>5. CASE CancelMark(r)
  BY <1>5, <1>0, AfterCancelOK, SetRequest DEF CancelMark
<1> QED
  BY <1>1, <1>2, <1>3, <1>4, <1>5

LEMMA CreateType ==
  ASSUME TypeInv, NEW r \in Requests,
         \/ \E base \in ScanIds \cup {NoScan}, aiWantsFull \in BOOLEAN :
                ReadBase(r, base, aiWantsFull)
         \/ CreateScan(r) \/ CreateConflict(r)
         \/ AddJob(r) \/ AddThrows(r) \/ UndoCreate(r)
  PROVE  RequestsTyped
<1>0. req[r] \in Request /\ RequestOK(req[r])
  BY DEF TypeInv, TypeOK
<1>1. ASSUME NEW base \in ScanIds \cup {NoScan}, NEW aiWantsFull \in BOOLEAN,
             ReadBase(r, base, aiWantsFull)
      PROVE  RequestsTyped
  <2> DEFINE mode == DecideScanMode(base, req[r].full, req[r].profile,
                                    aiWantsFull)
  <2>1. /\ mode \in {"FULL", "INCREMENTAL"}
        /\ mode = "INCREMENTAL" => base # NoScan
    BY DEF DecideScanMode
  <2> HIDE DEF mode
  <2>2. RequestOK([req[r] EXCEPT !.pc = "create", !.base = base,
                                 !.mode = mode])
    BY <1>0, <2>1 DEF RequestOK, Request, ReqPcs
  <2> QED
    BY <1>1, <2>2, SetRequest DEF ReadBase, mode
<1>2. CASE CreateScan(r)
  <2>1. created + 1 \in ScanIds
    BY <1>2 DEF CreateScan, TypeInv, TypeOK, ScanIds
  <2>2. RequestOK([NoRequest EXCEPT !.pc = "add", !.kind = req[r].kind,
                                    !.cur = created + 1])
    <3>1. NoRequest \in Request /\ req[r].kind \in {"webhook", "rescan", "close"}
      BY <1>0, NoRequestOK DEF RequestOK, Request
    <3> QED
      BY <2>1, <3>1 DEF RequestOK, Request, ReqPcs
  <2> QED
    BY <1>2, <2>2, SetRequest DEF CreateScan
<1>3. CASE CreateConflict(r) \/ AddJob(r) \/ UndoCreate(r)
  BY <1>3, NoRequestOK, SetRequest DEF CreateConflict, AddJob, UndoCreate
<1>4. CASE AddThrows(r)
  <2>1. RequestOK([req[r] EXCEPT !.pc = "undo"])
    BY <1>0, <1>4 DEF RequestOK, Request, ReqPcs, AddThrows
  <2> QED
    BY <1>4, <2>1, SetRequest DEF AddThrows
<1> QED
  BY <1>1, <1>2, <1>3, <1>4

LEMMA HandleType == \A r \in Requests : TypeInv /\ Handle(r) => TypeInv'
<1> SUFFICES ASSUME NEW r \in Requests, TypeInv, Handle(r)
             PROVE  TypeInv'
  OBVIOUS
<1>1. RequestsTyped
  BY LookupType, CancelType, CreateType DEF Handle
<1>2. WorkersTyped
  BY KeepWorkers DEF Handle, RescanRefused, RescanAllowed, ReadLatest,
     LookupDuplicate, LookupFresh, CancelFind, CancelPeek, CancelRemove,
     CancelRemoveThrows, CancelMark, ReadBase, CreateScan, CreateConflict,
     AddJob, AddThrows, UndoCreate
<1>3. UNCHANGED pullVars
  BY DEF Handle, RescanRefused, RescanAllowed, ReadLatest, LookupDuplicate,
     LookupFresh, CancelFind, CancelPeek, CancelRemove, CancelRemoveThrows,
     CancelMark, ReadBase, CreateScan, CreateConflict, AddJob, AddThrows,
     UndoCreate
<1>4. job' \in [ScanIds -> Job]
  <2>1. CASE CancelRemove(r) \/ AddJob(r)
    <3>1. NoJob \in Job /\ [NoJob EXCEPT !.state = "waiting"] \in Job
      BY DEF Job, NoJob, JobStates
    <3> QED
      BY <2>1, <3>1 DEF CancelRemove, AddJob, TypeInv, TypeOK
  <2> QED
    BY <2>1 DEF Handle, RescanRefused, RescanAllowed, ReadLatest,
       LookupDuplicate, LookupFresh, CancelFind, CancelPeek,
       CancelRemoveThrows, CancelMark, ReadBase, CreateScan, CreateConflict,
       AddThrows, UndoCreate, TypeInv, TypeOK
<1>5. /\ created' \in 0..MaxScans /\ scan' \in [ScanIds -> ScanRow]
      /\ status' \in [ScanIds -> Statuses]
      /\ UNCHANGED <<readAt, writes>>
  <2>1. CASE CancelMark(r)
    BY <2>1 DEF CancelMark, Superseded, TypeInv, TypeOK, Statuses
  <2>2. CASE UndoCreate(r)
    BY <2>2 DEF UndoCreate, TypeInv, TypeOK, Statuses
  <2>3. CASE CreateScan(r)
    <3> DEFINE row == [sha |-> req[r].sha, attempt |-> req[r].attempt,
                       profile |-> req[r].profile, mode |-> req[r].mode,
                       base |-> req[r].base,
                       prev |-> IF req[r].mode = "INCREMENTAL"
                                THEN scan[req[r].base].sha ELSE 0]
    <3>1. RequestOK(req[r]) /\ req[r] \in Request
      BY DEF TypeInv, TypeOK
    <3>2. req[r].mode = "INCREMENTAL" => scan[req[r].base].sha \in Commits
      BY <2>3, <3>1 DEF RequestOK, CreateScan, TypeInv, TypeOK, ScanRow
    <3>3. row \in ScanRow
      BY <3>1, <3>2 DEF Request, ScanRow, Commits
    <3> HIDE DEF row
    <3>4. scan' = [scan EXCEPT ![created + 1] = row]
      BY <2>3 DEF CreateScan, row
    <3>5. created' \in 0..MaxScans
      BY <2>3 DEF CreateScan, TypeInv, TypeOK
    <3>6. status' \in [ScanIds -> Statuses]
      BY <2>3 DEF CreateScan, TypeInv, TypeOK, Statuses
    <3> QED
      BY <2>3, <3>3, <3>4, <3>5, <3>6 DEF CreateScan, TypeInv, TypeOK
  <2> QED
    BY <2>1, <2>2, <2>3 DEF Handle, RescanRefused, RescanAllowed, ReadLatest,
       LookupDuplicate, LookupFresh, CancelFind, CancelPeek, CancelRemove,
       CancelRemoveThrows, ReadBase, CreateConflict, AddJob, AddThrows,
       scanVars, TypeInv, TypeOK
<1> QED
  BY <1>1, <1>2, <1>3, <1>4, <1>5 DEF TypeInv, TypeOK, RequestsTyped,
     WorkersTyped, pullVars

-----------------------------------------------------------------------------
LEMMA GotoOK ==
  ASSUME TypeInv, NEW w \in Workers, NEW pc \in WorkerPcs, Goto(w, pc),
         worker[w].pc # "idle"
  PROVE  WorkersTyped
<1>1. ExecutionOK(worker[w])
  BY DEF TypeInv
<1>2. ExecutionOK([worker[w] EXCEPT !.pc = pc])
  BY <1>1 DEF ExecutionOK, Execution
<1> QED
  BY <1>2, SetExecution DEF Goto

LEMMA NoExecutionOK == ExecutionOK(NoExecution)
  BY DEF ExecutionOK, Execution, NoExecution, WorkerPcs, NoScan

(* The actions of one worker, by what they do to its own record.           *)
LEMMA ExecuteWorker ==
  ASSUME TypeInv, NEW w \in Workers, Execute(w)
  PROVE  WorkersTyped
<1>1. {"fetch", "fetchFull", "persist", "ai", "notify", "finish", "onFailed"}
        \subseteq WorkerPcs
  BY DEF WorkerPcs
<1>2. CASE Claim(w) \/ SkipNotRunnable(w)
  BY <1>2, <1>1, GotoOK DEF Claim, SkipNotRunnable
<1>3. CASE FetchCompare(w) \/ FetchForcePush(w) \/ FetchFull(w)
  BY <1>3, <1>1, GotoOK DEF FetchCompare, FetchForcePush, FetchFull
<1>4. CASE Persist(w) \/ DiscardResult(w)
  BY <1>4, <1>1, GotoOK DEF Persist, DiscardResult
<1>5. CASE DecideAi(w)
  BY <1>5, <1>1, GotoOK DEF DecideAi
<1>6. CASE Complete(w) \/ OnFailed(w) \/ OnFailedThrows(w)
  BY <1>6, NoExecutionOK, SetExecution
     DEF Complete, OnFailed, OnFailedThrows
<1>7. ASSUME NEW unrecoverable \in BOOLEAN, Fail(w, unrecoverable)
      PROVE  WorkersTyped
  <2>1. worker[w].pc # "idle" /\ ExecutionOK(worker[w])
    BY <1>7 DEF Fail, MayFail, Refusable, TypeInv
  <2>2. ExecutionOK([worker[w] EXCEPT !.pc = "onFailed"])
    BY <2>1, <1>1 DEF ExecutionOK, Execution
  <2>3. \E x : ExecutionOK(x) /\ worker' = [worker EXCEPT ![w] = x]
    BY <1>7, <2>2, NoExecutionOK DEF Fail
  <2> QED
    BY <2>3, SetExecution
<1> QED
  BY <1>2, <1>3, <1>4, <1>5, <1>6, <1>7 DEF Execute

LEMMA ExecuteType == \A w \in Workers : TypeInv /\ Execute(w) => TypeInv'
<1> SUFFICES ASSUME NEW w \in Workers, TypeInv, Execute(w)
             PROVE  TypeInv'
  OBVIOUS
<1> DEFINE s == worker[w].scan
<1>1. WorkersTyped
  BY ExecuteWorker
<1>2. worker[w].pc # "idle" /\ s \in ScanIds
  BY DEF TypeInv, ExecutionOK, Execute, Claim, SkipNotRunnable, FetchCompare,
     FetchForcePush, FetchFull, Persist, DiscardResult, DecideAi,
     Complete, Fail, MayFail, Refusable, OnFailed, OnFailedThrows
<1>3. RequestsTyped
  BY KeepRequests DEF Execute, Claim, SkipNotRunnable, FetchCompare,
     FetchForcePush, FetchFull, Persist, DiscardResult, DecideAi,
     Complete, Fail, OnFailed, OnFailedThrows
<1>4. /\ UNCHANGED <<remoteHead, pushed, lineage, returned, pullHead,
                     pullOpen, profile, created>>
      /\ latest' \in ScanIds \cup {NoScan}
  BY <1>2 DEF Execute, Claim, SkipNotRunnable, FetchCompare, FetchForcePush,
     FetchFull, Persist, DiscardResult, DecideAi, Complete,
     Fail, OnFailed, OnFailedThrows, pullVars, scanVars, TypeInv, TypeOK
<1>5. job' \in [ScanIds -> Job]
  <2>1. CASE Complete(w)
    <3>1. [job[s] EXCEPT !.state = "completed"] \in Job
      BY <1>2 DEF TypeInv, TypeOK, Job, JobStates
    <3> QED
      BY <2>1, <3>1 DEF Complete, TypeInv, TypeOK
  <2>2. ASSUME NEW unrecoverable \in BOOLEAN, Fail(w, unrecoverable)
        PROVE  job' \in [ScanIds -> Job]
    <3> DEFINE made == job[s].made + 1
               end == IF IsFinal(made, unrecoverable) THEN "failed"
                      ELSE "delayed"
    <3>1. made \in Nat /\ end \in JobStates
      BY <1>2 DEF TypeInv, TypeOK, Job, JobStates
    <3> HIDE DEF made, end
    <3>2. [job[s] EXCEPT !.made = made, !.state = end] \in Job
      BY <1>2, <3>1 DEF TypeInv, TypeOK, Job
    <3>3. \/ job' = [job EXCEPT ![s] =
                       [job[s] EXCEPT !.made = made, !.state = end]]
          \/ job' = job
      BY <2>2 DEF Fail, made, end
    <3> QED
      BY <3>2, <3>3 DEF TypeInv, TypeOK
  <2> QED
    BY <2>1, <2>2 DEF Execute, Claim, SkipNotRunnable, FetchCompare,
       FetchForcePush, FetchFull, Persist, DiscardResult, DecideAi,
       OnFailed, OnFailedThrows, TypeInv, TypeOK
<1>6. status' \in [ScanIds -> Statuses] /\ writes' \in [ScanIds -> Nat]
  <2>1. CASE Persist(w)
    <3>1. writes[s] + 1 \in Nat
      BY <1>2 DEF TypeInv, TypeOK
    <3> QED
      BY <2>1, <3>1 DEF Persist, TypeInv, TypeOK, Statuses
  <2>2. CASE Claim(w) \/ OnFailed(w)
    BY <2>2 DEF Claim, OnFailed, TypeInv, TypeOK, Statuses
  <2> QED
    BY <2>1, <2>2 DEF Execute, SkipNotRunnable, FetchCompare, FetchForcePush,
       FetchFull, DiscardResult, DecideAi, Complete, Fail, OnFailedThrows,
       scanVars, TypeInv, TypeOK
<1>7. scan' \in [ScanIds -> ScanRow]
  <2>1. CASE FetchForcePush(w)
    <3>1. scan[s] \in ScanRow /\ 0 \in Commits
      BY <1>2 DEF TypeInv, TypeOK, Commits
    <3>2. [scan[s] EXCEPT !.mode = "FULL", !.prev = 0] \in ScanRow
      BY <3>1 DEF ScanRow
    <3> QED
      BY <2>1, <3>2 DEF FetchForcePush, TypeInv, TypeOK
  <2> QED
    BY <2>1 DEF Execute, Claim, SkipNotRunnable, FetchCompare, FetchFull,
       Persist, DiscardResult, DecideAi, Complete, Fail, OnFailed,
       OnFailedThrows, scanVars, TypeInv, TypeOK
<1>8. readAt' \in [ScanIds -> Commits]
  <2>1. scan[s].sha \in Commits /\ GetDiff \in Commits
    BY <1>2 DEF TypeInv, TypeOK, ScanRow, GetDiff
  <2>2. CASE FetchCompare(w)
    BY <2>1, <2>2 DEF FetchCompare, CompareDiff, TypeInv, TypeOK
  <2>3. CASE FetchFull(w)
    BY <2>1, <2>3 DEF FetchFull, TypeInv, TypeOK
  <2> QED
    BY <2>2, <2>3 DEF Execute, Claim, SkipNotRunnable, FetchForcePush, Persist,
       DiscardResult, DecideAi, Complete, Fail, OnFailed,
       OnFailedThrows, scanVars, TypeInv, TypeOK
<1> QED
  BY <1>1, <1>3, <1>4, <1>5, <1>6, <1>7, <1>8
     DEF TypeInv, TypeOK, RequestsTyped, WorkersTyped

LEMMA SchedulerType ==
  ASSUME TypeInv,
         \/ \E r \in Requests : ApiCrash(r)
         \/ \E w \in Workers : WorkerCrash(w)
         \/ \E w \in Workers, s \in ScanIds : Pick(w, s)
         \/ \E s \in ScanIds : Stalled(s)
  PROVE  TypeInv'
<1>1. CASE \E r \in Requests : ApiCrash(r)
  <2>1. RequestsTyped /\ WorkersTyped
    BY <1>1, NoRequestOK, SetRequest, KeepWorkers DEF ApiCrash
  <2> QED
    BY <1>1, <2>1 DEF ApiCrash, TypeInv, TypeOK, RequestsTyped, WorkersTyped,
       pullVars, scanVars
<1>2. CASE \E w \in Workers : WorkerCrash(w)
  <2>1. RequestsTyped /\ WorkersTyped
    BY <1>2, NoExecutionOK, SetExecution, KeepRequests DEF WorkerCrash
  <2> QED
    BY <1>2, <2>1 DEF WorkerCrash, TypeInv, TypeOK, RequestsTyped,
       WorkersTyped, pullVars, scanVars
<1>3. ASSUME NEW w \in Workers, NEW s \in ScanIds, Pick(w, s)
      PROVE  TypeInv'
  <2> DEFINE pc == IF job[s].stalls > StallLimit THEN "stalled" ELSE "claim"
  <2>1. ExecutionOK([pc |-> pc, scan |-> s, lock |-> TRUE])
    BY DEF ExecutionOK, Execution, WorkerPcs
  <2>2. RequestsTyped /\ WorkersTyped
    BY <1>3, <2>1, SetExecution, KeepRequests DEF Pick
  <2>3. [job[s] EXCEPT !.state = "active"] \in Job
    BY DEF TypeInv, TypeOK, Job, JobStates
  <2> QED
    BY <1>3, <2>2, <2>3 DEF Pick, TypeInv, TypeOK, RequestsTyped,
       WorkersTyped, pullVars, scanVars
<1>4. ASSUME NEW s \in ScanIds, Stalled(s)
      PROVE  TypeInv'
  <2>1. \A w \in Workers : ExecutionOK([worker[w] EXCEPT !.lock = FALSE])
    BY DEF TypeInv, ExecutionOK, Execution
  <2>2. \A w \in Workers : ExecutionOK(worker'[w])
    BY <1>4, <2>1 DEF Stalled, TypeInv
  <2>3. RequestsTyped /\ WorkersTyped
    BY <1>4, <2>2, KeepRequests DEF Stalled, ExecutionOK, WorkersTyped
  <2>4. [job[s] EXCEPT !.state = "waiting", !.stalls = job[s].stalls + 1]
          \in Job
    <3>1. job[s] \in Job /\ job[s].stalls + 1 \in Nat
      BY DEF TypeInv, TypeOK, Job
    <3> QED
      BY <3>1 DEF Job, JobStates
  <2> QED
    BY <1>4, <2>3, <2>4 DEF Stalled, TypeInv, TypeOK, RequestsTyped,
       WorkersTyped, pullVars, scanVars
<1> QED
  BY <1>1, <1>2, <1>3, <1>4

LEMMA StepType == TypeInv /\ [Next]_vars => TypeInv'
<1>1. CASE UNCHANGED vars
  BY <1>1 DEF TypeInv, TypeOK, vars, pullVars, scanVars
<1>2. CASE Next
  BY <1>2, EnvironmentType, ArriveType, HandleType, ExecuteType,
     SchedulerType DEF Next
<1> QED
  BY <1>1, <1>2

(* Every variable has its type in every reachable state, for every number  *)
(* of requests and workers and whatever the bounds.                        *)
THEOREM TypeCorrect == Spec => []TypeOK
<1>1. TypeInv => TypeOK
  BY DEF TypeInv
<1> QED
  BY <1>1, InitType, StepType, PTL DEF Spec

-----------------------------------------------------------------------------
(* Safety.  The properties below are not inductive alone: they need that a *)
(* row whose job is still to be added belongs to exactly one request, and  *)
(* that no job and no worker knows it yet.                                 *)

Adding(r) == req[r].pc \in {"add", "undo"}

Unknown(s) ==
    /\ job[s].state = "none"
    /\ \A w \in Workers : worker[w].pc = "idle" \/ worker[w].scan # s

RowsExist ==
    /\ \A s \in ScanIds : status[s] # "none" <=> s <= created
    /\ \A s \in ScanIds : job[s].state # "none" => s <= created
    /\ \A w \in Workers : worker[w].pc # "idle" => worker[w].scan <= created

AddsOwnRow ==
    /\ \A r \in Requests : Adding(r) =>
          /\ status[req[r].cur] \in {"QUEUED", "SUPERSEDED"}
          /\ Unknown(req[r].cur)
    /\ \A r, t \in Requests :
          Adding(r) /\ Adding(t) /\ req[r].cur = req[t].cur => r = t

SafetyInv == RowsExist /\ AddsOwnRow /\ LatestIsSettled /\ FindingsWrittenOnce

(* One step of PublishedIsFinal.                                           *)
OutcomesKept ==
    \A s \in ScanIds :
        /\ status[s] \in {"DONE", "FAILED"} => status'[s] = status[s]
        /\ status[s] = "SUPERSEDED" =>
               status'[s] \in {"SUPERSEDED", "FAILED"}

LEMMA InitSafety == Init => SafetyInv
  BY DEF Init, SafetyInv, RowsExist, AddsOwnRow, Adding, LatestIsSettled,
     FindingsWrittenOnce, NoRequest, NoExecution, NoJob, ScanIds, NoScan

(* Steps that only move requests, none of them to the row it will add.     *)
LEMMA QuietSafety ==
  ASSUME TypeInv, SafetyInv,
         UNCHANGED <<created, status, job, latest, writes, worker>>,
         \A r \in Requests : Adding(r)' => Adding(r) /\ req'[r].cur = req[r].cur
  PROVE  SafetyInv' /\ OutcomesKept
<1>1. RowsExist' /\ LatestIsSettled' /\ FindingsWrittenOnce'
  BY DEF SafetyInv, RowsExist, LatestIsSettled, FindingsWrittenOnce
<1>2. \A s : Unknown(s) => Unknown(s)'
  BY DEF Unknown
<1>3. AddsOwnRow'
  BY <1>2 DEF SafetyInv, AddsOwnRow
<1> QED
  BY <1>1, <1>3 DEF SafetyInv, OutcomesKept, TypeInv, TypeOK

LEMMA RequestSafety ==
  ASSUME TypeInv, SafetyInv, NEW r \in Requests,
         \/ Arrive(r) \/ ApiCrash(r)
         \/ RescanRefused(r) \/ RescanAllowed(r)
         \/ \E s \in ScanIds \cup {NoScan} : ReadLatest(r, s)
         \/ LookupDuplicate(r) \/ LookupFresh(r)
         \/ CancelFind(r) \/ \E s \in ScanIds : CancelPeek(r, s)
         \/ CancelRemoveThrows(r)
         \/ \E base \in ScanIds \cup {NoScan}, aiWantsFull \in BOOLEAN :
                ReadBase(r, base, aiWantsFull)
         \/ CreateConflict(r) \/ AddThrows(r)
  PROVE  SafetyInv' /\ OutcomesKept
<1>0. req \in [Requests -> Request] /\ req[r] \in Request
  BY DEF TypeInv, TypeOK
<1>1. UNCHANGED <<created, status, job, latest, writes, worker>>
  BY DEF Arrive, DeliverPush, DeliverClose, RequestRescan, RescanOpenPulls,
     ApiCrash, RescanRefused, RescanAllowed, ReadLatest, LookupDuplicate,
     LookupFresh, CancelFind, CancelPeek, CancelRemoveThrows, ReadBase,
     CreateConflict, AddThrows, pullVars, scanVars
<1>2. \A t \in Requests \ {r} : req'[t] = req[t]
  BY <1>0 DEF Arrive, DeliverPush, DeliverClose, RequestRescan,
     RescanOpenPulls, ApiCrash, RescanRefused, RescanAllowed, ReadLatest,
     LookupDuplicate, LookupFresh, CancelFind, CancelPeek,
     CancelRemoveThrows, ReadBase, CreateConflict, AddThrows
<1>3. Adding(r)' => Adding(r) /\ req'[r].cur = req[r].cur
  <2>1. CASE AddThrows(r)
    BY <2>1, <1>0 DEF AddThrows, Adding, Request
  <2>2. CASE CancelFind(r)
    BY <2>2, <1>0 DEF CancelFind, Adding, Request, AfterCancel, NoRequest
  <2>3. ASSUME NEW s \in ScanIds, CancelPeek(r, s)
        PROVE  ~Adding(r)'
    BY <2>3, <1>0 DEF CancelPeek, Adding, Request
  <2>4. CASE Arrive(r)
    <3>1. ASSUME NEW c, DeliverPush(r, c) PROVE req'[r].pc = "lookup"
      BY <1>0, <3>1 DEF DeliverPush, NoRequest
    <3>2. CASE DeliverClose(r)
      BY <1>0, <3>2 DEF DeliverClose, Adding, NoRequest
    <3>3. ASSUME NEW full, RequestRescan(r, full)
          PROVE  req'[r].pc = "inFlight"
      BY <1>0, <3>3 DEF RequestRescan, NoRequest
    <3>4. ASSUME NEW staleOnly, RescanOpenPulls(r, staleOnly)
          PROVE  req'[r].pc = "lookup"
      BY <1>0, <3>4 DEF RescanOpenPulls, NoRequest
    <3> QED
      BY <2>4, <3>1, <3>2, <3>3, <3>4 DEF Arrive, Adding
  <2>5. CASE \/ ApiCrash(r) \/ RescanRefused(r) \/ LookupDuplicate(r)
             \/ CancelRemoveThrows(r) \/ CreateConflict(r)
    BY <2>5, <1>0 DEF ApiCrash, RescanRefused, LookupDuplicate,
       CancelRemoveThrows, CreateConflict, Adding, NoRequest
  <2>6. CASE RescanAllowed(r)
    BY <2>6, <1>0 DEF RescanAllowed, Adding, Request
  <2>9. CASE LookupFresh(r)
    <3> DEFINE q == [req[r] EXCEPT !.pc = "find",
                       !.attempt = NextAttempt(req[r]), !.profile = profile,
                       !.cur = NoScan, !.seen = "none"]
    <3>1. q.pc = "find"
      BY <1>0 DEF Request
    <3>2. req'[r] = q
      BY <2>9, <1>0 DEF LookupFresh
    <3> QED
      BY <3>1, <3>2 DEF Adding
  <2>7. ASSUME NEW s \in ScanIds \cup {NoScan}, ReadLatest(r, s)
        PROVE  ~Adding(r)'
    <3> DEFINE q == [req[r] EXCEPT !.pc = "tiers", !.cur = s,
                       !.seen = IF s = NoScan THEN "none" ELSE status[s]]
    <3>1. q.pc = "tiers"
      BY <1>0 DEF Request
    <3>2. req'[r] = q
      BY <2>7, <1>0 DEF ReadLatest
    <3> QED
      BY <3>1, <3>2 DEF Adding
  <2>8. ASSUME NEW base \in ScanIds \cup {NoScan},
               NEW aiWantsFull \in BOOLEAN, ReadBase(r, base, aiWantsFull)
        PROVE  ~Adding(r)'
    BY <2>8, <1>0 DEF ReadBase, Adding, Request
  <2> QED
    BY <2>1, <2>2, <2>3, <2>4, <2>5, <2>6, <2>7, <2>8, <2>9
<1>4. \A t \in Requests : Adding(t)' => Adding(t) /\ req'[t].cur = req[t].cur
  BY <1>2, <1>3 DEF Adding
<1> QED
  BY <1>1, <1>4, QuietSafety

LEMMA CancelRemoveSafety ==
  ASSUME TypeInv, SafetyInv, NEW r \in Requests, CancelRemove(r)
  PROVE  SafetyInv' /\ OutcomesKept
<1>0. /\ req \in [Requests -> Request] /\ job \in [ScanIds -> Job]
      /\ req[r].cur \in ScanIds /\ status \in [ScanIds -> Statuses]
  BY DEF TypeInv, TypeOK, RequestOK, CancelRemove
<1>1. UNCHANGED <<created, status, latest, writes, worker>>
  BY DEF CancelRemove, pullVars, scanVars
<1>2. \A s \in ScanIds : job'[s].state = job[s].state \/ job'[s].state = "none"
  BY <1>0 DEF CancelRemove, NoJob
<1>3. \A s \in ScanIds : Unknown(s) => Unknown(s)'
  BY <1>1, <1>2 DEF Unknown
<1>4. ~Adding(r)' /\ \A t \in Requests \ {r} : req'[t] = req[t]
  BY <1>0 DEF CancelRemove, Adding, Request
<1>5. \A t \in Requests : Adding(t) => req[t].cur \in ScanIds
  BY DEF TypeInv, RequestOK, Adding
<1>6. AddsOwnRow'
  BY <1>1, <1>3, <1>4, <1>5 DEF SafetyInv, AddsOwnRow, Adding
<1> QED
  BY <1>0, <1>1, <1>2, <1>6
     DEF SafetyInv, RowsExist, LatestIsSettled, FindingsWrittenOnce,
         OutcomesKept

LEMMA CancelMarkSafety ==
  ASSUME TypeInv, SafetyInv, NEW r \in Requests, CancelMark(r)
  PROVE  SafetyInv' /\ OutcomesKept
<1>0. /\ req \in [Requests -> Request] /\ req[r] \in Request
      /\ latest \in ScanIds \cup {NoScan}
  BY DEF TypeInv, TypeOK
<1>1. UNCHANGED <<created, job, latest, writes, worker>>
  BY DEF CancelMark, pullVars
<1>2. \A s \in ScanIds :
         \/ status'[s] = status[s]
         \/ status[s] \in InFlight /\ status'[s] = "SUPERSEDED"
  BY DEF CancelMark, Superseded
<1>3. ~Adding(r)' /\ \A t \in Requests \ {r} : req'[t] = req[t]
  BY <1>0 DEF CancelMark, Adding, AfterCancel, NoRequest, Request
<1>4. \A t \in Requests : Adding(t) => req[t].cur \in ScanIds
  BY DEF TypeInv, RequestOK, Adding
<1>5. AddsOwnRow'
  BY <1>1, <1>2, <1>3, <1>4 DEF SafetyInv, AddsOwnRow, Adding, Unknown,
     InFlight
<1>6. LatestIsSettled'
  BY <1>0, <1>1, <1>2 DEF SafetyInv, LatestIsSettled, InFlight
<1> QED
  BY <1>1, <1>2, <1>5, <1>6
     DEF SafetyInv, RowsExist, FindingsWrittenOnce, OutcomesKept, InFlight

LEMMA CreateScanSafety ==
  ASSUME TypeInv, SafetyInv, NEW r \in Requests, CreateScan(r)
  PROVE  SafetyInv' /\ OutcomesKept
<1>0. /\ req \in [Requests -> Request] /\ req[r] \in Request
      /\ status \in [ScanIds -> Statuses]
      /\ latest \in ScanIds \cup {NoScan} /\ created \in Nat
      /\ created + 1 \in ScanIds
  BY DEF TypeInv, TypeOK, CreateScan, ScanIds
<1>s. PICK s \in ScanIds : s = created + 1
  BY <1>0
<1>1. /\ UNCHANGED <<job, latest, writes, worker>>
      /\ created' = s /\ status' = [status EXCEPT ![s] = "QUEUED"]
  BY <1>s DEF CreateScan, pullVars
<1>2. status[s] = "none" /\ Unknown(s)
  <2>1. ~(s <= created) /\ \A w \in Workers : worker[w].scan = s =>
                                ~(worker[w].scan <= created)
    BY <1>0, <1>s
  <2> QED
    BY <2>1 DEF SafetyInv, RowsExist, Unknown, TypeInv, TypeOK, Job, JobStates
<1>3. \A c \in ScanIds : Unknown(c) => Unknown(c)'
  BY <1>1 DEF Unknown
<1>4. Adding(r)' /\ req'[r].cur = s /\ ~Adding(r)
  BY <1>0, <1>s DEF CreateScan, Adding, NoRequest
<1>5. \A t \in Requests \ {r} : req'[t] = req[t]
  BY <1>0 DEF CreateScan
<1>6. \A t \in Requests : Adding(t) =>
         /\ req[t].cur \in ScanIds /\ req[t].cur # s
         /\ status[req[t].cur] \in {"QUEUED", "SUPERSEDED"}
         /\ Unknown(req[t].cur)
  BY <1>2 DEF TypeInv, RequestOK, Adding, SafetyInv, AddsOwnRow
<1>7. \A t \in ScanIds : t # s => status'[t] = status[t]
  BY <1>1, <1>0
<1>8. status'[s] = "QUEUED"
  BY <1>1, <1>0
<1>9. \A t \in Requests \ {r} : Adding(t)' => Adding(t)
  BY <1>5 DEF Adding
<1>10. ASSUME NEW t \in Requests, Adding(t)'
       PROVE  /\ status'[req'[t].cur] \in {"QUEUED", "SUPERSEDED"}
              /\ Unknown(req[t].cur)'
  <2>1. CASE t = r
    <3>1. Unknown(s)'
      BY <1>2, <1>3
    <3> QED
      BY <2>1, <3>1, <1>4, <1>8 DEF Unknown
  <2>2. CASE t # r
    <3>1. PICK c \in ScanIds : c = req[t].cur
      BY <1>6, <1>9, <1>10, <2>2
    <3>2. Unknown(c)' /\ req'[t].cur = c /\ c # s
      BY <3>1, <1>3, <1>5, <1>6, <1>9, <1>10, <2>2
    <3>3. status'[c] \in {"QUEUED", "SUPERSEDED"}
      BY <3>1, <3>2, <1>6, <1>7, <1>9, <1>10, <2>2
    <3> QED
      BY <3>2, <3>3 DEF Unknown
  <2> QED
    BY <2>1, <2>2
<1>11. \A t, u \in Requests :
          Adding(t)' /\ Adding(u)' /\ req'[t].cur = req'[u].cur => t = u
  BY <1>4, <1>5, <1>6, <1>9 DEF SafetyInv, AddsOwnRow
<1>12. AddsOwnRow'
  BY <1>10, <1>11 DEF AddsOwnRow
<1>13. RowsExist'
  <2>1. \A c \in ScanIds : c <= created' <=> c <= created \/ c = s
    BY <1>0, <1>s, <1>1 DEF ScanIds
  <2>2. \A w \in Workers :
           worker[w].pc # "idle" => worker[w].scan \in ScanIds
    BY DEF TypeInv, ExecutionOK
  <2> QED
    BY <2>1, <2>2, <1>1, <1>7, <1>8 DEF SafetyInv, RowsExist
<1>14. LatestIsSettled' /\ FindingsWrittenOnce'
  BY <1>0, <1>1, <1>2, <1>7, <1>8
     DEF SafetyInv, LatestIsSettled, FindingsWrittenOnce
<1> QED
  BY <1>2, <1>7, <1>12, <1>13, <1>14 DEF SafetyInv, OutcomesKept

LEMMA AddJobSafety ==
  ASSUME TypeInv, SafetyInv, NEW r \in Requests, AddJob(r) \/ UndoCreate(r)
  PROVE  SafetyInv' /\ OutcomesKept
<1>0. /\ req \in [Requests -> Request] /\ job \in [ScanIds -> Job]
      /\ status \in [ScanIds -> Statuses]
      /\ Adding(r)
  BY DEF TypeInv, TypeOK, AddJob, UndoCreate, Adding
<1>c. PICK c \in ScanIds : c = req[r].cur
  BY <1>0 DEF TypeInv, RequestOK, Adding
<1>1. /\ status[c] \in {"QUEUED", "SUPERSEDED"} /\ c <= created
      /\ \A t \in Requests \ {r} : Adding(t) => req[t].cur # c
  BY <1>0, <1>c DEF SafetyInv, AddsOwnRow, RowsExist
<1>2. UNCHANGED <<created, writes, worker>>
  BY DEF AddJob, UndoCreate, scanVars
<1>3. \A s \in ScanIds : s # c => job'[s] = job[s] /\ status'[s] = status[s]
  BY <1>0, <1>c DEF AddJob, UndoCreate, scanVars
<1>4. status'[c] = status[c] \/ status'[c] = "FAILED"
  BY <1>0, <1>c DEF AddJob, UndoCreate, scanVars
<1>5. ~Adding(r)' /\ \A t \in Requests \ {r} : req'[t] = req[t]
  BY <1>0 DEF AddJob, UndoCreate, Adding, NoRequest
<1>6. AddsOwnRow'
  <2>1. \A t \in Requests : Adding(t)' => t # r /\ Adding(t)
    BY <1>5 DEF Adding
  <2>2. \A t \in Requests : Adding(t) => req[t].cur \in ScanIds
    BY DEF TypeInv, RequestOK, Adding
  <2>3. \A s \in ScanIds : s # c /\ Unknown(s) => Unknown(s)'
    BY <1>2, <1>3 DEF Unknown
  <2>4. ASSUME NEW t \in Requests, Adding(t)'
        PROVE  /\ status'[req'[t].cur] \in {"QUEUED", "SUPERSEDED"}
               /\ Unknown(req[t].cur)'
    <3>1. PICK d \in ScanIds : d = req[t].cur /\ d # c
      BY <2>1, <2>2, <2>4, <1>1
    <3>2. status[d] \in {"QUEUED", "SUPERSEDED"} /\ Unknown(d)
      BY <2>1, <2>4, <3>1 DEF SafetyInv, AddsOwnRow
    <3>3. Unknown(d)' /\ req'[t].cur = d
      BY <2>1, <2>3, <2>4, <3>1, <3>2, <1>5
    <3> QED
      BY <3>1, <3>2, <3>3, <1>3 DEF Unknown
  <2>5. \A t, u \in Requests :
           Adding(t)' /\ Adding(u)' /\ req'[t].cur = req'[u].cur => t = u
    BY <2>1, <1>5 DEF SafetyInv, AddsOwnRow
  <2> QED
    BY <2>4, <2>5 DEF AddsOwnRow
<1>7. RowsExist'
  BY <1>1, <1>2, <1>3, <1>4 DEF SafetyInv, RowsExist
<1>8. latest' = latest /\ (latest # NoScan => latest \in ScanIds)
  BY DEF AddJob, UndoCreate, pullVars, TypeInv, TypeOK
<1>9. LatestIsSettled' /\ FindingsWrittenOnce'
  BY <1>1, <1>2, <1>3, <1>4, <1>8
     DEF SafetyInv, LatestIsSettled, FindingsWrittenOnce
<1> QED
  BY <1>1, <1>3, <1>4, <1>6, <1>7, <1>9 DEF SafetyInv, OutcomesKept

LEMMA HandleSafety ==
  ASSUME TypeInv, SafetyInv, NEW r \in Requests,
         Arrive(r) \/ Handle(r) \/ ApiCrash(r)
  PROVE  SafetyInv' /\ OutcomesKept
  BY RequestSafety, CancelRemoveSafety, CancelMarkSafety, CreateScanSafety,
     AddJobSafety DEF Handle

-----------------------------------------------------------------------------
(* Steps of workers and of the queue: requests and rows stay, a worker     *)
(* keeps its scan or drops it, and no job starts to exist.                 *)
LEMMA WorkerFrame ==
  ASSUME TypeInv, SafetyInv, UNCHANGED <<req, created>>,
         \A w \in Workers :
            worker'[w].pc # "idle" => \/ /\ worker[w].pc # "idle"
                                         /\ worker'[w].scan = worker[w].scan
                                      \/ job[worker'[w].scan].state # "none"
                                           /\ worker'[w].scan \in ScanIds,
         \A s \in ScanIds : job[s].state = "none" /\ Unknown(s)
                               => job'[s].state = "none",
         \A s \in ScanIds : job'[s].state # "none" => s <= created,
         \A s \in ScanIds : status[s] = "none" <=> status'[s] = "none",
         \A s \in ScanIds : Unknown(s) => status'[s] = status[s]
  PROVE  RowsExist' /\ AddsOwnRow'
<1>1. RowsExist'
  BY DEF SafetyInv, RowsExist
<1>2. \A s \in ScanIds : Unknown(s) => Unknown(s)'
  BY DEF Unknown
<1>3. ASSUME NEW t \in Requests, Adding(t)'
      PROVE  /\ status'[req'[t].cur] \in {"QUEUED", "SUPERSEDED"}
             /\ Unknown(req[t].cur)'
  <2>1. Adding(t)
    BY <1>3 DEF Adding
  <2>2. PICK d \in ScanIds : d = req[t].cur
    BY <2>1 DEF TypeInv, RequestOK, Adding
  <2>3. Unknown(d) /\ status[d] \in {"QUEUED", "SUPERSEDED"}
    BY <2>1, <2>2 DEF SafetyInv, AddsOwnRow
  <2>4. Unknown(d)'
    BY <1>2, <2>3
  <2> QED
    BY <2>2, <2>3, <2>4 DEF Unknown
<1>4. AddsOwnRow'
  BY <1>3 DEF SafetyInv, AddsOwnRow, Adding
<1> QED
  BY <1>1, <1>4

(* What a worker's own step does: it needs a scan, which then has a row;   *)
(* only a claimed or failing scan's status moves, and only within a job    *)
(* that exists.                                                            *)
LEMMA ExecuteFrame ==
  ASSUME TypeInv, SafetyInv, NEW w \in Workers, Execute(w)
  PROVE  /\ RowsExist' /\ AddsOwnRow'
         /\ worker[w].scan \in ScanIds
<1> DEFINE s == worker[w].scan
<1>0. /\ worker \in [Workers -> Execution] /\ worker[w] \in Execution
      /\ job \in [ScanIds -> Job] /\ status \in [ScanIds -> Statuses]
  BY DEF TypeInv, TypeOK
<1>1. worker[w].pc # "idle" /\ s \in ScanIds
  BY DEF TypeInv, ExecutionOK, Execute, Claim, SkipNotRunnable, FetchCompare,
     FetchForcePush, FetchFull, Persist, DiscardResult, DecideAi,
     Complete, Fail, MayFail, Refusable, OnFailed, OnFailedThrows
<1>2. ~Unknown(s) /\ s <= created /\ status[s] # "none"
  BY <1>1 DEF Unknown, SafetyInv, RowsExist
<1>3. UNCHANGED <<req, created>>
  BY DEF Execute, Claim, SkipNotRunnable, FetchCompare, FetchForcePush,
     FetchFull, Persist, DiscardResult, DecideAi, Complete,
     Fail, OnFailed, OnFailedThrows, scanVars
<1>4. \E x : /\ worker' = [worker EXCEPT ![w] = x]
             /\ x.pc # "idle" => x.scan = s
  <2>1. ASSUME NEW pc, Goto(w, pc)
        PROVE  \E x : /\ worker' = [worker EXCEPT ![w] = x]
                      /\ x.pc # "idle" => x.scan = s
    <3>1. PICK x : x = [worker[w] EXCEPT !.pc = pc]
      OBVIOUS
    <3>2. x.scan = s
      BY <1>0, <3>1 DEF Execution
    <3>3. worker' = [worker EXCEPT ![w] = x]
      BY <2>1, <3>1 DEF Goto
    <3> QED
      BY <3>2, <3>3
  <2>2. CASE worker' = [worker EXCEPT ![w] = NoExecution]
    <3>1. PICK x : x = NoExecution
      OBVIOUS
    <3>2. x.pc = "idle"
      BY <3>1 DEF NoExecution
    <3> QED
      BY <2>2, <3>1, <3>2
  <2>3. \/ \E pc : Goto(w, pc)
        \/ worker' = [worker EXCEPT ![w] = NoExecution]
    <3>1. CASE \E unrecoverable \in BOOLEAN : Fail(w, unrecoverable)
      BY <1>0, <3>1 DEF Fail, Goto
    <3>2. CASE \/ Claim(w) \/ SkipNotRunnable(w)
               \/ FetchCompare(w) \/ FetchForcePush(w) \/ FetchFull(w)
               \/ Persist(w) \/ DiscardResult(w)
               \/ DecideAi(w)
      BY <3>2 DEF Claim, SkipNotRunnable, FetchCompare, FetchForcePush,
         FetchFull, Persist, DiscardResult, DecideAi
    <3> QED
      BY <3>1, <3>2 DEF Execute, Complete, OnFailed, OnFailedThrows
  <2> QED
    BY <2>1, <2>2, <2>3
<1>5. \A v \in Workers :
         worker'[v].pc # "idle" => /\ worker[v].pc # "idle"
                                   /\ worker'[v].scan = worker[v].scan
  BY <1>0, <1>1, <1>4
<1>6. \A t \in ScanIds : t # s => job'[t] = job[t] /\ status'[t] = status[t]
  BY <1>0, <1>1 DEF Execute, Claim, SkipNotRunnable, FetchCompare,
     FetchForcePush, FetchFull, Persist, DiscardResult, DecideAi,
     Complete, Fail, OnFailed, OnFailedThrows, scanVars
<1>7. status'[s] # "none"
  BY <1>0, <1>1, <1>2 DEF Execute, Claim, SkipNotRunnable, FetchCompare,
     FetchForcePush, FetchFull, Persist, DiscardResult, DecideAi,
     Complete, Fail, OnFailed, OnFailedThrows, scanVars
<1>8. \A t \in ScanIds : Unknown(t) => job'[t] = job[t] /\ status'[t] = status[t]
  BY <1>2, <1>6
<1>9. \A t \in ScanIds : job'[t].state # "none" => t <= created
  BY <1>2, <1>6 DEF SafetyInv, RowsExist
<1>10. \A t \in ScanIds : status[t] = "none" <=> status'[t] = "none"
  BY <1>2, <1>6, <1>7
<1> QED
  BY <1>1, <1>3, <1>5, <1>8, <1>9, <1>10, WorkerFrame DEF Unknown

LEMMA ExecuteSafety ==
  ASSUME TypeInv, SafetyInv, NEW w \in Workers, Execute(w)
  PROVE  SafetyInv' /\ OutcomesKept
<1>1. PICK s \in ScanIds : s = worker[w].scan
  BY ExecuteFrame
<1>2. RowsExist' /\ AddsOwnRow'
  BY ExecuteFrame
<1>3. /\ status \in [ScanIds -> Statuses] /\ writes \in [ScanIds -> Nat]
      /\ latest \in ScanIds \cup {NoScan} /\ s # NoScan
  BY DEF TypeInv, TypeOK, ScanIds, NoScan
<1>4. CASE Persist(w)
  <2>1. /\ status[s] = "RUNNING" /\ latest' = s
        /\ status' = [status EXCEPT ![s] = "DONE"]
        /\ writes' = [writes EXCEPT ![s] = writes[s] + 1]
    BY <1>1, <1>4 DEF Persist, MayPersist
  <2> QED
    BY <1>2, <1>3, <2>1 DEF SafetyInv, LatestIsSettled, FindingsWrittenOnce,
       OutcomesKept
<1>5. CASE Claim(w)
  <2>1. /\ status[s] \in InFlight /\ UNCHANGED <<latest, writes>>
        /\ status' = [status EXCEPT ![s] = "RUNNING"]
    BY <1>1, <1>5 DEF Claim, Claimable, pullVars
  <2> QED
    BY <1>2, <1>3, <2>1 DEF SafetyInv, LatestIsSettled, FindingsWrittenOnce,
       OutcomesKept, InFlight
<1>6. CASE OnFailed(w) /\ MaySettle(s)
  <2>1. /\ status[s] \in InFlight /\ UNCHANGED writes /\ latest' = s
        /\ status' = [status EXCEPT ![s] = "FAILED"]
    BY <1>1, <1>6 DEF OnFailed, MaySettle
  <2> QED
    BY <1>2, <1>3, <2>1 DEF SafetyInv, LatestIsSettled, FindingsWrittenOnce,
       OutcomesKept, InFlight
<1>7. CASE UNCHANGED <<status, writes, latest>>
  BY <1>2, <1>3, <1>7 DEF SafetyInv, LatestIsSettled, FindingsWrittenOnce,
     OutcomesKept
<1> QED
  BY <1>1, <1>4, <1>5, <1>6, <1>7 DEF Execute, SkipNotRunnable,
     FetchCompare, FetchForcePush, FetchFull, DiscardResult, DecideAi,
     Complete, Fail, OnFailed, OnFailedThrows, scanVars,
     pullVars

LEMMA SchedulerSafety ==
  ASSUME TypeInv, SafetyInv,
         \/ \E w \in Workers : WorkerCrash(w)
         \/ \E w \in Workers, s \in ScanIds : Pick(w, s)
         \/ \E s \in ScanIds : Stalled(s)
  PROVE  SafetyInv' /\ OutcomesKept
<1>0. /\ worker \in [Workers -> Execution] /\ job \in [ScanIds -> Job]
      /\ status \in [ScanIds -> Statuses]
  BY DEF TypeInv, TypeOK
<1>1. UNCHANGED <<req, created, status, writes, latest>>
  BY DEF WorkerCrash, Pick, Stalled, scanVars, pullVars
<1>2. ASSUME NEW w \in Workers, WorkerCrash(w)
      PROVE  RowsExist' /\ AddsOwnRow'
  <2>1. UNCHANGED job /\ worker' = [worker EXCEPT ![w] = NoExecution]
    BY <1>2 DEF WorkerCrash
  <2> QED
    BY <1>0, <1>1, <2>1, WorkerFrame DEF NoExecution, SafetyInv, RowsExist
<1>3. ASSUME NEW w \in Workers, NEW s \in ScanIds, Pick(w, s)
      PROVE  RowsExist' /\ AddsOwnRow'
  <2>1. /\ job[s].state # "none"
        /\ \A t \in ScanIds : t # s => job'[t] = job[t]
        /\ \A v \in Workers : v # w => worker'[v] = worker[v]
        /\ worker'[w].scan = s
    BY <1>0, <1>3 DEF Pick, Removable
  <2> QED
    BY <1>1, <2>1, WorkerFrame DEF SafetyInv, RowsExist
<1>4. ASSUME NEW s \in ScanIds, Stalled(s)
      PROVE  RowsExist' /\ AddsOwnRow'
  <2>1. /\ job[s].state # "none"
        /\ \A t \in ScanIds : t # s => job'[t] = job[t]
    BY <1>0, <1>4 DEF Stalled
  <2>2. \A v \in Workers : worker[v] \in Execution
    BY <1>0
  <2>3. \A v \in Workers : \/ worker'[v] = [worker[v] EXCEPT !.lock = FALSE]
                           \/ worker'[v] = worker[v]
    BY <1>4 DEF Stalled
  <2>4. \A v \in Workers : /\ worker'[v].pc = worker[v].pc
                           /\ worker'[v].scan = worker[v].scan
    BY <2>2, <2>3 DEF Execution
  <2> QED
    BY <1>1, <2>1, <2>4, WorkerFrame DEF SafetyInv, RowsExist
<1>5. RowsExist' /\ AddsOwnRow'
  BY <1>2, <1>3, <1>4
<1> QED
  BY <1>1, <1>5 DEF SafetyInv, LatestIsSettled, FindingsWrittenOnce,
     OutcomesKept

LEMMA StepSafety ==
  TypeInv /\ SafetyInv /\ [Next]_vars => SafetyInv' /\ OutcomesKept
<1> SUFFICES ASSUME TypeInv, SafetyInv, [Next]_vars
             PROVE  SafetyInv' /\ OutcomesKept
  OBVIOUS
<1>1. CASE UNCHANGED vars \/ Environment
  BY <1>1, QuietSafety DEF vars, pullVars, scanVars, Environment, Push,
     ForceBack, ChangeProfile, Adding
<1>2. CASE \E r \in Requests : Arrive(r) \/ Handle(r) \/ ApiCrash(r)
  BY <1>2, HandleSafety
<1>3. CASE \E w \in Workers : Execute(w)
  BY <1>3, ExecuteSafety
<1> QED
  BY <1>1, <1>2, <1>3, SchedulerSafety DEF Next

LEMMA SafetyHolds == Spec => [](TypeInv /\ SafetyInv)
  BY InitType, StepType, InitSafety, StepSafety, PTL DEF Spec

(* The PR never shows a scan that is still in flight or was superseded,    *)
(* whatever worker or failure handler wrote latestScanId last.             *)
THEOREM LatestSettled == Spec => []LatestIsSettled
<1>1. SafetyInv => LatestIsSettled
  BY DEF SafetyInv
<1> QED
  BY <1>1, SafetyHolds, PTL

(* The findings of a scan are stored exactly once when it is DONE, and     *)
(* never otherwise, through retries, stalled jobs and lost locks.          *)
THEOREM FindingsOnce == Spec => []FindingsWrittenOnce
<1>1. SafetyInv => FindingsWrittenOnce
  BY DEF SafetyInv
<1> QED
  BY <1>1, SafetyHolds, PTL

(* No step changes a published outcome, and a superseded scan never        *)
(* publishes.  It rests on AddsOwnRow: the one unconditional write of      *)
(* enqueue (queue.add failed) can only meet a row nobody else has run.     *)
THEOREM OutcomesAreFinal == Spec => PublishedIsFinal
<1>1. TypeInv /\ SafetyInv /\ [Next]_vars => [OutcomesKept]_vars
  BY StepSafety
<1>2. Spec => [][OutcomesKept]_vars
  BY <1>1, SafetyHolds, PTL DEF Spec
<1> QED
  BY <1>2 DEF PublishedIsFinal, OutcomesKept

-----------------------------------------------------------------------------
(* The pipeline implements ScanBoard.  The requests' steps open, supersede *)
(* or refuse scans, the workers' steps publish or give them up.            *)

BoardRow == [s \in ScanIds |-> OutcomeOf(s)]
BoardMoves == [Board!Next]_(Board!vars)

LEMMA BoardInit == Init => Board!Init
  BY DEF Init, Board!Init, OutcomeOf, InFlight

(* A step that changes neither a status nor a result is a stutter.         *)
LEMMA BoardStutter ==
  ASSUME UNCHANGED <<status, writes, latest>>
  PROVE  BoardMoves
  BY DEF BoardMoves, Board!vars, OutcomeOf

(* A write of one status is a write of one outcome.                        *)
LEMMA BoardWrite ==
  ASSUME status \in [ScanIds -> Statuses], NEW s \in ScanIds, NEW x,
         status' = [status EXCEPT ![s] = x]
  PROVE  BoardRow' = [BoardRow EXCEPT ![s] = IF x \in InFlight THEN "PENDING"
                                             ELSE x]
<1>1. \A t \in ScanIds : status'[t] = IF t = s THEN x ELSE status[t]
  OBVIOUS
<1> QED
  BY <1>1 DEF BoardRow, OutcomeOf

LEMMA QuietRequest ==
  ASSUME TypeInv, NEW r \in Requests,
         \/ Arrive(r) \/ ApiCrash(r)
         \/ RescanRefused(r) \/ RescanAllowed(r)
         \/ \E s \in ScanIds \cup {NoScan} : ReadLatest(r, s)
         \/ LookupDuplicate(r) \/ LookupFresh(r)
         \/ CancelFind(r) \/ \E s \in ScanIds : CancelPeek(r, s)
         \/ CancelRemove(r) \/ CancelRemoveThrows(r)
         \/ \E base \in ScanIds \cup {NoScan}, aiWantsFull \in BOOLEAN :
                ReadBase(r, base, aiWantsFull)
         \/ CreateConflict(r) \/ AddJob(r) \/ AddThrows(r)
  PROVE  UNCHANGED <<status, writes, latest>>
<1>0. req \in [Requests -> Request] /\ job \in [ScanIds -> Job]
  BY DEF TypeInv, TypeOK
<1>1. CASE Arrive(r) \/ ApiCrash(r) \/ RescanRefused(r) \/ RescanAllowed(r)
  BY <1>0, <1>1 DEF Arrive, DeliverPush, DeliverClose, RequestRescan,
     RescanOpenPulls, ApiCrash, RescanRefused, RescanAllowed, pullVars,
     scanVars
<1>2. ASSUME NEW s, ReadLatest(r, s) \/ CancelPeek(r, s)
      PROVE  UNCHANGED <<status, writes, latest>>
  BY <1>0, <1>2 DEF ReadLatest, CancelPeek, pullVars, scanVars
<1>3. ASSUME NEW base, NEW aiWantsFull, ReadBase(r, base, aiWantsFull)
      PROVE  UNCHANGED <<status, writes, latest>>
  BY <1>0, <1>3 DEF ReadBase, pullVars, scanVars
<1>4. CASE LookupDuplicate(r) \/ LookupFresh(r) \/ CancelFind(r)
  BY <1>0, <1>4 DEF LookupDuplicate, LookupFresh, CancelFind, pullVars,
     scanVars
<1>5. CASE CancelRemove(r) \/ CancelRemoveThrows(r)
  BY <1>0, <1>5 DEF CancelRemove, CancelRemoveThrows, pullVars, scanVars
<1>6. CASE CreateConflict(r) \/ AddJob(r) \/ AddThrows(r)
  BY <1>0, <1>6 DEF CreateConflict, AddJob, AddThrows, pullVars, scanVars
<1> QED
  BY <1>1, <1>2, <1>3, <1>4, <1>5, <1>6

LEMMA QuietWorker ==
  ASSUME TypeInv, NEW w \in Workers,
         \/ SkipNotRunnable(w) \/ FetchCompare(w) \/ FetchForcePush(w)
         \/ FetchFull(w) \/ DiscardResult(w) \/ DecideAi(w)
         \/ Complete(w) \/ OnFailedThrows(w)
         \/ \E unrecoverable \in BOOLEAN : Fail(w, unrecoverable)
         \/ OnFailed(w) /\ ~MaySettle(worker[w].scan)
  PROVE  UNCHANGED <<status, writes, latest>>
<1>0. worker \in [Workers -> Execution] /\ job \in [ScanIds -> Job]
  BY DEF TypeInv, TypeOK
<1>1. ASSUME NEW unrecoverable, Fail(w, unrecoverable)
      PROVE  UNCHANGED <<status, writes, latest>>
  BY <1>0, <1>1 DEF Fail, scanVars, pullVars
<1>2. CASE \/ SkipNotRunnable(w) \/ FetchCompare(w) \/ FetchForcePush(w)
           \/ FetchFull(w) \/ DiscardResult(w)
  BY <1>0, <1>2 DEF SkipNotRunnable, FetchCompare, FetchForcePush, FetchFull,
     DiscardResult, scanVars, pullVars
<1>3. CASE DecideAi(w) \/ Complete(w)
  BY <1>0, <1>3 DEF DecideAi, Complete, scanVars, pullVars
<1>4. CASE \/ OnFailedThrows(w)
           \/ OnFailed(w) /\ ~MaySettle(worker[w].scan)
  BY <1>0, <1>4 DEF OnFailed, OnFailedThrows, scanVars, pullVars
<1> QED
  BY <1>1, <1>2, <1>3, <1>4

(* One scan changes its outcome and nothing is published.                  *)
LEMMA BoardRequest ==
  ASSUME TypeInv, SafetyInv, NEW r \in Requests,
         Arrive(r) \/ Handle(r) \/ ApiCrash(r)
  PROVE  BoardMoves
<1>0. /\ status \in [ScanIds -> Statuses]
      /\ \A t \in Requests : Adding(t) => req[t].cur \in ScanIds
  BY DEF TypeInv, TypeOK, RequestOK, Adding
<1>1. CASE CancelMark(r)
  <2>1. UNCHANGED <<writes, latest>>
    BY <1>1 DEF CancelMark, pullVars
  <2> DEFINE S == {s \in ScanIds : status[s] \in InFlight /\ status'[s] = "SUPERSEDED"}
  <2>2. \A s \in ScanIds : \/ status'[s] = status[s]
                           \/ s \in S /\ status'[s] = "SUPERSEDED"
    BY <1>1 DEF CancelMark, Superseded
  <2>3. S \in SUBSET Board!Pending
    BY DEF Board!Pending, OutcomeOf
  <2>4. BoardRow' = [s \in ScanIds |-> IF s \in S THEN "SUPERSEDED" ELSE BoardRow[s]]
    BY <2>2 DEF OutcomeOf, InFlight, BoardRow
  <2> QED
    BY <2>1, <2>3, <2>4 DEF BoardMoves, Board!Next, Board!Supersede, BoardRow
<1>2. CASE CreateScan(r)
  <2>1. PICK s \in ScanIds : s = created + 1
    BY <1>2 DEF CreateScan, ScanIds, TypeInv, TypeOK
  <2>2. /\ status[s] = "none" /\ UNCHANGED <<writes, latest>>
        /\ status' = [status EXCEPT ![s] = "QUEUED"]
    BY <1>2, <2>1 DEF CreateScan, pullVars, SafetyInv, RowsExist, TypeInv,
       TypeOK
  <2>3. BoardRow' = [BoardRow EXCEPT ![s] = "PENDING"] /\ BoardRow[s] = "none"
    BY <1>0, <2>2, BoardWrite DEF OutcomeOf, InFlight, BoardRow
  <2>4. Board!Open(s)
    BY <2>2, <2>3 DEF Board!Open, BoardRow
  <2> QED
    BY <2>4 DEF Board!Next, BoardMoves
<1>3. CASE UndoCreate(r)
  <2>1. PICK s \in ScanIds : s = req[r].cur
    BY <1>0, <1>3 DEF UndoCreate, Adding
  <2>2. /\ status[s] \in {"QUEUED", "SUPERSEDED"} /\ UNCHANGED <<writes, latest>>
        /\ status' = [status EXCEPT ![s] = "FAILED"]
    BY <1>3, <2>1 DEF UndoCreate, Adding, SafetyInv, AddsOwnRow, pullVars
  <2>3. BoardRow' = [BoardRow EXCEPT ![s] = "FAILED"]
    BY <1>0, <2>2, BoardWrite DEF InFlight
  <2>5. BoardRow[s] \in {"PENDING", "SUPERSEDED"}
    BY <2>2 DEF OutcomeOf, InFlight, BoardRow
  <2>4. Board!Refuse(s)
    BY <2>2, <2>3, <2>5 DEF Board!Refuse, BoardRow
  <2> QED
    BY <2>4 DEF Board!Next, BoardMoves
<1> QED
  BY <1>1, <1>2, <1>3, QuietRequest, BoardStutter DEF Handle

LEMMA BoardWorker ==
  ASSUME TypeInv, SafetyInv, NEW w \in Workers, Execute(w)
  PROVE  BoardMoves
<1>1. PICK s \in ScanIds : s = worker[w].scan
  BY ExecuteFrame
<1>2. status \in [ScanIds -> Statuses] /\ writes \in [ScanIds -> Nat]
  BY DEF TypeInv, TypeOK
<1>3. CASE Persist(w)
  <2>1. /\ status[s] = "RUNNING" /\ latest' = s
        /\ status' = [status EXCEPT ![s] = "DONE"]
        /\ writes' = [writes EXCEPT ![s] = writes[s] + 1]
    BY <1>1, <1>3 DEF Persist, MayPersist
  <2>2. writes' = [writes EXCEPT ![s] = 1]
    <3>1. writes[s] = 0
      BY <2>1 DEF SafetyInv, FindingsWrittenOnce
    <3> QED
      BY <2>1, <3>1
  <2>3. BoardRow' = [BoardRow EXCEPT ![s] = "DONE"]
    BY <1>2, <2>1, BoardWrite DEF InFlight
  <2>4. s \in Board!Pending
    BY <2>1 DEF Board!Pending, OutcomeOf, InFlight
  <2>5. Board!Publish(s)
    BY <2>1, <2>2, <2>3, <2>4 DEF Board!Publish, BoardRow
  <2> QED
    BY <2>5 DEF Board!Next, BoardMoves
<1>4. CASE OnFailed(w) /\ MaySettle(s)
  <2>1. /\ status[s] \in InFlight /\ UNCHANGED writes /\ latest' = s
        /\ status' = [status EXCEPT ![s] = "FAILED"]
    BY <1>1, <1>4 DEF OnFailed, MaySettle
  <2>2. BoardRow' = [BoardRow EXCEPT ![s] = "FAILED"]
    BY <1>2, <2>1, BoardWrite DEF InFlight
  <2>3. s \in Board!Pending
    BY <2>1 DEF Board!Pending, OutcomeOf, InFlight
  <2>4. Board!GiveUp(s)
    BY <2>1, <2>2, <2>3 DEF Board!GiveUp, BoardRow
  <2> QED
    BY <2>4 DEF Board!Next, BoardMoves
<1>5. CASE Claim(w)
  <2>1. /\ status[s] \in InFlight /\ UNCHANGED <<latest, writes>>
        /\ status' = [status EXCEPT ![s] = "RUNNING"]
    BY <1>1, <1>5 DEF Claim, Claimable, pullVars
  <2>2. \A t \in ScanIds : OutcomeOf(t)' = OutcomeOf(t)
    BY <1>2, <2>1 DEF OutcomeOf, InFlight
  <2> QED
    BY <2>1, <2>2 DEF Board!vars, BoardMoves
<1> QED
  BY <1>1, <1>3, <1>4, <1>5, QuietWorker, BoardStutter DEF Execute

(* The steps of the environment and of the queue.                          *)
LEMMA BoardQueue ==
  ASSUME TypeInv,
         \/ UNCHANGED vars \/ Environment
         \/ \E w \in Workers : WorkerCrash(w)
         \/ \E w \in Workers, s \in ScanIds : Pick(w, s)
         \/ \E s \in ScanIds : Stalled(s)
  PROVE  BoardMoves
<1>1. CASE UNCHANGED vars \/ Environment
  BY <1>1, BoardStutter DEF vars, pullVars, scanVars, Environment, Push,
     ForceBack, ChangeProfile
<1>2. ASSUME NEW w \in Workers, WorkerCrash(w)
      PROVE  BoardMoves
  BY <1>2, BoardStutter DEF WorkerCrash, pullVars, scanVars
<1>3. ASSUME NEW w \in Workers, NEW s \in ScanIds, Pick(w, s)
      PROVE  BoardMoves
  BY <1>3, BoardStutter DEF Pick, pullVars, scanVars
<1>4. ASSUME NEW s \in ScanIds, Stalled(s)
      PROVE  BoardMoves
  <2>1. UNCHANGED <<pullVars, scanVars>>
    BY <1>4 DEF Stalled
  <2> QED
    BY <2>1, BoardStutter DEF pullVars, scanVars
<1> QED
  BY <1>1, <1>2, <1>3, <1>4

LEMMA BoardStep == TypeInv /\ SafetyInv /\ [Next]_vars => BoardMoves
  BY BoardQueue, BoardRequest, BoardWorker DEF Next

(* Every behaviour of requests, workers, retries and crashes is, seen from *)
(* the pull request, a behaviour of ScanBoard: a result, its findings and  *)
(* latestScanId change in one step and once.                               *)
THEOREM PipelineImplementsBoard == Spec => ImplementsBoard
<1>1. Spec => [][Board!Next]_(Board!vars)
  BY BoardStep, SafetyHolds, PTL DEF Spec, BoardMoves
<1> QED
  BY <1>1, BoardInit, PTL DEF Spec, ImplementsBoard, Board!Spec
=============================================================================
