-------------------------- MODULE ScanHistoryProofs --------------------------
(***************************************************************************)
(* Proofs about ScanPipeline, continued: what a Scan row says of the       *)
(* scans before it and of the commit it read, for any number of requests,  *)
(* workers, pushes, scans, attempts and stalls; and, when requests come    *)
(* one at a time, what is in flight and what the PR shows of it.           *)
(***************************************************************************)
EXTENDS ScanPipelineProofs

USE BoundsAssumption, SwitchesAssumption

-----------------------------------------------------------------------------
(* The invariants.                                                         *)

(* What enqueue has decided holds until the row is created: the base it    *)
(* read stays a finished scan, and an incremental one has its rules.       *)
BaseInv ==
    /\ IncrementalHasDoneBase
    /\ \A r \in Requests : req[r].pc = "create" =>
          /\ req[r].base \in DoneScans \cup {NoScan}
          /\ req[r].mode = "INCREMENTAL" =>
                 /\ req[r].base # NoScan
                 /\ scan[req[r].base].profile = req[r].profile

(* The attempts of a commit have no gaps, and a request that is to create  *)
(* a row has the attempt after one that exists.  So when that attempt is   *)
(* not taken there is none above it either.                                *)
HasAttempt(c, k) ==
    \E s \in ScanIds : s <= created /\ scan[s].sha = c /\ scan[s].attempt = k

Preparing(q) == /\ q.kind # "close"
                /\ q.pc \in {"find", "peek", "remove", "base", "create"}

AttemptInv ==
    /\ AttemptsInCreationOrder
    /\ \A s \in ScanIds : s <= created =>
          /\ scan[s].attempt >= 1
          /\ \A k \in 1..scan[s].attempt : HasAttempt(scan[s].sha, k)
    /\ \A r \in Requests :
          /\ req[r].pc = "tiers" /\ req[r].cur # NoScan =>
                 req[r].cur <= created /\ scan[req[r].cur].sha = req[r].sha
          /\ req[r].pc \in {"base", "create"} => req[r].kind # "close"
          /\ Preparing(req[r]) =>
                 \/ req[r].attempt = 1
                 \/ /\ req[r].attempt > 1
                    /\ HasAttempt(req[r].sha, req[r].attempt - 1)

(* What a finished scan found is of its own commit, or it is a FULL scan   *)
(* and the branch was not at its commit when it read the diff: then the    *)
(* branch gets back there by a forced return only, since no commit that is *)
(* known here is pushed again.                                             *)
Faithful(s) ==
    \/ readAt[s] = scan[s].sha
    \/ /\ scan[s].mode = "FULL"
       /\ remoteHead # scan[s].sha \/ scan[s].sha \in returned

HeadInv ==
    /\ remoteHead <= pushed /\ pullHead <= pushed
    /\ \A r \in Requests : req[r].sha <= pushed
    /\ \A s \in ScanIds : /\ scan[s].sha <= pushed
                          /\ status[s] = "DONE" => Faithful(s)
    /\ \A w \in Workers :
           /\ worker[w].pc = "persist" => Faithful(worker[w].scan)
           /\ worker[w].pc = "fetchFull" =>
                  scan[worker[w].scan].mode = "FULL"

-----------------------------------------------------------------------------
(* Which steps change what.                                                *)

Served(r) == Arrive(r) \/ Handle(r) \/ ApiCrash(r)

(* A request is moved by its own steps alone.                              *)
LEMMA OwnStep ==
  ASSUME TypeInv, [Next]_vars, NEW r \in Requests
  PROVE  req'[r] = req[r] \/ Served(r)
<1>0. req \in [Requests -> Request]
  BY DEF TypeInv, TypeOK
<1>1. CASE UNCHANGED vars \/ Environment
  BY <1>1 DEF vars, Environment, Push, ForceBack,
     ChangeProfile
<1>2. ASSUME NEW t \in Requests, Served(t), t # r PROVE req'[r] = req[r]
  <2>1. \E q : req' = [req EXCEPT ![t] = q]
    <3>1. CASE Arrive(t)
      BY <3>1 DEF Arrive, DeliverPush, DeliverClose, RequestRescan,
         RescanOpenPulls
    <3>2. CASE \/ RescanRefused(t) \/ RescanAllowed(t) \/ LookupDuplicate(t)
               \/ LookupFresh(t) \/ CancelFind(t)
               \/ \E s \in ScanIds \cup {NoScan} : ReadLatest(t, s)
      BY <3>2 DEF RescanRefused, RescanAllowed, LookupDuplicate, LookupFresh,
         CancelFind, ReadLatest
    <3>3. CASE \/ CancelRemove(t) \/ CancelRemoveThrows(t) \/ CancelMark(t)
               \/ \E s \in ScanIds : CancelPeek(t, s)
      BY <3>3 DEF CancelRemove, CancelRemoveThrows, CancelMark, CancelPeek
    <3>4. CASE \/ CreateScan(t) \/ CreateConflict(t) \/ AddJob(t)
               \/ AddThrows(t) \/ UndoCreate(t) \/ ApiCrash(t)
               \/ \E base \in ScanIds \cup {NoScan}, full \in BOOLEAN :
                      ReadBase(t, base, full)
      BY <3>4 DEF CreateScan, CreateConflict, AddJob, AddThrows, UndoCreate,
         ApiCrash, ReadBase
    <3> QED
      BY <1>2, <3>1, <3>2, <3>3, <3>4 DEF Served, Handle
  <2> QED
    BY <1>0, <1>2, <2>1
<1>3. CASE \E t \in Requests : Served(t)
  BY <1>2, <1>3
<1>4. CASE \E w \in Workers : Execute(w)
  BY <1>4 DEF Execute, Claim, SkipNotRunnable, FetchCompare, FetchForcePush,
     FetchFull, Persist, DiscardResult, DecideAi, Complete,
     Fail, OnFailed, OnFailedThrows
<1>5. CASE \/ \E w \in Workers : WorkerCrash(w)
           \/ \E w \in Workers, s \in ScanIds : Pick(w, s)
           \/ \E s \in ScanIds : Stalled(s)
  BY <1>5 DEF WorkerCrash, Pick, Stalled
<1> QED
  BY <1>1, <1>3, <1>4, <1>5 DEF Next, Served

(* How a request's own step moves it between the stages the invariants are *)
(* about.                                                                  *)
Moves(r) ==
    /\ req'[r].pc = "tiers" =>
           \E s \in ScanIds \cup {NoScan} : ReadLatest(r, s)
    /\ Preparing(req'[r]) =>
           \/ LookupFresh(r)
           \/ /\ Preparing(req[r]) /\ req'[r].sha = req[r].sha
              /\ req'[r].attempt = req[r].attempt
    /\ req'[r].pc \in {"base", "create"} /\ req'[r].kind = "close" =>
           req[r].pc = "base" /\ req[r].kind = "close"
    /\ req'[r].pc = "create" =>
           \E base \in ScanIds \cup {NoScan}, full \in BOOLEAN :
               ReadBase(r, base, full)
    /\ req'[r].sha \in {req[r].sha, 0, pullHead} \cup 1..pushed

LEMMA AfterCancelMoves ==
  ASSUME NEW q \in Request
  PROVE  LET p == AfterCancel(q)
         IN  /\ p.pc \in {"idle", "base"} /\ p.sha \in {0, q.sha}
             /\ p.pc = "base" => p.kind # "close"
             /\ Preparing(p) => /\ q.kind # "close" /\ p.sha = q.sha
                                /\ p.attempt = q.attempt
<1>1. CASE q.kind = "close"
  BY <1>1 DEF AfterCancel, NoRequest, Preparing
<1>2. CASE q.kind # "close"
  <2>1. PICK p : p = [q EXCEPT !.pc = "base", !.found = {}, !.todo = {},
                               !.cur = NoScan]
    OBVIOUS
  <2>2. /\ p.pc = "base" /\ p.sha = q.sha /\ p.kind = q.kind
        /\ p.attempt = q.attempt
    BY <2>1 DEF Request
  <2> QED
    BY <1>2, <2>1, <2>2 DEF AfterCancel, Preparing
<1> QED
  BY <1>1, <1>2

(* A request that begins.                                                  *)
LEMMA ArriveMoves ==
  ASSUME TypeInv, NEW r \in Requests, Arrive(r)
  PROVE  Moves(r)
<1>0. req \in [Requests -> Request]
  BY DEF TypeInv, TypeOK
<1>1. ASSUME NEW c \in 1..NumPushes, DeliverPush(r, c) PROVE Moves(r)
  <2>1. req'[r].pc = "lookup" /\ req'[r].sha = c /\ c \in 1..pushed
    BY <1>0, <1>1 DEF DeliverPush, NoRequest
  <2> QED
    BY <2>1 DEF Moves, Preparing
<1>2. CASE DeliverClose(r)
  <2>1. req'[r].pc = "find" /\ req'[r].kind = "close" /\ req'[r].sha = 0
    BY <1>0, <1>2 DEF DeliverClose, NoRequest
  <2> QED
    BY <2>1 DEF Moves, Preparing
<1>3. ASSUME NEW full \in BOOLEAN, RequestRescan(r, full) PROVE Moves(r)
  <2>1. req'[r].pc = "inFlight" /\ req'[r].sha = pullHead
    BY <1>0, <1>3 DEF RequestRescan, NoRequest
  <2> QED
    BY <2>1 DEF Moves, Preparing
<1>4. ASSUME NEW staleOnly \in BOOLEAN, RescanOpenPulls(r, staleOnly)
      PROVE  Moves(r)
  <2>1. req'[r].pc = "lookup" /\ req'[r].sha = pullHead
    BY <1>0, <1>4 DEF RescanOpenPulls, NoRequest
  <2> QED
    BY <2>1 DEF Moves, Preparing
<1> QED
  BY <1>1, <1>2, <1>3, <1>4 DEF Arrive

LEMMA ServedMoves ==
  ASSUME TypeInv, NEW r \in Requests, Served(r)
  PROVE  Moves(r)
<1>0. req \in [Requests -> Request] /\ req[r] \in Request
  BY DEF TypeInv, TypeOK
<1>1. ASSUME req'[r] = NoRequest PROVE Moves(r)
  <2>1. req'[r].pc = "idle" /\ req'[r].sha = 0
    BY <1>1 DEF NoRequest
  <2> QED
    BY <2>1 DEF Moves, Preparing
<1>2. CASE \/ ApiCrash(r) \/ RescanRefused(r) \/ LookupDuplicate(r)
           \/ CancelRemoveThrows(r) \/ CreateConflict(r) \/ AddJob(r)
           \/ UndoCreate(r)
  BY <1>0, <1>1, <1>2 DEF ApiCrash, RescanRefused, LookupDuplicate,
     CancelRemoveThrows, CreateConflict, AddJob, UndoCreate
<1>3. CASE RescanAllowed(r) \/ AddThrows(r)
  <2>1. req'[r].pc \in {"lookup", "undo"} /\ req'[r].sha = req[r].sha
    BY <1>0, <1>3 DEF RescanAllowed, AddThrows, Request
  <2> QED
    BY <2>1 DEF Moves, Preparing
<1>4. ASSUME NEW s \in ScanIds \cup {NoScan}, ReadLatest(r, s) PROVE Moves(r)
  <2>1. PICK q : /\ q = [req[r] EXCEPT !.pc = "tiers", !.cur = s,
                            !.seen = IF s = NoScan THEN "none" ELSE status[s]]
                 /\ req'[r] = q
    BY <1>0, <1>4 DEF ReadLatest
  <2>2. q.pc = "tiers" /\ q.sha = req[r].sha
    BY <1>0, <2>1 DEF Request
  <2> QED
    BY <1>4, <2>1, <2>2 DEF Moves, Preparing
<1>5. CASE LookupFresh(r)
  <2>1. PICK q : /\ q = [req[r] EXCEPT !.pc = "find",
                            !.attempt = NextAttempt(req[r]),
                            !.profile = profile, !.cur = NoScan,
                            !.seen = "none"]
                 /\ req'[r] = q
    BY <1>0, <1>5 DEF LookupFresh
  <2>2. q.pc = "find" /\ q.sha = req[r].sha
    BY <1>0, <2>1 DEF Request
  <2> QED
    BY <1>5, <2>1, <2>2 DEF Moves
<1>6. ASSUME req'[r] = AfterCancel(req[r]), req[r].pc \in {"find", "peek"}
      PROVE  Moves(r)
  BY <1>0, <1>6, AfterCancelMoves DEF Moves, Preparing
<1>7. ASSUME /\ req[r].pc \in {"find", "peek", "remove"}
             /\ req'[r].pc \in {"peek", "remove"}
             /\ req'[r].sha = req[r].sha /\ req'[r].kind = req[r].kind
             /\ req'[r].attempt = req[r].attempt
      PROVE  Moves(r)
  BY <1>7 DEF Moves, Preparing
<1>8. CASE CancelFind(r)
  <2> DEFINE found == {s \in ScanIds : status[s] \in InFlight}
  <2>1. PICK q : q = [req[r] EXCEPT !.pc = "peek", !.found = found,
                                    !.todo = found]
    OBVIOUS
  <2>2. /\ q.pc = "peek" /\ q.sha = req[r].sha /\ q.kind = req[r].kind
        /\ q.attempt = req[r].attempt
    BY <1>0, <2>1 DEF Request
  <2>3. req'[r] = AfterCancel(req[r]) \/ req'[r] = q
    BY <1>0, <1>8, <2>1 DEF CancelFind
  <2> QED
    BY <1>6, <1>7, <1>8, <2>2, <2>3 DEF CancelFind
<1>9. ASSUME NEW s \in ScanIds, CancelPeek(r, s) PROVE Moves(r)
  <2>1. /\ req[r].pc = "peek" /\ req'[r].pc \in {"peek", "remove"}
        /\ req'[r].sha = req[r].sha /\ req'[r].kind = req[r].kind
        /\ req'[r].attempt = req[r].attempt
    BY <1>0, <1>9 DEF CancelPeek, Request
  <2> QED
    BY <1>7, <2>1
<1>10. CASE CancelRemove(r)
  <2>1. /\ req[r].pc = "remove" /\ req'[r].pc = "peek"
        /\ req'[r].sha = req[r].sha /\ req'[r].kind = req[r].kind
        /\ req'[r].attempt = req[r].attempt
    BY <1>0, <1>10 DEF CancelRemove, Request
  <2> QED
    BY <1>7, <2>1
<1>11. CASE CancelMark(r)
  BY <1>0, <1>6, <1>11 DEF CancelMark
<1>12. ASSUME NEW base \in ScanIds \cup {NoScan}, NEW full \in BOOLEAN,
              ReadBase(r, base, full)
       PROVE  Moves(r)
  <2>1. PICK mode : mode = DecideScanMode(base, req[r].full, req[r].profile,
                                          full)
    OBVIOUS
  <2>2. PICK q : /\ q = [req[r] EXCEPT !.pc = "create", !.base = base,
                                       !.mode = mode]
                 /\ req'[r] = q
    BY <1>0, <1>12, <2>1 DEF ReadBase
  <2>3. /\ q.pc = "create" /\ q.sha = req[r].sha /\ q.kind = req[r].kind
        /\ q.attempt = req[r].attempt /\ req[r].pc = "base"
    BY <1>0, <1>12, <2>2 DEF Request, ReadBase
  <2> QED
    BY <1>12, <2>2, <2>3 DEF Moves, Preparing
<1>13. CASE CreateScan(r)
  <2>1. PICK q : /\ q = [NoRequest EXCEPT !.pc = "add", !.kind = req[r].kind,
                                          !.cur = created + 1]
                 /\ req'[r] = q
    BY <1>0, <1>13 DEF CreateScan
  <2>2. q.pc = "add" /\ q.sha = 0
    BY <2>1 DEF NoRequest
  <2> QED
    BY <2>1, <2>2 DEF Moves, Preparing
<1> QED
  BY <1>2, <1>3, <1>4, <1>5, <1>8, <1>9, <1>10, <1>11, <1>12, <1>13,
     ArriveMoves DEF Served, Handle

(* A row keeps what it was created with, but that a force push makes an    *)
(* incremental scan a full one.                                            *)
RowKept(s) ==
    /\ scan'[s].sha = scan[s].sha /\ scan'[s].attempt = scan[s].attempt
    /\ scan'[s].profile = scan[s].profile
    /\ scan'[s].mode = "INCREMENTAL" =>
           /\ scan[s].mode = "INCREMENTAL" /\ scan'[s].base = scan[s].base
           /\ scan'[s].prev = scan[s].prev

LEMMA RowsKept ==
  ASSUME TypeInv, [Next]_vars
  PROVE  \/ \E r \in Requests : CreateScan(r)
         \/ UNCHANGED created /\ \A s \in ScanIds : RowKept(s)
<1>0. scan \in [ScanIds -> ScanRow]
  BY DEF TypeInv, TypeOK
<1>1. ASSUME UNCHANGED <<created, scan>>
      PROVE  UNCHANGED created /\ \A s \in ScanIds : RowKept(s)
  BY <1>1 DEF RowKept
<1>2. CASE UNCHANGED vars \/ Environment
  BY <1>1, <1>2 DEF vars, scanVars, Environment, Push, ForceBack,
     ChangeProfile
<1>3. ASSUME NEW r \in Requests, Served(r), ~CreateScan(r)
      PROVE  UNCHANGED <<created, scan>>
  BY <1>3 DEF Served, Arrive, DeliverPush, DeliverClose, RequestRescan,
     RescanOpenPulls, Handle, RescanRefused, RescanAllowed, ReadLatest,
     LookupDuplicate, LookupFresh, CancelFind, CancelPeek, CancelRemove,
     CancelRemoveThrows, CancelMark, ReadBase, CreateConflict, AddJob,
     AddThrows, UndoCreate, ApiCrash, scanVars
<1>4. ASSUME NEW w \in Workers, FetchForcePush(w)
      PROVE  UNCHANGED created /\ \A s \in ScanIds : RowKept(s)
  <2>1. PICK x : x = worker[w].scan
    OBVIOUS
  <2>2. UNCHANGED created
    BY <1>4 DEF FetchForcePush
  <2>3. ASSUME NEW s \in ScanIds PROVE RowKept(s)
    <3>1. CASE s # x
      BY <1>0, <1>4, <2>1, <3>1 DEF FetchForcePush, RowKept
    <3>2. CASE s = x
      <4>1. PICK row : row = [scan[s] EXCEPT !.mode = "FULL", !.prev = 0]
        OBVIOUS
      <4>2. /\ row.sha = scan[s].sha /\ row.attempt = scan[s].attempt
            /\ row.profile = scan[s].profile /\ row.mode = "FULL"
        BY <1>0, <4>1 DEF ScanRow
      <4>3. scan'[s] = row
        BY <1>0, <1>4, <2>1, <3>2, <4>1 DEF FetchForcePush
      <4> QED
        BY <4>2, <4>3 DEF RowKept
    <3> QED
      BY <3>1, <3>2
  <2> QED
    BY <2>2, <2>3
<1>5. ASSUME NEW w \in Workers, Execute(w), ~FetchForcePush(w)
      PROVE  UNCHANGED <<created, scan>>
  BY <1>5 DEF Execute, Claim, SkipNotRunnable, FetchCompare, FetchFull,
     Persist, DiscardResult, DecideAi, Complete, Fail,
     OnFailed, OnFailedThrows, scanVars
<1>6. CASE \/ \E w \in Workers : WorkerCrash(w)
           \/ \E w \in Workers, s \in ScanIds : Pick(w, s)
           \/ \E s \in ScanIds : Stalled(s)
  BY <1>1, <1>6 DEF WorkerCrash, Pick, Stalled, scanVars
<1> QED
  BY <1>1, <1>2, <1>3, <1>4, <1>5, <1>6 DEF Next, Served

(* A commit's row is there after any step.                                 *)
LEMMA CreatedRow ==
  ASSUME TypeInv, NEW r \in Requests, CreateScan(r)
  PROVE  LET s == created + 1
             q == req[r]
         IN  /\ s \in ScanIds /\ created' = s /\ q \in Request
             /\ q.pc = "create" /\ ~AttemptTaken(q)
             /\ scan'[s].sha = q.sha /\ scan'[s].attempt = q.attempt
             /\ scan'[s].profile = q.profile /\ scan'[s].mode = q.mode
             /\ scan'[s].base = q.base
             /\ q.mode = "INCREMENTAL" => scan'[s].prev = scan[q.base].sha
             /\ \A t \in ScanIds : t # s => scan'[t] = scan[t]
             /\ UNCHANGED <<pullVars, readAt, worker>>
             /\ \A t \in ScanIds : t # s => status'[t] = status[t]
             /\ status'[s] = "QUEUED"
<1>1. /\ scan \in [ScanIds -> ScanRow] /\ status \in [ScanIds -> Statuses]
      /\ req[r] \in Request /\ created + 1 \in ScanIds
  BY DEF TypeInv, TypeOK, CreateScan, ScanIds
<1>2. PICK prev : prev = IF req[r].mode = "INCREMENTAL"
                         THEN scan[req[r].base].sha ELSE 0
  OBVIOUS
<1>3. PICK s \in ScanIds : s = created + 1
  BY <1>1
<1>4. /\ scan' = [scan EXCEPT ![s] =
                    [sha |-> req[r].sha, attempt |-> req[r].attempt,
                     profile |-> req[r].profile, mode |-> req[r].mode,
                     base |-> req[r].base, prev |-> prev]]
      /\ status' = [status EXCEPT ![s] = "QUEUED"]
      /\ UNCHANGED <<pullVars, readAt, worker>> /\ created' = s
      /\ req[r].pc = "create" /\ ~AttemptTaken(req[r])
  BY <1>2, <1>3 DEF CreateScan
<1> QED
  BY <1>1, <1>2, <1>3, <1>4

-----------------------------------------------------------------------------
LEMMA InitBase == Init => BaseInv
  BY DEF Init, BaseInv, IncrementalHasDoneBase, NoRequest

LEMMA StepBase ==
  TypeInv /\ SafetyInv /\ BaseInv /\ [Next]_vars => BaseInv'
<1> SUFFICES ASSUME TypeInv, SafetyInv, BaseInv, [Next]_vars
             PROVE  BaseInv'
  OBVIOUS
<1>0. TypeInv' /\ SafetyInv' /\ OutcomesKept
  BY StepType, StepSafety
<1>1. \A s \in ScanIds : status[s] = "DONE" => status'[s] = "DONE"
                                               /\ s <= created
  BY <1>0 DEF OutcomesKept, SafetyInv, RowsExist
<1>2. \A s \in ScanIds : s <= created => RowKept(s)
  <2>1. CASE \E r \in Requests : CreateScan(r)
    <3>1. \A s \in ScanIds : s <= created => scan'[s] = scan[s]
      BY <2>1, CreatedRow DEF TypeInv, TypeOK, ScanIds
    <3> QED
      BY <3>1 DEF RowKept
  <2> QED
    BY <2>1, RowsKept
<1>3. ASSUME NEW s \in ScanIds, status'[s] # "none",
             scan'[s].mode = "INCREMENTAL"
      PROVE  /\ scan'[s].base # NoScan /\ scan'[s].base < s
             /\ status'[scan'[s].base] = "DONE"
             /\ scan'[s].prev = scan'[scan'[s].base].sha
             /\ scan'[s].profile = scan'[scan'[s].base].profile
  <2>1. CASE s <= created
    <3>1. status[s] # "none" /\ RowKept(s) /\ scan[s].mode = "INCREMENTAL"
      BY <1>2, <1>3, <2>1 DEF SafetyInv, RowsExist, RowKept
    <3>2. PICK b \in ScanIds \cup {NoScan} : b = scan[s].base
      BY DEF TypeInv, TypeOK, ScanRow
    <3>3. /\ b # NoScan /\ b < s /\ status[b] = "DONE" /\ b \in ScanIds
          /\ scan[s].prev = scan[b].sha /\ scan[s].profile = scan[b].profile
      BY <3>1, <3>2 DEF BaseInv, IncrementalHasDoneBase
    <3>4. status'[b] = "DONE" /\ RowKept(b)
      BY <1>1, <1>2, <3>3
    <3> QED
      BY <1>3, <3>1, <3>2, <3>3, <3>4 DEF RowKept
  <2>2. CASE ~(s <= created)
    <3>1. s <= created'
      BY <1>0, <1>3 DEF SafetyInv, RowsExist
    <3>2. PICK r \in Requests : CreateScan(r)
      BY <2>2, <3>1, RowsKept
    <3>3. s = created + 1
      BY <2>2, <3>1, <3>2, CreatedRow DEF TypeInv, TypeOK, ScanIds
    <3>4. PICK b \in ScanIds \cup {NoScan} : b = req[r].base
      BY DEF TypeInv, TypeOK, Request
    <3>5. /\ b # NoScan /\ status[b] = "DONE" /\ b \in ScanIds
          /\ scan[b].profile = req[r].profile
      BY <1>3, <3>2, <3>3, <3>4, CreatedRow DEF BaseInv, DoneScans
    <3>6. status'[b] = "DONE" /\ b <= created /\ RowKept(b)
      BY <1>1, <1>2, <3>5
    <3>7. b < s
      BY <3>3, <3>5, <3>6 DEF TypeInv, TypeOK, ScanIds
    <3> QED
      BY <1>3, <3>2, <3>3, <3>4, <3>5, <3>6, <3>7, CreatedRow DEF RowKept
  <2> QED
    BY <2>1, <2>2
<1>4. ASSUME NEW r \in Requests, req'[r].pc = "create"
      PROVE  /\ req'[r].base \in DoneScans' \cup {NoScan}
             /\ req'[r].mode = "INCREMENTAL" =>
                    /\ req'[r].base # NoScan
                    /\ scan'[req'[r].base].profile = req'[r].profile
  <2>0. req \in [Requests -> Request] /\ req[r] \in Request
    BY DEF TypeInv, TypeOK
  <2>1. ASSUME NEW b \in DoneScans \cup {NoScan}
        PROVE  /\ b \in DoneScans' \cup {NoScan}
               /\ b # NoScan => scan'[b].profile = scan[b].profile
    BY <1>1, <1>2 DEF DoneScans, RowKept
  <2>2. CASE req'[r] = req[r]
    BY <1>4, <2>1, <2>2 DEF BaseInv
  <2>3. CASE Served(r)
    <3>1. PICK base \in ScanIds \cup {NoScan}, full \in BOOLEAN :
             ReadBase(r, base, full)
      BY <1>4, <2>3, ServedMoves DEF Moves
    <3>2. PICK mode : mode = DecideScanMode(base, req[r].full, req[r].profile,
                                            full)
      OBVIOUS
    <3>3. mode = "INCREMENTAL" => /\ base # NoScan
                                  /\ scan[base].profile = req[r].profile
      BY <3>2 DEF DecideScanMode
    <3>4. PICK q : /\ q = [req[r] EXCEPT !.pc = "create", !.base = base,
                                         !.mode = mode]
                   /\ req'[r] = q
      BY <2>0, <3>1, <3>2 DEF ReadBase
    <3>5. q.base = base /\ q.mode = mode /\ q.profile = req[r].profile
      BY <2>0, <3>4 DEF Request
    <3>6. base \in DoneScans \cup {NoScan}
      BY <3>1 DEF ReadBase, IsLastDone
    <3> QED
      BY <2>1, <3>3, <3>4, <3>5, <3>6
  <2> QED
    BY <2>2, <2>3, OwnStep
<1> QED
  BY <1>3, <1>4 DEF BaseInv, IncrementalHasDoneBase

(* Whatever was created, finished, failed or superseded between the        *)
(* queries of enqueue and since, an incremental scan rests on a finished   *)
(* scan of the same rules, created before it.                              *)
THEOREM IncrementalRestsOnDone == Spec => []IncrementalHasDoneBase
<1>1. Spec => []BaseInv
  BY SafetyHolds, InitBase, StepBase, PTL DEF Spec
<1>2. BaseInv => IncrementalHasDoneBase
  BY DEF BaseInv
<1> QED
  BY <1>1, <1>2, PTL

-----------------------------------------------------------------------------
LEMMA InitAttempts == Init => AttemptInv
  BY DEF Init, AttemptInv, AttemptsInCreationOrder, NoRequest, Preparing,
     ScanIds

StillHas(c, k) ==
    \E s \in ScanIds : s <= created' /\ scan'[s].sha = c
                                      /\ scan'[s].attempt = k

(* An attempt that exists stays.                                           *)
LEMMA AttemptsStay ==
  ASSUME TypeInv, [Next]_vars, NEW c, NEW k, HasAttempt(c, k)
  PROVE  StillHas(c, k)
<1>1. PICK s \in ScanIds : /\ s <= created
                           /\ scan[s].sha = c /\ scan[s].attempt = k
  BY DEF HasAttempt
<1>2. CASE \E r \in Requests : CreateScan(r)
  <2>1. s # created + 1 /\ s <= created + 1
    BY <1>1 DEF TypeInv, TypeOK, ScanIds
  <2>2. created' = created + 1 /\ scan'[s] = scan[s]
    BY <1>2, <2>1, CreatedRow
  <2> QED
    BY <1>1, <2>1, <2>2 DEF StillHas
<1>3. CASE UNCHANGED created /\ \A t \in ScanIds : RowKept(t)
  BY <1>1, <1>3 DEF StillHas, RowKept
<1> QED
  BY <1>2, <1>3, RowsKept

(* The row a request creates has the highest attempt of its commit.        *)
LEMMA FreshIsHighest ==
  ASSUME TypeInv, AttemptInv, NEW r \in Requests, CreateScan(r),
         NEW s \in ScanIds, s <= created, scan[s].sha = req[r].sha
  PROVE  scan[s].attempt < req[r].attempt
<1>1. /\ req[r].attempt \in Nat /\ scan[s].attempt \in Nat
      /\ req[r].attempt >= 1
  BY CreatedRow DEF TypeInv, TypeOK, Request, ScanRow, AttemptInv, Preparing
<1>2. SUFFICES ASSUME req[r].attempt <= scan[s].attempt PROVE FALSE
  BY <1>1
<1>3. HasAttempt(req[r].sha, req[r].attempt)
  BY <1>1, <1>2 DEF AttemptInv
<1>4. ~AttemptTaken(req[r])
  BY CreatedRow
<1> QED
  BY <1>3, <1>4 DEF HasAttempt, AttemptTaken, ScansOf

LEMMA StepAttempts ==
  TypeInv /\ SafetyInv /\ AttemptInv /\ [Next]_vars => AttemptInv'
<1> SUFFICES ASSUME TypeInv, SafetyInv, AttemptInv, [Next]_vars
             PROVE  AttemptInv'
  OBVIOUS
<1>0. /\ TypeInv' /\ created \in 0..MaxScans /\ created' \in 0..MaxScans
      /\ scan \in [ScanIds -> ScanRow] /\ req \in [Requests -> Request]
  BY StepType DEF TypeInv, TypeOK
<1>1. CASE \E r \in Requests : CreateScan(r)
  <2>1. PICK r \in Requests : CreateScan(r)
    BY <1>1
  <2>2. PICK n \in ScanIds : n = created + 1
    BY <2>1, CreatedRow
  <2>3. /\ created' = n
        /\ scan'[n].sha = req[r].sha /\ scan'[n].attempt = req[r].attempt
        /\ \A t \in ScanIds : t # n => scan'[t] = scan[t]
    BY <2>1, <2>2, CreatedRow
  <2>4. \A s \in ScanIds : s <= n <=> s <= created \/ s = n
    BY <1>0, <2>2 DEF ScanIds
  <2>5. AttemptsInCreationOrder'
    <3>1. ASSUME NEW s \in ScanIds, NEW t \in ScanIds, s < t, t <= n,
                 scan'[s].sha = scan'[t].sha
          PROVE  scan'[s].attempt < scan'[t].attempt
      <4>1. s <= created /\ s # n
        BY <1>0, <2>2, <3>1 DEF ScanIds
      <4>2. CASE t = n
        BY <2>1, <2>3, <3>1, <4>1, <4>2, FreshIsHighest
      <4>3. CASE t # n
        BY <1>0, <2>3, <2>4, <3>1, <4>1, <4>3
           DEF AttemptInv, AttemptsInCreationOrder, ScanIds
      <4> QED
        BY <4>2, <4>3
    <3>2. 1..n \subseteq ScanIds
      BY <2>2 DEF ScanIds
    <3> QED
      BY <2>3, <3>1, <3>2 DEF AttemptsInCreationOrder
  <2>6. ASSUME NEW s \in ScanIds, s <= n
        PROVE  /\ scan'[s].attempt >= 1
               /\ \A k \in 1..scan'[s].attempt : StillHas(scan'[s].sha, k)
    <3>1. CASE s # n
      BY <2>3, <2>4, <2>6, <3>1, AttemptsStay DEF AttemptInv
    <3>2. CASE s = n
      <4>1. /\ req[r].attempt \in Nat
            /\ \/ req[r].attempt = 1
               \/ /\ req[r].attempt > 1
                  /\ HasAttempt(req[r].sha, req[r].attempt - 1)
        BY <1>0, <2>1, CreatedRow DEF AttemptInv, Preparing, Request
      <4>2. StillHas(req[r].sha, req[r].attempt)
        <5>1. n <= n
          BY <2>2 DEF ScanIds
        <5> QED
          BY <2>3, <5>1 DEF StillHas
      <4>3. ASSUME NEW k \in 1..req[r].attempt, k # req[r].attempt
            PROVE  StillHas(req[r].sha, k)
        <5>1. PICK t \in ScanIds : /\ t <= created /\ scan[t].sha = req[r].sha
                                   /\ scan[t].attempt = req[r].attempt - 1
          BY <4>1, <4>3 DEF HasAttempt
        <5>2. k \in 1..scan[t].attempt
          BY <4>1, <4>3, <5>1
        <5> QED
          BY <5>1, <5>2, AttemptsStay DEF AttemptInv
      <4> QED
        BY <2>3, <3>2, <4>1, <4>2, <4>3
    <3> QED
      BY <3>1, <3>2
  <2> QED
    <3>1. ASSUME NEW t \in Requests, t # r PROVE req'[t] = req[t]
      BY <1>0, <2>1, <3>1 DEF CreateScan
    <3>2. req'[r].pc = "add"
      BY <1>0, <2>1 DEF CreateScan, NoRequest
    <3>3. ASSUME NEW t \in Requests, req'[t].pc = "tiers",
                 req'[t].cur # NoScan
          PROVE  /\ req'[t].cur <= created'
                 /\ scan'[req'[t].cur].sha = req'[t].sha
      <4>1. PICK s \in ScanIds \cup {NoScan} : s = req[t].cur
        BY <1>0 DEF Request
      <4>2. req'[t] = req[t]
        BY <3>1, <3>2, <3>3
      <4>3. s # NoScan /\ s <= created /\ scan[s].sha = req[t].sha
        BY <3>3, <4>1, <4>2 DEF AttemptInv
      <4> QED
        BY <1>0, <2>2, <2>3, <2>4, <4>1, <4>2, <4>3
    <3>4. ASSUME NEW t \in Requests
          PROVE  /\ req'[t].pc \in {"base", "create"} => req'[t].kind # "close"
                 /\ Preparing(req'[t]) =>
                      \/ req'[t].attempt = 1
                      \/ /\ req'[t].attempt > 1
                         /\ StillHas(req'[t].sha, req'[t].attempt - 1)
      BY <3>1, <3>2, AttemptsStay DEF AttemptInv, Preparing
    <3> QED
      BY <2>3, <2>5, <2>6, <3>3, <3>4 DEF AttemptInv, HasAttempt, StillHas
<1>2. CASE UNCHANGED created /\ \A s \in ScanIds : RowKept(s)
  <2>1. AttemptsInCreationOrder'
    <3>1. 1..created \subseteq ScanIds
      BY <1>0 DEF ScanIds
    <3> QED
      BY <1>2, <3>1 DEF AttemptInv, AttemptsInCreationOrder, RowKept
  <2>2. ASSUME NEW s \in ScanIds, s <= created
        PROVE  /\ scan'[s].attempt >= 1
               /\ \A k \in 1..scan'[s].attempt : StillHas(scan'[s].sha, k)
    BY <1>2, <2>2, AttemptsStay DEF AttemptInv, RowKept
  <2>3. ASSUME NEW r \in Requests
        PROVE  /\ req'[r].pc = "tiers" /\ req'[r].cur # NoScan =>
                     /\ req'[r].cur <= created
                     /\ scan'[req'[r].cur].sha = req'[r].sha
               /\ req'[r].pc \in {"base", "create"} => req'[r].kind # "close"
               /\ Preparing(req'[r]) =>
                     \/ req'[r].attempt = 1
                     \/ /\ req'[r].attempt > 1
                        /\ StillHas(req'[r].sha, req'[r].attempt - 1)
    <3>0. req[r] \in Request /\ req'[r] \in Request
      BY <1>0 DEF TypeInv, TypeOK
    <3>1. CASE req'[r] = req[r]
      <4>1. PICK s \in ScanIds \cup {NoScan} : s = req[r].cur
        BY <3>0 DEF Request
      <4>2. s # NoScan => RowKept(s)
        BY <1>2
      <4> QED
        BY <3>1, <4>1, <4>2, AttemptsStay DEF AttemptInv, RowKept
    <3>2. CASE Served(r)
      <4>1. ASSUME req'[r].pc = "tiers", req'[r].cur # NoScan
            PROVE  /\ req'[r].cur <= created
                   /\ scan'[req'[r].cur].sha = req'[r].sha
        <5>1. PICK s \in ScanIds \cup {NoScan} : ReadLatest(r, s)
          BY <3>2, <4>1, ServedMoves DEF Moves
        <5>2. PICK q : /\ q = [req[r] EXCEPT !.pc = "tiers", !.cur = s,
                            !.seen = IF s = NoScan THEN "none" ELSE status[s]]
                       /\ req'[r] = q
          BY <1>0, <5>1 DEF ReadLatest
        <5>3. q.cur = s /\ q.sha = req[r].sha
          BY <3>0, <5>2 DEF Request
        <5>4. s # NoScan => s \in ScanIds /\ s <= created
                            /\ scan[s].sha = req[r].sha
          BY <5>1 DEF ReadLatest, IsLatestFor, ScansOf
        <5> QED
          BY <1>2, <4>1, <5>2, <5>3, <5>4 DEF RowKept
      <4>2. req'[r].pc \in {"base", "create"} => req'[r].kind # "close"
        BY <3>2, ServedMoves DEF Moves, AttemptInv
      <4>3. ASSUME Preparing(req'[r])
            PROVE  \/ req'[r].attempt = 1
                   \/ /\ req'[r].attempt > 1
                      /\ StillHas(req'[r].sha, req'[r].attempt - 1)
        <5>1. CASE LookupFresh(r)
          <6>1. PICK n : n = NextAttempt(req[r])
            OBVIOUS
          <6>2. PICK q : /\ q = [req[r] EXCEPT !.pc = "find", !.attempt = n,
                                  !.profile = profile, !.cur = NoScan,
                                  !.seen = "none"]
                         /\ req'[r] = q
            BY <1>0, <5>1, <6>1 DEF LookupFresh
          <6>3. q.attempt = n /\ q.sha = req[r].sha
            BY <3>0, <6>2 DEF Request
          <6>4. PICK s \in ScanIds \cup {NoScan} : s = req[r].cur
            BY <3>0 DEF Request
          <6>5. CASE s = NoScan
            BY <6>1, <6>2, <6>3, <6>4, <6>5 DEF NextAttempt
          <6>6. CASE s # NoScan
            <7>1. s \in ScanIds /\ s <= created /\ scan[s].sha = req[r].sha
              BY <5>1, <6>4, <6>6 DEF AttemptInv, LookupFresh
            <7>2. /\ n = scan[s].attempt + 1 /\ scan[s].attempt \in Nat
                  /\ scan[s].attempt >= 1
              BY <1>0, <6>1, <6>4, <6>6, <7>1
                 DEF NextAttempt, AttemptInv, ScanRow
            <7>3. HasAttempt(req[r].sha, n - 1)
              BY <7>1, <7>2 DEF HasAttempt
            <7> QED
              BY <6>2, <6>3, <7>2, <7>3, AttemptsStay
          <6> QED
            BY <6>5, <6>6
        <5>2. CASE /\ Preparing(req[r]) /\ req'[r].sha = req[r].sha
                   /\ req'[r].attempt = req[r].attempt
          BY <5>2, AttemptsStay DEF AttemptInv
        <5> QED
          BY <3>2, <4>3, <5>1, <5>2, ServedMoves DEF Moves
      <4> QED
        BY <4>1, <4>2, <4>3
    <3> QED
      BY <3>1, <3>2, OwnStep
  <2> QED
    BY <1>2, <2>1, <2>2, <2>3 DEF AttemptInv, HasAttempt, StillHas
<1> QED
  BY <1>1, <1>2, RowsKept

(* However many requests read the same "latest" scan of a commit, the      *)
(* unique key lets one of them create the next attempt, and none creates   *)
(* an older one later.                                                     *)
THEOREM AttemptsInOrder == Spec => []AttemptsInCreationOrder
<1>1. Spec => []AttemptInv
  BY SafetyHolds, InitAttempts, StepAttempts, PTL DEF Spec
<1>2. AttemptInv => AttemptsInCreationOrder
  BY DEF AttemptInv
<1> QED
  BY <1>1, <1>2, PTL

-----------------------------------------------------------------------------
(* A worker is about to store what it has just read, or was already; and   *)
(* it fetches the whole diff because of a force push, or was doing so.     *)
Reaches(w) ==
    /\ worker'[w].scan = worker[w].scan
    /\ worker'[w].pc = "persist" =>
          worker[w].pc = "persist" \/ FetchCompare(w) \/ FetchFull(w)
    /\ worker'[w].pc = "fetchFull" =>
          worker[w].pc = "fetchFull" \/ FetchForcePush(w)

LEMMA ReachesPersist ==
  ASSUME TypeInv, [Next]_vars, NEW w \in Workers,
         worker'[w].pc \in {"persist", "fetchFull"}
  PROVE  Reaches(w)
<1> USE DEF Reaches
<1>0. /\ worker \in [Workers -> Execution]
      /\ \A v \in Workers : worker[v] \in Execution
  BY DEF TypeInv, TypeOK
<1>1. CASE UNCHANGED worker
  BY <1>1
<1>2. ASSUME NEW v \in Workers, Execute(v)
      PROVE  Reaches(w)
  <2>1. CASE v # w
    <3>1. worker'[w] = worker[w]
      BY <1>0, <1>2, <2>1 DEF Execute, Claim, SkipNotRunnable, FetchCompare,
         FetchForcePush, FetchFull, Persist, DiscardResult, DecideAi,
         Complete, Fail, OnFailed, OnFailedThrows, Goto
    <3> QED
      BY <3>1
  <2>2. CASE v = w
    <3>1. CASE FetchCompare(w) \/ FetchFull(w)
      <4>1. worker'[w] = [worker[w] EXCEPT !.pc = "persist"]
        BY <1>0, <3>1 DEF FetchCompare, FetchFull, Goto
      <4> QED
        BY <1>0, <3>1, <4>1 DEF Execution
    <3>5. CASE FetchForcePush(w)
      <4>1. worker'[w] = [worker[w] EXCEPT !.pc = "fetchFull"]
        BY <1>0, <3>5 DEF FetchForcePush, Goto
      <4> QED
        BY <1>0, <3>5, <4>1 DEF Execution
    <3>2. CASE \/ Claim(w) \/ SkipNotRunnable(w)
               \/ Persist(w) \/ DiscardResult(w) \/ DecideAi(w)
      <4>1. \E pc \in WorkerPcs \ {"persist", "fetchFull"} :
                worker'[w] = [worker[w] EXCEPT !.pc = pc]
        BY <1>0, <3>2 DEF Claim, SkipNotRunnable, Persist,
           DiscardResult, DecideAi, Goto, WorkerPcs
      <4> QED
        BY <1>0, <4>1 DEF Execution
    <3>3. CASE Complete(w) \/ OnFailed(w) \/ OnFailedThrows(w)
      BY <1>0, <3>3 DEF Complete, OnFailed, OnFailedThrows, NoExecution
    <3>4. CASE \E unrecoverable \in BOOLEAN : Fail(w, unrecoverable)
      <4>1. \/ worker'[w] = NoExecution
            \/ worker'[w] = [worker[w] EXCEPT !.pc = "onFailed"]
        BY <1>0, <3>4 DEF Fail
      <4> QED
        BY <1>0, <4>1 DEF NoExecution, Execution
    <3> QED
      BY <1>2, <2>2, <3>1, <3>2, <3>3, <3>4, <3>5 DEF Execute
  <2> QED
    BY <2>1, <2>2
<1>3. CASE \E v \in Workers : WorkerCrash(v)
  BY <1>0, <1>3 DEF WorkerCrash, NoExecution
<1>4. ASSUME NEW v \in Workers, NEW s \in ScanIds, Pick(v, s)
      PROVE  worker'[w] = worker[w]
  BY <1>0, <1>4 DEF Pick
<1>5. ASSUME NEW s \in ScanIds, Stalled(s)
      PROVE  worker'[w].pc = worker[w].pc /\ worker'[w].scan = worker[w].scan
  <2>1. \/ worker'[w] = worker[w]
        \/ worker'[w] = [worker[w] EXCEPT !.lock = FALSE]
    BY <1>5 DEF Stalled
  <2> QED
    BY <1>0, <2>1 DEF Execution
<1>6. CASE UNCHANGED vars \/ Environment
  BY <1>1, <1>6 DEF vars, Environment, Push, ForceBack,
     ChangeProfile
<1>7. CASE \E r \in Requests : Served(r)
  BY <1>1, <1>7 DEF Served, Arrive, DeliverPush, DeliverClose, RequestRescan,
     RescanOpenPulls, Handle, RescanRefused, RescanAllowed, ReadLatest,
     LookupDuplicate, LookupFresh, CancelFind, CancelPeek, CancelRemove,
     CancelRemoveThrows, CancelMark, ReadBase, CreateScan, CreateConflict,
     AddJob, AddThrows, UndoCreate, ApiCrash
<1> QED
  BY <1>2, <1>3, <1>4, <1>5, <1>6, <1>7 DEF Next, Served

(* New commits are new, and the branch gets back to an old one by a forced *)
(* return only; the pull request's commit is one that exists.              *)
HeadMoves ==
    /\ pushed <= pushed' /\ returned \subseteq returned'
    /\ \/ remoteHead' = remoteHead
       \/ remoteHead' = pushed + 1 /\ pushed' = pushed + 1
       \/ remoteHead' \in returned' /\ remoteHead' \in 1..pushed
    /\ pullHead' \in {pullHead} \cup 1..pushed

LEMMA HeadsMove ==
  ASSUME TypeInv, [Next]_vars
  PROVE  HeadMoves
<1>0. pushed \in Nat /\ pushed <= pushed
  BY DEF TypeInv, TypeOK, Commits
<1>1. ASSUME UNCHANGED <<remoteHead, pushed, returned, pullHead>>
      PROVE  HeadMoves
  BY <1>0, <1>1 DEF HeadMoves
<1>2. CASE Environment
  <2>1. CASE Push
    BY <1>0, <2>1 DEF Push, HeadMoves
  <2>2. ASSUME NEW c \in 1..pushed, ForceBack(c) PROVE HeadMoves
    BY <1>0, <2>2 DEF ForceBack, HeadMoves
  <2>3. CASE ChangeProfile
    BY <1>1, <2>3 DEF ChangeProfile
  <2> QED
    BY <1>2, <2>1, <2>2, <2>3 DEF Environment
<1>3. ASSUME NEW r \in Requests, NEW c \in 1..NumPushes, DeliverPush(r, c)
      PROVE  HeadMoves
  BY <1>0, <1>3 DEF DeliverPush, UpsertPull, HeadMoves
<1>4. ASSUME NEW r \in Requests, Served(r),
             ~\E c \in 1..NumPushes : DeliverPush(r, c)
      PROVE  UNCHANGED <<remoteHead, pushed, returned, pullHead>>
  BY <1>4 DEF Served, Arrive, DeliverClose, RequestRescan, RescanOpenPulls,
     Handle, RescanRefused, RescanAllowed, ReadLatest, LookupDuplicate,
     LookupFresh, CancelFind, CancelPeek, CancelRemove, CancelRemoveThrows,
     CancelMark, ReadBase, CreateScan, CreateConflict, AddJob, AddThrows,
     UndoCreate, ApiCrash, pullVars
<1>5. ASSUME NEW w \in Workers, Execute(w)
      PROVE  UNCHANGED <<remoteHead, pushed, returned, pullHead>>
  BY <1>5 DEF Execute, Claim, SkipNotRunnable, FetchCompare, FetchForcePush,
     FetchFull, Persist, DiscardResult, DecideAi, Complete, Fail, OnFailed,
     OnFailedThrows, pullVars
<1>6. CASE \/ UNCHANGED vars
           \/ \E w \in Workers : WorkerCrash(w)
           \/ \E w \in Workers, s \in ScanIds : Pick(w, s)
           \/ \E s \in ScanIds : Stalled(s)
  BY <1>1, <1>6 DEF WorkerCrash, Pick, Stalled, vars, pullVars
<1> QED
  BY <1>1, <1>2, <1>3, <1>4, <1>5, <1>6 DEF Next, Served

(* The commit a scan has read only changes when it is read again, and a    *)
(* scan is finished by a worker that had read its diff.                    *)
LEMMA ReadingsMove ==
  ASSUME TypeInv, [Next]_vars
  PROVE  /\ \/ UNCHANGED readAt
            \/ \E w \in Workers :
                  \/ FetchCompare(w) /\ readAt' = [readAt EXCEPT
                        ![worker[w].scan] = scan[worker[w].scan].sha]
                  \/ FetchFull(w) /\ readAt' = [readAt EXCEPT
                        ![worker[w].scan] = remoteHead]
         /\ \A s \in ScanIds : status'[s] = "DONE" /\ status[s] # "DONE" =>
               \E w \in Workers : /\ worker[w].pc = "persist"
                                  /\ worker[w].scan = s /\ UNCHANGED readAt
<1>0. status \in [ScanIds -> Statuses]
  BY DEF TypeInv, TypeOK
<1>1. ASSUME NEW w \in Workers, FetchCompare(w)
      PROVE  readAt' = [readAt EXCEPT ![worker[w].scan] =
                           scan[worker[w].scan].sha]
  BY <1>1 DEF FetchCompare, CompareDiff
<1>2. ASSUME NEW w \in Workers, FetchFull(w)
      PROVE  readAt' = [readAt EXCEPT ![worker[w].scan] = remoteHead]
  BY <1>2 DEF FetchFull, GetDiff
<1>3. CASE Environment \/ UNCHANGED vars
  BY <1>3 DEF Environment, Push, ForceBack,
     ChangeProfile, vars, scanVars
<1>4. ASSUME NEW r \in Requests, Served(r)
      PROVE  /\ UNCHANGED readAt
             /\ \A s \in ScanIds : status'[s] = "DONE" => status[s] = "DONE"
  <2>1. CASE CreateScan(r) \/ CancelMark(r) \/ UndoCreate(r)
    BY <1>0, <2>1 DEF CreateScan, CancelMark, Superseded, UndoCreate
  <2>2. ASSUME ~(CreateScan(r) \/ CancelMark(r) \/ UndoCreate(r))
        PROVE  UNCHANGED <<readAt, status>>
    BY <1>4, <2>2 DEF Served, Arrive, DeliverPush, DeliverClose,
       RequestRescan, RescanOpenPulls, Handle, RescanRefused, RescanAllowed,
       ReadLatest, LookupDuplicate, LookupFresh, CancelFind, CancelPeek,
       CancelRemove, CancelRemoveThrows, ReadBase, CreateConflict, AddJob,
       AddThrows, ApiCrash, scanVars
  <2> QED
    BY <2>1, <2>2
<1>5. ASSUME NEW w \in Workers, Execute(w), ~FetchCompare(w), ~FetchFull(w)
      PROVE  UNCHANGED readAt
  BY <1>5 DEF Execute, Claim, SkipNotRunnable, FetchForcePush, Persist,
     DiscardResult, DecideAi, Complete, Fail, OnFailed, OnFailedThrows,
     scanVars
<1>6. ASSUME NEW w \in Workers, Execute(w), NEW s \in ScanIds,
             status'[s] = "DONE", status[s] # "DONE"
      PROVE  worker[w].pc = "persist" /\ worker[w].scan = s /\ UNCHANGED readAt
  <2>1. CASE Persist(w)
    BY <1>0, <1>6, <2>1 DEF Persist
  <2>2. CASE ~Persist(w)
    BY <1>0, <1>6, <2>2 DEF Execute, Claim, SkipNotRunnable, FetchCompare,
       FetchForcePush, FetchFull, DiscardResult, DecideAi, Complete, Fail,
       OnFailed, OnFailedThrows, scanVars
  <2> QED
    BY <2>1, <2>2
<1>7. CASE \/ \E w \in Workers : WorkerCrash(w)
           \/ \E w \in Workers, s \in ScanIds : Pick(w, s)
           \/ \E s \in ScanIds : Stalled(s)
  BY <1>7 DEF WorkerCrash, Pick, Stalled, scanVars
<1> QED
  BY <1>1, <1>2, <1>3, <1>4, <1>5, <1>6, <1>7 DEF Next, Served

LEMMA InitHeads == Init => HeadInv
  BY DEF Init, HeadInv, Faithful, NoRequest, NoRow, NoExecution

LEMMA StepHeads ==
  TypeInv /\ SafetyInv /\ HeadInv /\ [Next]_vars => HeadInv'
<1> SUFFICES ASSUME TypeInv, SafetyInv, HeadInv, [Next]_vars
             PROVE  HeadInv'
  OBVIOUS
<1>0. /\ remoteHead \in Nat /\ remoteHead' \in Nat
      /\ pushed \in Nat /\ pushed' \in Nat
      /\ pullHead \in Nat /\ pullHead' \in Nat
      /\ \A s \in ScanIds : scan[s].sha \in Nat /\ scan'[s].sha \in Nat
      /\ \A r \in Requests : req[r].sha \in Nat /\ req'[r].sha \in Nat
  <2>1. TypeInv'
    BY StepType
  <2> QED
    BY <2>1 DEF TypeInv, TypeOK, Commits, ScanRow, Request
<1>1. HeadMoves
  BY HeadsMove
<1>2. remoteHead' <= pushed' /\ pullHead' <= pushed' /\ pushed <= pushed'
  BY <1>0, <1>1 DEF HeadInv, HeadMoves
<1>3. ASSUME NEW r \in Requests PROVE req'[r].sha <= pushed'
  <2>1. req'[r].sha \in {req[r].sha, 0, pullHead} \cup 1..pushed
    BY OwnStep, ServedMoves DEF Moves
  <2> QED
    BY <1>0, <1>2, <2>1 DEF HeadInv
<1>4. ASSUME NEW s \in ScanIds
      PROVE  \/ RowKept(s)
             \/ \E r \in Requests : /\ scan'[s].sha = req[r].sha
                                    /\ status'[s] = "QUEUED" /\ s > created
  <2>1. ASSUME NEW r \in Requests, CreateScan(r), s # created + 1
        PROVE  RowKept(s)
    BY <2>1, CreatedRow DEF RowKept
  <2>2. ASSUME NEW r \in Requests, CreateScan(r), s = created + 1
        PROVE  /\ scan'[s].sha = req[r].sha
               /\ status'[s] = "QUEUED" /\ s > created
    <3>1. created \in Nat
      BY DEF TypeInv, TypeOK
    <3> QED
      BY <2>2, <3>1, CreatedRow
  <2> QED
    BY <2>1, <2>2, RowsKept
<1>5. ASSUME NEW s \in ScanIds PROVE scan'[s].sha <= pushed'
  BY <1>0, <1>2, <1>4 DEF HeadInv, RowKept
<1>6. TypeInv' /\ readAt \in [ScanIds -> Commits] /\ created \in Nat
      /\ scan' \in [ScanIds -> ScanRow]
  BY StepType DEF TypeInv, TypeOK
(* Whatever a scan had read, the branch does not get back to its commit    *)
(* unless it is forced to.                                                 *)
<1>7. ASSUME NEW s \in ScanIds, RowKept(s), scan[s].sha <= pushed,
             scan'[s].mode \in {"FULL", "INCREMENTAL"}
      PROVE  /\ Faithful(s) /\ readAt'[s] \in {readAt[s], scan[s].sha}
                    => Faithful(s)'
             /\ scan[s].mode = "FULL" /\ readAt'[s] = remoteHead
                    => Faithful(s)'
  <2>1. /\ scan'[s].sha = scan[s].sha
        /\ scan[s].mode = "FULL" => scan'[s].mode = "FULL"
    BY <1>7 DEF RowKept
  <2>2. remoteHead # scan[s].sha \/ scan[s].sha \in returned =>
            remoteHead' # scan[s].sha \/ scan[s].sha \in returned'
    BY <1>0, <1>1, <1>7 DEF HeadMoves
  <2>3. remoteHead # scan[s].sha \/ remoteHead = scan[s].sha
    OBVIOUS
  <2> QED
    BY <2>1, <2>2, <2>3 DEF Faithful
<1>8. ASSUME NEW s \in ScanIds, s <= created
      PROVE  /\ RowKept(s) /\ scan[s].sha <= pushed
             /\ scan'[s].mode \in {"FULL", "INCREMENTAL"}
  BY <1>4, <1>6, <1>8 DEF HeadInv, ScanRow, ScanIds
<1>9. ASSUME NEW s \in ScanIds, s <= created, Faithful(s)
      PROVE  Faithful(s)'
  <2>1. CASE UNCHANGED readAt
    BY <1>7, <1>8, <1>9, <2>1
  <2>2. ASSUME NEW w \in Workers, FetchCompare(w),
               readAt' = [readAt EXCEPT ![worker[w].scan] =
                             scan[worker[w].scan].sha]
        PROVE  Faithful(s)'
    <3>1. readAt'[s] \in {readAt[s], scan[s].sha}
      BY <1>6, <2>2
    <3> QED
      BY <1>7, <1>8, <1>9, <3>1
  <2>3. ASSUME NEW w \in Workers, FetchFull(w),
               readAt' = [readAt EXCEPT ![worker[w].scan] = remoteHead]
        PROVE  Faithful(s)'
    <3>1. CASE worker[w].scan # s
      BY <1>6, <1>7, <1>8, <1>9, <2>3, <3>1
    <3>2. CASE worker[w].scan = s
      <4>1. readAt'[s] = remoteHead /\ scan[s].mode = "FULL"
        BY <1>6, <2>3, <3>2 DEF FetchFull, HeadInv
      <4> QED
        BY <1>7, <1>8, <1>9, <4>1
    <3> QED
      BY <3>1, <3>2
  <2> QED
    BY <2>1, <2>2, <2>3, ReadingsMove
<1>10. ASSUME NEW w \in Workers, worker[w].pc # "idle"
       PROVE  worker[w].scan \in ScanIds /\ worker[w].scan <= created
  BY <1>10 DEF TypeInv, ExecutionOK, SafetyInv, RowsExist
<1>11. ASSUME NEW s \in ScanIds, status'[s] = "DONE" PROVE Faithful(s)'
  <2>2. CASE status[s] = "DONE"
    BY <1>9, <2>2 DEF HeadInv, SafetyInv, RowsExist
  <2>3. CASE status[s] # "DONE"
    <3>1. PICK w \in Workers : /\ worker[w].pc = "persist"
                               /\ worker[w].scan = s /\ UNCHANGED readAt
      BY <1>11, <2>3, ReadingsMove
    <3>2. s <= created
      BY <1>10, <3>1
    <3> QED
      BY <1>9, <3>1, <3>2 DEF HeadInv
  <2> QED
    BY <2>2, <2>3
<1>12. ASSUME NEW w \in Workers, worker'[w].pc \in {"persist", "fetchFull"}
       PROVE  /\ worker'[w].scan = worker[w].scan
              /\ worker[w].scan \in ScanIds /\ worker[w].scan <= created
  <2>1. Reaches(w)
    BY <1>12, ReachesPersist
  <2>2. worker[w].pc # "idle"
    BY <1>12, <2>1 DEF Reaches, FetchCompare, FetchFull, FetchForcePush
  <2> QED
    BY <1>10, <2>1, <2>2 DEF Reaches
<1>13. ASSUME NEW w \in Workers, worker'[w].pc = "persist"
       PROVE  Faithful(worker[w].scan)'
  <2>1. PICK s : s = worker[w].scan
    OBVIOUS
  <2>2. Reaches(w) /\ worker'[w].scan = s /\ s \in ScanIds /\ s <= created
    BY <1>12, <1>13, <2>1, ReachesPersist
  <2>3. Faithful(s)'
    <3>1. CASE worker[w].pc = "persist"
      BY <1>9, <2>1, <2>2, <3>1 DEF HeadInv
    <3>2. CASE FetchCompare(w)
      <4>1. readAt'[s] = scan[s].sha /\ scan'[s].sha = scan[s].sha
        BY <1>6, <1>8, <2>1, <2>2, <3>2 DEF FetchCompare, CompareDiff,
           RowKept
      <4> QED
        BY <4>1 DEF Faithful
    <3>3. CASE FetchFull(w)
      <4>1. readAt'[s] = remoteHead /\ scan[s].mode = "FULL"
        BY <1>6, <2>1, <2>2, <3>3 DEF FetchFull, GetDiff, HeadInv
      <4> QED
        BY <1>7, <1>8, <2>2, <4>1
    <3> QED
      BY <1>13, <2>2, <3>1, <3>2, <3>3 DEF Reaches
  <2> QED
    BY <2>2, <2>3 DEF Faithful
<1>14. ASSUME NEW w \in Workers, worker'[w].pc = "fetchFull"
       PROVE  scan'[worker'[w].scan].mode = "FULL"
  <2>1. PICK s : s = worker[w].scan
    OBVIOUS
  <2>2. Reaches(w) /\ worker'[w].scan = s /\ s \in ScanIds /\ s <= created
    BY <1>12, <1>14, <2>1, ReachesPersist
  <2>3. CASE worker[w].pc = "fetchFull"
    BY <1>8, <2>1, <2>2, <2>3 DEF HeadInv, RowKept
  <2>4. CASE FetchForcePush(w)
    <3>1. scan \in [ScanIds -> ScanRow]
      BY DEF TypeInv, TypeOK
    <3>2. scan'[s] = [scan[s] EXCEPT !.mode = "FULL", !.prev = 0]
      BY <2>1, <2>2, <2>4, <3>1 DEF FetchForcePush
    <3> QED
      BY <2>2, <3>1, <3>2 DEF ScanRow
  <2> QED
    BY <1>14, <2>2, <2>3, <2>4 DEF Reaches
<1>15. /\ \A s \in ScanIds : scan'[s].sha <= pushed'
       /\ \A s \in ScanIds : status'[s] = "DONE" => Faithful(s)'
       /\ \A w \in Workers :
             /\ worker'[w].pc = "persist" => Faithful(worker[w].scan)'
             /\ worker'[w].pc = "fetchFull" =>
                    scan'[worker'[w].scan].mode = "FULL"
  BY <1>5, <1>11, <1>13, <1>14
<1> QED
  BY <1>2, <1>3, <1>15 DEF HeadInv

(* Whatever was pushed while a scan ran, and whichever commit a FULL scan  *)
(* then read: findings the diff view trusts come from the very diff it     *)
(* shows, or the branch was forced back to the commit of a FULL scan.      *)
THEOREM AnnotationsTrusted == Spec => []AnnotationsMatchHead
<1>1. Spec => [](TypeInv /\ HeadInv)
  BY SafetyHolds, InitHeads, StepHeads, PTL DEF Spec
<1>2. TypeInv /\ HeadInv => AnnotationsMatchHead
  <2> SUFFICES ASSUME TypeInv, HeadInv, latest # NoScan,
                      scan[latest].sha = remoteHead, status[latest] = "DONE"
               PROVE  \/ readAt[latest] = remoteHead
                      \/ /\ scan[latest].mode = "FULL"
                         /\ scan[latest].sha \in returned
    BY DEF AnnotationsMatchHead, Annotations, GetDiff
  <2>1. latest \in ScanIds
    BY DEF TypeInv, TypeOK
  <2> QED
    BY <2>1 DEF HeadInv, Faithful
<1> QED
  BY <1>1, <1>2, PTL


-----------------------------------------------------------------------------
(* One request at a time.                                                  *)
OneAtATime == \A r, t \in Requests : r = t

Pending == {s \in ScanIds : status[s] \in InFlight}

(* What cancelPending found is all that is in flight, and one scan at the  *)
(* most; once it is marked nothing is, until the request has its own row.  *)
Cancelling(r) ==
    /\ Pending \subseteq req[r].found
    /\ \A s, t \in req[r].found : s = t
    /\ req[r].todo \subseteq req[r].found
    /\ req[r].pc = "remove" => req[r].cur \in req[r].found

CancelInv ==
    \A r \in Requests :
        /\ req[r].pc \in {"peek", "remove"} => Cancelling(r)
        /\ req[r].pc \in {"base", "create"} => Pending = {}

(* What is in flight is newer than what the PR shows.                      *)
LatestInv == \A s \in Pending : latest <= s

TurnInv == OneInFlightPerPull /\ CancelInv /\ LatestInv

(* A scan gets in flight by its creation only, and RUNNING is not undone.  *)
LEMMA PendingMoves ==
  ASSUME TypeInv, [Next]_vars, NEW s \in ScanIds
  PROVE  /\ status'[s] \in InFlight =>
               \/ status[s] \in InFlight
               \/ \E r \in Requests : CreateScan(r) /\ s = created + 1
         /\ status'[s] = "QUEUED" =>
               \/ status[s] = "QUEUED"
               \/ \E r \in Requests : CreateScan(r) /\ s = created + 1
<1> DEFINE Old == /\ status'[s] \in InFlight => status[s] \in InFlight
                  /\ status'[s] = "QUEUED" => status[s] = "QUEUED"
<1>0. status \in [ScanIds -> Statuses]
  BY DEF TypeInv, TypeOK
<1>1. ASSUME UNCHANGED status PROVE Old
  BY <1>1
<1>2. ASSUME NEW r \in Requests, Served(r), ~CreateScan(r) PROVE Old
  <2>1. CASE CancelMark(r) \/ UndoCreate(r)
    BY <1>0, <2>1 DEF CancelMark, Superseded, UndoCreate, InFlight
  <2>2. CASE ~(CancelMark(r) \/ UndoCreate(r))
    <3>1. UNCHANGED status
      BY <1>2, <2>2 DEF Served, Arrive, DeliverPush, DeliverClose,
         RequestRescan, RescanOpenPulls, Handle, RescanRefused,
         RescanAllowed, ReadLatest, LookupDuplicate, LookupFresh, CancelFind,
         CancelPeek, CancelRemove, CancelRemoveThrows, ReadBase,
         CreateConflict, AddJob, AddThrows, ApiCrash, scanVars
    <3> QED
      BY <1>1, <3>1
  <2> QED
    BY <2>1, <2>2
<1>3. ASSUME NEW r \in Requests, CreateScan(r), s # created + 1 PROVE Old
  BY <1>0, <1>3 DEF CreateScan
<1>4. ASSUME NEW w \in Workers, Execute(w) PROVE Old
  <2>1. CASE Claim(w) \/ Persist(w) \/ OnFailed(w)
    BY <1>0, <2>1 DEF Claim, Claimable, Persist, OnFailed, MaySettle,
       InFlight
  <2>2. CASE ~(Claim(w) \/ Persist(w) \/ OnFailed(w))
    <3>1. UNCHANGED status
      BY <1>4, <2>2 DEF Execute, SkipNotRunnable, FetchCompare,
         FetchForcePush, FetchFull, DiscardResult, DecideAi, Complete, Fail,
         OnFailedThrows, scanVars
    <3> QED
      BY <1>1, <3>1
  <2> QED
    BY <2>1, <2>2
<1>5. CASE \/ UNCHANGED vars \/ Environment
           \/ \E w \in Workers : WorkerCrash(w)
           \/ \E w \in Workers, t \in ScanIds : Pick(w, t)
           \/ \E t \in ScanIds : Stalled(t)
  BY <1>1, <1>5 DEF vars, scanVars, Environment, Push, ForceBack,
     ChangeProfile,
     WorkerCrash, Pick, Stalled
<1> QED
  BY <1>2, <1>3, <1>4, <1>5 DEF Next, Served

(* The PR comes to show only what has just been in flight.                 *)
LEMMA LatestMoves ==
  ASSUME TypeInv, [Next]_vars
  PROVE  UNCHANGED latest \/ latest' \in Pending
<1>1. ASSUME NEW w \in Workers, Execute(w)
      PROVE  UNCHANGED latest \/ latest' \in Pending
  <2>1. CASE Persist(w) \/ OnFailed(w)
    <3>1. worker[w].scan \in ScanIds
      BY <2>1 DEF TypeInv, ExecutionOK, Persist, OnFailed
    <3> QED
      BY <2>1, <3>1 DEF Persist, MayPersist, OnFailed, MaySettle, Pending,
         InFlight
  <2>2. CASE ~(Persist(w) \/ OnFailed(w))
    BY <1>1, <2>2 DEF Execute, Claim, SkipNotRunnable, FetchCompare,
       FetchForcePush, FetchFull, DiscardResult, DecideAi, Complete, Fail,
       OnFailedThrows, pullVars
  <2> QED
    BY <2>1, <2>2
<1>2. ASSUME NEW r \in Requests, Served(r) PROVE UNCHANGED latest
  BY <1>2 DEF Served, Arrive, DeliverPush, DeliverClose, RequestRescan,
     RescanOpenPulls, Handle, RescanRefused, RescanAllowed, ReadLatest,
     LookupDuplicate, LookupFresh, CancelFind, CancelPeek, CancelRemove,
     CancelRemoveThrows, CancelMark, ReadBase, CreateScan, CreateConflict,
     AddJob, AddThrows, UndoCreate, ApiCrash, pullVars
<1>3. CASE \/ UNCHANGED vars \/ Environment
           \/ \E w \in Workers : WorkerCrash(w)
           \/ \E w \in Workers, t \in ScanIds : Pick(w, t)
           \/ \E t \in ScanIds : Stalled(t)
  BY <1>3 DEF vars, pullVars, Environment, Push, ForceBack,
     ChangeProfile, WorkerCrash,
     Pick, Stalled
<1> QED
  BY <1>1, <1>2, <1>3 DEF Next, Served

(* How a request's own step takes it through cancelPending.                *)
Cancels(r) ==
    /\ req'[r].pc \in {"peek", "remove"} =>
          \/ /\ CancelFind(r) /\ req'[r].pc = "peek"
             /\ req'[r].found = Pending /\ req'[r].todo = Pending
          \/ /\ req[r].pc \in {"peek", "remove"}
             /\ req'[r].found = req[r].found
             /\ req'[r].todo \subseteq req[r].todo
             /\ req'[r].pc = "remove" => req'[r].cur \in req[r].todo
    /\ req'[r].pc \in {"base", "create"} =>
          \/ req[r].pc = "base"
          \/ CancelFind(r) /\ Pending = {}
          \/ CancelMark(r)

LEMMA ServedCancels ==
  ASSUME TypeInv, NEW r \in Requests, Served(r)
  PROVE  Cancels(r)
<1>0. req \in [Requests -> Request] /\ req[r] \in Request
  BY DEF TypeInv, TypeOK
<1>1. ASSUME req'[r].pc \in {"idle", "inFlight", "lookup", "tiers", "find",
                             "add", "undo"}
      PROVE  Cancels(r)
  BY <1>1 DEF Cancels
<1>2. CASE Arrive(r)
  <2>1. req'[r].pc \in {"lookup", "find", "inFlight"}
    BY <1>0, <1>2 DEF Arrive, DeliverPush, DeliverClose, RequestRescan,
       RescanOpenPulls, NoRequest
  <2> QED
    BY <1>1, <2>1
<1>3. CASE \/ ApiCrash(r) \/ RescanRefused(r) \/ LookupDuplicate(r)
           \/ CancelRemoveThrows(r) \/ CreateConflict(r) \/ AddJob(r)
           \/ UndoCreate(r)
  <2>1. req'[r] = NoRequest
    BY <1>0, <1>3 DEF ApiCrash, RescanRefused, LookupDuplicate,
       CancelRemoveThrows, CreateConflict, AddJob, UndoCreate
  <2> QED
    BY <1>1, <2>1 DEF NoRequest
<1>4. CASE RescanAllowed(r) \/ AddThrows(r)
  <2>1. req'[r].pc \in {"lookup", "undo"}
    BY <1>0, <1>4 DEF RescanAllowed, AddThrows, Request
  <2> QED
    BY <1>1, <2>1
<1>5. ASSUME NEW s \in ScanIds \cup {NoScan}, ReadLatest(r, s)
      PROVE  Cancels(r)
  <2>1. PICK q : /\ q = [req[r] EXCEPT !.pc = "tiers", !.cur = s,
                            !.seen = IF s = NoScan THEN "none" ELSE status[s]]
                 /\ req'[r] = q
    BY <1>0, <1>5 DEF ReadLatest
  <2>2. q.pc = "tiers"
    BY <1>0, <2>1 DEF Request
  <2> QED
    BY <1>1, <2>1, <2>2
<1>6. CASE LookupFresh(r)
  <2>1. PICK q : /\ q = [req[r] EXCEPT !.pc = "find",
                            !.attempt = NextAttempt(req[r]),
                            !.profile = profile, !.cur = NoScan,
                            !.seen = "none"]
                 /\ req'[r] = q
    BY <1>0, <1>6 DEF LookupFresh
  <2>2. q.pc = "find"
    BY <1>0, <2>1 DEF Request
  <2> QED
    BY <1>1, <2>1, <2>2
<1>7. CASE CancelFind(r)
  <2>1. CASE Pending = {}
    <3>1. req'[r] = AfterCancel(req[r])
      BY <1>0, <1>7, <2>1 DEF CancelFind, Pending
    <3>2. req'[r].pc \in {"idle", "base"}
      BY <1>0, <3>1, AfterCancelMoves
    <3> QED
      BY <1>7, <2>1, <3>2 DEF Cancels
  <2>2. CASE Pending # {}
    <3>1. PICK q : /\ q = [req[r] EXCEPT !.pc = "peek", !.found = Pending,
                                         !.todo = Pending]
                   /\ req'[r] = q
      BY <1>0, <1>7, <2>2 DEF CancelFind, Pending
    <3>2. q.pc = "peek" /\ q.found = Pending /\ q.todo = Pending
      BY <1>0, <3>1 DEF Request
    <3> QED
      BY <1>7, <3>1, <3>2 DEF Cancels
  <2> QED
    BY <2>1, <2>2
<1>8. ASSUME NEW s \in ScanIds, CancelPeek(r, s) PROVE Cancels(r)
  <2>1. PICK q : /\ req'[r] = q
                 /\ \/ q = [req[r] EXCEPT !.pc = "remove", !.cur = s]
                    \/ q = [req[r] EXCEPT !.todo = req[r].todo \ {s}]
    BY <1>0, <1>8 DEF CancelPeek
  <2>2. /\ req[r].pc = "peek" /\ s \in req[r].todo
        /\ q.pc \in {"peek", "remove"} /\ q.found = req[r].found
        /\ q.todo \subseteq req[r].todo
        /\ q.pc = "remove" => q.cur = s
    BY <1>0, <1>8, <2>1 DEF CancelPeek, Request
  <2> QED
    BY <2>1, <2>2 DEF Cancels
<1>9. CASE CancelRemove(r)
  <2>1. PICK q : /\ q = [req[r] EXCEPT !.pc = "peek",
                            !.todo = req[r].todo \ {req[r].cur},
                            !.cur = NoScan]
                 /\ req'[r] = q
    BY <1>0, <1>9 DEF CancelRemove
  <2>2. /\ req[r].pc = "remove" /\ q.pc = "peek" /\ q.found = req[r].found
        /\ q.todo \subseteq req[r].todo
    BY <1>0, <1>9, <2>1 DEF CancelRemove, Request
  <2> QED
    BY <2>1, <2>2 DEF Cancels
<1>10. CASE CancelMark(r)
  <2>1. req'[r].pc \in {"idle", "base"}
    BY <1>0, <1>10, AfterCancelMoves DEF CancelMark
  <2> QED
    BY <1>10, <2>1 DEF Cancels
<1>11. ASSUME NEW base \in ScanIds \cup {NoScan}, NEW full \in BOOLEAN,
              ReadBase(r, base, full)
       PROVE  Cancels(r)
  <2>1. PICK mode : mode = DecideScanMode(base, req[r].full, req[r].profile,
                                          full)
    OBVIOUS
  <2>2. PICK q : /\ q = [req[r] EXCEPT !.pc = "create", !.base = base,
                                       !.mode = mode]
                 /\ req'[r] = q
    BY <1>0, <1>11, <2>1 DEF ReadBase
  <2>3. q.pc = "create" /\ req[r].pc = "base"
    BY <1>0, <1>11, <2>2 DEF Request, ReadBase
  <2> QED
    BY <2>2, <2>3 DEF Cancels
<1>12. CASE CreateScan(r)
  <2>1. PICK q : /\ q = [NoRequest EXCEPT !.pc = "add", !.kind = req[r].kind,
                                          !.cur = created + 1]
                 /\ req'[r] = q
    BY <1>0, <1>12 DEF CreateScan
  <2>2. q.pc = "add"
    BY <2>1 DEF NoRequest
  <2> QED
    BY <1>1, <2>1, <2>2
<1> QED
  BY <1>2, <1>3, <1>4, <1>5, <1>6, <1>7, <1>8, <1>9, <1>10, <1>11, <1>12
     DEF Served, Handle

LEMMA InitTurn == Init => TurnInv
  BY DEF Init, TurnInv, OneInFlightPerPull, CancelInv, LatestInv, Pending,
     InFlight, NoRequest

LEMMA StepTurn ==
  ASSUME OneAtATime, TypeInv, SafetyInv, TurnInv, [Next]_vars
  PROVE  TurnInv'
<1>0. /\ created \in 0..MaxScans /\ latest \in ScanIds \cup {NoScan}
      /\ latest <= created
  BY DEF TypeInv, TypeOK, SafetyInv, RowsExist, LatestIsSettled, ScanIds,
         NoScan
<1>1. ASSUME NEW r \in Requests, CreateScan(r)
      PROVE  /\ Pending = {} /\ Pending' \subseteq {created + 1}
             /\ UNCHANGED latest /\ req'[r].pc = "add"
  <2>1. req[r].pc = "create" /\ UNCHANGED latest
    BY <1>1 DEF CreateScan, pullVars
  <2>2. Pending = {}
    BY <2>1 DEF TurnInv, CancelInv
  <2>3. Pending' \subseteq {created + 1}
    BY <2>2, PendingMoves DEF Pending
  <2>4. PICK q : /\ q = [NoRequest EXCEPT !.pc = "add", !.kind = req[r].kind,
                                          !.cur = created + 1]
                 /\ req' = [req EXCEPT ![r] = q]
    BY <1>1 DEF CreateScan
  <2>5. q.pc = "add"
    BY <2>4 DEF NoRequest
  <2>6. req'[r].pc = "add"
    BY <2>4, <2>5 DEF TypeInv, TypeOK
  <2> QED
    BY <2>1, <2>2, <2>3, <2>6
<1>2. Pending' \subseteq Pending \/ \E r \in Requests : CreateScan(r)
  BY PendingMoves DEF Pending
<1>3. OneInFlightPerPull'
  <2>1. OneInFlightPerPull
    BY DEF TurnInv
  <2> QED
    BY <1>1, <1>2, <2>1 DEF OneInFlightPerPull, Pending
<1>4. LatestInv'
  <2>1. CASE \E r \in Requests : CreateScan(r)
    BY <1>0, <1>1, <2>1 DEF LatestInv, NoScan, ScanIds
  <2>2. CASE Pending' \subseteq Pending
    <3>1. \A s, t \in Pending : s = t
      BY DEF TurnInv, OneInFlightPerPull, Pending
    <3>2. \A s \in Pending : latest <= s /\ s <= s
      BY DEF TurnInv, LatestInv, Pending, ScanIds
    <3> QED
      BY <2>2, <3>1, <3>2, LatestMoves DEF LatestInv
  <2> QED
    BY <1>2, <2>1, <2>2
<1>5. ASSUME NEW r \in Requests, ~CreateScan(r)
      PROVE  Pending' \subseteq Pending
  BY <1>2, <1>5 DEF OneAtATime
<1>6. ASSUME NEW r \in Requests, req'[r].pc \in {"peek", "remove"}
      PROVE  Cancelling(r)'
  <2>1. Pending' \subseteq Pending
    BY <1>1, <1>5, <1>6
  <2>2. CASE req'[r] = req[r]
    <3>1. Cancelling(r)
      BY <1>6, <2>2 DEF TurnInv, CancelInv
    <3> QED
      BY <2>1, <2>2, <3>1 DEF Cancelling
  <2>3. CASE Served(r)
    <3>1. Cancels(r)
      BY <2>3, ServedCancels
    <3>2. CASE /\ CancelFind(r) /\ req'[r].pc = "peek"
               /\ req'[r].found = Pending /\ req'[r].todo = Pending
      <4>1. \A s, t \in Pending : s = t
        BY DEF TurnInv, OneInFlightPerPull, Pending
      <4> QED
        BY <2>1, <3>2, <4>1 DEF Cancelling
    <3>3. CASE /\ req[r].pc \in {"peek", "remove"}
               /\ req'[r].found = req[r].found
               /\ req'[r].todo \subseteq req[r].todo
               /\ req'[r].pc = "remove" => req'[r].cur \in req[r].todo
      <4>1. Cancelling(r)
        BY <3>3 DEF TurnInv, CancelInv
      <4> QED
        BY <2>1, <3>3, <4>1 DEF Cancelling
    <3> QED
      BY <1>6, <3>1, <3>2, <3>3 DEF Cancels
  <2> QED
    BY <2>2, <2>3, OwnStep
<1>7. ASSUME NEW r \in Requests, req'[r].pc \in {"base", "create"}
      PROVE  Pending' = {}
  <2>1. Pending' \subseteq Pending
    BY <1>1, <1>5, <1>7
  <2>2. CASE req'[r] = req[r] \/ req[r].pc = "base"
    BY <1>7, <2>1, <2>2 DEF TurnInv, CancelInv
  <2>3. CASE CancelFind(r) /\ Pending = {}
    BY <2>1, <2>3
  <2>4. CASE CancelMark(r)
    <3>1. Pending \subseteq req[r].found
      BY <2>4 DEF TurnInv, CancelInv, Cancelling, CancelMark
    <3>2. status' = Superseded(req[r].found)
      BY <2>4 DEF CancelMark
    <3> QED
      BY <3>1, <3>2 DEF Superseded, Pending, InFlight
  <2> QED
    BY <1>7, <2>2, <2>3, <2>4, OwnStep, ServedCancels DEF Cancels
<1> QED
  BY <1>3, <1>4, <1>6, <1>7 DEF TurnInv, CancelInv

LEMMA TurnHolds ==
  ASSUME OneAtATime
  PROVE  Spec => [](TypeInv /\ SafetyInv /\ TurnInv)
<1>1. TypeInv /\ SafetyInv /\ TurnInv /\ [Next]_vars => TurnInv'
  BY StepTurn
<1> QED
  BY <1>1, InitTurn, SafetyHolds, PTL DEF Spec

(* With one request at a time, a PR has at most one scan in flight: what   *)
(* cancelPending supersedes never comes back, and nothing new gets between *)
(* it and the row that enqueue creates, whatever workers and crashes do.   *)
THEOREM OneScanInFlight ==
  ASSUME OneAtATime
  PROVE  Spec => []OneInFlightPerPull
<1>1. TurnInv => OneInFlightPerPull
  BY DEF TurnInv
<1> QED
  BY <1>1, TurnHolds, PTL

(* With one request at a time, the result shown on the PR only moves to a  *)
(* newer scan: a slow or stalled worker of an older one, or the handler of *)
(* its failure, never takes it back.                                       *)
THEOREM ResultsMoveForward ==
  ASSUME OneAtATime
  PROVE  Spec => LatestNeverGoesBack
<1>1. TypeInv /\ TurnInv /\ [Next]_vars => [latest' >= latest]_vars
  <2> SUFFICES ASSUME TypeInv, TurnInv, [Next]_vars PROVE latest' >= latest
    OBVIOUS
  <2>1. latest >= latest
    BY DEF TypeInv, TypeOK, ScanIds, NoScan
  <2>2. \A s \in Pending : latest <= s /\ s \in ScanIds
    BY DEF TurnInv, LatestInv, Pending
  <2>3. latest \in ScanIds \cup {NoScan}
    BY DEF TypeInv, TypeOK
  <2> QED
    BY <2>1, <2>2, <2>3, LatestMoves DEF ScanIds, NoScan
<1> QED
  BY <1>1, TurnHolds, PTL DEF Spec, LatestNeverGoesBack

-----------------------------------------------------------------------------
(* Something settles what is in flight.  A worker that has its result has  *)
(* a scan that was claimed; one that has stored it, or found nothing to    *)
(* store, has a scan that is settled.                                      *)
Scanning == {"fetch", "fetchFull", "persist"}
Finishing == {"ai", "notify", "finish"}

StageInv ==
    \A w \in Workers :
        /\ worker[w].pc \in Scanning => status[worker[w].scan] # "QUEUED"
        /\ worker[w].pc \in Finishing =>
               status[worker[w].scan] \notin InFlight

(* How a worker gets there.                                                *)
Stages(w) ==
    /\ worker'[w].pc \in Scanning =>
          /\ worker'[w].scan = worker[w].scan
          /\ worker[w].pc \in Scanning \/ Claim(w)
    /\ worker'[w].pc \in Finishing =>
          /\ worker'[w].scan = worker[w].scan
          /\ \/ worker[w].pc \in Finishing
             \/ Persist(w) \/ SkipNotRunnable(w) \/ DiscardResult(w)

LEMMA StagesMove ==
  ASSUME TypeInv, [Next]_vars, NEW w \in Workers
  PROVE  Stages(w)
<1>0. /\ worker \in [Workers -> Execution]
      /\ \A v \in Workers : worker[v] \in Execution
  BY DEF TypeInv, TypeOK
<1>1. ASSUME worker'[w] = worker[w] PROVE Stages(w)
  BY <1>1 DEF Stages
<1>2. ASSUME worker'[w].pc \in {"idle", "stalled", "claim", "onFailed"}
      PROVE  Stages(w)
  BY <1>2 DEF Stages, Scanning, Finishing
<1>3. ASSUME NEW v \in Workers, Execute(v) PROVE Stages(w)
  <2>1. CASE v # w
    <3>1. worker'[w] = worker[w]
      BY <1>0, <1>3, <2>1 DEF Execute, Claim, SkipNotRunnable, FetchCompare,
         FetchForcePush, FetchFull, Persist, DiscardResult, DecideAi,
         Complete, Fail, OnFailed, OnFailedThrows, Goto
    <3> QED
      BY <1>1, <3>1
  <2>2. ASSUME NEW pc \in WorkerPcs, Goto(w, pc)
        PROVE  worker'[w].pc = pc /\ worker'[w].scan = worker[w].scan
    <3>1. worker'[w] = [worker[w] EXCEPT !.pc = pc]
      BY <1>0, <2>2 DEF Goto
    <3> QED
      BY <1>0, <3>1 DEF Execution
  <2>3. CASE \/ Claim(w) \/ FetchCompare(w) \/ FetchForcePush(w)
             \/ FetchFull(w)
    <3>1. /\ worker'[w].pc \in Scanning /\ worker'[w].scan = worker[w].scan
          /\ worker[w].pc \in Scanning \/ Claim(w)
      BY <2>2, <2>3 DEF Claim, FetchCompare, FetchForcePush, FetchFull,
         Scanning, WorkerPcs
    <3> QED
      BY <3>1 DEF Stages, Scanning, Finishing
  <2>4. CASE \/ SkipNotRunnable(w) \/ Persist(w) \/ DiscardResult(w)
             \/ DecideAi(w)
    <3>1. /\ worker'[w].pc \in Finishing /\ worker'[w].scan = worker[w].scan
          /\ \/ worker[w].pc \in Finishing
             \/ Persist(w) \/ SkipNotRunnable(w) \/ DiscardResult(w)
      BY <2>2, <2>4 DEF SkipNotRunnable, Persist, DiscardResult, DecideAi,
         Finishing, WorkerPcs
    <3> QED
      BY <3>1 DEF Stages, Scanning, Finishing
  <2>5. CASE \/ Complete(w) \/ OnFailed(w) \/ OnFailedThrows(w)
             \/ \E unrecoverable \in BOOLEAN : Fail(w, unrecoverable)
    <3>1. \/ worker'[w] = NoExecution
          \/ worker'[w] = [worker[w] EXCEPT !.pc = "onFailed"]
      BY <1>0, <2>5 DEF Complete, OnFailed, OnFailedThrows, Fail
    <3> QED
      BY <1>0, <1>2, <3>1 DEF NoExecution, Execution
  <2> QED
    BY <1>3, <2>1, <2>3, <2>4, <2>5 DEF Execute
<1>4. CASE \E v \in Workers : WorkerCrash(v)
  <2>1. worker'[w] = worker[w] \/ worker'[w] = NoExecution
    BY <1>0, <1>4 DEF WorkerCrash
  <2> QED
    BY <1>1, <1>2, <2>1 DEF NoExecution
<1>5. ASSUME NEW v \in Workers, NEW s \in ScanIds, Pick(v, s) PROVE Stages(w)
  <2>1. worker'[w] = worker[w] \/ worker'[w].pc \in {"stalled", "claim"}
    BY <1>0, <1>5 DEF Pick
  <2> QED
    BY <1>1, <1>2, <2>1
<1>6. ASSUME NEW s \in ScanIds, Stalled(s) PROVE Stages(w)
  <2>1. \/ worker'[w] = worker[w]
        \/ worker'[w] = [worker[w] EXCEPT !.lock = FALSE]
    BY <1>6 DEF Stalled
  <2>2. worker'[w].pc = worker[w].pc /\ worker'[w].scan = worker[w].scan
    BY <1>0, <2>1 DEF Execution
  <2> QED
    BY <2>2 DEF Stages
<1>7. CASE UNCHANGED vars \/ Environment \/ \E r \in Requests : Served(r)
  <2>1. UNCHANGED worker
    BY <1>7 DEF vars, Environment, Push, ForceBack,
     ChangeProfile, Served, Arrive,
       DeliverPush, DeliverClose, RequestRescan, RescanOpenPulls, Handle,
       RescanRefused, RescanAllowed, ReadLatest, LookupDuplicate,
       LookupFresh, CancelFind, CancelPeek, CancelRemove,
       CancelRemoveThrows, CancelMark, ReadBase, CreateScan,
       CreateConflict, AddJob, AddThrows, UndoCreate, ApiCrash
  <2> QED
    BY <1>1, <2>1
<1> QED
  BY <1>3, <1>4, <1>5, <1>6, <1>7 DEF Next, Served

LEMMA InitStage == Init => StageInv
  BY DEF Init, StageInv, NoExecution, Scanning, Finishing

LEMMA StepStage ==
  ASSUME TypeInv, SafetyInv, StageInv, [Next]_vars
  PROVE  StageInv'
<1>0. status \in [ScanIds -> Statuses]
  BY DEF TypeInv, TypeOK
<1>1. ASSUME NEW w \in Workers, worker[w].pc # "idle"
      PROVE  /\ worker[w].scan \in ScanIds
             /\ ~\E r \in Requests : CreateScan(r)
                                     /\ worker[w].scan = created + 1
  <2>1. worker[w].scan <= created /\ created \in Nat
        /\ worker[w].scan \in ScanIds
    BY <1>1 DEF TypeInv, TypeOK, ExecutionOK, SafetyInv, RowsExist, ScanIds
  <2> QED
    BY <2>1 DEF ScanIds
<1>2. ASSUME NEW w \in Workers, worker'[w].pc \in Scanning
      PROVE  status'[worker'[w].scan] # "QUEUED"
  <2>1. /\ worker'[w].scan = worker[w].scan
        /\ worker[w].pc \in Scanning \/ Claim(w)
    BY <1>2, StagesMove DEF Stages
  <2>2. worker[w].pc # "idle"
    BY <2>1 DEF Scanning, Claim
  <2>3. CASE worker[w].pc \in Scanning
    BY <1>1, <2>1, <2>2, <2>3, PendingMoves DEF StageInv
  <2>4. CASE Claim(w)
    <3>1. PICK s \in ScanIds : s = worker[w].scan
      BY <1>1, <2>2
    <3>2. status' = [status EXCEPT ![s] = "RUNNING"]
      BY <2>4, <3>1 DEF Claim
    <3> QED
      BY <1>0, <2>1, <3>1, <3>2
  <2> QED
    BY <2>1, <2>3, <2>4
<1>3. ASSUME NEW w \in Workers, worker'[w].pc \in Finishing
      PROVE  status'[worker'[w].scan] \notin InFlight
  <2>1. /\ worker'[w].scan = worker[w].scan
        /\ \/ worker[w].pc \in Finishing
           \/ Persist(w) \/ SkipNotRunnable(w) \/ DiscardResult(w)
    BY <1>3, StagesMove DEF Stages
  <2>2. worker[w].pc # "idle"
    BY <2>1 DEF Finishing, Persist, SkipNotRunnable, DiscardResult
  <2>3. PICK s \in ScanIds : s = worker[w].scan
    BY <1>1, <2>2
  <2>4. CASE Persist(w)
    <3>1. status' = [status EXCEPT ![s] = "DONE"]
      BY <2>3, <2>4 DEF Persist
    <3> QED
      BY <1>0, <2>1, <2>3, <3>1 DEF InFlight
  <2>5. CASE ~Persist(w)
    <3>1. status[s] \notin InFlight
      BY <2>1, <2>3, <2>5 DEF StageInv, Scanning, SkipNotRunnable,
         Claimable, DiscardResult, MayPersist, InFlight
    <3> QED
      BY <1>1, <2>1, <2>2, <2>3, <3>1, PendingMoves
  <2> QED
    BY <2>4, <2>5
<1> QED
  BY <1>2, <1>3 DEF StageInv

(* What settles a scan: InFlightHasWork, for one scan.                     *)
FailingOf(s) ==
    \E w \in Workers : worker[w].pc = "onFailed" /\ worker[w].scan = s
RequestOf(s) ==
    \E r \in Requests :
        \/ req[r].pc \in {"add", "undo"} /\ req[r].cur = s
        \/ req[r].pc \in {"peek", "remove"} /\ s \in req[r].found
HasWork(s) == JobIsLive(s) \/ FailingOf(s) \/ RequestOf(s)

LEMMA ServedWork ==
  ASSUME OneAtATime, ~ApiMayCrash, TypeInv, TurnInv, InFlightHasWork,
         NEW r \in Requests, Served(r),
         NEW s \in ScanIds, s \in Pending, s \in Pending'
  PROVE  HasWork(s)'
<1>0. /\ req \in [Requests -> Request] /\ req[r] \in Request
      /\ job \in [ScanIds -> Job] /\ status \in [ScanIds -> Statuses]
  BY DEF TypeInv, TypeOK
<1>1. HasWork(s)
  BY DEF InFlightHasWork, HasWork, FailingOf, RequestOf, Pending
<1>2. UNCHANGED worker
  BY DEF Served, Arrive, DeliverPush, DeliverClose, RequestRescan,
     RescanOpenPulls, Handle, RescanRefused, RescanAllowed, ReadLatest,
     LookupDuplicate, LookupFresh, CancelFind, CancelPeek, CancelRemove,
     CancelRemoveThrows, CancelMark, ReadBase, CreateScan, CreateConflict,
     AddJob, AddThrows, UndoCreate, ApiCrash
<1>3. FailingOf(s) => FailingOf(s)'
  BY <1>2 DEF FailingOf
<1>4. RequestOf(s) =>
         \/ req[r].pc \in {"add", "undo"} /\ req[r].cur = s
         \/ req[r].pc \in {"peek", "remove"} /\ s \in req[r].found
  BY DEF RequestOf, OneAtATime
<1>5. CASE CancelRemove(r)
  <2>1. PICK q : /\ q = [req[r] EXCEPT !.pc = "peek",
                            !.todo = req[r].todo \ {req[r].cur},
                            !.cur = NoScan]
                 /\ req'[r] = q
    BY <1>0, <1>5 DEF CancelRemove
  <2>2. q.pc = "peek" /\ q.found = req[r].found /\ req[r].pc = "remove"
    BY <1>0, <1>5, <2>1 DEF CancelRemove, Request
  <2>3. s \in req[r].found
    BY <2>2 DEF TurnInv, CancelInv, Cancelling
  <2> QED
    BY <2>1, <2>2, <2>3 DEF HasWork, RequestOf
<1>6. CASE AddJob(r)
  <2>1. PICK k \in ScanIds : k = req[r].cur
    BY <1>6 DEF TypeInv, RequestOK, AddJob
  <2>2. /\ job' = [job EXCEPT ![k] = [NoJob EXCEPT !.state = "waiting"]]
        /\ req[r].pc = "add"
    BY <1>6, <2>1 DEF AddJob
  <2>3. CASE s = k
    BY <1>0, <2>2, <2>3 DEF HasWork, JobIsLive, NoJob
  <2>4. CASE s # k
    <3>1. job'[s] = job[s] /\ ~RequestOf(s)
      BY <1>0, <1>4, <2>1, <2>2, <2>4
    <3> QED
      BY <1>1, <1>3, <3>1 DEF HasWork, JobIsLive
  <2> QED
    BY <2>3, <2>4
<1>7. CASE ~CancelRemove(r) /\ ~AddJob(r)
  <2>1. UNCHANGED job
    BY <1>7 DEF Served, Arrive, DeliverPush, DeliverClose, RequestRescan,
       RescanOpenPulls, Handle, RescanRefused, RescanAllowed, ReadLatest,
       LookupDuplicate, LookupFresh, CancelFind, CancelPeek,
       CancelRemoveThrows, CancelMark, ReadBase, CreateScan,
       CreateConflict, AddThrows, UndoCreate, ApiCrash
  <2>2. JobIsLive(s) => JobIsLive(s)'
    BY <2>1 DEF JobIsLive
  <2>3. ASSUME RequestOf(s) => RequestOf(s)' PROVE HasWork(s)'
    BY <1>1, <1>3, <2>2, <2>3 DEF HasWork
  <2>4. CASE CancelRemoveThrows(r)
    <3>1. PICK k : k = req[r].cur
      OBVIOUS
    <3>2. job[k].state = "active" /\ req[r].pc = "remove"
      BY <2>4, <3>1 DEF CancelRemoveThrows
    <3>3. s = k
      BY <3>1, <3>2 DEF TurnInv, CancelInv, Cancelling
    <3> QED
      BY <2>2, <3>2, <3>3 DEF HasWork, JobIsLive
  <2>5. CASE CancelMark(r)
    <3>1. s \in req[r].found
      BY <2>5 DEF TurnInv, CancelInv, Cancelling, CancelMark
    <3> QED
      BY <2>5, <3>1 DEF CancelMark, Superseded, Pending, InFlight
  <2>6. CASE UndoCreate(r)
    <3>1. PICK k \in ScanIds : k = req[r].cur
      BY <2>6 DEF TypeInv, RequestOK, UndoCreate
    <3>2. status' = [status EXCEPT ![k] = "FAILED"] /\ req[r].pc = "undo"
      BY <2>6, <3>1 DEF UndoCreate
    <3>3. s # k
      BY <1>0, <3>2 DEF Pending, InFlight
    <3> QED
      BY <1>4, <2>3, <3>1, <3>2, <3>3
  <2>7. CASE AddThrows(r)
    <3>1. PICK q : q = [req[r] EXCEPT !.pc = "undo"] /\ req'[r] = q
      BY <1>0, <2>7 DEF AddThrows
    <3>2. q.pc = "undo" /\ q.cur = req[r].cur /\ req[r].pc = "add"
      BY <1>0, <2>7, <3>1 DEF AddThrows, Request
    <3>3. RequestOf(s) => RequestOf(s)'
      BY <1>4, <3>1, <3>2 DEF RequestOf
    <3> QED
      BY <2>3, <3>3
  <2>8. ASSUME NEW k \in ScanIds, CancelPeek(r, k) PROVE HasWork(s)'
    <3>1. PICK q : /\ req'[r] = q
                   /\ \/ q = [req[r] EXCEPT !.pc = "remove", !.cur = k]
                      \/ q = [req[r] EXCEPT !.todo = req[r].todo \ {k}]
      BY <1>0, <2>8 DEF CancelPeek
    <3>2. /\ req[r].pc = "peek" /\ q.pc \in {"peek", "remove"}
          /\ q.found = req[r].found
      BY <1>0, <2>8, <3>1 DEF CancelPeek, Request
    <3>3. RequestOf(s) => RequestOf(s)'
      BY <1>4, <3>1, <3>2 DEF RequestOf
    <3> QED
      BY <2>3, <3>3
  <2>9. CASE req[r].pc \notin {"add", "undo", "peek", "remove"}
    BY <1>4, <2>3, <2>9
  <2>10. CASE \E k \in ScanIds : CancelPeek(r, k)
    BY <2>8, <2>10
  <2> QED
    BY <1>7, <2>4, <2>5, <2>6, <2>7, <2>9, <2>10
       DEF Served, Arrive, DeliverPush, DeliverClose, RequestRescan,
           RescanOpenPulls, MayStart, Handle, RescanRefused, RescanAllowed,
           ReadLatest, LookupDuplicate, LookupFresh, CancelFind, ReadBase,
           CreateScan, CreateConflict, ApiCrash
<1> QED
  BY <1>5, <1>6, <1>7

LEMMA ExecuteWork ==
  ASSUME ~DbMayFail, TypeInv, SafetyInv, StageInv, InFlightHasWork,
         NEW w \in Workers, Execute(w),
         NEW s \in ScanIds, s \in Pending, s \in Pending'
  PROVE  HasWork(s)'
<1>0. /\ worker \in [Workers -> Execution] /\ worker[w] \in Execution
      /\ job \in [ScanIds -> Job] /\ status \in [ScanIds -> Statuses]
  BY DEF TypeInv, TypeOK
<1>1. HasWork(s)
  BY DEF InFlightHasWork, HasWork, FailingOf, RequestOf, Pending
<1>2. PICK k \in ScanIds : k = worker[w].scan
  BY ExecuteFrame
<1>3. UNCHANGED req
  BY DEF Execute, Claim, SkipNotRunnable, FetchCompare, FetchForcePush,
     FetchFull, Persist, DiscardResult, DecideAi, Complete, Fail, OnFailed,
     OnFailedThrows
<1>4. RequestOf(s) => RequestOf(s)'
  BY <1>3 DEF RequestOf
<1>5. ~OnFailedThrows(w)
  BY DEF OnFailedThrows
<1>6. ASSUME worker[w].pc # "onFailed" \/ s # k
      PROVE  FailingOf(s) => FailingOf(s)'
  <2> SUFFICES ASSUME NEW v \in Workers, worker[v].pc = "onFailed",
                      worker[v].scan = s
               PROVE  FailingOf(s)'
    BY DEF FailingOf
  <2>1. v # w
    BY <1>2, <1>6
  <2>2. worker'[v] = worker[v]
    BY <1>0, <2>1 DEF Execute, Claim, SkipNotRunnable, FetchCompare,
       FetchForcePush, FetchFull, Persist, DiscardResult, DecideAi, Complete,
       Fail, OnFailed, OnFailedThrows, Goto
  <2> QED
    BY <2>2 DEF FailingOf
<1>7. CASE OnFailed(w)
  <2>1. s # k
    <3>1. MaySettle(k) => status' = [status EXCEPT ![k] = "FAILED"]
      BY <1>2, <1>7 DEF OnFailed
    <3>2. ~MaySettle(k) => k \notin Pending
      BY DEF MaySettle, Pending
    <3> QED
      BY <1>0, <3>1, <3>2 DEF Pending, InFlight
  <2>2. JobIsLive(s) => JobIsLive(s)'
    BY <1>7 DEF OnFailed, JobIsLive
  <2> QED
    BY <1>1, <1>4, <1>6, <2>1, <2>2 DEF HasWork
<1>8. CASE Complete(w)
  <2>1. k \notin Pending
    BY <1>2, <1>8 DEF Complete, StageInv, Finishing, Pending
  <2>2. job'[s] = job[s]
    BY <1>0, <1>2, <1>8, <2>1 DEF Complete
  <2> QED
    BY <1>1, <1>2, <1>4, <1>6, <2>1, <2>2 DEF HasWork, JobIsLive
<1>9. ASSUME NEW unrecoverable \in BOOLEAN, Fail(w, unrecoverable)
      PROVE  HasWork(s)'
  <2>1. worker[w].pc # "onFailed"
    BY <1>9 DEF Fail, MayFail, Refusable
  <2>2. FailingOf(s) => FailingOf(s)'
    BY <1>6, <2>1
  <2>3. ASSUME JobIsLive(s) PROVE HasWork(s)'
    <3>1. CASE worker[w].lock /\ s = k
      <4>1. PICK made : made = job[k].made + 1
        OBVIOUS
      <4>2. PICK state \in {"failed", "delayed"} :
               state = IF IsFinal(made, unrecoverable) THEN "failed"
                       ELSE "delayed"
        OBVIOUS
      <4>3. job' = [job EXCEPT ![k] = [job[k] EXCEPT !.made = made,
                                                     !.state = state]]
        BY <1>2, <1>9, <3>1, <4>1, <4>2 DEF Fail
      <4>4. job'[k].state = state
        BY <1>0, <4>3 DEF Job
      <4>5. CASE state = "delayed"
        BY <3>1, <4>4, <4>5 DEF HasWork, JobIsLive
      <4>6. CASE state = "failed"
        <5>1. PICK x : x = [worker[w] EXCEPT !.pc = "onFailed"]
          OBVIOUS
        <5>2. worker'[w] = x
          BY <1>0, <1>2, <1>9, <3>1, <4>1, <4>2, <4>6, <5>1 DEF Fail
        <5>3. x.pc = "onFailed" /\ x.scan = k
          BY <1>0, <1>2, <5>1 DEF Execution
        <5> QED
          BY <3>1, <5>2, <5>3 DEF HasWork, FailingOf
      <4> QED
        BY <4>5, <4>6
    <3>2. CASE ~(worker[w].lock /\ s = k)
      <4>1. job'[s] = job[s]
        BY <1>0, <1>2, <1>9, <3>2 DEF Fail
      <4> QED
        BY <2>3, <4>1 DEF HasWork, JobIsLive
    <3> QED
      BY <3>1, <3>2
  <2> QED
    BY <1>1, <1>4, <2>2, <2>3 DEF HasWork
<1>10. CASE \/ Claim(w) \/ SkipNotRunnable(w) \/ FetchCompare(w)
            \/ FetchForcePush(w) \/ FetchFull(w) \/ Persist(w)
            \/ DiscardResult(w) \/ DecideAi(w)
  <2>1. worker[w].pc # "onFailed" /\ UNCHANGED job
    BY <1>10 DEF Claim, SkipNotRunnable, FetchCompare, FetchForcePush,
       FetchFull, Persist, DiscardResult, DecideAi
  <2> QED
    BY <1>1, <1>4, <1>6, <2>1 DEF HasWork, JobIsLive
<1> QED
  BY <1>5, <1>7, <1>8, <1>9, <1>10 DEF Execute

LEMMA QueueWork ==
  ASSUME TypeInv, InFlightHasWork,
         \/ UNCHANGED vars \/ Environment
         \/ \E w \in Workers : WorkerCrash(w)
         \/ \E w \in Workers, t \in ScanIds : Pick(w, t)
         \/ \E t \in ScanIds : Stalled(t),
         NEW s \in ScanIds, s \in Pending
  PROVE  HasWork(s)'
<1>0. /\ worker \in [Workers -> Execution] /\ job \in [ScanIds -> Job]
      /\ \A v \in Workers : worker[v] \in Execution
  BY DEF TypeInv, TypeOK
<1>1. HasWork(s)
  BY DEF InFlightHasWork, HasWork, FailingOf, RequestOf, Pending
<1>2. UNCHANGED req
  BY DEF vars, Environment, Push, ForceBack,
     ChangeProfile, WorkerCrash, Pick, Stalled
<1>3. RequestOf(s) => RequestOf(s)'
  BY <1>2 DEF RequestOf
<1>4. JobIsLive(s) => JobIsLive(s)'
  <2>1. CASE UNCHANGED job
    BY <2>1 DEF JobIsLive
  <2>2. ASSUME NEW w \in Workers, NEW t \in ScanIds, Pick(w, t)
        PROVE  JobIsLive(s) => JobIsLive(s)'
    <3>1. PICK x : x = [job[t] EXCEPT !.state = "active"]
      OBVIOUS
    <3>2. job' = [job EXCEPT ![t] = x] /\ x.state = "active"
      BY <1>0, <2>2, <3>1 DEF Pick, Job
    <3> QED
      BY <1>0, <3>2 DEF JobIsLive
  <2>3. ASSUME NEW t \in ScanIds, Stalled(t)
        PROVE  JobIsLive(s) => JobIsLive(s)'
    <3>1. PICK x : x = [job[t] EXCEPT !.state = "waiting",
                                      !.stalls = job[t].stalls + 1]
      OBVIOUS
    <3>2. job' = [job EXCEPT ![t] = x]
      BY <2>3, <3>1 DEF Stalled
    <3>3. x.state = "waiting"
      BY <1>0, <3>1 DEF Job
    <3> QED
      BY <1>0, <3>2, <3>3 DEF JobIsLive
  <2> QED
    BY <2>1, <2>2, <2>3 DEF vars, Environment, Push, ForceBack,
     ChangeProfile,
       WorkerCrash
<1>5. FailingOf(s) => FailingOf(s)'
  <2> SUFFICES ASSUME NEW v \in Workers, worker[v].pc = "onFailed",
                      worker[v].scan = s
               PROVE  FailingOf(s)'
    BY DEF FailingOf
  <2>1. \/ worker'[v] = worker[v]
        \/ worker'[v] = [worker[v] EXCEPT !.lock = FALSE]
    BY <1>0 DEF vars, Environment, Push, ForceBack,
     ChangeProfile, WorkerCrash, Pick,
       Stalled
  <2>2. worker'[v].pc = "onFailed" /\ worker'[v].scan = s
    BY <1>0, <2>1 DEF Execution
  <2> QED
    BY <2>2 DEF FailingOf
<1> QED
  BY <1>1, <1>3, <1>4, <1>5 DEF HasWork

LEMMA StepWork ==
  ASSUME OneAtATime, ~ApiMayCrash, ~DbMayFail,
         TypeInv, SafetyInv, TurnInv, StageInv, InFlightHasWork, [Next]_vars
  PROVE  InFlightHasWork'
<1> SUFFICES ASSUME NEW s \in ScanIds, s \in Pending' PROVE HasWork(s)'
  BY DEF InFlightHasWork, HasWork, FailingOf, RequestOf, Pending
<1>1. ASSUME NEW r \in Requests, CreateScan(r), s = created + 1
      PROVE  HasWork(s)'
  <2>1. PICK q : /\ q = [NoRequest EXCEPT !.pc = "add", !.kind = req[r].kind,
                                          !.cur = created + 1]
                 /\ req' = [req EXCEPT ![r] = q]
    BY <1>1 DEF CreateScan
  <2>2. q.pc = "add" /\ q.cur = s
    BY <1>1, <2>1 DEF NoRequest
  <2>3. req'[r] = q
    BY <2>1 DEF TypeInv, TypeOK
  <2> QED
    BY <2>2, <2>3 DEF HasWork, RequestOf
<1>2. CASE s \in Pending
  BY <1>2, ServedWork, ExecuteWork, QueueWork DEF Next, Served
<1> QED
  BY <1>1, <1>2, PendingMoves DEF Pending

(* With one request at a time, and while no API process dies and the write *)
(* of a failure succeeds, a scan shown as in flight is never left alone:   *)
(* it has a live job, the failure handler of its last attempt, or a        *)
(* request that is about to queue, fail or supersede it.                   *)
THEOREM ScansInFlightHaveWork ==
  ASSUME OneAtATime, ~ApiMayCrash, ~DbMayFail
  PROVE  Spec => []InFlightHasWork
<1>1. Init => StageInv /\ InFlightHasWork
  BY InitStage DEF Init, InFlightHasWork, InFlight
<1>2. TypeInv /\ SafetyInv /\ TurnInv /\ StageInv /\ InFlightHasWork
      /\ [Next]_vars => StageInv' /\ InFlightHasWork'
  BY StepStage, StepWork
<1> QED
  BY <1>1, <1>2, TurnHolds, PTL DEF Spec

=============================================================================
