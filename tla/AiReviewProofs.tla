--------------------------- MODULE AiReviewProofs ---------------------------
(***************************************************************************)
(* Proofs about AiReview: what its runs show on small instances, for any   *)
(* number of decisions, workers, scans, models, languages, runs, attempts  *)
(* and stalls.                                                             *)
(***************************************************************************)
EXTENDS AiReview, FiniteSetTheorems, TLAPS

USE BoundsAssumption, SlotsAssumption, SwitchesAssumption

-----------------------------------------------------------------------------
(* Decisions and workers know the scan they are about; a decision that has *)
(* claimed a run is the only one to know it until its job is there.        *)
RefsInv ==
    /\ \A c \in Callers :
          /\ caller[c].pc # "idle" => caller[c].scan \in ScanIds
          /\ caller[c].pc \in {"base", "copyBase"} =>
                caller[c].scan \in Unchanged
          /\ caller[c].pc = "settle" /\ caller[c].status \in InFlight =>
                caller[c].scan \in Unchanged
    /\ \A w \in Workers : worker[w].pc # "idle" =>
          worker[w].run \in RunIds /\ job[worker[w].run].state # "none"
    /\ \A j \in RunIds : job[j].state # "none" =>
          job[j].scan \in ScanIds /\ j <= runs

Adding(c) == caller[c].pc \in {"add", "undo"}

OwnRunInv ==
    /\ \A c \in Callers : Adding(c) =>
          caller[c].run \in 1..runs /\ job[caller[c].run].state = "none"
    /\ \A c, d \in Callers :
          Adding(c) /\ Adding(d) /\ caller[c].run = caller[d].run => c = d

TypeInv == TypeOK /\ RefsInv /\ OwnRunInv

LEMMA Blanks ==
  /\ NoIdentity \in Identity /\ NoAi \in AiRow /\ NoJob \in Job
  /\ NoCaller \in Caller /\ NoWorker \in Worker /\ NoReaper \in Reaper
<1>1. NoIdentity \in Identity
  BY DEF NoIdentity, Identity
<1>2. NoAi \in AiRow
  BY <1>1 DEF NoAi, AiRow, AiStatuses
<1>3. NoJob \in Job
  BY DEF NoJob, Job, NoScan
<1>4. NoCaller \in Caller
  BY <1>1, <1>2 DEF NoCaller, Caller, AiStatuses, NoScan, NoRun
<1>5. NoWorker \in Worker
  BY <1>1 DEF NoWorker, Worker, NoRun
<1>6. NoReaper \in Reaper
  BY DEF NoReaper, Reaper
<1> QED
  BY <1>1, <1>2, <1>3, <1>4, <1>5, <1>6

LEMMA RowFields ==
  ASSUME TypeInv, NEW s \in ScanIds
  PROVE  /\ ai[s] \in AiRow /\ ai[s].id \in Identity
         /\ ai[s].by \in Identity /\ ai[s].parts \in SUBSET Identity
         /\ ai[s].status \in AiStatuses /\ ai[s].id.model \in 0..NumModels
  BY DEF TypeInv, TypeOK, AiRow, Identity

LEMMA CallerFields ==
  ASSUME TypeInv, NEW c \in Callers
  PROVE  /\ caller[c] \in Caller /\ caller[c].got \in AiRow
         /\ caller[c].want \in Identity /\ caller[c].status \in AiStatuses
         /\ caller[c].merge \in BOOLEAN
         /\ caller[c].got.id \in Identity /\ caller[c].got.by \in Identity
         /\ caller[c].got.parts \in SUBSET Identity
         /\ caller[c].pc # "idle" => caller[c].scan \in ScanIds
<1>1. caller[c] \in Caller
  BY DEF TypeInv, TypeOK
<1>2. caller[c].got \in AiRow
  BY <1>1 DEF Caller
<1>3. /\ caller[c].got.id \in Identity /\ caller[c].got.by \in Identity
      /\ caller[c].got.parts \in SUBSET Identity
  BY <1>2 DEF AiRow
<1> QED
  BY <1>1, <1>2, <1>3 DEF Caller, TypeInv, RefsInv

LEMMA WorkerFields ==
  ASSUME TypeInv, NEW w \in Workers
  PROVE  /\ worker[w] \in Worker /\ worker[w].using \in Identity
         /\ worker[w].claimed \in 0..NumModels
         /\ worker[w].pc # "idle" =>
               /\ worker[w].run \in RunIds /\ ScanOf(w) \in ScanIds
               /\ job[worker[w].run] \in Job
  BY DEF TypeInv, TypeOK, Worker, RefsInv, ScanOf

LEMMA SettingsFields ==
  ASSUME TypeInv
  PROVE  /\ settings.model \in 0..NumModels
         /\ settings.locale \in 1..NumLocales
         /\ AsIdentity(settings) \in Identity
  BY DEF TypeInv, TypeOK, Settings, AsIdentity, Identity

-----------------------------------------------------------------------------
(* What becomes of a review: only a few steps touch it, and each finds it  *)
(* as it must.                                                             *)
Kept(s, x) == /\ x.status = ai[s].status
              /\ x.id = ai[s].id /\ x.by = ai[s].by
              /\ x.parts = ai[s].parts
              /\ x.tokens \in {ai[s].tokens, "failure"}
              /\ ai[s].raw => x.raw

ClaimsRow(s, x) ==
    \E w \in Workers :
        /\ worker[w].pc = "claim" /\ ScanOf(w) = s /\ ~NotInFlight(s)
        /\ x.status = "RUNNING" /\ x.by = ai[s].by /\ x.parts = ai[s].parts
        /\ worker'[w].pc = "load"

EndsRow(s, x) ==
    \E w \in Workers :
        /\ worker[w].pc \in {"provider", "persist", "onFailed"}
        /\ ScanOf(w) = s /\ ~NotInFlight(s) /\ x.status \notin InFlight
        /\ worker[w].pc # "onFailed" => ai[s].status = "RUNNING"
        /\ worker'[w].pc \in {"notify", "usage", "idle"}

ReapsRow(s, x) ==
    /\ reaper.pc = "reap" /\ s \in reaper.found /\ ~NotInFlight(s)
    /\ x.status = "FAILED" /\ reaper' # reaper

DecidesRow(s, x) ==
    \E c \in Callers :
        /\ caller[c].scan = s /\ caller'[c].pc # caller[c].pc
        /\ \/ /\ caller[c].pc \in {"settle", "copyBase", "copyCache"}
              /\ NotInFlight(s) /\ caller'[c].pc = "idle"
              /\ x.status \in InFlight => s \in Unchanged
           \/ /\ caller[c].pc = "claim" /\ NotInFlight(s)
              /\ x.status = "QUEUED" /\ caller'[c].pc = "add"
           \/ /\ caller[c].pc = "undo" /\ x.status = "FAILED"
              /\ caller'[c].pc = "idle"

AiMove ==
    \/ ai' = ai
    \/ \E s \in ScanIds, x \in AiRow :
          /\ ai' = [ai EXCEPT ![s] = x]
          /\ \/ Kept(s, x) \/ ClaimsRow(s, x) \/ EndsRow(s, x)
             \/ ReapsRow(s, x) \/ DecidesRow(s, x)

LEMMA WorkerAi ==
  ASSUME TypeInv, NEW w \in Workers, Execute(w)
  PROVE  AiMove
<1> DEFINE s == ScanOf(w)
<1>0. /\ ai \in [ScanIds -> AiRow] /\ worker \in [Workers -> Worker]
  BY DEF TypeInv, TypeOK
<1>1. CASE Claim(w)
  <2>1. s \in ScanIds
    BY <1>1, WorkerFields DEF Claim
  <2>2. PICK x : x = [ai[s] EXCEPT !.status = "RUNNING", !.old = FALSE]
    OBVIOUS
  <2>3. ai' = [ai EXCEPT ![s] = x]
    BY <1>1, <2>2 DEF Claim
  <2>4. /\ x \in AiRow /\ x.status = "RUNNING" /\ x.by = ai[s].by
        /\ x.parts = ai[s].parts
    BY <1>0, <2>1, <2>2 DEF AiRow, AiStatuses
  <2>5. worker'[w].pc = "load" /\ worker[w].pc = "claim" /\ ~NotInFlight(s)
    BY <1>0, <1>1 DEF Claim, Goto, Worker, Runnable, NotInFlight
  <2> QED
    BY <2>1, <2>3, <2>4, <2>5 DEF AiMove, ClaimsRow
<1>2. CASE NoProvider(w)
  <2>1. CASE ai[s].status = "RUNNING"
    <3>1. s \in ScanIds
      BY <1>2, WorkerFields DEF NoProvider
    <3>2. PICK x : x = [ai[s] EXCEPT !.status = "BLOCKED"]
      OBVIOUS
    <3>3. ai' = [ai EXCEPT ![s] = x]
      BY <1>0, <1>2, <2>1, <3>1, <3>2 DEF NoProvider
    <3>4. x \in AiRow /\ x.status = "BLOCKED"
      BY <1>0, <3>1, <3>2 DEF AiRow, AiStatuses
    <3>5. worker'[w].pc = "notify" /\ worker[w].pc = "provider"
      BY <1>0, <1>2 DEF NoProvider, Goto, Worker
    <3> QED
      BY <2>1, <3>1, <3>3, <3>4, <3>5 DEF AiMove, EndsRow, NotInFlight,
         InFlight
  <2>2. CASE ai[s].status # "RUNNING"
    BY <1>2, <2>2 DEF NoProvider, AiMove
  <2> QED
    BY <2>1, <2>2
<1>3. CASE Persist(w)
  <2>1. s \in ScanIds /\ worker[w].using \in Identity
        /\ job[worker[w].run] \in Job
    BY <1>3, WorkerFields DEF Persist
  <2>2. PICK parts : parts = IF job[worker[w].run].merge
                             THEN ai[s].parts \cup {worker[w].using}
                             ELSE {worker[w].using}
    OBVIOUS
  <2>3. PICK x : x = [ai[s] EXCEPT !.status = "DONE",
                                   !.id = worker[w].using,
                                   !.by = worker[w].using, !.parts = parts,
                                   !.tokens = "answer", !.raw = FALSE]
    OBVIOUS
  <2>4. ai' = [ai EXCEPT ![s] = x]
    BY <1>3, <2>2, <2>3 DEF Persist, Stored
  <2>5. parts \in SUBSET Identity
    BY <2>1, <2>2, RowFields
  <2>6. x \in AiRow /\ x.status = "DONE"
    BY <1>0, <2>1, <2>3, <2>5 DEF AiRow, AiStatuses
  <2>7. /\ worker'[w].pc = "usage" /\ worker[w].pc = "persist"
        /\ ai[s].status = "RUNNING"
    BY <1>0, <1>3 DEF Persist, Goto, Worker, MayStore
  <2> QED
    BY <2>1, <2>4, <2>6, <2>7 DEF AiMove, EndsRow, NotInFlight, InFlight
<1>4. CASE OnFailed(w)
  <2>1. CASE MayGiveUp(s)
    <3>1. s \in ScanIds
      BY <1>4, WorkerFields DEF OnFailed
    <3>2. PICK x : x = [ai[s] EXCEPT !.status = "FAILED"]
      OBVIOUS
    <3>3. ai' = [ai EXCEPT ![s] = x]
      BY <1>0, <1>4, <2>1, <3>1, <3>2 DEF OnFailed
    <3>4. x \in AiRow /\ x.status = "FAILED"
      BY <1>0, <3>1, <3>2 DEF AiRow, AiStatuses
    <3>5. worker'[w].pc = "idle" /\ worker[w].pc = "onFailed"
      BY <1>0, <1>4 DEF OnFailed, NoWorker
    <3> QED
      BY <2>1, <3>1, <3>3, <3>4, <3>5
         DEF AiMove, EndsRow, MayGiveUp, NotInFlight, InFlight
  <2>2. CASE ~MayGiveUp(s)
    BY <1>4, <2>2 DEF OnFailed, AiMove
  <2> QED
    BY <2>1, <2>2
<1>6. CASE ShowUsage(w) \/ KeepRaw(w)
  <2>1. s \in ScanIds
    BY <1>6, WorkerFields DEF ShowUsage, KeepRaw
  <2>2. CASE ai' = ai
    BY <2>2 DEF AiMove
  <2>3. CASE ai' # ai
    <3>1. PICK x : /\ ai' = [ai EXCEPT ![s] = x]
                   /\ \/ x = [ai[s] EXCEPT !.tokens = "failure"]
                      \/ x = [ai[s] EXCEPT !.raw = TRUE]
      BY <1>6, <2>3 DEF ShowUsage, KeepRaw
    <3>2. x \in AiRow /\ Kept(s, x)
      BY <1>0, <2>1, <3>1 DEF AiRow, Kept
    <3> QED
      BY <2>1, <3>1, <3>2 DEF AiMove
  <2> QED
    BY <2>2, <2>3
<1>5. ASSUME ~(Claim(w) \/ NoProvider(w) \/ Persist(w) \/ OnFailed(w)
               \/ ShowUsage(w) \/ KeepRaw(w))
      PROVE  ai' = ai
  BY <1>5 DEF Execute, SkipNotRunnable, Load, UseProvider, CallAnswered,
     CallFailed, Bill, Discard, RecordUsage, RememberInCache, Complete, Fail,
     OnFailedThrows, dbVars
<1> QED
  BY <1>1, <1>2, <1>3, <1>4, <1>5, <1>6 DEF AiMove

LEMMA CallerAi ==
  ASSUME TypeInv, NEW c \in Callers, Handle(c) \/ CallerCrash(c)
  PROVE  AiMove
<1> DEFINE s == caller[c].scan
<1>0. /\ ai \in [ScanIds -> AiRow] /\ caller \in [Callers -> Caller]
  BY DEF TypeInv, TypeOK
<1>1. CASE Settle(c)
  <2>1. CASE MaySettle(s)
    <3>1. s \in ScanIds /\ caller[c].status \in AiStatuses
      BY <1>1, CallerFields DEF Settle
    <3>2. PICK x : x = [ai[s] EXCEPT !.status = caller[c].status]
      OBVIOUS
    <3>3. ai' = [ai EXCEPT ![s] = x]
      BY <1>0, <1>1, <2>1, <3>1, <3>2 DEF Settle
    <3>4. x \in AiRow /\ x.status = caller[c].status
      BY <1>0, <3>1, <3>2 DEF AiRow
    <3>5. caller'[c].pc = "idle" /\ caller[c].pc = "settle"
      BY <1>0, <1>1 DEF Settle, NoCaller
    <3>6. x.status \in InFlight => s \in Unchanged
      BY <3>4, <3>5 DEF TypeInv, RefsInv
    <3> QED
      BY <2>1, <3>1, <3>3, <3>4, <3>5, <3>6 DEF AiMove, DecidesRow, MaySettle
  <2>2. CASE ~MaySettle(s)
    BY <1>1, <2>2 DEF Settle, AiMove
  <2> QED
    BY <2>1, <2>2
<1>2. CASE CopyBase(c)
  <2>1. CASE NotInFlight(s)
    <3>1. s \in ScanIds
      BY <1>2, CallerFields DEF CopyBase
    <3>2. PICK x : x = [ai[s] EXCEPT !.status = "CACHED",
                                     !.id = caller[c].got.id,
                                     !.by = caller[c].got.by,
                                     !.tokens = "none"]
      OBVIOUS
    <3>3. ai' = [ai EXCEPT ![s] = x]
      BY <1>2, <2>1, <3>2 DEF CopyBase
    <3>4. x \in AiRow /\ x.status = "CACHED"
      BY <1>0, <3>1, <3>2, CallerFields DEF AiRow, AiStatuses
    <3>5. caller'[c].pc = "idle" /\ caller[c].pc = "copyBase"
      BY <1>0, <1>2 DEF CopyBase, NoCaller
    <3> QED
      BY <2>1, <3>1, <3>3, <3>4, <3>5 DEF AiMove, DecidesRow, InFlight
  <2>2. CASE ~NotInFlight(s)
    BY <1>2, <2>2 DEF CopyBase, AiMove
  <2> QED
    BY <2>1, <2>2
<1>3. CASE CopyCache(c)
  <2>1. CASE NotInFlight(s)
    <3>1. s \in ScanIds
      BY <1>3, CallerFields DEF CopyCache
    <3>2. PICK parts : parts = IF caller[c].merge
                               THEN ai[s].parts \cup caller[c].got.parts
                               ELSE caller[c].got.parts
      OBVIOUS
    <3>3. PICK x : x = [ai[s] EXCEPT !.status = "CACHED",
                                     !.id = caller[c].got.id,
                                     !.by = caller[c].got.by, !.parts = parts,
                                     !.tokens = "none", !.raw = FALSE]
      OBVIOUS
    <3>4. ai' = [ai EXCEPT ![s] = x]
      BY <1>3, <2>1, <3>2, <3>3 DEF CopyCache, Stored
    <3>5. parts \in SUBSET Identity
      BY <3>1, <3>2, CallerFields, RowFields
    <3>6. x \in AiRow /\ x.status = "CACHED"
      BY <1>0, <3>1, <3>3, <3>5, CallerFields DEF AiRow, AiStatuses
    <3>7. caller'[c].pc = "idle" /\ caller[c].pc = "copyCache"
      BY <1>0, <1>3, <2>1 DEF CopyCache, NoCaller
    <3> QED
      BY <2>1, <3>1, <3>4, <3>6, <3>7 DEF AiMove, DecidesRow, InFlight
  <2>2. CASE ~NotInFlight(s)
    BY <1>3, <2>2 DEF CopyCache, AiMove
  <2> QED
    BY <2>1, <2>2
<1>4. CASE ClaimRun(c)
  <2>1. s \in ScanIds
    BY <1>4, CallerFields DEF ClaimRun
  <2>2. PICK x : x = [ai[s] EXCEPT !.status = "QUEUED",
                                   !.id = caller[c].want]
    OBVIOUS
  <2>3. ai' = [ai EXCEPT ![s] = x]
    BY <1>4, <2>2 DEF ClaimRun
  <2>4. x \in AiRow /\ x.status = "QUEUED"
    BY <1>0, <2>1, <2>2, CallerFields DEF AiRow, AiStatuses
  <2>5. PICK y : /\ y = [caller[c] EXCEPT !.pc = "add", !.run = runs + 1]
                 /\ caller'[c] = y
    BY <1>0, <1>4 DEF ClaimRun
  <2>6. y.pc = "add"
    BY <1>0, <2>5 DEF Caller
  <2>7. /\ caller'[c].pc = "add" /\ caller[c].pc = "claim"
        /\ NotInFlight(s)
    BY <1>4, <2>5, <2>6 DEF ClaimRun, MayClaim
  <2> QED
    BY <2>1, <2>3, <2>4, <2>7 DEF AiMove, DecidesRow
<1>5. CASE UndoClaim(c)
  <2>1. s \in ScanIds
    BY <1>5, CallerFields DEF UndoClaim
  <2>2. PICK x : x = [ai[s] EXCEPT !.status = "FAILED"]
    OBVIOUS
  <2>3. ai' = [ai EXCEPT ![s] = x]
    BY <1>0, <1>5, <2>1, <2>2 DEF UndoClaim
  <2>4. x \in AiRow /\ x.status = "FAILED"
    BY <1>0, <2>1, <2>2 DEF AiRow, AiStatuses
  <2>5. caller'[c].pc = "idle" /\ caller[c].pc = "undo"
    BY <1>0, <1>5 DEF UndoClaim, NoCaller
  <2> QED
    BY <2>1, <2>3, <2>4, <2>5 DEF AiMove, DecidesRow
<1>6. ASSUME ~(\/ Settle(c) \/ CopyBase(c) \/ CopyCache(c) \/ ClaimRun(c)
               \/ UndoClaim(c))
      PROVE  ai' = ai
  BY <1>6 DEF Handle, Decide, ReadBase, CheckBudget, CacheHit, CacheMiss,
     AlreadyClaimed, AddJob, AddThrows, CallerCrash, dbVars
<1> QED
  BY <1>1, <1>2, <1>3, <1>4, <1>5, <1>6 DEF AiMove

LEMMA AiMoves ==
  ASSUME TypeInv, [Next]_vars
  PROVE  AiMove
<1>0. ai \in [ScanIds -> AiRow]
  BY DEF TypeInv, TypeOK
<1>1. ASSUME NEW s \in ScanIds, NEW c \in Callers, FinishStatic(c, s)
      PROVE  AiMove
  <2>1. PICK x : x = [ai[s] EXCEPT !.static = "done"]
    OBVIOUS
  <2>2. x \in AiRow /\ Kept(s, x) /\ ai' = [ai EXCEPT ![s] = x]
    BY <1>0, <1>1, <2>1 DEF FinishStatic, AiRow, Kept
  <2> QED
    BY <2>2 DEF AiMove
<1>2. ASSUME NEW s \in ScanIds, GraceElapses(s) \/ StartScan(s) PROVE AiMove
  <2>1. CASE GraceElapses(s)
    <3>1. PICK x : x = [ai[s] EXCEPT !.old = TRUE]
      OBVIOUS
    <3>2. x \in AiRow /\ Kept(s, x) /\ ai' = [ai EXCEPT ![s] = x]
      BY <1>0, <2>1, <3>1 DEF GraceElapses, AiRow, Kept
    <3> QED
      BY <3>2 DEF AiMove
  <2>2. CASE StartScan(s)
    <3>1. PICK x : x = [ai[s] EXCEPT !.static = "running"]
      OBVIOUS
    <3>2. x \in AiRow /\ Kept(s, x) /\ ai' = [ai EXCEPT ![s] = x]
      BY <1>0, <2>2, <3>1 DEF StartScan, AiRow, Kept
    <3> QED
      BY <3>2 DEF AiMove
  <2> QED
    BY <1>2, <2>1, <2>2
<1>3. ASSUME NEW s \in ScanIds, Reap(s) PROVE AiMove
  <2>1. CASE NotInFlight(s)
    BY <1>3, <2>1 DEF Reap, AiMove
  <2>2. CASE ~NotInFlight(s)
    <3>1. PICK x : x = [ai[s] EXCEPT !.status = "FAILED"]
      OBVIOUS
    <3>2. ai' = [ai EXCEPT ![s] = x]
      BY <1>0, <1>3, <2>2, <3>1 DEF Reap
    <3>3. x \in AiRow /\ x.status = "FAILED"
      BY <1>0, <3>1 DEF AiRow, AiStatuses
    <3>4. reaper' # reaper
      <4>1. reaper \in [pc : {"idle", "jobs", "reap"},
                        found : SUBSET ScanIds]
        BY DEF TypeInv, TypeOK, Reaper
      <4>2. CASE reaper.found = {s}
        BY <1>3, <4>2 DEF Reap, NoReaper
      <4>3. CASE reaper.found # {s}
        <5>1. PICK found : found = reaper.found \ {s}
          OBVIOUS
        <5>2. reaper' = [reaper EXCEPT !.found = found]
          BY <1>3, <4>3, <5>1 DEF Reap
        <5>3. reaper'.found = found
          BY <4>1, <5>2
        <5> QED
          BY <1>3, <5>1, <5>3 DEF Reap
      <4> QED
        BY <4>2, <4>3
    <3> QED
      BY <1>3, <2>2, <3>2, <3>3, <3>4 DEF Reap, AiMove, ReapsRow
  <2> QED
    BY <2>1, <2>2
<1>4. CASE \/ UNCHANGED vars \/ ChangeSettings
           \/ \E c \in Callers, s \in ScanIds : Regenerate(c, s)
           \/ \E w \in Workers : WorkerCrash(w)
           \/ \E w \in Workers, j \in RunIds : Pick(w, j)
           \/ \E j \in RunIds : Stalled(j)
           \/ ReaperFind \/ ReaperJobs \/ ReaperFails
  BY <1>4 DEF vars, dbVars, ChangeSettings, Regenerate, WorkerCrash, Pick,
     Stalled, ReaperFind, ReaperJobs, ReaperFails, AiMove
<1> QED
  BY <1>1, <1>2, <1>3, <1>4, CallerAi, WorkerAi DEF Next, Arrive, Sweep

-----------------------------------------------------------------------------
(* What becomes of a decision: it goes on about the scan it is about, with *)
(* a run that is new or its own already.                                   *)
NextOf(c, x) ==
    /\ x.pc # "idle" => x.scan \in ScanIds
    /\ x.pc \in {"base", "copyBase"} => x.scan \in Unchanged
    /\ x.pc = "settle" /\ x.status \in InFlight => x.scan \in Unchanged
    /\ x.pc \in {"add", "undo"} =>
          \/ caller[c].pc = "add" /\ x.run = caller[c].run /\ runs' = runs
          \/ x.run = runs + 1 /\ runs' = runs + 1

CallersMove ==
    \/ caller' = caller /\ runs' = runs
    \/ \E c \in Callers, x \in Caller :
          caller' = [caller EXCEPT ![c] = x] /\ NextOf(c, x)

LEMMA CallerMoves ==
  ASSUME TypeInv, NEW c \in Callers,
         Arrive(c) \/ Handle(c) \/ CallerCrash(c)
  PROVE  /\ CallersMove
         /\ runs' = runs \/ (runs < MaxRuns /\ runs' = runs + 1)
<1>0. /\ caller \in [Callers -> Caller] /\ ai \in [ScanIds -> AiRow]
      /\ runs \in 0..MaxRuns
  BY DEF TypeInv, TypeOK
<1>1. CASE \/ Settle(c) \/ CopyBase(c) \/ AlreadyClaimed(c) \/ AddJob(c)
           \/ UndoClaim(c) \/ CallerCrash(c)
           \/ (CopyCache(c) /\ NotInFlight(caller[c].scan))
  <2>1. caller' = [caller EXCEPT ![c] = NoCaller] /\ runs' = runs
    BY <1>1 DEF Settle, CopyBase, CopyCache, AlreadyClaimed, AddJob,
       UndoClaim, CallerCrash, dbVars
  <2>2. NoCaller \in Caller /\ NextOf(c, NoCaller)
    BY Blanks DEF NextOf, NoCaller
  <2> QED
    BY <2>1, <2>2 DEF CallersMove
<1>2. ASSUME NEW s \in ScanIds, FinishStatic(c, s) \/ Regenerate(c, s)
      PROVE  CallersMove
  <2>1. PICK first \in BOOLEAN : Start(c, s, first) /\ runs' = runs
    BY <1>2 DEF FinishStatic, Regenerate, dbVars
  <2>2. PICK x : x = [NoCaller EXCEPT !.pc = "decide", !.scan = s,
                                      !.first = first]
    OBVIOUS
  <2>3. x \in Caller /\ x.pc = "decide" /\ x.scan = s
    BY <2>2, Blanks DEF Caller
  <2>4. caller' = [caller EXCEPT ![c] = x]
    BY <2>1, <2>2 DEF Start
  <2> QED
    BY <2>1, <2>3, <2>4 DEF CallersMove, NextOf
<1>3. CASE Decide(c)
  <2>1. PICK merge : merge = IsComparable(ai[caller[c].scan].id,
                                          AsIdentity(settings))
    OBVIOUS
  <2>2. merge \in BOOLEAN
    BY <2>1 DEF IsComparable
  <2>3. PICK want : want = AsIdentity(settings)
    OBVIOUS
  <2>4. PICK pc : pc = IF caller[c].scan \in Unchanged THEN "base"
                       ELSE "budget"
    OBVIOUS
  <2>5. PICK x : x = IF ~Ready(settings)
                     THEN [caller[c] EXCEPT !.pc = "settle",
                                            !.status = "BLOCKED"]
                     ELSE [caller[c] EXCEPT !.pc = pc, !.want = want,
                                            !.merge = merge]
    OBVIOUS
  <2>6. caller' = [caller EXCEPT ![c] = x] /\ runs' = runs
    BY <1>3, <2>1, <2>3, <2>4, <2>5 DEF Decide, dbVars
  <2>7. x \in Caller /\ x.scan = caller[c].scan
        /\ \/ x.pc = "settle" /\ x.status = "BLOCKED"
           \/ x.pc = "base" /\ x.scan \in Unchanged
           \/ x.pc = "budget"
    <3>1. CASE ~Ready(settings)
      <4>1. x = [caller[c] EXCEPT !.pc = "settle", !.status = "BLOCKED"]
        BY <2>5, <3>1
      <4> QED
        BY <1>0, <4>1 DEF Caller, AiStatuses
    <3>2. CASE Ready(settings)
      <4>1. x = [caller[c] EXCEPT !.pc = pc, !.want = want, !.merge = merge]
        BY <2>5, <3>2
      <4>2. pc \in {"base", "budget"}
        BY <2>4
      <4>3. want \in Identity
        BY <2>3, SettingsFields
      <4>4. x \in Caller
        BY <1>0, <2>2, <4>1, <4>2, <4>3 DEF Caller
      <4> QED
        BY <1>0, <2>4, <4>1, <4>4 DEF Caller
    <3> QED
      BY <3>1, <3>2
  <2>8. caller[c].scan \in ScanIds
    BY <1>3, CallerFields DEF Decide
  <2> QED
    BY <2>6, <2>7, <2>8 DEF CallersMove, NextOf, InFlight
<1>4. CASE ReadBase(c)
  <2>1. caller[c].scan \in Unchanged /\ caller[c].scan \in ScanIds
    BY <1>4, CallerFields DEF ReadBase, TypeInv, RefsInv
  <2>2. PICK b : b = caller[c].scan - 1
    OBVIOUS
  <2>3. b \in ScanIds
    BY <2>1, <2>2 DEF ScanIds
  <2>4. PICK status : status = StatusOfBase(b)
    OBVIOUS
  <2>5. status \in AiStatuses /\ ai[b] \in AiRow
    BY <2>3, <2>4, RowFields DEF StatusOfBase, AiStatuses
  <2>6. PICK x : /\ caller' = [caller EXCEPT ![c] = x]
                 /\ \/ x = [caller[c] EXCEPT !.pc = "settle",
                                              !.status = status]
                    \/ x = [caller[c] EXCEPT !.pc = "budget"]
                    \/ x = [caller[c] EXCEPT !.pc = "copyBase",
                                              !.got = ai[b]]
    BY <1>4, <2>2, <2>4 DEF ReadBase
  <2>7. x \in Caller /\ x.scan = caller[c].scan
        /\ x.pc \in {"settle", "budget", "copyBase"}
    <3>1. CASE x = [caller[c] EXCEPT !.pc = "settle", !.status = status]
      BY <1>0, <2>5, <3>1 DEF Caller
    <3>2. CASE x = [caller[c] EXCEPT !.pc = "budget"]
      BY <1>0, <3>2 DEF Caller
    <3>3. CASE x = [caller[c] EXCEPT !.pc = "copyBase", !.got = ai[b]]
      BY <1>0, <2>5, <3>3 DEF Caller
    <3> QED
      BY <2>6, <3>1, <3>2, <3>3
  <2>8. runs' = runs
    BY <1>4 DEF ReadBase, dbVars
  <2> QED
    BY <2>1, <2>6, <2>7, <2>8 DEF CallersMove, NextOf
<1>5. CASE CheckBudget(c)
  <2>1. PICK x : /\ caller' = [caller EXCEPT ![c] = x]
                 /\ \/ x = [caller[c] EXCEPT !.pc = "settle",
                                              !.status = "SKIPPED"]
                    \/ x = [caller[c] EXCEPT !.pc = "cache"]
    BY <1>5 DEF CheckBudget
  <2>2. x \in Caller /\ x.scan = caller[c].scan
        /\ \/ x.pc = "settle" /\ x.status = "SKIPPED"
           \/ x.pc = "cache"
    <3>1. CASE x = [caller[c] EXCEPT !.pc = "settle", !.status = "SKIPPED"]
      BY <1>0, <3>1 DEF Caller, AiStatuses
    <3>2. CASE x = [caller[c] EXCEPT !.pc = "cache"]
      BY <1>0, <3>2 DEF Caller
    <3> QED
      BY <2>1, <3>1, <3>2
  <2>3. caller[c].scan \in ScanIds /\ runs' = runs
    BY <1>5, CallerFields DEF CheckBudget, dbVars
  <2> QED
    BY <2>1, <2>2, <2>3 DEF CallersMove, NextOf, InFlight
<1>6. CASE CacheHit(c)
  <2>1. PICK source : source = cache[CacheKey(caller[c].scan, caller[c].want)]
    OBVIOUS
  <2>2. source \in ScanIds
    <3>1. PICK key : key = CacheKey(caller[c].scan, caller[c].want)
      OBVIOUS
    <3>2. key \in BOOLEAN \X Identity
      <4>1. PICK same : same = (caller[c].scan \in Unchanged)
        OBVIOUS
      <4>2. same \in BOOLEAN
        BY <4>1
      <4>3. key = <<same, caller[c].want>>
        BY <3>1, <4>1 DEF CacheKey
      <4>4. caller[c].want \in Identity
        BY CallerFields
      <4> QED
        BY <4>2, <4>3, <4>4
    <3>3. cache \in [BOOLEAN \X Identity -> ScanIds \cup {NoScan}]
      BY DEF TypeInv, TypeOK
    <3>4. source \in ScanIds \cup {NoScan}
      BY <2>1, <3>1, <3>2, <3>3
    <3> QED
      BY <1>6, <2>1, <3>4 DEF CacheHit
  <2>3. PICK x : x = [caller[c] EXCEPT !.pc = "copyCache", !.got = ai[source]]
    OBVIOUS
  <2>4. caller' = [caller EXCEPT ![c] = x] /\ runs' = runs
    BY <1>6, <2>1, <2>3 DEF CacheHit, dbVars
  <2>5. x \in Caller /\ x.scan = caller[c].scan /\ x.pc = "copyCache"
    BY <1>0, <2>2, <2>3 DEF Caller
  <2>6. caller[c].scan \in ScanIds
    BY <1>6, CallerFields DEF CacheHit
  <2> QED
    BY <2>4, <2>5, <2>6 DEF CallersMove, NextOf
<1>7. CASE \/ CacheMiss(c) \/ AddThrows(c)
           \/ (CopyCache(c) /\ ~NotInFlight(caller[c].scan))
  <2>1. PICK pc \in {"claim", "undo"} :
          /\ caller' = [caller EXCEPT ![c].pc = pc] /\ runs' = runs
          /\ pc = "undo" => caller[c].pc = "add"
    BY <1>7 DEF CacheMiss, CopyCache, AddThrows, dbVars
  <2>2. PICK x : x = [caller[c] EXCEPT !.pc = pc]
    OBVIOUS
  <2>3. caller' = [caller EXCEPT ![c] = x]
    BY <1>0, <2>1, <2>2
  <2>4. x \in Caller /\ x.scan = caller[c].scan /\ x.pc = pc
        /\ x.run = caller[c].run
    BY <1>0, <2>2 DEF Caller
  <2>5. caller[c].scan \in ScanIds
    BY <1>7, CallerFields DEF CacheMiss, CopyCache, AddThrows
  <2> QED
    BY <2>1, <2>3, <2>4, <2>5 DEF CallersMove, NextOf
<1>8. CASE ClaimRun(c)
  <2>1. PICK run : run = runs + 1
    OBVIOUS
  <2>2. PICK x : x = [caller[c] EXCEPT !.pc = "add", !.run = run]
    OBVIOUS
  <2>3. /\ caller' = [caller EXCEPT ![c] = x] /\ runs' = run
        /\ runs < MaxRuns
    BY <1>8, <2>1, <2>2 DEF ClaimRun
  <2>4. run \in RunIds
    BY <1>0, <2>1, <2>3 DEF RunIds
  <2>5. x \in Caller /\ x.scan = caller[c].scan /\ x.pc = "add"
        /\ x.run = run
    BY <1>0, <2>2, <2>4 DEF Caller
  <2>6. caller[c].scan \in ScanIds
    BY <1>8, CallerFields DEF ClaimRun
  <2> QED
    BY <2>1, <2>3, <2>5, <2>6 DEF CallersMove, NextOf
<1>9. runs' = runs \/ ClaimRun(c)
  BY DEF Handle, Decide, Settle, ReadBase, CopyBase, CheckBudget, CacheHit,
     CacheMiss, CopyCache, AlreadyClaimed, AddJob, AddThrows, UndoClaim,
     CallerCrash, Arrive, FinishStatic, Regenerate, dbVars
<1>10. ClaimRun(c) => runs < MaxRuns /\ runs' = runs + 1
  BY DEF ClaimRun
<1> QED
  BY <1>1, <1>2, <1>3, <1>4, <1>5, <1>6, <1>7, <1>8, <1>9, <1>10
     DEF Handle, Arrive

-----------------------------------------------------------------------------
(* What becomes of a job: it is added once, by the decision that claimed   *)
(* it, and stays about its scan.                                           *)
JobsMove ==
    \/ job' = job
    \/ \E j \in RunIds, x \in Job :
          /\ job' = [job EXCEPT ![j] = x]
          /\ x.state # "none"
          /\ \/ job[j].state # "none" /\ x.scan = job[j].scan
             \/ \E c \in Callers :
                   /\ caller[c].pc = "add" /\ caller[c].run = j
                   /\ caller'[c].pc = "idle" /\ x.scan = caller[c].scan

LEMMA JobMoves ==
  ASSUME TypeInv, [Next]_vars
  PROVE  JobsMove
<1>0. /\ job \in [RunIds -> Job] /\ caller \in [Callers -> Caller]
      /\ worker \in [Workers -> Worker]
  BY DEF TypeInv, TypeOK
<1>1. ASSUME NEW c \in Callers, AddJob(c) PROVE JobsMove
  <2>1. PICK x : x = [NoJob EXCEPT !.state = "waiting",
                                   !.scan = caller[c].scan,
                                   !.merge = caller[c].merge]
    OBVIOUS
  <2>2. PICK j : j = caller[c].run
    OBVIOUS
  <2>3. job' = [job EXCEPT ![j] = x]
    BY <1>1, <2>1, <2>2 DEF AddJob
  <2>4. caller[c].scan \in ScanIds /\ caller[c].merge \in BOOLEAN
    BY <1>1, CallerFields DEF AddJob
  <2>5. /\ x.state = "waiting" /\ x.scan = caller[c].scan
        /\ x.merge = caller[c].merge /\ x.made = 0 /\ x.stalls = 0
        /\ x \in Job
    BY <2>1, <2>4 DEF Job, NoJob
  <2>6. j \in RunIds
    BY <1>1, <2>2 DEF AddJob, TypeInv, OwnRunInv, Adding, TypeOK, RunIds
  <2>7. caller'[c].pc = "idle" /\ caller[c].pc = "add"
    BY <1>0, <1>1 DEF AddJob, NoCaller
  <2> QED
    BY <2>2, <2>3, <2>5, <2>6, <2>7 DEF JobsMove
<1>2. ASSUME NEW w \in Workers, NEW j \in RunIds, Pick(w, j)
      PROVE  JobsMove
  <2>1. PICK x : x = [job[j] EXCEPT !.state = "active"]
    OBVIOUS
  <2>2. x \in Job /\ x.state = "active" /\ x.scan = job[j].scan
    BY <1>0, <2>1 DEF Job
  <2>3. job' = [job EXCEPT ![j] = x] /\ job[j].state # "none"
    BY <1>0, <1>2, <2>1 DEF Pick
  <2> QED
    BY <2>2, <2>3 DEF JobsMove
<1>3. ASSUME NEW w \in Workers, Complete(w) PROVE JobsMove
  <2>1. CASE worker[w].lock
    <3>1. PICK j : j = worker[w].run
      OBVIOUS
    <3>2. j \in RunIds /\ job[j].state # "none"
      BY <1>3, <3>1 DEF Complete, TypeInv, RefsInv
    <3>3. PICK x : x = [job[j] EXCEPT !.state = "completed"]
      OBVIOUS
    <3>4. x \in Job /\ x.state = "completed" /\ x.scan = job[j].scan
      BY <1>0, <3>2, <3>3 DEF Job
    <3>5. job' = [job EXCEPT ![j] = x]
      BY <1>0, <1>3, <2>1, <3>1, <3>3 DEF Complete
    <3> QED
      BY <3>2, <3>4, <3>5 DEF JobsMove
  <2> QED
    BY <1>3, <2>1 DEF Complete, JobsMove
<1>4. ASSUME NEW w \in Workers, NEW unrecoverable \in BOOLEAN,
             Fail(w, unrecoverable)
      PROVE  JobsMove
  <2>1. CASE worker[w].lock
    <3>1. PICK j : j = worker[w].run
      OBVIOUS
    <3>2. worker[w].pc # "idle"
      BY <1>4 DEF Fail, MayFail
    <3>3. j \in RunIds /\ job[j].state # "none"
      BY <3>1, <3>2 DEF TypeInv, RefsInv
    <3>4. PICK made : made = job[j].made + 1
      OBVIOUS
    <3>5. made \in Nat
      BY <1>0, <3>3, <3>4 DEF Job
    <3>6. PICK state \in {"failed", "delayed"} :
            job' = [job EXCEPT ![j] = [@ EXCEPT !.made = made,
                                                !.state = state]]
      BY <1>4, <2>1, <3>1, <3>4 DEF Fail
    <3>7. PICK x : x = [job[j] EXCEPT !.made = made, !.state = state]
      OBVIOUS
    <3>8. x \in Job /\ x.state = state /\ x.scan = job[j].scan
      BY <1>0, <3>3, <3>5, <3>7 DEF Job
    <3>9. job' = [job EXCEPT ![j] = x]
      BY <3>6, <3>7
    <3> QED
      BY <3>3, <3>8, <3>9 DEF JobsMove
  <2> QED
    BY <1>4, <2>1 DEF Fail, JobsMove
<1>5. ASSUME NEW j \in RunIds, Stalled(j) PROVE JobsMove
  <2>1. PICK stalls : stalls = job[j].stalls + 1
    OBVIOUS
  <2>2. stalls \in Nat
    BY <1>0, <2>1 DEF Job
  <2>3. PICK x : x = [job[j] EXCEPT !.state = "waiting", !.stalls = stalls]
    OBVIOUS
  <2>4. x \in Job /\ x.state = "waiting" /\ x.scan = job[j].scan
    BY <1>0, <2>2, <2>3 DEF Job
  <2>5. job' = [job EXCEPT ![j] = x] /\ job[j].state # "none"
    BY <1>5, <2>1, <2>3 DEF Stalled
  <2> QED
    BY <2>4, <2>5 DEF JobsMove
<1>6. ASSUME NEW c \in Callers, ~AddJob(c),
             Arrive(c) \/ Handle(c) \/ CallerCrash(c)
      PROVE  job' = job
  BY <1>6 DEF Arrive, Handle, Decide, Settle, ReadBase, CopyBase, CheckBudget,
     CacheHit, CacheMiss, CopyCache, ClaimRun, AlreadyClaimed, AddThrows,
     UndoClaim, CallerCrash, FinishStatic, Regenerate
<1>7. ASSUME NEW w \in Workers, Execute(w) \/ WorkerCrash(w), ~Complete(w),
             \A unrecoverable \in BOOLEAN : ~Fail(w, unrecoverable)
      PROVE  job' = job
  BY <1>7 DEF Execute, Claim, SkipNotRunnable, Load, UseProvider, NoProvider,
     CallAnswered, CallFailed, Bill, ShowUsage, KeepRaw, Persist, Discard,
     RecordUsage, RememberInCache, OnFailed, OnFailedThrows, WorkerCrash
<1>8. CASE \/ UNCHANGED vars \/ ChangeSettings
           \/ \E s \in ScanIds : GraceElapses(s) \/ StartScan(s) \/ Reap(s)
           \/ ReaperFind \/ ReaperJobs \/ ReaperFails
  BY <1>8 DEF vars, dbVars, ChangeSettings, GraceElapses, StartScan, Reap,
     ReaperFind, ReaperJobs, ReaperFails, JobsMove
<1> QED
  BY <1>1, <1>2, <1>3, <1>4, <1>5, <1>6, <1>7, <1>8 DEF Next, Sweep, JobsMove,
     AddJob

LEMMA JobsStay ==
  ASSUME TypeInv, [Next]_vars
  PROVE  /\ job' \in [RunIds -> Job]
         /\ \A j \in RunIds : job[j].state # "none" =>
               job'[j].state # "none" /\ job'[j].scan = job[j].scan
<1>1. job \in [RunIds -> Job]
  BY DEF TypeInv, TypeOK
<1>2. CASE job' = job
  BY <1>1, <1>2
<1>3. ASSUME NEW j \in RunIds, NEW x \in Job, job' = [job EXCEPT ![j] = x],
             x.state # "none",
             \/ job[j].state # "none" /\ x.scan = job[j].scan
             \/ \E c \in Callers : caller[c].pc = "add" /\ caller[c].run = j
      PROVE  /\ job' \in [RunIds -> Job]
             /\ \A i \in RunIds : job[i].state # "none" =>
                   job'[i].state # "none" /\ job'[i].scan = job[i].scan
  BY <1>1, <1>3 DEF TypeInv, OwnRunInv, Adding
<1> QED
  BY JobMoves, <1>2, <1>3 DEF JobsMove

(* What becomes of an execution: it is about a job that exists.            *)
WorkersMove ==
    \/ worker' = worker
    \/ \E w \in Workers, x \in Worker :
          /\ worker' = [worker EXCEPT ![w] = x]
          /\ x.pc # "idle" => /\ x.run \in RunIds
                              /\ job'[x.run].state # "none"
    \/ \E j \in RunIds : Stalled(j)

LEMMA FailWorker ==
  ASSUME NEW w \in Workers, NEW unrecoverable \in BOOLEAN,
         Fail(w, unrecoverable)
  PROVE  \/ worker' = [worker EXCEPT ![w] = NoWorker]
         \/ worker' = [worker EXCEPT ![w] =
                         [NoWorker EXCEPT !.pc = "onFailed",
                                          !.run = worker[w].run]]
<1>1. CASE worker[w].lock
  BY <1>1 DEF Fail
<1>2. CASE ~worker[w].lock
  BY <1>2 DEF Fail
<1> QED
  BY <1>1, <1>2

LEMMA WorkerMoves ==
  ASSUME TypeInv, [Next]_vars, NEW w \in Workers,
         Execute(w) \/ WorkerCrash(w)
  PROVE  WorkersMove
<1>0. worker \in [Workers -> Worker]
  BY DEF TypeInv, TypeOK
<1>1. worker[w].pc # "idle"
  BY DEF Execute, Claim, SkipNotRunnable, Load, UseProvider, NoProvider,
     CallAnswered, CallFailed, Bill, ShowUsage, KeepRaw, Persist, Discard,
     RecordUsage, RememberInCache, Complete, Fail, MayFail, OnFailed,
     OnFailedThrows, WorkerCrash
<1>2. worker[w].run \in RunIds /\ job'[worker[w].run].state # "none"
  BY <1>1, JobsStay DEF TypeInv, RefsInv
<1>3. ASSUME NEW x \in Worker, worker' = [worker EXCEPT ![w] = x],
             x.run = worker[w].run
      PROVE  WorkersMove
  BY <1>2, <1>3 DEF WorkersMove
<1>4. CASE worker' = [worker EXCEPT ![w] = NoWorker]
  <2>1. NoWorker \in Worker /\ NoWorker.pc = "idle"
    BY Blanks DEF NoWorker
  <2> QED
    BY <1>4, <2>1 DEF WorkersMove
<1>5. CASE \/ Claim(w) \/ SkipNotRunnable(w) \/ NoProvider(w) \/ Bill(w)
           \/ ShowUsage(w) \/ KeepRaw(w)
           \/ Persist(w) \/ RecordUsage(w) \/ RememberInCache(w)
  <2>1. PICK pc \in {"load", "finish", "notify", "show", "raw", "failing",
                     "usage", "remember"} : Goto(w, pc)
    BY <1>0, <1>5 DEF Claim, SkipNotRunnable, NoProvider, Bill, ShowUsage,
       KeepRaw, AfterUsage, Persist, RecordUsage, RememberInCache, Worker
  <2>2. PICK x : x = [worker[w] EXCEPT !.pc = pc]
    OBVIOUS
  <2>3. x \in Worker /\ x.run = worker[w].run
    BY <1>0, <2>2 DEF Worker
  <2>4. worker' = [worker EXCEPT ![w] = x]
    BY <1>0, <2>1, <2>2 DEF Goto
  <2> QED
    BY <1>3, <2>3, <2>4
<1>6. CASE Load(w)
  <2>1. PICK claimed : claimed = ai[ScanOf(w)].id.model
    OBVIOUS
  <2>2. PICK using : using = [model |-> 0, locale |-> settings.locale]
    OBVIOUS
  <2>3. claimed \in 0..NumModels
    BY <1>1, <2>1, WorkerFields, RowFields
  <2>4. using \in Identity
    BY <2>2, SettingsFields DEF Identity
  <2>5. PICK x : x = [worker[w] EXCEPT !.pc = "provider",
                                       !.claimed = claimed, !.using = using]
    OBVIOUS
  <2>6. x \in Worker /\ x.run = worker[w].run
    <3>1. x \in Worker
      BY <1>0, <2>3, <2>4, <2>5 DEF Worker
    <3>2. x.run = worker[w].run
      BY <1>0, <2>5 DEF Worker
    <3> QED
      BY <3>1, <3>2
  <2>7. worker' = [worker EXCEPT ![w] = x]
    BY <1>6, <2>1, <2>2, <2>5 DEF Load
  <2> QED
    BY <1>3, <2>6, <2>7
<1>7. CASE UseProvider(w)
  <2>1. PICK using : using = [worker[w].using EXCEPT !.model = settings.model]
    OBVIOUS
  <2>2. using \in Identity
    BY <2>1, SettingsFields, WorkerFields DEF Identity
  <2>3. PICK x : x = [worker[w] EXCEPT !.pc = "call", !.using = using]
    OBVIOUS
  <2>4. x \in Worker /\ x.run = worker[w].run
    <3>1. x \in Worker
      BY <1>0, <2>2, <2>3 DEF Worker
    <3>2. x.run = worker[w].run
      BY <1>0, <2>3 DEF Worker
    <3> QED
      BY <3>1, <3>2
  <2>5. worker' = [worker EXCEPT ![w] = x]
    BY <1>0, <1>7, <2>1, <2>3 DEF UseProvider, Worker
  <2> QED
    BY <1>3, <2>4, <2>5
<1>8. CASE \/ \E kept \in {"partial", "whole"} : CallAnswered(w, kept)
           \/ Discard(w)
  <2>1. PICK pc \in {"persist", "usage"},
             kept \in {"nothing", "partial", "whole"} :
               worker' = [worker EXCEPT ![w] = [@ EXCEPT !.pc = pc,
                                                         !.kept = kept]]
    BY <1>8 DEF CallAnswered, Discard
  <2>2. PICK x : x = [worker[w] EXCEPT !.pc = pc, !.kept = kept]
    OBVIOUS
  <2>3. x \in Worker /\ x.run = worker[w].run
    BY <1>0, <2>2 DEF Worker
  <2>4. worker' = [worker EXCEPT ![w] = x]
    BY <2>1, <2>2
  <2> QED
    BY <1>3, <2>3, <2>4
<1>9. ASSUME NEW code \in AiErrorCodes, CallFailed(w, code)
      PROVE  WorkersMove
  <2>1. PICK error : error = KindOf(code)
    OBVIOUS
  <2>2. error \in AiErrorKinds
    BY <1>9, <2>1 DEF AiErrorCodes, KindOf, AiErrorKinds
  <2>3. PICK x : x = [worker[w] EXCEPT !.pc = "bill", !.error = error]
    OBVIOUS
  <2>4. x \in Worker /\ x.run = worker[w].run
    BY <1>0, <2>2, <2>3 DEF Worker
  <2>5. worker' = [worker EXCEPT ![w] = x]
    BY <1>9, <2>1, <2>3 DEF CallFailed
  <2> QED
    BY <1>3, <2>4, <2>5
<1>10. CASE Complete(w) \/ OnFailed(w) \/ OnFailedThrows(w) \/ WorkerCrash(w)
  BY <1>4, <1>10 DEF Complete, OnFailed, OnFailedThrows, WorkerCrash
<1>11. ASSUME NEW unrecoverable \in BOOLEAN, Fail(w, unrecoverable)
       PROVE  WorkersMove
  <2>1. PICK j : j = worker[w].run
    OBVIOUS
  <2>2. \/ worker' = [worker EXCEPT ![w] = NoWorker]
        \/ worker' = [worker EXCEPT ![w] =
                        [NoWorker EXCEPT !.pc = "onFailed", !.run = j]]
    BY <1>11, <2>1, FailWorker
  <2>3. PICK x : x = [NoWorker EXCEPT !.pc = "onFailed", !.run = j]
    OBVIOUS
  <2>4. x \in Worker /\ x.run = worker[w].run
    BY <1>2, <2>1, <2>3, Blanks DEF Worker
  <2> QED
    BY <1>3, <1>4, <2>2, <2>3, <2>4
<1> QED
  BY <1>5, <1>6, <1>7, <1>8, <1>9, <1>10, <1>11 DEF Execute

LEMMA PickMoves ==
  ASSUME TypeInv, NEW w \in Workers, NEW j \in RunIds, Pick(w, j),
         job'[j].state # "none"
  PROVE  WorkersMove
<1>1. PICK pc \in {"stalled", "claim"} :
        worker' = [worker EXCEPT ![w] =
                     [NoWorker EXCEPT !.pc = pc, !.run = j, !.lock = TRUE]]
  BY DEF Pick
<1>2. PICK x : x = [NoWorker EXCEPT !.pc = pc, !.run = j, !.lock = TRUE]
  OBVIOUS
<1>3. x \in Worker /\ x.run = j
  BY <1>2, Blanks DEF Worker
<1> QED
  BY <1>1, <1>2, <1>3 DEF WorkersMove

LEMMA WorkersNext ==
  ASSUME TypeInv, [Next]_vars
  PROVE  WorkersMove
<1>1. ASSUME NEW c \in Callers, Arrive(c) \/ Handle(c) \/ CallerCrash(c)
      PROVE  worker' = worker
  BY <1>1 DEF Arrive, Handle, Decide, Settle, ReadBase, CopyBase, CheckBudget,
     CacheHit, CacheMiss, CopyCache, ClaimRun, AlreadyClaimed, AddJob,
     AddThrows, UndoClaim, CallerCrash, FinishStatic, Regenerate
<1>2. CASE \/ UNCHANGED vars \/ ChangeSettings
           \/ \E s \in ScanIds : GraceElapses(s) \/ StartScan(s) \/ Reap(s)
           \/ ReaperFind \/ ReaperJobs \/ ReaperFails
  BY <1>2 DEF vars, dbVars, ChangeSettings, GraceElapses, StartScan, Reap,
     ReaperFind, ReaperJobs, ReaperFails, WorkersMove
<1>3. ASSUME NEW w \in Workers, NEW j \in RunIds, Pick(w, j)
      PROVE  WorkersMove
  BY <1>3, PickMoves, JobsStay DEF Pick
<1> QED
  BY <1>1, <1>2, <1>3, WorkerMoves DEF Next, Sweep, WorkersMove

LEMMA CallersNext ==
  ASSUME TypeInv, [Next]_vars
  PROVE  /\ CallersMove
         /\ runs' = runs \/ (runs < MaxRuns /\ runs' = runs + 1)
<1>1. ASSUME NEW w \in Workers, Execute(w) \/ WorkerCrash(w)
      PROVE  caller' = caller /\ runs' = runs
  BY <1>1 DEF Execute, Claim, SkipNotRunnable, Load, UseProvider, NoProvider,
     CallAnswered, CallFailed, Bill, ShowUsage, KeepRaw, Persist, Discard,
     RecordUsage, RememberInCache, Complete, Fail, OnFailed, OnFailedThrows,
     WorkerCrash, dbVars
<1>2. CASE \/ UNCHANGED vars \/ ChangeSettings
           \/ \E s \in ScanIds : GraceElapses(s) \/ StartScan(s) \/ Reap(s)
           \/ \E w \in Workers, j \in RunIds : Pick(w, j)
           \/ \E j \in RunIds : Stalled(j)
           \/ ReaperFind \/ ReaperJobs \/ ReaperFails
  BY <1>2 DEF vars, dbVars, ChangeSettings, GraceElapses, StartScan, Reap,
     Pick, Stalled, ReaperFind, ReaperJobs, ReaperFails, CallersMove
<1> QED
  BY <1>1, <1>2, CallerMoves DEF Next, Arrive, Sweep, CallersMove

LEMMA StepWorkers ==
  ASSUME TypeInv, [Next]_vars
  PROVE  /\ worker' \in [Workers -> Worker]
         /\ \A w \in Workers : worker'[w].pc # "idle" =>
               worker'[w].run \in RunIds /\ job'[worker'[w].run].state # "none"
<1>0. worker \in [Workers -> Worker]
  BY DEF TypeInv, TypeOK
<1>1. \A w \in Workers : worker[w].pc # "idle" =>
        worker[w].run \in RunIds /\ job'[worker[w].run].state # "none"
  BY JobsStay DEF TypeInv, RefsInv
<1>2. CASE worker' = worker
  BY <1>0, <1>1, <1>2
<1>3. ASSUME NEW w \in Workers, NEW x \in Worker,
             worker' = [worker EXCEPT ![w] = x],
             x.pc # "idle" => x.run \in RunIds /\ job'[x.run].state # "none"
      PROVE  /\ worker' \in [Workers -> Worker]
             /\ \A v \in Workers : worker'[v].pc # "idle" =>
                  /\ worker'[v].run \in RunIds
                  /\ job'[worker'[v].run].state # "none"
  BY <1>0, <1>1, <1>3
<1>4. ASSUME NEW j \in RunIds, Stalled(j)
      PROVE  /\ worker' \in [Workers -> Worker]
             /\ \A v \in Workers : worker'[v].pc # "idle" =>
                  /\ worker'[v].run \in RunIds
                  /\ job'[worker'[v].run].state # "none"
  <2>1. ASSUME NEW v \in Workers
        PROVE  /\ worker'[v] \in Worker /\ worker'[v].run = worker[v].run
               /\ worker'[v].pc = worker[v].pc
    <3>1. PICK x : x = [worker[v] EXCEPT !.lock = FALSE]
      OBVIOUS
    <3>2. x \in Worker /\ x.pc = worker[v].pc /\ x.run = worker[v].run
      BY <1>0, <3>1 DEF Worker
    <3>3. worker'[v] = x \/ worker'[v] = worker[v]
      BY <1>4, <3>1 DEF Stalled
    <3> QED
      BY <1>0, <3>2, <3>3
  <2>2. worker' = [v \in Workers |-> worker'[v]]
    BY <1>4 DEF Stalled
  <2> QED
    BY <1>1, <2>1, <2>2
<1> QED
  BY <1>2, <1>3, <1>4, WorkersNext DEF WorkersMove

LEMMA StepCallers ==
  ASSUME TypeInv, [Next]_vars
  PROVE  /\ caller' \in [Callers -> Caller] /\ runs' \in 0..MaxRuns
         /\ \A c \in Callers :
               /\ caller'[c].pc # "idle" => caller'[c].scan \in ScanIds
               /\ caller'[c].pc \in {"base", "copyBase"} =>
                     caller'[c].scan \in Unchanged
               /\ caller'[c].pc = "settle" /\ caller'[c].status \in InFlight =>
                     caller'[c].scan \in Unchanged
<1>0. caller \in [Callers -> Caller] /\ runs \in 0..MaxRuns
  BY DEF TypeInv, TypeOK
<1>1. runs' \in 0..MaxRuns
  BY <1>0, CallersNext
<1>2. CASE caller' = caller
  BY <1>0, <1>1, <1>2 DEF TypeInv, RefsInv
<1>3. ASSUME NEW c \in Callers, NEW x \in Caller, NextOf(c, x),
             caller' = [caller EXCEPT ![c] = x]
      PROVE  /\ caller' \in [Callers -> Caller]
             /\ \A d \in Callers :
                  /\ caller'[d].pc # "idle" => caller'[d].scan \in ScanIds
                  /\ caller'[d].pc \in {"base", "copyBase"} =>
                        caller'[d].scan \in Unchanged
                  /\ caller'[d].pc = "settle" /\ caller'[d].status \in InFlight
                        => caller'[d].scan \in Unchanged
  BY <1>0, <1>3 DEF NextOf, TypeInv, RefsInv
<1> QED
  BY <1>1, <1>2, <1>3, CallersNext DEF CallersMove

LEMMA StepOwnRun ==
  ASSUME TypeInv, [Next]_vars
  PROVE  OwnRunInv'
<1>0. /\ caller \in [Callers -> Caller] /\ runs \in 0..MaxRuns
      /\ job \in [RunIds -> Job] /\ runs' \in 0..MaxRuns
  BY StepCallers DEF TypeInv, TypeOK
<1>1. ASSUME NEW c \in Callers, Adding(c)'
      PROVE  \/ /\ Adding(c) /\ caller'[c].run = caller[c].run
             \/ /\ caller'[c].run = runs + 1 /\ runs' = runs + 1
                /\ \A d \in Callers : d # c => caller'[d] = caller[d]
  <2>1. CASE caller' = caller
    BY <1>1, <2>1 DEF Adding
  <2>2. ASSUME NEW d \in Callers, NEW x \in Caller, NextOf(d, x),
               caller' = [caller EXCEPT ![d] = x]
        PROVE  \/ /\ Adding(c) /\ caller'[c].run = caller[c].run
               \/ /\ caller'[c].run = runs + 1 /\ runs' = runs + 1
                  /\ \A e \in Callers : e # c => caller'[e] = caller[e]
    BY <1>0, <1>1, <2>2 DEF Adding, NextOf
  <2> QED
    BY <2>1, <2>2, CallersNext DEF CallersMove
<1>2. ASSUME NEW c \in Callers, Adding(c)'
      PROVE  caller'[c].run \in 1..runs' /\ job'[caller'[c].run].state = "none"
  <2>1. PICK r : r = caller'[c].run
    OBVIOUS
  <2>2. r \in 1..runs'
    BY <1>0, <1>1, <1>2, <2>1, CallersNext DEF TypeInv, OwnRunInv
  <2>3. job[r].state = "none"
    BY <1>0, <1>1, <1>2, <2>1, <2>2 DEF TypeInv, OwnRunInv, RefsInv, RunIds
  <2>4. job'[r].state = "none"
    <3>1. CASE job' = job
      BY <2>3, <3>1
    <3>2. ASSUME NEW j \in RunIds, NEW x \in Job,
                 job' = [job EXCEPT ![j] = x],
                 \/ job[j].state # "none"
                 \/ \E d \in Callers :
                       /\ caller[d].pc = "add" /\ caller[d].run = j
                       /\ caller'[d].pc = "idle"
          PROVE  job'[r].state = "none"
      <4>1. CASE j # r
        BY <1>0, <2>3, <3>2, <4>1
      <4>2. CASE j = r
        <5>1. PICK d \in Callers : /\ caller[d].pc = "add"
                                   /\ caller[d].run = r
                                   /\ caller'[d].pc = "idle"
          BY <2>3, <3>2, <4>2
        <5>2. c # d
          BY <1>2, <5>1 DEF Adding
        <5>3. r \in 1..runs
          BY <5>1 DEF TypeInv, OwnRunInv, Adding
        <5>4. Adding(c) /\ caller[c].run = r
          BY <1>0, <1>1, <1>2, <2>1, <5>3
        <5> QED
          BY <5>1, <5>2, <5>4 DEF TypeInv, OwnRunInv, Adding
      <4> QED
        BY <4>1, <4>2
    <3> QED
      BY <3>1, <3>2, JobMoves DEF JobsMove
  <2> QED
    BY <2>1, <2>2, <2>4
<1>3. ASSUME NEW c \in Callers, NEW d \in Callers, Adding(c)', Adding(d)',
             caller'[c].run = caller'[d].run
      PROVE  c = d
  <2>1. CASE /\ Adding(c) /\ caller'[c].run = caller[c].run
             /\ Adding(d) /\ caller'[d].run = caller[d].run
    BY <1>3, <2>1 DEF TypeInv, OwnRunInv
  <2>2. ASSUME NEW e \in Callers, NEW f \in Callers, e # f, Adding(f)',
               caller'[e].run = caller'[f].run,
               caller'[e].run = runs + 1, runs' = runs + 1,
               \A g \in Callers : g # e => caller'[g] = caller[g]
        PROVE  FALSE
    <3>1. Adding(f) /\ caller[f].run = runs + 1
      BY <2>2 DEF Adding
    <3>2. caller[f].run \in 1..runs
      BY <3>1 DEF TypeInv, OwnRunInv
    <3> QED
      BY <1>0, <3>1, <3>2
  <2> QED
    BY <1>1, <1>3, <2>1, <2>2
<1> QED
  BY <1>2, <1>3 DEF OwnRunInv, Adding

LEMMA StepRest ==
  ASSUME TypeInv, [Next]_vars
  PROVE  /\ settings' \in Settings
         /\ cache' \in [BOOLEAN \X Identity -> ScanIds \cup {NoScan}]
         /\ used' \in Nat /\ calls' \in Nat /\ reaper' \in Reaper
<1>0. /\ settings \in Settings
      /\ cache \in [BOOLEAN \X Identity -> ScanIds \cup {NoScan}]
      /\ used \in Nat /\ calls \in Nat /\ reaper \in Reaper
  BY DEF TypeInv, TypeOK
<1>1. CASE ChangeSettings
  <2>1. PICK model \in 1..NumModels, locale \in 1..NumLocales,
             hasKey \in BOOLEAN, consent \in BOOLEAN :
               settings' = [model |-> UsableModel(model, hasKey),
                            locale |-> locale, consent |-> consent]
    BY <1>1 DEF ChangeSettings
  <2>2. UsableModel(model, hasKey) \in 0..NumModels
    BY DEF UsableModel
  <2>3. settings' \in Settings
    BY <2>1, <2>2 DEF Settings
  <2> QED
    BY <1>0, <1>1, <2>3 DEF ChangeSettings
<1>2. ASSUME NEW w \in Workers, RememberInCache(w)
      PROVE  cache' \in [BOOLEAN \X Identity -> ScanIds \cup {NoScan}]
  <2>1. PICK key : \/ cache' = [cache EXCEPT ![key] = ScanOf(w)]
                   \/ cache' = cache
    BY <1>2 DEF RememberInCache
  <2>2. ScanOf(w) \in ScanIds
    BY <1>2, WorkerFields DEF RememberInCache
  <2> QED
    BY <1>0, <2>1, <2>2
<1>3. CASE ReaperFind \/ ReaperJobs \/ ReaperFails
  <2>1. NoReaper \in Reaper
    BY Blanks
  <2>2. CASE ReaperFind
    <3>1. PICK found \in SUBSET ScanIds :
            reaper' = [pc |-> "jobs", found |-> found]
      BY <2>2 DEF ReaperFind
    <3> QED
      BY <1>0, <2>2, <3>1 DEF ReaperFind, Reaper, dbVars
  <2>3. CASE ReaperJobs
    <3>1. PICK found : found = {s \in reaper.found : ~HasJob(s)}
      OBVIOUS
    <3>2. found \in SUBSET ScanIds
      BY <1>0, <3>1 DEF Reaper
    <3>3. reaper' = NoReaper \/ reaper' = [pc |-> "reap", found |-> found]
      BY <2>3, <3>1 DEF ReaperJobs
    <3> QED
      BY <1>0, <2>1, <2>3, <3>2, <3>3 DEF ReaperJobs, Reaper, dbVars
  <2> QED
    BY <1>0, <1>3, <2>1, <2>2, <2>3 DEF ReaperFails, dbVars
<1>4. ASSUME NEW s \in ScanIds, Reap(s) PROVE reaper' \in Reaper
  <2>1. PICK found : found = reaper.found \ {s}
    OBVIOUS
  <2>2. \/ reaper' = NoReaper
        \/ reaper' = [reaper EXCEPT !.found = found]
    BY <1>4, <2>1 DEF Reap
  <2>3. found \in SUBSET ScanIds
    BY <1>0, <2>1 DEF Reaper
  <2> QED
    BY <1>0, <2>2, <2>3, Blanks DEF Reaper
<1>5. ASSUME NEW w \in Workers, Execute(w) \/ WorkerCrash(w)
      PROVE  /\ settings' = settings /\ reaper' = reaper
             /\ used' = used \/ used' = used + 1
             /\ calls' = calls \/ calls' = calls + 1
             /\ cache' = cache \/ RememberInCache(w)
  BY <1>5 DEF Execute, Claim, SkipNotRunnable, Load, UseProvider, NoProvider,
     CallAnswered, CallFailed, Bill, ShowUsage, KeepRaw, Persist, Discard,
     RecordUsage, RememberInCache, Complete, Fail, OnFailed, OnFailedThrows,
     WorkerCrash, dbVars
<1>6. ASSUME NEW c \in Callers, Arrive(c) \/ Handle(c) \/ CallerCrash(c)
      PROVE  UNCHANGED <<settings, cache, used, calls, reaper>>
  BY <1>6 DEF Arrive, Handle, Decide, Settle, ReadBase, CopyBase, CheckBudget,
     CacheHit, CacheMiss, CopyCache, ClaimRun, AlreadyClaimed, AddJob,
     AddThrows, UndoClaim, CallerCrash, FinishStatic, Regenerate, dbVars
<1>7. CASE \/ UNCHANGED vars
           \/ \E s \in ScanIds : GraceElapses(s) \/ StartScan(s)
           \/ \E w \in Workers, j \in RunIds : Pick(w, j)
           \/ \E j \in RunIds : Stalled(j)
  BY <1>0, <1>7 DEF vars, dbVars, GraceElapses, StartScan, Pick, Stalled
<1>8. ASSUME NEW s \in ScanIds, Reap(s)
      PROVE  UNCHANGED <<settings, cache, used, calls>>
  BY <1>8 DEF Reap
<1>9. ASSUME NEW w \in Workers, Execute(w) \/ WorkerCrash(w)
      PROVE  /\ settings' \in Settings
             /\ cache' \in [BOOLEAN \X Identity -> ScanIds \cup {NoScan}]
             /\ used' \in Nat /\ calls' \in Nat /\ reaper' \in Reaper
  BY <1>0, <1>2, <1>5, <1>9
<1> QED
  BY <1>0, <1>1, <1>3, <1>4, <1>6, <1>7, <1>8, <1>9 DEF Next, Sweep

LEMMA StepType ==
  ASSUME TypeInv, [Next]_vars
  PROVE  TypeInv'
<1>1. ai' \in [ScanIds -> AiRow]
  <2>1. ai \in [ScanIds -> AiRow]
    BY DEF TypeInv, TypeOK
  <2> QED
    BY <2>1, AiMoves DEF AiMove
<1>2. TypeOK'
  BY <1>1, StepRest, StepCallers, StepWorkers, JobsStay DEF TypeOK
<1>3. ASSUME NEW j \in RunIds, job'[j].state # "none"
      PROVE  job'[j].scan \in ScanIds /\ j <= runs'
  <2>1. runs \in 0..MaxRuns /\ job \in [RunIds -> Job]
    BY DEF TypeInv, TypeOK
  <2>2. runs <= runs' /\ runs' \in 0..MaxRuns
    BY <2>1, CallersNext
  <2>3. CASE job[j].state # "none"
    BY <2>1, <2>2, <2>3, JobsStay DEF TypeInv, RefsInv, RunIds
  <2>4. CASE job[j].state = "none"
    <3>1. PICK i \in RunIds, x \in Job :
            /\ job' = [job EXCEPT ![i] = x]
            /\ \/ job[i].state # "none"
               \/ \E c \in Callers :
                     /\ caller[c].pc = "add" /\ caller[c].run = i
                     /\ x.scan = caller[c].scan
      BY <1>3, <2>4, JobMoves DEF JobsMove
    <3>2. i = j /\ job'[j] = x
      BY <1>3, <2>1, <2>4, <3>1
    <3>3. PICK c \in Callers : /\ caller[c].pc = "add" /\ caller[c].run = j
                               /\ job'[j].scan = caller[c].scan
      BY <2>4, <3>1, <3>2
    <3>4. caller[c].scan \in ScanIds /\ caller[c].run \in 1..runs
      BY <3>3 DEF TypeInv, RefsInv, OwnRunInv, Adding
    <3> QED
      BY <2>1, <2>2, <3>3, <3>4
  <2> QED
    BY <2>3, <2>4
<1>4. RefsInv'
  BY <1>3, StepCallers, StepWorkers DEF RefsInv
<1> QED
  BY <1>2, <1>4, StepOwnRun DEF TypeInv

LEMMA InitType == Init => TypeInv
<1> SUFFICES ASSUME Init PROVE TypeInv
  OBVIOUS
<1>1. TypeOK
  BY Blanks DEF Init, TypeOK
<1>2. RefsInv
  BY DEF Init, RefsInv, NoCaller, NoWorker, NoJob
<1>3. OwnRunInv
  BY DEF Init, OwnRunInv, Adding, NoCaller
<1> QED
  BY <1>1, <1>2, <1>3 DEF TypeInv

(* Every review, decision, job and execution is well formed, and refers to *)
(* scans and jobs that exist.                                              *)
THEOREM TypeCorrect == Spec => []TypeInv
<1> QED
  BY InitType, StepType, PTL DEF Spec

-----------------------------------------------------------------------------
(* Who may change a review.                                                *)

LEMMA ClobberStep ==
  ASSUME TypeInv, [Next]_vars, NEW s \in ScanIds, ~NotInFlight(s),
         ai'[s].status \notin InFlight
  PROVE  \/ \E w \in Workers : worker[w].run # NoRun /\ ScanOf(w) = s
                               /\ worker'[w] # worker[w]
         \/ reaper' # reaper /\ s \in reaper.found
         \/ \E c \in Callers : caller[c].pc = "undo" /\ caller[c].scan = s
                               /\ caller'[c].pc = "idle"
<1>1. PICK x \in AiRow :
        /\ ai'[s] = x
        /\ \/ Kept(s, x) \/ ClaimsRow(s, x) \/ EndsRow(s, x)
           \/ ReapsRow(s, x) \/ DecidesRow(s, x)
  BY AiMoves DEF AiMove, NotInFlight, TypeInv, TypeOK
<1>2. x.status \notin InFlight
  BY <1>1
<1>3. ~Kept(s, x) /\ ~ClaimsRow(s, x)
  BY <1>2 DEF Kept, ClaimsRow, NotInFlight, InFlight
<1>4. CASE EndsRow(s, x)
  <2>1. PICK w \in Workers :
          /\ worker[w].pc # "idle" /\ ScanOf(w) = s
          /\ worker'[w].pc # worker[w].pc
    BY <1>4 DEF EndsRow
  <2>2. worker[w].run # NoRun
    BY <2>1 DEF TypeInv, RefsInv, RunIds, NoRun
  <2> QED
    BY <2>1, <2>2
<1>5. CASE ReapsRow(s, x)
  BY <1>5 DEF ReapsRow
<1>6. CASE DecidesRow(s, x)
  BY <1>2, <1>6 DEF DecidesRow, InFlight
<1> QED
  BY <1>1, <1>3, <1>4, <1>5, <1>6

(* setStatus never clobbers a run in flight: only the worker of a job of   *)
(* that scan, the reaper, or the decision that could not queue its own run *)
(* settles it.                                                             *)
THEOREM RunsAreNotClobbered == Spec => RunsNotClobbered
<1>1. TypeInv /\ [Next]_vars =>
        [\A s \in ScanIds :
          ~NotInFlight(s) /\ ai'[s].status \notin InFlight =>
              \/ \E w \in Workers : worker[w].run # NoRun /\ ScanOf(w) = s
                                     /\ worker'[w] # worker[w]
              \/ reaper' # reaper /\ s \in reaper.found
              \/ \E c \in Callers : caller[c].pc = "undo"
                                     /\ caller[c].scan = s
                                     /\ caller'[c].pc = "idle"]_vars
  BY ClobberStep
<1> QED
  BY <1>1, TypeCorrect, PTL DEF Spec, RunsNotClobbered

LEMMA LateStep ==
  ASSUME TypeInv, [Next]_vars, NEW s \in ScanIds, NotInFlight(s),
         \A c \in Callers : caller[c].scan = s => caller'[c] = caller[c]
  PROVE  /\ ai'[s].status = ai[s].status /\ ai'[s].id = ai[s].id
         /\ ai'[s].by = ai[s].by /\ ai'[s].parts = ai[s].parts
         /\ ai'[s].tokens \in {ai[s].tokens, "failure"}
         /\ ai[s].raw => ai'[s].raw
<1>1. CASE ai'[s] = ai[s]
  BY <1>1
<1>2. ASSUME NEW x \in AiRow, ai'[s] = x,
             \/ Kept(s, x) \/ ClaimsRow(s, x) \/ EndsRow(s, x)
             \/ ReapsRow(s, x) \/ DecidesRow(s, x)
      PROVE  Kept(s, x)
  BY <1>2 DEF ClaimsRow, EndsRow, ReapsRow, DecidesRow
<1>3. ai \in [ScanIds -> AiRow]
  BY DEF TypeInv, TypeOK
<1> QED
  BY <1>1, <1>2, <1>3, AiMoves DEF AiMove, Kept

(* A settled review only changes by a new decision, whatever a worker that *)
(* lost its lock, or whose run the reaper gave up, answers late; a late    *)
(* failure leaves its tokens and its raw answer on the scan, nothing else. *)
THEOREM LateAnswersChangeNoReview == Spec => LateAnswersAreDropped
<1>1. TypeInv /\ [Next]_vars =>
        [\A s \in ScanIds :
          /\ NotInFlight(s)
          /\ \A c \in Callers : caller[c].scan = s => caller'[c] = caller[c]
          => /\ ai'[s].status = ai[s].status /\ ai'[s].id = ai[s].id
             /\ ai'[s].by = ai[s].by /\ ai'[s].parts = ai[s].parts
             /\ ai'[s].tokens \in {ai[s].tokens, "failure"}
             /\ ai[s].raw => ai'[s].raw]_vars
  BY LateStep
<1> QED
  BY <1>1, TypeCorrect, PTL DEF Spec, LateAnswersAreDropped

-----------------------------------------------------------------------------
(* Tokens: what is spent and not counted yet.                              *)

Others(w) == \A v \in Workers \ {w} : worker'[v] = worker[v]

LEMMA OthersWait ==
  ASSUME TypeInv, NEW w \in Workers, Execute(w) \/ WorkerCrash(w)
  PROVE  Others(w)
<1>1. worker \in [Workers -> Worker]
  BY DEF TypeInv, TypeOK
<1> QED
  BY <1>1 DEF Others, Execute, Claim, SkipNotRunnable, Load, UseProvider,
     NoProvider, CallAnswered, CallFailed, Bill, ShowUsage, KeepRaw, Persist,
     Discard, RecordUsage, RememberInCache, Complete, Fail, OnFailed,
     OnFailedThrows, WorkerCrash, Goto

Lossy == DbMayFail \/ MaxStalls > 0

TokensMove ==
    \/ Unbilled' = Unbilled /\ used' = used /\ calls' = calls
    \/ \E w \in Workers \ Unbilled :
          /\ Unbilled' = Unbilled \cup {w}
          /\ calls' = calls + 1 /\ used' = used
    \/ \E w \in Unbilled :
          /\ Unbilled' = Unbilled \ {w} /\ calls' = calls
          /\ used' = used + 1 \/ (used' = used /\ Lossy)

LEMMA TokensMoves ==
  ASSUME TypeInv, [Next]_vars
  PROVE  TokensMove
<1>0. worker \in [Workers -> Worker] /\ job \in [RunIds -> Job]
  BY DEF TypeInv, TypeOK
<1>1. ASSUME NEW w \in Workers, Execute(w) \/ WorkerCrash(w)
      PROVE  \A v \in Workers : v # w => worker'[v] = worker[v]
  BY <1>1, OthersWait DEF Others
<1>2. ASSUME NEW w \in Workers,
             \/ \E kept \in {"partial", "whole"} : CallAnswered(w, kept)
             \/ \E code \in AiErrorCodes : CallFailed(w, code)
      PROVE  TokensMove
  <2>1. worker[w].pc = "call" /\ worker'[w].pc \in {"persist", "bill"}
    <3>1. PICK x : /\ worker' = [worker EXCEPT ![w] = x]
                   /\ \/ \E kept \in {"partial", "whole"} :
                           x = [worker[w] EXCEPT !.pc = "persist",
                                                 !.kept = kept]
                      \/ \E code \in AiErrorCodes :
                           x = [worker[w] EXCEPT !.pc = "bill",
                                                 !.error = KindOf(code)]
      BY <1>2 DEF CallAnswered, CallFailed
    <3>2. x.pc \in {"persist", "bill"}
      BY <1>0, <3>1 DEF Worker
    <3> QED
      BY <1>0, <1>2, <3>1, <3>2 DEF CallAnswered, CallFailed
  <2>2. Unbilled' = Unbilled \cup {w} /\ w \in Workers \ Unbilled
    BY <1>1, <1>2, <2>1 DEF Unbilled, Execute
  <2>3. calls' = calls + 1 /\ used' = used
    BY <1>2 DEF CallAnswered, CallFailed
  <2> QED
    BY <2>2, <2>3 DEF TokensMove
<1>3. ASSUME NEW w \in Workers, Bill(w) \/ RecordUsage(w) PROVE TokensMove
  <2>1. /\ worker[w].pc \in {"bill", "usage"}
        /\ worker'[w].pc \in {"show", "raw", "failing", "remember", "notify",
                              "finish"}
    BY <1>0, <1>3 DEF Bill, AfterUsage, RecordUsage, Goto, Worker
  <2>2. Unbilled' = Unbilled \ {w} /\ w \in Unbilled
    BY <1>1, <1>3, <2>1 DEF Unbilled, Execute
  <2>3. /\ calls' = calls
        /\ used' = used + 1 \/ (used' = used /\ Lossy)
    BY <1>3 DEF Bill, ShowUsage, KeepRaw, RecordUsage, Lossy
  <2> QED
    BY <2>2, <2>3 DEF TokensMove
<1>4. ASSUME NEW w \in Workers, WorkerCrash(w) PROVE TokensMove
  <2>1. worker'[w].pc = "idle" /\ used' = used /\ calls' = calls
    BY <1>0, <1>4 DEF WorkerCrash, NoWorker, dbVars
  <2>2. Lossy
    <3>1. job[worker[w].run] \in Job
      BY <1>4, WorkerFields DEF WorkerCrash
    <3>2. job[worker[w].run].stalls \in Nat
      BY <3>1 DEF Job
    <3> QED
      BY <1>4, <3>2 DEF WorkerCrash, Lossy
  <2>3. Unbilled' = Unbilled \ {w}
    BY <1>1, <1>4, <2>1 DEF Unbilled
  <2> QED
    BY <2>1, <2>2, <2>3 DEF TokensMove
<1>5. ASSUME NEW w \in Workers, NEW unrecoverable \in BOOLEAN,
             Fail(w, unrecoverable)
      PROVE  TokensMove
  <2>1. worker'[w].pc \in {"idle", "onFailed"}
    <3>1. CASE worker' = [worker EXCEPT ![w] = NoWorker]
      BY <1>0, <3>1 DEF NoWorker
    <3>2. PICK x : x = [NoWorker EXCEPT !.pc = "onFailed",
                                        !.run = worker[w].run]
      OBVIOUS
    <3>3. x.pc = "onFailed"
      BY <3>2 DEF NoWorker
    <3>4. CASE worker' = [worker EXCEPT ![w] = x]
      BY <1>0, <3>3, <3>4
    <3> QED
      BY <1>5, <3>1, <3>2, <3>4, FailWorker
  <2>2. used' = used /\ calls' = calls
    BY <1>5 DEF Fail, dbVars
  <2>3. w \in Unbilled => Lossy
    BY <1>5 DEF Fail, MayFail, Unbilled, Lossy
  <2>4. Unbilled' = Unbilled \ {w}
    BY <1>1, <1>5, <2>1 DEF Unbilled, Execute
  <2> QED
    BY <2>2, <2>3, <2>4 DEF TokensMove
<1>6. ASSUME NEW w \in Workers,
             \/ Claim(w) \/ SkipNotRunnable(w) \/ Load(w) \/ UseProvider(w)
             \/ NoProvider(w) \/ RememberInCache(w) \/ Complete(w)
             \/ ShowUsage(w) \/ KeepRaw(w)
             \/ OnFailed(w) \/ OnFailedThrows(w)
      PROVE  TokensMove
  <2>1. /\ worker[w].pc \notin {"bill", "persist", "usage"}
        /\ worker'[w].pc \notin {"bill", "persist", "usage"}
    <3>1. CASE Load(w) \/ UseProvider(w)
      <4>1. PICK x : /\ worker' = [worker EXCEPT ![w] = x]
                     /\ \/ x = [worker[w] EXCEPT !.pc = "provider",
                                   !.claimed = ai[ScanOf(w)].id.model,
                                   !.using = [model |-> 0,
                                              locale |-> settings.locale]]
                        \/ x = [worker[w] EXCEPT !.pc = "call",
                                   !.using.model = settings.model]
        BY <3>1 DEF Load, UseProvider
      <4>2. x.pc \in {"provider", "call"}
        BY <1>0, <4>1 DEF Worker
      <4> QED
        BY <1>0, <3>1, <4>1, <4>2 DEF Load, UseProvider
    <3>2. CASE \/ Claim(w) \/ SkipNotRunnable(w) \/ NoProvider(w)
               \/ RememberInCache(w) \/ ShowUsage(w) \/ KeepRaw(w)
      BY <1>0, <3>2 DEF Claim, SkipNotRunnable, NoProvider, RememberInCache,
         ShowUsage, KeepRaw, AfterUsage, Goto, Worker
    <3>3. CASE Complete(w) \/ OnFailed(w) \/ OnFailedThrows(w)
      BY <1>0, <3>3 DEF Complete, OnFailed, OnFailedThrows, NoWorker
    <3> QED
      BY <1>6, <3>1, <3>2, <3>3
  <2>2. Unbilled' = Unbilled
    BY <1>1, <1>6, <2>1 DEF Unbilled, Execute
  <2>3. used' = used /\ calls' = calls
    BY <1>6 DEF Claim, SkipNotRunnable, Load, UseProvider, NoProvider,
       RememberInCache, Complete, ShowUsage, KeepRaw,
       OnFailed, OnFailedThrows, dbVars
  <2> QED
    BY <2>2, <2>3 DEF TokensMove
<1>7. ASSUME NEW w \in Workers, Persist(w) \/ Discard(w) PROVE TokensMove
  <2>1. worker[w].pc = "persist" /\ worker'[w].pc = "usage"
    BY <1>0, <1>7 DEF Persist, Discard, Goto, Worker
  <2>2. Unbilled' = Unbilled
    BY <1>1, <1>7, <2>1 DEF Unbilled, Execute
  <2>3. used' = used /\ calls' = calls
    BY <1>7 DEF Persist, Discard, dbVars
  <2> QED
    BY <2>2, <2>3 DEF TokensMove
<1>8. ASSUME NEW w \in Workers, NEW j \in RunIds, Pick(w, j)
      PROVE  TokensMove
  <2>1. /\ worker[w].pc = "idle"
        /\ worker'[w].pc \in {"stalled", "claim"}
        /\ \A v \in Workers : v # w => worker'[v] = worker[v]
    BY <1>0, <1>8 DEF Pick, NoWorker
  <2>2. Unbilled' = Unbilled
    BY <2>1 DEF Unbilled
  <2> QED
    BY <1>8, <2>2 DEF Pick, dbVars, TokensMove
<1>9. ASSUME NEW j \in RunIds, Stalled(j) PROVE TokensMove
  <2>1. ASSUME NEW v \in Workers PROVE worker'[v].pc = worker[v].pc
    <3>1. PICK x : x = [worker[v] EXCEPT !.lock = FALSE]
      OBVIOUS
    <3>2. x.pc = worker[v].pc
      BY <1>0, <3>1 DEF Worker
    <3>3. worker'[v] = x \/ worker'[v] = worker[v]
      BY <1>9, <3>1 DEF Stalled
    <3> QED
      BY <3>2, <3>3
  <2>2. Unbilled' = Unbilled
    BY <2>1 DEF Unbilled
  <2> QED
    BY <1>9, <2>2 DEF Stalled, dbVars, TokensMove
<1>10. ASSUME NEW c \in Callers, Arrive(c) \/ Handle(c) \/ CallerCrash(c)
       PROVE  UNCHANGED <<worker, used, calls>>
  BY <1>10 DEF Arrive, Handle, Decide, Settle, ReadBase, CopyBase,
     CheckBudget, CacheHit, CacheMiss, CopyCache, ClaimRun, AlreadyClaimed,
     AddJob, AddThrows, UndoClaim, CallerCrash, FinishStatic, Regenerate,
     dbVars
<1>11. CASE \/ UNCHANGED vars \/ ChangeSettings
            \/ \E s \in ScanIds : GraceElapses(s) \/ StartScan(s) \/ Reap(s)
            \/ ReaperFind \/ ReaperJobs \/ ReaperFails
  BY <1>11 DEF vars, dbVars, ChangeSettings, GraceElapses, StartScan, Reap,
     ReaperFind, ReaperJobs, ReaperFails, Unbilled, TokensMove
<1>12. UNCHANGED <<worker, used, calls>> => TokensMove
  BY DEF Unbilled, TokensMove
<1> QED
  BY <1>2, <1>3, <1>4, <1>5, <1>6, <1>7, <1>8, <1>9, <1>10, <1>11, <1>12
     DEF Next, Execute, Sweep

LEMMA UnbilledFinite ==
  /\ IsFiniteSet(Unbilled) /\ Cardinality(Unbilled) \in Nat
  /\ \A w \in Unbilled : /\ Cardinality(Unbilled) # 0
                         /\ Cardinality(Unbilled \ {w}) =
                               Cardinality(Unbilled) - 1
  /\ \A w \in Workers \ Unbilled :
        Cardinality(Unbilled \cup {w}) = Cardinality(Unbilled) + 1
<1>1. IsFiniteSet(Unbilled)
  BY FS_Subset DEF Unbilled
<1>2. Cardinality(Unbilled) \in Nat
  BY <1>1, FS_CardinalityType
<1>3. ASSUME NEW w \in Unbilled
      PROVE  /\ Cardinality(Unbilled) # 0
             /\ Cardinality(Unbilled \ {w}) = Cardinality(Unbilled) - 1
  BY <1>1, FS_EmptySet, FS_RemoveElement
<1>4. ASSUME NEW w \in Workers \ Unbilled
      PROVE  Cardinality(Unbilled \cup {w}) = Cardinality(Unbilled) + 1
  BY <1>1, <1>4, FS_AddElement
<1> QED
  BY <1>1, <1>2, <1>3, <1>4

LEMMA CountStep ==
  ASSUME TypeInv, [Next]_vars
  PROVE  /\ NeverOvercounted => NeverOvercounted'
         /\ ~Lossy /\ TokensAccounted => TokensAccounted'
<1>0. used \in Nat /\ calls \in Nat /\ Cardinality(Unbilled) \in Nat
  BY UnbilledFinite DEF TypeInv, TypeOK
<1>1. PICK count, left : count = Cardinality(Unbilled)
                         /\ left = Cardinality(Unbilled')
  OBVIOUS
<1>2. \/ left = count /\ used' = used /\ calls' = calls
      \/ left = count + 1 /\ calls' = calls + 1 /\ used' = used
      \/ /\ left = count - 1 /\ calls' = calls
         /\ used' = used + 1 \/ (used' = used /\ Lossy)
  BY <1>1, TokensMoves, UnbilledFinite DEF TokensMove
<1>3. Cardinality(Unbilled)' = left
  BY <1>1
<1> QED
  BY <1>0, <1>1, <1>2, <1>3 DEF NeverOvercounted, TokensAccounted

LEMMA CountInit == Init => NeverOvercounted /\ TokensAccounted
<1> SUFFICES ASSUME Init PROVE NeverOvercounted /\ TokensAccounted
  OBVIOUS
<1>1. Unbilled = {}
  BY DEF Init, Unbilled, NoWorker
<1>2. used = 0 /\ calls = 0
  BY DEF Init
<1> QED
  BY <1>1, <1>2, FS_EmptySet DEF NeverOvercounted, TokensAccounted

(* However often a job is retried, or run by two workers at once, no token *)
(* is counted twice: the usage recorded and the replies not recorded yet   *)
(* never exceed what was asked for.                                        *)
THEOREM TokensNeverOvercounted == Spec => []NeverOvercounted
<1>1. TypeInv /\ NeverOvercounted /\ [Next]_vars => NeverOvercounted'
  BY CountStep
<1> QED
  BY <1>1, CountInit, TypeCorrect, PTL DEF Spec

(* While no worker dies or stalls, and no write is refused, every token    *)
(* that was spent is counted: those of failed attempts and of answers that *)
(* came too late included.                                                 *)
THEOREM TokensAreAccounted ==
  ASSUME MaxStalls = 0, ~DbMayFail
  PROVE  Spec => []TokensAccounted
<1>1. ~Lossy
  BY DEF Lossy
<1>2. TypeInv /\ TokensAccounted /\ [Next]_vars => TokensAccounted'
  BY <1>1, CountStep
<1> QED
  BY <1>2, CountInit, TypeCorrect, PTL DEF Spec

-----------------------------------------------------------------------------
(* One run per scan.  While no lock is lost, the reaper is away and writes *)
(* succeed, the claim of a run is held by one thing at a time: the         *)
(* decision that made it, its job while it waits, or the worker that has   *)
(* the job, until the review is settled.                                   *)
Calm == MaxStalls = 0 /\ ~ReaperRuns /\ ~DbMayFail

Working == {"claim", "stalled", "load", "provider", "call", "bill", "show",
            "raw", "failing", "persist"}
Asking == {"load", "provider", "call", "persist"}
JobHolds(j) == job[j].state \in {"waiting", "delayed"}
WorkerHolds(w) == worker[w].pc \in Working \cup {"onFailed"}
Locked(w) == worker[w].pc \notin {"idle", "onFailed"}

HeldByJob(s) == \E j \in RunIds : JobHolds(j) /\ job[j].scan = s
HeldByWorker(s) == \E w \in Workers : WorkerHolds(w) /\ ScanOf(w) = s
HeldByCaller(s) == \E c \in Callers : Adding(c) /\ caller[c].scan = s
Held(s) == HeldByJob(s) \/ HeldByWorker(s) \/ HeldByCaller(s)

LockInv ==
    /\ \A w \in Workers : Locked(w) =>
          worker[w].lock /\ job[worker[w].run].state = "active"
    /\ \A v, w \in Workers :
          Locked(v) /\ Locked(w) /\ worker[v].run = worker[w].run => v = w

AloneInv ==
    /\ \A i, j \in RunIds :
          JobHolds(i) /\ JobHolds(j) /\ job[i].scan = job[j].scan => i = j
    /\ \A v, w \in Workers :
          WorkerHolds(v) /\ WorkerHolds(w) /\ ScanOf(v) = ScanOf(w) => v = w
    /\ \A c, d \in Callers :
          Adding(c) /\ Adding(d) /\ caller[c].scan = caller[d].scan => c = d
    /\ \A s \in ScanIds : /\ ~(HeldByJob(s) /\ HeldByWorker(s))
                          /\ ~(HeldByJob(s) /\ HeldByCaller(s))
                          /\ ~(HeldByWorker(s) /\ HeldByCaller(s))

HeldInv ==
    /\ \A s \in ScanIds : Held(s) => ~NotInFlight(s)
    /\ \A w \in Workers : worker[w].pc \in Asking =>
          ai[ScanOf(w)].status = "RUNNING"

CalmInv == LockInv /\ AloneInv /\ HeldInv /\ reaper.pc = "idle"

(* A review in flight is held, unless its scan took over a status.         *)
FoundInv == \A s \in ScanIds \ Unchanged : ~NotInFlight(s) => Held(s)

SameStatus(s) == ai'[s].status = ai[s].status
OtherCallers(c) == \A d \in Callers \ {c} : caller'[d] = caller[d]

(* The steps of a calm system, by what they do to the claims.              *)
Nothing == /\ UNCHANGED <<job, caller, worker>>
           /\ \A s \in ScanIds : SameStatus(s)

Goes(w) ==
    /\ UNCHANGED <<job, caller>> /\ Others(w)
    /\ worker[w].pc \in Working /\ worker'[w].pc \in Working
    /\ worker'[w].run = worker[w].run /\ worker'[w].lock = worker[w].lock
    /\ \A s \in ScanIds : \/ SameStatus(s)
                          \/ s = ScanOf(w) /\ ai'[s].status = "RUNNING"
    /\ worker'[w].pc \in Asking => ai'[ScanOf(w)].status = "RUNNING"

Ends(w) ==
    /\ UNCHANGED caller /\ Others(w)
    /\ worker[w].pc # "idle"
    /\ worker'[w].pc \notin Working \cup {"onFailed"}
    /\ \/ job' = job
       \/ /\ ~WorkerHolds(w) /\ worker'[w].pc = "idle"
          /\ \E x \in Job : /\ job' = [job EXCEPT ![worker[w].run] = x]
                            /\ x.state = "completed"
    /\ worker'[w].pc # "idle" =>
          /\ Locked(w) /\ worker'[w].run = worker[w].run
          /\ worker'[w].lock = worker[w].lock
    /\ \A s \in ScanIds : \/ SameStatus(s)
                          \/ /\ s = ScanOf(w) /\ WorkerHolds(w)
                             /\ ai'[s].status \notin InFlight
    /\ WorkerHolds(w) => ai'[ScanOf(w)].status \notin InFlight

Gives(w) ==
    /\ UNCHANGED <<ai, caller>> /\ Others(w)
    /\ worker[w].pc \in Working
    /\ \E x \in Job :
          /\ job' = [job EXCEPT ![worker[w].run] = x] /\ x.scan = ScanOf(w)
          /\ \/ x.state = "delayed" /\ worker'[w].pc = "idle"
             \/ /\ x.state = "failed" /\ worker'[w].pc = "onFailed"
                /\ worker'[w].run = worker[w].run

Picks(w, j) ==
    /\ UNCHANGED <<ai, caller>> /\ Others(w)
    /\ worker[w].pc = "idle" /\ worker'[w].pc \in {"claim", "stalled"}
    /\ worker'[w].run = j /\ worker'[w].lock /\ JobHolds(j)
    /\ \E x \in Job : /\ job' = [job EXCEPT ![j] = x]
                      /\ x.state = "active" /\ x.scan = job[j].scan

Quiet(c) ==
    /\ UNCHANGED <<job, worker>> /\ OtherCallers(c)
    /\ Adding(c)' => Adding(c) /\ caller'[c].scan = caller[c].scan
    /\ Adding(c) => Adding(c)' \/ CallerMayCrash
    /\ \A s \in ScanIds : \/ SameStatus(s)
                          \/ /\ NotInFlight(s)
                             /\ ai'[s].status \in InFlight => s \in Unchanged

Takes(c) ==
    /\ UNCHANGED <<job, worker>> /\ OtherCallers(c)
    /\ ~Adding(c) /\ Adding(c)' /\ caller'[c].scan = caller[c].scan
    /\ caller[c].scan \in ScanIds /\ NotInFlight(caller[c].scan)
    /\ ai'[caller[c].scan].status = "QUEUED"
    /\ \A s \in ScanIds : s # caller[c].scan => SameStatus(s)

Adds(c) ==
    /\ UNCHANGED <<ai, worker>> /\ OtherCallers(c)
    /\ Adding(c) /\ ~Adding(c)'
    /\ caller[c].run \in RunIds /\ job[caller[c].run].state = "none"
    /\ \E x \in Job :
          /\ job' = [job EXCEPT ![caller[c].run] = x]
          /\ x.state = "waiting" /\ x.scan = caller[c].scan

Undoes(c) ==
    /\ UNCHANGED <<job, worker>> /\ OtherCallers(c)
    /\ Adding(c) /\ ~Adding(c)'
    /\ ai'[caller[c].scan].status = "FAILED"
    /\ \A s \in ScanIds : s # caller[c].scan => SameStatus(s)

LEMMA RowMoves ==
  ASSUME TypeInv, CalmInv, [Next]_vars, NEW s \in ScanIds
  PROVE  \/ SameStatus(s) \/ ClaimsRow(s, ai'[s]) \/ EndsRow(s, ai'[s])
         \/ DecidesRow(s, ai'[s])
<1>1. ai \in [ScanIds -> AiRow]
  BY DEF TypeInv, TypeOK
<1>2. ASSUME NEW t \in ScanIds, NEW x \in AiRow, ai' = [ai EXCEPT ![t] = x],
             \/ Kept(t, x) \/ ClaimsRow(t, x) \/ EndsRow(t, x)
             \/ ReapsRow(t, x) \/ DecidesRow(t, x)
      PROVE  \/ SameStatus(s) \/ ClaimsRow(s, ai'[s]) \/ EndsRow(s, ai'[s])
             \/ DecidesRow(s, ai'[s])
  <2>1. CASE s # t
    BY <1>1, <1>2, <2>1 DEF SameStatus
  <2>2. CASE s = t
    <3>1. ai'[s] = x
      BY <1>1, <1>2, <2>2
    <3>2. ~ReapsRow(t, x)
      BY DEF CalmInv, ReapsRow
    <3> QED
      BY <1>2, <2>2, <3>1, <3>2 DEF Kept, SameStatus
  <2> QED
    BY <2>1, <2>2
<1> QED
  BY <1>2, AiMoves DEF AiMove, SameStatus

LEMMA WorkerRows ==
  ASSUME TypeInv, CalmInv, [Next]_vars, NEW w \in Workers, Others(w),
         caller' = caller, NEW s \in ScanIds, ~SameStatus(s)
  PROVE  /\ s = ScanOf(w)
         /\ \/ /\ worker[w].pc = "claim" /\ worker'[w].pc = "load"
               /\ ai'[s].status = "RUNNING"
            \/ /\ worker[w].pc \in {"provider", "persist", "onFailed"}
               /\ worker'[w].pc \in {"notify", "usage", "idle"}
               /\ ai'[s].status \notin InFlight
<1>1. ~DecidesRow(s, ai'[s])
  BY DEF DecidesRow
<1>2. CASE ClaimsRow(s, ai'[s])
  BY <1>2 DEF ClaimsRow, Others
<1>3. CASE EndsRow(s, ai'[s])
  BY <1>3 DEF EndsRow, Others
<1> QED
  BY <1>1, <1>2, <1>3, RowMoves

LEMMA Goings ==
  ASSUME TypeInv, CalmInv, [Next]_vars, NEW w \in Workers,
         \/ Claim(w) \/ Load(w) \/ UseProvider(w)
         \/ \E kept \in {"partial", "whole"} : CallAnswered(w, kept)
         \/ \E code \in AiErrorCodes : CallFailed(w, code)
         \/ Bill(w) \/ ShowUsage(w) \/ KeepRaw(w)
  PROVE  Goes(w)
<1>0. /\ worker \in [Workers -> Worker] /\ ai \in [ScanIds -> AiRow]
  BY DEF TypeInv, TypeOK
<1>1. Others(w)
  BY OthersWait DEF Execute
<1>2. UNCHANGED <<job, caller>>
  BY DEF Claim, Load, UseProvider, CallAnswered, CallFailed, Bill,
     ShowUsage, KeepRaw
<1>3. /\ worker'[w].run = worker[w].run /\ worker'[w].lock = worker[w].lock
      /\ \/ worker[w].pc = "claim" /\ worker'[w].pc = "load"
         \/ worker[w].pc = "load" /\ worker'[w].pc = "provider"
         \/ worker[w].pc = "provider" /\ worker'[w].pc = "call"
         \/ worker[w].pc = "call" /\ worker'[w].pc = "persist"
         \/ worker[w].pc = "call" /\ worker'[w].pc = "bill"
         \/ /\ worker[w].pc \in {"bill", "show", "raw"}
            /\ worker'[w].pc \in {"show", "raw", "failing"}
  <2>1. CASE Claim(w)
    <3>1. PICK x : x = [worker[w] EXCEPT !.pc = "load"]
      OBVIOUS
    <3>2. worker' = [worker EXCEPT ![w] = x]
      BY <1>0, <2>1, <3>1 DEF Claim, Goto
    <3>3. x.pc = "load" /\ x.run = worker[w].run /\ x.lock = worker[w].lock
      BY <1>0, <3>1 DEF Worker
    <3> QED
      BY <1>0, <2>1, <3>2, <3>3 DEF Claim
  <2>2. CASE Load(w)
    <3>1. PICK x : x = [worker[w] EXCEPT !.pc = "provider",
                          !.claimed = ai[ScanOf(w)].id.model,
                          !.using = [model |-> 0,
                                     locale |-> settings.locale]]
      OBVIOUS
    <3>2. worker' = [worker EXCEPT ![w] = x]
      BY <2>2, <3>1 DEF Load
    <3>3. /\ x.pc = "provider" /\ x.run = worker[w].run
          /\ x.lock = worker[w].lock
      BY <1>0, <3>1 DEF Worker
    <3> QED
      BY <1>0, <2>2, <3>2, <3>3 DEF Load
  <2>3. CASE UseProvider(w)
    <3>1. PICK x : x = [worker[w] EXCEPT !.pc = "call",
                                         !.using.model = settings.model]
      OBVIOUS
    <3>2. worker' = [worker EXCEPT ![w] = x]
      BY <2>3, <3>1 DEF UseProvider
    <3>3. x.pc = "call" /\ x.run = worker[w].run /\ x.lock = worker[w].lock
      BY <1>0, <3>1 DEF Worker
    <3> QED
      BY <1>0, <2>3, <3>2, <3>3 DEF UseProvider
  <2>4. ASSUME NEW kept \in {"partial", "whole"}, CallAnswered(w, kept)
        PROVE  /\ worker'[w].run = worker[w].run
               /\ worker'[w].lock = worker[w].lock
               /\ worker[w].pc = "call" /\ worker'[w].pc = "persist"
    <3>1. PICK x : x = [worker[w] EXCEPT !.pc = "persist", !.kept = kept]
      OBVIOUS
    <3>2. worker' = [worker EXCEPT ![w] = x]
      BY <2>4, <3>1 DEF CallAnswered
    <3>3. x.pc = "persist" /\ x.run = worker[w].run /\ x.lock = worker[w].lock
      BY <1>0, <3>1 DEF Worker
    <3> QED
      BY <1>0, <2>4, <3>2, <3>3 DEF CallAnswered
  <2>5. ASSUME NEW code \in AiErrorCodes, CallFailed(w, code)
        PROVE  /\ worker'[w].run = worker[w].run
               /\ worker'[w].lock = worker[w].lock
               /\ worker[w].pc = "call" /\ worker'[w].pc = "bill"
    <3>1. PICK x : x = [worker[w] EXCEPT !.pc = "bill",
                                         !.error = KindOf(code)]
      OBVIOUS
    <3>2. worker' = [worker EXCEPT ![w] = x]
      BY <2>5, <3>1 DEF CallFailed
    <3>3. x.pc = "bill" /\ x.run = worker[w].run /\ x.lock = worker[w].lock
      BY <1>0, <3>1 DEF Worker
    <3> QED
      BY <1>0, <2>5, <3>2, <3>3 DEF CallFailed
  <2>6. CASE Bill(w) \/ ShowUsage(w) \/ KeepRaw(w)
    <3>1. PICK pc \in {"show", "raw", "failing"} : Goto(w, pc)
      BY <2>6 DEF Bill, ShowUsage, KeepRaw, AfterUsage
    <3>2. PICK x : x = [worker[w] EXCEPT !.pc = pc]
      OBVIOUS
    <3>3. worker' = [worker EXCEPT ![w] = x]
      BY <1>0, <3>1, <3>2 DEF Goto
    <3>4. x.pc = pc /\ x.run = worker[w].run /\ x.lock = worker[w].lock
      BY <1>0, <3>2 DEF Worker
    <3> QED
      BY <1>0, <2>6, <3>3, <3>4 DEF Bill, ShowUsage, KeepRaw
  <2> QED
    BY <2>1, <2>2, <2>3, <2>4, <2>5, <2>6
<1>4. worker[w].pc \in Working /\ worker'[w].pc \in Working
  BY <1>3 DEF Working
<1>5. ASSUME NEW s \in ScanIds
      PROVE  SameStatus(s) \/ (s = ScanOf(w) /\ ai'[s].status = "RUNNING")
  BY <1>1, <1>2, <1>3, WorkerRows
<1>6. ASSUME worker'[w].pc \in Asking
      PROVE  ai'[ScanOf(w)].status = "RUNNING"
  <2>1. ScanOf(w) \in ScanIds
    <3>1. worker[w].pc # "idle"
      BY <1>3
    <3> QED
      BY <3>1, WorkerFields
  <2>2. CASE worker[w].pc = "claim"
    <3>1. Claim(w)
      BY <2>2 DEF Load, UseProvider, CallAnswered, CallFailed, Bill,
         ShowUsage, KeepRaw
    <3>2. PICK s : s = ScanOf(w)
      OBVIOUS
    <3>3. ai' = [ai EXCEPT ![s] = [ai[s] EXCEPT !.status = "RUNNING",
                                                !.old = FALSE]]
      BY <3>1, <3>2 DEF Claim
    <3>4. PICK x : x = [ai[s] EXCEPT !.status = "RUNNING", !.old = FALSE]
      OBVIOUS
    <3>5. x.status = "RUNNING"
      BY <1>0, <2>1, <3>2, <3>4 DEF AiRow
    <3> QED
      BY <1>0, <2>1, <3>2, <3>3, <3>4, <3>5
  <2>3. CASE worker[w].pc # "claim"
    <3>1. worker[w].pc \in Asking
      BY <1>3, <1>6, <2>3 DEF Asking
    <3>2. ai[ScanOf(w)].status = "RUNNING"
      BY <3>1 DEF CalmInv, HeldInv
    <3> QED
      BY <1>5, <2>1, <3>2 DEF SameStatus
  <2> QED
    BY <2>2, <2>3
<1> QED
  BY <1>1, <1>2, <1>3, <1>4, <1>5, <1>6 DEF Goes

LEMMA Endings ==
  ASSUME TypeInv, CalmInv, [Next]_vars, NEW w \in Workers,
         \/ NoProvider(w) \/ Persist(w) \/ OnFailed(w)
         \/ RecordUsage(w) \/ RememberInCache(w) \/ Complete(w)
  PROVE  Ends(w)
<1>0. /\ worker \in [Workers -> Worker] /\ ai \in [ScanIds -> AiRow]
      /\ job \in [RunIds -> Job]
  BY DEF TypeInv, TypeOK
<1>1. Others(w)
  BY OthersWait DEF Execute
<1>2. caller' = caller /\ worker[w].pc # "idle"
  BY DEF NoProvider, Persist, OnFailed, RecordUsage, RememberInCache, Complete
<1>3. /\ worker'[w].pc \in {"notify", "usage", "remember", "finish", "idle"}
      /\ worker'[w].pc # "idle" => /\ worker'[w].run = worker[w].run
                                   /\ worker'[w].lock = worker[w].lock
                                   /\ ~OnFailed(w) /\ ~Complete(w)
  <2>1. PICK pc \in {"notify", "usage", "remember", "finish", "idle"} :
          /\ worker'[w].pc = pc
          /\ pc # "idle" => /\ worker'[w].run = worker[w].run
                            /\ worker'[w].lock = worker[w].lock
    <3>1. CASE NoProvider(w) \/ Persist(w) \/ RecordUsage(w)
               \/ RememberInCache(w)
      <4>1. PICK pc \in {"notify", "usage", "remember", "finish"} :
              Goto(w, pc)
        BY <1>0, <3>1 DEF NoProvider, Persist, RecordUsage, RememberInCache,
           Worker
      <4>2. PICK x : x = [worker[w] EXCEPT !.pc = pc]
        OBVIOUS
      <4>3. worker' = [worker EXCEPT ![w] = x]
        BY <1>0, <4>1, <4>2 DEF Goto
      <4>4. x.pc = pc /\ x.run = worker[w].run /\ x.lock = worker[w].lock
        BY <1>0, <4>2 DEF Worker
      <4> QED
        BY <1>0, <4>1, <4>3, <4>4
    <3>2. CASE OnFailed(w) \/ Complete(w)
      BY <1>0, <3>2 DEF OnFailed, Complete, NoWorker
    <3> QED
      BY <3>1, <3>2
  <2>2. OnFailed(w) \/ Complete(w) => worker'[w].pc = "idle"
    BY <1>0 DEF OnFailed, Complete, NoWorker
  <2> QED
    BY <2>1, <2>2
<1>4. \/ job' = job
      \/ /\ ~WorkerHolds(w) /\ worker'[w].pc = "idle"
         /\ \E x \in Job : /\ job' = [job EXCEPT ![worker[w].run] = x]
                           /\ x.state = "completed"
  <2>1. CASE Complete(w) /\ worker[w].lock
    <3>1. PICK j : j = worker[w].run
      OBVIOUS
    <3>2. j \in RunIds
      BY <1>2, <3>1, WorkerFields
    <3>3. PICK x : x = [job[j] EXCEPT !.state = "completed"]
      OBVIOUS
    <3>4. x \in Job /\ x.state = "completed"
      BY <1>0, <3>2, <3>3 DEF Job
    <3>5. job' = [job EXCEPT ![j] = x]
      BY <1>0, <2>1, <3>1, <3>3 DEF Complete
    <3>6. ~WorkerHolds(w)
      BY <2>1 DEF Complete, WorkerHolds, Working
    <3>7. worker'[w].pc = "idle"
      BY <1>0, <2>1 DEF Complete, NoWorker
    <3> QED
      BY <3>1, <3>4, <3>5, <3>6, <3>7
  <2>2. CASE ~(Complete(w) /\ worker[w].lock)
    BY <2>2 DEF NoProvider, Persist, OnFailed, RecordUsage, RememberInCache,
       Complete
  <2> QED
    BY <2>1, <2>2
<1>5. worker'[w].pc # "idle" => Locked(w)
  <2>1. \/ worker[w].pc # "onFailed" \/ OnFailed(w)
    BY DEF NoProvider, Persist, RecordUsage, RememberInCache, Complete
  <2> QED
    BY <1>2, <1>3, <2>1 DEF Locked
<1>6. ASSUME NEW s \in ScanIds, ~SameStatus(s)
      PROVE  s = ScanOf(w) /\ WorkerHolds(w) /\ ai'[s].status \notin InFlight
  BY <1>1, <1>2, <1>3, <1>6, WorkerRows DEF WorkerHolds, Working
<1>7. ASSUME WorkerHolds(w) PROVE ai'[ScanOf(w)].status \notin InFlight
  <2>1. PICK s : s = ScanOf(w)
    OBVIOUS
  <2>2. s \in ScanIds
    BY <1>2, <2>1, WorkerFields
  <2>3. CASE NoProvider(w) \/ OnFailed(w)
    <3>1. ~NotInFlight(s)
      BY <1>7, <2>1, <2>2 DEF CalmInv, HeldInv, Held, HeldByWorker
    <3>2. NoProvider(w) => ai[s].status = "RUNNING"
      BY <2>1 DEF NoProvider, CalmInv, HeldInv, Asking
    <3>3. PICK status \in {"BLOCKED", "FAILED"} :
            ai' = [ai EXCEPT ![s].status = status]
      BY <2>1, <2>3, <3>1, <3>2
         DEF NoProvider, OnFailed, MayGiveUp, NotInFlight
    <3>4. PICK x : x = [ai[s] EXCEPT !.status = status]
      OBVIOUS
    <3>5. x.status = status /\ ai' = [ai EXCEPT ![s] = x]
      BY <1>0, <2>2, <3>3, <3>4 DEF AiRow
    <3> QED
      BY <1>0, <2>1, <2>2, <3>3, <3>5 DEF InFlight
  <2>4. CASE Persist(w)
    <3>1. PICK x : /\ ai' = [ai EXCEPT ![s] = x]
                   /\ x = Stored(ai[s], "DONE", worker[w].using,
                                 worker[w].using, {worker[w].using},
                                 job[worker[w].run].merge)
      BY <2>1, <2>4 DEF Persist
    <3>2. x.status = "DONE"
      BY <1>0, <2>2, <3>1 DEF Stored, AiRow
    <3> QED
      BY <1>0, <2>1, <2>2, <3>1, <3>2 DEF InFlight
  <2>5. ~(RecordUsage(w) \/ RememberInCache(w) \/ Complete(w))
    BY <1>7 DEF RecordUsage, RememberInCache, Complete, WorkerHolds, Working
  <2> QED
    BY <2>3, <2>4, <2>5
<1>8. worker'[w].pc \notin Working \cup {"onFailed"}
  BY <1>3 DEF Working
<1> QED
  BY <1>1, <1>2, <1>3, <1>4, <1>5, <1>6, <1>7, <1>8 DEF Ends

LEMMA Givings ==
  ASSUME TypeInv, CalmInv, Calm, NEW w \in Workers,
         NEW unrecoverable \in BOOLEAN, Fail(w, unrecoverable)
  PROVE  Gives(w)
<1>0. /\ worker \in [Workers -> Worker] /\ job \in [RunIds -> Job]
  BY DEF TypeInv, TypeOK
<1>1. Others(w)
  BY OthersWait DEF Execute
<1>2. worker[w].pc \in Working
  BY DEF Fail, MayFail, Working, Calm
<1>3. worker[w].lock /\ worker[w].pc # "idle"
  BY <1>2 DEF Working, Locked, CalmInv, LockInv
<1>4. PICK j : j = worker[w].run
  OBVIOUS
<1>5. j \in RunIds /\ job[j] \in Job /\ job[j].scan = ScanOf(w)
  BY <1>3, <1>4, WorkerFields DEF ScanOf
<1>6. PICK made : made = job[j].made + 1
  OBVIOUS
<1>7. made \in Nat
  BY <1>5, <1>6 DEF Job
<1>8. PICK final \in BOOLEAN :
        final = (unrecoverable \/ job[j].made + 1 >= Attempts)
  OBVIOUS
<1>9. PICK state : state = IF final THEN "failed" ELSE "delayed"
  OBVIOUS
<1>10. job' = [job EXCEPT ![j] = [@ EXCEPT !.made = made, !.state = state]]
  BY <1>3, <1>4, <1>6, <1>8, <1>9 DEF Fail
<1>11. PICK x : x = [job[j] EXCEPT !.made = made, !.state = state]
  OBVIOUS
<1>12. job' = [job EXCEPT ![j] = x]
  BY <1>10, <1>11
<1>13. x \in Job /\ x.state = state /\ x.scan = ScanOf(w)
  BY <1>5, <1>7, <1>9, <1>11 DEF Job
<1>14. worker' = [worker EXCEPT ![w] =
                    IF final
                    THEN [NoWorker EXCEPT !.pc = "onFailed", !.run = j]
                    ELSE NoWorker]
  BY <1>3, <1>4, <1>8 DEF Fail
<1>15. PICK y : y = [NoWorker EXCEPT !.pc = "onFailed", !.run = j]
  OBVIOUS
<1>16. y.pc = "onFailed" /\ y.run = j /\ NoWorker.pc = "idle"
  BY <1>15 DEF NoWorker
<1>17. \/ state = "delayed" /\ worker'[w].pc = "idle"
       \/ state = "failed" /\ worker'[w].pc = "onFailed"
          /\ worker'[w].run = j
  <2>1. CASE final
    <3>1. worker' = [worker EXCEPT ![w] = y]
      BY <1>14, <1>15, <2>1
    <3> QED
      BY <1>0, <1>9, <1>16, <2>1, <3>1
  <2>2. CASE ~final
    BY <1>0, <1>9, <1>14, <1>16, <2>2
  <2> QED
    BY <2>1, <2>2
<1>18. UNCHANGED <<ai, caller>>
  BY DEF Fail, dbVars
<1> QED
  BY <1>1, <1>2, <1>4, <1>12, <1>13, <1>17, <1>18 DEF Gives

LEMMA Pickings ==
  ASSUME TypeInv, NEW w \in Workers, NEW j \in RunIds, Pick(w, j)
  PROVE  Picks(w, j)
<1>0. /\ worker \in [Workers -> Worker] /\ job \in [RunIds -> Job]
  BY DEF TypeInv, TypeOK
<1>1. PICK pc \in {"claim", "stalled"} :
        worker' = [worker EXCEPT ![w] =
                     [NoWorker EXCEPT !.pc = pc, !.run = j, !.lock = TRUE]]
  BY DEF Pick
<1>2. PICK y : y = [NoWorker EXCEPT !.pc = pc, !.run = j, !.lock = TRUE]
  OBVIOUS
<1>3. y.pc = pc /\ y.run = j /\ y.lock = TRUE
  BY <1>2 DEF NoWorker
<1>4. worker' = [worker EXCEPT ![w] = y]
  BY <1>1, <1>2
<1>5. /\ worker'[w].pc = pc /\ worker'[w].run = j /\ worker'[w].lock
      /\ Others(w)
  BY <1>0, <1>3, <1>4 DEF Others
<1>6. PICK x : x = [job[j] EXCEPT !.state = "active"]
  OBVIOUS
<1>7. /\ x \in Job /\ x.state = "active" /\ x.scan = job[j].scan
      /\ job' = [job EXCEPT ![j] = x]
  BY <1>0, <1>6 DEF Job, Pick
<1>8. /\ UNCHANGED <<ai, caller>> /\ worker[w].pc = "idle"
      /\ job[j].state \in {"waiting", "delayed"}
  BY DEF Pick, dbVars
<1> QED
  BY <1>5, <1>7, <1>8 DEF Picks, JobHolds

LEMMA CallersWait ==
  ASSUME TypeInv, NEW c \in Callers, Arrive(c) \/ Handle(c) \/ CallerCrash(c)
  PROVE  OtherCallers(c) /\ worker' = worker
<1>1. caller \in [Callers -> Caller]
  BY DEF TypeInv, TypeOK
<1>2. OtherCallers(c)
  BY <1>1 DEF OtherCallers, Arrive, Handle, Decide, Settle, ReadBase,
     CopyBase, CheckBudget, CacheHit, CacheMiss, CopyCache, ClaimRun,
     AlreadyClaimed, AddJob, AddThrows, UndoClaim, CallerCrash, FinishStatic,
     Regenerate, Start
<1>3. worker' = worker
  BY DEF Arrive, Handle, Decide, Settle, ReadBase, CopyBase, CheckBudget,
     CacheHit, CacheMiss, CopyCache, ClaimRun, AlreadyClaimed, AddJob,
     AddThrows, UndoClaim, CallerCrash, FinishStatic, Regenerate
<1> QED
  BY <1>2, <1>3

LEMMA CallerRows ==
  ASSUME TypeInv, CalmInv, [Next]_vars, NEW c \in Callers, OtherCallers(c),
         worker' = worker, NEW s \in ScanIds, ~SameStatus(s)
  PROVE  /\ s = caller[c].scan
         /\ \/ /\ caller[c].pc \in {"settle", "copyBase", "copyCache"}
               /\ NotInFlight(s)
               /\ ai'[s].status \in InFlight => s \in Unchanged
            \/ /\ caller[c].pc = "claim" /\ NotInFlight(s)
               /\ caller'[c].pc = "add"
            \/ caller[c].pc = "undo"
<1>1. ~ClaimsRow(s, ai'[s]) /\ ~EndsRow(s, ai'[s])
  BY DEF ClaimsRow, EndsRow
<1>2. DecidesRow(s, ai'[s])
  BY <1>1, RowMoves
<1> QED
  BY <1>2 DEF DecidesRow, OtherCallers

LEMMA Quietings ==
  ASSUME TypeInv, CalmInv, [Next]_vars, NEW c \in Callers,
         Arrive(c) \/ Handle(c) \/ CallerCrash(c),
         ~ClaimRun(c), ~AddJob(c), ~UndoClaim(c)
  PROVE  Quiet(c)
<1>0. caller \in [Callers -> Caller] /\ runs \in 0..MaxRuns
  BY DEF TypeInv, TypeOK
<1>1. OtherCallers(c) /\ worker' = worker
  BY CallersWait
<1>2. job' = job /\ runs' = runs
  BY DEF Arrive, Handle, Decide, Settle, ReadBase, CopyBase, CheckBudget,
     CacheHit, CacheMiss, CopyCache, AlreadyClaimed, AddThrows, CallerCrash,
     FinishStatic, Regenerate, dbVars
<1>3. ASSUME Adding(c)
      PROVE  /\ ai' = ai
             /\ \/ CallerMayCrash /\ caller'[c].pc = "idle"
                \/ caller'[c].pc = "undo" /\ caller'[c].scan = caller[c].scan
  <2>1. AddThrows(c) \/ CallerCrash(c)
    BY <1>3 DEF Adding, Arrive, FinishStatic, Regenerate, MayStart, Handle,
       Decide, Settle, ReadBase, CopyBase, CheckBudget, CacheHit, CacheMiss,
       CopyCache, AlreadyClaimed
  <2>2. ai' = ai
    BY <2>1 DEF AddThrows, CallerCrash, dbVars
  <2>3. CASE CallerCrash(c)
    BY <1>0, <2>2, <2>3 DEF CallerCrash, NoCaller
  <2>4. CASE AddThrows(c)
    <3>1. PICK x : x = [caller[c] EXCEPT !.pc = "undo"]
      OBVIOUS
    <3>2. caller' = [caller EXCEPT ![c] = x]
      BY <1>0, <2>4, <3>1 DEF AddThrows
    <3>3. x.pc = "undo" /\ x.scan = caller[c].scan
      BY <1>0, <3>1 DEF Caller
    <3> QED
      BY <1>0, <2>2, <3>2, <3>3
  <2> QED
    BY <2>1, <2>3, <2>4
<1>4. ASSUME Adding(c)', ~Adding(c) PROVE FALSE
  <2>1. caller' # caller
    BY <1>4 DEF Adding
  <2>2. PICK d \in Callers, x \in Caller :
          caller' = [caller EXCEPT ![d] = x] /\ NextOf(d, x)
    BY <2>1, CallersNext DEF CallersMove
  <2>3. d = c
    BY <1>0, <1>4, <2>2 DEF Adding
  <2>4. x.pc \in {"add", "undo"}
    BY <1>0, <1>4, <2>2, <2>3 DEF Adding
  <2> QED
    BY <1>0, <1>2, <1>4, <2>2, <2>3, <2>4 DEF NextOf, Adding
<1>5. Adding(c)' => Adding(c) /\ caller'[c].scan = caller[c].scan
  BY <1>3, <1>4 DEF Adding
<1>6. Adding(c) => Adding(c)' \/ CallerMayCrash
  BY <1>3 DEF Adding
<1>7. ASSUME NEW s \in ScanIds, ~SameStatus(s)
      PROVE  /\ NotInFlight(s)
             /\ ai'[s].status \in InFlight => s \in Unchanged
  <2>1. ~Adding(c)
    BY <1>3, <1>7 DEF SameStatus
  <2>2. caller'[c].pc # "add" /\ caller[c].pc # "undo"
    BY <1>4, <2>1 DEF Adding
  <2> QED
    BY <1>1, <1>7, <2>2, CallerRows
<1> QED
  BY <1>1, <1>2, <1>5, <1>6, <1>7 DEF Quiet

LEMMA Takings ==
  ASSUME TypeInv, CalmInv, [Next]_vars, NEW c \in Callers, ClaimRun(c)
  PROVE  Takes(c)
<1>0. /\ caller \in [Callers -> Caller] /\ ai \in [ScanIds -> AiRow]
  BY DEF TypeInv, TypeOK
<1>1. OtherCallers(c) /\ UNCHANGED <<job, worker>>
  BY CallersWait DEF Handle, ClaimRun
<1>2. PICK s : s = caller[c].scan
  OBVIOUS
<1>3. s \in ScanIds /\ caller[c].pc = "claim" /\ NotInFlight(s)
  BY <1>2, CallerFields DEF ClaimRun, MayClaim
<1>4. PICK x : x = [ai[s] EXCEPT !.status = "QUEUED", !.id = caller[c].want]
  OBVIOUS
<1>5. ai' = [ai EXCEPT ![s] = x] /\ x.status = "QUEUED"
  BY <1>0, <1>2, <1>3, <1>4 DEF ClaimRun, AiRow
<1>6. PICK y : y = [caller[c] EXCEPT !.pc = "add", !.run = runs + 1]
  OBVIOUS
<1>7. /\ caller' = [caller EXCEPT ![c] = y]
      /\ y.pc = "add" /\ y.scan = caller[c].scan
  BY <1>0, <1>6 DEF ClaimRun, Caller
<1>8. caller'[c].pc = "add" /\ caller'[c].scan = s
  BY <1>0, <1>2, <1>7
<1>9. /\ ai'[s].status = "QUEUED"
      /\ \A r \in ScanIds : r # s => SameStatus(r)
  BY <1>0, <1>3, <1>5 DEF SameStatus
<1> QED
  BY <1>1, <1>2, <1>3, <1>8, <1>9 DEF Takes, Adding

LEMMA Addings ==
  ASSUME TypeInv, NEW c \in Callers, AddJob(c)
  PROVE  Adds(c)
<1>0. caller \in [Callers -> Caller]
  BY DEF TypeInv, TypeOK
<1>1. OtherCallers(c) /\ UNCHANGED <<ai, worker>>
  BY CallersWait DEF Handle, AddJob, dbVars
<1>2. caller[c].pc = "add" /\ caller'[c].pc = "idle"
  BY <1>0 DEF AddJob, NoCaller
<1>3. /\ caller[c].run \in RunIds /\ job[caller[c].run].state = "none"
  BY <1>2 DEF TypeInv, TypeOK, OwnRunInv, Adding, RunIds
<1>4. PICK x : x = [NoJob EXCEPT !.state = "waiting",
                                 !.scan = caller[c].scan,
                                 !.merge = caller[c].merge]
  OBVIOUS
<1>5. caller[c].scan \in ScanIds /\ caller[c].merge \in BOOLEAN
  BY <1>2, CallerFields
<1>6. /\ x.state = "waiting" /\ x.scan = caller[c].scan
      /\ x.merge = caller[c].merge /\ x.made = 0 /\ x.stalls = 0
      /\ x \in Job
  BY <1>4, <1>5 DEF Job, NoJob
<1>7. job' = [job EXCEPT ![caller[c].run] = x]
  BY <1>4 DEF AddJob
<1> QED
  BY <1>1, <1>2, <1>3, <1>6, <1>7 DEF Adds, Adding

LEMMA Undoings ==
  ASSUME TypeInv, NEW c \in Callers, UndoClaim(c)
  PROVE  Undoes(c)
<1>0. caller \in [Callers -> Caller] /\ ai \in [ScanIds -> AiRow]
  BY DEF TypeInv, TypeOK
<1>1. OtherCallers(c) /\ UNCHANGED <<job, worker>>
  BY CallersWait DEF Handle, UndoClaim
<1>2. caller[c].pc = "undo" /\ caller'[c].pc = "idle"
  BY <1>0 DEF UndoClaim, NoCaller
<1>3. PICK s : s = caller[c].scan
  OBVIOUS
<1>4. s \in ScanIds
  BY <1>2, <1>3, CallerFields
<1>5. PICK x : x = [ai[s] EXCEPT !.status = "FAILED"]
  OBVIOUS
<1>6. ai' = [ai EXCEPT ![s] = x] /\ x.status = "FAILED"
  BY <1>0, <1>3, <1>4, <1>5 DEF UndoClaim, AiRow
<1>7. /\ ai'[s].status = "FAILED"
      /\ \A r \in ScanIds : r # s => SameStatus(r)
  BY <1>0, <1>4, <1>6 DEF SameStatus
<1> QED
  BY <1>1, <1>2, <1>3, <1>7 DEF Undoes, Adding

CalmMove ==
    \/ Nothing
    \/ \E w \in Workers : Goes(w) \/ Ends(w) \/ Gives(w)
    \/ \E w \in Workers, j \in RunIds : Picks(w, j)
    \/ \E c \in Callers : Quiet(c) \/ Takes(c) \/ Adds(c) \/ Undoes(c)

LEMMA CalmMoves ==
  ASSUME TypeInv, CalmInv, Calm, [Next]_vars
  PROVE  CalmMove
<1>1. ASSUME NEW w \in Workers, Execute(w) PROVE CalmMove
  <2>1. ~SkipNotRunnable(w)
    <3>1. SUFFICES ASSUME SkipNotRunnable(w) PROVE FALSE
      OBVIOUS
    <3>2. WorkerHolds(w) /\ ScanOf(w) \in ScanIds
      BY <3>1, WorkerFields DEF SkipNotRunnable, WorkerHolds, Working
    <3>3. ~NotInFlight(ScanOf(w))
      BY <3>2 DEF CalmInv, HeldInv, Held, HeldByWorker
    <3> QED
      BY <3>1, <3>3 DEF SkipNotRunnable, Runnable, NotInFlight
  <2>2. ~Discard(w)
    BY DEF Discard, MayStore, CalmInv, HeldInv, Asking
  <2>3. ~OnFailedThrows(w)
    BY DEF OnFailedThrows, Calm
  <2> QED
    BY <1>1, <2>1, <2>2, <2>3, Goings, Endings, Givings DEF Execute, CalmMove
<1>2. ASSUME NEW w \in Workers, WorkerCrash(w) PROVE FALSE
  <2>1. job[worker[w].run] \in Job
    BY <1>2, WorkerFields DEF WorkerCrash
  <2> QED
    BY <1>2, <2>1 DEF WorkerCrash, Job, Calm
<1>3. ASSUME NEW j \in RunIds, Stalled(j) PROVE FALSE
  <2>1. job[j] \in Job
    BY DEF TypeInv, TypeOK
  <2> QED
    BY <1>3, <2>1 DEF Stalled, Job, Calm
<1>4. ASSUME NEW c \in Callers, Arrive(c) \/ Handle(c) \/ CallerCrash(c)
      PROVE  CalmMove
  BY <1>4, Quietings, Takings, Addings, Undoings DEF CalmMove
<1>5. ASSUME NEW w \in Workers, NEW j \in RunIds, Pick(w, j) PROVE CalmMove
  BY <1>5, Pickings DEF CalmMove
<1>6. ASSUME NEW s \in ScanIds, GraceElapses(s) \/ StartScan(s)
      PROVE  CalmMove
  <2>1. UNCHANGED <<job, caller, worker>>
    BY <1>6 DEF GraceElapses, StartScan
  <2>2. ASSUME NEW r \in ScanIds PROVE SameStatus(r)
    BY <2>1, RowMoves DEF ClaimsRow, EndsRow, DecidesRow
  <2> QED
    BY <2>1, <2>2 DEF CalmMove, Nothing
<1>7. CASE UNCHANGED vars \/ ChangeSettings
  BY <1>7 DEF vars, dbVars, ChangeSettings, CalmMove, Nothing, SameStatus
<1>8. ~Sweep /\ ~ReaperFails
  BY DEF Sweep, ReaperFind, ReaperJobs, Reap, ReaperFails, Calm, CalmInv
<1> QED
  BY <1>1, <1>2, <1>3, <1>4, <1>5, <1>6, <1>7, <1>8 DEF Next

LEMMA ReaperAway ==
  ASSUME CalmInv, Calm, [Next]_vars
  PROVE  reaper'.pc = "idle"
<1>1. ~Sweep /\ ~ReaperFails
  BY DEF Sweep, ReaperFind, ReaperJobs, Reap, ReaperFails, Calm, CalmInv
<1>2. ASSUME NEW w \in Workers, Execute(w) \/ WorkerCrash(w)
      PROVE  reaper' = reaper
  BY <1>2 DEF Execute, Claim, SkipNotRunnable, Load, UseProvider, NoProvider,
     CallAnswered, CallFailed, Bill, ShowUsage, KeepRaw, Persist, Discard,
     RecordUsage, RememberInCache, Complete, Fail, OnFailed, OnFailedThrows,
     WorkerCrash
<1>3. ASSUME NEW c \in Callers, Arrive(c) \/ Handle(c) \/ CallerCrash(c)
      PROVE  reaper' = reaper
  BY <1>3 DEF Arrive, Handle, Decide, Settle, ReadBase, CopyBase, CheckBudget,
     CacheHit, CacheMiss, CopyCache, ClaimRun, AlreadyClaimed, AddJob,
     AddThrows, UndoClaim, CallerCrash, FinishStatic, Regenerate
<1>4. CASE \/ UNCHANGED vars \/ ChangeSettings
           \/ \E s \in ScanIds : GraceElapses(s) \/ StartScan(s)
           \/ \E w \in Workers, j \in RunIds : Pick(w, j)
           \/ \E j \in RunIds : Stalled(j)
  BY <1>4 DEF vars, ChangeSettings, GraceElapses, StartScan, Pick, Stalled,
     CalmInv
<1> QED
  BY <1>1, <1>2, <1>3, <1>4 DEF Next, CalmInv

(* How the claims change hands.                                            *)
FewerJobs(new) == \A j \in RunIds \ new : JobHolds(j)' =>
                     JobHolds(j) /\ job'[j].scan = job[j].scan
FewerWorkers(new) == \A w \in Workers \ new : WorkerHolds(w)' =>
                     WorkerHolds(w) /\ ScanOf(w)' = ScanOf(w)
FewerCallers(new) == \A c \in Callers \ new : Adding(c)' =>
                     Adding(c) /\ caller'[c].scan = caller[c].scan

HoldersMove ==
    \/ FewerJobs({}) /\ FewerWorkers({}) /\ FewerCallers({})
    \/ /\ FewerCallers({})
       /\ \E w \in Workers, j \in RunIds :
             /\ FewerJobs({j}) /\ JobHolds(j) /\ ~JobHolds(j)'
             /\ FewerWorkers({w}) /\ ScanOf(w)' = job[j].scan
    \/ /\ FewerCallers({})
       /\ \E w \in Workers, j \in RunIds :
             /\ FewerWorkers({w}) /\ WorkerHolds(w) /\ ~WorkerHolds(w)'
             /\ FewerJobs({j}) /\ job'[j].scan = ScanOf(w)
    \/ /\ FewerWorkers({})
       /\ \E c \in Callers, j \in RunIds :
             /\ FewerCallers({c}) /\ Adding(c) /\ ~Adding(c)'
             /\ FewerJobs({j}) /\ job'[j].scan = caller[c].scan
    \/ /\ FewerJobs({}) /\ FewerWorkers({})
       /\ \E c \in Callers : /\ FewerCallers({c})
                             /\ caller'[c].scan = caller[c].scan
                             /\ ~Held(caller[c].scan)

LEMMA SameJobs ==
  ASSUME job' = job
  PROVE  FewerJobs({}) /\ \A j \in RunIds : JobHolds(j)' <=> JobHolds(j)
  BY DEF FewerJobs, JobHolds

LEMMA SameCallers ==
  ASSUME caller' = caller
  PROVE  FewerCallers({}) /\ \A c \in Callers : Adding(c)' <=> Adding(c)
  BY DEF FewerCallers, Adding

LEMMA OtherWorkers ==
  ASSUME TypeInv, [Next]_vars, NEW w, Others(w)
  PROVE  /\ FewerWorkers({w})
         /\ \A v \in Workers \ {w} :
               /\ WorkerHolds(v)' <=> WorkerHolds(v)
               /\ Locked(v)' <=> Locked(v)
               /\ worker[v].pc # "idle" => ScanOf(v)' = ScanOf(v)
<1> SUFFICES ASSUME NEW v \in Workers \ {w}
             PROVE  /\ WorkerHolds(v)' <=> WorkerHolds(v)
                    /\ Locked(v)' <=> Locked(v)
                    /\ worker[v].pc # "idle" => ScanOf(v)' = ScanOf(v)
  BY DEF FewerWorkers, WorkerHolds, Working
<1>1. worker'[v] = worker[v]
  BY DEF Others
<1>2. ASSUME worker[v].pc # "idle" PROVE ScanOf(v)' = ScanOf(v)
  <2>1. worker[v].run \in RunIds /\ job[worker[v].run].state # "none"
    BY <1>2 DEF TypeInv, RefsInv
  <2>2. job'[worker[v].run].scan = job[worker[v].run].scan
    BY <2>1, JobsStay
  <2> QED
    BY <1>1, <2>2 DEF ScanOf
<1> QED
  BY <1>1, <1>2 DEF WorkerHolds, Locked

LEMMA LockStep ==
  ASSUME TypeInv, CalmInv, Calm, [Next]_vars
  PROVE  LockInv'
<1>0. /\ worker \in [Workers -> Worker] /\ job \in [RunIds -> Job]
      /\ \A w \in Workers : Locked(w) =>
            /\ worker[w].run \in RunIds /\ worker[w].lock
            /\ job[worker[w].run].state = "active"
      /\ \A v, w \in Workers :
            Locked(v) /\ Locked(w) /\ worker[v].run = worker[w].run => v = w
  BY DEF TypeInv, TypeOK, RefsInv, CalmInv, LockInv, Locked
<1>1. CASE worker' = worker /\ job' = job
  BY <1>0, <1>1 DEF LockInv, Locked
<1>2. ASSUME NEW w \in Workers, Goes(w) PROVE LockInv'
  <2>1. Locked(w) /\ job' = job
    BY <1>2 DEF Goes, Locked, Working
  <2>2. ASSUME NEW v \in Workers
        PROVE  /\ Locked(v)' => Locked(v)
               /\ worker'[v].run = worker[v].run
               /\ worker'[v].lock = worker[v].lock
    BY <1>2, <2>1 DEF Goes, Others, Locked
  <2> QED
    BY <1>0, <2>1, <2>2 DEF LockInv
<1>3. ASSUME NEW w \in Workers, Ends(w) PROVE LockInv'
  <2>1. ASSUME NEW v \in Workers, Locked(v)'
        PROVE  /\ Locked(v) /\ worker'[v].run = worker[v].run
               /\ worker'[v].lock = worker[v].lock
    <3>1. CASE v = w
      BY <1>3, <2>1, <3>1 DEF Ends, Locked
    <3>2. CASE v # w
      BY <1>3, <2>1, <3>2 DEF Ends, Others, Locked
    <3> QED
      BY <3>1, <3>2
  <2>2. ASSUME NEW v \in Workers, Locked(v)'
        PROVE  job'[worker[v].run] = job[worker[v].run]
    <3>1. CASE job' = job
      BY <3>1
    <3>2. CASE job' # job
      <4>1. PICK x \in Job : job' = [job EXCEPT ![worker[w].run] = x]
        BY <1>3, <3>2 DEF Ends
      <4>2. v # w /\ Locked(w)
        BY <1>3, <2>2, <3>2 DEF Ends, Locked, WorkerHolds
      <4>3. worker[v].run # worker[w].run
        BY <1>0, <2>1, <2>2, <4>2
      <4> QED
        BY <1>0, <2>1, <2>2, <4>1, <4>3
    <3> QED
      BY <3>1, <3>2
  <2> QED
    BY <1>0, <2>1, <2>2 DEF LockInv
<1>4. ASSUME NEW w \in Workers, Gives(w) PROVE LockInv'
  <2>1. PICK x \in Job : job' = [job EXCEPT ![worker[w].run] = x]
    BY <1>4 DEF Gives
  <2>2. Locked(w) /\ ~Locked(w)'
    BY <1>4 DEF Gives, Locked, Working
  <2>3. ASSUME NEW v \in Workers, Locked(v)'
        PROVE  /\ Locked(v) /\ worker'[v].run = worker[v].run
               /\ worker'[v].lock = worker[v].lock
               /\ job'[worker[v].run] = job[worker[v].run]
    <3>1. v # w /\ worker'[v] = worker[v]
      BY <1>4, <2>2, <2>3 DEF Gives, Others
    <3>2. Locked(v)
      BY <2>3, <3>1 DEF Locked
    <3>3. worker[v].run # worker[w].run
      BY <1>0, <2>2, <3>1, <3>2
    <3> QED
      BY <1>0, <2>1, <3>1, <3>2, <3>3
  <2> QED
    BY <1>0, <2>3 DEF LockInv
<1>5. ASSUME NEW w \in Workers, NEW j \in RunIds, Picks(w, j) PROVE LockInv'
  <2>1. PICK x \in Job : job' = [job EXCEPT ![j] = x] /\ x.state = "active"
    BY <1>5 DEF Picks
  <2>2. ASSUME NEW v \in Workers, v # w, Locked(v)'
        PROVE  /\ Locked(v) /\ worker'[v].run = worker[v].run
               /\ worker'[v].lock = worker[v].lock
               /\ worker[v].run # j
               /\ job'[worker[v].run] = job[worker[v].run]
    <3>1. worker'[v] = worker[v]
      BY <1>5, <2>2 DEF Picks, Others
    <3>2. Locked(v)
      BY <2>2, <3>1 DEF Locked
    <3>3. worker[v].run # j
      BY <1>0, <1>5, <3>2 DEF Picks, JobHolds
    <3> QED
      BY <1>0, <2>1, <3>1, <3>2, <3>3
  <2>3. worker'[w].run = j /\ worker'[w].lock /\ job'[j].state = "active"
    BY <1>0, <1>5, <2>1 DEF Picks
  <2> QED
    BY <1>0, <2>2, <2>3 DEF LockInv
<1>6. ASSUME NEW c \in Callers, Adds(c) PROVE LockInv'
  <2>1. PICK x \in Job : job' = [job EXCEPT ![caller[c].run] = x]
    BY <1>6 DEF Adds
  <2>2. worker' = worker /\ job[caller[c].run].state = "none"
    BY <1>6 DEF Adds
  <2>3. ASSUME NEW v \in Workers, Locked(v)'
        PROVE  Locked(v) /\ job'[worker[v].run] = job[worker[v].run]
    <3>1. Locked(v)
      BY <2>2, <2>3 DEF Locked
    <3>2. worker[v].run # caller[c].run
      BY <1>0, <2>2, <3>1
    <3> QED
      BY <1>0, <2>1, <3>1, <3>2
  <2> QED
    BY <1>0, <2>2, <2>3 DEF LockInv
<1> QED
  BY <1>1, <1>2, <1>3, <1>4, <1>5, <1>6, CalmMoves
     DEF CalmMove, Nothing, Quiet, Takes, Undoes

LEMMA HoldersMoves ==
  ASSUME TypeInv, CalmInv, Calm, [Next]_vars
  PROVE  HoldersMove
<1>0. /\ worker \in [Workers -> Worker] /\ job \in [RunIds -> Job]
      /\ \A w \in Workers : worker[w].pc # "idle" => worker[w].run \in RunIds
  BY DEF TypeInv, TypeOK, RefsInv
<1>1. worker' = worker => FewerWorkers({})
  <2> SUFFICES ASSUME worker' = worker PROVE FewerWorkers({})
    OBVIOUS
  <2>1. PICK none : none \notin Workers
    <3>1. ~(\A x : x \in Workers)
      BY NoSetContainsEverything
    <3> QED
      BY <3>1
  <2>2. Others(none)
    BY DEF Others
  <2> QED
    BY <2>1, <2>2, OtherWorkers DEF FewerWorkers
<1>2. ASSUME NEW w \in Workers, Goes(w) PROVE HoldersMove
  <2>1. /\ FewerWorkers({w}) /\ WorkerHolds(w)
        /\ worker'[w].run = worker[w].run /\ job' = job
    BY <1>2, OtherWorkers DEF Goes, WorkerHolds
  <2>2. ScanOf(w)' = ScanOf(w)
    BY <2>1 DEF ScanOf
  <2>3. FewerWorkers({})
    BY <2>1, <2>2 DEF FewerWorkers
  <2> QED
    BY <1>2, <2>3, SameJobs, SameCallers DEF Goes, HoldersMove
<1>3. ASSUME NEW w \in Workers, Ends(w) PROVE HoldersMove
  <2>1. FewerWorkers({w}) /\ ~WorkerHolds(w)'
    BY <1>3, OtherWorkers DEF Ends, WorkerHolds
  <2>2. FewerWorkers({})
    BY <2>1 DEF FewerWorkers
  <2>3. FewerJobs({})
    <3>1. CASE job' = job
      BY <3>1, SameJobs
    <3>2. ASSUME NEW x \in Job, job' = [job EXCEPT ![worker[w].run] = x],
                 x.state = "completed"
          PROVE  FewerJobs({})
      BY <1>0, <1>3, <3>2 DEF Ends, FewerJobs, JobHolds
    <3> QED
      BY <1>3, <3>1, <3>2 DEF Ends
  <2> QED
    BY <1>3, <2>2, <2>3, SameCallers DEF Ends, HoldersMove
<1>4. ASSUME NEW w \in Workers, Gives(w) PROVE HoldersMove
  <2>1. PICK x \in Job :
          /\ job' = [job EXCEPT ![worker[w].run] = x] /\ x.scan = ScanOf(w)
          /\ \/ x.state = "delayed" /\ worker'[w].pc = "idle"
             \/ /\ x.state = "failed" /\ worker'[w].pc = "onFailed"
                /\ worker'[w].run = worker[w].run
    BY <1>4 DEF Gives
  <2>2. FewerWorkers({w}) /\ WorkerHolds(w) /\ worker[w].run \in RunIds
    BY <1>0, <1>4, OtherWorkers DEF Gives, WorkerHolds, Working
  <2>3. PICK j : j = worker[w].run
    OBVIOUS
  <2>4. /\ job'[j].scan = ScanOf(w) /\ FewerJobs({j})
        /\ job'[j].state = x.state
    BY <1>0, <2>1, <2>2, <2>3 DEF FewerJobs, JobHolds
  <2>5. CASE x.state = "delayed" /\ worker'[w].pc = "idle"
    <3>1. ~WorkerHolds(w)'
      BY <2>5 DEF WorkerHolds, Working
    <3> QED
      BY <1>4, <2>2, <2>3, <2>4, <3>1, SameCallers DEF Gives, HoldersMove
  <2>6. CASE /\ x.state = "failed" /\ worker'[w].pc = "onFailed"
             /\ worker'[w].run = worker[w].run
    <3>1. ScanOf(w)' = ScanOf(w)
      BY <2>3, <2>4, <2>6 DEF ScanOf
    <3>2. FewerWorkers({})
      BY <2>2, <3>1 DEF FewerWorkers
    <3>3. FewerJobs({})
      BY <2>4, <2>6 DEF FewerJobs, JobHolds
    <3> QED
      BY <1>4, <3>2, <3>3, SameCallers DEF Gives, HoldersMove
  <2> QED
    BY <2>1, <2>5, <2>6
<1>5. ASSUME NEW w \in Workers, NEW j \in RunIds, Picks(w, j)
      PROVE  HoldersMove
  <2>1. PICK x \in Job : /\ job' = [job EXCEPT ![j] = x]
                         /\ x.state = "active" /\ x.scan = job[j].scan
    BY <1>5 DEF Picks
  <2>2. FewerJobs({j}) /\ ~JobHolds(j)' /\ job'[j].scan = job[j].scan
    BY <1>0, <2>1 DEF FewerJobs, JobHolds
  <2>3. FewerWorkers({w}) /\ ScanOf(w)' = job[j].scan
    BY <1>5, <2>2, OtherWorkers DEF Picks, ScanOf
  <2> QED
    BY <1>5, <2>2, <2>3, SameCallers DEF Picks, HoldersMove
<1>6. ASSUME NEW c \in Callers, Quiet(c) \/ Undoes(c) PROVE HoldersMove
  <2>1. FewerCallers({})
    BY <1>6 DEF Quiet, Undoes, OtherCallers, FewerCallers, Adding
  <2> QED
    BY <1>1, <1>6, <2>1, SameJobs DEF Quiet, Undoes, HoldersMove
<1>7. ASSUME NEW c \in Callers, Takes(c) PROVE HoldersMove
  <2>1. FewerCallers({c}) /\ caller'[c].scan = caller[c].scan
    BY <1>7 DEF Takes, OtherCallers, FewerCallers, Adding
  <2>2. ~Held(caller[c].scan)
    BY <1>7 DEF Takes, CalmInv, HeldInv
  <2> QED
    BY <1>1, <1>7, <2>1, <2>2, SameJobs DEF Takes, HoldersMove
<1>8. ASSUME NEW c \in Callers, Adds(c) PROVE HoldersMove
  <2>1. PICK j : j = caller[c].run
    OBVIOUS
  <2>2. PICK x \in Job : /\ job' = [job EXCEPT ![j] = x]
                         /\ x.scan = caller[c].scan
    BY <1>8, <2>1 DEF Adds
  <2>3. j \in RunIds /\ FewerJobs({j}) /\ job'[j].scan = caller[c].scan
    BY <1>0, <1>8, <2>1, <2>2 DEF Adds, FewerJobs, JobHolds
  <2>4. FewerCallers({c})
    BY <1>8 DEF Adds, OtherCallers, FewerCallers, Adding
  <2> QED
    BY <1>1, <1>8, <2>3, <2>4 DEF Adds, HoldersMove
<1>9. CASE Nothing
  BY <1>1, <1>9, SameJobs, SameCallers DEF Nothing, HoldersMove
<1> QED
  BY <1>2, <1>3, <1>4, <1>5, <1>6, <1>7, <1>8, <1>9, CalmMoves DEF CalmMove

LEMMA AloneStep ==
  ASSUME TypeInv, CalmInv, Calm, [Next]_vars
  PROVE  AloneInv'
<1>0. /\ AloneInv
      /\ \A j \in RunIds : JobHolds(j) => job[j].scan \in ScanIds
      /\ \A w \in Workers : WorkerHolds(w) => ScanOf(w) \in ScanIds
      /\ \A c \in Callers : Adding(c) => caller[c].scan \in ScanIds
  <2>1. \A j \in RunIds : JobHolds(j) => job[j].scan \in ScanIds
    BY DEF TypeInv, RefsInv, JobHolds
  <2>2. ASSUME NEW w \in Workers, WorkerHolds(w) PROVE ScanOf(w) \in ScanIds
    BY <2>2, WorkerFields DEF WorkerHolds, Working
  <2>3. \A c \in Callers : Adding(c) => caller[c].scan \in ScanIds
    BY DEF TypeInv, RefsInv, Adding
  <2> QED
    BY <2>1, <2>2, <2>3 DEF CalmInv
<1>1. CASE FewerJobs({}) /\ FewerWorkers({}) /\ FewerCallers({})
  <2>1. ASSUME NEW s \in ScanIds
        PROVE  /\ HeldByJob(s)' => HeldByJob(s)
               /\ HeldByWorker(s)' => HeldByWorker(s)
               /\ HeldByCaller(s)' => HeldByCaller(s)
    BY <1>1 DEF FewerJobs, FewerWorkers, FewerCallers, HeldByJob,
       HeldByWorker, HeldByCaller
  <2> QED
    BY <1>0, <1>1, <2>1 DEF AloneInv, FewerJobs, FewerWorkers, FewerCallers
<1>2. ASSUME NEW w \in Workers, NEW j \in RunIds, FewerCallers({}),
             FewerJobs({j}), JobHolds(j), ~JobHolds(j)', FewerWorkers({w}),
             ScanOf(w)' = job[j].scan
      PROVE  AloneInv'
  <2>1. HeldByJob(job[j].scan) /\ job[j].scan \in ScanIds
    BY <1>0, <1>2 DEF HeldByJob
  <2>2. \A i \in RunIds : JobHolds(i)' =>
          /\ JobHolds(i) /\ job'[i].scan = job[i].scan
          /\ job[i].scan # job[j].scan
    BY <1>0, <1>2 DEF AloneInv, FewerJobs
  <2>3. \A v \in Workers : WorkerHolds(v)' /\ v # w =>
          /\ WorkerHolds(v) /\ ScanOf(v)' = ScanOf(v)
          /\ ScanOf(v) # job[j].scan
    BY <1>0, <1>2, <2>1 DEF AloneInv, FewerWorkers, HeldByWorker
  <2>4. \A c \in Callers : Adding(c)' =>
          /\ Adding(c) /\ caller'[c].scan = caller[c].scan
          /\ caller[c].scan # job[j].scan
    BY <1>0, <1>2, <2>1 DEF AloneInv, FewerCallers, HeldByCaller
  <2>5. ASSUME NEW s \in ScanIds
        PROVE  /\ HeldByJob(s)' => HeldByJob(s) /\ s # job[j].scan
               /\ HeldByWorker(s)' =>
                     HeldByWorker(s) \/ s = job[j].scan
               /\ HeldByCaller(s)' =>
                     HeldByCaller(s) /\ s # job[j].scan
    BY <1>2, <2>2, <2>3, <2>4 DEF HeldByJob, HeldByWorker, HeldByCaller
  <2> QED
    BY <1>0, <1>2, <2>2, <2>3, <2>4, <2>5 DEF AloneInv
<1>3. ASSUME NEW w \in Workers, NEW j \in RunIds, FewerCallers({}),
             FewerWorkers({w}), WorkerHolds(w), ~WorkerHolds(w)',
             FewerJobs({j}), job'[j].scan = ScanOf(w)
      PROVE  AloneInv'
  <2>1. HeldByWorker(ScanOf(w)) /\ ScanOf(w) \in ScanIds
    BY <1>0, <1>3 DEF HeldByWorker
  <2>2. \A i \in RunIds : JobHolds(i)' /\ i # j =>
          /\ JobHolds(i) /\ job'[i].scan = job[i].scan
          /\ job[i].scan # ScanOf(w)
    BY <1>0, <1>3, <2>1 DEF AloneInv, FewerJobs, HeldByJob
  <2>3. \A v \in Workers : WorkerHolds(v)' =>
          /\ WorkerHolds(v) /\ ScanOf(v)' = ScanOf(v)
          /\ ScanOf(v) # ScanOf(w)
    BY <1>0, <1>3 DEF AloneInv, FewerWorkers
  <2>4. \A c \in Callers : Adding(c)' =>
          /\ Adding(c) /\ caller'[c].scan = caller[c].scan
          /\ caller[c].scan # ScanOf(w)
    BY <1>0, <1>3, <2>1 DEF AloneInv, FewerCallers, HeldByCaller
  <2>5. ASSUME NEW s \in ScanIds
        PROVE  /\ HeldByJob(s)' => HeldByJob(s) \/ s = ScanOf(w)
               /\ HeldByWorker(s)' =>
                     HeldByWorker(s) /\ s # ScanOf(w)
               /\ HeldByCaller(s)' =>
                     HeldByCaller(s) /\ s # ScanOf(w)
    BY <1>3, <2>2, <2>3, <2>4 DEF HeldByJob, HeldByWorker, HeldByCaller
  <2> QED
    BY <1>0, <1>3, <2>2, <2>3, <2>4, <2>5 DEF AloneInv
<1>4. ASSUME NEW c \in Callers, NEW j \in RunIds, FewerWorkers({}),
             FewerCallers({c}), Adding(c), ~Adding(c)',
             FewerJobs({j}), job'[j].scan = caller[c].scan
      PROVE  AloneInv'
  <2>1. HeldByCaller(caller[c].scan) /\ caller[c].scan \in ScanIds
    BY <1>0, <1>4 DEF HeldByCaller
  <2>2. \A i \in RunIds : JobHolds(i)' /\ i # j =>
          /\ JobHolds(i) /\ job'[i].scan = job[i].scan
          /\ job[i].scan # caller[c].scan
    BY <1>0, <1>4, <2>1 DEF AloneInv, FewerJobs, HeldByJob
  <2>3. \A v \in Workers : WorkerHolds(v)' =>
          /\ WorkerHolds(v) /\ ScanOf(v)' = ScanOf(v)
          /\ ScanOf(v) # caller[c].scan
    BY <1>0, <1>4, <2>1 DEF AloneInv, FewerWorkers, HeldByWorker
  <2>4. \A d \in Callers : Adding(d)' =>
          /\ Adding(d) /\ caller'[d].scan = caller[d].scan
          /\ caller[d].scan # caller[c].scan
    BY <1>0, <1>4 DEF AloneInv, FewerCallers
  <2>5. ASSUME NEW s \in ScanIds
        PROVE  /\ HeldByJob(s)' =>
                     HeldByJob(s) \/ s = caller[c].scan
               /\ HeldByWorker(s)' =>
                     HeldByWorker(s) /\ s # caller[c].scan
               /\ HeldByCaller(s)' =>
                     HeldByCaller(s) /\ s # caller[c].scan
    BY <1>4, <2>2, <2>3, <2>4 DEF HeldByJob, HeldByWorker, HeldByCaller
  <2> QED
    BY <1>0, <1>4, <2>2, <2>3, <2>4, <2>5 DEF AloneInv
<1>5. ASSUME NEW c \in Callers, FewerJobs({}), FewerWorkers({}),
             FewerCallers({c}), caller'[c].scan = caller[c].scan,
             ~Held(caller[c].scan)
      PROVE  AloneInv'
  <2>1. \A i \in RunIds : JobHolds(i)' =>
          /\ JobHolds(i) /\ job'[i].scan = job[i].scan
          /\ job[i].scan # caller[c].scan
    BY <1>5 DEF FewerJobs, Held, HeldByJob
  <2>2. \A v \in Workers : WorkerHolds(v)' =>
          /\ WorkerHolds(v) /\ ScanOf(v)' = ScanOf(v)
          /\ ScanOf(v) # caller[c].scan
    BY <1>5 DEF FewerWorkers, Held, HeldByWorker
  <2>3. \A d \in Callers : Adding(d)' /\ d # c =>
          /\ Adding(d) /\ caller'[d].scan = caller[d].scan
          /\ caller[d].scan # caller[c].scan
    BY <1>5 DEF FewerCallers, Held, HeldByCaller
  <2>4. ASSUME NEW s \in ScanIds
        PROVE  /\ HeldByJob(s)' =>
                     HeldByJob(s) /\ s # caller[c].scan
               /\ HeldByWorker(s)' =>
                     HeldByWorker(s) /\ s # caller[c].scan
               /\ HeldByCaller(s)' =>
                     HeldByCaller(s) \/ s = caller[c].scan
    BY <1>5, <2>1, <2>2, <2>3 DEF HeldByJob, HeldByWorker, HeldByCaller
  <2> QED
    BY <1>0, <1>5, <2>1, <2>2, <2>3, <2>4 DEF AloneInv
<1> QED
  BY <1>1, <1>2, <1>3, <1>4, <1>5, HoldersMoves DEF HoldersMove

LEMMA HeldStep ==
  ASSUME TypeInv, CalmInv, Calm, [Next]_vars
  PROVE  HeldInv'
<1>0. /\ worker \in [Workers -> Worker] /\ AloneInv /\ HeldInv
      /\ \A w \in Workers : WorkerHolds(w) => ScanOf(w) \in ScanIds
      /\ \A c \in Callers : Adding(c) => caller[c].scan \in ScanIds
  <2>1. ASSUME NEW w \in Workers, WorkerHolds(w) PROVE ScanOf(w) \in ScanIds
    BY <2>1, WorkerFields DEF WorkerHolds, Working
  <2> QED
    BY <2>1 DEF TypeInv, TypeOK, RefsInv, CalmInv, Adding
<1>1. ASSUME NEW s \in ScanIds, Held(s)'
      PROVE  \/ Held(s)
             \/ \E c \in Callers : Takes(c) /\ caller[c].scan = s
  <2>1. ASSUME HoldersMove, ~\E c \in Callers : ~Adding(c) /\ Adding(c)'
        PROVE  Held(s)
    <3>1. \A c \in Callers : Adding(c)' /\ FewerCallers({c}) => Adding(c)
      BY <2>1
    <3>2. CASE FewerJobs({}) /\ FewerWorkers({}) /\ FewerCallers({})
      BY <1>1, <3>2 DEF FewerJobs, FewerWorkers, FewerCallers, Held,
         HeldByJob, HeldByWorker, HeldByCaller
    <3>3. ASSUME NEW w \in Workers, NEW j \in RunIds, FewerCallers({}),
                 FewerJobs({j}), JobHolds(j), ~JobHolds(j)',
                 FewerWorkers({w}), ScanOf(w)' = job[j].scan
          PROVE  Held(s)
      BY <1>1, <3>3 DEF FewerJobs, FewerWorkers, FewerCallers, Held,
         HeldByJob, HeldByWorker, HeldByCaller
    <3>4. ASSUME NEW w \in Workers, NEW j \in RunIds, FewerCallers({}),
                 FewerWorkers({w}), WorkerHolds(w), ~WorkerHolds(w)',
                 FewerJobs({j}), job'[j].scan = ScanOf(w)
          PROVE  Held(s)
      BY <1>1, <3>4 DEF FewerJobs, FewerWorkers, FewerCallers, Held,
         HeldByJob, HeldByWorker, HeldByCaller
    <3>5. ASSUME NEW c \in Callers, NEW j \in RunIds, FewerWorkers({}),
                 FewerCallers({c}), Adding(c), ~Adding(c)',
                 FewerJobs({j}), job'[j].scan = caller[c].scan
          PROVE  Held(s)
      BY <1>1, <3>5 DEF FewerJobs, FewerWorkers, FewerCallers, Held,
         HeldByJob, HeldByWorker, HeldByCaller
    <3>6. ASSUME NEW c \in Callers, FewerJobs({}), FewerWorkers({}),
                 FewerCallers({c}), caller'[c].scan = caller[c].scan,
                 ~Held(caller[c].scan)
          PROVE  Held(s)
      BY <1>1, <3>1, <3>6 DEF FewerJobs, FewerWorkers, FewerCallers, Held,
         HeldByJob, HeldByWorker, HeldByCaller
    <3> QED
      BY <2>1, <3>2, <3>3, <3>4, <3>5, <3>6 DEF HoldersMove
  <2>2. ASSUME NEW c \in Callers, ~Adding(c), Adding(c)' PROVE Takes(c)
    <3>1. caller' # caller
      BY <2>2 DEF Adding
    <3>2. PICK d \in Callers : Quiet(d) \/ Takes(d) \/ Adds(d) \/ Undoes(d)
      BY <3>1, CalmMoves DEF CalmMove, Nothing, Goes, Ends, Gives, Picks
    <3>3. d = c
      BY <2>2, <3>2 DEF Quiet, Takes, Adds, Undoes, OtherCallers, Adding
    <3> QED
      BY <2>2, <3>2, <3>3 DEF Quiet, Adds, Undoes
  <2>3. ASSUME NEW c \in Callers, Takes(c), caller[c].scan # s PROVE Held(s)
    <3>1. worker' = worker /\ job' = job
      BY <2>3 DEF Takes
    <3>2. HeldByJob(s)' => HeldByJob(s)
      BY <3>1 DEF HeldByJob, JobHolds
    <3>3. HeldByWorker(s)' => HeldByWorker(s)
      BY <3>1 DEF HeldByWorker, WorkerHolds, ScanOf
    <3>4. HeldByCaller(s)' => HeldByCaller(s)
      BY <2>3 DEF HeldByCaller, Takes, OtherCallers, Adding
    <3> QED
      BY <1>1, <3>2, <3>3, <3>4 DEF Held
  <2> QED
    BY <2>1, <2>2, <2>3, HoldersMoves
<1>2. ASSUME NEW w \in Workers, Ends(w), WorkerHolds(w), NEW s, s = ScanOf(w)
      PROVE  ~Held(s)'
  <2>1. /\ s \in ScanIds /\ ~HeldByJob(s) /\ ~HeldByCaller(s)
    BY <1>0, <1>2 DEF AloneInv, HeldByWorker
  <2>2. job' = job /\ caller' = caller
    BY <1>2 DEF Ends
  <2>3. ~HeldByJob(s)' /\ ~HeldByCaller(s)'
    BY <2>1, <2>2 DEF HeldByJob, JobHolds, HeldByCaller, Adding
  <2>4. ~HeldByWorker(s)'
    <3>1. \A v \in Workers \ {w} : WorkerHolds(v)' => ScanOf(v)' # s
      BY <1>0, <1>2, OtherWorkers DEF Ends, FewerWorkers, AloneInv
    <3>2. ~WorkerHolds(w)'
      BY <1>2 DEF Ends, WorkerHolds
    <3> QED
      BY <3>1, <3>2 DEF HeldByWorker
  <2> QED
    BY <2>3, <2>4 DEF Held
<1>3. ASSUME NEW c \in Callers, Undoes(c), NEW s, s = caller[c].scan
      PROVE  ~Held(s)'
  <2>1. /\ s \in ScanIds /\ ~HeldByJob(s) /\ ~HeldByWorker(s)
    BY <1>0, <1>3 DEF Undoes, AloneInv, HeldByCaller
  <2>2. job' = job /\ worker' = worker
    BY <1>3 DEF Undoes
  <2>3. ~HeldByJob(s)' /\ ~HeldByWorker(s)'
    BY <2>1, <2>2 DEF HeldByJob, JobHolds, HeldByWorker, WorkerHolds, ScanOf
  <2>4. ~HeldByCaller(s)'
    BY <1>0, <1>3 DEF Undoes, OtherCallers, HeldByCaller, Adding,
       AloneInv
  <2> QED
    BY <2>3, <2>4 DEF Held
<1>4. ASSUME NEW s \in ScanIds, ai[s].status \in InFlight, ~SameStatus(s),
             Held(s)'
      PROVE  ai'[s].status = "RUNNING"
  <2>1. \A c \in Callers : ~Quiet(c) /\ ~Takes(c) /\ ~Adds(c)
    BY <1>4 DEF Quiet, Takes, Adds, NotInFlight, SameStatus
  <2>2. \A c \in Callers : ~Undoes(c)
    BY <1>3, <1>4 DEF Undoes
  <2>3. \A w \in Workers : ~Ends(w) /\ ~Gives(w)
    BY <1>2, <1>4 DEF Ends, Gives, SameStatus
  <2> QED
    BY <1>4, <2>1, <2>2, <2>3, CalmMoves
       DEF CalmMove, Nothing, Goes, Picks, SameStatus
<1>5. ASSUME NEW s \in ScanIds, Held(s)' PROVE ai'[s].status \in InFlight
  <2>1. ASSUME NEW c \in Callers, Takes(c), caller[c].scan = s
        PROVE  ai'[s].status \in InFlight
    BY <2>1 DEF Takes, InFlight
  <2>2. CASE Held(s)
    <3>1. ai[s].status \in InFlight
      BY <1>0, <2>2 DEF HeldInv, NotInFlight
    <3> QED
      BY <1>4, <1>5, <3>1 DEF SameStatus, InFlight
  <2> QED
    BY <1>1, <1>5, <2>1, <2>2
<1>6. ASSUME NEW w \in Workers, worker'[w].pc \in Asking,
             NEW s, s = ScanOf(w)'
      PROVE  ai'[s].status = "RUNNING"
  <2>1. CASE worker'[w] = worker[w]
    <3>1. WorkerHolds(w) /\ worker[w].pc \in Asking /\ WorkerHolds(w)'
      BY <1>6, <2>1 DEF WorkerHolds, Working, Asking
    <3>2. s = ScanOf(w)
      <4>1. worker[w].run \in RunIds /\ job[worker[w].run].state # "none"
        BY <3>1 DEF TypeInv, RefsInv, Asking
      <4>2. job'[worker[w].run].scan = job[worker[w].run].scan
        BY <4>1, JobsStay
      <4> QED
        BY <1>6, <2>1, <4>2 DEF ScanOf
    <3>3. s \in ScanIds /\ Held(s)' /\ ai[s].status = "RUNNING"
      BY <1>0, <1>6, <3>1, <3>2 DEF Held, HeldByWorker, HeldInv
    <3> QED
      BY <1>4, <3>3 DEF SameStatus, InFlight
  <2>2. CASE worker'[w] # worker[w]
    <3>1. Goes(w)
      <4>1. \A c \in Callers : ~(Quiet(c) \/ Takes(c) \/ Adds(c) \/ Undoes(c))
        BY <2>2 DEF Quiet, Takes, Adds, Undoes
      <4>2. ~Nothing
        BY <2>2 DEF Nothing
      <4>3. \A v \in Workers : /\ Goes(v) => v = w
                              /\ ~Ends(v) /\ ~Gives(v)
                              /\ \A j \in RunIds : ~Picks(v, j)
        BY <1>6, <2>2 DEF Goes, Ends, Gives, Picks, Others, Asking, Working
      <4> QED
        BY <4>1, <4>2, <4>3, CalmMoves DEF CalmMove
    <3>2. s = ScanOf(w)
      BY <1>6, <3>1 DEF Goes, ScanOf
    <3> QED
      BY <1>6, <3>1, <3>2 DEF Goes
  <2> QED
    BY <2>1, <2>2
<1>7. \A w \in Workers : worker'[w].pc \in Asking =>
        ai'[ScanOf(w)'].status = "RUNNING"
  BY <1>6
<1> QED
  BY <1>5, <1>7 DEF HeldInv, NotInFlight

LEMMA StillHeld ==
  ASSUME TypeInv, CalmInv, Calm, ~CallerMayCrash, [Next]_vars,
         NEW s \in ScanIds, Held(s), ai'[s].status \in InFlight
  PROVE  Held(s)'
<1>0. /\ worker \in [Workers -> Worker] /\ job \in [RunIds -> Job]
      /\ AloneInv /\ LockInv
      /\ \A w \in Workers : worker[w].pc # "idle" => worker[w].run \in RunIds
  BY DEF TypeInv, TypeOK, RefsInv, CalmInv
<1>1. /\ job' = job /\ HeldByJob(s) => HeldByJob(s)'
      /\ caller' = caller /\ HeldByCaller(s) => HeldByCaller(s)'
      /\ worker' = worker /\ job' = job /\ HeldByWorker(s) => HeldByWorker(s)'
  BY DEF HeldByJob, JobHolds, HeldByCaller, Adding, HeldByWorker, WorkerHolds,
     ScanOf
<1>2. ASSUME NEW w \in Workers, Others(w), NEW v \in Workers, v # w,
              WorkerHolds(v), ScanOf(v) = s
       PROVE  HeldByWorker(s)'
  <2>1. worker[v].pc # "idle"
    BY <1>2 DEF WorkerHolds, Working
  <2>2. WorkerHolds(v)' /\ ScanOf(v)' = s
    BY <1>2, <2>1, OtherWorkers
  <2> QED
    BY <2>2 DEF HeldByWorker
<1>3. ASSUME NEW w \in Workers, Goes(w) PROVE Held(s)'
  <2>1. WorkerHolds(w)' /\ ScanOf(w)' = ScanOf(w) /\ Others(w)
    BY <1>3 DEF Goes, WorkerHolds, ScanOf
  <2>2. HeldByWorker(s) => HeldByWorker(s)'
    BY <1>2, <2>1 DEF HeldByWorker
  <2> QED
    BY <1>1, <1>3, <2>2 DEF Goes, Held
<1>4. ASSUME NEW w \in Workers, Ends(w) PROVE Held(s)'
  <2>1. HeldByWorker(s) => HeldByWorker(s)'
    <3>1. SUFFICES ASSUME NEW v \in Workers, WorkerHolds(v), ScanOf(v) = s
                   PROVE  HeldByWorker(s)'
      BY DEF HeldByWorker
    <3>2. v # w
      BY <1>4, <3>1 DEF Ends
    <3> QED
      BY <1>4, <1>2, <3>1, <3>2 DEF Ends
  <2>2. HeldByJob(s) => HeldByJob(s)'
    <3>1. SUFFICES ASSUME NEW j \in RunIds, JobHolds(j), job[j].scan = s,
                          job' # job
                   PROVE  HeldByJob(s)'
      BY <1>1 DEF HeldByJob
    <3>2. PICK x \in Job : job' = [job EXCEPT ![worker[w].run] = x]
      BY <1>4, <3>1 DEF Ends
    <3>3. j # worker[w].run
      BY <1>0, <1>4, <3>1 DEF Ends, LockInv, Locked, JobHolds, WorkerHolds
    <3> QED
      BY <1>0, <3>1, <3>2, <3>3 DEF HeldByJob, JobHolds
  <2> QED
    BY <1>1, <1>4, <2>1, <2>2 DEF Ends, Held
<1>5. ASSUME NEW w \in Workers, Gives(w) PROVE Held(s)'
  <2>1. PICK j : j = worker[w].run
    OBVIOUS
  <2>2. PICK x \in Job :
          /\ job' = [job EXCEPT ![j] = x] /\ x.scan = ScanOf(w)
          /\ \/ x.state = "delayed" /\ worker'[w].pc = "idle"
             \/ /\ x.state = "failed" /\ worker'[w].pc = "onFailed"
                /\ worker'[w].run = j
    BY <1>5, <2>1 DEF Gives
  <2>3. /\ j \in RunIds /\ ~JobHolds(j)
        /\ job'[j].scan = ScanOf(w) /\ job'[j].state = x.state
    BY <1>0, <1>5, <2>1, <2>2
       DEF Gives, Working, LockInv, Locked, JobHolds
  <2>4. HeldByJob(s) => HeldByJob(s)'
    BY <1>0, <2>2, <2>3 DEF HeldByJob, JobHolds
  <2>5. ASSUME NEW v \in Workers, WorkerHolds(v), ScanOf(v) = s
        PROVE  HeldByWorker(s)' \/ HeldByJob(s)'
    <3>1. CASE v # w
      BY <1>5, <1>2, <2>5, <3>1 DEF Gives
    <3>2. CASE v = w /\ x.state = "delayed"
      BY <2>3, <2>5, <3>2 DEF HeldByJob, JobHolds
    <3>3. CASE v = w /\ x.state = "failed"
      <4>1. WorkerHolds(w)'
        BY <2>2, <3>3 DEF WorkerHolds
      <4>2. ScanOf(w)' = s
        BY <2>2, <2>3, <2>5, <3>3 DEF ScanOf
      <4> QED
        BY <4>1, <4>2 DEF HeldByWorker
    <3> QED
      BY <2>2, <3>1, <3>2, <3>3
  <2> QED
    BY <1>1, <1>5, <2>4, <2>5 DEF Gives, Held, HeldByWorker
<1>6. ASSUME NEW w \in Workers, NEW j \in RunIds, Picks(w, j) PROVE Held(s)'
  <2>1. PICK x \in Job : job' = [job EXCEPT ![j] = x] /\ x.scan = job[j].scan
    BY <1>6 DEF Picks
  <2>2. ASSUME NEW i \in RunIds, JobHolds(i), job[i].scan = s
        PROVE  HeldByWorker(s)' \/ HeldByJob(s)'
    <3>1. CASE i # j
      BY <1>0, <2>1, <2>2, <3>1 DEF HeldByJob, JobHolds
    <3>2. CASE i = j
      <4>1. WorkerHolds(w)'
        BY <1>6 DEF Picks, WorkerHolds, Working
      <4>2. ScanOf(w)' = s
        BY <1>0, <1>6, <2>1, <2>2, <3>2 DEF Picks, ScanOf
      <4> QED
        BY <4>1, <4>2 DEF HeldByWorker
    <3> QED
      BY <3>1, <3>2
  <2>3. HeldByWorker(s) => HeldByWorker(s)'
    <3>1. SUFFICES ASSUME NEW v \in Workers, WorkerHolds(v), ScanOf(v) = s
                   PROVE  WorkerHolds(v)' /\ ScanOf(v)' = s
      BY DEF HeldByWorker
    <3>2. v # w
      BY <1>6, <3>1 DEF Picks, WorkerHolds, Working
    <3>3. worker[v].pc # "idle"
      BY <3>1 DEF WorkerHolds, Working
    <3> QED
      BY <1>6, <3>1, <3>2, <3>3, OtherWorkers DEF Picks
  <2> QED
    <3>1. ASSUME HeldByJob(s)
          PROVE  HeldByWorker(s)' \/ HeldByJob(s)'
      <4>1. PICK i \in RunIds : JobHolds(i) /\ job[i].scan = s
        BY <3>1 DEF HeldByJob
      <4> QED
        BY <2>2, <4>1
    <3>2. HeldByWorker(s)' => Held(s)'
      BY DEF Held
    <3>3. HeldByJob(s)' => Held(s)'
      BY DEF Held
    <3> QED
      BY <1>1, <1>6, <2>3, <3>1, <3>2, <3>3 DEF Picks, Held
<1>7. ASSUME NEW c \in Callers, Quiet(c) PROVE Held(s)'
  <2>1. HeldByCaller(s) => HeldByCaller(s)'
    BY <1>7 DEF Quiet, OtherCallers, HeldByCaller, Adding
  <2> QED
    BY <1>1, <1>7, <2>1 DEF Quiet, Held
<1>8. ASSUME NEW c \in Callers, Takes(c) PROVE Held(s)'
  <2>1. HeldByCaller(s) => HeldByCaller(s)'
    BY <1>8 DEF Takes, OtherCallers, HeldByCaller, Adding
  <2> QED
    BY <1>1, <1>8, <2>1 DEF Takes, Held
<1>9. ASSUME NEW c \in Callers, Adds(c) PROVE Held(s)'
  <2>1. PICK j : j = caller[c].run
    OBVIOUS
  <2>2. PICK x \in Job : /\ job' = [job EXCEPT ![j] = x]
                         /\ x.state = "waiting" /\ x.scan = caller[c].scan
    BY <1>9, <2>1 DEF Adds
  <2>3. /\ j \in RunIds /\ ~JobHolds(j) /\ job'[j] = x
        /\ job[j].state = "none"
    BY <1>0, <1>9, <2>1, <2>2 DEF Adds, JobHolds
  <2>4. HeldByJob(s) => HeldByJob(s)'
    BY <1>0, <2>2, <2>3 DEF HeldByJob, JobHolds
  <2>5. HeldByWorker(s) => HeldByWorker(s)'
    <3>1. \A w \in Workers : WorkerHolds(w) => ScanOf(w)' = ScanOf(w)
      <4>1. SUFFICES ASSUME NEW w \in Workers, WorkerHolds(w)
                     PROVE  ScanOf(w)' = ScanOf(w)
        OBVIOUS
      <4>2. worker[w].run \in RunIds /\ job[worker[w].run].state # "none"
        BY <4>1 DEF WorkerHolds, Working, TypeInv, RefsInv
      <4> QED
        BY <1>9, <4>2, JobsStay DEF Adds, ScanOf
    <3> QED
      BY <1>9, <3>1 DEF Adds, HeldByWorker, WorkerHolds
  <2>6. HeldByCaller(s) => HeldByCaller(s)' \/ HeldByJob(s)'
    <3>1. SUFFICES ASSUME NEW d \in Callers, Adding(d), caller[d].scan = s
                   PROVE  HeldByCaller(s)' \/ HeldByJob(s)'
      BY DEF HeldByCaller
    <3>2. CASE d # c
      BY <1>9, <3>1, <3>2 DEF Adds, OtherCallers, HeldByCaller, Adding
    <3>3. CASE d = c
      BY <2>2, <2>3, <3>1, <3>3 DEF HeldByJob, JobHolds
    <3> QED
      BY <3>2, <3>3
  <2> QED
    BY <2>4, <2>5, <2>6 DEF Held
<1>10. ASSUME NEW c \in Callers, Undoes(c) PROVE Held(s)'
  <2>1. caller[c].scan # s
    BY <1>10 DEF Undoes, InFlight
  <2>2. HeldByCaller(s) => HeldByCaller(s)'
    BY <1>10, <2>1 DEF Undoes, OtherCallers, HeldByCaller, Adding
  <2> QED
    BY <1>1, <1>10, <2>2 DEF Undoes, Held
<1>11. CASE Nothing
  BY <1>1, <1>11 DEF Nothing, Held
<1> QED
  BY <1>3, <1>4, <1>5, <1>6, <1>7, <1>8, <1>9, <1>10, <1>11, CalmMoves
     DEF CalmMove

LEMMA FoundStep ==
  ASSUME TypeInv, CalmInv, Calm, ~CallerMayCrash, FoundInv, [Next]_vars
  PROVE  FoundInv'
<1>1. SUFFICES ASSUME NEW s \in ScanIds \ Unchanged, ai'[s].status \in InFlight
               PROVE  Held(s)'
  BY DEF FoundInv, NotInFlight
<1>2. CASE Held(s)
  BY <1>1, <1>2, StillHeld
<1>3. CASE ~Held(s)
  <2>1. ai[s].status \notin InFlight /\ ~SameStatus(s)
    BY <1>1, <1>3 DEF FoundInv, NotInFlight, SameStatus
  <2>2. \A w \in Workers : ~Goes(w) /\ ~Ends(w) /\ ~Gives(w)
    BY <1>1, <1>3, <2>1
       DEF Goes, Ends, Gives, SameStatus, Held, HeldByWorker, WorkerHolds
  <2>3. \A c \in Callers : ~Quiet(c) /\ ~Adds(c) /\ ~Undoes(c)
    BY <1>1, <2>1 DEF Quiet, Adds, Undoes, SameStatus, InFlight
  <2>4. PICK c \in Callers : Takes(c)
    BY <2>1, <2>2, <2>3, CalmMoves DEF CalmMove, Nothing, Picks, SameStatus
  <2>5. Adding(c)' /\ caller'[c].scan = s
    BY <2>1, <2>4 DEF Takes
  <2> QED
    BY <2>5 DEF Held, HeldByCaller
<1> QED
  BY <1>2, <1>3

LEMMA CalmInit == Init => CalmInv /\ FoundInv
<1> SUFFICES ASSUME Init PROVE CalmInv /\ FoundInv
  OBVIOUS
<1>1. /\ \A s \in ScanIds : NotInFlight(s)
      /\ \A w \in Workers : worker[w].pc = "idle"
      /\ \A c \in Callers : ~Adding(c)
      /\ \A j \in RunIds : ~JobHolds(j)
      /\ reaper.pc = "idle"
  BY DEF Init, NotInFlight, InFlight, NoAi, NoWorker, NoCaller, Adding, NoJob,
     JobHolds, NoReaper
<1>2. \A s \in ScanIds : ~HeldByJob(s) /\ ~HeldByWorker(s) /\ ~HeldByCaller(s)
  BY <1>1 DEF HeldByJob, HeldByWorker, HeldByCaller, WorkerHolds, Working
<1>3. LockInv
  BY <1>1 DEF LockInv, Locked
<1>4. AloneInv
  BY <1>1, <1>2 DEF AloneInv, WorkerHolds, Working
<1>5. HeldInv
  BY <1>1, <1>2 DEF HeldInv, Held, Asking
<1>6. FoundInv
  BY <1>1 DEF FoundInv
<1> QED
  BY <1>1, <1>3, <1>4, <1>5, <1>6 DEF CalmInv

LEMMA CalmCorrect ==
  ASSUME Calm
  PROVE  Spec => []CalmInv
<1>1. TypeInv /\ CalmInv /\ [Next]_vars => CalmInv'
  BY LockStep, AloneStep, HeldStep, ReaperAway DEF CalmInv
<1> QED
  BY <1>1, CalmInit, TypeCorrect, PTL DEF Spec

(* At most one worker at a time asks the model for a scan, although the    *)
(* step after the static scan and "regenerate" decide concurrently and     *)
(* failed jobs are retried: the claim in Scan.aiStatus is enough.          *)
THEOREM OneRunPerScanAtATime ==
  ASSUME MaxStalls = 0, ~ReaperRuns, ~DbMayFail
  PROVE  Spec => []OneRunPerScan
<1>1. CalmInv => OneRunPerScan
  BY DEF CalmInv, AloneInv, OneRunPerScan, WorkerHolds, Working
<1>2. Calm
  BY DEF Calm
<1> QED
  BY <1>1, <1>2, CalmCorrect, PTL

(* While no process dies and writes succeed, a review never shows "AI      *)
(* reviewing" with nothing behind it: a job, its failure handler, or a     *)
(* decision about to add it.                                               *)
THEOREM ReviewsInFlightHaveWork ==
  ASSUME MaxStalls = 0, ~ReaperRuns, ~DbMayFail, ~CallerMayCrash
  PROVE  Spec => []InFlightHasWork
<1>1. Calm
  BY DEF Calm
<1>2. TypeInv /\ CalmInv /\ FoundInv /\ [Next]_vars => FoundInv'
  BY <1>1, FoundStep
<1>3. Spec => []FoundInv
  BY <1>1, <1>2, CalmInit, CalmCorrect, TypeCorrect, PTL DEF Spec
<1>4. TypeInv /\ CalmInv /\ FoundInv => InFlightHasWork
  <2>1. SUFFICES ASSUME TypeInv, CalmInv, NEW s \in ScanIds, Held(s)
                 PROVE  \/ HasJob(s)
                        \/ \E w \in Workers : worker[w].pc = "onFailed"
                                             /\ ScanOf(w) = s
                        \/ \E c \in Callers : caller[c].pc \in {"add", "undo"}
                                             /\ caller[c].scan = s
    BY DEF FoundInv, InFlightHasWork
  <2>2. CASE HeldByJob(s)
    BY <2>2 DEF HeldByJob, JobHolds, HasJob, Live
  <2>3. ASSUME NEW w \in Workers, WorkerHolds(w), ScanOf(w) = s,
               worker[w].pc # "onFailed"
        PROVE  HasJob(s)
    <3>1. Locked(w) /\ worker[w].run \in RunIds
      BY <2>1, <2>3 DEF WorkerHolds, Working, Locked, TypeInv, RefsInv
    <3>2. job[worker[w].run].state = "active"
      BY <2>1, <3>1 DEF CalmInv, LockInv
    <3> QED
      BY <2>3, <3>1, <3>2 DEF HasJob, Live, ScanOf
  <2> QED
    BY <2>1, <2>2, <2>3 DEF Held, HeldByWorker, HeldByCaller, Adding
<1> QED
  BY <1>1, <1>3, <1>4, CalmCorrect, TypeCorrect, PTL

=============================================================================
