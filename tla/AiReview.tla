------------------------------ MODULE AiReview ------------------------------
(***************************************************************************)
(* The AI review of the scans of one commit of a pull request: the step    *)
(* that decides it (AiScanService, called when a static scan is DONE and   *)
(* by "regenerate"), the jobs that ask the model (AiScanProcessor), and    *)
(* the sweep for reviews whose job is gone (AiOrphanReaper).               *)
(*                                                                         *)
(* The API process, the workers and the reaper only meet in the Scan row   *)
(* and in the queue, so every handler is cut at its awaits, as in          *)
(* ScanPipeline.                                                           *)
(*                                                                         *)
(* Abstractions: a model and a language are numbers; a call costs one      *)
(* token; the AI findings of a scan are the set of settings of the runs    *)
(* they come from.  NOT_CONFIGURED, CONSENT_REQUIRED and                   *)
(* SKIPPED_MANUAL_MODE are one status, "BLOCKED" (a MANUAL_ONLY branch is  *)
(* a consent not given), SKIPPED_TOO_LARGE and BUDGET_EXCEEDED another,    *)
(* "SKIPPED".  The regenerate rate limit is left out: more of them overlap *)
(* here than in the code.                                                  *)
(***************************************************************************)
EXTENDS Integers, FiniteSets

CONSTANTS
    Callers,        \* slots for decisions in progress at the same time
    Workers,        \* job executors
    NumScans,       \* bound: scans of the commit
    Unchanged,      \* scans that rescan the one before them, with no change
    NumModels,      \* bound: models to choose from
    NumLocales,     \* bound: languages to choose from
    MaxRuns,        \* bound: AI runs queued
    Budget,         \* Organization.aiDailyTokenBudget
    Attempts,       \* AI_JOB_ATTEMPTS
    MaxStalls,      \* bound: times one job may lose its worker or its lock
    StallLimit,     \* BullMQ's maxStalledCount
    SettingsChange, \* the settings may change
    ReaperRuns,     \* the reaper sweeps
    CallerMayCrash, \* the process of a decision may die between two queries
    DbMayFail       \* a query may fail once the model has answered, or
                    \* while recovering from an error

ASSUME BoundsAssumption ==
    /\ NumScans \in Nat /\ NumModels \in Nat \ {0} /\ NumLocales \in Nat \ {0}
    /\ MaxRuns \in Nat /\ Budget \in Nat
    /\ Attempts \in Nat \ {0} /\ MaxStalls \in Nat /\ StallLimit \in Nat
    /\ Unchanged \subseteq 2..NumScans

ASSUME SlotsAssumption == IsFiniteSet(Callers) /\ IsFiniteSet(Workers)

ASSUME SwitchesAssumption ==
    {SettingsChange, ReaperRuns, CallerMayCrash, DbMayFail} \subseteq BOOLEAN

VARIABLES
    settings,   \* the organization's AI settings, now
    cache,      \* Redis: the scan that holds the answer for a cache key
    used,       \* AiUsageDaily, today
    calls,      \* history: tokens the provider was asked for today
    ai,         \* the ai* columns and the AI results of each Scan row
    runs,       \* AI runs claimed so far; run n has job n
    job,        \* the BullMQ jobs
    caller,     \* decisions in progress
    worker,     \* jobs being executed
    reaper      \* the sweep in progress

dbVars == <<settings, cache, used, calls, ai, runs>>
vars == <<dbVars, job, caller, worker, reaper>>

-----------------------------------------------------------------------------
ScanIds == 1..NumScans
RunIds == 1..MaxRuns
NoScan == 0
NoRun == 0

InFlight == {"QUEUED", "RUNNING"}
AiStatuses == {"none", "QUEUED", "RUNNING", "DONE", "CACHED", "FAILED",
               "BLOCKED", "SKIPPED"}

(* What a review is made with; in a Scan row, its aiModel and aiLocale.    *)
Identity == [model : 0..NumModels, locale : 0..NumLocales]
NoIdentity == [model |-> 0, locale |-> 0]

(* model 0: no usable provider; consent: aiConsentAt is set and the branch *)
(* policy is not MANUAL_ONLY.  Both are needed for a review.               *)
Settings == [model : 0..NumModels, locale : 1..NumLocales, consent : BOOLEAN]
Ready(set) == set.model # 0 /\ set.consent
AsIdentity(set) == [model |-> set.model, locale |-> set.locale]

(* `id`: the columns; `by`: what the summary was really made with (none:   *)
(* there is no summary); `parts`: what the findings were made with;        *)
(* `tokens`: whose aiTokensIn and aiTokensOut the row shows; `raw`: it has *)
(* an aiRawRef; `old`: more than REAP_GRACE_MS has passed since            *)
(* aiStartedAt ?? finishedAt.                                              *)
AiRow == [static : {"none", "running", "done"}, status : AiStatuses,
          id : Identity, by : Identity, parts : SUBSET Identity,
          tokens : {"none", "answer", "failure"}, raw : BOOLEAN,
          old : BOOLEAN]
NoAi == [static |-> "none", status |-> "none", id |-> NoIdentity,
         by |-> NoIdentity, parts |-> {}, tokens |-> "none", raw |-> FALSE,
         old |-> FALSE]

Job == [state : {"none", "waiting", "delayed", "active", "completed",
                 "failed"},
        scan : ScanIds \cup {NoScan}, merge : BOOLEAN, made : Nat,
        stalls : Nat]
NoJob == [state |-> "none", scan |-> NoScan, merge |-> FALSE, made |-> 0,
          stalls |-> 0]
Live(j) == job[j].state \in {"waiting", "delayed", "active"}

Caller == [pc : {"idle", "decide", "settle", "base", "copyBase", "budget",
                 "cache", "copyCache", "claim", "add", "undo"},
           scan : ScanIds \cup {NoScan}, want : Identity, merge : BOOLEAN,
           status : AiStatuses, run : RunIds \cup {NoRun},
           first : BOOLEAN, got : AiRow]
NoCaller == [pc |-> "idle", scan |-> NoScan, want |-> NoIdentity,
             merge |-> FALSE, status |-> "none", run |-> NoRun,
             first |-> FALSE, got |-> NoAi]

(* toAiError: how a call may end, whichever adapter made it.  Retryable    *)
(* errors are tried again; of an unusable answer the raw text is kept.     *)
AiErrorKinds == {"retryable", "refused", "unusable"}
KindOf(code) ==
    CASE code \in {"rate_limited", "timeout", "provider_unreachable"}
           -> "retryable"
      [] code \in {"auth_failed", "bad_request"} -> "refused"
      [] code \in {"invalid_response", "output_truncated",
                    "reasoning_exhausted"} -> "unusable"
AiErrorCodes == {"rate_limited", "timeout", "provider_unreachable",
                 "auth_failed", "bad_request", "invalid_response",
                 "output_truncated", "reasoning_exhausted"}

Worker == [pc : {"idle", "stalled", "claim", "load", "provider", "call",
                 "bill", "show", "raw", "failing", "persist", "usage",
                 "remember", "notify", "finish", "onFailed"},
           run : RunIds \cup {NoRun}, lock : BOOLEAN, claimed : 0..NumModels,
           using : Identity, error : AiErrorKinds \cup {"none"},
           kept : {"nothing", "partial", "whole"}]
NoWorker == [pc |-> "idle", run |-> NoRun, lock |-> FALSE, claimed |-> 0,
             using |-> NoIdentity, error |-> "none", kept |-> "nothing"]

Reaper == [pc : {"idle", "jobs", "reap"}, found : SUBSET ScanIds]
NoReaper == [pc |-> "idle", found |-> {}]

ScanOf(w) == job[worker[w].run].scan
NotInFlight(s) == ai[s].status \notin InFlight

-----------------------------------------------------------------------------
TypeOK ==
    /\ settings \in Settings
    /\ cache \in [BOOLEAN \X Identity -> ScanIds \cup {NoScan}]
    /\ used \in Nat /\ calls \in Nat
    /\ ai \in [ScanIds -> AiRow]
    /\ runs \in 0..MaxRuns
    /\ job \in [RunIds -> Job]
    /\ caller \in [Callers -> Caller]
    /\ worker \in [Workers -> Worker]
    /\ reaper \in Reaper

Init ==
    /\ settings \in {set \in Settings : set.locale = 1 /\ set.model < 2}
    /\ cache = [k \in BOOLEAN \X Identity |-> NoScan]
    /\ used = 0 /\ calls = 0
    /\ ai = [s \in ScanIds |-> NoAi]
    /\ runs = 0
    /\ job = [j \in RunIds |-> NoJob]
    /\ caller = [c \in Callers |-> NoCaller]
    /\ worker = [w \in Workers |-> NoWorker]
    /\ reaper = NoReaper

-----------------------------------------------------------------------------
(* The environment.                                                        *)

(* updateAi: a provider whose key is missing or deleted is of no use.      *)
UsableModel(model, hasKey) == IF hasKey THEN model ELSE 0

(* An Admin saves other AI settings.                                       *)
ChangeSettings ==
    /\ SettingsChange
    /\ \E model \in 1..NumModels, locale \in 1..NumLocales,
          hasKey, consent \in BOOLEAN :
           settings' = [model |-> UsableModel(model, hasKey),
                        locale |-> locale, consent |-> consent]
    /\ settings' # settings
    /\ UNCHANGED <<cache, used, calls, ai, runs, job, caller, worker, reaper>>

(* Two minutes pass.  A decision that follows its static scan takes less   *)
(* than that: this is what the grace is for.                               *)
GraceElapses(s) ==
    /\ ai[s].static = "done" /\ ~ai[s].old
    /\ \A c \in Callers : caller[c].scan = s => ~caller[c].first
    /\ ai' = [ai EXCEPT ![s].old = TRUE]
    /\ UNCHANGED <<settings, cache, used, calls, runs, job, caller, worker,
                   reaper>>

-----------------------------------------------------------------------------
(* Decisions.  One only starts while a run is left for it.                 *)

Busy == {c \in Callers : caller[c].pc # "idle"}
MayStart(c) == /\ caller[c].pc = "idle"
               /\ Cardinality(Busy) + runs < MaxRuns

Start(c, s, first) ==
    caller' = [caller EXCEPT ![c] = [NoCaller EXCEPT !.pc = "decide",
                                                     !.scan = s,
                                                     !.first = first]]

(* decideScanMode: may a rescan of the same commit be INCREMENTAL, so that *)
(* it has nothing to scan?  Only if there is no AI review to make up for.  *)
MayContinue(b) ==
    /\ ai[b].id.locale \in {0, settings.locale}
    /\ Ready(settings) => \/ ai[b].by # NoIdentity
                          \/ ai[b].status = "SKIPPED"

(* A scan of the commit is created: rescans wait for the AI review.        *)
StartScan(s) ==
    /\ ai[s].static = "none"
    /\ s > 1 => ai[s - 1].static = "done" /\ NotInFlight(s - 1)
    /\ s \in Unchanged => MayContinue(s - 1)
    /\ ai' = [ai EXCEPT ![s].static = "running"]
    /\ UNCHANGED <<settings, cache, used, calls, runs, job, caller, worker,
                   reaper>>

(* A static scan is DONE; its worker goes on to maybeEnqueue.              *)
FinishStatic(c, s) ==
    /\ MayStart(c)
    /\ ai[s].static = "running"
    /\ ai' = [ai EXCEPT ![s].static = "done"]
    /\ Start(c, s, TRUE)
    /\ UNCHANGED <<settings, cache, used, calls, runs, job, worker, reaper>>

IsLatest(s) == /\ ai[s].static = "done"
               /\ \A t \in ScanIds : t > s => ai[t].static # "done"

(* PullSummaryService.regenerate: refused while a run is in flight.        *)
Regenerate(c, s) ==
    /\ MayStart(c)
    /\ IsLatest(s) /\ NotInFlight(s)
    /\ Start(c, s, FALSE)
    /\ UNCHANGED <<dbVars, job, worker, reaper>>

(* isComparableRun                                                         *)
IsComparable(earlier, current) ==
    /\ earlier.model # 0 /\ earlier.locale # 0
    /\ earlier = current

(* decide: the scan and the settings are read; whether its findings will   *)
(* be merged follows from the columns as they are read here.               *)
Decide(c) ==
    LET q == caller[c]
        want == AsIdentity(settings)
    IN  /\ q.pc = "decide"
        /\ caller' =
             [caller EXCEPT ![c] =
                IF ~Ready(settings)
                THEN [q EXCEPT !.pc = "settle", !.status = "BLOCKED"]
                ELSE [q EXCEPT !.pc = IF q.scan \in Unchanged THEN "base"
                                      ELSE "budget",
                               !.want = want,
                               !.merge = IsComparable(ai[q.scan].id, want)]]
        /\ UNCHANGED <<dbVars, job, worker, reaper>>

(* Mutant of MaySettle: the status is written whatever is in flight.       *)
AlwaysSettle(s) == TRUE

(* setStatus, and the end of the decision.                                 *)
MaySettle(s) == NotInFlight(s)

Settle(c) ==
    LET q == caller[c]
    IN  /\ q.pc = "settle"
        /\ ai' = IF MaySettle(q.scan)
                 THEN [ai EXCEPT ![q.scan].status = q.status] ELSE ai
        /\ caller' = [caller EXCEPT ![c] = NoCaller]
        /\ UNCHANGED <<settings, cache, used, calls, runs, job, worker,
                       reaper>>

(* What is reported when the base has no review to copy.                   *)
StatusOfBase(b) == IF ai[b].status = "none" THEN "SKIPPED" ELSE ai[b].status

(* copySummaryFromBase: the base is read ...                               *)
ReadBase(c) ==
    LET q == caller[c]
        b == q.scan - 1
        hasSummary == ai[b].by # NoIdentity
        otherLocale == /\ ai[b].id.locale # 0
                       /\ ai[b].id.locale # q.want.locale
    IN  /\ q.pc = "base"
        /\ caller' =
             [caller EXCEPT ![c] =
                IF ~hasSummary
                THEN [q EXCEPT !.pc = "settle", !.status = StatusOfBase(b)]
                ELSE IF otherLocale THEN [q EXCEPT !.pc = "budget"]
                ELSE [q EXCEPT !.pc = "copyBase", !.got = ai[b]]]
        /\ UNCHANGED <<dbVars, job, worker, reaper>>

(* ... and its summary copied, unless a run is in flight by then.          *)
CopyBase(c) ==
    LET q == caller[c]
    IN  /\ q.pc = "copyBase"
        /\ ai' = IF NotInFlight(q.scan)
                 THEN [ai EXCEPT ![q.scan] = [@ EXCEPT !.status = "CACHED",
                                                       !.id = q.got.id,
                                                       !.by = q.got.by,
                                                       !.tokens = "none"]]
                 ELSE ai
        /\ caller' = [caller EXCEPT ![c] = NoCaller]
        /\ UNCHANGED <<settings, cache, used, calls, runs, job, worker,
                       reaper>>

(* Steps 5 and 6: a diff over ai.maxDiffBytes is over any budget.          *)
OverBudget == used >= Budget

CheckBudget(c) ==
    LET q == caller[c]
    IN  /\ q.pc = "budget"
        /\ caller' = [caller EXCEPT ![c] =
                        IF OverBudget
                        THEN [q EXCEPT !.pc = "settle", !.status = "SKIPPED"]
                        ELSE [q EXCEPT !.pc = "cache"]]
        /\ UNCHANGED <<dbVars, job, worker, reaper>>

(* The parts of the cache key that are not the same for all these scans.   *)
CacheKey(s, id) == <<s \in Unchanged, id>>

Reusable(s) == /\ ai[s].by # NoIdentity
               /\ ai[s].status \in {"DONE", "CACHED"}

CacheHit(c) ==
    LET q == caller[c]
        source == cache[CacheKey(q.scan, q.want)]
    IN  /\ q.pc = "cache"
        /\ source \notin {NoScan, q.scan}
        /\ Reusable(source)
        /\ caller' = [caller EXCEPT ![c] = [q EXCEPT !.pc = "copyCache",
                                                     !.got = ai[source]]]
        /\ UNCHANGED <<dbVars, job, worker, reaper>>

(* Nothing cached; the entry has expired, or Redis does not answer.        *)
CacheMiss(c) ==
    /\ caller[c].pc = "cache"
    /\ caller' = [caller EXCEPT ![c].pc = "claim"]
    /\ UNCHANGED <<dbVars, job, worker, reaper>>

(* persistAiResult: the findings of this scan's own AI runs are replaced,  *)
(* or merged with the new ones.                                            *)
Stored(row, status, id, by, parts, merge) ==
    [row EXCEPT !.status = status, !.id = id, !.by = by,
                !.parts = IF merge THEN row.parts \cup parts ELSE parts,
                !.tokens = IF status = "CACHED" THEN "none" ELSE "answer",
                !.raw = FALSE]

CopyCache(c) ==
    LET q == caller[c]
    IN  /\ q.pc = "copyCache"
        /\ IF NotInFlight(q.scan)
           THEN /\ ai' = [ai EXCEPT ![q.scan] =
                            Stored(ai[q.scan], "CACHED", q.got.id, q.got.by,
                                   q.got.parts, q.merge)]
                /\ caller' = [caller EXCEPT ![c] = NoCaller]
           ELSE /\ caller' = [caller EXCEPT ![c].pc = "claim"]
                /\ UNCHANGED ai
        /\ UNCHANGED <<settings, cache, used, calls, runs, job, worker,
                       reaper>>

(* Mutant of MayClaim: the claim is not conditional.                       *)
AlwaysClaim(s) == TRUE

(* Step 8: the transition to QUEUED, conditional on no run in flight.      *)
MayClaim(s) == NotInFlight(s)

ClaimRun(c) ==
    LET q == caller[c]
    IN  /\ q.pc = "claim"
        /\ MayClaim(q.scan)
        /\ runs < MaxRuns
        /\ runs' = runs + 1
        /\ ai' = [ai EXCEPT ![q.scan] = [@ EXCEPT !.status = "QUEUED",
                                                  !.id = q.want]]
        /\ caller' = [caller EXCEPT ![c] = [q EXCEPT !.pc = "add",
                                                     !.run = runs + 1]]
        /\ UNCHANGED <<settings, cache, used, calls, job, worker, reaper>>

AlreadyClaimed(c) ==
    /\ caller[c].pc = "claim"
    /\ ~MayClaim(caller[c].scan)
    /\ caller' = [caller EXCEPT ![c] = NoCaller]
    /\ UNCHANGED <<dbVars, job, worker, reaper>>

AddJob(c) ==
    LET q == caller[c]
    IN  /\ q.pc = "add"
        /\ job' = [job EXCEPT ![q.run] = [NoJob EXCEPT !.state = "waiting",
                                                       !.scan = q.scan,
                                                       !.merge = q.merge]]
        /\ caller' = [caller EXCEPT ![c] = NoCaller]
        /\ UNCHANGED <<dbVars, worker, reaper>>

AddThrows(c) ==
    /\ caller[c].pc = "add"
    /\ caller' = [caller EXCEPT ![c].pc = "undo"]
    /\ UNCHANGED <<dbVars, job, worker, reaper>>

(* queue.add threw: FAILED, by an update on the id alone.                  *)
UndoClaim(c) ==
    LET q == caller[c]
    IN  /\ q.pc = "undo"
        /\ ai' = [ai EXCEPT ![q.scan].status = "FAILED"]
        /\ caller' = [caller EXCEPT ![c] = NoCaller]
        /\ UNCHANGED <<settings, cache, used, calls, runs, job, worker,
                       reaper>>

CallerCrash(c) ==
    /\ CallerMayCrash
    /\ caller[c].pc # "idle"
    /\ caller' = [caller EXCEPT ![c] = NoCaller]
    /\ UNCHANGED <<dbVars, job, worker, reaper>>

-----------------------------------------------------------------------------
(* Workers.                                                                *)

Goto(w, pc) == worker' = [worker EXCEPT ![w].pc = pc]

Pick(w, j) ==
    /\ worker[w].pc = "idle"
    /\ job[j].state \in {"waiting", "delayed"}
    /\ job' = [job EXCEPT ![j].state = "active"]
    /\ worker' = [worker EXCEPT ![w] =
                    [NoWorker EXCEPT !.pc = IF job[j].stalls > StallLimit
                                            THEN "stalled" ELSE "claim",
                                     !.run = j, !.lock = TRUE]]
    /\ UNCHANGED <<dbVars, caller, reaper>>

(* 1. Claim; RUNNING too, so that a retry resumes its own run.             *)
Runnable(s) == ai[s].status \in InFlight

Claim(w) ==
    LET s == ScanOf(w)
    IN  /\ worker[w].pc = "claim"
        /\ Runnable(s)
        /\ ai' = [ai EXCEPT ![s] = [@ EXCEPT !.status = "RUNNING",
                                             !.old = FALSE]]
        /\ Goto(w, "load")
        /\ UNCHANGED <<settings, cache, used, calls, runs, job, caller,
                       reaper>>

SkipNotRunnable(w) ==
    /\ worker[w].pc = "claim"
    /\ ~Runnable(ScanOf(w))
    /\ Goto(w, "finish")
    /\ UNCHANGED <<dbVars, job, caller, reaper>>

(* The row is read, with the model it was claimed for and the language.    *)
Load(w) ==
    /\ worker[w].pc = "load"
    /\ worker' = [worker EXCEPT ![w] =
                    [@ EXCEPT !.pc = "provider",
                              !.claimed = ai[ScanOf(w)].id.model,
                              !.using = [model |-> 0,
                                         locale |-> settings.locale]]]
    /\ UNCHANGED <<dbVars, job, caller, reaper>>

(* 2. AiProviderFactory.for: the provider and the model of the moment.     *)
UseProvider(w) ==
    /\ worker[w].pc = "provider"
    /\ settings.model # 0
    /\ worker' = [worker EXCEPT ![w] = [@ EXCEPT !.pc = "call",
                                                 !.using.model =
                                                     settings.model]]
    /\ UNCHANGED <<dbVars, job, caller, reaper>>

NoProvider(w) ==
    LET s == ScanOf(w)
    IN  /\ worker[w].pc = "provider"
        /\ settings.model = 0
        /\ ai' = IF ai[s].status = "RUNNING"
                 THEN [ai EXCEPT ![s].status = "BLOCKED"] ELSE ai
        /\ Goto(w, "notify")
        /\ UNCHANGED <<settings, cache, used, calls, runs, job, caller,
                       reaper>>

(* 3-4. The model answers, maybe leaving fields out ...                    *)
CallAnswered(w, kept) ==
    /\ worker[w].pc = "call"
    /\ kept # "nothing"
    /\ calls' = calls + 1
    /\ worker' = [worker EXCEPT ![w] = [@ EXCEPT !.pc = "persist",
                                                 !.kept = kept]]
    /\ UNCHANGED <<settings, cache, used, ai, runs, job, caller, reaper>>

(* ... or the call fails although tokens were spent.                       *)
CallFailed(w, code) ==
    /\ worker[w].pc = "call"
    /\ calls' = calls + 1
    /\ worker' = [worker EXCEPT ![w] = [@ EXCEPT !.pc = "bill",
                                                 !.error = KindOf(code)]]
    /\ UNCHANGED <<settings, cache, used, ai, runs, job, caller, reaper>>

(* Mutant of Bill: the tokens of a failed reply are not counted.           *)
BillNothing(w) ==
    /\ worker[w].pc = "bill"
    /\ Goto(w, "show")
    /\ UNCHANGED <<dbVars, job, caller, reaper>>

(* Mutant of Bill: each attempt counts those before it again.              *)
BillEveryAttempt(w) ==
    LET before == job[worker[w].run].made + job[worker[w].run].stalls
    IN  /\ worker[w].pc = "bill"
        /\ used' = used + before + 1
        /\ Goto(w, "show")
        /\ UNCHANGED <<settings, cache, calls, ai, runs, job, caller, reaper>>

AfterUsage(w) == IF worker[w].error = "unusable" THEN "raw" ELSE "failing"

(* recordFailedUsage: the daily usage (an error is swallowed) ...          *)
Bill(w) ==
    /\ worker[w].pc = "bill"
    /\ \/ used' = used + 1 /\ Goto(w, "show")
       \/ DbMayFail /\ UNCHANGED used /\ Goto(w, AfterUsage(w))
    /\ UNCHANGED <<settings, cache, calls, ai, runs, job, caller, reaper>>

(* ... and the scan, by an update on the id alone.                         *)
ShowUsage(w) ==
    /\ worker[w].pc = "show"
    /\ \/ ai' = [ai EXCEPT ![ScanOf(w)].tokens = "failure"]
       \/ DbMayFail /\ UNCHANGED ai
    /\ Goto(w, AfterUsage(w))
    /\ UNCHANGED <<settings, cache, used, calls, runs, job, caller, reaper>>

(* keepRawResponse: so is this one.                                        *)
KeepRaw(w) ==
    /\ worker[w].pc = "raw"
    /\ \/ ai' = [ai EXCEPT ![ScanOf(w)].raw = TRUE]
       \/ DbMayFail /\ UNCHANGED ai
    /\ Goto(w, "failing")
    /\ UNCHANGED <<settings, cache, used, calls, runs, job, caller, reaper>>

(* Mutant of MayStore: the answer is stored whatever happened meanwhile.   *)
AlwaysStore(s) == TRUE

(* 5. One transaction, conditional on the row still being RUNNING.         *)
MayStore(s) == ai[s].status = "RUNNING"

Persist(w) ==
    LET s == ScanOf(w)
        q == worker[w]
    IN  /\ q.pc = "persist"
        /\ MayStore(s)
        /\ ai' = [ai EXCEPT ![s] = Stored(ai[s], "DONE", q.using, q.using,
                                          {q.using}, job[q.run].merge)]
        /\ Goto(w, "usage")
        /\ UNCHANGED <<settings, cache, used, calls, runs, job, caller,
                       reaper>>

Discard(w) ==
    /\ worker[w].pc = "persist"
    /\ ~MayStore(ScanOf(w))
    /\ worker' = [worker EXCEPT ![w] = [@ EXCEPT !.pc = "usage",
                                                 !.kept = "nothing"]]
    /\ UNCHANGED <<dbVars, job, caller, reaper>>

(* Tokens were spent either way.                                           *)
RecordUsage(w) ==
    /\ worker[w].pc = "usage"
    /\ used' = used + 1
    /\ Goto(w, CASE worker[w].kept = "whole" -> "remember"
                 [] worker[w].kept = "partial" -> "notify"
                 [] worker[w].kept = "nothing" -> "finish")
    /\ UNCHANGED <<settings, cache, calls, ai, runs, job, caller, reaper>>

(* 6. The cache key has the model of the claim; Redis may not answer.      *)
RememberInCache(w) ==
    LET q == worker[w]
        id == [model |-> IF q.claimed = 0 THEN q.using.model ELSE q.claimed,
               locale |-> q.using.locale]
    IN  /\ q.pc = "remember"
        /\ \/ cache' = [cache EXCEPT ![CacheKey(ScanOf(w), id)] = ScanOf(w)]
           \/ DbMayFail /\ UNCHANGED cache
        /\ Goto(w, "notify")
        /\ UNCHANGED <<settings, used, calls, ai, runs, job, caller, reaper>>

(* BullMQ records the end of an attempt for the holder of the lock.        *)
Complete(w) ==
    /\ worker[w].pc \in {"notify", "finish"}
    /\ job' = IF worker[w].lock
              THEN [job EXCEPT ![worker[w].run].state = "completed"] ELSE job
    /\ worker' = [worker EXCEPT ![w] = NoWorker]
    /\ UNCHANGED <<dbVars, caller, reaper>>

(* An AiJobFailure is not retried, nor is a job that stalled too often;    *)
(* any other error is, also one after the answer was stored.               *)
MayFail(q, unrecoverable) ==
    \/ q.pc \in {"provider", "call"}
    \/ q.pc = "failing" /\ unrecoverable = (q.error # "retryable")
    \/ q.pc = "stalled" /\ unrecoverable
    \/ q.pc \in {"claim", "load"} /\ ~unrecoverable
    \/ q.pc \in {"persist", "usage", "notify"} /\ ~unrecoverable /\ DbMayFail

Fail(w, unrecoverable) ==
    LET j == worker[w].run
        made == job[j].made + 1
        final == unrecoverable \/ made >= Attempts
    IN  /\ MayFail(worker[w], unrecoverable)
        /\ IF worker[w].lock
           THEN /\ job' = [job EXCEPT ![j] =
                             [@ EXCEPT !.made = made,
                                       !.state = IF final THEN "failed"
                                                 ELSE "delayed"]]
                /\ worker' = [worker EXCEPT ![w] =
                                IF final
                                THEN [NoWorker EXCEPT !.pc = "onFailed",
                                                      !.run = j]
                                ELSE NoWorker]
           ELSE /\ worker' = [worker EXCEPT ![w] = NoWorker]
                /\ UNCHANGED job
        /\ UNCHANGED <<dbVars, caller, reaper>>

(* Mutant of MayGiveUp: only a claimed run is failed.                      *)
GiveUpClaimed(s) == ai[s].status = "RUNNING"

(* onFailed of the final attempt.                                          *)
MayGiveUp(s) == ai[s].status \in InFlight

OnFailed(w) ==
    LET s == ScanOf(w)
    IN  /\ worker[w].pc = "onFailed"
        /\ ai' = IF MayGiveUp(s) THEN [ai EXCEPT ![s].status = "FAILED"]
                 ELSE ai
        /\ worker' = [worker EXCEPT ![w] = NoWorker]
        /\ UNCHANGED <<settings, cache, used, calls, runs, job, caller,
                       reaper>>

OnFailedThrows(w) ==
    /\ DbMayFail
    /\ worker[w].pc = "onFailed"
    /\ worker' = [worker EXCEPT ![w] = NoWorker]
    /\ UNCHANGED <<dbVars, job, caller, reaper>>

(* A worker dies: its job stays active until the lock expires.             *)
WorkerCrash(w) ==
    /\ worker[w].pc # "idle"
    /\ job[worker[w].run].stalls < MaxStalls
    /\ worker' = [worker EXCEPT ![w] = NoWorker]
    /\ UNCHANGED <<dbVars, job, caller, reaper>>

(* The stalled check hands the job to the next worker; the one that lost   *)
(* the lock may still be running.                                          *)
Stalled(j) ==
    /\ job[j].state = "active"
    /\ job[j].stalls < MaxStalls
    /\ job' = [job EXCEPT ![j] = [@ EXCEPT !.state = "waiting",
                                           !.stalls = job[j].stalls + 1]]
    /\ worker' = [w \in Workers |->
                    IF worker[w].run = j
                    THEN [worker[w] EXCEPT !.lock = FALSE] ELSE worker[w]]
    /\ UNCHANGED <<dbVars, caller, reaper>>

-----------------------------------------------------------------------------
(* The reaper.                                                             *)

(* The reviews in flight are read, with their times ...                    *)
ReaperFind ==
    LET found == {s \in ScanIds : ~NotInFlight(s) /\ ai[s].old}
    IN  /\ ReaperRuns
        /\ reaper.pc = "idle"
        /\ found # {}
        /\ reaper' = [pc |-> "jobs", found |-> found]
        /\ UNCHANGED <<dbVars, job, caller, worker>>

(* Mutant of HasJob: jobs that are over count as well.                     *)
HasAnyJob(s) == \E j \in RunIds : job[j].scan = s

HasJob(s) == \E j \in RunIds : Live(j) /\ job[j].scan = s

(* ... then the queue's live jobs ...                                      *)
ReaperJobs ==
    LET orphans == {s \in reaper.found : ~HasJob(s)}
    IN  /\ reaper.pc = "jobs"
        /\ reaper' = IF orphans = {} THEN NoReaper
                     ELSE [pc |-> "reap", found |-> orphans]
        /\ UNCHANGED <<dbVars, job, caller, worker>>

(* ... and each orphan is failed, if it is still in flight.                *)
Reap(s) ==
    /\ reaper.pc = "reap"
    /\ s \in reaper.found
    /\ ai' = IF NotInFlight(s) THEN ai ELSE [ai EXCEPT ![s].status = "FAILED"]
    /\ reaper' = IF reaper.found = {s} THEN NoReaper
                 ELSE [reaper EXCEPT !.found = @ \ {s}]
    /\ UNCHANGED <<settings, cache, used, calls, runs, job, caller, worker>>

(* A sweep that fails is given up; the next one starts over.               *)
ReaperFails ==
    /\ DbMayFail
    /\ reaper.pc # "idle"
    /\ reaper' = NoReaper
    /\ UNCHANGED <<dbVars, job, caller, worker>>

-----------------------------------------------------------------------------
Arrive(c) == \E s \in ScanIds : FinishStatic(c, s) \/ Regenerate(c, s)

Handle(c) ==
    \/ Decide(c) \/ Settle(c)
    \/ ReadBase(c) \/ CopyBase(c)
    \/ CheckBudget(c)
    \/ CacheHit(c) \/ CacheMiss(c) \/ CopyCache(c)
    \/ ClaimRun(c) \/ AlreadyClaimed(c)
    \/ AddJob(c) \/ AddThrows(c) \/ UndoClaim(c)

Execute(w) ==
    \/ Claim(w) \/ SkipNotRunnable(w)
    \/ Load(w) \/ UseProvider(w) \/ NoProvider(w)
    \/ \E kept \in {"partial", "whole"} : CallAnswered(w, kept)
    \/ \E code \in AiErrorCodes : CallFailed(w, code)
    \/ Bill(w) \/ ShowUsage(w) \/ KeepRaw(w)
    \/ Persist(w) \/ Discard(w)
    \/ RecordUsage(w) \/ RememberInCache(w)
    \/ Complete(w)
    \/ \E unrecoverable \in BOOLEAN : Fail(w, unrecoverable)
    \/ OnFailed(w) \/ OnFailedThrows(w)

Sweep == ReaperFind \/ ReaperJobs \/ \E s \in ScanIds : Reap(s)

Next ==
    \/ ChangeSettings
    \/ \E s \in ScanIds : GraceElapses(s) \/ StartScan(s)
    \/ \E c \in Callers : Arrive(c) \/ Handle(c) \/ CallerCrash(c)
    \/ \E w \in Workers : Execute(w) \/ WorkerCrash(w)
    \/ \E w \in Workers, j \in RunIds : Pick(w, j)
    \/ \E j \in RunIds : Stalled(j)
    \/ Sweep \/ ReaperFails

Spec == Init /\ [][Next]_vars

-----------------------------------------------------------------------------
(* Safety.                                                                 *)

(* setStatus: "never clobber a run in flight".  A run in flight is settled *)
(* only by a worker that executes a job of that scan, by the reaper, or by *)
(* the decision that could not queue it.                                   *)
RunsNotClobbered ==
    [][\A s \in ScanIds :
          ~NotInFlight(s) /\ ai'[s].status \notin InFlight =>
              \/ \E w \in Workers : worker[w].run # NoRun /\ ScanOf(w) = s
                                     /\ worker'[w] # worker[w]
              \/ reaper' # reaper /\ s \in reaper.found
              \/ \E c \in Callers : caller[c].pc = "undo"
                                     /\ caller[c].scan = s
                                     /\ caller'[c].pc = "idle"]_vars

(* A settled review only changes by a new decision.  What a worker that    *)
(* lost its lock, or whose run the reaper gave up, brings late is dropped: *)
(* an answer is, and a failure only leaves its tokens and its raw answer   *)
(* on the scan, which are shown there whatever review it has by then.      *)
LateAnswersAreDropped ==
    [][\A s \in ScanIds :
          /\ NotInFlight(s)
          /\ \A c \in Callers : caller[c].scan = s => caller'[c] = caller[c]
          => /\ ai'[s].status = ai[s].status /\ ai'[s].id = ai[s].id
             /\ ai'[s].by = ai[s].by /\ ai'[s].parts = ai[s].parts
             /\ ai'[s].tokens \in {ai[s].tokens, "failure"}
             /\ ai[s].raw => ai'[s].raw]_vars

(* The daily budget is checked against tokens really spent: none is ever   *)
(* counted twice, however often a job is retried or run by two workers.    *)
Unbilled == {w \in Workers : worker[w].pc \in {"bill", "persist", "usage"}}
NeverOvercounted == used + Cardinality(Unbilled) <= calls

(* Every token asked for is counted, or is about to be: for failed replies *)
(* and for discarded answers too.  Holds while no worker dies and writes   *)
(* succeed.                                                                *)
TokensAccounted == used + Cardinality(Unbilled) = calls

(* At most one worker asks the model for a scan at a time, though          *)
(* regenerate and the static step decide concurrently: Scan.aiStatus       *)
(* guarantees it (buildAiJobId).  Holds while no lock is lost and the      *)
(* reaper is away.                                                         *)
OneRunPerScan ==
    \A v, w \in Workers :
        /\ worker[v].pc \in {"load", "provider", "call", "persist"}
        /\ worker[w].pc \in {"load", "provider", "call", "persist"}
        /\ ScanOf(v) = ScanOf(w)
        => v = w

(* A review in flight has a job, the failure handler of its job, or a      *)
(* decision about to add it.  Holds while no process dies and writes       *)
(* succeed (what is left is the reaper's), and except for a scan that      *)
(* copied the status of its base while the base was in flight.             *)
InFlightHasWork ==
    \A s \in ScanIds \ Unchanged : ~NotInFlight(s) =>
        \/ HasJob(s)
        \/ \E w \in Workers : worker[w].pc = "onFailed" /\ ScanOf(w) = s
        \/ \E c \in Callers : caller[c].pc \in {"add", "undo"}
                               /\ caller[c].scan = s

-----------------------------------------------------------------------------
(* Liveness.                                                               *)

LockHeld(j) == \E w \in Workers : worker[w].run = j /\ worker[w].lock

(* Processes that live go on, BullMQ hands out waiting jobs and finds the  *)
(* stalled ones, time passes, and sweeps do not fail for ever.             *)
FairSpec ==
    /\ Spec
    /\ \A c \in Callers : WF_vars(Handle(c))
    /\ \A w \in Workers : WF_vars(Execute(w))
    /\ \A j \in RunIds : WF_vars(\E w \in Workers : Pick(w, j))
    /\ \A j \in RunIds : WF_vars(~LockHeld(j) /\ Stalled(j))
    /\ \A s \in ScanIds : WF_vars(GraceElapses(s))
    /\ WF_vars(ReaperFind) /\ SF_vars(ReaperJobs)
    /\ \A s \in ScanIds : SF_vars(Reap(s))

(* The reaper's promise: no review shows "AI reviewing" for ever, whoever  *)
(* died and whichever write was refused.                                   *)
EveryReviewSettles ==
    \A s \in ScanIds : ~NotInFlight(s) ~> NotInFlight(s)

=============================================================================
