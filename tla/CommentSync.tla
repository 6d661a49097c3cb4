------------------------------ MODULE CommentSync ------------------------------
(***************************************************************************)
(* The two-way sync of the comments of one pull request: comments written  *)
(* in Critiq and copied to the provider (CommentsService and               *)
(* CommentSyncProcessor), comments written, edited and deleted on the      *)
(* provider and reported by webhooks (CommentIngestService).               *)
(*                                                                         *)
(* A provider comment is a note, numbered in the order the provider takes  *)
(* it; a thread is named by its first note.  One action per query or       *)
(* provider call.  A webhook delivery is identified by the note and what   *)
(* happened to it; deliveries come in any order, more than once or never.  *)
(* A request that is refused and changes nothing is left out.              *)
(***************************************************************************)
EXTENDS Integers, Sequences, FiniteSets, Functions

CONSTANTS
    Requests,       \* slots for requests of the frontend
    Hooks,          \* slots for webhook deliveries handled at the same time
    Workers,        \* executions of comment-sync jobs at the same time
    MaxRows,        \* bound: comments in Critiq
    MaxThreads,     \* bound: threads begun in Critiq
    MaxChanges,     \* bound: edits and deletions on the provider
    MaxForeign,     \* bound: comments written on the provider
    MaxNotes,       \* bound: comments on the provider
    MaxDeliveries,  \* bound: webhook deliveries handled
    MaxRetries,     \* bound: retries asked for
    MaxFaults,      \* bound: everything that goes wrong on Critiq's side
    Attempts        \* COMMENT_SYNC_JOB_ATTEMPTS

ASSUME BoundsAssumption ==
    /\ MaxRows \in Nat \ {0} /\ MaxNotes \in Nat \ {0}
    /\ MaxThreads \in Nat /\ MaxChanges \in Nat
    /\ MaxForeign \in Nat /\ MaxDeliveries \in Nat /\ MaxRetries \in Nat
    /\ MaxFaults \in Nat /\ Attempts \in Nat \ {0}
ASSUME SlotsAssumption == IsFiniteSet(Requests) /\ IsFiniteSet(Workers)

VARIABLES
    place,          \* where the comments are on the provider
    rows,           \* PullComment rows, in the order of their creation
    notes,          \* the provider's comments
    events,         \* what happened on the provider: <<note, action>>
    claimed,        \* the deliveries claimed in Redis
    job,            \* the comment-sync jobs of each row
    exec,           \* executions of jobs
    req,            \* requests of the frontend in progress
    hook,           \* webhook deliveries in progress
    count,          \* what the bounds count
    abandoned       \* history: rows whose request or job died on the way

crit == <<rows, job, exec, req, abandoned>>
prov == <<notes, events>>
vars == <<place, rows, notes, events, claimed, job, exec, req, hook, count,
          abandoned>>

-----------------------------------------------------------------------------
None == 0
RowIds == 1..MaxRows
NoteIds == 1..MaxNotes
JobIds == RowIds \X (1..(MaxRetries + 1))

(* The provider and the comments' kind: GitHub's PR conversation and the   *)
(* diff, and GitLab, where every comment is in a discussion.  Comments in  *)
(* different places have nothing to do with one another.                   *)
Places == {"conversation", "diff", "discussion"}
Actions == {"created", "edited", "deleted"}

Row == [origin : {"CRITIQ", "PROVIDER"},
        parent : RowIds \cup {None}, edited : BOOLEAN, deleted : BOOLEAN,
        note : NoteIds \cup {None}, thread : NoteIds \cup {None},
        sync : {"NONE", "PENDING", "SYNCED", "FAILED"}]
Note == [of : RowIds \cup {None}, thread : NoteIds \cup {None}]

Job == [pc : {"none", "waiting", "taken", "ended"}, made : Nat,
        stalled : BOOLEAN]
NoJob == [pc |-> "none", made |-> 0, stalled |-> FALSE]
EndedJob == [NoJob EXCEPT !.pc = "ended"]

(* An execution that has lost its job's lock is not its owner any more.    *)
Execution == [pc : {"idle", "send", "store", "fail"}, job : JobIds,
              thread : NoteIds \cup {None}, note : NoteIds \cup {None},
              owner : BOOLEAN]
NoExecution == [pc |-> "idle", job |-> <<1, 1>>, thread |-> None,
                note |-> None, owner |-> FALSE]

(* The job that a request is about to add: a time makes its id unique, so  *)
(* it is the first one of a row or that of the n-th retry.                 *)
Request == [pc : {"idle", "enqueue", "mark"}, job : JobIds]
NoRequest == [pc |-> "idle", job |-> <<1, 1>>]
FirstJob(c) == <<c, 1>>
RetryJob(c, n) == <<c, n + 1>>

Hook == [pc : {"idle", "remove", "edit", "link", "create"},
         note : NoteIds, action : Actions, row : RowIds \cup {None},
         thread : NoteIds \cup {None}]
NoHook == [pc |-> "idle", note |-> 1, action |-> "created", row |-> None,
           thread |-> None]

TypeOK ==
    /\ place \in Places
    /\ rows \in Seq(Row) /\ Len(rows) <= MaxRows
    /\ notes \in Seq(Note) /\ Len(notes) <= MaxNotes
    /\ events \subseteq (DOMAIN notes) \X Actions
    /\ claimed \subseteq events
    /\ job \in [JobIds -> Job]
    /\ exec \in [Workers -> Execution]
    /\ req \in [Requests -> Request]
    /\ hook \in [Hooks -> Hook]
    /\ count \in [deliveries : 0..MaxDeliveries, retries : 0..MaxRetries,
                  faults : [RowIds -> Nat], outages : Nat]
    /\ abandoned \subseteq RowIds

Init ==
    /\ place \in Places
    /\ rows = << >> /\ notes = << >>
    /\ events = {} /\ claimed = {}
    /\ job = [k \in JobIds |-> NoJob]
    /\ exec = [w \in Workers |-> NoExecution]
    /\ req = [r \in Requests |-> NoRequest]
    /\ hook = [h \in Hooks |-> NoHook]
    /\ count = [deliveries |-> 0, retries |-> 0,
                faults |-> [c \in RowIds |-> 0], outages |-> 0]
    /\ abandoned = {}

(* What goes wrong: to the copying of a comment, or elsewhere.             *)
Faults == count.outages + FoldFunction(+, 0, count.faults)
Fault(c) == Faults < MaxFaults /\ count' = [count EXCEPT !.faults[c] = @ + 1]
Outage == Faults < MaxFaults /\ count' = [count EXCEPT !.outages = @ + 1]

-----------------------------------------------------------------------------
(* Threads.                                                                *)

RootOf(c) == IF rows[c].parent = None THEN c ELSE rows[c].parent

Threaded == place # "conversation"

IsReply(c) == rows[c].parent # None

(* GitHub names the comment replied to; GitLab always names the discussion.*)
ThreadKey(n) == IF place = "diff" /\ notes[n].thread = n THEN None
                ELSE notes[n].thread

(* Mutant of NoteTaken: without the unique key.                            *)
NeverTaken(n, c) == FALSE

(* @@unique([pullId, providerCommentId])                                   *)
NoteTaken(n, c) == \E d \in DOMAIN rows : d # c /\ rows[d].note = n

-----------------------------------------------------------------------------
(* CommentsService.                                                        *)

(* create: p is the comment answered, None for a new thread.               *)
CreateComment(r, p) ==
    /\ req[r].pc = "idle" /\ Len(rows) < MaxRows
    /\ IF p = None
       THEN Cardinality({c \in DOMAIN rows : rows[c].origin = "CRITIQ"
                                            /\ ~IsReply(c)}) < MaxThreads
       ELSE p \in DOMAIN rows
    /\ rows' = Append(rows,
         [origin |-> "CRITIQ",
          parent |-> IF p = None THEN None ELSE RootOf(p),
          edited |-> FALSE, deleted |-> FALSE,
          note |-> None, thread |-> None, sync |-> "PENDING"])
    /\ req' = [req EXCEPT ![r] = [pc |-> "enqueue",
                                  job |-> FirstJob(Len(rows) + 1)]]
    /\ UNCHANGED <<place, prov, claimed, job, exec, hook, count, abandoned>>

(* enqueueSync.                                                            *)
EnqueueSync(r) ==
    /\ req[r].pc = "enqueue"
    /\ job' = [job EXCEPT ![req[r].job] = [NoJob EXCEPT !.pc = "waiting"]]
    /\ req' = [req EXCEPT ![r] = NoRequest]
    /\ UNCHANGED <<place, rows, prov, claimed, exec, hook, count, abandoned>>

EnqueueThrows(r) ==
    /\ req[r].pc = "enqueue"
    /\ req' = [req EXCEPT ![r].pc = "mark"]
    /\ Outage
    /\ UNCHANGED <<place, rows, prov, claimed, job, exec, hook, abandoned>>

(* The failure is written whatever the row holds by now.                   *)
MarkFailed(r) ==
    /\ req[r].pc = "mark"
    /\ rows' = [rows EXCEPT ![req[r].job[1]].sync = "FAILED"]
    /\ req' = [req EXCEPT ![r] = NoRequest]
    /\ UNCHANGED <<place, prov, claimed, job, exec, hook, count, abandoned>>

(* Mutant of Sendable: a comment still on its way is sent again.           *)
SendableUnsynced(c) == rows[c].sync # "SYNCED"

Sendable(c) == rows[c].sync = "FAILED"

(* retrySync: whatever it has read, the update is conditional.             *)
RetrySync(r, c) ==
    /\ req[r].pc = "idle" /\ count.retries < MaxRetries
    /\ c \in DOMAIN rows
    /\ rows[c].origin = "CRITIQ" /\ Sendable(c)
    /\ rows' = [rows EXCEPT ![c].sync = "PENDING"]
    /\ count' = [count EXCEPT !.retries = @ + 1]
    /\ req' = [req EXCEPT ![r] = [pc |-> "enqueue",
                                  job |-> RetryJob(c, count.retries + 1)]]
    /\ UNCHANGED <<place, prov, claimed, job, exec, hook, abandoned>>

(* The API process dies; a row waiting for its job stays without one.      *)
ApiCrash(r) ==
    /\ req[r].pc # "idle"
    /\ abandoned' = abandoned \cup {req[r].job[1]}
    /\ req' = [req EXCEPT ![r] = NoRequest]
    /\ Outage
    /\ UNCHANGED <<place, rows, prov, claimed, job, exec, hook>>

-----------------------------------------------------------------------------
(* CommentSyncProcessor.                                                   *)

RowOf(w) == exec[w].job[1]

(* The execution is over and so is its job, if it still has the lock.      *)
EndJob(w) ==
    /\ job' = IF exec[w].owner THEN [job EXCEPT ![exec[w].job] = EndedJob]
              ELSE job
    /\ exec' = [exec EXCEPT ![w] = NoExecution]

Exhausted(w) == job[exec[w].job].made + 1 >= Attempts

(* process throws; BullMQ runs the job again while it has attempts left.   *)
Throw(w) ==
    /\ job' = IF exec[w].owner
              THEN [job EXCEPT ![exec[w].job] =
                      IF Exhausted(w) THEN EndedJob
                      ELSE [job[exec[w].job] EXCEPT
                              !.pc = "waiting",
                              !.made = job[exec[w].job].made + 1]]
              ELSE job
    /\ exec' = [exec EXCEPT ![w] = NoExecution]

(* Mutant of GivesUp: the attempt that exhausts the job throws as well.    *)
GivesUpRefused(w, retryable) == ~retryable

GivesUp(w, retryable) == ~retryable \/ Exhausted(w)

(* The catch of process.                                                   *)
SendFailed(w, retryable) ==
    IF GivesUp(w, retryable)
    THEN exec' = [exec EXCEPT ![w].pc = "fail"] /\ UNCHANGED job
    ELSE Throw(w)

(* The row and its parent's thread are read together.                      *)
TakeJob(w, k) ==
    LET c == k[1]
        p == rows[c].parent
    IN  /\ exec[w].pc = "idle" /\ job[k].pc = "waiting"
        /\ IF rows[c].sync = "PENDING"
           THEN /\ job' = [job EXCEPT ![k].pc = "taken"]
                /\ exec' = [exec EXCEPT ![w] =
                     [NoExecution EXCEPT !.pc = "send", !.job = k,
                        !.owner = TRUE,
                        !.thread = IF p = None THEN None ELSE rows[p].thread]]
           ELSE job' = [job EXCEPT ![k] = EndedJob] /\ UNCHANGED exec
        /\ UNCHANGED <<place, rows, prov, claimed, req, hook, count,
                       abandoned>>

(* Mutant of ParentNotSynced: a reply is posted all the same.              *)
NeverWaits(w) == FALSE

(* A reply in a thread the provider does not have yet waits for it.        *)
ParentNotSynced(w) ==
    LET c == RowOf(w)
    IN  IsReply(c) /\ Threaded /\ exec[w].thread = None

WaitForParent(w) ==
    /\ exec[w].pc = "send" /\ ParentNotSynced(w)
    /\ SendFailed(w, TRUE)
    /\ UNCHANGED <<place, rows, prov, claimed, req, hook, count, abandoned>>

(* The thread that a new copy of c, as note n, is in.                      *)
CopyThread(w, n) ==
    LET c == RowOf(w)
    IN  IF ~Threaded THEN None
        ELSE IF IsReply(c) THEN exec[w].thread ELSE n

PostCopy(w) ==
    LET n == Len(notes) + 1
    IN  /\ exec[w].pc = "send" /\ ~ParentNotSynced(w)
        /\ n <= MaxNotes
        /\ notes' = Append(notes, [of |-> RowOf(w),
                                   thread |-> CopyThread(w, n)])
        /\ events' = events \cup {<<n, "created">>}

Send(w) ==
    /\ PostCopy(w)
    /\ exec' = [exec EXCEPT ![w].pc = "store", ![w].note = Len(notes) + 1]
    /\ UNCHANGED <<place, rows, claimed, job, req, hook, count, abandoned>>

(* The comment was taken, but the answer does not come in time.            *)
SendAnswerLost(w) ==
    /\ Fault(RowOf(w))
    /\ PostCopy(w)
    /\ SendFailed(w, TRUE)
    /\ UNCHANGED <<place, rows, claimed, req, hook, abandoned>>

(* toCommentError: unreachable or limited is retryable; no permission, no  *)
(* such line, or an integration in an unusable state, is not.              *)
SendFails(w, retryable) ==
    /\ exec[w].pc = "send" /\ ~ParentNotSynced(w)
    /\ SendFailed(w, retryable)
    /\ UNCHANGED <<place, rows, prov, claimed, req, hook, count, abandoned>>

(* The ids of the copy.                                                    *)
Stored(c, w) ==
    [rows[c] EXCEPT !.sync = "SYNCED", !.note = exec[w].note,
                    !.thread = notes[exec[w].note].thread]

StoreIds(w) ==
    LET c == RowOf(w)
    IN  /\ exec[w].pc = "store"
        /\ rows[c].sync # "PENDING" \/ ~NoteTaken(exec[w].note, c)
        /\ rows' = IF rows[c].sync = "PENDING"
                   THEN [rows EXCEPT ![c] = Stored(c, w)] ELSE rows
        /\ EndJob(w)
        /\ UNCHANGED <<place, prov, claimed, req, hook, count, abandoned>>

StoreFailure(w) ==
    LET c == RowOf(w)
    IN  /\ exec[w].pc = "fail"
        /\ rows' = IF rows[c].sync = "PENDING"
                   THEN [rows EXCEPT ![c].sync = "FAILED"] ELSE rows
        /\ EndJob(w)
        /\ UNCHANGED <<place, prov, claimed, req, hook, count, abandoned>>

(* Neither write is inside the try.                                        *)
StoreThrows(w) ==
    /\ exec[w].pc \in {"store", "fail"}
    /\ Fault(RowOf(w))
    /\ Throw(w)
    /\ abandoned' = IF exec[w].owner /\ Exhausted(w)
                    THEN abandoned \cup {RowOf(w)} ELSE abandoned
    /\ UNCHANGED <<place, rows, prov, claimed, req, hook>>

(* The execution loses its lock; the stalled check gives the job to        *)
(* another one, once.                                                      *)
Stalled(w) ==
    LET k == exec[w].job
    IN  /\ exec[w].pc # "idle" /\ exec[w].owner
        /\ Fault(k[1])
        /\ exec' = [exec EXCEPT ![w].owner = FALSE]
        /\ job' = [job EXCEPT ![k] =
                     IF job[k].stalled THEN EndedJob
                     ELSE [job[k] EXCEPT !.pc = "waiting", !.stalled = TRUE]]
        /\ abandoned' = IF job[k].stalled THEN abandoned \cup {k[1]}
                        ELSE abandoned
        /\ UNCHANGED <<place, rows, prov, claimed, req, hook>>

(* A worker whose job has stalled was dead, or dies now.                   *)
WorkerDies(w) ==
    /\ exec[w].pc # "idle" /\ ~exec[w].owner
    /\ exec' = [exec EXCEPT ![w] = NoExecution]
    /\ UNCHANGED <<place, rows, prov, claimed, job, req, hook, count,
                   abandoned>>

-----------------------------------------------------------------------------
(* The provider.                                                           *)

Foreign == {n \in DOMAIN notes : notes[n].of = None}

(* A user comments there, in thread t or in a new one.                     *)
WriteNote(t) ==
    LET n == Len(notes) + 1
    IN  /\ n <= MaxNotes /\ Cardinality(Foreign) < MaxForeign
        /\ t \in {notes[m].thread : m \in DOMAIN notes} \cup {None}
        /\ notes' = Append(notes,
             [of |-> None, thread |-> IF t = None /\ Threaded THEN n ELSE t])
        /\ events' = events \cup {<<n, "created">>}
        /\ UNCHANGED <<place, claimed, crit, hook, count>>

(* Only GitHub reports a deletion.                                         *)
ChangeNote(n, action) ==
    /\ n \in DOMAIN notes
    /\ <<n, action>> \notin events /\ <<n, "deleted">> \notin events
    /\ Cardinality({e \in events : e[2] # "created"}) < MaxChanges
    /\ action = "deleted" => place # "discussion"
    /\ events' = events \cup {<<n, action>>}
    /\ UNCHANGED <<place, notes, claimed, crit, hook, count>>

-----------------------------------------------------------------------------
(* WebhooksService.recordComment and CommentIngestService.ingest.          *)

Write(h, e, pc, c, t) ==
    hook' = [hook EXCEPT ![h] = [pc |-> pc, note |-> e[1], action |-> e[2],
                                 row |-> c, thread |-> t]]
Answer(h) == hook' = [hook EXCEPT ![h] = NoHook]

(* Mutant of TakesText: a `created` for a known comment is an edit.        *)
TakesAnyText(action) == action \in {"created", "edited"}

TakesText(action) == action = "edited"

(* Mutant of AuthorOf: the marker is not looked for.                       *)
AuthorUnknown(n) == None

(* The row that the note's marker names (markerOf), None without one.      *)
AuthorOf(n) == notes[n].of

(* What is known already: the deletion, or the new text, is taken.         *)
IngestKnown(h, e, c) ==
    \/ e[2] = "deleted" /\ Write(h, e, "remove", c, None)
    \/ /\ e[2] # "deleted"
       /\ IF TakesText(e[2]) /\ rows[c].edited # (e[2] = "edited")
          THEN Write(h, e, "edit", c, None) ELSE UNCHANGED hook

(* Our own comment coming back.                                            *)
IngestOwn(h, e) ==
    LET c == AuthorOf(e[1])
    IN  IF rows[c].note = None THEN Write(h, e, "link", c, None)
        ELSE UNCHANGED hook

(* resolveThread.                                                          *)
Anchors(key) ==
    {c \in DOMAIN rows : \/ rows[c].thread = key
                         \/ (place = "diff" /\ rows[c].note = key)}

ResolveThread(h, e) ==
    LET n == e[1]
        key == ThreadKey(n)
    IN  \/ /\ key # None
           /\ \E c \in Anchors(key) :
                Write(h, e, "create", RootOf(c),
                      IF rows[RootOf(c)].thread = None THEN key
                      ELSE rows[RootOf(c)].thread)
        \/ /\ key = None \/ Anchors(key) = {}
           /\ Write(h, e, "create", None, notes[n].thread)

(* The claim (without Redis the event is processed all the same) and what  *)
(* ingest reads before it writes.                                          *)
Deliver(h, e, redis) ==
    LET existing == {c \in DOMAIN rows : rows[c].note = e[1]}
    IN  /\ hook[h].pc = "idle" /\ count.deliveries < MaxDeliveries
        /\ e \in events
        /\ IF redis THEN e \notin claimed /\ claimed' = claimed \cup {e}
           ELSE Faults < MaxFaults /\ UNCHANGED claimed
        /\ \/ \E c \in existing : IngestKnown(h, e, c)
           \/ /\ existing = {}
              /\ CASE e[2] = "deleted" -> UNCHANGED hook
                   [] e[2] # "deleted" /\ AuthorOf(e[1]) # None ->
                        IngestOwn(h, e)
                   [] OTHER -> ResolveThread(h, e)
        /\ count' = [count EXCEPT !.deliveries = @ + 1,
                                  !.outages = IF redis THEN @ ELSE @ + 1]
        /\ UNCHANGED <<place, prov, crit>>

RemoveRow(h) ==
    /\ hook[h].pc = "remove"
    /\ rows' = [rows EXCEPT ![hook[h].row].deleted = TRUE]
    /\ Answer(h)
    /\ UNCHANGED <<place, prov, claimed, job, exec, req, count, abandoned>>

EditRow(h) ==
    /\ hook[h].pc = "edit"
    /\ rows' = [rows EXCEPT ![hook[h].row].edited =
                   (hook[h].action = "edited")]
    /\ Answer(h)
    /\ UNCHANGED <<place, prov, claimed, job, exec, req, count, abandoned>>

(* Written on what was read, whatever the worker has stored since.         *)
LinkOwn(h) ==
    /\ hook[h].pc = "link" /\ ~NoteTaken(hook[h].note, hook[h].row)
    /\ rows' = [rows EXCEPT ![hook[h].row].note = hook[h].note]
    /\ Answer(h)
    /\ UNCHANGED <<place, prov, claimed, job, exec, req, count, abandoned>>

CreateRow(h) ==
    LET n == hook[h].note
        p == hook[h].row
    IN  /\ hook[h].pc = "create" /\ ~NoteTaken(n, None)
        /\ Len(rows) < MaxRows
        /\ rows' = Append(rows,
             [origin |-> "PROVIDER",
              parent |-> p, edited |-> hook[h].action = "edited",
              deleted |-> FALSE, note |-> n, thread |-> hook[h].thread,
              sync |-> "NONE"])
        /\ Answer(h)
        /\ UNCHANGED <<place, prov, claimed, job, exec, req, count,
                       abandoned>>

(* An error (a unique key met, the database away) releases the claim, so   *)
(* that a redelivery is not swallowed; a crash of the process cannot.      *)
HookFails(h, crash) ==
    /\ hook[h].pc # "idle"
    /\ claimed' = IF crash THEN claimed
                  ELSE claimed \ {<<hook[h].note, hook[h].action>>}
    /\ Answer(h)
    /\ Outage
    /\ UNCHANGED <<place, prov, crit>>

-----------------------------------------------------------------------------
Api(r) ==
    \/ \E p \in RowIds \cup {None} : CreateComment(r, p)
    \/ EnqueueSync(r) \/ EnqueueThrows(r) \/ MarkFailed(r)
    \/ \E c \in RowIds : RetrySync(r, c)
    \/ ApiCrash(r)

Sync(w) ==
    \/ \E k \in JobIds : TakeJob(w, k)
    \/ WaitForParent(w) \/ Send(w) \/ SendAnswerLost(w)
    \/ \E retryable \in BOOLEAN : SendFails(w, retryable)
    \/ StoreIds(w) \/ StoreFailure(w) \/ StoreThrows(w)
    \/ Stalled(w) \/ WorkerDies(w)

ProviderActs ==
    \/ \E t \in NoteIds \cup {None} : WriteNote(t)
    \/ \E n \in NoteIds, action \in {"edited", "deleted"} :
           ChangeNote(n, action)

Ingest(h) ==
    \/ \E e \in events, redis \in BOOLEAN : Deliver(h, e, redis)
    \/ RemoveRow(h) \/ EditRow(h) \/ LinkOwn(h) \/ CreateRow(h)
    \/ \E crash \in BOOLEAN : HookFails(h, crash)

Next ==
    \/ \E r \in Requests : Api(r)
    \/ \E w \in Workers : Sync(w)
    \/ ProviderActs
    \/ \E h \in Hooks : Ingest(h)

Spec == Init /\ [][Next]_vars

-----------------------------------------------------------------------------
(* Safety.                                                                 *)

(* A comment is one comment on both sides: two rows never stand for one    *)
(* note, and a row is linked to nothing but a copy of its own, so the echo *)
(* of a comment written in Critiq (comment-marker) is never a second one,  *)
(* before, while or after its id is stored, though deliveries overlap,     *)
(* repeat, come in the wrong order or miss the Redis claim.                *)
OneRowPerNote ==
    \A c \in DOMAIN rows :
        rows[c].note # None =>
            /\ notes[rows[c].note].of =
                 (IF rows[c].origin = "CRITIQ" THEN c ELSE None)
            /\ \A d \in DOMAIN rows : rows[d].note = rows[c].note => d = c

(* A comment is posted again only for a reason: each copy but one is paid  *)
(* for by a lost lock, a lost answer or a failed write of that comment.    *)
(* Retries of the frontend and of the queue alone never repeat one.        *)
RepostsAreForced ==
    \A c \in DOMAIN rows :
        Cardinality({n \in DOMAIN notes : notes[n].of = c})
            <= 1 + count.faults[c]

(* A comment shown as on its way is: some request is about to queue it or  *)
(* mark it failed, or a job of it is left, unless the API or the job died. *)
PendingHasWork ==
    \A c \in DOMAIN rows :
        rows[c].sync = "PENDING" /\ c \notin abandoned =>
            \/ \E r \in Requests : /\ req[r].job[1] = c
                                   /\ req[r].pc \in {"enqueue", "mark"}
            \/ \E k \in JobIds : k[1] = c /\ job[k].pc \in {"waiting", "taken"}

(* A reply is posted in the thread of its parent, however long that one's  *)
(* id takes and whatever links to it first; never on its own.  The thread  *)
(* of a comment of Critiq's is the one a copy of it begins (providerThread *)
(* Id, stored by the worker), that of any other the one it was written in. *)
RepliesJoinTheirThread ==
    \A n \in DOMAIN notes :
        LET c == notes[n].of
            p == rows[c].parent
            t == notes[n].thread
        IN  c # None /\ Threaded /\ p # None =>
                IF rows[p].origin = "CRITIQ"
                THEN t \in DOMAIN notes /\ notes[t].of = p
                ELSE t = notes[rows[p].note].thread

(* ingest's comment: a `created` that comes late, the echo of Critiq's own *)
(* comment included, never overwrites the text of an edit.                 *)
EditsStay ==
    [][\A c \in DOMAIN rows : rows[c].edited => rows'[c].edited]_vars

=============================================================================
