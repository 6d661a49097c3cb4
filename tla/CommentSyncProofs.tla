-------------------------- MODULE CommentSyncProofs --------------------------
(***************************************************************************)
(* Proofs about CommentSync: what its run shows on a small instance, for   *)
(* any number of comments, notes, requests, deliveries, workers, retries,  *)
(* attempts and faults.                                                    *)
(***************************************************************************)
EXTENDS CommentSync, SequenceTheorems, FiniteSetTheorems, TLAPS

USE BoundsAssumption, SlotsAssumption

-----------------------------------------------------------------------------
(* What refers to a row or to a note refers to one that is there.          *)

Ours(c) == c \in DOMAIN rows /\ rows[c].origin = "CRITIQ"
Root(c) == c \in DOMAIN rows /\ rows[c].parent = None
CopyOf(n, c) == n \in DOMAIN notes /\ notes[n].of = c

(* A reply answers the root of its thread.                                 *)
RowsRefer ==
    \A c \in DOMAIN rows : rows[c].parent # None => Root(rows[c].parent)

(* Only comments of Critiq's are copied, queued and sent.                  *)
NotesRefer == \A n \in DOMAIN notes : notes[n].of # None => Ours(notes[n].of)
JobsRefer == \A k \in JobIds : job[k].pc # "none" => Ours(k[1])
ReqsRefer == \A r \in Requests : req[r].pc # "idle" => Ours(req[r].job[1])
ExecsRefer ==
    \A w \in Workers : exec[w].pc # "idle" =>
        /\ Ours(RowOf(w))
        /\ exec[w].pc = "store" => CopyOf(exec[w].note, RowOf(w))

(* What a delivery has read of its note and of the rows still holds: rows  *)
(* and notes stay, and neither an author nor a root changes.               *)
HookRefers(h) ==
    LET c == hook[h].row
        n == hook[h].note
    IN  /\ hook[h].pc # "idle" => n \in DOMAIN notes
        /\ hook[h].pc \in {"remove", "edit", "link"} => c \in DOMAIN rows
        /\ hook[h].pc = "edit" => hook[h].action = "edited"
        /\ hook[h].pc = "link" => CopyOf(n, c)
        /\ hook[h].pc = "create" =>
              /\ CopyOf(n, None)
              /\ c # None => Root(c)
              /\ c = None => hook[h].thread = notes[n].thread
HooksRefer == \A h \in Hooks : HookRefers(h)

RefsInv == /\ RowsRefer /\ NotesRefer /\ JobsRefer /\ ReqsRefer
           /\ ExecsRefer /\ HooksRefer

TypeInv == TypeOK /\ RefsInv

-----------------------------------------------------------------------------
(* What the types say of one row, note, job, execution, request, delivery. *)

LEMMA Rows ==
  ASSUME TypeInv
  PROVE  /\ Len(rows) \in Nat /\ Len(rows) <= MaxRows
         /\ DOMAIN rows = 1..Len(rows) /\ DOMAIN rows \subseteq RowIds
         /\ \A c \in DOMAIN rows : c # None /\ rows[c] \in Row
<1>1. rows \in Seq(Row) /\ Len(rows) <= MaxRows
  BY DEF TypeInv, TypeOK
<1>2. /\ Len(rows) \in Nat /\ DOMAIN rows = 1..Len(rows)
      /\ \A c \in 1..Len(rows) : rows[c] \in Row
  BY <1>1, LenProperties, ElementOfSeq
<1> QED
  BY <1>1, <1>2 DEF RowIds, None

LEMMA Notes ==
  ASSUME TypeInv
  PROVE  /\ Len(notes) \in Nat /\ Len(notes) <= MaxNotes
         /\ DOMAIN notes = 1..Len(notes) /\ DOMAIN notes \subseteq NoteIds
         /\ \A n \in DOMAIN notes : n # None /\ notes[n] \in Note
<1>1. notes \in Seq(Note) /\ Len(notes) <= MaxNotes
  BY DEF TypeInv, TypeOK
<1>2. /\ Len(notes) \in Nat /\ DOMAIN notes = 1..Len(notes)
      /\ \A n \in 1..Len(notes) : notes[n] \in Note
  BY <1>1, LenProperties, ElementOfSeq
<1> QED
  BY <1>1, <1>2 DEF NoteIds, None

LEMMA RowFields ==
  ASSUME TypeInv, NEW c \in DOMAIN rows
  PROVE  /\ rows[c].origin \in {"CRITIQ", "PROVIDER"}
         /\ rows[c].parent \in RowIds \cup {None}
         /\ rows[c].edited \in BOOLEAN /\ rows[c].deleted \in BOOLEAN
         /\ rows[c].note \in NoteIds \cup {None}
         /\ rows[c].thread \in NoteIds \cup {None}
         /\ rows[c].sync \in {"NONE", "PENDING", "SYNCED", "FAILED"}
  BY Rows DEF Row

LEMMA NoteFields ==
  ASSUME TypeInv, NEW n \in DOMAIN notes
  PROVE  /\ notes[n].of \in RowIds \cup {None}
         /\ notes[n].thread \in NoteIds \cup {None}
  BY Notes DEF Note

LEMMA ExecFields ==
  ASSUME TypeInv, NEW w \in Workers
  PROVE  /\ exec[w] \in Execution
         /\ exec[w].pc \in {"idle", "send", "store", "fail"}
         /\ exec[w].job \in JobIds /\ RowOf(w) \in RowIds
         /\ exec[w].thread \in NoteIds \cup {None}
         /\ exec[w].note \in NoteIds \cup {None}
         /\ exec[w].owner \in BOOLEAN
  BY DEF TypeInv, TypeOK, Execution, RowOf, JobIds

LEMMA ReqFields ==
  ASSUME TypeInv, NEW r \in Requests
  PROVE  /\ req[r] \in Request /\ req[r].job \in JobIds
         /\ req[r].job[1] \in RowIds
  BY DEF TypeInv, TypeOK, Request, JobIds

LEMMA HookFields ==
  ASSUME TypeInv, NEW h \in Hooks
  PROVE  /\ hook[h] \in Hook /\ hook[h].note \in NoteIds
         /\ hook[h].action \in Actions
         /\ hook[h].row \in RowIds \cup {None}
         /\ hook[h].thread \in NoteIds \cup {None}
         /\ HookRefers(h)
  BY DEF TypeInv, TypeOK, RefsInv, HooksRefer, Hook

LEMMA JobFields ==
  ASSUME TypeInv, NEW k \in JobIds
  PROVE  job[k] \in Job /\ job[k].made \in Nat /\ k[1] \in RowIds
  BY DEF TypeInv, TypeOK, Job, JobIds

LEMMA Blanks ==
  /\ NoJob \in Job /\ EndedJob \in Job /\ NoRequest \in Request
  /\ NoExecution \in Execution /\ NoHook \in Hook
  /\ EndedJob.pc = "ended" /\ NoExecution.pc = "idle"
  /\ \A c \in RowIds : FirstJob(c) \in JobIds /\ FirstJob(c)[1] = c
<1>1. <<1, 1>> \in JobIds /\ 1 \in NoteIds
  BY DEF JobIds, RowIds, NoteIds
<1>2. NoJob \in Job /\ EndedJob \in Job /\ EndedJob.pc = "ended"
  BY DEF NoJob, EndedJob, Job
<1>3. NoRequest \in Request
  BY <1>1 DEF NoRequest, Request
<1>4. NoExecution \in Execution /\ NoExecution.pc = "idle"
  BY <1>1 DEF NoExecution, Execution
<1>5. NoHook \in Hook
  BY <1>1 DEF NoHook, Hook, Actions
<1>6. \A c \in RowIds : FirstJob(c) \in JobIds /\ FirstJob(c)[1] = c
  BY DEF FirstJob, JobIds
<1> QED
  BY <1>2, <1>3, <1>4, <1>5, <1>6

-----------------------------------------------------------------------------
(* Steps of the rows: one is added, or one changes.                        *)

(* The new row x: a comment of Critiq's on its way, or a note that no row  *)
(* stands for.                                                             *)
NewRow(x) ==
    /\ x.parent # None => Root(x.parent)
    /\ \/ /\ x.origin = "CRITIQ" /\ x.note = None /\ x.thread = None
       \/ /\ x.origin = "PROVIDER" /\ CopyOf(x.note, None)
          /\ x.note # None /\ ~NoteTaken(x.note, None)
          /\ x.parent = None => x.thread = notes[x.note].thread

(* Row c becomes x: it links to nothing but a copy of its own that no row  *)
(* has, and takes nothing but the thread of one.                           *)
ChangedRow(c, x) ==
    /\ x.origin = rows[c].origin /\ x.parent = rows[c].parent
    /\ rows[c].edited => x.edited
    /\ \/ x.note = rows[c].note
       \/ CopyOf(x.note, c) /\ ~NoteTaken(x.note, c)
    /\ \/ x.thread = rows[c].thread
       \/ CopyOf(x.note, c) /\ x.thread = notes[x.note].thread

RowMoves(c) ==
    /\ \A d \in DOMAIN rows' \ {c} : d \in DOMAIN rows /\ rows'[d] = rows[d]
    /\ \/ c \in DOMAIN rows /\ ChangedRow(c, rows'[c])
       \/ c \notin DOMAIN rows /\ NewRow(rows'[c])

RowsMove ==
    /\ rows' \in Seq(Row) /\ Len(rows') <= MaxRows
    /\ DOMAIN rows \subseteq DOMAIN rows'
    /\ rows' = rows \/ \E c \in DOMAIN rows' : RowMoves(c)

LEMMA RowAdded ==
  ASSUME TypeInv, NEW x \in Row, NewRow(x), Len(rows) < MaxRows,
         rows' = Append(rows, x)
  PROVE  RowsMove
<1>1. rows \in Seq(Row)
  BY DEF TypeInv, TypeOK
<1>2. /\ rows' \in Seq(Row) /\ Len(rows') = Len(rows) + 1
      /\ \A c \in 1..Len(rows) : rows'[c] = rows[c]
      /\ rows'[Len(rows) + 1] = x
  BY <1>1, AppendProperties
<1>3. DOMAIN rows' = 1..(Len(rows) + 1)
  BY <1>2, LenProperties
<1>4. RowMoves(Len(rows) + 1)
  BY <1>2, <1>3, Rows DEF RowMoves
<1>5. Len(rows) + 1 \in DOMAIN rows' /\ DOMAIN rows \subseteq DOMAIN rows'
  BY <1>3, Rows
<1>6. Len(rows') <= MaxRows
  BY <1>2, Rows
<1> QED
  BY <1>2, <1>4, <1>5, <1>6 DEF RowsMove

LEMMA RowChanged ==
  ASSUME TypeInv, NEW c \in DOMAIN rows, NEW x \in Row, ChangedRow(c, x),
         rows' = [rows EXCEPT ![c] = x]
  PROVE  RowsMove
<1>1. rows \in Seq(Row) /\ c \in 1..Len(rows)
  BY Rows DEF TypeInv, TypeOK
<1>2. /\ rows' \in Seq(Row) /\ Len(rows') = Len(rows)
  BY <1>1, ExceptSeq
<1>3. DOMAIN rows' = DOMAIN rows
  OBVIOUS
<1>4. rows'[c] = x /\ \A d \in DOMAIN rows \ {c} : rows'[d] = rows[d]
  OBVIOUS
<1>5. RowMoves(c)
  BY <1>3, <1>4 DEF RowMoves
<1> QED
  BY <1>2, <1>3, <1>5, Rows DEF RowsMove

LEMMA RowsStep ==
  ASSUME TypeInv, [Next]_vars
  PROVE  RowsMove
<1>0. ASSUME rows' = rows PROVE RowsMove
  BY <1>0 DEF TypeInv, TypeOK, RowsMove
<1>1. ASSUME NEW r \in Requests, NEW p \in RowIds \cup {None},
             CreateComment(r, p)
      PROVE  RowsMove
  <2>1. PICK parent : parent = IF p = None THEN None ELSE RootOf(p)
    OBVIOUS
  <2>2. p # None => p \in DOMAIN rows
    BY <1>1 DEF CreateComment
  <2>3. parent \in RowIds \cup {None}
    BY <2>1, <2>2, RowFields DEF RootOf
  <2>4. parent # None => Root(parent)
    BY <2>1, <2>2, Rows DEF RootOf, Root, TypeInv, RefsInv, RowsRefer
  <2>5. PICK x : x = [origin |-> "CRITIQ", parent |-> parent,
                      edited |-> FALSE, deleted |-> FALSE,
                      note |-> None, thread |-> None, sync |-> "PENDING"]
    OBVIOUS
  <2>6. x \in Row /\ NewRow(x)
    BY <2>3, <2>4, <2>5 DEF Row, NewRow
  <2>7. Len(rows) < MaxRows /\ rows' = Append(rows, x)
    BY <1>1, <2>1, <2>5 DEF CreateComment
  <2> QED
    BY <2>6, <2>7, RowAdded
<1>2. ASSUME NEW r \in Requests, MarkFailed(r) PROVE RowsMove
  <2>1. PICK c : c = req[r].job[1]
    OBVIOUS
  <2>2. c \in DOMAIN rows
    BY <1>2, <2>1 DEF MarkFailed, TypeInv, RefsInv, ReqsRefer, Ours
  <2>3. PICK x : x = [rows[c] EXCEPT !.sync = "FAILED"]
    OBVIOUS
  <2>4. x \in Row /\ ChangedRow(c, x)
    BY <2>2, <2>3, Rows DEF Row, ChangedRow
  <2>5. rows' = [rows EXCEPT ![c] = x]
    BY <1>2, <2>1, <2>3 DEF MarkFailed
  <2> QED
    BY <2>2, <2>4, <2>5, RowChanged
<1>3. ASSUME NEW r \in Requests, NEW c \in RowIds, RetrySync(r, c)
      PROVE  RowsMove
  <2>1. PICK x : x = [rows[c] EXCEPT !.sync = "PENDING"]
    OBVIOUS
  <2>2. c \in DOMAIN rows /\ rows' = [rows EXCEPT ![c] = x]
    BY <1>3, <2>1 DEF RetrySync
  <2>3. x \in Row /\ ChangedRow(c, x)
    BY <2>1, <2>2, Rows DEF Row, ChangedRow
  <2> QED
    BY <2>2, <2>3, RowChanged
<1>4. ASSUME NEW w \in Workers, StoreIds(w) \/ StoreFailure(w)
      PROVE  RowsMove
  <2>1. PICK c : c = RowOf(w)
    OBVIOUS
  <2>2. c \in DOMAIN rows /\ (exec[w].pc = "store" => CopyOf(exec[w].note, c))
    BY <1>4, <2>1
       DEF StoreIds, StoreFailure, TypeInv, RefsInv, ExecsRefer, Ours
  <2>3. CASE rows' = rows
    BY <1>0, <2>3
  <2>4. CASE StoreIds(w) /\ rows' # rows
    <3>1. PICK x : x = [rows[c] EXCEPT !.sync = "SYNCED",
                          !.note = exec[w].note,
                          !.thread = notes[exec[w].note].thread]
      OBVIOUS
    <3>2. /\ rows' = [rows EXCEPT ![c] = x]
          /\ exec[w].pc = "store" /\ ~NoteTaken(exec[w].note, c)
      BY <2>1, <2>4, <3>1 DEF StoreIds, Stored
    <3>3. CopyOf(exec[w].note, c) /\ notes[exec[w].note] \in Note
      BY <2>2, <3>2, Notes DEF CopyOf
    <3>4. exec[w].note \in NoteIds
      BY <3>3, Notes DEF CopyOf
    <3>5. x \in Row
      <4>1. PICK t : t = notes[exec[w].note].thread
        OBVIOUS
      <4>2. t \in NoteIds \cup {None}
        BY <3>3, <4>1 DEF Note
      <4>3. PICK row \in Row : row = rows[c]
        BY <2>2, Rows
      <4>4. x = [row EXCEPT !.sync = "SYNCED", !.note = exec[w].note,
                            !.thread = t]
        BY <3>1, <4>1, <4>3
      <4> QED
        BY <3>4, <4>2, <4>4 DEF Row
    <3>6. ChangedRow(c, x)
      BY <2>2, <3>1, <3>2, <3>3, Rows DEF Row, ChangedRow
    <3> QED
      BY <2>2, <3>2, <3>5, <3>6, RowChanged
  <2>5. CASE StoreFailure(w) /\ rows' # rows
    <3>1. PICK x : x = [rows[c] EXCEPT !.sync = "FAILED"]
      OBVIOUS
    <3>2. rows' = [rows EXCEPT ![c] = x]
      BY <2>1, <2>5, <3>1 DEF StoreFailure
    <3>3. x \in Row /\ ChangedRow(c, x)
      BY <2>2, <3>1, Rows DEF Row, ChangedRow
    <3> QED
      BY <2>2, <3>2, <3>3, RowChanged
  <2> QED
    BY <1>4, <2>3, <2>4, <2>5
<1>5. ASSUME NEW h \in Hooks, RemoveRow(h) PROVE RowsMove
  <2>1. PICK c : c = hook[h].row
    OBVIOUS
  <2>2. c \in DOMAIN rows
    BY <1>5, <2>1, HookFields DEF RemoveRow, HookRefers
  <2>3. PICK x : x = [rows[c] EXCEPT !.deleted = TRUE]
    OBVIOUS
  <2>4. x \in Row /\ ChangedRow(c, x)
    <3>1. PICK row \in Row : row = rows[c]
      BY <2>2, Rows
    <3>2. x = [row EXCEPT !.deleted = TRUE]
      BY <2>3, <3>1
    <3>3. x \in Row
      BY <3>2 DEF Row
    <3>4. x.origin = row.origin /\ x.parent = row.parent
      BY <3>2 DEF Row
    <3>5. x.note = row.note /\ x.thread = row.thread
      BY <3>2 DEF Row
    <3>6. x.edited = row.edited
      BY <3>2 DEF Row
    <3> QED
      BY <3>1, <3>3, <3>4, <3>5, <3>6 DEF ChangedRow
  <2>5. rows' = [rows EXCEPT ![c] = x]
    BY <1>5, <2>1, <2>3 DEF RemoveRow
  <2> QED
    BY <2>2, <2>4, <2>5, RowChanged
<1>6. ASSUME NEW h \in Hooks, EditRow(h) PROVE RowsMove
  <2>1. PICK c : c = hook[h].row
    OBVIOUS
  <2>2. c \in DOMAIN rows /\ hook[h].action = "edited"
    BY <1>6, <2>1, HookFields DEF EditRow, HookRefers
  <2>3. PICK x : x = [rows[c] EXCEPT !.edited = TRUE]
    OBVIOUS
  <2>4. x \in Row /\ ChangedRow(c, x)
    BY <2>2, <2>3, Rows DEF Row, ChangedRow
  <2>5. (hook[h].action = "edited") = TRUE
    BY <2>2
  <2>6. rows' = [rows EXCEPT ![c] = x]
    BY <1>6, <2>1, <2>3, <2>5 DEF EditRow
  <2> QED
    BY <2>2, <2>4, <2>6, RowChanged
<1>7. ASSUME NEW h \in Hooks, LinkOwn(h) PROVE RowsMove
  <2>1. PICK c : c = hook[h].row
    OBVIOUS
  <2>2. PICK n : n = hook[h].note
    OBVIOUS
  <2>3. c \in DOMAIN rows /\ CopyOf(n, c) /\ n \in NoteIds
    BY <1>7, <2>1, <2>2, HookFields DEF LinkOwn, HookRefers
  <2>4. PICK x : x = [rows[c] EXCEPT !.note = n]
    OBVIOUS
  <2>5. rows' = [rows EXCEPT ![c] = x] /\ ~NoteTaken(n, c)
    BY <1>7, <2>1, <2>2, <2>4 DEF LinkOwn
  <2>6. x \in Row /\ ChangedRow(c, x)
    BY <2>3, <2>4, <2>5, Rows DEF Row, ChangedRow
  <2> QED
    BY <2>3, <2>5, <2>6, RowChanged
<1>8. ASSUME NEW h \in Hooks, CreateRow(h) PROVE RowsMove
  <2>1. PICK n : n = hook[h].note
    OBVIOUS
  <2>2. PICK p : p = hook[h].row
    OBVIOUS
  <2>3. PICK edited : edited = (hook[h].action = "edited")
    OBVIOUS
  <2>4. edited \in BOOLEAN
    BY <2>3
  <2>5. PICK x : x = [origin |-> "PROVIDER", parent |-> p,
                      edited |-> edited, deleted |-> FALSE, note |-> n,
                      thread |-> hook[h].thread, sync |-> "NONE"]
    OBVIOUS
  <2>6. /\ Len(rows) < MaxRows /\ rows' = Append(rows, x)
        /\ ~NoteTaken(n, None)
    BY <1>8, <2>1, <2>2, <2>3, <2>5 DEF CreateRow
  <2>7. x \in Row
    BY <2>1, <2>2, <2>4, <2>5, HookFields DEF Row
  <2>8. NewRow(x)
    BY <1>8, <2>1, <2>2, <2>5, <2>6, HookFields, Notes
       DEF CreateRow, HookRefers, NewRow, CopyOf
  <2> QED
    BY <2>6, <2>7, <2>8, RowAdded
<1>9. ASSUME NEW r \in Requests, Api(r) PROVE RowsMove
  BY <1>0, <1>1, <1>2, <1>3, <1>9
     DEF Api, EnqueueSync, EnqueueThrows, ApiCrash
<1>10. ASSUME NEW w \in Workers, Sync(w) PROVE RowsMove
  BY <1>0, <1>4, <1>10
     DEF Sync, TakeJob, WaitForParent, Send, SendAnswerLost, SendFails,
         StoreThrows, Stalled, WorkerDies
<1>11. ASSUME ProviderActs PROVE RowsMove
  BY <1>0, <1>11 DEF ProviderActs, WriteNote, ChangeNote, crit
<1>12. ASSUME NEW h \in Hooks, Ingest(h) PROVE RowsMove
  BY <1>0, <1>5, <1>6, <1>7, <1>8, <1>12
     DEF Ingest, Deliver, HookFails, crit
<1>13. CASE UNCHANGED vars
  BY <1>0, <1>13 DEF vars
<1> QED
  BY <1>9, <1>10, <1>11, <1>12, <1>13 DEF Next

-----------------------------------------------------------------------------
(* Steps of the notes: one is added, by a user or as the copy of a comment.*)

CopyBy(w, x) ==
    /\ exec[w].pc = "send" /\ ~ParentNotSynced(w)
    /\ x.of = RowOf(w) /\ x.thread = CopyThread(w, Len(notes) + 1)

NotesGrow ==
    LET n == Len(notes) + 1
    IN  /\ n \in NoteIds /\ DOMAIN notes' = DOMAIN notes \cup {n}
        /\ \A m \in DOMAIN notes : notes'[m] = notes[m]
        /\ notes'[n].of = None \/ \E w \in Workers : CopyBy(w, notes'[n])

NotesMove ==
    /\ notes' \in Seq(Note) /\ Len(notes') <= MaxNotes
    /\ notes' = notes \/ NotesGrow

LEMMA NoteAdded ==
  ASSUME TypeInv, NEW x \in Note, Len(notes) + 1 <= MaxNotes,
         notes' = Append(notes, x),
         x.of = None \/ \E w \in Workers : CopyBy(w, x)
  PROVE  NotesMove
<1>1. notes \in Seq(Note)
  BY DEF TypeInv, TypeOK
<1>2. /\ notes' \in Seq(Note) /\ Len(notes') = Len(notes) + 1
      /\ \A c \in 1..Len(notes) : notes'[c] = notes[c]
      /\ notes'[Len(notes) + 1] = x
  BY <1>1, AppendProperties
<1>3. DOMAIN notes' = 1..(Len(notes) + 1)
  BY <1>2, LenProperties
<1>4. DOMAIN notes' = DOMAIN notes \cup {Len(notes) + 1}
  BY <1>3, Notes
<1>5. Len(notes) + 1 \in NoteIds
  BY Notes DEF NoteIds
<1>6. NotesGrow
  BY <1>2, <1>4, <1>5, Notes DEF NotesGrow
<1> QED
  BY <1>2, <1>6 DEF NotesMove

LEMMA NotesStep ==
  ASSUME TypeInv, [Next]_vars
  PROVE  NotesMove
<1>0. ASSUME notes' = notes PROVE NotesMove
  BY <1>0 DEF TypeInv, TypeOK, NotesMove
<1>1. ASSUME NEW w \in Workers, PostCopy(w) PROVE NotesMove
  <2>1. PICK t : t = CopyThread(w, Len(notes) + 1)
    OBVIOUS
  <2>2. PICK c : c = RowOf(w)
    OBVIOUS
  <2>3. Len(notes) + 1 <= MaxNotes
    BY <1>1 DEF PostCopy
  <2>4. t \in NoteIds \cup {None} /\ c \in RowIds
    BY <2>1, <2>2, <2>3, ExecFields, Notes DEF CopyThread, NoteIds
  <2>5. PICK x : x = [of |-> c, thread |-> t]
    OBVIOUS
  <2>6. x \in Note
    BY <2>4, <2>5 DEF Note
  <2>7. notes' = Append(notes, x)
    BY <1>1, <2>1, <2>2, <2>5 DEF PostCopy
  <2>8. CopyBy(w, x)
    BY <1>1, <2>1, <2>2, <2>5 DEF PostCopy, CopyBy
  <2> QED
    BY <2>3, <2>6, <2>7, <2>8, NoteAdded
<1>2. ASSUME NEW t \in NoteIds \cup {None}, WriteNote(t) PROVE NotesMove
  <2>1. PICK u : u = IF t = None /\ Threaded THEN Len(notes) + 1 ELSE t
    OBVIOUS
  <2>2. Len(notes) + 1 <= MaxNotes
    BY <1>2 DEF WriteNote
  <2>3. u \in NoteIds \cup {None}
    BY <2>1, <2>2, Notes DEF NoteIds
  <2>4. PICK x : x = [of |-> None, thread |-> u]
    OBVIOUS
  <2>5. x \in Note /\ x.of = None
    BY <2>3, <2>4 DEF Note
  <2>6. notes' = Append(notes, x)
    BY <1>2, <2>1, <2>4 DEF WriteNote
  <2> QED
    BY <2>2, <2>5, <2>6, NoteAdded
<1>3. ASSUME NEW w \in Workers, Sync(w) PROVE NotesMove
  BY <1>0, <1>1, <1>3
     DEF Sync, TakeJob, WaitForParent, Send, SendAnswerLost, SendFails,
         StoreIds, StoreFailure, StoreThrows, Stalled, WorkerDies, prov
<1>4. ASSUME ProviderActs PROVE NotesMove
  BY <1>0, <1>2, <1>4 DEF ProviderActs, ChangeNote
<1>5. ASSUME NEW r \in Requests, Api(r) PROVE NotesMove
  BY <1>0, <1>5
     DEF Api, CreateComment, EnqueueSync, EnqueueThrows, MarkFailed,
         RetrySync, ApiCrash, prov
<1>6. ASSUME NEW h \in Hooks, Ingest(h) PROVE NotesMove
  BY <1>0, <1>6
     DEF Ingest, Deliver, RemoveRow, EditRow, LinkOwn, CreateRow, HookFails,
         prov
<1>7. CASE UNCHANGED vars
  BY <1>0, <1>7 DEF vars
<1> QED
  BY <1>3, <1>4, <1>5, <1>6, <1>7 DEF Next

-----------------------------------------------------------------------------
(* What a step leaves as it is.                                            *)

Kept ==
    /\ place' = place
    /\ DOMAIN rows \subseteq DOMAIN rows'
    /\ DOMAIN notes \subseteq DOMAIN notes'
    /\ \A n \in DOMAIN notes : notes'[n] = notes[n]
    /\ \A c \in DOMAIN rows :
          /\ rows'[c].origin = rows[c].origin
          /\ rows'[c].parent = rows[c].parent
          /\ rows[c].edited => rows'[c].edited
          /\ rows[c].origin = "PROVIDER" =>
                /\ rows'[c].note = rows[c].note
                /\ rows'[c].thread = rows[c].thread

LEMMA StepPlace ==
  ASSUME [Next]_vars
  PROVE  place' = place
<1>1. ASSUME NEW r \in Requests, Api(r) PROVE place' = place
  BY <1>1 DEF Api, CreateComment, EnqueueSync, EnqueueThrows, MarkFailed,
              RetrySync, ApiCrash
<1>2. ASSUME NEW w \in Workers, Sync(w) PROVE place' = place
  BY <1>2 DEF Sync, TakeJob, WaitForParent, Send, SendAnswerLost, SendFails,
              StoreIds, StoreFailure, StoreThrows, Stalled, WorkerDies
<1>3. ASSUME ProviderActs PROVE place' = place
  BY <1>3 DEF ProviderActs, WriteNote, ChangeNote
<1>4. ASSUME NEW h \in Hooks, Ingest(h) PROVE place' = place
  BY <1>4 DEF Ingest, Deliver, RemoveRow, EditRow, LinkOwn, CreateRow,
              HookFails
<1>5. CASE UNCHANGED vars
  BY <1>5 DEF vars
<1> QED
  BY <1>1, <1>2, <1>3, <1>4, <1>5 DEF Next

LEMMA StepKeeps ==
  ASSUME TypeInv, [Next]_vars
  PROVE  Kept
<1>1. RowsMove /\ NotesMove /\ place' = place
  BY RowsStep, NotesStep, StepPlace
<1>2. /\ DOMAIN notes \subseteq DOMAIN notes'
      /\ \A n \in DOMAIN notes : notes'[n] = notes[n]
  BY <1>1 DEF NotesMove, NotesGrow
<1>3. ASSUME NEW c \in DOMAIN rows
      PROVE  /\ rows'[c].origin = rows[c].origin
             /\ rows'[c].parent = rows[c].parent
             /\ rows[c].edited => rows'[c].edited
             /\ rows[c].origin = "PROVIDER" =>
                   /\ rows'[c].note = rows[c].note
                   /\ rows'[c].thread = rows[c].thread
  <2>1. CASE rows'[c] = rows[c]
    BY <2>1
  <2>2. CASE ChangedRow(c, rows'[c])
    <3>1. rows[c].origin = "PROVIDER" => \A n : ~CopyOf(n, c)
      BY Rows DEF CopyOf, TypeInv, RefsInv, NotesRefer, Ours
    <3> QED
      BY <2>2, <3>1 DEF ChangedRow
  <2> QED
    BY <1>1, <2>1, <2>2 DEF RowsMove, RowMoves
<1> QED
  BY <1>1, <1>2, <1>3 DEF RowsMove, Kept

LEMMA KeptRefs ==
  ASSUME Kept
  PROVE  /\ \A c : Ours(c) => Ours(c)'
         /\ \A c : Root(c) => Root(c)'
         /\ \A n, c : CopyOf(n, c) => CopyOf(n, c)'
         /\ Threaded' = Threaded
<1>1. ASSUME NEW c, Ours(c) PROVE Ours(c)'
  BY <1>1 DEF Kept, Ours
<1>2. ASSUME NEW c, Root(c) PROVE Root(c)'
  BY <1>2 DEF Kept, Root
<1>3. ASSUME NEW n, NEW c, CopyOf(n, c) PROVE CopyOf(n, c)'
  BY <1>3 DEF Kept, CopyOf
<1>4. Threaded' = Threaded
  BY DEF Kept, Threaded
<1> QED
  BY <1>1, <1>2, <1>3, <1>4

LEMMA PostedCopy ==
  ASSUME TypeInv, NEW w \in Workers, PostCopy(w)
  PROVE  LET n == Len(notes) + 1
         IN  /\ n \in NoteIds /\ n \in DOMAIN notes'
             /\ n \notin DOMAIN notes
             /\ notes'[n].of = RowOf(w)
<1>1. notes \in Seq(Note)
  BY DEF TypeInv, TypeOK
<1>2. PICK x : x = [of |-> RowOf(w), thread |-> CopyThread(w, Len(notes) + 1)]
  OBVIOUS
<1>3. Len(notes) + 1 <= MaxNotes /\ notes' = Append(notes, x)
  BY <1>2 DEF PostCopy
<1>4. CopyThread(w, Len(notes) + 1) \in NoteIds \cup {None}
  BY <1>3, ExecFields, Notes DEF CopyThread, NoteIds
<1>5. x \in Note
  BY <1>2, <1>4, ExecFields DEF Note
<1>6. /\ Len(notes') = Len(notes) + 1 /\ notes' \in Seq(Note)
      /\ notes'[Len(notes) + 1] = x
  BY <1>1, <1>3, <1>5, AppendProperties
<1>7. DOMAIN notes' = 1..(Len(notes) + 1)
  BY <1>6, LenProperties
<1>8. x.of = RowOf(w)
  BY <1>2
<1> QED
  BY <1>3, <1>6, <1>7, <1>8, Notes DEF NoteIds

-----------------------------------------------------------------------------
(* Jobs.                                                                   *)

JobsTyped == job \in [JobIds -> Job] /\ JobsRefer

LEMMA JobIs ==
  ASSUME TypeInv, Kept, NEW k \in JobIds, NEW x \in Job, Ours(k[1]),
         job' = [job EXCEPT ![k] = x]
  PROVE  JobsTyped'
<1>1. job \in [JobIds -> Job] /\ JobsRefer
  BY DEF TypeInv, TypeOK, RefsInv
<1>2. job' \in [JobIds -> Job]
  BY <1>1
<1>3. ASSUME NEW j \in JobIds, job'[j].pc # "none" PROVE Ours(j[1])'
  BY <1>1, <1>3, KeptRefs DEF JobsRefer
<1> QED
  BY <1>2, <1>3 DEF JobsTyped, JobsRefer

LEMMA JobsSame ==
  ASSUME TypeInv, Kept, job' = job
  PROVE  JobsTyped'
<1>1. job \in [JobIds -> Job] /\ JobsRefer
  BY DEF TypeInv, TypeOK, RefsInv
<1> QED
  BY <1>1, KeptRefs DEF JobsTyped, JobsRefer

LEMMA Executing ==
  ASSUME TypeInv, NEW w \in Workers, exec[w].pc # "idle"
  PROVE  Ours(RowOf(w)) /\ RowOf(w) \in DOMAIN rows
  BY DEF TypeInv, RefsInv, ExecsRefer, Ours

LEMMA JobEnds ==
  ASSUME TypeInv, Kept, NEW w \in Workers, exec[w].pc # "idle", EndJob(w)
  PROVE  JobsTyped'
<1>1. CASE job' = job
  BY <1>1, JobsSame
<1>2. CASE job' = [job EXCEPT ![exec[w].job] = EndedJob]
  BY <1>2, Blanks, Executing, ExecFields, JobIs DEF RowOf
<1> QED
  BY <1>1, <1>2 DEF EndJob

LEMMA JobThrows ==
  ASSUME TypeInv, Kept, NEW w \in Workers, exec[w].pc # "idle", Throw(w)
  PROVE  JobsTyped'
<1>1. CASE job' = job
  BY <1>1, JobsSame
<1>2. CASE job' # job
  <2>1. PICK k : k = exec[w].job
    OBVIOUS
  <2>2. PICK x : x = IF Exhausted(w) THEN EndedJob
                     ELSE [job[k] EXCEPT !.pc = "waiting",
                                         !.made = job[k].made + 1]
    OBVIOUS
  <2>3. k \in JobIds /\ Ours(k[1]) /\ job[k] \in Job
    BY <2>1, Executing, ExecFields, JobFields DEF RowOf
  <2>4. x \in Job
    <3>1. [job[k] EXCEPT !.pc = "waiting", !.made = job[k].made + 1] \in Job
      <4>1. PICK old \in Job : old = job[k]
        BY <2>3
      <4>2. PICK made \in Nat : made = old.made + 1
        BY DEF Job
      <4>3. [old EXCEPT !.pc = "waiting", !.made = made] \in Job
        BY DEF Job
      <4> QED
        BY <4>1, <4>2, <4>3
    <3> QED
      BY <2>2, <3>1, Blanks
  <2>5. job' = [job EXCEPT ![k] = x]
    BY <1>2, <2>1, <2>2 DEF Throw
  <2> QED
    BY <2>3, <2>4, <2>5, JobIs
<1> QED
  BY <1>1, <1>2

LEMMA JobsStep ==
  ASSUME TypeInv, [Next]_vars
  PROVE  JobsTyped'
<1>0. Kept /\ (job' = job => JobsTyped')
  BY StepKeeps, JobsSame
<1>1. ASSUME NEW r \in Requests, EnqueueSync(r) PROVE JobsTyped'
  <2>1. PICK k : k = req[r].job
    OBVIOUS
  <2>2. PICK x : x = [NoJob EXCEPT !.pc = "waiting"]
    OBVIOUS
  <2>3. x \in Job
    BY <2>2 DEF NoJob, Job
  <2>4. k \in JobIds /\ Ours(k[1])
    BY <1>1, <2>1, ReqFields DEF EnqueueSync, TypeInv, RefsInv, ReqsRefer
  <2>5. job' = [job EXCEPT ![k] = x]
    BY <1>1, <2>1, <2>2 DEF EnqueueSync
  <2> QED
    BY <1>0, <2>3, <2>4, <2>5, JobIs
<1>2. ASSUME NEW w \in Workers, NEW k \in JobIds, TakeJob(w, k)
      PROVE  JobsTyped'
  <2>1. Ours(k[1]) /\ job[k] \in Job
    BY <1>2, JobFields DEF TakeJob, TypeInv, RefsInv, JobsRefer
  <2>2. PICK x : x = [job[k] EXCEPT !.pc = "taken"]
    OBVIOUS
  <2>3. x \in Job
    BY <2>1, <2>2 DEF Job
  <2>4. job' = [job EXCEPT ![k] = x] \/ job' = [job EXCEPT ![k] = EndedJob]
    BY <1>2, <2>2 DEF TakeJob
  <2> QED
    BY <1>0, <2>1, <2>3, <2>4, Blanks, JobIs
<1>3. ASSUME NEW w \in Workers, Stalled(w) PROVE JobsTyped'
  <2>1. PICK k : k = exec[w].job
    OBVIOUS
  <2>2. PICK x : x = IF job[k].stalled THEN EndedJob
                     ELSE [job[k] EXCEPT !.pc = "waiting", !.stalled = TRUE]
    OBVIOUS
  <2>3. k \in JobIds /\ Ours(k[1]) /\ job[k] \in Job
    BY <1>3, <2>1, Executing, ExecFields, JobFields DEF RowOf, Stalled
  <2>4. x \in Job
    BY <2>2, <2>3, Blanks DEF Job
  <2>5. job' = [job EXCEPT ![k] = x]
    BY <1>3, <2>1, <2>2 DEF Stalled
  <2> QED
    BY <1>0, <2>3, <2>4, <2>5, JobIs
<1>4. ASSUME NEW w \in Workers, exec[w].pc # "idle",
             EndJob(w) \/ Throw(w) \/ UNCHANGED job
      PROVE  JobsTyped'
  BY <1>0, <1>4, JobEnds, JobThrows
<1>5. ASSUME NEW w \in Workers, Sync(w) PROVE JobsTyped'
  BY <1>0, <1>2, <1>3, <1>4, <1>5
     DEF Sync, WaitForParent, Send, SendAnswerLost, SendFails, PostCopy,
         StoreIds, StoreFailure, StoreThrows, WorkerDies, SendFailed
<1>6. ASSUME NEW r \in Requests, Api(r) PROVE JobsTyped'
  BY <1>0, <1>1, <1>6
     DEF Api, CreateComment, EnqueueThrows, MarkFailed, RetrySync, ApiCrash
<1>7. ASSUME ProviderActs PROVE JobsTyped'
  BY <1>0, <1>7 DEF ProviderActs, WriteNote, ChangeNote, crit
<1>8. ASSUME NEW h \in Hooks, Ingest(h) PROVE JobsTyped'
  BY <1>0, <1>8 DEF Ingest, Deliver, RemoveRow, EditRow, LinkOwn, CreateRow,
                    HookFails, crit
<1>9. CASE UNCHANGED vars
  BY <1>0, <1>9 DEF vars
<1> QED
  BY <1>5, <1>6, <1>7, <1>8, <1>9 DEF Next

-----------------------------------------------------------------------------
(* Executions.                                                             *)

ExecsTyped == exec \in [Workers -> Execution] /\ ExecsRefer

LEMMA ExecIs ==
  ASSUME TypeInv, Kept, NEW w \in Workers, NEW x \in Execution,
         x.pc # "idle" => Ours(x.job[1]),
         x.pc = "store" => x.note \in DOMAIN notes'
                           /\ notes'[x.note].of = x.job[1],
         exec' = [exec EXCEPT ![w] = x]
  PROVE  ExecsTyped'
<1>1. exec \in [Workers -> Execution] /\ ExecsRefer
  BY DEF TypeInv, TypeOK, RefsInv
<1>2. exec' \in [Workers -> Execution]
  BY <1>1
<1>3. ASSUME NEW v \in Workers, exec'[v].pc # "idle",
             NEW c, c = exec'[v].job[1], NEW n, n = exec'[v].note
      PROVE  Ours(c)' /\ (exec'[v].pc = "store" => CopyOf(n, c)')
  <2>1. CASE v = w
    BY <1>1, <1>3, <2>1, KeptRefs DEF CopyOf
  <2>2. CASE v # w
    <3>1. exec'[v] = exec[v]
      BY <1>1, <2>2
    <3>2. Ours(c) /\ (exec[v].pc = "store" => CopyOf(n, c))
      BY <1>1, <1>3, <3>1 DEF ExecsRefer, RowOf
    <3> QED
      BY <3>1, <3>2, KeptRefs
  <2> QED
    BY <2>1, <2>2
<1> QED
  BY <1>2, <1>3 DEF ExecsTyped, ExecsRefer, RowOf

LEMMA ExecsSame ==
  ASSUME TypeInv, Kept, exec' = exec
  PROVE  ExecsTyped'
<1>1. exec \in [Workers -> Execution] /\ ExecsRefer
  BY DEF TypeInv, TypeOK, RefsInv
<1>2. ASSUME NEW v \in Workers, exec[v].pc # "idle",
             NEW c, c = exec[v].job[1], NEW n, n = exec[v].note
      PROVE  Ours(c)' /\ (exec[v].pc = "store" => CopyOf(n, c)')
  BY <1>1, <1>2, KeptRefs DEF ExecsRefer, RowOf
<1> QED
  BY <1>1, <1>2 DEF ExecsTyped, ExecsRefer, RowOf

LEMMA ExecEnds ==
  ASSUME TypeInv, Kept, NEW w \in Workers,
         exec' = [exec EXCEPT ![w] = NoExecution]
  PROVE  ExecsTyped'
  BY Blanks, ExecIs

LEMMA ExecFails ==
  ASSUME TypeInv, Kept, NEW w \in Workers, exec[w].pc = "send",
         NEW retryable \in BOOLEAN, SendFailed(w, retryable)
  PROVE  ExecsTyped'
<1>1. CASE Throw(w)
  BY <1>1, ExecEnds DEF Throw
<1>2. CASE exec' = [exec EXCEPT ![w].pc = "fail"]
  <2>1. PICK x : x = [exec[w] EXCEPT !.pc = "fail"]
    OBVIOUS
  <2>2. x \in Execution /\ x.pc = "fail" /\ x.job = exec[w].job
    BY <2>1, ExecFields DEF Execution
  <2>3. exec' = [exec EXCEPT ![w] = x]
    BY <1>2, <2>1
  <2>4. Ours(x.job[1])
    BY <2>2, Executing DEF RowOf
  <2> QED
    BY <2>2, <2>3, <2>4, ExecIs
<1> QED
  BY <1>1, <1>2 DEF SendFailed

LEMMA ExecsStep ==
  ASSUME TypeInv, [Next]_vars
  PROVE  ExecsTyped'
<1>0. Kept /\ (exec' = exec => ExecsTyped')
  BY StepKeeps, ExecsSame
<1>1. ASSUME NEW w \in Workers, NEW k \in JobIds, TakeJob(w, k)
      PROVE  ExecsTyped'
  <2>1. CASE exec' = exec
    BY <1>0, <2>1
  <2>2. CASE exec' # exec
    <3>1. PICK p : p = rows[k[1]].parent
      OBVIOUS
    <3>2. PICK t : t = IF p = None THEN None ELSE rows[p].thread
      OBVIOUS
    <3>3. Ours(k[1])
      BY <1>1 DEF TakeJob, TypeInv, RefsInv, JobsRefer
    <3>4. t \in NoteIds \cup {None}
      BY <3>1, <3>2, <3>3, RowFields
         DEF Ours, TypeInv, RefsInv, RowsRefer, Root
    <3>5. PICK x : x = [NoExecution EXCEPT !.pc = "send", !.job = k,
                          !.owner = TRUE, !.thread = t]
      OBVIOUS
    <3>6. x \in Execution /\ x.pc = "send" /\ x.job = k
      BY <3>4, <3>5 DEF NoExecution, Execution, None
    <3>7. exec' = [exec EXCEPT ![w] = x]
      BY <1>1, <2>2, <3>1, <3>2, <3>5 DEF TakeJob
    <3> QED
      BY <1>0, <3>3, <3>6, <3>7, ExecIs
  <2> QED
    BY <2>1, <2>2
<1>2. ASSUME NEW w \in Workers, Send(w) PROVE ExecsTyped'
  <2>1. PICK n : n = Len(notes) + 1
    OBVIOUS
  <2>2. PICK x : x = [exec[w] EXCEPT !.pc = "store", !.note = n]
    OBVIOUS
  <2>3. n \in NoteIds /\ n \in DOMAIN notes' /\ notes'[n].of = RowOf(w)
    BY <1>2, <2>1, PostedCopy DEF Send
  <2>4. x \in Execution /\ x.job = exec[w].job /\ x.note = n
    BY <2>2, <2>3, ExecFields DEF Execution
  <2>5. exec' = [exec EXCEPT ![w] = x]
    BY <1>2, <2>1, <2>2 DEF Send
  <2>6. Ours(x.job[1]) /\ notes'[n].of = x.job[1]
    BY <1>2, <2>3, <2>4, Executing DEF Send, PostCopy, RowOf
  <2> QED
    BY <1>0, <2>3, <2>4, <2>5, <2>6, ExecIs
<1>3. ASSUME NEW w \in Workers, Stalled(w) PROVE ExecsTyped'
  <2>1. PICK x : x = [exec[w] EXCEPT !.owner = FALSE]
    OBVIOUS
  <2>2. /\ x \in Execution /\ x.job = exec[w].job /\ x.note = exec[w].note
        /\ x.pc = exec[w].pc
    BY <2>1, ExecFields DEF Execution
  <2>3. exec' = [exec EXCEPT ![w] = x] /\ exec[w].pc # "idle"
    BY <1>3, <2>1 DEF Stalled
  <2>4. Ours(x.job[1]) /\ (x.pc = "store" => CopyOf(x.note, x.job[1]))
    BY <2>2, <2>3 DEF TypeInv, RefsInv, ExecsRefer, RowOf
  <2>5. x.pc = "store" => /\ x.note \in DOMAIN notes'
                          /\ notes'[x.note].of = x.job[1]
    BY <1>0, <2>4 DEF Kept, CopyOf
  <2> QED
    BY <1>0, <2>2, <2>3, <2>4, <2>5, ExecIs
<1>4. ASSUME NEW w \in Workers, exec[w].pc = "send",
             NEW retryable \in BOOLEAN, SendFailed(w, retryable)
      PROVE  ExecsTyped'
  BY <1>0, <1>4, ExecFails
<1>5. ASSUME NEW w \in Workers, EndJob(w) \/ Throw(w) \/ WorkerDies(w)
      PROVE  ExecsTyped'
  BY <1>0, <1>5, ExecEnds DEF EndJob, Throw, WorkerDies
<1>6. ASSUME NEW w \in Workers, Sync(w) PROVE ExecsTyped'
  BY <1>1, <1>2, <1>3, <1>4, <1>5, <1>6
     DEF Sync, WaitForParent, SendAnswerLost, PostCopy, SendFails, StoreIds,
         StoreFailure, StoreThrows
<1>7. ASSUME NEW r \in Requests, Api(r) PROVE ExecsTyped'
  BY <1>0, <1>7
     DEF Api, CreateComment, EnqueueSync, EnqueueThrows, MarkFailed,
         RetrySync, ApiCrash
<1>8. ASSUME ProviderActs PROVE ExecsTyped'
  BY <1>0, <1>8 DEF ProviderActs, WriteNote, ChangeNote, crit
<1>9. ASSUME NEW h \in Hooks, Ingest(h) PROVE ExecsTyped'
  BY <1>0, <1>9 DEF Ingest, Deliver, RemoveRow, EditRow, LinkOwn, CreateRow,
                    HookFails, crit
<1>10. CASE UNCHANGED vars
  BY <1>0, <1>10 DEF vars
<1> QED
  BY <1>6, <1>7, <1>8, <1>9, <1>10 DEF Next

-----------------------------------------------------------------------------
(* Requests.                                                               *)

ReqsTyped == req \in [Requests -> Request] /\ ReqsRefer

LEMMA ReqIs ==
  ASSUME TypeInv, Kept, NEW r \in Requests, NEW x \in Request,
         x.pc # "idle" => Ours(x.job[1])', req' = [req EXCEPT ![r] = x]
  PROVE  ReqsTyped'
<1>1. req \in [Requests -> Request] /\ ReqsRefer
  BY DEF TypeInv, TypeOK, RefsInv
<1>2. req' \in [Requests -> Request]
  BY <1>1
<1>3. ASSUME NEW q \in Requests, req'[q].pc # "idle",
             NEW c, c = req'[q].job[1]
      PROVE  Ours(c)'
  <2>1. CASE q = r
    BY <1>1, <1>3, <2>1 DEF Ours
  <2>2. CASE q # r
    BY <1>1, <1>3, <2>2, KeptRefs DEF ReqsRefer
  <2> QED
    BY <2>1, <2>2
<1> QED
  BY <1>2, <1>3 DEF ReqsTyped, ReqsRefer

LEMMA ReqsStep ==
  ASSUME TypeInv, [Next]_vars
  PROVE  ReqsTyped'
<1>0. Kept
  BY StepKeeps
<1>1. ASSUME req' = req PROVE ReqsTyped'
  <2>1. req \in [Requests -> Request] /\ ReqsRefer
    BY DEF TypeInv, TypeOK, RefsInv
  <2> QED
    BY <1>0, <1>1, <2>1, KeptRefs DEF ReqsTyped, ReqsRefer
<1>2. ASSUME NEW r \in Requests, req' = [req EXCEPT ![r] = NoRequest]
      PROVE  ReqsTyped'
  <2>1. NoRequest.pc = "idle"
    BY DEF NoRequest
  <2> QED
    BY <1>0, <1>2, <2>1, Blanks, ReqIs
<1>3. ASSUME NEW r \in Requests, NEW p \in RowIds \cup {None},
             CreateComment(r, p)
      PROVE  ReqsTyped'
  <2>1. PICK c : c = Len(rows) + 1
    OBVIOUS
  <2>2. PICK parent : parent = IF p = None THEN None ELSE RootOf(p)
    OBVIOUS
  <2>3. parent \in RowIds \cup {None}
    BY <1>3, <2>2, RowFields DEF CreateComment, RootOf
  <2>4. PICK y : y = [origin |-> "CRITIQ", parent |-> parent,
                      edited |-> FALSE, deleted |-> FALSE,
                      note |-> None, thread |-> None, sync |-> "PENDING"]
    OBVIOUS
  <2>5. y \in Row /\ y.origin = "CRITIQ"
    BY <2>3, <2>4 DEF Row
  <2>6. rows \in Seq(Row) /\ rows' = Append(rows, y) /\ Len(rows) < MaxRows
    BY <1>3, <2>2, <2>4 DEF TypeInv, TypeOK, CreateComment
  <2>7. rows'[c] = y /\ rows' \in Seq(Row) /\ Len(rows') = c
    BY <2>1, <2>5, <2>6, AppendProperties
  <2>8. c \in RowIds /\ Ours(c)'
    BY <2>1, <2>5, <2>6, <2>7, Rows, LenProperties DEF Ours, RowIds
  <2>9. PICK x : x = [pc |-> "enqueue", job |-> FirstJob(c)]
    OBVIOUS
  <2>10. x \in Request /\ x.job[1] = c
    BY <2>8, <2>9, Blanks DEF Request
  <2>11. Ours(x.job[1])'
    BY <2>8, <2>10 DEF Ours
  <2>12. req' = [req EXCEPT ![r] = x]
    BY <1>3, <2>1, <2>9 DEF CreateComment
  <2> QED
    BY <1>0, <2>10, <2>11, <2>12, ReqIs
<1>4. ASSUME NEW r \in Requests, NEW c \in RowIds, RetrySync(r, c)
      PROVE  ReqsTyped'
  <2>1. PICK k : k = RetryJob(c, count.retries + 1)
    OBVIOUS
  <2>2. count.retries \in Nat /\ count.retries < MaxRetries
    BY <1>4 DEF TypeInv, TypeOK, RetrySync
  <2>3. k \in JobIds /\ k[1] = c
    BY <2>1, <2>2 DEF RetryJob, JobIds
  <2>4. Ours(c)'
    BY <1>0, <1>4, KeptRefs DEF RetrySync, Ours
  <2>5. PICK x : x = [pc |-> "enqueue", job |-> k]
    OBVIOUS
  <2>6. x \in Request /\ x.job[1] = c
    BY <2>3, <2>5 DEF Request
  <2>7. Ours(x.job[1])'
    BY <2>4, <2>6 DEF Ours
  <2>8. req' = [req EXCEPT ![r] = x]
    BY <1>4, <2>1, <2>5 DEF RetrySync
  <2> QED
    BY <1>0, <2>6, <2>7, <2>8, ReqIs
<1>5. ASSUME NEW r \in Requests, EnqueueThrows(r) PROVE ReqsTyped'
  <2>1. PICK x : x = [req[r] EXCEPT !.pc = "mark"]
    OBVIOUS
  <2>2. x \in Request /\ x.job = req[r].job
    BY <2>1, ReqFields DEF Request
  <2>3. PICK c : c = req[r].job[1]
    OBVIOUS
  <2>4. Ours(c)'
    BY <1>0, <1>5, <2>3, KeptRefs
       DEF EnqueueThrows, TypeInv, RefsInv, ReqsRefer
  <2>5. Ours(x.job[1])'
    BY <2>2, <2>3, <2>4 DEF Ours
  <2>6. req' = [req EXCEPT ![r] = x]
    BY <1>5, <2>1 DEF EnqueueThrows
  <2> QED
    BY <1>0, <2>2, <2>5, <2>6, ReqIs
<1>6. ASSUME NEW r \in Requests, Api(r) PROVE ReqsTyped'
  BY <1>2, <1>3, <1>4, <1>5, <1>6 DEF Api, EnqueueSync, MarkFailed, ApiCrash
<1>7. ASSUME NEW w \in Workers, Sync(w) PROVE ReqsTyped'
  BY <1>1, <1>7
     DEF Sync, TakeJob, WaitForParent, Send, SendAnswerLost, SendFails,
         StoreIds, StoreFailure, StoreThrows, Stalled, WorkerDies
<1>8. ASSUME ProviderActs PROVE ReqsTyped'
  BY <1>1, <1>8 DEF ProviderActs, WriteNote, ChangeNote, crit
<1>9. ASSUME NEW h \in Hooks, Ingest(h) PROVE ReqsTyped'
  BY <1>1, <1>9 DEF Ingest, Deliver, RemoveRow, EditRow, LinkOwn, CreateRow,
                    HookFails, crit
<1>10. CASE UNCHANGED vars
  BY <1>1, <1>10 DEF vars
<1> QED
  BY <1>6, <1>7, <1>8, <1>9, <1>10 DEF Next

-----------------------------------------------------------------------------
(* Deliveries.                                                             *)

(* What a delivery that has read may be about to write.                    *)
Reads(x) ==
    /\ x.pc # "idle" => x.note \in DOMAIN notes
    /\ x.pc \in {"remove", "edit", "link"} => x.row \in DOMAIN rows
    /\ x.pc = "edit" => x.action = "edited"
    /\ x.pc = "link" => CopyOf(x.note, x.row)
    /\ x.pc = "create" =>
          /\ CopyOf(x.note, None)
          /\ x.row # None => Root(x.row)
          /\ x.row = None => x.thread = notes[x.note].thread

HooksTyped == hook \in [Hooks -> Hook] /\ HooksRefer

LEMMA ReadsStay ==
  ASSUME TypeInv, Kept, NEW x \in Hook, Reads(x)
  PROVE  Reads(x)'
<1>1. x.pc # "idle" => x.note \in DOMAIN notes'
  BY DEF Kept, Reads
<1>2. x.pc \in {"remove", "edit", "link"} => x.row \in DOMAIN rows'
  BY DEF Kept, Reads
<1>3. x.pc = "link" => CopyOf(x.note, x.row)'
  BY KeptRefs DEF Reads
<1>4. x.pc = "create" =>
          /\ CopyOf(x.note, None)'
          /\ x.row # None => Root(x.row)'
          /\ x.row = None => x.thread = notes'[x.note].thread
  BY KeptRefs DEF Reads, Kept, CopyOf
<1> QED
  BY <1>1, <1>2, <1>3, <1>4 DEF Reads

LEMMA HookIs ==
  ASSUME TypeInv, Kept, NEW h \in Hooks, NEW x \in Hook, Reads(x),
         hook' = [hook EXCEPT ![h] = x]
  PROVE  HooksTyped'
<1>1. hook \in [Hooks -> Hook] /\ \A g \in Hooks : Reads(hook[g])
  BY HookFields DEF TypeInv, TypeOK, HookRefers, Reads
<1>2. hook' \in [Hooks -> Hook]
  BY <1>1
<1>3. ASSUME NEW g \in Hooks, NEW y, y = hook'[g] PROVE Reads(y)'
  BY <1>1, <1>3, ReadsStay
<1> QED
  BY <1>2, <1>3 DEF HooksTyped, HooksRefer, HookRefers, Reads

LEMMA DeliverReads ==
  ASSUME TypeInv, Kept, NEW h \in Hooks, NEW e \in events,
         NEW redis \in BOOLEAN, Deliver(h, e, redis)
  PROVE  hook' = hook \/ \E x \in Hook : /\ Reads(x)
                                         /\ hook' = [hook EXCEPT ![h] = x]
<1>1. PICK n, action : e = <<n, action>> /\ n \in DOMAIN notes
                       /\ action \in Actions
  BY DEF TypeInv, TypeOK
<1>2. n \in NoteIds /\ e[1] = n /\ e[2] = action /\ n # None
  BY <1>1, Notes
<1>3. ASSUME NEW pc \in {"remove", "edit", "link", "create"},
             NEW c \in RowIds \cup {None}, NEW t \in NoteIds \cup {None},
             Write(h, e, pc, c, t),
             NEW x, x = [pc |-> pc, note |-> n, action |-> action,
                         row |-> c, thread |-> t],
             Reads(x)
      PROVE  \E y \in Hook : Reads(y) /\ hook' = [hook EXCEPT ![h] = y]
  <2>1. x \in Hook
    BY <1>1, <1>2, <1>3 DEF Hook
  <2>2. hook' = [hook EXCEPT ![h] = x]
    BY <1>2, <1>3 DEF Write
  <2> QED
    BY <1>3, <2>1, <2>2
<1>4. ASSUME NEW c \in DOMAIN rows, rows[c].note = n, IngestKnown(h, e, c),
             hook' # hook
      PROVE  \E y \in Hook : Reads(y) /\ hook' = [hook EXCEPT ![h] = y]
  <2>1. c \in RowIds /\ None \in NoteIds \cup {None}
    BY Rows
  <2>2. CASE Write(h, e, "remove", c, None)
    <3>1. PICK x : x = [pc |-> "remove", note |-> n, action |-> action,
                        row |-> c, thread |-> None]
      OBVIOUS
    <3>2. Reads(x)
      BY <1>1, <3>1 DEF Reads
    <3> QED
      BY <1>3, <2>1, <2>2, <3>1, <3>2
  <2>3. CASE Write(h, e, "edit", c, None) /\ action = "edited"
    <3>1. PICK x : x = [pc |-> "edit", note |-> n, action |-> action,
                        row |-> c, thread |-> None]
      OBVIOUS
    <3>2. Reads(x)
      BY <1>1, <2>3, <3>1 DEF Reads
    <3> QED
      BY <1>3, <2>1, <2>3, <3>1, <3>2
  <2> QED
    BY <1>2, <1>4, <2>2, <2>3 DEF IngestKnown, TakesText
<1>5. ASSUME AuthorOf(n) # None, IngestOwn(h, e), hook' # hook
      PROVE  \E y \in Hook : Reads(y) /\ hook' = [hook EXCEPT ![h] = y]
  <2>1. PICK c : c = notes[n].of
    OBVIOUS
  <2>2. c \in DOMAIN rows /\ CopyOf(n, c)
    BY <1>1, <1>5, <2>1
       DEF AuthorOf, TypeInv, RefsInv, NotesRefer, Ours, CopyOf
  <2>3. c \in RowIds /\ None \in NoteIds \cup {None}
    BY <2>2, Rows
  <2>4. Write(h, e, "link", c, None)
    BY <1>2, <1>5, <2>1 DEF IngestOwn, AuthorOf
  <2>5. PICK x : x = [pc |-> "link", note |-> n, action |-> action,
                      row |-> c, thread |-> None]
    OBVIOUS
  <2>6. Reads(x)
    BY <1>1, <2>2, <2>5 DEF Reads
  <2> QED
    BY <1>3, <2>3, <2>4, <2>5, <2>6
<1>6. ASSUME AuthorOf(n) = None, ResolveThread(h, e)
      PROVE  \E y \in Hook : Reads(y) /\ hook' = [hook EXCEPT ![h] = y]
  <2>0. CopyOf(n, None) /\ notes[n].thread \in NoteIds \cup {None}
    BY <1>1, <1>6, NoteFields DEF AuthorOf, CopyOf
  <2>1. CASE Write(h, e, "create", None, notes[n].thread)
    <3>1. PICK x : x = [pc |-> "create", note |-> n, action |-> action,
                        row |-> None, thread |-> notes[n].thread]
      OBVIOUS
    <3>2. Reads(x)
      BY <1>1, <2>0, <3>1 DEF Reads
    <3> QED
      BY <1>3, <2>0, <2>1, <3>1, <3>2
  <2>2. ASSUME NEW key, key = ThreadKey(n), NEW c \in DOMAIN rows,
               Write(h, e, "create", RootOf(c),
                     IF rows[RootOf(c)].thread = None THEN key
                     ELSE rows[RootOf(c)].thread)
        PROVE  \E y \in Hook : Reads(y) /\ hook' = [hook EXCEPT ![h] = y]
    <3>1. PICK d : d = RootOf(c)
      OBVIOUS
    <3>2. Root(d) /\ d \in RowIds
      BY <3>1, Rows DEF RootOf, Root, TypeInv, RefsInv, RowsRefer
    <3>3. PICK t : t = IF rows[d].thread = None THEN key ELSE rows[d].thread
      OBVIOUS
    <3>4. t \in NoteIds \cup {None}
      BY <2>0, <2>2, <3>2, <3>3, RowFields DEF ThreadKey, Root
    <3>5. Write(h, e, "create", d, t)
      BY <2>2, <3>1, <3>3
    <3>6. PICK x : x = [pc |-> "create", note |-> n, action |-> action,
                        row |-> d, thread |-> t]
      OBVIOUS
    <3>7. Reads(x)
      BY <1>1, <2>0, <3>2, <3>6, Rows DEF Reads, Root
    <3> QED
      BY <1>3, <3>2, <3>4, <3>5, <3>6, <3>7
  <2>3. \/ Write(h, e, "create", None, notes[n].thread)
        \/ \E c \in DOMAIN rows :
              Write(h, e, "create", RootOf(c),
                    IF rows[RootOf(c)].thread = None THEN ThreadKey(n)
                    ELSE rows[RootOf(c)].thread)
    BY <1>2, <1>6 DEF ResolveThread, Anchors
  <2> QED
    BY <2>1, <2>2, <2>3
<1>7. \/ \E c \in DOMAIN rows : rows[c].note = n /\ IngestKnown(h, e, c)
      \/ hook' = hook
      \/ AuthorOf(n) # None /\ IngestOwn(h, e)
      \/ AuthorOf(n) = None /\ ResolveThread(h, e)
  BY <1>2 DEF Deliver
<1> QED
  BY <1>4, <1>5, <1>6, <1>7

LEMMA HooksStep ==
  ASSUME TypeInv, [Next]_vars
  PROVE  HooksTyped'
<1>0. Kept
  BY StepKeeps
<1>1. ASSUME hook' = hook PROVE HooksTyped'
  <2>1. hook \in [Hooks -> Hook] /\ \A g \in Hooks : Reads(hook[g])
    BY HookFields DEF TypeInv, TypeOK, HookRefers, Reads
  <2>2. ASSUME NEW g \in Hooks, NEW y, y = hook'[g] PROVE Reads(y)'
    BY <1>0, <1>1, <2>1, <2>2, ReadsStay
  <2> QED
    BY <1>1, <2>1, <2>2 DEF HooksTyped, HooksRefer, HookRefers, Reads
<1>2. ASSUME NEW h \in Hooks, Answer(h) PROVE HooksTyped'
  <2>1. Reads(NoHook)
    BY DEF NoHook, Reads
  <2> QED
    BY <1>0, <1>2, <2>1, Blanks, HookIs DEF Answer
<1>3. ASSUME NEW h \in Hooks, NEW e \in events, NEW redis \in BOOLEAN,
             Deliver(h, e, redis)
      PROVE  HooksTyped'
  BY <1>0, <1>1, <1>3, DeliverReads, HookIs
<1>4. ASSUME NEW h \in Hooks, Ingest(h) PROVE HooksTyped'
  BY <1>2, <1>3, <1>4
     DEF Ingest, RemoveRow, EditRow, LinkOwn, CreateRow, HookFails
<1>5. ASSUME NEW r \in Requests, Api(r) PROVE HooksTyped'
  BY <1>1, <1>5
     DEF Api, CreateComment, EnqueueSync, EnqueueThrows, MarkFailed,
         RetrySync, ApiCrash
<1>6. ASSUME NEW w \in Workers, Sync(w) PROVE HooksTyped'
  BY <1>1, <1>6
     DEF Sync, TakeJob, WaitForParent, Send, SendAnswerLost, SendFails,
         StoreIds, StoreFailure, StoreThrows, Stalled, WorkerDies
<1>7. ASSUME ProviderActs PROVE HooksTyped'
  BY <1>1, <1>7 DEF ProviderActs, WriteNote, ChangeNote
<1>8. CASE UNCHANGED vars
  BY <1>1, <1>8 DEF vars
<1> QED
  BY <1>4, <1>5, <1>6, <1>7, <1>8 DEF Next

-----------------------------------------------------------------------------
(* Rows, notes and what is left.                                           *)

LEMMA RowsReferStep ==
  ASSUME TypeInv, [Next]_vars
  PROVE  RowsRefer' /\ NotesRefer'
<1>0. Kept /\ RowsMove /\ NotesMove
  BY StepKeeps, RowsStep, NotesStep
<1>1. ASSUME NEW c \in DOMAIN rows', NEW p, p = rows'[c].parent, p # None
      PROVE  Root(p)'
  <2>1. CASE c \in DOMAIN rows
    <3>1. Root(p)
      BY <1>0, <1>1, <2>1 DEF Kept, TypeInv, RefsInv, RowsRefer
    <3> QED
      BY <1>0, <3>1, KeptRefs
  <2>2. CASE c \notin DOMAIN rows
    <3>1. NewRow(rows'[c])
      BY <1>0, <1>1, <2>2 DEF RowsMove, RowMoves
    <3>2. Root(p)
      BY <1>1, <3>1 DEF NewRow
    <3> QED
      BY <1>0, <3>2, KeptRefs
  <2> QED
    BY <2>1, <2>2
<1>2. ASSUME NEW n \in DOMAIN notes', NEW c, c = notes'[n].of, c # None
      PROVE  Ours(c)'
  <2>1. CASE n \in DOMAIN notes
    <3>1. Ours(c)
      BY <1>0, <1>2, <2>1 DEF Kept, TypeInv, RefsInv, NotesRefer
    <3> QED
      BY <1>0, <3>1, KeptRefs
  <2>2. CASE n \notin DOMAIN notes
    <3>1. PICK w \in Workers : CopyBy(w, notes'[n])
      BY <1>0, <1>2, <2>2 DEF NotesMove, NotesGrow
    <3>2. Ours(c)
      BY <1>2, <3>1, Executing DEF CopyBy
    <3> QED
      BY <1>0, <3>2, KeptRefs
  <2> QED
    BY <2>1, <2>2
<1> QED
  BY <1>1, <1>2 DEF RowsRefer, NotesRefer

Counts == [deliveries : 0..MaxDeliveries, retries : 0..MaxRetries,
           faults : [RowIds -> Nat], outages : Nat]

RestTyped ==
    /\ place \in Places
    /\ events \subseteq (DOMAIN notes) \X Actions
    /\ claimed \subseteq events
    /\ count \in Counts
    /\ abandoned \subseteq RowIds

LEMMA Counted ==
  ASSUME TypeInv
  PROVE  /\ \A c \in RowIds : Fault(c) => count' \in Counts
         /\ Outage => count' \in Counts
         /\ \A r \in Requests, c \in RowIds :
               RetrySync(r, c) => count' \in Counts
         /\ \A h \in Hooks, e \in events, redis \in BOOLEAN :
               Deliver(h, e, redis) => count' \in Counts
<1>0. PICK counts \in Counts : counts = count
  BY DEF TypeInv, TypeOK, Counts
<1>1. ASSUME NEW c \in RowIds, Fault(c) PROVE count' \in Counts
  <2>1. PICK faults : faults = [counts.faults EXCEPT ![c] = @ + 1]
    OBVIOUS
  <2>2. faults \in [RowIds -> Nat]
    BY <2>1 DEF Counts
  <2>3. count' = [counts EXCEPT !.faults = faults]
    BY <1>0, <1>1, <2>1 DEF Fault
  <2> QED
    BY <2>2, <2>3 DEF Counts
<1>2. ASSUME Outage PROVE count' \in Counts
  BY <1>0, <1>2 DEF Outage, Counts
<1>3. ASSUME NEW r \in Requests, NEW c \in RowIds, RetrySync(r, c)
      PROVE  count' \in Counts
  BY <1>0, <1>3 DEF RetrySync, Counts
<1>4. ASSUME NEW h \in Hooks, NEW e \in events, NEW redis \in BOOLEAN,
             Deliver(h, e, redis)
      PROVE  count' \in Counts
  <2>1. PICK outages : outages = IF redis THEN counts.outages
                                 ELSE counts.outages + 1
    OBVIOUS
  <2>2. outages \in Nat
    BY <2>1 DEF Counts
  <2>3. counts.deliveries < MaxDeliveries
    BY <1>0, <1>4 DEF Deliver
  <2>4. PICK more \in 0..MaxDeliveries : more = counts.deliveries + 1
    BY <2>3 DEF Counts
  <2>5. count' = [counts EXCEPT !.deliveries = more, !.outages = outages]
    BY <1>0, <1>4, <2>1, <2>4 DEF Deliver
  <2> QED
    BY <2>2, <2>5 DEF Counts
<1> QED
  BY <1>1, <1>2, <1>3, <1>4

LEMMA RestStep ==
  ASSUME TypeInv, [Next]_vars
  PROVE  RestTyped'
<1>0. /\ Kept /\ count \in Counts /\ abandoned \subseteq RowIds
      /\ place' \in Places
      /\ events \subseteq (DOMAIN notes) \X Actions /\ claimed \subseteq events
      /\ events \subseteq (DOMAIN notes') \X Actions
  BY StepKeeps DEF Kept, TypeInv, TypeOK, Counts
<1>1. ASSUME NEW r \in Requests, Api(r) PROVE RestTyped'
  <2>1. events' = events /\ claimed' = claimed
    BY <1>1 DEF Api, CreateComment, EnqueueSync, EnqueueThrows, MarkFailed,
                RetrySync, ApiCrash, prov
  <2>2. count' \in Counts
    BY <1>0, <1>1, Counted
       DEF Api, CreateComment, EnqueueSync, EnqueueThrows, MarkFailed,
           ApiCrash
  <2>3. abandoned' \subseteq RowIds
    <3>1. CASE ApiCrash(r)
      BY <1>0, <3>1, ReqFields DEF ApiCrash
    <3>2. CASE ~ApiCrash(r)
      BY <1>0, <1>1, <3>2
         DEF Api, CreateComment, EnqueueSync, EnqueueThrows, MarkFailed,
             RetrySync
    <3> QED
      BY <3>1, <3>2
  <2> QED
    BY <1>0, <2>1, <2>2, <2>3 DEF RestTyped, Counts
<1>2. ASSUME NEW w \in Workers, Sync(w) PROVE RestTyped'
  <2>1. claimed' = claimed
    BY <1>2 DEF Sync, TakeJob, WaitForParent, Send, SendAnswerLost,
                SendFails, StoreIds, StoreFailure, StoreThrows, Stalled,
                WorkerDies
  <2>2. \/ events' = events
        \/ PostCopy(w) /\ events' = events \cup {<<Len(notes) + 1, "created">>}
    BY <1>2 DEF Sync, TakeJob, WaitForParent, Send, SendAnswerLost, PostCopy,
                SendFails, StoreIds, StoreFailure, StoreThrows, Stalled,
                WorkerDies, prov
  <2>3. /\ events' \subseteq (DOMAIN notes') \X Actions
        /\ events \subseteq events'
    BY <1>0, <2>2, PostedCopy DEF Actions
  <2>4. exec[w].job[1] \in RowIds
    BY ExecFields DEF RowOf
  <2>5. count' \in Counts
    BY <1>0, <1>2, <2>4, Counted
       DEF Sync, TakeJob, WaitForParent, Send, SendAnswerLost, SendFails,
           StoreIds, StoreFailure, StoreThrows, Stalled, WorkerDies, RowOf
  <2>6. abandoned' \subseteq RowIds
    BY <1>0, <1>2, <2>4
       DEF Sync, TakeJob, WaitForParent, Send, SendAnswerLost, SendFails,
           StoreIds, StoreFailure, StoreThrows, Stalled, WorkerDies, RowOf
  <2> QED
    BY <1>0, <2>1, <2>3, <2>5, <2>6 DEF RestTyped, Counts
<1>3. ASSUME ProviderActs PROVE RestTyped'
  <2>1. claimed' = claimed /\ count' = count /\ abandoned' = abandoned
    BY <1>3 DEF ProviderActs, WriteNote, ChangeNote, crit
  <2>2. /\ events' \subseteq (DOMAIN notes') \X Actions
        /\ events \subseteq events'
    <3>1. ASSUME NEW n \in NoteIds, NEW action \in {"edited", "deleted"},
                 ChangeNote(n, action)
          PROVE  /\ events' \subseteq (DOMAIN notes') \X Actions
                 /\ events \subseteq events'
      BY <1>0, <3>1 DEF ChangeNote, Actions
    <3>2. ASSUME NEW t \in NoteIds \cup {None}, WriteNote(t)
          PROVE  /\ events' \subseteq (DOMAIN notes') \X Actions
                 /\ events \subseteq events'
      <4>1. PICK x : x = [of |-> None,
                          thread |-> IF t = None /\ Threaded
                                     THEN Len(notes) + 1 ELSE t]
        OBVIOUS
      <4>2. notes' = Append(notes, x) /\ Len(notes) + 1 <= MaxNotes
        BY <3>2, <4>1 DEF WriteNote
      <4>3. x \in Note
        BY <4>1, <4>2, Notes DEF Note, NoteIds
      <4>4. notes \in Seq(Note)
        BY DEF TypeInv, TypeOK
      <4>5. notes' \in Seq(Note) /\ Len(notes') = Len(notes) + 1
        BY <4>2, <4>3, <4>4, AppendProperties
      <4>6. Len(notes) + 1 \in DOMAIN notes'
        BY <4>5, LenProperties, Notes
      <4> QED
        BY <1>0, <3>2, <4>6 DEF WriteNote, Actions
    <3> QED
      BY <1>3, <3>1, <3>2 DEF ProviderActs
  <2> QED
    BY <1>0, <2>1, <2>2 DEF RestTyped, Counts
<1>4. ASSUME NEW h \in Hooks, Ingest(h) PROVE RestTyped'
  <2>1. events' = events /\ abandoned' = abandoned
    BY <1>4 DEF Ingest, Deliver, RemoveRow, EditRow, LinkOwn, CreateRow,
                HookFails, prov, crit
  <2>2. claimed' \subseteq events
    BY <1>0, <1>4 DEF Ingest, Deliver, RemoveRow, EditRow, LinkOwn,
                      CreateRow, HookFails
  <2>3. count' \in Counts
    BY <1>0, <1>4, Counted
       DEF Ingest, RemoveRow, EditRow, LinkOwn, CreateRow, HookFails
  <2> QED
    BY <1>0, <2>1, <2>2, <2>3 DEF RestTyped, Counts
<1>5. CASE UNCHANGED vars
  BY <1>0, <1>5 DEF vars, RestTyped, Counts
<1> QED
  BY <1>1, <1>2, <1>3, <1>4, <1>5 DEF Next

LEMMA StepType ==
  ASSUME TypeInv, [Next]_vars
  PROVE  TypeInv'
<1>1. RowsMove /\ NotesMove /\ RowsRefer' /\ NotesRefer'
  BY RowsStep, NotesStep, RowsReferStep
<1>2. JobsTyped' /\ ExecsTyped'
  BY JobsStep, ExecsStep
<1>3. ReqsTyped' /\ HooksTyped' /\ RestTyped'
  BY ReqsStep, HooksStep, RestStep
<1>4. TypeOK'
  BY <1>1, <1>2, <1>3
     DEF RowsMove, NotesMove, JobsTyped, ExecsTyped, ReqsTyped, HooksTyped,
         RestTyped, Counts, TypeOK
<1>5. RefsInv'
  BY <1>1, <1>2, <1>3
     DEF JobsTyped, ExecsTyped, ReqsTyped, HooksTyped, RefsInv
<1> QED
  BY <1>4, <1>5 DEF TypeInv

LEMMA InitType == Init => TypeInv
<1> SUFFICES ASSUME Init PROVE TypeInv
  OBVIOUS
<1>1. rows \in Seq(Row) /\ Len(rows) = 0 /\ DOMAIN rows = {}
  BY EmptySeq DEF Init
<1>2. notes \in Seq(Note) /\ Len(notes) = 0 /\ DOMAIN notes = {}
  BY EmptySeq DEF Init
<1>3. TypeOK
  BY <1>1, <1>2, Blanks DEF Init, TypeOK
<1>4. /\ \A k \in JobIds : job[k].pc = "none"
      /\ \A r \in Requests : req[r].pc = "idle"
      /\ \A w \in Workers : exec[w].pc = "idle"
      /\ \A h \in Hooks : hook[h].pc = "idle"
  BY DEF Init, NoJob, NoRequest, NoExecution, NoHook
<1>5. RefsInv
  BY <1>1, <1>2, <1>4
     DEF RefsInv, RowsRefer, NotesRefer, JobsRefer, ReqsRefer, ExecsRefer,
         HooksRefer, HookRefers
<1> QED
  BY <1>3, <1>5 DEF TypeInv

(* The types of CommentSync's variables, and that every job, execution,    *)
(* request and delivery is about a row and a note that are there.          *)
THEOREM TypeCorrect == Spec => []TypeInv
<1>1. Init => TypeInv
  BY InitType
<1>2. TypeInv /\ [Next]_vars => TypeInv'
  BY StepType
<1> QED
  BY <1>1, <1>2, PTL DEF Spec

(* ingest's comment: a `created` that comes late, the echo of Critiq's own *)
(* comment included, never overwrites the text of an edit.  A delivery     *)
(* about to write a text has read that it was edited.                      *)
THEOREM EditsAreKept == Spec => EditsStay
<1>1. TypeInv /\ [Next]_vars =>
        [\A c \in DOMAIN rows : rows[c].edited => rows'[c].edited]_vars
  BY StepKeeps DEF Kept
<1> QED
  BY <1>1, TypeCorrect, PTL DEF Spec, EditsStay

-----------------------------------------------------------------------------
(* One row per note.  A row that is linked to a note is the one the note   *)
(* names, and what is not linked yet cannot be linked twice: the unique    *)
(* key refuses it whoever comes second, the worker or the echo.            *)

AuthorIs(c) == IF rows[c].origin = "CRITIQ" THEN c ELSE None

Linked ==
    \A c \in DOMAIN rows :
        rows[c].note # None => CopyOf(rows[c].note, AuthorIs(c))

Unique ==
    \A c, d \in DOMAIN rows :
        rows[c].note # None /\ rows[d].note = rows[c].note => d = c

LinkInv == Linked /\ Unique

LEMMA LinkedStep ==
  ASSUME TypeInv, Linked, [Next]_vars
  PROVE  Linked'
<1>0. Kept /\ RowsMove
  BY StepKeeps, RowsStep
<1> SUFFICES ASSUME NEW c \in DOMAIN rows', NEW n, n = rows'[c].note,
                    n # None, NEW a,
                    a = IF rows'[c].origin = "CRITIQ" THEN c ELSE None
             PROVE  CopyOf(n, a)'
  BY DEF Linked, AuthorIs
<1>1. ASSUME CopyOf(n, a) PROVE CopyOf(n, a)'
  BY <1>0, <1>1, KeptRefs
<1>2. ASSUME c \in DOMAIN rows, rows[c].note = n PROVE CopyOf(n, a)
  BY <1>0, <1>2 DEF Linked, AuthorIs, Kept
<1>3. ASSUME c \in DOMAIN rows, CopyOf(n, c) PROVE CopyOf(n, a)
  <2>1. rows[c].origin = "CRITIQ"
    BY <1>3, Rows DEF CopyOf, TypeInv, RefsInv, NotesRefer, Ours
  <2> QED
    BY <1>0, <1>3, <2>1 DEF Kept
<1>4. ASSUME c \notin DOMAIN rows, NewRow(rows'[c]) PROVE CopyOf(n, a)
  BY <1>4 DEF NewRow
<1> QED
  BY <1>0, <1>1, <1>2, <1>3, <1>4 DEF RowsMove, RowMoves, ChangedRow

LEMMA UniqueStep ==
  ASSUME TypeInv, LinkInv, [Next]_vars
  PROVE  Unique'
<1>0. Kept /\ RowsMove
  BY StepKeeps, RowsStep
<1>1. CASE rows' = rows
  BY <1>1 DEF LinkInv, Unique
<1>2. ASSUME NEW m \in DOMAIN rows', RowMoves(m) PROVE Unique'
  <2>1. ASSUME NEW c \in DOMAIN rows', NEW d \in DOMAIN rows',
               rows'[c].note # None, rows'[d].note = rows'[c].note,
               c # m, d # m
        PROVE  d = c
    BY <1>2, <2>1 DEF RowMoves, LinkInv, Unique
  <2>2. ASSUME NEW d \in DOMAIN rows', d # m,
               rows'[m].note # None, rows'[d].note = rows'[m].note
        PROVE  FALSE
    <3>1. d \in DOMAIN rows /\ rows[d].note = rows'[m].note
      BY <1>2, <2>2 DEF RowMoves
    <3>2. CASE m \in DOMAIN rows /\ ChangedRow(m, rows'[m])
      <4>1. rows'[m].note # rows[m].note
        BY <2>2, <3>1, <3>2 DEF LinkInv, Unique
      <4>2. ~NoteTaken(rows'[m].note, m)
        BY <3>2, <4>1 DEF ChangedRow
      <4> QED
        BY <2>2, <3>1, <4>2 DEF NoteTaken
    <3>3. CASE m \notin DOMAIN rows /\ NewRow(rows'[m])
      <4>1. ~NoteTaken(rows'[m].note, None)
        BY <2>2, <3>3 DEF NewRow
      <4> QED
        BY <3>1, <4>1, Rows DEF NoteTaken
    <3> QED
      BY <1>2, <3>2, <3>3 DEF RowMoves
  <2>3. ASSUME NEW c \in DOMAIN rows', NEW d \in DOMAIN rows',
               rows'[c].note # None, rows'[d].note = rows'[c].note
        PROVE  d = c
    BY <2>1, <2>2, <2>3
  <2> QED
    BY <2>3 DEF Unique
<1> QED
  BY <1>0, <1>1, <1>2 DEF RowsMove

LEMMA LinkInit == Init => LinkInv
<1> SUFFICES ASSUME Init PROVE LinkInv
  OBVIOUS
<1>1. DOMAIN rows = {}
  BY EmptySeq DEF Init
<1> QED
  BY <1>1 DEF LinkInv, Linked, Unique

LEMMA LinkCorrect == Spec => []LinkInv
<1>1. Init => LinkInv
  BY LinkInit
<1>2. TypeInv /\ LinkInv /\ [Next]_vars => LinkInv'
  BY LinkedStep, UniqueStep DEF LinkInv
<1> QED
  BY <1>1, <1>2, TypeCorrect, PTL DEF Spec

(* A comment is one comment on both sides: two rows never stand for one    *)
(* note, and a row is linked to nothing but a copy of its own, whatever    *)
(* order the worker's ids, the echo and other deliveries come in.          *)
THEOREM NotesHaveOneRow == Spec => []OneRowPerNote
<1>1. LinkInv => OneRowPerNote
  BY DEF LinkInv, Linked, Unique, AuthorIs, CopyOf, OneRowPerNote
<1> QED
  BY <1>1, LinkCorrect, PTL

-----------------------------------------------------------------------------
(* Replies.  A root of Critiq's has no thread but the one a copy of it     *)
(* began, a root of the provider's the one of its note; a reply takes its  *)
(* parent's when its job is taken, and that one cannot become wrong.       *)

InThreadOf(t, p) ==
    IF rows[p].origin = "CRITIQ" THEN CopyOf(t, p)
    ELSE t = notes[rows[p].note].thread

ThreadsOfRoots ==
    \A c \in DOMAIN rows : rows[c].parent = None =>
        IF rows[c].origin = "CRITIQ"
        THEN rows[c].thread # None => CopyOf(rows[c].thread, c)
        ELSE /\ rows[c].note \in DOMAIN notes
             /\ rows[c].thread = notes[rows[c].note].thread

(* A new comment on the provider begins a thread where there are threads.  *)
CopiesOfRoots ==
    \A n \in DOMAIN notes :
        LET c == notes[n].of
        IN  c # None /\ rows[c].parent = None =>
                notes[n].thread = IF Threaded THEN n ELSE None

RepliesHeading ==
    \A w \in Workers :
        LET p == rows[RowOf(w)].parent
        IN  exec[w].pc = "send" /\ exec[w].thread # None /\ p # None =>
                InThreadOf(exec[w].thread, p)

RepliesPosted ==
    \A n \in DOMAIN notes :
        LET c == notes[n].of
        IN  c # None /\ Threaded /\ rows[c].parent # None =>
                InThreadOf(notes[n].thread, rows[c].parent)

ThreadInv == /\ ThreadsOfRoots /\ CopiesOfRoots
             /\ RepliesHeading /\ RepliesPosted

LEMMA InThreadStays ==
  ASSUME TypeInv, ThreadsOfRoots, Kept, NEW t, NEW p, Root(p),
         InThreadOf(t, p)
  PROVE  InThreadOf(t, p)'
<1>1. CASE rows[p].origin = "CRITIQ"
  BY <1>1, KeptRefs DEF InThreadOf, Kept, Root
<1>2. CASE rows[p].origin = "PROVIDER"
  <2>1. rows[p].note \in DOMAIN notes
    BY <1>2 DEF ThreadsOfRoots, Root
  <2> QED
    BY <1>2, <2>1 DEF InThreadOf, Kept, Root
<1> QED
  BY <1>1, <1>2, RowFields DEF Root

LEMMA ThreadsOfRootsStep ==
  ASSUME TypeInv, ThreadInv, [Next]_vars
  PROVE  ThreadsOfRoots'
<1>0. Kept /\ RowsMove
  BY StepKeeps, RowsStep
<1> SUFFICES ASSUME NEW c \in DOMAIN rows', rows'[c].parent = None,
                    NEW t, t = rows'[c].thread
             PROVE  IF rows'[c].origin = "CRITIQ"
                    THEN t # None => CopyOf(t, c)'
                    ELSE /\ rows'[c].note \in DOMAIN notes'
                         /\ t = notes'[rows'[c].note].thread
  BY DEF ThreadsOfRoots
<1>1. CASE c \notin DOMAIN rows /\ NewRow(rows'[c])
  BY <1>0, <1>1 DEF NewRow, CopyOf, Kept
<1>2. ASSUME c \in DOMAIN rows, rows'[c].origin = "PROVIDER"
      PROVE  /\ rows'[c].note \in DOMAIN notes'
             /\ t = notes'[rows'[c].note].thread
  BY <1>0, <1>2 DEF Kept, ThreadInv, ThreadsOfRoots
<1>3. ASSUME c \in DOMAIN rows, rows'[c].origin = "CRITIQ", t # None
      PROVE  CopyOf(t, c)
  <2>1. CASE t = rows[c].thread
    BY <1>0, <1>3, <2>1 DEF Kept, ThreadInv, ThreadsOfRoots
  <2>2. CASE t # rows[c].thread
    <3>1. PICK n : CopyOf(n, c) /\ t = notes[n].thread
      BY <1>0, <1>3, <2>2 DEF RowsMove, RowMoves, ChangedRow
    <3>2. t = n
      BY <1>0, <1>3, <3>1, Rows DEF Kept, CopyOf, ThreadInv, CopiesOfRoots
    <3> QED
      BY <3>1, <3>2
  <2> QED
    BY <2>1, <2>2
<1>4. CASE c \in DOMAIN rows
  BY <1>0, <1>2, <1>3, <1>4, RowFields, KeptRefs DEF Kept
<1> QED
  BY <1>0, <1>1, <1>4 DEF RowsMove, RowMoves

LEMMA CopiesOfRootsStep ==
  ASSUME TypeInv, ThreadInv, [Next]_vars
  PROVE  CopiesOfRoots'
<1>0. Kept /\ NotesMove /\ Threaded' = Threaded
  BY StepKeeps, NotesStep, KeptRefs
<1> SUFFICES ASSUME NEW n \in DOMAIN notes', NEW c, c = notes'[n].of,
                    c # None, rows'[c].parent = None
             PROVE  notes'[n].thread = IF Threaded THEN n ELSE None
  BY <1>0 DEF CopiesOfRoots
<1>1. CASE n \in DOMAIN notes
  <2>1. Ours(c) /\ notes[n].of = c /\ notes'[n] = notes[n]
    BY <1>0, <1>1 DEF Kept, TypeInv, RefsInv, NotesRefer
  <2>2. rows[c].parent = None
    BY <1>0, <2>1 DEF Kept, Ours
  <2> QED
    BY <1>1, <2>1, <2>2 DEF ThreadInv, CopiesOfRoots
<1>2. CASE n \notin DOMAIN notes
  <2>1. n = Len(notes) + 1 /\ \E w \in Workers : CopyBy(w, notes'[n])
    BY <1>0, <1>2 DEF NotesMove, NotesGrow
  <2>2. PICK w \in Workers : CopyBy(w, notes'[n])
    BY <2>1
  <2>3. c = RowOf(w) /\ Ours(c)
    BY <2>2, Executing DEF CopyBy
  <2>4. ~IsReply(c)
    BY <1>0, <2>3 DEF Kept, Ours, IsReply
  <2> QED
    BY <2>1, <2>2, <2>3, <2>4 DEF CopyBy, CopyThread
<1> QED
  BY <1>1, <1>2

LEMMA RepliesPostedStep ==
  ASSUME TypeInv, ThreadInv, [Next]_vars
  PROVE  RepliesPosted'
<1>0. Kept /\ NotesMove /\ Threaded' = Threaded
  BY StepKeeps, NotesStep, KeptRefs
<1> SUFFICES ASSUME NEW n \in DOMAIN notes', NEW c, c = notes'[n].of,
                    c # None, Threaded, NEW p, p = rows'[c].parent, p # None,
                    NEW t, t = notes'[n].thread
             PROVE  InThreadOf(t, p)'
  BY <1>0 DEF RepliesPosted
<1>1. ASSUME Ours(c), InThreadOf(t, p) PROVE InThreadOf(t, p)'
  <2>1. Root(p)
    BY <1>0, <1>1 DEF Kept, Ours, TypeInv, RefsInv, RowsRefer
  <2> QED
    BY <1>0, <1>1, <2>1, InThreadStays DEF ThreadInv
<1>2. CASE n \in DOMAIN notes
  <2>1. Ours(c) /\ notes[n].of = c /\ notes'[n] = notes[n]
    BY <1>0, <1>2 DEF Kept, TypeInv, RefsInv, NotesRefer
  <2>2. rows[c].parent = p
    BY <1>0, <2>1 DEF Kept, Ours
  <2> QED
    BY <1>1, <1>2, <2>1, <2>2 DEF ThreadInv, RepliesPosted
<1>3. CASE n \notin DOMAIN notes
  <2>1. PICK w \in Workers : CopyBy(w, notes'[n])
    BY <1>0, <1>3 DEF NotesMove, NotesGrow
  <2>2. c = RowOf(w) /\ Ours(c)
    BY <2>1, Executing DEF CopyBy
  <2>3. rows[c].parent = p
    BY <1>0, <2>2 DEF Kept, Ours
  <2>4. t = exec[w].thread /\ t # None
    BY <2>1, <2>2, <2>3 DEF CopyBy, CopyThread, ParentNotSynced, IsReply
  <2>5. InThreadOf(t, p)
    BY <2>1, <2>2, <2>3, <2>4 DEF CopyBy, ThreadInv, RepliesHeading
  <2> QED
    BY <1>1, <2>2, <2>5
<1> QED
  BY <1>2, <1>3

(* An execution about to send was so before, or has just taken its job.    *)
LEMMA SendingFrom ==
  ASSUME TypeInv, [Next]_vars, NEW w \in Workers, exec'[w].pc = "send"
  PROVE  \/ /\ exec[w].pc = "send" /\ exec'[w].job = exec[w].job
            /\ exec'[w].thread = exec[w].thread
         \/ \E k \in JobIds : TakeJob(w, k) /\ exec' # exec
<1>0. exec \in [Workers -> Execution]
  BY DEF TypeInv, TypeOK
<1>1. ASSUME exec' = exec
      PROVE  /\ exec[w].pc = "send" /\ exec'[w].job = exec[w].job
             /\ exec'[w].thread = exec[w].thread
  BY <1>1
<1>2. ASSUME NEW v \in Workers, NEW x, exec' = [exec EXCEPT ![v] = x],
             x.pc # "send"
      PROVE  exec'[w] = exec[w]
  BY <1>0, <1>2
<1>3. ASSUME NEW v \in Workers, EndJob(v) \/ Throw(v) \/ WorkerDies(v)
      PROVE  exec'[w] = exec[w]
  BY <1>2, <1>3, Blanks DEF EndJob, Throw, WorkerDies
<1>4. ASSUME NEW v \in Workers, NEW retryable \in BOOLEAN,
             SendFailed(v, retryable)
      PROVE  exec'[w] = exec[w]
  <2>1. [exec[v] EXCEPT !.pc = "fail"].pc = "fail"
    BY ExecFields DEF Execution
  <2> QED
    BY <1>2, <1>3, <1>4, <2>1 DEF SendFailed
<1>5. ASSUME NEW v \in Workers, Send(v) PROVE exec'[w] = exec[w]
  <2>1. PICK x : x = [exec[v] EXCEPT !.pc = "store", !.note = Len(notes) + 1]
    OBVIOUS
  <2>2. x.pc = "store"
    BY <2>1, ExecFields DEF Execution
  <2>3. exec' = [exec EXCEPT ![v] = x]
    BY <1>5, <2>1 DEF Send
  <2> QED
    BY <1>2, <2>2, <2>3
<1>6. ASSUME NEW v \in Workers, Stalled(v)
      PROVE  /\ exec[w].pc = "send" /\ exec'[w].job = exec[w].job
             /\ exec'[w].thread = exec[w].thread
  <2>1. PICK x : x = [exec[v] EXCEPT !.owner = FALSE]
    OBVIOUS
  <2>2. /\ x.pc = exec[v].pc /\ x.job = exec[v].job
        /\ x.thread = exec[v].thread
    BY <2>1, ExecFields DEF Execution
  <2>3. exec' = [exec EXCEPT ![v] = x]
    BY <1>6, <2>1 DEF Stalled
  <2> QED
    BY <1>0, <2>2, <2>3
<1>7. ASSUME NEW v \in Workers, NEW k \in JobIds, TakeJob(v, k), v # w
      PROVE  exec'[w] = exec[w]
  BY <1>0, <1>7 DEF TakeJob
<1>8. ASSUME NEW v \in Workers, Sync(v)
      PROVE  \/ /\ exec[w].pc = "send" /\ exec'[w].job = exec[w].job
                /\ exec'[w].thread = exec[w].thread
             \/ \E k \in JobIds : TakeJob(w, k) /\ exec' # exec
  BY <1>1, <1>3, <1>4, <1>5, <1>6, <1>7, <1>8
     DEF Sync, WaitForParent, SendAnswerLost, SendFails, StoreIds,
         StoreFailure, StoreThrows
<1>9. ASSUME NEW r \in Requests, Api(r) PROVE exec' = exec
  BY <1>9 DEF Api, CreateComment, EnqueueSync, EnqueueThrows, MarkFailed,
              RetrySync, ApiCrash
<1>10. ASSUME ProviderActs PROVE exec' = exec
  BY <1>10 DEF ProviderActs, WriteNote, ChangeNote, crit
<1>11. ASSUME NEW h \in Hooks, Ingest(h) PROVE exec' = exec
  BY <1>11 DEF Ingest, Deliver, RemoveRow, EditRow, LinkOwn, CreateRow,
               HookFails, crit
<1>12. CASE UNCHANGED vars
  BY <1>1, <1>12 DEF vars
<1> QED
  BY <1>1, <1>8, <1>9, <1>10, <1>11, <1>12 DEF Next

LEMMA RepliesHeadingStep ==
  ASSUME TypeInv, ThreadInv, [Next]_vars
  PROVE  RepliesHeading'
<1>0. Kept
  BY StepKeeps
<1> SUFFICES ASSUME NEW w \in Workers, exec'[w].pc = "send",
                    NEW t, t = exec'[w].thread, t # None,
                    NEW c, c = exec'[w].job[1],
                    NEW p, p = rows'[c].parent, p # None
             PROVE  InThreadOf(t, p)'
  BY DEF RepliesHeading, RowOf
<1>1. ASSUME Ours(c), InThreadOf(t, p) PROVE InThreadOf(t, p)'
  <2>1. Root(p)
    BY <1>0, <1>1 DEF Kept, Ours, TypeInv, RefsInv, RowsRefer
  <2> QED
    BY <1>0, <1>1, <2>1, InThreadStays DEF ThreadInv
<1>2. CASE /\ exec[w].pc = "send" /\ exec'[w].job = exec[w].job
           /\ exec'[w].thread = exec[w].thread
  <2>1. Ours(c) /\ c = RowOf(w)
    BY <1>2, Executing DEF RowOf
  <2>2. rows[c].parent = p
    BY <1>0, <2>1 DEF Kept, Ours
  <2> QED
    BY <1>1, <1>2, <2>1, <2>2 DEF ThreadInv, RepliesHeading
<1>3. ASSUME NEW k \in JobIds, TakeJob(w, k), exec' # exec
      PROVE  InThreadOf(t, p)'
  <2>1. PICK q : q = rows[k[1]].parent
    OBVIOUS
  <2>2. PICK u : u = IF q = None THEN None ELSE rows[q].thread
    OBVIOUS
  <2>3. exec' = [exec EXCEPT ![w] = [NoExecution EXCEPT !.pc = "send",
                   !.job = k, !.owner = TRUE, !.thread = u]]
    BY <1>3, <2>1, <2>2 DEF TakeJob
  <2>4. exec \in [Workers -> Execution]
    BY DEF TypeInv, TypeOK
  <2>5. c = k[1] /\ t = u
    BY <2>3, <2>4 DEF NoExecution
  <2>6. Ours(c)
    BY <1>3, <2>5 DEF TakeJob, TypeInv, RefsInv, JobsRefer
  <2>7. p = q /\ Root(p)
    BY <1>0, <2>1, <2>5, <2>6
       DEF Kept, Ours, TypeInv, RefsInv, RowsRefer
  <2>8. InThreadOf(t, p)
    BY <2>2, <2>5, <2>7 DEF ThreadInv, ThreadsOfRoots, InThreadOf, Root
  <2> QED
    BY <1>1, <2>6, <2>8
<1> QED
  BY <1>2, <1>3, SendingFrom

LEMMA ThreadInit == Init => ThreadInv
<1> SUFFICES ASSUME Init PROVE ThreadInv
  OBVIOUS
<1>1. DOMAIN rows = {} /\ DOMAIN notes = {}
  BY EmptySeq DEF Init
<1>2. \A w \in Workers : exec[w].pc = "idle"
  BY DEF Init, NoExecution
<1> QED
  BY <1>1, <1>2 DEF ThreadInv, ThreadsOfRoots, CopiesOfRoots, RepliesHeading,
                    RepliesPosted

LEMMA ThreadCorrect == Spec => []ThreadInv
<1>1. Init => ThreadInv
  BY ThreadInit
<1>2. TypeInv /\ ThreadInv /\ [Next]_vars => ThreadInv'
  BY ThreadsOfRootsStep, CopiesOfRootsStep, RepliesHeadingStep,
     RepliesPostedStep
     DEF ThreadInv
<1> QED
  BY <1>1, <1>2, TypeCorrect, PTL DEF Spec

(* A reply is posted in the thread of its parent, however long that one's  *)
(* id takes and whatever links to it first; never on its own.              *)
THEOREM RepliesAreThreaded == Spec => []RepliesJoinTheirThread
<1>1. ThreadInv => RepliesJoinTheirThread
  BY DEF ThreadInv, RepliesPosted, InThreadOf, CopyOf, RepliesJoinTheirThread
<1> QED
  BY <1>1, ThreadCorrect, PTL

-----------------------------------------------------------------------------
(* Work left.                                                              *)

WorkLeft(c) ==
    \/ \E r \in Requests : /\ req[r].job[1] = c
                           /\ req[r].pc \in {"enqueue", "mark"}
    \/ \E k \in JobIds : k[1] = c /\ job[k].pc \in {"waiting", "taken"}

(* Steps of one request, and of one job: the work of the other rows stays, *)
(* that of its own row too unless the request or the job ends.             *)
LEMMA ReqWork ==
  ASSUME TypeInv, NEW c, WorkLeft(c), NEW r \in Requests, NEW x,
         req' = [req EXCEPT ![r] = x], job' = job,
         \/ c # req[r].job[1] \/ req[r].pc = "idle"
         \/ x.job = req[r].job /\ x.pc \in {"enqueue", "mark"}
  PROVE  WorkLeft(c)'
<1>1. req \in [Requests -> Request]
  BY DEF TypeInv, TypeOK
<1>2. ASSUME NEW q \in Requests, req[q].job[1] = c,
             req[q].pc \in {"enqueue", "mark"}
      PROVE  req'[q].job[1] = c /\ req'[q].pc \in {"enqueue", "mark"}
  BY <1>1, <1>2
<1> QED
  BY <1>2 DEF WorkLeft

LEMMA JobWork ==
  ASSUME TypeInv, NEW c, WorkLeft(c), NEW k \in JobIds, NEW x,
         job' = [job EXCEPT ![k] = x], req' = req,
         c # k[1] \/ x.pc \in {"waiting", "taken"}
  PROVE  WorkLeft(c)'
<1>1. job \in [JobIds -> Job]
  BY DEF TypeInv, TypeOK
<1>2. ASSUME NEW j \in JobIds, j[1] = c, job[j].pc \in {"waiting", "taken"}
      PROVE  job'[j].pc \in {"waiting", "taken"}
  BY <1>1, <1>2
<1> QED
  BY <1>2 DEF WorkLeft

LEMMA SameWork ==
  ASSUME NEW c, WorkLeft(c), req' = req, job' = job
  PROVE  WorkLeft(c)'
  BY DEF WorkLeft

(* A new row, and the others.                                              *)
LEMMA AddedRow ==
  ASSUME TypeInv, NEW x \in Row, rows' = Append(rows, x)
  PROVE  /\ DOMAIN rows' = DOMAIN rows \cup {Len(rows) + 1}
         /\ Len(rows) + 1 \notin DOMAIN rows
         /\ rows'[Len(rows) + 1] = x
         /\ \A c \in DOMAIN rows : rows'[c] = rows[c]
<1>1. rows \in Seq(Row)
  BY DEF TypeInv, TypeOK
<1>2. /\ rows' \in Seq(Row) /\ Len(rows') = Len(rows) + 1
      /\ \A c \in 1..Len(rows) : rows'[c] = rows[c]
      /\ rows'[Len(rows) + 1] = x
  BY <1>1, AppendProperties
<1>3. DOMAIN rows' = 1..(Len(rows) + 1)
  BY <1>2, LenProperties
<1> QED
  BY <1>2, <1>3, Rows

LEMMA CommentAdded ==
  ASSUME TypeInv, NEW r \in Requests, NEW p \in RowIds \cup {None},
         CreateComment(r, p)
  PROVE  LET d == Len(rows) + 1
         IN  /\ DOMAIN rows' = DOMAIN rows \cup {d} /\ d \in RowIds
             /\ d \notin DOMAIN rows
             /\ rows'[d].sync = "PENDING" /\ rows'[d].origin = "CRITIQ"
             /\ \A c \in DOMAIN rows : rows'[c] = rows[c]
<1>1. PICK parent : parent = IF p = None THEN None ELSE RootOf(p)
  OBVIOUS
<1>2. parent \in RowIds \cup {None}
  BY <1>1, RowFields DEF CreateComment, RootOf
<1>3. PICK x : x = [origin |-> "CRITIQ", parent |-> parent,
                    edited |-> FALSE, deleted |-> FALSE,
                    note |-> None, thread |-> None, sync |-> "PENDING"]
  OBVIOUS
<1>4. x \in Row /\ x.sync = "PENDING" /\ x.origin = "CRITIQ"
  BY <1>2, <1>3 DEF Row
<1>5. rows' = Append(rows, x) /\ Len(rows) < MaxRows
  BY <1>1, <1>3 DEF CreateComment
<1> QED
  BY <1>4, <1>5, AddedRow, Rows DEF RowIds

LEMMA NoteTakesRow ==
  ASSUME TypeInv, NEW h \in Hooks, CreateRow(h)
  PROVE  LET d == Len(rows) + 1
         IN  /\ DOMAIN rows' = DOMAIN rows \cup {d}
             /\ d \notin DOMAIN rows
             /\ rows'[d].sync = "NONE" /\ rows'[d].origin = "PROVIDER"
             /\ \A c \in DOMAIN rows : rows'[c] = rows[c]
<1>1. PICK edited : edited = (hook[h].action = "edited")
  OBVIOUS
<1>2. edited \in BOOLEAN
  BY <1>1
<1>3. PICK x : x = [origin |-> "PROVIDER", parent |-> hook[h].row,
                    edited |-> edited, deleted |-> FALSE,
                    note |-> hook[h].note, thread |-> hook[h].thread,
                    sync |-> "NONE"]
  OBVIOUS
<1>4. x \in Row /\ x.sync = "NONE" /\ x.origin = "PROVIDER"
  BY <1>2, <1>3, HookFields DEF Row
<1>5. rows' = Append(rows, x)
  BY <1>1, <1>3 DEF CreateRow
<1> QED
  BY <1>4, <1>5, AddedRow

(* What a delivery or an id writes into a row that stays on its way.       *)
LEMMA DeliveriesSync ==
  ASSUME TypeInv, NEW h \in Hooks, Ingest(h)
  PROVE  /\ \A c \in DOMAIN rows : rows'[c].sync = rows[c].sync
         /\ \A c \in DOMAIN rows' \ DOMAIN rows : rows'[c].sync = "NONE"
<1>1. ASSUME rows' = rows
      PROVE  /\ \A c \in DOMAIN rows : rows'[c].sync = rows[c].sync
             /\ \A c \in DOMAIN rows' \ DOMAIN rows : rows'[c].sync = "NONE"
  BY <1>1
<1>2. ASSUME NEW d, NEW x, rows' = [rows EXCEPT ![d] = x],
             x.sync = rows[d].sync
      PROVE  /\ \A c \in DOMAIN rows : rows'[c].sync = rows[c].sync
             /\ \A c \in DOMAIN rows' \ DOMAIN rows : rows'[c].sync = "NONE"
  BY <1>2
<1>3. hook[h].pc \in {"remove", "edit", "link"} => rows[hook[h].row] \in Row
  BY HookFields, Rows DEF HookRefers
<1>4. CASE RemoveRow(h)
  <2>1. [rows[hook[h].row] EXCEPT !.deleted = TRUE].sync
          = rows[hook[h].row].sync
    BY <1>3, <1>4 DEF RemoveRow, Row
  <2> QED
    BY <1>2, <1>4, <2>1 DEF RemoveRow
<1>5. CASE EditRow(h)
  <2>1. PICK edited : edited = (hook[h].action = "edited")
    OBVIOUS
  <2>2. [rows[hook[h].row] EXCEPT !.edited = edited].sync
          = rows[hook[h].row].sync
    BY <1>3, <1>5 DEF EditRow, Row
  <2> QED
    BY <1>2, <1>5, <2>1, <2>2 DEF EditRow
<1>6. CASE LinkOwn(h)
  <2>1. [rows[hook[h].row] EXCEPT !.note = hook[h].note].sync
          = rows[hook[h].row].sync
    BY <1>3, <1>6 DEF LinkOwn, Row
  <2> QED
    BY <1>2, <1>6, <2>1 DEF LinkOwn
<1>7. CASE CreateRow(h)
  BY <1>7, NoteTakesRow
<1> QED
  BY <1>1, <1>4, <1>5, <1>6, <1>7 DEF Ingest, Deliver, HookFails, crit

LEMMA PendingStep ==
  ASSUME TypeInv, PendingHasWork, [Next]_vars
  PROVE  PendingHasWork'
<1> SUFFICES ASSUME NEW c \in DOMAIN rows', rows'[c].sync = "PENDING",
                    c \notin abandoned'
             PROVE  WorkLeft(c)'
  BY DEF PendingHasWork, WorkLeft
<1>0. c \in DOMAIN rows /\ rows[c].sync = "PENDING" /\ c \notin abandoned
        => WorkLeft(c)
  BY DEF PendingHasWork, WorkLeft
<1>1. /\ job \in [JobIds -> Job] /\ req \in [Requests -> Request]
      /\ rows \in Seq(Row)
  BY DEF TypeInv, TypeOK
<1>2. ASSUME rows' = rows, abandoned \subseteq abandoned' PROVE WorkLeft(c)
  BY <1>0, <1>2
<1>3. ASSUME NEW r \in Requests, NEW p \in RowIds \cup {None},
             CreateComment(r, p)
      PROVE  WorkLeft(c)'
  <2>1. PICK x : x = [pc |-> "enqueue", job |-> FirstJob(Len(rows) + 1)]
    OBVIOUS
  <2>2. req' = [req EXCEPT ![r] = x]
    BY <1>3, <2>1 DEF CreateComment
  <2>3. CASE c = Len(rows) + 1
    <3>1. x.job[1] = c /\ x.pc = "enqueue"
      BY <1>3, <2>1, <2>3, Blanks, CommentAdded
    <3> QED
      BY <1>1, <2>2, <3>1 DEF WorkLeft
  <2>4. CASE c # Len(rows) + 1
    <3>1. WorkLeft(c)
      BY <1>0, <1>3, <2>4, CommentAdded DEF CreateComment
    <3> QED
      BY <1>3, <2>2, <3>1, ReqWork DEF CreateComment
  <2> QED
    BY <2>3, <2>4
<1>4. ASSUME NEW r \in Requests, EnqueueSync(r) PROVE WorkLeft(c)'
  <2>1. WorkLeft(c)
    BY <1>2, <1>4 DEF EnqueueSync
  <2>2. PICK k : k = req[r].job
    OBVIOUS
  <2>3. /\ k \in JobIds
        /\ job' = [job EXCEPT ![k] = [NoJob EXCEPT !.pc = "waiting"]]
    BY <1>4, <2>2, ReqFields DEF EnqueueSync
  <2>4. job'[k].pc = "waiting"
    BY <1>1, <2>3 DEF NoJob
  <2>5. CASE c = k[1]
    BY <2>3, <2>4, <2>5 DEF WorkLeft
  <2>6. ASSUME c # k[1], NEW q \in Requests, req[q].job[1] = c,
               req[q].pc \in {"enqueue", "mark"}
        PROVE  WorkLeft(c)'
    <3>1. req'[q] = req[q]
      BY <1>1, <1>4, <2>2, <2>6 DEF EnqueueSync
    <3> QED
      BY <2>6, <3>1 DEF WorkLeft
  <2>7. ASSUME c # k[1], NEW j \in JobIds, j[1] = c,
               job[j].pc \in {"waiting", "taken"}
        PROVE  WorkLeft(c)'
    <3>1. job'[j] = job[j]
      BY <1>1, <2>3, <2>7
    <3> QED
      BY <2>7, <3>1 DEF WorkLeft
  <2> QED
    BY <2>1, <2>5, <2>6, <2>7 DEF WorkLeft
<1>5. ASSUME NEW r \in Requests, EnqueueThrows(r) PROVE WorkLeft(c)'
  <2>1. PICK x : x = [req[r] EXCEPT !.pc = "mark"]
    OBVIOUS
  <2>2. x.pc = "mark" /\ x.job = req[r].job
    BY <2>1, ReqFields DEF Request
  <2>3. req' = [req EXCEPT ![r] = x] /\ WorkLeft(c) /\ job' = job
    BY <1>2, <1>5, <2>1 DEF EnqueueThrows
  <2> QED
    BY <2>2, <2>3, ReqWork
<1>6. ASSUME NEW r \in Requests, MarkFailed(r) PROVE WorkLeft(c)'
  <2>1. PICK d : d = req[r].job[1]
    OBVIOUS
  <2>2. d \in DOMAIN rows /\ rows[d] \in Row
    BY <1>6, <2>1, Rows DEF MarkFailed, TypeInv, RefsInv, ReqsRefer, Ours
  <2>3. PICK x : x = [rows[d] EXCEPT !.sync = "FAILED"]
    OBVIOUS
  <2>4. x.sync = "FAILED"
    BY <2>2, <2>3 DEF Row
  <2>5. rows' = [rows EXCEPT ![d] = x]
    BY <1>6, <2>1, <2>3 DEF MarkFailed
  <2>6. c # d /\ c \in DOMAIN rows /\ rows[c].sync = "PENDING"
    BY <2>2, <2>4, <2>5
  <2> QED
    BY <1>0, <1>6, <2>1, <2>6, ReqWork DEF MarkFailed
<1>7. ASSUME NEW r \in Requests, NEW d \in RowIds, RetrySync(r, d)
      PROVE  WorkLeft(c)'
  <2>1. PICK x : x = [pc |-> "enqueue",
                      job |-> RetryJob(d, count.retries + 1)]
    OBVIOUS
  <2>2. x.job[1] = d /\ x.pc = "enqueue"
    BY <2>1 DEF RetryJob
  <2>3. req' = [req EXCEPT ![r] = x]
    BY <1>7, <2>1 DEF RetrySync
  <2>4. CASE c = d
    BY <1>1, <2>2, <2>3, <2>4 DEF WorkLeft
  <2>5. CASE c # d
    <3>1. WorkLeft(c)
      BY <1>0, <1>7, <2>5 DEF RetrySync
    <3> QED
      BY <1>7, <2>3, <3>1, ReqWork DEF RetrySync
  <2> QED
    BY <2>4, <2>5
<1>8. ASSUME NEW r \in Requests, ApiCrash(r) PROVE WorkLeft(c)'
  <2>1. WorkLeft(c) /\ c # req[r].job[1]
    BY <1>2, <1>8 DEF ApiCrash
  <2> QED
    BY <1>8, <2>1, ReqWork DEF ApiCrash
<1>9. ASSUME NEW w \in Workers, NEW k \in JobIds, TakeJob(w, k)
      PROVE  WorkLeft(c)'
  <2>1. WorkLeft(c) /\ rows' = rows /\ req' = req
    BY <1>2, <1>9 DEF TakeJob
  <2>2. PICK x : x = IF rows[k[1]].sync = "PENDING"
                     THEN [job[k] EXCEPT !.pc = "taken"] ELSE EndedJob
    OBVIOUS
  <2>3. job' = [job EXCEPT ![k] = x]
    BY <1>9, <2>2 DEF TakeJob
  <2>4. c = k[1] => x.pc = "taken"
    BY <2>1, <2>2, JobFields DEF Job
  <2> QED
    BY <2>1, <2>3, <2>4, JobWork
<1>10. ASSUME NEW w \in Workers, WorkLeft(c), c # RowOf(w), req' = req,
              EndJob(w) \/ Throw(w)
       PROVE  WorkLeft(c)'
  <2>1. PICK k : k = exec[w].job
    OBVIOUS
  <2>2. k \in JobIds /\ c # k[1]
    BY <1>10, <2>1, ExecFields DEF RowOf
  <2>3. job' = job \/ \E x : job' = [job EXCEPT ![k] = x]
    BY <1>10, <2>1 DEF EndJob, Throw
  <2> QED
    BY <1>10, <2>2, <2>3, SameWork, JobWork
<1>11. ASSUME NEW w \in Workers, WorkLeft(c), req' = req, Throw(w),
              exec[w].owner => ~Exhausted(w)
       PROVE  WorkLeft(c)'
  <2>1. PICK k : k = exec[w].job
    OBVIOUS
  <2>2. PICK x : x = [job[k] EXCEPT !.pc = "waiting",
                                    !.made = job[k].made + 1]
    OBVIOUS
  <2>3. k \in JobIds /\ x.pc = "waiting"
    BY <2>1, <2>2, ExecFields, JobFields DEF Job
  <2>4. job' = job \/ job' = [job EXCEPT ![k] = x]
    BY <1>11, <2>1, <2>2 DEF Throw
  <2> QED
    BY <1>11, <2>3, <2>4, SameWork, JobWork
<1>12. ASSUME NEW w \in Workers, NEW retryable \in BOOLEAN,
              SendFailed(w, retryable), rows' = rows, req' = req,
              abandoned' = abandoned
       PROVE  WorkLeft(c)'
  BY <1>2, <1>11, <1>12, SameWork DEF SendFailed, GivesUp
<1>13. ASSUME NEW w \in Workers, StoreIds(w) \/ StoreFailure(w)
       PROVE  WorkLeft(c)'
  <2>1. PICK d : d = RowOf(w)
    OBVIOUS
  <2>2. d \in DOMAIN rows /\ rows[d] \in Row
    BY <1>13, <2>1, Executing, Rows DEF StoreIds, StoreFailure
  <2>3. \/ rows' = rows /\ rows[d].sync # "PENDING"
        \/ \E x : rows' = [rows EXCEPT ![d] = x] /\ x.sync # "PENDING"
    <3>1. Stored(d, w).sync = "SYNCED"
      BY <2>2 DEF Stored, Row
    <3>2. [rows[d] EXCEPT !.sync = "FAILED"].sync = "FAILED"
      BY <2>2 DEF Row
    <3> QED
      BY <1>13, <2>1, <3>1, <3>2 DEF StoreIds, StoreFailure
  <2>4. c # d /\ c \in DOMAIN rows /\ rows[c].sync = "PENDING"
    BY <2>2, <2>3
  <2> QED
    BY <1>0, <1>10, <1>13, <2>1, <2>4 DEF StoreIds, StoreFailure
<1>14. ASSUME NEW w \in Workers, StoreThrows(w) PROVE WorkLeft(c)'
  <2>1. WorkLeft(c) /\ req' = req
    BY <1>2, <1>14 DEF StoreThrows
  <2>2. exec[w].owner /\ Exhausted(w) => c # RowOf(w)
    BY <1>14 DEF StoreThrows
  <2> QED
    BY <1>10, <1>11, <1>14, <2>1, <2>2 DEF StoreThrows
<1>15. ASSUME NEW w \in Workers, Stalled(w) PROVE WorkLeft(c)'
  <2>1. WorkLeft(c) /\ req' = req
    BY <1>2, <1>15 DEF Stalled
  <2>2. PICK k : k = exec[w].job
    OBVIOUS
  <2>3. PICK x : x = IF job[k].stalled THEN EndedJob
                     ELSE [job[k] EXCEPT !.pc = "waiting", !.stalled = TRUE]
    OBVIOUS
  <2>4. k \in JobIds /\ job' = [job EXCEPT ![k] = x]
    BY <1>15, <2>2, <2>3, ExecFields DEF Stalled
  <2>5. job[k].stalled => c # k[1]
    BY <1>15, <2>2 DEF Stalled
  <2>6. ~job[k].stalled => x.pc = "waiting"
    BY <2>3, <2>4, JobFields DEF Job
  <2> QED
    BY <2>1, <2>4, <2>5, <2>6, JobWork
<1>16. ASSUME NEW w \in Workers, Sync(w) PROVE WorkLeft(c)'
  <2>1. CASE Send(w) \/ WorkerDies(w)
    BY <1>2, <2>1, SameWork DEF Send, WorkerDies
  <2> QED
    BY <1>9, <1>12, <1>13, <1>14, <1>15, <1>16, <2>1
       DEF Sync, WaitForParent, SendAnswerLost, SendFails
<1>17. ASSUME NEW r \in Requests, Api(r) PROVE WorkLeft(c)'
  BY <1>3, <1>4, <1>5, <1>6, <1>7, <1>8, <1>17 DEF Api
<1>18. CASE ProviderActs
  BY <1>2, <1>18, SameWork DEF ProviderActs, WriteNote, ChangeNote, crit
<1>19. ASSUME NEW h \in Hooks, Ingest(h) PROVE WorkLeft(c)'
  <2>1. c \in DOMAIN rows /\ rows[c].sync = "PENDING"
    BY <1>19, DeliveriesSync
  <2>2. req' = req /\ job' = job /\ abandoned' = abandoned
    BY <1>19 DEF Ingest, Deliver, RemoveRow, EditRow, LinkOwn, CreateRow,
                 HookFails, crit
  <2> QED
    BY <1>0, <2>1, <2>2, SameWork
<1>20. CASE UNCHANGED vars
  BY <1>2, <1>20, SameWork DEF vars
<1> QED
  BY <1>16, <1>17, <1>18, <1>19, <1>20 DEF Next

(* A comment shown as on its way is: a request is about to queue it or to  *)
(* mark it failed, or a job of it is left, unless the API or the job died. *)
THEOREM PendingCommentsHaveWork == Spec => []PendingHasWork
<1>1. Init => PendingHasWork
  BY EmptySeq DEF Init, PendingHasWork
<1>2. TypeInv /\ PendingHasWork /\ [Next]_vars => PendingHasWork'
  BY PendingStep
<1> QED
  BY <1>1, <1>2, TypeCorrect, PTL DEF Spec

-----------------------------------------------------------------------------
(* Copies.  What may still post a copy of a comment is counted with its    *)
(* copies: a job waiting, an execution sending or giving up, a request     *)
(* about to queue a job or to mark the row failed, and a row that failed,  *)
(* which may be retried.  None of them becomes two without a fault.        *)

Copies(c) == {n \in DOMAIN notes : notes[n].of = c}
Waiting(c) == {k \in JobIds : k[1] = c /\ job[k].pc = "waiting"}
Sending(c) == {w \in Workers : /\ RowOf(w) = c
                               /\ exec[w].pc \in {"send", "fail"}}
Asking(c) == {r \in Requests : req[r].pc # "idle" /\ req[r].job[1] = c}
Failed(c) == {d \in {c} : rows[d].sync = "FAILED"}

PostsPaid(c) ==
    Cardinality(Copies(c)) + Cardinality(Waiting(c)) + Cardinality(Sending(c))
        + Cardinality(Asking(c)) + Cardinality(Failed(c))
      <= 1 + count.faults[c]

PostsArePaid == \A c \in DOMAIN rows : PostsPaid(c)

(* T has at most i elements more than S.                                   *)
Grows(S, T, i) ==
    \/ i = 0 /\ T \subseteq S
    \/ i = 1 /\ \E x : T \subseteq S \cup {x}
    \/ i = -1 /\ \E x \in S : T \subseteq S \ {x}

LEMMA Sizes ==
  ASSUME NEW S, NEW T, NEW i, IsFiniteSet(S), Grows(S, T, i)
  PROVE  /\ Cardinality(S) \in Nat /\ Cardinality(T) \in Nat
         /\ Cardinality(T) <= Cardinality(S) + i
<1>1. Cardinality(S) \in Nat
  BY FS_CardinalityType
<1>2. ASSUME NEW U, IsFiniteSet(U), T \subseteq U
      PROVE  Cardinality(T) \in Nat /\ Cardinality(T) <= Cardinality(U)
  BY <1>2, FS_Subset, FS_CardinalityType
<1>3. CASE i = 0 /\ T \subseteq S
  BY <1>1, <1>2, <1>3
<1>4. ASSUME NEW x, i = 1, T \subseteq S \cup {x}
      PROVE  /\ Cardinality(T) \in Nat
             /\ Cardinality(T) <= Cardinality(S) + i
  <2>1. IsFiniteSet(S \cup {x})
        /\ Cardinality(S \cup {x}) \in {Cardinality(S), Cardinality(S) + 1}
    BY FS_AddElement
  <2> QED
    BY <1>1, <1>2, <1>4, <2>1
<1>5. ASSUME NEW x \in S, i = -1, T \subseteq S \ {x}
      PROVE  /\ Cardinality(T) \in Nat
             /\ Cardinality(T) <= Cardinality(S) + i
  <2>1. IsFiniteSet(S \ {x}) /\ Cardinality(S \ {x}) = Cardinality(S) - 1
    BY FS_RemoveElement
  <2> QED
    BY <1>1, <1>2, <1>5, <2>1
<1> QED
  BY <1>1, <1>3, <1>4, <1>5 DEF Grows

LEMMA Finite ==
  ASSUME TypeInv, NEW c
  PROVE  /\ IsFiniteSet(Copies(c)) /\ IsFiniteSet(Waiting(c))
         /\ IsFiniteSet(Sending(c)) /\ IsFiniteSet(Asking(c))
         /\ IsFiniteSet(Failed(c))
<1>1. IsFiniteSet(DOMAIN notes) /\ IsFiniteSet(JobIds) /\ IsFiniteSet({c})
  <2>1. IsFiniteSet(RowIds) /\ IsFiniteSet(1..(MaxRetries + 1))
    BY FS_Interval DEF RowIds
  <2>2. IsFiniteSet(DOMAIN notes)
    BY Notes, FS_Interval
  <2> QED
    BY <2>1, <2>2, FS_Product, FS_Singleton DEF JobIds
<1>2. /\ Copies(c) \subseteq DOMAIN notes /\ Waiting(c) \subseteq JobIds
      /\ Sending(c) \subseteq Workers /\ Asking(c) \subseteq Requests
      /\ Failed(c) \subseteq {c}
  BY DEF Copies, Waiting, Sending, Asking, Failed
<1> QED
  BY <1>1, <1>2, FS_Subset

LEMMA PaidStill ==
  ASSUME TypeInv, NEW c \in DOMAIN rows, PostsPaid(c),
         count.faults[c] \in Nat,
         NEW n \in {-1, 0, 1}, Grows(Copies(c), Copies(c)', n),
         NEW j \in {-1, 0, 1}, Grows(Waiting(c), Waiting(c)', j),
         NEW w \in {-1, 0, 1}, Grows(Sending(c), Sending(c)', w),
         NEW r \in {-1, 0, 1}, Grows(Asking(c), Asking(c)', r),
         NEW f \in {-1, 0, 1}, Grows(Failed(c), Failed(c)', f),
         NEW g \in {0, 1}, count'.faults[c] = count.faults[c] + g,
         n + j + w + r + f <= g
  PROVE  PostsPaid(c)'
<1>1. /\ Cardinality(Copies(c)) \in Nat
      /\ Cardinality(Copies(c)') \in Nat
      /\ Cardinality(Copies(c)') <= Cardinality(Copies(c)) + n
  BY Finite, Sizes
<1>2. /\ Cardinality(Waiting(c)) \in Nat
      /\ Cardinality(Waiting(c)') \in Nat
      /\ Cardinality(Waiting(c)') <= Cardinality(Waiting(c)) + j
  BY Finite, Sizes
<1>3. /\ Cardinality(Sending(c)) \in Nat
      /\ Cardinality(Sending(c)') \in Nat
      /\ Cardinality(Sending(c)') <= Cardinality(Sending(c)) + w
  BY Finite, Sizes
<1>4. /\ Cardinality(Asking(c)) \in Nat
      /\ Cardinality(Asking(c)') \in Nat
      /\ Cardinality(Asking(c)') <= Cardinality(Asking(c)) + r
  BY Finite, Sizes
<1>5. /\ Cardinality(Failed(c)) \in Nat
      /\ Cardinality(Failed(c)') \in Nat
      /\ Cardinality(Failed(c)') <= Cardinality(Failed(c)) + f
  BY Finite, Sizes
<1>6. Cardinality(Copies(c)') + Cardinality(Waiting(c)')
        + Cardinality(Sending(c)') + Cardinality(Asking(c)')
        + Cardinality(Failed(c)')
      <= 1 + count'.faults[c]
  BY <1>1, <1>2, <1>3, <1>4, <1>5 DEF PostsPaid
<1> QED
  BY <1>6 DEF PostsPaid

(* How each of the five sets moves with its variable.                      *)
LEMMA Unmoved ==
  ASSUME NEW c
  PROVE  /\ notes' = notes => Grows(Copies(c), Copies(c)', 0)
         /\ job' = job => Grows(Waiting(c), Waiting(c)', 0)
         /\ exec' = exec => Grows(Sending(c), Sending(c)', 0)
         /\ req' = req => Grows(Asking(c), Asking(c)', 0)
  BY DEF Grows, Copies, Waiting, Sending, Asking, RowOf

LEMMA CopiesMove ==
  ASSUME TypeInv, NotesMove, NEW c
  PROVE  /\ Grows(Copies(c), Copies(c)', 1)
         /\ notes'[Len(notes) + 1].of # c => Grows(Copies(c), Copies(c)', 0)
<1>1. Copies(c)' \subseteq Copies(c) \cup {Len(notes) + 1}
  BY DEF NotesMove, NotesGrow, Copies
<1>2. notes'[Len(notes) + 1].of # c => Copies(c)' \subseteq Copies(c)
  BY DEF NotesMove, NotesGrow, Copies
<1> QED
  BY <1>1, <1>2 DEF Grows

LEMMA WaitingMove ==
  ASSUME TypeInv, NEW c, NEW k \in JobIds, NEW x,
         job' = [job EXCEPT ![k] = x]
  PROVE  /\ Grows(Waiting(c), Waiting(c)', 1)
         /\ c # k[1] \/ x.pc # "waiting" => Grows(Waiting(c), Waiting(c)', 0)
         /\ c = k[1] /\ job[k].pc = "waiting" /\ x.pc # "waiting" =>
               Grows(Waiting(c), Waiting(c)', -1)
<1>1. job \in [JobIds -> Job]
  BY DEF TypeInv, TypeOK
<1>2. Waiting(c)' \subseteq Waiting(c) \cup {k}
  BY <1>1 DEF Waiting
<1>3. c # k[1] \/ x.pc # "waiting" => Waiting(c)' \subseteq Waiting(c)
  BY <1>1 DEF Waiting
<1>4. c = k[1] /\ job[k].pc = "waiting" /\ x.pc # "waiting" =>
        k \in Waiting(c) /\ Waiting(c)' \subseteq Waiting(c) \ {k}
  BY <1>1 DEF Waiting
<1> QED
  BY <1>2, <1>3, <1>4 DEF Grows

LEMMA SendingMove ==
  ASSUME TypeInv, NEW c, NEW w \in Workers, NEW x,
         exec' = [exec EXCEPT ![w] = x]
  PROVE  /\ Grows(Sending(c), Sending(c)', 1)
         /\ c # x.job[1] \/ x.pc \notin {"send", "fail"} =>
               Grows(Sending(c), Sending(c)', 0)
         /\ x.job = exec[w].job /\ exec[w].pc \in {"send", "fail"} =>
               Grows(Sending(c), Sending(c)', 0)
         /\ c = RowOf(w) /\ exec[w].pc \in {"send", "fail"}
            /\ x.pc \notin {"send", "fail"} =>
               Grows(Sending(c), Sending(c)', -1)
<1>1. exec \in [Workers -> Execution]
  BY DEF TypeInv, TypeOK
<1>2. Sending(c)' \subseteq Sending(c) \cup {w}
  BY <1>1 DEF Sending, RowOf
<1>3. c # x.job[1] \/ x.pc \notin {"send", "fail"} =>
        Sending(c)' \subseteq Sending(c)
  BY <1>1 DEF Sending, RowOf
<1>4. x.job = exec[w].job /\ exec[w].pc \in {"send", "fail"} =>
        Sending(c)' \subseteq Sending(c)
  BY <1>1 DEF Sending, RowOf
<1>5. c = RowOf(w) /\ exec[w].pc \in {"send", "fail"}
        /\ x.pc \notin {"send", "fail"} =>
        w \in Sending(c) /\ Sending(c)' \subseteq Sending(c) \ {w}
  BY <1>1 DEF Sending, RowOf
<1> QED
  BY <1>2, <1>3, <1>4, <1>5 DEF Grows

LEMMA AskingMove ==
  ASSUME TypeInv, NEW c, NEW r \in Requests, NEW x,
         req' = [req EXCEPT ![r] = x]
  PROVE  /\ Grows(Asking(c), Asking(c)', 1)
         /\ c # x.job[1] \/ x.pc = "idle" => Grows(Asking(c), Asking(c)', 0)
         /\ x.job = req[r].job /\ req[r].pc # "idle" =>
               Grows(Asking(c), Asking(c)', 0)
         /\ c = req[r].job[1] /\ req[r].pc # "idle" /\ x.pc = "idle" =>
               Grows(Asking(c), Asking(c)', -1)
<1>1. req \in [Requests -> Request]
  BY DEF TypeInv, TypeOK
<1>2. Asking(c)' \subseteq Asking(c) \cup {r}
  BY <1>1 DEF Asking
<1>3. c # x.job[1] \/ x.pc = "idle" => Asking(c)' \subseteq Asking(c)
  BY <1>1 DEF Asking
<1>4. x.job = req[r].job /\ req[r].pc # "idle" =>
        Asking(c)' \subseteq Asking(c)
  BY <1>1 DEF Asking
<1>5. c = req[r].job[1] /\ req[r].pc # "idle" /\ x.pc = "idle" =>
        r \in Asking(c) /\ Asking(c)' \subseteq Asking(c) \ {r}
  BY <1>1 DEF Asking
<1> QED
  BY <1>2, <1>3, <1>4, <1>5 DEF Grows

LEMMA FailedMove ==
  ASSUME NEW c
  PROVE  /\ Grows(Failed(c), Failed(c)', 1)
         /\ rows'[c].sync # "FAILED" \/ rows[c].sync = "FAILED" =>
               Grows(Failed(c), Failed(c)', 0)
         /\ rows[c].sync = "FAILED" /\ rows'[c].sync # "FAILED" =>
               Grows(Failed(c), Failed(c)', -1)
<1>1. Failed(c)' \subseteq Failed(c) \cup {c}
  BY DEF Failed
<1>2. rows'[c].sync # "FAILED" \/ rows[c].sync = "FAILED" =>
        Failed(c)' \subseteq Failed(c)
  BY DEF Failed
<1>3. rows[c].sync = "FAILED" /\ rows'[c].sync # "FAILED" =>
        c \in Failed(c) /\ Failed(c)' \subseteq Failed(c) \ {c}
  BY DEF Failed
<1> QED
  BY <1>1, <1>2, <1>3 DEF Grows

(* Only a fault of this comment is counted for it.                         *)
LEMMA FaultsMove ==
  ASSUME TypeInv, NEW c \in RowIds
  PROVE  /\ count.faults[c] \in Nat
         /\ \A d \in RowIds : Fault(d) =>
               count'.faults[c] = IF c = d THEN count.faults[c] + 1
                                  ELSE count.faults[c]
         /\ Outage => count'.faults = count.faults
         /\ \A r \in Requests, d \in RowIds :
               RetrySync(r, d) => count'.faults = count.faults
         /\ \A h \in Hooks, e \in events, redis \in BOOLEAN :
               Deliver(h, e, redis) => count'.faults = count.faults
<1>1. PICK counts \in Counts : counts = count
  BY DEF TypeInv, TypeOK, Counts
<1>2. count.faults \in [RowIds -> Nat]
  BY <1>1 DEF Counts
<1>3. ASSUME NEW d \in RowIds, Fault(d)
      PROVE  count'.faults[c] = IF c = d THEN count.faults[c] + 1
                                ELSE count.faults[c]
  <2>1. PICK faults : faults = [counts.faults EXCEPT ![d] = @ + 1]
    OBVIOUS
  <2>2. count' = [counts EXCEPT !.faults = faults]
    BY <1>1, <1>3, <2>1 DEF Fault
  <2>3. count'.faults = faults
    BY <2>2 DEF Counts
  <2> QED
    BY <1>1, <1>2, <2>1, <2>3
<1>4. Outage => count'.faults = count.faults
  BY <1>1 DEF Outage, Counts
<1>5. ASSUME NEW r \in Requests, NEW d \in RowIds, RetrySync(r, d)
      PROVE  count'.faults = count.faults
  BY <1>1, <1>5 DEF RetrySync, Counts
<1>6. ASSUME NEW h \in Hooks, NEW e \in events, NEW redis \in BOOLEAN,
             Deliver(h, e, redis)
      PROVE  count'.faults = count.faults
  <2>1. PICK outages : outages = IF redis THEN counts.outages
                                 ELSE counts.outages + 1
    OBVIOUS
  <2>2. count' = [counts EXCEPT !.deliveries = counts.deliveries + 1,
                                !.outages = outages]
    BY <1>1, <1>6, <2>1 DEF Deliver
  <2> QED
    BY <1>1, <2>2 DEF Counts
<1> QED
  BY <1>2, <1>3, <1>4, <1>5, <1>6

(* The ends of an execution.                                               *)
LEMMA EndMoves ==
  ASSUME TypeInv, NEW c, NEW w \in Workers,
         exec[w].pc # "idle", EndJob(w)
  PROVE  /\ Grows(Waiting(c), Waiting(c)', 0)
         /\ Grows(Sending(c), Sending(c)', 0)
         /\ c = RowOf(w) /\ exec[w].pc = "fail" =>
               Grows(Sending(c), Sending(c)', -1)
<1>1. exec' = [exec EXCEPT ![w] = NoExecution]
  BY DEF EndJob
<1>2. job' = job \/ job' = [job EXCEPT ![exec[w].job] = EndedJob]
  BY DEF EndJob
<1> QED
  BY <1>1, <1>2, Blanks, ExecFields, Unmoved, WaitingMove, SendingMove

LEMMA ThrowMoves ==
  ASSUME TypeInv, NEW c, NEW w \in Workers, Throw(w)
  PROVE  /\ \/ Grows(Waiting(c), Waiting(c)', 0)
            \/ c = RowOf(w) /\ Grows(Waiting(c), Waiting(c)', 1)
         /\ Grows(Sending(c), Sending(c)', 0)
         /\ c = RowOf(w) /\ exec[w].pc = "send" =>
               Grows(Sending(c), Sending(c)', -1)
<1>1. exec' = [exec EXCEPT ![w] = NoExecution]
  BY DEF Throw
<1>2. job' = job \/ \E x : job' = [job EXCEPT ![exec[w].job] = x]
  BY DEF Throw
<1>3. \/ Grows(Waiting(c), Waiting(c)', 0)
      \/ c = RowOf(w) /\ Grows(Waiting(c), Waiting(c)', 1)
  BY <1>2, ExecFields, Unmoved, WaitingMove DEF RowOf
<1> QED
  BY <1>1, <1>3, Blanks, SendingMove

(* A failed attempt gives up or waits: what may post again is not more.    *)
LEMMA SendFailedMoves ==
  ASSUME TypeInv, NEW c, NEW w \in Workers, exec[w].pc = "send",
         NEW retryable \in BOOLEAN, SendFailed(w, retryable)
  PROVE  \/ /\ Grows(Waiting(c), Waiting(c)', 0)
            /\ Grows(Sending(c), Sending(c)', 0)
         \/ /\ Grows(Waiting(c), Waiting(c)', 1)
            /\ Grows(Sending(c), Sending(c)', -1)
<1>1. CASE Throw(w)
  BY <1>1, ThrowMoves
<1>2. CASE exec' = [exec EXCEPT ![w].pc = "fail"] /\ job' = job
  <2>1. PICK x : x = [exec[w] EXCEPT !.pc = "fail"]
    OBVIOUS
  <2>2. x.job = exec[w].job
    BY <2>1, ExecFields DEF Execution
  <2>3. exec' = [exec EXCEPT ![w] = x]
    BY <1>2, <2>1
  <2> QED
    BY <1>2, <2>2, <2>3, Unmoved, SendingMove
<1> QED
  BY <1>1, <1>2 DEF SendFailed

(* A new row has no copies, and at most its own request.                   *)
LEMMA NewRowPaid ==
  ASSUME TypeInv, NEW c \in RowIds, c \notin DOMAIN rows,
         notes' = notes, job' = job, exec' = exec, count' = count,
         rows'[c].sync # "FAILED", Grows(Asking(c), Asking(c)', 1)
  PROVE  PostsPaid(c)'
<1>1. /\ Copies(c) = {} /\ Waiting(c) = {} /\ Sending(c) = {}
      /\ Asking(c) = {}
  BY DEF Copies, Waiting, Sending, Asking, TypeInv, RefsInv, NotesRefer,
         JobsRefer, ReqsRefer, ExecsRefer, Ours, None, RowIds
<1>2. /\ Copies(c)' = {} /\ Waiting(c)' = {} /\ Sending(c)' = {}
      /\ Failed(c)' = {}
  BY <1>1 DEF Copies, Waiting, Sending, Failed, RowOf
<1>3. Cardinality({}) = 0 /\ IsFiniteSet({})
  BY FS_EmptySet
<1>4. Cardinality(Asking(c)') \in Nat /\ Cardinality(Asking(c)') <= 1
  BY <1>1, <1>3, Sizes
<1>5. count'.faults[c] \in Nat
  BY FaultsMove
<1>6. Cardinality(Copies(c)') + Cardinality(Waiting(c)')
        + Cardinality(Sending(c)') + Cardinality(Asking(c)')
        + Cardinality(Failed(c)')
      <= 1 + count'.faults[c]
  BY <1>2, <1>3, <1>4, <1>5
<1> QED
  BY <1>6 DEF PostsPaid

LEMMA PaidStep ==
  ASSUME TypeInv, PostsArePaid, [Next]_vars
  PROVE  PostsArePaid'
<1>0. NotesMove
  BY NotesStep
<1>1. ASSUME NEW r \in Requests, NEW p \in RowIds \cup {None},
             CreateComment(r, p), NEW c \in DOMAIN rows'
      PROVE  PostsPaid(c)'
  <2>1. PICK x : x = [pc |-> "enqueue", job |-> FirstJob(Len(rows) + 1)]
    OBVIOUS
  <2>2. req' = [req EXCEPT ![r] = x]
    BY <1>1, <2>1 DEF CreateComment
  <2>3. /\ notes' = notes /\ job' = job /\ exec' = exec /\ count' = count
    BY <1>1 DEF CreateComment, prov
  <2>4. CASE c = Len(rows) + 1
    <3>1. /\ c \in RowIds /\ c \notin DOMAIN rows
          /\ rows'[c].sync = "PENDING"
      BY <1>1, <2>4, CommentAdded
    <3>2. Grows(Asking(c), Asking(c)', 1)
      BY <2>2, AskingMove
    <3>3. rows'[c].sync # "FAILED"
      BY <3>1
    <3> QED
      BY <2>3, <3>1, <3>2, <3>3, NewRowPaid
  <2>5. CASE c # Len(rows) + 1
    <3>1. c \in DOMAIN rows /\ rows'[c] = rows[c]
      BY <1>1, <2>5, CommentAdded
    <3>2. c # x.job[1]
      BY <1>1, <2>1, <2>5, CommentAdded, Blanks
    <3>3. PostsPaid(c) /\ count.faults[c] \in Nat
      BY <3>1, FaultsMove, Rows DEF PostsArePaid
    <3> QED
      <4>1. Grows(Asking(c), Asking(c)', 0)
        BY <2>2, <3>2, AskingMove
      <4>2. Grows(Failed(c), Failed(c)', 0)
        BY <3>1, FailedMove
      <4>3. count'.faults[c] = count.faults[c] + 0
        BY <2>3, <3>3
      <4>4. /\ Grows(Copies(c), Copies(c)', 0)
            /\ Grows(Waiting(c), Waiting(c)', 0)
            /\ Grows(Sending(c), Sending(c)', 0)
        BY <2>3, Unmoved
      <4> QED
        BY <3>1, <3>3, <4>1, <4>2, <4>3, <4>4, PaidStill
  <2> QED
    BY <2>4, <2>5
<1>2. ASSUME NEW h \in Hooks, CreateRow(h), NEW c \in DOMAIN rows'
      PROVE  PostsPaid(c)'
  <2>1. /\ notes' = notes /\ job' = job /\ exec' = exec /\ count' = count
        /\ req' = req
    BY <1>2 DEF CreateRow, prov
  <2>2. CASE c = Len(rows) + 1
    <3>1. c \in RowIds
      BY <1>2, <2>2, Rows DEF CreateRow, RowIds
    <3>2. Grows(Asking(c), Asking(c)', 1)
      BY <2>1 DEF Asking, Grows
    <3> QED
      BY <1>2, <2>1, <2>2, <3>1, <3>2, NoteTakesRow, NewRowPaid
  <2>3. CASE c # Len(rows) + 1
    <3>1. c \in DOMAIN rows /\ rows'[c] = rows[c]
      BY <1>2, <2>3, NoteTakesRow
    <3>2. PostsPaid(c) /\ count.faults[c] \in Nat
      BY <3>1, FaultsMove, Rows DEF PostsArePaid
    <3> QED
      BY <2>1, <3>1, <3>2, Unmoved, FailedMove, PaidStill
  <2> QED
    BY <2>2, <2>3
<1>3. ASSUME DOMAIN rows' = DOMAIN rows,
             \A c \in DOMAIN rows : PostsPaid(c)'
      PROVE  PostsArePaid'
  BY <1>3 DEF PostsArePaid
<1>4. ASSUME NEW c \in DOMAIN rows
      PROVE  /\ PostsPaid(c) /\ count.faults[c] \in Nat /\ c \in RowIds
             /\ c # None
  BY FaultsMove, Rows DEF PostsArePaid
<1>5. ASSUME NEW r \in Requests, EnqueueSync(r), NEW c \in DOMAIN rows
      PROVE  PostsPaid(c)'
  <2>1. PICK k : k = req[r].job
    OBVIOUS
  <2>2. k \in JobIds /\ req[r].pc = "enqueue"
    BY <1>5, <2>1, ReqFields DEF EnqueueSync
  <2>3. /\ job' = [job EXCEPT ![k] = [NoJob EXCEPT !.pc = "waiting"]]
        /\ req' = [req EXCEPT ![r] = NoRequest] /\ NoRequest.pc = "idle"
        /\ notes' = notes /\ exec' = exec /\ rows' = rows /\ count' = count
    BY <1>5, <2>1 DEF EnqueueSync, NoRequest, prov
  <2>4. CASE c = k[1]
    <3>1. /\ Grows(Waiting(c), Waiting(c)', 1)
          /\ Grows(Asking(c), Asking(c)', -1)
      BY <2>1, <2>2, <2>3, <2>4, WaitingMove, AskingMove
    <3> QED
      BY <1>4, <2>3, <3>1, Unmoved, FailedMove, PaidStill
  <2>5. CASE c # k[1]
    <3>1. /\ Grows(Waiting(c), Waiting(c)', 0)
          /\ Grows(Asking(c), Asking(c)', 0)
      BY <2>2, <2>3, <2>5, WaitingMove, AskingMove
    <3> QED
      BY <1>4, <2>3, <3>1, Unmoved, FailedMove, PaidStill
  <2> QED
    BY <2>4, <2>5
<1>6. ASSUME NEW r \in Requests, EnqueueThrows(r) \/ ApiCrash(r),
             NEW c \in DOMAIN rows
      PROVE  PostsPaid(c)'
  <2>1. PICK x : x = [req[r] EXCEPT !.pc = "mark"]
    OBVIOUS
  <2>2. x.job = req[r].job
    BY <2>1, ReqFields DEF Request
  <2>3. \/ req' = [req EXCEPT ![r] = NoRequest]
        \/ req' = [req EXCEPT ![r] = x] /\ req[r].pc = "enqueue"
    BY <1>6, <2>1 DEF EnqueueThrows, ApiCrash
  <2>4. Grows(Asking(c), Asking(c)', 0)
    BY <2>2, <2>3, AskingMove DEF NoRequest
  <2>5. /\ notes' = notes /\ exec' = exec /\ rows' = rows /\ job' = job
        /\ count'.faults = count.faults
    BY <1>4, <1>6, FaultsMove DEF EnqueueThrows, ApiCrash, prov
  <2> QED
    BY <1>4, <2>4, <2>5, Unmoved, FailedMove, PaidStill
<1>7. ASSUME NEW r \in Requests, MarkFailed(r), NEW c \in DOMAIN rows
      PROVE  PostsPaid(c)'
  <2>1. PICK d : d = req[r].job[1]
    OBVIOUS
  <2>2. /\ req' = [req EXCEPT ![r] = NoRequest] /\ NoRequest.pc = "idle"
        /\ req[r].pc # "idle"
        /\ notes' = notes /\ exec' = exec /\ job' = job /\ count' = count
    BY <1>7 DEF MarkFailed, NoRequest, prov
  <2>3. CASE c = d
    <3>1. Grows(Asking(c), Asking(c)', -1)
      BY <2>1, <2>2, <2>3, AskingMove
    <3> QED
      BY <1>4, <2>2, <3>1, Unmoved, FailedMove, PaidStill
  <2>4. CASE c # d
    <3>1. Grows(Asking(c), Asking(c)', 0) /\ rows'[c] = rows[c]
      BY <1>7, <2>1, <2>2, <2>4, AskingMove DEF MarkFailed
    <3> QED
      BY <1>4, <2>2, <3>1, Unmoved, FailedMove, PaidStill
  <2> QED
    BY <2>3, <2>4
<1>8. ASSUME NEW r \in Requests, NEW d \in RowIds, RetrySync(r, d),
             NEW c \in DOMAIN rows
      PROVE  PostsPaid(c)'
  <2>1. PICK x : x = [pc |-> "enqueue",
                      job |-> RetryJob(d, count.retries + 1)]
    OBVIOUS
  <2>2. x.job[1] = d
    BY <2>1 DEF RetryJob
  <2>3. /\ req' = [req EXCEPT ![r] = x]
        /\ notes' = notes /\ exec' = exec /\ job' = job
        /\ count'.faults = count.faults
    BY <1>4, <1>8, <2>1, FaultsMove DEF RetrySync, prov
  <2>4. CASE c = d
    <3>1. [rows[d] EXCEPT !.sync = "PENDING"].sync = "PENDING"
      BY <2>4, Rows DEF Row
    <3>2. rows'[c].sync = "PENDING" /\ rows[c].sync = "FAILED"
      BY <1>8, <2>4, <3>1 DEF RetrySync, Sendable
    <3>3. Grows(Failed(c), Failed(c)', -1)
      BY <3>2, FailedMove
    <3>4. Grows(Asking(c), Asking(c)', 1)
      BY <2>3, AskingMove
    <3> QED
      BY <1>4, <2>3, <3>3, <3>4, Unmoved, PaidStill
  <2>5. CASE c # d
    <3>1. rows'[c] = rows[c] /\ Grows(Asking(c), Asking(c)', 0)
      BY <1>8, <2>2, <2>3, <2>5, AskingMove DEF RetrySync
    <3> QED
      BY <1>4, <2>3, <3>1, Unmoved, FailedMove, PaidStill
  <2> QED
    BY <2>4, <2>5
<1>9. ASSUME NEW w \in Workers, NEW k \in JobIds, TakeJob(w, k),
             NEW c \in DOMAIN rows
      PROVE  PostsPaid(c)'
  <2>1. PICK x : x = IF rows[k[1]].sync = "PENDING"
                     THEN [job[k] EXCEPT !.pc = "taken"] ELSE EndedJob
    OBVIOUS
  <2>2. job' = [job EXCEPT ![k] = x] /\ job[k].pc = "waiting"
    BY <1>9, <2>1 DEF TakeJob
  <2>3. x.pc # "waiting"
    BY <2>1, Blanks, JobFields DEF Job
  <2>4. PICK t : t = IF rows[k[1]].parent = None THEN None
                     ELSE rows[rows[k[1]].parent].thread
    OBVIOUS
  <2>5. PICK y : y = [NoExecution EXCEPT !.pc = "send", !.job = k,
                        !.owner = TRUE, !.thread = t]
    OBVIOUS
  <2>6. y.job = k
    BY <2>5 DEF NoExecution
  <2>7. exec' = exec \/ exec' = [exec EXCEPT ![w] = y]
    BY <1>9, <2>4, <2>5 DEF TakeJob
  <2>8. /\ notes' = notes /\ req' = req /\ rows' = rows /\ count' = count
    BY <1>9 DEF TakeJob, prov
  <2>9. CASE c = k[1]
    <3>1. Grows(Waiting(c), Waiting(c)', -1)
      BY <2>2, <2>3, <2>9, WaitingMove
    <3>2. \/ Grows(Sending(c), Sending(c)', 1)
          \/ Grows(Sending(c), Sending(c)', 0)
      BY <2>7, Unmoved, SendingMove
    <3> QED
      BY <1>4, <2>8, <3>1, <3>2, Unmoved, FailedMove, PaidStill
  <2>10. CASE c # k[1]
    <3>1. Grows(Waiting(c), Waiting(c)', 0)
      BY <2>2, <2>3, WaitingMove
    <3>2. Grows(Sending(c), Sending(c)', 0)
      BY <2>6, <2>7, <2>10, Unmoved, SendingMove
    <3> QED
      BY <1>4, <2>8, <3>1, <3>2, Unmoved, FailedMove, PaidStill
  <2> QED
    BY <2>9, <2>10
<1>10. ASSUME NEW w \in Workers, NEW c \in DOMAIN rows,
              WaitForParent(w) \/ \E b \in BOOLEAN : SendFails(w, b)
       PROVE  PostsPaid(c)'
  <2>1. exec[w].pc = "send" /\ \E b \in BOOLEAN : SendFailed(w, b)
    BY <1>10 DEF WaitForParent, SendFails
  <2>2. /\ notes' = notes /\ req' = req /\ rows' = rows /\ count' = count
    BY <1>10 DEF WaitForParent, SendFails, prov
  <2>3. \/ /\ Grows(Waiting(c), Waiting(c)', 0)
           /\ Grows(Sending(c), Sending(c)', 0)
        \/ /\ Grows(Waiting(c), Waiting(c)', 1)
           /\ Grows(Sending(c), Sending(c)', -1)
    BY <2>1, SendFailedMoves
  <2>4. Grows(Failed(c), Failed(c)', 0)
    BY <2>2, FailedMove
  <2>5. count'.faults[c] = count.faults[c] + 0
    BY <1>4, <2>2
  <2> QED
    BY <1>4, <2>2, <2>3, <2>4, <2>5, Unmoved, PaidStill
<1>11. ASSUME NEW w \in Workers, PostCopy(w), NEW c \in DOMAIN rows
       PROVE  /\ Grows(Copies(c), Copies(c)', 1)
              /\ c # RowOf(w) => Grows(Copies(c), Copies(c)', 0)
  <2>1. Grows(Copies(c), Copies(c)', 1)
    BY <1>0, CopiesMove
  <2>2. notes'[Len(notes) + 1].of = RowOf(w)
    BY <1>11, PostedCopy
  <2>3. ASSUME c # RowOf(w) PROVE Grows(Copies(c), Copies(c)', 0)
    <3>1. notes'[Len(notes) + 1].of # c
      BY <2>2, <2>3
    <3> QED
      BY <1>0, <3>1, CopiesMove
  <2> QED
    BY <2>1, <2>3
<1>12. ASSUME NEW w \in Workers, Send(w), NEW c \in DOMAIN rows
       PROVE  PostsPaid(c)'
  <2>1. PICK x : x = [exec[w] EXCEPT !.pc = "store", !.note = Len(notes) + 1]
    OBVIOUS
  <2>2. x.pc = "store" /\ PostCopy(w) /\ exec[w].pc = "send"
    BY <1>12, <2>1, ExecFields DEF Execution, Send, PostCopy
  <2>3. /\ exec' = [exec EXCEPT ![w] = x]
        /\ job' = job /\ req' = req /\ rows' = rows /\ count' = count
    BY <1>12, <2>1 DEF Send
  <2>4. CASE c = RowOf(w)
    <3>1. Grows(Sending(c), Sending(c)', -1)
      BY <2>2, <2>3, <2>4, SendingMove
    <3>2. Grows(Copies(c), Copies(c)', 1)
      BY <1>11, <2>2
    <3> QED
      BY <1>4, <2>3, <3>1, <3>2, Unmoved, FailedMove, PaidStill
  <2>5. CASE c # RowOf(w)
    <3>1. Grows(Sending(c), Sending(c)', 0)
      BY <2>2, <2>3, SendingMove
    <3>2. Grows(Copies(c), Copies(c)', 0)
      BY <1>11, <2>2, <2>5
    <3> QED
      BY <1>4, <2>3, <3>1, <3>2, Unmoved, FailedMove, PaidStill
  <2> QED
    BY <2>4, <2>5
<1>13. ASSUME NEW w \in Workers, Fault(RowOf(w)), NEW c \in DOMAIN rows
       PROVE  count'.faults[c] = IF c = RowOf(w) THEN count.faults[c] + 1
                                 ELSE count.faults[c]
  BY <1>4, <1>13, ExecFields, FaultsMove
<1>14. ASSUME NEW w \in Workers, SendAnswerLost(w), NEW c \in DOMAIN rows
       PROVE  PostsPaid(c)'
  <2>1. /\ exec[w].pc = "send" /\ PostCopy(w) /\ SendFailed(w, TRUE)
        /\ Fault(RowOf(w)) /\ req' = req /\ rows' = rows
    BY <1>14 DEF SendAnswerLost, PostCopy
  <2>2. \/ /\ Grows(Waiting(c), Waiting(c)', 0)
           /\ Grows(Sending(c), Sending(c)', 0)
        \/ /\ Grows(Waiting(c), Waiting(c)', 1)
           /\ Grows(Sending(c), Sending(c)', -1)
    BY <2>1, SendFailedMoves
  <2>3. CASE c = RowOf(w)
    <3>1. Grows(Copies(c), Copies(c)', 1)
          /\ count'.faults[c] = count.faults[c] + 1
      BY <1>11, <1>13, <2>1, <2>3
    <3> QED
      BY <1>4, <2>1, <2>2, <3>1, Unmoved, FailedMove, PaidStill
  <2>4. CASE c # RowOf(w)
    <3>1. Grows(Copies(c), Copies(c)', 0)
          /\ count'.faults[c] = count.faults[c]
      BY <1>11, <1>13, <2>1, <2>4
    <3> QED
      BY <1>4, <2>1, <2>2, <3>1, Unmoved, FailedMove, PaidStill
  <2> QED
    BY <2>3, <2>4
<1>15. ASSUME NEW w \in Workers, StoreIds(w), NEW c \in DOMAIN rows
       PROVE  PostsPaid(c)'
  <2>1. PICK d : d = RowOf(w)
    OBVIOUS
  <2>2. d \in DOMAIN rows /\ Stored(d, w).sync = "SYNCED"
    BY <1>15, <2>1, Executing, Rows DEF StoreIds, Stored, Row
  <2>3. rows'[c].sync # "FAILED" \/ rows[c].sync = "FAILED"
    BY <1>15, <2>1, <2>2 DEF StoreIds
  <2>4. Grows(Failed(c), Failed(c)', 0)
    BY <2>3, FailedMove
  <2>5. /\ Grows(Waiting(c), Waiting(c)', 0)
        /\ Grows(Sending(c), Sending(c)', 0)
    BY <1>15, EndMoves DEF StoreIds
  <2>6. notes' = notes /\ req' = req /\ count' = count
    BY <1>15 DEF StoreIds, prov
  <2> QED
    BY <1>4, <2>4, <2>5, <2>6, Unmoved, PaidStill
<1>16. ASSUME NEW w \in Workers, StoreFailure(w), NEW c \in DOMAIN rows
       PROVE  PostsPaid(c)'
  <2>1. Grows(Waiting(c), Waiting(c)', 0)
    BY <1>16, EndMoves DEF StoreFailure
  <2>2. notes' = notes /\ req' = req /\ count' = count
    BY <1>16 DEF StoreFailure, prov
  <2>3. CASE c = RowOf(w)
    <3>1. Grows(Sending(c), Sending(c)', -1)
      BY <1>16, <2>3, EndMoves DEF StoreFailure
    <3> QED
      BY <1>4, <2>1, <2>2, <3>1, Unmoved, FailedMove, PaidStill
  <2>4. CASE c # RowOf(w)
    <3>1. Grows(Sending(c), Sending(c)', 0) /\ rows'[c] = rows[c]
      BY <1>16, <2>4, EndMoves DEF StoreFailure
    <3> QED
      BY <1>4, <2>1, <2>2, <3>1, Unmoved, FailedMove, PaidStill
  <2> QED
    BY <2>3, <2>4
<1>17. ASSUME NEW w \in Workers, StoreThrows(w), NEW c \in DOMAIN rows
       PROVE  PostsPaid(c)'
  <2>1. /\ Fault(RowOf(w)) /\ Throw(w)
        /\ notes' = notes /\ req' = req /\ rows' = rows
    BY <1>17 DEF StoreThrows, prov
  <2>2. Grows(Sending(c), Sending(c)', 0)
    BY <2>1, ThrowMoves
  <2>3. CASE c = RowOf(w)
    <3>1. count'.faults[c] = count.faults[c] + 1
      BY <1>13, <2>1, <2>3
    <3>2. \/ Grows(Waiting(c), Waiting(c)', 0)
          \/ Grows(Waiting(c), Waiting(c)', 1)
      BY <2>1, ThrowMoves
    <3> QED
      BY <1>4, <2>1, <2>2, <3>1, <3>2, Unmoved, FailedMove, PaidStill
  <2>4. CASE c # RowOf(w)
    <3>1. /\ count'.faults[c] = count.faults[c]
          /\ Grows(Waiting(c), Waiting(c)', 0)
      BY <1>13, <2>1, <2>4, ThrowMoves
    <3> QED
      BY <1>4, <2>1, <2>2, <3>1, Unmoved, FailedMove, PaidStill
  <2> QED
    BY <2>3, <2>4
<1>18. ASSUME NEW w \in Workers, Stalled(w), NEW c \in DOMAIN rows
       PROVE  PostsPaid(c)'
  <2>1. PICK k : k = exec[w].job
    OBVIOUS
  <2>2. PICK x : x = [exec[w] EXCEPT !.owner = FALSE]
    OBVIOUS
  <2>3. x.job = exec[w].job /\ x.pc = exec[w].pc
    BY <2>2, ExecFields DEF Execution
  <2>4. exec' = [exec EXCEPT ![w] = x]
    BY <1>18, <2>2 DEF Stalled
  <2>5. Grows(Sending(c), Sending(c)', 0)
    BY <2>3, <2>4, SendingMove
  <2>6. /\ k \in JobIds /\ \E y : job' = [job EXCEPT ![k] = y]
        /\ Fault(RowOf(w)) /\ RowOf(w) = k[1]
        /\ notes' = notes /\ req' = req /\ rows' = rows
    BY <1>18, <2>1, ExecFields DEF Stalled, RowOf, prov
  <2>7. CASE c = RowOf(w)
    <3>1. count'.faults[c] = count.faults[c] + 1
      BY <1>13, <2>6, <2>7
    <3>2. Grows(Waiting(c), Waiting(c)', 1)
      BY <2>6, WaitingMove
    <3> QED
      BY <1>4, <2>5, <2>6, <3>1, <3>2, Unmoved, FailedMove, PaidStill
  <2>8. CASE c # RowOf(w)
    <3>1. /\ count'.faults[c] = count.faults[c]
          /\ Grows(Waiting(c), Waiting(c)', 0)
      BY <1>13, <2>6, <2>8, WaitingMove
    <3> QED
      BY <1>4, <2>5, <2>6, <3>1, Unmoved, FailedMove, PaidStill
  <2> QED
    BY <2>7, <2>8
<1>19. ASSUME NEW w \in Workers, WorkerDies(w), NEW c \in DOMAIN rows
       PROVE  PostsPaid(c)'
  <2>1. /\ exec' = [exec EXCEPT ![w] = NoExecution] /\ job' = job
        /\ notes' = notes /\ req' = req /\ rows' = rows /\ count' = count
    BY <1>19 DEF WorkerDies, prov
  <2>2. Grows(Sending(c), Sending(c)', 0)
    BY <2>1, Blanks, SendingMove
  <2> QED
    BY <1>4, <2>1, <2>2, Unmoved, FailedMove, PaidStill
<1>20. ASSUME ProviderActs, NEW c \in DOMAIN rows PROVE PostsPaid(c)'
  <2>1. /\ exec' = exec /\ job' = job /\ req' = req /\ rows' = rows
        /\ count' = count
    BY <1>20 DEF ProviderActs, WriteNote, ChangeNote, crit
  <2>2. notes' = notes \/ notes'[Len(notes) + 1].of = None
    <3>1. ASSUME NEW t \in NoteIds \cup {None}, WriteNote(t)
          PROVE  notes'[Len(notes) + 1].of = None
      <4>1. PICK u : u = IF t = None /\ Threaded THEN Len(notes) + 1 ELSE t
        OBVIOUS
      <4>2. PICK x : x = [of |-> None, thread |-> u]
        OBVIOUS
      <4>3. Len(notes) + 1 <= MaxNotes /\ notes' = Append(notes, x)
        BY <3>1, <4>1, <4>2 DEF WriteNote
      <4>4. x \in Note /\ x.of = None
        BY <4>1, <4>2, <4>3, Notes DEF Note, NoteIds
      <4>5. notes \in Seq(Note)
        BY DEF TypeInv, TypeOK
      <4> QED
        BY <4>3, <4>4, <4>5, AppendProperties
    <3> QED
      BY <1>20, <3>1 DEF ProviderActs, ChangeNote
  <2>3. Grows(Copies(c), Copies(c)', 0)
    BY <1>0, <1>4, <2>2, Unmoved, CopiesMove
  <2> QED
    BY <1>4, <2>1, <2>3, Unmoved, FailedMove, PaidStill
<1>21. ASSUME NEW h \in Hooks, Ingest(h), ~CreateRow(h),
              NEW c \in DOMAIN rows
       PROVE  PostsPaid(c)'
  <2>1. /\ exec' = exec /\ job' = job /\ req' = req /\ notes' = notes
        /\ rows'[c].sync = rows[c].sync
    BY <1>21, DeliveriesSync
       DEF Ingest, Deliver, RemoveRow, EditRow, LinkOwn, HookFails, prov,
           crit
  <2>2. count'.faults = count.faults
    BY <1>4, <1>21, FaultsMove
       DEF Ingest, RemoveRow, EditRow, LinkOwn, HookFails
  <2> QED
    BY <1>4, <2>1, <2>2, Unmoved, FailedMove, PaidStill
<1>22. CASE UNCHANGED vars
  <2>1. /\ exec' = exec /\ job' = job /\ req' = req /\ notes' = notes
        /\ rows' = rows /\ count' = count
    BY <1>22 DEF vars
  <2>2. ASSUME NEW c \in DOMAIN rows PROVE PostsPaid(c)'
    BY <1>4, <2>1, <2>2, Unmoved, FailedMove, PaidStill
  <2> QED
    BY <1>3, <2>1, <2>2
<1>23. ASSUME NEW r \in Requests, Api(r) PROVE PostsArePaid'
  <2>1. CASE \E p \in RowIds \cup {None} : CreateComment(r, p)
    BY <1>1, <2>1 DEF PostsArePaid
  <2>2. CASE ~\E p \in RowIds \cup {None} : CreateComment(r, p)
    <3>1. DOMAIN rows' = DOMAIN rows
      BY <1>23, <2>2
         DEF Api, EnqueueSync, EnqueueThrows, MarkFailed, RetrySync, ApiCrash
    <3>2. \A c \in DOMAIN rows : PostsPaid(c)'
      BY <1>5, <1>6, <1>7, <1>8, <1>23, <2>2 DEF Api
    <3> QED
      BY <1>3, <3>1, <3>2
  <2> QED
    BY <2>1, <2>2
<1>24. ASSUME NEW w \in Workers, Sync(w) PROVE PostsArePaid'
  <2>1. DOMAIN rows' = DOMAIN rows
    BY <1>24
       DEF Sync, TakeJob, WaitForParent, Send, SendAnswerLost, SendFails,
           StoreIds, StoreFailure, StoreThrows, Stalled, WorkerDies
  <2>2. \A c \in DOMAIN rows : PostsPaid(c)'
    BY <1>9, <1>10, <1>12, <1>14, <1>15, <1>16, <1>17, <1>18, <1>19, <1>24
       DEF Sync
  <2> QED
    BY <1>3, <2>1, <2>2
<1>25. CASE ProviderActs
  <2>1. rows' = rows
    BY <1>25 DEF ProviderActs, WriteNote, ChangeNote, crit
  <2> QED
    BY <1>3, <1>20, <1>25, <2>1
<1>26. ASSUME NEW h \in Hooks, Ingest(h) PROVE PostsArePaid'
  <2>1. CASE CreateRow(h)
    BY <1>2, <2>1 DEF PostsArePaid
  <2>2. CASE ~CreateRow(h)
    <3>1. DOMAIN rows' = DOMAIN rows
      BY <1>26, <2>2
         DEF Ingest, Deliver, RemoveRow, EditRow, LinkOwn, HookFails, crit
    <3> QED
      BY <1>3, <1>21, <1>26, <2>2, <3>1
  <2> QED
    BY <2>1, <2>2
<1> QED
  BY <1>22, <1>23, <1>24, <1>25, <1>26 DEF Next

LEMMA PaidInit == Init => PostsArePaid
  BY EmptySeq DEF Init, PostsArePaid

(* A comment is posted again only for a reason: each copy but one is paid  *)
(* for by a lost lock, a lost answer or a failed write of that comment.    *)
THEOREM RepostsArePaid == Spec => []RepostsAreForced
<1>1. Init => PostsArePaid
  BY PaidInit
<1>2. TypeInv /\ PostsArePaid /\ [Next]_vars => PostsArePaid'
  BY PaidStep
<1>3. TypeInv /\ PostsArePaid => RepostsAreForced
  <2> SUFFICES ASSUME TypeInv, PostsArePaid, NEW c \in DOMAIN rows
               PROVE  Cardinality({n \in DOMAIN notes : notes[n].of = c})
                        <= 1 + count.faults[c]
    BY DEF RepostsAreForced
  <2>1. /\ Cardinality(Copies(c)) \in Nat /\ Cardinality(Waiting(c)) \in Nat
        /\ Cardinality(Sending(c)) \in Nat /\ Cardinality(Asking(c)) \in Nat
        /\ Cardinality(Failed(c)) \in Nat
    BY Finite, FS_CardinalityType
  <2>2. count.faults[c] \in Nat
    BY FaultsMove, Rows
  <2>3. Cardinality(Copies(c)) <= 1 + count.faults[c]
    BY <2>1, <2>2 DEF PostsArePaid, PostsPaid
  <2> QED
    BY <2>3 DEF Copies
<1> QED
  BY <1>1, <1>2, <1>3, TypeCorrect, PTL DEF Spec

=============================================================================
