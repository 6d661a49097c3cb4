--------------------------- MODULE FindingLifecycle ---------------------------
(***************************************************************************)
(* What becomes of a finding from one scan of a pull request to the next.  *)
(* Commits edit a file; each scan runs the static rules on the lines its   *)
(* diff adds (analyzeDiff, dedupeFindings), carries or matches the base    *)
(* scan's findings (planFindings) and gives the rest a status; the AI step *)
(* adds its own findings, may run again, and is then merged with the       *)
(* earlier run (mergeWithPreviousRun).                                     *)
(*                                                                         *)
(* The static step of a scan is a whole step here, and scans come one      *)
(* after the other: who may run when is ScanPipeline's subject and         *)
(* AiReview's.  A run of the AI is two: it loads what it needs and plans   *)
(* its rows, and stores them later, or never, whatever was scanned and     *)
(* stored in between; it may be of any finished scan.                      *)
(*                                                                         *)
(* One file stands for all of them and two rules for the rules: one knows  *)
(* a secret by its value, one only by its line.  A line is a number that   *)
(* is never used again, and a diff keeps the lines two versions share.     *)
(***************************************************************************)
EXTENDS Integers, Sequences, FiniteSets, SequencesExt, FiniteSetsExt

CONSTANTS
    None,           \* no row
    Texts,          \* what a line may say
    Titles,         \* titles of the AI's findings
    Alike,          \* sets of similar titles of one category
    StaticLike,     \* titles of the rules' category
    Profiles,       \* what quality profiles turn off: sets of names
    Window,         \* REOPEN_WINDOW_SCANS
    ReopenDistance, \* REOPEN_LINE_DISTANCE
    LineSlack,      \* LINE_SLACK
    MaxLines,       \* bound: lines of the file
    MaxEdits,       \* bound: edits after the first version
    MaxScans,       \* bound: scans
    MaxRuns,        \* bound: AI runs
    MaxSteps        \* bound: edits, scans, a run's load and store, in all

ASSUME LifecycleAssumption ==
    /\ Texts \subseteq {"plain", "secret", "comment", "key"}
    /\ Titles \cap {"secret", "key"} = {}
    /\ Alike \subseteq SUBSET Titles /\ StaticLike \subseteq Titles
    /\ Profiles \subseteq SUBSET ({"secret", "key"} \cup Titles)
    /\ Window \in Nat /\ ReopenDistance \in Nat /\ LineSlack \in Nat
    /\ MaxLines \in Nat \ {0} /\ MaxEdits \in Nat
    /\ MaxScans \in Nat /\ MaxRuns \in Nat /\ MaxSteps \in Nat

-----------------------------------------------------------------------------
(* Types.                                                                  *)

Sources == {"STATIC", "AI"}
Statuses == {"NEW", "PERSISTED", "REOPENED", "RESOLVED"}
Names == {"secret", "key"} \cup Titles
Fingerprints == Names \X Nat

(* What a rule or the AI reports: where it is, whether it is suppressed,   *)
(* and (for the properties) which lines it was reported on.                *)
Candidate ==
    [src : Sources, fp : Fingerprints, title : Names, sev : 1..3,
     first : Int, last : Int, sup : BOOLEAN, lines : Nat \X Nat]

(* Ids are random; all a model needs is that two rows of one scan differ.  *)
RowIds == Nat \X Nat \X (Statuses \cup {"CARRIED"}) \X Fingerprints \X Int
          \X BOOLEAN

(* A stored finding: the scan that saw it first, the row it continues or   *)
(* re-opens, and whether an earlier run's was carried along (again).       *)
Row ==
    [src : Sources, fp : Fingerprints, title : Names, sev : 1..3,
     first : Int, last : Int, sup : BOOLEAN, lines : Nat \X Nat,
     id : RowIds, status : Statuses, since : Nat,
     origin : RowIds \cup {None}, again : BOOLEAN]

ASSUME NoneAssumption == None \notin Row /\ None \notin RowIds

VARIABLES
    text,           \* what each line says
    head,           \* the lines of the file at the head commit
    edits,          \* edits made so far
    scans,          \* the finished scans, in order
    runs,           \* AI runs made so far
    answers,        \* what runs have planned and not stored yet
    repeated,       \* history: some version had the same value twice
    late,           \* history: runs stored after their scan had a successor
    refused         \* history: kinds of rows the database refused

vars == <<text, head, edits, scans, runs, answers, repeated, late, refused>>

(* What the bound on steps counts.                                         *)
Steps == edits + Len(scans) + 2 * runs

-----------------------------------------------------------------------------
(* Diffs, and lines carried through them.                                  *)

(* The target branch: one line that says nothing of interest.              *)
TargetFile == <<1>>

Positions(f, lines) == {i \in DOMAIN f : f[i] \in lines}
PosOf(f, line) == CHOOSE i \in DOMAIN f : f[i] = line

(* Mutant of Added: the last line of the file is not seen.                 *)
AddedButLast(old, new) ==
    Positions(new, ToSet(new) \ ToSet(old)) \ {Len(new)}

Added(old, new) == Positions(new, ToSet(new) \ ToSet(old))

DelLine(o) == [type |-> "del", old |-> o, new |-> 0]
AddLine(n) == [type |-> "add", old |-> 0, new |-> n]
ContextLine(o, n) == [type |-> "context", old |-> o, new |-> n]

(* The hunk between two kept lines, at positions o1 and o2 of the old and  *)
(* n1 and n2 of the new version; a pure insertion names the line before.   *)
Hunk(o1, o2, n1, n2) ==
    [oldStart |-> IF o2 = o1 + 1 THEN o1 ELSE o1 + 1,
     oldCount |-> o2 - o1 - 1,
     lines |-> {DelLine(o) : o \in (o1 + 1)..(o2 - 1)}
               \cup {AddLine(n) : n \in (n1 + 1)..(n2 - 1)}]

(* The hunks without context.                                              *)
SplitHunks(old, new) ==
    LET kept == Positions(old, ToSet(new))
        At(o) == IF o = 0 THEN 0 ELSE IF o = Len(old) + 1 THEN Len(new) + 1
                 ELSE PosOf(new, old[o])
        next(o) == Min({p \in kept \cup {Len(old) + 1} : p > o})
        gaps == {Hunk(o, next(o), At(o), At(next(o))) : o \in kept \cup {0}}
    IN  {h \in gaps : h.lines # {}}

(* One hunk with the whole file as context.                                *)
WholeHunk(old, new) ==
    IF old = new THEN {}
    ELSE {[oldStart |-> IF old = << >> THEN 0 ELSE 1, oldCount |-> Len(old),
           lines |->
             {DelLine(o) : o \in Positions(old, ToSet(old) \ ToSet(new))}
             \cup {AddLine(n) : n \in Added(old, new)}
             \cup {ContextLine(o, PosOf(new, old[o])) :
                     o \in Positions(old, ToSet(new))}]}

FirstOld(h) == IF h.oldCount = 0 THEN h.oldStart + 1 ELSE h.oldStart
LastOld(h) == FirstOld(h) + h.oldCount - 1
OfType(h, type) == {l \in h.lines : l.type = type}

(* How much longer the hunks make the file.                                *)
Growth(hunks) ==
    Cardinality(UNION {OfType(h, "add") : h \in hunks})
    - Cardinality(UNION {OfType(h, "del") : h \in hunks})

(* Mutant of MapOldLine: what earlier hunks add or delete is not counted.  *)
MapOldLineInPlace(hunks, line) ==
    IF \E h \in hunks : line \in FirstOld(h)..LastOld(h) THEN {} ELSE {line}

(* mapOldLine: where an old line is in the new file; {} when it is gone.   *)
MapOldLine(hunks, line) ==
    IF \E h \in hunks : line \in FirstOld(h)..LastOld(h)
    THEN {l.new : l \in {l \in UNION {OfType(h, "context") : h \in hunks} :
                           l.old = line}}
    ELSE {line + Growth({h \in hunks : LastOld(h) < line})}

(* mapLineThroughHunks: a range survives only if every line in it does.    *)
Survives(hunks, row) ==
    \A line \in row.first..row.last : MapOldLine(hunks, line) # {}

Mapped(hunks, row) ==
    [row EXCEPT !.first = CHOOSE n \in MapOldLine(hunks, row.first) : TRUE,
                !.last = CHOOSE n \in MapOldLine(hunks, row.last) : TRUE]

-----------------------------------------------------------------------------
(* What the rules find in the added lines.                                 *)

(* A secret is recognised by its value, in code or in a comment; a key     *)
(* only by the line it is on.                                              *)
Fingerprint(file, n) ==
    IF text[file[n]] = "key" THEN <<"key", n>> ELSE <<"secret", 0>>

Suppressed(file, n) == text[file[n]] = "comment"

(* The occurrences a finding stands for: the active ones, if any.          *)
Counted(file, hits) ==
    LET active == {n \in hits : ~Suppressed(file, n)}
    IN  IF active # {} THEN active ELSE hits

(* dedupeFindings: one finding per fingerprint, over all it stands for.    *)
Prepared(file, hits) ==
    LET counted == Counted(file, hits)
    IN  [src |-> "STATIC", fp |-> Fingerprint(file, Min(hits)),
         title |-> Fingerprint(file, Min(hits))[1], sev |-> 3,
         first |-> Min(counted), last |-> Max(counted),
         sup |-> \A n \in counted : Suppressed(file, n),
         lines |-> <<file[Min(counted)], file[Max(counted)]>>]

(* The added lines a rule reports; a rule of a disabled tier does not run. *)
Hits(file, added, off) ==
    {n \in added : /\ text[file[n]] # "plain"
                   /\ Fingerprint(file, n)[1] \notin off}

(* analyzeDiff.                                                            *)
StaticCandidates(file, added, off) ==
    LET hits == Hits(file, added, off)
        keys == {Fingerprint(file, n) : n \in hits}
    IN  {Prepared(file, {n \in hits : Fingerprint(file, n) = k}) : k \in keys}

-----------------------------------------------------------------------------
(* Statuses.                                                               *)

Live(rows) == {x \in rows : x.status # "RESOLVED"}
Active(rows) == {x \in Live(rows) : ~x.sup}
OfSource(rows, src) == {x \in rows : x.src = src}

(* isFindingEnabled: the finding's tier is not one the profile turns off.  *)
Enabled(x, off) == x.title \notin off

Distance(a, b) == IF a > b THEN a - b ELSE b - a
Category(x) == IF x.src = "STATIC" \/ x.title \in StaticLike THEN "secret"
               ELSE "other"
SimilarTitle(a, b) == a = b \/ \E A \in Alike : {a, b} \subseteq A

(* isSameFinding, for findings whose fingerprints differ.                  *)
Similar(a, b) ==
    /\ a.src = b.src /\ Category(a) = Category(b)
    /\ Distance(a.first, b.first) <= ReopenDistance
    /\ SimilarTitle(a.title, b.title)

(* The order candidates are taken in: active first, then by line.          *)
Before(c, d) == \/ ~c.sup /\ d.sup
                \/ c.sup = d.sup /\ c.first < d.first

(* Mutant of LoadBase: what is suppressed is not continued.                *)
LoadBaseActive(s, off) ==
    IF s = 1 THEN {} ELSE {x \in Active(scans[s - 1].rows) : Enabled(x, off)}

(* loadBaseFindings, and the filter of both its callers: what is still     *)
(* live of the scan before this one, and of a tier that is on.             *)
LoadBase(s, off) ==
    IF s = 1 THEN {} ELSE {x \in Live(scans[s - 1].rows) : Enabled(x, off)}

(* What a candidate may be matched with: matchFullAgainstBase goes by the  *)
(* fingerprint alone, findReopened falls back on similarity.               *)
SameFingerprint(c, pool) == {x \in pool : x.fp = c.fp}

Matching(c, pool, orSimilar) ==
    IF SameFingerprint(c, pool) # {} \/ ~orSimilar
    THEN SameFingerprint(c, pool) ELSE {x \in pool : Similar(c, x)}

(* Each candidate in turn takes one of its matches among what is left of   *)
(* the pool; the pool comes from the database in no order.                 *)
Assignments(cands, pool, orSimilar) ==
    {f \in [cands -> pool \cup {None}] :
        \A c \in cands :
            LET left == pool \ {f[d] : d \in {d \in cands : Before(d, c)}}
                found == Matching(c, left, orSimilar)
            IN  f[c] \in IF found = {} THEN {None} ELSE found}

RowId(s, run, status, x) == <<s, run, status, x.fp, x.first, x.sup>>

(* The row of scan s that continues or closes a row of its base.           *)
FromStored(x, s, run, status) ==
    [x EXCEPT !.id = RowId(s, run, status, x), !.status = status,
              !.origin = x.id]

(* Mutant of FromCandidate: what is continued looks new.                   *)
FromCandidateNew(c, s, run, status, x) ==
    [src |-> c.src, fp |-> c.fp, title |-> c.title, sev |-> c.sev,
     first |-> c.first, last |-> c.last, sup |-> c.sup, lines |-> c.lines,
     id |-> RowId(s, run, status, c), status |-> status, since |-> s,
     origin |-> IF x = None THEN None ELSE x.id, again |-> FALSE]

(* The row of scan s for a candidate, that continues or re-opens x.        *)
FromCandidate(c, s, run, status, x) ==
    [src |-> c.src, fp |-> c.fp, title |-> c.title, sev |-> c.sev,
     first |-> c.first, last |-> c.last, sup |-> c.sup, lines |-> c.lines,
     id |-> RowId(s, run, status, c), status |-> status,
     since |-> IF x = None THEN s ELSE x.since,
     origin |-> IF x = None THEN None ELSE x.id, again |-> FALSE]

DropPersistedDuplicates(cands, known) ==
    {c \in cands : c.fp \notin {x.fp : x \in known}}

(* planFindings: the sets of rows it may give.  `carry` goes through the   *)
(* hunks, `match` is matched by fingerprint, `already` is in the scan.     *)
PlanFindings(s, run, candidates, carry, hunks, match, already, pool) ==
    LET persisted == {x \in carry : Survives(hunks, x)}
        carried ==
            {FromStored(Mapped(hunks, x), s, run, "PERSISTED") :
                x \in persisted}
            \cup {FromStored(x, s, run, "RESOLVED") : x \in carry \ persisted}
        cands == DropPersistedDuplicates(candidates, persisted)
    IN  UNION {
          LET matched ==
                  {FromCandidate(c, s, run, "PERSISTED", m[c]) :
                      c \in {c \in cands : m[c] # None}}
              unmatched ==
                  {FromStored(x, s, run, "RESOLVED") :
                      x \in match \ {m[c] : c \in cands}}
              fresh == DropPersistedDuplicates(
                           {c \in cands : m[c] = None}, already)
              closed == {x \in carried : x.status = "RESOLVED"} \cup unmatched
          IN  {carried \cup matched \cup unmatched
               \cup {FromCandidate(c, s, run,
                        IF r[c] = None THEN "NEW" ELSE "REOPENED", r[c]) :
                        c \in fresh} :
                  r \in Assignments(fresh, pool \cup closed, TRUE)} :
          m \in Assignments(cands, match, FALSE)}

(* The last scans but this one, as many as the window takes: for a run of  *)
(* an earlier scan, later ones too.                                        *)
Recent(s) ==
    LET others == DOMAIN scans \ {s}
    IN  {n \in others : Cardinality({m \in others : m > n}) < Window}

(* Mutant of RecentResolved: the AI's own resolved rows are in the pool.   *)
RecentResolvedAll(s, own, excluded) ==
    (UNION {scans[n].rows \ Live(scans[n].rows) : n \in Recent(s)})
    \cup (own \ Live(own))

(* loadRecentResolved: the window's resolved rows and this scan's own,     *)
(* except those of a source that is about to be rewritten.                 *)
RecentResolved(s, own, excluded) ==
    (UNION {scans[n].rows \ Live(scans[n].rows) : n \in Recent(s)})
    \cup {x \in own \ Live(own) : x.src \notin excluded}

-----------------------------------------------------------------------------
(* A comparable run of the AI on the same commit (regenerate-merge.ts).    *)

Higher(a, b) == IF a > b THEN a ELSE b

(* Mutant of Severity: the last run decides.                               *)
SeverityLatest(earlier, latest) == latest

(* Two runs disagree: the finding keeps the higher severity.               *)
Severity(earlier, latest) == Higher(earlier, latest)

(* The earlier finding a row repeats; {} when there is none.               *)
Repeated(x, previous) ==
    IF \E e \in previous : e.id = x.origin
    THEN {e \in previous : e.id = x.origin}
    ELSE Matching(x, previous, TRUE)

(* carried: what this run did not repeat.                                  *)
CarriedAgain(s, run, e, kind) ==
    [e EXCEPT !.id = RowId(s, run, "CARRIED", e), !.again = TRUE,
              !.status = IF kind = "same_scan" THEN e.status ELSE "PERSISTED",
              !.origin = IF kind = "same_scan" THEN e.origin ELSE e.id]

(* A row that repeats the earlier finding e.                               *)
MergedRow(x, e, kind) ==
    LET joined == [x EXCEPT !.sev = Severity(e.sev, x.sev)]
    IN  IF kind = "base_scan" /\ x.origin # e.id
        THEN [joined EXCEPT !.status = "PERSISTED", !.origin = e.id,
                            !.since = e.since]
        ELSE joined

(* Each row takes an earlier finding in turn, the run's own rows first.    *)
Matches(reported, previous) ==
    LET orders == {o \in SetToSeqs(reported) :
                     \A i, j \in DOMAIN o :
                        i < j => ~(o[i].again /\ ~o[j].again)}
        takes(f, o, i) ==
            LET left == previous \ {f[o[j]] : j \in 1..(i - 1)}
                best == Repeated(o[i], left)
            IN  f[o[i]] \in IF best = {} THEN {None} ELSE best
    IN  {f \in [reported -> previous \cup {None}] :
            \E o \in orders : \A i \in DOMAIN o : takes(f, o, i)}

(* mergeWithPreviousRun: the sets of rows it may give.                     *)
MergeWithPrevious(s, run, rows, previous, kind) ==
    LET closesAgain(x) == /\ kind = "base_scan" /\ x.status = "RESOLVED"
                          /\ \E e \in previous : e.id = x.origin
        own == {x \in rows : ~closesAgain(x)}
        reported == OfSource(Active(own), "AI")
    IN  {(own \ reported)
         \cup {IF f[x] = None THEN x ELSE MergedRow(x, f[x], kind) :
                  x \in reported}
         \cup {CarriedAgain(s, run, e, kind) :
                  e \in previous \ {f[x] : x \in reported}} :
            f \in Matches(reported, previous)}

-----------------------------------------------------------------------------
(* Commits.                                                                *)

(* Two lines of one version that the rules can take for one another.       *)
SameKeyTwice(file, says) ==
    \E i, j \in DOMAIN file : /\ i # j
        /\ \/ {says[file[i]], says[file[j]]} \subseteq {"secret", "comment"}
           \/ {says[file[i]], says[file[j]]} = {"key"}

NewHead(file, says) ==
    /\ head' = file
    /\ edits' = edits + 1
    /\ repeated' = (repeated \/ SameKeyTwice(file, says))
    /\ UNCHANGED <<scans, runs, answers, late, refused>>

(* A line is added before position p.                                      *)
Insert ==
    /\ edits < MaxEdits /\ Steps < MaxSteps /\ Len(head) < MaxLines
    /\ \E p \in 1..(Len(head) + 1), t \in Texts :
          /\ text' = Append(text, t)
          /\ NewHead(InsertAt(head, p, Len(text) + 1), text')

(* A line is deleted.                                                      *)
Delete ==
    /\ edits < MaxEdits /\ Steps < MaxSteps
    /\ \E p \in DOMAIN head :
          /\ text' = text
          /\ NewHead(RemoveAt(head, p), text)

-----------------------------------------------------------------------------
(* Scans.                                                                  *)

(* The version a scan's diff starts from: a FULL scan reads the pull       *)
(* request's own diff, an INCREMENTAL one what changed since its base.     *)
DiffBase(mode, base) == IF mode = "FULL" THEN TargetFile ELSE base.head

(* The static step of the next scan (ScanProcessor, steps 2 to 7), under   *)
(* the tiers that are on when it is queued.  It loads its base some awaits *)
(* before it stores; a run that rewrites the base in between either        *)
(* deletes a row that this scan carries, and then the foreign key refuses  *)
(* the attempt, or is one that stores after this step.                     *)
StaticScan ==
    /\ Len(scans) < MaxScans /\ Steps < MaxSteps
    /\ LET s == Len(scans) + 1
       IN  \E off \in Profiles :
           \E mode \in IF s = 1 \/ (s > 1 /\ scans[s - 1].off # off)
                       THEN {"FULL"} ELSE {"FULL", "INCREMENTAL"} :
             LET known == LoadBase(s, off)
                 old == DiffBase(mode, IF s = 1 THEN [head |-> head]
                                       ELSE scans[s - 1])
                 carry == IF mode = "INCREMENTAL" THEN known ELSE {}
                 match == IF mode = "FULL" THEN OfSource(known, "STATIC")
                          ELSE {}
             IN  \E hunks \in {SplitHunks(old, head), WholeHunk(old, head)} :
                 \E rows \in PlanFindings(s, 0,
                        StaticCandidates(head, Added(old, head), off),
                        carry, hunks, match, {}, RecentResolved(s, {}, {})) :
                   scans' = Append(scans, [head |-> head, mode |-> mode,
                                           off |-> off, rows |-> rows,
                                           ai |-> FALSE])
    /\ UNCHANGED <<text, head, edits, runs, answers, repeated, late, refused>>

(* Lines a finding of the AI may point at: added ones and their neighbours. *)
Reviewable(file, added) ==
    {n \in DOMAIN file : \E a \in added : Distance(a, n) <= 1}

(* Findings of the AI the answer may hold, once validated; none or one.    *)
AiFindings(file, added, off) ==
    {[src |-> "AI", fp |-> <<t, 0>>, title |-> t, sev |-> v, first |-> n,
      last |-> n, sup |-> FALSE, lines |-> <<file[n], file[n]>>] :
        t \in Titles \ off, v \in 2..3, n \in Reviewable(file, added)}

Overlaps(a, x) ==
    /\ Category(a) = Category(x)
    /\ a.first <= x.last + LineSlack /\ a.last >= x.first - LineSlack

(* dedupeAiFindings: an active static finding there makes the AI's a       *)
(* duplicate, a suppressed one suppresses it.                              *)
Deduped(static, a) ==
    IF \E x \in Active(static) : Overlaps(a, x) THEN {}
    ELSE {[a EXCEPT !.sup = \E x \in static : Overlaps(a, x)]}

(* buildAiRows.                                                            *)
AiRows(s, run, kept) ==
    LET scan == scans[s]
        own == scan.rows
        full == scan.mode = "FULL"
    IN  PlanFindings(s, run, kept, {}, {},
           IF full THEN OfSource(LoadBase(s, scan.off), "AI") ELSE {},
           IF full THEN {}
           ELSE {x \in OfSource(own, "AI") : x.status = "PERSISTED"},
           RecentResolved(s, own, IF full THEN {"AI"} ELSE {}))

(* persistAiResult: the rows of an earlier run, which this run's replace.  *)
EarlierRun(s) ==
    {x \in OfSource(scans[s].rows, "AI") :
        scans[s].mode = "FULL" \/ x.status \in {"NEW", "REOPENED"}}

(* The AI's findings a comparable run must not lose: those of the base,    *)
(* scanned at the same commit under the same tiers (comparableBaseRun).    *)
BaseRun(s) ==
    IF /\ scans[s].mode = "FULL" /\ s > 1
       /\ scans[s - 1].head = scans[s].head /\ scans[s - 1].off = scans[s].off
    THEN OfSource(Active(LoadBase(s, scans[s].off)), "AI") ELSE {}

(* What the AI may answer about a scan, deduplicated.                      *)
Reports(s) ==
    LET file == scans[s].head
        old == DiffBase(scans[s].mode,
                        IF s = 1 THEN scans[s] ELSE scans[s - 1])
        static == OfSource(Live(scans[s].rows), "STATIC")
    IN  {{}} \cup {Deduped(static, a) :
                      a \in AiFindings(file, Added(old, file), scans[s].off)}

(* A run of the AI on a finished scan has its answer, loads what it        *)
(* compares it with and plans its rows.  `based`: the base scan was        *)
(* reviewed by a comparable run; `own`: so was this scan when the job was  *)
(* queued (mergePrevious).  It reads the versions of scans only, so a      *)
(* commit made before it would change nothing: the model lets it run       *)
(* before the next commit, and store then too.                             *)
AiLoad ==
    /\ runs < MaxRuns /\ Steps + 2 <= MaxSteps
    /\ scans # << >> /\ head = scans[Len(scans)].head
    /\ \E s \in DOMAIN scans, own, based \in BOOLEAN :
         /\ own => scans[s].ai \/ \E a \in answers : a.scan = s
         /\ based => BaseRun(s) # {}
         /\ \E kept \in Reports(s) : \E planned \in AiRows(s, runs + 1, kept) :
            \E rows \in IF based
                        THEN MergeWithPrevious(s, runs + 1, planned,
                                               BaseRun(s), "base_scan")
                        ELSE {planned} :
              answers' = answers \cup
                  {[scan |-> s, run |-> runs + 1, rows |-> rows, own |-> own,
                    based |-> based, missed |-> {}]}
    /\ runs' = runs + 1
    /\ UNCHANGED <<text, head, edits, scans, repeated, late, refused>>

(* onDelete SetNull: a row that stays forgets an origin that goes.         *)
Unlinked(x, gone) ==
    IF x.origin \in gone THEN [x EXCEPT !.origin = None] ELSE x

(* The scans once a run's rows have replaced the earlier run's.            *)
Rewritten(s, rows) ==
    LET gone == {x.id : x \in EarlierRun(s)}
    IN  [n \in DOMAIN scans |->
           [scans[n] EXCEPT !.ai = @ \/ n = s,
               !.rows = {Unlinked(x, gone) : x \in @ \ EarlierRun(s)}
                        \cup (IF n = s THEN rows ELSE {})]]

(* A row whose origin is not stored: the foreign key refuses it, and with  *)
(* it everything the run was about to write.                               *)
Orphan(x, all) ==
    /\ x.origin # None
    /\ ~\E n \in DOMAIN all : \E y \in all[n].rows : y.id = x.origin

(* What is refused.  A row is stale if another run has rewritten the scan  *)
(* of its origin since this run loaded it.                                 *)
Kind(x, a) ==
    IF x.origin[1] # a.scan /\ x.origin[1] \in a.missed THEN "stale"
    ELSE IF x.again THEN "carried"
    ELSE IF x.sup THEN "suppressed" ELSE "reported"

(* A run stores its rows in one transaction (persistAiResult), and merges  *)
(* them there with those it replaces if it is to.                          *)
AiStore ==
    /\ scans # << >> /\ head = scans[Len(scans)].head
    /\ \E a \in answers :
       \E rows \in IF a.own
                   THEN MergeWithPrevious(a.scan, a.run, a.rows,
                            Active(EarlierRun(a.scan)), "same_scan")
                   ELSE {a.rows} :
          LET all == Rewritten(a.scan, rows)
              orphans == {x \in rows : Orphan(x, all)}
              waiting == answers \ {a}
          IN  IF orphans # {}
              THEN /\ refused' = refused \cup {Kind(x, a) : x \in orphans}
                   /\ answers' = waiting
                   /\ UNCHANGED <<scans, late>>
              ELSE /\ scans' = all
                   /\ answers' = {[b EXCEPT !.missed = @ \cup {a.scan}] :
                                     b \in waiting}
                   /\ late' = IF a.scan = Len(scans) THEN late
                              ELSE late \cup {<<a.run, a.scan>>}
                   /\ UNCHANGED refused
    /\ UNCHANGED <<text, head, edits, runs, repeated>>

(* The pull request opens with one line added after the target's.          *)
Init ==
    /\ \E t \in Texts : text = <<"plain", t>>
    /\ head = <<1, 2>>
    /\ edits = 0 /\ scans = << >> /\ runs = 0 /\ answers = {}
    /\ repeated = FALSE /\ late = {} /\ refused = {}

Next == Insert \/ Delete \/ StaticScan \/ AiLoad \/ AiStore

Spec == Init /\ [][Next]_vars

-----------------------------------------------------------------------------
(* Properties.                                                             *)

Rows == UNION {scans[s].rows : s \in DOMAIN scans}

(* Types of the variables.                                                 *)
TypeOK ==
    /\ text \in Seq(Texts \cup {"plain"})
    /\ ToSet(head) \subseteq DOMAIN text /\ IsInjective(head)
    /\ edits \in 0..MaxEdits /\ runs \in 0..MaxRuns
    /\ Len(scans) <= MaxScans /\ repeated \in BOOLEAN
    /\ late \subseteq (1..runs) \X DOMAIN scans
    /\ refused \subseteq {"stale", "carried", "suppressed", "reported"}
    /\ Rows \subseteq Row
    /\ \A a \in answers : /\ a.scan \in DOMAIN scans /\ a.run \in 1..runs
                         /\ a.rows \subseteq Row
                         /\ a.missed \subseteq DOMAIN scans

(* A live finding stands on the lines it was reported on: however many     *)
(* scans carried it through diffs, it never points at another line         *)
(* (mapLineThroughHunks, carryForward).                                    *)
AtItsLine ==
    \A s \in DOMAIN scans : \A x \in Live(scans[s].rows) :
        /\ x.last \in DOMAIN scans[s].head
        /\ scans[s].head[x.first] = x.lines[1]
        /\ scans[s].head[x.last] = x.lines[2]

Covered(s, line) ==
    \E x \in Active(OfSource(scans[s].rows, "STATIC")) :
        PosOf(scans[s].head, line) \in x.first..x.last

ActiveHits(s, rules) ==
    {line \in ToSet(scans[s].head) \ ToSet(TargetFile) : text[line] \in rules}

(* A secret the pull request adds is an active static finding in every     *)
(* scan of a version that holds it and that runs its rule, whatever the    *)
(* modes of the scans, the profiles and the commits between them, as long  *)
(* as no version ever held two lines of one rule's.                        *)
UniqueHitsReported ==
    ~repeated =>
        \A s \in DOMAIN scans :
        \A line \in ActiveHits(s, {"secret", "key"} \ scans[s].off) :
            Covered(s, line)

(* No finding leaves a pull request silently: each live finding of a scan  *)
(* has a row in the next one, that continues it or closes it; the AI's     *)
(* after a FULL scan, once the AI step has run.  Three may have none: one  *)
(* of a tier that was turned off (scan.processor.ts:230), one of a run     *)
(* that was stored when the next scan was there already, and a suppressed  *)
(* one of the AI's, whose row an active one that repeats it may take.      *)
NeverDropped ==
    \A s \in DOMAIN scans \ {1} : \A x \in scans[s - 1].rows :
        \/ x.status = "RESOLVED" \/ ~Enabled(x, scans[s].off)
        \/ /\ x.src = "AI"
           /\ \/ x.sup \/ <<x.id[2], s - 1>> \in late
              \/ scans[s].mode = "FULL" /\ ~scans[s].ai
        \/ \E y \in scans[s].rows : y.origin = x.id

(* lifecycle-context.ts:57: a run of a FULL scan "rewrites its RESOLVED     *)
(* rows on every run, so it must not point a REOPENED row at one it is     *)
(* about to delete".  Nor may it carry one along that does.                *)
CarriedStorable == "carried" \notin refused

(* The plan of a run is refused for a finding that the run reports and     *)
(* does not suppress only if another run has rewritten an earlier or later *)
(* scan's findings between its load and its transaction: whatever it does  *)
(* to its own scan, it points only at rows that outlive it                 *)
(* (loadRecentResolved, mergeWithPreviousRun).                             *)
ReportedStorable == "reported" \notin refused

(* The history of a finding is whole: the row it continues or re-opens is  *)
(* still stored, however often the AI step has rewritten its rows, it is   *)
(* one row, and both say the same of when the finding was first seen.      *)
(* Only a finding of the AI's may forget its origin (schema.prisma:688),   *)
(* and only when a run was stored late, into its scan or an earlier one.   *)
HistoryWhole ==
    \A x \in Rows :
        /\ \A y \in Rows : y.id = x.id => y = x
        /\ IF x.origin = None
           THEN \/ x.since = x.id[1]
                \/ x.src = "AI" /\ \E l \in late : l[2] <= x.id[1]
           ELSE \E y \in Rows : y.id = x.origin /\ y.since = x.since

(* Each of these active findings of the AI's is among the rows, at the     *)
(* same severity or a higher one.                                          *)
AreKept(earlier, rows) ==
    \A x \in OfSource(Active(earlier), "AI") :
        \E y \in OfSource(Active(rows), "AI") :
            /\ y.sev >= x.sev
            /\ y.fp = x.fp \/ y.origin = x.id \/ Similar(x, y)

(* A comparable run of the AI never loses an active finding of the base's  *)
(* run of the same commit, nor one that its own scan holds when it stores, *)
(* nor what it reports itself, and lowers no severity (regenerate-merge).  *)
RerunKeeps ==
    [][/\ runs' # runs => \A a \in answers' \ answers :
            a.based => AreKept(BaseRun(a.scan), a.rows)
       /\ \A a \in answers :
            scans' # scans /\ a.run \notin {b.run : b \in answers'} =>
              /\ AreKept(a.rows, scans'[a.scan].rows)
              /\ a.own =>
                    AreKept(scans[a.scan].rows, scans'[a.scan].rows)]_vars
=============================================================================
