---------------------- MODULE FindingLifecycleProofs ----------------------
(***************************************************************************)
(* Proofs about FindingLifecycle: what its runs show on small instances,   *)
(* for files, commits, scans and runs of the AI of any number, and for any *)
(* titles, distances and windows.                                          *)
(*                                                                         *)
(* The order is that of the argument: sequences and diffs (mapOldLine is   *)
(* exact), what planFindings and mergeWithPreviousRun return, the          *)
(* inductive invariant, that a commit, the static step, and the load and   *)
(* the store of a run of the AI each keep it, and what it says of the      *)
(* properties.                                                             *)
(***************************************************************************)
EXTENDS FindingLifecycle, FiniteSetTheorems, SequenceTheorems,
        NaturalsInduction, TLAPS

(* A set of natural numbers has a least one, a bounded one a greatest.     *)
LEMMA LeastOf ==
  ASSUME NEW S \in SUBSET Nat, S # {}
  PROVE  Min(S) \in S /\ \A y \in S : Min(S) <= y
<1> DEFINE R == {ss \in Nat \X Nat : ss[1] < ss[2]}
<1>1. IsWellFoundedOn(R, Nat)
  BY NatLessThanWellFounded DEF OpToRel
<1>2. PICK x \in S : \A y \in S : ~ (<<y, x>> \in R)
  <2> HIDE DEF R
  <2> QED BY <1>1, WFMin
<1>3. ASSUME NEW y \in S PROVE x <= y
  <2>1. CASE y < x
    <3>1. x \in Nat /\ y \in Nat
      OBVIOUS
    <3>2. <<y, x>> \in R
      BY <2>1, <3>1
    <3> QED
      BY <1>2, <3>2
  <2> QED
    BY <2>1
<1> QED
  BY <1>3 DEF Min

(* A bounded set of natural numbers has a greatest one.                    *)
LEMMA GreatestOf ==
  ASSUME NEW n \in Nat, NEW S \in SUBSET (0..n), S # {}
  PROVE  Max(S) \in S /\ \A y \in S : y <= Max(S)
<1> DEFINE T == {m \in 0..n : n - m \in S}
<1>1. T \in SUBSET Nat /\ T # {}
  <2>1. PICK y \in S : TRUE
    OBVIOUS
  <2>2. n - (n - y) = y /\ n - y \in 0..n
    OBVIOUS
  <2>3. n - y \in T
    BY <2>2
  <2>4. T \subseteq 0..n /\ 0..n \subseteq Nat
    OBVIOUS
  <2> HIDE DEF T
  <2> QED
    BY <2>3, <2>4
<1>2. Min(T) \in T /\ \A m \in T : Min(T) <= m
  BY <1>1, LeastOf
<1>3. \A y \in S : n - y \in T /\ n - (n - y) = y
  OBVIOUS
<1>4. \A y \in S : y <= n - Min(T)
  BY <1>2, <1>3
<1> QED
  BY <1>2, <1>4 DEF Max

(* What InsertAt and RemoveAt make of a file, line by line.                *)
LEMMA Joined ==
  ASSUME NEW a \in Seq(Nat), NEW c \in Seq(Nat)
  PROVE  /\ a \o c \in Seq(Nat) /\ Len(a \o c) = Len(a) + Len(c)
         /\ \A i \in 1..Len(a) : (a \o c)[i] = a[i]
         /\ \A i \in 1..Len(c) : (a \o c)[Len(a) + i] = c[i]
<1>1. /\ a \o c \in Seq(Nat) /\ Len(a \o c) = Len(a) + Len(c)
      /\ \A i \in 1..(Len(a) + Len(c)) :
           (a \o c)[i] = IF i <= Len(a) THEN a[i] ELSE c[i - Len(a)]
  BY ConcatProperties
<1>2. Len(a) \in Nat /\ Len(c) \in Nat
  BY LenProperties
<1>3. ASSUME NEW i \in 1..Len(a) PROVE (a \o c)[i] = a[i]
  BY <1>1, <1>2
<1>4. ASSUME NEW i \in 1..Len(c) PROVE (a \o c)[Len(a) + i] = c[i]
  <2>1. /\ Len(a) + i \in 1..(Len(a) + Len(c)) /\ ~(Len(a) + i <= Len(a))
        /\ (Len(a) + i) - Len(a) = i
    BY <1>2
  <2> QED
    BY <1>1, <2>1
<1> QED
  BY <1>1, <1>3, <1>4

InsertionOf(g, f, p, e) ==
    /\ g \in Seq(Nat) /\ Len(g) = Len(f) + 1
    /\ \A i \in 1..(p - 1) : g[i] = f[i]
    /\ g[p] = e
    /\ \A i \in p..Len(f) : g[i + 1] = f[i]

(* InsertAt: what comes after the inserted line moves down by one.         *)
LEMMA Inserted ==
  ASSUME NEW f \in Seq(Nat), NEW p \in 1..(Len(f) + 1), NEW e \in Nat,
         NEW g, g = InsertAt(f, p, e)
  PROVE  InsertionOf(g, f, p, e)
<1> DEFINE a == SubSeq(f, 1, p - 1)
           b == a \o <<e>>
           c == SubSeq(f, p, Len(f))
<1>1. /\ a \in Seq(Nat) /\ Len(a) = p - 1
      /\ \A i \in 1..(p - 1) : a[i] = f[i]
  OBVIOUS
<1>2. /\ c \in Seq(Nat) /\ Len(c) = Len(f) + 1 - p
      /\ \A i \in 1..(Len(f) + 1 - p) : c[i] = f[p + i - 1]
  OBVIOUS
<1>3. /\ b \in Seq(Nat) /\ Len(b) = p
      /\ \A i \in 1..(p - 1) : b[i] = f[i]
      /\ b[p] = e
  <2> DEFINE d == <<e>>
  <2>1. d \in Seq(Nat) /\ Len(d) = 1 /\ d[1] = e
    OBVIOUS
  <2>2. p - 1 \in Nat /\ 1 \in Nat /\ 1 \in 1..1 /\ (p - 1) + 1 = p
    OBVIOUS
  <2>3. b = a \o d
    OBVIOUS
  <2> HIDE DEF a, b, d
  <2>4. /\ a \o d \in Seq(Nat) /\ Len(a \o d) = (p - 1) + 1
        /\ \A i \in 1..(p - 1) : (a \o d)[i] = a[i]
        /\ \A i \in 1..1 : (a \o d)[(p - 1) + i] = d[i]
    <3>1. /\ a \o d \in Seq(Nat) /\ Len(a \o d) = Len(a) + Len(d)
          /\ \A i \in 1..Len(a) : (a \o d)[i] = a[i]
          /\ \A i \in 1..Len(d) : (a \o d)[Len(a) + i] = d[i]
      BY <1>1, <2>1, Joined
    <3> QED
      BY <1>1, <2>1, <3>1
  <2> QED
    BY <1>1, <2>1, <2>2, <2>3, <2>4
<1>p. p \in 1..p
  OBVIOUS
<1> HIDE DEF b, c
<1>4. /\ g \in Seq(Nat) /\ Len(g) = Len(f) + 1
      /\ \A i \in 1..p : g[i] = b[i]
      /\ \A i \in 1..(Len(f) + 1 - p) : g[p + i] = c[i]
  <2>1. g = b \o c
    BY DEF InsertAt, b, c
  <2>2. /\ p \in Nat /\ Len(f) + 1 - p \in Nat
        /\ p + (Len(f) + 1 - p) = Len(f) + 1
    OBVIOUS
  <2>3. /\ b \o c \in Seq(Nat) /\ Len(b \o c) = p + (Len(f) + 1 - p)
        /\ \A i \in 1..p : (b \o c)[i] = b[i]
        /\ \A i \in 1..(Len(f) + 1 - p) : (b \o c)[p + i] = c[i]
    <3>1. /\ b \o c \in Seq(Nat) /\ Len(b \o c) = Len(b) + Len(c)
          /\ \A i \in 1..Len(b) : (b \o c)[i] = b[i]
          /\ \A i \in 1..Len(c) : (b \o c)[Len(b) + i] = c[i]
      BY <1>2, <1>3, Joined
    <3> QED
      BY <1>2, <1>3, <3>1
  <2> QED
    BY <2>1, <2>2, <2>3
<1>5. ASSUME NEW i \in p..Len(f) PROVE g[i + 1] = f[i]
  <2>1. i - p + 1 \in 1..(Len(f) + 1 - p) /\ p + (i - p + 1) = i + 1
        /\ p + (i - p + 1) - 1 = i
    OBVIOUS
  <2> QED
    BY <1>2, <1>4, <2>1
<1> QED
  BY <1>p, <1>3, <1>4, <1>5 DEF InsertionOf

(* RemoveAt: what comes after the deleted line moves up by one.            *)
LEMMA Removed ==
  ASSUME NEW f \in Seq(Nat), NEW p \in DOMAIN f, NEW g, g = RemoveAt(f, p)
  PROVE  /\ g \in Seq(Nat) /\ Len(g) = Len(f) - 1
         /\ \A i \in 1..(p - 1) : g[i] = f[i]
         /\ \A i \in p..(Len(f) - 1) : g[i] = f[i + 1]
<1> DEFINE a == SubSeq(f, 1, p - 1)
           c == SubSeq(f, p + 1, Len(f))
<1>1. /\ a \in Seq(Nat) /\ Len(a) = p - 1
      /\ \A i \in 1..(p - 1) : a[i] = f[i]
  OBVIOUS
<1>2. /\ c \in Seq(Nat) /\ Len(c) = Len(f) - p
      /\ \A i \in 1..(Len(f) - p) : c[i] = f[p + i]
  OBVIOUS
<1> HIDE DEF a, c
<1>3. /\ g \in Seq(Nat) /\ Len(g) = Len(f) - 1
      /\ \A i \in 1..(p - 1) : g[i] = a[i]
      /\ \A i \in 1..(Len(f) - p) : g[(p - 1) + i] = c[i]
  <2>1. g = a \o c
    BY DEF RemoveAt, a, c
  <2>2. p - 1 \in Nat /\ Len(f) - p \in Nat
        /\ (p - 1) + (Len(f) - p) = Len(f) - 1
    OBVIOUS
  <2>3. /\ a \o c \in Seq(Nat) /\ Len(a \o c) = (p - 1) + (Len(f) - p)
        /\ \A i \in 1..(p - 1) : (a \o c)[i] = a[i]
        /\ \A i \in 1..(Len(f) - p) : (a \o c)[(p - 1) + i] = c[i]
    <3>1. /\ a \o c \in Seq(Nat) /\ Len(a \o c) = Len(a) + Len(c)
          /\ \A i \in 1..Len(a) : (a \o c)[i] = a[i]
          /\ \A i \in 1..Len(c) : (a \o c)[Len(a) + i] = c[i]
      BY <1>1, <1>2, Joined
    <3> QED
      BY <1>1, <1>2, <3>1
  <2> QED
    BY <2>1, <2>2, <2>3
<1>4. ASSUME NEW i \in p..(Len(f) - 1) PROVE g[i] = f[i + 1]
  <2> DEFINE j == i - p + 1
  <2>1. j \in 1..(Len(f) - p) /\ (p - 1) + j = i /\ p + j = i + 1
    OBVIOUS
  <2>2. g[(p - 1) + j] = c[j] /\ c[j] = f[p + j]
    BY <1>2, <1>3, <2>1
  <2> QED
    BY <2>1, <2>2
<1> QED
  BY <1>1, <1>3, <1>4

-----------------------------------------------------------------------------
(* Versions and diffs.                                                     *)

(* A version of the file; two versions have the lines they share in one    *)
(* order.                                                                  *)
Version(f) == f \in Seq(Nat) /\ IsInjective(f)

SameOrder(f, g) ==
    \A a, b \in DOMAIN f, i, j \in DOMAIN g :
        f[a] = g[i] /\ f[b] = g[j] /\ a < b => i < j

(* A line of a version has one position.                                   *)
LEMMA PositionOf ==
  ASSUME NEW f, Version(f)
  PROVE  /\ \A i \in DOMAIN f : PosOf(f, f[i]) = i
         /\ \A line \in ToSet(f) :
              PosOf(f, line) \in DOMAIN f /\ f[PosOf(f, line)] = line
         /\ \A S : Positions(f, S) \subseteq 1..Len(f)
  BY DEF Version, IsInjective, PosOf, ToSet, Positions

(* The parts of SplitHunks: the lines both versions have, the next of      *)
(* them after o, and where one is in the new version.                      *)
Kept(old, new) == Positions(old, ToSet(new))
Bounds(old, new) == Kept(old, new) \cup {0, Len(old) + 1}
NextKept(old, new, o) ==
    Min({p \in Kept(old, new) \cup {Len(old) + 1} : p > o})
NewPos(old, new, o) ==
    IF o = 0 THEN 0 ELSE IF o = Len(old) + 1 THEN Len(new) + 1
    ELSE PosOf(new, old[o])
Gap(old, new, o) ==
    Hunk(o, NextKept(old, new, o), NewPos(old, new, o),
         NewPos(old, new, NextKept(old, new, o)))

(* The hunks of a diff without context are the gaps that are not empty.    *)
LEMMA SplitGaps ==
  ASSUME NEW old, NEW new, NEW h
  PROVE  h \in SplitHunks(old, new) <=>
           \E o \in Kept(old, new) \cup {0} :
              h = Gap(old, new, o) /\ h.lines # {}
  BY DEF SplitHunks, Kept, NextKept, NewPos, Gap

(* The next kept line after o, or the end of the file.                     *)
LEMMA NextIs ==
  ASSUME NEW old, NEW new, Version(old), NEW o \in 0..Len(old)
  PROVE  /\ NextKept(old, new, o) \in Kept(old, new) \cup {Len(old) + 1}
         /\ NextKept(old, new, o) > o
         /\ \A p \in Kept(old, new) : p > o => NextKept(old, new, o) <= p
         /\ NextKept(old, new, o) \in Nat
         /\ NextKept(old, new, o) <= Len(old) + 1
<1> DEFINE S == {p \in Kept(old, new) \cup {Len(old) + 1} : p > o}
<1>1. Kept(old, new) \subseteq 1..Len(old) /\ Len(old) \in Nat
  BY PositionOf DEF Kept, Version
<1>2. S \in SUBSET Nat /\ Len(old) + 1 \in S
  BY <1>1
<1>3. Min(S) \in S /\ \A y \in S : Min(S) <= y
  <2> HIDE DEF S
  <2> QED BY <1>2, LeastOf
<1> QED
  BY <1>1, <1>3 DEF NextKept

(* Every position is right after a kept line, or in the gap after one.     *)
LEMMA GapBelow ==
  ASSUME NEW old, NEW new, Version(old), NEW p \in 1..(Len(old) + 1)
  PROVE  \E o \in Kept(old, new) \cup {0} : o < p /\ p <= NextKept(old, new, o)
<1> DEFINE S == {q \in Kept(old, new) \cup {0} : q < p}
<1>1. Kept(old, new) \subseteq 1..Len(old) /\ Len(old) \in Nat
  BY PositionOf DEF Kept, Version
<1>2. S \in SUBSET (0..Len(old)) /\ 0 \in S
  BY <1>1
<1>3. Max(S) \in S /\ \A y \in S : y <= Max(S)
  <2> HIDE DEF S
  <2> QED BY <1>1, <1>2, GreatestOf
<1>4. Max(S) \in 0..Len(old)
  BY <1>2, <1>3
<1>5. /\ NextKept(old, new, Max(S)) \in Kept(old, new) \cup {Len(old) + 1}
      /\ NextKept(old, new, Max(S)) > Max(S)
      /\ NextKept(old, new, Max(S)) \in Nat
  <2> HIDE DEF S
  <2> QED BY <1>4, NextIs
<1>6. p <= NextKept(old, new, Max(S))
  <2>1. CASE NextKept(old, new, Max(S)) < p
    <3>1. NextKept(old, new, Max(S)) \in S
      BY <1>1, <1>5, <2>1
    <3> QED
      BY <1>3, <1>5, <1>4, <3>1
  <2> QED
    BY <1>5, <2>1
<1> QED
  BY <1>3, <1>6

(* Kept lines keep their order, so their new positions grow with the old   *)
(* ones.                                                                   *)
LEMMA NewPosition ==
  ASSUME NEW old, NEW new, Version(old), Version(new), SameOrder(old, new)
  PROVE  /\ \A o \in Kept(old, new) :
              /\ NewPos(old, new, o) \in DOMAIN new
              /\ new[NewPos(old, new, o)] = old[o]
         /\ NewPos(old, new, 0) = 0
         /\ NewPos(old, new, Len(old) + 1) = Len(new) + 1
         /\ \A o \in Bounds(old, new) :
              NewPos(old, new, o) \in 0..(Len(new) + 1)
         /\ \A o, p \in Bounds(old, new) :
              o < p => NewPos(old, new, o) < NewPos(old, new, p)
<1>0. /\ Kept(old, new) \subseteq 1..Len(old) /\ Len(old) \in Nat
      /\ Len(new) \in Nat /\ DOMAIN old = 1..Len(old)
      /\ DOMAIN new = 1..Len(new)
  BY PositionOf DEF Kept, Version
<1>1. ASSUME NEW o \in Kept(old, new)
      PROVE  /\ NewPos(old, new, o) \in DOMAIN new
             /\ new[NewPos(old, new, o)] = old[o]
  <2>1. old[o] \in ToSet(new) /\ o # 0 /\ o # Len(old) + 1
    BY <1>0 DEF Kept, Positions
  <2> QED
    BY <2>1, PositionOf DEF NewPos
<1>2. NewPos(old, new, 0) = 0
  BY DEF NewPos
<1>3. NewPos(old, new, Len(old) + 1) = Len(new) + 1
  BY <1>0 DEF NewPos
<1>4. ASSUME NEW o \in Bounds(old, new)
      PROVE  NewPos(old, new, o) \in 0..(Len(new) + 1)
  BY <1>0, <1>1, <1>2, <1>3 DEF Bounds
<1>5. ASSUME NEW o \in Bounds(old, new), NEW p \in Bounds(old, new), o < p
      PROVE  NewPos(old, new, o) < NewPos(old, new, p)
  <2>1. CASE o \in Kept(old, new) /\ p \in Kept(old, new)
    BY <1>0, <1>1, <1>5, <2>1 DEF SameOrder
  <2>2. CASE o \in Kept(old, new) /\ p = Len(old) + 1
    BY <1>0, <1>1, <1>3, <2>2
  <2>3. CASE o = 0 /\ p \in Kept(old, new)
    BY <1>0, <1>1, <1>2, <2>3
  <2>4. CASE o = 0 /\ p = Len(old) + 1
    BY <1>0, <1>2, <1>3, <2>4
  <2> QED
    BY <1>0, <1>5, <2>1, <2>2, <2>3, <2>4 DEF Bounds
<1> QED
  BY <1>1, <1>2, <1>3, <1>4, <1>5

(* The lines of the old file a hunk spans, and what it deletes and adds.   *)
LEMMA HunkShape ==
  ASSUME NEW o \in Nat, NEW p \in Nat, o < p, NEW i \in Nat, NEW j \in Nat,
         NEW h, h = Hunk(o, p, i, j)
  PROVE  /\ FirstOld(h) = o + 1 /\ LastOld(h) = p - 1
         /\ OfType(h, "context") = {}
         /\ OfType(h, "del") = {DelLine(d) : d \in (o + 1)..(p - 1)}
         /\ OfType(h, "add") = {AddLine(a) : a \in (i + 1)..(j - 1)}
<1>1. /\ \A d \in (o + 1)..(p - 1) : DelLine(d).type = "del"
      /\ \A a \in (i + 1)..(j - 1) : AddLine(a).type = "add"
  BY DEF DelLine, AddLine
<1>2. h.lines = {DelLine(d) : d \in (o + 1)..(p - 1)}
                \cup {AddLine(a) : a \in (i + 1)..(j - 1)}
  BY DEF Hunk
<1>3. /\ h.oldStart = IF p = o + 1 THEN o ELSE o + 1
      /\ h.oldCount = p - o - 1
  BY DEF Hunk
<1>4. FirstOld(h) = o + 1
  BY <1>3 DEF FirstOld
<1>5. LastOld(h) = p - 1
  BY <1>3, <1>4 DEF LastOld
<1>6. /\ OfType(h, "context") = {}
      /\ OfType(h, "del") = {DelLine(d) : d \in (o + 1)..(p - 1)}
      /\ OfType(h, "add") = {AddLine(a) : a \in (i + 1)..(j - 1)}
  BY <1>1, <1>2 DEF OfType
<1> QED
  BY <1>4, <1>5, <1>6

(* Two sets with a bijection between them have one size.                   *)
LEMMA SameSize ==
  ASSUME NEW S, NEW T, NEW f \in [S -> T], IsFiniteSet(S),
         \A a, b \in S : f[a] = f[b] => a = b,
         \A t \in T : \E a \in S : f[a] = t
  PROVE  IsFiniteSet(T) /\ Cardinality(T) = Cardinality(S)
<1>1. f \in Bijection(S, T)
  BY DEF Bijection, Injection, Surjection, IsInjective
<1> QED
  BY <1>1, FS_Bijection DEF ExistsBijection

(* A set of numbers up to n is what is below n without the others.         *)
LEMMA Complement ==
  ASSUME NEW n \in Nat, NEW S \in SUBSET (1..n)
  PROVE  /\ IsFiniteSet(S) /\ IsFiniteSet((1..n) \ S)
         /\ Cardinality((1..n) \ S) = n - Cardinality(S)
         /\ Cardinality(S) \in Nat
<1>1. IsFiniteSet(1..n) /\ Cardinality(1..n) = n
  BY FS_Interval
<1>2. IsFiniteSet(S) /\ (1..n) \cap S = S
  BY <1>1, FS_Subset
<1>3. /\ IsFiniteSet((1..n) \ S)
      /\ Cardinality((1..n) \ S)
         = Cardinality(1..n) - Cardinality((1..n) \cap S)
  BY <1>1, FS_Difference
<1>4. Cardinality(S) \in Nat
  BY <1>2, FS_CardinalityType
<1> QED
  BY <1>1, <1>2, <1>3, <1>4

(* The lines before a kept one that the diff deletes, or adds.             *)
Below(f, other, n) == {i \in 1..n : f[i] \in ToSet(other)}

(* Up to a kept line, both versions keep equally many lines.               *)
LEMMA CommonLines ==
  ASSUME NEW old, NEW new, Version(old), Version(new), SameOrder(old, new),
         SameOrder(new, old), NEW p \in Kept(old, new)
  PROVE  Cardinality(Below(old, new, p - 1))
         = Cardinality(Below(new, old, NewPos(old, new, p) - 1))
<1> DEFINE N == NewPos(old, new, p)
           S == Below(old, new, p - 1)
           T == Below(new, old, N - 1)
           f == [o \in S |-> NewPos(old, new, o)]
<1>0. /\ Kept(old, new) \subseteq 1..Len(old) /\ Len(old) \in Nat
      /\ Len(new) \in Nat /\ DOMAIN old = 1..Len(old)
      /\ DOMAIN new = 1..Len(new) /\ p \in Nat /\ p >= 1 /\ p <= Len(old)
  BY PositionOf DEF Kept, Version
<1>1. /\ \A o \in Kept(old, new) :
           /\ NewPos(old, new, o) \in DOMAIN new
           /\ new[NewPos(old, new, o)] = old[o]
      /\ \A o \in Kept(old, new), q \in Kept(old, new) :
           o < q => NewPos(old, new, o) < NewPos(old, new, q)
  BY NewPosition DEF Bounds
<1>2. S \subseteq Kept(old, new) /\ \A o \in S : o < p /\ o \in Nat
  BY <1>0 DEF Kept, Positions, Below
<1>3. N \in 1..Len(new) /\ new[N] = old[p]
  BY <1>0, <1>1
<1>4. f \in [S -> T]
  <2>1. ASSUME NEW o \in S PROVE NewPos(old, new, o) \in T
    <3>1. /\ NewPos(old, new, o) \in 1..Len(new) /\ NewPos(old, new, o) < N
          /\ new[NewPos(old, new, o)] = old[o] /\ o \in DOMAIN old
      BY <1>0, <1>1, <1>2
    <3>2. old[o] \in ToSet(old)
      BY <3>1 DEF ToSet
    <3> QED
      BY <1>3, <3>1, <3>2 DEF Below
  <2> QED
    BY <2>1
<1>5. \A a, b \in S : f[a] = f[b] => a = b
  <2> SUFFICES ASSUME NEW a \in S, NEW b \in S, a < b PROVE f[a] # f[b]
    BY <1>2
  <2>1. NewPos(old, new, a) < NewPos(old, new, b)
    BY <1>1, <1>2
  <2>2. NewPos(old, new, a) \in Nat /\ NewPos(old, new, b) \in Nat
    BY <1>0, <1>1, <1>2
  <2> QED
    BY <2>1, <2>2
<1>6. ASSUME NEW t \in T PROVE \E a \in S : f[a] = t
  <2>1. t \in DOMAIN new /\ t < N /\ new[t] \in ToSet(old)
    BY <1>0, <1>3 DEF Below
  <2>2. PICK q \in DOMAIN old : old[q] = new[t]
    BY <2>1 DEF ToSet
  <2>3. q < p
    BY <1>0, <1>3, <2>1, <2>2 DEF SameOrder
  <2>4. old[q] \in ToSet(new)
    BY <2>1, <2>2 DEF ToSet
  <2>5. q \in S /\ q \in Kept(old, new)
    BY <1>0, <2>2, <2>3, <2>4 DEF Below, Kept, Positions
  <2>6. new[NewPos(old, new, q)] = new[t] /\ NewPos(old, new, q) \in DOMAIN new
    BY <1>1, <2>2, <2>5
  <2>7. NewPos(old, new, q) = t
    BY <2>1, <2>6 DEF Version, IsInjective
  <2> QED
    BY <2>5, <2>7
<1>7. IsFiniteSet(S)
  <2>1. S \in SUBSET (1..(p - 1)) /\ p - 1 \in Nat
    BY <1>0 DEF Below
  <2> HIDE DEF S
  <2> QED
    BY <2>1, Complement
<1>8. Cardinality(T) = Cardinality(S)
  <2> HIDE DEF S, T, f
  <2> QED BY <1>4, <1>5, <1>6, <1>7, SameSize
<1> QED
  BY <1>8

(* What the hunks before a kept line add and delete.                       *)
LEMMA DeletedBefore ==
  ASSUME NEW old, NEW new, Version(old), NEW p \in Kept(old, new),
         NEW d
  PROVE  (\E o \in Kept(old, new) \cup {0} :
             o < p /\ d \in (o + 1)..(NextKept(old, new, o) - 1))
         <=> d \in (1..(p - 1)) \ Below(old, new, p - 1)
<1>0. /\ Kept(old, new) \subseteq 1..Len(old) /\ Len(old) \in Nat
      /\ DOMAIN old = 1..Len(old) /\ p \in Nat /\ p >= 1 /\ p <= Len(old)
      /\ \A o \in Kept(old, new) \cup {0} : o \in 0..Len(old)
  BY PositionOf DEF Kept, Version
<1>1. ASSUME NEW o \in Kept(old, new) \cup {0}, o < p,
             d \in (o + 1)..(NextKept(old, new, o) - 1)
      PROVE  d \in (1..(p - 1)) \ Below(old, new, p - 1)
  <2>1. /\ NextKept(old, new, o) <= p /\ NextKept(old, new, o) \in Nat
        /\ \A q \in Kept(old, new) : q > o => NextKept(old, new, o) <= q
    BY <1>0, <1>1, NextIs
  <2>2. d \in 1..(p - 1) /\ d > o /\ d < NextKept(old, new, o)
    BY <1>0, <1>1, <2>1
  <2>3. d \notin Kept(old, new)
    BY <1>0, <2>1, <2>2
  <2>4. d \notin Below(old, new, p - 1)
    BY <1>0, <2>2, <2>3 DEF Kept, Positions, Below
  <2> QED
    BY <2>2, <2>4
<1>2. ASSUME d \in (1..(p - 1)) \ Below(old, new, p - 1)
      PROVE  \E o \in Kept(old, new) \cup {0} :
                o < p /\ d \in (o + 1)..(NextKept(old, new, o) - 1)
  <2>1. d \in 1..(Len(old) + 1) /\ d \in 1..(p - 1)
    BY <1>0, <1>2
  <2>2. d \notin Kept(old, new)
    BY <1>2 DEF Below, Kept, Positions
  <2>3. PICK o \in Kept(old, new) \cup {0} :
           o < d /\ d <= NextKept(old, new, o)
    BY <2>1, GapBelow
  <2>4. /\ NextKept(old, new, o) \in Kept(old, new) \cup {Len(old) + 1}
        /\ NextKept(old, new, o) \in Nat
    BY <1>0, NextIs
  <2>5. d # NextKept(old, new, o)
    BY <1>0, <2>1, <2>2, <2>4
  <2> QED
    BY <1>0, <2>1, <2>3, <2>4, <2>5
<1> QED
  BY <1>1, <1>2

(* What the hunks before a line add: the lines of the new version up to    *)
(* its place that the old one lacks.                                       *)
LEMMA AddedBefore ==
  ASSUME NEW old, NEW new, Version(old), Version(new), SameOrder(old, new),
         SameOrder(new, old), NEW p \in Kept(old, new), NEW n
  PROVE  (\E o \in Kept(old, new) \cup {0} :
             /\ o < p
             /\ n \in (NewPos(old, new, o) + 1)
                      ..(NewPos(old, new, NextKept(old, new, o)) - 1))
         <=> n \in (1..(NewPos(old, new, p) - 1))
                   \ Below(new, old, NewPos(old, new, p) - 1)
<1> DEFINE At(o) == NewPos(old, new, o)
           Nx(o) == NextKept(old, new, o)
<1>0. /\ Kept(old, new) \subseteq 1..Len(old) /\ Len(old) \in Nat
      /\ Len(new) \in Nat /\ DOMAIN new = 1..Len(new)
      /\ DOMAIN old = 1..Len(old) /\ p \in Nat /\ p >= 1 /\ p <= Len(old)
      /\ \A o \in Kept(old, new) \cup {0} :
            o \in 0..Len(old) /\ o \in Bounds(old, new)
      /\ \A o \in Bounds(old, new) : o \in Nat /\ o <= Len(old) + 1
  BY PositionOf DEF Kept, Version, Bounds
<1>1. /\ \A o \in Kept(old, new) :
           At(o) \in DOMAIN new /\ new[At(o)] = old[o]
      /\ At(0) = 0 /\ At(Len(old) + 1) = Len(new) + 1
      /\ \A o \in Bounds(old, new) : At(o) \in 0..(Len(new) + 1)
      /\ \A o, q \in Bounds(old, new) : o < q => At(o) < At(q)
  BY NewPosition
<1>2. \A o \in Kept(old, new) \cup {0} :
        /\ Nx(o) \in Bounds(old, new) /\ Nx(o) > o /\ Nx(o) \in Nat
        /\ \A q \in Kept(old, new) : q > o => Nx(o) <= q
        /\ Nx(o) \in Kept(old, new) \cup {Len(old) + 1}
  BY <1>0, NextIs DEF Bounds
<1>p. p \in Bounds(old, new)
  BY DEF Bounds
<1> HIDE DEF At, Nx
<1>3. ASSUME NEW o \in Kept(old, new) \cup {0}, o < p,
             n \in (At(o) + 1)..(At(Nx(o)) - 1)
      PROVE  n \in (1..(At(p) - 1)) \ Below(new, old, At(p) - 1)
  <2>1. Nx(o) <= p /\ o \in Nat /\ Nx(o) \in Nat
    BY <1>0, <1>2, <1>3
  <2>2. At(Nx(o)) <= At(p)
    BY <1>0, <1>1, <1>2, <1>p, <2>1
  <2>3. At(o) \in Nat /\ At(Nx(o)) \in Nat /\ At(p) \in Nat
    BY <1>0, <1>1, <1>2, <1>p
  <2>4. n \in 1..(At(p) - 1) /\ n > At(o) /\ n < At(Nx(o))
    BY <1>3, <2>2, <2>3
  <2>5. ASSUME n \in Below(new, old, At(p) - 1) PROVE FALSE
    <3>1. n \in 1..Len(new) /\ new[n] \in ToSet(old)
      BY <1>0, <1>1, <1>p, <2>4, <2>5 DEF Below
    <3>2. PICK q \in DOMAIN old : old[q] = new[n]
      BY <3>1 DEF ToSet
    <3>3. q \in Kept(old, new)
      BY <1>0, <3>1, <3>2 DEF Kept, Positions, ToSet
    <3>4. At(q) = n
      <4>1. new[At(q)] = new[n] /\ At(q) \in DOMAIN new
        BY <1>1, <3>2, <3>3
      <4> QED
        BY <1>0, <3>1, <4>1 DEF Version, IsInjective
    <3>5. q > o
      <4>1. CASE q = o
        BY <2>3, <2>4, <3>4, <4>1
      <4>2. CASE q < o
        <5>1. At(q) < At(o)
          BY <1>0, <1>1, <3>3, <4>2
        <5> QED
          BY <2>3, <2>4, <3>4, <5>1
      <4> QED
        BY <1>0, <2>1, <3>3, <4>1, <4>2
    <3>6. Nx(o) <= q
      BY <1>2, <3>3, <3>5
    <3>7. At(Nx(o)) <= At(q)
      <4>1. q \in Bounds(old, new) /\ q \in Nat
        BY <1>0, <3>3
      <4>2. CASE Nx(o) = q
        BY <2>3, <4>2
      <4>3. CASE Nx(o) < q
        <5>1. At(Nx(o)) < At(q)
          BY <1>1, <1>2, <4>1, <4>3
        <5>2. At(q) \in Nat
          BY <1>1, <4>1
        <5> QED
          BY <2>3, <5>1, <5>2
      <4> QED
        BY <2>1, <3>6, <4>1, <4>2, <4>3
    <3> QED
      BY <2>3, <2>4, <3>4, <3>7
  <2> QED
    BY <2>4, <2>5
<1>4. ASSUME n \in (1..(At(p) - 1)) \ Below(new, old, At(p) - 1)
      PROVE  \E o \in Kept(old, new) \cup {0} :
                o < p /\ n \in (At(o) + 1)..(At(Nx(o)) - 1)
  <2> DEFINE S == {o \in Kept(old, new) \cup {0} : At(o) < n}
  <2>0. At(p) \in Nat /\ At(p) <= Len(new)
    BY <1>0, <1>1
  <2>1. n \in 1..Len(new) /\ n < At(p) /\ new[n] \notin ToSet(old)
    BY <1>4, <2>0, <1>0 DEF Below
  <2>2. S \in SUBSET (0..Len(old)) /\ 0 \in S
    BY <1>0, <1>1, <2>1
  <2>3. Max(S) \in S /\ \A y \in S : y <= Max(S)
    <3> HIDE DEF S
    <3> QED BY <1>0, <2>2, GreatestOf
  <2>4. PICK o \in Kept(old, new) \cup {0} : At(o) < n /\ \A y \in S : y <= o
    BY <2>3
  <2>5. o < p
    <3>1. CASE o = p
      BY <2>0, <2>1, <2>4, <3>1
    <3>2. CASE o > p
      <4>1. At(p) < At(o) /\ At(o) \in Nat
        BY <1>0, <1>1, <1>p, <3>2
      <4> QED
        BY <2>0, <2>1, <2>4, <4>1
    <3> QED
      BY <1>0, <3>1, <3>2
  <2>6. ~(At(Nx(o)) < n)
    <3> SUFFICES ASSUME At(Nx(o)) < n PROVE FALSE
      OBVIOUS
    <3>1. Nx(o) \in Kept(old, new)
      <4>1. CASE Nx(o) = Len(old) + 1
        <5>1. At(Nx(o)) = Len(new) + 1
          BY <1>1, <4>1
        <5> QED
          BY <1>0, <2>1, <5>1
      <4> QED
        BY <1>2, <4>1
    <3>2. Nx(o) \in S
      BY <3>1
    <3> QED
      BY <1>0, <1>2, <2>4, <3>2
  <2>7. At(Nx(o)) # n
    <3> SUFFICES ASSUME At(Nx(o)) = n PROVE FALSE
      OBVIOUS
    <3>1. CASE Nx(o) \in Kept(old, new)
      <4>1. new[n] = old[Nx(o)] /\ Nx(o) \in DOMAIN old
        BY <1>0, <1>1, <3>1
      <4> QED
        BY <2>1, <4>1 DEF ToSet
    <3>2. CASE Nx(o) = Len(old) + 1
      <4>1. At(Nx(o)) = Len(new) + 1
        BY <1>1, <3>2
      <4> QED
        BY <1>0, <2>1, <4>1
    <3> QED
      BY <1>2, <3>1, <3>2
  <2>8. At(o) \in Nat /\ At(Nx(o)) \in Nat
    BY <1>0, <1>1, <1>2
  <2> QED
    BY <2>1, <2>4, <2>5, <2>6, <2>7, <2>8
<1> QED
  BY <1>3, <1>4 DEF At, Nx

(* mapOldLine finds the line exactly, whatever the diff shows around its   *)
(* changes: where the new version has it, and nowhere if it has not.       *)
THEOREM SplitIsExact ==
  ASSUME NEW old, NEW new, Version(old), Version(new), SameOrder(old, new),
         SameOrder(new, old), NEW line \in DOMAIN old
  PROVE  MapOldLine(SplitHunks(old, new), line) = Positions(new, {old[line]})
<1> DEFINE H == SplitHunks(old, new)
<1>0. /\ Kept(old, new) \subseteq 1..Len(old) /\ Len(old) \in Nat
      /\ Len(new) \in Nat /\ DOMAIN old = 1..Len(old)
      /\ DOMAIN new = 1..Len(new) /\ line \in Nat
      /\ \A o \in Kept(old, new) \cup {0} :
           o \in 0..Len(old) /\ o \in Bounds(old, new)
  BY PositionOf DEF Kept, Version, Bounds
<1>1. \A o \in Kept(old, new) \cup {0} :
        /\ NextKept(old, new, o) \in Kept(old, new) \cup {Len(old) + 1}
        /\ NextKept(old, new, o) \in Bounds(old, new)
        /\ NextKept(old, new, o) > o /\ NextKept(old, new, o) \in Nat
        /\ \A q \in Kept(old, new) : q > o => NextKept(old, new, o) <= q
  BY <1>0, NextIs DEF Bounds
<1>2. ASSUME NEW o \in Kept(old, new) \cup {0}
      PROVE  /\ FirstOld(Gap(old, new, o)) = o + 1
             /\ LastOld(Gap(old, new, o)) = NextKept(old, new, o) - 1
             /\ OfType(Gap(old, new, o), "context") = {}
             /\ OfType(Gap(old, new, o), "del")
                = {DelLine(d) : d \in (o + 1)..(NextKept(old, new, o) - 1)}
             /\ OfType(Gap(old, new, o), "add")
                = {AddLine(a) : a \in (NewPos(old, new, o) + 1)
                     ..(NewPos(old, new, NextKept(old, new, o)) - 1)}
  <2>1. /\ o \in Nat /\ NextKept(old, new, o) \in Nat
        /\ o < NextKept(old, new, o)
        /\ NewPos(old, new, o) \in Nat
        /\ NewPos(old, new, NextKept(old, new, o)) \in Nat
    BY <1>0, <1>1, NewPosition
  <2> DEFINE p == NextKept(old, new, o)
             i == NewPos(old, new, o)
             j == NewPos(old, new, p)
             h == Gap(old, new, o)
  <2>2. h = Hunk(o, p, i, j)
    BY DEF Gap
  <2>3. o \in Nat /\ p \in Nat /\ o < p /\ i \in Nat /\ j \in Nat
    BY <2>1
  <2>4. /\ FirstOld(h) = o + 1 /\ LastOld(h) = p - 1
        /\ OfType(h, "context") = {}
        /\ OfType(h, "del") = {DelLine(d) : d \in (o + 1)..(p - 1)}
        /\ OfType(h, "add") = {AddLine(a) : a \in (i + 1)..(j - 1)}
    <3> HIDE DEF p, i, j, h
    <3> QED
      BY <2>2, <2>3, HunkShape
  <2> QED
    BY <2>4
<1>3. \A h \in H : OfType(h, "context") = {}
  BY <1>2, SplitGaps
<1>4. CASE line \notin Kept(old, new)
  <2>1. line \in 1..(Len(old) + 1)
    BY <1>0
  <2>2. PICK o \in Kept(old, new) \cup {0} :
               o < line /\ line <= NextKept(old, new, o)
    BY <2>1, GapBelow
  <2>3. line \in (o + 1)..(NextKept(old, new, o) - 1)
    <3>1. line # NextKept(old, new, o)
      BY <1>0, <1>1, <1>4
    <3> QED
      BY <1>0, <1>1, <2>2, <3>1
  <2>4. Gap(old, new, o) \in H
    <3>1. DelLine(line) \in OfType(Gap(old, new, o), "del")
      BY <1>2, <2>3
    <3>2. Gap(old, new, o).lines # {}
      BY <3>1 DEF OfType
    <3> QED
      BY <3>2, SplitGaps
  <2>5. line \in FirstOld(Gap(old, new, o))..LastOld(Gap(old, new, o))
    BY <1>2, <2>3
  <2>6. MapOldLine(H, line) = {}
    <3>1. UNION {OfType(h, "context") : h \in H} = {}
      BY <1>3
    <3> HIDE DEF H
    <3> QED
      BY <2>4, <2>5, <3>1 DEF MapOldLine
  <2>7. Positions(new, {old[line]}) = {}
    <3>1. old[line] \notin ToSet(new)
      BY <1>4 DEF Kept, Positions
    <3> QED
      BY <3>1 DEF Positions, ToSet
  <2> QED
    BY <2>6, <2>7
<1>5. CASE line \in Kept(old, new)
  <2> DEFINE N == NewPos(old, new, line)
             B == {h \in H : LastOld(h) < line}
             A == (1..(N - 1)) \ Below(new, old, N - 1)
             D == (1..(line - 1)) \ Below(old, new, line - 1)
  <2>1. N \in DOMAIN new /\ new[N] = old[line] /\ N \in Nat /\ N >= 1
        /\ line >= 1
    BY <1>0, <1>5, NewPosition
  <2>2. ~ \E h \in H : line \in FirstOld(h)..LastOld(h)
    <3> SUFFICES ASSUME NEW o \in Kept(old, new) \cup {0},
                        line \in (o + 1)..(NextKept(old, new, o) - 1)
                 PROVE  FALSE
      BY <1>2, SplitGaps
    <3> QED
      BY <1>0, <1>1, <1>5
  <2>3. \A o \in Kept(old, new) \cup {0} :
          LastOld(Gap(old, new, o)) < line <=> o < line
    BY <1>0, <1>1, <1>2, <1>5
  <2>4. \A h : h \in B <=> \E o \in Kept(old, new) \cup {0} :
                    o < line /\ h = Gap(old, new, o) /\ h.lines # {}
    BY <2>3, SplitGaps
  <2>5. \A o \in Kept(old, new) \cup {0} :
          Gap(old, new, o).lines = {} =>
            /\ OfType(Gap(old, new, o), "del") = {}
            /\ OfType(Gap(old, new, o), "add") = {}
    BY DEF OfType
  <2>6. UNION {OfType(h, "del") : h \in B} = {DelLine(d) : d \in D}
    <3> HIDE DEF B
    <3>1. ASSUME NEW l \in UNION {OfType(h, "del") : h \in B}
          PROVE  l \in {DelLine(d) : d \in D}
      <4>1. PICK h \in B : l \in OfType(h, "del")
        BY <3>1
      <4>2. PICK o \in Kept(old, new) \cup {0} :
               o < line /\ h = Gap(old, new, o)
        BY <2>4, <4>1
      <4>3. PICK d \in (o + 1)..(NextKept(old, new, o) - 1) : l = DelLine(d)
        BY <1>2, <4>1, <4>2
      <4>4. d \in D
        BY <1>5, <4>2, <4>3, DeletedBefore
      <4> QED
        BY <4>3, <4>4
    <3>2. ASSUME NEW d \in D
          PROVE  DelLine(d) \in UNION {OfType(h, "del") : h \in B}
      <4>1. PICK o \in Kept(old, new) \cup {0} :
                   o < line /\ d \in (o + 1)..(NextKept(old, new, o) - 1)
        BY <1>5, <3>2, DeletedBefore
      <4>2. DelLine(d) \in OfType(Gap(old, new, o), "del")
        BY <1>2, <4>1
      <4>3. Gap(old, new, o) \in B
        BY <2>4, <2>5, <4>1, <4>2
      <4> QED
        BY <4>2, <4>3
    <3> QED
      BY <3>1, <3>2
  <2>7. UNION {OfType(h, "add") : h \in B} = {AddLine(n) : n \in A}
    <3> HIDE DEF B
    <3>1. ASSUME NEW l \in UNION {OfType(h, "add") : h \in B}
          PROVE  l \in {AddLine(n) : n \in A}
      <4>1. PICK h \in B : l \in OfType(h, "add")
        BY <3>1
      <4>2. PICK o \in Kept(old, new) \cup {0} :
               o < line /\ h = Gap(old, new, o)
        BY <2>4, <4>1
      <4>3. PICK n \in (NewPos(old, new, o) + 1)
                       ..(NewPos(old, new, NextKept(old, new, o)) - 1) :
                   l = AddLine(n)
        BY <1>2, <4>1, <4>2
      <4>4. n \in A
        BY <1>5, <4>2, <4>3, AddedBefore
      <4> QED
        BY <4>3, <4>4
    <3>2. ASSUME NEW n \in A
          PROVE  AddLine(n) \in UNION {OfType(h, "add") : h \in B}
      <4>1. PICK o \in Kept(old, new) \cup {0} :
                   /\ o < line
                   /\ n \in (NewPos(old, new, o) + 1)
                            ..(NewPos(old, new, NextKept(old, new, o)) - 1)
        BY <1>5, <3>2, AddedBefore
      <4>2. AddLine(n) \in OfType(Gap(old, new, o), "add")
        BY <1>2, <4>1
      <4>3. Gap(old, new, o) \in B
        BY <2>4, <2>5, <4>1, <4>2
      <4> QED
        BY <4>2, <4>3
    <3> QED
      BY <3>1, <3>2
  <2>8. /\ IsFiniteSet(D) /\ IsFiniteSet(A)
        /\ Cardinality(D) = (line - 1) - Cardinality(Below(old, new, line - 1))
        /\ Cardinality(A) = (N - 1) - Cardinality(Below(new, old, N - 1))
        /\ Cardinality(Below(old, new, line - 1)) \in Nat
    <3>1. /\ line - 1 \in Nat /\ N - 1 \in Nat
          /\ Below(old, new, line - 1) \in SUBSET (1..(line - 1))
          /\ Below(new, old, N - 1) \in SUBSET (1..(N - 1))
      BY <1>0, <2>1 DEF Below
    <3> QED
      BY <3>1, Complement
  <2>9. Cardinality({DelLine(d) : d \in D}) = Cardinality(D)
    <3> DEFINE T == {DelLine(d) : d \in D}
               f == [d \in D |-> DelLine(d)]
    <3>1. /\ f \in [D -> T]
          /\ \A a, b \in D : f[a] = f[b] => a = b
          /\ \A t \in T : \E a \in D : f[a] = t
      BY DEF DelLine
    <3> HIDE DEF T, f, D
    <3> QED
      BY <2>8, <3>1, SameSize DEF T
  <2>10. Cardinality({AddLine(n) : n \in A}) = Cardinality(A)
    <3> DEFINE T == {AddLine(n) : n \in A}
               f == [n \in A |-> AddLine(n)]
    <3>1. /\ f \in [A -> T]
          /\ \A a, b \in A : f[a] = f[b] => a = b
          /\ \A t \in T : \E a \in A : f[a] = t
      BY DEF AddLine
    <3> HIDE DEF T, f, A
    <3> QED
      BY <2>8, <3>1, SameSize DEF T
  <2>11. Growth(B) = Cardinality(A) - Cardinality(D)
    <3> HIDE DEF B, A, D
    <3> QED
      BY <2>6, <2>7, <2>9, <2>10 DEF Growth
  <2>12. Cardinality(Below(old, new, line - 1))
         = Cardinality(Below(new, old, N - 1))
    BY <1>5, CommonLines
  <2>13. line + Growth(B) = N
    <3> HIDE DEF B, A, D, N
    <3> QED
      BY <1>0, <2>1, <2>8, <2>11, <2>12
  <2>14. MapOldLine(H, line) = {N}
    <3> HIDE DEF H, N
    <3> QED
      BY <2>2, <2>13 DEF MapOldLine
  <2>15. Positions(new, {old[line]}) = {N}
    BY <2>1 DEF Positions, Version, IsInjective
  <2> QED
    BY <2>14, <2>15
<1> QED
  BY <1>4, <1>5

(* mapOldLine with one hunk that has the whole file as context: a line is  *)
(* found where it is, or is gone.                                          *)
THEOREM WholeIsExact ==
  ASSUME NEW old, NEW new, Version(old), Version(new),
         NEW line \in DOMAIN old
  PROVE  MapOldLine(WholeHunk(old, new), line) = Positions(new, {old[line]})
<1> DEFINE H == WholeHunk(old, new)
<1>0. /\ Len(old) \in Nat /\ DOMAIN old = 1..Len(old) /\ old # << >>
      /\ Len(new) \in Nat /\ DOMAIN new = 1..Len(new) /\ line \in Nat
      /\ Len(old) # 0
  BY DEF Version
<1>1. CASE old = new
  <2>1. H = {}
    BY <1>1 DEF WholeHunk
  <2>2. UNION {OfType(h, "add") : h \in {}} = {}
        /\ UNION {OfType(h, "del") : h \in {}} = {}
    OBVIOUS
  <2>3. Growth({}) = 0
    <3>1. Cardinality({}) = 0
      BY FS_EmptySet
    <3> QED
      BY <2>2, <3>1 DEF Growth
  <2>4. MapOldLine({}, line) = {line}
    <3>1. {h \in {} : LastOld(h) < line} = {}
      OBVIOUS
    <3>2. line + Growth({h \in {} : LastOld(h) < line}) = line
      BY <1>0, <2>3, <3>1
    <3> QED
      BY <3>2 DEF MapOldLine
  <2>5. Positions(new, {old[line]}) = {line}
    BY <1>1 DEF Positions, Version, IsInjective
  <2> QED
    BY <2>1, <2>4, <2>5
<1>2. CASE old # new
  <2> DEFINE C == {ContextLine(o, PosOf(new, old[o])) :
                     o \in Positions(old, ToSet(new))}
             L == {DelLine(o) : o \in Positions(old, ToSet(old) \ ToSet(new))}
                  \cup {AddLine(n) : n \in Added(old, new)} \cup C
             h == [oldStart |-> 1, oldCount |-> Len(old), lines |-> L]
  <2>1. H = {h}
    BY <1>0, <1>2 DEF WholeHunk
  <2>2. FirstOld(h) = 1 /\ LastOld(h) = Len(old)
    BY <1>0 DEF FirstOld, LastOld
  <2>3. OfType(h, "context") = C
    BY DEF OfType, DelLine, AddLine, ContextLine
  <2>4. UNION {OfType(x, "context") : x \in H} = C
    BY <2>1, <2>3
  <2>5. \E x \in H : line \in FirstOld(x)..LastOld(x)
    BY <1>0, <2>1, <2>2
  <2>6. MapOldLine(H, line) = {l.new : l \in {l \in C : l.old = line}}
    <3> HIDE DEF H, C
    <3> QED
      BY <2>4, <2>5 DEF MapOldLine
  <2>7. CASE old[line] \in ToSet(new)
    <3>1. line \in Positions(old, ToSet(new))
      BY <2>7 DEF Positions
    <3>2. {l.new : l \in {l \in C : l.old = line}} = {PosOf(new, old[line])}
      <4>1. \A o : ContextLine(o, PosOf(new, old[o])).old = o
                  /\ ContextLine(o, PosOf(new, old[o])).new
                       = PosOf(new, old[o])
        BY DEF ContextLine
      <4>2. {l \in C : l.old = line}
              = {ContextLine(line, PosOf(new, old[line]))}
        BY <3>1, <4>1
      <4> HIDE DEF C
      <4> QED
        BY <4>1, <4>2
    <3>3. Positions(new, {old[line]}) = {PosOf(new, old[line])}
      <4>1. /\ PosOf(new, old[line]) \in DOMAIN new
            /\ new[PosOf(new, old[line])] = old[line]
        BY <2>7, PositionOf
      <4> QED
        BY <4>1 DEF Positions, Version, IsInjective
    <3> QED
      BY <2>6, <3>2, <3>3
  <2>8. CASE old[line] \notin ToSet(new)
    <3>1. line \notin Positions(old, ToSet(new))
      BY <2>8 DEF Positions
    <3>2. {l \in C : l.old = line} = {}
      BY <3>1 DEF ContextLine
    <3>3. Positions(new, {old[line]}) = {}
      BY <2>8 DEF Positions, ToSet
    <3> QED
      BY <2>6, <3>2, <3>3
  <2> QED
    BY <2>7, <2>8
<1> QED
  BY <1>1, <1>2

-----------------------------------------------------------------------------
(* Rows and where they come from.                                          *)

(* An id has the type of ids, and tells the scan, the run and the          *)
(* fingerprint.                                                            *)
LEMMA IdFields ==
  ASSUME NEW x, x.fp \in Fingerprints, x.first \in Int, x.sup \in BOOLEAN,
         NEW s \in Nat, NEW run \in Nat,
         NEW status \in Statuses \cup {"CARRIED"},
         NEW id, id = RowId(s, run, status, x)
  PROVE  /\ id \in RowIds /\ id[1] = s /\ id[2] = run /\ id[3] = status
         /\ id[4] = x.fp /\ id[5] = x.first /\ id[6] = x.sup
BY DEF RowId, RowIds

(* Two rows that say the same of what was found and where.                 *)
Same(y, x) ==
    /\ y.src = x.src /\ y.fp = x.fp /\ y.title = x.title
    /\ y.sup = x.sup /\ y.lines = x.lines

SamePlace(y, x) == y.first = x.first /\ y.last = x.last

(* carryForward and the closing of a row: the row says what its base says. *)
LEMMA StoredRow ==
  ASSUME NEW x \in Row, NEW s \in Nat, NEW run \in Nat,
         NEW status \in Statuses, NEW y, y = FromStored(x, s, run, status)
  PROVE  /\ y \in Row /\ Same(y, x) /\ SamePlace(y, x) /\ y.sev = x.sev
         /\ y.id = RowId(s, run, status, x) /\ y.status = status
         /\ y.origin = x.id /\ y.since = x.since /\ y.again = x.again
<1>1. RowId(s, run, status, x) \in RowIds
  BY IdFields DEF Row
<1>2. Statuses = {"NEW", "PERSISTED", "REOPENED", "RESOLVED"}
  BY DEF Statuses
<1> QED
  BY <1>1 DEF FromStored, Row, Same, SamePlace

(* planFindings' rows for a candidate say what the candidate says.         *)
LEMMA CandidateRow ==
  ASSUME NEW c \in Candidate, NEW s \in Nat, NEW run \in Nat,
         NEW status \in Statuses, NEW x \in Row \cup {None},
         NEW y, y = FromCandidate(c, s, run, status, x)
  PROVE  /\ y \in Row /\ Same(y, c) /\ SamePlace(y, c) /\ y.sev = c.sev
         /\ y.id = RowId(s, run, status, c) /\ y.status = status
         /\ ~y.again
         /\ x = None => y.origin = None /\ y.since = s
         /\ x # None => y.origin = x.id /\ y.since = x.since
<1>1. RowId(s, run, status, c) \in RowIds
  BY IdFields DEF Candidate
<1>2. x # None => x.id \in RowIds /\ x.since \in Nat
  BY DEF Row
<1> QED
  BY <1>1, <1>2 DEF FromCandidate, Row, Candidate, Same, SamePlace

(* mapLineThroughHunks moves the lines of a finding and nothing else.      *)
LEMMA MappedRow ==
  ASSUME NEW x \in Row, NEW hunks, NEW i \in Int, NEW j \in Int,
         MapOldLine(hunks, x.first) = {i}, MapOldLine(hunks, x.last) = {j},
         NEW y, y = Mapped(hunks, x)
  PROVE  /\ y \in Row /\ Same(y, x) /\ y.sev = x.sev
         /\ y.first = i /\ y.last = j /\ y.id = x.id /\ y.status = x.status
         /\ y.origin = x.origin /\ y.since = x.since /\ y.again = x.again
<1>1. /\ (CHOOSE n \in MapOldLine(hunks, x.first) : TRUE) = i
      /\ (CHOOSE n \in MapOldLine(hunks, x.last) : TRUE) = j
  OBVIOUS
<1> QED
  BY <1>1 DEF Mapped, Row, Same

(* An earlier run's finding that is carried along says what it said.       *)
LEMMA CarriedRow ==
  ASSUME NEW e \in Row, NEW s \in Nat, NEW run \in Nat,
         NEW kind \in {"same_scan", "base_scan"},
         NEW y, y = CarriedAgain(s, run, e, kind)
  PROVE  /\ y \in Row /\ Same(y, e) /\ SamePlace(y, e) /\ y.sev = e.sev
         /\ y.id = RowId(s, run, "CARRIED", e) /\ y.again
         /\ y.since = e.since
         /\ kind = "same_scan" => y.status = e.status /\ y.origin = e.origin
         /\ kind = "base_scan" => y.status = "PERSISTED" /\ y.origin = e.id
<1>1. RowId(s, run, "CARRIED", e) \in RowIds
  BY IdFields DEF Row
<1>2. "PERSISTED" \in Statuses
  BY DEF Statuses
<1> QED
  BY <1>1, <1>2 DEF CarriedAgain, Row, Same, SamePlace

(* A row joined with the earlier finding it repeats: the higher severity,  *)
(* and in a base run the identity of the earlier one.                      *)
LEMMA JoinedRow ==
  ASSUME NEW x \in Row, NEW e \in Row,
         NEW kind \in {"same_scan", "base_scan"},
         NEW y, y = MergedRow(x, e, kind)
  PROVE  /\ y \in Row /\ Same(y, x) /\ SamePlace(y, x)
         /\ y.sev >= x.sev /\ y.sev >= e.sev
         /\ y.id = x.id /\ y.again = x.again
         /\ kind = "same_scan" =>
              y.status = x.status /\ y.origin = x.origin /\ y.since = x.since
         /\ kind = "base_scan" => y.origin = e.id
         /\ x.status # "RESOLVED" => y.status # "RESOLVED"
         /\ y.status \in {x.status, "PERSISTED"}
         /\ y.since = IF kind = "base_scan" /\ x.origin # e.id
                      THEN e.since ELSE x.since
<1> DEFINE sev == Severity(e.sev, x.sev)
           j == [x EXCEPT !.sev = sev]
<1>1. sev \in 1..3 /\ sev >= e.sev /\ sev >= x.sev
  BY DEF Row, Severity, Higher
<1> HIDE DEF sev
<1>2. /\ j \in Row /\ Same(j, x) /\ SamePlace(j, x) /\ j.sev = sev
      /\ j.id = x.id /\ j.again = x.again /\ j.status = x.status
      /\ j.origin = x.origin /\ j.since = x.since
  BY <1>1 DEF Row, Same, SamePlace
<1>3. y = IF kind = "base_scan" /\ x.origin # e.id
          THEN [j EXCEPT !.status = "PERSISTED", !.origin = e.id,
                         !.since = e.since]
          ELSE j
  BY DEF MergedRow, sev
<1> HIDE DEF j
<1>4. CASE kind = "base_scan" /\ x.origin # e.id
  <2>1. y = [j EXCEPT !.status = "PERSISTED", !.origin = e.id,
                      !.since = e.since]
    BY <1>3, <1>4
  <2>2. "PERSISTED" \in Statuses
    BY DEF Statuses
  <2>3. e.id \in RowIds \cup {None} /\ e.since \in Nat
    BY DEF Row
  <2>4. y \in Row
    BY <1>2, <2>1, <2>2, <2>3 DEF Row
  <2>5. /\ y.status = "PERSISTED" /\ y.origin = e.id /\ y.since = e.since
        /\ y.src = j.src /\ y.fp = j.fp /\ y.title = j.title
        /\ y.sev = j.sev /\ y.first = j.first /\ y.last = j.last
        /\ y.sup = j.sup /\ y.lines = j.lines /\ y.id = j.id
        /\ y.again = j.again
    BY <1>2, <2>1 DEF Row
  <2>6. Same(y, x) /\ SamePlace(y, x)
    BY <1>2, <2>5 DEF Same, SamePlace
  <2> QED
    BY <1>1, <1>2, <1>4, <2>4, <2>5, <2>6
<1>5. CASE ~(kind = "base_scan" /\ x.origin # e.id)
  BY <1>1, <1>2, <1>3, <1>5
<1> QED
  BY <1>4, <1>5

(* What makes two findings the same does not depend on the row.            *)
LEMMA SimilarRows ==
  ASSUME NEW a, NEW b, NEW c, NEW d, Same(c, a), SamePlace(c, a),
         Same(d, b), SamePlace(d, b), Similar(a, b)
  PROVE  Similar(c, d)
BY DEF Similar, Same, SamePlace, Category

(* isSameFinding does not depend on the order of the two.                  *)
LEMMA SimilarBack ==
  ASSUME NEW a, NEW b, a.first \in Int, b.first \in Int, Similar(a, b)
  PROVE  Similar(b, a)
<1>1. Distance(a.first, b.first) = Distance(b.first, a.first)
  BY DEF Distance
<1>2. {a.title, b.title} = {b.title, a.title}
  OBVIOUS
<1> QED
  BY <1>1, <1>2 DEF Similar, SimilarTitle

-----------------------------------------------------------------------------
(* What planFindings gives: the candidates it keeps, the row each of them  *)
(* gets, and the rows of `match` no candidate takes.                       *)

(* The carried rows that survive the hunks.                                *)
On(carry, hunks) == {x \in carry : Survives(hunks, x)}

(* The rows that are closed, and the rows that say so.                     *)
Gone(carry, hunks, closed) == (carry \ On(carry, hunks)) \cup closed

Closing(s, run, carry, hunks, closed) ==
    {FromStored(x, s, run, "RESOLVED") : x \in Gone(carry, hunks, closed)}

Carrying(s, run, carry, hunks) ==
    {FromStored(Mapped(hunks, x), s, run, "PERSISTED") :
        x \in On(carry, hunks)}

(* The row of a candidate that nothing live matched.                       *)
Unmatched(c, y, s, run, candidates, match, already, old) ==
    /\ \A x \in already : x.fp # c.fp
    /\ \A x \in match : x.fp = c.fp =>
         \E d \in candidates : Before(d, c) /\ d.fp = c.fp
    /\ \/ y = FromCandidate(c, s, run, "NEW", None)
       \/ \E x \in old : /\ x.fp = c.fp \/ Similar(c, x)
                         /\ y = FromCandidate(c, s, run, "REOPENED", x)

Planned(rows, s, run, candidates, carry, hunks, match, already, pool,
        kept, got, closed) ==
    /\ kept \subseteq candidates /\ closed \subseteq match
    /\ rows = Carrying(s, run, carry, hunks)
              \cup Closing(s, run, carry, hunks, closed)
              \cup {got[c] : c \in kept}
    /\ \A c \in candidates \ kept :
         \E x \in On(carry, hunks) \cup already : x.fp = c.fp
    /\ \A c \in kept :
         /\ \A x \in On(carry, hunks) : x.fp # c.fp
         /\ \/ \E x \in match : /\ x.fp = c.fp
                                /\ got[c] = FromCandidate(c, s, run,
                                                          "PERSISTED", x)
            \/ Unmatched(c, got[c], s, run, candidates, match, already,
                         pool \cup Closing(s, run, carry, hunks, closed))
    /\ \A x \in match \ closed : \E c \in kept :
         got[c] = FromCandidate(c, s, run, "PERSISTED", x)

(* findReopened gives a candidate a row of the pool that has its           *)
(* fingerprint or is similar.                                              *)
LEMMA TakenBySimilarity ==
  ASSUME NEW cands, NEW pool, NEW f \in Assignments(cands, pool, TRUE),
         NEW c \in cands
  PROVE  f[c] # None => /\ f[c] \in pool
                        /\ f[c].fp = c.fp \/ Similar(c, f[c])
<1> DEFINE left == pool \ {f[d] : d \in {d \in cands : Before(d, c)}}
           found == Matching(c, left, TRUE)
<1>1. f[c] \in IF found = {} THEN {None} ELSE found
  BY DEF Assignments
<1>2. \A x \in found : x \in left /\ (x.fp = c.fp \/ Similar(c, x))
  BY DEF Matching, SameFingerprint
<1>3. /\ left \subseteq pool
      /\ \A x \in pool : x \notin left =>
           \E d \in cands : Before(d, c) /\ f[d] = x
  OBVIOUS
<1> HIDE DEF left, found
<1> QED
  BY <1>1, <1>2, <1>3

(* planFindings: its rows are the carried, the closed and one for each     *)
(* candidate left, and each row to be matched is taken or closed.          *)
LEMMA PlanFindingsGives ==
  ASSUME NEW s, NEW run, NEW candidates, NEW carry \in SUBSET Row, NEW hunks,
         NEW match, None \notin match, NEW already, NEW pool,
         NEW rows \in PlanFindings(s, run, candidates, carry, hunks, match,
                                   already, pool)
  PROVE  \E kept, got, closed :
           Planned(rows, s, run, candidates, carry, hunks, match, already,
                   pool, kept, got, closed)
<1> DEFINE persisted == On(carry, hunks)
           carried == Carrying(s, run, carry, hunks)
                      \cup {FromStored(x, s, run, "RESOLVED") :
                              x \in carry \ persisted}
           cands == DropPersistedDuplicates(candidates, persisted)
           Fresh(m) == DropPersistedDuplicates(
                         {c \in cands : m[c] = None}, already)
           UnmatchedRows(m) == {FromStored(x, s, run, "RESOLVED") :
                                  x \in match \ {m[c] : c \in cands}}
           ClosedRows(m) == {x \in carried : x.status = "RESOLVED"}
                            \cup UnmatchedRows(m)
<1>0. PICK m \in Assignments(cands, match, FALSE) :
        \E r \in Assignments(Fresh(m), pool \cup ClosedRows(m), TRUE) :
          rows = carried
               \cup {FromCandidate(c, s, run, "PERSISTED", m[c]) :
                       c \in {c \in cands : m[c] # None}}
               \cup UnmatchedRows(m)
               \cup {FromCandidate(c, s, run,
                        IF r[c] = None THEN "NEW" ELSE "REOPENED", r[c]) :
                        c \in Fresh(m)}
  <2> DEFINE R(m) ==
        {carried
         \cup {FromCandidate(c, s, run, "PERSISTED", m[c]) :
                 c \in {c \in cands : m[c] # None}}
         \cup UnmatchedRows(m)
         \cup {FromCandidate(c, s, run,
                  IF r[c] = None THEN "NEW" ELSE "REOPENED", r[c]) :
                  c \in Fresh(m)} :
           r \in Assignments(Fresh(m), pool \cup ClosedRows(m), TRUE)}
  <2>1. PlanFindings(s, run, candidates, carry, hunks, match, already, pool)
          = UNION {R(m) : m \in Assignments(cands, match, FALSE)}
    BY DEF PlanFindings, On, Carrying
  <2>2. PICK m \in Assignments(cands, match, FALSE) : rows \in R(m)
    <3> HIDE DEF R, cands
    <3> QED
      BY <2>1
  <2> QED
    BY <2>2
<1>1. PICK r \in Assignments(Fresh(m), pool \cup ClosedRows(m), TRUE) :
        rows = carried
               \cup {FromCandidate(c, s, run, "PERSISTED", m[c]) :
                       c \in {c \in cands : m[c] # None}}
               \cup UnmatchedRows(m)
               \cup {FromCandidate(c, s, run,
                        IF r[c] = None THEN "NEW" ELSE "REOPENED", r[c]) :
                        c \in Fresh(m)}
  BY <1>0
<1> DEFINE matched == {c \in cands : m[c] # None}
           kept == matched \cup Fresh(m)
           closed == match \ {m[c] : c \in cands}
           got == [c \in kept |->
                     IF m[c] # None
                     THEN FromCandidate(c, s, run, "PERSISTED", m[c])
                     ELSE FromCandidate(c, s, run,
                            IF r[c] = None THEN "NEW" ELSE "REOPENED", r[c])]
<1>2. /\ cands \subseteq candidates
      /\ \A c \in candidates \ cands : \E x \in persisted : x.fp = c.fp
      /\ \A c \in cands, x \in persisted : x.fp # c.fp
  BY DEF DropPersistedDuplicates
<1>3. /\ Fresh(m) \subseteq cands
      /\ \A c \in Fresh(m) : m[c] = None /\ \A x \in already : x.fp # c.fp
      /\ \A c \in cands \ Fresh(m) :
           m[c] = None => \E x \in already : x.fp = c.fp
  BY DEF DropPersistedDuplicates
<1>4. kept \subseteq candidates /\ closed \subseteq match
  BY <1>2, <1>3
<1>5. UnmatchedRows(m) = {FromStored(x, s, run, "RESOLVED") : x \in closed}
  OBVIOUS
<1>6. carried \cup UnmatchedRows(m)
        = Carrying(s, run, carry, hunks)
          \cup Closing(s, run, carry, hunks, closed)
  BY DEF Closing, Gone
<1>7. ClosedRows(m) \subseteq Closing(s, run, carry, hunks, closed)
  <2>1. \A x \in persisted :
           FromStored(Mapped(hunks, x), s, run, "PERSISTED").status
             # "RESOLVED"
    <3> TAKE x \in persisted
    <3>1. x \in Row
      BY DEF On
    <3>2. FromStored(Mapped(hunks, x), s, run, "PERSISTED").status
            = "PERSISTED"
      BY <3>1 DEF FromStored, Mapped, Row
    <3> QED
      BY <3>2
  <2>2. \A y \in Carrying(s, run, carry, hunks) : y.status # "RESOLVED"
    BY <2>1 DEF Carrying
  <2> QED
    BY <2>2 DEF Closing, Gone
<1>8. rows = Carrying(s, run, carry, hunks)
             \cup Closing(s, run, carry, hunks, closed)
             \cup {got[c] : c \in kept}
  <2>1. {got[c] : c \in kept}
          = {got[c] : c \in matched} \cup {got[c] : c \in Fresh(m)}
    OBVIOUS
  <2>2. {got[c] : c \in matched}
          = {FromCandidate(c, s, run, "PERSISTED", m[c]) : c \in matched}
    OBVIOUS
  <2>3. \A c \in Fresh(m) :
          got[c] = FromCandidate(c, s, run,
                     IF r[c] = None THEN "NEW" ELSE "REOPENED", r[c])
    BY <1>3
  <2>4. {got[c] : c \in Fresh(m)}
          = {FromCandidate(c, s, run,
                IF r[c] = None THEN "NEW" ELSE "REOPENED", r[c]) :
                c \in Fresh(m)}
    BY <2>3
  <2> HIDE DEF got, carried, UnmatchedRows, kept, Fresh
  <2> QED
    BY <1>1, <1>6, <2>1, <2>2, <2>4
<1>9. \A c \in cands :
        /\ m[c] # None => m[c] \in match /\ m[c].fp = c.fp
        /\ m[c] = None => \A x \in match : x.fp = c.fp =>
                            \E d \in cands : Before(d, c) /\ m[d] = x
  <2> HIDE DEF cands, got, kept, matched, closed, carried, persisted, Fresh
  <2> TAKE c \in cands
  <2> DEFINE left == match \ {m[d] : d \in {d \in cands : Before(d, c)}}
             found == Matching(c, left, FALSE)
  <2>1. m[c] \in IF found = {} THEN {None} ELSE found
    BY DEF Assignments
  <2>2. found = {x \in left : x.fp = c.fp}
    BY DEF Matching, SameFingerprint
  <2>3. /\ left \subseteq match
        /\ \A x \in match : x \notin left =>
             \E d \in cands : Before(d, c) /\ m[d] = x
    OBVIOUS
  <2> HIDE DEF left, found
  <2> QED
    BY <2>1, <2>2, <2>3
<1>10. \A c \in cands : m[c] = None =>
         \A x \in match : x.fp = c.fp =>
            \E d \in candidates : Before(d, c) /\ d.fp = c.fp
  <2> TAKE c \in cands
  <2> HAVE m[c] = None
  <2> TAKE x \in match
  <2> HAVE x.fp = c.fp
  <2>1. PICK d \in cands : Before(d, c) /\ m[d] = x
    BY <1>9
  <2>2. d \in candidates /\ d.fp = c.fp
    BY <1>2, <1>9, <2>1
  <2> QED
    BY <2>1, <2>2
<1>11. ASSUME NEW c \in matched
       PROVE  \E x \in match : /\ x.fp = c.fp
                /\ got[c] = FromCandidate(c, s, run, "PERSISTED", x)
  <2>1. got[c] = FromCandidate(c, s, run, "PERSISTED", m[c])
    OBVIOUS
  <2> QED
    BY <1>9, <2>1
<1>12. ASSUME NEW c \in Fresh(m)
       PROVE  Unmatched(c, got[c], s, run, candidates, match, already,
                        pool \cup Closing(s, run, carry, hunks, closed))
  <2>1. got[c] = FromCandidate(c, s, run,
                    IF r[c] = None THEN "NEW" ELSE "REOPENED", r[c])
    BY <1>3
  <2>2. r[c] # None => /\ r[c] \in pool \cup ClosedRows(m)
                       /\ r[c].fp = c.fp \/ Similar(c, r[c])
    <3> HIDE DEF Fresh, ClosedRows
    <3> QED
      BY TakenBySimilarity
  <2>3. \/ got[c] = FromCandidate(c, s, run, "NEW", None)
        \/ \E x \in pool \cup Closing(s, run, carry, hunks, closed) :
             /\ x.fp = c.fp \/ Similar(c, x)
             /\ got[c] = FromCandidate(c, s, run, "REOPENED", x)
    <3> HIDE DEF got, ClosedRows, closed, Fresh
    <3>1. CASE r[c] = None
      BY <2>1, <3>1
    <3>2. CASE r[c] # None
      BY <1>7, <2>1, <2>2, <3>2
    <3> QED
      BY <3>1, <3>2
  <2> QED
    BY <1>3, <1>10, <2>3 DEF Unmatched
<1>13. \A c \in candidates \ kept : \E x \in persisted \cup already :
          x.fp = c.fp
  BY <1>2, <1>3
<1>14. \A x \in match \ closed : \E c \in kept :
         got[c] = FromCandidate(c, s, run, "PERSISTED", x)
  <2> TAKE x \in match \ closed
  <2>1. PICK c \in cands : m[c] = x
    OBVIOUS
  <2>2. c \in matched /\ got[c] = FromCandidate(c, s, run, "PERSISTED", m[c])
    BY <2>1
  <2> QED
    BY <2>1, <2>2
<1>15. \A c \in kept : c \in matched \/ c \in Fresh(m)
  OBVIOUS
<1>16. \A c \in kept, x \in On(carry, hunks) : x.fp # c.fp
  BY <1>2, <1>3
<1> HIDE DEF kept, got, closed, matched, persisted, carried, cands
<1>17. Planned(rows, s, run, candidates, carry, hunks, match, already, pool,
               kept, got, closed)
  <2>1. persisted = On(carry, hunks)
    BY DEF persisted
  <2> QED
    BY <1>4, <1>8, <1>11, <1>12, <1>13, <1>14, <1>15, <1>16, <2>1 DEF Planned
<1> QED
  BY <1>17

-----------------------------------------------------------------------------
(* What mergeWithPreviousRun gives: the run's own rows, those among them   *)
(* that report a finding of the AI, and the earlier finding each takes.    *)

Own(rows, previous, kind) ==
    {x \in rows : ~(/\ kind = "base_scan" /\ x.status = "RESOLVED"
                    /\ \E e \in previous : e.id = x.origin)}

Reported(rows, previous, kind) ==
    OfSource(Active(Own(rows, previous, kind)), "AI")

Repeats(x, e) == e.id = x.origin \/ e.fp = x.fp \/ Similar(x, e)

Merging(merged, s, run, rows, previous, kind, f) ==
    LET own == Own(rows, previous, kind)
        reported == Reported(rows, previous, kind)
        taken == {f[x] : x \in reported}
    IN  /\ merged = (own \ reported)
                    \cup {IF f[x] = None THEN x ELSE MergedRow(x, f[x], kind) :
                            x \in reported}
                    \cup {CarriedAgain(s, run, e, kind) :
                            e \in previous \ taken}
        /\ \A x \in reported :
             /\ f[x] # None => f[x] \in previous /\ Repeats(x, f[x])
             /\ \A e \in previous \ taken :
                  /\ Repeats(x, e) => f[x] # None
                  /\ e.id = x.origin => f[x].id = x.origin
                  /\ /\ e.fp = x.fp
                     /\ \A d \in previous : d.id # x.origin
                     => f[x] # None /\ f[x].fp = x.fp

(* An order of a finite set lists all of it.                               *)
LEMMA Listed ==
  ASSUME NEW S, IsFiniteSet(S), NEW o \in SetToSeqs(S), NEW x \in S
  PROVE  \E i \in DOMAIN o : o[i] = x
<1> DEFINE D == 1..Cardinality(S)
<1>1. Cardinality(S) \in Nat
  BY FS_CardinalityType
<1>2. IsFiniteSet(D) /\ Cardinality(D) = Cardinality(S)
  BY <1>1, FS_Interval
<1>3. o \in [D -> S] /\ \A i, j \in D : i # j => o[i] # o[j]
  BY DEF SetToSeqs
<1>4. o \in Injection(D, S)
  <2> HIDE DEF D
  <2> QED
    BY <1>3 DEF Injection, IsInjective
<1>5. Cardinality(D) = Cardinality(S) <=> o \in Surjection(D, S)
  <2> HIDE DEF D
  <2> QED
    BY <1>4, FS_Injection
<1>6. o \in Surjection(D, S)
  BY <1>2, <1>5
<1> HIDE DEF D
<1> QED
  BY <1>3, <1>6 DEF Surjection

(* mergeWithPreviousRun: its rows are the run's own, joined with what they *)
(* repeat, and what none of them takes.                                    *)
LEMMA MergeGives ==
  ASSUME NEW s, NEW run, NEW rows, IsFiniteSet(rows),
         NEW previous, None \notin previous, NEW kind,
         NEW merged \in MergeWithPrevious(s, run, rows, previous, kind)
  PROVE  \E f : Merging(merged, s, run, rows, previous, kind, f)
<1> DEFINE own == Own(rows, previous, kind)
           reported == Reported(rows, previous, kind)
<1>1. PICK f \in Matches(reported, previous) :
        merged = (own \ reported)
                 \cup {IF f[x] = None THEN x ELSE MergedRow(x, f[x], kind) :
                         x \in reported}
                 \cup {CarriedAgain(s, run, e, kind) :
                         e \in previous \ {f[x] : x \in reported}}
  BY DEF MergeWithPrevious, Own, Reported
<1>2. IsFiniteSet(reported)
  <2>1. reported \in SUBSET rows
    BY DEF Reported, Own, OfSource, Active, Live
  <2> HIDE DEF reported
  <2> QED
    BY <2>1, FS_Subset
<1> DEFINE taken == {f[x] : x \in reported}
           Left(o, i) == previous \ {f[o[j]] : j \in 1..(i - 1)}
<1>3. PICK o \in SetToSeqs(reported) : \A i \in DOMAIN o :
        f[o[i]] \in IF Repeated(o[i], Left(o, i)) = {} THEN {None}
                    ELSE Repeated(o[i], Left(o, i))
  <2> HIDE DEF reported
  <2> QED
    BY DEF Matches
<1>4. ASSUME NEW x \in reported
      PROVE  \E left \in SUBSET previous :
               /\ previous \ taken \subseteq left
               /\ f[x] \in IF Repeated(x, left) = {} THEN {None}
                           ELSE Repeated(x, left)
  <2> HIDE DEF reported
  <2>1. PICK i \in DOMAIN o : o[i] = x
    BY <1>2, Listed
  <2>2. \A j \in 1..(i - 1) : o[j] \in reported
    <3>1. o \in [1..Cardinality(reported) -> reported]
      BY DEF SetToSeqs
    <3>2. Cardinality(reported) \in Nat
      BY <1>2, FS_CardinalityType
    <3> QED
      BY <2>1, <3>1, <3>2
  <2>3. previous \ taken \subseteq Left(o, i)
    BY <2>2
  <2>4. Left(o, i) \in SUBSET previous
    OBVIOUS
  <2>5. f[x] \in IF Repeated(x, Left(o, i)) = {} THEN {None}
                 ELSE Repeated(x, Left(o, i))
    BY <1>3, <2>1
  <2> HIDE DEF Left, taken
  <2> QED
    BY <2>3, <2>4, <2>5
<1>5. ASSUME NEW x \in reported
      PROVE  /\ f[x] # None => f[x] \in previous /\ Repeats(x, f[x])
             /\ \A e \in previous \ taken :
                  /\ Repeats(x, e) => f[x] # None
                  /\ e.id = x.origin => f[x].id = x.origin
                  /\ /\ e.fp = x.fp
                     /\ \A d \in previous : d.id # x.origin
                     => f[x] # None /\ f[x].fp = x.fp
  <2> HIDE DEF reported, taken
  <2>1. PICK left \in SUBSET previous :
          /\ previous \ taken \subseteq left
          /\ f[x] \in IF Repeated(x, left) = {} THEN {None}
                      ELSE Repeated(x, left)
    BY <1>4
  <2>2. Repeated(x, left) \subseteq left
    BY DEF Repeated, Matching, SameFingerprint
  <2>3. \A e \in Repeated(x, left) : Repeats(x, e)
    BY DEF Repeated, Matching, SameFingerprint, Repeats
  <2>4. \A e \in left : Repeats(x, e) => Repeated(x, left) # {}
    BY DEF Repeated, Matching, SameFingerprint, Repeats
  <2>5. ASSUME NEW e \in left, e.fp = x.fp,
               \A d \in previous : d.id # x.origin
        PROVE  Repeated(x, left) = {d \in left : d.fp = x.fp}
    BY <2>5 DEF Repeated, Matching, SameFingerprint
  <2>6. None \notin left
    OBVIOUS
  <2>7. f[x] # None => f[x] \in Repeated(x, left)
    BY <2>1
  <2>8. Repeated(x, left) # {} => f[x] \in Repeated(x, left) /\ f[x] # None
    BY <2>1, <2>2, <2>6
  <2>9. ASSUME NEW e \in previous \ taken, e.fp = x.fp,
               \A d \in previous : d.id # x.origin
        PROVE  f[x] # None /\ f[x].fp = x.fp
    <3>1. e \in left
      BY <2>1
    <3>2. Repeated(x, left) = {d \in left : d.fp = x.fp}
      BY <2>5, <2>9, <3>1
    <3> QED
      BY <2>8, <2>9, <3>1, <3>2
  <2>10. ASSUME NEW e \in previous \ taken, e.id = x.origin
         PROVE  f[x].id = x.origin
    <3>1. e \in left
      BY <2>1
    <3>2. Repeated(x, left) = {d \in left : d.id = x.origin}
      BY <2>10, <3>1 DEF Repeated
    <3> QED
      BY <2>8, <2>10, <3>1, <3>2
  <2> QED
    BY <2>1, <2>2, <2>3, <2>4, <2>7, <2>8, <2>9, <2>10
<1> HIDE DEF own, reported, taken
<1>6. /\ own = Own(rows, previous, kind)
      /\ reported = Reported(rows, previous, kind)
      /\ taken = {f[x] : x \in reported}
  BY DEF own, reported, taken
<1>7. Merging(merged, s, run, rows, previous, kind, f)
  BY <1>1, <1>5, <1>6 DEF Merging
<1> QED
  BY <1>7

-----------------------------------------------------------------------------
(* What the rules and the AI report.                                       *)

Sourced(x) ==
    /\ x.title = x.fp[1]
    /\ x.src = "STATIC" => x.fp[1] \in {"secret", "key"}
    /\ x.src = "AI" => x.fp[1] \in Titles

(* A finding stands on the lines it was reported on.                       *)
Placed(x, file) ==
    /\ 1 <= x.first /\ x.first <= x.last /\ x.last <= Len(file)
    /\ file[x.first] = x.lines[1] /\ file[x.last] = x.lines[2]

(* The rule that found a secret on a line would do so again.               *)
Fits(x) ==
    /\ x.fp[1] = "key" => text[x.lines[1]] = "key"
    /\ x.fp[1] = "secret" => text[x.lines[1]] \in {"secret", "comment"}

(* A version whose lines the model has the text of.                        *)
Told(file) ==
    /\ Version(file) /\ ToSet(file) \subseteq DOMAIN text
    /\ text \in Seq(Texts \cup {"plain"})

(* The rules read a line of a version: the text is known, and so is the    *)
(* fingerprint.                                                            *)
LEMMA Reading ==
  ASSUME NEW file, Told(file), NEW n \in DOMAIN file
  PROVE  /\ file[n] \in Nat /\ text[file[n]] \in Texts \cup {"plain"}
         /\ file[n] \in DOMAIN text
         /\ n \in Nat /\ Len(file) \in Nat /\ DOMAIN file = 1..Len(file)
         /\ Fingerprint(file, n) \in Fingerprints
         /\ Fingerprint(file, n)[1] \in {"secret", "key"}
         /\ Fingerprint(file, n)[1] = "key" <=> text[file[n]] = "key"
<1>1. /\ file \in Seq(Nat) /\ file[n] \in DOMAIN text
      /\ text \in Seq(Texts \cup {"plain"})
  BY DEF Told, Version, ToSet
<1>2. /\ file[n] \in Nat /\ n \in Nat /\ Len(file) \in Nat
      /\ DOMAIN file = 1..Len(file)
  BY <1>1
<1>3. text[file[n]] \in Texts \cup {"plain"}
  BY <1>1
<1> QED
  BY <1>1, <1>2, <1>3 DEF Fingerprint, Fingerprints, Names

(* The hits one static finding stands for.                                 *)
Group(file, hits, n) ==
    {m \in hits : Fingerprint(file, m) = Fingerprint(file, n)}

(* dedupeFindings: the finding of a group of hits is on lines the rule     *)
(* reported.                                                               *)
LEMMA PreparedIs ==
  ASSUME NEW file, Told(file), NEW hits \in SUBSET DOMAIN file,
         \A m \in hits : text[file[m]] # "plain",
         NEW n \in hits, NEW c, c = Prepared(file, Group(file, hits, n))
  PROVE  /\ c \in Candidate /\ c.src = "STATIC"
         /\ c.fp = Fingerprint(file, n) /\ Sourced(c) /\ Placed(c, file)
         /\ Fits(c)
         /\ Group(file, hits, n) = {n} =>
              c.first = n /\ c.last = n /\ c.sup = Suppressed(file, n)
<1> DEFINE G == Group(file, hits, n)
           counted == Counted(file, G)
<1>1. /\ Len(file) \in Nat /\ DOMAIN file = 1..Len(file)
      /\ 1..Len(file) \subseteq 0..Len(file) /\ 0..Len(file) \subseteq Nat
  BY Reading
<1>2. G \subseteq hits /\ n \in G
  BY DEF Group
<1>3. counted \subseteq G /\ counted # {}
  <2> HIDE DEF G
  <2> QED
    BY <1>2 DEF Counted
<1> HIDE DEF counted
<1>4. Min(G) \in G
  <2>1. G \in SUBSET Nat /\ G # {}
    BY <1>1, <1>2
  <2> HIDE DEF G
  <2> QED
    BY <2>1, LeastOf
<1>5. /\ Min(counted) \in counted
      /\ \A y \in counted : Min(counted) <= y
  <2>1. counted \in SUBSET Nat
    BY <1>1, <1>2, <1>3
  <2> QED
    BY <1>3, <2>1, LeastOf
<1>6. Max(counted) \in counted
  <2>1. counted \in SUBSET (0..Len(file))
    BY <1>1, <1>2, <1>3
  <2> QED
    BY <1>1, <1>3, <2>1, GreatestOf
<1>7. Fingerprint(file, Min(G)) = Fingerprint(file, n)
  BY <1>4 DEF Group
<1> DEFINE fp == Fingerprint(file, n)
           sup == \A m \in counted : Suppressed(file, m)
           i == Min(counted)
           j == Max(counted)
<1>8. c = [src |-> "STATIC", fp |-> fp, title |-> fp[1], sev |-> 3,
           first |-> i, last |-> j, sup |-> sup,
           lines |-> <<file[i], file[j]>>]
  BY <1>7 DEF Prepared, counted
<1>9. /\ i \in DOMAIN file /\ j \in DOMAIN file /\ i <= j
      /\ i \in hits
      /\ Fingerprint(file, i) = fp
  <2>1. i \in G
    BY <1>3, <1>5
  <2> QED
    BY <1>2, <1>3, <1>5, <1>6, <2>1 DEF Group
<1>10. /\ file[i] \in Nat /\ file[j] \in Nat /\ fp \in Fingerprints
       /\ fp[1] \in {"secret", "key"}
       /\ text[file[i]] \in Texts \cup {"plain"}
       /\ fp[1] = "key" <=> text[file[i]] = "key"
  BY <1>9, Reading
<1>11. sup \in BOOLEAN
  OBVIOUS
<1>12. G = {n} => i = n /\ j = n /\ sup = Suppressed(file, n)
  <2> HAVE G = {n}
  <2>1. counted = {n}
    BY <1>3
  <2> QED
    BY <1>5, <1>6, <2>1 DEF Suppressed
<1> HIDE DEF fp, sup, i, j, G
<1>13. /\ c.src = "STATIC" /\ c.fp = fp /\ c.title = fp[1] /\ c.sev = 3
       /\ c.first = i /\ c.last = j /\ c.sup = sup
       /\ c.lines = <<file[i], file[j]>>
  BY <1>8
<1>14. c \in Candidate
  <2>1. /\ "STATIC" \in Sources /\ fp[1] \in Names /\ 3 \in 1..3
        /\ i \in Int /\ j \in Int /\ <<file[i], file[j]>> \in Nat \X Nat
    BY <1>1, <1>9, <1>10 DEF Sources, Names
  <2> QED
    BY <1>8, <1>10, <1>11, <2>1 DEF Candidate
<1>15. Sourced(c)
  BY <1>10, <1>13 DEF Sourced
<1>16. Placed(c, file)
  BY <1>1, <1>9, <1>13 DEF Placed
<1>17. Fits(c)
  <2>1. text[file[i]] # "plain"
    BY <1>9
  <2>2. Texts \subseteq {"plain", "secret", "comment", "key"}
    BY LifecycleAssumption
  <2>3. c.lines[1] = file[i] /\ c.fp[1] = fp[1]
    BY <1>13
  <2>4. text[file[i]] \in {"secret", "comment", "key"}
    BY <1>10, <2>1, <2>2
  <2>5. fp[1] = "secret" => text[file[i]] # "key"
    BY <1>10
  <2> QED
    BY <1>10, <2>3, <2>4, <2>5 DEF Fits
<1>18. c.fp = Fingerprint(file, n)
  BY <1>13 DEF fp
<1>19. Group(file, hits, n) = {n} =>
         c.first = n /\ c.last = n /\ c.sup = Suppressed(file, n)
  BY <1>12, <1>13 DEF G
<1> QED
  BY <1>13, <1>14, <1>15, <1>16, <1>17, <1>18, <1>19

(* The image of a finite set is finite.                                    *)
LEMMA Image ==
  ASSUME NEW S, IsFiniteSet(S), NEW f, NEW T, T = {f[x] : x \in S}
  PROVE  IsFiniteSet(T)
<1> DEFINE g == [x \in S |-> f[x]]
<1>1. g \in Surjection(S, T)
  BY DEF Surjection
<1> HIDE DEF g
<1> QED
  BY <1>1, FS_Surjection

(* analyzeDiff: one candidate per fingerprint, each on lines its rule      *)
(* reports; a hit alone with its fingerprint is on its own line.           *)
LEMMA StaticFindings ==
  ASSUME NEW file, Told(file), NEW added \in SUBSET DOMAIN file,
         NEW off,
         NEW cands, cands = StaticCandidates(file, added, off)
  PROVE  /\ IsFiniteSet(cands)
         /\ \A c \in cands : /\ c \in Candidate /\ c.src = "STATIC"
                             /\ Sourced(c) /\ Placed(c, file) /\ Fits(c)
         /\ \A c, d \in cands : c.fp = d.fp => c = d
         /\ \A n \in Hits(file, added, off) :
              Group(file, Hits(file, added, off), n) = {n} =>
                \E c \in cands : /\ c.fp = Fingerprint(file, n)
                                 /\ c.first = n /\ c.last = n
                                 /\ c.sup = Suppressed(file, n)
<1> DEFINE hits == Hits(file, added, off)
           Of(n) == Prepared(file, Group(file, hits, n))
<1>1. hits \in SUBSET DOMAIN file /\ \A m \in hits : text[file[m]] # "plain"
  BY DEF Hits
<1>2. cands = {Of(n) : n \in hits}
  <2> HIDE DEF hits
  <2>1. cands = {Prepared(file, {n \in hits : Fingerprint(file, n) = k}) :
                   k \in {Fingerprint(file, n) : n \in hits}}
    BY DEF StaticCandidates, hits
  <2> QED
    BY <2>1 DEF Group
<1> HIDE DEF hits
<1>3. \A n \in hits :
        /\ Of(n) \in Candidate /\ Of(n).src = "STATIC"
        /\ Of(n).fp = Fingerprint(file, n) /\ Sourced(Of(n))
        /\ Placed(Of(n), file) /\ Fits(Of(n))
        /\ Group(file, hits, n) = {n} =>
             /\ Of(n).first = n /\ Of(n).last = n
             /\ Of(n).sup = Suppressed(file, n)
  BY <1>1, PreparedIs
<1>4. \A n, m \in hits : Of(n).fp = Of(m).fp => Of(n) = Of(m)
  <2> TAKE n, m \in hits
  <2> HAVE Of(n).fp = Of(m).fp
  <2>1. Fingerprint(file, n) = Fingerprint(file, m)
    BY <1>3
  <2>2. Group(file, hits, n) = Group(file, hits, m)
    BY <2>1 DEF Group
  <2> QED
    BY <2>2
<1>5. IsFiniteSet(cands)
  <2>1. /\ Len(file) \in Nat /\ DOMAIN file = 1..Len(file)
    BY DEF Told, Version
  <2>2. IsFiniteSet(DOMAIN file)
    BY <2>1, FS_Interval
  <2>3. IsFiniteSet(hits)
    BY <1>1, <2>2, FS_Subset
  <2> DEFINE g == [n \in hits |-> Of(n)]
  <2>4. cands = {g[n] : n \in hits}
    BY <1>2
  <2> HIDE DEF g
  <2> QED
    BY <2>3, <2>4, Image
<1> HIDE DEF Of
<1>6. /\ \A c \in cands : /\ c \in Candidate /\ c.src = "STATIC"
                          /\ Sourced(c) /\ Placed(c, file) /\ Fits(c)
      /\ \A c, d \in cands : c.fp = d.fp => c = d
      /\ \A n \in hits : Group(file, hits, n) = {n} =>
           \E c \in cands : /\ c.fp = Fingerprint(file, n)
                            /\ c.first = n /\ c.last = n
                            /\ c.sup = Suppressed(file, n)
  BY <1>2, <1>3, <1>4
<1> QED
  BY <1>5, <1>6 DEF hits

(* What is left of an answer that holds one finding.                       *)
LEMMA AiFound ==
  ASSUME NEW file, Told(file), NEW added \in SUBSET DOMAIN file, NEW static,
         NEW off, NEW a \in AiFindings(file, added, off),
         NEW c \in Deduped(static, a)
  PROVE  /\ c \in Candidate /\ c.src = "AI" /\ Sourced(c) /\ Placed(c, file)
         /\ Deduped(static, a) = {c}
<1> DEFINE sup == \E x \in static : Overlaps(a, x)
<1>1. PICK t \in Titles \ off, v \in 2..3, n \in Reviewable(file, added) :
        a = [src |-> "AI", fp |-> <<t, 0>>, title |-> t, sev |-> v,
             first |-> n, last |-> n, sup |-> FALSE,
             lines |-> <<file[n], file[n]>>]
  BY DEF AiFindings
<1>2. n \in DOMAIN file
  BY DEF Reviewable
<1>3. c = [a EXCEPT !.sup = sup] /\ Deduped(static, a) = {c}
  BY DEF Deduped
<1>4. sup \in BOOLEAN
  OBVIOUS
<1> HIDE DEF sup
<1>5. c = [src |-> "AI", fp |-> <<t, 0>>, title |-> t, sev |-> v,
           first |-> n, last |-> n, sup |-> sup,
           lines |-> <<file[n], file[n]>>]
  BY <1>1, <1>3
<1>6. /\ n \in Nat /\ file[n] \in Nat /\ Len(file) \in Nat
      /\ n \in 1..Len(file)
  BY <1>2, Reading
<1>7. c \in Candidate
  BY <1>4, <1>5, <1>6 DEF Candidate, Sources, Names, Fingerprints
<1> QED
  BY <1>3, <1>5, <1>6, <1>7 DEF Sourced, Placed

-----------------------------------------------------------------------------
(* The rows of a plan, one form after the other.                           *)

(* An id tells the scan, the run, whether the row closes something, and    *)
(* what it was about.                                                      *)
Labelled(y) ==
    /\ y.id[3] = "RESOLVED" <=> y.status = "RESOLVED"
    /\ y.id[4] = y.fp /\ y.id[5] = y.first /\ y.id[6] = y.sup

Stamped(y, s, run) == y.id[1] = s /\ y.id[2] = run /\ Labelled(y)

Follows(y, x) == y.origin = x.id /\ y.since = x.since /\ y.src = x.src

(* A row that closes one of the base follows it and stands for the same    *)
(* finding.                                                                *)
LEMMA ClosingRow ==
  ASSUME NEW x \in Row, NEW s \in Nat, NEW run \in Nat,
         NEW y, y = FromStored(x, s, run, "RESOLVED")
  PROVE  /\ y \in Row /\ Same(y, x) /\ SamePlace(y, x)
         /\ Stamped(y, s, run) /\ y.status = "RESOLVED"
         /\ Follows(y, x) /\ y.again = x.again
         /\ y.id[3] = "RESOLVED"
<1>1. "RESOLVED" \in Statuses
  BY DEF Statuses
<1>2. /\ y \in Row /\ Same(y, x) /\ SamePlace(y, x)
      /\ y.id = RowId(s, run, "RESOLVED", x) /\ y.status = "RESOLVED"
      /\ y.origin = x.id /\ y.since = x.since /\ y.again = x.again
  BY <1>1, StoredRow
<1>3. /\ y.id[1] = s /\ y.id[2] = run /\ y.id[3] = "RESOLVED"
      /\ y.id[4] = x.fp /\ y.id[5] = x.first /\ y.id[6] = x.sup
  <2>1. x.fp \in Fingerprints /\ x.first \in Int /\ x.sup \in BOOLEAN
    BY DEF Row
  <2> QED
    BY <2>1, <1>1, <1>2, IdFields
<1> QED
  BY <1>2, <1>3 DEF Stamped, Labelled, Same, SamePlace, Follows

(* A row carried through the hunks follows the one of the base, on the     *)
(* lines mapOldLine gives.                                                 *)
LEMMA CarryingRow ==
  ASSUME NEW x \in Row, NEW hunks, NEW i \in Int, NEW j \in Int,
         MapOldLine(hunks, x.first) = {i}, MapOldLine(hunks, x.last) = {j},
         NEW s \in Nat, NEW run \in Nat,
         NEW y, y = FromStored(Mapped(hunks, x), s, run, "PERSISTED")
  PROVE  /\ y \in Row /\ Same(y, x) /\ y.first = i /\ y.last = j
         /\ Stamped(y, s, run) /\ y.status = "PERSISTED"
         /\ y.id[3] = "PERSISTED" /\ Follows(y, x) /\ y.again = x.again
<1> DEFINE m == Mapped(hunks, x)
<1>1. "PERSISTED" \in Statuses
  BY DEF Statuses
<1>2. /\ m \in Row /\ Same(m, x) /\ m.first = i /\ m.last = j
      /\ m.id = x.id /\ m.since = x.since /\ m.again = x.again
  BY MappedRow
<1> HIDE DEF m
<1>3. y = FromStored(m, s, run, "PERSISTED")
  BY DEF m
<1>4. /\ y \in Row /\ Same(y, m) /\ SamePlace(y, m)
      /\ y.id = RowId(s, run, "PERSISTED", m) /\ y.status = "PERSISTED"
      /\ y.origin = m.id /\ y.since = m.since /\ y.again = m.again
  BY <1>1, <1>2, <1>3, StoredRow
<1>5. /\ y.id[1] = s /\ y.id[2] = run /\ y.id[3] = "PERSISTED"
      /\ y.id[4] = m.fp /\ y.id[5] = m.first /\ y.id[6] = m.sup
  <2>1. m.fp \in Fingerprints /\ m.first \in Int /\ m.sup \in BOOLEAN
    BY <1>2 DEF Row
  <2> QED
    BY <2>1, <1>1, <1>2, <1>4, IdFields
<1> QED
  BY <1>2, <1>4, <1>5 DEF Stamped, Labelled, Same, SamePlace, Follows

(* The row of a candidate: new, or following the row that it continues or  *)
(* re-opens.                                                               *)
LEMMA GotRow ==
  ASSUME NEW c \in Candidate, NEW s \in Nat, NEW run \in Nat,
         NEW status \in {"NEW", "PERSISTED", "REOPENED"},
         NEW x \in Row \cup {None},
         NEW y, y = FromCandidate(c, s, run, status, x)
  PROVE  /\ y \in Row /\ Same(y, c) /\ SamePlace(y, c)
         /\ Stamped(y, s, run) /\ y.status = status /\ y.id[3] = status
         /\ ~y.again
         /\ x = None => y.origin = None /\ y.since = s
         /\ x # None => y.origin = x.id /\ y.since = x.since
<1>1. status \in Statuses /\ status # "RESOLVED"
  BY DEF Statuses
<1>2. /\ y \in Row /\ Same(y, c) /\ SamePlace(y, c)
      /\ y.id = RowId(s, run, status, c) /\ y.status = status
      /\ ~y.again
      /\ x = None => y.origin = None /\ y.since = s
      /\ x # None => y.origin = x.id /\ y.since = x.since
  BY <1>1, CandidateRow
<1>3. /\ y.id[1] = s /\ y.id[2] = run /\ y.id[3] = status
      /\ y.id[4] = c.fp /\ y.id[5] = c.first /\ y.id[6] = c.sup
  <2>1. c.fp \in Fingerprints /\ c.first \in Int /\ c.sup \in BOOLEAN
    BY DEF Candidate
  <2> QED
    BY <2>1, <1>1, <1>2, IdFields
<1> QED
  BY <1>1, <1>2, <1>3 DEF Stamped, Labelled, Same, SamePlace

(* What a candidate's row looks like.                                      *)
GotForm(y, c, s, run, match, old) ==
    /\ y \in Row /\ Same(y, c) /\ SamePlace(y, c) /\ Stamped(y, s, run)
    /\ ~y.again /\ y.status = y.id[3]
    /\ \/ y.status = "NEW" /\ y.origin = None /\ y.since = s
       \/ /\ y.status = "PERSISTED"
          /\ \E x \in match : Follows(y, x) /\ x.fp = c.fp
       \/ /\ y.status = "REOPENED"
          /\ \E x \in old : Follows(y, x) /\ (x.fp = c.fp \/ Similar(c, x))

(* A fingerprint tells a rule's finding from one of the AI's.              *)
LEMMA SameSource ==
  ASSUME NEW x, NEW y, Sourced(x), Sourced(y), x.fp = y.fp,
         x.src \in Sources, y.src \in Sources
  PROVE  x.src = y.src
BY LifecycleAssumption DEF Sourced, Sources

(* planFindings: the row of a candidate is NEW, PERSISTED from a match or  *)
(* REOPENED from a resolved row.                                           *)
LEMMA GotForms ==
  ASSUME NEW rows, NEW s \in Nat, NEW run \in Nat,
         NEW candidates \in SUBSET Candidate, NEW carry \in SUBSET Row,
         NEW hunks, NEW match \in SUBSET Row, NEW already,
         NEW pool \in SUBSET Row, NEW kept, NEW got, NEW closed,
         Planned(rows, s, run, candidates, carry, hunks, match, already,
                 pool, kept, got, closed),
         \A c \in candidates : Sourced(c),
         \A x \in carry \cup match \cup pool : Sourced(x),
         NEW c \in kept
  PROVE  GotForm(got[c], c, s, run, match,
                 pool \cup Closing(s, run, carry, hunks, closed))
<1> DEFINE old == pool \cup Closing(s, run, carry, hunks, closed)
<1>1. c \in Candidate /\ closed \subseteq match
  BY DEF Planned
<1>2. None \notin Row
  BY NoneAssumption
<1>3. \A x \in old : x \in Row /\ Sourced(x)
  <2>1. \A x \in Gone(carry, hunks, closed) : x \in Row /\ Sourced(x)
    BY <1>1 DEF Gone
  <2>2. \A x \in Gone(carry, hunks, closed) :
          /\ FromStored(x, s, run, "RESOLVED") \in Row
          /\ Same(FromStored(x, s, run, "RESOLVED"), x)
    BY <2>1, ClosingRow
  <2>3. \A x \in Gone(carry, hunks, closed) :
          Sourced(FromStored(x, s, run, "RESOLVED"))
    BY <2>1, <2>2 DEF Same, Sourced
  <2>4. \A x \in Closing(s, run, carry, hunks, closed) :
          x \in Row /\ Sourced(x)
    BY <2>2, <2>3 DEF Closing
  <2> QED
    BY <2>4
<1> HIDE DEF old
<1>4. CASE \E x \in match :
             /\ x.fp = c.fp
             /\ got[c] = FromCandidate(c, s, run, "PERSISTED", x)
  <2>1. PICK x \in match :
          /\ x.fp = c.fp
          /\ got[c] = FromCandidate(c, s, run, "PERSISTED", x)
    BY <1>4
  <2>2. x \in Row /\ x # None
    BY <1>2
  <2>3. /\ got[c] \in Row /\ Same(got[c], c) /\ SamePlace(got[c], c)
        /\ Stamped(got[c], s, run) /\ got[c].status = "PERSISTED"
        /\ got[c].id[3] = "PERSISTED" /\ ~got[c].again
        /\ got[c].origin = x.id /\ got[c].since = x.since
    <3>1. /\ "PERSISTED" \in {"NEW", "PERSISTED", "REOPENED"}
          /\ x \in Row \cup {None}
      BY <2>2
    <3> QED
      BY <1>1, <2>1, <2>2, <3>1, GotRow, SMTT(30)
  <2>4. c.src = x.src
    <3>1. Sourced(c) /\ Sourced(x)
      BY <1>1 DEF Planned
    <3> QED
      BY <1>1, <2>1, <2>2, <3>1, SameSource DEF Candidate, Row
  <2>5. Follows(got[c], x)
    BY <2>3, <2>4 DEF Follows, Same
  <2> QED
    BY <2>1, <2>3, <2>5 DEF GotForm
<1>5. CASE got[c] = FromCandidate(c, s, run, "NEW", None)
  <2>3. /\ got[c] \in Row /\ Same(got[c], c) /\ SamePlace(got[c], c)
        /\ Stamped(got[c], s, run) /\ got[c].status = "NEW"
        /\ got[c].id[3] = "NEW" /\ ~got[c].again
        /\ got[c].origin = None /\ got[c].since = s
    BY <1>1, <1>5, GotRow
  <2> QED
    BY <2>3 DEF GotForm
<1>6. CASE \E x \in old :
             /\ x.fp = c.fp \/ Similar(c, x)
             /\ got[c] = FromCandidate(c, s, run, "REOPENED", x)
  <2>1. PICK x \in old :
          /\ x.fp = c.fp \/ Similar(c, x)
          /\ got[c] = FromCandidate(c, s, run, "REOPENED", x)
    BY <1>6
  <2>2. x \in Row /\ x # None
    BY <1>2, <1>3
  <2>3. /\ got[c] \in Row /\ Same(got[c], c) /\ SamePlace(got[c], c)
        /\ Stamped(got[c], s, run) /\ got[c].status = "REOPENED"
        /\ got[c].id[3] = "REOPENED" /\ ~got[c].again
        /\ got[c].origin = x.id /\ got[c].since = x.since
    BY <1>1, <2>1, <2>2, GotRow
  <2>4. c.src = x.src
    <3>1. Sourced(c) /\ Sourced(x)
      BY <1>1, <1>3 DEF Planned
    <3>2. Similar(c, x) => c.src = x.src
      BY DEF Similar
    <3> QED
      BY <1>1, <2>1, <2>2, <3>1, <3>2, SameSource DEF Candidate, Row
  <2>5. Follows(got[c], x)
    BY <2>3, <2>4 DEF Follows, Same
  <2> QED
    BY <2>1, <2>3, <2>5 DEF GotForm, old
<1>7. \/ \E x \in match :
             /\ x.fp = c.fp
             /\ got[c] = FromCandidate(c, s, run, "PERSISTED", x)
      \/ got[c] = FromCandidate(c, s, run, "NEW", None)
      \/ \E x \in old :
             /\ x.fp = c.fp \/ Similar(c, x)
             /\ got[c] = FromCandidate(c, s, run, "REOPENED", x)
  BY DEF Planned, Unmatched, old
<1> QED
  BY <1>4, <1>5, <1>6, <1>7 DEF old

-----------------------------------------------------------------------------
(* Merging keeps what is known of the rows.                                *)

(* The rows of a run of the AI on scan s.                                  *)
AiGood(rows, s, run, file) ==
    /\ IsFiniteSet(rows) /\ rows \subseteq Row
    /\ \A x \in rows : /\ x.src = "AI" /\ Stamped(x, s, run) /\ Sourced(x)
                       /\ x.status # "RESOLVED" => Placed(x, file)

(* An earlier run's active findings.                                       *)
Earlier(previous, file) ==
    /\ IsFiniteSet(previous) /\ previous \subseteq Row
    /\ \A e \in previous : /\ e.src = "AI" /\ e.status # "RESOLVED" /\ ~e.sup
                           /\ Labelled(e) /\ Sourced(e) /\ Placed(e, file)

Kinds == {"same_scan", "base_scan"}

(* Which row a row of the merge comes from.                                *)
JoinedFrom(y, x, e) ==
    /\ Same(y, x) /\ SamePlace(y, x) /\ y.id = x.id /\ y.again = x.again
    /\ y.status # "RESOLVED" /\ y.sev >= e.sev

AgainFrom(y, e, s, run) ==
    /\ Same(y, e) /\ SamePlace(y, e) /\ y.sev = e.sev /\ y.again
    /\ Stamped(y, s, run) /\ y.id[3] = "CARRIED" /\ y.since = e.since
    /\ y.status # "RESOLVED"

MergeForm(y, s, run, rows, previous, kind, f) ==
    \/ /\ y \in Own(rows, previous, kind)
       /\ y \in Reported(rows, previous, kind) => f[y] = None
    \/ \E x \in Reported(rows, previous, kind) :
         /\ f[x] \in previous /\ Repeats(x, f[x])
         /\ y = MergedRow(x, f[x], kind) /\ JoinedFrom(y, x, f[x])
         /\ kind = "same_scan" =>
              y.status = x.status /\ y.origin = x.origin /\ y.since = x.since
         /\ kind = "base_scan" =>
              /\ y.origin = f[x].id
              /\ y.since = IF x.origin = f[x].id THEN x.since ELSE f[x].since
    \/ \E e \in previous \ {f[x] : x \in Reported(rows, previous, kind)} :
         /\ y = CarriedAgain(s, run, e, kind) /\ AgainFrom(y, e, s, run)
         /\ kind = "same_scan" => y.status = e.status /\ y.origin = e.origin
         /\ kind = "base_scan" => y.origin = e.id

(* The rows a merge goes through are active and of the AI.                 *)
LEMMA ReportedAre ==
  ASSUME NEW rows, NEW previous, NEW kind,
         NEW x \in Reported(rows, previous, kind)
  PROVE  /\ x \in rows /\ x \in Own(rows, previous, kind)
         /\ x.status # "RESOLVED" /\ ~x.sup /\ x.src = "AI"
BY DEF Reported, Own, OfSource, Active, Live

(* A merge goes through every active row of the AI.                        *)
LEMMA ReportedIf ==
  ASSUME NEW rows, NEW previous, NEW kind, NEW x \in rows,
         x.status # "RESOLVED", ~x.sup, x.src = "AI"
  PROVE  x \in Reported(rows, previous, kind)
BY DEF Reported, Own, OfSource, Active, Live

(* A row of a merge is the run's own, one joined with an earlier finding,  *)
(* or one carried along.                                                   *)
LEMMA MergeForms ==
  ASSUME NEW s \in Nat, NEW run \in Nat, NEW rows, NEW file,
         AiGood(rows, s, run, file), NEW previous, Earlier(previous, file),
         NEW kind \in Kinds, NEW merged, NEW f,
         Merging(merged, s, run, rows, previous, kind, f),
         NEW y \in merged
  PROVE  MergeForm(y, s, run, rows, previous, kind, f)
<1> DEFINE own == Own(rows, previous, kind)
           reported == Reported(rows, previous, kind)
           taken == {f[x] : x \in reported}
<1>1. CASE y \in own \ reported
  BY <1>1 DEF MergeForm
<1>2. ASSUME NEW x \in reported,
             y = IF f[x] = None THEN x ELSE MergedRow(x, f[x], kind)
      PROVE  MergeForm(y, s, run, rows, previous, kind, f)
  <2>0. x \in Row /\ x \in own /\ x.status # "RESOLVED"
    BY ReportedAre DEF AiGood
  <2>1. CASE f[x] = None
    BY <1>2, <2>0, <2>1 DEF MergeForm
  <2>2. CASE f[x] # None
    <3>1. /\ f[x] \in previous /\ Repeats(x, f[x])
      BY <2>2 DEF Merging
    <3>2. y = MergedRow(x, f[x], kind) /\ f[x] \in Row
      BY <1>2, <2>2, <3>1 DEF Earlier
    <3>3. /\ Same(y, x) /\ SamePlace(y, x) /\ y.id = x.id
          /\ y.again = x.again /\ y.sev >= f[x].sev
          /\ kind = "same_scan" =>
               y.status = x.status /\ y.origin = x.origin /\ y.since = x.since
          /\ kind = "base_scan" => y.origin = f[x].id
          /\ x.status # "RESOLVED" => y.status # "RESOLVED"
          /\ y.since = IF kind = "base_scan" /\ x.origin # f[x].id
                       THEN f[x].since ELSE x.since
      BY <2>0, <3>2, JoinedRow DEF Kinds
    <3>4. JoinedFrom(y, x, f[x])
      BY <2>0, <3>3 DEF JoinedFrom
    <3>5. kind = "base_scan" =>
            y.since = IF x.origin = f[x].id THEN x.since ELSE f[x].since
      BY <3>3
    <3> QED
      BY <3>1, <3>2, <3>3, <3>4, <3>5 DEF MergeForm
  <2> QED
    BY <2>1, <2>2
<1>3. ASSUME NEW e \in previous \ taken, y = CarriedAgain(s, run, e, kind)
      PROVE  MergeForm(y, s, run, rows, previous, kind, f)
  <2>1. e \in Row /\ e.status # "RESOLVED"
    BY DEF Earlier
  <2>2. /\ Same(y, e) /\ SamePlace(y, e) /\ y.sev = e.sev
        /\ y.id = RowId(s, run, "CARRIED", e) /\ y.again
        /\ y.since = e.since
        /\ kind = "same_scan" => y.status = e.status /\ y.origin = e.origin
        /\ kind = "base_scan" => y.status = "PERSISTED" /\ y.origin = e.id
    <3>1. kind \in {"same_scan", "base_scan"}
      BY DEF Kinds
    <3> QED
      BY <1>3, <2>1, <3>1, CarriedRow, SMTT(60)
  <2>3. e.fp \in Fingerprints /\ e.first \in Int /\ e.sup \in BOOLEAN
    BY <2>1 DEF Row
  <2>4. /\ y.id[1] = s /\ y.id[2] = run /\ y.id[3] = "CARRIED"
        /\ y.id[4] = e.fp /\ y.id[5] = e.first /\ y.id[6] = e.sup
    BY <2>2, <2>3, IdFields
  <2>5. y.status # "RESOLVED"
    BY <2>1, <2>2 DEF Kinds
  <2>6. Stamped(y, s, run)
    BY <2>2, <2>4, <2>5 DEF Stamped, Labelled, Same, SamePlace
  <2>7. AgainFrom(y, e, s, run)
    BY <2>2, <2>4, <2>5, <2>6 DEF AgainFrom
  <2> QED
    BY <1>3, <2>2, <2>7 DEF MergeForm
<1>4. merged = (own \ reported)
               \cup {IF f[x] = None THEN x ELSE MergedRow(x, f[x], kind) :
                       x \in reported}
               \cup {CarriedAgain(s, run, e, kind) : e \in previous \ taken}
  BY DEF Merging
<1> HIDE DEF own, reported, taken
<1> QED
  BY <1>1, <1>2, <1>3, <1>4

(* mergeWithPreviousRun: its rows are of this run and on their lines.      *)
LEMMA MergeGood ==
  ASSUME NEW s \in Nat, NEW run \in Nat, NEW rows, NEW file,
         AiGood(rows, s, run, file), NEW previous, Earlier(previous, file),
         NEW kind \in Kinds, NEW merged, NEW f,
         Merging(merged, s, run, rows, previous, kind, f)
  PROVE  AiGood(merged, s, run, file)
<1> DEFINE own == Own(rows, previous, kind)
           reported == Reported(rows, previous, kind)
           taken == {f[x] : x \in reported}
<1>1. ASSUME NEW y \in merged
      PROVE  /\ y \in Row /\ y.src = "AI" /\ Stamped(y, s, run) /\ Sourced(y)
             /\ y.status # "RESOLVED" => Placed(y, file)
  <2>1. MergeForm(y, s, run, rows, previous, kind, f)
    BY MergeForms
  <2>2. CASE y \in Own(rows, previous, kind)
    BY <2>2 DEF Own, AiGood
  <2>3. ASSUME NEW x \in reported, f[x] \in previous,
               y = MergedRow(x, f[x], kind), JoinedFrom(y, x, f[x])
        PROVE  /\ y \in Row /\ y.src = "AI" /\ Stamped(y, s, run)
               /\ Sourced(y)
               /\ y.status # "RESOLVED" => Placed(y, file)
    <3>1. /\ x \in Row /\ x.status # "RESOLVED" /\ x.src = "AI"
          /\ Stamped(x, s, run) /\ Sourced(x) /\ Placed(x, file)
      BY ReportedAre DEF AiGood
    <3>2. y \in Row
      BY <2>3, <3>1, JoinedRow DEF Earlier, Kinds
    <3> QED
      BY <2>3, <3>1, <3>2
         DEF JoinedFrom, Same, SamePlace, Stamped, Labelled, Sourced, Placed
  <2>4. ASSUME NEW e \in previous, y = CarriedAgain(s, run, e, kind),
               AgainFrom(y, e, s, run)
        PROVE  /\ y \in Row /\ y.src = "AI" /\ Stamped(y, s, run)
               /\ Sourced(y)
               /\ y.status # "RESOLVED" => Placed(y, file)
    <3>1. /\ e \in Row /\ e.src = "AI" /\ Sourced(e) /\ Placed(e, file)
      BY DEF Earlier
    <3>2. y \in Row
      BY <2>4, <3>1, CarriedRow DEF Kinds
    <3> QED
      BY <2>4, <3>1, <3>2 DEF AgainFrom, Same, SamePlace, Sourced, Placed
  <2> QED
    BY <2>1, <2>2, <2>3, <2>4 DEF MergeForm
<1>2. IsFiniteSet(merged)
  <2> DEFINE A == [x \in reported |->
                     IF f[x] = None THEN x ELSE MergedRow(x, f[x], kind)]
             B == [e \in previous \ taken |-> CarriedAgain(s, run, e, kind)]
             AA == {A[x] : x \in reported}
             BB == {B[e] : e \in previous \ taken}
  <2>1. merged = (own \ reported) \cup AA \cup BB
    BY DEF Merging
  <2>2. IsFiniteSet(rows) /\ IsFiniteSet(previous)
    BY DEF AiGood, Earlier
  <2>3. own \subseteq rows /\ reported \subseteq own
    BY DEF Own, Reported, OfSource, Active, Live
  <2>4. IsFiniteSet(own \ reported) /\ IsFiniteSet(reported)
        /\ IsFiniteSet(previous \ taken)
    <3> HIDE DEF own, reported, taken
    <3>1. own \ reported \in SUBSET rows /\ reported \in SUBSET rows
          /\ previous \ taken \in SUBSET previous
      BY <2>3
    <3> QED
      BY <2>2, <3>1, FS_Subset
  <2>5. IsFiniteSet(AA)
    <3> HIDE DEF A, reported
    <3> QED
      BY <2>4, Image
  <2>6. IsFiniteSet(BB)
    <3> DEFINE D == previous \ taken
    <3>1. BB = {B[e] : e \in D} /\ IsFiniteSet(D)
      BY <2>4
    <3> HIDE DEF B, BB, D, taken
    <3> QED
      BY <3>1, Image
  <2> HIDE DEF own, reported, AA, BB
  <2>7. IsFiniteSet((own \ reported) \cup AA)
    BY <2>4, <2>5, FS_Union
  <2> QED
    BY <2>1, <2>6, <2>7, FS_Union
<1> QED
  BY <1>1, <1>2 DEF AiGood

-----------------------------------------------------------------------------
(* Keys: a live finding of a scan is known by its fingerprint and whether  *)
(* it is suppressed, a row by its id.                                      *)

OneKey(rows) ==
    \A x, y \in rows : /\ x.status # "RESOLVED" /\ y.status # "RESOLVED"
                       /\ x.fp = y.fp /\ x.sup = y.sup
                       => x = y

Distinct(rows) == \A x, y \in rows : x.id = y.id => x = y

Apart(rows, others) ==
    \A x \in rows, z \in others :
        /\ x.status # "RESOLVED" /\ z.status # "RESOLVED"
        => x.fp # z.fp \/ x.sup # z.sup

(* An earlier finding that no row takes has the fingerprint of none.       *)
LEMMA NotRepeated ==
  ASSUME NEW s \in Nat, NEW run \in Nat, NEW rows, NEW file,
         AiGood(rows, s, run, file), NEW previous, Earlier(previous, file),
         NEW kind, NEW merged, NEW f,
         Merging(merged, s, run, rows, previous, kind, f),
         OneKey(previous),
         \A x \in rows, d \in previous :
            x.status # "RESOLVED" /\ d.id = x.origin => d.fp = x.fp,
         NEW x \in Reported(rows, previous, kind),
         NEW e \in previous
                   \ {f[z] : z \in Reported(rows, previous, kind)}
  PROVE  x.fp # e.fp
<1> SUFFICES ASSUME x.fp = e.fp
             PROVE  FALSE
  OBVIOUS
<1>1. x \in rows /\ x.status # "RESOLVED"
  BY ReportedAre
<1>2. /\ \A d, c \in previous : d.fp = c.fp => d = c
      /\ None \notin previous
  <2>1. /\ \A d \in previous : d.sup \in BOOLEAN /\ ~d.sup
        /\ \A d \in previous : d.status # "RESOLVED"
        /\ previous \subseteq Row
    BY DEF Earlier, Row
  <2>2. \A d, c \in previous : d.sup = c.sup
    BY <2>1
  <2> QED
    BY <2>1, <2>2, NoneAssumption DEF OneKey
<1>3. Repeats(x, e)
  BY DEF Repeats
<1>4. f[x] # None /\ f[x] \in previous
  BY <1>3 DEF Merging
<1>5. CASE \A d \in previous : d.id # x.origin
  <2>1. f[x].fp = x.fp
    BY <1>5 DEF Merging
  <2> QED
    BY <1>2, <1>4, <2>1
<1>6. CASE \E d \in previous : d.id = x.origin
  <2>1. PICK d \in previous : d.id = x.origin
    BY <1>6
  <2>2. d = e
    BY <1>1, <1>2, <2>1
  <2>3. f[x].id = x.origin
    BY <2>1, <2>2 DEF Merging
  <2>4. f[x].fp = x.fp
    BY <1>1, <1>4, <2>3
  <2> QED
    BY <1>2, <1>4, <2>4
<1> QED
  BY <1>5, <1>6

(* mergeWithPreviousRun: no two live rows of one fingerprint, and no two   *)
(* rows of one id.                                                         *)
LEMMA MergeKeys ==
  ASSUME NEW s \in Nat, NEW run \in Nat, NEW rows, NEW file,
         AiGood(rows, s, run, file), NEW previous, Earlier(previous, file),
         NEW kind \in Kinds, NEW merged, NEW f,
         Merging(merged, s, run, rows, previous, kind, f),
         OneKey(previous), OneKey(rows), Distinct(rows),
         \A x \in rows, d \in previous :
            x.status # "RESOLVED" /\ d.id = x.origin => d.fp = x.fp
  PROVE  OneKey(merged) /\ Distinct(merged)
<1> DEFINE reported == Reported(rows, previous, kind)
           left == previous \ {f[z] : z \in reported}
           Img(y, x) == /\ y.id = x.id /\ y.fp = x.fp /\ y.sup = x.sup
                        /\ x.status = "RESOLVED" <=> y.status = "RESOLVED"
                        /\ \/ y = x /\ (x \in reported => f[x] = None)
                           \/ /\ x \in reported /\ f[x] \in previous
                              /\ y = MergedRow(x, f[x], kind)
<1>0. None \notin previous
  BY NoneAssumption DEF Earlier
<1>1. ASSUME NEW y \in merged
      PROVE  \/ \E x \in rows : Img(y, x)
             \/ \E e \in left : /\ y = CarriedAgain(s, run, e, kind)
                                /\ AgainFrom(y, e, s, run)
  <2>1. MergeForm(y, s, run, rows, previous, kind, f)
    BY MergeForms
  <2>2. CASE /\ y \in Own(rows, previous, kind)
             /\ y \in reported => f[y] = None
    <3>1. y \in rows
      BY <2>2 DEF Own
    <3> QED
      BY <2>2, <3>1
  <2>3. ASSUME NEW x \in reported, f[x] \in previous,
               y = MergedRow(x, f[x], kind), JoinedFrom(y, x, f[x])
        PROVE  \E z \in rows : Img(y, z)
    <3>1. x \in rows /\ x.status # "RESOLVED"
      BY ReportedAre
    <3> QED
      BY <2>3, <3>1 DEF JoinedFrom, Same
  <2> QED
    BY <2>1, <2>2, <2>3 DEF MergeForm
<1>2. \A x \in reported, e \in left : x.fp # e.fp
  BY NotRepeated
<1>3. \A x \in rows, y, z \in merged : Img(y, x) /\ Img(z, x) => y = z
  BY <1>0
<1>4. \A e \in left : e \in Row /\ e.status # "RESOLVED" /\ ~e.sup
  BY DEF Earlier
<1>5. \A x \in rows : /\ x \in Row /\ x.src = "AI" /\ Stamped(x, s, run)
  BY DEF AiGood
<1>6. ASSUME NEW x \in rows, NEW e \in left, x.status # "RESOLVED",
             x.sup = e.sup
      PROVE  x.fp # e.fp
  <2>1. ~x.sup
    BY <1>4, <1>6
  <2>2. x \in reported
    BY <1>5, <1>6, <2>1, ReportedIf
  <2> QED
    BY <1>2, <2>2
<1>7. ASSUME NEW x \in rows, NEW e \in left, NEW z,
             AgainFrom(z, e, s, run), x.id = z.id
      PROVE  FALSE
  <2>1. /\ z.id[3] = "CARRIED" /\ z.id[4] = e.fp /\ z.id[6] = e.sup
    BY <1>7 DEF AgainFrom, Stamped, Labelled, Same
  <2>2. x.status # "RESOLVED" /\ x.fp = e.fp /\ x.sup = e.sup
    BY <1>5, <1>7, <2>1 DEF Stamped, Labelled
  <2> QED
    BY <1>6, <2>2
<1>8. ASSUME NEW e \in left, NEW d \in left, e.fp = d.fp
      PROVE  e = d
  <2>1. e.sup \in BOOLEAN /\ d.sup \in BOOLEAN /\ ~e.sup /\ ~d.sup
    BY <1>4 DEF Row
  <2>2. e.sup = d.sup
    BY <2>1
  <2> QED
    BY <1>4, <1>8, <2>2 DEF OneKey
<1> HIDE DEF left, reported, Img
<1>9. Distinct(merged)
  <2> SUFFICES ASSUME NEW y \in merged, NEW z \in merged, y.id = z.id
               PROVE  y = z
    BY DEF Distinct
  <2>1. CASE \E x \in rows : Img(y, x)
    <3>1. PICK x \in rows : Img(y, x)
      BY <2>1
    <3>2. CASE \E w \in rows : Img(z, w)
      <4>1. PICK w \in rows : Img(z, w)
        BY <3>2
      <4>2. x = w
        BY <3>1, <4>1 DEF Img, Distinct
      <4> QED
        BY <1>3, <3>1, <4>1, <4>2
    <3>3. CASE \E e \in left : AgainFrom(z, e, s, run)
      BY <1>7, <3>1, <3>3 DEF Img
    <3> QED
      BY <1>1, <3>2, <3>3
  <2>2. ASSUME NEW e \in left, AgainFrom(y, e, s, run),
               y = CarriedAgain(s, run, e, kind)
        PROVE  y = z
    <3>1. CASE \E w \in rows : Img(z, w)
      BY <1>7, <2>2, <3>1 DEF Img
    <3>2. ASSUME NEW d \in left, AgainFrom(z, d, s, run),
                 z = CarriedAgain(s, run, d, kind)
          PROVE  y = z
      <4>1. e.fp = d.fp
        BY <2>2, <3>2 DEF AgainFrom, Stamped, Labelled, Same
      <4> QED
        BY <1>8, <2>2, <3>2, <4>1
    <3> QED
      BY <1>1, <3>1, <3>2
  <2> QED
    BY <1>1, <2>1, <2>2
<1>10. OneKey(merged)
  <2> SUFFICES ASSUME NEW y \in merged, NEW z \in merged,
                      y.status # "RESOLVED", z.status # "RESOLVED",
                      y.fp = z.fp, y.sup = z.sup
               PROVE  y = z
    BY DEF OneKey
  <2>1. \A x \in rows, e \in left, u, v \in merged :
          /\ Img(u, x) /\ u.status # "RESOLVED" /\ AgainFrom(v, e, s, run)
          => u.fp # v.fp \/ u.sup # v.sup
    BY <1>6 DEF Img, AgainFrom, Same
  <2>2. CASE \E x \in rows : Img(y, x)
    <3>1. PICK x \in rows : Img(y, x)
      BY <2>2
    <3>2. CASE \E w \in rows : Img(z, w)
      <4>1. PICK w \in rows : Img(z, w)
        BY <3>2
      <4>2. /\ x.status # "RESOLVED" /\ w.status # "RESOLVED"
            /\ x.fp = w.fp /\ x.sup = w.sup
        BY <3>1, <4>1 DEF Img
      <4>3. x = w
        BY <4>2 DEF OneKey
      <4> QED
        BY <1>3, <3>1, <4>1, <4>3
    <3>3. CASE \E e \in left : AgainFrom(z, e, s, run)
      BY <2>1, <3>1, <3>3
    <3> QED
      BY <1>1, <3>2, <3>3
  <2>3. ASSUME NEW e \in left, AgainFrom(y, e, s, run),
               y = CarriedAgain(s, run, e, kind)
        PROVE  y = z
    <3>1. CASE \E w \in rows : Img(z, w)
      BY <2>1, <2>3, <3>1
    <3>2. ASSUME NEW d \in left, AgainFrom(z, d, s, run),
                 z = CarriedAgain(s, run, d, kind)
          PROVE  y = z
      <4>1. e.fp = d.fp
        BY <2>3, <3>2 DEF AgainFrom, Same
      <4> QED
        BY <1>8, <2>3, <3>2, <4>1
    <3> QED
      BY <1>1, <3>1, <3>2
  <2> QED
    BY <1>1, <2>2, <2>3
<1> QED
  BY <1>9, <1>10

(* mergeWithPreviousRun: its rows have no fingerprint of rows that neither *)
(* run had.                                                                *)
LEMMA MergeApart ==
  ASSUME NEW s \in Nat, NEW run \in Nat, NEW rows, NEW file,
         AiGood(rows, s, run, file), NEW previous, Earlier(previous, file),
         NEW kind \in Kinds, NEW merged, NEW f,
         Merging(merged, s, run, rows, previous, kind, f),
         NEW others, Apart(rows, others), Apart(previous, others)
  PROVE  Apart(merged, others)
<1> SUFFICES ASSUME NEW y \in merged, NEW z \in others,
                    y.status # "RESOLVED", z.status # "RESOLVED"
             PROVE  y.fp # z.fp \/ y.sup # z.sup
  BY DEF Apart
<1>1. MergeForm(y, s, run, rows, previous, kind, f)
  BY MergeForms
<1>2. CASE y \in Own(rows, previous, kind)
  BY <1>2 DEF Own, Apart
<1>3. ASSUME NEW x \in Reported(rows, previous, kind), JoinedFrom(y, x, f[x])
      PROVE  y.fp # z.fp \/ y.sup # z.sup
  <2>1. x \in rows /\ x.status # "RESOLVED"
    BY ReportedAre
  <2> QED
    BY <1>3, <2>1 DEF Apart, JoinedFrom, Same
<1>4. ASSUME NEW e \in previous, AgainFrom(y, e, s, run)
      PROVE  y.fp # z.fp \/ y.sup # z.sup
  <2>1. e.status # "RESOLVED"
    BY DEF Earlier
  <2> QED
    BY <1>4, <2>1 DEF Apart, AgainFrom, Same
<1> QED
  BY <1>1, <1>2, <1>3, <1>4 DEF MergeForm

-----------------------------------------------------------------------------
(* The invariant.                                                          *)

Scan ==
    [head : Seq(Nat), mode : {"FULL", "INCREMENTAL"}, off : SUBSET Names,
     rows : SUBSET Row, ai : BOOLEAN]

Answer ==
    [scan : Nat, run : Nat, rows : SUBSET Row, own : BOOLEAN,
     based : BOOLEAN, missed : SUBSET Nat]

TypeInv ==
    /\ text \in Seq(Texts \cup {"plain"}) /\ head \in Seq(Nat)
    /\ edits \in 0..MaxEdits /\ runs \in 0..MaxRuns
    /\ scans \in Seq(Scan) /\ Len(scans) <= MaxScans
    /\ answers \subseteq Answer
    /\ \A a \in answers : /\ a.scan \in DOMAIN scans /\ a.run \in 1..runs
                         /\ a.missed \subseteq DOMAIN scans
    /\ late \subseteq (1..runs) \X DOMAIN scans
    /\ repeated \in BOOLEAN
    /\ refused \subseteq {"stale", "carried", "suppressed", "reported"}

(* No version has a line twice, and the lines two versions share come in   *)
(* one order.                                                              *)
Versions == {TargetFile, head} \cup {scans[s].head : s \in DOMAIN scans}

VersionInv ==
    /\ \A f \in Versions : Told(f)
    /\ \A f, g \in Versions : SameOrder(f, g)

(* The ids of a scan tell its rows apart and, for the live ones, what they *)
(* are about; the live ones stand on their lines.                          *)
RowsOf(s) ==
    LET rows == scans[s].rows
    IN  /\ IsFiniteSet(rows) /\ OneKey(rows) /\ Distinct(rows)
        /\ \A x \in rows :
             /\ x.id[1] = s /\ x.id[2] \in 0..runs /\ Labelled(x)
             /\ Sourced(x)
             /\ x.status # "RESOLVED" => Placed(x, scans[s].head)

RowInv == \A s \in DOMAIN scans : RowsOf(s)

(* The rows a later run of the AI does not replace.                        *)
Staying(s) == scans[s].rows \ EarlierRun(s)

(* A run was stored late into this scan or an earlier one.                 *)
Overtaken(s) == \E l \in late : l[2] <= s

(* A row of scan s is the first of its finding, or follows a stored one,   *)
(* or was cut off from it by a late run; it points at a later scan's only  *)
(* if its own run was late.                                                *)
Whole(x, s) ==
    /\ x.origin = None => x.since = s \/ (x.src = "AI" /\ Overtaken(s))
    /\ x.origin # None => /\ \E y \in Rows : Follows(x, y)
                          /\ x.origin[1] > s => Overtaken(s)

(* No row that stays points at one of its own scan that a later run        *)
(* replaces.                                                               *)
HistInv ==
    \A s \in DOMAIN scans :
        /\ \A x \in scans[s].rows : Whole(x, s)
        /\ \A x \in Staying(s), y \in EarlierRun(s) : x.origin # y.id

(* What continues the live findings of a scan's base: those that it loads, *)
(* but for those of the AI's that were stored when it was there.           *)
Followed(x, s) ==
    /\ x.status # "RESOLVED" /\ Enabled(x, scans[s].off)
    /\ x.src = "AI" => <<x.id[2], s - 1>> \notin late

ContInv ==
    \A s \in DOMAIN scans \ {1} : \A x \in scans[s - 1].rows :
        Followed(x, s) =>
          /\ scans[s].mode = "INCREMENTAL" \/ x.src = "STATIC" =>
               \E y \in Staying(s) : y.origin = x.id
          /\ x.src = "AI" /\ ~x.sup /\ scans[s].ai =>
               \E y \in scans[s].rows : y.origin = x.id

(* The live findings of the AI's in the base that a FULL run matches.      *)
AiMatch(s) ==
    IF scans[s].mode = "FULL" THEN OfSource(LoadBase(s, scans[s].off), "AI")
    ELSE {}

(* What a waiting row points at is there to be stored with it, unless      *)
(* another run has rewritten the scan of its origin.                       *)
Reaches(y, a) ==
    \/ \E z \in a.rows : z.id = y.origin /\ z.status = "RESOLVED"
    \/ y.origin[1] = a.scan /\ \E z \in Staying(a.scan) : z.id = y.origin
    \/ /\ y.origin[1] # a.scan
       /\ y.origin[1] \in a.missed \/ \E z \in Rows : z.id = y.origin

(* A waiting row points at a row no other waiting run will write, follows  *)
(* it while it is stored, and in its own scan at a closed one only.        *)
Linked(y, a) ==
    /\ y.origin[1] \in DOMAIN scans /\ y.origin[2] \in 0..runs
    /\ \A b \in answers : y.origin[2] = b.run => b.run = a.run
    /\ y.origin[2] = a.run \/ y.origin[1] = a.scan => y.origin[3] = "RESOLVED"
    /\ \A z \in Rows \cup a.rows : z.id = y.origin => Follows(y, z)
    /\ ~y.sup => Reaches(y, a)

(* The rows of a waiting run are its own and told apart from all others,   *)
(* have whole histories, and a FULL scan's continue or close what it       *)
(* loaded.                                                                 *)
Planning(a) ==
    /\ AiGood(a.rows, a.scan, a.run, scans[a.scan].head)
    /\ OneKey(a.rows) /\ Distinct(a.rows) /\ Apart(a.rows, Staying(a.scan))
    /\ scans[a.scan].mode = "INCREMENTAL" =>
         \A y \in a.rows : y.status \in {"NEW", "REOPENED"}

Fresh(a) == \A x \in Rows : x.id[2] # a.run

Tied(a) ==
    \A y \in a.rows :
        IF y.origin = None THEN y.since = a.scan ELSE Linked(y, a)

Covers(a) ==
    \A x \in AiMatch(a.scan) :
        ~x.sup => \/ <<x.id[2], a.scan - 1>> \in late
                  \/ \E y \in a.rows : y.origin = x.id

AnsInv ==
    /\ \A a, b \in answers : a.run = b.run => a = b
    /\ \A a \in answers : Planning(a) /\ Fresh(a) /\ Tied(a) /\ Covers(a)

(* A static finding is on a line its rule would still report.              *)
FitInv ==
    \A s \in DOMAIN scans : \A x \in scans[s].rows :
        x.src = "STATIC" /\ x.status # "RESOLVED" => Fits(x)

(* While no version holds two lines of one rule's, each such line that the *)
(* pull request adds has an active finding of its own.                     *)
OnItsOwn(s, line) ==
    \E x \in scans[s].rows :
        /\ x.src = "STATIC" /\ x.status # "RESOLVED" /\ ~x.sup
        /\ x.first = PosOf(scans[s].head, line) /\ x.last = x.first

(* The rules that are on for a scan.                                       *)
RulesOn(s) == {"secret", "key"} \ scans[s].off

QuietInv ==
    ~repeated =>
        /\ ~SameKeyTwice(head, text)
        /\ \A s \in DOMAIN scans :
             /\ ~SameKeyTwice(scans[s].head, text)
             /\ \A line \in ActiveHits(s, RulesOn(s)) : OnItsOwn(s, line)

LifecycleInv ==
    /\ TypeInv /\ VersionInv /\ RowInv /\ HistInv /\ ContInv /\ AnsInv
    /\ FitInv /\ QuietInv /\ ReportedStorable

-----------------------------------------------------------------------------
(* Commits.                                                                *)

(* f is h with lines left out, and lines added that g does not have; the    *)
(* lines of h it keeps are those at sh.                                    *)
Shifts(sh, D, h, f, g) ==
    /\ h \in Seq(Nat) /\ f \in Seq(Nat) /\ g \in Seq(Nat)
    /\ D \subseteq DOMAIN f /\ sh \in [D -> DOMAIN h]
    /\ \A a \in D : f[a] = h[sh[a]]
    /\ \A a, b \in D : a < b => sh[a] < sh[b]
    /\ \A a \in DOMAIN f : f[a] \in ToSet(g) => a \in D
    /\ SameOrder(h, g) /\ SameOrder(g, h)

(* Leaving lines out and adding lines keeps the order of the lines shared  *)
(* with another version.                                                   *)
LEMMA Shifted ==
  ASSUME NEW sh, NEW D, NEW h, NEW f, NEW g, Shifts(sh, D, h, f, g)
  PROVE  SameOrder(f, g) /\ SameOrder(g, f)
<1> USE DEF Shifts
<1>0. /\ \A a \in D : a \in Nat /\ sh[a] \in DOMAIN h
      /\ \A i \in DOMAIN g : g[i] \in ToSet(g) /\ i \in Nat
  BY DEF ToSet
<1>1. SameOrder(f, g)
  <2> SUFFICES ASSUME NEW a \in DOMAIN f, NEW b \in DOMAIN f,
                      NEW i \in DOMAIN g, NEW j \in DOMAIN g,
                      f[a] = g[i], f[b] = g[j], a < b
               PROVE  i < j
    BY DEF SameOrder
  <2>1. a \in D /\ b \in D
    BY <1>0
  <2>2. sh[a] < sh[b] /\ h[sh[a]] = g[i] /\ h[sh[b]] = g[j]
    BY <2>1
  <2> QED
    BY <1>0, <2>1, <2>2 DEF SameOrder
<1>2. SameOrder(g, f)
  <2> SUFFICES ASSUME NEW a \in DOMAIN g, NEW b \in DOMAIN g,
                      NEW i \in DOMAIN f, NEW j \in DOMAIN f,
                      g[a] = f[i], g[b] = f[j], a < b
               PROVE  i < j
    BY DEF SameOrder
  <2>1. i \in D /\ j \in D
    BY <1>0
  <2>2. sh[i] < sh[j]
    <3>1. /\ sh[i] \in DOMAIN h /\ sh[j] \in DOMAIN h
          /\ g[a] = h[sh[i]] /\ g[b] = h[sh[j]]
      BY <1>0, <2>1
    <3>2. SameOrder(g, h)
      OBVIOUS
    <3> QED
      BY <3>1, <3>2 DEF SameOrder
  <2>3. ~(j < i) /\ i # j
    <3>0. sh[i] \in DOMAIN h /\ sh[j] \in DOMAIN h /\ h \in Seq(Nat)
      BY <1>0, <2>1
    <3>1. sh[i] \in Nat /\ sh[j] \in Nat
      <4> HIDE DEF Shifts
      <4>1. DOMAIN h = 1..Len(h) /\ Len(h) \in Nat
        BY <3>0
      <4> QED
        BY <3>0, <4>1
    <3>2. \A c, d \in D : c < d => sh[c] < sh[d]
      OBVIOUS
    <3>3. j < i => sh[j] < sh[i]
      BY <2>1, <3>2
    <3> HIDE DEF Shifts
    <3> QED
      BY <2>2, <3>1, <3>3
  <2> QED
    BY <1>0, <2>1, <2>3
<1> QED
  BY <1>1, <1>2

(* A commit that adds a line makes a version, in the order of all earlier  *)
(* ones.                                                                   *)
LEMMA InsertedVersion ==
  ASSUME NEW h, Version(h), NEW p \in 1..(Len(h) + 1), NEW e \in Nat,
         e \notin ToSet(h), NEW f, f = InsertAt(h, p, e)
  PROVE  /\ Version(f) /\ ToSet(f) = ToSet(h) \cup {e}
         /\ \A g : /\ Version(g) /\ e \notin ToSet(g)
                   /\ SameOrder(h, g) /\ SameOrder(g, h)
                   => SameOrder(f, g) /\ SameOrder(g, f)
<1>1. /\ f \in Seq(Nat) /\ Len(f) = Len(h) + 1
      /\ \A i \in 1..(p - 1) : f[i] = h[i]
      /\ f[p] = e
      /\ \A i \in p..Len(h) : f[i + 1] = h[i]
      /\ h \in Seq(Nat) /\ Len(h) \in Nat /\ p \in Nat
  <2>1. h \in Seq(Nat) /\ Len(h) \in Nat /\ p \in Nat
    BY DEF Version
  <2>2. /\ f \in Seq(Nat) /\ Len(f) = Len(h) + 1
        /\ \A i \in 1..(p - 1) : f[i] = h[i]
        /\ f[p] = e
        /\ \A i \in p..Len(h) : f[i + 1] = h[i]
    <3>1. InsertionOf(f, h, p, e)
      BY <2>1, Inserted
    <3> QED
      BY <3>1 DEF InsertionOf
  <2> QED
    BY <2>1, <2>2
<1> DEFINE D == DOMAIN f \ {p}
           sh == [a \in D |-> IF a < p THEN a ELSE a - 1]
<1>2. DOMAIN f = 1..(Len(h) + 1) /\ DOMAIN h = 1..Len(h)
  BY <1>1
<1>8. \A a \in D : /\ a \in Nat /\ 1 <= a /\ a <= Len(h) + 1 /\ a # p
                   /\ sh[a] = IF a < p THEN a ELSE a - 1
  BY <1>1, <1>2
<1>9. \A a \in Nat : 1 <= a /\ a <= Len(h) + 1 /\ a # p => a \in D
  BY <1>1, <1>2
<1>10. sh \in [D -> Int]
  <2> SUFFICES ASSUME NEW a \in D
               PROVE  (IF a < p THEN a ELSE a - 1) \in Int
    OBVIOUS
  <2> QED
    BY <1>1, <1>8
<1>3. /\ sh \in [D -> DOMAIN h]
      /\ \A a, b \in D : a < b => sh[a] < sh[b]
      /\ \A i \in DOMAIN h : \E a \in D : sh[a] = i
  <2> HIDE DEF D, sh
  <2>1. ASSUME NEW a \in D
        PROVE  sh[a] \in DOMAIN h
    <3>1. a \in Nat /\ 1 <= a /\ a <= Len(h) + 1 /\ a # p
          /\ sh[a] = IF a < p THEN a ELSE a - 1
      BY <1>8
    <3>2. CASE a < p
      BY <1>1, <1>2, <3>1, <3>2
    <3>3. CASE ~(a < p)
      BY <1>1, <1>2, <3>1, <3>3
    <3> QED
      BY <3>2, <3>3
  <2>2. ASSUME NEW a \in D, NEW b \in D, a < b
        PROVE  sh[a] < sh[b]
    <3>1. /\ a \in Nat /\ b \in Nat /\ p \in Nat
          /\ sh[a] = IF a < p THEN a ELSE a - 1
          /\ sh[b] = IF b < p THEN b ELSE b - 1
          /\ a # p /\ b # p
      BY <1>1, <1>8
    <3>2. CASE b < p
      BY <2>2, <3>1, <3>2
    <3>3. CASE ~(b < p) /\ a < p
      BY <2>2, <3>1, <3>3, <1>8
    <3>4. CASE ~(b < p) /\ ~(a < p)
      BY <2>2, <3>1, <3>4
    <3> QED
      BY <3>2, <3>3, <3>4
  <2>3. ASSUME NEW i \in DOMAIN h
        PROVE  \E a \in D : sh[a] = i
    <3>1. i \in Nat /\ 1 <= i /\ i <= Len(h)
      BY <1>1, <1>2
    <3>2. CASE i < p
      <4>1. i \in D
        BY <1>1, <1>9, <3>1, <3>2
      <4>2. sh[i] = i
        BY <1>8, <3>2, <4>1
      <4> QED
        BY <4>1, <4>2
    <3>3. CASE ~(i < p)
      <4>1. i + 1 \in D /\ ~(i + 1 < p)
        BY <1>1, <1>9, <3>1, <3>3
      <4>2. sh[i + 1] = (i + 1) - 1
        BY <1>8, <4>1
      <4> QED
        BY <3>1, <4>1, <4>2
    <3> QED
      BY <3>2, <3>3
  <2>4. sh \in [D -> DOMAIN h]
    BY <1>10, <2>1
  <2> QED
    BY <2>2, <2>3, <2>4
<1>4. \A a \in D : f[a] = h[sh[a]]
  <2> HIDE DEF D, sh
  <2> TAKE a \in D
  <2>0. a \in Nat /\ 1 <= a /\ a <= Len(h) + 1 /\ a # p
        /\ sh[a] = IF a < p THEN a ELSE a - 1
    BY <1>8
  <2>1. CASE a < p
    BY <1>1, <2>0, <2>1
  <2>2. CASE ~(a < p)
    <3>1. a - 1 \in p..Len(h) /\ (a - 1) + 1 = a
      BY <1>1, <2>0, <2>2
    <3>2. f[(a - 1) + 1] = h[a - 1]
      BY <1>1, <3>1
    <3> QED
      BY <2>0, <2>2, <3>1, <3>2
  <2> QED
    BY <2>1, <2>2
<1>5. ToSet(f) = ToSet(h) \cup {e}
  <2>1. D \subseteq DOMAIN f /\ p \in DOMAIN f
        /\ \A a \in DOMAIN f : a \in D \/ a = p
    BY <1>1, <1>2
  <2> HIDE DEF D, sh
  <2>2. ToSet(f) \subseteq ToSet(h) \cup {e}
    <3> SUFFICES ASSUME NEW a \in DOMAIN f, a # p
                 PROVE  f[a] \in ToSet(h)
      BY <1>1 DEF ToSet
    <3>1. a \in D
      BY <2>1
    <3>2. sh[a] \in DOMAIN h /\ f[a] = h[sh[a]]
      BY <1>3, <1>4, <3>1
    <3> QED
      BY <3>2 DEF ToSet
  <2>3. ToSet(h) \subseteq ToSet(f)
    <3> SUFFICES ASSUME NEW i \in DOMAIN h
                 PROVE  h[i] \in ToSet(f)
      BY DEF ToSet
    <3>1. PICK a \in D : sh[a] = i
      BY <1>3
    <3> QED
      BY <1>4, <2>1, <3>1 DEF ToSet
  <2>4. e \in ToSet(f)
    BY <1>1, <2>1 DEF ToSet
  <2> QED
    BY <2>2, <2>3, <2>4
<1>6. IsInjective(f)
  <2> SUFFICES ASSUME NEW a \in DOMAIN f, NEW b \in DOMAIN f, f[a] = f[b]
               PROVE  a = b
    BY DEF IsInjective
  <2>1. \A c \in D : f[c] \in ToSet(h)
    BY <1>3, <1>4 DEF ToSet
  <2>4. f[p] \notin ToSet(h) /\ \A c \in DOMAIN f : c # p => c \in D
    BY <1>1
  <2>2. CASE a = p \/ b = p
    <3> HIDE DEF D, sh
    <3> QED
      BY <2>1, <2>2, <2>4
  <2>3. CASE a # p /\ b # p
    <3>1. a \in D /\ b \in D
      BY <2>3
    <3>2. sh[a] = sh[b]
      <4> HIDE DEF D, sh
      <4>1. sh[a] \in DOMAIN h /\ sh[b] \in DOMAIN h /\ h[sh[a]] = h[sh[b]]
        BY <1>3, <1>4, <3>1
      <4>2. IsInjective(h)
        BY DEF Version
      <4> QED
        BY <4>1, <4>2 DEF IsInjective
    <3>3. ~(a < b) /\ ~(b < a)
      <4>1. sh[a] \in Nat /\ sh[b] \in Nat
        BY <1>2, <1>3, <3>1
      <4>2. (a < b => sh[a] < sh[b]) /\ (b < a => sh[b] < sh[a])
        BY <1>3, <3>1
      <4> QED
        BY <3>2, <4>1, <4>2
    <3> QED
      BY <1>2, <3>1, <3>3
  <2> QED
    BY <2>2, <2>3
<1>7. ASSUME NEW g, Version(g), e \notin ToSet(g),
             SameOrder(h, g), SameOrder(g, h)
      PROVE  SameOrder(f, g) /\ SameOrder(g, f)
  <2>1. /\ \A a \in DOMAIN f : f[a] \in ToSet(g) => a \in D
        /\ D \in SUBSET DOMAIN f /\ g \in Seq(Nat)
    BY <1>1, <1>7 DEF Version
  <2>2. h \in Seq(Nat) /\ f \in Seq(Nat)
    BY <1>1
  <2>3. \A a, b \in D : a < b => sh[a] < sh[b]
    BY <1>3
  <2>4. \A a \in D : f[a] = h[sh[a]]
    BY <1>4
  <2>5. sh \in [D -> DOMAIN h]
    BY <1>3
  <2> HIDE DEF D, sh
  <2> QED
    <3>1. Shifts(sh, D, h, f, g)
      BY <1>7, <2>1, <2>2, <2>3, <2>4, <2>5 DEF Shifts
    <3> QED
      BY <3>1, Shifted
<1> QED
  BY <1>1, <1>5, <1>6, <1>7 DEF Version

(* A commit that deletes a line makes a version, in the order of all       *)
(* earlier ones.                                                           *)
LEMMA RemovedVersion ==
  ASSUME NEW h, Version(h), NEW p \in DOMAIN h, NEW f, f = RemoveAt(h, p)
  PROVE  /\ Version(f) /\ ToSet(f) \subseteq ToSet(h)
         /\ \A g : Version(g) /\ SameOrder(h, g) /\ SameOrder(g, h)
                   => SameOrder(f, g) /\ SameOrder(g, f)
<1>1. /\ f \in Seq(Nat) /\ Len(f) = Len(h) - 1
      /\ \A i \in 1..(p - 1) : f[i] = h[i]
      /\ \A i \in p..(Len(h) - 1) : f[i] = h[i + 1]
      /\ h \in Seq(Nat) /\ Len(h) \in Nat /\ p \in 1..Len(h)
  <2>1. h \in Seq(Nat)
    BY DEF Version
  <2>2. /\ f \in Seq(Nat) /\ Len(f) = Len(h) - 1
        /\ \A i \in 1..(p - 1) : f[i] = h[i]
        /\ \A i \in p..(Len(h) - 1) : f[i] = h[i + 1]
    BY <2>1, Removed
  <2> QED
    BY <2>1, <2>2
<1> DEFINE D == DOMAIN f
           sh == [a \in D |-> IF a < p THEN a ELSE a + 1]
<1>2. DOMAIN f = 1..(Len(h) - 1) /\ DOMAIN h = 1..Len(h)
  BY <1>1
<1>8. \A a \in D : /\ a \in Nat /\ 1 <= a /\ a <= Len(h) - 1
                   /\ sh[a] = IF a < p THEN a ELSE a + 1
  BY <1>1, <1>2
<1>10. sh \in [D -> Int]
  <2> SUFFICES ASSUME NEW a \in D
               PROVE  (IF a < p THEN a ELSE a + 1) \in Int
    OBVIOUS
  <2> QED
    BY <1>1, <1>8
<1>3. /\ sh \in [D -> DOMAIN h]
      /\ \A a, b \in D : a < b => sh[a] < sh[b]
  <2> HIDE DEF D, sh
  <2>1. ASSUME NEW a \in D
        PROVE  sh[a] \in DOMAIN h
    <3>1. a \in Nat /\ 1 <= a /\ a <= Len(h) - 1
          /\ sh[a] = IF a < p THEN a ELSE a + 1
      BY <1>8
    <3>2. CASE a < p
      BY <1>1, <1>2, <3>1, <3>2
    <3>3. CASE ~(a < p)
      BY <1>1, <1>2, <3>1, <3>3
    <3> QED
      BY <3>2, <3>3
  <2>2. ASSUME NEW a \in D, NEW b \in D, a < b
        PROVE  sh[a] < sh[b]
    <3>1. /\ a \in Nat /\ b \in Nat /\ p \in Nat
          /\ sh[a] = IF a < p THEN a ELSE a + 1
          /\ sh[b] = IF b < p THEN b ELSE b + 1
      BY <1>1, <1>8
    <3>2. CASE b < p
      BY <2>2, <3>1, <3>2
    <3>3. CASE ~(b < p) /\ a < p
      BY <2>2, <3>1, <3>3
    <3>4. CASE ~(b < p) /\ ~(a < p)
      BY <2>2, <3>1, <3>4
    <3> QED
      BY <3>2, <3>3, <3>4
  <2>4. sh \in [D -> DOMAIN h]
    BY <1>10, <2>1
  <2> QED
    BY <2>2, <2>4
<1>4. \A a \in D : f[a] = h[sh[a]]
  <2> HIDE DEF D, sh
  <2> TAKE a \in D
  <2>0. a \in Nat /\ 1 <= a /\ a <= Len(h) - 1
        /\ sh[a] = IF a < p THEN a ELSE a + 1
    BY <1>8
  <2>1. CASE a < p
    <3>1. a \in 1..(p - 1)
      BY <1>1, <2>0, <2>1
    <3> QED
      BY <1>1, <2>0, <2>1, <3>1
  <2>2. CASE ~(a < p)
    <3>1. a \in p..(Len(h) - 1)
      BY <1>1, <2>0, <2>2
    <3> QED
      BY <1>1, <2>0, <2>2, <3>1
  <2> QED
    BY <2>1, <2>2
<1>5. ToSet(f) \subseteq ToSet(h)
  <2> HIDE DEF sh
  <2> QED
    BY <1>3, <1>4 DEF ToSet
<1>6. IsInjective(f)
  <2> SUFFICES ASSUME NEW a \in DOMAIN f, NEW b \in DOMAIN f, f[a] = f[b]
               PROVE  a = b
    BY DEF IsInjective
  <2>1. sh[a] = sh[b]
    BY <1>3, <1>4 DEF Version, IsInjective
  <2>2. ~(a < b) /\ ~(b < a)
    <3>1. sh[a] \in Nat /\ sh[b] \in Nat
      BY <1>2, <1>3
    <3>2. (a < b => sh[a] < sh[b]) /\ (b < a => sh[b] < sh[a])
      BY <1>3
    <3> QED
      BY <2>1, <3>1, <3>2
  <2> QED
    BY <1>2, <2>2
<1>7. ASSUME NEW g, Version(g), SameOrder(h, g), SameOrder(g, h)
      PROVE  SameOrder(f, g) /\ SameOrder(g, f)
  <2>1. /\ \A a \in DOMAIN f : f[a] \in ToSet(g) => a \in D
        /\ D \in SUBSET DOMAIN f /\ g \in Seq(Nat)
    BY <1>7 DEF Version
  <2>2. h \in Seq(Nat) /\ f \in Seq(Nat)
    BY <1>1
  <2>3. \A a, b \in D : a < b => sh[a] < sh[b]
    BY <1>3
  <2>4. \A a \in D : f[a] = h[sh[a]]
    BY <1>4
  <2>5. sh \in [D -> DOMAIN h]
    BY <1>3
  <2> HIDE DEF D, sh
  <2> QED
    <3>1. Shifts(sh, D, h, f, g)
      BY <1>7, <2>1, <2>2, <2>3, <2>4, <2>5 DEF Shifts
    <3> QED
      BY <3>1, Shifted
<1> QED
  BY <1>1, <1>5, <1>6, <1>7 DEF Version

(* Lines are only added, and what a line says does not change.             *)
TextGrows ==
    /\ text' \in Seq(Texts \cup {"plain"})
    /\ DOMAIN text \subseteq DOMAIN text'
    /\ \A l \in DOMAIN text : text'[l] = text[l]

(* A new head that agrees in order with every version keeps them all in    *)
(* order.                                                                  *)
LEMMA HeadVersions ==
  ASSUME VersionInv, scans' = scans, TextGrows,
         Version(head'), ToSet(head') \subseteq DOMAIN text',
         \A g \in Versions : SameOrder(head', g) /\ SameOrder(g, head')
  PROVE  VersionInv'
<1>1. Versions' \subseteq Versions \cup {head'} /\ TargetFile' = TargetFile
  BY DEF Versions, TargetFile
<1>2. \A f \in Versions : Version(f) /\ ToSet(f) \subseteq DOMAIN text
  BY DEF VersionInv, Told
<1>3. \A f \in Versions' : /\ Version(f) /\ ToSet(f) \subseteq DOMAIN text'
                           /\ text' \in Seq(Texts \cup {"plain"})
  BY <1>1, <1>2 DEF TextGrows
<1>4. SameOrder(head', head')
  <2>1. IsInjective(head') /\ head' \in Seq(Nat)
    BY DEF Version
  <2> QED
    BY <2>1 DEF SameOrder, IsInjective
<1>5. \A f, g \in Versions' : SameOrder(f, g)
  BY <1>1, <1>4 DEF VersionInv
<1> QED
  BY <1>3, <1>5 DEF VersionInv, Told

(* What a commit changes and what it leaves alone.                         *)
LEMMA EditStep ==
  ASSUME TypeInv, VersionInv, Insert \/ Delete
  PROVE  /\ TypeInv' /\ VersionInv' /\ TextGrows
         /\ scans' = scans /\ runs' = runs /\ answers' = answers
         /\ late' = late /\ refused' = refused
         /\ repeated' = (repeated \/ SameKeyTwice(head', text'))
<1>0. /\ text \in Seq(Texts \cup {"plain"}) /\ head \in Seq(Nat)
      /\ Len(text) \in Nat /\ Len(head) \in Nat
      /\ DOMAIN text = 1..Len(text) /\ DOMAIN head = 1..Len(head)
      /\ edits \in Nat /\ MaxEdits \in Nat /\ edits <= MaxEdits
  BY LifecycleAssumption DEF TypeInv
<1>1. /\ head \in Versions
      /\ \A f \in Versions : Version(f) /\ ToSet(f) \subseteq DOMAIN text
      /\ \A f, g \in Versions : SameOrder(f, g)
  BY DEF VersionInv, Told, Versions
<1>2. ASSUME Insert
      PROVE  /\ TypeInv' /\ VersionInv' /\ TextGrows
             /\ scans' = scans /\ runs' = runs /\ answers' = answers
             /\ late' = late /\ refused' = refused
             /\ repeated' = (repeated \/ SameKeyTwice(head', text'))
    <2>1. PICK p \in 1..(Len(head) + 1), t \in Texts :
            /\ text' = Append(text, t)
            /\ NewHead(InsertAt(head, p, Len(text) + 1), text')
      BY <1>2 DEF Insert
    <2>2. /\ head' = InsertAt(head, p, Len(text) + 1) /\ edits' = edits + 1
          /\ repeated' = (repeated \/ SameKeyTwice(head', text'))
          /\ scans' = scans /\ runs' = runs /\ answers' = answers
          /\ late' = late /\ refused' = refused
      BY <2>1 DEF NewHead
    <2>3. edits < MaxEdits
      BY <1>2 DEF Insert
    <2>4. /\ TextGrows /\ DOMAIN text' = 1..(Len(text) + 1)
      BY <1>0, <2>1 DEF TextGrows
    <2>5. Len(text) + 1 \in Nat
      BY <1>0
    <2>6. \A g \in Versions : Len(text) + 1 \notin ToSet(g)
      <3>1. Len(text) + 1 \notin DOMAIN text
        BY <1>0
      <3> QED
        BY <1>1, <3>1
    <2>7. /\ Version(head')
          /\ ToSet(head') = ToSet(head) \cup {Len(text) + 1}
          /\ \A g : /\ Version(g) /\ Len(text) + 1 \notin ToSet(g)
                    /\ SameOrder(head, g) /\ SameOrder(g, head)
                    => SameOrder(head', g) /\ SameOrder(g, head')
      <3>1. Version(head) /\ Len(text) + 1 \notin ToSet(head)
        BY <1>1, <2>6
      <3> QED
        BY <2>2, <2>5, <3>1, InsertedVersion
    <2>8. ToSet(head') \subseteq DOMAIN text'
      <3>1. ToSet(head) \subseteq DOMAIN text
        BY <1>1
      <3>2. Len(text) + 1 \in DOMAIN text'
        BY <1>0, <2>4
      <3> QED
        BY <2>4, <2>7, <3>1, <3>2 DEF TextGrows
    <2>9. \A g \in Versions : SameOrder(head', g) /\ SameOrder(g, head')
      BY <1>1, <2>6, <2>7
    <2>10. VersionInv'
      BY <2>2, <2>4, <2>7, <2>8, <2>9, HeadVersions
    <2>11. TypeInv'
      <3>1. edits' \in 0..MaxEdits
        BY <1>0, <2>2, <2>3
      <3>2. head' \in Seq(Nat)
        BY <2>7 DEF Version
      <3>3. repeated' \in BOOLEAN
        BY <2>2 DEF TypeInv, SameKeyTwice
      <3> QED
        BY <2>2, <2>4, <3>1, <3>2, <3>3 DEF TypeInv, TextGrows
    <2> QED
      BY <2>2, <2>4, <2>10, <2>11
<1>3. ASSUME Delete
      PROVE  /\ TypeInv' /\ VersionInv' /\ TextGrows
             /\ scans' = scans /\ runs' = runs /\ answers' = answers
             /\ late' = late /\ refused' = refused
             /\ repeated' = (repeated \/ SameKeyTwice(head', text'))
    <2>1. PICK p \in DOMAIN head :
             text' = text /\ NewHead(RemoveAt(head, p), text)
      BY <1>3 DEF Delete
    <2>2. /\ head' = RemoveAt(head, p) /\ edits' = edits + 1
          /\ repeated' = (repeated \/ SameKeyTwice(head', text'))
          /\ scans' = scans /\ runs' = runs /\ answers' = answers
          /\ late' = late /\ refused' = refused
      BY <2>1 DEF NewHead
    <2>3. edits < MaxEdits
      BY <1>3 DEF Delete
    <2>4. TextGrows
      BY <1>0, <2>1 DEF TextGrows
    <2>7. /\ Version(head') /\ ToSet(head') \subseteq ToSet(head)
          /\ \A g : Version(g) /\ SameOrder(head, g) /\ SameOrder(g, head)
                    => SameOrder(head', g) /\ SameOrder(g, head')
      BY <1>1, <2>2, RemovedVersion
    <2>8. ToSet(head') \subseteq DOMAIN text'
      BY <1>1, <2>1, <2>7
    <2>9. \A g \in Versions : SameOrder(head', g) /\ SameOrder(g, head')
      BY <1>1, <2>7
    <2>10. VersionInv'
      BY <2>2, <2>4, <2>7, <2>8, <2>9, HeadVersions
    <2>11. TypeInv'
      <3>1. edits' \in 0..MaxEdits
        BY <1>0, <2>2, <2>3
      <3>2. head' \in Seq(Nat)
        BY <2>7 DEF Version
      <3>3. repeated' \in BOOLEAN
        BY <2>2 DEF TypeInv, SameKeyTwice
      <3> QED
        BY <2>2, <2>4, <3>1, <3>2, <3>3 DEF TypeInv, TextGrows
    <2> QED
      BY <2>2, <2>4, <2>10, <2>11
<1> QED
  BY <1>2, <1>3

(* The fields of a scan.                                                   *)
LEMMA ScanType ==
  ASSUME TypeInv, NEW s \in DOMAIN scans
  PROVE  /\ scans[s] \in Scan /\ scans[s].head \in Seq(Nat)
         /\ scans[s].mode \in {"FULL", "INCREMENTAL"}
         /\ scans[s].off \subseteq Names
         /\ scans[s].rows \subseteq Row /\ scans[s].ai \in BOOLEAN
         /\ s \in Nat /\ 1 <= s /\ s <= Len(scans) /\ Len(scans) \in Nat
         /\ DOMAIN scans = 1..Len(scans)
<1>1. scans[s] \in Scan
  BY DEF TypeInv
<1> QED
  BY <1>1 DEF TypeInv, Scan

(* The head of a scan is a version whose lines are known.                  *)
LEMMA ScanVersion ==
  ASSUME VersionInv, NEW s \in DOMAIN scans
  PROVE  /\ scans[s].head \in Versions /\ Told(scans[s].head)
         /\ Version(scans[s].head)
         /\ \A f \in Versions : /\ SameOrder(scans[s].head, f)
                                /\ SameOrder(f, scans[s].head)
BY DEF VersionInv, Versions, Told

(* What was true of two lines stays true when others are added.            *)
LEMMA SameKeysStay ==
  ASSUME NEW f, Told(f), TextGrows
  PROVE  SameKeyTwice(f, text') <=> SameKeyTwice(f, text)
<1>1. \A i \in DOMAIN f : text'[f[i]] = text[f[i]]
  BY DEF Told, ToSet, TextGrows
<1> QED
  BY <1>1 DEF SameKeyTwice

(* A stored row is of one scan, and its id is an id.                       *)
LEMMA RowsAre ==
  ASSUME TypeInv, RowInv, NEW x \in Rows
  PROVE  /\ x \in Row /\ x.id \in RowIds /\ x.id # None
         /\ x.origin \in RowIds \cup {None}
         /\ x.id[1] \in DOMAIN scans /\ x \in scans[x.id[1]].rows
         /\ x.id[2] \in 0..runs /\ Labelled(x) /\ Sourced(x)
<1>1. PICK n \in DOMAIN scans : x \in scans[n].rows
  BY DEF Rows
<1>2. x \in Row /\ x.id[1] = n /\ x.id[2] \in 0..runs /\ Labelled(x)
      /\ Sourced(x)
  BY <1>1, ScanType DEF RowInv, RowsOf
<1> QED
  BY <1>1, <1>2, NoneAssumption DEF Row

(* Ids tell all stored rows apart.                                         *)
LEMMA TellsApart ==
  ASSUME TypeInv, RowInv
  PROVE  Distinct(Rows)
<1> SUFFICES ASSUME NEW x \in Rows, NEW y \in Rows, x.id = y.id
             PROVE  x = y
  BY DEF Distinct
<1>1. /\ x.id[1] \in DOMAIN scans /\ x \in scans[x.id[1]].rows
      /\ y \in scans[x.id[1]].rows
  BY RowsAre
<1> QED
  BY <1>1 DEF RowInv, RowsOf, Distinct

(* What does not depend on the file's versions.                            *)
LEMMA SameScans ==
  ASSUME RowInv, HistInv, ContInv, AnsInv,
         scans' = scans, runs' = runs, answers' = answers, late' = late
  PROVE  RowInv' /\ HistInv' /\ ContInv' /\ AnsInv'
<1>1. RowInv'
  BY DEF RowInv, RowsOf
<1>2. \A s : Staying(s)' = Staying(s) /\ EarlierRun(s)' = EarlierRun(s)
  BY DEF Staying, EarlierRun
<1>3. Rows' = Rows
  BY DEF Rows
<1>4. HistInv'
  BY <1>2, <1>3 DEF HistInv, Whole, Overtaken
<1>5. ContInv'
  BY <1>2 DEF ContInv, Followed
<1>6. ASSUME NEW a \in answers
      PROVE  (Planning(a) /\ Fresh(a) /\ Tied(a) /\ Covers(a))'
  <2>1. Planning(a)'
    BY <1>2 DEF AnsInv, Planning
  <2>2. Fresh(a)'
    BY <1>3 DEF AnsInv, Fresh
  <2>3. Tied(a)'
    BY <1>2, <1>3 DEF AnsInv, Tied, Linked, Reaches
  <2>4. Covers(a)'
    BY DEF AnsInv, Covers, AiMatch, LoadBase
  <2> QED
    BY <2>1, <2>2, <2>3, <2>4
<1>7. AnsInv'
  BY <1>6 DEF AnsInv
<1> QED
  BY <1>1, <1>4, <1>5, <1>7

(* A commit keeps the invariant: no scan changes, and the new head is in   *)
(* order with all versions before it.                                      *)
THEOREM EditKeeps ==
  ASSUME LifecycleInv, Insert \/ Delete
  PROVE  LifecycleInv'
<1>1. /\ TypeInv /\ VersionInv /\ RowInv /\ HistInv /\ ContInv /\ AnsInv
      /\ FitInv /\ QuietInv /\ ReportedStorable
  BY DEF LifecycleInv
<1>2. /\ TypeInv' /\ VersionInv' /\ TextGrows
      /\ scans' = scans /\ runs' = runs /\ answers' = answers
      /\ late' = late /\ refused' = refused
      /\ repeated' = (repeated \/ SameKeyTwice(head', text'))
  BY <1>1, EditStep
<1>3. RowInv' /\ HistInv' /\ ContInv' /\ AnsInv'
  BY <1>1, <1>2, SameScans
<1>6. FitInv'
  <2> SUFFICES ASSUME NEW s \in DOMAIN scans, NEW x \in scans[s].rows,
                      x.src = "STATIC", x.status # "RESOLVED"
               PROVE  Fits(x)'
    BY <1>2 DEF FitInv
  <2>1. Fits(x)
    BY <1>1 DEF FitInv
  <2>2. Placed(x, scans[s].head) /\ x \in Row
    BY <1>1, ScanType DEF RowInv, RowsOf
  <2>3. x.lines[1] \in DOMAIN text
    <3>1. Told(scans[s].head) /\ scans[s].head \in Seq(Nat)
      BY <1>1, ScanVersion, ScanType
    <3>2. x.first \in Int /\ x.last \in Int
      BY <2>2 DEF Row
    <3>3. x.first \in DOMAIN scans[s].head
      BY <2>2, <3>1, <3>2 DEF Placed
    <3> QED
      BY <2>2, <3>1, <3>3 DEF Placed, Told, ToSet
  <2> QED
    BY <1>2, <2>1, <2>3 DEF Fits, TextGrows
<1>7. QuietInv'
  <2> SUFFICES ASSUME ~repeated'
               PROVE  /\ ~SameKeyTwice(head', text')
                      /\ \A s \in DOMAIN scans :
                           /\ ~SameKeyTwice(scans[s].head, text')
                           /\ \A line \in ActiveHits(s, RulesOn(s))' :
                                OnItsOwn(s, line)
    BY <1>2 DEF QuietInv, OnItsOwn
  <2>1. ~SameKeyTwice(head', text') /\ ~repeated
    BY <1>2
  <2>2. ASSUME NEW s \in DOMAIN scans
        PROVE  /\ ~SameKeyTwice(scans[s].head, text')
               /\ \A line \in ActiveHits(s, RulesOn(s))' :
                    OnItsOwn(s, line)
    <3>1. Told(scans[s].head)
      BY <1>1, ScanVersion
    <3>2. ~SameKeyTwice(scans[s].head, text)
      BY <1>1, <2>1 DEF QuietInv
    <3>3. ActiveHits(s, RulesOn(s))' = ActiveHits(s, RulesOn(s))
      BY <1>2, <3>1
         DEF ActiveHits, RulesOn, TextGrows, Told, TargetFile
    <3> QED
      BY <1>1, <1>2, <2>1, <3>1, <3>2, <3>3, SameKeysStay DEF QuietInv
  <2> QED
    BY <2>1, <2>2
<1>8. ReportedStorable'
  BY <1>1, <1>2 DEF ReportedStorable
<1> QED
  BY <1>2, <1>3, <1>6, <1>7, <1>8 DEF LifecycleInv

-----------------------------------------------------------------------------
(* The static step of a scan.                                              *)

(* mapOldLine is exact, whatever the context of the hunks: a line is       *)
(* mapped to where the new version has it, and nowhere if it has not.      *)
THEOREM MapOldLineIsExact ==
  ASSUME NEW old, NEW new, Version(old), Version(new), SameOrder(old, new),
         SameOrder(new, old), NEW line \in DOMAIN old,
         NEW hunks \in {SplitHunks(old, new), WholeHunk(old, new)}
  PROVE  MapOldLine(hunks, line) = Positions(new, {old[line]})
BY SplitIsExact, WholeIsExact

(* A surviving finding is still on its lines.                              *)
LandsAt(hunks, x, new) ==
    \E i, j \in Int : /\ MapOldLine(hunks, x.first) = {i}
                      /\ MapOldLine(hunks, x.last) = {j}
                      /\ 1 <= i /\ i <= j /\ j <= Len(new)
                      /\ new[i] = x.lines[1] /\ new[j] = x.lines[2]

(* A finding that mapLineThroughHunks keeps is on its lines in the new     *)
(* version.                                                                *)
LEMMA LandsOn ==
  ASSUME NEW old, NEW new, Version(old), Version(new), SameOrder(old, new),
         SameOrder(new, old), NEW x \in Row, Placed(x, old),
         NEW hunks \in {SplitHunks(old, new), WholeHunk(old, new)},
         Survives(hunks, x)
  PROVE  LandsAt(hunks, x, new)
<1>1. /\ DOMAIN old = 1..Len(old) /\ Len(old) \in Nat
      /\ DOMAIN new = 1..Len(new) /\ Len(new) \in Nat
      /\ x.first \in Int /\ x.last \in Int
  BY DEF Version, Row
<1>2. /\ x.first \in DOMAIN old /\ x.last \in DOMAIN old
      /\ x.first \in x.first..x.last /\ x.last \in x.first..x.last
  BY <1>1 DEF Placed
<1>3. ASSUME NEW line \in DOMAIN old, MapOldLine(hunks, line) # {}
      PROVE  \E i \in DOMAIN new : /\ MapOldLine(hunks, line) = {i}
                                   /\ new[i] = old[line]
  <2>1. MapOldLine(hunks, line) = Positions(new, {old[line]})
    BY MapOldLineIsExact
  <2>2. PICK i \in DOMAIN new : new[i] = old[line]
    BY <1>3, <2>1 DEF Positions
  <2>3. Positions(new, {old[line]}) = {i}
    BY <2>2 DEF Positions, Version, IsInjective
  <2> QED
    BY <2>1, <2>2, <2>3
<1>4. PICK i \in DOMAIN new : /\ MapOldLine(hunks, x.first) = {i}
                              /\ new[i] = old[x.first]
  BY <1>2, <1>3 DEF Survives
<1>5. PICK j \in DOMAIN new : /\ MapOldLine(hunks, x.last) = {j}
                              /\ new[j] = old[x.last]
  BY <1>2, <1>3 DEF Survives
<1>6. i <= j
  <2>1. CASE x.first = x.last
    <3>1. {i} = {j}
      BY <1>4, <1>5, <2>1
    <3>2. i = j
      BY <3>1
    <3> QED
      BY <1>1, <3>2
  <2>2. CASE x.first < x.last
    <3>1. i < j
      BY <1>2, <1>4, <1>5, <2>2 DEF SameOrder
    <3> QED
      BY <1>1, <3>1
  <2> QED
    BY <1>1, <2>1, <2>2 DEF Placed
<1> QED
  BY <1>1, <1>4, <1>5, <1>6 DEF Placed, LandsAt

(* A finding on one line survives if that line does.                       *)
LEMMA OneLineSurvives ==
  ASSUME NEW old, NEW new, Version(old), Version(new), SameOrder(old, new),
         SameOrder(new, old), NEW x \in Row, Placed(x, old),
         x.last = x.first, old[x.first] \in ToSet(new),
         NEW hunks \in {SplitHunks(old, new), WholeHunk(old, new)}
  PROVE  Survives(hunks, x)
<1>1. /\ DOMAIN old = 1..Len(old) /\ Len(old) \in Nat
      /\ x.first \in Int /\ x.last \in Int
  BY DEF Version, Row
<1>2. x.first \in DOMAIN old
  BY <1>1 DEF Placed
<1>3. MapOldLine(hunks, x.first) = Positions(new, {old[x.first]})
  BY <1>2, MapOldLineIsExact
<1>4. Positions(new, {old[x.first]}) # {}
  BY DEF Positions, ToSet
<1>5. \A line \in x.first..x.last : line = x.first
  BY <1>1
<1> QED
  BY <1>3, <1>4, <1>5 DEF Survives

(* What the static step does: the next scan, and the plan of its rows.     *)
OldFile(mode, s) == IF mode = "FULL" THEN TargetFile ELSE scans[s - 1].head

CarryOf(mode, off, s) == IF mode = "INCREMENTAL" THEN LoadBase(s, off) ELSE {}

MatchOf(mode, off, s) ==
    IF mode = "FULL" THEN OfSource(LoadBase(s, off), "STATIC") ELSE {}

StaticPlan(mode, off, hunks, rows, kept, got, closed) ==
    LET s == Len(scans) + 1
        old == OldFile(mode, s)
    IN  /\ mode \in {"FULL", "INCREMENTAL"}
        /\ s = 1 => mode = "FULL"
        /\ mode = "INCREMENTAL" => scans[s - 1].off = off
        /\ off \subseteq Names
        /\ hunks \in {SplitHunks(old, head), WholeHunk(old, head)}
        /\ scans' = Append(scans, [head |-> head, mode |-> mode, off |-> off,
                                   rows |-> rows, ai |-> FALSE])
        /\ Planned(rows, s, 0, StaticCandidates(head, Added(old, head), off),
                   CarryOf(mode, off, s), hunks, MatchOf(mode, off, s), {},
                   RecentResolved(s, {}, {}), kept, got, closed)

(* loadBaseFindings: rows of the scan before, live and on their lines.     *)
LEMMA BaseRows ==
  ASSUME TypeInv, RowInv, NEW s \in 1..(Len(scans) + 1), NEW off,
         NEW x \in LoadBase(s, off)
  PROVE  /\ s - 1 \in DOMAIN scans /\ s # 1
         /\ x \in scans[s - 1].rows /\ x \in Row
         /\ x.status # "RESOLVED" /\ Placed(x, scans[s - 1].head)
         /\ Enabled(x, off)
         /\ x.id[1] = s - 1 /\ Labelled(x) /\ Sourced(x)
<1>1. s # 1 /\ x \in scans[s - 1].rows /\ x.status # "RESOLVED"
      /\ Enabled(x, off)
  BY DEF LoadBase, Live
<1>2. s - 1 \in DOMAIN scans
  BY <1>1 DEF TypeInv
<1>3. x \in Row
  BY <1>1, <1>2, ScanType
<1> QED
  BY <1>1, <1>2, <1>3 DEF RowInv, RowsOf

(* loadBaseFindings: one live row per fingerprint and suppression.         *)
LEMMA BaseKeys ==
  ASSUME TypeInv, RowInv, NEW s \in 1..(Len(scans) + 1), NEW off
  PROVE  /\ IsFiniteSet(LoadBase(s, off)) /\ OneKey(LoadBase(s, off))
         /\ Distinct(LoadBase(s, off))
         /\ LoadBase(s, off) \subseteq Row
<1>1. CASE LoadBase(s, off) = {}
  BY <1>1, FS_EmptySet DEF OneKey, Distinct
<1>2. CASE LoadBase(s, off) # {}
  <2>1. s # 1 /\ s - 1 \in DOMAIN scans
    BY <1>2, BaseRows
  <2>2. LoadBase(s, off) \in SUBSET scans[s - 1].rows
    BY <2>1 DEF LoadBase, Live
  <2>3. RowsOf(s - 1)
    BY <2>1 DEF RowInv
  <2>4. IsFiniteSet(LoadBase(s, off))
    BY <2>2, <2>3, FS_Subset DEF RowsOf
  <2> QED
    BY <2>1, <2>2, <2>3, <2>4, ScanType DEF RowsOf, OneKey, Distinct
<1> QED
  BY <1>1, <1>2

(* The rows a new finding may re-open are closed ones.                     *)
LEMMA Reopenable ==
  ASSUME NEW s, NEW own, NEW excluded,
         NEW x \in RecentResolved(s, own, excluded)
  PROVE  /\ x.status = "RESOLVED"
         /\ \/ \E n \in DOMAIN scans : n # s /\ x \in scans[n].rows
            \/ x \in own /\ x.src \notin excluded
<1>1. CASE x \in {y \in own \ Live(own) : y.src \notin excluded}
  BY <1>1 DEF Live
<1>2. CASE x \in UNION {scans[n].rows \ Live(scans[n].rows) : n \in Recent(s)}
  <2>1. PICK n \in Recent(s) : x \in scans[n].rows \ Live(scans[n].rows)
    BY <1>2
  <2>2. n \in DOMAIN scans /\ n # s
    BY DEF Recent
  <2> QED
    BY <2>1, <2>2 DEF Live
<1> QED
  BY <1>1, <1>2 DEF RecentResolved

(* The static step writes what planFindings gives for its mode.            *)
LEMMA StaticPlans ==
  ASSUME TypeInv, RowInv, StaticScan
  PROVE  \E mode, off, hunks, rows, kept, got, closed :
           StaticPlan(mode, off, hunks, rows, kept, got, closed)
<1> DEFINE s == Len(scans) + 1
<1>0. s \in 1..(Len(scans) + 1) /\ s \in Nat
  BY DEF TypeInv
<1>10. PICK off \in Profiles :
      \E mode \in IF s = 1 \/ (s > 1 /\ scans[s - 1].off # off)
                   THEN {"FULL"} ELSE {"FULL", "INCREMENTAL"} :
        LET known == LoadBase(s, off)
            old == DiffBase(mode, IF s = 1 THEN [head |-> head]
                                  ELSE scans[s - 1])
            carry == IF mode = "INCREMENTAL" THEN known ELSE {}
            match == IF mode = "FULL" THEN OfSource(known, "STATIC") ELSE {}
        IN  \E hunks \in {SplitHunks(old, head), WholeHunk(old, head)} :
            \E rows \in PlanFindings(s, 0,
                   StaticCandidates(head, Added(old, head), off),
                   carry, hunks, match, {}, RecentResolved(s, {}, {})) :
              scans' = Append(scans, [head |-> head, mode |-> mode,
                                      off |-> off, rows |-> rows,
                                      ai |-> FALSE])
  BY DEF StaticScan
<1>1. PICK mode \in IF s = 1 \/ (s > 1 /\ scans[s - 1].off # off)
                    THEN {"FULL"} ELSE {"FULL", "INCREMENTAL"} :
        LET known == LoadBase(s, off)
            old == DiffBase(mode, IF s = 1 THEN [head |-> head]
                                  ELSE scans[s - 1])
            carry == IF mode = "INCREMENTAL" THEN known ELSE {}
            match == IF mode = "FULL" THEN OfSource(known, "STATIC") ELSE {}
        IN  \E hunks \in {SplitHunks(old, head), WholeHunk(old, head)} :
            \E rows \in PlanFindings(s, 0,
                   StaticCandidates(head, Added(old, head), off),
                   carry, hunks, match, {}, RecentResolved(s, {}, {})) :
              scans' = Append(scans, [head |-> head, mode |-> mode,
                                      off |-> off, rows |-> rows,
                                      ai |-> FALSE])
  BY <1>10
<1> DEFINE old == OldFile(mode, s)
<1>2. /\ mode \in {"FULL", "INCREMENTAL"}
      /\ s = 1 => mode = "FULL"
      /\ mode = "INCREMENTAL" => scans[s - 1].off = off
      /\ off \subseteq Names
  <2>1. off \subseteq Names
    BY LifecycleAssumption DEF Names
  <2>2. s = 1 \/ s > 1
    BY <1>0
  <2> HIDE DEF s
  <2> QED
    BY <2>1, <2>2
<1>3. DiffBase(mode, IF s = 1 THEN [head |-> head] ELSE scans[s - 1]) = old
  BY <1>2 DEF DiffBase, OldFile
<1>4. /\ (IF mode = "INCREMENTAL" THEN LoadBase(s, off) ELSE {})
           = CarryOf(mode, off, s)
      /\ (IF mode = "FULL" THEN OfSource(LoadBase(s, off), "STATIC") ELSE {})
           = MatchOf(mode, off, s)
  BY DEF CarryOf, MatchOf
<1> HIDE DEF s, old
<1>5. PICK hunks \in {SplitHunks(old, head), WholeHunk(old, head)} :
      \E rows \in PlanFindings(s, 0,
                     StaticCandidates(head, Added(old, head), off),
                     CarryOf(mode, off, s), hunks, MatchOf(mode, off, s), {},
                     RecentResolved(s, {}, {})) :
         scans' = Append(scans, [head |-> head, mode |-> mode, off |-> off,
                                 rows |-> rows, ai |-> FALSE])
  BY <1>1, <1>3, <1>4
<1>6. PICK rows \in PlanFindings(s, 0,
                     StaticCandidates(head, Added(old, head), off),
                     CarryOf(mode, off, s), hunks, MatchOf(mode, off, s), {},
                     RecentResolved(s, {}, {})) :
         scans' = Append(scans, [head |-> head, mode |-> mode, off |-> off,
                                 rows |-> rows, ai |-> FALSE])
  BY <1>5
<1>7. /\ CarryOf(mode, off, s) \in SUBSET Row
      /\ None \notin MatchOf(mode, off, s)
  BY <1>0, BaseKeys, NoneAssumption DEF CarryOf, MatchOf, OfSource, s
<1>8. PICK kept, got, closed :
         Planned(rows, s, 0, StaticCandidates(head, Added(old, head), off),
                 CarryOf(mode, off, s), hunks, MatchOf(mode, off, s), {},
                 RecentResolved(s, {}, {}), kept, got, closed)
  BY <1>7, PlanFindingsGives
<1>9. StaticPlan(mode, off, hunks, rows, kept, got, closed)
  BY <1>2, <1>6, <1>8 DEF StaticPlan, s, old
<1> QED
  BY <1>9

(* The scan before, the versions it compares and what its rules find.      *)
StaticSetting(mode, off, hunks, s, old, cands) ==
    /\ s \in Nat /\ s \in 1..(Len(scans) + 1) /\ Len(scans) \in Nat
    /\ DOMAIN scans = 1..(s - 1)
    /\ Told(head) /\ Told(old) /\ Version(head) /\ Version(old)
    /\ SameOrder(old, head) /\ SameOrder(head, old)
    /\ hunks \in {SplitHunks(old, head), WholeHunk(old, head)}
    /\ mode = "FULL" => old = TargetFile
    /\ mode = "INCREMENTAL" => s # 1 /\ old = scans[s - 1].head
    /\ IsFiniteSet(cands) /\ cands \subseteq Candidate
    /\ \A c \in cands : /\ c.src = "STATIC" /\ Sourced(c)
                        /\ Placed(c, head) /\ Fits(c)
    /\ \A c, d \in cands : c.fp = d.fp => c = d

(* The static step sets out from two versions in one order and candidates  *)
(* on their lines.                                                         *)
LEMMA StaticIsSet ==
  ASSUME LifecycleInv,
         NEW mode, NEW off, NEW hunks, NEW rows, NEW kept, NEW got,
         NEW closed, StaticPlan(mode, off, hunks, rows, kept, got, closed),
         NEW s, s = Len(scans) + 1, NEW old, old = OldFile(mode, s),
         NEW cands, cands = StaticCandidates(head, Added(old, head), off)
  PROVE  StaticSetting(mode, off, hunks, s, old, cands)
<1>0. TypeInv /\ VersionInv
  BY DEF LifecycleInv
<1>1. /\ s \in Nat /\ s \in 1..(Len(scans) + 1) /\ Len(scans) \in Nat
      /\ DOMAIN scans = 1..(s - 1)
  BY <1>0 DEF TypeInv
<1>2. /\ mode \in {"FULL", "INCREMENTAL"} /\ (s = 1 => mode = "FULL")
      /\ hunks \in {SplitHunks(old, head), WholeHunk(old, head)}
  BY DEF StaticPlan
<1>3. /\ mode = "FULL" => old = TargetFile
      /\ mode = "INCREMENTAL" => s # 1 /\ old = scans[s - 1].head
  BY <1>2 DEF OldFile
<1>4. head \in Versions /\ old \in Versions
  <2>1. CASE mode = "FULL"
    BY <1>3, <2>1 DEF Versions
  <2>2. CASE mode = "INCREMENTAL"
    <3>1. s - 1 \in DOMAIN scans
      BY <1>1, <1>3, <2>2
    <3> QED
      BY <1>3, <2>2, <3>1 DEF Versions
  <2> QED
    BY <1>2, <2>1, <2>2
<1>5. /\ Told(head) /\ Told(old)
      /\ SameOrder(old, head) /\ SameOrder(head, old)
  BY <1>0, <1>4 DEF VersionInv
<1>6. Version(head) /\ Version(old)
  BY <1>5 DEF Told
<1>7. Added(old, head) \in SUBSET DOMAIN head
  BY DEF Added, Positions
<1>8. /\ IsFiniteSet(cands)
      /\ \A c \in cands : /\ c \in Candidate /\ c.src = "STATIC"
                          /\ Sourced(c) /\ Placed(c, head) /\ Fits(c)
      /\ \A c, d \in cands : c.fp = d.fp => c = d
  <2>1. PICK added \in SUBSET DOMAIN head : added = Added(old, head)
    BY <1>7
  <2>2. cands = StaticCandidates(head, added, off)
    BY <2>1
  <2> QED
    BY <1>5, <2>2, StaticFindings
<1> QED
  BY <1>1, <1>2, <1>3, <1>5, <1>6, <1>8 DEF StaticSetting

(* The static step adds a scan and changes no other.                       *)
LEMMA StaticScans ==
  ASSUME TypeInv, NEW mode, NEW off, NEW hunks, NEW rows, NEW kept, NEW got,
         NEW closed, StaticPlan(mode, off, hunks, rows, kept, got, closed),
         NEW s, s = Len(scans) + 1
  PROVE  /\ DOMAIN scans' = 1..s /\ Len(scans') = s
         /\ DOMAIN scans = 1..(s - 1) /\ s \in Nat
         /\ scans'[s] = [head |-> head, mode |-> mode, off |-> off,
                         rows |-> rows,
                         ai |-> FALSE]
         /\ \A n \in DOMAIN scans : scans'[n] = scans[n]
<1>1. scans' = Append(scans, [head |-> head, mode |-> mode, off |-> off,
                              rows |-> rows,
                              ai |-> FALSE])
  BY DEF StaticPlan
<1>2. scans \in Seq(Scan) /\ Len(scans) \in Nat
  BY DEF TypeInv
<1> QED
  BY <1>1, <1>2

(* What a static step writes: the rows it carries, those it closes, and    *)
(* those of what the rules found.                                          *)
CarriedTo(y, x, s, hunks) ==
    /\ y = FromStored(Mapped(hunks, x), s, 0, "PERSISTED")
    /\ y \in Row /\ Same(y, x) /\ Placed(y, head) /\ Stamped(y, s, 0)
    /\ y.status = "PERSISTED" /\ Follows(y, x)

ClosedAs(y, x, s, run) ==
    /\ y = FromStored(x, s, run, "RESOLVED")
    /\ y \in Row /\ Same(y, x) /\ Stamped(y, s, run)
    /\ y.status = "RESOLVED" /\ Follows(y, x)

StaticGone(mode, off, s, hunks, closed) ==
    Gone(CarryOf(mode, off, s), hunks, closed)

StaticOld(mode, off, s, hunks, closed) ==
    RecentResolved(s, {}, {})
    \cup Closing(s, 0, CarryOf(mode, off, s), hunks, closed)

FoundAs(y, c, mode, off, s, hunks, closed) ==
    GotForm(y, c, s, 0, MatchOf(mode, off, s),
            StaticOld(mode, off, s, hunks, closed))

StaticForm(y, mode, off, hunks, s, kept, got, closed) ==
    \/ \E x \in On(CarryOf(mode, off, s), hunks) : CarriedTo(y, x, s, hunks)
    \/ \E x \in StaticGone(mode, off, s, hunks, closed) : ClosedAs(y, x, s, 0)
    \/ \E c \in kept : y = got[c] /\ FoundAs(y, c, mode, off, s, hunks, closed)

(* What the static step carries, closes and matches is live in the base    *)
(* scan.                                                                   *)
LEMMA StaticTaken ==
  ASSUME LifecycleInv,
         NEW mode, NEW off, NEW hunks, NEW rows, NEW kept, NEW got,
         NEW closed, StaticPlan(mode, off, hunks, rows, kept, got, closed),
         NEW s, s = Len(scans) + 1
  PROVE  /\ On(CarryOf(mode, off, s), hunks) \subseteq LoadBase(s, off)
         /\ StaticGone(mode, off, s, hunks, closed) \subseteq LoadBase(s, off)
         /\ MatchOf(mode, off, s) \subseteq LoadBase(s, off)
         /\ mode = "FULL" =>
              /\ On(CarryOf(mode, off, s), hunks) = {}
              /\ \A x \in StaticGone(mode, off, s, hunks, closed) :
                   x.src = "STATIC"
         /\ \A x \in MatchOf(mode, off, s) : x.src = "STATIC"
         /\ kept \subseteq StaticCandidates(head,
                                            Added(OldFile(mode, s), head), off)
         /\ closed \subseteq MatchOf(mode, off, s)
         /\ RecentResolved(s, {}, {}) \subseteq Row
<1>0. TypeInv
  BY DEF LifecycleInv
<1>1. kept \subseteq StaticCandidates(head, Added(OldFile(mode, s), head), off)
      /\ closed \subseteq MatchOf(mode, off, s)
  BY DEF StaticPlan, Planned
<1>2. /\ CarryOf(mode, off, s) \subseteq LoadBase(s, off)
      /\ MatchOf(mode, off, s) \subseteq LoadBase(s, off)
      /\ \A x \in MatchOf(mode, off, s) : x.src = "STATIC"
      /\ mode = "FULL" => CarryOf(mode, off, s) = {}
  BY DEF CarryOf, MatchOf, OfSource
<1>3. RecentResolved(s, {}, {}) \subseteq Row
  <2> SUFFICES ASSUME NEW x \in RecentResolved(s, {}, {})
               PROVE  x \in Row
    OBVIOUS
  <2>1. s \in Nat
    BY <1>0 DEF TypeInv
  <2>2. PICK n \in DOMAIN scans : x \in scans[n].rows
    BY <1>0, <2>1, Reopenable
  <2> QED
    BY <1>0, <2>2, ScanType
<1> QED
  BY <1>1, <1>2, <1>3 DEF On, StaticGone, Gone

(* A row of the static step carries one of the base, closes one, or is for *)
(* a candidate.                                                            *)
LEMMA StaticForms ==
  ASSUME LifecycleInv,
         NEW mode, NEW off, NEW hunks, NEW rows, NEW kept, NEW got,
         NEW closed, StaticPlan(mode, off, hunks, rows, kept, got, closed),
         NEW s, s = Len(scans) + 1
  PROVE  /\ \A y \in rows :
                StaticForm(y, mode, off, hunks, s, kept, got, closed)
         /\ \A x \in On(CarryOf(mode, off, s), hunks) :
              \E y \in rows : CarriedTo(y, x, s, hunks)
         /\ \A x \in StaticGone(mode, off, s, hunks, closed) :
              \E y \in rows : ClosedAs(y, x, s, 0)
         /\ \A c \in kept : /\ got[c] \in rows
                            /\ FoundAs(got[c], c, mode, off, s, hunks, closed)
<1> DEFINE old == OldFile(mode, s)
           cands == StaticCandidates(head, Added(old, head), off)
<1>0. TypeInv /\ RowInv
  BY DEF LifecycleInv
<1>1. StaticSetting(mode, off, hunks, s, old, cands)
  BY StaticIsSet
<1>2. /\ On(CarryOf(mode, off, s), hunks) \subseteq LoadBase(s, off)
      /\ StaticGone(mode, off, s, hunks, closed) \subseteq LoadBase(s, off)
      /\ MatchOf(mode, off, s) \subseteq LoadBase(s, off)
      /\ RecentResolved(s, {}, {}) \subseteq Row
  BY StaticTaken
<1>3. LoadBase(s, off) \subseteq Row /\ 0 \in Nat /\ s \in Nat
  BY <1>0, <1>1, BaseKeys DEF StaticSetting
<1>4. Planned(rows, s, 0, cands, CarryOf(mode, off, s), hunks,
              MatchOf(mode, off, s),
              {}, RecentResolved(s, {}, {}), kept, got, closed)
  BY DEF StaticPlan
<1> HIDE DEF old, cands
<1>5. ASSUME NEW x \in On(CarryOf(mode, off, s), hunks)
      PROVE  CarriedTo(FromStored(Mapped(hunks, x), s, 0, "PERSISTED"), x, s,
                       hunks)
  <2> DEFINE y == FromStored(Mapped(hunks, x), s, 0, "PERSISTED")
  <2>1. x \in Row /\ x \in LoadBase(s, off) /\ Survives(hunks, x)
        /\ x \in CarryOf(mode, off, s)
    BY <1>2, <1>3 DEF On
  <2>2. mode = "INCREMENTAL"
    BY <2>1 DEF CarryOf
  <2>3. Placed(x, old)
    <3>1. Placed(x, scans[s - 1].head)
      BY <1>0, <1>1, <2>1, BaseRows DEF StaticSetting
    <3> QED
      BY <1>1, <2>2, <3>1 DEF StaticSetting
  <2>4. PICK i, j \in Int :
           /\ MapOldLine(hunks, x.first) = {i}
           /\ MapOldLine(hunks, x.last) = {j}
           /\ 1 <= i /\ i <= j /\ j <= Len(head)
           /\ head[i] = x.lines[1] /\ head[j] = x.lines[2]
    <3>0. x \in Row /\ Survives(hunks, x)
      BY <2>1
    <3>1. /\ Version(old) /\ Version(head)
          /\ SameOrder(old, head) /\ SameOrder(head, old)
          /\ hunks \in {SplitHunks(old, head), WholeHunk(old, head)}
      BY <1>1 DEF StaticSetting
    <3> HIDE DEF y
    <3>2. LandsAt(hunks, x, head)
      BY <2>3, <3>0, <3>1, LandsOn
    <3> QED
      BY <3>2 DEF LandsAt
  <2>5. /\ y \in Row /\ Same(y, x) /\ y.first = i /\ y.last = j
        /\ Stamped(y, s, 0) /\ y.status = "PERSISTED" /\ Follows(y, x)
    BY <1>3, <2>1, <2>4, CarryingRow
  <2>6. Placed(y, head)
    BY <2>4, <2>5 DEF Placed, Same
  <2> QED
    BY <2>5, <2>6 DEF CarriedTo
<1>6. ASSUME NEW x \in StaticGone(mode, off, s, hunks, closed)
      PROVE  ClosedAs(FromStored(x, s, 0, "RESOLVED"), x, s, 0)
  <2>1. x \in Row
    BY <1>2, <1>3
  <2> QED
    BY <1>3, <2>1, ClosingRow DEF ClosedAs
<1>7. ASSUME NEW c \in kept
      PROVE  FoundAs(got[c], c, mode, off, s, hunks, closed)
  <2>1. cands \in SUBSET Candidate
    BY <1>1 DEF StaticSetting
  <2>2. /\ CarryOf(mode, off, s) \in SUBSET Row
        /\ MatchOf(mode, off, s) \in SUBSET Row
    BY <1>2, <1>3 DEF CarryOf
  <2>3. GotForm(got[c], c, s, 0, MatchOf(mode, off, s),
                RecentResolved(s, {}, {})
                \cup Closing(s, 0, CarryOf(mode, off, s), hunks, closed))
    <3>1. \A d \in cands : Sourced(d)
      BY <1>1 DEF StaticSetting
    <3>2. \A x \in LoadBase(s, off) : Sourced(x)
      BY <1>0, <1>1, BaseRows DEF StaticSetting
    <3>3. \A x \in RecentResolved(s, {}, {}) : Sourced(x)
      <4>1. \A x \in RecentResolved(s, {}, {}) : x \in Rows
        BY Reopenable DEF Rows
      <4> QED
        BY <1>0, <4>1, RowsAre
    <3>4. \A x \in CarryOf(mode, off, s) \cup MatchOf(mode, off, s)
                   \cup RecentResolved(s, {}, {}) : Sourced(x)
      BY <1>2, <3>2, <3>3 DEF CarryOf
    <3> QED
      BY <1>2, <1>3, <1>4, <2>1, <2>2, <3>1, <3>4, GotForms
  <2> QED
    BY <2>3 DEF FoundAs, StaticOld
<1>8. rows = Carrying(s, 0, CarryOf(mode, off, s), hunks)
             \cup Closing(s, 0, CarryOf(mode, off, s), hunks, closed)
             \cup {got[c] : c \in kept}
  BY <1>4 DEF Planned
<1>9. ASSUME NEW y \in rows
      PROVE  StaticForm(y, mode, off, hunks, s, kept, got, closed)
  <2>1. CASE y \in Carrying(s, 0, CarryOf(mode, off, s), hunks)
    <3>1. PICK x \in On(CarryOf(mode, off, s), hunks) :
             y = FromStored(Mapped(hunks, x), s, 0, "PERSISTED")
      BY <2>1 DEF Carrying
    <3>2. CarriedTo(y, x, s, hunks)
      BY <1>5, <3>1
    <3> QED
      BY <3>2 DEF StaticForm
  <2>2. CASE y \in Closing(s, 0, CarryOf(mode, off, s), hunks, closed)
    <3>1. PICK x \in StaticGone(mode, off, s, hunks, closed) :
             y = FromStored(x, s, 0, "RESOLVED")
      BY <2>2 DEF Closing, StaticGone
    <3>2. ClosedAs(y, x, s, 0)
      BY <1>6, <3>1
    <3> QED
      BY <3>2 DEF StaticForm
  <2>3. CASE y \in {got[c] : c \in kept}
    <3>1. PICK c \in kept : y = got[c]
      BY <2>3
    <3>2. FoundAs(y, c, mode, off, s, hunks, closed)
      BY <1>7, <3>1
    <3> QED
      BY <3>1, <3>2 DEF StaticForm
  <2> QED
    BY <1>8, <2>1, <2>2, <2>3
<1>10. ASSUME NEW x \in On(CarryOf(mode, off, s), hunks)
       PROVE  \E y \in rows : CarriedTo(y, x, s, hunks)
  <2>1. FromStored(Mapped(hunks, x), s, 0, "PERSISTED") \in rows
    BY <1>8 DEF Carrying
  <2> QED
    BY <1>5, <2>1
<1>11. ASSUME NEW x \in StaticGone(mode, off, s, hunks, closed)
       PROVE  \E y \in rows : ClosedAs(y, x, s, 0)
  <2>1. FromStored(x, s, 0, "RESOLVED") \in rows
    BY <1>8 DEF Closing, StaticGone
  <2> QED
    BY <1>6, <2>1
<1>12. \A c \in kept : got[c] \in rows
  BY <1>8
<1> QED
  BY <1>7, <1>9, <1>10, <1>11, <1>12

(* The rows of a static step are told apart by fingerprint and by id.      *)
LEMMA StaticPair ==
  ASSUME LifecycleInv,
         NEW mode, NEW off, NEW hunks, NEW rows, NEW kept, NEW got,
         NEW closed, StaticPlan(mode, off, hunks, rows, kept, got, closed),
         NEW s, s = Len(scans) + 1, NEW y \in rows, NEW z \in rows,
         y.fp = z.fp, y.sup = z.sup,
         y.status = "RESOLVED" <=> z.status = "RESOLVED"
  PROVE  y = z
<1> DEFINE old == OldFile(mode, s)
           cands == StaticCandidates(head, Added(old, head), off)
           on == On(CarryOf(mode, off, s), hunks)
           gone == StaticGone(mode, off, s, hunks, closed)
<1>1. StaticSetting(mode, off, hunks, s, old, cands)
  BY StaticIsSet
<1>2. /\ on \subseteq LoadBase(s, off) /\ gone \subseteq LoadBase(s, off)
      /\ kept \subseteq cands
  BY StaticTaken
<1>3. \A x, w \in LoadBase(s, off) : x.fp = w.fp /\ x.sup = w.sup => x = w
  <2>1. TypeInv /\ RowInv /\ s \in 1..(Len(scans) + 1)
    BY <1>1 DEF LifecycleInv, StaticSetting
  <2>2. /\ OneKey(LoadBase(s, off))
        /\ \A x \in LoadBase(s, off) : x.status # "RESOLVED"
    BY <2>1, BaseKeys, BaseRows
  <2> QED
    BY <2>2 DEF OneKey
<1>4. /\ StaticForm(y, mode, off, hunks, s, kept, got, closed)
      /\ StaticForm(z, mode, off, hunks, s, kept, got, closed)
  BY StaticForms
<1>5. ASSUME NEW c \in kept
      PROVE  \A x \in on : x.fp # c.fp
  BY DEF StaticPlan, Planned
<1>6. \A c, d \in kept : c.fp = d.fp => c = d
  BY <1>1, <1>2 DEF StaticSetting
<1> HIDE DEF old, cands
<1>7. ASSUME NEW u, NEW x, CarriedTo(u, x, s, hunks)
      PROVE  u.status # "RESOLVED" /\ u.fp = x.fp /\ u.sup = x.sup
             /\ u = FromStored(Mapped(hunks, x), s, 0, "PERSISTED")
  BY <1>7 DEF CarriedTo, Same
<1>8. ASSUME NEW u, NEW x, ClosedAs(u, x, s, 0)
      PROVE  u.status = "RESOLVED" /\ u.fp = x.fp /\ u.sup = x.sup
             /\ u = FromStored(x, s, 0, "RESOLVED")
  BY <1>8 DEF ClosedAs, Same
<1>9. ASSUME NEW u, NEW c, FoundAs(u, c, mode, off, s, hunks, closed)
      PROVE  u.status # "RESOLVED" /\ u.fp = c.fp
  BY <1>9 DEF FoundAs, GotForm, Same
<1>10. CASE y.status = "RESOLVED"
  <2>1. PICK x \in gone : ClosedAs(y, x, s, 0)
    BY <1>4, <1>7, <1>9, <1>10 DEF StaticForm
  <2>2. PICK w \in gone : ClosedAs(z, w, s, 0)
    BY <1>4, <1>7, <1>9, <1>10 DEF StaticForm
  <2>3. x = w
    <3>1. x.fp = w.fp /\ x.sup = w.sup
      BY <1>8, <2>1, <2>2
    <3>2. x \in LoadBase(s, off) /\ w \in LoadBase(s, off)
      BY <1>2
    <3> QED
      BY <1>3, <3>1, <3>2
  <2> QED
    BY <1>8, <2>1, <2>2, <2>3
<1>11. CASE y.status # "RESOLVED"
  <2>1. \/ \E x \in on : CarriedTo(y, x, s, hunks)
        \/ \E c \in kept :
              y = got[c] /\ FoundAs(y, c, mode, off, s, hunks, closed)
    BY <1>4, <1>8, <1>11 DEF StaticForm
  <2>2. \/ \E x \in on : CarriedTo(z, x, s, hunks)
        \/ \E c \in kept :
              z = got[c] /\ FoundAs(z, c, mode, off, s, hunks, closed)
    BY <1>4, <1>8, <1>11 DEF StaticForm
  <2>3. CASE \E x \in on : CarriedTo(y, x, s, hunks)
    <3>1. PICK x \in on : CarriedTo(y, x, s, hunks)
      BY <2>3
    <3>2. PICK w \in on : CarriedTo(z, w, s, hunks)
      BY <1>5, <1>7, <1>9, <2>2, <3>1
    <3>3. x = w
      <4>1. x.fp = w.fp /\ x.sup = w.sup
        BY <1>7, <3>1, <3>2
      <4>2. x \in LoadBase(s, off) /\ w \in LoadBase(s, off)
        BY <1>2
      <4> QED
        BY <1>3, <4>1, <4>2
    <3> QED
      BY <1>7, <3>1, <3>2, <3>3
  <2>4. CASE \E c \in kept : /\ y = got[c]
                             /\ FoundAs(y, c, mode, off, s, hunks, closed)
    <3>1. PICK c \in kept : /\ y = got[c]
                            /\ FoundAs(y, c, mode, off, s, hunks, closed)
      BY <2>4
    <3>2. PICK d \in kept : /\ z = got[d]
                            /\ FoundAs(z, d, mode, off, s, hunks, closed)
      BY <1>5, <1>7, <1>9, <2>2, <3>1
    <3>3. c = d
      BY <1>6, <1>9, <3>1, <3>2
    <3> QED
      BY <3>1, <3>2, <3>3
  <2> QED
    BY <2>1, <2>3, <2>4
<1> QED
  BY <1>10, <1>11

(* The static step writes finitely many rows.                              *)
LEMMA StaticFinite ==
  ASSUME LifecycleInv,
         NEW mode, NEW off, NEW hunks, NEW rows, NEW kept, NEW got,
         NEW closed, StaticPlan(mode, off, hunks, rows, kept, got, closed)
  PROVE  IsFiniteSet(rows)
<1> DEFINE s == Len(scans) + 1
           old == OldFile(mode, s)
           cands == StaticCandidates(head, Added(old, head), off)
           on == On(CarryOf(mode, off, s), hunks)
           gone == Gone(CarryOf(mode, off, s), hunks, closed)
           mapped == [x \in on |->
                        FromStored(Mapped(hunks, x), s, 0, "PERSISTED")]
           done == [x \in gone |-> FromStored(x, s, 0, "RESOLVED")]
<1>1. StaticSetting(mode, off, hunks, s, old, cands)
  BY StaticIsSet
<1>2. /\ on \subseteq LoadBase(s, off) /\ gone \subseteq LoadBase(s, off)
      /\ kept \subseteq cands
  BY StaticTaken DEF StaticGone
<1>3. IsFiniteSet(LoadBase(s, off))
  BY <1>1, BaseKeys DEF LifecycleInv, StaticSetting
<1>4. IsFiniteSet(on) /\ IsFiniteSet(gone) /\ IsFiniteSet(kept)
  BY <1>1, <1>2, <1>3, FS_Subset DEF StaticSetting
<1>5. rows = {mapped[x] : x \in on} \cup {done[x] : x \in gone}
             \cup {got[c] : c \in kept}
  <2>1. /\ {mapped[x] : x \in on}
             = Carrying(s, 0, CarryOf(mode, off, s), hunks)
        /\ {done[x] : x \in gone}
           = Closing(s, 0, CarryOf(mode, off, s), hunks, closed)
    BY DEF Carrying, Closing
  <2>2. rows = Carrying(s, 0, CarryOf(mode, off, s), hunks)
               \cup Closing(s, 0, CarryOf(mode, off, s), hunks, closed)
               \cup {got[c] : c \in kept}
    BY DEF StaticPlan, Planned
  <2> QED
    BY <2>1, <2>2
<1> HIDE DEF s, old, cands, on, gone, mapped, done
<1>6. /\ IsFiniteSet({mapped[x] : x \in on})
      /\ IsFiniteSet({done[x] : x \in gone})
      /\ IsFiniteSet({got[c] : c \in kept})
  BY <1>4, Image
<1>7. IsFiniteSet({mapped[x] : x \in on} \cup {done[x] : x \in gone})
  BY <1>6, FS_Union
<1> QED
  BY <1>5, <1>6, <1>7, FS_Union

(* What every row of a static step satisfies.                              *)
LEMMA StaticRow ==
  ASSUME LifecycleInv,
         NEW mode, NEW off, NEW hunks, NEW rows, NEW kept, NEW got,
         NEW closed, StaticPlan(mode, off, hunks, rows, kept, got, closed),
         NEW s, s = Len(scans) + 1, NEW y \in rows
  PROVE  /\ y \in Row /\ Stamped(y, s, 0) /\ Sourced(y)
         /\ y.status # "RESOLVED" => Placed(y, head)
         /\ y.src = "STATIC" /\ y.status # "RESOLVED" => Fits(y)
         /\ y.src = "AI" => /\ mode = "INCREMENTAL"
                            /\ y.status \in {"PERSISTED", "RESOLVED"}
<1> DEFINE old == OldFile(mode, s)
           cands == StaticCandidates(head, Added(old, head), off)
           on == On(CarryOf(mode, off, s), hunks)
           gone == StaticGone(mode, off, s, hunks, closed)
<1>0. TypeInv /\ RowInv /\ FitInv
  BY DEF LifecycleInv
<1>1. StaticSetting(mode, off, hunks, s, old, cands)
  BY StaticIsSet
<1>2. /\ on \subseteq LoadBase(s, off) /\ gone \subseteq LoadBase(s, off)
      /\ kept \subseteq cands
      /\ mode = "FULL" => on = {} /\ \A x \in gone : x.src = "STATIC"
  BY StaticTaken
<1>3. StaticForm(y, mode, off, hunks, s, kept, got, closed)
  BY StaticForms
<1>4. mode \in {"FULL", "INCREMENTAL"}
  BY DEF StaticPlan
<1>5. ASSUME NEW x \in LoadBase(s, off)
      PROVE  Sourced(x) /\ (x.src = "STATIC" => Fits(x))
  <2>1. s \in 1..(Len(scans) + 1)
    BY <1>1 DEF StaticSetting
  <2>2. /\ s - 1 \in DOMAIN scans /\ x \in scans[s - 1].rows
        /\ x.status # "RESOLVED" /\ Sourced(x)
    BY <1>0, <2>1, BaseRows
  <2> QED
    BY <1>0, <2>2 DEF FitInv
<1>6. ASSUME NEW x, Same(y, x), Sourced(x)
      PROVE  Sourced(y)
  BY <1>6 DEF Same, Sourced
<1>7. ASSUME NEW x, Same(y, x), Fits(x)
      PROVE  Fits(y)
  BY <1>7 DEF Same, Fits
<1>8. CASE \E x \in on : CarriedTo(y, x, s, hunks)
  <2>1. PICK x \in on : CarriedTo(y, x, s, hunks)
    BY <1>8
  <2>2. /\ y \in Row /\ Stamped(y, s, 0) /\ Placed(y, head) /\ Same(y, x)
        /\ y.status = "PERSISTED" /\ y.src = x.src
    BY <2>1 DEF CarriedTo, Same
  <2>3. x \in LoadBase(s, off) /\ mode = "INCREMENTAL"
    BY <1>2, <1>4
  <2> QED
    BY <1>5, <1>6, <1>7, <2>2, <2>3
<1>9. CASE \E x \in gone : ClosedAs(y, x, s, 0)
  <2>1. PICK x \in gone : ClosedAs(y, x, s, 0)
    BY <1>9
  <2>2. /\ y \in Row /\ Stamped(y, s, 0) /\ Same(y, x)
        /\ y.status = "RESOLVED" /\ y.src = x.src
    BY <2>1 DEF ClosedAs, Same
  <2>3. x \in LoadBase(s, off) /\ (mode = "FULL" => x.src = "STATIC")
    BY <1>2
  <2> QED
    BY <1>4, <1>5, <1>6, <2>2, <2>3
<1>10. CASE \E c \in kept : FoundAs(y, c, mode, off, s, hunks, closed)
  <2>1. PICK c \in kept : FoundAs(y, c, mode, off, s, hunks, closed)
    BY <1>10
  <2>2. /\ y \in Row /\ Stamped(y, s, 0) /\ Same(y, c) /\ SamePlace(y, c)
        /\ y.src = c.src
    BY <2>1 DEF FoundAs, GotForm, Same
  <2>3. c.src = "STATIC" /\ Sourced(c) /\ Placed(c, head) /\ Fits(c)
    BY <1>1, <1>2 DEF StaticSetting
  <2>4. Placed(y, head)
    BY <2>2, <2>3 DEF Placed, Same, SamePlace
  <2> QED
    BY <1>6, <1>7, <2>2, <2>3, <2>4
<1> QED
  BY <1>3, <1>8, <1>9, <1>10 DEF StaticForm

(* The rows of the static step are told apart by their ids, and the live   *)
(* ones by their fingerprints.                                             *)
LEMMA StaticRowsOf ==
  ASSUME LifecycleInv,
         NEW mode, NEW off, NEW hunks, NEW rows, NEW kept, NEW got,
         NEW closed, StaticPlan(mode, off, hunks, rows, kept, got, closed),
         NEW s, s = Len(scans) + 1, runs' = runs
  PROVE  RowsOf(s)'
<1>0. TypeInv
  BY DEF LifecycleInv
<1>1. scans'[s].rows = rows /\ scans'[s].head = head
  <2>1. scans'[s] = [head |-> head, mode |-> mode, off |-> off, rows |-> rows,
                     ai |-> FALSE]
    BY <1>0, StaticScans
  <2> QED
    BY <2>1
<1>2. IsFiniteSet(rows)
  BY StaticFinite
<1>3. OneKey(rows)
  BY StaticPair DEF OneKey
<1>4. Distinct(rows)
  <2> SUFFICES ASSUME NEW y \in rows, NEW z \in rows, y.id = z.id
               PROVE  y = z
    BY DEF Distinct
  <2>1. Labelled(y) /\ Labelled(z)
    BY StaticRow DEF Stamped
  <2>2. /\ y.fp = z.fp /\ y.sup = z.sup
        /\ y.status = "RESOLVED" <=> z.status = "RESOLVED"
    BY <2>1 DEF Labelled
  <2> QED
    BY <2>2, StaticPair
<1>5. ASSUME NEW y \in rows
      PROVE  /\ y.id[1] = s /\ y.id[2] \in 0..runs /\ Labelled(y)
             /\ Sourced(y)
             /\ y.status # "RESOLVED" => Placed(y, head)
  <2>1. runs \in Nat
    BY DEF LifecycleInv, TypeInv
  <2> QED
    BY <2>1, StaticRow DEF Stamped
<1>6. /\ IsFiniteSet(rows) /\ OneKey(rows) /\ Distinct(rows)
      /\ \A y \in rows :
           /\ y.id[1] = s /\ y.id[2] \in 0..runs' /\ Labelled(y)
           /\ Sourced(y)
           /\ y.status # "RESOLVED" => Placed(y, head)
  BY <1>2, <1>3, <1>4, <1>5
<1> QED
  BY <1>1, <1>6 DEF RowsOf

(* The rows of the other scans, and what is said of them.                  *)
LEMMA StaticOthers ==
  ASSUME TypeInv, NEW mode, NEW off, NEW hunks, NEW rows, NEW kept, NEW got,
         NEW closed, StaticPlan(mode, off, hunks, rows, kept, got, closed),
         NEW s, s = Len(scans) + 1
  PROVE  /\ Rows' = Rows \cup rows
         /\ \A n \in DOMAIN scans :
              /\ scans'[n] = scans[n] /\ Staying(n)' = Staying(n)
              /\ EarlierRun(n)' = EarlierRun(n)
<1>1. /\ DOMAIN scans' = 1..s /\ DOMAIN scans = 1..(s - 1) /\ s \in Nat
      /\ scans'[s].rows = rows
      /\ \A n \in DOMAIN scans : scans'[n] = scans[n]
  <2>1. scans'[s] = [head |-> head, mode |-> mode, off |-> off,
                     rows |-> rows, ai |-> FALSE]
    BY StaticScans
  <2> QED
    BY <2>1, StaticScans
<1>2. Rows' = Rows \cup rows
  <2>1. ASSUME NEW x
        PROVE  x \in Rows' <=> x \in Rows \cup rows
    <3>1. x \in Rows' <=> \E n \in 1..s : x \in scans'[n].rows
      BY <1>1 DEF Rows
    <3>2. \A n : n \in 1..s <=> n \in 1..(s - 1) \/ n = s
      BY <1>1
    <3>3. x \in Rows <=> \E n \in 1..(s - 1) : x \in scans'[n].rows
      BY <1>1 DEF Rows
    <3> QED
      BY <1>1, <3>1, <3>2, <3>3
  <2> QED
    BY <2>1
<1>3. ASSUME NEW n \in DOMAIN scans
      PROVE  /\ scans'[n] = scans[n] /\ Staying(n)' = Staying(n)
             /\ EarlierRun(n)' = EarlierRun(n)
  <2>1. scans'[n] = scans[n]
    BY <1>1
  <2> QED
    BY <2>1 DEF Staying, EarlierRun, OfSource
<1> QED
  BY <1>2, <1>3

(* A row of the static step is new or follows a row of this scan or of an  *)
(* earlier one.                                                            *)
LEMMA StaticKin ==
  ASSUME LifecycleInv, NEW mode, NEW off, NEW hunks, NEW rows, NEW kept,
         NEW got, NEW closed,
         StaticPlan(mode, off, hunks, rows, kept, got, closed),
         NEW s, s = Len(scans) + 1, NEW y \in rows
  PROVE  /\ y.origin = None => y.since = s
         /\ y.origin # None =>
              \E x \in Rows \cup rows : Follows(y, x) /\ x.id[1] <= s
<1> DEFINE on == On(CarryOf(mode, off, s), hunks)
           gone == StaticGone(mode, off, s, hunks, closed)
           Known == {x \in Rows \cup rows : x.id[1] <= s /\ x.id # None}
<1>0. /\ TypeInv /\ RowInv /\ DOMAIN scans = 1..(s - 1) /\ s \in Nat
      /\ s \in 1..(Len(scans) + 1)
  <2>1. TypeInv /\ RowInv
    BY DEF LifecycleInv
  <2> QED
    BY <2>1, StaticScans DEF TypeInv
<1>1. ASSUME NEW n \in DOMAIN scans, NEW x \in scans[n].rows
      PROVE  x \in Known
  <2>1. x \in Rows
    BY DEF Rows
  <2>2. x.id[1] \in 1..(s - 1) /\ x.id # None
    BY <1>0, <2>1, RowsAre
  <2> QED
    BY <1>0, <2>1, <2>2
<1>2. ASSUME NEW x \in LoadBase(s, off)
      PROVE  x \in Known
  <2>1. s - 1 \in DOMAIN scans /\ x \in scans[s - 1].rows
    BY <1>0, BaseRows
  <2> QED
    BY <1>1, <2>1
<1>3. ASSUME NEW x \in rows
      PROVE  x \in Known
  <2>1. x \in Row /\ x.id[1] = s
    BY StaticRow DEF Stamped
  <2>2. x.id \in RowIds
    BY <2>1 DEF Row
  <2> QED
    BY <1>0, <2>1, <2>2, NoneAssumption
<1>4. \/ y.origin = None /\ y.since = s
      \/ \E x \in Known : Follows(y, x)
  <2> HIDE DEF Known
  <2>1. /\ on \subseteq LoadBase(s, off) /\ gone \subseteq LoadBase(s, off)
        /\ MatchOf(mode, off, s) \subseteq LoadBase(s, off)
    BY StaticTaken
  <2>2. StaticForm(y, mode, off, hunks, s, kept, got, closed)
    BY StaticForms
  <2>3. CASE \E x \in on : CarriedTo(y, x, s, hunks)
    BY <1>2, <2>1, <2>3 DEF CarriedTo
  <2>4. CASE \E x \in gone : ClosedAs(y, x, s, 0)
    BY <1>2, <2>1, <2>4 DEF ClosedAs
  <2>5. CASE \E c \in kept : FoundAs(y, c, mode, off, s, hunks, closed)
    <3>1. PICK c \in kept : FoundAs(y, c, mode, off, s, hunks, closed)
      BY <2>5
    <3>2. \/ y.origin = None /\ y.since = s
          \/ \E x \in MatchOf(mode, off, s) : Follows(y, x)
          \/ \E x \in StaticOld(mode, off, s, hunks, closed) : Follows(y, x)
      BY <3>1 DEF FoundAs, GotForm
    <3>3. ASSUME NEW x \in StaticOld(mode, off, s, hunks, closed)
          PROVE  x \in Known
      <4>1. CASE x \in RecentResolved(s, {}, {})
        <5>1. \E n \in DOMAIN scans : x \in scans[n].rows
          BY <4>1, Reopenable
        <5> QED
          BY <1>1, <5>1
      <4>2. CASE x \in Closing(s, 0, CarryOf(mode, off, s), hunks, closed)
        <5>1. x \in rows
          BY <4>2 DEF StaticPlan, Planned
        <5> QED
          BY <1>3, <5>1
      <4> QED
        BY <4>1, <4>2 DEF StaticOld
    <3> QED
      BY <1>2, <2>1, <3>2, <3>3
  <2> QED
    BY <2>2, <2>3, <2>4, <2>5 DEF StaticForm
<1> QED
  BY <1>4 DEF Follows

(* Nothing a static step writes is replaced by a run of the AI, unless     *)
(* that run reports it: all its findings of the AI are carried or closed.  *)
LEMMA StaticStays ==
  ASSUME LifecycleInv,
         NEW mode, NEW off, NEW hunks, NEW rows, NEW kept, NEW got,
         NEW closed, StaticPlan(mode, off, hunks, rows, kept, got, closed),
         NEW s, s = Len(scans) + 1
  PROVE  Staying(s)' = rows
<1>1. scans'[s] = [head |-> head, mode |-> mode, off |-> off, rows |-> rows,
                   ai |-> FALSE]
  BY StaticScans DEF LifecycleInv
<1>2. ASSUME NEW y \in rows
      PROVE  y \notin EarlierRun(s)'
  <2>1. y.src = "AI" => /\ mode = "INCREMENTAL"
                        /\ y.status \in {"PERSISTED", "RESOLVED"}
    BY StaticRow
  <2> QED
    BY <1>1, <2>1 DEF EarlierRun, OfSource
<1> QED
  BY <1>1, <1>2 DEF Staying

(* The static step keeps the histories whole.                              *)
LEMMA StaticHist ==
  ASSUME LifecycleInv, NEW mode, NEW off, NEW hunks, NEW rows, NEW kept,
         NEW got, NEW closed,
         StaticPlan(mode, off, hunks, rows, kept, got, closed),
         NEW s, s = Len(scans) + 1, late' = late
  PROVE  HistInv'
<1>0. TypeInv /\ HistInv
  BY DEF LifecycleInv
<1>1. /\ DOMAIN scans' = 1..s /\ DOMAIN scans = 1..(s - 1) /\ s \in Nat
      /\ scans'[s] = [head |-> head, mode |-> mode, off |-> off,
                      rows |-> rows, ai |-> FALSE]
      /\ \A n \in DOMAIN scans : scans'[n] = scans[n]
  BY <1>0, StaticScans
<1>2. Rows' = Rows \cup rows
  BY <1>0, StaticOthers
<1>3. ASSUME NEW n \in DOMAIN scans
      PROVE  /\ \A x \in scans'[n].rows : Whole(x, n)'
             /\ \A x \in Staying(n)', y \in EarlierRun(n)' : x.origin # y.id
  <2>1. /\ scans'[n] = scans[n] /\ Staying(n)' = Staying(n)
        /\ EarlierRun(n)' = EarlierRun(n)
    BY <1>0, StaticOthers
  <2>2. \A x \in scans[n].rows : Whole(x, n)'
    BY <1>0, <1>2 DEF HistInv, Whole, Overtaken
  <2> QED
    BY <1>0, <2>1, <2>2 DEF HistInv
<1>4. /\ \A x \in scans'[s].rows : Whole(x, s)'
      /\ \A x \in Staying(s)', y \in EarlierRun(s)' : x.origin # y.id
  <2>1. ASSUME NEW x \in rows
        PROVE  Whole(x, s)'
    <3>1. x.origin = None => x.since = s
      BY StaticKin
    <3>2. ASSUME x.origin # None
          PROVE  /\ \E y \in Rows \cup rows : Follows(x, y)
                 /\ ~(x.origin[1] > s)
      <4>1. PICK y \in Rows \cup rows : Follows(x, y) /\ y.id[1] <= s
        BY <3>2, StaticKin
      <4>2. y.id[1] \in Nat
        <5>1. CASE y \in rows
          BY <1>1, <5>1, StaticRow DEF Stamped
        <5>2. CASE y \in Rows
          <6>1. y.id[1] \in 1..(s - 1)
            BY <1>1, <5>2, RowsAre DEF LifecycleInv
          <6> QED
            BY <6>1
        <5> QED
          BY <5>1, <5>2
      <4> QED
        BY <1>1, <4>1, <4>2 DEF Follows
    <3> QED
      BY <1>2, <3>1, <3>2 DEF Whole
  <2>2. Staying(s)' = rows /\ scans'[s].rows = rows
    BY <1>1, StaticStays
  <2>3. EarlierRun(s)' = {}
    BY <2>2 DEF Staying, EarlierRun, OfSource
  <2> QED
    BY <2>1, <2>2, <2>3
<1>5. ASSUME NEW n \in DOMAIN scans'
      PROVE  /\ \A x \in scans'[n].rows : Whole(x, n)'
             /\ \A x \in Staying(n)', y \in EarlierRun(n)' : x.origin # y.id
  <2>1. n \in DOMAIN scans \/ n = s
    BY <1>1
  <2> QED
    BY <1>3, <1>4, <2>1
<1> QED
  BY <1>5 DEF HistInv

(* The static step changes nothing for the runs that wait.                 *)
LEMMA StaticWaits ==
  ASSUME LifecycleInv, NEW mode, NEW off, NEW hunks, NEW rows, NEW kept,
         NEW got, NEW closed,
         StaticPlan(mode, off, hunks, rows, kept, got, closed),
         NEW s, s = Len(scans) + 1,
         answers' = answers, runs' = runs, late' = late
  PROVE  AnsInv'
<1>0. TypeInv /\ RowInv /\ AnsInv
  BY DEF LifecycleInv
<1>1. /\ DOMAIN scans' = 1..s /\ DOMAIN scans = 1..(s - 1) /\ s \in Nat
      /\ \A n \in DOMAIN scans : scans'[n] = scans[n]
  BY <1>0, StaticScans
<1>2. /\ Rows' = Rows \cup rows
      /\ \A n \in DOMAIN scans : Staying(n)' = Staying(n)
  BY <1>0, StaticOthers
<1>3. \A x \in rows : x.id[1] = s /\ x.id[2] = 0
  BY StaticRow DEF Stamped
<1>4. ASSUME NEW a \in answers
      PROVE  (Planning(a) /\ Fresh(a) /\ Tied(a) /\ Covers(a))'
  <2>0. /\ Planning(a) /\ Fresh(a) /\ Tied(a) /\ Covers(a)
        /\ a.scan \in DOMAIN scans /\ a.run # 0
        /\ scans'[a.scan] = scans[a.scan]
        /\ Staying(a.scan)' = Staying(a.scan)
    BY <1>0, <1>1, <1>2 DEF AnsInv, TypeInv
  <2>1. Planning(a)'
    BY <2>0 DEF Planning
  <2>2. Fresh(a)'
    BY <1>2, <1>3, <2>0 DEF Fresh
  <2>3. Tied(a)'
    <3> SUFFICES ASSUME NEW y \in a.rows, y.origin # None
                 PROVE  Linked(y, a)'
      BY <2>0 DEF Tied
    <3>1. Linked(y, a)
      BY <2>0 DEF Tied
    <3>2. y.origin[1] # s /\ y.origin[1] \in DOMAIN scans'
      BY <1>1, <3>1 DEF Linked
    <3>3. \A z \in Rows' \cup a.rows : z.id = y.origin => Follows(y, z)
      BY <1>2, <1>3, <3>1, <3>2 DEF Linked
    <3>4. ~y.sup => Reaches(y, a)'
      <4>1. Reaches(y, a) => Reaches(y, a)'
        BY <1>2, <2>0 DEF Reaches
      <4> QED
        BY <3>1, <4>1 DEF Linked
    <3> QED
      BY <3>1, <3>2, <3>3, <3>4 DEF Linked
  <2>4. Covers(a)'
    <3>1. LoadBase(a.scan, scans[a.scan].off)'
            = LoadBase(a.scan, scans[a.scan].off)
      <4>1. a.scan # 1 => a.scan - 1 \in DOMAIN scans
        BY <1>1, <2>0
      <4> QED
        BY <1>1, <2>0, <4>1 DEF LoadBase
    <3> QED
      BY <2>0, <3>1 DEF Covers, AiMatch
  <2> QED
    BY <2>1, <2>2, <2>3, <2>4
<1> QED
  BY <1>0, <1>4 DEF AnsInv

(* The static step continues or closes what is live in its base.           *)
LEMMA StaticCont ==
  ASSUME LifecycleInv,
         NEW mode, NEW off, NEW hunks, NEW rows, NEW kept, NEW got,
         NEW closed, StaticPlan(mode, off, hunks, rows, kept, got, closed),
         NEW s, s = Len(scans) + 1, late' = late
  PROVE  ContInv'
<1>0. TypeInv /\ ContInv
  BY DEF LifecycleInv
<1>1. /\ DOMAIN scans' = 1..s /\ DOMAIN scans = 1..(s - 1) /\ s \in Nat
      /\ scans'[s] = [head |-> head, mode |-> mode, off |-> off, rows |-> rows,
                      ai |-> FALSE]
      /\ \A n \in DOMAIN scans : scans'[n] = scans[n]
  BY <1>0, StaticScans
<1> SUFFICES ASSUME NEW n \in DOMAIN scans', n # 1,
                    NEW x \in scans'[n - 1].rows, Followed(x, n)'
             PROVE  /\ scans'[n].mode = "INCREMENTAL" \/ x.src = "STATIC" =>
                         \E y \in Staying(n)' : y.origin = x.id
                    /\ x.src = "AI" /\ ~x.sup /\ scans'[n].ai =>
                         \E y \in scans'[n].rows : y.origin = x.id
  BY DEF ContInv
<1>2. CASE n \in DOMAIN scans
  <2>1. scans'[n] = scans[n] /\ Staying(n)' = Staying(n)
        /\ scans'[n - 1] = scans[n - 1]
    <3>1. n - 1 \in DOMAIN scans
      BY <1>1, <1>2
    <3> QED
      BY <1>0, <1>2, <3>1, StaticOthers
  <2> QED
    BY <1>0, <1>2, <2>1 DEF ContInv, Followed
<1>3. CASE n = s
  <2>0. s # 1 /\ scans'[s - 1] = scans[s - 1]
    <3>1. s - 1 \in DOMAIN scans
      BY <1>1, <1>3
    <3> QED
      BY <1>1, <1>3, <3>1
  <2>1. x \in LoadBase(s, off)
    BY <1>1, <1>3, <2>0 DEF LoadBase, Live, Followed
  <2>2. Staying(s)' = rows
    BY StaticStays
  <2>3. scans'[s].mode = mode /\ scans'[s].ai = FALSE
    BY <1>1
  <2>4. mode \in {"FULL", "INCREMENTAL"}
    BY DEF StaticPlan
  <2>5. /\ \A w \in On(CarryOf(mode, off, s), hunks) :
             \E y \in rows : CarriedTo(y, w, s, hunks)
        /\ \A w \in StaticGone(mode, off, s, hunks, closed) :
             \E y \in rows : ClosedAs(y, w, s, 0)
        /\ \A c \in kept : /\ got[c] \in rows
                           /\ FoundAs(got[c], c, mode, off, s, hunks, closed)
    BY StaticForms
  <2>6. ASSUME mode = "INCREMENTAL"
        PROVE  \E y \in rows : y.origin = x.id
    <3>1. \/ x \in On(CarryOf(mode, off, s), hunks)
          \/ x \in StaticGone(mode, off, s, hunks, closed)
      BY <2>1, <2>6 DEF CarryOf, StaticGone, Gone
    <3> QED
      BY <2>5, <3>1 DEF CarriedTo, ClosedAs, Follows
  <2>7. ASSUME mode = "FULL", x.src = "STATIC"
        PROVE  \E y \in rows : y.origin = x.id
    <3>1. x \in MatchOf(mode, off, s)
      BY <2>1, <2>7 DEF MatchOf, OfSource
    <3>2. CASE x \in closed
      <4>1. x \in StaticGone(mode, off, s, hunks, closed)
        BY <3>2 DEF StaticGone, Gone
      <4> QED
        BY <2>5, <4>1 DEF ClosedAs, Follows
    <3>3. CASE x \notin closed
      <4>1. PICK c \in kept : got[c] = FromCandidate(c, s, 0, "PERSISTED", x)
        BY <3>1, <3>3 DEF StaticPlan, Planned
      <4>2. got[c].origin = x.id
        <5>1. x # None
          <6>1. TypeInv /\ RowInv /\ s \in 1..(Len(scans) + 1)
            BY <1>0, <1>1 DEF LifecycleInv, TypeInv
          <6>2. x \in Row
            BY <2>1, <6>1, BaseRows
          <6> QED
            BY <6>2, NoneAssumption
        <5> QED
          BY <4>1, <5>1 DEF FromCandidate
      <4> QED
        BY <2>5, <4>2
    <3> QED
      BY <3>2, <3>3
  <2>8. /\ Staying(n)' = rows /\ scans'[n].mode = mode
        /\ scans'[n].ai = FALSE
    BY <1>3, <2>2, <2>3
  <2> QED
    BY <2>4, <2>6, <2>7, <2>8
<1> QED
  BY <1>1, <1>2, <1>3

(* A static finding that survives is on a line its rule would still        *)
(* report.                                                                 *)
LEMMA StaticFits ==
  ASSUME LifecycleInv,
         NEW mode, NEW off, NEW hunks, NEW rows, NEW kept, NEW got,
         NEW closed, StaticPlan(mode, off, hunks, rows, kept, got, closed),
         NEW s, s = Len(scans) + 1, text' = text
  PROVE  FitInv'
<1>0. TypeInv /\ FitInv
  BY DEF LifecycleInv
<1>1. /\ DOMAIN scans' = 1..s /\ DOMAIN scans = 1..(s - 1) /\ s \in Nat
      /\ scans'[s] = [head |-> head, mode |-> mode, off |-> off, rows |-> rows,
                      ai |-> FALSE]
      /\ \A n \in DOMAIN scans : scans'[n] = scans[n]
  BY <1>0, StaticScans
<1>2. ASSUME NEW n \in DOMAIN scans', NEW x \in scans'[n].rows,
             x.src = "STATIC", x.status # "RESOLVED"
      PROVE  Fits(x)
  <2>1. CASE n \in DOMAIN scans
    BY <1>0, <1>1, <1>2, <2>1 DEF FitInv
  <2>2. CASE n = s
    <3>1. x \in rows
      BY <1>1, <1>2, <2>2
    <3> QED
      BY <1>2, <3>1, StaticRow
  <2> QED
    BY <1>1, <2>1, <2>2
<1>3. \A x : Fits(x)' <=> Fits(x)
  BY DEF Fits
<1> QED
  BY <1>2, <1>3 DEF FitInv, Fits

(* Two lines of one rule's in one version are one line, if none is twice.  *)
LEMMA OneOfAKind ==
  ASSUME NEW file, ~SameKeyTwice(file, text),
         NEW i \in DOMAIN file, NEW j \in DOMAIN file,
         \/ /\ text[file[i]] \in {"secret", "comment"}
            /\ text[file[j]] \in {"secret", "comment"}
         \/ text[file[i]] = "key" /\ text[file[j]] = "key"
  PROVE  i = j
BY DEF SameKeyTwice

(* A hit that stands alone gets a candidate of its own.                    *)
LEMMA LoneHit ==
  ASSUME NEW file, Told(file), ~SameKeyTwice(file, text),
         NEW added \in SUBSET DOMAIN file, NEW n \in added,
         NEW off, text[file[n]] \in {"secret", "key"} \ off
  PROVE  \E c \in StaticCandidates(file, added, off) :
            /\ c.fp = Fingerprint(file, n)
            /\ c.first = n /\ c.last = n /\ ~c.sup
<1>1. n \in DOMAIN file /\ n \in Hits(file, added, off)
  BY DEF Hits, Fingerprint
<1>2. Group(file, Hits(file, added, off), n) = {n}
  <2> SUFFICES ASSUME NEW m \in Hits(file, added, off),
                      Fingerprint(file, m) = Fingerprint(file, n)
               PROVE  m = n
    BY <1>1 DEF Group
  <2>1. m \in DOMAIN file /\ text[file[m]] # "plain"
    BY DEF Hits
  <2>2. /\ Fingerprint(file, n)[1] = "key" <=> text[file[n]] = "key"
        /\ Fingerprint(file, m)[1] = "key" <=> text[file[m]] = "key"
        /\ text[file[m]] \in Texts \cup {"plain"}
    BY <1>1, <2>1, Reading
  <2>3. text[file[m]] \in {"secret", "comment", "key"}
    BY <2>1, <2>2, LifecycleAssumption
  <2> QED
    BY <1>1, <2>1, <2>2, <2>3, OneOfAKind
<1>3. ~Suppressed(file, n)
  BY DEF Suppressed
<1>4. PICK c \in StaticCandidates(file, added, off) :
         /\ c.fp = Fingerprint(file, n)
         /\ c.first = n /\ c.last = n
         /\ c.sup = Suppressed(file, n)
  BY <1>1, <1>2, StaticFindings
<1>5. c.sup = FALSE
  BY <1>3, <1>4 DEF Suppressed
<1> QED
  BY <1>4, <1>5

(* The row a static step has for a line whose rule reports it.             *)
RowAt(x, n) == /\ x.src = "STATIC" /\ x.status # "RESOLVED" /\ ~x.sup
               /\ x.first = n /\ x.last = x.first

(* A secret that stands alone has an active row of its own after the       *)
(* static step: it is an added line, or its row of the base is carried     *)
(* (dropPersistedDuplicates drops no other).                               *)
LEMMA StaticRowAt ==
  ASSUME LifecycleInv,
         NEW mode, NEW off, NEW hunks, NEW rows, NEW kept, NEW got,
         NEW closed, StaticPlan(mode, off, hunks, rows, kept, got, closed),
         NEW s, s = Len(scans) + 1, ~repeated,
         NEW n \in DOMAIN head, text[head[n]] \in {"secret", "key"} \ off,
         head[n] \notin ToSet(TargetFile)
  PROVE  \E y \in rows : RowAt(y, n)
<1> DEFINE old == OldFile(mode, s)
           cands == StaticCandidates(head, Added(old, head), off)
<1>0. TypeInv /\ RowInv /\ FitInv /\ QuietInv
  BY DEF LifecycleInv
<1>1. StaticSetting(mode, off, hunks, s, old, cands)
  BY StaticIsSet
<1>2. Told(head) /\ Told(old) /\ ~SameKeyTwice(head, text) /\ Version(head)
      /\ Version(old) /\ s \in 1..(Len(scans) + 1)
  BY <1>0, <1>1 DEF QuietInv, StaticSetting
<1>3. mode \in {"FULL", "INCREMENTAL"}
  BY DEF StaticPlan
<1>4. /\ \A x \in On(CarryOf(mode, off, s), hunks) :
           \E y \in rows : CarriedTo(y, x, s, hunks)
      /\ \A c \in kept : /\ got[c] \in rows
                         /\ FoundAs(got[c], c, mode, off, s, hunks, closed)
  BY StaticForms
<1>5. /\ On(CarryOf(mode, off, s), hunks) \subseteq LoadBase(s, off)
      /\ mode = "FULL" => On(CarryOf(mode, off, s), hunks) = {}
  BY StaticTaken
<1>6. /\ \A c \in cands : c.src = "STATIC"
      /\ mode = "FULL" => old = TargetFile
      /\ mode = "INCREMENTAL" => s # 1 /\ old = scans[s - 1].head
  BY <1>1 DEF StaticSetting
<1>7. \A c \in cands \ kept : \E x \in On(CarryOf(mode, off, s), hunks) :
         x.fp = c.fp
  BY DEF StaticPlan, Planned
<1>8. CASE head[n] \notin ToSet(old)
  <2>1. n \in Added(old, head) /\ Added(old, head) \in SUBSET DOMAIN head
    BY <1>8 DEF Added, Positions, ToSet
  <2>2. PICK c \in cands : /\ c.fp = Fingerprint(head, n)
                           /\ c.first = n /\ c.last = n /\ ~c.sup
    BY <1>2, <2>1, LoneHit
  <2> HIDE DEF cands, old
  <2>3. CASE c \in kept
    <3>1. /\ got[c] \in rows /\ Same(got[c], c) /\ SamePlace(got[c], c)
          /\ got[c].status # "RESOLVED"
      BY <1>4, <2>3 DEF FoundAs, GotForm
    <3>2. c.src = "STATIC"
      BY <1>6, <2>2
    <3>3. RowAt(got[c], n)
      <4>1. got[c].sup = c.sup
        BY <3>1 DEF Same
      <4> QED
        BY <2>2, <3>1, <3>2, <4>1 DEF RowAt, Same, SamePlace
    <3> QED
      BY <3>1, <3>3
  <2>4. CASE c \notin kept
    <3>1. PICK x \in On(CarryOf(mode, off, s), hunks) : x.fp = c.fp
      BY <1>7, <2>2, <2>4
    <3>2. x \in LoadBase(s, off) /\ mode = "INCREMENTAL"
      BY <1>3, <1>5
    <3>3. /\ s - 1 \in DOMAIN scans /\ x \in scans[s - 1].rows /\ x \in Row
          /\ x.status # "RESOLVED" /\ Placed(x, scans[s - 1].head)
          /\ Sourced(x)
      BY <1>0, <1>2, <3>2, BaseRows
    <3>4. PICK y \in rows : CarriedTo(y, x, s, hunks)
      BY <1>4
    <3>5. /\ y.lines = x.lines /\ Placed(y, head) /\ y \in Row
      BY <3>4 DEF CarriedTo, Same
    <3>6. /\ Fingerprint(head, n)[1] \in {"secret", "key"}
          /\ Fingerprint(head, n)[1] = "key" <=> text[head[n]] = "key"
      BY <1>2, Reading
    <3>7. x.fp[1] \in {"secret", "key"}
          /\ (x.fp[1] = "key" <=> text[head[n]] = "key")
      BY <2>2, <3>1, <3>6
    <3>8. x.src = "STATIC"
      <4>1. x.src \in {"STATIC", "AI"}
        BY <3>3 DEF Row, Sources
      <4>2. x.src # "AI"
        BY <3>3, <3>7, LifecycleAssumption DEF Sourced
      <4> QED
        BY <4>1, <4>2
    <3>9. Fits(x)
      BY <1>0, <3>3, <3>8 DEF FitInv
    <3>10. y.first \in DOMAIN head /\ head[y.first] = x.lines[1]
      <4>1. DOMAIN head = 1..Len(head) /\ Len(head) \in Nat
        BY <1>2 DEF Version
      <4>2. y.first \in Int /\ y.last \in Int
        BY <3>5 DEF Row
      <4> QED
        BY <3>5, <4>1, <4>2 DEF Placed
    <3>11. \/ /\ text[head[n]] \in {"secret", "comment"}
              /\ text[head[y.first]] \in {"secret", "comment"}
           \/ text[head[n]] = "key" /\ text[head[y.first]] = "key"
      BY <3>7, <3>9, <3>10 DEF Fits
    <3>12. y.first = n
      BY <1>2, <3>10, <3>11, OneOfAKind
    <3>13. x.first \in DOMAIN old /\ old[x.first] = x.lines[1]
      <4>1. old = scans[s - 1].head
        BY <1>6, <3>2
      <4>2. DOMAIN old = 1..Len(old) /\ Len(old) \in Nat
        BY <1>2 DEF Version
      <4>3. x.first \in Int /\ x.last \in Int
        BY <3>3 DEF Row
      <4> QED
        BY <3>3, <4>1, <4>2, <4>3 DEF Placed
    <3> QED
      BY <1>8, <3>10, <3>12, <3>13 DEF ToSet
  <2> QED
    BY <2>3, <2>4
<1>9. CASE head[n] \in ToSet(old)
  <2>1. mode = "INCREMENTAL" /\ old = scans[s - 1].head /\ s # 1
    BY <1>3, <1>6, <1>9
  <2>2. s - 1 \in DOMAIN scans
    BY <1>0, <1>2, <2>1 DEF TypeInv
  <2>3. head[n] \in ActiveHits(s - 1, RulesOn(s - 1))
    <3>1. scans[s - 1].off = off
      BY <2>1 DEF StaticPlan
    <3> QED
      BY <1>9, <2>1, <3>1 DEF ActiveHits, RulesOn
  <2>4. OnItsOwn(s - 1, head[n])
    BY <1>0, <2>2, <2>3 DEF QuietInv
  <2>5. PICK x \in scans[s - 1].rows :
           /\ x.src = "STATIC" /\ x.status # "RESOLVED" /\ ~x.sup
           /\ x.first = PosOf(old, head[n]) /\ x.last = x.first
    BY <2>1, <2>4 DEF OnItsOwn
  <2>8. old[x.first] = head[n]
    BY <1>2, <1>9, <2>5, PositionOf
  <2>7. x \in Row /\ Placed(x, old) /\ Sourced(x) /\ Fits(x)
    BY <1>0, <2>1, <2>2, <2>5, ScanType DEF RowInv, RowsOf, FitInv
  <2>6. x \in LoadBase(s, off)
    <3>1. x.lines[1] = head[n]
      BY <2>7, <2>8 DEF Placed
    <3>2. x.title = text[head[n]]
      BY <2>5, <2>7, <3>1 DEF Sourced, Fits
    <3> QED
      BY <2>1, <2>5, <3>2 DEF LoadBase, Live, Enabled
  <2>9. x \in On(CarryOf(mode, off, s), hunks)
    <3>1. old[x.first] \in ToSet(head)
      BY <2>8 DEF ToSet
    <3>2. /\ SameOrder(old, head) /\ SameOrder(head, old)
          /\ hunks \in {SplitHunks(old, head), WholeHunk(old, head)}
      BY <1>1 DEF StaticSetting
    <3>3. x.last = x.first
      BY <2>5
    <3> HIDE DEF old, cands
    <3>4. Survives(hunks, x)
      BY <1>2, <2>7, <3>1, <3>2, <3>3, OneLineSurvives
    <3> QED
      BY <2>1, <2>6, <3>4 DEF On, CarryOf
  <2>10. PICK y \in rows : CarriedTo(y, x, s, hunks)
    BY <1>4, <2>9
  <2>11. /\ y \in Row /\ Same(y, x) /\ Placed(y, head)
         /\ y.status # "RESOLVED"
    BY <2>10 DEF CarriedTo
  <2>12. x.lines[1] = head[n] /\ x.lines[2] = head[n]
    BY <2>5, <2>7, <2>8 DEF Placed
  <2>13. /\ DOMAIN head = 1..Len(head) /\ Len(head) \in Nat
         /\ y.first \in Int /\ y.last \in Int
    BY <1>2, <2>11 DEF Version, Row
  <2>14. /\ y.first \in DOMAIN head /\ y.last \in DOMAIN head
         /\ head[y.first] = head[n] /\ head[y.last] = head[n]
    BY <2>11, <2>12, <2>13 DEF Placed, Same
  <2>15. y.first = n /\ y.last = n
    BY <1>2, <2>14 DEF Version, IsInjective
  <2>16. y.src = "STATIC" /\ ~y.sup
    <3>1. y.sup = x.sup /\ y.src = x.src
      BY <2>11 DEF Same
    <3> QED
      BY <2>5, <3>1
  <2> QED
    BY <2>11, <2>15, <2>16 DEF RowAt
<1> QED
  BY <1>8, <1>9

(* The static step reports every secret that stands alone.                 *)
LEMMA StaticQuiet ==
  ASSUME LifecycleInv,
         NEW mode, NEW off, NEW hunks, NEW rows, NEW kept, NEW got,
         NEW closed, StaticPlan(mode, off, hunks, rows, kept, got, closed),
         NEW s, s = Len(scans) + 1,
         text' = text /\ head' = head /\ repeated' = repeated
  PROVE  QuietInv'
<1>0. TypeInv /\ QuietInv /\ VersionInv
  BY DEF LifecycleInv
<1>1. /\ DOMAIN scans' = 1..s /\ DOMAIN scans = 1..(s - 1) /\ s \in Nat
      /\ scans'[s] = [head |-> head, mode |-> mode, off |-> off, rows |-> rows,
                      ai |-> FALSE]
      /\ \A n \in DOMAIN scans : scans'[n] = scans[n]
  BY <1>0, StaticScans
<1> SUFFICES ASSUME ~repeated
             PROVE  /\ ~SameKeyTwice(head, text)
                    /\ \A n \in DOMAIN scans' :
                         /\ ~SameKeyTwice(scans'[n].head, text)
                         /\ \A line \in ActiveHits(n, RulesOn(n))' :
                              OnItsOwn(n, line)'
  BY DEF QuietInv
<1>2. ~SameKeyTwice(head, text)
  BY <1>0 DEF QuietInv
<1>3. ASSUME NEW n \in DOMAIN scans
      PROVE  /\ ~SameKeyTwice(scans'[n].head, text)
             /\ \A line \in ActiveHits(n, RulesOn(n))' :
                   OnItsOwn(n, line)'
  <2>1. scans'[n] = scans[n]
    BY <1>1
  <2>2. ActiveHits(n, RulesOn(n))' = ActiveHits(n, RulesOn(n))
    BY <2>1 DEF ActiveHits, RulesOn
  <2>3. \A line : OnItsOwn(n, line)' <=> OnItsOwn(n, line)
    BY <2>1 DEF OnItsOwn
  <2> QED
    BY <1>0, <2>1, <2>2, <2>3 DEF QuietInv
<1>4. ASSUME NEW line \in ActiveHits(s, RulesOn(s))'
      PROVE  OnItsOwn(s, line)'
  <2>1. /\ line \in ToSet(head) /\ line \notin ToSet(TargetFile)
        /\ text[line] \in {"secret", "key"} \ off
    BY <1>1 DEF ActiveHits, RulesOn
  <2>2. Version(head)
    BY <1>0 DEF VersionInv, Versions, Told
  <2>3. PosOf(head, line) \in DOMAIN head /\ head[PosOf(head, line)] = line
    BY <2>1, <2>2, PositionOf
  <2>4. PICK y \in rows : RowAt(y, PosOf(head, line))
    BY <2>1, <2>3, StaticRowAt
  <2> QED
    BY <1>1, <2>4 DEF OnItsOwn, RowAt
<1>5. ~SameKeyTwice(scans'[s].head, text)
  BY <1>1, <1>2
<1>6. \A n \in DOMAIN scans' : n \in DOMAIN scans \/ n = s
  BY <1>1
<1> QED
  BY <1>2, <1>3, <1>4, <1>5, <1>6

(* The static step of a scan keeps the invariant.                          *)
THEOREM StaticKeeps ==
  ASSUME LifecycleInv, StaticScan
  PROVE  LifecycleInv'
<1>0. TypeInv /\ RowInv /\ VersionInv /\ ReportedStorable
  BY DEF LifecycleInv
<1>1. /\ text' = text /\ head' = head /\ edits' = edits /\ runs' = runs
      /\ answers' = answers /\ repeated' = repeated /\ late' = late
      /\ refused' = refused
      /\ Len(scans) < MaxScans
  BY DEF StaticScan
<1>2. PICK mode, off, hunks, rows, kept, got, closed :
         StaticPlan(mode, off, hunks, rows, kept, got, closed)
  BY <1>0, StaticPlans
<1>3. PICK s : s = Len(scans) + 1
  OBVIOUS
<1>4. /\ DOMAIN scans' = 1..s /\ Len(scans') = s
      /\ DOMAIN scans = 1..(s - 1) /\ s \in Nat
      /\ scans'[s] = [head |-> head, mode |-> mode, off |-> off, rows |-> rows,
                      ai |-> FALSE]
      /\ \A n \in DOMAIN scans : scans'[n] = scans[n]
  BY <1>0, <1>2, <1>3, StaticScans
<1>5. scans' = Append(scans, [head |-> head, mode |-> mode, off |-> off,
                              rows |-> rows,
                              ai |-> FALSE])
      /\ mode \in {"FULL", "INCREMENTAL"} /\ off \subseteq Names
  BY <1>2 DEF StaticPlan
<1>6. TypeInv'
  <2>1. rows \subseteq Row
    BY <1>2, <1>3, StaticRow
  <2>2. head \in Seq(Nat) /\ scans \in Seq(Scan)
    BY <1>0 DEF TypeInv
  <2>3. [head |-> head, mode |-> mode, off |-> off, rows |-> rows,
         ai |-> FALSE] \in Scan
    BY <1>5, <2>1, <2>2 DEF Scan
  <2>4. scans' \in Seq(Scan)
    BY <1>5, <2>2, <2>3
  <2>5. Len(scans') <= MaxScans
    BY <1>0, <1>1, <1>3, <1>4, LifecycleAssumption DEF TypeInv
  <2>6. DOMAIN scans \subseteq DOMAIN scans'
    BY <1>4
  <2>7. (1..runs) \X DOMAIN scans \subseteq (1..runs) \X DOMAIN scans'
    BY <2>6
  <2> QED
    BY <1>0, <1>1, <2>4, <2>5, <2>6, <2>7 DEF TypeInv
<1>7. VersionInv'
  <2>1. Versions' = Versions
    <3>1. \A n \in DOMAIN scans' :
             n \in DOMAIN scans \/ scans'[n].head = head
      BY <1>4
    <3>2. DOMAIN scans \subseteq DOMAIN scans'
      BY <1>4
    <3>3. {scans'[n].head : n \in DOMAIN scans'} \subseteq Versions
      BY <1>4, <3>1 DEF Versions
    <3>4. {scans[n].head : n \in DOMAIN scans}
          \subseteq {scans'[n].head : n \in DOMAIN scans'}
      BY <1>4, <3>2
    <3> QED
      BY <1>1, <3>3, <3>4 DEF Versions
  <2>2. \A f : Told(f)' <=> Told(f)
    BY <1>1 DEF Told
  <2> QED
    BY <1>0, <2>1, <2>2 DEF VersionInv
<1>8. RowInv'
  <2>1. ASSUME NEW n \in DOMAIN scans
        PROVE  RowsOf(n)'
    <3>1. scans'[n] = scans[n]
      BY <1>4
    <3>2. RowsOf(n)
      BY <1>0 DEF RowInv
    <3> QED
      BY <1>1, <3>1, <3>2 DEF RowsOf
  <2>2. RowsOf(s)'
    BY <1>1, <1>2, <1>3, StaticRowsOf
  <2>3. \A n \in DOMAIN scans' : n \in DOMAIN scans \/ n = s
    BY <1>4
  <2> QED
    BY <2>1, <2>2, <2>3 DEF RowInv
<1>9. HistInv' /\ ContInv' /\ AnsInv'
  BY <1>1, <1>2, <1>3, StaticHist, StaticCont, StaticWaits
<1>10. FitInv'
  BY <1>1, <1>2, <1>3, StaticFits
<1>11. QuietInv'
  BY <1>1, <1>2, <1>3, StaticQuiet
<1>12. ReportedStorable'
  BY <1>0, <1>1 DEF ReportedStorable
<1> QED
  BY <1>6, <1>7, <1>8, <1>9, <1>10, <1>11, <1>12 DEF LifecycleInv

(* A run of the AI: what it starts from.                                   *)

AiAlready(s) ==
    IF scans[s].mode = "FULL" THEN {}
    ELSE {x \in OfSource(scans[s].rows, "AI") : x.status = "PERSISTED"}

AiPool(s) ==
    RecentResolved(s, scans[s].rows,
                   IF scans[s].mode = "FULL" THEN {"AI"} ELSE {})

BasePrev(s, based) == IF based THEN BaseRun(s) ELSE {}

(* A finished scan and what is known of it.                                *)
LEMMA ScanIs ==
  ASSUME LifecycleInv, NEW s \in DOMAIN scans
  PROVE  /\ TypeInv /\ RowInv /\ s \in Nat /\ runs \in Nat
         /\ s \in 1..(Len(scans) + 1)
         /\ scans[s].mode \in {"FULL", "INCREMENTAL"}
         /\ scans[s].rows \subseteq Row /\ RowsOf(s) /\ Told(scans[s].head)
<1>1. TypeInv /\ RowInv /\ VersionInv
  BY DEF LifecycleInv
<1>2. Told(scans[s].head)
  BY <1>1, ScanVersion
<1>3. RowsOf(s)
  BY <1>1 DEF RowInv
<1>4. /\ s \in Nat /\ DOMAIN scans = 1..Len(scans)
      /\ scans[s].mode \in {"FULL", "INCREMENTAL"}
      /\ scans[s].rows \subseteq Row /\ 1 <= s /\ Len(scans) \in Nat
  BY <1>1, ScanType
<1>5. s \in 1..(Len(scans) + 1)
  BY <1>4
<1>6. runs \in Nat
  BY <1>1, LifecycleAssumption DEF TypeInv
<1> QED
  BY <1>1, <1>2, <1>3, <1>4, <1>5, <1>6

(* The rows of a scan are stored rows.                                     *)
LEMMA Stored ==
  ASSUME NEW s \in DOMAIN scans, NEW x \in scans[s].rows
  PROVE  x \in Rows
BY DEF Rows

(* What a FULL run matches: live findings of the AI's in the base scan.    *)
LEMMA AiMatchIs ==
  ASSUME LifecycleInv, NEW s \in DOMAIN scans, NEW x \in AiMatch(s)
  PROVE  /\ scans[s].mode = "FULL" /\ x.src = "AI"
         /\ x \in LoadBase(s, scans[s].off) /\ Enabled(x, scans[s].off)
         /\ s - 1 \in DOMAIN scans /\ x \in scans[s - 1].rows /\ x \in Row
         /\ x.id[1] = s - 1 /\ x.id[3] # "RESOLVED" /\ Sourced(x)
         /\ x \in Rows
<1>1. /\ scans[s].mode = "FULL" /\ x.src = "AI"
      /\ x \in LoadBase(s, scans[s].off)
  BY DEF AiMatch, OfSource
<1>2. TypeInv /\ RowInv /\ s \in 1..(Len(scans) + 1)
  BY ScanIs
<1>3. /\ s - 1 \in DOMAIN scans /\ x \in scans[s - 1].rows /\ x \in Row
      /\ x.id[1] = s - 1 /\ Labelled(x) /\ Sourced(x)
      /\ x.status # "RESOLVED" /\ Enabled(x, scans[s].off)
  BY <1>1, <1>2, BaseRows
<1>4. x.id[3] # "RESOLVED"
  BY <1>3 DEF Labelled
<1>5. x \in Rows
  BY <1>3, Stored
<1> QED
  BY <1>1, <1>3, <1>4, <1>5

(* loadRecentResolved: what a run may re-open is closed and outlives the   *)
(* run.                                                                    *)
LEMMA AiPoolIs ==
  ASSUME LifecycleInv, NEW s \in DOMAIN scans, NEW x \in AiPool(s)
  PROVE  /\ x \in Row /\ x.status = "RESOLVED" /\ x.id[3] = "RESOLVED"
         /\ Sourced(x) /\ x \in Rows
         /\ x.id[1] # s \/ x \in Staying(s)
<1> DEFINE excluded == IF scans[s].mode = "FULL" THEN {"AI"} ELSE {}
<1>1. TypeInv /\ RowInv
  BY ScanIs
<1>2. /\ x.status = "RESOLVED"
      /\ \/ \E n \in DOMAIN scans : n # s /\ x \in scans[n].rows
         \/ x \in scans[s].rows /\ x.src \notin excluded
  BY Reopenable DEF AiPool
<1>3. ASSUME NEW n \in DOMAIN scans, x \in scans[n].rows
      PROVE  /\ x \in Row /\ x.id[3] = "RESOLVED" /\ x \in Rows
             /\ Sourced(x) /\ x.id[1] = n
  <2>1. Labelled(x) /\ x \in Row /\ Sourced(x) /\ x.id[1] = n /\ x \in Rows
    BY <1>1, <1>3, ScanType, Stored DEF RowInv, RowsOf
  <2> QED
    BY <1>2, <2>1 DEF Labelled
<1>4. CASE \E n \in DOMAIN scans : n # s /\ x \in scans[n].rows
  <2>1. PICK n \in DOMAIN scans : n # s /\ x \in scans[n].rows
    BY <1>4
  <2> QED
    BY <1>2, <1>3, <2>1
<1>5. CASE x \in scans[s].rows /\ x.src \notin excluded
  <2>1. x \notin EarlierRun(s)
    BY <1>2, <1>5 DEF EarlierRun, OfSource
  <2> QED
    BY <1>2, <1>3, <1>5, <2>1 DEF Staying
<1> QED
  BY <1>2, <1>4, <1>5

(* The earlier run's findings a comparable run is merged with.             *)
LEMMA BasePrevIs ==
  ASSUME LifecycleInv, NEW s \in DOMAIN scans, NEW based
  PROVE  /\ Earlier(BasePrev(s, based), scans[s].head)
         /\ OneKey(BasePrev(s, based)) /\ Distinct(BasePrev(s, based))
         /\ \A e \in BasePrev(s, based) :
              e \in AiMatch(s) /\ ~e.sup /\ e.status # "RESOLVED"
         /\ BasePrev(s, based) # {} =>
              \A x \in AiMatch(s) : ~x.sup => x \in BasePrev(s, based)
<1>1. TypeInv /\ RowInv /\ s \in 1..(Len(scans) + 1)
  BY ScanIs
<1>2. ASSUME NEW e \in BasePrev(s, based)
      PROVE  /\ based /\ scans[s].mode = "FULL" /\ s > 1
             /\ scans[s - 1].off = scans[s].off
             /\ scans[s - 1].head = scans[s].head
             /\ e \in AiMatch(s) /\ ~e.sup /\ e.status # "RESOLVED"
             /\ e \in LoadBase(s, scans[s].off)
  <2>1. /\ based /\ scans[s].mode = "FULL" /\ s > 1
        /\ scans[s - 1].head = scans[s].head
        /\ scans[s - 1].off = scans[s].off
        /\ e \in OfSource(Active(LoadBase(s, scans[s].off)), "AI")
    BY DEF BasePrev, BaseRun
  <2>2. /\ e \in LoadBase(s, scans[s].off) /\ ~e.sup /\ e.src = "AI"
        /\ e.status # "RESOLVED"
    BY <2>1 DEF OfSource, Active, Live
  <2> QED
    BY <2>1, <2>2 DEF AiMatch, OfSource
<1>3. /\ IsFiniteSet(LoadBase(s, scans[s].off))
      /\ OneKey(LoadBase(s, scans[s].off))
      /\ Distinct(LoadBase(s, scans[s].off))
  BY <1>1, BaseKeys
<1>4. BasePrev(s, based) \subseteq LoadBase(s, scans[s].off)
  BY <1>2
<1>5. /\ IsFiniteSet(BasePrev(s, based)) /\ OneKey(BasePrev(s, based))
      /\ Distinct(BasePrev(s, based))
  BY <1>3, <1>4, FS_Subset DEF OneKey, Distinct
<1>6. ASSUME NEW e \in BasePrev(s, based)
      PROVE  /\ e \in Row /\ e.src = "AI" /\ Labelled(e) /\ Sourced(e)
             /\ Placed(e, scans[s].head)
  BY <1>1, <1>2, AiMatchIs, BaseRows
<1>7. Earlier(BasePrev(s, based), scans[s].head)
  BY <1>2, <1>5, <1>6 DEF Earlier
<1>8. ASSUME NEW e \in BasePrev(s, based), NEW x \in AiMatch(s), ~x.sup
      PROVE  x \in BasePrev(s, based)
  <2>1. /\ x.src = "AI" /\ x \in LoadBase(s, scans[s].off)
        /\ x.status # "RESOLVED"
    BY <1>1, AiMatchIs, BaseRows
  <2>2. x \in OfSource(Active(LoadBase(s, scans[s].off)), "AI")
    BY <1>8, <2>1 DEF OfSource, Active, Live
  <2> QED
    BY <1>2, <2>2 DEF BasePrev, BaseRun
<1> QED
  BY <1>2, <1>5, <1>7, <1>8

(* What a run of the AI plans: none or one of the findings it reports, and *)
(* rows that close what it no longer reports.                              *)
Found(c, file) ==
    c \in Candidate /\ c.src = "AI" /\ Sourced(c) /\ Placed(c, file)

AiPlanned(planned, s, found, kept, got, closed) ==
    /\ found = {} \/ \E c : found = {c} /\ Found(c, scans[s].head)
    /\ Planned(planned, s, runs + 1, found, {}, {}, AiMatch(s), AiAlready(s),
               AiPool(s), kept, got, closed)

AiGot(y, c, s, old) == GotForm(y, c, s, runs + 1, AiMatch(s), old)

AiOld(s, closed) == AiPool(s) \cup Closing(s, runs + 1, {}, {}, closed)

AiForm(y, s, kept, got, closed) ==
    \/ \E x \in closed : ClosedAs(y, x, s, runs + 1)
    \/ \E c \in kept : y = got[c] /\ AiGot(y, c, s, AiOld(s, closed))

(* The plan of a run: it closes rows of the base, or is for the run's      *)
(* finding.                                                                *)
LEMMA AiForms ==
  ASSUME LifecycleInv, NEW s \in DOMAIN scans, NEW planned, NEW found,
         NEW kept, NEW got, NEW closed,
         AiPlanned(planned, s, found, kept, got, closed)
  PROVE  /\ closed \subseteq AiMatch(s) /\ kept \subseteq found
         /\ \A c, d \in kept : c = d
         /\ \A c \in kept : Found(c, scans[s].head)
         /\ \A y \in planned : AiForm(y, s, kept, got, closed)
         /\ \A x \in closed : \E y \in planned : ClosedAs(y, x, s, runs + 1)
         /\ \A c \in kept : /\ got[c] \in planned
                            /\ AiGot(got[c], c, s, AiOld(s, closed))
         /\ Closing(s, runs + 1, {}, {}, closed) \subseteq planned
<1> DEFINE run == runs + 1
<1>1. /\ found = {} \/ \E c : found = {c} /\ Found(c, scans[s].head)
      /\ Planned(planned, s, run, found, {}, {}, AiMatch(s), AiAlready(s),
                 AiPool(s), kept, got, closed)
  BY DEF AiPlanned
<1>2. s \in Nat /\ run \in Nat
  BY ScanIs
<1>3. closed \subseteq AiMatch(s) /\ kept \subseteq found
  BY <1>1 DEF Planned
<1>4. \A c, d \in kept : c = d
  BY <1>1, <1>3
<1>5. \A c \in found : Found(c, scans[s].head)
  BY <1>1
<1>6. /\ On({}, {}) = {} /\ Gone({}, {}, closed) = closed
      /\ Carrying(s, run, {}, {}) = {}
      /\ Closing(s, run, {}, {}, closed)
         = {FromStored(x, s, run, "RESOLVED") : x \in closed}
  BY DEF On, Gone, Carrying, Closing
<1> HIDE DEF run
<1>7. planned = Closing(s, run, {}, {}, closed) \cup {got[c] : c \in kept}
  <2>1. planned = Carrying(s, run, {}, {}) \cup Closing(s, run, {}, {}, closed)
                  \cup {got[c] : c \in kept}
    BY <1>1, Zenon DEF Planned
  <2> QED
    BY <1>6, <2>1
<1>8. ASSUME NEW x \in closed
      PROVE  ClosedAs(FromStored(x, s, run, "RESOLVED"), x, s, run)
  <2>1. x \in Row
    BY <1>3, AiMatchIs
  <2> QED
    BY <1>2, <2>1, ClosingRow DEF ClosedAs
<1>9. ASSUME NEW c \in kept
      PROVE  GotForm(got[c], c, s, run, AiMatch(s),
                     AiPool(s) \cup Closing(s, run, {}, {}, closed))
  <2>1. found \in SUBSET Candidate /\ \A d \in found : Sourced(d)
    BY <1>5 DEF Found
  <2>2. /\ AiMatch(s) \in SUBSET Row /\ AiPool(s) \in SUBSET Row
        /\ \A x \in {} \cup AiMatch(s) \cup AiPool(s) : Sourced(x)
    BY AiMatchIs, AiPoolIs
  <2>3. {} \in SUBSET Row
    OBVIOUS
  <2> QED
    BY <1>1, <1>2, <2>1, <2>2, <2>3, GotForms
<1>10. ASSUME NEW y \in planned
       PROVE  AiForm(y, s, kept, got, closed)
  <2>1. CASE y \in Closing(s, run, {}, {}, closed)
    <3>1. PICK x \in closed : y = FromStored(x, s, run, "RESOLVED")
      BY <1>6, <2>1
    <3>2. ClosedAs(y, x, s, run)
      BY <1>8, <3>1
    <3> QED
      BY <3>2 DEF AiForm, run
  <2>2. CASE y \in {got[c] : c \in kept}
    <3>1. PICK c \in kept : y = got[c]
      BY <2>2
    <3>2. AiGot(y, c, s, AiOld(s, closed))
      BY <1>9, <3>1 DEF AiGot, AiOld, run
    <3> QED
      BY <3>1, <3>2 DEF AiForm
  <2> QED
    BY <1>7, <2>1, <2>2
<1>11. ASSUME NEW x \in closed
       PROVE  \E y \in planned : ClosedAs(y, x, s, run)
  <2>1. FromStored(x, s, run, "RESOLVED") \in planned
    BY <1>6, <1>7
  <2> QED
    BY <1>8, <2>1
<1>12. ASSUME NEW c \in kept
       PROVE  got[c] \in planned /\ AiGot(got[c], c, s, AiOld(s, closed))
  BY <1>7, <1>9 DEF AiGot, AiOld, run
<1> QED
  BY <1>3, <1>4, <1>5, <1>7, <1>10, <1>11, <1>12 DEF run

(* The plan of a run has no two live rows and closes no finding twice.     *)
LEMMA AiPair ==
  ASSUME LifecycleInv, NEW s \in DOMAIN scans, NEW planned, NEW found,
         NEW kept, NEW got, NEW closed,
         AiPlanned(planned, s, found, kept, got, closed),
         NEW y \in planned, NEW z \in planned,
         y.status = "RESOLVED" => y.fp = z.fp /\ y.sup = z.sup,
         y.status = "RESOLVED" <=> z.status = "RESOLVED"
  PROVE  y = z
<1>1. /\ closed \subseteq AiMatch(s)
      /\ \A c, d \in kept : c = d
      /\ AiForm(y, s, kept, got, closed) /\ AiForm(z, s, kept, got, closed)
  BY AiForms
<1>2. ASSUME NEW u, NEW x, ClosedAs(u, x, s, runs + 1)
      PROVE  u.status = "RESOLVED" /\ u.fp = x.fp /\ u.sup = x.sup
             /\ u = FromStored(x, s, runs + 1, "RESOLVED")
  BY <1>2 DEF ClosedAs, Same
<1>3. ASSUME NEW u, NEW c, AiGot(u, c, s, AiOld(s, closed))
      PROVE  u.status # "RESOLVED"
  BY <1>3 DEF AiGot, GotForm
<1>4. CASE y.status = "RESOLVED"
  <2>1. PICK x \in closed : ClosedAs(y, x, s, runs + 1)
    BY <1>1, <1>3, <1>4 DEF AiForm
  <2>2. PICK w \in closed : ClosedAs(z, w, s, runs + 1)
    BY <1>1, <1>3, <1>4 DEF AiForm
  <2>3. x.fp = w.fp /\ x.sup = w.sup
    BY <1>2, <1>4, <2>1, <2>2
  <2>4. /\ x \in LoadBase(s, scans[s].off) /\ w \in LoadBase(s, scans[s].off)
        /\ s \in 1..(Len(scans) + 1) /\ TypeInv /\ RowInv
    BY <1>1, AiMatchIs, ScanIs
  <2>5. /\ OneKey(LoadBase(s, scans[s].off))
        /\ x.status # "RESOLVED" /\ w.status # "RESOLVED"
    BY <2>4, BaseKeys, BaseRows
  <2>6. x = w
    BY <2>3, <2>4, <2>5 DEF OneKey
  <2> QED
    BY <1>2, <2>1, <2>2, <2>6
<1>5. CASE y.status # "RESOLVED"
  <2>1. PICK c \in kept : y = got[c]
    BY <1>1, <1>2, <1>5 DEF AiForm
  <2>2. PICK d \in kept : z = got[d]
    BY <1>1, <1>2, <1>5 DEF AiForm
  <2> QED
    BY <1>1, <2>1, <2>2
<1> QED
  BY <1>4, <1>5

(* A row of the plan of a run is of this run and on its line.              *)
LEMMA AiRowIs ==
  ASSUME LifecycleInv, NEW s \in DOMAIN scans, NEW planned, NEW found,
         NEW kept, NEW got, NEW closed,
         AiPlanned(planned, s, found, kept, got, closed),
         NEW y \in planned
  PROVE  /\ y \in Row /\ y.src = "AI" /\ Stamped(y, s, runs + 1)
         /\ Sourced(y)
         /\ y.status # "RESOLVED" => Placed(y, scans[s].head)
<1>1. /\ closed \subseteq AiMatch(s)
      /\ \A c \in kept : Found(c, scans[s].head)
      /\ AiForm(y, s, kept, got, closed)
  BY AiForms
<1>2. CASE \E x \in closed : ClosedAs(y, x, s, runs + 1)
  <2>1. PICK x \in closed : ClosedAs(y, x, s, runs + 1)
    BY <1>2
  <2>2. x.src = "AI" /\ Sourced(x)
    BY <1>1, AiMatchIs
  <2>3. /\ y \in Row /\ Same(y, x) /\ Stamped(y, s, runs + 1)
        /\ y.status = "RESOLVED"
    BY <2>1 DEF ClosedAs
  <2> QED
    BY <2>2, <2>3 DEF Same, Sourced
<1>3. CASE \E c \in kept : AiGot(y, c, s, AiOld(s, closed))
  <2>1. PICK c \in kept : AiGot(y, c, s, AiOld(s, closed))
    BY <1>3
  <2>2. c.src = "AI" /\ Sourced(c) /\ Placed(c, scans[s].head)
    BY <1>1 DEF Found
  <2>3. /\ y \in Row /\ Same(y, c) /\ SamePlace(y, c)
        /\ Stamped(y, s, runs + 1)
    BY <2>1 DEF AiGot, GotForm
  <2>4. Placed(y, scans[s].head)
    BY <2>2, <2>3 DEF Placed, Same, SamePlace
  <2> QED
    BY <2>2, <2>3, <2>4 DEF Same, Sourced
<1> QED
  BY <1>1, <1>2, <1>3 DEF AiForm

(* The plan of a run can be merged.                                        *)
LEMMA PlannedGood ==
  ASSUME LifecycleInv, NEW s \in DOMAIN scans, NEW planned, NEW found,
         NEW kept, NEW got, NEW closed,
         AiPlanned(planned, s, found, kept, got, closed)
  PROVE  /\ AiGood(planned, s, runs + 1, scans[s].head)
         /\ OneKey(planned) /\ Distinct(planned)
<1> DEFINE run == runs + 1
           done == [x \in closed |-> FromStored(x, s, run, "RESOLVED")]
<1>1. closed \subseteq AiMatch(s) /\ kept \subseteq found
  BY AiForms
<1>2. IsFiniteSet(closed)
  <2>1. closed \subseteq LoadBase(s, scans[s].off)
    BY <1>1, AiMatchIs
  <2>2. IsFiniteSet(LoadBase(s, scans[s].off))
    BY ScanIs, BaseKeys
  <2> QED
    BY <2>1, <2>2, FS_Subset
<1>3. IsFiniteSet(kept)
  <2>1. found = {} \/ \E c : found = {c}
    BY DEF AiPlanned
  <2>2. IsFiniteSet(found)
    BY <2>1, FS_EmptySet, FS_Singleton
  <2> QED
    BY <1>1, <2>2, FS_Subset
<1>4. planned = {done[x] : x \in closed} \cup {got[c] : c \in kept}
  <2>1. planned = Carrying(s, run, {}, {})
                  \cup Closing(s, run, {}, {}, closed)
                  \cup {got[c] : c \in kept}
    BY DEF AiPlanned, Planned
  <2>2. Carrying(s, run, {}, {}) = {}
        /\ Closing(s, run, {}, {}, closed) = {done[x] : x \in closed}
    BY DEF Carrying, Closing, On, Gone
  <2> QED
    BY <2>1, <2>2
<1> HIDE DEF done, run
<1>5. /\ IsFiniteSet({done[x] : x \in closed})
      /\ IsFiniteSet({got[c] : c \in kept})
  BY <1>2, <1>3, Image
<1>6. IsFiniteSet(planned)
  BY <1>4, <1>5, FS_Union
<1>7. AiGood(planned, s, runs + 1, scans[s].head)
  <2>1. \A y \in planned :
           /\ y \in Row /\ y.src = "AI" /\ Stamped(y, s, runs + 1)
           /\ Sourced(y)
           /\ y.status # "RESOLVED" => Placed(y, scans[s].head)
    BY AiRowIs
  <2> QED
    BY <1>6, <2>1 DEF AiGood
<1>8. OneKey(planned)
  BY AiPair DEF OneKey
<1>9. Distinct(planned)
  <2> SUFFICES ASSUME NEW y \in planned, NEW z \in planned, y.id = z.id
               PROVE  y = z
    BY DEF Distinct
  <2>1. Labelled(y) /\ Labelled(z)
    BY AiRowIs DEF Stamped
  <2>2. /\ y.fp = z.fp /\ y.sup = z.sup
        /\ y.status = "RESOLVED" <=> z.status = "RESOLVED"
    BY <2>1 DEF Labelled
  <2> QED
    BY <2>2, AiPair
<1> QED
  BY <1>7, <1>8, <1>9

(* A live row of a plan is new, continues a live row of the base, or       *)
(* re-opens a closed one.                                                  *)
FromBase(x, s) ==
    \E w \in AiMatch(s) : Follows(x, w) /\ w.fp = x.fp

Reopens(x, s, planned) ==
    \E w : /\ w \in AiPool(s) \/ (w \in planned /\ w.status = "RESOLVED")
           /\ w.id[3] = "RESOLVED" /\ Follows(x, w)
           /\ w.fp = x.fp \/ Similar(x, w)

AiOrigin(x, s, planned) ==
    /\ ~x.again
    /\ \/ x.status = "NEW" /\ x.origin = None /\ x.since = s
       \/ x.status = "PERSISTED" /\ FromBase(x, s)
       \/ x.status = "REOPENED" /\ Reopens(x, s, planned)

(* What a live row of the plan points at.                                  *)
LEMMA PlannedOrigin ==
  ASSUME LifecycleInv, NEW s \in DOMAIN scans, NEW planned, NEW found,
         NEW kept, NEW got, NEW closed,
         AiPlanned(planned, s, found, kept, got, closed),
         NEW y \in planned, y.status # "RESOLVED"
  PROVE  AiOrigin(y, s, planned)
<1>1. /\ AiForm(y, s, kept, got, closed)
      /\ Closing(s, runs + 1, {}, {}, closed) \subseteq planned
      /\ closed \subseteq AiMatch(s)
  BY AiForms
<1>2. PICK c \in kept : AiGot(y, c, s, AiOld(s, closed))
  BY <1>1 DEF AiForm, ClosedAs
<1>3. /\ Same(y, c) /\ SamePlace(y, c) /\ ~y.again /\ y.fp = c.fp
      /\ \/ y.status = "NEW" /\ y.origin = None /\ y.since = s
         \/ /\ y.status = "PERSISTED"
            /\ \E x \in AiMatch(s) : Follows(y, x) /\ x.fp = c.fp
         \/ /\ y.status = "REOPENED"
            /\ \E x \in AiOld(s, closed) :
                 Follows(y, x) /\ (x.fp = c.fp \/ Similar(c, x))
  BY <1>2 DEF AiGot, GotForm, Same
<1>4. CASE /\ y.status = "PERSISTED"
           /\ \E x \in AiMatch(s) : Follows(y, x) /\ x.fp = c.fp
  BY <1>3, <1>4 DEF AiOrigin, FromBase
<1>5. CASE /\ y.status = "REOPENED"
           /\ \E x \in AiOld(s, closed) :
                Follows(y, x) /\ (x.fp = c.fp \/ Similar(c, x))
  <2>1. PICK x \in AiOld(s, closed) :
                Follows(y, x) /\ (x.fp = c.fp \/ Similar(c, x))
    BY <1>5
  <2>2. x.fp = y.fp \/ Similar(y, x)
    <3>1. Same(x, x) /\ SamePlace(x, x)
      BY DEF Same, SamePlace
    <3> QED
      BY <1>3, <2>1, <3>1, SimilarRows
  <2>3. /\ x \in AiPool(s) \/ (x \in planned /\ x.status = "RESOLVED")
        /\ x.id[3] = "RESOLVED"
    <3>1. CASE x \in AiPool(s)
      BY <3>1, AiPoolIs
    <3>2. CASE x \in Closing(s, runs + 1, {}, {}, closed)
      <4>1. PICK w \in Gone({}, {}, closed) :
               x = FromStored(w, s, runs + 1, "RESOLVED")
        BY <3>2 DEF Closing
      <4>2. w \in AiMatch(s)
        BY <1>1, <4>1 DEF Gone, On
      <4>3. w \in Row /\ s \in Nat /\ runs + 1 \in Nat
        BY <4>2, AiMatchIs, ScanIs
      <4>4. x.status = "RESOLVED" /\ x.id[3] = "RESOLVED"
        BY <4>1, <4>3, ClosingRow
      <4> QED
        BY <1>1, <3>2, <4>4
    <3> QED
      BY <3>1, <3>2 DEF AiOld
  <2> QED
    BY <1>3, <1>5, <2>1, <2>2, <2>3 DEF AiOrigin, Reopens
<1> QED
  BY <1>3, <1>4, <1>5 DEF AiOrigin

(* What a row points at: one of the base, a closed one that outlives the   *)
(* run, or a closed one of its own plan.                                   *)
Source(s, planned) ==
    AiMatch(s) \cup AiPool(s) \cup {z \in planned : z.status = "RESOLVED"}

Sprung(y, s, planned) ==
    \/ y.origin = None /\ y.since = s
    \/ \E x \in Source(s, planned) : Follows(y, x)

(* The rows a run knows are rows.                                          *)
LEMMA SourceIs ==
  ASSUME LifecycleInv, NEW s \in DOMAIN scans, NEW planned, NEW found,
         NEW kept, NEW got, NEW closed,
         AiPlanned(planned, s, found, kept, got, closed),
         NEW x \in Source(s, planned)
  PROVE  /\ x \in Row /\ x.id # None /\ x.id \in RowIds
         /\ \/ x \in Rows /\ x \in AiMatch(s)
            \/ /\ x \in Rows /\ x.id[3] = "RESOLVED"
               /\ x.id[1] # s \/ x \in Staying(s)
            \/ /\ x \in planned /\ x.id[3] = "RESOLVED"
               /\ x.status = "RESOLVED"
               /\ x.id[1] = s /\ x.id[2] = runs + 1
<1>1. x \in Row =>  x.id # None /\ x.id \in RowIds
  BY NoneAssumption DEF Row
<1>2. CASE x \in AiMatch(s)
  BY <1>1, <1>2, AiMatchIs
<1>3. CASE x \in AiPool(s)
  BY <1>1, <1>3, AiPoolIs
<1>4. CASE x \in planned /\ x.status = "RESOLVED"
  BY <1>1, <1>4, AiRowIs DEF Stamped, Labelled
<1> QED
  BY <1>2, <1>3, <1>4 DEF Source

(* A row of the plan is new or follows a row the run has read or planned.  *)
LEMMA PlannedSprung ==
  ASSUME LifecycleInv, NEW s \in DOMAIN scans, NEW planned, NEW found,
         NEW kept, NEW got, NEW closed,
         AiPlanned(planned, s, found, kept, got, closed), NEW y \in planned
  PROVE  /\ Sprung(y, s, planned)
         /\ y.status = "RESOLVED" => \E x \in AiMatch(s) : Follows(y, x)
<1>4. CASE y.status = "RESOLVED"
  <2>1. AiForm(y, s, kept, got, closed) /\ closed \subseteq AiMatch(s)
    BY AiForms
  <2>2. PICK x \in closed : ClosedAs(y, x, s, runs + 1)
    BY <1>4, <2>1 DEF AiForm, AiGot, GotForm
  <2>3. Follows(y, x) /\ x \in AiMatch(s)
    BY <2>1, <2>2 DEF ClosedAs
  <2> QED
    BY <2>3 DEF Sprung, Source
<1>5. CASE y.status # "RESOLVED"
  <2>1. AiOrigin(y, s, planned)
    BY <1>5, PlannedOrigin
  <2>2. CASE y.origin = None /\ y.since = s
    BY <1>5, <2>2 DEF Sprung
  <2>3. CASE FromBase(y, s)
    BY <1>5, <2>3 DEF FromBase, Sprung, Source
  <2>4. CASE Reopens(y, s, planned)
    BY <1>5, <2>4 DEF Reopens, Sprung, Source
  <2> QED
    BY <2>1, <2>2, <2>3, <2>4 DEF AiOrigin
<1> QED
  BY <1>4, <1>5

(* dropPersistedDuplicates: the plan has no fingerprint of a row that      *)
(* stays.                                                                  *)
LEMMA PlannedApart ==
  ASSUME LifecycleInv, NEW s \in DOMAIN scans, NEW planned, NEW found,
         NEW kept, NEW got, NEW closed,
         AiPlanned(planned, s, found, kept, got, closed)
  PROVE  Apart(planned, Staying(s))
<1>0. /\ scans[s].rows \subseteq Row /\ RowsOf(s)
      /\ scans[s].mode \in {"FULL", "INCREMENTAL"}
  BY ScanIs
<1> SUFFICES ASSUME NEW y \in planned, NEW z \in Staying(s),
                    y.status # "RESOLVED", z.status # "RESOLVED"
             PROVE  y.fp # z.fp
  BY DEF Apart
<1>1. /\ z \in scans[s].rows /\ z \notin EarlierRun(s) /\ z \in Row
      /\ Sourced(z)
  BY <1>0 DEF Staying, RowsOf
<1>2. y.src = "AI" /\ Sourced(y)
  BY AiRowIs
<1>3. CASE z.src = "STATIC"
  BY <1>1, <1>2, <1>3, LifecycleAssumption DEF Sourced
<1>4. CASE z.src = "AI"
  <2>1. /\ scans[s].mode = "INCREMENTAL" /\ z.status = "PERSISTED"
    BY <1>0, <1>1, <1>4 DEF EarlierRun, OfSource, Row, Statuses
  <2>2. z \in AiAlready(s) /\ AiMatch(s) = {}
    BY <1>1, <1>4, <2>1 DEF AiAlready, OfSource, AiMatch
  <2>3. AiForm(y, s, kept, got, closed)
    BY AiForms
  <2>4. PICK c \in kept : y = got[c] /\ AiGot(y, c, s, AiOld(s, closed))
    BY <2>3 DEF AiForm, ClosedAs
  <2>5. y.fp = c.fp
    BY <2>4 DEF AiGot, GotForm, Same
  <2>6. Unmatched(c, got[c], s, runs + 1, found, AiMatch(s), AiAlready(s),
                  AiPool(s) \cup Closing(s, runs + 1, {}, {}, closed))
    BY <2>2, <2>4 DEF AiPlanned, Planned
  <2> QED
    BY <2>2, <2>5, <2>6 DEF Unmatched
<1> QED
  BY <1>1, <1>3, <1>4 DEF Row, Sources

(* The base's findings have no fingerprint of a row that stays.            *)
LEMMA BasePrevApart ==
  ASSUME LifecycleInv, NEW s \in DOMAIN scans, NEW based
  PROVE  Apart(BasePrev(s, based), Staying(s))
<1> SUFFICES ASSUME NEW e \in BasePrev(s, based), NEW z \in Staying(s)
             PROVE  e.fp # z.fp
  BY DEF Apart
<1>1. e \in AiMatch(s)
  BY BasePrevIs
<1>2. scans[s].mode = "FULL" /\ e.src = "AI" /\ Sourced(e)
  BY <1>1, AiMatchIs
<1>3. scans[s].rows \subseteq Row /\ RowsOf(s)
  BY ScanIs
<1>4. z \in scans[s].rows /\ z \notin EarlierRun(s) /\ z \in Row /\ Sourced(z)
  BY <1>3 DEF Staying, RowsOf
<1>5. z.src = "STATIC"
  BY <1>2, <1>4 DEF EarlierRun, OfSource, Row, Sources
<1> QED
  BY <1>2, <1>4, <1>5, LifecycleAssumption DEF Sourced

-----------------------------------------------------------------------------
(* A run of the AI: what becomes of its plan.                              *)

(* A merge with no earlier run changes nothing.                            *)
LEMMA MergeNothing ==
  ASSUME NEW merged, NEW s, NEW run, NEW rows, NEW kind, NEW f,
         Merging(merged, s, run, rows, {}, kind, f)
  PROVE  merged = rows
<1>1. Own(rows, {}, kind) = rows
  BY DEF Own
<1>2. Reported(rows, {}, kind) \subseteq rows
  BY ReportedAre
<1>3. \A x \in Reported(rows, {}, kind) : f[x] = None
  BY DEF Merging
<1>4. merged = (rows \ Reported(rows, {}, kind))
               \cup {IF f[x] = None THEN x ELSE MergedRow(x, f[x], kind) :
                       x \in Reported(rows, {}, kind)}
  BY <1>1 DEF Merging
<1>5. {IF f[x] = None THEN x ELSE MergedRow(x, f[x], kind) :
         x \in Reported(rows, {}, kind)} = Reported(rows, {}, kind)
  BY <1>3
<1> QED
  BY <1>2, <1>4, <1>5

(* A run that is not merged is a merge with no earlier run.                *)
LEMMA NothingMerges ==
  ASSUME NEW s, NEW run, NEW rows, NEW kind
  PROVE  \E f : Merging(rows, s, run, rows, {}, kind, f)
<1> DEFINE f == [x \in rows |-> None]
<1>1. Own(rows, {}, kind) = rows
  BY DEF Own
<1>2. Reported(rows, {}, kind) \subseteq rows
  BY ReportedAre
<1>3. \A x \in Reported(rows, {}, kind) : f[x] = None
  BY <1>2
<1> HIDE DEF f
<1>4. {IF f[x] = None THEN x ELSE MergedRow(x, f[x], kind) :
         x \in Reported(rows, {}, kind)} = Reported(rows, {}, kind)
  BY <1>3
<1>5. Merging(rows, s, run, rows, {}, kind, f)
  BY <1>1, <1>2, <1>3, <1>4 DEF Merging
<1> QED
  BY <1>5

Based(rows, planned, s, based, f) ==
    Merging(rows, s, runs + 1, planned, BasePrev(s, based), "base_scan", f)

(* The plan merged with the base scan's run can be merged again.           *)
LEMMA BasedGood ==
  ASSUME LifecycleInv, NEW s \in DOMAIN scans, NEW planned, NEW found,
         NEW kept, NEW got, NEW closed,
         AiPlanned(planned, s, found, kept, got, closed),
         NEW based, NEW rows, NEW f, Based(rows, planned, s, based, f)
  PROVE  /\ AiGood(rows, s, runs + 1, scans[s].head)
         /\ OneKey(rows) /\ Distinct(rows) /\ Apart(rows, Staying(s))
         /\ \A y \in rows : MergeForm(y, s, runs + 1, planned,
                                       BasePrev(s, based), "base_scan", f)
<1> DEFINE run == runs + 1
           file == scans[s].head
           previous == BasePrev(s, based)
<1>1. s \in Nat /\ run \in Nat /\ "base_scan" \in Kinds
  BY ScanIs DEF Kinds
<1>2. AiGood(planned, s, run, file) /\ OneKey(planned) /\ Distinct(planned)
  BY PlannedGood
<1>3. Earlier(previous, file) /\ OneKey(previous)
      /\ \A e \in previous : e \in AiMatch(s) /\ e.status # "RESOLVED"
  BY BasePrevIs
<1>4. Merging(rows, s, run, planned, previous, "base_scan", f)
  BY DEF Based
<1>5. ASSUME NEW x \in planned, NEW d \in previous, x.status # "RESOLVED",
             d.id = x.origin
      PROVE  d.fp = x.fp
  <2>1. AiOrigin(x, s, planned)
    BY <1>5, PlannedOrigin
  <2>2. /\ d \in AiMatch(s) /\ d \in Row /\ d.id[3] # "RESOLVED"
        /\ d \in scans[s - 1].rows /\ s - 1 \in DOMAIN scans
    BY <1>3, AiMatchIs
  <2>3. d.id # None
    BY <2>2, NoneAssumption DEF Row
  <2>4. FromBase(x, s)
    BY <1>5, <2>1, <2>2, <2>3 DEF AiOrigin, Reopens, Follows
  <2>5. PICK v \in AiMatch(s) : Follows(x, v) /\ v.fp = x.fp
    BY <2>4 DEF FromBase
  <2>6. v \in scans[s - 1].rows /\ v.id = d.id
    BY <1>5, <2>5, AiMatchIs DEF Follows
  <2>7. Distinct(scans[s - 1].rows)
    BY <2>2, ScanIs DEF RowInv, RowsOf
  <2> QED
    BY <2>2, <2>5, <2>6, <2>7 DEF Distinct
<1> HIDE DEF run, file, previous
<1>6. AiGood(rows, s, run, file)
  BY <1>1, <1>2, <1>3, <1>4, MergeGood
<1>7. OneKey(rows) /\ Distinct(rows)
  BY <1>1, <1>2, <1>3, <1>4, <1>5, MergeKeys
<1>8. Apart(rows, Staying(s))
  <2>1. Apart(planned, Staying(s)) /\ Apart(previous, Staying(s))
    BY PlannedApart, BasePrevApart DEF previous
  <2> QED
    BY <1>1, <1>2, <1>3, <1>4, <2>1, MergeApart
<1>9. ASSUME NEW y \in rows
      PROVE  MergeForm(y, s, run, planned, previous, "base_scan", f)
  BY <1>1, <1>2, <1>3, <1>4, MergeForms
<1> QED
  BY <1>6, <1>7, <1>8, <1>9 DEF run, file, previous

(* What a row is after the merge with the base's run.                      *)
BasedForm(y, s, planned, based, f) ==
    \/ /\ y \in Own(planned, BasePrev(s, based), "base_scan")
       /\ y \in Reported(planned, BasePrev(s, based), "base_scan") =>
            f[y] = None
    \/ /\ y.status # "RESOLVED"
       /\ \E e \in BasePrev(s, based) :
            /\ y.origin = e.id
            /\ \/ y.since = e.since
               \/ \E x \in planned : x.origin = e.id /\ y.since = x.since

(* A row merged with the base scan's run is the plan's or continues a      *)
(* finding of the base.                                                    *)
LEMMA BasedForms ==
  ASSUME LifecycleInv, NEW s \in DOMAIN scans, NEW planned, NEW found,
         NEW kept, NEW got, NEW closed,
         AiPlanned(planned, s, found, kept, got, closed),
         NEW based, NEW rows, NEW f, Based(rows, planned, s, based, f),
         NEW y \in rows
  PROVE  BasedForm(y, s, planned, based, f)
<1> DEFINE previous == BasePrev(s, based)
           own == Own(planned, previous, "base_scan")
           reported == Reported(planned, previous, "base_scan")
<1>1. MergeForm(y, s, runs + 1, planned, previous, "base_scan", f)
  BY BasedGood
<1>2. CASE y \in own /\ (y \in reported => f[y] = None)
  BY <1>2 DEF BasedForm
<1>3. CASE \E x \in reported :
             /\ f[x] \in previous /\ JoinedFrom(y, x, f[x])
             /\ y.origin = f[x].id
             /\ y.since = IF x.origin = f[x].id THEN x.since ELSE f[x].since
  <2>1. PICK x \in reported :
             /\ f[x] \in previous /\ JoinedFrom(y, x, f[x])
             /\ y.origin = f[x].id
             /\ y.since = IF x.origin = f[x].id THEN x.since ELSE f[x].since
    BY <1>3
  <2>2. x \in planned /\ y.status # "RESOLVED"
    BY <2>1, ReportedAre DEF JoinedFrom
  <2> QED
    BY <2>1, <2>2 DEF BasedForm
<1>4. CASE \E e \in previous :
             AgainFrom(y, e, s, runs + 1) /\ y.origin = e.id
  BY <1>4 DEF BasedForm, AgainFrom
<1> QED
  BY <1>1, <1>2, <1>3, <1>4 DEF MergeForm

-----------------------------------------------------------------------------
(* A run of the AI loads what it compares its answer with.                 *)

(* The plan of a run, merged with the base scan's.                         *)
Loading(w, s) ==
    /\ w.own \in BOOLEAN /\ w.based \in BOOLEAN
    /\ AiPlanned(w.planned, s, w.found, w.kept, w.got, w.closed)
    /\ Based(w.rows, w.planned, s, w.based, w.f)

(* What the run then waits with.                                           *)
Waiting(w, s) ==
    [scan |-> s, run |-> runs + 1, rows |-> w.rows, own |-> w.own,
     based |-> w.based, missed |-> {}]

Answered(found, s, static, old) ==
    found \in {{}} \cup {Deduped(static, a) :
                 a \in AiFindings(scans[s].head, Added(old, scans[s].head),
                                  scans[s].off)}

(* The AI's answer leaves at most one finding, on its line.                *)
LEMMA AiFoundIs ==
  ASSUME LifecycleInv, NEW s \in DOMAIN scans, NEW old, NEW static, NEW found,
         Answered(found, s, static, old)
  PROVE  found = {} \/ \E c : found = {c} /\ Found(c, scans[s].head)
<1> DEFINE file == scans[s].head
<1>1. CASE found = {}
  BY <1>1
<1>2. CASE found # {}
  <2>1. PICK a \in AiFindings(file, Added(old, file), scans[s].off) :
           found = Deduped(static, a)
    BY <1>2 DEF Answered
  <2>2. PICK c : c \in found
    BY <1>2
  <2>3. Told(file)
    BY ScanIs
  <2>4. Added(old, file) \in SUBSET DOMAIN file
    BY DEF Added, Positions
  <2>5. /\ c \in Candidate /\ c.src = "AI" /\ Sourced(c) /\ Placed(c, file)
        /\ Deduped(static, a) = {c}
    BY <2>1, <2>2, <2>3, <2>4, AiFound
  <2> QED
    BY <2>1, <2>5 DEF Found
<1> QED
  BY <1>1, <1>2

(* buildAiRows is planFindings with what the mode says.                    *)
LEMMA AiRowsAre ==
  ASSUME NEW s, NEW run, NEW found
  PROVE  AiRows(s, run, found)
         = PlanFindings(s, run, found, {}, {}, AiMatch(s), AiAlready(s),
                        AiPool(s))
<1>2. CASE scans[s].mode = "FULL"
  BY <1>2 DEF AiRows, AiMatch, AiAlready, AiPool
<1>3. CASE scans[s].mode # "FULL"
  BY <1>3 DEF AiRows, AiMatch, AiAlready, AiPool
<1> QED
  BY <1>2, <1>3

(* A run of the AI is planned and merged with the base scan's run.         *)
LEMMA AiMerges ==
  ASSUME LifecycleInv, NEW s \in DOMAIN scans, NEW found,
         NEW own \in BOOLEAN, NEW based \in BOOLEAN,
         found = {} \/ \E c : found = {c} /\ Found(c, scans[s].head),
         NEW planned \in AiRows(s, runs + 1, found),
         NEW rows \in IF based
                      THEN MergeWithPrevious(s, runs + 1, planned,
                                             BaseRun(s), "base_scan")
                      ELSE {planned}
  PROVE  \E w : /\ Loading(w, s)
                /\ w.own = own /\ w.based = based /\ w.rows = rows
<1> DEFINE run == runs + 1
<1>1. planned \in PlanFindings(s, run, found, {}, {}, AiMatch(s),
                               AiAlready(s), AiPool(s))
  BY AiRowsAre
<1>2. {} \in SUBSET Row /\ None \notin AiMatch(s)
  BY AiMatchIs, NoneAssumption
<1>3. \E kept, got, closed :
         Planned(planned, s, run, found, {}, {}, AiMatch(s), AiAlready(s),
                 AiPool(s), kept, got, closed)
  BY <1>1, <1>2, PlanFindingsGives
<1>4. PICK kept, got, closed :
         Planned(planned, s, run, found, {}, {}, AiMatch(s), AiAlready(s),
                 AiPool(s), kept, got, closed)
  BY <1>3
<1>5. AiPlanned(planned, s, found, kept, got, closed)
  BY <1>4 DEF AiPlanned
<1>6. IsFiniteSet(planned)
  BY <1>5, PlannedGood DEF AiGood
<1>7. None \notin BasePrev(s, based)
  BY BasePrevIs, NoneAssumption DEF Earlier
<1>8. \E f : Based(rows, planned, s, based, f)
  <2>1. CASE based
    <3>1. rows \in MergeWithPrevious(s, run, planned, BasePrev(s, based),
                                     "base_scan")
      BY <2>1 DEF BasePrev
    <3> QED
      BY <1>6, <1>7, <3>1, MergeGives DEF Based
  <2>2. CASE ~based
    <3>1. rows = planned /\ BasePrev(s, based) = {}
      BY <2>2 DEF BasePrev
    <3> QED
      BY <3>1, NothingMerges DEF Based
  <2> QED
    BY <2>1, <2>2
<1>9. PICK f : Based(rows, planned, s, based, f)
  BY <1>8
<1> DEFINE w == [planned |-> planned, found |-> found, kept |-> kept,
                 got |-> got, closed |-> closed, own |-> own,
                 based |-> based, f |-> f, rows |-> rows]
<1>10. /\ w.planned = planned /\ w.found = found /\ w.kept = kept
       /\ w.got = got /\ w.closed = closed /\ w.own = own
       /\ w.based = based /\ w.f = f /\ w.rows = rows
  OBVIOUS
<1> HIDE DEF w
<1>11. Loading(w, s)
  BY <1>5, <1>9, <1>10 DEF Loading
<1> QED
  BY <1>10, <1>11

(* AiLoad is one plan of some scan, merged with its base's.                *)
LEMMA AiLoads ==
  ASSUME LifecycleInv, AiLoad
  PROVE  \E s \in DOMAIN scans : \E w :
            /\ Loading(w, s) /\ (w.based => BaseRun(s) # {})
            /\ answers' = answers \cup {Waiting(w, s)}
<1>1. \A n \in DOMAIN scans : \A kept \in Reports(n) :
         \E static, old : Answered(kept, n, static, old)
  BY DEF Reports, Answered
<1>2. PICK s \in DOMAIN scans, own \in BOOLEAN, based \in BOOLEAN :
         /\ own => scans[s].ai \/ \E a \in answers : a.scan = s
         /\ based => BaseRun(s) # {}
         /\ \E kept \in Reports(s) : \E planned \in AiRows(s, runs + 1, kept) :
            \E rows \in IF based
                        THEN MergeWithPrevious(s, runs + 1, planned,
                                               BaseRun(s), "base_scan")
                        ELSE {planned} :
              answers' = answers \cup
                  {[scan |-> s, run |-> runs + 1, rows |-> rows, own |-> own,
                    based |-> based, missed |-> {}]}
  BY DEF AiLoad
<1>3. PICK kept \in Reports(s) : \E planned \in AiRows(s, runs + 1, kept) :
            \E rows \in IF based
                        THEN MergeWithPrevious(s, runs + 1, planned,
                                               BaseRun(s), "base_scan")
                        ELSE {planned} :
              answers' = answers \cup
                  {[scan |-> s, run |-> runs + 1, rows |-> rows, own |-> own,
                    based |-> based, missed |-> {}]}
  BY <1>2
<1>4. PICK planned \in AiRows(s, runs + 1, kept) :
            \E rows \in IF based
                        THEN MergeWithPrevious(s, runs + 1, planned,
                                               BaseRun(s), "base_scan")
                        ELSE {planned} :
              answers' = answers \cup
                  {[scan |-> s, run |-> runs + 1, rows |-> rows, own |-> own,
                    based |-> based, missed |-> {}]}
  BY <1>3
<1>5. PICK rows \in IF based
                    THEN MergeWithPrevious(s, runs + 1, planned, BaseRun(s),
                                           "base_scan")
                    ELSE {planned} :
              answers' = answers \cup
                  {[scan |-> s, run |-> runs + 1, rows |-> rows, own |-> own,
                    based |-> based, missed |-> {}]}
  BY <1>4
<1>6. kept = {} \/ \E c : kept = {c} /\ Found(c, scans[s].head)
  BY <1>1, AiFoundIs
<1>7. \E w : Loading(w, s) /\ w.own = own /\ w.based = based /\ w.rows = rows
  BY <1>6, AiMerges
<1> QED
  BY <1>2, <1>5, <1>7 DEF Waiting

(* A row a run knows is told apart from all that are stored or planned.    *)
LEMMA SourceApart ==
  ASSUME LifecycleInv, NEW s \in DOMAIN scans, NEW w, Loading(w, s),
         NEW x \in Source(s, w.planned),
         NEW z \in Rows \cup w.rows \cup w.planned, x.id = z.id
  PROVE  x = z
<1>0. /\ AiPlanned(w.planned, s, w.found, w.kept, w.got, w.closed)
      /\ Based(w.rows, w.planned, s, w.based, w.f)
  BY DEF Loading
<1>1. \A y \in Rows : y.id[2] \in 0..runs
  BY ScanIs, RowsAre
<1>2. \A y \in w.rows \cup w.planned : /\ y.id[2] = runs + 1 /\ Labelled(y)
  BY <1>0, BasedGood, AiRowIs DEF AiGood, Stamped
<1>3. runs \in Nat /\ TypeInv /\ RowInv
  BY ScanIs
<1>4. CASE x \in Rows
  <2>1. z \in Rows
    BY <1>1, <1>2, <1>3, <1>4
  <2> QED
    BY <1>3, <1>4, <2>1, TellsApart DEF Distinct
<1>5. CASE x \in w.planned /\ x.status = "RESOLVED" /\ x.id[2] = runs + 1
  <2>1. z \in w.rows \cup w.planned
    BY <1>1, <1>3, <1>5
  <2>2. z.status = "RESOLVED"
    BY <1>2, <1>5, <2>1 DEF Labelled
  <2>3. z \in w.planned
    BY <1>0, <2>1, <2>2, BasedForms DEF BasedForm, Own
  <2>4. Distinct(w.planned)
    BY <1>0, PlannedGood
  <2> QED
    BY <1>5, <2>3, <2>4 DEF Distinct
<1> QED
  BY <1>0, <1>4, <1>5, SourceIs

(* A row merged with the base scan's run is new or follows a row the run   *)
(* knows.                                                                  *)
LEMMA LoadedSprung ==
  ASSUME LifecycleInv, NEW s \in DOMAIN scans, NEW w, Loading(w, s),
         NEW y \in w.rows
  PROVE  Sprung(y, s, w.planned)
<1>0. /\ AiPlanned(w.planned, s, w.found, w.kept, w.got, w.closed)
      /\ Based(w.rows, w.planned, s, w.based, w.f)
  BY DEF Loading
<1>1. BasedForm(y, s, w.planned, w.based, w.f)
  BY <1>0, BasedForms
<1>2. CASE y \in w.planned
  BY <1>0, <1>2, PlannedSprung
<1>3. CASE \E e \in BasePrev(s, w.based) :
             /\ y.origin = e.id
             /\ \/ y.since = e.since
                \/ \E x \in w.planned : x.origin = e.id /\ y.since = x.since
  <2>1. PICK e \in BasePrev(s, w.based) :
             /\ y.origin = e.id
             /\ \/ y.since = e.since
                \/ \E x \in w.planned : x.origin = e.id /\ y.since = x.since
    BY <1>3
  <2>2. e \in AiMatch(s)
    BY BasePrevIs
  <2>3. e \in Rows /\ e.src = "AI" /\ e \in Source(s, w.planned)
    BY <2>2, AiMatchIs DEF Source
  <2>4. y.src = "AI"
    BY <1>0, BasedGood DEF AiGood
  <2>5. y.since = e.since
    <3>1. ASSUME NEW x \in w.planned, x.origin = e.id
          PROVE  x.since = e.since
      <4>1. Sprung(x, s, w.planned)
        BY <1>0, PlannedSprung
      <4>2. e.id # None
        BY <1>0, <2>3, SourceIs
      <4>3. PICK v \in Source(s, w.planned) : Follows(x, v)
        BY <3>1, <4>1, <4>2 DEF Sprung
      <4>4. v = e
        BY <2>3, <3>1, <4>3, SourceApart DEF Follows
      <4> QED
        BY <4>3, <4>4 DEF Follows
    <3> QED
      BY <2>1, <3>1
  <2> QED
    BY <2>1, <2>3, <2>4, <2>5 DEF Sprung, Follows
<1> QED
  BY <1>1, <1>2, <1>3 DEF BasedForm, Own

(* What a row that is not suppressed points at is there to be stored with  *)
(* it: if it re-opens what its own plan closes, the merge keeps that.      *)
LEMMA LoadedReaches ==
  ASSUME LifecycleInv, NEW s \in DOMAIN scans, NEW w, Loading(w, s),
         NEW z \in w.rows, z.origin # None, ~z.sup
  PROVE  \/ \E v \in w.rows : v.id = z.origin /\ v.status = "RESOLVED"
         \/ z.origin[1] = s /\ \E v \in Staying(s) : v.id = z.origin
         \/ z.origin[1] # s /\ \E v \in Rows : v.id = z.origin
<1> DEFINE previous == BasePrev(s, w.based)
           reported == Reported(w.planned, previous, "base_scan")
           Goal ==
             \/ \E v \in w.rows : v.id = z.origin /\ v.status = "RESOLVED"
             \/ z.origin[1] = s /\ \E v \in Staying(s) : v.id = z.origin
             \/ z.origin[1] # s /\ \E v \in Rows : v.id = z.origin
<1>0. /\ AiPlanned(w.planned, s, w.found, w.kept, w.got, w.closed)
      /\ Based(w.rows, w.planned, s, w.based, w.f)
  BY DEF Loading
<1>1. s \in Nat /\ RowsOf(s)
  BY ScanIs
<1>2. ASSUME NEW e \in AiMatch(s), e.id = z.origin
      PROVE  Goal
  <2>1. e \in Rows /\ e.id[1] = s - 1
    BY AiMatchIs
  <2> QED
    BY <1>1, <1>2, <2>1
<1>3. ASSUME NEW v \in AiPool(s), v.id = z.origin
      PROVE  Goal
  <2>1. v \in Rows /\ (v.id[1] # s \/ v \in Staying(s))
    BY AiPoolIs
  <2>2. \A x \in Staying(s) : x.id[1] = s
    BY <1>1 DEF Staying, RowsOf
  <2> QED
    BY <1>3, <2>1, <2>2
<1> HIDE DEF Goal
<1>6. BasedForm(z, s, w.planned, w.based, w.f)
  BY <1>0, BasedForms
<1>7. CASE \E e \in previous : z.origin = e.id
  BY <1>2, <1>7, BasePrevIs DEF Goal
<1>8. CASE /\ z \in Own(w.planned, previous, "base_scan")
           /\ z \in reported => w.f[z] = None
  <2>1. z \in w.planned
    BY <1>8 DEF Own
  <2>2. CASE z.status = "RESOLVED"
    <3>1. PICK x \in AiMatch(s) : Follows(z, x)
      BY <1>0, <2>1, <2>2, PlannedSprung
    <3> QED
      BY <1>2, <3>1 DEF Follows, Goal
  <2>3. CASE z.status # "RESOLVED"
    <3>1. AiOrigin(z, s, w.planned)
      BY <1>0, <2>1, <2>3, PlannedOrigin
    <3>2. CASE FromBase(z, s)
      BY <1>2, <3>2 DEF FromBase, Follows, Goal
    <3>3. CASE Reopens(z, s, w.planned)
      <4>1. PICK v : /\ \/ v \in AiPool(s)
                        \/ v \in w.planned /\ v.status = "RESOLVED"
                     /\ v.id[3] = "RESOLVED" /\ Follows(z, v)
                     /\ v.fp = z.fp \/ Similar(z, v)
        BY <3>3 DEF Reopens
      <4>2. CASE v \in AiPool(s)
        BY <1>3, <4>1, <4>2 DEF Follows, Goal
      <4>3. CASE v \in w.planned /\ v.status = "RESOLVED"
        <5>1. CASE \A e \in previous : e.id # v.origin
          <6>1. v \in w.rows
            <7>1. v \in Own(w.planned, previous, "base_scan")
              BY <4>3, <5>1 DEF Own
            <7>2. v \notin reported
              BY <4>3, ReportedAre
            <7> QED
              BY <1>0, <7>1, <7>2 DEF Based, Merging
          <6> QED
            BY <4>1, <4>3, <6>1 DEF Follows
        <5>2. CASE \E e \in previous : e.id = v.origin
          <6>1. PICK e \in previous : e.id = v.origin
            BY <5>2
          <6>2. /\ AiForm(v, s, w.kept, w.got, w.closed)
                /\ w.closed \subseteq AiMatch(s)
            BY <1>0, <4>3, AiForms
          <6>3. PICK d \in w.closed :
                   v = FromStored(d, s, runs + 1, "RESOLVED")
                   /\ Follows(v, d)
            BY <4>3, <6>2 DEF AiForm, AiGot, GotForm, ClosedAs
          <6>4. d = e
            <7>1. d \in AiMatch(s) /\ e \in AiMatch(s)
              BY <6>2, <6>3, BasePrevIs
            <7>2. d \in Rows /\ e \in Rows
              BY <7>1, AiMatchIs
            <7>3. Distinct(Rows)
              BY ScanIs, TellsApart
            <7> QED
              BY <6>1, <6>3, <7>2, <7>3 DEF Distinct, Follows
          <6>5. Same(v, e) /\ SamePlace(v, e)
            <7>1. e \in Row /\ s \in Nat /\ runs + 1 \in Nat
              BY BasePrevIs, ScanIs DEF Earlier
            <7> QED
              BY <6>3, <6>4, <7>1, ClosingRow
          <6>6. Repeats(z, e)
            <7>1. e.fp = v.fp
              BY <6>5 DEF Same
            <7>2. CASE v.fp = z.fp
              BY <7>1, <7>2 DEF Repeats
            <7>3. CASE Similar(z, v)
              <8>1. Same(e, v) /\ SamePlace(e, v) /\ Same(z, z)
                    /\ SamePlace(z, z)
                BY <6>5 DEF Same, SamePlace
              <8>2. Similar(z, e)
                BY <7>3, <8>1, SimilarRows
              <8> QED
                BY <8>2 DEF Repeats
            <7> QED
              BY <4>1, <7>2, <7>3
          <6>7. z \in reported
            <7>1. z.src = "AI"
              BY <1>0, <2>1, AiRowIs
            <7> QED
              BY <2>1, <2>3, <7>1, ReportedIf
          <6>8. \A y \in reported : y = z
            <7>1. \A y \in reported : y \in w.planned /\ y.status # "RESOLVED"
              BY ReportedAre
            <7> QED
              BY <1>0, <2>1, <2>3, <7>1, AiPair
          <6>9. w.f[z] = None
            BY <1>8, <6>7
          <6>10. e # None
            BY BasePrevIs, NoneAssumption DEF Earlier
          <6>11. e \in previous \ {w.f[y] : y \in reported}
            BY <6>1, <6>8, <6>9, <6>10
          <6> QED
            BY <1>0, <6>6, <6>7, <6>9, <6>11 DEF Based, Merging
        <5> QED
          BY <5>1, <5>2
      <4> QED
        BY <4>1, <4>2, <4>3
    <3> QED
      BY <3>1, <3>2, <3>3 DEF AiOrigin
  <2> QED
    BY <2>2, <2>3
<1> QED
  BY <1>6, <1>7, <1>8 DEF BasedForm, Goal

(* The run continues or closes each active finding of the AI in the base.  *)
LEMMA LoadedCovers ==
  ASSUME LifecycleInv, NEW s \in DOMAIN scans, NEW w, Loading(w, s),
         NEW x \in AiMatch(s), ~x.sup
  PROVE  \E y \in w.rows : y.origin = x.id
<1> DEFINE previous == BasePrev(s, w.based)
           reported == Reported(w.planned, previous, "base_scan")
<1>0. /\ AiPlanned(w.planned, s, w.found, w.kept, w.got, w.closed)
      /\ Based(w.rows, w.planned, s, w.based, w.f)
      /\ Merging(w.rows, s, runs + 1, w.planned, previous, "base_scan", w.f)
  BY DEF Loading, Based
<1>1. Earlier(previous, scans[s].head)
  BY BasePrevIs
<1>2. "base_scan" \in Kinds
  BY DEF Kinds
<1>3. x \in Row /\ x # None
  BY AiMatchIs, NoneAssumption
<1>4. CASE x \in previous /\ x \in {w.f[z] : z \in reported}
  <2>1. PICK z \in reported : w.f[z] = x
    BY <1>4
  <2>2. MergedRow(z, x, "base_scan") \in w.rows
    BY <1>0, <1>3, <2>1 DEF Merging
  <2>3. z \in Row
    BY <1>0, ReportedAre, AiRowIs
  <2>4. MergedRow(z, x, "base_scan").origin = x.id
    BY <1>2, <1>3, <2>3, JoinedRow DEF Kinds
  <2> QED
    BY <2>2, <2>4
<1>5. CASE x \in previous /\ x \notin {w.f[z] : z \in reported}
  <2>1. CarriedAgain(s, runs + 1, x, "base_scan") \in w.rows
    BY <1>0, <1>5 DEF Merging
  <2>2. CarriedAgain(s, runs + 1, x, "base_scan").origin = x.id
    BY <1>3 DEF CarriedAgain, Row
  <2> QED
    BY <2>1, <2>2
<1>6. CASE x \notin previous
  <2>1. previous = {}
    BY <1>6, BasePrevIs
  <2>2. w.rows = w.planned
    BY <1>0, <2>1, MergeNothing
  <2>3. CASE x \in w.closed
    <3>1. PICK y \in w.planned : ClosedAs(y, x, s, runs + 1)
      BY <1>0, <2>3, AiForms
    <3> QED
      BY <2>2, <3>1 DEF ClosedAs, Follows
  <2>4. CASE x \notin w.closed
    <3>1. PICK c \in w.kept :
             w.got[c] = FromCandidate(c, s, runs + 1, "PERSISTED", x)
      BY <1>0, <2>4 DEF AiPlanned, Planned
    <3>2. w.got[c] \in w.planned
      BY <1>0, AiForms
    <3>3. w.got[c].origin = x.id
      BY <1>3, <3>1 DEF FromCandidate
    <3> QED
      BY <2>2, <3>2, <3>3
  <2> QED
    BY <2>3, <2>4
<1> QED
  BY <1>4, <1>5, <1>6

(* A run of an incremental scan writes only rows a later run replaces.     *)
LEMMA LoadedReplaced ==
  ASSUME LifecycleInv, NEW s \in DOMAIN scans, NEW w, Loading(w, s),
         scans[s].mode = "INCREMENTAL", NEW y \in w.rows
  PROVE  y.status \in {"NEW", "REOPENED"}
<1>0. /\ AiPlanned(w.planned, s, w.found, w.kept, w.got, w.closed)
      /\ Based(w.rows, w.planned, s, w.based, w.f)
  BY DEF Loading
<1>1. AiMatch(s) = {}
  BY DEF AiMatch
<1>2. \A e : e \notin BasePrev(s, w.based)
  BY <1>1, BasePrevIs
<1>3. BasedForm(y, s, w.planned, w.based, w.f)
  BY <1>0, BasedForms
<1>4. y \in w.planned
  BY <1>2, <1>3 DEF BasedForm, Own
<1>5. /\ AiForm(y, s, w.kept, w.got, w.closed)
      /\ w.closed \subseteq AiMatch(s)
  BY <1>0, <1>4, AiForms
<1>6. y.status # "RESOLVED"
  BY <1>1, <1>5 DEF AiForm, AiGot, GotForm
<1>7. AiOrigin(y, s, w.planned)
  BY <1>0, <1>4, <1>6, PlannedOrigin
<1> QED
  BY <1>1, <1>7 DEF AiOrigin, FromBase

(* What a waiting row points at.                                           *)
LEMMA LoadedLinks ==
  ASSUME LifecycleInv, NEW s \in DOMAIN scans, NEW w, Loading(w, s),
         NEW y \in w.rows, y.origin # None
  PROVE  /\ y.origin[1] \in DOMAIN scans /\ y.origin[2] \in 0..(runs + 1)
         /\ \A b \in answers : y.origin[2] # b.run
         /\ y.origin[2] = runs + 1 \/ y.origin[1] = s =>
              y.origin[3] = "RESOLVED"
         /\ \A z \in Rows \cup w.rows : z.id = y.origin => Follows(y, z)
<1>0. /\ AiPlanned(w.planned, s, w.found, w.kept, w.got, w.closed)
      /\ Based(w.rows, w.planned, s, w.based, w.f)
  BY DEF Loading
<1>1. TypeInv /\ RowInv /\ AnsInv /\ s \in Nat /\ runs \in Nat
  BY ScanIs DEF LifecycleInv
<1>2. PICK x \in Source(s, w.planned) : Follows(y, x)
  BY LoadedSprung DEF Sprung
<1>3. /\ y.origin = x.id
      /\ \A z \in Rows \cup w.rows : z.id = y.origin => Follows(y, z)
  BY <1>2, SourceApart DEF Follows
<1>4. \A b \in answers : b.run \in 1..runs
  BY <1>1 DEF TypeInv
<1>5. CASE x \in Rows
  <2>1. x.id[1] \in DOMAIN scans /\ x.id[2] \in 0..runs
    BY <1>1, <1>5, RowsAre
  <2>2. x.id[1] = s => x.id[3] = "RESOLVED"
    <3>1. x \in AiMatch(s) => x.id[1] = s - 1
      BY AiMatchIs
    <3>2. x \in AiPool(s) => x.id[3] = "RESOLVED"
      BY AiPoolIs
    <3>3. x \in w.planned => x.id[2] = runs + 1
      BY <1>0, AiRowIs DEF Stamped
    <3> QED
      BY <1>1, <2>1, <3>1, <3>2, <3>3 DEF Source
  <2>3. \A b \in answers : x.id[2] # b.run
    BY <1>1, <1>5 DEF AnsInv, Fresh
  <2>4. x.id[2] # runs + 1 /\ x.id[2] \in 0..(runs + 1)
    BY <1>1, <2>1
  <2> QED
    BY <1>3, <2>1, <2>2, <2>3, <2>4
<1>6. CASE x.id[1] = s /\ x.id[2] = runs + 1 /\ x.id[3] = "RESOLVED"
  BY <1>1, <1>3, <1>4, <1>6
<1> QED
  BY <1>0, <1>5, <1>6, SourceIs

(* A run that loads keeps the invariant.                                   *)
THEOREM LoadKeeps ==
  ASSUME LifecycleInv, AiLoad
  PROVE  LifecycleInv'
<1>1. /\ TypeInv /\ VersionInv /\ RowInv /\ HistInv /\ ContInv /\ AnsInv
      /\ FitInv /\ QuietInv /\ ReportedStorable
  BY DEF LifecycleInv
<1>2. PICK s \in DOMAIN scans : \E w :
            /\ Loading(w, s) /\ (w.based => BaseRun(s) # {})
            /\ answers' = answers \cup {Waiting(w, s)}
  BY AiLoads
<1>3. PICK w : Loading(w, s) /\ answers' = answers \cup {Waiting(w, s)}
  BY <1>2
<1>0. PICK a : a = Waiting(w, s)
  OBVIOUS
<1>4. /\ runs < MaxRuns /\ runs' = runs + 1
      /\ text' = text /\ head' = head /\ edits' = edits /\ scans' = scans
      /\ repeated' = repeated /\ late' = late /\ refused' = refused
  BY DEF AiLoad
<1>5. /\ a.scan = s /\ a.run = runs + 1 /\ a.rows = w.rows /\ a.own = w.own
      /\ a.based = w.based /\ a.missed = {}
      /\ a = [scan |-> s, run |-> runs + 1, rows |-> w.rows, own |-> w.own,
              based |-> w.based, missed |-> {}]
  BY <1>0 DEF Waiting
<1>6. runs \in Nat /\ MaxRuns \in Nat /\ s \in Nat
  BY ScanIs, LifecycleAssumption
<1>7. /\ AiGood(w.rows, s, runs + 1, scans[s].head)
      /\ OneKey(w.rows) /\ Distinct(w.rows) /\ Apart(w.rows, Staying(s))
  BY <1>3, BasedGood DEF Loading
<1>8. TypeInv'
  <2>1. a \in Answer
    BY <1>3, <1>5, <1>6, <1>7 DEF Answer, Loading, AiGood
  <2>2. runs' \in 0..MaxRuns /\ a.run \in 1..runs'
    BY <1>4, <1>5, <1>6
  <2>3. \A n \in 1..runs : n \in 1..runs'
    BY <1>4, <1>6
  <2>4. answers' \subseteq Answer
    BY <1>0, <1>1, <1>3, <2>1 DEF TypeInv
  <2>5. ASSUME NEW b \in answers'
        PROVE  b.scan \in DOMAIN scans /\ b.run \in 1..runs'
               /\ b.missed \subseteq DOMAIN scans
    BY <1>0, <1>1, <1>3, <1>5, <2>2, <2>3, <2>5 DEF TypeInv
  <2>6. late \subseteq (1..runs') \X DOMAIN scans
    BY <1>1, <2>3 DEF TypeInv
  <2> QED
    BY <1>1, <1>4, <2>2, <2>4, <2>5, <2>6 DEF TypeInv
<1>9. VersionInv'
  <2>1. Versions' = Versions
    BY <1>4 DEF Versions
  <2> QED
    BY <1>1, <1>4, <2>1 DEF VersionInv, Told
<1>10. /\ Rows' = Rows
       /\ \A n : /\ Staying(n)' = Staying(n)
                 /\ EarlierRun(n)' = EarlierRun(n)
  BY <1>4 DEF Rows, Staying, EarlierRun
<1>11. RowInv'
  <2>1. \A n \in 0..runs : n \in 0..runs'
    BY <1>4, <1>6
  <2> QED
    BY <1>1, <1>4, <2>1 DEF RowInv, RowsOf
<1>12. HistInv' /\ ContInv'
  BY <1>1, <1>4, <1>10 DEF HistInv, Whole, Overtaken, ContInv, Followed
<1>13. ASSUME NEW b \in answers
       PROVE  (Planning(b) /\ Fresh(b) /\ Tied(b) /\ Covers(b))'
  <2>1. Planning(b) /\ Fresh(b) /\ Tied(b) /\ Covers(b)
    BY <1>1 DEF AnsInv
  <2>2. Planning(b)' /\ Fresh(b)' /\ Covers(b)'
    BY <1>4, <1>10, <2>1 DEF Planning, Fresh, Covers, AiMatch, LoadBase
  <2>3. ASSUME NEW y \in b.rows, Linked(y, b)
        PROVE  Linked(y, b)'
    <3>1. y.origin[2] \in 0..runs' /\ y.origin[2] # a.run
      BY <1>4, <1>5, <1>6, <2>3 DEF Linked
    <3>2. \A c \in answers' : y.origin[2] = c.run => c.run = b.run
      BY <1>0, <1>3, <2>3, <3>1 DEF Linked
    <3> QED
      BY <1>4, <1>10, <2>3, <3>1, <3>2 DEF Linked, Reaches
  <2>4. Tied(b)'
    BY <2>1, <2>3 DEF Tied
  <2> QED
    BY <2>2, <2>4
<1>14. (Planning(a) /\ Fresh(a) /\ Tied(a) /\ Covers(a))'
  <2>1. Planning(a)'
    BY <1>3, <1>4, <1>5, <1>7, <1>10, LoadedReplaced DEF Planning
  <2>2. Fresh(a)'
    <3>1. \A x \in Rows : x.id[2] # runs + 1
      BY <1>1, <1>6, RowsAre
    <3> QED
      BY <1>5, <1>10, <3>1 DEF Fresh
  <2>3. ASSUME NEW y \in w.rows, y.origin # None
        PROVE  Linked(y, a)'
    <3>1. /\ y.origin[1] \in DOMAIN scans /\ y.origin[2] \in 0..(runs + 1)
          /\ \A b \in answers : y.origin[2] # b.run
          /\ y.origin[2] = runs + 1 \/ y.origin[1] = s =>
               y.origin[3] = "RESOLVED"
          /\ \A z \in Rows \cup w.rows : z.id = y.origin => Follows(y, z)
      BY <1>3, <2>3, LoadedLinks
    <3>2. ~y.sup =>
            \/ \E v \in w.rows : v.id = y.origin /\ v.status = "RESOLVED"
            \/ y.origin[1] = s /\ \E v \in Staying(s) : v.id = y.origin
            \/ y.origin[1] # s /\ \E v \in Rows : v.id = y.origin
      BY <1>3, <2>3, LoadedReaches
    <3>3. ~y.sup => Reaches(y, a)'
      BY <1>5, <1>10, <3>2 DEF Reaches
    <3>4. \A b \in answers' : y.origin[2] = b.run => b.run = a.run
      BY <1>0, <1>3, <3>1
    <3> QED
      BY <1>4, <1>5, <1>10, <3>1, <3>3, <3>4 DEF Linked
  <2>4. ASSUME NEW y \in w.rows, y.origin = None
        PROVE  y.since = s
    <3>1. Sprung(y, s, w.planned)
      BY <1>3, LoadedSprung
    <3>2. \A x \in Source(s, w.planned) : x.id # None
      BY <1>3, SourceIs DEF Loading
    <3> QED
      BY <2>4, <3>1, <3>2 DEF Sprung, Follows
  <2>5. Tied(a)'
    BY <1>5, <2>3, <2>4 DEF Tied
  <2>6. Covers(a)'
    <3>1. AiMatch(s)' = AiMatch(s)
      BY <1>4 DEF AiMatch, LoadBase
    <3>2. \A x \in AiMatch(s) : ~x.sup => \E y \in w.rows : y.origin = x.id
      BY <1>3, LoadedCovers
    <3> QED
      BY <1>5, <3>1, <3>2 DEF Covers
  <2> QED
    BY <2>1, <2>2, <2>5, <2>6
<1>15. \A b, c \in answers' : b.run = c.run => b = c
  <2>1. \A b \in answers : b.run # a.run
    BY <1>1, <1>5, <1>6 DEF TypeInv
  <2> QED
    BY <1>0, <1>1, <1>3, <2>1 DEF AnsInv
<1>16. AnsInv'
  BY <1>0, <1>3, <1>13, <1>14, <1>15 DEF AnsInv
<1>17. FitInv' /\ QuietInv' /\ ReportedStorable'
  BY <1>1, <1>4
     DEF FitInv, Fits, QuietInv, OnItsOwn, ActiveHits, RulesOn,
         ReportedStorable
<1> QED
  BY <1>8, <1>9, <1>11, <1>12, <1>16, <1>17 DEF LifecycleInv

-----------------------------------------------------------------------------
(* A run of the AI stores its rows.                                        *)

(* What the run is merged with when it stores.                             *)
SamePrev(a) == IF a.own THEN Active(EarlierRun(a.scan)) ELSE {}

Storing(a, rows, g) ==
    /\ a \in answers
    /\ Merging(rows, a.scan, a.run, a.rows, SamePrev(a), "same_scan", g)

(* A waiting run and what is known of it.                                  *)
LEMMA WaitingIs ==
  ASSUME LifecycleInv, NEW a \in answers
  PROVE  /\ a.scan \in DOMAIN scans /\ a.run \in Nat /\ a.run \in 1..runs
         /\ a.run # 0 /\ a.missed \subseteq DOMAIN scans
         /\ Planning(a) /\ Fresh(a) /\ Tied(a) /\ Covers(a)
         /\ \A b \in answers : b.run = a.run => b = a
<1>1. TypeInv /\ AnsInv
  BY DEF LifecycleInv
<1>2. a.scan \in DOMAIN scans /\ a.run \in 1..runs
      /\ a.missed \subseteq DOMAIN scans
  BY <1>1 DEF TypeInv
<1>3. runs \in Nat
  BY <1>2, ScanIs
<1> QED
  BY <1>1, <1>2, <1>3 DEF AnsInv

(* The earlier run of this scan: active rows of the AI that the run        *)
(* replaces.                                                               *)
LEMMA SamePrevIs ==
  ASSUME LifecycleInv, NEW a \in answers
  PROVE  /\ Earlier(SamePrev(a), scans[a.scan].head)
         /\ OneKey(SamePrev(a))
         /\ Apart(SamePrev(a), Staying(a.scan))
         /\ \A e \in SamePrev(a) :
              /\ a.own
              /\ e \in EarlierRun(a.scan) /\ e \in scans[a.scan].rows
              /\ e \in Rows /\ e.id[1] = a.scan /\ e.id[3] # "RESOLVED"
              /\ e.src = "AI" /\ ~e.sup /\ e.status # "RESOLVED"
<1> DEFINE s == a.scan
<1>0. s \in DOMAIN scans
  BY WaitingIs
<1>1. RowsOf(s) /\ scans[s].rows \subseteq Row
  BY <1>0, ScanIs
<1>2. ASSUME NEW e \in SamePrev(a)
      PROVE  /\ e \in EarlierRun(s) /\ e \in scans[s].rows /\ e \in Rows
             /\ e.src = "AI" /\ ~e.sup /\ e.status # "RESOLVED"
             /\ a.own
  BY <1>0, Stored DEF SamePrev, EarlierRun, OfSource, Active, Live
<1>3. SamePrev(a) \subseteq scans[s].rows
  BY <1>2
<1>4. IsFiniteSet(SamePrev(a)) /\ OneKey(SamePrev(a))
  BY <1>1, <1>3, FS_Subset DEF RowsOf, OneKey
<1>5. ASSUME NEW e \in SamePrev(a)
      PROVE  /\ e \in Row /\ Labelled(e) /\ Sourced(e)
             /\ Placed(e, scans[s].head) /\ e.id[1] = s
  BY <1>1, <1>2 DEF RowsOf
<1>6. \A e \in SamePrev(a) : e.id[3] # "RESOLVED"
  BY <1>2, <1>5 DEF Labelled
<1>7. Earlier(SamePrev(a), scans[s].head)
  BY <1>2, <1>4, <1>5 DEF Earlier
<1>8. Apart(SamePrev(a), Staying(s))
  <2> SUFFICES ASSUME NEW e \in SamePrev(a), NEW z \in Staying(s),
                      e.status # "RESOLVED", z.status # "RESOLVED",
                      e.fp = z.fp, e.sup = z.sup
               PROVE  FALSE
    BY DEF Apart
  <2>1. z \in scans[s].rows /\ z \notin EarlierRun(s)
    BY DEF Staying
  <2>2. e = z
    BY <1>1, <1>2, <2>1 DEF RowsOf, OneKey
  <2> QED
    BY <1>2, <2>1, <2>2
<1> QED
  BY <1>2, <1>4, <1>5, <1>6, <1>7, <1>8

(* What a row is in the end: as it was, or carried from the run before.    *)
Like(y, z) ==
    /\ y.status = z.status /\ y.origin = z.origin /\ y.since = z.since
    /\ y.id = z.id /\ y.again = z.again /\ y.sup = z.sup /\ y.src = z.src

StoreForm(y, a) ==
    \/ \E z \in a.rows : Like(y, z) /\ (z.status = "RESOLVED" => y = z)
    \/ \E e \in SamePrev(a) :
         /\ y.again /\ y.status = e.status /\ y.status # "RESOLVED"
         /\ y.origin = e.origin /\ y.since = e.since

(* The rows a run writes are of this run, on their lines and told apart.   *)
LEMMA StoreGood ==
  ASSUME LifecycleInv, NEW a, NEW rows, NEW g, Storing(a, rows, g)
  PROVE  /\ AiGood(rows, a.scan, a.run, scans[a.scan].head)
         /\ OneKey(rows) /\ Distinct(rows) /\ Apart(rows, Staying(a.scan))
         /\ \A y \in rows : StoreForm(y, a)
         /\ \A z \in a.rows : z.status = "RESOLVED" => z \in rows
<1> DEFINE file == scans[a.scan].head
           previous == SamePrev(a)
           reported == Reported(a.rows, previous, "same_scan")
<1>0. /\ a \in answers
      /\ Merging(rows, a.scan, a.run, a.rows, previous, "same_scan", g)
  BY DEF Storing
<1>1. /\ a.scan \in Nat /\ a.scan \in DOMAIN scans /\ a.run \in Nat
      /\ "same_scan" \in Kinds
  BY <1>0, WaitingIs, ScanIs DEF Kinds
<1>2. /\ AiGood(a.rows, a.scan, a.run, file) /\ OneKey(a.rows)
      /\ Distinct(a.rows) /\ Apart(a.rows, Staying(a.scan))
      /\ Tied(a)
  BY <1>0, WaitingIs DEF Planning
<1>3. Earlier(previous, file) /\ OneKey(previous)
      /\ Apart(previous, Staying(a.scan))
      /\ \A e \in previous : e.id[1] = a.scan /\ e.id[3] # "RESOLVED"
  BY <1>0, SamePrevIs
<1>4. ASSUME NEW x \in a.rows, NEW d \in previous, x.status # "RESOLVED",
             d.id = x.origin
      PROVE  d.fp = x.fp
  <2>1. d \in Row
    BY <1>3 DEF Earlier
  <2>2. d.id # None
    BY <2>1, NoneAssumption DEF Row
  <2>3. Linked(x, a)
    BY <1>2, <1>4, <2>2 DEF Tied
  <2> QED
    BY <1>3, <1>4, <2>3 DEF Linked
<1> HIDE DEF file, previous
<1>5. AiGood(rows, a.scan, a.run, file)
  BY <1>0, <1>1, <1>2, <1>3, MergeGood
<1>6. OneKey(rows) /\ Distinct(rows)
  BY <1>0, <1>1, <1>2, <1>3, <1>4, MergeKeys
<1>7. Apart(rows, Staying(a.scan))
  BY <1>0, <1>1, <1>2, <1>3, MergeApart
<1>8. ASSUME NEW y \in rows
      PROVE  StoreForm(y, a)
  <2>1. MergeForm(y, a.scan, a.run, a.rows, previous, "same_scan", g)
    BY <1>0, <1>1, <1>2, <1>3, MergeForms
  <2>2. CASE y \in Own(a.rows, previous, "same_scan")
    BY <2>2 DEF StoreForm, Like, Own
  <2>3. CASE \E x \in reported :
               /\ JoinedFrom(y, x, g[x])
               /\ y.status = x.status /\ y.origin = x.origin
               /\ y.since = x.since
    <3>1. PICK x \in reported :
               /\ JoinedFrom(y, x, g[x])
               /\ y.status = x.status /\ y.origin = x.origin
               /\ y.since = x.since
      BY <2>3
    <3>2. x \in a.rows /\ x.status # "RESOLVED"
      BY ReportedAre
    <3>3. y.id = x.id /\ y.again = x.again /\ y.sup = x.sup /\ y.src = x.src
      BY <3>1 DEF JoinedFrom, Same
    <3> QED
      BY <3>1, <3>2, <3>3 DEF StoreForm, Like
  <2>4. CASE \E e \in previous :
               /\ AgainFrom(y, e, a.scan, a.run)
               /\ y.status = e.status /\ y.origin = e.origin
    <3>1. PICK e \in previous :
               /\ AgainFrom(y, e, a.scan, a.run)
               /\ y.status = e.status /\ y.origin = e.origin
      BY <2>4
    <3>2. y.again /\ y.status # "RESOLVED" /\ y.since = e.since
      BY <3>1 DEF AgainFrom
    <3> QED
      BY <3>1, <3>2 DEF StoreForm, previous
  <2> QED
    BY <2>1, <2>2, <2>3, <2>4 DEF MergeForm
<1>9. ASSUME NEW z \in a.rows, z.status = "RESOLVED"
      PROVE  z \in rows
  <2>1. z \in Own(a.rows, previous, "same_scan")
    BY DEF Own
  <2>2. z \notin reported
    BY <1>9, ReportedAre
  <2> QED
    BY <1>0, <2>1, <2>2 DEF Merging
<1> QED
  BY <1>5, <1>6, <1>7, <1>8, <1>9 DEF file

(* The merge loses nothing that a row of the run follows.                  *)
LEMMA StoreCovers ==
  ASSUME LifecycleInv, NEW a, NEW rows, NEW g, Storing(a, rows, g),
         NEW y \in a.rows
  PROVE  \E z \in rows : z.origin = y.origin
<1> DEFINE reported == Reported(a.rows, SamePrev(a), "same_scan")
<1>0. /\ a \in answers
      /\ Merging(rows, a.scan, a.run, a.rows, SamePrev(a), "same_scan", g)
  BY DEF Storing
<1>1. y \in Own(a.rows, SamePrev(a), "same_scan") /\ "same_scan" \in Kinds
  BY DEF Own, Kinds
<1>2. CASE y \notin reported
  BY <1>0, <1>1, <1>2 DEF Merging
<1>3. CASE y \in reported /\ g[y] = None
  BY <1>0, <1>3 DEF Merging
<1>4. CASE y \in reported /\ g[y] # None
  <2>1. MergedRow(y, g[y], "same_scan") \in rows
    BY <1>0, <1>4 DEF Merging
  <2>2. g[y] \in Row
    <3>1. g[y] \in SamePrev(a)
      BY <1>0, <1>4 DEF Merging
    <3> QED
      BY <1>0, <3>1, SamePrevIs DEF Earlier
  <2>3. y \in Row
    BY <1>0, WaitingIs DEF Planning, AiGood
  <2>4. MergedRow(y, g[y], "same_scan").origin = y.origin
    BY <1>1, <2>2, <2>3, JoinedRow DEF Kinds
  <2> QED
    BY <2>1, <2>4
<1> QED
  BY <1>2, <1>3, <1>4

(* What is deleted, and what becomes of a row that stays.                  *)
GoneIds(s) == {x.id : x \in EarlierRun(s)}

Left(x, s) == Unlinked(x, GoneIds(s))

(* A row that stays forgets at most its origin.                            *)
LEMMA LeftIs ==
  ASSUME NEW x \in Row, NEW s
  PROVE  /\ Left(x, s) \in Row
         /\ Left(x, s).src = x.src /\ Left(x, s).fp = x.fp
         /\ Left(x, s).title = x.title /\ Left(x, s).sev = x.sev
         /\ Left(x, s).first = x.first /\ Left(x, s).last = x.last
         /\ Left(x, s).sup = x.sup /\ Left(x, s).lines = x.lines
         /\ Left(x, s).id = x.id /\ Left(x, s).status = x.status
         /\ Left(x, s).since = x.since
         /\ Left(x, s).origin =
              IF x.origin \in GoneIds(s) THEN None ELSE x.origin
<1>1. CASE x.origin \in GoneIds(s)
  <2>1. Left(x, s) = [x EXCEPT !.origin = None]
    BY <1>1 DEF Left, Unlinked
  <2> QED
    BY <1>1, <2>1 DEF Row
<1>2. CASE x.origin \notin GoneIds(s)
  BY <1>2 DEF Left, Unlinked
<1> QED
  BY <1>1, <1>2

(* Rows that stay are told apart as before.                                *)
LEMMA LeftKeys ==
  ASSUME NEW s, NEW old \in SUBSET Row, IsFiniteSet(old), OneKey(old),
         Distinct(old), NEW new, new = {Left(x, s) : x \in old}
  PROVE  IsFiniteSet(new) /\ OneKey(new) /\ Distinct(new)
<1> DEFINE left == [x \in old |-> Left(x, s)]
<1>1. new = {left[x] : x \in old}
  OBVIOUS
<1> HIDE DEF left
<1>2. IsFiniteSet(new)
  <2>1. IsFiniteSet({left[x] : x \in old})
    BY Image
  <2> QED
    BY <1>1, <2>1
<1>3. \A y \in new : \E x \in old :
         /\ y = Left(x, s) /\ y.id = x.id /\ y.fp = x.fp /\ y.sup = x.sup
         /\ y.status = x.status
  BY LeftIs
<1>4. OneKey(new) /\ Distinct(new)
  BY <1>3 DEF OneKey, Distinct
<1> QED
  BY <1>2, <1>4

(* The run's rows are written.                                             *)
Written(a, rows, g) ==
    /\ Storing(a, rows, g)
    /\ scans' = Rewritten(a.scan, rows)
    /\ \A x \in rows : ~Orphan(x, Rewritten(a.scan, rows))
    /\ answers' = {[b EXCEPT !.missed = @ \cup {a.scan}] :
                      b \in answers \ {a}}
    /\ late' = IF a.scan = Len(scans) THEN late
               ELSE late \cup {<<a.run, a.scan>>}
    /\ UNCHANGED <<text, head, edits, runs, repeated, refused>>

(* The database refuses one of the run's rows.                             *)
Refusing(a, rows, g) ==
    LET orphans == {x \in rows : Orphan(x, Rewritten(a.scan, rows))}
    IN  /\ Storing(a, rows, g)
        /\ refused' = refused \cup {Kind(x, a) : x \in orphans}
        /\ answers' = answers \ {a}
        /\ UNCHANGED <<text, head, edits, scans, runs, repeated, late>>

(* AiStore is one merge of a waiting run, and one write that the database  *)
(* takes or refuses.                                                       *)
LEMMA AiStores ==
  ASSUME LifecycleInv, AiStore
  PROVE  \E a, rows, g : Written(a, rows, g) \/ Refusing(a, rows, g)
<1>1. PICK a \in answers :
       \E rows \in IF a.own
                   THEN MergeWithPrevious(a.scan, a.run, a.rows,
                            Active(EarlierRun(a.scan)), "same_scan")
                   ELSE {a.rows} :
          LET all == Rewritten(a.scan, rows)
              orphans == {x \in rows : Orphan(x, all)}
              waiting == answers \ {a}
          IN  IF orphans # {}
              THEN /\ refused' = refused \cup {Kind(x, a) : x \in orphans}
                   /\ answers' = waiting
                   /\ UNCHANGED <<scans, late>>
              ELSE /\ scans' = all
                   /\ answers' = {[b EXCEPT !.missed = @ \cup {a.scan}] :
                                     b \in waiting}
                   /\ late' = IF a.scan = Len(scans) THEN late
                              ELSE late \cup {<<a.run, a.scan>>}
                   /\ UNCHANGED refused
  BY DEF AiStore
<1>2. PICK rows \in IF a.own
                    THEN MergeWithPrevious(a.scan, a.run, a.rows,
                             Active(EarlierRun(a.scan)), "same_scan")
                    ELSE {a.rows} :
          LET all == Rewritten(a.scan, rows)
              orphans == {x \in rows : Orphan(x, all)}
              waiting == answers \ {a}
          IN  IF orphans # {}
              THEN /\ refused' = refused \cup {Kind(x, a) : x \in orphans}
                   /\ answers' = waiting
                   /\ UNCHANGED <<scans, late>>
              ELSE /\ scans' = all
                   /\ answers' = {[b EXCEPT !.missed = @ \cup {a.scan}] :
                                     b \in waiting}
                   /\ late' = IF a.scan = Len(scans) THEN late
                              ELSE late \cup {<<a.run, a.scan>>}
                   /\ UNCHANGED refused
  BY <1>1
<1>3. UNCHANGED <<text, head, edits, runs, repeated>>
  BY DEF AiStore
<1>4. \E g : Storing(a, rows, g)
  <2>1. CASE a.own
    <3>1. rows \in MergeWithPrevious(a.scan, a.run, a.rows, SamePrev(a),
                                     "same_scan")
      BY <1>2, <2>1 DEF SamePrev
    <3>2. IsFiniteSet(a.rows)
      BY WaitingIs DEF Planning, AiGood
    <3>3. None \notin SamePrev(a)
      BY SamePrevIs, NoneAssumption DEF Earlier
    <3>4. \E g : Merging(rows, a.scan, a.run, a.rows, SamePrev(a),
                         "same_scan", g)
      BY <3>1, <3>2, <3>3, MergeGives
    <3> QED
      BY <3>4 DEF Storing
  <2>2. CASE ~a.own
    <3>1. rows = a.rows /\ SamePrev(a) = {}
      BY <1>2, <2>2 DEF SamePrev
    <3> QED
      BY <3>1, NothingMerges DEF Storing
  <2> QED
    BY <2>1, <2>2
<1>5. PICK g : Storing(a, rows, g)
  BY <1>4
<1>6. Written(a, rows, g) \/ Refusing(a, rows, g)
  BY <1>2, <1>3, <1>5, Zenon DEF Written, Refusing
<1> QED
  BY <1>6

(* A refused run changes no row, and is refused for no finding that it     *)
(* reports while what that points at is there.                             *)
LEMMA RefusedKeeps ==
  ASSUME LifecycleInv, NEW a, NEW rows, NEW g, Refusing(a, rows, g)
  PROVE  LifecycleInv'
<1> DEFINE all == Rewritten(a.scan, rows)
           orphans == {x \in rows : Orphan(x, all)}
<1>1. /\ TypeInv /\ VersionInv /\ RowInv /\ HistInv /\ ContInv /\ AnsInv
      /\ FitInv /\ QuietInv /\ ReportedStorable
  BY DEF LifecycleInv
<1>2. /\ Storing(a, rows, g)
      /\ refused' = refused \cup {Kind(x, a) : x \in orphans}
      /\ answers' = answers \ {a} /\ scans' = scans /\ runs' = runs
      /\ late' = late /\ text' = text /\ head' = head /\ edits' = edits
      /\ repeated' = repeated
  BY DEF Refusing
<1>3. ASSUME NEW x \in orphans
      PROVE  Kind(x, a) \in {"stale", "carried", "suppressed"}
  <2> SUFFICES ASSUME ~x.again, ~x.sup,
                      x.origin[1] = a.scan \/ x.origin[1] \notin a.missed
               PROVE  FALSE
    BY DEF Kind
  <2> DEFINE s == a.scan
  <2>0. a \in answers /\ s \in DOMAIN scans /\ RowInv /\ TypeInv
    BY <1>1, <1>2, WaitingIs DEF Storing
  <2>1. x \in rows /\ x.origin # None
        /\ \A n \in DOMAIN all : \A y \in all[n].rows : y.id # x.origin
    BY DEF Orphan
  <2>2. PICK z \in a.rows : Like(x, z)
    BY <1>2, <2>1, StoreGood DEF StoreForm
  <2>3. z.origin = x.origin /\ ~z.sup
    BY <2>2 DEF Like
  <2>4. Reaches(z, a)
    BY <2>0, <2>1, <2>3, WaitingIs DEF Tied, Linked
  <2>5. /\ DOMAIN all = DOMAIN scans
        /\ \A n \in DOMAIN scans : \A y \in scans[n].rows :
             y \notin EarlierRun(s) => Left(y, s) \in all[n].rows
        /\ \A y \in rows : y \in all[s].rows
    BY <2>0, ScanType DEF Rewritten, Left, GoneIds, Scan
  <2>6. \A n \in DOMAIN scans : \A y \in scans[n].rows :
           y \in Row /\ y.id[1] = n /\ Left(y, s).id = y.id
    BY <2>0, ScanType, LeftIs DEF RowInv, RowsOf
  <2> HIDE DEF all
  <2>7. CASE \E v \in a.rows : v.id = z.origin /\ v.status = "RESOLVED"
    BY <1>2, <2>0, <2>1, <2>3, <2>5, <2>7, StoreGood
  <2>8. CASE \E v \in Staying(s) : v.id = z.origin
    BY <2>0, <2>1, <2>3, <2>5, <2>6, <2>8 DEF Staying
  <2>9. CASE z.origin[1] # s /\ \E v \in Rows : v.id = z.origin
    <3>1. PICK n \in DOMAIN scans : \E v \in scans[n].rows : v.id = z.origin
      BY <2>9 DEF Rows
    <3>2. PICK v \in scans[n].rows : v.id = z.origin
      BY <3>1
    <3>3. v \notin EarlierRun(s)
      BY <2>0, <2>6, <2>9, <3>2 DEF EarlierRun, OfSource
    <3> QED
      BY <2>1, <2>3, <2>5, <2>6, <3>2, <3>3
  <2> QED
    BY <2>3, <2>4, <2>7, <2>8, <2>9 DEF Reaches
<1>4. ReportedStorable'
  BY <1>1, <1>2, <1>3 DEF ReportedStorable
<1>5. TypeInv'
  BY <1>1, <1>2, <1>3 DEF TypeInv
<1>6. VersionInv'
  <2>1. Versions' = Versions
    BY <1>2 DEF Versions
  <2> QED
    BY <1>1, <1>2, <2>1 DEF VersionInv, Told
<1>7. /\ Rows' = Rows
      /\ \A n : /\ Staying(n)' = Staying(n)
                /\ EarlierRun(n)' = EarlierRun(n)
  BY <1>2 DEF Rows, Staying, EarlierRun
<1>8. RowInv' /\ HistInv' /\ ContInv'
  BY <1>1, <1>2, <1>7
     DEF RowInv, RowsOf, HistInv, Whole, Overtaken, ContInv, Followed
<1>9. AnsInv'
  <2> SUFFICES ASSUME NEW b \in answers
               PROVE  (Planning(b) /\ Fresh(b) /\ Tied(b) /\ Covers(b))'
    BY <1>1, <1>2 DEF AnsInv
  <2>1. Planning(b) /\ Fresh(b) /\ Tied(b) /\ Covers(b)
    BY <1>1 DEF AnsInv
  <2>2. Planning(b)' /\ Fresh(b)' /\ Covers(b)'
    BY <1>2, <1>7, <2>1 DEF Planning, Fresh, Covers, AiMatch, LoadBase
  <2>3. Tied(b)'
    BY <1>2, <1>7, <2>1 DEF Tied, Linked, Reaches
  <2> QED
    BY <2>2, <2>3
<1>10. FitInv' /\ QuietInv'
  BY <1>1, <1>2
     DEF FitInv, Fits, QuietInv, OnItsOwn, ActiveHits, RulesOn
<1> QED
  BY <1>4, <1>5, <1>6, <1>8, <1>9, <1>10 DEF LifecycleInv

-----------------------------------------------------------------------------
(* What is stored once the run's rows are written.                         *)

(* Only rows change, and which scans the AI has reviewed.                  *)
LEMMA WrittenScans ==
  ASSUME LifecycleInv, NEW a, NEW rows, NEW g, Written(a, rows, g)
  PROVE  /\ scans' \in Seq(Scan) /\ Len(scans') = Len(scans)
         /\ DOMAIN scans' = DOMAIN scans
         /\ \A n \in DOMAIN scans :
              /\ scans'[n].head = scans[n].head
              /\ scans'[n].mode = scans[n].mode
              /\ scans'[n].off = scans[n].off
              /\ scans'[n].ai = (scans[n].ai \/ n = a.scan)
              /\ scans'[n].rows =
                   {Left(x, a.scan) : x \in scans[n].rows \ EarlierRun(a.scan)}
                   \cup (IF n = a.scan THEN rows ELSE {})
<1> DEFINE s == a.scan
<1>1. /\ s \in DOMAIN scans /\ scans' = Rewritten(s, rows) /\ TypeInv
      /\ rows \subseteq Row
  <2>1. Storing(a, rows, g)
    BY DEF Written
  <2>2. a \in answers
    BY <2>1 DEF Storing
  <2>3. a.scan \in DOMAIN scans
    BY <2>2, WaitingIs
  <2>4. rows \subseteq Row
    BY <2>1, StoreGood DEF AiGood
  <2> QED
    BY <2>3, <2>4 DEF Written, LifecycleInv
<1>2. DOMAIN scans' = DOMAIN scans
  BY <1>1 DEF Rewritten
<1>3. ASSUME NEW n \in DOMAIN scans
      PROVE  /\ scans'[n].head = scans[n].head
             /\ scans'[n].mode = scans[n].mode
             /\ scans'[n].off = scans[n].off
             /\ scans'[n].ai = (scans[n].ai \/ n = a.scan)
             /\ scans'[n].rows =
                  {Left(x, s) : x \in scans[n].rows \ EarlierRun(s)}
                  \cup (IF n = s THEN rows ELSE {})
             /\ scans'[n] \in Scan
  <2> DEFINE kept == {Left(x, s) : x \in scans[n].rows \ EarlierRun(s)}
                     \cup (IF n = s THEN rows ELSE {})
  <2>1. scans[n] \in Scan
    BY <1>1, ScanType
  <2>2. scans'[n] = [scans[n] EXCEPT !.ai = @ \/ n = s, !.rows = kept]
    <3>1. scans'[n] = [scans[n] EXCEPT !.ai = @ \/ n = s,
             !.rows = {Unlinked(x, GoneIds(s)) : x \in @ \ EarlierRun(s)}
                      \cup (IF n = s THEN rows ELSE {})]
      BY <1>1 DEF Rewritten, GoneIds
    <3> QED
      BY <2>1, <3>1 DEF Left, Scan
  <2>3. kept \subseteq Row
    <3>1. \A x \in scans[n].rows : Left(x, s) \in Row
      BY <1>1, ScanType, LeftIs
    <3> QED
      BY <1>1, <3>1
  <2> HIDE DEF kept
  <2>4. /\ scans'[n].head = scans[n].head
        /\ scans'[n].mode = scans[n].mode
        /\ scans'[n].off = scans[n].off
        /\ scans'[n].ai = (scans[n].ai \/ n = s)
        /\ scans'[n].rows = kept
        /\ scans'[n] \in Scan
    BY <2>1, <2>2, <2>3 DEF Scan
  <2> QED
    BY <2>4 DEF kept
<1>4. scans' \in Seq(Scan) /\ Len(scans') = Len(scans)
  <2>1. scans \in Seq(Scan) /\ DOMAIN scans = 1..Len(scans)
        /\ Len(scans) \in Nat
    BY <1>1, ScanType DEF TypeInv
  <2>2. scans' = [n \in 1..Len(scans) |-> scans'[n]]
    BY <1>1, <2>1 DEF Rewritten
  <2>3. \A n \in 1..Len(scans) : scans'[n] \in Scan
    BY <1>3, <2>1
  <2>4. scans' \in [1..Len(scans) -> Scan]
    BY <2>2, <2>3
  <2> QED
    BY <2>1, <2>4
<1> QED
  BY <1>2, <1>3, <1>4

(* The run that is written.                                                *)
LEMMA WriterIs ==
  ASSUME LifecycleInv, NEW a, NEW rows, NEW g, Written(a, rows, g)
  PROVE  /\ Storing(a, rows, g) /\ a \in answers /\ a.scan \in DOMAIN scans
         /\ a.run \in Nat /\ a.run \in 1..runs
         /\ TypeInv /\ RowInv /\ HistInv /\ AnsInv /\ a.scan \in Nat
         /\ rows \subseteq Row
         /\ \A y \in rows : /\ y.id[1] = a.scan /\ y.id[2] = a.run
                            /\ y.src = "AI" /\ StoreForm(y, a)
                            /\ Labelled(y) /\ Sourced(y) /\ y.id \in RowIds
         /\ \A x \in Rows : x.id[2] # a.run
         /\ late \subseteq late' /\ \A l \in late' : l[1] \in 1..runs
         /\ a.scan # Len(scans) => <<a.run, a.scan>> \in late'
<1>1. /\ Storing(a, rows, g)
      /\ late' = IF a.scan = Len(scans) THEN late
                 ELSE late \cup {<<a.run, a.scan>>}
  BY DEF Written
<1>2. a \in answers
  BY <1>1 DEF Storing
<1>3. /\ a.scan \in DOMAIN scans /\ a.run \in Nat /\ a.run \in 1..runs
      /\ \A x \in Rows : x.id[2] # a.run
  BY <1>2, WaitingIs DEF Fresh
<1>4. /\ AiGood(rows, a.scan, a.run, scans[a.scan].head)
      /\ \A y \in rows : StoreForm(y, a)
  BY <1>1, StoreGood
<1>5. TypeInv /\ RowInv /\ HistInv /\ AnsInv
  BY DEF LifecycleInv
<1>6. a.scan \in Nat
  BY <1>3, <1>5, ScanType
<1>7. \A y \in rows : /\ y.id[1] = a.scan /\ y.id[2] = a.run
                      /\ y.src = "AI" /\ y \in Row /\ Labelled(y)
                      /\ Sourced(y) /\ y.id \in RowIds
  BY <1>4 DEF AiGood, Stamped, Row
<1>8. late \subseteq (1..runs) \X DOMAIN scans
  BY <1>5 DEF TypeInv
<1> QED
  BY <1>1, <1>2, <1>3, <1>4, <1>5, <1>6, <1>7, <1>8

(* A row a scan holds then was there and stays, or is the run's.           *)
LEMMA WrittenRow ==
  ASSUME LifecycleInv, NEW a, NEW rows, NEW g, Written(a, rows, g),
         NEW n \in DOMAIN scans
  PROVE  /\ \A y \in scans'[n].rows :
              \/ \E x \in scans[n].rows \ EarlierRun(a.scan) :
                   y = Left(x, a.scan)
              \/ n = a.scan /\ y \in rows
         /\ \A x \in scans[n].rows :
              x \notin EarlierRun(a.scan) => Left(x, a.scan) \in scans'[n].rows
         /\ n = a.scan => rows \subseteq scans'[n].rows
         /\ n # a.scan => \A x \in scans[n].rows : x \notin EarlierRun(a.scan)
<1>1. scans'[n].rows =
        {Left(x, a.scan) : x \in scans[n].rows \ EarlierRun(a.scan)}
        \cup (IF n = a.scan THEN rows ELSE {})
  BY WrittenScans
<1>2. ASSUME n # a.scan, NEW x \in scans[n].rows
      PROVE  x \notin EarlierRun(a.scan)
  <2>1. a.scan \in DOMAIN scans /\ RowInv
    BY WriterIs
  <2> QED
    BY <1>2, <2>1 DEF RowInv, RowsOf, EarlierRun, OfSource
<1> QED
  BY <1>1, <1>2

(* And so for all rows.                                                    *)
LEMMA WrittenRows ==
  ASSUME LifecycleInv, NEW a, NEW rows, NEW g, Written(a, rows, g)
  PROVE  /\ \A y \in Rows' :
              \/ \E x \in Rows \ EarlierRun(a.scan) : y = Left(x, a.scan)
              \/ y \in rows
         /\ \A x \in Rows \ EarlierRun(a.scan) : Left(x, a.scan) \in Rows'
         /\ rows \subseteq Rows'
<1>1. DOMAIN scans' = DOMAIN scans /\ a.scan \in DOMAIN scans
  BY WrittenScans, WriterIs
<1>2. ASSUME NEW y \in Rows'
      PROVE  \/ \E x \in Rows \ EarlierRun(a.scan) : y = Left(x, a.scan)
             \/ y \in rows
  <2>1. PICK n \in DOMAIN scans : y \in scans'[n].rows
    BY <1>1 DEF Rows
  <2> QED
    BY <2>1, WrittenRow, Stored
<1>3. ASSUME NEW x \in Rows \ EarlierRun(a.scan)
      PROVE  Left(x, a.scan) \in Rows'
  <2>1. PICK n \in DOMAIN scans : x \in scans[n].rows
    BY DEF Rows
  <2>2. Left(x, a.scan) \in scans'[n].rows
    BY <2>1, WrittenRow
  <2> QED
    BY <1>1, <2>2 DEF Rows
<1>4. rows \subseteq Rows'
  <2>1. rows \subseteq scans'[a.scan].rows
    BY <1>1, WrittenRow
  <2> QED
    BY <1>1, <2>1 DEF Rows
<1> QED
  BY <1>2, <1>3, <1>4

(* A row a later run of the AI would replace.                              *)
Replaced(x, n) ==
    /\ x.src = "AI"
    /\ scans[n].mode = "FULL" \/ x.status \in {"NEW", "REOPENED"}

(* What stays is what stayed; of the run's own scan the next one replaces  *)
(* just its rows.                                                          *)
LEMMA WrittenStays ==
  ASSUME LifecycleInv, NEW a, NEW rows, NEW g, Written(a, rows, g),
         NEW n \in DOMAIN scans
  PROVE  /\ \A x \in Staying(n) : Left(x, a.scan) \in Staying(n)'
         /\ \A y \in Staying(n)' : \E x \in Staying(n) : y = Left(x, a.scan)
         /\ \A y \in EarlierRun(n)' :
              \/ n = a.scan /\ y \in rows
              \/ n # a.scan /\ \E x \in EarlierRun(n) : y = Left(x, a.scan)
<1> DEFINE s == a.scan
<1>1. /\ s \in DOMAIN scans /\ TypeInv /\ RowInv /\ a \in answers
      /\ Storing(a, rows, g)
      /\ \A y \in rows : y.src = "AI" /\ StoreForm(y, a)
  BY WriterIs
<1>2. scans'[n].mode = scans[n].mode
  BY WrittenScans
<1>3. \A x : x \in EarlierRun(n) <=> x \in scans[n].rows /\ Replaced(x, n)
  BY DEF EarlierRun, OfSource, Replaced
<1>4. \A x : x \in EarlierRun(n)' <=> x \in scans'[n].rows /\ Replaced(x, n)
  BY <1>2 DEF EarlierRun, OfSource, Replaced
<1>5. \A x \in scans[n].rows : Replaced(Left(x, s), n) <=> Replaced(x, n)
  <2>1. \A x \in scans[n].rows : x \in Row
    BY <1>1, ScanType
  <2>2. \A x \in scans[n].rows : /\ Left(x, s).src = x.src
                                 /\ Left(x, s).status = x.status
    BY <2>1, LeftIs
  <2> QED
    BY <2>2 DEF Replaced
<1>6. ASSUME n = s, NEW y \in rows
      PROVE  Replaced(y, n)
  <2>1. scans[s].mode \in {"FULL", "INCREMENTAL"}
    BY <1>1, ScanType
  <2>2. CASE scans[s].mode = "INCREMENTAL"
    <3>1. \A z \in a.rows : z.status \in {"NEW", "REOPENED"}
      BY <1>1, <2>2, WaitingIs DEF Planning
    <3>2. \A e \in SamePrev(a) : e.status \in {"NEW", "REOPENED"}
      <4>1. \A e \in SamePrev(a) : e \in EarlierRun(s)
        BY <1>1, SamePrevIs
      <4> QED
        BY <2>2, <4>1 DEF EarlierRun
    <3>3. y.status \in {"NEW", "REOPENED"}
      BY <1>1, <3>1, <3>2 DEF StoreForm, Like
    <3> QED
      BY <1>1, <3>3 DEF Replaced
  <2> QED
    BY <1>1, <1>6, <2>1, <2>2 DEF Replaced
<1>7. /\ \A y \in scans'[n].rows :
           \/ \E x \in scans[n].rows \ EarlierRun(s) : y = Left(x, s)
           \/ n = s /\ y \in rows
      /\ \A x \in scans[n].rows :
           x \notin EarlierRun(s) => Left(x, s) \in scans'[n].rows
      /\ n # s => \A x \in scans[n].rows : x \notin EarlierRun(s)
  BY WrittenRow
<1>8. ASSUME NEW x \in Staying(n)
      PROVE  Left(x, s) \in Staying(n)'
  <2>1. x \in scans[n].rows /\ ~Replaced(x, n)
    BY <1>3 DEF Staying
  <2>2. x \notin EarlierRun(s)
    BY <1>3, <1>7, <2>1
  <2>3. Left(x, s) \in scans'[n].rows /\ ~Replaced(Left(x, s), n)
    BY <1>5, <1>7, <2>1, <2>2
  <2> QED
    BY <1>4, <2>3 DEF Staying
<1>9. ASSUME NEW y \in Staying(n)'
      PROVE  \E x \in Staying(n) : y = Left(x, s)
  <2>1. y \in scans'[n].rows /\ ~Replaced(y, n)
    BY <1>4 DEF Staying
  <2>2. PICK x \in scans[n].rows \ EarlierRun(s) : y = Left(x, s)
    BY <1>6, <1>7, <2>1
  <2>3. x \notin EarlierRun(n)
    BY <1>3, <1>5, <2>1, <2>2
  <2> QED
    BY <2>2, <2>3 DEF Staying
<1>10. ASSUME NEW y \in EarlierRun(n)'
       PROVE  \/ n = s /\ y \in rows
              \/ n # s /\ \E x \in EarlierRun(n) : y = Left(x, s)
  <2>1. y \in scans'[n].rows /\ Replaced(y, n)
    BY <1>4
  <2>2. CASE \E x \in scans[n].rows \ EarlierRun(s) : y = Left(x, s)
    <3>1. PICK x \in scans[n].rows \ EarlierRun(s) : y = Left(x, s)
      BY <2>2
    <3>2. x \in EarlierRun(n)
      BY <1>3, <1>5, <2>1, <3>1
    <3> QED
      BY <3>1, <3>2
  <2> QED
    BY <1>7, <2>1, <2>2
<1> QED
  BY <1>8, <1>9, <1>10

(* The rows of a scan are told apart after the write.                      *)
LEMMA WrittenRowsOf ==
  ASSUME LifecycleInv, NEW a, NEW rows, NEW g, Written(a, rows, g),
         NEW n \in DOMAIN scans
  PROVE  RowsOf(n)'
<1> DEFINE s == a.scan
           old == scans[n].rows \ EarlierRun(s)
           kept == {Left(x, s) : x \in old}
           mine == IF n = s THEN rows ELSE {}
<1>1. /\ scans'[n].rows = kept \cup mine /\ scans'[n].head = scans[n].head
      /\ runs' = runs
  <2>1. runs' = runs
    BY DEF Written
  <2>2. /\ scans'[n].rows = kept \cup mine
        /\ scans'[n].head = scans[n].head
    BY WrittenScans
  <2> QED
    BY <2>1, <2>2
<1>2. /\ RowsOf(n) /\ scans[n].rows \subseteq Row /\ s \in DOMAIN scans
      /\ a.run \in 1..runs /\ a.run \in 0..runs
      /\ Storing(a, rows, g)
      /\ \A y \in rows : y.id[1] = s /\ y.id[2] = a.run
      /\ \A x \in scans[n].rows : x.id[2] # a.run
  <2>1. \A x \in scans[n].rows : x \in Rows
    BY Stored
  <2>2. \A k \in 1..runs : k \in 0..runs
    BY ScanIs
  <2>3. RowsOf(n) /\ scans[n].rows \subseteq Row
    BY ScanIs
  <2>4. /\ s \in DOMAIN scans /\ a.run \in 1..runs /\ Storing(a, rows, g)
        /\ \A y \in rows : y.id[1] = s /\ y.id[2] = a.run
        /\ \A x \in Rows : x.id[2] # a.run
    BY WriterIs
  <2> QED
    BY <2>1, <2>2, <2>3, <2>4
<1>3. /\ AiGood(rows, s, a.run, scans[s].head)
      /\ OneKey(rows) /\ Distinct(rows) /\ Apart(rows, Staying(s))
  BY <1>2, StoreGood
<1>4. IsFiniteSet(old) /\ OneKey(old) /\ Distinct(old) /\ old \subseteq Row
  <2>1. old \subseteq scans[n].rows
    OBVIOUS
  <2> HIDE DEF old
  <2> QED
    BY <1>2, <2>1, FS_Subset DEF RowsOf, OneKey, Distinct
<1>5. IsFiniteSet(kept) /\ OneKey(kept) /\ Distinct(kept)
  <2> HIDE DEF old
  <2> QED
    BY <1>4, LeftKeys
<1>6. IsFiniteSet(mine) /\ OneKey(mine) /\ Distinct(mine)
  BY <1>3, FS_EmptySet DEF AiGood, OneKey, Distinct
<1>7. \A y \in kept : \E x \in old :
         /\ y = Left(x, s) /\ y.id = x.id /\ y.fp = x.fp /\ y.sup = x.sup
         /\ y.status = x.status /\ y.src = x.src /\ y.title = x.title
         /\ y.first = x.first /\ y.last = x.last /\ y.lines = x.lines
  BY <1>4, LeftIs
<1>8. \A y \in mine : n = s /\ y \in rows
  OBVIOUS
<1>9. n = s => old = Staying(s)
  BY DEF Staying
<1> HIDE DEF kept, mine
<1>10. \A x \in kept, y \in mine : /\ x.id # y.id
                                   /\ x.status # "RESOLVED"
                                      /\ y.status # "RESOLVED"
                                      => x.fp # y.fp \/ x.sup # y.sup
  BY <1>2, <1>3, <1>7, <1>8, <1>9 DEF Apart
<1>11. IsFiniteSet(kept \cup mine)
  BY <1>5, <1>6, FS_Union
<1>12. OneKey(kept \cup mine)
  BY <1>5, <1>6, <1>10 DEF OneKey
<1>13. Distinct(kept \cup mine)
  BY <1>5, <1>6, <1>10 DEF Distinct
<1>14. ASSUME NEW y \in kept \cup mine
       PROVE  /\ y.id[1] = n /\ y.id[2] \in 0..runs /\ Labelled(y)
              /\ Sourced(y)
              /\ y.status # "RESOLVED" => Placed(y, scans[n].head)
  <2>1. CASE y \in kept
    <3>1. PICK x \in old :
             /\ y.id = x.id /\ y.fp = x.fp /\ y.sup = x.sup
             /\ y.status = x.status /\ y.src = x.src /\ y.title = x.title
             /\ y.first = x.first /\ y.last = x.last /\ y.lines = x.lines
      BY <1>7, <2>1
    <3>2. /\ x.id[1] = n /\ x.id[2] \in 0..runs /\ Labelled(x)
          /\ Sourced(x)
          /\ x.status # "RESOLVED" => Placed(x, scans[n].head)
      BY <1>2 DEF RowsOf
    <3> QED
      BY <3>1, <3>2 DEF Labelled, Sourced, Placed
  <2>2. CASE y \in mine
    BY <1>2, <1>3, <1>8, <2>2 DEF AiGood, Stamped
  <2> QED
    BY <2>1, <2>2
<1> QED
  BY <1>1, <1>11, <1>12, <1>13, <1>14 DEF RowsOf

(* A stored row and the run's own, once written.                           *)
LEMMA WrittenFrom ==
  ASSUME LifecycleInv, NEW a, NEW rows, NEW g, Written(a, rows, g)
  PROVE  /\ \A x, y \in Rows : x.id = y.id => x = y
         /\ \A x \in Rows : x \in Row /\ x.id # None /\ x.id[2] # a.run
         /\ \A x \in Rows :
              x.id \in GoneIds(a.scan) => x \in EarlierRun(a.scan)
         /\ \A x \in EarlierRun(a.scan) :
              /\ x \in Rows /\ x.id[1] = a.scan /\ x.src = "AI"
              /\ x.id \in GoneIds(a.scan)
<1>1. /\ TypeInv /\ RowInv /\ a.scan \in DOMAIN scans
      /\ \A x \in Rows : x.id[2] # a.run
  BY WriterIs
<1>2. \A x, y \in Rows : x.id = y.id => x = y
  BY <1>1, TellsApart DEF Distinct
<1>3. \A x \in EarlierRun(a.scan) : x \in scans[a.scan].rows /\ x.src = "AI"
  BY DEF EarlierRun, OfSource
<1>4. \A x \in EarlierRun(a.scan) :
         /\ x \in Rows /\ x.id[1] = a.scan /\ x.src = "AI"
         /\ x.id \in GoneIds(a.scan)
  BY <1>1, <1>3, Stored DEF RowInv, RowsOf, GoneIds
<1>5. ASSUME NEW x \in Rows, x.id \in GoneIds(a.scan)
      PROVE  x \in EarlierRun(a.scan)
  <2>1. PICK v \in EarlierRun(a.scan) : v.id = x.id
    BY <1>5 DEF GoneIds
  <2> QED
    BY <1>2, <1>4, <2>1
<1>6. ASSUME NEW x \in Rows
      PROVE  x \in Row /\ x.id # None
  <2>1. x \in Row
    BY <1>1, RowsAre
  <2> QED
    BY <2>1, NoneAssumption DEF Row
<1> QED
  BY <1>1, <1>2, <1>4, <1>5, <1>6

(* A row that stays keeps its history, or forgets it to a late run.        *)
LEMMA LeftWhole ==
  ASSUME LifecycleInv, NEW a, NEW rows, NEW g, Written(a, rows, g),
         NEW n \in DOMAIN scans,
         NEW x \in scans[n].rows \ EarlierRun(a.scan),
         NEW v, v = Left(x, a.scan)
  PROVE  Whole(v, n)'
<1> DEFINE s == a.scan
<1>1. /\ s \in DOMAIN scans /\ s \in Nat /\ n \in Nat /\ HistInv /\ TypeInv
      /\ late \subseteq late'
      /\ s # Len(scans) => <<a.run, s>> \in late'
      /\ scans[n].rows \subseteq Row /\ x \in Rows
      /\ DOMAIN scans = 1..Len(scans) /\ Len(scans) \in Nat
  BY WriterIs, ScanIs, Stored, ScanType DEF TypeInv
<1>2. /\ \A y, z \in Rows : y.id = z.id => y = z
      /\ \A y \in Rows : y \in Row /\ y.id # None
      /\ \A y \in Rows : y.id \in GoneIds(s) => y \in EarlierRun(s)
      /\ \A y \in EarlierRun(s) :
           y \in Rows /\ y.id[1] = s /\ y.src = "AI" /\ y.id \in GoneIds(s)
  BY WrittenFrom
<1>3. Whole(x, n)
  BY <1>1 DEF HistInv
<1>4. Overtaken(n) => Overtaken(n)'
  BY <1>1 DEF Overtaken
<1>6. /\ v.src = x.src /\ v.since = x.since
      /\ v.origin = IF x.origin \in GoneIds(s) THEN None ELSE x.origin
  BY <1>1, LeftIs
<1>7. CASE x.origin \in GoneIds(s)
  <2>1. PICK e \in EarlierRun(s) : e.id = x.origin
    BY <1>7 DEF GoneIds
  <2>2. x.origin # None
    BY <1>2, <2>1
  <2>3. PICK y \in Rows : Follows(x, y)
    BY <1>3, <2>2 DEF Whole
  <2>4. y = e
    BY <1>2, <2>1, <2>3 DEF Follows
  <2>5. x.src = "AI"
    BY <1>2, <2>3, <2>4 DEF Follows
  <2>6. x.origin[1] = s
    BY <1>2, <2>1
  <2>7. n # s
    <3>1. n = s => x \in Staying(s)
      BY DEF Staying
    <3> QED
      BY <1>1, <2>1, <3>1 DEF HistInv
  <2>8. Overtaken(n)'
    <3>1. CASE n < s
      BY <1>3, <1>4, <2>2, <2>6, <3>1 DEF Whole
    <3>2. CASE n > s
      <4>1. <<a.run, s>> \in late'
        BY <1>1, <3>2
      <4>2. <<a.run, s>>[2] <= n
        BY <1>1, <3>2
      <4> QED
        BY <4>1, <4>2 DEF Overtaken
    <3> QED
      BY <1>1, <2>7, <3>1, <3>2
  <2>9. v.origin = None /\ v.src = "AI"
    BY <1>6, <1>7, <2>5
  <2> QED
    BY <2>8, <2>9 DEF Whole
<1>8. CASE x.origin \notin GoneIds(s)
  <2>1. v.origin = x.origin
    BY <1>6, <1>8
  <2>2. ASSUME x.origin # None
        PROVE  \E y \in Rows' : Follows(v, y)
    <3>1. PICK y \in Rows : Follows(x, y)
      BY <1>3, <2>2 DEF Whole
    <3>2. y \notin EarlierRun(s)
      BY <1>2, <1>8, <3>1 DEF Follows
    <3>3. Left(y, s) \in Rows'
      BY <3>2, WrittenRows
    <3>4. /\ Left(y, s).id = y.id /\ Left(y, s).since = y.since
          /\ Left(y, s).src = y.src
      BY <1>2, LeftIs
    <3> QED
      BY <1>6, <2>1, <3>1, <3>3, <3>4 DEF Follows
  <2> QED
    BY <1>3, <1>4, <1>6, <2>1, <2>2 DEF Whole
<1> QED
  BY <1>7, <1>8

(* What a written row points at is stored, and it follows it.              *)
LEMMA RowFollows ==
  ASSUME LifecycleInv, NEW a, NEW rows, NEW g, Written(a, rows, g),
         NEW y \in rows, y.origin # None
  PROVE  \E v \in Rows' : v.id = y.origin
<1>1. ~Orphan(y, Rewritten(a.scan, rows)) /\ scans' = Rewritten(a.scan, rows)
  BY DEF Written
<1>2. \E n \in DOMAIN scans' : \E v \in scans'[n].rows : v.id = y.origin
  BY <1>1 DEF Orphan
<1> QED
  BY <1>2 DEF Rows

(* A row the run writes has a whole history.                               *)
LEMMA RowWhole ==
  ASSUME LifecycleInv, NEW a, NEW rows, NEW g, Written(a, rows, g),
         NEW y \in rows
  PROVE  Whole(y, a.scan)'
<1> DEFINE s == a.scan
<1>1. /\ s \in DOMAIN scans /\ s \in Nat /\ HistInv /\ a \in answers
      /\ \A v \in rows : /\ v.id[2] = a.run /\ v.src = "AI" /\ Labelled(v)
                         /\ StoreForm(v, a)
      /\ late \subseteq late'
      /\ s # Len(scans) => <<a.run, s>> \in late'
      /\ DOMAIN scans = 1..Len(scans) /\ Len(scans) \in Nat
  BY WriterIs, ScanType DEF TypeInv
<1>2. /\ \A v, z \in Rows : v.id = z.id => v = z
      /\ \A v \in Rows : v \in Row /\ v.id # None /\ v.id[2] # a.run
  BY WrittenFrom
<1>3. Overtaken(s) => Overtaken(s)'
  BY <1>1 DEF Overtaken
<1>4. ASSUME NEW v \in Rows'
      PROVE  \/ v \in rows
             \/ \E x \in Rows : /\ v.id = x.id /\ v.since = x.since
                                /\ v.src = x.src
  <2>1. CASE \E x \in Rows \ EarlierRun(s) : v = Left(x, s)
    <3>1. PICK x \in Rows \ EarlierRun(s) : v = Left(x, s)
      BY <2>1
    <3> QED
      BY <1>2, <3>1, LeftIs
  <2> QED
    BY <2>1, WrittenRows
<1>5. ASSUME NEW z \in a.rows, Like(y, z)
      PROVE  Whole(y, s)'
  <2>1. y.origin = z.origin /\ y.since = z.since /\ y.src = z.src
    BY <1>5 DEF Like
  <2>2. Tied(a)
    BY <1>1, WaitingIs
  <2>3. CASE z.origin = None
    BY <2>1, <2>2, <2>3 DEF Tied, Whole
  <2>4. CASE z.origin # None
    <3>1. Linked(z, a)
      BY <2>2, <2>4 DEF Tied
    <3>2. PICK v \in Rows' : v.id = y.origin
      BY <2>1, <2>4, RowFollows
    <3>3. Follows(y, v)
      <4>1. CASE v \in rows
        <5>1. z.origin[2] = a.run
          BY <1>1, <2>1, <3>2, <4>1
        <5>2. v.id[3] = "RESOLVED"
          BY <2>1, <3>1, <3>2, <5>1 DEF Linked
        <5>3. v.status = "RESOLVED" /\ StoreForm(v, a)
          BY <1>1, <4>1, <5>2 DEF Labelled
        <5>4. v \in a.rows
          BY <5>3 DEF StoreForm, Like
        <5>5. Follows(z, v)
          BY <2>1, <3>1, <3>2, <5>4 DEF Linked
        <5> QED
          BY <2>1, <5>5 DEF Follows
      <4>2. CASE \E x \in Rows : /\ v.id = x.id /\ v.since = x.since
                                 /\ v.src = x.src
        <5>1. PICK x \in Rows : /\ v.id = x.id /\ v.since = x.since
                                /\ v.src = x.src
          BY <4>2
        <5>2. Follows(z, x)
          BY <2>1, <3>1, <3>2, <5>1 DEF Linked
        <5> QED
          BY <2>1, <3>2, <5>1, <5>2 DEF Follows
      <4> QED
        BY <1>4, <4>1, <4>2
    <3>4. y.origin[1] > s => Overtaken(s)'
      <4> SUFFICES ASSUME y.origin[1] > s
                   PROVE  Overtaken(s)'
        OBVIOUS
      <4>1. y.origin[1] \in DOMAIN scans
        BY <2>1, <3>1 DEF Linked
      <4>2. <<a.run, s>> \in late'
        BY <1>1, <4>1
      <4>3. <<a.run, s>>[2] <= s
        BY <1>1
      <4> QED
        BY <4>2, <4>3 DEF Overtaken
    <3> QED
      BY <2>1, <2>4, <3>3, <3>4 DEF Whole
  <2> QED
    BY <2>3, <2>4
<1>6. ASSUME NEW e \in SamePrev(a), y.origin = e.origin, y.since = e.since
      PROVE  Whole(y, s)'
  <2>1. e \in scans[s].rows /\ e.src = "AI" /\ y.src = "AI"
    BY <1>1, SamePrevIs
  <2>2. Whole(e, s)
    BY <1>1, <2>1 DEF HistInv
  <2>3. ASSUME y.origin # None
        PROVE  \E v \in Rows' : Follows(y, v)
    <3>1. PICK x \in Rows : Follows(e, x)
      BY <1>6, <2>2, <2>3 DEF Whole
    <3>2. PICK v \in Rows' : v.id = y.origin
      BY <2>3, RowFollows
    <3>3. v.id = x.id
      BY <1>6, <3>1, <3>2 DEF Follows
    <3>4. v \notin rows
      BY <1>1, <1>2, <3>3
    <3>5. PICK u \in Rows : /\ v.id = u.id /\ v.since = u.since
                            /\ v.src = u.src
      BY <1>4, <3>4
    <3>6. u = x
      BY <1>2, <3>3, <3>5
    <3> QED
      BY <1>6, <2>1, <3>1, <3>2, <3>5, <3>6 DEF Follows
  <2> QED
    BY <1>3, <1>6, <2>1, <2>2, <2>3 DEF Whole
<1>7. CASE \E z \in a.rows : Like(y, z)
  BY <1>5, <1>7
<1>8. CASE \E e \in SamePrev(a) : y.origin = e.origin /\ y.since = e.since
  BY <1>6, <1>8
<1>9. StoreForm(y, a)
  BY <1>1
<1> QED
  BY <1>7, <1>8, <1>9 DEF StoreForm

(* No row that stays points at a replaced one of its scan.                 *)
LEMMA WrittenHist ==
  ASSUME LifecycleInv, NEW a, NEW rows, NEW g, Written(a, rows, g)
  PROVE  HistInv'
<1> DEFINE s == a.scan
<1>1. /\ DOMAIN scans' = DOMAIN scans /\ HistInv
      /\ \A y \in rows : y.id[2] = a.run /\ y.id \in RowIds
  <2>1. DOMAIN scans' = DOMAIN scans
    BY WrittenScans
  <2>2. \A y \in rows : y.id[2] = a.run /\ y.id \in RowIds
    BY WriterIs
  <2> QED
    BY <2>1, <2>2 DEF LifecycleInv
<1>2. /\ \A v, z \in Rows : v.id = z.id => v = z
      /\ \A v \in Rows : v \in Row /\ v.id # None /\ v.id[2] # a.run
  BY WrittenFrom
<1>3. ASSUME NEW n \in DOMAIN scans, NEW y \in scans'[n].rows
      PROVE  Whole(y, n)'
  <2>1. CASE \E x \in scans[n].rows \ EarlierRun(s) : y = Left(x, s)
    <3>1. PICK x \in scans[n].rows \ EarlierRun(s) : y = Left(x, s)
      BY <2>1
    <3> QED
      BY <3>1, LeftWhole
  <2>2. CASE n = s /\ y \in rows
    BY <2>2, RowWhole
  <2> QED
    BY <2>1, <2>2, WrittenRow
<1>4. ASSUME NEW n \in DOMAIN scans, NEW x \in Staying(n)',
             NEW y \in EarlierRun(n)', x.origin = y.id
      PROVE  FALSE
  <2>1. PICK z \in Staying(n) : x = Left(z, s)
    BY WrittenStays
  <2>2. z \in scans[n].rows /\ z \in Rows
    BY Stored DEF Staying
  <2>3. y.id # None
    <3>1. CASE y \in rows
      BY <1>1, <3>1, NoneAssumption
    <3>2. CASE \E e \in EarlierRun(n) : y = Left(e, s)
      <4>1. PICK e \in EarlierRun(n) : y = Left(e, s)
        BY <3>2
      <4>2. e \in Rows
        BY <4>1, Stored DEF EarlierRun, OfSource
      <4> QED
        BY <1>2, <4>1, <4>2, LeftIs
    <3> QED
      BY <3>1, <3>2, WrittenStays
  <2>4. z.origin = y.id
    <3>1. x.origin = IF z.origin \in GoneIds(s) THEN None ELSE z.origin
      BY <1>2, <2>1, <2>2, LeftIs
    <3> QED
      BY <1>4, <2>3, <3>1
  <2>5. Whole(z, n)
    BY <1>1, <2>2 DEF HistInv
  <2>6. PICK v \in Rows : Follows(z, v)
    BY <2>3, <2>4, <2>5 DEF Whole
  <2>7. v.id = y.id
    BY <2>4, <2>6 DEF Follows
  <2>8. CASE y \in rows
    BY <1>1, <1>2, <2>7, <2>8
  <2>9. CASE \E e \in EarlierRun(n) : y = Left(e, s)
    <3>1. PICK e \in EarlierRun(n) : y = Left(e, s)
      BY <2>9
    <3>2. e \in Rows
      BY <3>1, Stored DEF EarlierRun, OfSource
    <3>3. y.id = e.id
      BY <1>2, <3>1, <3>2, LeftIs
    <3> QED
      BY <1>1, <2>4, <3>1, <3>3 DEF HistInv
  <2> QED
    BY <2>8, <2>9, WrittenStays
<1> QED
  BY <1>1, <1>3, <1>4 DEF HistInv

(* The live findings of a scan are followed as before, and a run that is   *)
(* stored late is not followed.                                            *)
LEMMA WrittenCont ==
  ASSUME LifecycleInv, NEW a, NEW rows, NEW g, Written(a, rows, g)
  PROVE  ContInv'
<1> DEFINE s == a.scan
<1>1. /\ s \in DOMAIN scans /\ s \in Nat /\ a \in answers /\ TypeInv
      /\ \A y \in rows : y.id[2] = a.run /\ y.src = "AI"
      /\ late \subseteq late'
      /\ s # Len(scans) => <<a.run, s>> \in late'
      /\ Storing(a, rows, g)
  BY WriterIs
<1>2. ContInv /\ DOMAIN scans' = DOMAIN scans
  BY WrittenScans DEF LifecycleInv
<1>3. /\ \A v, z \in Rows : v.id = z.id => v = z
      /\ \A v \in Rows : v \in Row /\ v.id # None
      /\ \A v \in Rows : v.id \in GoneIds(s) => v \in EarlierRun(s)
  BY WrittenFrom
<1>4. /\ DOMAIN scans = 1..Len(scans) /\ Len(scans) \in Nat
      /\ \A n \in DOMAIN scans : scans[n].mode \in {"FULL", "INCREMENTAL"}
  BY <1>1, ScanType
<1> SUFFICES ASSUME NEW n \in DOMAIN scans \ {1}, NEW y \in scans'[n - 1].rows,
                    Followed(y, n)'
             PROVE  /\ scans'[n].mode = "INCREMENTAL" \/ y.src = "STATIC" =>
                         \E z \in Staying(n)' : z.origin = y.id
                    /\ y.src = "AI" /\ ~y.sup /\ scans'[n].ai =>
                         \E z \in scans'[n].rows : z.origin = y.id
  BY <1>2 DEF ContInv
<1>5. n - 1 \in DOMAIN scans /\ n \in DOMAIN scans /\ n \in Nat
  BY <1>4
<1>6. /\ scans'[n].mode = scans[n].mode /\ scans'[n].off = scans[n].off
      /\ scans'[n].ai = (scans[n].ai \/ n = s)
  BY <1>5, WrittenScans
<1>7. /\ y.status # "RESOLVED" /\ Enabled(y, scans[n].off)
      /\ y.src = "AI" => <<y.id[2], n - 1>> \notin late'
  BY <1>6 DEF Followed
<1>8. PICK x \in scans[n - 1].rows \ EarlierRun(s) : y = Left(x, s)
  <2>1. CASE n - 1 = s /\ y \in rows
    <3>1. <<a.run, s>> \in late'
      BY <1>1, <1>4, <1>5, <2>1
    <3> QED
      BY <1>1, <1>7, <2>1, <3>1
  <2> QED
    BY <1>5, <2>1, WrittenRow
<1>9. x \in Rows /\ x \in Row
  BY <1>3, <1>5, Stored
<1>10. /\ y.id = x.id /\ y.src = x.src /\ y.sup = x.sup
       /\ y.status = x.status /\ y.title = x.title
  BY <1>8, <1>9, LeftIs
<1>11. Followed(x, n)
  BY <1>1, <1>7, <1>10 DEF Followed, Enabled
<1>12. x.id \notin GoneIds(s)
  BY <1>3, <1>8, <1>9
<1>13. /\ scans[n].mode = "INCREMENTAL" \/ x.src = "STATIC" =>
            \E z \in Staying(n) : z.origin = x.id
       /\ x.src = "AI" /\ ~x.sup /\ scans[n].ai =>
            \E z \in scans[n].rows : z.origin = x.id
  BY <1>2, <1>8, <1>11 DEF ContInv
<1>14. ASSUME NEW z \in scans[n].rows, z.origin = x.id
       PROVE  Left(z, s).origin = y.id
  <2>1. z \in Row
    BY <1>3, <1>5, Stored
  <2> QED
    BY <1>10, <1>12, <1>14, <2>1, LeftIs
<1>15. ASSUME scans[n].mode = "INCREMENTAL" \/ x.src = "STATIC"
       PROVE  \E z \in Staying(n)' : z.origin = y.id
  <2>1. PICK z \in Staying(n) : z.origin = x.id
    BY <1>13, <1>15
  <2>2. Left(z, s) \in Staying(n)'
    BY <1>5, WrittenStays
  <2>3. z \in scans[n].rows
    BY DEF Staying
  <2> QED
    BY <1>14, <2>1, <2>2, <2>3
<1>16. ASSUME x.src = "AI", ~x.sup, n # s, scans[n].ai
       PROVE  \E z \in scans'[n].rows : z.origin = y.id
  <2>1. PICK z \in scans[n].rows : z.origin = x.id
    BY <1>13, <1>16
  <2>2. Left(z, s) \in scans'[n].rows
    BY <1>5, <1>16, WrittenRow
  <2> QED
    BY <1>14, <2>1, <2>2
<1>17. ASSUME x.src = "AI", ~x.sup, n = s
       PROVE  \E z \in scans'[n].rows : z.origin = y.id
  <2>1. CASE scans[n].mode = "INCREMENTAL"
    BY <1>15, <2>1 DEF Staying
  <2>2. CASE scans[n].mode = "FULL"
    <3>1. x \in AiMatch(s)
      BY <1>7, <1>8, <1>10, <1>11, <1>17, <2>2
         DEF AiMatch, LoadBase, OfSource, Live, Followed
    <3>2. <<x.id[2], s - 1>> \notin late
      BY <1>11, <1>17 DEF Followed
    <3>3. PICK v \in a.rows : v.origin = x.id
      BY <1>1, <1>17, <3>1, <3>2, WaitingIs DEF Covers
    <3>4. PICK z \in rows : z.origin = v.origin
      BY <1>1, StoreCovers
    <3>5. z \in scans'[n].rows
      BY <1>5, <1>17, WrittenRow
    <3> QED
      BY <1>10, <3>3, <3>4, <3>5
  <2> QED
    BY <1>4, <1>5, <2>1, <2>2
<1> QED
  BY <1>6, <1>10, <1>15, <1>16, <1>17

-----------------------------------------------------------------------------
(* The runs that wait when another is stored.                              *)

(* Such a run is as before, and has missed the scan that was rewritten.    *)
Missing(c, b, s) ==
    /\ b \in answers
    /\ c.scan = b.scan /\ c.run = b.run /\ c.rows = b.rows /\ c.own = b.own
    /\ c.based = b.based /\ c.missed = b.missed \cup {s}

(* What waits then waited before.                                          *)
LEMMA StillWaits ==
  ASSUME LifecycleInv, NEW a, NEW rows, NEW g, Written(a, rows, g),
         NEW c \in answers'
  PROVE  c \in Answer /\ \E b : Missing(c, b, a.scan) /\ b.run # a.run
<1>1. PICK b \in answers \ {a} : c = [b EXCEPT !.missed = @ \cup {a.scan}]
  BY DEF Written
<1>2. b \in Answer /\ a.scan \in Nat /\ a \in answers
  BY WriterIs DEF TypeInv
<1>3. b.run # a.run
  BY <1>1, <1>2, WaitingIs
<1> QED
  BY <1>1, <1>2, <1>3 DEF Answer, Missing

(* Its rows still fit those that stay.                                     *)
LEMMA StillPlanning ==
  ASSUME LifecycleInv, NEW a, NEW rows, NEW g, Written(a, rows, g),
         NEW c, NEW b, Missing(c, b, a.scan)
  PROVE  Planning(c)'
<1>1. Planning(b) /\ b.scan \in DOMAIN scans
  BY WaitingIs DEF Missing
<1>2. /\ scans'[b.scan].head = scans[b.scan].head
      /\ scans'[b.scan].mode = scans[b.scan].mode
  BY <1>1, WrittenScans
<1>3. \A y \in Staying(b.scan)' : \E x \in Staying(b.scan) :
         y.status = x.status /\ y.fp = x.fp /\ y.sup = x.sup
  <2> SUFFICES ASSUME NEW y \in Staying(b.scan)'
               PROVE  \E x \in Staying(b.scan) :
                        y.status = x.status /\ y.fp = x.fp /\ y.sup = x.sup
    OBVIOUS
  <2>1. PICK x \in Staying(b.scan) : y = Left(x, a.scan)
    BY <1>1, WrittenStays
  <2>2. x \in Row
    BY <1>1, ScanIs DEF Staying
  <2> QED
    BY <2>1, <2>2, LeftIs
<1>4. Apart(c.rows, Staying(b.scan)')
  BY <1>1, <1>3 DEF Planning, Apart, Missing
<1> QED
  BY <1>1, <1>2, <1>4 DEF Planning, Missing

(* What it points at is there to be stored with it, or was rewritten.      *)
LEMMA StillReaches ==
  ASSUME LifecycleInv, NEW a, NEW rows, NEW g, Written(a, rows, g),
         NEW c, NEW b, Missing(c, b, a.scan), NEW y, Reaches(y, b)
  PROVE  Reaches(y, c)'
<1> DEFINE s == a.scan
<1>1. /\ c.rows = b.rows /\ c.scan = b.scan /\ c.missed = b.missed \cup {s}
      /\ b.scan \in DOMAIN scans
  BY WaitingIs DEF Missing
<1>2. /\ \A v \in Rows : v \in Row
      /\ \A v \in EarlierRun(s) : v.id[1] = s
  BY WrittenFrom
<1>3. CASE \E z \in b.rows : z.id = y.origin /\ z.status = "RESOLVED"
  BY <1>1, <1>3 DEF Reaches
<1>4. CASE y.origin[1] = b.scan /\ \E z \in Staying(b.scan) : z.id = y.origin
  <2>1. PICK z \in Staying(b.scan) : z.id = y.origin
    BY <1>4
  <2>2. z \in Row
    BY <1>1, ScanIs DEF Staying
  <2>3. Left(z, s) \in Staying(b.scan)' /\ Left(z, s).id = z.id
    BY <1>1, <2>2, WrittenStays, LeftIs
  <2> QED
    BY <1>1, <1>4, <2>1, <2>3 DEF Reaches
<1>5. CASE y.origin[1] # b.scan /\ y.origin[1] \in b.missed
  BY <1>1, <1>5 DEF Reaches
<1>6. CASE y.origin[1] # b.scan /\ \E z \in Rows : z.id = y.origin
  <2>1. PICK z \in Rows : z.id = y.origin
    BY <1>6
  <2>2. CASE z \in EarlierRun(s)
    <3>1. y.origin[1] \in c.missed
      BY <1>1, <1>2, <2>1, <2>2
    <3> QED
      BY <1>1, <1>6, <3>1 DEF Reaches
  <2>3. CASE z \notin EarlierRun(s)
    <3>1. Left(z, s) \in Rows' /\ Left(z, s).id = z.id
      BY <1>2, <2>3, WrittenRows, LeftIs
    <3> QED
      BY <1>1, <1>6, <2>1, <3>1 DEF Reaches
  <2> QED
    BY <2>2, <2>3
<1> QED
  BY <1>3, <1>4, <1>5, <1>6 DEF Reaches

(* Its rows follow what they point at.                                     *)
LEMMA StillTied ==
  ASSUME LifecycleInv, NEW a, NEW rows, NEW g, Written(a, rows, g),
         NEW c, NEW b, Missing(c, b, a.scan), b.run # a.run
  PROVE  Fresh(c)' /\ Tied(c)'
<1> DEFINE s == a.scan
<1>1. /\ c.rows = b.rows /\ c.scan = b.scan /\ c.run = b.run
      /\ b \in answers /\ a \in answers /\ Fresh(b) /\ Tied(b)
      /\ \A z \in rows : z.id[2] = a.run
  <2>1. a \in answers /\ \A z \in rows : z.id[2] = a.run
    BY WriterIs
  <2>2. /\ c.rows = b.rows /\ c.scan = b.scan /\ c.run = b.run
        /\ b \in answers
    BY DEF Missing
  <2> QED
    BY <2>1, <2>2, WaitingIs
<1>2. \A v \in Rows : v \in Row
  BY WrittenFrom
<1>3. DOMAIN scans' = DOMAIN scans /\ runs' = runs
  <2>1. DOMAIN scans' = DOMAIN scans
    BY WrittenScans
  <2> QED
    BY <2>1 DEF Written
<1>4. ASSUME NEW v \in Rows'
      PROVE  \/ v.id[2] = a.run
             \/ \E x \in Rows : /\ v.id = x.id /\ v.since = x.since
                                /\ v.src = x.src
  <2>1. CASE \E x \in Rows \ EarlierRun(s) : v = Left(x, s)
    <3>1. PICK x \in Rows \ EarlierRun(s) : v = Left(x, s)
      BY <2>1
    <3> QED
      BY <1>2, <3>1, LeftIs
  <2> QED
    BY <1>1, <2>1, WrittenRows
<1>5. Fresh(c)'
  BY <1>1, <1>4 DEF Fresh
<1>6. ASSUME NEW y \in b.rows, Linked(y, b)
      PROVE  Linked(y, c)'
  <2>1. \A d \in answers' : y.origin[2] = d.run => d.run = b.run
    <3> SUFFICES ASSUME NEW d \in answers', y.origin[2] = d.run
                 PROVE  d.run = b.run
      OBVIOUS
    <3>1. PICK e : Missing(d, e, s)
      BY StillWaits
    <3> QED
      BY <1>6, <3>1 DEF Linked, Missing
  <2>2. y.origin[2] # a.run
    BY <1>1, <1>6 DEF Linked
  <2>3. ASSUME NEW z \in Rows' \cup b.rows, z.id = y.origin
        PROVE  Follows(y, z)
    <3>1. CASE z \in b.rows
      BY <1>6, <2>3, <3>1 DEF Linked
    <3>2. CASE z \in Rows'
      <4>1. PICK x \in Rows : /\ z.id = x.id /\ z.since = x.since
                              /\ z.src = x.src
        BY <1>4, <2>2, <2>3, <3>2
      <4>2. Follows(y, x)
        BY <1>6, <2>3, <4>1 DEF Linked
      <4> QED
        BY <4>1, <4>2 DEF Follows
    <3> QED
      BY <3>1, <3>2
  <2>4. ~y.sup => Reaches(y, c)'
    BY <1>6, StillReaches DEF Linked
  <2> QED
    BY <1>1, <1>3, <1>6, <2>1, <2>3, <2>4 DEF Linked
<1>7. Tied(c)'
  BY <1>1, <1>6 DEF Tied
<1> QED
  BY <1>5, <1>7

(* It still covers what it loaded of its base.                             *)
LEMMA StillCovers ==
  ASSUME LifecycleInv, NEW a, NEW rows, NEW g, Written(a, rows, g),
         NEW c, NEW b, Missing(c, b, a.scan)
  PROVE  Covers(c)'
<1> DEFINE s == a.scan
           n == b.scan
<1>1. /\ c.rows = b.rows /\ c.scan = b.scan /\ Covers(b)
      /\ n \in DOMAIN scans /\ n \in Nat
  BY WaitingIs, ScanIs DEF Missing
<1>2. /\ \A z \in rows : z.id[2] = a.run
      /\ late \subseteq late'
      /\ s # Len(scans) => <<a.run, s>> \in late'
      /\ s \in DOMAIN scans /\ TypeInv
  BY WriterIs
<1>3. /\ DOMAIN scans = 1..Len(scans) /\ Len(scans) \in Nat
  BY <1>2, ScanType
<1>4. /\ scans'[n].mode = scans[n].mode /\ scans'[n].off = scans[n].off
  BY <1>1, WrittenScans
<1> SUFFICES ASSUME NEW y \in AiMatch(n)', ~y.sup
             PROVE  \/ <<y.id[2], n - 1>> \in late'
                    \/ \E z \in b.rows : z.origin = y.id
  BY <1>1 DEF Covers
<1>5. /\ scans[n].mode = "FULL" /\ n # 1 /\ y \in scans'[n - 1].rows
      /\ y.src = "AI" /\ y.status # "RESOLVED" /\ Enabled(y, scans[n].off)
  BY <1>4 DEF AiMatch, LoadBase, OfSource, Live
<1>6. n - 1 \in DOMAIN scans
  BY <1>1, <1>3, <1>5
<1>7. CASE n - 1 = s /\ y \in rows
  <2>1. <<a.run, s>> \in late'
    BY <1>1, <1>2, <1>3, <1>7
  <2> QED
    BY <1>2, <1>7, <2>1
<1>8. CASE \E x \in scans[n - 1].rows \ EarlierRun(s) : y = Left(x, s)
  <2>1. PICK x \in scans[n - 1].rows \ EarlierRun(s) : y = Left(x, s)
    BY <1>8
  <2>2. x \in Row
    BY <1>6, ScanIs
  <2>3. /\ y.id = x.id /\ y.src = x.src /\ y.sup = x.sup
        /\ y.status = x.status /\ y.title = x.title
    BY <2>1, <2>2, LeftIs
  <2>4. x \in AiMatch(n)
    BY <1>5, <2>1, <2>3 DEF AiMatch, LoadBase, OfSource, Live, Enabled
  <2> QED
    BY <1>1, <1>2, <2>3, <2>4 DEF Covers
<1> QED
  BY <1>5, <1>6, <1>7, <1>8, WrittenRow

(* A run that is stored keeps the invariant.                               *)
LEMMA WrittenKeeps ==
  ASSUME LifecycleInv, NEW a, NEW rows, NEW g, Written(a, rows, g)
  PROVE  LifecycleInv'
<1> DEFINE s == a.scan
<1>1. /\ TypeInv /\ VersionInv /\ RowInv /\ FitInv /\ QuietInv
      /\ ReportedStorable
  BY DEF LifecycleInv
<1>2. /\ text' = text /\ head' = head /\ edits' = edits /\ runs' = runs
      /\ repeated' = repeated /\ refused' = refused
      /\ late' = IF s = Len(scans) THEN late ELSE late \cup {<<a.run, s>>}
  BY DEF Written
<1>3. /\ scans' \in Seq(Scan) /\ Len(scans') = Len(scans)
      /\ DOMAIN scans' = DOMAIN scans
      /\ \A n \in DOMAIN scans : scans'[n].head = scans[n].head
                                 /\ scans'[n].off = scans[n].off
  BY WrittenScans
<1>4. /\ s \in DOMAIN scans /\ a.run \in 1..runs
      /\ \A y \in rows : y.src = "AI"
  BY WriterIs
<1>5. \A n \in DOMAIN scans : scans[n].rows \subseteq Row
  BY ScanIs
<1>6. TypeInv'
  <2>1. late' \subseteq (1..runs) \X DOMAIN scans
    BY <1>1, <1>2, <1>4 DEF TypeInv
  <2>2. ASSUME NEW c \in answers'
        PROVE  /\ c \in Answer /\ c.scan \in DOMAIN scans
               /\ c.run \in 1..runs /\ c.missed \subseteq DOMAIN scans
    <3>1. PICK b : c \in Answer /\ Missing(c, b, s)
      BY StillWaits
    <3> QED
      BY <1>1, <1>4, <3>1 DEF Missing, TypeInv
  <2> QED
    BY <1>1, <1>2, <1>3, <2>1, <2>2 DEF TypeInv
<1>7. VersionInv'
  <2>1. Versions' = Versions
    BY <1>2, <1>3 DEF Versions
  <2> QED
    BY <1>1, <1>2, <2>1 DEF VersionInv, Told
<1>8. RowInv'
  BY <1>3, WrittenRowsOf DEF RowInv
<1>9. HistInv' /\ ContInv'
  BY WrittenHist, WrittenCont
<1>10. AnsInv'
  <2>1. ASSUME NEW c \in answers'
        PROVE  (Planning(c) /\ Fresh(c) /\ Tied(c) /\ Covers(c))'
    <3>1. PICK b : Missing(c, b, s) /\ b.run # a.run
      BY StillWaits
    <3> QED
      BY <3>1, StillPlanning, StillTied, StillCovers
  <2>2. ASSUME NEW c \in answers', NEW d \in answers', c.run = d.run
        PROVE  c = d
    <3>1. PICK b : Missing(c, b, s) /\ c \in Answer
      BY StillWaits
    <3>2. PICK e : Missing(d, e, s) /\ d \in Answer
      BY StillWaits
    <3>3. b = e
      BY <2>2, <3>1, <3>2, WaitingIs DEF Missing
    <3> QED
      BY <3>1, <3>2, <3>3 DEF Missing, Answer
  <2> QED
    BY <2>1, <2>2 DEF AnsInv
<1>11. ASSUME NEW n \in DOMAIN scans, NEW y \in scans'[n].rows,
              y.src = "STATIC"
       PROVE  \E x \in scans[n].rows : /\ x.src = y.src /\ x.fp = y.fp
                                       /\ x.status = y.status
                                       /\ x.lines = y.lines
  <2>1. y \notin rows
    BY <1>4, <1>11
  <2>2. PICK x \in scans[n].rows \ EarlierRun(s) : y = Left(x, s)
    BY <2>1, WrittenRow
  <2> QED
    BY <1>5, <2>2, LeftIs
<1>12. FitInv'
  BY <1>1, <1>2, <1>3, <1>11 DEF FitInv, Fits
<1>13. ASSUME NEW n \in DOMAIN scans, NEW line, OnItsOwn(n, line)
       PROVE  OnItsOwn(n, line)'
  <2>1. PICK x \in scans[n].rows :
           /\ x.src = "STATIC" /\ x.status # "RESOLVED" /\ ~x.sup
           /\ x.first = PosOf(scans[n].head, line) /\ x.last = x.first
    BY <1>13 DEF OnItsOwn
  <2>2. x \notin EarlierRun(s)
    BY <2>1 DEF EarlierRun, OfSource
  <2>3. Left(x, s) \in scans'[n].rows
    BY <2>2, WrittenRow
  <2>4. /\ Left(x, s).src = x.src /\ Left(x, s).status = x.status
        /\ Left(x, s).sup = x.sup /\ Left(x, s).first = x.first
        /\ Left(x, s).last = x.last
    BY <1>5, LeftIs
  <2> QED
    BY <1>3, <2>1, <2>3, <2>4 DEF OnItsOwn
<1>14. QuietInv'
  <2>1. \A n \in DOMAIN scans :
           ActiveHits(n, RulesOn(n))' = ActiveHits(n, RulesOn(n))
    BY <1>2, <1>3 DEF ActiveHits, RulesOn
  <2> QED
    BY <1>1, <1>2, <1>3, <1>13, <2>1 DEF QuietInv
<1>15. ReportedStorable'
  BY <1>1, <1>2 DEF ReportedStorable
<1> QED
  BY <1>6, <1>7, <1>8, <1>9, <1>10, <1>12, <1>14, <1>15 DEF LifecycleInv

(* The second half of a run keeps the invariant.                           *)
THEOREM StoreKeeps ==
  ASSUME LifecycleInv, AiStore
  PROVE  LifecycleInv'
BY AiStores, WrittenKeeps, RefusedKeeps

-----------------------------------------------------------------------------
(* The invariant holds.                                                    *)

(* The pull request opens with the invariant.                              *)
LEMMA InitHolds ==
  ASSUME Init
  PROVE  LifecycleInv
<1>0. PICK t \in Texts : text = <<"plain", t>>
  BY DEF Init
<1>1. /\ head = <<1, 2>> /\ edits = 0 /\ scans = << >> /\ runs = 0
      /\ answers = {} /\ repeated = FALSE /\ late = {} /\ refused = {}
  BY DEF Init
<1>2. /\ text \in Seq(Texts \cup {"plain"}) /\ DOMAIN text = 1..2
      /\ text[1] = "plain" /\ text[2] = t
  BY <1>0
<1>3. /\ head \in Seq(Nat) /\ DOMAIN head = 1..2 /\ head[1] = 1
      /\ head[2] = 2
  BY <1>1
<1>4. /\ TargetFile \in Seq(Nat) /\ DOMAIN TargetFile = 1..1
      /\ TargetFile[1] = 1
  BY DEF TargetFile
<1>5. scans \in Seq(Scan) /\ DOMAIN scans = {} /\ Len(scans) = 0
  BY <1>1
<1>6. TypeInv
  <2>1. 0 \in 0..MaxEdits /\ 0 \in 0..MaxRuns /\ 0 <= MaxScans
    BY LifecycleAssumption
  <2>2. /\ edits \in 0..MaxEdits /\ runs \in 0..MaxRuns
        /\ Len(scans) <= MaxScans
    BY <1>1, <1>5, <2>1
  <2>3. /\ repeated \in BOOLEAN /\ answers = {} /\ late = {}
        /\ refused = {}
    BY <1>1
  <2> QED
    BY <1>2, <1>3, <1>5, <2>2, <2>3 DEF TypeInv
<1>7. VersionInv
  <2>1. Versions = {TargetFile, head}
    BY <1>5 DEF Versions
  <2>2. Told(TargetFile)
    BY <1>2, <1>4 DEF Told, Version, IsInjective, ToSet
  <2>3. Told(head)
    BY <1>2, <1>3 DEF Told, Version, IsInjective, ToSet
  <2>4. \A f, g \in Versions : \A i \in DOMAIN f, j \in DOMAIN g :
           f[i] = i /\ g[j] = j
    BY <2>1, <1>3, <1>4
  <2>5. \A f, g \in Versions : SameOrder(f, g)
    BY <2>4 DEF SameOrder
  <2> QED
    BY <2>1, <2>2, <2>3, <2>5 DEF VersionInv
<1>8. RowInv /\ HistInv /\ ContInv /\ FitInv /\ AnsInv
  BY <1>1, <1>5 DEF RowInv, HistInv, ContInv, FitInv, AnsInv
<1>9. QuietInv
  <2>1. ASSUME NEW i \in DOMAIN head, NEW j \in DOMAIN head, i # j
        PROVE  text[head[i]] = "plain" \/ text[head[j]] = "plain"
    BY <1>2, <1>3, <2>1
  <2>2. ~SameKeyTwice(head, text)
    <3>1. ASSUME NEW i \in DOMAIN head, NEW j \in DOMAIN head, i # j
          PROVE  /\ ~({text[head[i]], text[head[j]]}
                      \subseteq {"secret", "comment"})
                 /\ {text[head[i]], text[head[j]]} # {"key"}
      BY <2>1, <3>1
    <3> QED
      BY <3>1 DEF SameKeyTwice
  <2> QED
    BY <1>5, <2>2 DEF QuietInv
<1>10. ReportedStorable
  BY <1>1 DEF ReportedStorable
<1> QED
  BY <1>6, <1>7, <1>8, <1>9, <1>10 DEF LifecycleInv

(* Nothing happens.                                                        *)
LEMMA StutterKeeps ==
  ASSUME LifecycleInv, UNCHANGED vars
  PROVE  LifecycleInv'
<1>0. /\ scans' = scans /\ text' = text /\ head' = head /\ edits' = edits
      /\ repeated' = repeated /\ runs' = runs /\ answers' = answers
      /\ late' = late /\ refused' = refused
  BY DEF vars
<1>1. TypeInv' /\ ReportedStorable'
  BY <1>0 DEF LifecycleInv, TypeInv, ReportedStorable
<1>2. VersionInv'
  BY <1>0 DEF LifecycleInv, VersionInv, Versions, Told
<1>3. RowInv'
  BY <1>0 DEF LifecycleInv, RowInv, RowsOf
<1>4. /\ Rows' = Rows
      /\ \A n : /\ Staying(n)' = Staying(n)
                /\ EarlierRun(n)' = EarlierRun(n)
  BY <1>0 DEF Rows, Staying, EarlierRun
<1>5. HistInv' /\ ContInv'
  BY <1>0, <1>4
     DEF LifecycleInv, HistInv, Whole, Overtaken, ContInv, Followed
<1>6. AnsInv'
  <2> SUFFICES ASSUME NEW b \in answers
               PROVE  (Planning(b) /\ Fresh(b) /\ Tied(b) /\ Covers(b))'
    BY <1>0 DEF LifecycleInv, AnsInv
  <2>1. Planning(b) /\ Fresh(b) /\ Tied(b) /\ Covers(b)
    BY DEF LifecycleInv, AnsInv
  <2>2. Planning(b)' /\ Fresh(b)' /\ Covers(b)'
    BY <1>0, <1>4, <2>1 DEF Planning, Fresh, Covers, AiMatch, LoadBase
  <2>3. Tied(b)'
    BY <1>0, <1>4, <2>1 DEF Tied, Linked, Reaches
  <2> QED
    BY <2>2, <2>3
<1>7. FitInv'
  BY <1>0 DEF LifecycleInv, FitInv, Fits
<1>8. QuietInv'
  BY <1>0 DEF LifecycleInv, QuietInv, ActiveHits, OnItsOwn, RulesOn
<1> QED
  BY <1>1, <1>2, <1>3, <1>5, <1>6, <1>7, <1>8 DEF LifecycleInv

(* The inductive invariant holds in every state of every behaviour.        *)
THEOREM LifecycleHolds == Spec => []LifecycleInv
<1>1. Init => LifecycleInv
  BY InitHolds
<1>2. LifecycleInv /\ [Next]_vars => LifecycleInv'
  <2> SUFFICES ASSUME LifecycleInv, [Next]_vars
               PROVE  LifecycleInv'
    OBVIOUS
  <2>1. CASE Insert \/ Delete
    BY <2>1, EditKeeps
  <2>2. CASE StaticScan
    BY <2>2, StaticKeeps
  <2>3. CASE AiLoad
    BY <2>3, LoadKeeps
  <2>4. CASE AiStore
    BY <2>4, StoreKeeps
  <2>5. CASE UNCHANGED vars
    BY <2>5, StutterKeeps
  <2> QED
    BY <2>1, <2>2, <2>3, <2>4, <2>5 DEF Next
<1> QED
  BY <1>1, <1>2, PTL DEF Spec

-----------------------------------------------------------------------------
(* What the invariant says of the runs' properties.                        *)

(* Every variable keeps its type: the rows of a scan and those that wait   *)
(* are findings, and the file at the head commit never holds a line twice. *)
THEOREM LifecycleTypes == Spec => []TypeOK
<1>1. ASSUME LifecycleInv
      PROVE  TypeOK
  <2>0. TypeInv /\ VersionInv
    BY <1>1 DEF LifecycleInv
  <2>1. Told(head)
    BY <2>0 DEF VersionInv, Versions
  <2>2. ToSet(head) \subseteq DOMAIN text /\ IsInjective(head)
    BY <2>1 DEF Told, Version
  <2>3. Rows \subseteq Row
    <3>1. ASSUME NEW s \in DOMAIN scans
          PROVE  scans[s].rows \subseteq Row
      BY <2>0, ScanType
    <3> QED
      BY <3>1 DEF Rows
  <2>4. \A a \in answers : /\ a.scan \in DOMAIN scans /\ a.run \in 1..runs
                           /\ a.rows \subseteq Row
                           /\ a.missed \subseteq DOMAIN scans
    BY <2>0 DEF TypeInv, Answer
  <2> QED
    BY <2>0, <2>2, <2>3, <2>4 DEF TypeInv, TypeOK
<1> QED
  BY <1>1, LifecycleHolds, PTL

(* A live finding stands on the lines it was reported on, through any      *)
(* number of commits and of scans that carried it (mapLineThroughHunks,    *)
(* carryForward) or re-opened it.                                          *)
THEOREM FindingsAtTheirLines == Spec => []AtItsLine
<1>1. ASSUME LifecycleInv
      PROVE  AtItsLine
  <2> SUFFICES ASSUME NEW s \in DOMAIN scans, NEW x \in scans[s].rows,
                      x.status # "RESOLVED"
               PROVE  /\ x.last \in DOMAIN scans[s].head
                      /\ scans[s].head[x.first] = x.lines[1]
                      /\ scans[s].head[x.last] = x.lines[2]
    BY DEF AtItsLine, Live
  <2>1. TypeInv /\ RowInv
    BY <1>1 DEF LifecycleInv
  <2>2. /\ scans[s].head \in Seq(Nat) /\ x \in Row
    BY <2>1, ScanType
  <2>3. Placed(x, scans[s].head)
    BY <2>1 DEF RowInv, RowsOf
  <2>4. x.first \in Int /\ x.last \in Int
    BY <2>2 DEF Row
  <2> QED
    BY <2>2, <2>3, <2>4 DEF Placed
<1> QED
  BY <1>1, LifecycleHolds, PTL

(* A secret the pull request adds is an active static finding of every     *)
(* scan of a version that holds it and that runs its rule, whatever the    *)
(* modes of the scans (dedupeFindings, dropPersistedDuplicates,            *)
(* matchFullAgainstBase, carryForward), while no version held two lines of *)
(* one rule's.                                                             *)
THEOREM UniqueHitsAreReported == Spec => []UniqueHitsReported
<1>1. ASSUME LifecycleInv
      PROVE  UniqueHitsReported
  <2> SUFFICES ASSUME ~repeated, NEW s \in DOMAIN scans,
                      NEW line \in ActiveHits(s, RulesOn(s))
               PROVE  Covered(s, line)
    BY DEF UniqueHitsReported, RulesOn
  <2>1. TypeInv /\ QuietInv
    BY <1>1 DEF LifecycleInv
  <2>2. OnItsOwn(s, line)
    BY <2>1 DEF QuietInv
  <2>3. PICK x \in scans[s].rows :
           /\ x.src = "STATIC" /\ x.status # "RESOLVED" /\ ~x.sup
           /\ x.first = PosOf(scans[s].head, line) /\ x.last = x.first
    BY <2>2 DEF OnItsOwn
  <2>4. x.first \in Int
    BY <2>1, ScanType DEF Row
  <2>5. PosOf(scans[s].head, line) \in x.first..x.last
    BY <2>3, <2>4
  <2>6. x \in Active(OfSource(scans[s].rows, "STATIC"))
    BY <2>3 DEF Active, Live, OfSource
  <2> QED
    BY <2>5, <2>6 DEF Covered
<1> QED
  BY <1>1, LifecycleHolds, PTL

(* No finding leaves a pull request silently: a live finding has a row in  *)
(* the next scan that continues it or closes it (planFindings,             *)
(* carryForward, matchFullAgainstBase, mergeWithPreviousRun), unless its   *)
(* tier was turned off or its run was stored when that scan was there.     *)
THEOREM FindingsAreNeverDropped == Spec => []NeverDropped
<1>1. ASSUME LifecycleInv
      PROVE  NeverDropped
  <2> SUFFICES ASSUME NEW s \in DOMAIN scans \ {1},
                      NEW x \in scans[s - 1].rows, x.status # "RESOLVED",
                      Enabled(x, scans[s].off),
                      x.src = "AI" => /\ ~x.sup
                                      /\ <<x.id[2], s - 1>> \notin late
                                      /\ scans[s].mode # "FULL" \/ scans[s].ai
               PROVE  \E y \in scans[s].rows : y.origin = x.id
    BY DEF NeverDropped
  <2>1. TypeInv /\ ContInv
    BY <1>1 DEF LifecycleInv
  <2>2. /\ s - 1 \in DOMAIN scans
        /\ scans[s].mode \in {"FULL", "INCREMENTAL"}
    <3>1. /\ s \in Nat /\ 1 <= s /\ s <= Len(scans)
          /\ DOMAIN scans = 1..Len(scans)
      BY <2>1, ScanType
    <3> QED
      BY <2>1, <3>1, ScanType
  <2>3. x \in Row
    BY <2>1, <2>2, ScanType
  <2>4. x.src \in {"STATIC", "AI"}
    BY <2>3 DEF Row, Sources
  <2>5. Followed(x, s)
    BY DEF Followed
  <2>6. /\ scans[s].mode = "INCREMENTAL" \/ x.src = "STATIC" =>
             \E y \in Staying(s) : y.origin = x.id
        /\ x.src = "AI" /\ ~x.sup /\ scans[s].ai =>
             \E y \in scans[s].rows : y.origin = x.id
    BY <2>1, <2>5 DEF ContInv
  <2>7. Staying(s) \subseteq scans[s].rows
    BY DEF Staying
  <2>8. CASE scans[s].mode = "INCREMENTAL" \/ x.src = "STATIC"
    BY <2>6, <2>7, <2>8
  <2>9. CASE scans[s].mode = "FULL" /\ x.src = "AI"
    BY <2>6, <2>9
  <2> QED
    BY <2>2, <2>4, <2>8, <2>9
<1> QED
  BY <1>1, LifecycleHolds, PTL

(* The database refuses a run for a finding that it reports and does not   *)
(* suppress only if another run has rewritten the scan of that finding's   *)
(* origin in between (loadRecentResolved, mergeWithPreviousRun).           *)
THEOREM ReportedAreStorable == Spec => []ReportedStorable
<1>1. LifecycleInv => ReportedStorable
  BY DEF LifecycleInv
<1> QED
  BY <1>1, LifecycleHolds, PTL

(* The history of a finding is whole, however often the AI step rewrites   *)
(* its rows: ids tell all rows apart, and the row one continues or         *)
(* re-opens is stored and as old (FindingRow.originFindingId, firstSeen),  *)
(* or was deleted by a run that was stored late.                           *)
THEOREM HistoryStaysWhole == Spec => []HistoryWhole
<1>1. ASSUME LifecycleInv
      PROVE  HistoryWhole
  <2>0. TypeInv /\ RowInv /\ HistInv
    BY <1>1 DEF LifecycleInv
  <2>1. \A x, y \in Rows : y.id = x.id => y = x
    BY <2>0, TellsApart DEF Distinct
  <2>2. ASSUME NEW x \in Rows
        PROVE  IF x.origin = None
               THEN \/ x.since = x.id[1]
                    \/ x.src = "AI" /\ \E l \in late : l[2] <= x.id[1]
               ELSE \E y \in Rows : y.id = x.origin /\ y.since = x.since
    <3>1. x.id[1] \in DOMAIN scans /\ x \in scans[x.id[1]].rows
      BY <2>0, RowsAre
    <3>2. Whole(x, x.id[1])
      BY <2>0, <3>1 DEF HistInv
    <3>3. CASE x.origin = None
      BY <3>2, <3>3 DEF Whole, Overtaken
    <3>4. CASE x.origin # None
      <4>1. PICK y \in Rows : Follows(x, y)
        BY <3>2, <3>4 DEF Whole
      <4> QED
        BY <3>4, <4>1 DEF Follows
    <3> QED
      BY <3>3, <3>4
  <2> QED
    BY <2>1, <2>2 DEF HistoryWhole
<1> QED
  BY <1>1, LifecycleHolds, PTL

-----------------------------------------------------------------------------
(* What a comparable run keeps.                                            *)

(* A row that keeps the earlier finding e: an active one of the AI's, no   *)
(* less severe, that is the same finding.                                  *)
Keeps(y, e) ==
    /\ y.src = "AI" /\ ~y.sup /\ y.status # "RESOLVED"
    /\ y.sev >= e.sev
    /\ y.fp = e.fp \/ y.origin = e.id \/ Similar(e, y)

(* mergeWithPreviousRun keeps every earlier finding: joined with the row   *)
(* that repeats it, or carried along.                                      *)
LEMMA MergeKeepsEarlier ==
  ASSUME NEW s \in Nat, NEW run \in Nat, NEW rows, NEW file,
         AiGood(rows, s, run, file), NEW previous, Earlier(previous, file),
         NEW kind \in Kinds, NEW merged, NEW f,
         Merging(merged, s, run, rows, previous, kind, f),
         NEW e \in previous
  PROVE  \E y \in merged : Keeps(y, e)
<1> DEFINE reported == Reported(rows, previous, kind)
           taken == {f[x] : x \in reported}
<1>1. /\ e \in Row /\ e.src = "AI" /\ e.status # "RESOLVED" /\ ~e.sup
      /\ e # None /\ kind \in {"same_scan", "base_scan"}
  BY NoneAssumption DEF Earlier, Kinds
<1>2. CASE e \in taken
  <2>1. PICK x \in reported : f[x] = e
    BY <1>2
  <2>2. /\ x \in Row /\ x.src = "AI" /\ ~x.sup /\ x.status # "RESOLVED"
    <3>1. x \in rows /\ x.src = "AI" /\ ~x.sup /\ x.status # "RESOLVED"
      BY ReportedAre
    <3> QED
      BY <3>1 DEF AiGood
  <2>3. MergedRow(x, e, kind) \in merged
    BY <1>1, <2>1 DEF Merging
  <2>4. Repeats(x, e)
    BY <1>1, <2>1 DEF Merging
  <2>5. PICK y \in merged : y = MergedRow(x, e, kind)
    BY <2>3
  <2>6. /\ Same(y, x) /\ SamePlace(y, x) /\ y.sev >= e.sev
        /\ y.status # "RESOLVED"
        /\ kind = "same_scan" => y.origin = x.origin
        /\ kind = "base_scan" => y.origin = e.id
    BY <1>1, <2>2, <2>5, JoinedRow
  <2>7. y.fp = e.fp \/ y.origin = e.id \/ Similar(e, y)
    <3>1. CASE e.id = x.origin
      BY <1>1, <2>6, <3>1
    <3>2. CASE e.fp = x.fp
      BY <2>6, <3>2 DEF Same
    <3>3. CASE Similar(x, e)
      <4>1. Similar(e, x)
        <5>1. e.first \in Int /\ x.first \in Int
          BY <1>1, <2>2 DEF Row
        <5> QED
          BY <3>3, <5>1, SimilarBack
      <4>2. Same(e, e) /\ SamePlace(e, e)
        BY DEF Same, SamePlace
      <4> QED
        BY <2>6, <4>1, <4>2, SimilarRows
    <3> QED
      BY <2>4, <3>1, <3>2, <3>3 DEF Repeats
  <2>8. y.src = "AI" /\ ~y.sup
    BY <2>2, <2>6 DEF Same
  <2> QED
    BY <2>6, <2>7, <2>8 DEF Keeps
<1>3. CASE e \notin taken
  <2>1. CarriedAgain(s, run, e, kind) \in merged
    BY <1>3 DEF Merging
  <2>2. PICK y \in merged : y = CarriedAgain(s, run, e, kind)
    BY <2>1
  <2>3. Same(y, e) /\ y.sev = e.sev
    BY <1>1, <2>2 DEF CarriedAgain, Row, Same
  <2>5. y.status = e.status \/ y.status = "PERSISTED"
    BY <1>1, <2>2 DEF CarriedAgain, Row
  <2>4. y.sev >= e.sev
    BY <1>1, <2>3 DEF Row
  <2> QED
    BY <1>1, <2>3, <2>4, <2>5 DEF Keeps, Same
<1> QED
  BY <1>2, <1>3

(* AreKept, row by row.                                                    *)
LEMMA KeptIf ==
  ASSUME NEW earlier, NEW rows,
         \A x \in earlier : /\ x.src = "AI" /\ ~x.sup /\ x.status # "RESOLVED"
                            => \E y \in rows : Keeps(y, x)
  PROVE  AreKept(earlier, rows)
<1> SUFFICES ASSUME NEW x \in OfSource(Active(earlier), "AI")
             PROVE  \E y \in OfSource(Active(rows), "AI") :
                      /\ y.sev >= x.sev
                      /\ y.fp = x.fp \/ y.origin = x.id \/ Similar(x, y)
  BY DEF AreKept
<1>1. x \in earlier /\ x.src = "AI" /\ ~x.sup /\ x.status # "RESOLVED"
  BY DEF OfSource, Active, Live
<1>2. PICK y \in rows : Keeps(y, x)
  BY <1>1
<1>3. y \in OfSource(Active(rows), "AI")
  BY <1>2 DEF Keeps, OfSource, Active, Live
<1> QED
  BY <1>2, <1>3 DEF Keeps

(* A comparable run keeps what its base's run found, before it waits.      *)
LEMMA LoadedKeepsBase ==
  ASSUME LifecycleInv, NEW s \in DOMAIN scans, NEW w, Loading(w, s), w.based
  PROVE  AreKept(BaseRun(s), w.rows)
<1>1. /\ AiPlanned(w.planned, s, w.found, w.kept, w.got, w.closed)
      /\ Merging(w.rows, s, runs + 1, w.planned, BasePrev(s, w.based),
                 "base_scan", w.f)
  BY DEF Loading, Based
<1>2. BasePrev(s, w.based) = BaseRun(s)
  BY DEF BasePrev
<1>3. /\ s \in Nat /\ runs + 1 \in Nat /\ "base_scan" \in Kinds
      /\ AiGood(w.planned, s, runs + 1, scans[s].head)
      /\ Earlier(BasePrev(s, w.based), scans[s].head)
  <2>1. s \in Nat /\ runs + 1 \in Nat
    BY ScanIs
  <2>2. "base_scan" \in Kinds
    BY DEF Kinds
  <2>3. AiGood(w.planned, s, runs + 1, scans[s].head)
    BY <1>1, PlannedGood
  <2> QED
    BY <2>1, <2>2, <2>3, BasePrevIs
<1>4. \A x \in BaseRun(s) : \E y \in w.rows : Keeps(y, x)
  BY <1>1, <1>2, <1>3, MergeKeepsEarlier
<1> QED
  BY <1>4, KeptIf

(* A run that is stored keeps what it planned.                             *)
LEMMA WrittenKeepsPlan ==
  ASSUME LifecycleInv, NEW a, NEW rows, NEW g, Written(a, rows, g)
  PROVE  AreKept(a.rows, scans'[a.scan].rows)
<1> DEFINE previous == SamePrev(a)
<1>1. Storing(a, rows, g) /\ a.scan \in DOMAIN scans /\ a \in answers
  BY WriterIs
<1>2. rows \subseteq scans'[a.scan].rows
  BY <1>1, WrittenRow
<1>3. ASSUME NEW x \in a.rows, x.src = "AI", ~x.sup, x.status # "RESOLVED"
      PROVE  \E y \in rows : Keeps(y, x)
  <2>1. x \in Reported(a.rows, previous, "same_scan")
    BY <1>3, ReportedIf
  <2>2. x \in Row /\ x.sev >= x.sev
    <3>1. x \in Row
      BY <1>1, WaitingIs DEF Planning, AiGood
    <3> QED
      BY <3>1 DEF Row
  <2>3. CASE g[x] = None
    <3>1. x \in rows
      BY <1>1, <2>1, <2>3 DEF Storing, Merging
    <3> QED
      BY <1>3, <2>2, <3>1 DEF Keeps
  <2>4. CASE g[x] # None
    <3>1. g[x] \in previous /\ MergedRow(x, g[x], "same_scan") \in rows
      BY <1>1, <2>1, <2>4 DEF Storing, Merging
    <3>2. g[x] \in Row
      BY <1>1, <3>1, SamePrevIs DEF Earlier
    <3>3. PICK y \in rows : y = MergedRow(x, g[x], "same_scan")
      BY <3>1
    <3>4. /\ Same(y, x) /\ y.sev >= x.sev
          /\ y.status # "RESOLVED"
      BY <1>3, <2>2, <3>2, <3>3, JoinedRow
    <3> QED
      BY <1>3, <3>4 DEF Keeps, Same
  <2> QED
    BY <2>3, <2>4
<1> QED
  BY <1>2, <1>3, KeptIf

(* A comparable run keeps what its scan held when it was stored.           *)
LEMMA WrittenKeepsOwn ==
  ASSUME LifecycleInv, NEW a, NEW rows, NEW g, Written(a, rows, g), a.own
  PROVE  AreKept(scans[a.scan].rows, scans'[a.scan].rows)
<1> DEFINE s == a.scan
<1>1. /\ Storing(a, rows, g) /\ s \in DOMAIN scans /\ a \in answers
      /\ s \in Nat /\ a.run \in Nat
  BY WriterIs
<1>2. rows \subseteq scans'[s].rows
  BY <1>1, WrittenRow
<1>3. ASSUME NEW x \in scans[s].rows, x.src = "AI", ~x.sup,
             x.status # "RESOLVED"
      PROVE  \E y \in scans'[s].rows : Keeps(y, x)
  <2>1. CASE x \notin EarlierRun(s)
    <3>1. x \in Row
      BY <1>1, ScanIs
    <3>2. PICK y \in scans'[s].rows : y = Left(x, s)
      BY <1>1, <2>1, WrittenRow
    <3>3. /\ y.src = x.src /\ y.fp = x.fp /\ y.sev = x.sev /\ y.sup = x.sup
          /\ y.status = x.status
      BY <3>1, <3>2, LeftIs
    <3>4. y.sev >= x.sev
      BY <3>1, <3>3 DEF Row
    <3> QED
      BY <1>3, <3>3, <3>4 DEF Keeps
  <2>2. CASE x \in EarlierRun(s)
    <3>1. x \in SamePrev(a)
      BY <1>3, <2>2 DEF SamePrev, Active, Live
    <3>2. /\ AiGood(a.rows, s, a.run, scans[s].head)
          /\ Earlier(SamePrev(a), scans[s].head)
          /\ "same_scan" \in Kinds
      BY <1>1, WaitingIs, SamePrevIs DEF Planning, Kinds
    <3>3. Merging(rows, s, a.run, a.rows, SamePrev(a), "same_scan", g)
      BY <1>1 DEF Storing
    <3>4. PICK y \in rows : Keeps(y, x)
      BY <1>1, <3>1, <3>2, <3>3, MergeKeepsEarlier
    <3> QED
      BY <1>2, <3>4
  <2> QED
    BY <2>1, <2>2
<1> QED
  BY <1>3, KeptIf

(* A run is stored by AiStore, and by nothing else.                        *)
LEMMA StoredBy ==
  ASSUME LifecycleInv, [Next]_vars, NEW a \in answers, scans' # scans,
         \A b \in answers' : b.run # a.run
  PROVE  \E rows, g : Written(a, rows, g)
<1>1. AiStore
  <2>1. ~Insert /\ ~Delete /\ ~AiLoad
    BY DEF Insert, Delete, NewHead, AiLoad
  <2>2. ~StaticScan
    <3>1. StaticScan => answers' = answers
      BY DEF StaticScan
    <3> QED
      BY <3>1
  <2>3. scans' # scans => ~UNCHANGED vars
    BY DEF vars
  <2> QED
    BY <2>1, <2>2, <2>3 DEF Next
<1>2. PICK b, rows, g : Written(b, rows, g) \/ Refusing(b, rows, g)
  BY <1>1, AiStores
<1>3. Written(b, rows, g)
  BY <1>2 DEF Refusing
<1>4. CASE a # b
  <2>1. [a EXCEPT !.missed = @ \cup {b.scan}] \in answers'
    BY <1>3, <1>4 DEF Written
  <2>2. a \in Answer
    BY DEF LifecycleInv, TypeInv
  <2>3. [a EXCEPT !.missed = @ \cup {b.scan}].run = a.run
    BY <2>2 DEF Answer
  <2> QED
    BY <2>1, <2>3
<1> QED
  BY <1>3, <1>4

(* A run plans by AiLoad, and by nothing else.                             *)
LEMMA PlannedBy ==
  ASSUME LifecycleInv, [Next]_vars, runs' # runs, NEW a \in answers' \ answers
  PROVE  \E s \in DOMAIN scans : \E w : Loading(w, s) /\ a = Waiting(w, s)
<1>1. AiLoad
  <2>1. ~Insert /\ ~Delete
    BY DEF Insert, Delete, NewHead
  <2>2. ~StaticScan /\ ~AiStore
    BY DEF StaticScan, AiStore
  <2>3. ~UNCHANGED vars
    BY DEF vars
  <2> QED
    BY <2>1, <2>2, <2>3 DEF Next
<1>2. PICK s \in DOMAIN scans : \E w :
         Loading(w, s) /\ answers' = answers \cup {Waiting(w, s)}
  BY <1>1, AiLoads
<1> QED
  BY <1>2

(* A comparable run of the AI never loses an active finding of the base's  *)
(* run of the same commit, nor one that its own scan holds when it stores, *)
(* nor what it reports itself, and lowers no severity (regenerate-merge).  *)
THEOREM RerunsKeepFindings == Spec => RerunKeeps
<1>1. ASSUME LifecycleInv, [Next]_vars, runs' # runs,
             NEW a \in answers' \ answers, a.based
      PROVE  AreKept(BaseRun(a.scan), a.rows)
  <2>1. PICK s \in DOMAIN scans : \E w : Loading(w, s) /\ a = Waiting(w, s)
    BY <1>1, PlannedBy
  <2>2. PICK w : Loading(w, s) /\ a = Waiting(w, s)
    BY <2>1
  <2>3. a.scan = s /\ a.rows = w.rows /\ a.based = w.based
    BY <2>2 DEF Waiting
  <2> QED
    BY <1>1, <2>2, <2>3, LoadedKeepsBase
<1>2. ASSUME LifecycleInv, [Next]_vars, NEW a \in answers, scans' # scans,
             a.run \notin {b.run : b \in answers'}
      PROVE  /\ AreKept(a.rows, scans'[a.scan].rows)
             /\ a.own => AreKept(scans[a.scan].rows, scans'[a.scan].rows)
  <2>1. PICK rows, g : Written(a, rows, g)
    BY <1>2, StoredBy
  <2> QED
    BY <1>2, <2>1, WrittenKeepsPlan, WrittenKeepsOwn
<1>3. LifecycleInv /\ [Next]_vars =>
        [/\ runs' # runs => \A a \in answers' \ answers :
               a.based => AreKept(BaseRun(a.scan), a.rows)
         /\ \A a \in answers :
               scans' # scans /\ a.run \notin {b.run : b \in answers'} =>
                 /\ AreKept(a.rows, scans'[a.scan].rows)
                 /\ a.own => AreKept(scans[a.scan].rows,
                                     scans'[a.scan].rows)]_vars
  BY <1>1, <1>2
<1> QED
  BY <1>3, LifecycleHolds, PTL DEF Spec, RerunKeeps
=============================================================================
