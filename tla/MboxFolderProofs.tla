-------------------------- MODULE MboxFolderProofs --------------------------
(***************************************************************************)
(* Proofs about MboxFolder, for any messages and bounds.  What holds of the *)
(* files whatever happens comes first; then what a tag says, as long as the *)
(* disk is not full when ExpungeTask writes; then that no mail is lost, as *)
(* long as, besides, no lock is held for several messages.                 *)
(***************************************************************************)
EXTENDS MboxFolder, FiniteSetTheorems, SequenceTheorems, TLAPS

Message == [b : Bodies, u : 0..MaxUid, d : BOOLEAN]
Tagged == [b : Bodies, u : Uids, d : BOOLEAN]
Tag == [u : Uids, d : BOOLEAN]

LockTasks ==
    [k : {"read", "multilock"}]
      \cup [k : {"add"}, b : Bodies, d : BOOLEAN]
      \cup [k : {"expunge"}, purge : BOOLEAN, del : SUBSET Uids]
Works == [k : {"open", "check"}] \cup LockTasks
Tasks == Works \cup [k : {"reopen"}, task : LockTasks]

-----------------------------------------------------------------------------
(* The invariants.                                                         *)

\* What a task is for, also while the folder is reopened for it.
Work(t) == IF t.k = "reopen" THEN t.task ELSE t

SameMail(t1, t2) == Work(t1).k = "add" /\ Work(t2).k = "add" /\ Work(t1).b = Work(t2).b

\* The tasks of a queue are for these works, and none adds what another one adds.
QueueIn(q, works) ==
    /\ q \in Seq(Tasks)
    /\ \A i \in 1..Len(q) : Work(q[i]) \in works
    /\ \A i, j \in 1..Len(q) : SameMail(q[i], q[j]) => i = j

\* A message that is to be added is nowhere yet; the messages that an expunge is
\* to delete were asked for; and all but an open need an open folder.
Fit(t) ==
    /\ t.k = "add" => t.b \notin mail
    /\ t.k = "expunge" => \A u \in t.del : u < nextUid /\ bodyOf[u] \subseteq asked
    /\ t.k # "open" => isOpen

QueueInv == QueueIn(queue, {t \in Works : Fit(t)})

\* What the driver is in the middle of is the first task.
PhaseInv ==
    /\ phase = "copying" => queue # <<>> /\ Front.k \in OpenKinds /\ ~multi
    /\ phase \in {"renaming", "unlocked"} => queue # <<>> /\ Front.k = "expunge" /\ ~multi
    /\ phase # "copying" => orig = 0

\* UIDs that are still to be made are nowhere.
UidInv ==
    /\ \A i \in 1..Len(inbox) : inbox[i].u < nextUid
    /\ \A i \in 1..Len(scratch) : scratch[i].u < nextUid
    /\ \A i \in 1..Len(fmi) : fmi[i].u < nextUid
    /\ \A i \in 1..Len(index) : index[i].u < nextUid
    /\ \A b \in Bodies : spoolTag[b] < nextUid
    /\ \A u \in Uids : u >= nextUid => bodyOf[u] = {}

\* What is in the files was delivered.
BodyInv ==
    /\ \A i \in 1..Len(inbox) : inbox[i].b \in mail
    /\ \A i \in 1..Len(scratch) : scratch[i].b \in mail
    /\ \A i \in 1..Len(spool) : spool[i] \in mail
    /\ \A u \in Uids : bodyOf[u] \subseteq mail

SafeInv == TypeOK /\ QueueInv /\ PhaseInv /\ UidInv /\ BodyInv

\* What was copied is the beginning of the spool.
CopyInv ==
    phase = "copying" =>
        \A k \in 1..Copied : k <= Len(spool) /\ inbox[orig + k].b = spool[k]

\* Without a crash, and when others make no copies, a message is once in one file,
\* but while it is copied.
DupInv ==
    crashes = 0 /\ MaxCopies = 0 =>
        /\ \A i, j \in 1..Len(inbox) : inbox[i].b = inbox[j].b => i = j
        /\ \A i, j \in 1..Len(scratch) : scratch[i].b = scratch[j].b => i = j
        /\ \A i, j \in 1..Len(spool) : spool[i] = spool[j] => i = j
        /\ \A i \in 1..Len(inbox), j \in 1..Len(spool) :
             inbox[i].b = spool[j] => phase = "copying" /\ i = orig + j
        /\ \A i \in 1..Len(scratch), j \in 1..Len(spool) : scratch[i].b # spool[j]

BaseInv == SafeInv /\ CopyInv /\ DupInv

-----------------------------------------------------------------------------
(* With room on the disk.                                                  *)

\* A tag is the one that was made for the message, in every file.
InboxTags == \A i \in 1..Len(inbox) : inbox[i].u # 0 => bodyOf[inbox[i].u] = {inbox[i].b}

TagInv ==
    /\ \A u \in Uids, x, y \in Bodies : x \in bodyOf[u] /\ y \in bodyOf[u] => x = y
    /\ InboxTags
    /\ \A i \in 1..Len(scratch) : bodyOf[scratch[i].u] = {scratch[i].b}
    /\ \A b \in Bodies : spoolTag[b] # 0 => bodyOf[spoolTag[b]] = {b}

\* folderMessageIndex has the first messages of the file; where a message has
\* the tag of an earlier one, it has another UID for it.
SameTag(i) == inbox[i].u \in {0, fmi[i].u} \/ \E j \in 1..(i - 1) : fmi[j].u = inbox[i].u

Matches ==
    /\ Len(fmi) <= Len(inbox)
    /\ \A i \in 1..Len(fmi) : SameTag(i) /\ bodyOf[fmi[i].u] = {inbox[i].b}

\* It does while the file is believed unchanged or is locked by multiLockLock;
\* in the first case, and while it is copied to, it has all of them.
MatchInv ==
    /\ isOpen /\ phase = "none" /\ (~changed \/ multi) => Matches
    /\ isOpen /\ phase = "none" /\ ~changed => Len(fmi) = Len(inbox)
    /\ phase = "copying" => Matches /\ Len(fmi) = Len(inbox)

\* After the rewrite, folderMessageIndex has the messages of the new file.
SyncInv ==
    phase \in {"renaming", "unlocked"} =>
        Len(scratch) = Len(fmi) /\ UidsOf(scratch) \subseteq UidsOf(fmi)

FileInv == TagInv /\ MatchInv /\ SyncInv

-----------------------------------------------------------------------------
(* Without multi-message locks.                                            *)

SingleInv ==
    /\ ~multi /\ phase # "unlocked"
    /\ \A i \in 1..Len(queue) : Work(queue[i]).k # "multilock"

\* What is not copied was asked for.
KeepInv ==
    /\ NoMailLost
    /\ phase = "renaming" => \A i \in 1..Len(inbox) : inbox[i].b \in BodiesOf(scratch) \cup asked

-----------------------------------------------------------------------------
(* Counting positions.                                                     *)

\* How many positions there are before one tells it from the others.
LEMMA BelowCount ==
    ASSUME NEW n \in Nat, NEW ns \in SUBSET (1..n)
    PROVE  /\ IsFiniteSet(ns) /\ Cardinality(ns) \in Nat
           /\ \A i \in ns : /\ IsFiniteSet({x \in ns : x < i})
                            /\ Cardinality({x \in ns : x < i}) \in 0..(Cardinality(ns) - 1)
           /\ \A i, j \in ns :
                Cardinality({x \in ns : x < i}) = Cardinality({x \in ns : x < j}) => i = j
<1> DEFINE below(i) == {x \in ns : x < i}
<1>1. IsFiniteSet(ns) /\ Cardinality(ns) \in Nat /\ \A i \in ns : i \in Nat
  <2>1. IsFiniteSet(1..n)
    BY FS_Interval
  <2>2. \A i \in ns : i \in Nat
    OBVIOUS
  <2> QED
    BY <2>1, <2>2, FS_Subset, FS_CardinalityType
<1>2. \A i \in ns : below(i) \in SUBSET ns /\ i \notin below(i)
  <2>1. \A i \in ns : ~(i < i)
    BY <1>1
  <2> QED
    BY <2>1
<1>3. \A i, j \in ns : i < j => below(i) \in SUBSET below(j) /\ i \in below(j)
  <2>1. \A i, j, x \in ns : i < j /\ x < i => x < j
    BY <1>1
  <2> QED
    BY <2>1
<1> HIDE DEF below
<1>4. \A i \in ns : IsFiniteSet(below(i)) /\ Cardinality(below(i)) \in Nat
  BY <1>1, <1>2, FS_Subset, FS_CardinalityType
<1>5. ASSUME NEW i \in ns PROVE Cardinality(below(i)) \in 0..(Cardinality(ns) - 1)
  <2>1. Cardinality(below(i)) <= Cardinality(ns) /\ Cardinality(below(i)) # Cardinality(ns)
    BY <1>1, <1>2, FS_Subset
  <2> QED
    BY <1>1, <1>4, <2>1
<1>6. ASSUME NEW i \in ns, NEW j \in ns, i < j PROVE Cardinality(below(i)) # Cardinality(below(j))
  <2>1. below(i) # below(j)
    BY <1>2, <1>3, <1>6
  <2> QED
    BY <1>3, <1>4, <1>6, <2>1, FS_Subset
<1>7. ASSUME NEW i \in ns, NEW j \in ns, Cardinality(below(i)) = Cardinality(below(j))
      PROVE  i = j
  <2>1. i \in Nat /\ j \in Nat /\ ~(i < j) /\ ~(j < i)
    BY <1>1, <1>6, <1>7
  <2> QED
    BY <2>1
<1> QED
  BY <1>1, <1>4, <1>5, <1>7 DEF below

\* Nth enumerates a set of positions.
LEMMA NthProperties ==
    ASSUME NEW n \in Nat, NEW ns \in SUBSET (1..n)
    PROVE  /\ \A k \in 1..Cardinality(ns) : Nth(ns, k) \in ns
           /\ \A k, l \in 1..Cardinality(ns) : Nth(ns, k) = Nth(ns, l) => k = l
           /\ \A i \in ns : \E k \in 1..Cardinality(ns) : Nth(ns, k) = i
<1> DEFINE N == Cardinality(ns)
           below(i) == {x \in ns : x < i}
           cnt == [i \in ns |-> Cardinality(below(i)) + 1]
<1>1. /\ IsFiniteSet(ns) /\ N \in Nat
      /\ \A i \in ns : IsFiniteSet(below(i)) /\ Cardinality(below(i)) \in 0..(N - 1)
      /\ \A i, j \in ns : Cardinality(below(i)) = Cardinality(below(j)) => i = j
  BY BelowCount
<1>2. \A i \in ns : {x \in ns : x <= i} = below(i) \cup {i} /\ i \notin below(i)
  <2>1. \A i, x \in 1..n : (x <= i <=> x < i \/ x = i) /\ ~(i < i)
    OBVIOUS
  <2>2. \A i, x \in ns : (x <= i <=> x < i \/ x = i) /\ ~(i < i)
    BY <2>1
  <2>3. ASSUME NEW i \in ns PROVE {x \in ns : x <= i} = below(i) \cup {i}
    <3>1. \A x : x \in {y \in ns : y <= i} <=> x \in below(i) \cup {i}
      BY <2>2
    <3> QED
      BY <3>1
  <2> QED
    BY <2>2, <2>3
<1> HIDE DEF below
<1>3. \A i \in ns : Cardinality({x \in ns : x <= i}) = cnt[i]
  <2>1. ASSUME NEW i \in ns PROVE Cardinality({x \in ns : x <= i}) = Cardinality(below(i)) + 1
    BY <1>1, <1>2, FS_AddElement
  <2> QED
    BY <2>1
<1>4. cnt \in Injection(ns, 1..N)
  <2>1. cnt \in [ns -> 1..N]
    BY <1>1
  <2>2. \A i, j \in ns : cnt[i] = cnt[j] => i = j
    BY <1>1
  <2> QED
    BY <2>1, <2>2 DEF Injection, IsInjective
<1>5. cnt \in Surjection(ns, 1..N)
  <2>1. IsFiniteSet(1..N) /\ Cardinality(1..N) = N
    BY <1>1, FS_Interval
  <2> QED
    BY <1>1, <1>4, <2>1, FS_Injection
<1> HIDE DEF cnt
<1>6. \A k \in 1..N : Nth(ns, k) \in ns /\ cnt[Nth(ns, k)] = k
  <2>1. SUFFICES ASSUME NEW k \in 1..N PROVE Nth(ns, k) \in ns /\ cnt[Nth(ns, k)] = k
    OBVIOUS
  <2>2. \E i \in ns : Cardinality({x \in ns : x <= i}) = k
    BY <1>3, <1>5 DEF Surjection
  <2> QED
    BY <1>3, <2>2 DEF Nth
<1>7. \A i \in ns : cnt[i] \in 1..N /\ Nth(ns, cnt[i]) = i
  BY <1>4, <1>6 DEF Injection, IsInjective
<1> QED
  BY <1>1, <1>6, <1>7

\* Select gives each position its place, and no place to another one.
LEMMA SelectProperties ==
    ASSUME NEW S, NEW s \in Seq(S), NEW ns \in SUBSET (1..Len(s))
    PROVE  /\ Select(s, ns) \in Seq(S)
           /\ \A k \in 1..Len(Select(s, ns)) : Nth(ns, k) \in ns /\ Select(s, ns)[k] = s[Nth(ns, k)]
           /\ \A k, l \in 1..Len(Select(s, ns)) : Nth(ns, k) = Nth(ns, l) => k = l
           /\ \A i \in ns : \E k \in 1..Len(Select(s, ns)) : Nth(ns, k) = i
<1>1. Len(s) \in Nat /\ \A i \in 1..Len(s) : s[i] \in S
  BY LenProperties, ElementOfSeq
<1> DEFINE N == Cardinality(ns)
<1>2. /\ N \in Nat
      /\ \A k \in 1..N : Nth(ns, k) \in ns
      /\ \A k, l \in 1..N : Nth(ns, k) = Nth(ns, l) => k = l
      /\ \A i \in ns : \E k \in 1..N : Nth(ns, k) = i
  BY <1>1, NthProperties, BelowCount
<1> HIDE DEF N
<1>3. Select(s, ns) = [k \in 1..N |-> s[Nth(ns, k)]]
  BY DEF Select, N
<1>4. Select(s, ns) \in [1..N -> S]
  BY <1>1, <1>2, <1>3
<1>5. Select(s, ns) \in Seq(S) /\ Len(Select(s, ns)) = N
  BY <1>2, <1>4, SeqDef, LenProperties
<1> QED
  BY <1>2, <1>3, <1>5

\* UIDs that are made for different positions are different.
LEMMA UidFromProperties ==
    ASSUME NEW n \in Nat, NEW ns \in SUBSET (1..n), NEW next \in Nat
    PROVE  /\ \A i \in ns : UidFrom(next, ns, i) \in next..(next + Cardinality(ns) - 1)
           /\ \A i, j \in ns : UidFrom(next, ns, i) = UidFrom(next, ns, j) => i = j
<1>1. /\ Cardinality(ns) \in Nat
      /\ \A i \in ns : Cardinality({x \in ns : x < i}) \in 0..(Cardinality(ns) - 1)
      /\ \A i, j \in ns :
           Cardinality({x \in ns : x < i}) = Cardinality({x \in ns : x < j}) => i = j
  BY BelowCount
<1>2. \A i : UidFrom(next, ns, i) = next + Cardinality({x \in ns : x < i})
  BY DEF UidFrom
<1>3. ASSUME NEW i \in ns, NEW j \in ns, UidFrom(next, ns, i) = UidFrom(next, ns, j)
      PROVE  i = j
  <2>1. Cardinality({x \in ns : x < i}) = Cardinality({x \in ns : x < j})
    BY <1>1, <1>2, <1>3
  <2> QED
    BY <1>1, <2>1
<1>4. \A i \in ns : UidFrom(next, ns, i) \in next..(next + Cardinality(ns) - 1)
  <2>1. SUFFICES ASSUME NEW i \in ns
                 PROVE  next + Cardinality({x \in ns : x < i}) \in next..(next + Cardinality(ns) - 1)
    BY <1>2
  <2>2. Cardinality({x \in ns : x < i}) \in 0..(Cardinality(ns) - 1)
    BY <1>1
  <2> QED
    BY <1>1, <2>2
<1> QED
  BY <1>3, <1>4

LEMMA MadeFinite ==
    ASSUME NEW n \in Nat, NEW ns \in SUBSET (1..n), NEW next \in Nat, NEW file
    PROVE  /\ IsFiniteSet(Made(next, ns, file))
           /\ Cardinality(Made(next, ns, file)) = Cardinality(ns)
<1> DEFINE made == Made(next, ns, file)
           f == [i \in ns |-> [u |-> UidFrom(next, ns, i), b |-> file[i].b]]
<1>1. made = {f[i] : i \in ns}
  BY DEF Made
<1>2. f \in Bijection(ns, made)
  <2>1. \A i, j \in ns : f[i] = f[j] => i = j
    <3>1. \A i \in ns : f[i].u = UidFrom(next, ns, i)
      OBVIOUS
    <3>2. \A i, j \in ns : UidFrom(next, ns, i) = UidFrom(next, ns, j) => i = j
      BY UidFromProperties
    <3> HIDE DEF f
    <3>3. ASSUME NEW i \in ns, NEW j \in ns, f[i] = f[j] PROVE i = j
      BY <3>1, <3>2, <3>3
    <3> QED
      BY <3>3
  <2>2. f \in [ns -> made]
    BY <1>1
  <2>3. \A m \in made : \E i \in ns : f[i] = m
    BY <1>1
  <2> HIDE DEF f, made
  <2> QED
    BY <2>1, <2>2, <2>3 DEF Bijection, Injection, Surjection, IsInjective
<1>3. IsFiniteSet(made) /\ Cardinality(made) = Cardinality(ns)
  BY <1>2, BelowCount, FS_Bijection DEF ExistsBijection
<1> QED
  BY <1>3

\* UIDs for the positions ns1 of one list, and then for ns2 of another one, are
\* new, and each belongs to the message it was made for.
MadeFor(ns1, f1, ns2, f2) ==
    /\ nextUid' \in Nat /\ nextUid <= nextUid' /\ nextUid' <= MaxUid + 1
    /\ \A i \in ns1 : LET u == NewUid(ns1, i) IN
         u \in Uids /\ nextUid <= u /\ u < nextUid' /\ bodyOf'[u] = {f1[i].b}
    /\ \A i \in ns2 : LET u == UidFrom(nextUid + Cardinality(ns1), ns2, i) IN
         u \in Uids /\ nextUid <= u /\ u < nextUid' /\ bodyOf'[u] = {f2[i].b}
    /\ \A u \in Uids : u < nextUid => bodyOf'[u] = bodyOf[u]
    /\ \A u \in Uids : u >= nextUid' => bodyOf'[u] = {}
    /\ \A u \in Uids : \A x \in bodyOf'[u] :
         \/ x \in bodyOf[u]
         \/ \E i \in ns1 : NewUid(ns1, i) = u /\ x = f1[i].b
         \/ \E i \in ns2 : UidFrom(nextUid + Cardinality(ns1), ns2, i) = u /\ x = f2[i].b

LEMMA MakeUidsProperties ==
    ASSUME nextUid \in Nat \ {0}, bodyOf \in [Uids -> SUBSET Bodies],
           \A u \in Uids : u >= nextUid => bodyOf[u] = {},
           NEW f1, Len(f1) \in Nat, NEW ns1, ns1 \subseteq 1..Len(f1),
           NEW f2, Len(f2) \in Nat, NEW ns2, ns2 \subseteq 1..Len(f2),
           MakeUids(Made(nextUid, ns1, f1) \cup Made(nextUid + Cardinality(ns1), ns2, f2))
    PROVE  MadeFor(ns1, f1, ns2, f2)
<1> DEFINE n1 == Len(f1)
           n2 == Len(f2)
           mid == nextUid + Cardinality(ns1)
           u1(i) == UidFrom(nextUid, ns1, i)
           u2(i) == UidFrom(mid, ns2, i)
           m1 == Made(nextUid, ns1, f1)
           m2 == Made(mid, ns2, f2)
           c1 == Cardinality(ns1)
           c2 == Cardinality(ns2)
<1>0. n1 \in Nat /\ ns1 \in SUBSET (1..n1) /\ n2 \in Nat /\ ns2 \in SUBSET (1..n2)
  OBVIOUS
<1> HIDE DEF n1, n2
<1>1. c1 \in Nat /\ c2 \in Nat /\ mid \in Nat /\ mid = nextUid + c1 /\ MaxUid \in Nat
  <2>1. c1 \in Nat
    BY <1>0, BelowCount
  <2>2. c2 \in Nat
    BY <1>0, BelowCount
  <2> QED
    BY <2>1, <2>2, FolderAssumption
<1>2. /\ \A i \in ns1 : u1(i) \in nextUid..(mid - 1)
      /\ \A i, j \in ns1 : u1(i) = u1(j) => i = j
  <2>1. /\ \A i \in ns1 : u1(i) \in nextUid..(nextUid + c1 - 1)
        /\ \A i, j \in ns1 : u1(i) = u1(j) => i = j
    <3>1. nextUid \in Nat
      OBVIOUS
    <3> QED
      BY ONLY <1>0, <3>1, UidFromProperties
  <2> QED
    BY <1>1, <2>1
<1>3. /\ \A i \in ns2 : u2(i) \in mid..(mid + c2 - 1)
      /\ \A i, j \in ns2 : u2(i) = u2(j) => i = j
  BY <1>0, <1>1, UidFromProperties
<1>4. /\ IsFiniteSet(m1) /\ Cardinality(m1) = c1
      /\ \A m \in m1 : \E i \in ns1 : m.u = u1(i) /\ m.b = f1[i].b
      /\ \A i \in ns1 : \E m \in m1 : m.u = u1(i) /\ m.b = f1[i].b
  <2>1. nextUid \in Nat
    OBVIOUS
  <2>2. IsFiniteSet(m1) /\ Cardinality(m1) = c1
    BY <1>0, <2>1, MadeFinite
  <2>3. m1 = {[u |-> u1(i), b |-> f1[i].b] : i \in ns1}
    BY DEF Made
  <2> HIDE DEF m1, u1, c1
  <2>4. ASSUME NEW m \in m1 PROVE \E i \in ns1 : m.u = u1(i) /\ m.b = f1[i].b
    BY <2>3
  <2>5. ASSUME NEW i \in ns1 PROVE \E m \in m1 : m.u = u1(i) /\ m.b = f1[i].b
    <3>1. [u |-> u1(i), b |-> f1[i].b] \in m1
      BY <2>3
    <3> QED
      BY <3>1
  <2> QED
    BY <2>2, <2>4, <2>5
<1>5. /\ IsFiniteSet(m2) /\ Cardinality(m2) = c2
      /\ \A m \in m2 : \E i \in ns2 : m.u = u2(i) /\ m.b = f2[i].b
      /\ \A i \in ns2 : \E m \in m2 : m.u = u2(i) /\ m.b = f2[i].b
  <2>1. mid \in Nat
    BY <1>1
  <2>2. IsFiniteSet(m2) /\ Cardinality(m2) = c2
    BY <1>0, <2>1, MadeFinite
  <2>3. m2 = {[u |-> u2(i), b |-> f2[i].b] : i \in ns2}
    BY DEF Made
  <2> HIDE DEF m2, u2, c2
  <2>4. ASSUME NEW m \in m2 PROVE \E i \in ns2 : m.u = u2(i) /\ m.b = f2[i].b
    BY <2>3
  <2>5. ASSUME NEW i \in ns2 PROVE \E m \in m2 : m.u = u2(i) /\ m.b = f2[i].b
    <3>1. [u |-> u2(i), b |-> f2[i].b] \in m2
      BY <2>3
    <3> QED
      BY <3>1
  <2> QED
    BY <2>2, <2>4, <2>5
<1>6. /\ nextUid + Cardinality(m1 \cup m2) <= MaxUid + 1
      /\ nextUid' = nextUid + Cardinality(m1 \cup m2)
      /\ bodyOf' = [u \in Uids |-> bodyOf[u] \cup {m.b : m \in {x \in m1 \cup m2 : x.u = u}}]
  BY DEF MakeUids
<1>7. \A i : NewUid(ns1, i) = u1(i)
  BY DEF NewUid
<1> HIDE DEF u1, u2, m1, m2, c1, c2, mid
<1>8. m1 \cap m2 = {}
  <2>1. ASSUME NEW m \in m1, m \in m2 PROVE FALSE
    <3>1. PICK i \in ns1 : m.u = u1(i)
      BY <1>4
    <3>2. PICK j \in ns2 : m.u = u2(j)
      BY <1>5, <2>1
    <3>3. u1(i) \in nextUid..(mid - 1) /\ u2(j) \in mid..(mid + c2 - 1) /\ u1(i) = u2(j)
      BY <1>2, <1>3, <3>1, <3>2
    <3> QED
      BY <1>1, <3>3
  <2> QED
    BY <2>1
<1>9. Cardinality(m1 \cup m2) = c1 + c2
  <2>1. Cardinality(m1 \cup m2) = Cardinality(m1) + Cardinality(m2) - Cardinality(m1 \cap m2)
    BY <1>4, <1>5, FS_Union
  <2>2. Cardinality(m1 \cap m2) = 0
    BY <1>8, FS_EmptySet
  <2> QED
    BY <1>1, <1>4, <1>5, <2>1, <2>2
<1>10. nextUid' = mid + c2 /\ nextUid' \in Nat /\ nextUid <= nextUid' /\ nextUid' <= MaxUid + 1
  BY <1>1, <1>6, <1>9
<1>11. \A i \in ns1 : u1(i) \in Uids /\ nextUid <= u1(i) /\ u1(i) < mid /\ u1(i) < nextUid'
  <2>1. SUFFICES ASSUME NEW i \in ns1
                 PROVE  u1(i) \in Uids /\ nextUid <= u1(i) /\ u1(i) < mid /\ u1(i) < nextUid'
    OBVIOUS
  <2>2. u1(i) \in nextUid..(mid - 1)
    BY <1>2
  <2> QED
    BY <1>1, <1>10, <2>2 DEF Uids
<1>12. \A i \in ns2 : u2(i) \in Uids /\ nextUid <= u2(i) /\ mid <= u2(i) /\ u2(i) < nextUid'
  <2>1. SUFFICES ASSUME NEW i \in ns2
                 PROVE  u2(i) \in Uids /\ nextUid <= u2(i) /\ mid <= u2(i) /\ u2(i) < nextUid'
    OBVIOUS
  <2>2. u2(i) \in mid..(mid + c2 - 1)
    BY <1>3
  <2> QED
    BY <1>1, <1>10, <2>2 DEF Uids
<1>13. \A u \in Uids : \A x : x \in bodyOf'[u] <=>
         \/ x \in bodyOf[u]
         \/ \E m \in m1 \cup m2 : m.u = u /\ x = m.b
  BY <1>6
<1>14. \A u \in Uids : \A x : x \in bodyOf'[u] <=>
         \/ x \in bodyOf[u]
         \/ \E i \in ns1 : u1(i) = u /\ x = f1[i].b
         \/ \E i \in ns2 : u2(i) = u /\ x = f2[i].b
  <2>1. SUFFICES ASSUME NEW u \in Uids, NEW x
                 PROVE  x \in bodyOf'[u] <=>
                          \/ x \in bodyOf[u]
                          \/ \E i \in ns1 : u1(i) = u /\ x = f1[i].b
                          \/ \E i \in ns2 : u2(i) = u /\ x = f2[i].b
    OBVIOUS
  <2>2. (\E m \in m1 : m.u = u /\ x = m.b) <=> (\E i \in ns1 : u1(i) = u /\ x = f1[i].b)
    BY <1>4
  <2>3. (\E m \in m2 : m.u = u /\ x = m.b) <=> (\E i \in ns2 : u2(i) = u /\ x = f2[i].b)
    BY <1>5
  <2> QED
    BY <1>13, <2>2, <2>3
<1>15. \A i \in ns1, j \in ns2 : u1(i) # u2(j)
  <2>1. SUFFICES ASSUME NEW i \in ns1, NEW j \in ns2 PROVE u1(i) # u2(j)
    OBVIOUS
  <2>2. u1(i) \in nextUid..(mid - 1) /\ u2(j) \in mid..(mid + c2 - 1)
    BY <1>2, <1>3
  <2> QED
    BY <1>1, <2>2
<1>16. ASSUME NEW i \in ns1 PROVE bodyOf'[u1(i)] = {f1[i].b}
  <2>1. bodyOf[u1(i)] = {} /\ u1(i) \in Uids
    BY <1>1, <1>11
  <2>2. \A x : x \in bodyOf'[u1(i)] <=> x = f1[i].b
    BY <1>2, <1>14, <1>15, <2>1
  <2> QED
    BY <2>2
<1>17. ASSUME NEW i \in ns2 PROVE bodyOf'[u2(i)] = {f2[i].b}
  <2>1. bodyOf[u2(i)] = {} /\ u2(i) \in Uids
    BY <1>1, <1>12
  <2>2. \A x : x \in bodyOf'[u2(i)] <=> x = f2[i].b
    BY <1>3, <1>14, <1>15, <2>1
  <2> QED
    BY <2>2
<1>18. ASSUME NEW u \in Uids, u < nextUid \/ u >= nextUid' PROVE bodyOf'[u] = bodyOf[u]
  <2>1. \A i \in ns1 : u1(i) # u
    BY <1>10, <1>11, <1>18 DEF Uids
  <2>2. \A i \in ns2 : u2(i) # u
    BY <1>10, <1>12, <1>18 DEF Uids
  <2>3. \A x : x \in bodyOf'[u] <=> x \in bodyOf[u]
    BY <1>14, <2>1, <2>2
  <2> QED
    BY <1>6, <2>3
<1>19. ASSUME NEW u \in Uids, u >= nextUid' PROVE bodyOf'[u] = {}
  <2>1. u >= nextUid
    BY <1>10, <1>19 DEF Uids
  <2> QED
    BY <1>18, <1>19, <2>1
<1> QED
  BY <1>7, <1>10, <1>11, <1>12, <1>14, <1>16, <1>17, <1>18, <1>19 DEF u2, mid, MadeFor

-----------------------------------------------------------------------------
(* The queue.                                                              *)

LEMMA PopQueue ==
    ASSUME NEW works, NEW q, QueueIn(q, works), q # <<>>
    PROVE  /\ QueueIn(Tail(q), works)
           /\ Head(q) \in Tasks /\ Work(Head(q)) \in works
           /\ \A i \in 1..Len(Tail(q)) : ~SameMail(Tail(q)[i], Head(q))
           /\ Len(q) \in Nat /\ Len(Tail(q)) = Len(q) - 1
<1>1. q \in Seq(Tasks)
  BY DEF QueueIn
<1>2. /\ Len(q) \in Nat \ {0} /\ Len(Tail(q)) = Len(q) - 1
      /\ Tail(q) \in Seq(Tasks)
      /\ \A i \in 1..Len(Tail(q)) : Tail(q)[i] = q[i + 1]
      /\ Head(q) = q[1] /\ Head(q) \in Tasks
  BY <1>1, HeadTailProperties, LenProperties, EmptySeq
<1>3. \A i \in 1..Len(Tail(q)) : i + 1 \in 1..Len(q) /\ i + 1 # 1 /\ 1 \in 1..Len(q)
  BY <1>2
<1>4. \A i, j \in 1..Len(Tail(q)) : SameMail(Tail(q)[i], Tail(q)[j]) => i = j
  <2>1. SUFFICES ASSUME NEW i \in 1..Len(Tail(q)), NEW j \in 1..Len(Tail(q)),
                        SameMail(q[i + 1], q[j + 1])
                 PROVE  i = j
    BY <1>2
  <2>2. i + 1 = j + 1
    BY <1>3, <2>1 DEF QueueIn
  <2> QED
    BY <1>2, <2>2
<1>5. \A i \in 1..Len(Tail(q)) : ~SameMail(Tail(q)[i], Head(q))
  BY <1>2, <1>3 DEF QueueIn
<1>6. \A i \in 1..Len(Tail(q)) : Work(Tail(q)[i]) \in works
  BY <1>2, <1>3 DEF QueueIn
<1>7. Work(Head(q)) \in works
  BY <1>2 DEF QueueIn
<1> QED
  BY <1>2, <1>4, <1>5, <1>6, <1>7 DEF QueueIn

LEMMA AddQueue ==
    ASSUME NEW works, NEW q, QueueIn(q, works),
           NEW t \in Tasks, Work(t) \in works, \A i \in 1..Len(q) : ~SameMail(q[i], t)
    PROVE  QueueIn(Append(q, t), works) /\ Len(q) \in Nat /\ Len(Append(q, t)) = Len(q) + 1
<1> DEFINE q2 == Append(q, t)
<1>1. q \in Seq(Tasks)
  BY DEF QueueIn
<1>2. /\ Len(q) \in Nat /\ q2 \in Seq(Tasks) /\ Len(q2) = Len(q) + 1
      /\ \A i \in 1..Len(q) : q2[i] = q[i]
      /\ q2[Len(q) + 1] = t
  BY <1>1, LenProperties, AppendProperties
<1> HIDE DEF q2
<1>3. \A i \in 1..Len(q2) : i \in 1..Len(q) \/ i = Len(q) + 1
  BY <1>2
<1>4. \A t1, t2 : SameMail(t1, t2) => SameMail(t2, t1)
  BY DEF SameMail
<1>5. \A i, j \in 1..Len(q2) : SameMail(q2[i], q2[j]) => i = j
  <2>1. SUFFICES ASSUME NEW i \in 1..Len(q2), NEW j \in 1..Len(q2), SameMail(q2[i], q2[j])
                 PROVE  i = j
    OBVIOUS
  <2>2. CASE i \in 1..Len(q) /\ j \in 1..Len(q)
    BY <1>2, <2>1, <2>2 DEF QueueIn
  <2>3. CASE i \in 1..Len(q) /\ j = Len(q) + 1
    BY <1>2, <2>1, <2>3
  <2>4. CASE i = Len(q) + 1 /\ j \in 1..Len(q)
    BY <1>2, <1>4, <2>1, <2>4
  <2> QED
    BY <1>3, <2>2, <2>3, <2>4
<1>6. \A i \in 1..Len(q2) : Work(q2[i]) \in works
  BY <1>2, <1>3 DEF QueueIn
<1> QED
  BY <1>2, <1>5, <1>6 DEF QueueIn, q2

\* The first task goes to the end, for the same work.
LEMMA MoveQueue ==
    ASSUME NEW works, NEW q, QueueIn(q, works), q # <<>>,
           NEW t \in Tasks, Work(t) = Work(Head(q))
    PROVE  /\ QueueIn(Append(Tail(q), t), works)
           /\ Len(Append(Tail(q), t)) = Len(q)
<1>1. /\ QueueIn(Tail(q), works) /\ Work(Head(q)) \in works
      /\ \A i \in 1..Len(Tail(q)) : ~SameMail(Tail(q)[i], Head(q))
      /\ Len(q) \in Nat /\ Len(Tail(q)) = Len(q) - 1
  BY PopQueue
<1>2. \A i \in 1..Len(Tail(q)) : ~SameMail(Tail(q)[i], t)
  BY <1>1 DEF SameMail
<1>3. QueueIn(Append(Tail(q), t), works) /\ Len(Append(Tail(q), t)) = Len(Tail(q)) + 1
  BY <1>1, <1>2, AddQueue
<1> QED
  BY <1>1, <1>3

\* Works of another set, as long as those of the queue are among them.
LEMMA ChangeWorks ==
    ASSUME NEW works, NEW q, QueueIn(q, works),
           NEW others, \A i \in 1..Len(q) : Work(q[i]) \in others
    PROVE  QueueIn(q, others)
  BY DEF QueueIn

\* The kinds of tasks, and what they have.
LEMMA TaskKinds ==
    ASSUME NEW t \in Tasks
    PROVE  /\ t.k \in OpenKinds \cup LockKinds
           /\ t.k = "reopen" => t.task \in LockTasks /\ t.task.k \in LockKinds /\ Work(t) = t.task
           /\ t.k # "reopen" => t \in Works /\ Work(t) = t
           /\ t.k \in LockKinds => t \in LockTasks
           /\ t.k = "add" => t.b \in Bodies /\ t.d \in BOOLEAN
           /\ t.k = "expunge" => t.purge \in BOOLEAN /\ t.del \subseteq Uids
<1>1. \A x \in LockTasks : x.k \in LockKinds
  BY DEF LockTasks, LockKinds
<1>2. CASE t \in [k : {"reopen"}, task : LockTasks]
  BY <1>1, <1>2 DEF OpenKinds, LockKinds, Work
<1>3. CASE t \in [k : {"open", "check"}]
  BY <1>3 DEF OpenKinds, LockKinds, Work, Works
<1>4. CASE t \in LockTasks
  <2>1. t.k \in LockKinds /\ t \in Works
    BY <1>1, <1>4 DEF Works
  <2>2. t.k = "add" => t.b \in Bodies /\ t.d \in BOOLEAN
    BY <1>4 DEF LockTasks
  <2>3. t.k = "expunge" => t.purge \in BOOLEAN /\ t.del \subseteq Uids
    BY <1>4 DEF LockTasks
  <2> QED
    BY <1>4, <2>1, <2>2, <2>3 DEF LockKinds, Work
<1> QED
  BY <1>2, <1>3, <1>4 DEF Tasks, Works

\* The first task.
LEMMA FrontFits ==
    ASSUME QueueInv, queue # <<>>
    PROVE  /\ Front \in Tasks /\ Work(Front) \in Works /\ Fit(Work(Front))
           /\ QueueIn(Tail(queue), {t \in Works : Fit(t)})
           /\ \A i \in 1..Len(Tail(queue)) : ~SameMail(Tail(queue)[i], Front)
           /\ Len(queue) \in Nat /\ Len(Tail(queue)) = Len(queue) - 1
<1> DEFINE fits == {t \in Works : Fit(t)}
<1>1. QueueIn(queue, fits)
  BY DEF QueueInv
<1> HIDE DEF fits
<1>2. /\ QueueIn(Tail(queue), fits)
      /\ Front \in Tasks /\ Work(Front) \in fits
      /\ \A i \in 1..Len(Tail(queue)) : ~SameMail(Tail(queue)[i], Front)
      /\ Len(queue) \in Nat /\ Len(Tail(queue)) = Len(queue) - 1
  BY <1>1, PopQueue DEF Front
<1> QED
  BY <1>2 DEF fits

-----------------------------------------------------------------------------
(* The types of what is in the sequences.                                  *)

LEMMA Members ==
    ASSUME TypeOK
    PROVE  /\ Len(inbox) \in Nat
           /\ \A i \in 1..Len(inbox) :
                inbox[i].b \in Bodies /\ inbox[i].u \in 0..MaxUid /\ inbox[i].d \in BOOLEAN
           /\ Len(scratch) \in Nat
           /\ \A i \in 1..Len(scratch) :
                scratch[i].b \in Bodies /\ scratch[i].u \in Uids /\ scratch[i].d \in BOOLEAN
           /\ Len(spool) \in Nat
           /\ \A i \in 1..Len(spool) : spool[i] \in Bodies
           /\ \A b \in Bodies : spoolTag[b] \in 0..MaxUid
           /\ Len(fmi) \in Nat
           /\ \A i \in 1..Len(fmi) : fmi[i].u \in Uids /\ fmi[i].d \in BOOLEAN
           /\ Len(index) \in Nat
           /\ \A i \in 1..Len(index) : index[i].u \in Uids /\ index[i].d \in BOOLEAN
<1>1. /\ inbox \in Seq(Message) /\ scratch \in Seq(Tagged) /\ spool \in Seq(Bodies)
      /\ fmi \in Seq(Tag) /\ index \in Seq(Tag)
  BY DEF TypeOK, Message, Tagged, Tag
<1>2. Len(inbox) \in Nat /\ Len(scratch) \in Nat /\ Len(spool) \in Nat
      /\ Len(fmi) \in Nat /\ Len(index) \in Nat
  BY <1>1, LenProperties
<1>3. \A i \in 1..Len(inbox) : inbox[i] \in Message
  BY <1>1, ElementOfSeq
<1>4. \A i \in 1..Len(scratch) : scratch[i] \in Tagged
  BY <1>1, ElementOfSeq
<1>5. \A i \in 1..Len(spool) : spool[i] \in Bodies
  BY <1>1, ElementOfSeq
<1>6. \A i \in 1..Len(fmi) : fmi[i] \in Tag
  BY <1>1, ElementOfSeq
<1>7. \A i \in 1..Len(index) : index[i] \in Tag
  BY <1>1, ElementOfSeq
<1>8. \A b \in Bodies : spoolTag[b] \in 0..MaxUid
  BY DEF TypeOK
<1> QED
  BY <1>2, <1>3, <1>4, <1>5, <1>6, <1>7, <1>8 DEF Message, Tagged, Tag

LEMMA InitBase == Init => BaseInv
<1> SUFFICES ASSUME Init PROVE BaseInv
  OBVIOUS
<1>1. \A S : <<>> \in Seq(S)
  OBVIOUS
<1>2. Len(<<>>) = 0 /\ 1..0 = {}
  OBVIOUS
<1>3. TypeOK
  <2>1. Len(inbox) = 0 /\ Len(queue) = 0
    BY <1>2 DEF Init
  <2>2. /\ inbox \in Seq([b : Bodies, u : 0..MaxUid, d : BOOLEAN])
        /\ scratch \in Seq([b : Bodies, u : Uids, d : BOOLEAN])
        /\ spool \in Seq(Bodies)
        /\ fmi \in Seq([u : Uids, d : BOOLEAN])
        /\ index \in Seq([u : Uids, d : BOOLEAN])
        /\ spoolTag \in [Bodies -> 0..MaxUid]
    BY <1>1, FolderAssumption DEF Init
  <2>3. phase \in Phases /\ orig \in 0..Len(inbox)
    BY <2>1 DEF Init, Phases
  <2>4. isOpen \in BOOLEAN /\ dirty \in BOOLEAN /\ changed \in BOOLEAN /\ multi \in BOOLEAN
    BY DEF Init
  <2>5. Len(queue) <= MaxQueue /\ nextUid \in 1..(MaxUid + 1) /\ crashes \in 0..MaxCrashes
    BY <2>1, FolderAssumption DEF Init
  <2>6. bodyOf \in [Uids -> SUBSET Bodies] /\ mail \subseteq Bodies /\ asked \subseteq mail
    BY DEF Init
  <2> QED
    BY <2>2, <2>3, <2>4, <2>5, <2>6 DEF TypeOK
<1>4. QueueInv
  BY <1>1, <1>2 DEF Init, QueueInv, QueueIn
<1>5. PhaseInv
  BY DEF Init, PhaseInv
<1>6. UidInv /\ BodyInv
  BY <1>2 DEF Init, UidInv, BodyInv
<1>7. CopyInv
  BY DEF Init, CopyInv
<1>8. DupInv
  BY <1>2 DEF Init, DupInv
<1> QED
  BY <1>3, <1>4, <1>5, <1>6, <1>7, <1>8 DEF BaseInv, SafeInv

-----------------------------------------------------------------------------
(* Steps that leave the files alone.                                       *)

LEMMA FitKept ==
    ASSUME NEW t, Fit(t), UNCHANGED <<mail, nextUid, bodyOf, isOpen>>, asked \subseteq asked'
    PROVE  Fit(t)'
  BY DEF Fit

\* What is in the queue is still fit when the history goes on.
LEMMA QueueKept ==
    ASSUME QueueIn(queue', {t \in Works : Fit(t)}),
           UNCHANGED <<mail, nextUid, bodyOf, isOpen>>, asked \subseteq asked'
    PROVE  QueueInv'
<1> DEFINE old == {t \in Works : Fit(t)}
           new == {t \in Works : Fit(t)'}
<1>1. \A t \in Works : Fit(t) => Fit(t)'
  BY DEF Fit
<1>2. \A i \in 1..Len(queue') : Work(queue'[i]) \in new
  BY <1>1 DEF QueueIn
<1>3. QueueIn(queue', new)
  BY <1>2 DEF QueueIn
<1> QED
  BY <1>3 DEF QueueInv

LEMMA QuietBase ==
    ASSUME BaseInv, Alive, UNCHANGED <<files, isOpen, fmi, nextUid, bodyOf, mail, crashes>>,
           asked' \subseteq mail,
           QueueInv', Len(queue') <= MaxQueue,
           index' \in Seq(Tag), \A i \in 1..Len(index') : index'[i].u < nextUid,
           dirty' \in BOOLEAN, changed' \in BOOLEAN, multi' \in BOOLEAN
    PROVE  BaseInv'
<1> USE DEF BaseInv, SafeInv
<1>1. UNCHANGED <<inbox, spool, spoolTag, scratch, phase, orig>> /\ phase = "none"
  BY DEF files, Alive
<1>2. TypeOK'
  BY <1>1 DEF TypeOK, Tag
<1>3. PhaseInv'
  BY <1>1 DEF PhaseInv
<1>4. UidInv' /\ BodyInv'
  BY <1>1 DEF UidInv, BodyInv
<1>5. CopyInv' /\ DupInv'
  BY <1>1 DEF CopyInv, DupInv
<1> QED
  BY <1>2, <1>3, <1>4, <1>5

\* The application asks for something.
LEMMA InstallBase ==
    ASSUME BaseInv, Alive, NEW t \in Works, Install(t), t.k = "open" \/ isOpen,
           t.k = "add" => t.b \notin mail /\ ~Pending(t.b),
           t.k = "expunge" => \A u \in t.del : u < nextUid /\ bodyOf[u] \subseteq asked',
           asked \subseteq asked', asked' \subseteq mail,
           UNCHANGED <<files, isOpen, lists, history>>
    PROVE  BaseInv'
<1> USE DEF BaseInv, SafeInv
<1>1. UNCHANGED <<nextUid, bodyOf, mail, isOpen, fmi, index, dirty, changed, multi, crashes>>
  BY DEF lists, history
<1>2. Fit(t)'
  BY <1>1 DEF Fit
<1>3. t \in Tasks /\ Work(t) = t
  <2>1. t \in Tasks /\ t.k # "reopen"
    BY DEF Tasks, Works, LockTasks
  <2> QED
    BY <2>1 DEF Work
<1> DEFINE fits == {x \in Works : Fit(x)'}
<1>4. QueueIn(queue, fits)
  <2>1. \A x \in Works : Fit(x) => Fit(x)'
    BY <1>1 DEF Fit
  <2> QED
    BY <2>1 DEF QueueInv, QueueIn
<1>5. \A i \in 1..Len(queue) : ~SameMail(queue[i], t)
  BY <1>3 DEF Pending, Adds, SameMail, Work
<1>6. queue' = Append(queue, t) /\ Len(queue) < MaxQueue
  BY DEF Install
<1>7. QueueIn(queue', fits) /\ Len(queue) \in Nat /\ Len(queue') = Len(queue) + 1
  <2>1. Work(t) \in fits
    BY <1>2, <1>3
  <2> HIDE DEF fits
  <2> QED
    BY <1>3, <1>4, <1>5, <1>6, <2>1, AddQueue
<1>8. QueueInv'
  BY <1>7 DEF QueueInv
<1>9. Len(queue') <= MaxQueue
  BY <1>6, <1>7, FolderAssumption
<1>10. /\ index' \in Seq(Tag) /\ \A i \in 1..Len(index') : index'[i].u < nextUid
       /\ dirty' \in BOOLEAN /\ changed' \in BOOLEAN /\ multi' \in BOOLEAN
  BY <1>1 DEF TypeOK, Tag, UidInv
<1> QED
  BY <1>1, <1>8, <1>9, <1>10, QuietBase

LEMMA RequestsBase ==
    ASSUME BaseInv, Requests
    PROVE  BaseInv'
<1> USE DEF BaseInv, SafeInv
<1>1. asked \subseteq mail
  BY DEF TypeOK
<1>2. CASE RequestOpen
  <2>1. OpenTask \in Works /\ OpenTask.k = "open"
    BY DEF OpenTask, Works
  <2> QED
    BY <1>1, <1>2, <2>1, InstallBase DEF RequestOpen
<1>3. ASSUME NEW t \in Works, Request(t), t.k \notin {"add", "expunge"} PROVE BaseInv'
  BY <1>1, <1>3, InstallBase DEF Request
<1>4. CASE Request(CheckNewMailTask)
  <2>1. CheckNewMailTask \in Works /\ CheckNewMailTask.k = "check"
    BY DEF CheckNewMailTask, Works
  <2> QED
    BY <1>3, <1>4, <2>1
<1>5. CASE RequestRead
  <2>1. /\ ReadTask \in Works /\ ReadTask.k = "read"
        /\ MultiLock \in Works /\ MultiLock.k = "multilock"
    BY DEF ReadTask, MultiLock, Works, LockTasks
  <2> QED
    BY <1>3, <1>5, <2>1 DEF RequestRead
<1>6. CASE RequestExpunge
  <2> DEFINE del == {index[i].u : i \in {j \in 1..Len(index) : index[j].d}}
             t == ExpungeTask(TRUE, del)
  <2>1. \A u \in del : u \in Uids /\ u < nextUid
    BY Members DEF UidInv
  <2>2. asked' = asked \cup UNION {bodyOf[u] : u \in del}
    BY <1>6 DEF RequestExpunge
  <2>3. /\ asked \subseteq asked' /\ asked' \subseteq mail
        /\ \A u \in del : bodyOf[u] \subseteq asked'
    BY <1>1, <2>1, <2>2 DEF BodyInv
  <2>4. Alive /\ isOpen /\ Install(t) /\ UNCHANGED <<files, isOpen, lists, history>>
    BY <1>6 DEF RequestExpunge
  <2> HIDE DEF del
  <2>5. t \in Works /\ t.k = "expunge" /\ t.del = del
    BY <2>1 DEF ExpungeTask, Works, LockTasks
  <2> HIDE DEF t
  <2> QED
    BY <2>1, <2>3, <2>4, <2>5, InstallBase
<1>7. CASE RequestSave
  <2> DEFINE t == ExpungeTask(FALSE, {})
  <2>1. t \in Works /\ t.k = "expunge" /\ t.del = {}
    BY DEF ExpungeTask, Works, LockTasks
  <2>2. Request(t)
    BY <1>7 DEF RequestSave
  <2> HIDE DEF t
  <2> QED
    BY <1>1, <2>1, <2>2, InstallBase DEF Request
<1>8. ASSUME NEW b \in Bodies, NEW d \in BOOLEAN, RequestAdd(b, d) PROVE BaseInv'
  <2> DEFINE t == AddTask(b, d)
  <2>1. t \in Works /\ t.k = "add" /\ t.b = b
    BY DEF AddTask, Works, LockTasks
  <2>2. Request(t) /\ b \notin mail /\ ~Pending(b)
    BY <1>8 DEF RequestAdd, Fresh
  <2> HIDE DEF t
  <2> QED
    BY <1>1, <2>1, <2>2, InstallBase DEF Request
<1>9. ASSUME NEW i \in 1..Len(index), Mark(i) PROVE BaseInv'
  <2>1. index \in Seq(Tag) /\ index[i] \in Tag
    BY ElementOfSeq DEF TypeOK, Tag
  <2>2. index' = [index EXCEPT ![i] = [index[i] EXCEPT !.d = ~@]]
    BY <1>9 DEF Mark
  <2>3. [index[i] EXCEPT !.d = ~@] \in Tag /\ [index[i] EXCEPT !.d = ~@].u = index[i].u
    BY <2>1 DEF Tag
  <2>4. /\ index' \in Seq(Tag) /\ Len(index') = Len(index)
        /\ \A j \in 1..Len(index) : index'[j].u = index[j].u
    BY <2>1, <2>2, <2>3, ExceptSeq
  <2>5. /\ Alive /\ UNCHANGED <<files, isOpen, fmi, nextUid, bodyOf, mail, crashes, asked, queue>>
        /\ dirty' \in BOOLEAN /\ changed' \in BOOLEAN /\ multi' \in BOOLEAN
    BY <1>9 DEF Mark, history, TypeOK
  <2>6. QueueInv' /\ Len(queue') <= MaxQueue
    <3>1. QueueIn(queue', {t \in Works : Fit(t)})
      BY <2>5 DEF QueueInv
    <3> QED
      BY <2>5, <3>1, QueueKept DEF TypeOK
  <2>7. \A j \in 1..Len(index') : index'[j].u < nextUid
    BY <2>4 DEF UidInv
  <2> QED
    BY <1>1, <2>4, <2>5, <2>6, <2>7, QuietBase
<1> QED
  BY <1>2, <1>4, <1>5, <1>6, <1>7, <1>8, <1>9 DEF Requests

\* A task ends, or goes to the end of the queue, and leaves the files alone.
LEMMA TaskBase ==
    ASSUME BaseInv, Alive, queue # <<>>,
           \/ queue' = Tail(queue)
           \/ \E t \in Tasks : Work(t) = Work(Front) /\ queue' = Append(Tail(queue), t),
           UNCHANGED <<files, isOpen, fmi, index, history, asked>>,
           dirty' \in BOOLEAN, changed' \in BOOLEAN, multi' \in BOOLEAN
    PROVE  BaseInv'
<1> USE DEF BaseInv, SafeInv
<1> DEFINE fits == {t \in Works : Fit(t)}
<1>1. QueueIn(queue, fits)
  BY DEF QueueInv
<1>2. UNCHANGED <<nextUid, bodyOf, mail, crashes>>
  BY DEF history
<1> HIDE DEF fits
<1>3. QueueIn(queue', fits) /\ Len(queue') <= MaxQueue
  <2>1. Len(queue) \in Nat /\ Len(queue) <= MaxQueue /\ MaxQueue \in Nat
    BY <1>1, PopQueue, FolderAssumption DEF TypeOK
  <2>2. CASE queue' = Tail(queue)
    BY <1>1, <2>1, <2>2, PopQueue
  <2>3. ASSUME NEW t \in Tasks, Work(t) = Work(Front), queue' = Append(Tail(queue), t)
        PROVE  QueueIn(queue', fits) /\ Len(queue') <= MaxQueue
    BY <1>1, <2>1, <2>3, MoveQueue DEF Front
  <2> QED
    BY <2>2, <2>3
<1>4. QueueInv'
  BY <1>2, <1>3, QueueKept DEF fits
<1>5. /\ index' \in Seq(Tag) /\ \A i \in 1..Len(index') : index'[i].u < nextUid
      /\ asked' \subseteq mail
  BY DEF TypeOK, Tag, UidInv
<1> QED
  BY <1>2, <1>3, <1>4, <1>5, QuietBase

LEMMA QuietTasksBase ==
    ASSUME BaseInv, \/ LockReopen \/ Read \/ MultiLocked \/ AddFails \/ MultiLockRelease
                    \/ (Refused /\ Front.k # "reopen")
    PROVE  BaseInv'
<1>1. dirty \in BOOLEAN /\ changed \in BOOLEAN /\ multi \in BOOLEAN
  BY DEF BaseInv, SafeInv, TypeOK
<1>2. CASE LockReopen
  <2>1. /\ Alive /\ queue # <<>> /\ Front.k \in LockKinds
        /\ queue' = Append(Tail(queue), ReopenFor(Front))
        /\ UNCHANGED <<files, isOpen, lists, history, asked>>
    BY <1>2 DEF LockReopen, Handling
  <2>2. Front \in Tasks
    BY <2>1, FrontFits DEF BaseInv, SafeInv
  <2>3. Front \in LockTasks /\ Work(Front) = Front
    BY <2>1, <2>2, TaskKinds DEF LockKinds
  <2>4. ReopenFor(Front) \in Tasks /\ Work(ReopenFor(Front)) = Front
    BY <2>3 DEF ReopenFor, Tasks, Work
  <2> QED
    BY <1>1, <2>1, <2>3, <2>4, TaskBase DEF lists
<1>3. CASE Read \/ MultiLocked \/ AddFails
  BY <1>1, <1>3, TaskBase DEF Read, MultiLocked, AddFails, LockHandling, Handling
<1>4. CASE MultiLockRelease
  <2>1. /\ Alive /\ UNCHANGED <<files, isOpen, fmi, index, dirty, changed, queue, history, asked>>
        /\ multi' = FALSE
    BY <1>4 DEF MultiLockRelease
  <2>2. UNCHANGED <<nextUid, bodyOf, mail, crashes>>
    BY <2>1 DEF history
  <2>3. QueueInv' /\ Len(queue') <= MaxQueue
    <3>1. QueueIn(queue', {t \in Works : Fit(t)})
      BY <2>1 DEF BaseInv, SafeInv, QueueInv
    <3> QED
      BY <2>1, <2>2, <3>1, QueueKept DEF BaseInv, SafeInv, TypeOK
  <2>4. /\ index' \in Seq(Tag) /\ \A i \in 1..Len(index') : index'[i].u < nextUid
        /\ asked' \subseteq mail
    BY <2>1 DEF BaseInv, SafeInv, TypeOK, Tag, UidInv
  <2> QED
    BY <1>1, <2>1, <2>2, <2>3, <2>4, QuietBase
<1>5. CASE Refused /\ Front.k # "reopen"
  <2>1. /\ Alive /\ queue # <<>> /\ queue' = Tail(queue)
        /\ UNCHANGED <<files, isOpen, lists, history, asked>>
    BY <1>5 DEF Refused, Handling
  <2> QED
    BY <1>1, <2>1, TaskBase DEF lists
<1> QED
  BY <1>2, <1>3, <1>4, <1>5

-----------------------------------------------------------------------------
(* The program ends.                                                       *)

\* Rollback gives what was there before the copy.
LEMMA RollbackProperties ==
    ASSUME TypeOK
    PROVE  /\ Rollback \in Seq(Message) /\ Len(Rollback) = orig /\ orig \in 0..Len(inbox)
           /\ \A i \in 1..orig : i \in 1..Len(inbox) /\ Rollback[i] = inbox[i]
<1>1. inbox \in Seq(Message) /\ Len(inbox) \in Nat /\ orig \in 0..Len(inbox)
  BY Members DEF TypeOK, Message
<1>2. /\ Rollback \in Seq(Message) /\ Len(Rollback) = orig
      /\ \A i \in 1..orig : Rollback[i] = inbox[i]
  BY <1>1, SubSeqProperties DEF Rollback
<1>3. \A i \in 1..orig : i \in 1..Len(inbox)
  BY <1>1
<1> QED
  BY <1>1, <1>2, <1>3

LEMMA GoneBase ==
    ASSUME BaseInv, Gone, crashes' \in 0..MaxCrashes,
           \/ inbox' = inbox /\ (phase = "copying" => crashes' # 0)
           \/ inbox' = Rollback /\ phase = "copying",
           crashes' = 0 => crashes = 0
    PROVE  BaseInv'
<1> USE DEF BaseInv, SafeInv
<1>1. /\ phase' = "none" /\ orig' = 0 /\ scratch' = <<>> /\ isOpen' = FALSE
      /\ fmi' = <<>> /\ index' = <<>> /\ queue' = <<>>
      /\ dirty' = FALSE /\ changed' = FALSE /\ multi' = FALSE
      /\ UNCHANGED <<spool, spoolTag, nextUid, bodyOf, mail, asked>>
  BY DEF Gone
<1>2. \A S : <<>> \in Seq(S)
  OBVIOUS
<1>3. Len(<<>>) = 0 /\ 1..0 = {}
  OBVIOUS
<1>4. /\ inbox' \in Seq(Message) /\ Len(inbox') \in Nat
      /\ \A i \in 1..Len(inbox') : i \in 1..Len(inbox) /\ inbox'[i] = inbox[i]
  <2>1. CASE inbox' = inbox
    BY <2>1, Members DEF TypeOK, Message
  <2>2. CASE inbox' = Rollback
    BY <2>2, RollbackProperties, LenProperties
  <2> QED
    BY <2>1, <2>2
<1>5. TypeOK'
  <2>1. /\ scratch' \in Seq([b : Bodies, u : Uids, d : BOOLEAN])
        /\ fmi' \in Seq([u : Uids, d : BOOLEAN]) /\ index' \in Seq([u : Uids, d : BOOLEAN])
    BY <1>1, <1>2
  <2>2. phase' \in Phases /\ orig' \in 0..Len(inbox') /\ Len(queue') <= MaxQueue
    BY <1>1, <1>3, <1>4, FolderAssumption DEF Phases
  <2> QED
    BY <1>1, <1>4, <2>1, <2>2 DEF TypeOK, Message
<1>6. QueueInv'
  BY <1>1, <1>2, <1>3 DEF QueueInv, QueueIn
<1>7. PhaseInv' /\ CopyInv'
  BY <1>1 DEF PhaseInv, CopyInv
<1>8. UidInv' /\ BodyInv'
  BY <1>1, <1>3, <1>4 DEF UidInv, BodyInv
<1>9. DupInv'
  <2>1. SUFFICES ASSUME crashes' = 0, MaxCopies = 0 PROVE DupInv'
    BY DEF DupInv
  <2>2. /\ \A i, j \in 1..Len(inbox) : inbox[i].b = inbox[j].b => i = j
        /\ \A i, j \in 1..Len(spool) : spool[i] = spool[j] => i = j
        /\ \A i \in 1..Len(inbox), j \in 1..Len(spool) :
             inbox[i].b = spool[j] => phase = "copying" /\ i = orig + j
    BY <2>1 DEF DupInv
  <2>3. \A i \in 1..Len(inbox'), j \in 1..Len(spool) : inbox'[i].b # spool[j]
    <3>1. CASE inbox' = inbox /\ phase # "copying"
      BY <2>2, <3>1
    <3>2. CASE inbox' = Rollback
      <4>1. Len(spool) \in Nat /\ orig \in Nat /\ Len(inbox') = orig
        BY <3>2, RollbackProperties, Members
      <4>2. \A i \in 1..Len(inbox'), j \in 1..Len(spool) : i # orig + j
        BY <4>1
      <4> QED
        BY <1>4, <2>2, <4>2
    <3> QED
      BY <2>1, <3>1, <3>2
  <2> QED
    BY <1>1, <1>3, <1>4, <2>2, <2>3 DEF DupInv
<1> QED
  BY <1>5, <1>6, <1>7, <1>8, <1>9

LEMMA EndBase ==
    ASSUME BaseInv, Kill \/ Signal \/ Logout \/ (Refused /\ Front.k = "reopen")
    PROVE  BaseInv'
<1>1. crashes \in 0..MaxCrashes /\ MaxCrashes \in Nat
  BY FolderAssumption DEF BaseInv, SafeInv, TypeOK
<1>2. CASE Kill
  <2>1. crashes' \in 0..MaxCrashes /\ crashes' # 0
    BY <1>1, <1>2 DEF Kill
  <2> QED
    BY <1>2, <2>1, GoneBase DEF Kill
<1>3. CASE Signal
  BY <1>1, <1>3, GoneBase DEF Signal
<1>4. CASE Logout
  BY <1>1, <1>4, GoneBase DEF Logout, Alive
<1>5. CASE Refused /\ Front.k = "reopen"
  BY <1>1, <1>5, GoneBase DEF Refused, Handling, Alive
<1> QED
  BY <1>2, <1>3, <1>4, <1>5

-----------------------------------------------------------------------------
(* UIDs are made.                                                          *)

\* The queue stays fit while UIDs are made and mail comes.
LEMMA QueueGrows ==
    ASSUME TypeOK, QueueIn(queue', {t \in Works : Fit(t)}),
           \A i \in 1..Len(queue') :
             Work(queue'[i]).k = "add" => Work(queue'[i]).b \notin mail',
           nextUid' \in Nat, nextUid <= nextUid',
           \A u \in Uids : u < nextUid => bodyOf'[u] = bodyOf[u],
           isOpen => isOpen', asked \subseteq asked'
    PROVE  QueueInv'
<1>1. nextUid \in Nat /\ \A u \in Uids : u \in Nat
  BY FolderAssumption DEF TypeOK, Uids
<1> DEFINE fits == {t \in Works : Fit(t)'}
<1>2. ASSUME NEW i \in 1..Len(queue') PROVE Work(queue'[i]) \in fits
  <2>1. PICK t \in Works : t = Work(queue'[i]) /\ Fit(t)
    BY DEF QueueIn
  <2>2. t.k = "add" => t.b \notin mail'
    BY <2>1
  <2>3. t \in Tasks /\ (t.k = "expunge" => t.del \subseteq Uids)
    BY <2>1, TaskKinds DEF Tasks
  <2>4. ASSUME t.k = "expunge", NEW u \in t.del PROVE u < nextUid' /\ bodyOf'[u] \subseteq asked'
    <3>1. u \in Uids /\ u < nextUid /\ bodyOf[u] \subseteq asked
      BY <2>1, <2>3, <2>4 DEF Fit
    <3> QED
      BY <1>1, <3>1
  <2>5. t.k # "open" => isOpen'
    BY <2>1 DEF Fit
  <2>6. Fit(t)'
    BY <2>2, <2>4, <2>5 DEF Fit
  <2> QED
    BY <2>1, <2>6
<1> HIDE DEF fits
<1>3. QueueIn(queue', fits)
  BY <1>2, ChangeWorks
<1> QED
  BY <1>3 DEF QueueInv, fits

\* One UID is made.
LEMMA TakeUidProperties ==
    ASSUME TypeOK, UidInv, TakeUid, NEW b \in Bodies,
           bodyOf' = [bodyOf EXCEPT ![nextUid] = @ \cup {b}]
    PROVE  /\ nextUid \in Uids /\ nextUid' \in 1..(MaxUid + 1) /\ nextUid' \in Nat
           /\ nextUid < nextUid' /\ nextUid <= nextUid'
           /\ bodyOf' \in [Uids -> SUBSET Bodies]
           /\ bodyOf'[nextUid] = {b}
           /\ \A u \in Uids : u # nextUid => bodyOf'[u] = bodyOf[u]
           /\ \A u \in Uids : u < nextUid => bodyOf'[u] = bodyOf[u]
           /\ \A u \in Uids : u >= nextUid' => bodyOf'[u] = {}
           /\ \A u : u \in 0..MaxUid /\ u < nextUid => u < nextUid'
<1>1. MaxUid \in Nat /\ nextUid \in 1..(MaxUid + 1) /\ nextUid <= MaxUid /\ nextUid' = nextUid + 1
  BY FolderAssumption DEF TypeOK, TakeUid
<1>2. nextUid \in Uids /\ nextUid' \in 1..(MaxUid + 1) /\ nextUid' \in Nat /\ nextUid < nextUid'
  BY <1>1 DEF Uids
<1>3. bodyOf \in [Uids -> SUBSET Bodies]
  BY DEF TypeOK
<1>4. bodyOf[nextUid] = {}
  BY <1>1, <1>2 DEF UidInv
<1>5. /\ bodyOf' \in [Uids -> SUBSET Bodies]
      /\ bodyOf'[nextUid] = {b}
      /\ \A u \in Uids : u # nextUid => bodyOf'[u] = bodyOf[u]
  BY <1>2, <1>3, <1>4
<1>6. \A u \in Uids : u < nextUid => u # nextUid
  BY <1>1 DEF Uids
<1>7. ASSUME NEW u \in Uids, u >= nextUid' PROVE bodyOf'[u] = {}
  <2>1. u >= nextUid /\ u # nextUid
    BY <1>1, <1>7 DEF Uids
  <2> QED
    BY <1>5, <2>1 DEF UidInv
<1> QED
  BY <1>1, <1>2, <1>5, <1>6, <1>7

-----------------------------------------------------------------------------
(* The tags of a file.                                                     *)

\* There is a first one among some positions.
LEMMA FirstPosition ==
    ASSUME NEW ns \in SUBSET Nat, ns # {}
    PROVE  \E i \in ns : \A j \in ns : i <= j
<1>1. PICK i \in ns : \A j \in ns : <<j, i>> \notin OpToRel(<, Nat)
  BY NatLessThanWellFounded, WFMin, Zenon
<1>2. \A j \in Nat : j < i => <<j, i>> \in OpToRel(<, Nat)
  BY DEF OpToRel
<1>3. \A j \in ns : ~(j < i)
  BY <1>1, <1>2, Zenon
<1> QED
  BY <1>3

\* Distinct replaces the UIDs that were met before, and leaves the rest alone.
LEMMA DistinctProperties ==
    ASSUME NEW tags \in Seq(Tag), NEW next,
           \A n \in Doubled(tags) : UidFrom(next, Doubled(tags), n) \in Uids
    PROVE  LET new == Distinct(tags, next) IN
           /\ new \in Seq(Tag) /\ Len(new) = Len(tags)
           /\ \A n \in 1..Len(tags) :
                new[n].u = IF n \in Doubled(tags) THEN UidFrom(next, Doubled(tags), n) ELSE tags[n].u
           /\ Doubled(tags) = {} => new = tags
<1> DEFINE new == Distinct(tags, next)
           n0 == Len(tags)
           tag(n) == IF n \in Doubled(tags) THEN [tags[n] EXCEPT !.u = UidFrom(next, Doubled(tags), n)]
                                            ELSE tags[n]
<1>1. n0 \in Nat /\ tags \in [1..n0 -> Tag] /\ \A n \in 1..n0 : tags[n] \in Tag
  BY LenProperties
<1>2. new = [n \in 1..n0 |-> tag(n)]
  BY DEF Distinct
<1>3. \A n \in 1..n0 : tag(n) \in Tag
    /\ tag(n).u = IF n \in Doubled(tags) THEN UidFrom(next, Doubled(tags), n) ELSE tags[n].u
  BY <1>1 DEF Tag
<1>4. Doubled(tags) = {} => \A n \in 1..n0 : tag(n) = tags[n]
  OBVIOUS
<1> HIDE DEF tag, new
<1>5. new \in [1..n0 -> Tag]
  BY <1>2, <1>3
<1>6. new \in Seq(Tag) /\ Len(new) = n0
  BY <1>1, <1>5, SeqDef, LenProperties
<1>7. Doubled(tags) = {} => new = tags
  BY <1>1, <1>2, <1>4, <1>5
<1> QED
  BY <1>2, <1>3, <1>6, <1>7 DEF new

\* The tags that scan() makes from Inbox.
LEMMA TagsProperties ==
    ASSUME TypeOK, \A i \in Untagged(inbox) : NewUid(Untagged(inbox), i) \in Uids
    PROVE  /\ Untagged(inbox) \in SUBSET (1..Len(inbox))
           /\ Tags(inbox) \in Seq(Tag) /\ Len(Tags(inbox)) = Len(inbox)
           /\ \A i \in 1..Len(inbox) :
                Tags(inbox)[i].u = IF i \in Untagged(inbox) THEN NewUid(Untagged(inbox), i)
                                                            ELSE inbox[i].u
           /\ Doubled(Tags(inbox)) \in SUBSET (1..Len(inbox))
<1> DEFINE N == Len(inbox)
           new == Untagged(inbox)
           tag(i) == IF inbox[i].u = 0 THEN [u |-> NewUid(new, i), d |-> FALSE]
                                       ELSE [u |-> inbox[i].u, d |-> inbox[i].d]
<1>1. /\ N \in Nat
      /\ \A i \in 1..N : inbox[i].u \in 0..MaxUid /\ inbox[i].d \in BOOLEAN
  BY Members
<1>2. new \in SUBSET (1..N) /\ \A i \in 1..N : i \in new <=> inbox[i].u = 0
  BY DEF Untagged
<1>3. Tags(inbox) = [i \in 1..N |-> tag(i)]
  BY DEF Tags
<1> HIDE DEF new
<1>4. \A i \in 1..N : /\ tag(i) \in Tag
                      /\ tag(i).u = IF i \in new THEN NewUid(new, i) ELSE inbox[i].u
  <2>1. SUFFICES ASSUME NEW i \in 1..N
                 PROVE  /\ tag(i) \in Tag
                        /\ tag(i).u = IF i \in new THEN NewUid(new, i) ELSE inbox[i].u
    OBVIOUS
  <2>2. CASE i \in new
    <3>1. NewUid(new, i) \in Uids
      BY <2>2 DEF new
    <3> QED
      BY <1>2, <2>2, <3>1 DEF Tag
  <2>3. CASE i \notin new
    <3>1. inbox[i].u # 0 /\ inbox[i].u \in Uids
      BY <1>1, <1>2, <2>3, FolderAssumption DEF Uids
    <3> QED
      BY <1>1, <2>3, <3>1 DEF Tag
  <2> QED
    BY <2>2, <2>3
<1> HIDE DEF tag
<1>5. Tags(inbox) \in [1..N -> Tag]
  BY <1>3, <1>4
<1>6. Tags(inbox) \in Seq(Tag) /\ Len(Tags(inbox)) = N
  BY <1>1, <1>5, SeqDef, LenProperties
<1>7. Doubled(Tags(inbox)) \in SUBSET (1..N)
  BY <1>6 DEF Doubled
<1> QED
  BY <1>2, <1>3, <1>4, <1>6, <1>7 DEF new

\* scan() of Inbox makes UIDs for what has none, and for what has one twice.
LEMMA ScanMakes ==
    ASSUME TypeOK, UidInv, ScanInbox, ~Shortcut
    PROVE  LET new == Untagged(inbox)
               twice == Doubled(Tags(inbox))
           IN  /\ MadeFor(new, inbox, twice, inbox)
               /\ new \subseteq 1..Len(inbox) /\ twice \subseteq 1..Len(inbox)
               /\ \A i \in new : NewUid(new, i) \in Uids
               /\ fmi' \in Seq(Tag) /\ Len(fmi') = Len(inbox)
               /\ \A i \in 1..Len(inbox) :
                    fmi'[i].u = IF i \in twice THEN UidFrom(nextUid + Cardinality(new), twice, i)
                                ELSE Tags(inbox)[i].u
               /\ dirty' \in BOOLEAN /\ \E f : bodyOf' = [u \in Uids |-> f[u]]
<1> DEFINE new == Untagged(inbox)
           tags == Tags(inbox)
           twice == Doubled(tags)
           mid == nextUid + Cardinality(new)
           N == Len(inbox)
<1>0. nextUid \in Nat \ {0} /\ bodyOf \in [Uids -> SUBSET Bodies] /\ N \in Nat
  BY Members, FolderAssumption DEF TypeOK
<1>1. /\ fmi' = Distinct(tags, mid) /\ dirty' = (new \cup twice # {})
      /\ MakeUids(Made(nextUid, new, inbox) \cup Made(mid, twice, inbox))
  BY DEF ScanInbox
<1>2. Len(tags) = N
  BY <1>0 DEF Tags
<1>3. new \subseteq 1..N /\ twice \subseteq 1..N
  BY <1>2 DEF Untagged, Doubled
<1>4. MadeFor(new, inbox, twice, inbox)
  <2>1. \A u \in Uids : u >= nextUid => bodyOf[u] = {}
    BY DEF UidInv
  <2> HIDE DEF new, tags, twice
  <2> QED
    BY <1>0, <1>1, <1>3, <2>1, MakeUidsProperties
<1>5. tags \in Seq(Tag)
  BY <1>4, TagsProperties DEF MadeFor
<1>6. /\ fmi' \in Seq(Tag) /\ Len(fmi') = N
      /\ \A i \in 1..N : fmi'[i].u = IF i \in twice THEN UidFrom(mid, twice, i) ELSE tags[i].u
  BY <1>1, <1>2, <1>4, <1>5, DistinctProperties DEF MadeFor
<1>7. \A i \in new : NewUid(new, i) \in Uids
  BY <1>4 DEF MadeFor
<1>8. \E f : bodyOf' = [u \in Uids |-> f[u]]
  BY <1>1 DEF MakeUids
<1> QED
  BY <1>1, <1>3, <1>4, <1>6, <1>7, <1>8

LEMMA ScanProperties ==
    ASSUME TypeOK, UidInv, BodyInv, ScanInbox
    PROVE  /\ nextUid' \in Nat /\ nextUid <= nextUid' /\ nextUid' <= MaxUid + 1
           /\ bodyOf' \in [Uids -> SUBSET Bodies]
           /\ \A u \in Uids : u < nextUid => bodyOf'[u] = bodyOf[u]
           /\ \A u \in Uids : u >= nextUid' => bodyOf'[u] = {}
           /\ \A u \in Uids : bodyOf'[u] \subseteq mail
           /\ fmi' \in Seq(Tag) /\ \A i \in 1..Len(fmi') : fmi'[i].u < nextUid'
           /\ dirty' \in BOOLEAN
<1>0. /\ nextUid \in Nat \ {0} /\ nextUid <= MaxUid + 1 /\ MaxUid \in Nat
      /\ bodyOf \in [Uids -> SUBSET Bodies] /\ Len(inbox) \in Nat
  BY Members, FolderAssumption DEF TypeOK
<1>1. CASE Shortcut
  <2>1. UNCHANGED <<fmi, dirty, nextUid, bodyOf>>
    BY <1>1 DEF ScanInbox
  <2> QED
    BY <1>0, <2>1 DEF TypeOK, UidInv, BodyInv, Tag
<1>2. CASE ~Shortcut
  <2> DEFINE new == Untagged(inbox)
             tags == Tags(inbox)
             twice == Doubled(tags)
             mid == nextUid + Cardinality(new)
             N == Len(inbox)
  <2>1. /\ MadeFor(new, inbox, twice, inbox)
        /\ new \subseteq 1..N /\ twice \subseteq 1..N
        /\ fmi' \in Seq(Tag) /\ Len(fmi') = N
        /\ \A i \in 1..N : fmi'[i].u = IF i \in twice THEN UidFrom(mid, twice, i) ELSE tags[i].u
        /\ dirty' \in BOOLEAN
    BY <1>2, ScanMakes
  <2>2. \A i \in 1..N : tags[i].u = IF i \in new THEN NewUid(new, i) ELSE inbox[i].u
    BY <1>2, ScanMakes, TagsProperties
  <2>3. \A i \in 1..N : inbox[i].u < nextUid'
    BY <1>0, <2>1, Members DEF UidInv, MadeFor
  <2>4. \E f : bodyOf' = [u \in Uids |-> f[u]]
    BY <1>2, ScanMakes
  <2> HIDE DEF new, tags, twice
  <2>5. ASSUME NEW i \in 1..N PROVE fmi'[i].u < nextUid'
    <3>1. CASE i \in twice
      BY <2>1, <3>1 DEF MadeFor
    <3>2. CASE i \notin twice /\ i \in new
      BY <2>1, <2>2, <3>2 DEF MadeFor
    <3>3. CASE i \notin twice /\ i \notin new
      BY <2>1, <2>2, <2>3, <3>3
    <3> QED
      BY <3>1, <3>2, <3>3
  <2>6. \A u \in Uids : bodyOf'[u] \subseteq mail
    <3>1. \A i : i \in new \cup twice => inbox[i].b \in mail
      BY <2>1 DEF BodyInv
    <3>2. \A u \in Uids : bodyOf[u] \subseteq mail
      BY DEF BodyInv
    <3> QED
      BY <2>1, <3>1, <3>2 DEF MadeFor
  <2>7. bodyOf' \in [Uids -> SUBSET Bodies]
    BY <2>4, <2>6 DEF TypeOK
  <2> QED
    BY <2>1, <2>5, <2>6, <2>7 DEF MadeFor
<1> QED
  BY <1>1, <1>2

-----------------------------------------------------------------------------
(* The UIDs of lists.                                                      *)

LEMMA UidsOfTags ==
    ASSUME NEW s \in Seq(Tag)
    PROVE  /\ UidsOf(s) \subseteq Uids
           /\ \A u : u \in UidsOf(s) <=> \E i \in 1..Len(s) : s[i].u = u
<1>1. \A i \in 1..Len(s) : s[i].u \in Uids /\ s[i].u # 0
  <2>1. \A i \in 1..Len(s) : s[i] \in Tag
    BY ElementOfSeq
  <2>2. \A u \in Uids : u # 0
    BY DEF Uids
  <2> QED
    BY <2>1, <2>2 DEF Tag
<1> QED
  BY <1>1 DEF UidsOf

\* The flags of a UID that the application has.
LEMMA FlagOfUid ==
    ASSUME TypeOK, NEW u \in UidsOf(index)
    PROVE  FlagOf(u) \in BOOLEAN
<1> DEFINE at == {i \in 1..Len(index) : index[i].u = u}
           first == CHOOSE i \in at : \A j \in at : i <= j
<1>1. index \in Seq(Tag) /\ Len(index) \in Nat
  BY Members DEF TypeOK, Tag
<1>2. at # {} /\ at \in SUBSET Nat
  BY <1>1, UidsOfTags
<1>3. \E i \in at : \A j \in at : i <= j
  <2> HIDE DEF at
  <2> QED
    BY <1>2, FirstPosition
<1>4. first \in at
  BY <1>3
<1>5. index[first].d \in BOOLEAN
  BY <1>4, Members
<1> QED
  BY <1>5 DEF FlagOf

\* The application's list after checkNewMail(): what it had, and what is new.
LEMMA CheckNewMailProperties ==
    ASSUME NEW idx \in Seq(Tag), NEW tags \in Seq(Tag)
    PROVE  /\ CheckNewMail(idx, tags) \in Seq(Tag)
           /\ UidsOf(CheckNewMail(idx, tags)) = UidsOf(idx) \cup UidsOf(tags)
<1> DEFINE ns == {n \in 1..Len(tags) : tags[n].u \notin UidsOf(idx)}
           new == Select(tags, ns)
           all == CheckNewMail(idx, tags)
<1>1. /\ new \in Seq(Tag)
      /\ \A k \in 1..Len(new) : Nth(ns, k) \in ns /\ new[k] = tags[Nth(ns, k)]
      /\ \A n \in ns : \E k \in 1..Len(new) : Nth(ns, k) = n
  <2>1. ns \in SUBSET (1..Len(tags))
    OBVIOUS
  <2> HIDE DEF ns
  <2> QED
    BY <2>1, SelectProperties
<1>2. \A n : n \in ns <=> n \in 1..Len(tags) /\ tags[n].u \notin UidsOf(idx)
  OBVIOUS
<1>3. all = idx \o new
  BY DEF CheckNewMail
<1> HIDE DEF ns, new, all
<1>4. /\ all \in Seq(Tag) /\ Len(all) = Len(idx) + Len(new)
      /\ \A i \in 1..(Len(idx) + Len(new)) :
           all[i] = IF i <= Len(idx) THEN idx[i] ELSE new[i - Len(idx)]
  BY <1>1, <1>3, ConcatProperties
<1>5. Len(idx) \in Nat /\ Len(new) \in Nat
  BY <1>1, LenProperties
<1>6. ASSUME NEW u \in UidsOf(all) PROVE u \in UidsOf(idx) \cup UidsOf(tags)
  <2>1. PICK i \in 1..Len(all) : all[i].u = u
    BY <1>4, UidsOfTags
  <2>2. CASE i <= Len(idx)
    <3>1. i \in 1..Len(idx) /\ idx[i].u = u
      BY <1>4, <1>5, <2>1, <2>2
    <3> QED
      BY <3>1, UidsOfTags
  <2>3. CASE ~(i <= Len(idx))
    <3>1. i - Len(idx) \in 1..Len(new) /\ new[i - Len(idx)].u = u
      BY <1>4, <1>5, <2>1, <2>3
    <3>2. \E n \in 1..Len(tags) : tags[n].u = u
      BY <1>1, <1>2, <3>1
    <3> QED
      BY <3>2, UidsOfTags
  <2> QED
    BY <2>2, <2>3
<1>7. ASSUME NEW u \in UidsOf(idx) PROVE u \in UidsOf(all)
  <2>1. PICK i \in 1..Len(idx) : idx[i].u = u
    BY UidsOfTags
  <2>2. i \in 1..Len(all) /\ all[i].u = u
    BY <1>4, <1>5, <2>1
  <2> QED
    BY <1>4, <2>2, UidsOfTags
<1>8. ASSUME NEW u \in UidsOf(tags), u \notin UidsOf(idx) PROVE u \in UidsOf(all)
  <2>1. PICK n \in 1..Len(tags) : tags[n].u = u
    BY UidsOfTags
  <2>2. PICK k \in 1..Len(new) : Nth(ns, k) = n
    BY <1>1, <1>2, <1>8, <2>1
  <2>3. new[k].u = u
    BY <1>1, <2>1, <2>2
  <2>4. Len(idx) + k \in 1..Len(all) /\ all[Len(idx) + k] = new[k]
    <3>1. ~(Len(idx) + k <= Len(idx)) /\ Len(idx) + k - Len(idx) = k
      BY <1>5
    <3>2. Len(idx) + k \in 1..(Len(idx) + Len(new))
      BY <1>5
    <3> QED
      BY <1>4, <3>1, <3>2
  <2> QED
    BY <1>4, <2>3, <2>4, UidsOfTags
<1>9. UidsOf(all) = UidsOf(idx) \cup UidsOf(tags)
  BY <1>6, <1>7, <1>8
<1> QED
  BY <1>4, <1>9 DEF all

\* The application's list when what is gone from the file has been removed.
LEMMA PurgedProperties ==
    ASSUME NEW idx \in Seq(Tag), NEW tags \in Seq(Tag)
    PROVE  /\ Purged(idx, tags) \in Seq(Tag)
           /\ UidsOf(Purged(idx, tags)) = UidsOf(idx) \cap UidsOf(tags)
<1> DEFINE ns == {n \in 1..Len(idx) : idx[n].u \in UidsOf(tags)}
           left == Purged(idx, tags)
<1>1. /\ left \in Seq(Tag)
      /\ \A k \in 1..Len(left) : Nth(ns, k) \in ns /\ left[k] = idx[Nth(ns, k)]
      /\ \A n \in ns : \E k \in 1..Len(left) : Nth(ns, k) = n
  <2>1. ns \in SUBSET (1..Len(idx)) /\ left = Select(idx, ns)
    BY DEF Purged
  <2> HIDE DEF ns, left
  <2> QED
    BY <2>1, SelectProperties
<1>2. \A n : n \in ns <=> n \in 1..Len(idx) /\ idx[n].u \in UidsOf(tags)
  OBVIOUS
<1> HIDE DEF ns, left
<1>3. \A u : u \in UidsOf(left) <=> \E n \in ns : idx[n].u = u
  <2>1. \A u : u \in UidsOf(left) <=> \E k \in 1..Len(left) : left[k].u = u
    BY <1>1, UidsOfTags
  <2> QED
    BY <1>1, <2>1
<1>4. \A u : u \in UidsOf(idx) <=> \E n \in 1..Len(idx) : idx[n].u = u
  BY UidsOfTags
<1>5. UidsOf(left) = UidsOf(idx) \cap UidsOf(tags)
  BY <1>2, <1>3, <1>4
<1> QED
  BY <1>1, <1>5 DEF left

-----------------------------------------------------------------------------
(* OpenTask, CheckNewMailTask.                                             *)

\* A list whose UIDs have been made.
LEMMA MadeBefore ==
    ASSUME NEW s \in Seq(Tag), NEW next
    PROVE  (\A i \in 1..Len(s) : s[i].u < next) <=> (\A u \in UidsOf(s) : u < next)
  BY UidsOfTags

LEMMA ScanInboxBase ==
    ASSUME BaseInv, ScanInbox
    PROVE  BaseInv'
<1> USE DEF BaseInv, SafeInv
<1>1. /\ Alive /\ queue # <<>> /\ Front.k \in OpenKinds /\ ~multi
      /\ phase' = "copying" /\ orig' = Len(inbox)
      /\ UNCHANGED <<inbox, spool, spoolTag, scratch, isOpen, index, changed, multi, queue,
                     mail, asked, crashes>>
  BY DEF ScanInbox, Handling
<1>2. /\ nextUid' \in Nat /\ nextUid <= nextUid' /\ nextUid' <= MaxUid + 1
      /\ bodyOf' \in [Uids -> SUBSET Bodies]
      /\ \A u \in Uids : u < nextUid => bodyOf'[u] = bodyOf[u]
      /\ \A u \in Uids : u >= nextUid' => bodyOf'[u] = {}
      /\ \A u \in Uids : bodyOf'[u] \subseteq mail
      /\ fmi' \in Seq(Tag) /\ \A i \in 1..Len(fmi') : fmi'[i].u < nextUid'
      /\ dirty' \in BOOLEAN
  BY ScanProperties
<1>3. nextUid \in 1..(MaxUid + 1) /\ MaxUid \in Nat
  BY FolderAssumption DEF TypeOK
<1>4. TypeOK'
  <2>1. nextUid' \in 1..(MaxUid + 1)
    BY <1>2, <1>3
  <2>2. phase' \in Phases /\ orig' \in 0..Len(inbox')
    BY <1>1, Members DEF Phases
  <2> QED
    BY <1>1, <1>2, <2>1, <2>2 DEF TypeOK, Tag
<1>5. QueueInv'
  <2>1. QueueIn(queue', {t \in Works : Fit(t)})
    BY <1>1 DEF QueueInv
  <2>2. \A i \in 1..Len(queue') : Work(queue'[i]).k = "add" => Work(queue'[i]).b \notin mail'
    BY <1>1 DEF QueueInv, QueueIn, Fit
  <2> QED
    BY <1>1, <1>2, <2>1, <2>2, QueueGrows
<1>6. PhaseInv'
  BY <1>1 DEF PhaseInv, Front
<1>7. UidInv'
  <2>1. \A u \in Nat : u < nextUid => u < nextUid'
    BY <1>2, <1>3
  <2>2. 0..MaxUid \subseteq Nat /\ Uids \subseteq Nat
    BY <1>3 DEF Uids
  <2>3. \A i \in 1..Len(inbox) : inbox[i].u < nextUid'
    BY <2>1, <2>2, Members DEF UidInv
  <2>4. \A i \in 1..Len(scratch) : scratch[i].u < nextUid'
    BY <2>1, <2>2, Members DEF UidInv
  <2>5. \A i \in 1..Len(index) : index[i].u < nextUid'
    BY <2>1, <2>2, Members DEF UidInv
  <2>6. \A b \in Bodies : spoolTag[b] < nextUid'
    BY <2>1, <2>2, Members DEF UidInv
  <2> QED
    BY <1>1, <1>2, <2>3, <2>4, <2>5, <2>6 DEF UidInv
<1>8. BodyInv'
  BY <1>1, <1>2 DEF BodyInv
<1>9. CopyInv'
  <2>1. Copied' = 0
    BY <1>1, Members DEF Copied
  <2> QED
    BY <2>1 DEF CopyInv
<1>10. DupInv'
  BY <1>1 DEF DupInv, Alive
<1> QED
  BY <1>4, <1>5, <1>6, <1>7, <1>8, <1>9, <1>10

\* A message m is copied from the spool, and t goes to folderMessageIndex: a UID
\* that it does not have yet, made for the message, or the message's own.
CopyStep(m, t) ==
    /\ phase = "copying" /\ Copied + 1 \in 1..Len(spool)
    /\ m \in Message /\ t \in Tag /\ m.b = NextCopied /\ m.u \in Uids
    /\ inbox' = Append(inbox, m) /\ fmi' = Append(fmi, t)
    /\ m.u < nextUid' /\ t.u < nextUid'
    /\ \A i \in 1..Len(fmi) : fmi[i].u # t.u
    /\ nextUid' \in 1..(MaxUid + 1) /\ nextUid' \in Nat /\ nextUid <= nextUid'
    /\ bodyOf' \in [Uids -> SUBSET Bodies]
    /\ \A u \in Uids : u < nextUid => bodyOf'[u] = bodyOf[u]
    /\ \A u \in Uids : u >= nextUid' => bodyOf'[u] = {}
    /\ \A u \in Uids : \A x \in bodyOf'[u] : x \in bodyOf[u] \/ (u >= nextUid /\ x = m.b)
    /\ \/ m.u = nextUid /\ bodyOf'[m.u] = {m.b}
       \/ m.u = spoolTag[m.b] /\ m.u < nextUid
    /\ \/ t.u = nextUid /\ bodyOf'[t.u] = {m.b}
       \/ t.u = m.u
    /\ t.u = m.u \/ \E j \in 1..Len(fmi) : fmi[j].u = m.u
    /\ dirty' \in BOOLEAN
    /\ UNCHANGED <<spool, spoolTag, scratch, phase, orig, isOpen, index, changed, multi,
                   queue, mail, asked, crashes>>

LEMMA CopySteps ==
    ASSUME SafeInv, CopyNew \/ CopyTagged
    PROVE  \E m \in Message, t \in Tag : CopyStep(m, t)
<1> USE DEF SafeInv
<1> DEFINE b == NextCopied
           v == spoolTag[b]
<1>1. /\ phase = "copying" /\ Copied < Len(spool)
      /\ UNCHANGED <<spool, spoolTag, scratch, phase, orig, isOpen, index, changed, multi,
                     queue, mail, asked, crashes>>
  BY DEF CopyNew, CopyTagged
<1>2. Copied + 1 \in 1..Len(spool)
  BY <1>1, Members DEF TypeOK, Copied
<1>3. b \in Bodies
  BY <1>2, Members DEF NextCopied
<1>4. /\ nextUid \in 1..(MaxUid + 1) /\ nextUid \in Nat /\ MaxUid \in Nat
      /\ dirty \in BOOLEAN /\ bodyOf \in [Uids -> SUBSET Bodies]
      /\ \A i \in 1..Len(fmi) : fmi[i].u \in Nat /\ fmi[i].u < nextUid
      /\ \A u \in Uids : u >= nextUid => bodyOf[u] = {}
  <2>1. /\ nextUid \in 1..(MaxUid + 1) /\ MaxUid \in Nat
        /\ dirty \in BOOLEAN /\ bodyOf \in [Uids -> SUBSET Bodies]
    BY FolderAssumption DEF TypeOK
  <2>2. \A i \in 1..Len(fmi) : fmi[i].u \in Nat /\ fmi[i].u < nextUid
    BY <2>1, Members DEF UidInv, Uids
  <2> QED
    BY <2>1, <2>2 DEF UidInv
<1> HIDE DEF b
<1>5. ASSUME TakeUid, bodyOf' = [bodyOf EXCEPT ![nextUid] = @ \cup {b}]
      PROVE  /\ nextUid \in Uids /\ nextUid' \in 1..(MaxUid + 1) /\ nextUid' \in Nat
             /\ nextUid < nextUid' /\ nextUid <= nextUid'
             /\ bodyOf' \in [Uids -> SUBSET Bodies]
             /\ bodyOf'[nextUid] = {b}
             /\ \A u \in Uids : u < nextUid => bodyOf'[u] = bodyOf[u]
             /\ \A u \in Uids : u >= nextUid' => bodyOf'[u] = {}
             /\ \A u \in Uids : \A x \in bodyOf'[u] : x \in bodyOf[u] \/ (u >= nextUid /\ x = b)
             /\ \A i \in 1..Len(fmi) : fmi[i].u # nextUid
  <2>1. /\ nextUid \in Uids /\ nextUid' \in 1..(MaxUid + 1) /\ nextUid' \in Nat
        /\ nextUid < nextUid' /\ nextUid <= nextUid'
        /\ bodyOf' \in [Uids -> SUBSET Bodies]
        /\ bodyOf'[nextUid] = {b}
        /\ \A u \in Uids : u # nextUid => bodyOf'[u] = bodyOf[u]
        /\ \A u \in Uids : u < nextUid => bodyOf'[u] = bodyOf[u]
        /\ \A u \in Uids : u >= nextUid' => bodyOf'[u] = {}
    BY <1>3, <1>5, TakeUidProperties
  <2>2. \A u \in Uids : \A x \in bodyOf'[u] : x \in bodyOf[u] \/ (u >= nextUid /\ x = b)
    <3>1. ASSUME NEW u \in Uids, NEW x \in bodyOf'[u], x \notin bodyOf[u]
          PROVE  u >= nextUid /\ x = b
      <4>1. u = nextUid
        BY <2>1, <3>1
      <4> QED
        BY <1>4, <2>1, <3>1, <4>1
    <3> QED
      BY <3>1
  <2>3. \A i \in 1..Len(fmi) : fmi[i].u # nextUid
    BY <1>4
  <2> QED
    BY <2>1, <2>2, <2>3
<1>6. CASE CopyNew
  <2> DEFINE m == [b |-> b, u |-> nextUid, d |-> FALSE]
             t == [u |-> nextUid, d |-> FALSE]
  <2>1. /\ TakeUid /\ inbox' = Append(inbox, m) /\ fmi' = Append(fmi, t)
        /\ bodyOf' = [bodyOf EXCEPT ![nextUid] = @ \cup {b}]
        /\ dirty' \in BOOLEAN
    BY <1>4, <1>6 DEF CopyNew, b
  <2>2. /\ nextUid \in Uids /\ nextUid \in 0..MaxUid
    BY <1>4, <1>5, <2>1 DEF Uids
  <2>3. m \in Message /\ t \in Tag /\ m.b = b /\ m.u = nextUid /\ t.u = nextUid
    BY <1>3, <2>2 DEF Message, Tag
  <2> HIDE DEF m, t
  <2>4. CopyStep(m, t)
    BY <1>1, <1>2, <1>5, <2>1, <2>2, <2>3 DEF CopyStep, b
  <2> QED
    BY <2>3, <2>4
<1>7. CASE CopyTagged
  <2> DEFINE m == [b |-> b, u |-> v, d |-> FlagOf(v)]
  <2>1. /\ v \in UidsOf(index) /\ inbox' = Append(inbox, m) /\ Keep(v)
    BY <1>7 DEF CopyTagged, KeepsTag, b
  <2>2. v \in Uids /\ v \in 0..MaxUid /\ v < nextUid /\ FlagOf(v) \in BOOLEAN
    <3>1. index \in Seq(Tag)
      BY DEF TypeOK, Tag
    <3>2. v \in Uids
      BY <2>1, <3>1, UidsOfTags
    <3>3. v < nextUid
      BY <1>3 DEF UidInv
    <3> QED
      BY <1>4, <2>1, <3>2, <3>3, FlagOfUid DEF Uids
  <2>3. m \in Message /\ m.b = b /\ m.u = v
    BY <1>3, <2>2 DEF Message
  <2>4. fmi \in Seq(Tag)
    BY DEF TypeOK, Tag
  <2> HIDE DEF m, v
  <2>5. CASE v \in UidsOf(fmi)
    <3> DEFINE t == [u |-> nextUid, d |-> FlagOf(v)]
    <3>1. /\ TakeUid /\ fmi' = Append(fmi, t)
          /\ bodyOf' = [bodyOf EXCEPT ![nextUid] = @ \cup {b}]
          /\ dirty' = TRUE
      BY <2>1, <2>5 DEF Keep, b
    <3>2. nextUid \in Uids
      BY <1>5, <3>1
    <3>3. t \in Tag /\ t.u = nextUid
      BY <2>2, <3>2 DEF Tag
    <3>4. \E j \in 1..Len(fmi) : fmi[j].u = v
      BY <2>4, <2>5, UidsOfTags
    <3>5. v < nextUid'
      BY <1>4, <1>5, <2>2, <3>1
    <3> HIDE DEF t
    <3>6. CopyStep(m, t)
      BY <1>1, <1>2, <1>5, <2>1, <2>2, <2>3, <3>1, <3>3, <3>4, <3>5 DEF CopyStep, b, v
    <3> QED
      BY <2>3, <3>3, <3>6
  <2>6. CASE v \notin UidsOf(fmi)
    <3> DEFINE t == [u |-> v, d |-> FlagOf(v)]
    <3>1. fmi' = Append(fmi, t) /\ UNCHANGED <<nextUid, bodyOf, dirty>>
      BY <2>1, <2>6 DEF Keep
    <3>2. t \in Tag /\ t.u = v
      BY <2>2 DEF Tag
    <3>3. \A j \in 1..Len(fmi) : fmi[j].u # v
      BY <2>4, <2>6, UidsOfTags
    <3> HIDE DEF t
    <3>4. CopyStep(m, t)
      BY <1>1, <1>2, <1>4, <2>1, <2>2, <2>3, <3>1, <3>2, <3>3 DEF CopyStep, b, v
    <3> QED
      BY <2>3, <3>2, <3>4
  <2> QED
    BY <2>5, <2>6
<1> QED
  BY <1>6, <1>7

\* Mail is copied from the spool.
LEMMA CopyBase ==
    ASSUME BaseInv, CopyNew \/ CopyTagged
    PROVE  BaseInv'
<1> USE DEF BaseInv, SafeInv
<1> DEFINE b == NextCopied
           N == Len(inbox)
<1>0. PICK m \in Message, t \in Tag : CopyStep(m, t)
  BY CopySteps
<1>1. /\ phase = "copying" /\ Copied + 1 \in 1..Len(spool)
      /\ m.b = b /\ m.u \in Uids
      /\ inbox' = Append(inbox, m) /\ fmi' = Append(fmi, t)
      /\ m.u < nextUid' /\ t.u < nextUid'
      /\ nextUid' \in 1..(MaxUid + 1) /\ nextUid' \in Nat /\ nextUid <= nextUid'
      /\ bodyOf' \in [Uids -> SUBSET Bodies]
      /\ \A u \in Uids : u < nextUid => bodyOf'[u] = bodyOf[u]
      /\ \A u \in Uids : u >= nextUid' => bodyOf'[u] = {}
      /\ \A u \in Uids : \A x \in bodyOf'[u] : x \in bodyOf[u] \/ (u >= nextUid /\ x = b)
      /\ dirty' \in BOOLEAN
      /\ UNCHANGED <<spool, spoolTag, scratch, phase, orig, isOpen, index, changed, multi,
                     queue, mail, asked, crashes>>
  BY <1>0 DEF CopyStep
<1>2. N \in Nat /\ orig \in 0..N /\ Len(spool) \in Nat /\ Copied = N - orig
  BY Members DEF TypeOK, Copied
<1>3. Copied + 1 \in 1..Len(spool) /\ orig + (Copied + 1) = N + 1
  BY <1>1, <1>2
<1>4. b \in Bodies /\ b \in mail /\ b = spool[Copied + 1]
  BY <1>3, Members DEF BodyInv, NextCopied
<1>5. \A u : u \in 0..MaxUid /\ u < nextUid => u < nextUid'
  <2>1. nextUid \in Nat /\ MaxUid \in Nat
    BY FolderAssumption DEF TypeOK
  <2> QED
    BY <1>1, <2>1
<1> HIDE DEF b
<1>7. /\ inbox' \in Seq(Message) /\ Len(inbox') = N + 1
      /\ \A i \in 1..N : inbox'[i] = inbox[i]
      /\ inbox'[N + 1] = m
  <2>1. inbox \in Seq(Message)
    BY DEF TypeOK, Message
  <2> QED
    BY <1>1, <2>1, AppendProperties
<1>8. /\ fmi' \in Seq(Tag) /\ Len(fmi') = Len(fmi) + 1
      /\ \A i \in 1..Len(fmi) : fmi'[i] = fmi[i]
      /\ fmi'[Len(fmi) + 1] = t
  <2>1. fmi \in Seq(Tag)
    BY DEF TypeOK, Tag
  <2> QED
    BY <1>1, <2>1, AppendProperties
<1>9. \A i \in 1..Len(inbox') : i \in 1..N \/ i = N + 1
  BY <1>2, <1>7
<1>10. \A i \in 1..Len(fmi') : i \in 1..Len(fmi) \/ i = Len(fmi) + 1
  BY <1>8, Members
<1>11. TypeOK'
  <2>1. orig' \in 0..Len(inbox')
    BY <1>1, <1>2, <1>7
  <2> QED
    BY <1>1, <1>7, <1>8, <2>1 DEF TypeOK, Message, Tag
<1>12. QueueInv'
  <2>1. QueueIn(queue', {x \in Works : Fit(x)})
    BY <1>1 DEF QueueInv
  <2>2. \A i \in 1..Len(queue') : Work(queue'[i]).k = "add" => Work(queue'[i]).b \notin mail'
    BY <1>1 DEF QueueInv, QueueIn, Fit
  <2> QED
    BY <1>1, <2>1, <2>2, QueueGrows
<1>13. PhaseInv'
  BY <1>1 DEF PhaseInv, Front
<1>14. UidInv'
  <2>1. \A i \in 1..Len(inbox') : inbox'[i].u < nextUid'
    BY <1>1, <1>5, <1>7, <1>9, Members DEF UidInv
  <2>2. \A i \in 1..Len(fmi') : fmi'[i].u < nextUid'
    BY <1>1, <1>5, <1>8, <1>10, Members DEF UidInv, Uids
  <2>3. \A i \in 1..Len(scratch) : scratch[i].u < nextUid'
    BY <1>5, Members DEF UidInv, Uids
  <2>4. \A i \in 1..Len(index) : index[i].u < nextUid'
    BY <1>5, Members DEF UidInv, Uids
  <2>5. \A x \in Bodies : spoolTag[x] < nextUid'
    BY <1>5, Members DEF UidInv
  <2> QED
    BY <1>1, <2>1, <2>2, <2>3, <2>4, <2>5 DEF UidInv
<1>15. BodyInv'
  <2>1. \A i \in 1..Len(inbox') : inbox'[i].b \in mail
    BY <1>1, <1>4, <1>7, <1>9 DEF BodyInv
  <2>2. \A u \in Uids : bodyOf'[u] \subseteq mail
    BY <1>1, <1>4 DEF BodyInv
  <2> QED
    BY <1>1, <2>1, <2>2 DEF BodyInv
<1>16. CopyInv'
  <2>1. Copied' = Copied + 1
    BY <1>1, <1>2, <1>7 DEF Copied
  <2>2. ASSUME NEW k \in 1..(Copied + 1) PROVE k <= Len(spool) /\ inbox'[orig + k].b = spool[k]
    <3>1. CASE k \in 1..Copied
      <4>1. orig + k \in 1..N /\ k <= Len(spool)
        BY <1>1, <1>2, <3>1
      <4> QED
        BY <1>1, <1>7, <3>1, <4>1 DEF CopyInv
    <3>2. CASE k = Copied + 1
      BY <1>1, <1>3, <1>4, <1>7, <3>2
    <3> QED
      BY <1>2, <3>1, <3>2
  <2> QED
    BY <1>1, <2>1, <2>2 DEF CopyInv
<1>17. DupInv'
  <2>1. SUFFICES ASSUME crashes' = 0, MaxCopies = 0 PROVE DupInv'
    BY DEF DupInv
  <2>2. /\ \A i, j \in 1..N : inbox[i].b = inbox[j].b => i = j
        /\ \A i, j \in 1..Len(spool) : spool[i] = spool[j] => i = j
        /\ \A i \in 1..N, j \in 1..Len(spool) : inbox[i].b = spool[j] => i = orig + j
    BY <1>1, <2>1 DEF DupInv
  <2>3. \A i \in 1..N : inbox[i].b # b
    <3>1. \A i \in 1..N : i # orig + (Copied + 1)
      BY <1>2, <1>3
    <3> QED
      BY <1>3, <1>4, <2>2, <3>1
  <2>4. \A i, j \in 1..Len(inbox') : inbox'[i].b = inbox'[j].b => i = j
    BY <1>1, <1>7, <1>9, <2>2, <2>3
  <2>5. \A i \in 1..Len(inbox'), j \in 1..Len(spool) : inbox'[i].b = spool[j] => i = orig + j
    BY <1>1, <1>3, <1>4, <1>7, <1>9, <2>2
  <2> QED
    BY <1>1, <2>1, <2>4, <2>5 DEF DupInv
<1> QED
  BY <1>11, <1>12, <1>13, <1>14, <1>15, <1>16, <1>17

\* The spool is truncated.
LEMMA OpenDoneBase ==
    ASSUME BaseInv, OpenDone
    PROVE  BaseInv'
<1> USE DEF BaseInv, SafeInv
<1>1. /\ phase = "copying" /\ spool' = <<>> /\ phase' = "none" /\ orig' = 0
      /\ spoolTag' = [b \in Bodies |-> 0]
      /\ changed' = FALSE /\ isOpen' = TRUE
      /\ UNCHANGED <<inbox, scratch, fmi, dirty, multi, nextUid, bodyOf, mail, asked, crashes>>
  BY DEF OpenDone, CopyDone, history
<1>2. queue # <<>> /\ Front.k \in OpenKinds
  BY <1>1 DEF PhaseInv
<1>3. \A S : <<>> \in Seq(S) /\ Len(<<>>) = 0 /\ 1..0 = {}
  OBVIOUS
<1>4. index' \in Seq(Tag) /\ \A i \in 1..Len(index') : index'[i].u < nextUid
  <2>1. /\ index \in Seq(Tag) /\ fmi \in Seq(Tag)
        /\ \A i \in 1..Len(index) : index[i].u < nextUid
        /\ \A i \in 1..Len(fmi) : fmi[i].u < nextUid
    BY DEF TypeOK, Tag, UidInv
  <2>2. CheckNewMail(index, fmi) \in Seq(Tag)
    BY <2>1, CheckNewMailProperties
  <2>3. \A u \in UidsOf(CheckNewMail(index, fmi)) : u < nextUid
    <3>1. (\A u \in UidsOf(index) : u < nextUid) /\ (\A u \in UidsOf(fmi) : u < nextUid)
      BY <2>1, MadeBefore
    <3> QED
      BY <2>1, <3>1, CheckNewMailProperties
  <2>4. \A i \in 1..Len(CheckNewMail(index, fmi)) : CheckNewMail(index, fmi)[i].u < nextUid
    BY <2>2, <2>3, MadeBefore
  <2>5. index' \in {index, fmi, CheckNewMail(index, fmi)}
    BY DEF OpenDone
  <2> QED
    BY <2>1, <2>2, <2>4, <2>5
<1> DEFINE fits == {t \in Works : Fit(t)}
<1>5. QueueIn(queue', fits) /\ Len(queue') <= MaxQueue
  <2>1. QueueIn(queue, fits)
    BY DEF QueueInv
  <2> HIDE DEF fits
  <2>2. Len(queue) \in Nat /\ Len(queue) <= MaxQueue /\ MaxQueue \in Nat
    BY <1>2, <2>1, PopQueue, FolderAssumption DEF TypeOK
  <2>3. CASE Front.k # "reopen"
    <3>1. queue' = Tail(queue)
      BY <2>3 DEF OpenDone
    <3> QED
      BY <1>2, <2>1, <2>2, <3>1, PopQueue
  <2>4. CASE Front.k = "reopen"
    <3>1. queue' = Append(Tail(queue), Front.task)
      BY <2>4 DEF OpenDone
    <3>2. Front \in Tasks
      BY <1>2, FrontFits
    <3>3. Front.task \in LockTasks /\ Front.task.k \in LockKinds /\ Work(Front) = Front.task
      BY <2>4, <3>2, TaskKinds
    <3>4. Front.task \in Tasks /\ Work(Front.task) = Front.task
      BY <3>3 DEF Tasks, Works, Work, LockKinds
    <3>5. Work(Front.task) = Work(Head(queue))
      BY <3>3, <3>4 DEF Front
    <3> QED
      BY <1>2, <2>1, <2>2, <3>1, <3>4, <3>5, MoveQueue
  <2> QED
    BY <2>3, <2>4
<1>6. QueueInv'
  <2>1. nextUid \in Nat
    BY FolderAssumption DEF TypeOK
  <2>2. \A i \in 1..Len(queue') : Work(queue'[i]).k = "add" => Work(queue'[i]).b \notin mail'
    BY <1>1, <1>5 DEF QueueIn, Fit
  <2> QED
    BY <1>1, <1>5, <2>1, <2>2, QueueGrows
<1>7. TypeOK'
  <2>1. orig' \in 0..Len(inbox') /\ phase' \in Phases
    BY <1>1, Members DEF Phases
  <2>2. spoolTag' \in [Bodies -> 0..MaxUid]
    BY <1>1, FolderAssumption
  <2> QED
    BY <1>1, <1>3, <1>4, <1>5, <2>1, <2>2 DEF TypeOK, Tag
<1>8. PhaseInv' /\ CopyInv'
  BY <1>1 DEF PhaseInv, CopyInv
<1>9. UidInv'
  <2>1. \A b \in Bodies : spoolTag'[b] < nextUid
    BY <1>1, FolderAssumption DEF TypeOK
  <2> QED
    BY <1>1, <1>4, <2>1 DEF UidInv
<1>10. BodyInv'
  BY <1>1, <1>3 DEF BodyInv
<1>11. DupInv'
  BY <1>1, <1>3 DEF DupInv
<1> QED
  BY <1>6, <1>7, <1>8, <1>9, <1>10, <1>11

\* The copy is taken back.
LEMMA CopyFailsBase ==
    ASSUME BaseInv, CopyFails
    PROVE  BaseInv'
<1> USE DEF BaseInv, SafeInv
<1>1. /\ phase = "copying" /\ inbox' = Rollback /\ phase' = "none" /\ orig' = 0
      /\ changed' \in {changed, TRUE} /\ queue' = Tail(queue)
      /\ UNCHANGED <<spool, spoolTag, scratch, isOpen, fmi, index, dirty, multi,
                     nextUid, bodyOf, mail, asked, crashes>>
  BY DEF CopyFails, CopyDone, history
<1>2. queue # <<>>
  BY <1>1 DEF PhaseInv
<1>3. /\ inbox' \in Seq(Message) /\ Len(inbox') = orig /\ orig \in Nat
      /\ \A i \in 1..Len(inbox') : i \in 1..Len(inbox) /\ inbox'[i] = inbox[i]
  BY <1>1, RollbackProperties
<1>4. QueueInv' /\ Len(queue') <= MaxQueue
  <2>1. QueueIn(queue', {t \in Works : Fit(t)}) /\ Len(queue) \in Nat /\ Len(queue') = Len(queue) - 1
    BY <1>1, <1>2, FrontFits
  <2>2. Len(queue) <= MaxQueue /\ MaxQueue \in Nat
    BY FolderAssumption DEF TypeOK
  <2>3. UNCHANGED <<mail, nextUid, bodyOf, isOpen>> /\ asked \subseteq asked'
    BY <1>1
  <2>4. QueueInv'
    BY <1>1, <2>1, <2>3, QueueKept
  <2>5. Len(queue') <= MaxQueue
    BY <2>1, <2>2
  <2> QED
    BY <2>4, <2>5
<1>5. TypeOK'
  <2>1. orig' \in 0..Len(inbox')
    BY <1>1, <1>3
  <2>2. phase' \in Phases /\ changed' \in BOOLEAN
    BY <1>1 DEF Phases, TypeOK
  <2> QED
    BY <1>1, <1>3, <1>4, <2>1, <2>2 DEF TypeOK, Message
<1>6. PhaseInv' /\ CopyInv'
  BY <1>1 DEF PhaseInv, CopyInv
<1>7. UidInv' /\ BodyInv'
  BY <1>1, <1>3 DEF UidInv, BodyInv
<1>8. DupInv'
  <2>1. SUFFICES ASSUME crashes' = 0, MaxCopies = 0 PROVE DupInv'
    BY DEF DupInv
  <2>2. \A i \in 1..Len(inbox'), j \in 1..Len(spool) : inbox'[i].b # spool[j]
    <3>1. \A i \in 1..Len(inbox'), j \in 1..Len(spool) : i # orig + j
      BY <1>3, Members
    <3>2. \A i \in 1..Len(inbox), j \in 1..Len(spool) : inbox[i].b = spool[j] => i = orig + j
      BY <1>1, <2>1 DEF DupInv
    <3> QED
      BY <1>3, <3>1, <3>2
  <2> QED
    BY <1>1, <1>3, <2>1, <2>2 DEF DupInv
<1> QED
  BY <1>4, <1>5, <1>6, <1>7, <1>8

-----------------------------------------------------------------------------
(* ExpungeTask.                                                            *)

\* The tag that a copied position gets.
LEMMA FlagOfType ==
    ASSUME TypeOK, NEW tag \in Tag
    PROVE  WithFlags(tag).d \in BOOLEAN /\ WithFlags(tag).u = tag.u
  BY FlagOfUid DEF WithFlags, Tag

\* The UID that a copied position gets.
Written(i, del) ==
    IF i \in RewriteNew(del) THEN NewUid(RewriteNew(del), i)
    ELSE IF inbox[i].u # 0 THEN inbox[i].u ELSE fmi[i].u

LEMMA RewrittenProperties ==
    ASSUME TypeOK, NEW del, \A i \in RewriteNew(del) : NewUid(RewriteNew(del), i) \in Uids,
           NEW i \in 1..Len(inbox)
    PROVE  LET m == Rewritten(i, del, RewriteNew(del)) IN
           m \in Tagged /\ m.b = inbox[i].b /\ m.u = Written(i, del)
<1> DEFINE new == RewriteNew(del)
           tag == IF inbox[i].u # 0 THEN [u |-> inbox[i].u, d |-> inbox[i].d] ELSE fmi[i]
           m == Rewritten(i, del, new)
<1>1. inbox[i].b \in Bodies /\ inbox[i].u \in 0..MaxUid /\ inbox[i].d \in BOOLEAN
  BY Members
<1>2. CASE i \in new
  <2>1. m = [b |-> inbox[i].b, u |-> NewUid(new, i), d |-> FALSE]
    BY <1>2 DEF Rewritten
  <2>2. NewUid(new, i) \in Uids
    BY <1>2
  <2> QED
    BY <1>1, <1>2, <2>1, <2>2 DEF Tagged, Written
<1>3. CASE i \notin new
  <2>1. m = [b |-> inbox[i].b, u |-> tag.u, d |-> WithFlags(tag).d]
    BY <1>3 DEF Rewritten
  <2>2. tag \in Tag /\ tag.u = Written(i, del)
    <3>1. CASE inbox[i].u # 0
      <4>1. inbox[i].u \in Uids
        BY <1>1, <3>1, FolderAssumption DEF Uids
      <4> QED
        BY <1>1, <1>3, <3>1, <4>1 DEF Tag, Written
    <3>2. CASE inbox[i].u = 0
      <4>1. i <= Len(fmi)
        BY <1>3, <3>2 DEF RewriteNew, Deleted
      <4>2. fmi \in Seq(Tag) /\ i \in 1..Len(fmi)
        BY <4>1, Members DEF TypeOK, Tag
      <4> QED
        BY <1>3, <3>2, <4>2, ElementOfSeq DEF Written
    <3> QED
      BY <3>1, <3>2
  <2> HIDE DEF tag
  <2>3. WithFlags(tag).d \in BOOLEAN
    BY <2>2, FlagOfType
  <2> QED
    BY <1>1, <2>1, <2>2, <2>3 DEF Tagged, Tag
<1> QED
  BY <1>2, <1>3

\* The rewritten file has the messages of the positions that are kept.
LEMMA RewriteProperties ==
    ASSUME TypeOK, NEW del, \A i \in RewriteNew(del) : NewUid(RewriteNew(del), i) \in Uids
    PROVE  LET file == Rewrite(del)
               pos(k) == Nth(Kept(del), k)
           IN  /\ file \in Seq(Tagged)
               /\ \A k \in 1..Len(file) :
                    /\ pos(k) \in Kept(del) /\ pos(k) \in 1..Len(inbox)
                    /\ file[k].b = inbox[pos(k)].b /\ file[k].u = Written(pos(k), del)
               /\ \A k, l \in 1..Len(file) : pos(k) = pos(l) => k = l
               /\ \A i \in Kept(del) : \E k \in 1..Len(file) : pos(k) = i
<1> DEFINE N == Len(inbox)
           m(i) == Rewritten(i, del, RewriteNew(del))
           all == [i \in 1..N |-> m(i)]
           ns == Kept(del)
           file == Rewrite(del)
<1>1. N \in Nat
  BY Members
<1>2. \A i \in 1..N : m(i) \in Tagged /\ m(i).b = inbox[i].b /\ m(i).u = Written(i, del)
  BY RewrittenProperties
<1>3. \A i \in 1..N : all[i] = m(i)
  OBVIOUS
<1> HIDE DEF m
<1>4. all \in Seq(Tagged) /\ Len(all) = N
  <2>1. all \in [1..N -> Tagged]
    BY <1>2
  <2> HIDE DEF all
  <2> QED
    BY <1>1, <2>1, SeqDef, LenProperties
<1>5. ns \in SUBSET (1..N)
  BY DEF Kept
<1>6. file = Select(all, ns)
  BY DEF Rewrite, m
<1> HIDE DEF all, ns, file
<1>7. /\ file \in Seq(Tagged)
      /\ \A k \in 1..Len(file) : Nth(ns, k) \in ns /\ file[k] = all[Nth(ns, k)]
      /\ \A k, l \in 1..Len(file) : Nth(ns, k) = Nth(ns, l) => k = l
      /\ \A i \in ns : \E k \in 1..Len(file) : Nth(ns, k) = i
  <2>1. all \in Seq(Tagged) /\ ns \in SUBSET (1..Len(all))
    BY <1>4, <1>5
  <2>2. /\ Select(all, ns) \in Seq(Tagged)
        /\ \A k \in 1..Len(Select(all, ns)) :
             Nth(ns, k) \in ns /\ Select(all, ns)[k] = all[Nth(ns, k)]
        /\ \A k, l \in 1..Len(Select(all, ns)) : Nth(ns, k) = Nth(ns, l) => k = l
        /\ \A i \in ns : \E k \in 1..Len(Select(all, ns)) : Nth(ns, k) = i
    BY ONLY <2>1, SelectProperties
  <2> QED
    BY <1>6, <2>2
<1> QED
  BY <1>2, <1>3, <1>5, <1>7 DEF ns, file

LEMMA HeadersProperties ==
    ASSUME NEW file \in Seq(Tagged)
    PROVE  /\ Headers(file) \in Seq(Tag) /\ Len(Headers(file)) = Len(file)
           /\ \A n \in 1..Len(file) : Headers(file)[n].u = file[n].u
<1>1. Len(file) \in Nat /\ \A n \in 1..Len(file) : file[n] \in Tagged
  BY LenProperties, ElementOfSeq
<1>2. Headers(file) = [n \in 1..Len(file) |-> [u |-> file[n].u, d |-> file[n].d]]
  BY DEF Headers
<1>3. Headers(file) \in [1..Len(file) -> Tag]
  BY <1>1, <1>2 DEF Tagged, Tag
<1> QED
  BY <1>1, <1>2, <1>3, SeqDef, LenProperties

\* ExpungeTask makes UIDs for what has none, and for what the application has
\* not seen.
LEMMA ExpungeProperties ==
    ASSUME TypeOK, QueueInv, UidInv, BodyInv, Expunge
    PROVE  LET file == Rewrite(Front.del)
               new == RewriteNew(Front.del)
               twice == Doubled(Headers(file))
           IN  /\ Front.del \subseteq Uids
               /\ MadeFor(new, inbox, twice, file)
               /\ new \subseteq 1..Len(inbox) /\ twice \subseteq 1..Len(file)
               /\ \A i \in new : NewUid(new, i) \in Uids
               /\ scratch' = file
               /\ fmi' \in Seq(Tag) /\ Len(fmi') = Len(file)
               /\ \A i \in 1..Len(file) :
                    fmi'[i].u = IF i \in twice
                                THEN UidFrom(nextUid + Cardinality(new), twice, i) ELSE file[i].u
               /\ twice = {} => UidsOf(fmi') = UidsOf(file)
               /\ bodyOf' \in [Uids -> SUBSET Bodies] /\ \A u \in Uids : bodyOf'[u] \subseteq mail
<1> DEFINE file == Rewrite(Front.del)
           new == RewriteNew(Front.del)
           heads == Headers(file)
           twice == Doubled(heads)
           mid == nextUid + Cardinality(new)
<1>0. /\ nextUid \in Nat \ {0} /\ nextUid <= MaxUid + 1 /\ MaxUid \in Nat
      /\ bodyOf \in [Uids -> SUBSET Bodies] /\ Len(inbox) \in Nat
  BY Members, FolderAssumption DEF TypeOK
<1>1. /\ queue # <<>> /\ Front.k = "expunge"
      /\ MakeUids(Made(nextUid, new, inbox) \cup Made(mid, twice, file))
      /\ scratch' = file /\ fmi' = Distinct(heads, mid)
  BY DEF Expunge, LockHandling, Handling
<1>2. Front.del \subseteq Uids
  BY <1>1, FrontFits, TaskKinds
<1>3. new \subseteq 1..Len(inbox) /\ twice \subseteq 1..Len(file) /\ Len(file) \in Nat
  <2>1. twice \subseteq 1..Len(heads)
    BY DEF Doubled
  <2>2. Len(file) \in Nat
    <3>1. Cardinality(Kept(Front.del)) \in Nat
      <4>1. Kept(Front.del) \in SUBSET (1..Len(inbox))
        BY DEF Kept
      <4> QED
        BY <1>0, <4>1, BelowCount
    <3>2. Len(file) = Cardinality(Kept(Front.del))
      BY <3>1 DEF Rewrite, Select
    <3> QED
      BY <3>1, <3>2
  <2>3. Len(heads) = Len(file)
    BY <2>2 DEF Headers
  <2> QED
    BY <2>1, <2>2, <2>3 DEF RewriteNew
<1>4. MadeFor(new, inbox, twice, file)
  <2>1. \A u \in Uids : u >= nextUid => bodyOf[u] = {}
    BY DEF UidInv
  <2> HIDE DEF new, file, heads, twice
  <2> QED
    BY <1>0, <1>1, <1>3, <2>1, MakeUidsProperties
<1>5. \A i \in new : NewUid(new, i) \in Uids
  BY <1>4 DEF MadeFor
<1>6. /\ file \in Seq(Tagged)
      /\ \A k \in 1..Len(file) :
           Nth(Kept(Front.del), k) \in 1..Len(inbox) /\ file[k].b = inbox[Nth(Kept(Front.del), k)].b
  BY <1>5, RewriteProperties
<1>7. /\ heads \in Seq(Tag) /\ Len(heads) = Len(file)
      /\ \A n \in 1..Len(file) : heads[n].u = file[n].u
  BY <1>6, HeadersProperties
<1>8. /\ fmi' \in Seq(Tag) /\ Len(fmi') = Len(file)
      /\ \A i \in 1..Len(file) :
           fmi'[i].u = IF i \in twice THEN UidFrom(mid, twice, i) ELSE file[i].u
      /\ twice = {} => fmi' = heads
  BY <1>1, <1>4, <1>7, DistinctProperties DEF MadeFor
<1>9. twice = {} => UidsOf(fmi') = UidsOf(file)
  <2>1. Len(heads) = Len(file) /\ \A n \in 1..Len(file) : heads[n].u = file[n].u
    BY <1>7
  <2>2. UidsOf(heads) = UidsOf(file)
    BY <2>1 DEF UidsOf
  <2> QED
    BY <1>8, <2>2
<1>10. \A u \in Uids : bodyOf'[u] \subseteq mail
  <2>1. \A i \in new : inbox[i].b \in mail
    BY <1>3 DEF BodyInv
  <2>2. \A k \in twice : file[k].b \in mail
    BY <1>3, <1>6 DEF BodyInv
  <2>3. \A u \in Uids : bodyOf[u] \subseteq mail
    BY DEF BodyInv
  <2> HIDE DEF new, twice, file
  <2> QED
    BY <1>4, <2>1, <2>2, <2>3 DEF MadeFor
<1>11. bodyOf' \in [Uids -> SUBSET Bodies]
  <2>1. \E f : bodyOf' = [u \in Uids |-> f[u]]
    BY <1>1 DEF MakeUids
  <2>2. mail \subseteq Bodies
    BY DEF TypeOK
  <2> QED
    BY <1>10, <2>1, <2>2
<1> QED
  BY <1>1, <1>2, <1>3, <1>4, <1>5, <1>8, <1>9, <1>10, <1>11

\* Inbox is copied to Inbox~.
LEMMA ExpungeBase ==
    ASSUME BaseInv, Expunge
    PROVE  BaseInv'
<1> USE DEF BaseInv, SafeInv
<1> DEFINE del == Front.del
           file == Rewrite(del)
           new == RewriteNew(del)
           twice == Doubled(Headers(file))
           pos(k) == Nth(Kept(del), k)
<1>1. /\ Alive /\ queue # <<>> /\ Front.k = "expunge"
      /\ phase' \in {"unlocked", "renaming"} /\ multi' = FALSE /\ dirty' \in BOOLEAN
      /\ UNCHANGED <<inbox, spool, spoolTag, orig, isOpen, index, changed, queue, mail, asked,
                     crashes>>
  BY DEF Expunge, LockHandling, Handling
<1>2. /\ MadeFor(new, inbox, twice, file)
      /\ \A i \in new : NewUid(new, i) \in Uids
      /\ scratch' = file /\ fmi' \in Seq(Tag) /\ Len(fmi') = Len(file)
      /\ twice \subseteq 1..Len(file)
      /\ \A i \in 1..Len(file) :
           fmi'[i].u = IF i \in twice
                       THEN UidFrom(nextUid + Cardinality(new), twice, i) ELSE file[i].u
      /\ bodyOf' \in [Uids -> SUBSET Bodies] /\ \A u \in Uids : bodyOf'[u] \subseteq mail
  BY ExpungeProperties
<1>3. /\ file \in Seq(Tagged)
      /\ \A k \in 1..Len(file) :
           /\ pos(k) \in Kept(del) /\ pos(k) \in 1..Len(inbox)
           /\ file[k].b = inbox[pos(k)].b /\ file[k].u = Written(pos(k), del)
      /\ \A k, l \in 1..Len(file) : pos(k) = pos(l) => k = l
  BY <1>2, RewriteProperties
<1>4. nextUid \in 1..(MaxUid + 1) /\ MaxUid \in Nat
  BY FolderAssumption DEF TypeOK
<1>5. /\ nextUid' \in Nat /\ nextUid <= nextUid' /\ nextUid' <= MaxUid + 1
      /\ \A u \in Uids : u < nextUid => bodyOf'[u] = bodyOf[u]
      /\ \A u \in Uids : u >= nextUid' => bodyOf'[u] = {}
      /\ \A i \in new : NewUid(new, i) < nextUid'
      /\ \A i \in twice : UidFrom(nextUid + Cardinality(new), twice, i) < nextUid'
  BY <1>2 DEF MadeFor
<1> HIDE DEF del, file, new, twice, pos
<1>6. TypeOK'
  <2>1. nextUid' \in 1..(MaxUid + 1)
    BY <1>4, <1>5
  <2>2. phase' \in Phases
    BY <1>1 DEF Phases
  <2> QED
    BY <1>1, <1>2, <1>3, <2>1, <2>2 DEF TypeOK, Tag, Tagged
<1>7. QueueInv'
  <2>1. QueueIn(queue', {t \in Works : Fit(t)})
    BY <1>1 DEF QueueInv
  <2>2. \A i \in 1..Len(queue') : Work(queue'[i]).k = "add" => Work(queue'[i]).b \notin mail'
    BY <1>1 DEF QueueInv, QueueIn, Fit
  <2> QED
    BY <1>1, <1>5, <2>1, <2>2, QueueGrows
<1>8. PhaseInv'
  BY <1>1 DEF PhaseInv, Front, Alive
<1>9. UidInv'
  <2>1. \A u \in Nat : u < nextUid => u < nextUid'
    BY <1>4, <1>5
  <2>2. 0..MaxUid \subseteq Nat /\ Uids \subseteq Nat
    BY <1>4 DEF Uids
  <2>3. \A i \in 1..Len(inbox) : inbox[i].u < nextUid'
    BY <2>1, <2>2, Members DEF UidInv
  <2>4. \A i \in 1..Len(index) : index[i].u < nextUid'
    BY <2>1, <2>2, Members DEF UidInv
  <2>5. \A i \in 1..Len(fmi) : fmi[i].u < nextUid'
    BY <2>1, <2>2, Members DEF UidInv
  <2>6. ASSUME NEW k \in 1..Len(file) PROVE file[k].u < nextUid'
    <3>1. file[k].u = Written(pos(k), del) /\ pos(k) \in 1..Len(inbox) /\ pos(k) \in Kept(del)
      BY <1>3
    <3>2. CASE pos(k) \in new
      BY <1>5, <3>1, <3>2 DEF Written, new
    <3>3. CASE pos(k) \notin new /\ inbox[pos(k)].u # 0
      BY <2>3, <3>1, <3>3 DEF Written, new
    <3>4. CASE pos(k) \notin new /\ inbox[pos(k)].u = 0
      <4>1. pos(k) \in 1..Len(fmi)
        BY <3>1, <3>4, Members DEF RewriteNew, new, Kept
      <4> QED
        BY <2>5, <3>1, <3>4, <4>1 DEF Written, new
    <3> QED
      BY <3>2, <3>3, <3>4
  <2>7. \A i \in 1..Len(fmi') : fmi'[i].u < nextUid'
    BY <1>2, <1>5, <2>6
  <2>8. \A b \in Bodies : spoolTag[b] < nextUid'
    BY <2>1, <2>2, Members DEF UidInv
  <2> QED
    BY <1>1, <1>2, <1>5, <2>3, <2>4, <2>6, <2>7, <2>8 DEF UidInv
<1>10. BodyInv'
  <2>1. \A k \in 1..Len(file) : file[k].b \in mail
    BY <1>3 DEF BodyInv
  <2> QED
    BY <1>1, <1>2, <2>1 DEF BodyInv
<1>11. CopyInv'
  BY <1>1 DEF CopyInv
<1>12. DupInv'
  <2>1. SUFFICES ASSUME crashes' = 0, MaxCopies = 0 PROVE DupInv'
    BY DEF DupInv
  <2>2. /\ \A i, j \in 1..Len(inbox) : inbox[i].b = inbox[j].b => i = j
        /\ \A i, j \in 1..Len(spool) : spool[i] = spool[j] => i = j
        /\ \A i \in 1..Len(inbox), j \in 1..Len(spool) : inbox[i].b # spool[j]
    BY <1>1, <2>1 DEF DupInv, Alive
  <2>3. \A k, l \in 1..Len(file) : file[k].b = file[l].b => k = l
    BY <1>3, <2>2
  <2>4. \A k \in 1..Len(file), j \in 1..Len(spool) : file[k].b # spool[j]
    BY <1>3, <2>2
  <2> QED
    BY <1>1, <1>2, <2>2, <2>3, <2>4 DEF DupInv
<1> QED
  BY <1>6, <1>7, <1>8, <1>9, <1>10, <1>11, <1>12

\* A task ends: the queue has the others.
LEMMA Popped ==
    ASSUME TypeOK, QueueInv, queue # <<>>, queue' = Tail(queue)
    PROVE  QueueIn(queue', {t \in Works : Fit(t)}) /\ Len(queue') <= MaxQueue
<1>1. QueueIn(queue', {t \in Works : Fit(t)}) /\ Len(queue) \in Nat /\ Len(queue') = Len(queue) - 1
  BY FrontFits
<1>2. Len(queue) <= MaxQueue /\ MaxQueue \in Nat
  BY FolderAssumption DEF TypeOK
<1>3. Len(queue') <= MaxQueue
  BY <1>1, <1>2
<1> QED
  BY <1>1, <1>3

LEMMA ExpungeEndBase ==
    ASSUME BaseInv, ExpungeRename \/ ExpungeFails
    PROVE  BaseInv'
<1> USE DEF BaseInv, SafeInv
<1>1. /\ phase \in {"renaming", "unlocked"} /\ phase' = "none" /\ scratch' = <<>>
      /\ inbox' = scratch \/ inbox' = inbox
      /\ queue' = Tail(queue)
      /\ UNCHANGED <<spool, spoolTag, orig, isOpen, fmi, multi, nextUid, bodyOf, mail, asked,
                     crashes>>
  BY DEF ExpungeRename, ExpungeFails, lists, history
<1>2. queue # <<>> /\ orig = 0
  BY <1>1 DEF PhaseInv
<1>3. \A S : <<>> \in Seq(S) /\ Len(<<>>) = 0 /\ 1..0 = {}
  OBVIOUS
<1>4. inbox' \in Seq(Message) /\ Len(inbox') \in Nat
  <2>1. inbox \in Seq(Message)
    BY DEF TypeOK, Message
  <2>2. scratch \in Seq(Message)
    <3>1. scratch \in [1..Len(scratch) -> Tagged] /\ Len(scratch) \in Nat
      BY LenProperties DEF TypeOK, Tagged
    <3>2. Tagged \subseteq Message
      BY FolderAssumption DEF Tagged, Message, Uids
    <3>3. scratch \in [1..Len(scratch) -> Message]
      BY <3>1, <3>2
    <3> QED
      BY <3>1, <3>3, SeqDef
  <2> QED
    BY <1>1, <2>1, <2>2, LenProperties
<1>5. QueueInv' /\ Len(queue') <= MaxQueue
  <2>1. QueueIn(queue', {t \in Works : Fit(t)}) /\ Len(queue') <= MaxQueue
    BY <1>1, <1>2, Popped
  <2>2. UNCHANGED <<mail, nextUid, bodyOf, isOpen>> /\ asked \subseteq asked'
    BY <1>1
  <2> QED
    BY <2>1, <2>2, QueueKept
<1>6. /\ index' \in Seq(Tag) /\ \A i \in 1..Len(index') : index'[i].u < nextUid
      /\ dirty' \in BOOLEAN /\ changed' \in BOOLEAN
  <2>1. /\ index \in Seq(Tag) /\ fmi \in Seq(Tag)
        /\ \A i \in 1..Len(index) : index[i].u < nextUid
        /\ \A i \in 1..Len(fmi) : fmi[i].u < nextUid
        /\ dirty \in BOOLEAN /\ changed \in BOOLEAN
    BY DEF TypeOK, Tag, UidInv
  <2>2. CASE ExpungeFails
    BY <2>1, <2>2 DEF ExpungeFails, lists
  <2>3. CASE ExpungeRename
    <3> DEFINE idx == IF Front.purge THEN Purged(index, fmi) ELSE index
    <3>1. idx \in Seq(Tag) /\ UidsOf(idx) \subseteq UidsOf(index)
      BY <2>1, PurgedProperties
    <3>2. index' = CheckNewMail(idx, fmi) /\ dirty' \in BOOLEAN /\ changed' \in BOOLEAN
      BY <2>3 DEF ExpungeRename
    <3> HIDE DEF idx
    <3>3. index' \in Seq(Tag) /\ UidsOf(index') = UidsOf(idx) \cup UidsOf(fmi)
      BY <2>1, <3>1, <3>2, CheckNewMailProperties
    <3>4. (\A u \in UidsOf(index) : u < nextUid) /\ (\A u \in UidsOf(fmi) : u < nextUid)
      BY <2>1, MadeBefore
    <3>5. \A u \in UidsOf(index') : u < nextUid
      BY <3>1, <3>3, <3>4
    <3>6. \A i \in 1..Len(index') : index'[i].u < nextUid
      BY <3>3, <3>5, UidsOfTags
    <3> QED
      BY <3>2, <3>3, <3>6
  <2> QED
    BY <2>2, <2>3
<1>7. TypeOK'
  <2>1. orig' \in 0..Len(inbox') /\ phase' \in Phases
    BY <1>1, <1>2, <1>4 DEF Phases
  <2> QED
    BY <1>1, <1>3, <1>4, <1>5, <1>6, <2>1 DEF TypeOK, Message, Tag
<1>8. PhaseInv' /\ CopyInv'
  BY <1>1, <1>2 DEF PhaseInv, CopyInv
<1>9. UidInv'
  BY <1>1, <1>3, <1>6 DEF UidInv
<1>10. BodyInv'
  BY <1>1, <1>3 DEF BodyInv
<1>11. DupInv'
  BY <1>1, <1>3 DEF DupInv
<1> QED
  BY <1>5, <1>7, <1>8, <1>9, <1>10, <1>11

-----------------------------------------------------------------------------
(* New mail, and mail that is removed.                                     *)

\* A message is appended to Inbox.
LEMMA AppendInbox ==
    ASSUME TypeOK, NEW m \in Message, inbox' = Append(inbox, m)
    PROVE  /\ inbox' \in Seq(Message) /\ Len(inbox') = Len(inbox) + 1
           /\ \A i \in 1..Len(inbox) : i \in 1..Len(inbox') /\ inbox'[i] = inbox[i]
           /\ inbox'[Len(inbox) + 1] = m
           /\ \A i \in 1..Len(inbox') : i \in 1..Len(inbox) \/ i = Len(inbox) + 1
<1>1. inbox \in Seq(Message) /\ Len(inbox) \in Nat
  BY LenProperties DEF TypeOK, Message
<1>2. /\ inbox' \in Seq(Message) /\ Len(inbox') = Len(inbox) + 1
      /\ \A i \in 1..Len(inbox) : inbox'[i] = inbox[i]
      /\ inbox'[Len(inbox) + 1] = m
  BY <1>1, AppendProperties
<1> QED
  BY <1>1, <1>2

\* A message that was nowhere is, if it comes to Inbox, there once.
LEMMA AppendDup ==
    ASSUME TypeOK, BodyInv, DupInv, NEW m \in Message, inbox' = Append(inbox, m),
           m.b \notin mail, phase # "copying", UNCHANGED <<spool, scratch, phase, orig, crashes>>
    PROVE  DupInv'
<1>1. /\ Len(inbox') = Len(inbox) + 1
      /\ \A i \in 1..Len(inbox) : i \in 1..Len(inbox') /\ inbox'[i] = inbox[i]
      /\ inbox'[Len(inbox) + 1] = m
      /\ \A i \in 1..Len(inbox') : i \in 1..Len(inbox) \/ i = Len(inbox) + 1
  BY AppendInbox
<1>2. SUFFICES ASSUME crashes' = 0, MaxCopies = 0 PROVE DupInv'
  BY DEF DupInv
<1>3. /\ \A i, j \in 1..Len(inbox) : inbox[i].b = inbox[j].b => i = j
      /\ \A i \in 1..Len(inbox), j \in 1..Len(spool) : inbox[i].b # spool[j]
  BY <1>2 DEF DupInv
<1>4. /\ \A i \in 1..Len(inbox) : inbox[i].b # m.b
      /\ \A j \in 1..Len(spool) : spool[j] # m.b
  BY DEF BodyInv
<1>5. \A i, j \in 1..Len(inbox') : inbox'[i].b = inbox'[j].b => i = j
  BY <1>1, <1>3, <1>4
<1>6. \A i \in 1..Len(inbox'), j \in 1..Len(spool) : inbox'[i].b # spool[j]
  BY <1>1, <1>3, <1>4
<1> QED
  BY <1>2, <1>5, <1>6 DEF DupInv

\* A message that is fresh is in no task.
LEMMA FreshTasks ==
    ASSUME QueueInv, NEW b, Fresh(b)
    PROVE  \A i \in 1..Len(queue) : Work(queue[i]).k = "add" => Work(queue[i]).b \notin mail \cup {b}
<1>1. SUFFICES ASSUME NEW i \in 1..Len(queue), Work(queue[i]).k = "add"
               PROVE  Work(queue[i]).b \notin mail \cup {b}
  OBVIOUS
<1>2. Work(queue[i]).b \notin mail
  BY <1>1 DEF QueueInv, QueueIn, Fit
<1>3. Work(queue[i]).b # b
  BY <1>1 DEF Fresh, Pending, Adds, Work
<1> QED
  BY <1>2, <1>3

LEMMA AddBase ==
    ASSUME BaseInv, Add
    PROVE  BaseInv'
<1> USE DEF BaseInv, SafeInv
<1> DEFINE b == Front.b
           m == [b |-> b, u |-> nextUid, d |-> Front.d]
<1>1. /\ Alive /\ queue # <<>> /\ Front.k = "add" /\ TakeUid
      /\ inbox' = Append(inbox, m)
      /\ bodyOf' = [bodyOf EXCEPT ![nextUid] = @ \cup {b}]
      /\ changed' = TRUE /\ mail' = mail \cup {b} /\ queue' = Tail(queue)
      /\ UNCHANGED <<spool, spoolTag, scratch, phase, orig, isOpen, fmi, index, dirty, multi,
                     asked, crashes>>
  BY DEF Add, LockHandling, Handling
<1>2. /\ Front \in Tasks /\ Fit(Work(Front))
      /\ QueueIn(queue', {t \in Works : Fit(t)}) /\ Len(queue') <= MaxQueue
      /\ \A i \in 1..Len(queue') : ~SameMail(queue'[i], Front)
  BY <1>1, FrontFits, Popped
<1>3. b \in Bodies /\ Front.d \in BOOLEAN /\ Work(Front) = Front /\ b \notin mail
  BY <1>1, <1>2, TaskKinds DEF Fit
<1>4. /\ nextUid \in Uids /\ nextUid' \in 1..(MaxUid + 1) /\ nextUid' \in Nat
      /\ nextUid < nextUid' /\ nextUid <= nextUid'
      /\ bodyOf' \in [Uids -> SUBSET Bodies]
      /\ bodyOf'[nextUid] = {b}
      /\ \A u \in Uids : u # nextUid => bodyOf'[u] = bodyOf[u]
      /\ \A u \in Uids : u < nextUid => bodyOf'[u] = bodyOf[u]
      /\ \A u \in Uids : u >= nextUid' => bodyOf'[u] = {}
      /\ \A u : u \in 0..MaxUid /\ u < nextUid => u < nextUid'
  BY <1>1, <1>3, TakeUidProperties
<1>5. m \in Message /\ m.b = b /\ m.u = nextUid
  BY <1>3, <1>4, FolderAssumption DEF Message, Uids
<1> HIDE DEF m
<1>6. /\ inbox' \in Seq(Message) /\ Len(inbox') = Len(inbox) + 1
      /\ \A i \in 1..Len(inbox) : i \in 1..Len(inbox') /\ inbox'[i] = inbox[i]
      /\ inbox'[Len(inbox) + 1] = m
      /\ \A i \in 1..Len(inbox') : i \in 1..Len(inbox) \/ i = Len(inbox) + 1
  BY <1>1, <1>5, AppendInbox
<1>7. TypeOK'
  <2>1. orig' \in 0..Len(inbox')
    BY <1>1, <1>6, Members DEF TypeOK
  <2>2. mail' \subseteq Bodies /\ asked' \subseteq mail'
    BY <1>1, <1>3 DEF TypeOK
  <2> QED
    BY <1>1, <1>2, <1>4, <1>6, <2>1, <2>2 DEF TypeOK, Message
<1>8. QueueInv'
  <2>1. \A i \in 1..Len(queue') : Work(queue'[i]).k = "add" => Work(queue'[i]).b \notin mail'
    <3>1. \A i \in 1..Len(queue') : Work(queue'[i]).k = "add" => Work(queue'[i]).b \notin mail
      BY <1>2 DEF QueueIn, Fit
    <3>2. \A i \in 1..Len(queue') : Work(queue'[i]).k = "add" => Work(queue'[i]).b # b
      BY <1>1, <1>2, <1>3 DEF SameMail
    <3> QED
      BY <1>1, <3>1, <3>2
  <2> QED
    BY <1>1, <1>2, <1>4, <2>1, QueueGrows
<1>9. PhaseInv' /\ CopyInv'
  BY <1>1 DEF PhaseInv, CopyInv, Alive
<1>10. UidInv'
  <2>1. \A i \in 1..Len(inbox') : inbox'[i].u < nextUid'
    BY <1>4, <1>5, <1>6, Members DEF UidInv
  <2>2. \A i \in 1..Len(fmi) : fmi[i].u < nextUid'
    BY <1>4, Members DEF UidInv, Uids
  <2>3. \A i \in 1..Len(scratch) : scratch[i].u < nextUid'
    BY <1>4, Members DEF UidInv, Uids
  <2>4. \A i \in 1..Len(index) : index[i].u < nextUid'
    BY <1>4, Members DEF UidInv, Uids
  <2>5. \A x \in Bodies : spoolTag[x] < nextUid'
    BY <1>4, Members DEF UidInv
  <2> QED
    BY <1>1, <1>4, <2>1, <2>2, <2>3, <2>4, <2>5 DEF UidInv
<1>11. BodyInv'
  <2>1. \A i \in 1..Len(inbox') : inbox'[i].b \in mail'
    BY <1>1, <1>5, <1>6 DEF BodyInv
  <2>2. \A u \in Uids : bodyOf'[u] \subseteq mail'
    BY <1>1, <1>4 DEF BodyInv
  <2> QED
    BY <1>1, <2>1, <2>2 DEF BodyInv
<1>12. DupInv'
  BY <1>1, <1>3, <1>5, AppendDup DEF Alive
<1> QED
  BY <1>7, <1>8, <1>9, <1>10, <1>11, <1>12

\* Mail is delivered: what there is besides the files is left alone.
LEMMA DeliverBase ==
    ASSUME BaseInv, NEW b \in Bodies, Deliver(b) \/ DeliverToInbox(b)
    PROVE  BaseInv'
<1> USE DEF BaseInv, SafeInv
<1> DEFINE m == [b |-> b, u |-> 0, d |-> FALSE]
<1>1. /\ phase # "copying" /\ Fresh(b) /\ b \notin mail /\ mail' = mail \cup {b}
      /\ changed' \in BOOLEAN
      /\ UNCHANGED <<spoolTag, scratch, phase, orig, isOpen, fmi, index, dirty, multi, queue,
                     nextUid, bodyOf, asked, crashes>>
      /\ \/ spool' = spool /\ inbox' = Append(inbox, m)
         \/ inbox' = inbox /\ spool' = Append(spool, b)
  BY DEF Deliver, DeliverToInbox, lists, Unlocked, Fresh, TypeOK
<1>2. nextUid \in Nat /\ nextUid > 0 /\ MaxUid \in Nat
  BY FolderAssumption DEF TypeOK
<1>3. m \in Message /\ m.b = b /\ m.u = 0
  BY <1>2 DEF Message
<1> HIDE DEF m
<1>4. QueueInv'
  <2>1. QueueIn(queue', {t \in Works : Fit(t)})
    BY <1>1 DEF QueueInv
  <2>2. \A i \in 1..Len(queue') : Work(queue'[i]).k = "add" => Work(queue'[i]).b \notin mail'
    BY <1>1, FreshTasks
  <2> QED
    BY <1>1, <1>2, <2>1, <2>2, QueueGrows
<1>5. PhaseInv' /\ CopyInv'
  BY <1>1 DEF PhaseInv, CopyInv, Front
<1>6. mail' \subseteq Bodies /\ asked' \subseteq mail'
  BY <1>1 DEF TypeOK
<1>7. CASE spool' = spool /\ inbox' = Append(inbox, m)
  <2>1. /\ inbox' \in Seq(Message) /\ Len(inbox') = Len(inbox) + 1
        /\ \A i \in 1..Len(inbox) : i \in 1..Len(inbox') /\ inbox'[i] = inbox[i]
        /\ inbox'[Len(inbox) + 1] = m
        /\ \A i \in 1..Len(inbox') : i \in 1..Len(inbox) \/ i = Len(inbox) + 1
    BY <1>3, <1>7, AppendInbox
  <2>2. TypeOK'
    <3>1. orig' \in 0..Len(inbox')
      BY <1>1, <2>1, Members DEF TypeOK
    <3> QED
      BY <1>1, <1>6, <1>7, <2>1, <3>1 DEF TypeOK, Message
  <2>3. UidInv'
    BY <1>1, <1>2, <1>3, <2>1 DEF UidInv
  <2>4. BodyInv'
    BY <1>1, <1>3, <1>7, <2>1 DEF BodyInv
  <2>5. DupInv'
    BY <1>1, <1>3, <1>7, AppendDup
  <2> QED
    BY <1>4, <1>5, <2>2, <2>3, <2>4, <2>5
<1>8. CASE inbox' = inbox /\ spool' = Append(spool, b)
  <2> DEFINE S == Len(spool)
  <2>1. /\ spool' \in Seq(Bodies) /\ Len(spool') = S + 1 /\ S \in Nat
        /\ \A j \in 1..S : spool'[j] = spool[j]
        /\ spool'[S + 1] = b
    BY <1>8, AppendProperties, LenProperties DEF TypeOK
  <2>2. \A j \in 1..Len(spool') : j \in 1..S \/ j = S + 1
    BY <2>1
  <2>3. TypeOK'
    BY <1>1, <1>6, <1>8, <2>1 DEF TypeOK
  <2>4. UidInv'
    BY <1>1, <1>8 DEF UidInv
  <2>5. BodyInv'
    BY <1>1, <1>8, <2>1, <2>2 DEF BodyInv
  <2>6. DupInv'
    <3>1. SUFFICES ASSUME crashes' = 0, MaxCopies = 0 PROVE DupInv'
      BY DEF DupInv
    <3>2. /\ \A i, j \in 1..S : spool[i] = spool[j] => i = j
          /\ \A i \in 1..Len(inbox), j \in 1..S : inbox[i].b # spool[j]
          /\ \A i \in 1..Len(scratch), j \in 1..S : scratch[i].b # spool[j]
      BY <1>1, <3>1 DEF DupInv
    <3>3. /\ \A j \in 1..S : spool[j] # b
          /\ \A i \in 1..Len(inbox) : inbox[i].b # b
          /\ \A i \in 1..Len(scratch) : scratch[i].b # b
      BY <1>1 DEF BodyInv
    <3>4. \A i, j \in 1..Len(spool') : spool'[i] = spool'[j] => i = j
      BY <2>1, <2>2, <3>2, <3>3
    <3>5. \A i \in 1..Len(inbox), j \in 1..Len(spool') : inbox[i].b # spool'[j]
      BY <2>1, <2>2, <3>2, <3>3
    <3>6. \A i \in 1..Len(scratch), j \in 1..Len(spool') : scratch[i].b # spool'[j]
      BY <2>1, <2>2, <3>2, <3>3
    <3> QED
      BY <1>1, <1>8, <3>1, <3>4, <3>5, <3>6 DEF DupInv
  <2> QED
    BY <1>4, <1>5, <2>3, <2>4, <2>5, <2>6
<1> QED
  BY <1>1, <1>7, <1>8

\* Where a message was before another one was removed.
Before(i, k) == IF k < i THEN k ELSE k + 1

LEMMA RemoveProperties ==
    ASSUME TypeOK, NEW i \in 1..Len(inbox), RemoveFromInbox(i)
    PROVE  /\ inbox' \in Seq(Message) /\ Len(inbox') = Len(inbox) - 1
           /\ \A k \in 1..Len(inbox') :
                Before(i, k) \in 1..Len(inbox) /\ Before(i, k) # i /\ inbox'[k] = inbox[Before(i, k)]
           /\ \A k, l \in 1..Len(inbox') : Before(i, k) = Before(i, l) => k = l
           /\ \A j \in 1..Len(inbox) : j # i => \E k \in 1..Len(inbox') : Before(i, k) = j
<1> DEFINE N == Len(inbox)
           left == SubSeq(inbox, 1, i - 1)
           right == SubSeq(inbox, i + 1, N)
<1>1. N \in Nat /\ i \in Nat /\ i >= 1 /\ i <= N /\ \A k \in 1..N : inbox[k] \in Message
  <2>1. inbox \in Seq(Message)
    BY DEF TypeOK, Message
  <2>2. N \in Nat /\ \A k \in 1..N : inbox[k] \in Message
    BY <2>1, LenProperties, ElementOfSeq
  <2> QED
    BY <2>2
<1>2. /\ left \in Seq(Message) /\ Len(left) = i - 1
      /\ \A k \in 1..(i - 1) : left[k] = inbox[k]
  <2>1. 1 \in Int /\ i - 1 \in Int /\ \A k \in 1..(i - 1) : inbox[k] \in Message
    BY <1>1
  <2>2. /\ left \in Seq(Message)
        /\ Len(left) = IF 1 <= i - 1 THEN (i - 1) - 1 + 1 ELSE 0
        /\ \A k \in 1..((i - 1) - 1 + 1) : left[k] = inbox[1 + k - 1]
    BY <2>1, SubSeqProperties
  <2> HIDE DEF left
  <2> QED
    BY <1>1, <2>2
<1>3. /\ right \in Seq(Message) /\ Len(right) = N - i
      /\ \A k \in 1..(N - i) : right[k] = inbox[i + k]
  <2>1. i + 1 \in Int /\ N \in Int /\ \A k \in (i + 1)..N : inbox[k] \in Message
    BY <1>1
  <2>2. /\ right \in Seq(Message)
        /\ Len(right) = IF i + 1 <= N THEN N - (i + 1) + 1 ELSE 0
        /\ \A k \in 1..(N - (i + 1) + 1) : right[k] = inbox[(i + 1) + k - 1]
    BY <2>1, SubSeqProperties
  <2> HIDE DEF right
  <2>3. \A k \in 1..(N - i) : right[k] = inbox[i + k]
    <3>1. ASSUME NEW k \in 1..(N - i) PROVE k \in 1..(N - (i + 1) + 1) /\ (i + 1) + k - 1 = i + k
      BY <1>1
    <3> QED
      BY <2>2, <3>1
  <2> QED
    BY <1>1, <2>2, <2>3
<1>4. inbox' = left \o right
  BY DEF RemoveFromInbox
<1> HIDE DEF left, right
<1>5. /\ inbox' \in Seq(Message) /\ Len(inbox') = N - 1
      /\ \A k \in 1..(N - 1) : inbox'[k] = IF k <= i - 1 THEN left[k] ELSE right[k - (i - 1)]
  <2>1. /\ inbox' \in Seq(Message) /\ Len(inbox') = Len(left) + Len(right)
        /\ \A k \in 1..(Len(left) + Len(right)) :
             inbox'[k] = IF k <= Len(left) THEN left[k] ELSE right[k - Len(left)]
    BY <1>2, <1>3, <1>4, ConcatProperties
  <2>2. Len(left) + Len(right) = N - 1
    BY <1>1, <1>2, <1>3
  <2> QED
    BY <1>2, <2>1, <2>2
<1>6. ASSUME NEW k \in 1..(N - 1)
      PROVE  Before(i, k) \in 1..N /\ Before(i, k) # i /\ inbox'[k] = inbox[Before(i, k)]
  <2>1. CASE k < i
    <3>1. k \in 1..(i - 1) /\ k <= i - 1 /\ Before(i, k) = k /\ k \in 1..N
      BY <1>1, <2>1 DEF Before
    <3> QED
      BY <1>1, <1>2, <1>5, <2>1, <3>1
  <2>2. CASE ~(k < i)
    <3>1. /\ k - (i - 1) \in 1..(N - i) /\ ~(k <= i - 1) /\ i + (k - (i - 1)) = k + 1
          /\ Before(i, k) = k + 1 /\ k + 1 \in 1..N /\ k + 1 # i
      BY <1>1, <2>2 DEF Before
    <3>2. inbox'[k] = right[k - (i - 1)] /\ right[k - (i - 1)] = inbox[i + (k - (i - 1))]
      BY <1>3, <1>5, <3>1
    <3> QED
      BY <3>1, <3>2
  <2> QED
    BY <2>1, <2>2
<1>7. \A k, l \in 1..(N - 1) : Before(i, k) = Before(i, l) => k = l
  BY <1>1 DEF Before
<1>8. ASSUME NEW j \in 1..N, j # i PROVE \E k \in 1..(N - 1) : Before(i, k) = j
  <2>1. CASE j < i
    <3>1. j \in 1..(N - 1) /\ Before(i, j) = j
      BY <1>1, <2>1 DEF Before
    <3> QED
      BY <3>1
  <2>2. CASE ~(j < i)
    <3>1. j - 1 \in 1..(N - 1) /\ Before(i, j - 1) = j
      BY <1>1, <1>8, <2>2 DEF Before
    <3> QED
      BY <3>1
  <2> QED
    BY <2>1, <2>2
<1> QED
  BY <1>5, <1>6, <1>7, <1>8

LEMMA RemoveBase ==
    ASSUME BaseInv, NEW i \in 1..Len(inbox), RemoveFromInbox(i)
    PROVE  BaseInv'
<1> USE DEF BaseInv, SafeInv
<1>1. /\ inbox' \in Seq(Message) /\ Len(inbox') = Len(inbox) - 1
      /\ \A k \in 1..Len(inbox') :
           Before(i, k) \in 1..Len(inbox) /\ inbox'[k] = inbox[Before(i, k)]
      /\ \A k, l \in 1..Len(inbox') : Before(i, k) = Before(i, l) => k = l
  BY RemoveProperties
<1>2. /\ phase # "copying" /\ changed' \in BOOLEAN /\ asked' = asked \cup {inbox[i].b}
      /\ UNCHANGED <<spool, spoolTag, scratch, phase, orig, isOpen, fmi, index, dirty, multi,
                     queue, nextUid, bodyOf, mail, crashes>>
  BY DEF RemoveFromInbox, Unlocked, history, TypeOK
<1>3. TypeOK'
  <2>1. orig = 0 /\ Len(inbox') \in Nat
    BY <1>1, <1>2, LenProperties DEF PhaseInv
  <2>2. orig' \in 0..Len(inbox')
    BY <1>2, <2>1
  <2>3. asked' \subseteq mail
    BY <1>2 DEF BodyInv, TypeOK
  <2> QED
    BY <1>1, <1>2, <2>2, <2>3 DEF TypeOK, Message
<1>4. QueueInv'
  <2>1. QueueIn(queue', {t \in Works : Fit(t)})
    BY <1>2 DEF QueueInv
  <2>2. UNCHANGED <<mail, nextUid, bodyOf, isOpen>> /\ asked \subseteq asked'
    BY <1>2
  <2> QED
    BY <2>1, <2>2, QueueKept
<1>5. PhaseInv' /\ CopyInv'
  BY <1>2 DEF PhaseInv, CopyInv, Front
<1>6. UidInv'
  BY <1>1, <1>2 DEF UidInv
<1>7. BodyInv'
  BY <1>1, <1>2 DEF BodyInv
<1>8. DupInv'
  <2>1. SUFFICES ASSUME crashes' = 0, MaxCopies = 0 PROVE DupInv'
    BY DEF DupInv
  <2>2. /\ \A j, k \in 1..Len(inbox) : inbox[j].b = inbox[k].b => j = k
        /\ \A j \in 1..Len(inbox), k \in 1..Len(spool) : inbox[j].b # spool[k]
    BY <1>2, <2>1 DEF DupInv
  <2>3. \A k, l \in 1..Len(inbox') : inbox'[k].b = inbox'[l].b => k = l
    <3>1. SUFFICES ASSUME NEW k \in 1..Len(inbox'), NEW l \in 1..Len(inbox'),
                          inbox'[k].b = inbox'[l].b
                   PROVE  k = l
      OBVIOUS
    <3>2. /\ Before(i, k) \in 1..Len(inbox) /\ Before(i, l) \in 1..Len(inbox)
          /\ inbox[Before(i, k)].b = inbox[Before(i, l)].b
      BY <1>1, <3>1
    <3>3. Before(i, k) = Before(i, l)
      BY <2>2, <3>2
    <3> QED
      BY <1>1, <3>3
  <2>4. ASSUME NEW j \in 1..Len(inbox'), NEW k \in 1..Len(spool)
        PROVE  inbox'[j].b # spool[k]
    <3>1. Before(i, j) \in 1..Len(inbox) /\ inbox'[j] = inbox[Before(i, j)]
      BY <1>1
    <3> QED
      BY <2>2, <3>1
  <2> QED
    BY <1>2, <2>1, <2>3, <2>4 DEF DupInv
<1> QED
  BY <1>3, <1>4, <1>5, <1>6, <1>7, <1>8

\* Another program saves a copy in the spool: not when it may make none.
LEMMA ResaveBase ==
    ASSUME BaseInv, NEW i \in 1..Len(inbox), Resave(i)
    PROVE  BaseInv'
<1> USE DEF BaseInv, SafeInv
<1> DEFINE b == inbox[i].b
           S == Len(spool)
<1>1. /\ phase # "copying" /\ spool' = Append(spool, b)
      /\ spoolTag' = [spoolTag EXCEPT ![b] = inbox[i].u]
      /\ UNCHANGED <<inbox, scratch, phase, orig, isOpen, fmi, index, dirty, changed, multi,
                     queue, nextUid, bodyOf, mail, asked, crashes>>
  BY DEF Resave, Unlocked, lists, history
<1>2. b \in Bodies /\ b \in mail /\ inbox[i].u \in 0..MaxUid /\ inbox[i].u < nextUid
  BY Members DEF BodyInv, UidInv
<1>3. MaxCopies # 0
  <2>1. MaxCopies \in Nat /\ Len(inbox) \in Nat
    BY Members, FolderAssumption
  <2> DEFINE same == {j \in 1..Len(inbox) : inbox[j].b = b}
  <2>2. i \in same /\ IsFiniteSet(same) /\ Cardinality(same) <= MaxCopies
    <3>1. IsFiniteSet(1..Len(inbox)) /\ same \subseteq 1..Len(inbox)
      BY <2>1, FS_Interval
    <3>2. IsFiniteSet(same)
      BY <3>1, FS_Subset
    <3> QED
      BY <3>2 DEF Resave
  <2> HIDE DEF same
  <2>3. Cardinality(same) # 0
    BY <2>2, FS_EmptySet
  <2>4. Cardinality(same) \in Nat
    BY <2>2, FS_CardinalityType
  <2> QED
    BY <2>1, <2>2, <2>3, <2>4
<1> HIDE DEF b
<1>4. /\ spool' \in Seq(Bodies) /\ Len(spool') = S + 1 /\ S \in Nat
      /\ \A j \in 1..S : spool'[j] = spool[j]
      /\ spool'[S + 1] = b
  BY <1>1, <1>2, AppendProperties, LenProperties DEF TypeOK
<1>5. spoolTag' \in [Bodies -> 0..MaxUid] /\ \A x \in Bodies : spoolTag'[x] < nextUid
  BY <1>1, <1>2 DEF TypeOK, UidInv
<1>6. TypeOK'
  BY <1>1, <1>4, <1>5 DEF TypeOK
<1>7. QueueInv'
  <2>1. QueueIn(queue', {x \in Works : Fit(x)})
    BY <1>1 DEF QueueInv
  <2> QED
    BY <1>1, <2>1, QueueKept
<1>8. PhaseInv' /\ CopyInv'
  BY <1>1 DEF PhaseInv, CopyInv, Front
<1>9. UidInv'
  BY <1>1, <1>5 DEF UidInv
<1>10. BodyInv'
  <2>1. \A j \in 1..Len(spool') : j \in 1..S \/ j = S + 1
    BY <1>4
  <2> QED
    BY <1>1, <1>2, <1>4, <2>1 DEF BodyInv
<1>11. DupInv'
  BY <1>3 DEF DupInv
<1> QED
  BY <1>6, <1>7, <1>8, <1>9, <1>10, <1>11

-----------------------------------------------------------------------------
(* What holds whatever happens.                                            *)

LEMMA NextBase == BaseInv /\ [Next]_vars => BaseInv'
<1> SUFFICES ASSUME BaseInv, [Next]_vars PROVE BaseInv'
  OBVIOUS
<1>1. CASE Requests
  BY <1>1, RequestsBase
<1>2. CASE Handler
  <2>1. CASE ScanInbox
    BY <2>1, ScanInboxBase
  <2>2. CASE CopyNew \/ CopyTagged
    BY <2>2, CopyBase
  <2>3. CASE OpenDone
    BY <2>3, OpenDoneBase
  <2>4. CASE CopyFails
    BY <2>4, CopyFailsBase
  <2>5. CASE LockReopen \/ Read \/ MultiLocked \/ AddFails
    BY <2>5, QuietTasksBase
  <2>6. CASE Add
    BY <2>6, AddBase
  <2>7. CASE Expunge
    BY <2>7, ExpungeBase
  <2>8. CASE ExpungeRename \/ ExpungeFails
    BY <2>8, ExpungeEndBase
  <2>9. CASE Refused
    BY <2>9, QuietTasksBase, EndBase
  <2> QED
    BY <1>2, <2>1, <2>2, <2>3, <2>4, <2>5, <2>6, <2>7, <2>8, <2>9 DEF Handler
<1>3. CASE MultiLockRelease
  BY <1>3, QuietTasksBase
<1>4. CASE Kill \/ Signal \/ Logout
  BY <1>4, EndBase
<1>5. CASE Others
  BY <1>5, DeliverBase, RemoveBase, ResaveBase DEF Others
<1>6. CASE Over \/ UNCHANGED vars
  <2>1. UNCHANGED vars
    BY <1>6 DEF Over
  <2> QED
    BY <2>1 DEF vars, BaseInv, SafeInv, TypeOK, QueueInv, Fit, PhaseInv, Front, UidInv, BodyInv,
              CopyInv, Copied, DupInv
<1> QED
  BY <1>1, <1>2, <1>3, <1>4, <1>5, <1>6 DEF Next

LEMMA BaseHolds == Spec => []BaseInv
  BY InitBase, NextBase, PTL DEF Spec

\* The types of what is in memory and in the files.
THEOREM TypeCorrect == Spec => []TypeOK
<1>1. BaseInv => TypeOK
  BY DEF BaseInv, SafeInv
<1> QED
  BY <1>1, BaseHolds, PTL

\* Unless the program is killed while mail is copied, or other programs make
\* copies, no message is twice in Inbox: not when the copy fails or is
\* interrupted, not when the folder is rewritten, whatever is read, added or
\* delivered meanwhile.
THEOREM NoneTwice == Spec => []NoDuplicates
<1>1. BaseInv => NoDuplicates
  BY DEF BaseInv, DupInv, NoDuplicates
<1> QED
  BY <1>1, BaseHolds, PTL

-----------------------------------------------------------------------------
(* No list in memory has a UID twice, whatever is in the files.            *)

Unique(s) == \A i, j \in 1..Len(s) : s[i].u = s[j].u => i = j

LEMMA SelectUnique ==
    ASSUME NEW s \in Seq(Tag), Unique(s), NEW ns \in SUBSET (1..Len(s))
    PROVE  Unique(Select(s, ns))
<1>1. /\ \A k \in 1..Len(Select(s, ns)) : Nth(ns, k) \in ns /\ Select(s, ns)[k] = s[Nth(ns, k)]
      /\ \A k, l \in 1..Len(Select(s, ns)) : Nth(ns, k) = Nth(ns, l) => k = l
  BY SelectProperties
<1>2. \A k, l \in 1..Len(Select(s, ns)) :
        Select(s, ns)[k].u = Select(s, ns)[l].u => Nth(ns, k) = Nth(ns, l)
  BY <1>1 DEF Unique
<1> QED
  BY <1>1, <1>2 DEF Unique

\* The application's list after checkNewMail().
LEMMA CheckNewMailUnique ==
    ASSUME NEW idx \in Seq(Tag), Unique(idx), NEW tags \in Seq(Tag), Unique(tags)
    PROVE  Unique(CheckNewMail(idx, tags))
<1> DEFINE ns == {n \in 1..Len(tags) : tags[n].u \notin UidsOf(idx)}
           new == Select(tags, ns)
           all == CheckNewMail(idx, tags)
<1>1. /\ new \in Seq(Tag) /\ Unique(new)
      /\ \A k \in 1..Len(new) : Nth(ns, k) \in ns /\ new[k] = tags[Nth(ns, k)]
  <2>1. ns \in SUBSET (1..Len(tags))
    OBVIOUS
  <2> HIDE DEF ns
  <2> QED
    BY <2>1, SelectProperties, SelectUnique
<1>2. \A n \in ns : tags[n].u \notin UidsOf(idx)
  OBVIOUS
<1>3. all = idx \o new
  BY DEF CheckNewMail
<1> HIDE DEF ns, new, all
<1>4. /\ Len(all) = Len(idx) + Len(new) /\ Len(idx) \in Nat /\ Len(new) \in Nat
      /\ \A i \in 1..(Len(idx) + Len(new)) :
           all[i] = IF i <= Len(idx) THEN idx[i] ELSE new[i - Len(idx)]
  BY <1>1, <1>3, ConcatProperties, LenProperties
<1>5. \A i \in 1..Len(idx), k \in 1..Len(new) : idx[i].u # new[k].u
  BY <1>1, <1>2, UidsOfTags
<1>6. \A i \in 1..Len(all) :
        \/ i \in 1..Len(idx) /\ all[i] = idx[i]
        \/ ~(i <= Len(idx)) /\ i - Len(idx) \in 1..Len(new) /\ all[i] = new[i - Len(idx)]
  BY <1>4
<1>7. ASSUME NEW i \in 1..Len(all), NEW j \in 1..Len(all), all[i].u = all[j].u PROVE i = j
  <2>1. CASE i \in 1..Len(idx) /\ j \in 1..Len(idx)
    BY <1>6, <1>7, <2>1 DEF Unique
  <2>2. CASE i \notin 1..Len(idx) /\ j \notin 1..Len(idx)
    <3> DEFINE k == i - Len(idx)
               l == j - Len(idx)
    <3>1. k \in 1..Len(new) /\ all[i] = new[k] /\ l \in 1..Len(new) /\ all[j] = new[l]
      BY <1>6, <2>2
    <3> HIDE DEF k, l
    <3>2. k = l
      BY <1>1, <1>7, <3>1 DEF Unique
    <3> QED
      BY <1>4, <3>2 DEF k, l
  <2>3. CASE i \in 1..Len(idx) /\ j \notin 1..Len(idx)
    <3>1. all[i] = idx[i]
      BY <1>4, <2>3
    <3> QED
      BY <1>5, <1>6, <1>7, <2>3, <3>1
  <2>4. CASE i \notin 1..Len(idx) /\ j \in 1..Len(idx)
    <3>1. all[j] = idx[j]
      BY <1>4, <2>4
    <3> QED
      BY <1>5, <1>6, <1>7, <2>4, <3>1
  <2> QED
    BY <2>1, <2>2, <2>3, <2>4
<1> QED
  BY <1>7 DEF Unique, all

LEMMA PurgedUnique ==
    ASSUME NEW idx \in Seq(Tag), Unique(idx), NEW tags
    PROVE  Unique(Purged(idx, tags))
<1> DEFINE ns == {n \in 1..Len(idx) : idx[n].u \in UidsOf(tags)}
<1>1. ns \in SUBSET (1..Len(idx)) /\ Purged(idx, tags) = Select(idx, ns)
  BY DEF Purged
<1> HIDE DEF ns
<1> QED
  BY <1>1, SelectUnique

\* The first position of a UID keeps it.
LEMMA DistinctFirst ==
    ASSUME NEW tags \in Seq(Tag), NEW n \in 1..Len(tags)
    PROVE  \E j \in 1..Len(tags) : /\ j <= n /\ j \notin Doubled(tags)
                                   /\ tags[j].u = tags[n].u
                                   /\ n \in Doubled(tags) => j < n
<1> DEFINE at == {j \in 1..Len(tags) : tags[j].u = tags[n].u}
<1>1. Len(tags) \in Nat
  BY LenProperties
<1>2. n \in at /\ at \in SUBSET Nat
  OBVIOUS
<1>3. PICK j \in at : \A k \in at : j <= k
  <2> HIDE DEF at
  <2> QED
    BY <1>2, FirstPosition
<1>4. j \in 1..Len(tags) /\ tags[j].u = tags[n].u /\ j <= n
  BY <1>2, <1>3
<1>5. j \notin Doubled(tags)
  <2>1. ASSUME NEW m \in 1..(j - 1), tags[m].u = tags[j].u PROVE FALSE
    <3>1. m \in at /\ ~(j <= m)
      BY <1>1, <1>4, <2>1
    <3> QED
      BY <1>3, <3>1
  <2> QED
    BY <2>1 DEF Doubled
<1>6. n \in Doubled(tags) => j < n
  BY <1>1, <1>4, <1>5
<1> QED
  BY <1>4, <1>5, <1>6

\* folderMessageIndex after scan(), when new UIDs are above the others.
LEMMA DistinctUnique ==
    ASSUME NEW tags \in Seq(Tag), NEW next \in Nat,
           \A n \in Doubled(tags) : UidFrom(next, Doubled(tags), n) \in Uids,
           \A n \in 1..Len(tags) : tags[n].u < next
    PROVE  Unique(Distinct(tags, next))
<1> DEFINE twice == Doubled(tags)
           s == Distinct(tags, next)
           N == Len(tags)
<1>1. /\ N \in Nat /\ Len(s) = N
      /\ \A n \in 1..N : tags[n].u \in Nat
      /\ \A n \in 1..N : s[n].u = IF n \in twice THEN UidFrom(next, twice, n) ELSE tags[n].u
  <2>1. \A n \in 1..N : tags[n] \in Tag
    BY ElementOfSeq
  <2>2. Uids \subseteq Nat
    BY FolderAssumption DEF Uids
  <2> QED
    BY <2>1, <2>2, LenProperties, DistinctProperties DEF Tag
<1>2. /\ \A n \in twice : UidFrom(next, twice, n) \in Nat /\ next <= UidFrom(next, twice, n)
      /\ \A n, m \in twice : UidFrom(next, twice, n) = UidFrom(next, twice, m) => n = m
  <2>1. twice \in SUBSET (1..N)
    BY DEF Doubled
  <2> DEFINE c == Cardinality(twice)
  <2>2. c \in Nat
    BY <1>1, <2>1, BelowCount
  <2> HIDE DEF twice, c
  <2>3. /\ \A n \in twice : UidFrom(next, twice, n) \in next..(next + c - 1)
        /\ \A n, m \in twice : UidFrom(next, twice, n) = UidFrom(next, twice, m) => n = m
    BY <1>1, <2>1, UidFromProperties DEF c
  <2> QED
    BY <2>2, <2>3
<1>3. ASSUME NEW n \in 1..N, NEW m \in 1..N, n \notin twice, m \notin twice, tags[n].u = tags[m].u
      PROVE  n = m
  <2>1. ~(n < m) /\ ~(m < n)
    BY <1>1, <1>3 DEF Doubled
  <2> QED
    BY <1>1, <2>1
<1>4. \A n, m \in 1..N : n \in twice /\ m \notin twice => UidFrom(next, twice, n) # tags[m].u
  <2>1. SUFFICES ASSUME NEW n \in 1..N, NEW m \in 1..N, n \in twice
                 PROVE  UidFrom(next, twice, n) # tags[m].u
    OBVIOUS
  <2>2. /\ tags[m].u \in Nat /\ tags[m].u < next
        /\ UidFrom(next, twice, n) \in Nat /\ next <= UidFrom(next, twice, n)
    BY <1>1, <1>2, <2>1
  <2> QED
    BY <2>2
<1> HIDE DEF twice, s
<1>5. ASSUME NEW n \in 1..N, NEW m \in 1..N, s[n].u = s[m].u PROVE n = m
  <2>1. CASE n \in twice /\ m \in twice
    BY <1>1, <1>2, <1>5, <2>1
  <2>2. CASE n \notin twice /\ m \notin twice
    BY <1>1, <1>3, <1>5, <2>2
  <2>3. CASE n \in twice /\ m \notin twice
    BY <1>1, <1>4, <1>5, <2>3
  <2>4. CASE n \notin twice /\ m \in twice
    BY <1>1, <1>4, <1>5, <2>4
  <2> QED
    BY <2>1, <2>2, <2>3, <2>4
<1> QED
  BY <1>1, <1>5 DEF Unique, s

\* UIDs made for untagged messages are below those made after them.
LEMMA NewBelow ==
    ASSUME TypeOK, NEW ns \in SUBSET (1..Len(inbox))
    PROVE  /\ nextUid + Cardinality(ns) \in Nat /\ nextUid \in Nat
           /\ nextUid <= nextUid + Cardinality(ns)
           /\ \A i \in ns : NewUid(ns, i) \in Nat /\ NewUid(ns, i) < nextUid + Cardinality(ns)
<1> DEFINE c == Cardinality(ns)
<1>1. nextUid \in Nat /\ Len(inbox) \in Nat
  BY Members, FolderAssumption DEF TypeOK
<1>2. c \in Nat
  BY <1>1, BelowCount
<1>3. \A i \in ns : NewUid(ns, i) \in nextUid..(nextUid + c - 1)
  BY <1>1, UidFromProperties DEF NewUid
<1> HIDE DEF c
<1> QED
  BY <1>1, <1>2, <1>3 DEF c

LEMMA ScanInboxLists ==
    ASSUME BaseInv, Unique(fmi), ScanInbox
    PROVE  Unique(fmi')
<1> USE DEF BaseInv, SafeInv
<1> DEFINE new == Untagged(inbox)
           tags == Tags(inbox)
           twice == Doubled(tags)
           mid == nextUid + Cardinality(new)
<1>1. CASE Shortcut
  BY <1>1 DEF ScanInbox, Unique
<1>2. CASE ~Shortcut
  <2>1. fmi' = Distinct(tags, mid)
    BY <1>2 DEF ScanInbox
  <2>2. /\ MadeFor(new, inbox, twice, inbox) /\ new \subseteq 1..Len(inbox)
        /\ \A i \in new : NewUid(new, i) \in Uids
    BY <1>2, ScanMakes
  <2>3. /\ tags \in Seq(Tag) /\ Len(tags) = Len(inbox)
        /\ \A i \in 1..Len(inbox) : tags[i].u = IF i \in new THEN NewUid(new, i) ELSE inbox[i].u
    BY <2>2, TagsProperties
  <2>4. \A n \in twice : UidFrom(mid, twice, n) \in Uids
    BY <2>2 DEF MadeFor
  <2>5. /\ mid \in Nat /\ nextUid \in Nat /\ nextUid <= mid
        /\ \A i \in new : NewUid(new, i) < mid
    BY <2>2, NewBelow
  <2> HIDE DEF new, tags, twice, mid
  <2>6. \A i \in 1..Len(inbox) : inbox[i].u < mid
    <3>1. \A i \in 1..Len(inbox) : inbox[i].u \in Nat /\ inbox[i].u < nextUid
      BY Members, FolderAssumption DEF UidInv
    <3> QED
      BY <2>5, <3>1
  <2>7. \A n \in 1..Len(tags) : tags[n].u < mid
    BY <2>3, <2>5, <2>6
  <2> QED
    BY <2>1, <2>3, <2>4, <2>5, <2>7, DistinctUnique DEF twice
<1> QED
  BY <1>1, <1>2

LEMMA ExpungeLists ==
    ASSUME BaseInv, Expunge
    PROVE  Unique(fmi')
<1> USE DEF BaseInv, SafeInv
<1> DEFINE del == Front.del
           file == Rewrite(del)
           new == RewriteNew(del)
           heads == Headers(file)
           twice == Doubled(heads)
           mid == nextUid + Cardinality(new)
           pos(k) == Nth(Kept(del), k)
<1>1. fmi' = Distinct(heads, mid)
  BY DEF Expunge
<1>2. /\ MadeFor(new, inbox, twice, file) /\ new \subseteq 1..Len(inbox)
      /\ \A i \in new : NewUid(new, i) \in Uids
  BY ExpungeProperties
<1>3. /\ file \in Seq(Tagged)
      /\ \A k \in 1..Len(file) :
           /\ pos(k) \in Kept(del) /\ pos(k) \in 1..Len(inbox)
           /\ file[k].u = Written(pos(k), del)
  BY <1>2, RewriteProperties
<1>4. /\ heads \in Seq(Tag) /\ Len(heads) = Len(file)
      /\ \A n \in 1..Len(file) : heads[n].u = file[n].u
  BY <1>3, HeadersProperties
<1>5. \A n \in twice : UidFrom(mid, twice, n) \in Uids
  BY <1>2 DEF MadeFor
<1>6. /\ mid \in Nat /\ nextUid \in Nat /\ nextUid <= mid
      /\ \A i \in new : NewUid(new, i) < mid
  BY <1>2, NewBelow
<1> HIDE DEF file, heads, twice, mid, pos
<1>7. /\ \A i \in 1..Len(inbox) : inbox[i].u < mid
      /\ \A i \in 1..Len(fmi) : fmi[i].u < mid
  <2>1. /\ \A i \in 1..Len(inbox) : inbox[i].u \in Nat /\ inbox[i].u < nextUid
        /\ \A i \in 1..Len(fmi) : fmi[i].u \in Nat /\ fmi[i].u < nextUid
    BY Members, FolderAssumption DEF UidInv, Uids
  <2> QED
    BY <1>6, <2>1
<1>8. \A i \in Kept(del) : /\ i \in 1..Len(inbox)
                           /\ i \notin new /\ inbox[i].u = 0 => i \in 1..Len(fmi)
  BY Members DEF Kept, RewriteNew
<1>9. \A i \in Kept(del) : Written(i, del) < mid
  BY <1>6, <1>7, <1>8 DEF Written
<1>10. \A n \in 1..Len(heads) : heads[n].u < mid
  BY <1>3, <1>4, <1>9
<1> QED
  BY <1>1, <1>4, <1>5, <1>6, <1>10, DistinctUnique DEF twice

LEMMA CopyLists ==
    ASSUME BaseInv, Unique(fmi), CopyNew \/ CopyTagged
    PROVE  Unique(fmi')
<1>1. PICK m \in Message, t \in Tag : CopyStep(m, t)
  BY CopySteps DEF BaseInv
<1>2. fmi' = Append(fmi, t) /\ \A i \in 1..Len(fmi) : fmi[i].u # t.u
  BY <1>1 DEF CopyStep
<1>3. fmi \in Seq(Tag) /\ Len(fmi) \in Nat
  BY Members DEF BaseInv, SafeInv, TypeOK, Tag
<1>4. /\ Len(fmi') = Len(fmi) + 1 /\ fmi'[Len(fmi) + 1] = t
      /\ \A i \in 1..Len(fmi) : fmi'[i] = fmi[i]
  BY <1>2, <1>3, AppendProperties
<1>5. \A i \in 1..Len(fmi') : i \in 1..Len(fmi) \/ i = Len(fmi) + 1
  BY <1>3, <1>4
<1> QED
  BY <1>2, <1>4, <1>5 DEF Unique

LEMMA NextLists == BaseInv /\ ListsUnique /\ [Next]_vars => ListsUnique'
<1> SUFFICES ASSUME BaseInv, Unique(fmi), Unique(index), [Next]_vars
             PROVE  Unique(fmi') /\ Unique(index')
  BY DEF ListsUnique, Unique
<1>0. fmi \in Seq(Tag) /\ index \in Seq(Tag)
  BY DEF BaseInv, SafeInv, TypeOK, Tag
<1>1. CASE UNCHANGED <<fmi, index>>
  BY <1>1 DEF Unique
<1>2. CASE Requests
  <2>1. ASSUME NEW i \in 1..Len(index), Mark(i) PROVE Unique(fmi') /\ Unique(index')
    <3>1. /\ fmi' = fmi /\ Len(index') = Len(index)
          /\ \A k \in 1..Len(index) : index'[k].u = index[k].u
      <4>1. index' = [index EXCEPT ![i].d = ~@] /\ fmi' = fmi
        BY <2>1 DEF Mark
      <4>2. \A k \in 1..Len(index) : index[k] \in Tag
        BY <1>0, ElementOfSeq
      <4> QED
        BY <1>0, <4>1, <4>2 DEF Tag
    <3> QED
      BY <3>1 DEF Unique
  <2>2. CASE ~\E i \in 1..Len(index) : Mark(i)
    BY <1>1, <1>2, <2>2 DEF Requests, RequestOpen, Request, RequestRead, RequestExpunge,
                            RequestSave, RequestAdd, lists
  <2> QED
    BY <2>1, <2>2
<1>3. CASE Handler
  <2>1. CASE ScanInbox
    <3>1. Unique(fmi')
      BY <2>1, ScanInboxLists
    <3> QED
      BY <2>1, <3>1 DEF ScanInbox, Unique
  <2>2. CASE CopyNew \/ CopyTagged
    <3>1. Unique(fmi')
      BY <2>2, CopyLists
    <3> QED
      BY <2>2, <3>1 DEF CopyNew, CopyTagged, Unique
  <2>3. CASE OpenDone
    <3>1. fmi' = fmi /\ index' \in {fmi, CheckNewMail(index, fmi), index}
      BY <2>3 DEF OpenDone
    <3>2. Unique(CheckNewMail(index, fmi))
      BY <1>0, CheckNewMailUnique
    <3> QED
      BY <3>1, <3>2 DEF Unique
  <2>4. CASE Expunge
    <3>1. Unique(fmi')
      BY <2>4, ExpungeLists
    <3> QED
      BY <2>4, <3>1 DEF Expunge, Unique
  <2>5. CASE ExpungeRename
    <3> DEFINE left == IF Front.purge THEN Purged(index, fmi) ELSE index
    <3>1. fmi' = fmi /\ index' = CheckNewMail(left, fmi)
      BY <2>5 DEF ExpungeRename
    <3>2. left \in Seq(Tag) /\ Unique(left)
      BY <1>0, PurgedProperties, PurgedUnique
    <3> HIDE DEF left
    <3>3. Unique(CheckNewMail(left, fmi))
      BY <1>0, <3>2, CheckNewMailUnique
    <3> QED
      BY <3>1, <3>3 DEF Unique
  <2>6. CASE Refused /\ Front.k = "reopen"
    <3>1. fmi' = <<>> /\ index' = <<>>
      BY <2>6 DEF Refused, Gone
    <3> QED
      BY <3>1 DEF Unique
  <2>7. CASE \/ CopyFails \/ LockReopen \/ Read \/ MultiLocked \/ Add \/ AddFails \/ ExpungeFails
             \/ (Refused /\ Front.k # "reopen")
    BY <1>1, <2>7 DEF CopyFails, LockReopen, Read, MultiLocked, Add, AddFails, ExpungeFails,
                      Refused, lists
  <2> QED
    BY <1>3, <2>1, <2>2, <2>3, <2>4, <2>5, <2>6, <2>7 DEF Handler
<1>4. CASE MultiLockRelease
  BY <1>1, <1>4 DEF MultiLockRelease
<1>5. CASE Kill \/ Signal \/ Logout
  <2>1. fmi' = <<>> /\ index' = <<>>
    BY <1>5 DEF Kill, Signal, Logout, Gone
  <2> QED
    BY <2>1 DEF Unique
<1>6. CASE Others
  BY <1>1, <1>6 DEF Others, Deliver, DeliverToInbox, RemoveFromInbox, Resave, lists
<1>7. CASE Over \/ UNCHANGED vars
  BY <1>1, <1>7 DEF Over, vars
<1> QED
  BY <1>2, <1>3, <1>4, <1>5, <1>6, <1>7 DEF Next

\* Neither folderMessageIndex nor what the application sees ever has a UID twice:
\* not when a message is copied from the spool with the tag line that it has in
\* Inbox already, not when Inbox itself has a UID twice, is rewritten and scanned
\* again, not when the disk is full and the copy is undone.
THEOREM ListsDistinct == Spec => []ListsUnique
<1>1. Init => ListsUnique
  <2>1. Len(<<>>) = 0 /\ 1..0 = {}
    OBVIOUS
  <2> QED
    BY <2>1 DEF Init, ListsUnique
<1> QED
  BY <1>1, InitBase, NextBase, NextLists, PTL DEF Spec

-----------------------------------------------------------------------------
(* What a tag says, when there is room on the disk: steps that leave the    *)
(* tags alone.                                                              *)

LEMMA QuietFile ==
    ASSUME FileInv,
           UNCHANGED <<inbox, spoolTag, scratch, phase, isOpen, fmi, bodyOf, changed>>,
           multi' => multi \/ ~changed
    PROVE  FileInv'
<1> USE DEF FileInv
<1>1. TagInv'
  BY DEF TagInv, InboxTags
<1>2. Matches <=> Matches'
  BY DEF Matches, SameTag
<1>3. MatchInv'
  BY <1>2 DEF MatchInv
<1>4. SyncInv'
  <2>1. UidsOf(scratch') = UidsOf(scratch) /\ UidsOf(fmi') = UidsOf(fmi)
    OBVIOUS
  <2> QED
    BY <2>1 DEF SyncInv
<1> QED
  BY <1>1, <1>3, <1>4

LEMMA QuietStepsFile ==
    ASSUME FileInv,
           \/ Requests \/ LockReopen \/ Read \/ MultiLocked \/ MultiLockRelease
           \/ (Refused /\ Front.k # "reopen") \/ \E b \in Bodies : Deliver(b)
    PROVE  FileInv'
<1>1. CASE Requests
  <2>1. /\ UNCHANGED <<inbox, spoolTag, scratch, phase, isOpen, fmi, bodyOf, changed>>
        /\ multi' = multi
    BY <1>1 DEF Requests, RequestOpen, Request, RequestRead, RequestExpunge, RequestSave,
                RequestAdd, Mark, files, lists, history
  <2> QED
    BY <2>1, QuietFile
<1>2. CASE LockReopen \/ Read \/ MultiLockRelease
  <2>1. UNCHANGED <<inbox, spoolTag, scratch, phase, isOpen, fmi, bodyOf, changed>>
    BY <1>2 DEF LockReopen, Read, MultiLockRelease, files, lists, history
  <2>2. multi' => multi
    BY <1>2 DEF LockReopen, Read, MultiLockRelease, lists
  <2> QED
    BY <2>1, <2>2, QuietFile
<1>3. CASE MultiLocked
  BY <1>3, QuietFile DEF MultiLocked, LockHandling, MustReopen, files, history
<1>4. CASE Refused /\ Front.k # "reopen"
  BY <1>4, QuietFile DEF Refused, files, lists, history
<1>5. CASE \E b \in Bodies : Deliver(b)
  BY <1>5, QuietFile DEF Deliver, lists
<1> QED
  BY <1>1, <1>2, <1>3, <1>4, <1>5

\* The program ends; Inbox is what it was, or the beginning of it.
LEMMA GoneFile ==
    ASSUME BaseInv, FileInv, Kill \/ Signal \/ Logout \/ (Refused /\ Front.k = "reopen")
    PROVE  FileInv'
<1> USE DEF FileInv
<1>1. /\ phase' = "none" /\ scratch' = <<>> /\ isOpen' = FALSE /\ fmi' = <<>>
      /\ UNCHANGED <<bodyOf, spoolTag>>
      /\ inbox' = inbox \/ inbox' = Rollback
  BY DEF Kill, Signal, Logout, Refused, Gone
<1>2. Len(inbox') \in Nat /\ \A i \in 1..Len(inbox') : i \in 1..Len(inbox) /\ inbox'[i] = inbox[i]
  <2>1. CASE inbox' = inbox
    BY <2>1, Members DEF BaseInv, SafeInv
  <2>2. CASE inbox' = Rollback
    BY <2>2, RollbackProperties DEF BaseInv, SafeInv
  <2> QED
    BY <1>1, <2>1, <2>2
<1>3. Len(<<>>) = 0 /\ 1..0 = {}
  OBVIOUS
<1>4. TagInv'
  <2>1. \A i \in 1..Len(inbox') : inbox'[i].u # 0 => bodyOf'[inbox'[i].u] = {inbox'[i].b}
    BY <1>1, <1>2 DEF TagInv, InboxTags
  <2> QED
    BY <1>1, <1>3, <2>1 DEF TagInv, InboxTags
<1>5. MatchInv' /\ SyncInv'
  BY <1>1 DEF MatchInv, SyncInv
<1> QED
  BY <1>4, <1>5

\* Another program delivers to Inbox, removes a message, or saves a copy of one
\* with the tag that it has.
LEMMA OthersFile ==
    ASSUME BaseInv, FileInv,
           \/ \E b \in Bodies : DeliverToInbox(b)
           \/ \E i \in 1..Len(inbox) : RemoveFromInbox(i) \/ Resave(i)
    PROVE  FileInv'
<1> USE DEF BaseInv, SafeInv, FileInv
<1>1. ASSUME Unlocked, changed' = isOpen, InboxTags',
             UNCHANGED <<spoolTag, scratch, phase, isOpen, fmi, bodyOf, multi>>
      PROVE  FileInv'
  <2>1. MatchInv' /\ SyncInv'
    BY <1>1 DEF Unlocked, MatchInv, SyncInv, UidsOf
  <2>2. TagInv'
    BY <1>1 DEF TagInv
  <2> QED
    BY <2>1, <2>2
<1>2. ASSUME NEW b \in Bodies, DeliverToInbox(b) PROVE FileInv'
  <2> DEFINE m == [b |-> b, u |-> 0, d |-> FALSE]
  <2>1. /\ m \in Message /\ m.u = 0 /\ inbox' = Append(inbox, m)
        /\ Unlocked /\ changed' = isOpen
        /\ UNCHANGED <<spoolTag, scratch, phase, isOpen, fmi, bodyOf, multi>>
    BY <1>2, FolderAssumption DEF DeliverToInbox, Message
  <2> HIDE DEF m
  <2>2. /\ \A i \in 1..Len(inbox) : inbox'[i] = inbox[i]
        /\ inbox'[Len(inbox) + 1] = m
        /\ \A i \in 1..Len(inbox') : i \in 1..Len(inbox) \/ i = Len(inbox) + 1
    BY <2>1, AppendInbox
  <2>3. InboxTags'
    BY <2>1, <2>2 DEF TagInv, InboxTags
  <2> QED
    BY <1>1, <2>1, <2>3
<1>3. ASSUME NEW i \in 1..Len(inbox), RemoveFromInbox(i) PROVE FileInv'
  <2>1. \A k \in 1..Len(inbox') : Before(i, k) \in 1..Len(inbox) /\ inbox'[k] = inbox[Before(i, k)]
    BY <1>3, RemoveProperties
  <2>2. /\ Unlocked /\ changed' = isOpen
        /\ UNCHANGED <<spoolTag, scratch, phase, isOpen, fmi, bodyOf, multi>>
    BY <1>3 DEF RemoveFromInbox, history
  <2>3. ASSUME NEW k \in 1..Len(inbox'), inbox'[k].u # 0
        PROVE  bodyOf[inbox'[k].u] = {inbox'[k].b}
    <3>1. Before(i, k) \in 1..Len(inbox) /\ inbox'[k] = inbox[Before(i, k)]
      BY <2>1
    <3> QED
      BY <2>3, <3>1 DEF TagInv, InboxTags
  <2>4. InboxTags'
    BY <2>2, <2>3 DEF InboxTags
  <2> QED
    BY <1>1, <2>2, <2>4
<1>4. ASSUME NEW i \in 1..Len(inbox), Resave(i) PROVE FileInv'
  <2>1. /\ spoolTag' = [spoolTag EXCEPT ![inbox[i].b] = inbox[i].u] /\ inbox[i].u # 0
        /\ UNCHANGED <<inbox, scratch, phase, isOpen, fmi, bodyOf, changed, multi>>
    BY <1>4 DEF Resave, lists, history
  <2>2. bodyOf[inbox[i].u] = {inbox[i].b}
    BY <2>1 DEF TagInv, InboxTags
  <2>3. \A b \in Bodies : spoolTag'[b] # 0 => bodyOf[spoolTag'[b]] = {b}
    BY <2>1, <2>2 DEF TypeOK, TagInv
  <2>4. TagInv'
    BY <2>1, <2>3 DEF TagInv, InboxTags
  <2>5. Matches <=> Matches'
    BY <2>1 DEF Matches, SameTag
  <2>6. MatchInv'
    BY <2>1, <2>5 DEF MatchInv
  <2>7. SyncInv'
    <3>1. UidsOf(scratch') = UidsOf(scratch) /\ UidsOf(fmi') = UidsOf(fmi)
      BY <2>1
    <3> QED
      BY <2>1, <3>1 DEF SyncInv
  <2> QED
    BY <2>4, <2>6, <2>7
<1> QED
  BY <1>2, <1>3, <1>4

-----------------------------------------------------------------------------
(* What a tag says: steps that make UIDs.                                  *)

\* A message comes to the end of Inbox, with the UID that is made for it or one
\* that is its own.
LEMMA AppendTag ==
    ASSUME BaseInv, TagInv, NEW m \in Message, inbox' = Append(inbox, m), m.u # 0,
           bodyOf'[m.u] = {m.b},
           \A u \in Uids : u < nextUid => bodyOf'[u] = bodyOf[u],
           \A u \in Uids : \A x \in bodyOf'[u] : x \in bodyOf[u] \/ (u >= nextUid /\ x = m.b)
    PROVE  /\ \A u \in Uids, x, y \in Bodies : x \in bodyOf'[u] /\ y \in bodyOf'[u] => x = y
           /\ InboxTags'
<1> USE DEF BaseInv, SafeInv
<1>1. nextUid \in Nat /\ Uids \subseteq Nat
  BY FolderAssumption DEF TypeOK, Uids
<1>2. ASSUME NEW u \in Uids, NEW x \in Bodies, NEW y \in Bodies, x \in bodyOf'[u], y \in bodyOf'[u]
      PROVE  x = y
  <2>1. CASE u < nextUid
    BY <1>2, <2>1 DEF TagInv
  <2>2. CASE u >= nextUid
    <3>1. bodyOf[u] = {}
      BY <2>2 DEF UidInv
    <3> QED
      BY <1>2, <3>1
  <2> QED
    BY <1>1, <2>1, <2>2
<1>3. /\ \A i \in 1..Len(inbox) : inbox'[i] = inbox[i]
      /\ inbox'[Len(inbox) + 1] = m
      /\ \A i \in 1..Len(inbox') : i \in 1..Len(inbox) \/ i = Len(inbox) + 1
  BY AppendInbox
<1>4. \A i \in 1..Len(inbox) : inbox[i].u # 0 => bodyOf'[inbox[i].u] = {inbox[i].b}
  <2>1. \A i \in 1..Len(inbox) : inbox[i].u # 0 => inbox[i].u \in Uids /\ inbox[i].u < nextUid
    BY Members, FolderAssumption DEF UidInv, Uids
  <2> QED
    BY <2>1 DEF TagInv, InboxTags
<1>5. InboxTags'
  BY <1>3, <1>4 DEF InboxTags
<1> QED
  BY <1>2, <1>5

\* The tags that were there stay what they were.
LEMMA OldTags ==
    ASSUME BaseInv, TagInv, \A u \in Uids : u < nextUid => bodyOf'[u] = bodyOf[u]
    PROVE  /\ inbox' = inbox => InboxTags'
           /\ \A i \in 1..Len(inbox) :
                inbox[i].u # 0 => inbox[i].u \in Uids /\ bodyOf'[inbox[i].u] = {inbox[i].b}
           /\ \A i \in 1..Len(scratch) : bodyOf'[scratch[i].u] = {scratch[i].b}
           /\ \A i \in 1..Len(fmi) : bodyOf'[fmi[i].u] = bodyOf[fmi[i].u]
           /\ \A b \in Bodies : spoolTag[b] # 0 => bodyOf'[spoolTag[b]] = {b}
<1> USE DEF BaseInv, SafeInv
<1>1. ASSUME NEW i \in 1..Len(inbox), inbox[i].u # 0
      PROVE  inbox[i].u \in Uids /\ bodyOf'[inbox[i].u] = {inbox[i].b}
  <2>1. inbox[i].u \in 0..MaxUid /\ inbox[i].u < nextUid /\ MaxUid \in Nat
    BY Members, FolderAssumption DEF UidInv
  <2>2. inbox[i].u \in Uids
    BY <1>1, <2>1 DEF Uids
  <2> QED
    BY <1>1, <2>1, <2>2 DEF TagInv, InboxTags
<1>2. \A i \in 1..Len(scratch) : bodyOf'[scratch[i].u] = {scratch[i].b}
  BY Members DEF UidInv, TagInv
<1>3. \A i \in 1..Len(fmi) : bodyOf'[fmi[i].u] = bodyOf[fmi[i].u]
  BY Members DEF UidInv
<1>4. inbox' = inbox => InboxTags'
  BY <1>1 DEF InboxTags
<1>5. ASSUME NEW b \in Bodies, spoolTag[b] # 0 PROVE bodyOf'[spoolTag[b]] = {b}
  <2>1. spoolTag[b] \in 0..MaxUid /\ spoolTag[b] < nextUid /\ MaxUid \in Nat
    BY Members, FolderAssumption DEF UidInv
  <2>2. spoolTag[b] \in Uids
    BY <1>5, <2>1 DEF Uids
  <2> QED
    BY <1>5, <2>1, <2>2 DEF TagInv
<1> QED
  BY <1>1, <1>2, <1>3, <1>4, <1>5

LEMMA CopyFile ==
    ASSUME BaseInv, FileInv, CopyNew \/ CopyTagged
    PROVE  FileInv'
<1> USE DEF BaseInv, SafeInv, FileInv
<1> DEFINE N == Len(inbox)
<1>0. PICK m \in Message, t \in Tag : CopyStep(m, t)
  BY CopySteps
<1>1. /\ phase = "copying" /\ m.u \in Uids /\ m.u # 0
      /\ inbox' = Append(inbox, m) /\ fmi' = Append(fmi, t)
      /\ \A u \in Uids : u < nextUid => bodyOf'[u] = bodyOf[u]
      /\ \A u \in Uids : \A x \in bodyOf'[u] : x \in bodyOf[u] \/ (u >= nextUid /\ x = m.b)
      /\ t.u = m.u \/ bodyOf'[t.u] = {m.b}
      /\ t.u = m.u \/ \E j \in 1..Len(fmi) : fmi[j].u = m.u
      /\ UNCHANGED <<scratch, spoolTag, phase, isOpen>>
  BY <1>0 DEF CopyStep, Uids
<1>2. N \in Nat /\ Matches /\ Len(fmi) = N
  BY <1>1, Members DEF MatchInv
<1>3. bodyOf'[m.u] = {m.b}
  <2>1. CASE bodyOf'[m.u] = {m.b}
    BY <2>1
  <2>2. CASE m.u = spoolTag[m.b]
    BY <1>1, <2>2, OldTags DEF Message
  <2> QED
    BY <1>0, <2>1, <2>2 DEF CopyStep
<1>4. bodyOf'[t.u] = {m.b}
  BY <1>1, <1>3
<1>5. /\ \A u \in Uids, x, y \in Bodies : x \in bodyOf'[u] /\ y \in bodyOf'[u] => x = y
      /\ InboxTags'
  BY <1>1, <1>3, AppendTag
<1>6. /\ Len(inbox') = N + 1 /\ inbox'[N + 1] = m
      /\ \A i \in 1..N : inbox'[i] = inbox[i]
  BY <1>1, AppendInbox
<1>7. /\ Len(fmi') = N + 1 /\ fmi'[N + 1] = t
      /\ \A i \in 1..N : fmi'[i] = fmi[i]
  <2>1. fmi \in Seq(Tag)
    BY DEF TypeOK, Tag
  <2> QED
    BY <1>1, <1>2, <2>1, AppendProperties
<1>8. TagInv'
  <2>1. /\ \A i \in 1..Len(scratch) : bodyOf'[scratch[i].u] = {scratch[i].b}
        /\ \A b \in Bodies : spoolTag[b] # 0 => bodyOf'[spoolTag[b]] = {b}
    BY <1>1, OldTags
  <2> QED
    BY <1>1, <1>5, <2>1 DEF TagInv
<1>9. Matches'
  <2> DEFINE same(i) == \/ inbox'[i].u \in {0, fmi'[i].u}
                        \/ \E j \in 1..(i - 1) : fmi'[j].u = inbox'[i].u
  <2>1. ASSUME NEW i \in 1..N PROVE same(i) /\ bodyOf'[fmi'[i].u] = {inbox'[i].b}
    <3>1. SameTag(i) /\ bodyOf[fmi[i].u] = {inbox[i].b}
      BY <1>2 DEF Matches
    <3>2. bodyOf'[fmi[i].u] = bodyOf[fmi[i].u]
      BY <1>1, <1>2, OldTags
    <3>3. \A j \in 1..(i - 1) : fmi'[j] = fmi[j]
      BY <1>2, <1>7
    <3> QED
      BY <1>6, <1>7, <3>1, <3>2, <3>3 DEF SameTag
  <2>2. same(N + 1) /\ bodyOf'[fmi'[N + 1].u] = {inbox'[N + 1].b}
    <3>1. CASE t.u = m.u
      BY <1>4, <1>6, <1>7, <3>1
    <3>2. CASE t.u # m.u
      <4>1. PICK j \in 1..N : fmi[j].u = m.u
        BY <1>1, <1>2, <3>2
      <4>2. j \in 1..((N + 1) - 1) /\ fmi'[j].u = m.u
        BY <1>2, <1>7, <4>1
      <4> QED
        BY <1>4, <1>6, <1>7, <4>2
    <3> QED
      BY <3>1, <3>2
  <2>3. \A i \in 1..(N + 1) : i \in 1..N \/ i = N + 1
    BY <1>2
  <2> HIDE DEF same
  <2>4. \A i \in 1..(N + 1) : same(i) /\ bodyOf'[fmi'[i].u] = {inbox'[i].b}
    BY <2>1, <2>2, <2>3
  <2> QED
    BY <1>2, <1>6, <1>7, <2>4 DEF Matches, SameTag, same
<1>10. MatchInv' /\ SyncInv'
  BY <1>1, <1>6, <1>7, <1>9 DEF MatchInv, SyncInv
<1> QED
  BY <1>8, <1>10

\* Messages whose UIDs are made together are told apart by them.
LEMMA MadeTags ==
    ASSUME BaseInv, TagInv, NEW ns1, NEW f1, NEW ns2, NEW f2, MadeFor(ns1, f1, ns2, f2)
    PROVE  \A u \in Uids, x, y \in Bodies : x \in bodyOf'[u] /\ y \in bodyOf'[u] => x = y
<1>1. SUFFICES ASSUME NEW u \in Uids, NEW x \in Bodies, NEW y \in Bodies,
                      x \in bodyOf'[u], y \in bodyOf'[u]
               PROVE  x = y
  OBVIOUS
<1>2. nextUid \in Nat /\ u \in Nat
  BY FolderAssumption DEF BaseInv, SafeInv, TypeOK, Uids
<1>3. CASE u < nextUid
  <2>1. x \in bodyOf[u] /\ y \in bodyOf[u]
    BY <1>1, <1>3 DEF MadeFor
  <2> QED
    BY <2>1 DEF TagInv
<1>4. CASE u >= nextUid
  <2>1. bodyOf[u] = {}
    BY <1>4 DEF BaseInv, SafeInv, UidInv
  <2>2. \/ \E i \in ns1 : NewUid(ns1, i) = u
        \/ \E i \in ns2 : UidFrom(nextUid + Cardinality(ns1), ns2, i) = u
    BY <1>1, <2>1 DEF MadeFor
  <2>3. ASSUME NEW i \in ns1, NewUid(ns1, i) = u PROVE bodyOf'[u] = {f1[i].b}
    BY <2>3 DEF MadeFor
  <2>4. ASSUME NEW i \in ns2, UidFrom(nextUid + Cardinality(ns1), ns2, i) = u
        PROVE  bodyOf'[u] = {f2[i].b}
    BY <2>4 DEF MadeFor
  <2> QED
    BY <1>1, <2>2, <2>3, <2>4
<1> QED
  BY <1>2, <1>3, <1>4

LEMMA ScanInboxFile ==
    ASSUME BaseInv, FileInv, ScanInbox
    PROVE  FileInv'
<1> USE DEF BaseInv, SafeInv, FileInv
<1>1. /\ Alive /\ queue # <<>> /\ Front.k \in OpenKinds /\ ~multi
      /\ phase' = "copying" /\ UNCHANGED <<inbox, spoolTag, scratch, isOpen>>
  BY DEF ScanInbox, Handling
<1>2. CASE Shortcut
  <2>1. UNCHANGED <<fmi, nextUid, bodyOf>> /\ Front.k # "open" /\ ~changed
    BY <1>2 DEF ScanInbox, Shortcut
  <2>2. isOpen
    <3>1. Front \in Tasks /\ Fit(Work(Front))
      BY <1>1, FrontFits
    <3>2. Work(Front).k # "open"
      BY <2>1, <3>1, TaskKinds DEF LockKinds
    <3> QED
      BY <3>1, <3>2 DEF Fit
  <2>3. Matches /\ Len(fmi) = Len(inbox)
    BY <1>1, <2>1, <2>2 DEF MatchInv, Alive
  <2>4. TagInv'
    BY <1>1, <2>1 DEF TagInv, InboxTags
  <2>5. Matches' /\ Len(fmi') = Len(inbox')
    BY <1>1, <2>1, <2>3 DEF Matches, SameTag
  <2>6. MatchInv' /\ SyncInv'
    BY <1>1, <2>5 DEF MatchInv, SyncInv
  <2> QED
    BY <2>4, <2>6
<1>3. CASE ~Shortcut
  <2> DEFINE new == Untagged(inbox)
             tags == Tags(inbox)
             twice == Doubled(tags)
             N == Len(inbox)
             mid == nextUid + Cardinality(new)
  <2>1. /\ MadeFor(new, inbox, twice, inbox)
        /\ new \subseteq 1..N
        /\ \A i \in new : NewUid(new, i) \in Uids
        /\ Len(fmi') = N
        /\ \A i \in 1..N : fmi'[i].u = IF i \in twice THEN UidFrom(mid, twice, i) ELSE tags[i].u
    BY <1>3, ScanMakes
  <2>2. /\ tags \in Seq(Tag) /\ Len(tags) = N
        /\ \A i \in 1..N : tags[i].u = IF i \in new THEN NewUid(new, i) ELSE inbox[i].u
    BY <2>1, TagsProperties
  <2>3. \A i \in 1..N : i \in new <=> inbox[i].u = 0
    BY DEF Untagged
  <2>4. N \in Nat
    BY Members
  <2>5. /\ \A i \in new : bodyOf'[NewUid(new, i)] = {inbox[i].b}
        /\ \A i \in twice : bodyOf'[UidFrom(mid, twice, i)] = {inbox[i].b}
        /\ \A u \in Uids : u < nextUid => bodyOf'[u] = bodyOf[u]
    BY <2>1 DEF MadeFor
  <2>6. /\ InboxTags'
        /\ \A i \in 1..Len(inbox) :
             inbox[i].u # 0 => inbox[i].u \in Uids /\ bodyOf'[inbox[i].u] = {inbox[i].b}
        /\ \A i \in 1..Len(scratch) : bodyOf'[scratch[i].u] = {scratch[i].b}
        /\ \A b \in Bodies : spoolTag[b] # 0 => bodyOf'[spoolTag[b]] = {b}
    BY <1>1, <2>5, OldTags
  <2>7. \A u \in Uids, x, y \in Bodies : x \in bodyOf'[u] /\ y \in bodyOf'[u] => x = y
    BY <2>1, MadeTags
  <2>8. TagInv'
    BY <1>1, <2>6, <2>7 DEF TagInv
  <2> DEFINE same(i) == \/ inbox[i].u \in {0, fmi'[i].u}
                        \/ \E j \in 1..(i - 1) : fmi'[j].u = inbox[i].u
  <2> HIDE DEF new, twice, tags, mid
  <2>9. ASSUME NEW i \in 1..N PROVE same(i) /\ bodyOf'[fmi'[i].u] = {inbox[i].b}
    <3>1. CASE i \notin twice
      <4>1. fmi'[i].u = tags[i].u
        BY <2>1, <3>1
      <4>2. CASE i \in new
        <5>1. inbox[i].u = 0 /\ tags[i].u = NewUid(new, i)
          BY <2>2, <2>3, <4>2
        <5> QED
          BY ONLY <2>5, <4>1, <4>2, <5>1
      <4>3. CASE i \notin new
        <5>1. inbox[i].u # 0 /\ tags[i].u = inbox[i].u
          BY <2>2, <2>3, <4>3
        <5> QED
          BY <2>6, <4>1, <5>1
      <4> QED
        BY <4>2, <4>3
    <3>2. CASE i \in twice /\ i \in new
      BY <2>1, <2>3, <2>5, <3>2
    <3>3. CASE i \in twice /\ i \notin new
      <4>1. PICK j \in 1..N : j < i /\ j \notin twice /\ tags[j].u = tags[i].u
        BY <2>2, <3>3, DistinctFirst DEF twice
      <4>2. j \in 1..(i - 1) /\ fmi'[j].u = inbox[i].u
        BY <2>1, <2>2, <2>4, <3>3, <4>1
      <4> QED
        BY <2>1, <2>5, <3>3, <4>2
    <3> QED
      BY <3>1, <3>2, <3>3
  <2>10. Matches'
    BY <1>1, <2>1, <2>4, <2>9 DEF Matches, SameTag
  <2>11. MatchInv' /\ SyncInv'
    BY <1>1, <2>1, <2>10 DEF MatchInv, SyncInv
  <2> QED
    BY <2>8, <2>11
<1> QED
  BY <1>2, <1>3

LEMMA OpenDoneFile ==
    ASSUME BaseInv, FileInv, OpenDone
    PROVE  FileInv'
<1>1. /\ phase = "copying" /\ phase' = "none"
      /\ spoolTag' = [b \in Bodies |-> 0]
      /\ UNCHANGED <<inbox, scratch, fmi, bodyOf>>
  BY DEF OpenDone, CopyDone, history
<1>2. TagInv'
  BY <1>1 DEF FileInv, TagInv, InboxTags
<1>3. Matches /\ Len(fmi) = Len(inbox)
  BY <1>1 DEF FileInv, MatchInv
<1>4. Matches' /\ Len(fmi') = Len(inbox')
  BY <1>1, <1>3 DEF Matches, SameTag
<1>5. MatchInv' /\ SyncInv'
  BY <1>1, <1>4 DEF MatchInv, SyncInv
<1> QED
  BY <1>2, <1>5 DEF FileInv

\* A message is added: besides folderMessageIndex, unless it is locked.
LEMMA AddFile ==
    ASSUME BaseInv, FileInv, Add
    PROVE  FileInv'
<1> USE DEF BaseInv, SafeInv, FileInv
<1> DEFINE b == Front.b
           N == Len(inbox)
           m == [b |-> b, u |-> nextUid, d |-> Front.d]
<1>1. /\ Alive /\ queue # <<>> /\ Front.k = "add" /\ TakeUid /\ (~changed \/ multi)
      /\ inbox' = Append(inbox, m)
      /\ bodyOf' = [bodyOf EXCEPT ![nextUid] = @ \cup {b}]
      /\ changed' = TRUE
      /\ UNCHANGED <<spoolTag, scratch, phase, isOpen, fmi, multi>>
  BY DEF Add, LockHandling, Handling, MustReopen
<1>2. b \in Bodies /\ Front.d \in BOOLEAN /\ isOpen
  <2>1. Front \in Tasks /\ Fit(Work(Front))
    BY <1>1, FrontFits
  <2>2. Work(Front) = Front
    BY <1>1 DEF Work
  <2> QED
    BY <1>1, <2>1, <2>2, TaskKinds DEF Fit
<1>3. Matches
  BY <1>1, <1>2 DEF MatchInv, Alive
<1>4. /\ nextUid \in Uids /\ bodyOf'[nextUid] = {b}
      /\ \A u \in Uids : u # nextUid => bodyOf'[u] = bodyOf[u]
      /\ \A u \in Uids : u < nextUid => bodyOf'[u] = bodyOf[u]
  BY <1>1, <1>2, TakeUidProperties
<1>5. m \in Message /\ m.u = nextUid /\ m.b = b /\ m.u # 0
  BY <1>2, <1>4, FolderAssumption DEF Message, Uids
<1> HIDE DEF m, b
<1>6. /\ \A u \in Uids, x, y \in Bodies : x \in bodyOf'[u] /\ y \in bodyOf'[u] => x = y
      /\ InboxTags'
  <2>1. nextUid >= nextUid
    BY FolderAssumption DEF TypeOK
  <2>2. \A u \in Uids : \A x \in bodyOf'[u] : x \in bodyOf[u] \/ (u >= nextUid /\ x = m.b)
    BY <1>4, <1>5, <2>1
  <2> QED
    BY <1>1, <1>4, <1>5, <2>2, AppendTag
<1>7. TagInv'
  <2>1. /\ \A i \in 1..Len(scratch) : bodyOf'[scratch[i].u] = {scratch[i].b}
        /\ \A x \in Bodies : spoolTag[x] # 0 => bodyOf'[spoolTag[x]] = {x}
    BY <1>4, OldTags
  <2> QED
    BY <1>1, <1>6, <2>1 DEF TagInv
<1>8. /\ Len(inbox') = N + 1
      /\ \A i \in 1..N : inbox'[i] = inbox[i]
  BY <1>1, <1>5, AppendInbox
<1>9. /\ N \in Nat /\ Len(fmi) \in Nat /\ Len(fmi) <= N
      /\ \A i \in 1..Len(fmi) : i \in 1..N
  BY <1>3, Members DEF Matches
<1>10. Matches'
  <2>1. Len(fmi') <= Len(inbox')
    BY <1>1, <1>8, <1>9
  <2>2. ASSUME NEW i \in 1..Len(fmi)
        PROVE  /\ \/ inbox'[i].u \in {0, fmi[i].u}
                  \/ \E j \in 1..(i - 1) : fmi[j].u = inbox'[i].u
               /\ bodyOf'[fmi[i].u] = {inbox'[i].b}
    <3>1. SameTag(i) /\ bodyOf[fmi[i].u] = {inbox[i].b}
      BY <1>3 DEF Matches
    <3>2. bodyOf'[fmi[i].u] = bodyOf[fmi[i].u]
      BY <1>4, OldTags
    <3> QED
      BY <1>8, <1>9, <3>1, <3>2 DEF SameTag
  <2> QED
    BY <1>1, <2>1, <2>2 DEF Matches, SameTag
<1>11. MatchInv' /\ SyncInv'
  BY <1>1, <1>10 DEF MatchInv, SyncInv, Alive
<1> QED
  BY <1>7, <1>11

\* The rewritten file: each tag is the message's.
LEMMA RewriteTags ==
    ASSUME BaseInv, FileInv, Expunge
    PROVE  LET file == Rewrite(Front.del) IN
           /\ Matches
           /\ \A k \in 1..Len(file) : bodyOf'[file[k].u] = {file[k].b}
<1> USE DEF BaseInv, SafeInv, FileInv
<1> DEFINE del == Front.del
           file == Rewrite(del)
           new == RewriteNew(del)
           twice == Doubled(Headers(file))
           pos(k) == Nth(Kept(del), k)
<1>1. /\ Alive /\ queue # <<>> /\ Front.k = "expunge" /\ (~changed \/ multi)
  BY DEF Expunge, LockHandling, Handling, MustReopen
<1>2. Matches
  <2>1. Front \in Tasks /\ Fit(Work(Front)) /\ Work(Front) = Front
    BY <1>1, FrontFits DEF Work
  <2>2. isOpen
    BY <1>1, <2>1 DEF Fit
  <2> QED
    BY <1>1, <2>2 DEF MatchInv, Alive
<1>3. /\ MadeFor(new, inbox, twice, file)
      /\ \A i \in new : NewUid(new, i) \in Uids
  BY ExpungeProperties
<1>4. \A k \in 1..Len(file) : /\ pos(k) \in Kept(del)
                              /\ file[k].b = inbox[pos(k)].b /\ file[k].u = Written(pos(k), del)
  BY <1>3, RewriteProperties
<1>5. /\ \A i \in new : bodyOf'[NewUid(new, i)] = {inbox[i].b}
      /\ \A u \in Uids : u < nextUid => bodyOf'[u] = bodyOf[u]
  BY <1>3 DEF MadeFor
<1>6. \A i \in Kept(del) : /\ i \in 1..Len(inbox)
                           /\ i \notin new /\ inbox[i].u = 0 => i \in 1..Len(fmi)
  BY Members DEF Kept, RewriteNew
<1>7. ASSUME NEW i \in Kept(del) PROVE bodyOf'[Written(i, del)] = {inbox[i].b}
  <2>1. CASE i \in new
    BY <1>5, <2>1 DEF Written
  <2>2. CASE i \notin new /\ inbox[i].u # 0
    BY <1>5, <1>6, <2>2, OldTags DEF Written
  <2>3. CASE i \notin new /\ inbox[i].u = 0
    <3>1. i \in 1..Len(fmi)
      BY <1>6, <2>3
    <3> QED
      BY <1>2, <1>5, <2>3, <3>1, OldTags DEF Matches, Written
  <2> QED
    BY <2>1, <2>2, <2>3
<1> HIDE DEF file, pos, del
<1>8. \A k \in 1..Len(file) : bodyOf'[file[k].u] = {file[k].b}
  BY <1>4, <1>7
<1> QED
  BY <1>2, <1>8 DEF file, del

LEMMA ExpungeFile ==
    ASSUME BaseInv, FileInv, Expunge
    PROVE  FileInv'
<1> USE DEF FileInv
<1> DEFINE file == Rewrite(Front.del)
           new == RewriteNew(Front.del)
           heads == Headers(file)
           twice == Doubled(heads)
<1>1. UNCHANGED <<inbox, spoolTag>> /\ phase' \in {"unlocked", "renaming"}
  BY DEF Expunge
<1>2. /\ MadeFor(new, inbox, twice, file)
      /\ \A i \in new : NewUid(new, i) \in Uids
      /\ scratch' = file /\ fmi' \in Seq(Tag) /\ Len(fmi') = Len(file)
      /\ \A i \in 1..Len(file) : i \notin twice => fmi'[i].u = file[i].u
  BY ExpungeProperties DEF BaseInv, SafeInv
<1>3. \A k \in 1..Len(file) : bodyOf'[file[k].u] = {file[k].b}
  BY RewriteTags
<1>4. \A u \in Uids, x, y \in Bodies : x \in bodyOf'[u] /\ y \in bodyOf'[u] => x = y
  BY <1>2, MadeTags
<1>5. /\ heads \in Seq(Tag) /\ Len(heads) = Len(file)
      /\ \A n \in 1..Len(file) : heads[n].u = file[n].u
  BY <1>2, RewriteProperties, HeadersProperties DEF BaseInv, SafeInv
<1> HIDE DEF file, new, heads, twice
<1>6. /\ InboxTags' /\ \A b \in Bodies : spoolTag[b] # 0 => bodyOf'[spoolTag[b]] = {b}
  <2>1. \A u \in Uids : u < nextUid => bodyOf'[u] = bodyOf[u]
    BY <1>2 DEF MadeFor
  <2> QED
    BY <1>1, <2>1, OldTags
<1>7. TagInv'
  BY <1>1, <1>2, <1>3, <1>4, <1>6 DEF TagInv
<1>8. MatchInv'
  BY <1>1 DEF MatchInv
<1>9. SyncInv'
  <2>1. ASSUME NEW n \in 1..Len(file) PROVE file[n].u \in UidsOf(fmi')
    <3>1. PICK j \in 1..Len(file) : j \notin twice /\ heads[j].u = heads[n].u
      BY <1>5, DistinctFirst DEF twice
    <3>2. fmi'[j].u = file[n].u
      BY <1>2, <1>5, <3>1
    <3> QED
      BY <1>2, <3>2, UidsOfTags
  <2>2. UidsOf(file) \subseteq UidsOf(fmi')
    BY <2>1 DEF UidsOf
  <2> QED
    BY <1>2, <2>2 DEF SyncInv, UidsOf
<1> QED
  BY <1>7, <1>8, <1>9

LEMMA ExpungeRenameFile ==
    ASSUME BaseInv, FileInv, ExpungeRename
    PROVE  FileInv'
<1> USE DEF BaseInv, SafeInv, FileInv
<1>1. /\ phase \in {"renaming", "unlocked"} /\ phase' = "none"
      /\ inbox' = scratch /\ scratch' = <<>> /\ changed' = TRUE
      /\ UNCHANGED <<spoolTag, isOpen, fmi, multi, bodyOf>>
  BY DEF ExpungeRename, history
<1>2. ~multi'
  BY <1>1 DEF PhaseInv
<1>3. Len(<<>>) = 0 /\ 1..0 = {}
  OBVIOUS
<1>4. InboxTags'
  BY <1>1 DEF TagInv, InboxTags
<1>5. TagInv'
  BY <1>1, <1>3, <1>4 DEF TagInv
<1>6. MatchInv' /\ SyncInv'
  BY <1>1, <1>2 DEF MatchInv, SyncInv
<1> QED
  BY <1>5, <1>6

LEMMA InitFile == Init => FileInv
<1>1. Len(<<>>) = 0 /\ 1..0 = {}
  OBVIOUS
<1> QED
  BY <1>1 DEF Init, FileInv, TagInv, InboxTags, MatchInv, SyncInv

LEMMA NextFile ==
    ASSUME DiskFills = FALSE
    PROVE  BaseInv /\ FileInv /\ [Next]_vars => FileInv'
<1> SUFFICES ASSUME BaseInv, FileInv, [Next]_vars PROVE FileInv'
  OBVIOUS
<1>1. CASE Requests \/ MultiLockRelease
  BY <1>1, QuietStepsFile
<1>2. CASE Handler
  <2>1. ~CopyFails /\ ~AddFails /\ ~ExpungeFails
    BY DEF CopyFails, AddFails, ExpungeFails
  <2>2. CASE ScanInbox
    BY <2>2, ScanInboxFile
  <2>3. CASE CopyNew \/ CopyTagged
    BY <2>3, CopyFile
  <2>4. CASE OpenDone
    BY <2>4, OpenDoneFile
  <2>5. CASE LockReopen \/ Read \/ MultiLocked
    BY <2>5, QuietStepsFile
  <2>6. CASE Add
    BY <2>6, AddFile
  <2>7. CASE Expunge
    BY <2>7, ExpungeFile
  <2>8. CASE ExpungeRename
    BY <2>8, ExpungeRenameFile
  <2>9. CASE Refused
    BY <2>9, QuietStepsFile, GoneFile
  <2> QED
    BY <1>2, <2>1, <2>2, <2>3, <2>4, <2>5, <2>6, <2>7, <2>8, <2>9 DEF Handler
<1>3. CASE Kill \/ Signal \/ Logout
  BY <1>3, GoneFile
<1>4. CASE Others
  BY <1>4, QuietStepsFile, OthersFile DEF Others
<1>5. CASE Over \/ UNCHANGED vars
  <2>1. UNCHANGED vars
    BY <1>5 DEF Over
  <2>2. UNCHANGED <<inbox, spoolTag, scratch, phase, isOpen, fmi, bodyOf, changed>> /\ multi' = multi
    BY <2>1 DEF vars
  <2> QED
    BY <2>2, QuietFile
<1> QED
  BY <1>1, <1>2, <1>3, <1>4, <1>5 DEF Next

LEMMA FileHolds ==
    ASSUME DiskFills = FALSE
    PROVE  Spec => [](BaseInv /\ FileInv)
<1>1. Init => BaseInv /\ FileInv
  BY InitBase, InitFile
<1>2. BaseInv /\ FileInv /\ [Next]_vars => (BaseInv /\ FileInv)'
  BY NextBase, NextFile
<1> QED
  BY <1>1, <1>2, PTL DEF Spec

\* A tag line stays with the message for which its UID was made, also when other
\* programs copy messages with their tag lines and the driver keeps them.
THEOREM TagsTrue ==
    ASSUME DiskFills = FALSE
    PROVE  Spec => []TagTellsBody
<1>1. BaseInv /\ FileInv => TagTellsBody
  <2> SUFFICES ASSUME BaseInv, FileInv PROVE TagTellsBody
    OBVIOUS
  <2>1. ASSUME NEW u \in Uids PROVE Cardinality(bodyOf[u]) <= 1
    <3>1. bodyOf[u] \subseteq Bodies
      BY DEF BaseInv, SafeInv, TypeOK
    <3>2. bodyOf[u] = {} \/ \E b : bodyOf[u] = {b}
      <4>1. SUFFICES ASSUME NEW b \in bodyOf[u] PROVE bodyOf[u] = {b}
        OBVIOUS
      <4>2. \A x \in bodyOf[u] : x = b
        BY <3>1 DEF FileInv, TagInv
      <4> QED
        BY <4>1, <4>2
    <3>3. Cardinality(bodyOf[u]) \in {0, 1}
      BY <3>2, FS_EmptySet, FS_Singleton
    <3> QED
      BY <3>3
  <2> QED
    BY <2>1 DEF FileInv, TagInv, InboxTags, TagTellsBody
<1> QED
  BY <1>1, FileHolds, PTL

\* While the file is believed not to have changed, folderMessageIndex has its
\* messages, each at its place, also those that have a UID twice.
THEOREM IndexAligned ==
    ASSUME DiskFills = FALSE
    PROVE  Spec => []Aligned
<1>1. BaseInv /\ FileInv => Aligned
  <2> SUFFICES ASSUME BaseInv, FileInv, isOpen, ~changed, phase = "none"
               PROVE  /\ Len(fmi) = Len(inbox)
                      /\ \A i \in 1..Len(inbox) : SameTag(i) /\ bodyOf[fmi[i].u] = {inbox[i].b}
    BY DEF Aligned, SameTag
  <2> QED
    BY DEF FileInv, MatchInv, Matches
<1> QED
  BY <1>1, FileHolds, PTL

\* A list without a UID twice has as many entries as UIDs.
LEMMA UniqueCount ==
    ASSUME NEW s \in Seq(Tag), Unique(s)
    PROVE  Cardinality(UidsOf(s)) = Len(s)
<1> DEFINE N == Len(s)
           f == [i \in 1..N |-> s[i].u]
<1>1. N \in Nat /\ IsFiniteSet(1..N) /\ Cardinality(1..N) = N
  <2>1. N \in Nat
    BY LenProperties
  <2> HIDE DEF N
  <2>2. IsFiniteSet(1..N)
    BY <2>1, FS_Interval
  <2>3. Cardinality(1..N) = IF 1 > N THEN 0 ELSE N - 1 + 1
    BY <2>1, FS_Interval
  <2> QED
    BY <2>1, <2>2, <2>3
<1>2. f \in Bijection(1..N, UidsOf(s))
  <2>1. \A u : u \in UidsOf(s) <=> \E i \in 1..N : f[i] = u
    BY UidsOfTags
  <2>2. \A i, j \in 1..N : f[i] = f[j] => i = j
    BY DEF Unique
  <2>3. f \in [1..N -> UidsOf(s)]
    BY <2>1
  <2> HIDE DEF f
  <2> QED
    BY <2>1, <2>2, <2>3 DEF Bijection, Injection, Surjection, IsInjective
<1>3. IsFiniteSet(UidsOf(s)) /\ Cardinality(UidsOf(s)) = Cardinality(1..N)
  BY <1>1, <1>2, FS_Bijection DEF ExistsBijection
<1> QED
  BY <1>1, <1>3

\* After an expunge the application's list has one entry for each message of the
\* file, and all UIDs of the file: also when the file has a UID twice.
THEOREM ExpungeInSync ==
    ASSUME DiskFills = FALSE
    PROVE  Spec => ExpungeSyncs
<1>1. BaseInv /\ FileInv /\ ListsUnique /\ ListsUnique' /\ [Next]_vars =>
        [ExpungeRename /\ Front.purge =>
           Len(index') = Len(inbox') /\ UidsOf(inbox') \subseteq UidsOf(index')]_vars
  <2> SUFFICES ASSUME BaseInv, FileInv, ListsUnique, ListsUnique', ExpungeRename, Front.purge
               PROVE  Len(index') = Len(inbox') /\ UidsOf(inbox') \subseteq UidsOf(index')
    OBVIOUS
  <2>1. index \in Seq(Tag) /\ fmi \in Seq(Tag)
    BY DEF BaseInv, SafeInv, TypeOK, Tag
  <2>2. /\ inbox' = scratch /\ index' = CheckNewMail(Purged(index, fmi), fmi)
        /\ Len(scratch) = Len(fmi) /\ UidsOf(scratch) \subseteq UidsOf(fmi)
    BY DEF ExpungeRename, FileInv, SyncInv
  <2>3. /\ Purged(index, fmi) \in Seq(Tag)
        /\ UidsOf(Purged(index, fmi)) = UidsOf(index) \cap UidsOf(fmi)
    BY <2>1, PurgedProperties
  <2>4. index' \in Seq(Tag) /\ UidsOf(index') = UidsOf(Purged(index, fmi)) \cup UidsOf(fmi)
    BY <2>1, <2>2, <2>3, CheckNewMailProperties
  <2>5. UidsOf(index') = UidsOf(fmi)
    BY <2>3, <2>4
  <2>6. Len(index') = Len(fmi)
    <3>1. Unique(index') /\ Unique(fmi)
      BY DEF ListsUnique, Unique
    <3>2. Cardinality(UidsOf(index')) = Len(index')
      BY <2>4, <3>1, UniqueCount
    <3>3. Cardinality(UidsOf(fmi)) = Len(fmi)
      BY <2>1, <3>1, UniqueCount
    <3> QED
      BY <2>5, <3>2, <3>3
  <2>7. UidsOf(inbox') = UidsOf(scratch)
    BY <2>2
  <2> QED
    BY <2>2, <2>5, <2>6, <2>7
<1> QED
  BY <1>1, FileHolds, ListsDistinct, PTL DEF Spec, ExpungeSyncs

-----------------------------------------------------------------------------
(* No mail is lost, when there is room on the disk and no lock is held for  *)
(* several messages: no such lock is asked for.                             *)

LEMMA SingleQueue ==
    ASSUME BaseInv, SingleInv,
           \/ queue' = queue
           \/ queue' = <<>>
           \/ queue # <<>> /\ queue' = Tail(queue)
           \/ queue # <<>> /\ \E t \in Tasks : Work(t) = Work(Front) /\ queue' = Append(Tail(queue), t)
           \/ \E t \in Tasks : Work(t).k # "multilock" /\ queue' = Append(queue, t)
    PROVE  \A i \in 1..Len(queue') : Work(queue'[i]).k # "multilock"
<1> DEFINE single(q) == q \in Seq(Tasks) /\ \A i \in 1..Len(q) : Work(q[i]).k # "multilock"
<1>1. single(queue)
  BY DEF BaseInv, SafeInv, QueueInv, QueueIn, SingleInv
<1>2. ASSUME queue # <<>> PROVE single(Tail(queue)) /\ Work(Front).k # "multilock"
  <2>1. /\ Len(queue) \in Nat \ {0} /\ Len(Tail(queue)) = Len(queue) - 1
        /\ Tail(queue) \in Seq(Tasks)
        /\ \A i \in 1..Len(Tail(queue)) : Tail(queue)[i] = queue[i + 1]
        /\ Front = queue[1]
    BY <1>1, <1>2, HeadTailProperties, LenProperties, EmptySeq DEF Front
  <2>2. 1 \in 1..Len(queue) /\ \A i \in 1..Len(Tail(queue)) : i + 1 \in 1..Len(queue)
    BY <2>1
  <2> QED
    BY <1>1, <2>1, <2>2
<1>3. ASSUME NEW q, single(q), NEW t \in Tasks, Work(t).k # "multilock"
      PROVE  single(Append(q, t))
  <2> DEFINE q2 == Append(q, t)
  <2>1. /\ Len(q) \in Nat /\ q2 \in Seq(Tasks) /\ Len(q2) = Len(q) + 1
        /\ \A i \in 1..Len(q) : q2[i] = q[i]
        /\ q2[Len(q) + 1] = t
    BY <1>3, LenProperties, AppendProperties
  <2> HIDE DEF q2
  <2>2. \A i \in 1..Len(q2) : i \in 1..Len(q) \/ i = Len(q) + 1
    BY <2>1
  <2>3. single(q2)
    BY <1>3, <2>1, <2>2
  <2> QED
    BY <2>3 DEF q2
<1>4. Len(<<>>) = 0 /\ 1..0 = {}
  OBVIOUS
<1>5. single(queue') \/ queue' = <<>>
  <2> HIDE DEF single
  <2>1. ASSUME queue # <<>>, NEW t \in Tasks, Work(t) = Work(Front),
               queue' = Append(Tail(queue), t)
        PROVE  single(queue')
    BY <1>2, <1>3, <2>1
  <2>2. ASSUME NEW t \in Tasks, Work(t).k # "multilock", queue' = Append(queue, t)
        PROVE  single(queue')
    BY <1>1, <1>3, <2>2
  <2> QED
    BY <1>1, <1>2, <2>1, <2>2
<1> QED
  BY <1>4, <1>5

LEMMA NextSingle ==
    ASSUME MultiLocks = FALSE, BaseInv, SingleInv, [Next]_vars
    PROVE  SingleInv'
<1>1. ASSUME multi' = multi \/ ~multi', phase' \in {phase, "none", "copying"},
             \A i \in 1..Len(queue') : Work(queue'[i]).k # "multilock"
      PROVE  SingleInv'
  BY <1>1 DEF SingleInv
<1>2. CASE Requests
  <2>1. ASSUME NEW t \in Tasks, Work(t).k # "multilock", Install(t), UNCHANGED <<files, lists>>
        PROVE  SingleInv'
    BY <1>1, <2>1, SingleQueue DEF Install, files, lists
  <2>2. ASSUME NEW t \in Works, t.k # "multilock", (RequestOpen /\ t = OpenTask) \/ Request(t)
        PROVE  SingleInv'
    <3>1. t \in Tasks /\ Work(t) = t
      <4>1. t \in Tasks /\ t.k # "reopen"
        BY DEF Tasks, Works, LockTasks
      <4> QED
        BY <4>1 DEF Work
    <3> QED
      BY <2>1, <2>2, <3>1 DEF RequestOpen, Request
  <2>3. CASE RequestOpen
    <3>1. OpenTask \in Works /\ OpenTask.k # "multilock"
      BY DEF OpenTask, Works
    <3> QED
      BY <2>2, <2>3, <3>1
  <2>4. CASE Request(CheckNewMailTask)
    <3>1. CheckNewMailTask \in Works /\ CheckNewMailTask.k # "multilock"
      BY DEF CheckNewMailTask, Works
    <3> QED
      BY <2>2, <2>4, <3>1
  <2>5. CASE RequestRead
    <3>1. ReadTask \in Works /\ ReadTask.k # "multilock"
      BY DEF ReadTask, Works, LockTasks
    <3> QED
      BY <2>2, <2>5, <3>1 DEF RequestRead
  <2>6. CASE RequestExpunge
    <3> DEFINE del == {index[i].u : i \in {j \in 1..Len(index) : index[j].d}}
               t == ExpungeTask(TRUE, del)
    <3>1. del \subseteq Uids
      BY Members DEF BaseInv, SafeInv
    <3>2. Install(t) /\ UNCHANGED <<files, lists>>
      BY <2>6 DEF RequestExpunge
    <3> HIDE DEF del
    <3>3. t \in Tasks /\ t.k = "expunge"
      BY <3>1 DEF ExpungeTask, Tasks, Works, LockTasks
    <3> HIDE DEF t
    <3> QED
      BY <2>1, <3>2, <3>3 DEF Work
  <2>7. CASE RequestSave
    <3> DEFINE t == ExpungeTask(FALSE, {})
    <3>1. t \in Works /\ t.k # "multilock"
      BY DEF ExpungeTask, Works, LockTasks
    <3>2. Request(t)
      BY <2>7 DEF RequestSave
    <3> HIDE DEF t
    <3> QED
      BY <2>2, <3>1, <3>2
  <2>8. ASSUME NEW b \in Bodies, NEW d \in BOOLEAN, RequestAdd(b, d) PROVE SingleInv'
    <3> DEFINE t == AddTask(b, d)
    <3>1. t \in Works /\ t.k # "multilock"
      BY DEF AddTask, Works, LockTasks
    <3>2. Request(t)
      BY <2>8 DEF RequestAdd
    <3> HIDE DEF t
    <3> QED
      BY <2>2, <3>1, <3>2
  <2>9. ASSUME NEW i \in 1..Len(index), Mark(i) PROVE SingleInv'
    BY <1>1, <2>9 DEF Mark, files, SingleInv
  <2> QED
    BY <1>2, <2>3, <2>4, <2>5, <2>6, <2>7, <2>8, <2>9 DEF Requests
<1>3. CASE Handler
  <2>1. ASSUME queue # <<>>, queue' = Tail(queue) \/ queue' = queue,
               multi' = multi \/ ~multi', phase' \in {phase, "none", "copying"}
        PROVE  SingleInv'
    BY <1>1, <2>1, SingleQueue
  <2>2. phase # "none" => queue # <<>>
    BY DEF BaseInv, SafeInv, PhaseInv, TypeOK, Phases
  <2>3. CASE ScanInbox
    BY <2>1, <2>3 DEF ScanInbox, Handling
  <2>4. CASE CopyNew \/ CopyTagged
    BY <2>1, <2>2, <2>4 DEF CopyNew, CopyTagged
  <2>5. CASE CopyFails
    BY <2>1, <2>2, <2>5 DEF CopyFails, CopyDone
  <2>6. CASE Read \/ Add \/ AddFails
    BY <2>1, <2>6 DEF Read, Add, AddFails, LockHandling, Handling, files
  <2>7. CASE ExpungeRename \/ ExpungeFails
    BY <2>1, <2>2, <2>7 DEF ExpungeRename, ExpungeFails, lists
  <2>8. CASE Refused
    <3>1. CASE Front.k = "reopen"
      BY <1>1, <2>8, <3>1, SingleQueue DEF Refused, Gone
    <3>2. CASE Front.k # "reopen"
      BY <2>1, <2>8, <3>2 DEF Refused, Handling, files, lists
    <3> QED
      BY <3>1, <3>2
  <2>9. CASE LockReopen
    <3>1. /\ Alive /\ queue # <<>> /\ Front.k \in LockKinds
          /\ queue' = Append(Tail(queue), ReopenFor(Front)) /\ UNCHANGED <<files, lists>>
      BY <2>9 DEF LockReopen, Handling
    <3>2. Front \in Tasks
      BY <3>1, FrontFits DEF BaseInv, SafeInv
    <3>3. Front \in LockTasks /\ Work(Front) = Front
      BY <3>1, <3>2, TaskKinds DEF LockKinds
    <3>4. ReopenFor(Front) \in Tasks /\ Work(ReopenFor(Front)) = Work(Front)
      BY <3>3 DEF ReopenFor, Tasks, Work
    <3> QED
      BY <1>1, <3>1, <3>4, SingleQueue DEF files, lists
  <2>10. CASE OpenDone
    <3>1. /\ queue # <<>> /\ phase' = "none" /\ multi' = multi
          /\ queue' = IF Front.k = "reopen" THEN Append(Tail(queue), Front.task) ELSE Tail(queue)
      BY <2>2, <2>10 DEF OpenDone, CopyDone
    <3>2. CASE Front.k = "reopen"
      <4>1. Front \in Tasks
        BY <3>1, FrontFits DEF BaseInv, SafeInv
      <4>2. Front.task \in Tasks /\ Work(Front) = Front.task /\ Front.task.k \in LockKinds
        BY <3>2, <4>1, TaskKinds DEF Tasks, Works
      <4>3. Work(Front.task) = Work(Front)
        BY <4>2 DEF Work, LockKinds
      <4> QED
        BY <1>1, <3>1, <3>2, <4>2, <4>3, SingleQueue
    <3> QED
      BY <2>1, <3>1, <3>2
  <2>11. CASE MultiLocked
    <3>1. queue # <<>> /\ Front.k = "multilock"
      BY <2>11 DEF MultiLocked, LockHandling, Handling
    <3>2. queue \in Seq(Tasks)
      BY DEF BaseInv, SafeInv, QueueInv, QueueIn
    <3>3. Front = queue[1] /\ 1 \in 1..Len(queue)
      BY <3>1, <3>2, HeadTailProperties, LenProperties, EmptySeq DEF Front
    <3> QED
      BY <3>1, <3>3 DEF SingleInv, Work
  <2>12. CASE Expunge
    <3>1. /\ ~multi' /\ phase' = "renaming" /\ queue' = queue
      BY <2>12 DEF Expunge, SingleInv
    <3> QED
      BY <3>1 DEF SingleInv
  <2> QED
    BY <1>3, <2>3, <2>4, <2>5, <2>6, <2>7, <2>8, <2>9, <2>10, <2>11, <2>12 DEF Handler
<1>4. CASE MultiLockRelease
  BY <1>4 DEF MultiLockRelease, SingleInv
<1>5. CASE Kill \/ Signal \/ Logout
  BY <1>1, <1>5, SingleQueue DEF Kill, Signal, Logout, Gone
<1>6. CASE Others
  <2>1. UNCHANGED <<multi, phase, queue>>
    <3>1. ASSUME NEW b \in Bodies, Deliver(b) PROVE UNCHANGED <<multi, phase, queue>>
      BY <3>1 DEF Deliver, lists
    <3>2. ASSUME NEW b \in Bodies, DeliverToInbox(b) PROVE UNCHANGED <<multi, phase, queue>>
      BY <3>2 DEF DeliverToInbox
    <3>3. ASSUME NEW i \in 1..Len(inbox), RemoveFromInbox(i) PROVE UNCHANGED <<multi, phase, queue>>
      BY <3>3 DEF RemoveFromInbox
    <3>4. ASSUME NEW i \in 1..Len(inbox), Resave(i) PROVE UNCHANGED <<multi, phase, queue>>
      BY <3>4 DEF Resave, lists
    <3> QED
      BY <1>6, <3>1, <3>2, <3>3, <3>4 DEF Others
  <2> QED
    BY <2>1 DEF SingleInv
<1>7. CASE Over \/ UNCHANGED vars
  BY <1>7 DEF Over, vars, SingleInv
<1> QED
  BY <1>2, <1>3, <1>4, <1>5, <1>6, <1>7 DEF Next

-----------------------------------------------------------------------------
(* Where the mail is.                                                      *)

HeldBodies == BodiesOf(inbox) \cup SpoolBodies \cup asked

LEMMA MoveKeep ==
    ASSUME KeepInv, HeldBodies \subseteq HeldBodies', mail' \subseteq mail \cup HeldBodies',
           \/ phase' # "renaming"
           \/ phase' = phase /\ UNCHANGED <<inbox, scratch>> /\ asked \subseteq asked'
    PROVE  KeepInv'
<1>1. NoMailLost'
  BY DEF KeepInv, NoMailLost, HeldBodies
<1>2. phase' = "renaming" => (\A i \in 1..Len(inbox) : inbox[i].b \in BodiesOf(scratch) \cup asked)'
  BY DEF KeepInv, BodiesOf
<1> QED
  BY <1>1, <1>2 DEF KeepInv

\* Inbox and the spool are what they were.
LEMMA QuietKeep ==
    ASSUME KeepInv, UNCHANGED <<inbox, spool, mail>>, asked \subseteq asked',
           phase' # "renaming" \/ UNCHANGED <<phase, scratch>>
    PROVE  KeepInv'
<1>1. HeldBodies \subseteq HeldBodies'
  BY DEF HeldBodies, BodiesOf, SpoolBodies
<1> QED
  BY <1>1, MoveKeep

\* A message comes to the end of Inbox.
LEMMA AppendKeep ==
    ASSUME TypeOK, KeepInv, NEW m \in Message, inbox' = Append(inbox, m),
           mail' \subseteq mail \cup {m.b}, UNCHANGED <<spool, asked>>, phase' # "renaming"
    PROVE  KeepInv'
<1>1. /\ \A i \in 1..Len(inbox) : i \in 1..Len(inbox') /\ inbox'[i] = inbox[i]
      /\ inbox'[Len(inbox) + 1] = m /\ Len(inbox') = Len(inbox) + 1 /\ Len(inbox) \in Nat
  BY AppendInbox, Members
<1>2. Len(inbox) + 1 \in 1..Len(inbox')
  BY <1>1
<1>3. m.b \in BodiesOf(inbox')
  BY <1>1, <1>2 DEF BodiesOf
<1>4. BodiesOf(inbox) \subseteq BodiesOf(inbox')
  BY <1>1 DEF BodiesOf
<1>5. HeldBodies \subseteq HeldBodies' /\ m.b \in HeldBodies'
  BY <1>3, <1>4 DEF HeldBodies, BodiesOf, SpoolBodies
<1> QED
  BY <1>5, MoveKeep

\* The copy of the spool is what the spool has.
LEMMA CopiedBodies ==
    ASSUME TypeOK, CopyInv, phase = "copying"
    PROVE  /\ Copied = Len(spool) => SpoolBodies \subseteq BodiesOf(inbox)
           /\ \A i \in 1..Len(inbox) : i > orig => inbox[i].b \in SpoolBodies
<1>1. Len(inbox) \in Nat /\ orig \in 0..Len(inbox) /\ Copied = Len(inbox) - orig /\ Len(spool) \in Nat
  BY Members DEF TypeOK, Copied
<1>2. \A k \in 1..Copied : k \in 1..Len(spool) /\ orig + k \in 1..Len(inbox) /\ inbox[orig + k].b = spool[k]
  <2>1. ASSUME NEW k \in 1..Copied PROVE k <= Len(spool) /\ inbox[orig + k].b = spool[k]
    BY DEF CopyInv
  <2>2. ASSUME NEW k \in 1..Copied, k <= Len(spool) PROVE k \in 1..Len(spool) /\ orig + k \in 1..Len(inbox)
    BY <1>1, <2>2
  <2> QED
    BY <2>1, <2>2
<1>3. ASSUME Copied = Len(spool), NEW k \in 1..Len(spool) PROVE spool[k] \in BodiesOf(inbox)
  BY <1>2, <1>3 DEF BodiesOf
<1>4. ASSUME NEW i \in 1..Len(inbox), i > orig PROVE inbox[i].b \in SpoolBodies
  <2>1. i - orig \in 1..Copied /\ orig + (i - orig) = i
    BY <1>1, <1>4
  <2>2. i - orig \in 1..Len(spool) /\ inbox[i].b = spool[i - orig]
    BY <1>2, <2>1
  <2> QED
    BY <2>2 DEF SpoolBodies
<1> QED
  BY <1>3, <1>4 DEF SpoolBodies

LEMMA OpenDoneKeep ==
    ASSUME BaseInv, KeepInv, OpenDone
    PROVE  KeepInv'
<1>1. /\ phase = "copying" /\ Copied = Len(spool) /\ phase' = "none"
      /\ UNCHANGED <<inbox, mail, asked>>
  BY DEF OpenDone, CopyDone, history
<1>2. SpoolBodies \subseteq BodiesOf(inbox)
  BY <1>1, CopiedBodies DEF BaseInv, SafeInv
<1>3. HeldBodies \subseteq HeldBodies'
  BY <1>1, <1>2 DEF HeldBodies, BodiesOf
<1> QED
  BY <1>1, <1>3, MoveKeep

\* What is cut off is still in the spool.
LEMMA SignalKeep ==
    ASSUME BaseInv, KeepInv, Signal
    PROVE  KeepInv'
<1>1. phase = "copying" /\ phase' = "none" /\ inbox' = Rollback /\ UNCHANGED <<spool, mail, asked>>
  BY DEF Signal, Gone
<1>2. /\ Len(inbox') = orig /\ orig \in 0..Len(inbox) /\ Len(inbox) \in Nat
      /\ \A i \in 1..orig : inbox'[i] = inbox[i]
  BY <1>1, RollbackProperties, Members DEF BaseInv, SafeInv
<1>3. \A i \in 1..Len(inbox) : i > orig => inbox[i].b \in SpoolBodies
  BY <1>1, CopiedBodies DEF BaseInv, SafeInv
<1>4. ASSUME NEW i \in 1..Len(inbox) PROVE inbox[i].b \in BodiesOf(inbox') \cup SpoolBodies
  <2>1. i > orig \/ i \in 1..orig
    BY <1>2
  <2>2. ASSUME i \in 1..orig PROVE inbox[i].b \in BodiesOf(inbox')
    BY <1>2, <2>2 DEF BodiesOf
  <2> QED
    BY <1>3, <2>1, <2>2
<1>5. BodiesOf(inbox) \subseteq BodiesOf(inbox') \cup SpoolBodies
  BY <1>4 DEF BodiesOf
<1>6. HeldBodies \subseteq HeldBodies'
  BY <1>1, <1>5 DEF HeldBodies, BodiesOf, SpoolBodies
<1> QED
  BY <1>1, <1>6, MoveKeep

\* A position that is not copied has a message that was asked for.
LEMMA ExpungeKeep ==
    ASSUME BaseInv, FileInv, KeepInv, Expunge
    PROVE  KeepInv'
<1> USE DEF BaseInv, SafeInv
<1> DEFINE del == Front.del
           file == Rewrite(del)
           pos(k) == Nth(Kept(del), k)
<1>1. /\ UNCHANGED <<inbox, spool, mail, asked>>
      /\ queue # <<>> /\ Front.k = "expunge"
  BY DEF Expunge, LockHandling, Handling
<1>2. \A u \in del : bodyOf[u] \subseteq asked
  <2>1. Fit(Work(Front)) /\ Work(Front) = Front
    BY <1>1, FrontFits DEF Work
  <2> QED
    BY <1>1, <2>1 DEF Fit
<1>3. /\ scratch' = file
      /\ \A i \in RewriteNew(del) : NewUid(RewriteNew(del), i) \in Uids
  BY ExpungeProperties
<1>4. /\ \A k \in 1..Len(file) : file[k].b = inbox[pos(k)].b
      /\ \A i \in Kept(del) : \E k \in 1..Len(file) : pos(k) = i
  BY <1>3, RewriteProperties
<1> HIDE DEF file, pos
<1>5. \A i \in Kept(del) : inbox[i].b \in BodiesOf(file)
  BY <1>4 DEF BodiesOf
<1>6. ASSUME NEW i \in 1..Len(inbox), i \notin Kept(del) PROVE inbox[i].b \in asked
  <2>1. Deleted(i, del)
    BY <1>6 DEF Kept
  <2>2. CASE inbox[i].u # 0
    <3>1. inbox[i].u \in del
      BY <2>1, <2>2 DEF Deleted
    <3>2. bodyOf[inbox[i].u] = {inbox[i].b}
      BY <2>2 DEF FileInv, TagInv, InboxTags
    <3> QED
      BY <1>2, <3>1, <3>2
  <2>3. CASE inbox[i].u = 0
    <3>1. i <= Len(fmi) /\ fmi[i].u \in del
      BY <2>1, <2>3 DEF Deleted
    <3>2. i \in 1..Len(fmi)
      BY <3>1, Members
    <3>3. bodyOf[fmi[i].u] = {inbox[i].b}
      BY <3>2, RewriteTags DEF Matches
    <3> QED
      BY <1>2, <3>1, <3>3
  <2> QED
    BY <2>2, <2>3
<1>7. \A i \in 1..Len(inbox) : inbox[i].b \in BodiesOf(file) \cup asked
  BY <1>5, <1>6
<1>8. NoMailLost'
  BY <1>1 DEF KeepInv, NoMailLost, BodiesOf, SpoolBodies
<1>9. (\A i \in 1..Len(inbox) : inbox[i].b \in BodiesOf(scratch) \cup asked)'
  BY <1>1, <1>3, <1>7 DEF BodiesOf
<1> QED
  BY <1>8, <1>9 DEF KeepInv

LEMMA ExpungeRenameKeep ==
    ASSUME SingleInv, KeepInv, ExpungeRename
    PROVE  KeepInv'
<1>1. /\ phase = "renaming" /\ phase' = "none" /\ inbox' = scratch
      /\ UNCHANGED <<spool, mail, asked>>
  BY DEF ExpungeRename, SingleInv, history
<1>2. BodiesOf(inbox) \subseteq BodiesOf(scratch) \cup asked
  BY <1>1 DEF KeepInv, BodiesOf
<1>3. HeldBodies \subseteq HeldBodies'
  BY <1>1, <1>2 DEF HeldBodies, BodiesOf, SpoolBodies
<1> QED
  BY <1>1, <1>3, MoveKeep

\* A message comes to the end of the spool.
LEMMA SpoolKeep ==
    ASSUME TypeOK, KeepInv, NEW b, spool' = Append(spool, b), mail' \subseteq mail \cup {b},
           UNCHANGED <<inbox, scratch, phase, asked>>, b \in Bodies
    PROVE  KeepInv'
<1>1. /\ spool \in Seq(Bodies) /\ Len(spool) \in Nat
      /\ Len(spool') = Len(spool) + 1
      /\ \A i \in 1..Len(spool) : spool'[i] = spool[i]
      /\ spool'[Len(spool) + 1] = b
  BY LenProperties, AppendProperties DEF TypeOK
<1>2. /\ Len(spool) + 1 \in 1..Len(spool')
      /\ \A i \in 1..Len(spool) : i \in 1..Len(spool')
  BY <1>1
<1>3. b \in SpoolBodies' /\ SpoolBodies \subseteq SpoolBodies'
  BY <1>1, <1>2 DEF SpoolBodies
<1>4. HeldBodies \subseteq HeldBodies' /\ b \in HeldBodies'
  BY <1>3 DEF HeldBodies, BodiesOf
<1> QED
  BY <1>4, MoveKeep

LEMMA OthersKeep ==
    ASSUME BaseInv, SingleInv, KeepInv, Others
    PROVE  KeepInv'
<1> USE DEF BaseInv, SafeInv
<1>1. ASSUME NEW b \in Bodies, Deliver(b) PROVE KeepInv'
  BY <1>1, SpoolKeep DEF Deliver
<1>2. ASSUME NEW b \in Bodies, DeliverToInbox(b) PROVE KeepInv'
  <2> DEFINE m == [b |-> b, u |-> 0, d |-> FALSE]
  <2>1. m \in Message /\ m.b = b
    BY FolderAssumption DEF Message
  <2>2. /\ inbox' = Append(inbox, m) /\ mail' = mail \cup {b} /\ UNCHANGED <<spool, asked>>
        /\ phase' # "renaming"
    BY <1>2 DEF DeliverToInbox, Unlocked
  <2> HIDE DEF m
  <2> QED
    BY <2>1, <2>2, AppendKeep
<1>3. ASSUME NEW i \in 1..Len(inbox), RemoveFromInbox(i) PROVE KeepInv'
  <2>1. /\ \A k \in 1..Len(inbox') :
             Before(i, k) \in 1..Len(inbox) /\ inbox'[k] = inbox[Before(i, k)]
        /\ \A j \in 1..Len(inbox) : j # i => \E k \in 1..Len(inbox') : Before(i, k) = j
    BY <1>3, RemoveProperties
  <2>2. /\ asked' = asked \cup {inbox[i].b} /\ UNCHANGED <<spool, mail>> /\ phase' # "renaming"
    BY <1>3 DEF RemoveFromInbox, Unlocked, history
  <2>3. ASSUME NEW j \in 1..Len(inbox) PROVE inbox[j].b \in BodiesOf(inbox') \cup asked'
    <3>1. CASE j = i
      BY <2>2, <3>1
    <3>2. CASE j # i
      BY <2>1, <3>2 DEF BodiesOf
    <3> QED
      BY <3>1, <3>2
  <2>4. HeldBodies \subseteq HeldBodies'
    BY <2>2, <2>3 DEF HeldBodies, BodiesOf, SpoolBodies
  <2> QED
    BY <2>2, <2>4, MoveKeep
<1>4. ASSUME NEW i \in 1..Len(inbox), Resave(i) PROVE KeepInv'
  <2>1. inbox[i].b \in Bodies
    BY Members
  <2>2. /\ spool' = Append(spool, inbox[i].b) /\ mail' = mail
        /\ UNCHANGED <<inbox, scratch, phase, asked>>
    BY <1>4 DEF Resave, history
  <2> QED
    BY <2>1, <2>2, SpoolKeep
<1> QED
  BY <1>1, <1>2, <1>3, <1>4 DEF Others

LEMMA NextKeep ==
    ASSUME DiskFills = FALSE, BaseInv, FileInv, SingleInv, KeepInv, [Next]_vars
    PROVE  KeepInv'
<1>1. CASE Requests
  <2>1. UNCHANGED <<inbox, spool, scratch, phase, mail>> /\ asked \subseteq asked'
    BY <1>1 DEF Requests, RequestOpen, Request, RequestRead, RequestExpunge, RequestSave,
                RequestAdd, Mark, files, history
  <2> QED
    BY <2>1, QuietKeep
<1>2. CASE Handler
  <2>1. ~CopyFails /\ ~AddFails /\ ~ExpungeFails
    BY DEF CopyFails, AddFails, ExpungeFails
  <2>2. CASE ScanInbox
    BY <2>2, QuietKeep DEF ScanInbox
  <2>3. CASE CopyNew \/ CopyTagged
    <3>1. PICK m \in Message, t \in Tag : CopyStep(m, t)
      BY <2>3, CopySteps DEF BaseInv
    <3>2. /\ inbox' = Append(inbox, m) /\ UNCHANGED <<spool, mail, asked>>
          /\ phase' # "renaming"
      BY <3>1 DEF CopyStep
    <3> QED
      BY <3>2, AppendKeep DEF BaseInv, SafeInv
  <2>4. CASE OpenDone
    BY <2>4, OpenDoneKeep
  <2>5. CASE LockReopen \/ Read \/ MultiLocked \/ (Refused /\ Front.k # "reopen")
    <3>1. UNCHANGED <<inbox, spool, scratch, phase, mail>> /\ asked \subseteq asked'
      BY <2>5 DEF LockReopen, Read, MultiLocked, Refused, files, history
    <3> QED
      BY <3>1, QuietKeep
  <2>6. CASE Add
    <3> DEFINE b == Front.b
               m == [b |-> b, u |-> nextUid, d |-> Front.d]
    <3>1. /\ queue # <<>> /\ Front.k = "add"
          /\ inbox' = Append(inbox, m) /\ mail' = mail \cup {b} /\ UNCHANGED <<spool, asked>>
          /\ phase' # "renaming"
      BY <2>6 DEF Add, LockHandling, Handling, Alive
    <3>2. m \in Message /\ m.b = b
      <4>1. nextUid \in 0..MaxUid
        BY <2>6, FolderAssumption DEF Add, TakeUid, BaseInv, SafeInv, TypeOK
      <4>2. b \in Bodies /\ Front.d \in BOOLEAN
        BY <3>1, FrontFits, TaskKinds DEF BaseInv, SafeInv
      <4> QED
        BY <4>1, <4>2 DEF Message
    <3> HIDE DEF m
    <3> QED
      BY <3>1, <3>2, AppendKeep DEF BaseInv, SafeInv
  <2>7. CASE Expunge
    BY <2>7, ExpungeKeep
  <2>8. CASE ExpungeRename
    BY <2>8, ExpungeRenameKeep
  <2>9. CASE Refused /\ Front.k = "reopen"
    BY <2>9, QuietKeep DEF Refused, Gone
  <2> QED
    BY <1>2, <2>1, <2>2, <2>3, <2>4, <2>5, <2>6, <2>7, <2>8, <2>9 DEF Handler
<1>3. CASE MultiLockRelease
  BY <1>3, QuietKeep DEF MultiLockRelease, files, history
<1>4. CASE Kill \/ Logout
  BY <1>4, QuietKeep DEF Kill, Logout, Gone
<1>5. CASE Signal
  BY <1>5, SignalKeep
<1>6. CASE Others
  BY <1>6, OthersKeep
<1>7. CASE Over \/ UNCHANGED vars
  <2>1. UNCHANGED vars
    BY <1>7 DEF Over
  <2> QED
    BY <2>1, QuietKeep DEF vars
<1> QED
  BY <1>1, <1>2, <1>3, <1>4, <1>5, <1>6, <1>7 DEF Next

\* As long as there is room on the disk and no lock is held for several messages:
\* a message that was delivered, or added, is in Inbox or in the spool until
\* somebody asks for its removal; at any moment of the copy from the spool and of
\* the rewrite of Inbox, and after the program is killed or interrupted there.
THEOREM MailKept ==
    ASSUME DiskFills = FALSE, MultiLocks = FALSE
    PROVE  Spec => []NoMailLost
<1>1. Init => SingleInv /\ KeepInv
  <2>1. Len(<<>>) = 0 /\ 1..0 = {}
    OBVIOUS
  <2> QED
    BY <2>1 DEF Init, SingleInv, KeepInv, NoMailLost
<1>2. BaseInv /\ FileInv /\ SingleInv /\ KeepInv /\ [Next]_vars => SingleInv' /\ KeepInv'
  BY NextSingle, NextKeep
<1>3. KeepInv => NoMailLost
  BY DEF KeepInv
<1> QED
  BY <1>1, <1>2, <1>3, FileHolds, PTL DEF Spec
=============================================================================
