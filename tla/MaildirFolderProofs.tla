------------------------ MODULE MaildirFolderProofs -------------------------
(***************************************************************************)
(* Proofs about MaildirFolder, for any number of messages and of changes:  *)
(* a message gets into the index twice only if others rename its file while *)
(* the directory is read, the driver removes only what somebody wanted     *)
(* removed, and a refresh that nobody interferes with leaves the index and *)
(* the folder the same.                                                    *)
(***************************************************************************)
EXTENDS MaildirFolder, FiniteSetTheorems, SequenceTheorems, TLAPS

Entry == [uid : Msgs, name : Flags, flags : Flags]

\* The folder, the index, and the numbers the driver keeps.
Types ==
    /\ loc \in [Msgs -> {"none", "new", "cur", "gone"}]
    /\ flags \in [Msgs -> Flags]
    /\ \A i \in DOMAIN index : index[i] \in Entry
    /\ pc \in {"idle", "rename", "find", "unlink", "stat", "getnew", "scan", "update"}
    /\ todo \subseteq DOMAIN index
    /\ fn \in Flags

TypeInv == Types /\ index \in Seq(Entry)

\* What the driver does where.
OpInv ==
    /\ pc = "rename" => op = "mark"
    /\ pc = "find" => op \in {"remove", "expunge", "refresh"}
    /\ pc = "unlink" => op \in {"remove", "expunge"}
    /\ pc = "stat" => op = "refresh"

\* Nothing is marked as deleted, in a name or in the index, that nobody wanted
\* removed.
MarkInv ==
    /\ \A i \in DOMAIN index :
         "T" \in index[i].flags \/ "T" \in index[i].name => index[i].uid \in asked
    /\ \A m \in Msgs : "T" \in flags[m] => m \in asked

\* What removeMessages has still to remove was asked for; what an expunge is
\* about to remove is marked.
RemoveInv ==
    /\ op = "remove" /\ pc \in {"find", "unlink"} => \A i \in todo : index[i].uid \in asked
    /\ op = "expunge" /\ pc = "unlink" => \A i \in todo : Last(i) => "T" \in index[i].flags

\* What was read of a directory.  A message has been read twice, or can be read
\* again, only if others renamed it meanwhile (or the index has it, and the entry
\* will not be used).
DirentInv ==
    /\ dirent \in [Msgs -> {"due", "may", "done"}]
    /\ \A m \in Msgs : dirent[m] # "done" => Reads(m)

ListInv ==
    /\ listing \in Seq(Entry) /\ raced \subseteq Msgs
    /\ pc # "scan" => listing = <<>>
    /\ \A k \in DOMAIN listing :
         /\ loc[listing[k].uid] \in {"cur", "gone"}
         /\ "T" \in listing[k].flags \/ "T" \in listing[k].name => listing[k].uid \in asked
         /\ dirent[listing[k].uid] # "done" => listing[k].uid \in raced \cup Uids
    /\ \A k, l \in DOMAIN listing :
         k # l /\ listing[k].uid = listing[l].uid => listing[k].uid \in raced \cup Uids

ReadInv == DirentInv /\ ListInv

(***************************************************************************)
(* A refresh that nobody interferes with: the messages the loop has passed *)
(* are in the directory, those it has still to look at come before them,   *)
(* and the name it has just looked up is the present one.                  *)
(***************************************************************************)
LoopInv ==
    ~touched /\ op = "refresh" /\ pc \in {"find", "stat"} =>
       /\ \A i \in todo, j \in DOMAIN index : j <= i => j \in todo
       /\ \A i \in DOMAIN index \ todo : index[i].uid \in Cur

StatInv == ~touched /\ pc = "stat" => \A i \in todo : Last(i) => fn = Filename(i)

\* After the loop there is no message in the index that is not in the directory;
DirInv ==
    ~touched /\ op \in {"open", "refresh"} /\ pc \in {"getnew", "scan", "update"} => Uids \subseteq Cur

\* all of new is still to be moved, or has been moved;
NewInv ==
    ~touched =>
       /\ pc = "getnew" => \A m \in Msgs : loc[m] = "new" => dirent[m] = "due"
       /\ pc \in {"scan", "update"} => \A m \in Msgs : loc[m] # "new"

\* all of cur is still to be read, or has been read as it is;
CurInv ==
    ~touched /\ pc = "scan" =>
       /\ \A m \in Cur : dirent[m] = "due" \/ \E k \in DOMAIN listing : listing[k].uid = m
       /\ \A k \in DOMAIN listing :
            /\ listing[k].uid \in Cur
            /\ listing[k].name = flags[listing[k].uid]
            /\ listing[k].flags = flags[listing[k].uid]

\* after the scan no message in the directory that is not in the index, and the
\* ones that were added are as in the directory.
ScanInv ==
    ~touched /\ pc = "update" =>
       /\ Cur \subseteq Uids
       /\ \A i \in DOMAIN index \ todo :
            index[i].name = flags[index[i].uid] /\ index[i].flags = flags[index[i].uid]

SafeInv == TypeInv /\ UidsUnique /\ OpInv /\ MarkInv /\ RemoveInv

AgreeInv == LoopInv /\ StatInv /\ DirInv /\ NewInv /\ CurInv /\ ScanInv /\ RefreshAgrees

\* Every change by another program counts.
OtherInv == other \in Nat

IInv == SafeInv /\ ReadInv /\ AgreeInv /\ OtherInv

-----------------------------------------------------------------------------
(* Counting.                                                               *)

\* Nth enumerates a set of positions: counting the members up to one is an
\* injection into a set of the same size.
LEMMA NthProperties ==
    ASSUME NEW L \in Nat, NEW ms \in SUBSET (1..L)
    PROVE  /\ IsFiniteSet(ms) /\ Cardinality(ms) \in Nat
           /\ \A k \in 1..Cardinality(ms) : Nth(ms, k) \in ms
           /\ \A k, l \in 1..Cardinality(ms) : Nth(ms, k) = Nth(ms, l) => k = l
           /\ \A m \in ms : \E k \in 1..Cardinality(ms) : Nth(ms, k) = m
<1> DEFINE N == Cardinality(ms)
           upto(m) == {x \in ms : x <= m}
           cnt == [m \in ms |-> Cardinality(upto(m))]
<1>1. IsFiniteSet(ms) /\ N \in Nat /\ \A m \in ms : m \in Nat
  <2>1. IsFiniteSet(1..L)
    BY FS_Interval
  <2>2. \A m \in ms : m \in Nat
    OBVIOUS
  <2> QED
    BY <2>1, <2>2, FS_Subset, FS_CardinalityType
<1>2. \A m \in ms : m \in upto(m) /\ upto(m) \in SUBSET ms
  BY <1>1
<1>3. \A m, n \in ms : m < n => upto(m) \in SUBSET upto(n) /\ n \notin upto(m)
  <2>1. ASSUME NEW m \in ms, NEW n \in ms, m < n, NEW x \in ms, x <= m PROVE x <= n /\ ~(n <= m)
    <3>1. m \in Nat /\ n \in Nat /\ x \in Nat
      BY <1>1
    <3> QED
      BY ONLY <2>1, <3>1
  <2>2. \A m \in ms : m <= m
    BY <1>1
  <2> QED
    BY <2>1, <2>2
<1> HIDE DEF upto
<1>4. \A m \in ms : IsFiniteSet(upto(m)) /\ Cardinality(upto(m)) \in 1..N
  <2>1. SUFFICES ASSUME NEW m \in ms
                 PROVE  IsFiniteSet(upto(m)) /\ Cardinality(upto(m)) \in 1..N
    OBVIOUS
  <2>2. IsFiniteSet(upto(m)) /\ Cardinality(upto(m)) \in Nat /\ Cardinality(upto(m)) <= N
    BY <1>1, <1>2, FS_Subset, FS_CardinalityType
  <2>3. Cardinality(upto(m)) # 0
    BY <1>2, <2>2, FS_EmptySet
  <2> QED
    BY <1>1, <2>2, <2>3
<1>5. cnt \in Injection(ms, 1..N)
  <2>1. ASSUME NEW m \in ms, NEW n \in ms, m < n
        PROVE  Cardinality(upto(m)) # Cardinality(upto(n))
    <3>1. upto(m) # upto(n)
      BY <1>2, <1>3, <2>1
    <3> QED
      BY <1>3, <1>4, <2>1, <3>1, FS_Subset
  <2>2. ASSUME NEW m \in ms, NEW n \in ms, cnt[m] = cnt[n]
        PROVE  m = n
    <3>1. m \in Nat /\ n \in Nat /\ ~(m < n) /\ ~(n < m)
      BY <1>1, <2>1, <2>2
    <3> QED
      BY <3>1
  <2>3. cnt \in [ms -> 1..N]
    BY <1>4
  <2> QED
    BY <2>2, <2>3 DEF Injection, IsInjective
<1>6. cnt \in Surjection(ms, 1..N)
  <2>1. IsFiniteSet(1..N) /\ Cardinality(1..N) = N
    BY <1>1, FS_Interval
  <2> QED
    BY <1>5, <2>1, FS_Injection
<1>7. \A k \in 1..N : Nth(ms, k) \in ms /\ cnt[Nth(ms, k)] = k
  <2>1. SUFFICES ASSUME NEW k \in 1..N PROVE Nth(ms, k) \in ms /\ cnt[Nth(ms, k)] = k
    OBVIOUS
  <2>2. Nth(ms, k) = CHOOSE m \in ms : Cardinality(upto(m)) = k
    BY DEF Nth, upto
  <2>3. \E m \in ms : Cardinality(upto(m)) = k
    BY <1>6 DEF Surjection
  <2> QED
    BY <2>2, <2>3
<1>8. \A m \in ms : cnt[m] \in 1..N /\ Nth(ms, cnt[m]) = m
  BY <1>5, <1>7 DEF Injection, IsInjective
<1> HIDE DEF cnt
<1> QED
  BY <1>1, <1>7, <1>8

-----------------------------------------------------------------------------
(* The index.                                                              *)

\* The index is a sequence of entries.
LEMMA IndexEntries ==
    ASSUME TypeInv
    PROVE  /\ Len(index) \in Nat /\ DOMAIN index = 1..Len(index)
           /\ \A i \in DOMAIN index :
                /\ index[i] \in Entry
                /\ index[i].uid \in Msgs /\ index[i].name \in Flags /\ index[i].flags \in Flags
<1>1. index \in Seq(Entry)
  BY DEF TypeInv
<1>2. Len(index) \in Nat /\ DOMAIN index = 1..Len(index)
  BY <1>1, LenProperties
<1>3. \A i \in DOMAIN index : index[i] \in Entry
  BY <1>1, <1>2, ElementOfSeq
<1> QED
  BY <1>2, <1>3 DEF Entry

\* An entry that is taken out of the index leaves the others in their order.
LEMMA WithoutProperties ==
    ASSUME TypeInv, NEW i \in DOMAIN index
    PROVE  /\ Without(i) \in Seq(Entry)
           /\ DOMAIN Without(i) = 1..(Len(index) - 1)
           /\ \A j \in 1..(Len(index) - 1) :
                Without(i)[j] = IF j < i THEN index[j] ELSE index[j + 1]
<1>1. index \in Seq(Entry) /\ Len(index) \in Nat /\ i \in 1..Len(index)
  BY IndexEntries DEF TypeInv
<1> DEFINE a == SubSeq(index, 1, i - 1)
           b == SubSeq(index, i + 1, Len(index))
<1>2. /\ a \in Seq(Entry) /\ Len(a) = i - 1
      /\ \A j \in 1..(i - 1) : a[j] = index[j]
  BY <1>1, SubSeqProperties
<1>3. /\ b \in Seq(Entry) /\ Len(b) = Len(index) - i
      /\ \A j \in 1..(Len(index) - i) : b[j] = index[i + j]
  BY <1>1, SubSeqProperties
<1> HIDE DEF a, b
<1>4. /\ a \o b \in Seq(Entry) /\ Len(a \o b) = Len(index) - 1
      /\ \A j \in 1..(Len(index) - 1) : (a \o b)[j] = IF j <= i - 1 THEN a[j] ELSE b[j - (i - 1)]
  <2>1. /\ a \o b \in Seq(Entry)
        /\ Len(a \o b) = Len(a) + Len(b)
        /\ \A j \in 1..(Len(a) + Len(b)) : (a \o b)[j] = IF j <= Len(a) THEN a[j] ELSE b[j - Len(a)]
    BY <1>2, <1>3, ConcatProperties
  <2>2. Len(a) = i - 1 /\ Len(a) + Len(b) = Len(index) - 1
    BY <1>1, <1>2, <1>3
  <2> QED
    BY <2>1, <2>2
<1>5. DOMAIN (a \o b) = 1..(Len(index) - 1)
  BY <1>4, LenProperties
<1>6. ASSUME NEW j \in 1..(Len(index) - 1)
      PROVE  (a \o b)[j] = IF j < i THEN index[j] ELSE index[j + 1]
  <2>1. CASE j < i
    BY <1>1, <1>2, <1>4, <2>1
  <2>2. CASE ~(j < i)
    <3>1. j - (i - 1) \in 1..(Len(index) - i) /\ i + (j - (i - 1)) = j + 1 /\ ~(j <= i - 1)
      BY <1>1, <2>2
    <3> QED
      BY <1>3, <1>4, <2>2, <3>1
  <2> QED
    BY <2>1, <2>2
<1> QED
  BY <1>4, <1>5, <1>6 DEF Without, a, b

\* An entry that is read gets a place among the others.
LEMMA InsertProperties ==
    ASSUME listing \in Seq(Entry), NEW e \in Entry, NEW k \in 1..(Len(listing) + 1)
    PROVE  LET new == Insert(k, e)
               was(i) == IF i < k THEN i ELSE i - 1
           IN  /\ new \in Seq(Entry) /\ k \in DOMAIN new /\ new[k] = e
               /\ \A i \in DOMAIN new : i # k => was(i) \in DOMAIN listing /\ new[i] = listing[was(i)]
               /\ \A i, j \in DOMAIN new : i # k /\ j # k /\ i # j => was(i) # was(j)
               /\ \A i \in DOMAIN listing : \E j \in DOMAIN new : new[j] = listing[i]
<1> DEFINE N == Len(listing)
           new == Insert(k, e)
           was(i) == IF i < k THEN i ELSE i - 1
<1>1. /\ N \in Nat /\ DOMAIN listing = 1..N /\ k \in Nat
      /\ \A i \in 1..N : listing[i] \in Entry
  BY LenProperties, ElementOfSeq
<1>2. new = [i \in 1..(N + 1) |->
                IF i < k THEN listing[i] ELSE IF i = k THEN e ELSE listing[i - 1]]
  BY DEF Insert
<1> HIDE DEF new, N
<1>3. DOMAIN new = 1..(N + 1) /\ new[k] = e
  BY <1>1, <1>2 DEF N
<1>4. \A i \in 1..(N + 1) : i # k => was(i) \in 1..N /\ new[i] = listing[was(i)]
  <2>1. SUFFICES ASSUME NEW i \in 1..(N + 1), i # k
                 PROVE  was(i) \in 1..N /\ new[i] = listing[was(i)]
    OBVIOUS
  <2>2. k \in 1..(N + 1)
    BY DEF N
  <2> QED
    BY <1>1, <1>2, <2>1, <2>2
<1>5. new \in Seq(Entry)
  <2>1. \A i \in 1..(N + 1) : new[i] \in Entry
    BY <1>1, <1>3, <1>4
  <2>2. new \in [1..(N + 1) -> Entry]
    BY <1>2, <1>3, <2>1
  <2> QED
    BY <1>1, <2>2, SeqDef
<1>6. \A i, j \in 1..(N + 1) : i # k /\ j # k /\ i # j => was(i) # was(j)
  BY <1>1
<1>7. ASSUME NEW i \in 1..N PROVE \E j \in 1..(N + 1) : new[j] = listing[i]
  <2>1. CASE i < k
    BY <1>1, <1>2, <2>1
  <2>2. CASE ~(i < k)
    <3>1. i + 1 \in 1..(N + 1) /\ ~(i + 1 < k) /\ i + 1 # k /\ (i + 1) - 1 = i
      BY <1>1, <2>2
    <3> QED
      BY <1>2, <3>1
  <2> QED
    BY <2>1, <2>2
<1>8. k \in DOMAIN new
  BY <1>3 DEF N
<1> QED
  BY <1>1, <1>3, <1>4, <1>5, <1>6, <1>7, <1>8 DEF new

\* The end of the scan adds entries of newIndex, each once: those of messages
\* that are not in the index.
LEMMA AddProperties ==
    ASSUME TypeInv, listing \in Seq(Entry)
    PROVE  LET new == index \o Select(listing, NewOnes)
               old == DOMAIN index
           IN  /\ new \in Seq(Entry)
               /\ old \subseteq DOMAIN new
               /\ \A i \in old : new[i] = index[i]
               /\ \A i \in DOMAIN new \ old : \E k \in NewOnes : new[i] = listing[k]
               /\ \A i, j \in DOMAIN new \ old : i # j =>
                    \E k, l \in NewOnes : k # l /\ new[i] = listing[k] /\ new[j] = listing[l]
               /\ \A k \in NewOnes : \E i \in DOMAIN new : new[i] = listing[k]
<1> DEFINE ns == NewOnes
           e == Select(listing, ns)
           n == Cardinality(ns)
           new == index \o e
<1>1. /\ Len(listing) \in Nat /\ DOMAIN listing = 1..Len(listing) /\ ns \in SUBSET (1..Len(listing))
      /\ \A k \in ns : listing[k] \in Entry
  BY LenProperties, ElementOfSeq DEF NewOnes
<1> HIDE DEF ns
<1>2. /\ n \in Nat
      /\ \A k \in 1..n : Nth(ns, k) \in ns
      /\ \A k, l \in 1..n : Nth(ns, k) = Nth(ns, l) => k = l
      /\ \A m \in ns : \E k \in 1..n : Nth(ns, k) = m
  BY <1>1, NthProperties
<1>3. e = [k \in 1..n |-> listing[Nth(ns, k)]]
  BY DEF Select
<1> HIDE DEF n, e
<1>4. e \in Seq(Entry) /\ Len(e) = n
  <2>1. e \in [1..n -> Entry]
    BY <1>1, <1>2, <1>3
  <2> QED
    BY <1>2, <2>1, SeqDef, LenProperties
<1>5. \A k \in 1..n : e[k] = listing[Nth(ns, k)]
  BY <1>3
<1>6. index \in Seq(Entry) /\ Len(index) \in Nat /\ DOMAIN index = 1..Len(index)
  BY IndexEntries DEF TypeInv
<1>7. /\ new \in Seq(Entry)
      /\ Len(new) = Len(index) + n
      /\ \A i \in 1..(Len(index) + n) : new[i] = IF i <= Len(index) THEN index[i] ELSE e[i - Len(index)]
  BY <1>4, <1>6, ConcatProperties
<1> HIDE DEF new
<1>8. DOMAIN new = 1..(Len(index) + n)
  BY <1>7, LenProperties
<1>9. DOMAIN index \subseteq DOMAIN new /\ \A i \in DOMAIN index : new[i] = index[i]
  BY <1>2, <1>6, <1>7, <1>8
<1>10. \A i \in DOMAIN new \ DOMAIN index : i - Len(index) \in 1..n /\ new[i] = e[i - Len(index)]
  BY <1>2, <1>6, <1>7, <1>8
<1>11. \A k \in 1..n : Len(index) + k \in DOMAIN new /\ new[Len(index) + k] = e[k]
  BY <1>2, <1>6, <1>7, <1>8
<1> DEFINE at(i) == Nth(ns, i - Len(index))
<1>12. \A i \in DOMAIN new \ DOMAIN index : at(i) \in ns /\ new[i] = listing[at(i)]
  BY <1>2, <1>5, <1>10
<1>13. ASSUME NEW i \in DOMAIN new \ DOMAIN index, NEW j \in DOMAIN new \ DOMAIN index, i # j
       PROVE  at(i) # at(j)
  <2>1. i - Len(index) # j - Len(index)
    BY <1>2, <1>6, <1>8, <1>13
  <2> QED
    BY <1>2, <1>10, <2>1
<1> HIDE DEF at
<1>14. ASSUME NEW k \in ns PROVE \E i \in DOMAIN new : new[i] = listing[k]
  BY <1>2, <1>5, <1>11
<1> QED
  BY <1>7, <1>9, <1>12, <1>13, <1>14 DEF new, e, ns

-----------------------------------------------------------------------------
(* Steps keep the index right.                                             *)

LEMMA InitIInv == Init => IInv
<1> SUFFICES ASSUME Init PROVE IInv
  OBVIOUS
<1>1. TypeInv
  <2>1. /\ loc \in [Msgs -> {"none", "new", "cur", "gone"}]
        /\ flags \in [Msgs -> Flags]
        /\ index \in Seq(Entry) /\ DOMAIN index = {}
        /\ fn \in Flags
    <3>1. DOMAIN << >> = {} /\ << >> \in Seq(Entry)
      OBVIOUS
    <3> QED
      BY <3>1 DEF Init, Flags
  <2> QED
    BY <2>1 DEF TypeInv, Types, Init
<1>2. DOMAIN index = {} /\ \A m \in Msgs : flags[m] = {}
  BY DEF Init
<1>3. UidsUnique /\ OpInv /\ MarkInv /\ RemoveInv
  BY <1>2 DEF Init, UidsUnique, OpInv, MarkInv, RemoveInv
<1>4. AgreeInv
  <2>1. Uids = {}
    BY <1>2 DEF Uids
  <2>2. pc = "getnew" /\ \A m \in Msgs : loc[m] # "new"
    BY DEF Init
  <2> QED
    BY <2>1, <2>2 DEF AgreeInv, LoopInv, StatInv, DirInv, NewInv, CurInv, ScanInv, RefreshAgrees
<1>5. OtherInv
  BY DEF Init, OtherInv
<1>6. ReadInv
  <2>1. DOMAIN << >> = {} /\ << >> \in Seq(Entry)
    OBVIOUS
  <2> QED
    BY <2>1 DEF Init, ReadInv, DirentInv, ListInv
<1> QED
  BY <1>1, <1>3, <1>4, <1>5, <1>6 DEF IInv, SafeInv

\* Other programs move files, but what they mark they want removed.
LEMMA SafeOther ==
    ASSUME SafeInv,
           NEW m \in Msgs,
           \/ Deliver(m) \/ OtherMoves(m) \/ OtherRemoves(m)
           \/ \E f \in Flags : OtherFlags(m, f)
    PROVE  SafeInv'
<1> USE DEF SafeInv
<1>1. /\ UNCHANGED <<index, pc, op, todo, fn>>
      /\ asked \subseteq asked' /\ raced \subseteq raced'
      /\ loc' \in [Msgs -> {"none", "new", "cur", "gone"}]
  BY DEF Deliver, OtherMoves, OtherRemoves, OtherFlags, Others, mem, TypeInv, Types
<1>2. flags' \in [Msgs -> Flags] /\ \A x \in Msgs : "T" \in flags'[x] => x \in asked'
  <2>1. CASE flags' = flags
    BY <1>1, <2>1 DEF TypeInv, Types, MarkInv
  <2>2. ASSUME NEW f \in Flags, OtherFlags(m, f)
        PROVE  flags' \in [Msgs -> Flags] /\ \A x \in Msgs : "T" \in flags'[x] => x \in asked'
    BY <2>2 DEF OtherFlags, TypeInv, Types, MarkInv
  <2> QED
    BY <2>1, <2>2 DEF Deliver, OtherMoves, OtherRemoves
<1>3. TypeInv'
  BY <1>1, <1>2 DEF TypeInv, Types
<1>4. UidsUnique' /\ OpInv'
  BY <1>1 DEF UidsUnique, OpInv
<1>5. MarkInv'
  BY <1>1, <1>2 DEF MarkInv
<1>6. RemoveInv'
  <2>1. \A i : Last(i)' <=> Last(i)
    BY <1>1 DEF Last
  <2> QED
    BY <1>1, <2>1 DEF RemoveInv
<1> QED
  BY <1>3, <1>4, <1>5, <1>6

\* Marking a message: what is marked in the index is asked for.
LEMMA SafeMark ==
    ASSUME SafeInv, NEW i \in DOMAIN index, NEW f \in Flags, Mark(i, f)
    PROVE  SafeInv'
<1> USE DEF SafeInv
<1>1. index \in Seq(Entry) /\ index[i] \in Entry /\ DOMAIN index = 1..Len(index)
  BY IndexEntries DEF TypeInv
<1>2. /\ index' = [index EXCEPT ![i].flags = f]
      /\ pc' = "rename" /\ op' = "mark" /\ todo' = {i} /\ UNCHANGED <<loc, flags, raced>>
      /\ asked \subseteq asked' /\ ("T" \in f => index[i].uid \in asked')
      /\ fn' = Filename(i)
  BY DEF Mark, Begin, reading
<1>3. index' = [index EXCEPT ![i] = [index[i] EXCEPT !.flags = f]]
  BY <1>2
<1>4. [index[i] EXCEPT !.flags = f] \in Entry
  BY <1>1 DEF Entry
<1>5. index' \in Seq(Entry) /\ DOMAIN index' = DOMAIN index
  BY <1>1, <1>3, <1>4, ExceptSeq
<1>6. \A j \in DOMAIN index :
         /\ index'[j].uid = index[j].uid /\ index'[j].name = index[j].name
         /\ index'[j].flags = IF j = i THEN f ELSE index[j].flags
  BY <1>1, <1>3 DEF Entry
<1>7. fn' \in Flags
  BY <1>1, <1>2 DEF Filename, Entry, TypeInv, Types
<1>8. \A j \in DOMAIN index' : index'[j] \in Entry
  BY <1>5, LenProperties, ElementOfSeq
<1>9. TypeInv'
  BY <1>2, <1>5, <1>7, <1>8 DEF TypeInv, Types, Entry
<1>10. UidsUnique'
  BY <1>2, <1>5, <1>6 DEF UidsUnique
<1>11. MarkInv'
  BY <1>2, <1>5, <1>6 DEF MarkInv
<1>12. OpInv' /\ RemoveInv'
  BY <1>2 DEF OpInv, RemoveInv
<1> QED
  BY <1>9, <1>10, <1>11, <1>12

\* The rename: a name gets the flags that its message has in the index.
LEMMA SafeRename ==
    ASSUME SafeInv, NEW i \in todo, Rename(i)
    PROVE  SafeInv'
<1> USE DEF SafeInv
<1>0. i \in DOMAIN index /\ index[i].uid \in Msgs /\ index[i].flags \in Flags
  BY IndexEntries DEF TypeInv, Types
<1>1. index \in Seq(Entry) /\ index[i] \in Entry /\ DOMAIN index = 1..Len(index)
  BY <1>0, IndexEntries DEF TypeInv
<1>2. pc' = "idle" /\ todo' = {} /\ UNCHANGED <<loc, op, fn, raced, asked>>
  BY DEF Rename, reading
<1>3. OpInv' /\ RemoveInv'
  BY <1>2 DEF OpInv, RemoveInv
<1>4. CASE UNCHANGED <<flags, index>>
  <2>1. TypeInv'
    BY <1>2, <1>4 DEF TypeInv, Types
  <2>2. UidsUnique' /\ MarkInv'
    BY <1>2, <1>4 DEF UidsUnique, MarkInv
  <2> QED
    BY <1>3, <2>1, <2>2
<1>5. CASE /\ flags' = [flags EXCEPT ![index[i].uid] = index[i].flags]
           /\ index' = [index EXCEPT ![i].name = index[i].flags]
  <2>1. index' = [index EXCEPT ![i] = [index[i] EXCEPT !.name = index[i].flags]]
    BY <1>5
  <2>2. [index[i] EXCEPT !.name = index[i].flags] \in Entry
    BY <1>1 DEF Entry
  <2>3. index' \in Seq(Entry) /\ DOMAIN index' = DOMAIN index
    BY <1>0, <1>1, <2>1, <2>2, ExceptSeq
  <2>4. \A j \in DOMAIN index :
           /\ index'[j].uid = index[j].uid /\ index'[j].flags = index[j].flags
           /\ index'[j].name = IF j = i THEN index[j].flags ELSE index[j].name
    BY <1>1, <2>1 DEF Entry
  <2>5. \A j \in DOMAIN index' : index'[j] \in Entry
    BY <2>3, LenProperties, ElementOfSeq
  <2>6. /\ flags' \in [Msgs -> Flags]
        /\ \A m \in Msgs : flags'[m] = IF m = index[i].uid THEN index[i].flags ELSE flags[m]
    BY <1>0, <1>5 DEF TypeInv, Types
  <2>7. TypeInv'
    BY <1>2, <2>3, <2>5, <2>6 DEF TypeInv, Types, Entry
  <2>8. UidsUnique'
    BY <1>2, <2>3, <2>4 DEF UidsUnique
  <2>9. MarkInv'
    BY <1>0, <1>2, <2>3, <2>4, <2>6 DEF MarkInv
  <2> QED
    BY <1>3, <2>7, <2>8, <2>9
<1> QED
  BY <1>4, <1>5 DEF Rename

\* The requests that only start a loop or a check.
LEMMA SafeRequest ==
    ASSUME SafeInv,
           \/ \E is \in SUBSET DOMAIN index \ {{}} : Remove(is)
           \/ Expunge \/ Refresh \/ CheckNewMail
    PROVE  SafeInv'
<1> USE DEF SafeInv
<1>1. /\ UNCHANGED <<loc, flags, index, fn, raced>> /\ asked \subseteq asked'
      /\ \/ pc' = "find" /\ op' \in {"remove", "expunge", "refresh"}
         \/ pc' = "getnew" /\ op' = "check"
      /\ todo' \subseteq DOMAIN index
  BY DEF Remove, Expunge, Refresh, CheckNewMail, Begin, reading, TypeInv, Types
<1>2. op' = "remove" => \A i \in todo' : index[i].uid \in asked'
  BY DEF Remove, Expunge, Refresh, CheckNewMail, Begin
<1>3. TypeInv'
  BY <1>1 DEF TypeInv, Types
<1>4. UidsUnique' /\ OpInv'
  BY <1>1 DEF UidsUnique, OpInv
<1>5. MarkInv'
  BY <1>1 DEF MarkInv
<1>6. RemoveInv'
  BY <1>1, <1>2 DEF RemoveInv
<1> QED
  BY <1>3, <1>4, <1>5, <1>6

\* There is one last message to be looked at.
LEMMA LastUnique ==
    ASSUME TypeInv, NEW i \in todo, NEW j \in todo, Last(i), Last(j)
    PROVE  i = j
<1>1. i \in Nat /\ j \in Nat
  BY IndexEntries DEF TypeInv, Types
<1>2. i <= j /\ j <= i
  BY DEF Last
<1> QED
  BY <1>1, <1>2

\* The index without its last message to be looked at is right, and the others
\* that are to be looked at have kept their numbers.
LEMMA SafeWithout ==
    ASSUME SafeInv, NEW i \in todo, Last(i), index' = Without(i), todo' = todo \ {i},
           UNCHANGED <<flags, raced, asked>>
    PROVE  /\ index' \in Seq(Entry) /\ todo' \subseteq DOMAIN index'
           /\ \A j \in DOMAIN index' : index'[j] \in Entry
           /\ UidsUnique' /\ MarkInv'
<1> USE DEF SafeInv
<1>1. Len(index) \in Nat /\ DOMAIN index = 1..Len(index) /\ todo \subseteq DOMAIN index
  BY IndexEntries DEF TypeInv, Types
<1> DEFINE was(j) == IF j < i THEN j ELSE j + 1
<1>2. /\ index' \in Seq(Entry)
      /\ DOMAIN index' = 1..(Len(index) - 1)
      /\ \A j \in DOMAIN index' : index'[j] = index[was(j)]
  <2>1. \A j \in 1..(Len(index) - 1) : index'[j] = IF j < i THEN index[j] ELSE index[j + 1]
    BY <1>1, WithoutProperties
  <2> QED
    BY <1>1, <2>1, WithoutProperties
<1>3. \A j \in DOMAIN index' : was(j) \in DOMAIN index
  BY <1>1, <1>2
<1>4. \A j, k \in DOMAIN index' : was(j) = was(k) => j = k
  BY <1>1, <1>2
<1>5. todo' \subseteq DOMAIN index'
  <2>1. ASSUME NEW j \in todo' PROVE j \in 1..(Len(index) - 1)
    <3>1. j \in 1..Len(index) /\ i \in 1..Len(index) /\ j <= i /\ j # i
      BY <1>1 DEF Last
    <3> QED
      BY <1>1, <3>1
  <2> QED
    BY <1>2, <2>1
<1> HIDE DEF was
<1>6. \A j \in DOMAIN index' : index'[j] \in Entry
  BY <1>2, <1>3, IndexEntries
<1>7. UidsUnique'
  BY <1>2, <1>3, <1>4 DEF UidsUnique
<1>8. MarkInv'
  BY <1>2, <1>3 DEF MarkInv
<1> QED
  BY <1>2, <1>5, <1>6, <1>7, <1>8

\* The loop over the index.
LEMMA SafeFind ==
    ASSUME SafeInv, NEW i \in todo, Find(i)
    PROVE  SafeInv'
<1> USE DEF SafeInv
<1>1. /\ UNCHANGED <<loc, flags, index, op, raced, asked>> /\ Last(i)
      /\ fn' = Filename(i) /\ pc = "find"
      /\ todo' \subseteq todo
      /\ pc' \in {"find", "stat", "unlink"}
      /\ pc' = "stat" => op = "refresh"
      /\ pc' = "unlink" => todo' = todo /\ op # "refresh" /\ (op = "expunge" => "T" \in index[i].flags)
  BY DEF Find, reading
<1>2. fn' \in Flags
  BY <1>1, IndexEntries DEF Filename, TypeInv, Types
<1>3. TypeInv'
  BY <1>1, <1>2 DEF TypeInv, Types
<1>4. UidsUnique'
  BY <1>1 DEF UidsUnique
<1>5. OpInv'
  BY <1>1 DEF OpInv
<1>6. MarkInv'
  BY <1>1 DEF MarkInv
<1>7. RemoveInv'
  <2>1. op' = "remove" => \A j \in todo' : index'[j].uid \in asked'
    BY <1>1 DEF RemoveInv
  <2>2. op' = "expunge" /\ pc' = "unlink" => \A j \in todo' : Last(j)' => "T" \in index'[j].flags
    <3>1. SUFFICES ASSUME op' = "expunge", pc' = "unlink", NEW j \in todo', Last(j)'
                   PROVE  "T" \in index'[j].flags
      OBVIOUS
    <3>2. Last(j) /\ j \in todo
      BY <1>1, <3>1 DEF Last
    <3>3. j = i
      BY <1>1, <3>2, LastUnique
    <3> QED
      BY <1>1, <3>1, <3>3
  <2> QED
    BY <2>1, <2>2 DEF RemoveInv
<1> QED
  BY <1>3, <1>4, <1>5, <1>6, <1>7

LEMMA SafeUnlink ==
    ASSUME SafeInv, NEW i \in todo, Unlink(i)
    PROVE  SafeInv'
<1> USE DEF SafeInv
<1>1. /\ UNCHANGED <<flags, op, fn, raced, asked>> /\ Last(i)
      /\ todo' = todo \ {i} /\ pc' = "find" /\ pc = "unlink"
      /\ index' = IF op = "expunge" THEN Without(i) ELSE index
  BY DEF Unlink, reading
<1>2. loc' \in [Msgs -> {"none", "new", "cur", "gone"}]
  BY DEF Unlink, TypeInv, Types
<1>3. OpInv' /\ op \in {"remove", "expunge"}
  BY <1>1 DEF OpInv
<1>4. CASE op = "expunge"
  <2>1. /\ index' \in Seq(Entry) /\ todo' \subseteq DOMAIN index'
        /\ \A j \in DOMAIN index' : index'[j] \in Entry
        /\ UidsUnique' /\ MarkInv'
    BY <1>1, <1>4, SafeWithout
  <2>2. TypeInv'
    BY <1>1, <1>2, <2>1 DEF TypeInv, Types, Entry
  <2>3. RemoveInv'
    BY <1>1, <1>4 DEF RemoveInv
  <2> QED
    BY <1>3, <2>1, <2>2, <2>3
<1>5. CASE op = "remove"
  <2>1. UNCHANGED index
    BY <1>1, <1>5
  <2>2. TypeInv'
    BY <1>1, <1>2, <2>1 DEF TypeInv, Types
  <2>3. UidsUnique' /\ MarkInv'
    BY <1>1, <2>1 DEF UidsUnique, MarkInv
  <2>4. RemoveInv'
    BY <1>1, <1>5, <2>1 DEF RemoveInv
  <2> QED
    BY <1>3, <2>2, <2>3, <2>4
<1> QED
  BY <1>3, <1>4, <1>5

LEMMA SafeStat ==
    ASSUME SafeInv, NEW i \in todo, Stat(i)
    PROVE  SafeInv'
<1> USE DEF SafeInv
<1>1. /\ UNCHANGED <<loc, flags, op, fn, raced, asked>> /\ Last(i)
      /\ todo' = todo \ {i} /\ pc' = "find" /\ pc = "stat"
      /\ index' = IF Exists(i) THEN index ELSE Without(i)
  BY DEF Stat, reading
<1>2. OpInv' /\ op = "refresh"
  BY <1>1 DEF OpInv
<1>3. RemoveInv'
  BY <1>1, <1>2 DEF RemoveInv
<1>4. CASE Exists(i)
  <2>1. TypeInv'
    BY <1>1, <1>4 DEF TypeInv, Types
  <2>2. UidsUnique' /\ MarkInv'
    BY <1>1, <1>4 DEF UidsUnique, MarkInv
  <2> QED
    BY <1>2, <1>3, <2>1, <2>2
<1>5. CASE ~Exists(i)
  <2>1. /\ index' \in Seq(Entry) /\ todo' \subseteq DOMAIN index'
        /\ \A j \in DOMAIN index' : index'[j] \in Entry
        /\ UidsUnique' /\ MarkInv'
    BY <1>1, <1>5, SafeWithout
  <2>2. TypeInv'
    BY <1>1, <2>1 DEF TypeInv, Types, Entry
  <2> QED
    BY <1>2, <1>3, <2>1, <2>2
<1> QED
  BY <1>4, <1>5

\* The end of a loop, maildir_getnew, and the names that are read.
LEMMA SafeEnd ==
    ASSUME SafeInv,
           \/ Removed \/ Found \/ GotNew
           \/ \E m \in Msgs : GetNew(m) \/ \E k \in 1..(Len(listing) + 1) : Read(m, k)
    PROVE  SafeInv'
<1> USE DEF SafeInv
<1>1. /\ UNCHANGED <<flags, index, fn, asked>>
      /\ pc' \in {"find", "getnew", "scan"} /\ (pc' = "find" => op' = "refresh")
      /\ todo' \subseteq DOMAIN index
      /\ raced' = raced \/ raced' = raced \cap Uids
  BY DEF Removed, Found, GotNew, GetNew, Read, mem, reading, TypeInv, Types
<1>2. loc' \in [Msgs -> {"none", "new", "cur", "gone"}]
  BY DEF Removed, Found, GotNew, GetNew, Read, TypeInv, Types
<1>3. TypeInv'
  BY <1>1, <1>2 DEF TypeInv, Types
<1>4. UidsUnique' /\ MarkInv'
  BY <1>1 DEF UidsUnique, Uids, MarkInv
<1>5. OpInv' /\ RemoveInv'
  BY <1>1 DEF OpInv, RemoveInv
<1> QED
  BY <1>3, <1>4, <1>5

\* The end of the scan adds no message twice that was not renamed, and none that
\* is in the index.
LEMMA SafeAdd ==
    ASSUME SafeInv, ReadInv, AddNew
    PROVE  SafeInv'
<1> USE DEF SafeInv
<1>1. /\ UNCHANGED <<loc, flags, op, fn, raced, asked>> /\ pc' = "update"
      /\ todo' = DOMAIN index
      /\ index' = index \o Select(listing, NewOnes)
      /\ listing \in Seq(Entry)
  BY DEF AddNew, ScanDone, ReadInv, ListInv
<1>2. /\ index' \in Seq(Entry)
      /\ DOMAIN index \subseteq DOMAIN index'
      /\ \A i \in DOMAIN index : index'[i] = index[i]
      /\ \A i \in DOMAIN index' \ DOMAIN index : \E k \in NewOnes : index'[i] = listing[k]
      /\ \A i, j \in DOMAIN index' \ DOMAIN index : i # j =>
           \E k, l \in NewOnes : k # l /\ index'[i] = listing[k] /\ index'[j] = listing[l]
  <2> DEFINE new == index \o Select(listing, NewOnes)
  <2>1. /\ new \in Seq(Entry)
        /\ DOMAIN index \subseteq DOMAIN new
        /\ \A i \in DOMAIN index : new[i] = index[i]
        /\ \A i \in DOMAIN new \ DOMAIN index : \E k \in NewOnes : new[i] = listing[k]
        /\ \A i, j \in DOMAIN new \ DOMAIN index : i # j =>
             \E k, l \in NewOnes : k # l /\ new[i] = listing[k] /\ new[j] = listing[l]
    BY <1>1, AddProperties
  <2>2. index' = new
    BY <1>1
  <2> HIDE DEF new
  <2> QED
    BY <2>1, <2>2
<1>3. \A i \in DOMAIN index' : index'[i] \in Entry
  BY <1>2, LenProperties, ElementOfSeq
<1>4. TypeInv'
  BY <1>1, <1>2, <1>3 DEF TypeInv, Types
<1>5. \A k \in NewOnes : k \in DOMAIN listing /\ listing[k].uid \notin Uids
  BY DEF NewOnes
<1>6. UidsUnique'
  <2>1. \A i \in DOMAIN index : index'[i].uid \in Uids
    BY <1>2 DEF Uids
  <2>2. SUFFICES ASSUME NEW i \in DOMAIN index', NEW j \in DOMAIN index',
                        i # j, index'[i].uid = index'[j].uid
                 PROVE  index'[i].uid \in raced
    BY <1>1 DEF UidsUnique
  <2>3. CASE i \in DOMAIN index /\ j \in DOMAIN index
    BY <1>2, <2>2, <2>3 DEF UidsUnique
  <2>4. CASE i \notin DOMAIN index /\ j \notin DOMAIN index
    <3>1. PICK k \in NewOnes, l \in NewOnes :
            k # l /\ index'[i] = listing[k] /\ index'[j] = listing[l]
      BY <1>2, <2>2, <2>4
    <3> QED
      BY <1>5, <2>2, <3>1 DEF ReadInv, ListInv
  <2>5. CASE ~(i \in DOMAIN index <=> j \in DOMAIN index)
    BY <1>2, <1>5, <2>1, <2>2, <2>5
  <2> QED
    BY <2>3, <2>4, <2>5
<1>7. MarkInv'
  <2>1. ASSUME NEW i \in DOMAIN index', "T" \in index'[i].flags \/ "T" \in index'[i].name
        PROVE  index'[i].uid \in asked'
    <3>1. CASE i \in DOMAIN index
      BY <1>1, <1>2, <2>1, <3>1 DEF MarkInv
    <3>2. CASE i \notin DOMAIN index
      BY <1>1, <1>2, <1>5, <2>1, <3>2 DEF ReadInv, ListInv
    <3> QED
      BY <3>1, <3>2
  <2> QED
    BY <1>1, <2>1 DEF MarkInv
<1>8. OpInv' /\ RemoveInv'
  BY <1>1 DEF OpInv, RemoveInv
<1> QED
  BY <1>4, <1>6, <1>7, <1>8

\* What the names and flags of the index become.
LEMMA UpdateProperties ==
    ASSUME TypeInv, Update
    PROVE  /\ index' \in Seq(Entry) /\ DOMAIN index' = DOMAIN index
           /\ \A i \in DOMAIN index : index'[i].uid = index[i].uid
           /\ \A i \in todo : index'[i].name = Filename(i) /\ index'[i].flags = Filename(i)
           /\ \A i \in DOMAIN index \ todo : index'[i] = index[i]
<1>1. Len(index) \in Nat /\ DOMAIN index = 1..Len(index) /\ todo \subseteq DOMAIN index
  BY IndexEntries DEF TypeInv, Types
<1>2. index' = [i \in DOMAIN index |->
                  IF i \in todo
                  THEN [index[i] EXCEPT !.name = Filename(i), !.flags = Filename(i)]
                  ELSE index[i]]
  BY DEF Update
<1>3. \A i \in DOMAIN index : index[i] \in Entry /\ Filename(i) \in Flags
  BY IndexEntries DEF Filename, TypeInv, Types
<1>4. \A i \in DOMAIN index :
         index'[i] = IF i \in todo
                     THEN [index[i] EXCEPT !.name = Filename(i), !.flags = Filename(i)]
                     ELSE index[i]
  BY <1>2
<1>5. \A i \in DOMAIN index : index'[i] \in Entry
  BY <1>3, <1>4 DEF Entry
<1>6. DOMAIN index' = DOMAIN index
  BY <1>2
<1>7. index' \in Seq(Entry)
  <2>1. index' \in [1..Len(index) -> Entry]
    BY <1>1, <1>2, <1>5
  <2> QED
    BY <1>1, <2>1, SeqDef
<1>8. \A i \in todo : /\ index'[i].uid = index[i].uid
                     /\ index'[i].name = Filename(i) /\ index'[i].flags = Filename(i)
  BY <1>1, <1>3, <1>4 DEF Entry
<1>9. \A i \in DOMAIN index \ todo : index'[i] = index[i]
  BY <1>4
<1> QED
  BY <1>1, <1>6, <1>7, <1>8, <1>9

\* The new names are those of the directory, or the old ones.
LEMMA SafeUpdate ==
    ASSUME SafeInv, Update
    PROVE  SafeInv'
<1> USE DEF SafeInv
<1>1. /\ UNCHANGED <<loc, flags, op, fn, raced, asked>> /\ pc' = "idle" /\ todo' = {}
  BY DEF Update, reading
<1>2. /\ index' \in Seq(Entry) /\ DOMAIN index' = DOMAIN index
      /\ \A i \in DOMAIN index : index'[i].uid = index[i].uid
      /\ \A i \in todo : index'[i].name = Filename(i) /\ index'[i].flags = Filename(i)
      /\ \A i \in DOMAIN index \ todo : index'[i] = index[i]
  BY UpdateProperties
<1>3. \A i \in DOMAIN index' : index'[i] \in Entry
  BY <1>2, LenProperties, ElementOfSeq
<1>4. TypeInv'
  BY <1>1, <1>2, <1>3 DEF TypeInv, Types, Entry
<1>5. UidsUnique'
  BY <1>1, <1>2 DEF UidsUnique
<1>6. MarkInv'
  <2>1. \A i \in DOMAIN index : "T" \in Filename(i) => index[i].uid \in asked
    BY IndexEntries DEF Filename, MarkInv
  <2>2. todo \subseteq DOMAIN index
    BY DEF TypeInv, Types
  <2>3. ASSUME NEW i \in DOMAIN index, "T" \in index'[i].flags \/ "T" \in index'[i].name
        PROVE  index[i].uid \in asked
    <3>1. CASE i \in todo
      BY <1>2, <2>1, <2>3, <3>1
    <3>2. CASE i \notin todo
      BY <1>2, <2>3, <3>2 DEF MarkInv
    <3> QED
      BY <3>1, <3>2
  <2> QED
    BY <1>1, <1>2, <2>3 DEF MarkInv
<1>7. OpInv' /\ RemoveInv'
  BY <1>1 DEF OpInv, RemoveInv
<1> QED
  BY <1>4, <1>5, <1>6, <1>7

LEMMA SafeNext == SafeInv /\ ReadInv /\ [Next]_vars => SafeInv'
<1> SUFFICES ASSUME SafeInv, ReadInv, [Next]_vars PROVE SafeInv'
  OBVIOUS
<1>1. CASE Requests
  BY <1>1, SafeMark, SafeRequest DEF Requests
<1>2. CASE Driver
  BY <1>2, SafeRename, SafeFind, SafeUnlink, SafeStat, SafeEnd, SafeAdd, SafeUpdate DEF Driver
<1>3. ASSUME NEW m \in Msgs,
             \/ Deliver(m) \/ OtherMoves(m) \/ OtherRemoves(m)
             \/ \E f \in Flags : OtherFlags(m, f)
      PROVE  SafeInv'
  BY <1>3, SafeOther
<1>4. CASE UNCHANGED vars
  <2>1. UNCHANGED <<loc, flags, index, pc, op, todo, fn, raced, asked>>
    BY <1>4 DEF vars
  <2>2. \A i : Last(i)' <=> Last(i)
    BY <2>1 DEF Last
  <2> QED
    BY <2>1, <2>2 DEF SafeInv, TypeInv, Types, UidsUnique, OpInv, MarkInv, RemoveInv
<1> QED
  BY <1>1, <1>2, <1>3, <1>4 DEF Next

-----------------------------------------------------------------------------
(* What has been read.                                                     *)

\* The steps that start and end the reading of a directory find nothing listed,
\* or leave nothing listed.
LEMMA ReadEmpty ==
    ASSUME DirentInv', listing' = <<>>, raced' \subseteq Msgs
    PROVE  ReadInv'
<1>1. DOMAIN << >> = {} /\ << >> \in Seq(Entry)
  OBVIOUS
<1> QED
  BY <1>1 DEF ReadInv, ListInv

\* Steps in which no directory is read.
LEMMA ReadNone ==
    ASSUME SafeInv, ReadInv, pc \notin {"getnew", "scan"}, pc' \notin {"getnew", "scan"},
           UNCHANGED reading
    PROVE  ReadInv'
<1>1. dirent' = dirent /\ listing' = listing /\ raced' = raced
  BY DEF reading
<1>2. \A m \in Msgs : dirent[m] = "done"
  BY DEF ReadInv, DirentInv, Reads
<1>3. DirentInv'
  BY <1>1, <1>2 DEF ReadInv, DirentInv
<1>4. listing = <<>>
  BY DEF ReadInv, ListInv
<1> QED
  BY <1>1, <1>3, <1>4, ReadEmpty DEF ReadInv, ListInv

\* A file that others rename may be read again.
LEMMA ReadOther ==
    ASSUME SafeInv, ReadInv,
           NEW m \in Msgs,
           \/ Deliver(m) \/ OtherMoves(m) \/ OtherRemoves(m)
           \/ \E f \in Flags : OtherFlags(m, f)
    PROVE  ReadInv'
<1>1. /\ UNCHANGED <<index, pc, listing>> /\ asked \subseteq asked' /\ raced \subseteq raced'
      /\ dirent' = [dirent EXCEPT ![m] = IF Reads(m)' THEN "may" ELSE "done"]
      /\ loc' = [loc EXCEPT ![m] = loc'[m]]
      /\ raced' \subseteq Msgs
  BY DEF Deliver, OtherMoves, OtherRemoves, OtherFlags, Others, mem, SafeInv, TypeInv, Types,
         ReadInv, ListInv
<1>2. ASSUME loc[m] = "cur", loc'[m] # "gone"
      PROVE  loc'[m] = "cur" /\ (pc = "scan" => m \in raced' \cup Uids)
  <2>1. CASE Deliver(m) \/ OtherMoves(m)
    BY <1>2, <2>1 DEF Deliver, OtherMoves
  <2>2. CASE OtherRemoves(m)
    <3>1. loc \in [Msgs -> {"none", "new", "cur", "gone"}]
      BY DEF SafeInv, TypeInv, Types
    <3>2. loc' = [loc EXCEPT ![m] = "gone"]
      BY <2>2 DEF OtherRemoves
    <3>3. loc'[m] = "gone"
      BY <3>1, <3>2
    <3> QED
      BY <1>2, <3>3
  <2>3. ASSUME NEW f \in Flags, OtherFlags(m, f)
        PROVE  loc'[m] = loc[m] /\ (pc = "scan" => m \in raced' \cup Uids)
    BY <2>3 DEF OtherFlags
  <2> QED
    BY <1>2, <2>1, <2>2, <2>3
<1>3. \A x \in Msgs : x # m => loc'[x] = loc[x] /\ dirent'[x] = dirent[x]
  BY <1>1 DEF SafeInv, TypeInv, Types, ReadInv, DirentInv
<1>4. dirent'[m] = IF Reads(m)' THEN "may" ELSE "done"
  BY <1>1 DEF ReadInv, DirentInv
<1>5. DirentInv'
  <2>1. dirent' \in [Msgs -> {"due", "may", "done"}]
    BY <1>1 DEF ReadInv, DirentInv
  <2>2. ASSUME NEW x \in Msgs, dirent'[x] # "done" PROVE Reads(x)'
    BY <1>1, <1>3, <1>4, <2>2 DEF ReadInv, DirentInv, Reads
  <2> QED
    BY <2>1, <2>2 DEF DirentInv
<1>6. Uids' = Uids
  BY <1>1 DEF Uids
<1>7. listing \in Seq(Entry) /\ \A k \in DOMAIN listing : listing[k].uid \in Msgs
  <2>1. \A k \in DOMAIN listing : listing[k] \in Entry
    BY LenProperties, ElementOfSeq DEF ReadInv, ListInv
  <2> QED
    BY <2>1 DEF Entry, ReadInv, ListInv
<1>8. ASSUME NEW k \in DOMAIN listing
      PROVE  /\ loc'[listing[k].uid] \in {"cur", "gone"}
             /\ dirent'[listing[k].uid] # "done" => listing[k].uid \in raced' \cup Uids
  <2>1. /\ loc[listing[k].uid] \in {"cur", "gone"} /\ listing[k].uid \in Msgs
        /\ dirent[listing[k].uid] # "done" => listing[k].uid \in raced \cup Uids
    BY <1>7 DEF ReadInv, ListInv
  <2>2. CASE listing[k].uid # m
    BY <1>1, <1>3, <2>1, <2>2
  <2>3. CASE listing[k].uid = m
    <3>1. pc = "scan"
      BY DEF ReadInv, ListInv
    <3>2. loc'[m] \in {"cur", "gone"} /\ (loc'[m] = "cur" => m \in raced' \cup Uids)
      <4>1. CASE loc[m] = "cur"
        BY <1>2, <3>1, <4>1
      <4>2. CASE loc[m] = "gone"
        <5>1. loc'[m] = "gone"
          BY <4>2 DEF Deliver, OtherMoves, OtherRemoves, OtherFlags
        <5> QED
          BY <5>1
      <4> QED
        BY <2>1, <2>3, <4>1, <4>2
    <3>3. dirent'[m] # "done" => loc'[m] = "cur"
      BY <1>1, <1>4, <3>1 DEF Reads
    <3> QED
      BY <2>3, <3>2, <3>3
  <2> QED
    BY <2>2, <2>3
<1>9. ListInv'
  BY <1>1, <1>6, <1>8 DEF ReadInv, ListInv
<1> QED
  BY <1>5, <1>9 DEF ReadInv

\* A name that is read.
LEMMA ReadName ==
    ASSUME SafeInv, ReadInv, NEW m \in Msgs, NEW k \in 1..(Len(listing) + 1), Read(m, k)
    PROVE  ReadInv'
<1>1. /\ pc = "scan" /\ dirent[m] # "done"
      /\ listing' = Insert(k, EntryOf(m))
      /\ dirent' = [dirent EXCEPT ![m] = "done"]
      /\ UNCHANGED <<loc, flags, index, pc, raced, asked>>
  BY DEF Read, mem
<1> DEFINE e == EntryOf(m)
           was(i) == IF i < k THEN i ELSE i - 1
<1>2. /\ e \in Entry /\ e.uid = m
      /\ "T" \in e.flags \/ "T" \in e.name => m \in asked
  <2>1. e = [uid |-> m, name |-> flags[m], flags |-> flags[m]] /\ flags[m] \in Flags
    BY DEF EntryOf, SafeInv, TypeInv, Types
  <2>2. "T" \in flags[m] => m \in asked
    BY DEF SafeInv, MarkInv
  <2> HIDE DEF e
  <2> QED
    BY <2>1, <2>2 DEF Entry
<1>3. loc[m] = "cur"
  BY <1>1 DEF ReadInv, DirentInv, Reads
<1>4. listing \in Seq(Entry) /\ \A i \in DOMAIN listing : listing[i].uid \in Msgs
  <2>1. \A i \in DOMAIN listing : listing[i] \in Entry
    BY LenProperties, ElementOfSeq DEF ReadInv, ListInv
  <2> QED
    BY <2>1 DEF Entry, ReadInv, ListInv
<1> HIDE DEF e
<1>5. /\ listing' \in Seq(Entry) /\ k \in DOMAIN listing' /\ listing'[k] = e
      /\ \A i \in DOMAIN listing' : i # k => was(i) \in DOMAIN listing /\ listing'[i] = listing[was(i)]
      /\ \A i, j \in DOMAIN listing' : i # k /\ j # k /\ i # j => was(i) # was(j)
  <2> DEFINE new == Insert(k, e)
  <2>1. /\ new \in Seq(Entry) /\ k \in DOMAIN new /\ new[k] = e
        /\ \A i \in DOMAIN new : i # k => was(i) \in DOMAIN listing /\ new[i] = listing[was(i)]
        /\ \A i, j \in DOMAIN new : i # k /\ j # k /\ i # j => was(i) # was(j)
    BY <1>2, <1>4, InsertProperties
  <2>2. listing' = new
    BY <1>1 DEF e
  <2> HIDE DEF new
  <2> QED
    BY <2>1, <2>2
<1> HIDE DEF was
<1>6. /\ dirent' \in [Msgs -> {"due", "may", "done"}] /\ dirent'[m] = "done"
      /\ \A x \in Msgs : x # m => dirent'[x] = dirent[x]
  BY <1>1 DEF ReadInv, DirentInv
<1>7. DirentInv'
  BY <1>1, <1>6 DEF ReadInv, DirentInv, Reads
<1>8. Uids' = Uids
  BY <1>1 DEF Uids
<1>9. ASSUME NEW i \in DOMAIN listing'
      PROVE  /\ loc[listing'[i].uid] \in {"cur", "gone"}
             /\ "T" \in listing'[i].flags \/ "T" \in listing'[i].name => listing'[i].uid \in asked
             /\ dirent'[listing'[i].uid] # "done" => listing'[i].uid \in raced \cup Uids
  <2>1. CASE i = k
    BY <1>2, <1>3, <1>5, <1>6, <2>1
  <2>2. CASE i # k
    <3>1. was(i) \in DOMAIN listing /\ listing'[i] = listing[was(i)]
      BY <1>5, <2>2
    <3>2. dirent'[listing[was(i)].uid] # "done" => dirent[listing[was(i)].uid] # "done"
      BY <1>4, <1>6, <3>1
    <3> QED
      BY <3>1, <3>2 DEF ReadInv, ListInv
  <2> QED
    BY <2>1, <2>2
<1>10. ASSUME NEW i \in DOMAIN listing PROVE listing[i].uid = m => m \in raced \cup Uids
  BY <1>1 DEF ReadInv, ListInv
<1>11. ASSUME NEW i \in DOMAIN listing', NEW j \in DOMAIN listing',
              i # j, listing'[i].uid = listing'[j].uid
       PROVE  listing'[i].uid \in raced \cup Uids
  <2>1. CASE i # k /\ j # k
    <3>1. /\ was(i) \in DOMAIN listing /\ listing'[i] = listing[was(i)]
          /\ was(j) \in DOMAIN listing /\ listing'[j] = listing[was(j)]
          /\ was(i) # was(j)
      BY <1>5, <1>11, <2>1
    <3> QED
      BY <1>11, <3>1 DEF ReadInv, ListInv
  <2>2. CASE i = k
    <3>1. was(j) \in DOMAIN listing /\ listing'[j] = listing[was(j)]
      BY <1>5, <1>11, <2>2
    <3> QED
      BY <1>2, <1>5, <1>10, <1>11, <2>2, <3>1
  <2>3. CASE j = k
    <3>1. was(i) \in DOMAIN listing /\ listing'[i] = listing[was(i)]
      BY <1>5, <1>11, <2>3
    <3> QED
      BY <1>2, <1>5, <1>10, <1>11, <2>3, <3>1
  <2> QED
    BY <2>1, <2>2, <2>3
<1>12. ListInv'
  BY <1>1, <1>5, <1>8, <1>9, <1>11 DEF ReadInv, ListInv
<1> QED
  BY <1>7, <1>12 DEF ReadInv

\* opendir(), and files of new that are moved to cur.
LEMMA ReadGet ==
    ASSUME SafeInv, ReadInv,
           CheckNewMail \/ Found \/ GotNew \/ AddNew \/ \E m \in Msgs : GetNew(m)
    PROVE  ReadInv'
<1>1. \A dir : OpenDir(dir) => /\ dirent' \in [Msgs -> {"due", "may", "done"}]
                               /\ \A m \in Msgs : dirent'[m] # "done" => loc[m] = dir
  BY DEF OpenDir
<1>2. pc # "scan" => listing = <<>>
  BY DEF ReadInv, ListInv
<1>3. DirentInv'
  <2>1. CASE CheckNewMail \/ Found
    <3>1. pc' = "getnew" /\ OpenDir("new") /\ loc' = loc
      BY <2>1 DEF CheckNewMail, Found
    <3> QED
      BY <1>1, <3>1 DEF DirentInv, Reads
  <2>2. CASE GotNew
    <3>1. pc' = "scan" /\ OpenDir("cur") /\ loc' = loc
      BY <2>2 DEF GotNew
    <3> QED
      BY <1>1, <3>1 DEF DirentInv, Reads
  <2>3. CASE AddNew
    BY <2>3 DEF AddNew, ScanDone, DirentInv
  <2>4. ASSUME NEW m \in Msgs, GetNew(m) PROVE DirentInv'
    <3>1. /\ loc' = [loc EXCEPT ![m] = "cur"] /\ dirent' = [dirent EXCEPT ![m] = "done"]
          /\ pc' = pc
      BY <2>4 DEF GetNew, mem
    <3>2. \A x \in Msgs : x # m => loc'[x] = loc[x] /\ dirent'[x] = dirent[x]
      BY <3>1 DEF SafeInv, TypeInv, Types, ReadInv, DirentInv
    <3>3. dirent'[m] = "done" /\ dirent' \in [Msgs -> {"due", "may", "done"}]
      BY <3>1 DEF ReadInv, DirentInv
    <3> QED
      BY <3>1, <3>2, <3>3 DEF ReadInv, DirentInv, Reads
  <2> QED
    BY <2>1, <2>2, <2>3, <2>4
<1>4. listing' = <<>> /\ raced' \in {raced, raced \cap Uids}
  BY <1>2 DEF CheckNewMail, Begin, Found, GotNew, AddNew, ScanDone, GetNew
<1> QED
  BY <1>3, <1>4, ReadEmpty DEF ReadInv, ListInv

LEMMA NextRead == SafeInv /\ ReadInv /\ [Next]_vars => ReadInv'
<1> SUFFICES ASSUME SafeInv, ReadInv, [Next]_vars PROVE ReadInv'
  OBVIOUS
<1>1. CASE Requests
  <2>1. CASE CheckNewMail
    BY <2>1, ReadGet
  <2>2. CASE ~CheckNewMail
    <3>1. pc = "idle" /\ pc' \in {"rename", "find"} /\ UNCHANGED reading
      BY <1>1, <2>2 DEF Requests, Mark, Remove, Expunge, Refresh, Begin
    <3> QED
      BY <3>1, ReadNone
  <2> QED
    BY <2>1, <2>2
<1>2. CASE \E i \in todo : Rename(i) \/ Find(i) \/ Unlink(i) \/ Stat(i)
  <2>1. /\ pc \in {"rename", "find", "unlink", "stat"}
        /\ pc' \in {"idle", "find", "unlink", "stat"} /\ UNCHANGED reading
    BY <1>2 DEF Rename, Find, Unlink, Stat
  <2> QED
    BY <2>1, ReadNone
<1>3. CASE Removed \/ Update
  <2>1. pc \in {"find", "update"} /\ pc' \in {"find", "idle"} /\ UNCHANGED reading
    BY <1>3 DEF Removed, Update
  <2> QED
    BY <2>1, ReadNone
<1>4. CASE Found \/ GotNew \/ AddNew \/ \E m \in Msgs : GetNew(m)
  BY <1>4, ReadGet
<1>5. ASSUME NEW m \in Msgs, NEW k \in 1..(Len(listing) + 1), Read(m, k) PROVE ReadInv'
  BY <1>5, ReadName
<1>6. ASSUME NEW m \in Msgs,
             \/ Deliver(m) \/ OtherMoves(m) \/ OtherRemoves(m)
             \/ \E f \in Flags : OtherFlags(m, f)
      PROVE  ReadInv'
  BY <1>6, ReadOther
<1>7. CASE UNCHANGED vars
  <2>1. UNCHANGED <<loc, index, pc, dirent, listing, raced, asked>>
    BY <1>7 DEF vars
  <2>2. Uids' = Uids /\ \A m : Reads(m)' <=> Reads(m)
    BY <2>1 DEF Uids, Reads
  <2> QED
    BY <2>1, <2>2 DEF ReadInv, DirentInv, ListInv
<1> QED
  BY <1>1, <1>2, <1>3, <1>4, <1>5, <1>6, <1>7 DEF Next, Driver

-----------------------------------------------------------------------------
(* Steps keep index and directory in agreement, as far as the operation has *)
(* come.                                                                    *)

\* Other programs end the agreement, and a new operation has everything to do.
LEMMA AgreeOther ==
    ASSUME NEW m \in Msgs,
           \/ Deliver(m) \/ OtherMoves(m) \/ OtherRemoves(m)
           \/ \E f \in Flags : OtherFlags(m, f)
    PROVE  AgreeInv'
<1>1. touched'
  BY DEF Deliver, OtherMoves, OtherRemoves, OtherFlags, Others
<1> QED
  BY <1>1 DEF AgreeInv, LoopInv, StatInv, DirInv, NewInv, CurInv, ScanInv, RefreshAgrees

LEMMA AgreeRequest ==
    ASSUME Requests
    PROVE  AgreeInv'
<1>1. \/ pc' = "rename" /\ op' = "mark"
      \/ pc' = "find" /\ op' \in {"remove", "expunge", "refresh"}
      \/ pc' = "getnew" /\ op' = "check"
  BY DEF Requests, Mark, Remove, Expunge, Refresh, CheckNewMail, Begin
<1>2. op' = "refresh" => todo' = DOMAIN index'
  BY DEF Requests, Mark, Remove, Expunge, Refresh, CheckNewMail, Begin
<1>3. LoopInv'
  BY <1>1, <1>2 DEF LoopInv
<1>4. StatInv' /\ DirInv' /\ CurInv' /\ ScanInv' /\ RefreshAgrees'
  BY <1>1 DEF StatInv, DirInv, CurInv, ScanInv, RefreshAgrees
<1>5. NewInv'
  BY <1>1 DEF NewInv, Requests, Mark, Remove, Expunge, Refresh, CheckNewMail, Begin, OpenDir
<1> QED
  BY <1>3, <1>4, <1>5 DEF AgreeInv

\* A change of the flags, and a removal, promise nothing about the index.
LEMMA AgreeRename ==
    ASSUME SafeInv, NEW i \in todo, Rename(i)
    PROVE  AgreeInv'
<1>1. pc' = "idle" /\ op' = "mark"
  BY DEF Rename, SafeInv, OpInv
<1> QED
  BY <1>1 DEF AgreeInv, LoopInv, StatInv, DirInv, NewInv, CurInv, ScanInv, RefreshAgrees

LEMMA AgreeUnlink ==
    ASSUME SafeInv, NEW i \in todo, Unlink(i)
    PROVE  AgreeInv'
<1>1. pc' = "find" /\ op' \in {"remove", "expunge"}
  BY DEF Unlink, SafeInv, OpInv
<1> QED
  BY <1>1 DEF AgreeInv, LoopInv, StatInv, DirInv, NewInv, CurInv, ScanInv, RefreshAgrees

\* The loop of a refresh looks a name up, and takes a message that is not there
\* out of the index.
LEMMA AgreeFind ==
    ASSUME SafeInv, AgreeInv, NEW i \in todo, Find(i)
    PROVE  AgreeInv'
<1>1. /\ UNCHANGED <<loc, flags, index, op, touched>> /\ Last(i) /\ pc = "find"
      /\ fn' = Filename(i)
      /\ pc' \in {"find", "stat", "unlink"}
      /\ pc' = "stat" => op = "refresh"
      /\ op = "refresh" => todo' = todo
      /\ pc' = "stat" => todo' = todo
  BY DEF Find
<1>2. Cur' = Cur /\ \A j : Filename(j)' = Filename(j)
  BY <1>1 DEF Cur, Filename
<1>3. LoopInv'
  BY <1>1, <1>2 DEF AgreeInv, LoopInv
<1>4. StatInv'
  <2>1. SUFFICES ASSUME pc' = "stat", NEW j \in todo', Last(j)' PROVE fn' = Filename(j)'
    BY DEF StatInv
  <2>2. j \in todo /\ Last(j)
    BY <1>1, <2>1 DEF Last
  <2>3. j = i
    BY <1>1, <2>2, LastUnique DEF SafeInv
  <2> QED
    BY <1>1, <1>2, <2>3
<1>5. DirInv' /\ NewInv' /\ CurInv' /\ ScanInv' /\ RefreshAgrees'
  BY <1>1 DEF DirInv, NewInv, CurInv, ScanInv, RefreshAgrees
<1> QED
  BY <1>3, <1>4, <1>5 DEF AgreeInv

LEMMA AgreeStat ==
    ASSUME SafeInv, AgreeInv, NEW i \in todo, Stat(i)
    PROVE  AgreeInv'
<1>1. /\ UNCHANGED <<loc, flags, op, touched>> /\ Last(i)
      /\ todo' = todo \ {i} /\ pc' = "find" /\ pc = "stat"
      /\ index' = IF Exists(i) THEN index ELSE Without(i)
  BY DEF Stat
<1>2. StatInv' /\ DirInv' /\ NewInv' /\ CurInv' /\ ScanInv' /\ RefreshAgrees'
  BY <1>1 DEF StatInv, DirInv, NewInv, CurInv, ScanInv, RefreshAgrees
<1>3. LoopInv'
  <2>1. SUFFICES ASSUME ~touched
                 PROVE  /\ \A k \in todo', j \in DOMAIN index' : j <= k => j \in todo'
                        /\ \A j \in DOMAIN index' \ todo' : index'[j].uid \in Cur
    <3>1. Cur' = Cur
      BY <1>1 DEF Cur
    <3> QED
      BY <1>1, <3>1 DEF LoopInv
  <2>2. /\ op = "refresh"
        /\ \A k \in todo, j \in DOMAIN index : j <= k => j \in todo
        /\ \A j \in DOMAIN index \ todo : index[j].uid \in Cur
        /\ fn = Filename(i)
    <3>1. op = "refresh"
      BY <1>1 DEF SafeInv, OpInv
    <3> QED
      BY <1>1, <2>1, <3>1 DEF AgreeInv, LoopInv, StatInv
  <2>3. Exists(i) <=> index[i].uid \in Cur
    BY <2>2 DEF Exists, Filename
  <2>4. /\ Len(index) \in Nat /\ DOMAIN index = 1..Len(index)
        /\ todo \subseteq DOMAIN index /\ \A j \in todo : j <= i
    BY <1>1, IndexEntries DEF SafeInv, TypeInv, Types, Last
  <2>5. CASE Exists(i)
    <3>1. index' = index
      BY <1>1, <2>5
    <3>2. \A j \in DOMAIN index \ todo' : index[j].uid \in Cur
      BY <1>1, <2>2, <2>3, <2>5
    <3>3. ASSUME NEW k \in todo', NEW j \in DOMAIN index, j <= k PROVE j \in todo'
      <4>1. k <= i /\ k # i /\ k \in Nat /\ i \in Nat /\ j \in Nat
        BY <1>1, <2>4
      <4>2. j # i
        BY <3>3, <4>1
      <4> QED
        BY <1>1, <2>2, <3>3, <4>2
    <3> QED
      BY <3>1, <3>2, <3>3
  <2>6. CASE ~Exists(i)
    <3>1. /\ DOMAIN index' = 1..(Len(index) - 1)
          /\ \A j \in DOMAIN index' : index'[j] = IF j < i THEN index[j] ELSE index[j + 1]
      BY <1>1, <2>4, <2>6, WithoutProperties DEF SafeInv
    <3>2. ASSUME NEW j \in DOMAIN index', j < i PROVE j \in todo'
      <4>1. j \in DOMAIN index /\ j \in Nat /\ i \in Nat /\ j <= i /\ j # i
        BY <2>4, <3>1, <3>2
      <4> QED
        BY <1>1, <2>2, <4>1
    <3>3. ASSUME NEW j \in DOMAIN index', ~(j < i) PROVE index'[j].uid \in Cur
      <4>1. j + 1 \in DOMAIN index /\ ~(j + 1 <= i) /\ index'[j] = index[j + 1]
        BY <2>4, <3>1, <3>3
      <4> QED
        BY <2>2, <2>4, <4>1
    <3>4. ASSUME NEW k \in todo', NEW j \in DOMAIN index', j <= k PROVE j \in todo'
      <4>1. k <= i /\ k # i /\ k \in Nat /\ i \in Nat /\ j \in Nat
        BY <1>1, <2>4, <3>1
      <4>2. j < i
        BY <3>4, <4>1
      <4> QED
        BY <3>2, <4>2
    <3> QED
      BY <3>2, <3>3, <3>4
  <2> QED
    BY <2>5, <2>6
<1> QED
  BY <1>2, <1>3 DEF AgreeInv

\* After the loop; and maildir_getnew only adds to cur, and empties new.
LEMMA AgreeEnd ==
    ASSUME SafeInv, ReadInv, AgreeInv,
           Removed \/ Found \/ GotNew \/ \E m \in Msgs : GetNew(m)
    PROVE  AgreeInv'
<1>1. /\ UNCHANGED <<index, touched>>
      /\ pc' \in {"find", "getnew", "scan"} /\ (pc' = "find" => todo' = DOMAIN index)
  BY DEF Removed, Found, GotNew, GetNew, mem
<1>2. LoopInv'
  BY <1>1 DEF LoopInv
<1>3. StatInv' /\ ScanInv' /\ RefreshAgrees'
  BY <1>1 DEF StatInv, ScanInv, RefreshAgrees
<1>4. Uids' = Uids
  BY <1>1 DEF Uids
<1>5. DirInv' /\ NewInv' /\ CurInv'
  <2>1. CASE Removed
    BY <2>1 DEF Removed, DirInv, NewInv, CurInv, SafeInv, OpInv
  <2>2. CASE Found
    <3>1. /\ loc' = loc /\ op' = op /\ pc = "find" /\ todo = {} /\ pc' = "getnew"
          /\ dirent' = [m \in Msgs |-> IF loc[m] = "new" THEN "due" ELSE "done"]
      BY <2>2 DEF Found, OpenDir
    <3>2. Cur' = Cur
      BY <3>1 DEF Cur
    <3>3. ~touched /\ op = "refresh" => Uids \subseteq Cur
      BY <3>1 DEF AgreeInv, LoopInv, Uids
    <3>4. op \in {"remove", "expunge", "refresh"}
      BY <3>1 DEF SafeInv, OpInv
    <3>5. DirInv'
      BY <1>1, <1>4, <3>1, <3>2, <3>3, <3>4 DEF DirInv
    <3>6. NewInv' /\ CurInv'
      BY <3>1 DEF NewInv, CurInv
    <3> QED
      BY <3>5, <3>6
  <2>3. ASSUME NEW m \in Msgs, GetNew(m) PROVE DirInv' /\ NewInv' /\ CurInv'
    <3>1. /\ loc' = [loc EXCEPT ![m] = "cur"] /\ op' = op /\ pc = "getnew" /\ pc' = "getnew"
          /\ dirent' = [dirent EXCEPT ![m] = "done"]
      BY <2>3 DEF GetNew, mem
    <3>2. Cur \subseteq Cur' /\ loc'[m] = "cur" /\ \A x \in Msgs : x # m => loc'[x] = loc[x]
      BY <3>1 DEF Cur, SafeInv, TypeInv, Types
    <3>3. DirInv'
      BY <1>1, <1>4, <3>1, <3>2 DEF AgreeInv, DirInv
    <3>4. \A x \in Msgs : x # m /\ dirent[x] = "due" => dirent'[x] = "due"
      BY <3>1
    <3>5. NewInv'
      BY <1>1, <3>1, <3>2, <3>4 DEF AgreeInv, NewInv
    <3> QED
      BY <3>1, <3>3, <3>5 DEF CurInv
  <2>4. CASE GotNew
    <3>1. /\ loc' = loc /\ op' = op /\ pc = "getnew" /\ pc' = "scan" /\ listing' = listing
          /\ dirent' = [m \in Msgs |-> IF loc[m] = "cur" THEN "due" ELSE "done"]
          /\ \A m \in Msgs : dirent[m] # "due"
      BY <2>4 DEF GotNew, OpenDir, AllRead
    <3>2. Cur' = Cur
      BY <3>1 DEF Cur
    <3>3. DirInv' /\ NewInv'
      BY <1>1, <1>4, <3>1, <3>2 DEF AgreeInv, DirInv, NewInv
    <3>4. listing = <<>> /\ DOMAIN << >> = {}
      BY <3>1 DEF ReadInv, ListInv
    <3>5. CurInv'
      BY <3>1, <3>2, <3>4 DEF CurInv, Cur
    <3> QED
      BY <3>3, <3>5
  <2> QED
    BY <2>1, <2>2, <2>3, <2>4
<1> QED
  BY <1>2, <1>3, <1>5 DEF AgreeInv

\* Each name that is read is in the list.
LEMMA AgreeRead ==
    ASSUME SafeInv, ReadInv, AgreeInv, NEW m \in Msgs, NEW k \in 1..(Len(listing) + 1), Read(m, k)
    PROVE  AgreeInv'
<1>1. /\ pc = "scan" /\ dirent[m] # "done" /\ listing' = Insert(k, EntryOf(m))
      /\ dirent' = [dirent EXCEPT ![m] = "done"]
      /\ UNCHANGED <<loc, flags, index, op, pc, touched>>
  BY DEF Read, mem
<1>2. Cur' = Cur /\ Uids' = Uids
  BY <1>1 DEF Cur, Uids
<1>3. LoopInv' /\ StatInv' /\ ScanInv' /\ RefreshAgrees'
  BY <1>1 DEF LoopInv, StatInv, ScanInv, RefreshAgrees
<1>4. DirInv' /\ NewInv'
  BY <1>1, <1>2 DEF AgreeInv, DirInv, NewInv
<1> DEFINE e == EntryOf(m)
           was(i) == IF i < k THEN i ELSE i - 1
<1>5. e \in Entry /\ e.uid = m /\ e.name = flags[m] /\ e.flags = flags[m]
  <2>1. e = [uid |-> m, name |-> flags[m], flags |-> flags[m]] /\ flags[m] \in Flags
    BY DEF EntryOf, SafeInv, TypeInv, Types
  <2> HIDE DEF e
  <2> QED
    BY <2>1 DEF Entry
<1>6. m \in Cur
  BY <1>1 DEF ReadInv, DirentInv, Reads, Cur
<1>7. /\ k \in DOMAIN listing' /\ listing'[k] = e
      /\ \A i \in DOMAIN listing' : i # k => was(i) \in DOMAIN listing /\ listing'[i] = listing[was(i)]
      /\ \A i \in DOMAIN listing : \E j \in DOMAIN listing' : listing'[j] = listing[i]
  BY <1>1, <1>5, InsertProperties DEF ReadInv, ListInv
<1> HIDE DEF e, was
<1>8. \A x \in Msgs : x # m => dirent'[x] = dirent[x]
  BY <1>1 DEF ReadInv, DirentInv
<1>9. CurInv'
  <2>1. SUFFICES ASSUME ~touched
                 PROVE  /\ \A x \in Cur : \/ dirent'[x] = "due"
                                         \/ \E i \in DOMAIN listing' : listing'[i].uid = x
                        /\ \A i \in DOMAIN listing' :
                             /\ listing'[i].uid \in Cur
                             /\ listing'[i].name = flags[listing'[i].uid]
                             /\ listing'[i].flags = flags[listing'[i].uid]
    BY <1>1, <1>2 DEF CurInv
  <2>2. /\ \A x \in Cur : dirent[x] = "due" \/ \E i \in DOMAIN listing : listing[i].uid = x
        /\ \A i \in DOMAIN listing :
             /\ listing[i].uid \in Cur
             /\ listing[i].name = flags[listing[i].uid]
             /\ listing[i].flags = flags[listing[i].uid]
    BY <1>1, <2>1 DEF AgreeInv, CurInv
  <2>3. ASSUME NEW x \in Cur
        PROVE  dirent'[x] = "due" \/ \E i \in DOMAIN listing' : listing'[i].uid = x
    <3>1. x \in Msgs
      BY DEF Cur
    <3>2. CASE x = m
      BY <1>5, <1>7, <3>2
    <3>3. CASE x # m
      BY <1>7, <1>8, <2>2, <3>1, <3>3
    <3> QED
      BY <3>2, <3>3
  <2>4. ASSUME NEW i \in DOMAIN listing'
        PROVE  /\ listing'[i].uid \in Cur
               /\ listing'[i].name = flags[listing'[i].uid]
               /\ listing'[i].flags = flags[listing'[i].uid]
    <3>1. CASE i = k
      BY <1>5, <1>6, <1>7, <3>1
    <3>2. CASE i # k
      BY <1>7, <2>2, <3>2
    <3> QED
      BY <3>1, <3>2
  <2> QED
    BY <2>3, <2>4
<1> QED
  BY <1>3, <1>4, <1>9 DEF AgreeInv

\* The scan makes the index know every message of the directory.
LEMMA AgreeAdd ==
    ASSUME SafeInv, ReadInv, AgreeInv, AddNew
    PROVE  AgreeInv'
<1>1. /\ UNCHANGED <<loc, flags, op, touched>> /\ pc = "scan" /\ pc' = "update"
      /\ todo' = DOMAIN index
      /\ index' = index \o Select(listing, NewOnes)
      /\ listing \in Seq(Entry)
      /\ \A m \in Msgs : dirent[m] # "due"
  BY DEF AddNew, ScanDone, AllRead, ReadInv, ListInv
<1>2. Cur' = Cur
  BY <1>1 DEF Cur
<1>3. /\ DOMAIN index \subseteq DOMAIN index'
      /\ \A i \in DOMAIN index : index'[i] = index[i]
      /\ \A i \in DOMAIN index' \ DOMAIN index : \E k \in NewOnes : index'[i] = listing[k]
      /\ \A k \in NewOnes : \E i \in DOMAIN index' : index'[i] = listing[k]
  BY <1>1, AddProperties DEF SafeInv
<1>4. NewOnes \subseteq DOMAIN listing
  BY DEF NewOnes
<1>5. LoopInv' /\ StatInv' /\ CurInv' /\ RefreshAgrees'
  BY <1>1 DEF LoopInv, StatInv, CurInv, RefreshAgrees
<1>6. NewInv'
  BY <1>1 DEF AgreeInv, NewInv
<1>7. SUFFICES ASSUME ~touched PROVE DirInv' /\ ScanInv'
  BY <1>1, <1>5, <1>6 DEF AgreeInv, DirInv, ScanInv
<1>8. /\ \A m \in Cur : \E k \in DOMAIN listing : listing[k].uid = m
      /\ \A k \in DOMAIN listing :
           /\ listing[k].uid \in Cur
           /\ listing[k].name = flags[listing[k].uid]
           /\ listing[k].flags = flags[listing[k].uid]
  <2>1. \A m \in Cur : m \in Msgs
    BY DEF Cur
  <2> QED
    BY <1>1, <1>7, <2>1 DEF AgreeInv, CurInv
<1>9. \A i \in DOMAIN index' \ DOMAIN index :
        /\ index'[i].uid \in Cur
        /\ index'[i].name = flags[index'[i].uid]
        /\ index'[i].flags = flags[index'[i].uid]
  BY <1>3, <1>4, <1>8
<1>10. Uids' = {index'[i].uid : i \in DOMAIN index'}
  BY DEF Uids
<1>11. ASSUME op \in {"open", "refresh"} PROVE Uids' \subseteq Cur
  <2>1. Uids \subseteq Cur
    BY <1>1, <1>7, <1>11 DEF AgreeInv, DirInv
  <2>2. ASSUME NEW i \in DOMAIN index' PROVE index'[i].uid \in Cur
    <3>1. CASE i \in DOMAIN index
      BY <1>3, <2>1, <3>1 DEF Uids
    <3>2. CASE i \notin DOMAIN index
      BY <1>9, <3>2
    <3> QED
      BY <3>1, <3>2
  <2> QED
    BY <1>10, <2>2
<1>12. ASSUME NEW m \in Cur PROVE m \in Uids'
  <2>1. CASE m \in Uids
    <3>1. PICK i \in DOMAIN index : m = index[i].uid
      BY <2>1 DEF Uids
    <3> QED
      BY <1>3, <1>10, <3>1
  <2>2. CASE m \notin Uids
    <3>1. PICK k \in DOMAIN listing : listing[k].uid = m
      BY <1>8
    <3>2. k \in NewOnes
      BY <2>2, <3>1 DEF NewOnes
    <3> QED
      BY <1>3, <1>10, <3>1, <3>2
  <2> QED
    BY <2>1, <2>2
<1>13. DirInv'
  BY <1>1, <1>2, <1>11 DEF DirInv
<1>14. ScanInv'
  BY <1>1, <1>2, <1>9, <1>12 DEF ScanInv
<1> QED
  BY <1>13, <1>14

\* The update makes the names and flags of what was there before right.
LEMMA AgreeUpdate ==
    ASSUME SafeInv, AgreeInv, Update
    PROVE  AgreeInv'
<1>1. UNCHANGED <<loc, flags, op, touched>> /\ pc = "update" /\ pc' = "idle"
  BY DEF Update
<1>2. Cur' = Cur
  BY <1>1 DEF Cur
<1>3. /\ DOMAIN index' = DOMAIN index
      /\ \A i \in DOMAIN index : index'[i].uid = index[i].uid
      /\ \A i \in todo : index'[i].name = Filename(i) /\ index'[i].flags = Filename(i)
      /\ \A i \in DOMAIN index \ todo : index'[i] = index[i]
  BY UpdateProperties DEF SafeInv
<1>4. Uids' = Uids
  BY <1>3 DEF Uids
<1>0. ~touched => There' = Cur /\ There = Cur
  BY <1>1 DEF There, Cur, AgreeInv, NewInv, SafeInv, TypeInv, Types
<1>5. ASSUME ~touched', op' \in {"open", "refresh"} PROVE Agree'
  <2>1. Uids = Cur
    BY <1>1, <1>5 DEF AgreeInv, DirInv, ScanInv
  <2>2. ASSUME NEW i \in DOMAIN index
        PROVE  index'[i].name = flags[index[i].uid] /\ index'[i].flags = flags[index[i].uid]
    <3>1. CASE i \in todo
      BY <1>3, <2>1, <3>1 DEF Filename, Uids
    <3>2. CASE i \notin todo
      BY <1>1, <1>3, <1>5, <3>2 DEF AgreeInv, ScanInv
    <3> QED
      BY <3>1, <3>2
  <2> QED
    BY <1>0, <1>1, <1>3, <1>4, <1>5, <2>1, <2>2 DEF Agree
<1>6. ASSUME ~touched' PROVE There' \subseteq Uids'
  BY <1>0, <1>1, <1>4, <1>6 DEF AgreeInv, ScanInv
<1>7. RefreshAgrees'
  BY <1>5, <1>6 DEF RefreshAgrees
<1>8. LoopInv' /\ StatInv' /\ DirInv' /\ NewInv' /\ CurInv' /\ ScanInv'
  BY <1>1 DEF LoopInv, StatInv, DirInv, NewInv, CurInv, ScanInv
<1> QED
  BY <1>7, <1>8 DEF AgreeInv

LEMMA NextAgree == SafeInv /\ ReadInv /\ AgreeInv /\ [Next]_vars => AgreeInv'
<1> SUFFICES ASSUME SafeInv, ReadInv, AgreeInv, [Next]_vars PROVE AgreeInv'
  OBVIOUS
<1>1. CASE Requests
  BY <1>1, AgreeRequest
<1>2. CASE Driver
  BY <1>2, AgreeRename, AgreeFind, AgreeUnlink, AgreeStat, AgreeEnd, AgreeRead, AgreeAdd, AgreeUpdate
     DEF Driver
<1>3. ASSUME NEW m \in Msgs,
             \/ Deliver(m) \/ OtherMoves(m) \/ OtherRemoves(m)
             \/ \E f \in Flags : OtherFlags(m, f)
      PROVE  AgreeInv'
  BY <1>3, AgreeOther
<1>4. CASE UNCHANGED vars
  <2>1. UNCHANGED <<loc, flags, index, pc, op, todo, fn, dirent, listing, touched>>
    BY <1>4 DEF vars
  <2>2. /\ Cur' = Cur /\ Uids' = Uids /\ There' = There
        /\ \A i : (Last(i)' <=> Last(i)) /\ Filename(i)' = Filename(i)
    BY <2>1 DEF Cur, There, Uids, Last, Filename
  <2>3. LoopInv' /\ StatInv'
    BY <2>1, <2>2 DEF AgreeInv, LoopInv, StatInv
  <2>4. DirInv' /\ NewInv' /\ CurInv' /\ ScanInv'
    BY <2>1, <2>2 DEF AgreeInv, DirInv, NewInv, CurInv, ScanInv
  <2>5. RefreshAgrees'
    BY <2>1, <2>2 DEF AgreeInv, RefreshAgrees, Agree
  <2> QED
    BY <2>3, <2>4, <2>5 DEF AgreeInv
<1> QED
  BY <1>1, <1>2, <1>3, <1>4 DEF Next

\* A step of the driver is not counted as one of another program.
LEMMA NextOther == OtherInv /\ [Next]_vars => OtherInv' /\ (other' = other => [Requests \/ Driver]_vars)
<1> SUFFICES ASSUME OtherInv, [Next]_vars
             PROVE  OtherInv' /\ (other' = other => [Requests \/ Driver]_vars)
  OBVIOUS
<1>1. CASE Requests
  BY <1>1 DEF OtherInv, Requests, Mark, Remove, Expunge, Refresh, CheckNewMail
<1>2. CASE Driver
  BY <1>2 DEF OtherInv, Driver, Rename, Find, Unlink, Stat, Removed, Found, GetNew, GotNew,
              Read, AddNew, ScanDone, Update
<1>3. ASSUME NEW m \in Msgs,
             \/ Deliver(m) \/ OtherMoves(m) \/ OtherRemoves(m)
             \/ \E f \in Flags : OtherFlags(m, f)
      PROVE  OtherInv' /\ other' # other
  <2>1. other' = other + 1
    BY <1>3 DEF Deliver, OtherMoves, OtherRemoves, OtherFlags, Others
  <2> QED
    BY <2>1 DEF OtherInv
<1>4. CASE UNCHANGED vars
  BY <1>4 DEF vars, OtherInv
<1> QED
  BY <1>1, <1>2, <1>3, <1>4 DEF Next

LEMMA NextIInv == IInv /\ [Next]_vars => IInv'
  BY SafeNext, NextRead, NextAgree, NextOther DEF IInv

LEMMA IInvHolds == Spec => []IInv
  BY InitIInv, NextIInv, PTL DEF Spec

-----------------------------------------------------------------------------
(* The theorems.                                                           *)

\* Every variable has its type: the numbers the driver keeps between two system
\* calls are always numbers of messages in the index.
THEOREM TypeCorrect == Spec => []TypeOK
<1>1. IInv => TypeOK
  <2> SUFFICES ASSUME IInv PROVE TypeOK
    OBVIOUS
  <2>1. /\ listing \in Seq(Entry) /\ raced \subseteq Msgs
        /\ dirent \in [Msgs -> {"due", "may", "done"}]
        /\ \A m \in Msgs : dirent[m] # "done" => Reads(m)
    BY DEF IInv, ReadInv, DirentInv, ListInv
  <2>2. \A i \in DOMAIN listing : listing[i] \in Entry
    BY <2>1, LenProperties, ElementOfSeq
  <2>3. Types
    BY DEF IInv, SafeInv, TypeInv
  <2> QED
    BY <2>1, <2>2, <2>3 DEF Types, TypeOK, Entry
<1> QED
  BY <1>1, IInvHolds, PTL

\* A message is in the index twice only if others renamed its file while cur was
\* read, when it was entered: also then the scan enters no message that is in the
\* index, and nothing that others do between the other steps of the driver makes
\* it enter one twice.  (scan, checkNewMail, updateFolderIndexInfo.)
THEOREM IndexUnique == Spec => []UidsUnique
<1>1. IInv => UidsUnique
  BY DEF IInv, SafeInv
<1> QED
  BY <1>1, IInvHolds, PTL

\* A refresh that nobody interferes with leaves the index and the folder the
\* same.  (updateFolderIndexInfo, checkNewMail, maildir_getnew.)
THEOREM RefreshRight == Spec => []RefreshAgrees
<1>1. IInv => RefreshAgrees
  BY DEF IInv, AgreeInv
<1> QED
  BY <1>1, IInvHolds, PTL

\* The driver removes only what somebody wanted removed.  (removeMessages,
\* updateFolderIndexInfo, getfilename.)
THEOREM RemovalAsked == Spec => RemovesAsked
<1>1. ASSUME IInv, [Next]_vars, NEW m \in Msgs,
             pc = "unlink", loc[m] = "cur", loc'[m] = "gone", other' = other
      PROVE  m \in asked
  <2>1. Requests \/ Driver
    BY <1>1, NextOther DEF IInv, vars
  <2>2. PICK i \in todo : Unlink(i)
    BY <1>1, <2>1 DEF Requests, Mark, Remove, Expunge, Refresh, CheckNewMail, Begin,
                      Driver, Rename, Find, Stat, Removed, Found, GetNew, GotNew, Read,
                      AddNew, ScanDone, Update
  <2>3. Last(i) /\ index[i].uid = m
    BY <1>1, <2>2 DEF Unlink, IInv, SafeInv, TypeInv, Types
  <2>4. i \in DOMAIN index /\ op \in {"remove", "expunge"}
    BY <1>1 DEF IInv, SafeInv, TypeInv, Types, OpInv
  <2>5. CASE op = "remove"
    BY <1>1, <2>3, <2>5 DEF IInv, SafeInv, RemoveInv
  <2>6. CASE op = "expunge"
    BY <1>1, <2>3, <2>4, <2>6 DEF IInv, SafeInv, RemoveInv, MarkInv
  <2> QED
    BY <2>4, <2>5, <2>6
<1>2. IInv /\ [Next]_vars =>
        [\A m \in Msgs : pc = "unlink" /\ loc[m] = "cur" /\ loc'[m] = "gone" /\ other' = other
            => m \in asked]_vars
  BY <1>1
<1> QED
  BY <1>2, IInvHolds, PTL DEF Spec, RemovesAsked
=============================================================================
