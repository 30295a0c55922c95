----------------------------- MODULE Pop3Proofs -----------------------------
(***************************************************************************)
(* Proofs about Pop3, for any requests, messages and number of sessions:   *)
(* the callback of a request is handed on and called once; and, if the     *)
(* server does not refuse LIST or UIDL, a message number is sent in the    *)
(* session it belongs to.                                                  *)
(***************************************************************************)
EXTENDS Pop3, FiniteSetTheorems, SequenceTheorems, TLAPS

NMsgs == Cardinality(Msgs)

\* The tasks that need a session, and all of them; NOOP is nobody's request.
SessionKinds == {"check", "update", "read", "noop"}
Tasks ==
    {t \in [kind : SessionKinds \cup {"login", "logout"}, req : All \cup {NoReq},
            for : SessionKinds \cup {"none"}] :
        /\ t.kind = "login" => t.for \in SessionKinds
        /\ t.req = NoReq => t.kind = "noop" \/ (t.kind = "login" /\ t.for = "noop")}

Entry == [uid : Msgs, deleted : BOOLEAN]

\* Mailboxes, in which no message is twice; and lists of their numbers.
Boxes == {s \in Seq(Msgs) : \A i, j \in DOMAIN s : s[i] = s[j] => i = j}
Numbers ==
    {f \in UNION {[ms -> 1..NMsgs] : ms \in SUBSET Msgs} :
        \A m1, m2 \in DOMAIN f : f[m1] = f[m2] => m1 = m2}

Overs == {"no", "closed", "gone", "abandoned", "crashed"}

QueueInv ==
    /\ tasks \in Seq(Tasks) /\ run \in BOOLEAN
    /\ run => tasks # <<>>
    /\ late \in All \cup {NoReq}
    /\ over \in Overs

\* What a request keeps besides its task.
RequestInv ==
    /\ asked \in [All -> Kinds \cup {"check", "no"}]
    /\ want \in [All -> SUBSET Msgs]
    /\ \A r \in All, m1, m2 \in Msgs : m1 \in want[r] /\ m2 \in want[r] => m1 = m2
    /\ at \in [All -> 1..(NMsgs + 1)]

\* No message is twice in the index or in a mailbox.
ListsInv ==
    /\ index \in Seq(Entry)
    /\ \A i, j \in 1..Len(index) : index[i].uid = index[j].uid => i = j
    /\ uidl \in Numbers
    /\ box \in Boxes
    /\ sess \in [auth : BOOLEAN, nums : Boxes, dele : SUBSET Nat]

Commands == {"greeting", "auth", "list", "uidl", "dele", "retr", "noop", "quit"}

\* A reply is awaited on a connection, by a task that is installed: the one that
\* sent the command, unless a check was put before it.  A connection has no session
\* before the client is let in.
LineInv ==
    /\ cmd \in {NoCmd} \cup [name : Commands, n : Nat]
    /\ cmd # NoCmd => fd /\ ~run /\ tasks # <<>>
    /\ cmd.name \in {"greeting", "auth", "list", "uidl"} => Head(tasks).kind \in {"check", "login"}
    /\ cmd.name = "dele" => Head(tasks).kind \in {"check", "update"}
    /\ cmd.name = "quit" => Head(tasks).kind \in {"check", "logout"}
    /\ ~fd \/ cmd.name \in {"greeting", "auth"} => sess = NoSess

TypeInv == QueueInv /\ RequestInv /\ ListsInv /\ LineInv

\* The requests that were made and not answered.
Open == {r \in All : asked[r] # "no" /\ answers[r] = 0}

\* The queue q has one task for each request in rs, and none for others.
PlacedIn(q, rs) ==
    /\ \A i \in 1..Len(q) : q[i].req \in rs \cup {NoReq}
    /\ \A i, j \in 1..Len(q) : q[i].req = q[j].req /\ q[i].req # NoReq => i = j
    /\ \A r \in rs : \E i \in 1..Len(q) : q[i].req = r

OwnerInv ==
    /\ answers \in [All -> {0, 1}]
    /\ \A r \in All : asked[r] = "no" => answers[r] = 0
    /\ late \in Open \cup {NoReq}
    /\ PlacedIn(tasks, Open \ {late})

\* The numbers the client knows are those of the session, ...
Fresh ==
    \A m \in DOMAIN uidl : uidl[m] \in DOMAIN sess.nums /\ sess.nums[uidl[m]] = m

\* ... but while a login has not listed them yet, and behind a check that was
\* never installed: that one holds up the queue until the connection is lost.
Pending ==
    /\ ~run /\ tasks # <<>>
    /\ cmd.name \in {"list", "uidl"} \/ Head(tasks).kind = "check"

FreshInv == sess.auth => Fresh \/ Pending

-----------------------------------------------------------------------------
(* Members in the order of their ranks.                                    *)

\* How many members have lower ranks tells a member from the others.
LEMMA BelowCount ==
    ASSUME NEW n \in Nat, NEW S, NEW rank \in Injection(S, 1..n)
    PROVE  /\ IsFiniteSet(S) /\ Cardinality(S) \in Nat /\ Cardinality(S) <= n
           /\ \A x \in S : Cardinality({y \in S : rank[y] < rank[x]}) \in 0..(Cardinality(S) - 1)
           /\ \A x, z \in S :
                Cardinality({y \in S : rank[y] < rank[x]}) = Cardinality({y \in S : rank[y] < rank[z]})
                => x = z
<1> DEFINE below(x) == {y \in S : rank[y] < rank[x]}
<1>1. /\ rank \in [S -> 1..n]
      /\ \A x, y \in S : rank[x] = rank[y] => x = y
      /\ \A x \in S : rank[x] \in Nat
  BY DEF Injection, IsInjective
<1>2. IsFiniteSet(S) /\ Cardinality(S) \in Nat /\ Cardinality(S) <= n
  <2>1. IsFiniteSet(1..n) /\ Cardinality(1..n) = n
    BY FS_Interval
  <2> QED
    BY <2>1, FS_Injection, FS_CardinalityType
<1>3. \A x \in S : below(x) \in SUBSET S /\ x \notin below(x)
  <2>1. \A x \in S : ~(rank[x] < rank[x])
    BY <1>1
  <2> QED
    BY <2>1
<1>4. \A x, z \in S : rank[x] < rank[z] => below(x) \in SUBSET below(z) /\ x \in below(z)
  <2>1. \A x, y, z \in S : rank[x] < rank[z] /\ rank[y] < rank[x] => rank[y] < rank[z]
    BY <1>1
  <2> QED
    BY <2>1
<1> HIDE DEF below
<1>5. \A x \in S : IsFiniteSet(below(x)) /\ Cardinality(below(x)) \in Nat
  BY <1>2, <1>3, FS_Subset, FS_CardinalityType
<1>6. ASSUME NEW x \in S PROVE Cardinality(below(x)) \in 0..(Cardinality(S) - 1)
  <2>1. Cardinality(below(x)) <= Cardinality(S) /\ Cardinality(below(x)) # Cardinality(S)
    BY <1>2, <1>3, FS_Subset
  <2> QED
    BY <1>2, <1>5, <2>1
<1>7. ASSUME NEW x \in S, NEW z \in S, rank[x] < rank[z]
      PROVE  Cardinality(below(x)) # Cardinality(below(z))
  <2>1. below(x) # below(z)
    BY <1>3, <1>4, <1>7
  <2> QED
    BY <1>4, <1>5, <1>7, <2>1, FS_Subset
<1>8. ASSUME NEW x \in S, NEW z \in S, Cardinality(below(x)) = Cardinality(below(z))
      PROVE  x = z
  <2>1. ~(rank[x] < rank[z]) /\ ~(rank[z] < rank[x])
    BY <1>7, <1>8
  <2>2. rank[x] = rank[z]
    BY <1>1, <2>1
  <2> QED
    BY <1>1, <2>2
<1> QED
  BY <1>2, <1>6, <1>8 DEF below

\* Nth enumerates the set.
LEMMA NthProperties ==
    ASSUME NEW n \in Nat, NEW S, NEW rank \in Injection(S, 1..n)
    PROVE  /\ \A k \in 1..Cardinality(S) : Nth(S, rank, k) \in S
           /\ \A k, l \in 1..Cardinality(S) : Nth(S, rank, k) = Nth(S, rank, l) => k = l
           /\ \A x \in S : \E k \in 1..Cardinality(S) : Nth(S, rank, k) = x
<1> DEFINE N == Cardinality(S)
           below(x) == Cardinality({y \in S : rank[y] < rank[x]})
           cnt == [x \in S |-> below(x) + 1]
<1>1. /\ IsFiniteSet(S) /\ N \in Nat
      /\ \A x \in S : below(x) \in 0..(N - 1)
      /\ \A x, z \in S : below(x) = below(z) => x = z
  BY BelowCount
<1>2. \A k : Nth(S, rank, k) = CHOOSE x \in S : below(x) = k - 1
  BY DEF Nth
<1> HIDE DEF below, N
<1>3. cnt \in Injection(S, 1..N)
  <2>1. cnt \in [S -> 1..N]
    BY <1>1
  <2>2. \A x, z \in S : cnt[x] = cnt[z] => x = z
    BY <1>1
  <2> QED
    BY <2>1, <2>2 DEF Injection, IsInjective
<1>4. cnt \in Surjection(S, 1..N)
  <2>1. IsFiniteSet(1..N) /\ Cardinality(1..N) = N
    BY <1>1, FS_Interval
  <2>2. N = Cardinality(S)
    BY DEF N
  <2> HIDE DEF cnt
  <2> QED
    BY <1>1, <1>3, <2>1, <2>2, FS_Injection
<1>5. \A x \in S, k \in 1..N : cnt[x] = k <=> below(x) = k - 1
  BY <1>1
<1> HIDE DEF cnt
<1>6. \A k \in 1..N : Nth(S, rank, k) \in S /\ cnt[Nth(S, rank, k)] = k
  <2>1. SUFFICES ASSUME NEW k \in 1..N PROVE Nth(S, rank, k) \in S /\ cnt[Nth(S, rank, k)] = k
    OBVIOUS
  <2>2. \E x \in S : below(x) = k - 1
    BY <1>4, <1>5 DEF Surjection
  <2>3. Nth(S, rank, k) \in S /\ below(Nth(S, rank, k)) = k - 1
    BY <1>2, <2>2
  <2> QED
    BY <1>5, <2>3
<1>7. \A x \in S : cnt[x] \in 1..N /\ Nth(S, rank, cnt[x]) = x
  BY <1>3, <1>6 DEF Injection, IsInjective
<1> QED
  BY <1>6, <1>7 DEF N

\* The place in Select(s, ns) comes from this position of s.
From(ns, k) == Nth(ns, [n \in ns |-> n], k)

\* Select gives each position a place, and no place to two of them.
LEMMA SelectProperties ==
    ASSUME NEW S, NEW s \in Seq(S), NEW ns \in SUBSET (1..Len(s))
    PROVE  /\ Select(s, ns) \in Seq(S)
           /\ \A k \in 1..Len(Select(s, ns)) :
                From(ns, k) \in ns /\ Select(s, ns)[k] = s[From(ns, k)]
           /\ \A k, l \in 1..Len(Select(s, ns)) : From(ns, k) = From(ns, l) => k = l
           /\ \A i \in ns : \E k \in 1..Len(Select(s, ns)) : From(ns, k) = i
<1>1. Len(s) \in Nat /\ \A i \in 1..Len(s) : s[i] \in S
  BY LenProperties, ElementOfSeq
<1> DEFINE N == Cardinality(ns)
           rank == [n \in ns |-> n]
<1>2. rank \in Injection(ns, 1..Len(s))
  BY DEF Injection, IsInjective
<1>3. \A k : From(ns, k) = Nth(ns, rank, k)
  BY DEF From
<1>4. Select(s, ns) = [k \in 1..N |-> s[From(ns, k)]]
  BY DEF Select, From
<1> HIDE DEF rank
<1>5. /\ N \in Nat
      /\ \A k \in 1..N : From(ns, k) \in ns
      /\ \A k, l \in 1..N : From(ns, k) = From(ns, l) => k = l
      /\ \A i \in ns : \E k \in 1..N : From(ns, k) = i
  <2>1. /\ Cardinality(ns) \in Nat
        /\ \A k \in 1..Cardinality(ns) : Nth(ns, rank, k) \in ns
        /\ \A k, l \in 1..Cardinality(ns) : Nth(ns, rank, k) = Nth(ns, rank, l) => k = l
        /\ \A i \in ns : \E k \in 1..Cardinality(ns) : Nth(ns, rank, k) = i
    BY <1>1, <1>2, NthProperties, BelowCount
  <2> QED
    BY <1>3, <2>1
<1> HIDE DEF N
<1>6. Select(s, ns) \in [1..N -> S]
  BY <1>1, <1>4, <1>5
<1>7. Select(s, ns) \in Seq(S) /\ Len(Select(s, ns)) = N
  BY <1>5, <1>6, SeqDef, LenProperties
<1> QED
  BY <1>4, <1>5, <1>7

-----------------------------------------------------------------------------
(* Mailboxes, the index, and message numbers.                              *)

LEMMA MsgsFinite == IsFiniteSet(Msgs) /\ NMsgs \in Nat
BY Pop3Assumption, FS_CardinalityType DEF NMsgs

\* No more messages than there are.
LEMMA NoMore ==
    ASSUME NEW n \in Nat, NEW f \in [1..n -> Msgs],
           \A i, j \in 1..n : f[i] = f[j] => i = j
    PROVE  n <= NMsgs
<1>1. f \in Injection(1..n, Msgs)
  BY DEF Injection, IsInjective
<1>2. Cardinality(1..n) = n
  BY FS_Interval
<1> QED
  BY <1>1, <1>2, MsgsFinite, FS_Injection DEF NMsgs

LEMMA BoxShort ==
    ASSUME NEW s \in Boxes
    PROVE  /\ s \in Seq(Msgs) /\ Len(s) \in Nat /\ Len(s) <= NMsgs /\ DOMAIN s = 1..Len(s)
           /\ \A i \in DOMAIN s : s[i] \in Msgs
<1>1. /\ s \in Seq(Msgs)
      /\ \A i, j \in DOMAIN s : s[i] = s[j] => i = j
  BY DEF Boxes
<1>2. Len(s) \in Nat /\ s \in [1..Len(s) -> Msgs] /\ DOMAIN s = 1..Len(s)
  BY <1>1, LenProperties
<1> QED
  BY <1>1, <1>2, NoMore

LEMMA BoxSelect ==
    ASSUME NEW s \in Boxes, NEW ns \in SUBSET DOMAIN s
    PROVE  Select(s, ns) \in Boxes
<1>1. /\ s \in Seq(Msgs) /\ DOMAIN s = 1..Len(s)
      /\ \A i, j \in DOMAIN s : s[i] = s[j] => i = j
  BY BoxShort DEF Boxes
<1> DEFINE t == Select(s, ns)
<1>2. /\ t \in Seq(Msgs)
      /\ \A k \in 1..Len(t) : From(ns, k) \in ns /\ t[k] = s[From(ns, k)]
      /\ \A k, l \in 1..Len(t) : From(ns, k) = From(ns, l) => k = l
  BY <1>1, SelectProperties
<1>3. DOMAIN t = 1..Len(t)
  BY <1>2, LenProperties
<1> HIDE DEF t
<1>4. \A k, l \in DOMAIN t : t[k] = t[l] => k = l
  BY <1>1, <1>2, <1>3
<1>5. t \in Boxes
  BY <1>2, <1>4 DEF Boxes
<1> QED
  BY <1>5 DEF t

\* The lists of the invariant, one at a time.
LEMMA IndexProperties ==
    ASSUME ListsInv
    PROVE  /\ index \in Seq(Entry) /\ Len(index) \in Nat /\ Len(index) <= NMsgs
           /\ DOMAIN index = 1..Len(index)
           /\ \A i \in 1..Len(index) :
                /\ index[i] \in Entry /\ index[i].uid \in Msgs
                /\ index[i].deleted \in BOOLEAN
           /\ \A i, j \in 1..Len(index) : index[i].uid = index[j].uid => i = j
<1>1. /\ index \in Seq(Entry)
      /\ \A i, j \in 1..Len(index) : index[i].uid = index[j].uid => i = j
  BY DEF ListsInv
<1>2. /\ Len(index) \in Nat /\ DOMAIN index = 1..Len(index)
      /\ \A i \in 1..Len(index) : index[i] \in Entry
  BY <1>1, LenProperties, ElementOfSeq
<1>3. \A i \in 1..Len(index) : index[i].uid \in Msgs /\ index[i].deleted \in BOOLEAN
  BY <1>2 DEF Entry
<1> DEFINE f == [i \in 1..Len(index) |-> index[i].uid]
<1>4. f \in [1..Len(index) -> Msgs] /\ \A i, j \in 1..Len(index) : f[i] = f[j] => i = j
  BY <1>1, <1>3
<1> HIDE DEF f
<1>5. Len(index) <= NMsgs
  BY <1>2, <1>4, NoMore
<1> QED
  BY <1>1, <1>2, <1>3, <1>5

LEMMA NumbersProperties ==
    ASSUME NEW f \in Numbers
    PROVE  /\ DOMAIN f \in SUBSET Msgs
           /\ \A m \in DOMAIN f : f[m] \in 1..NMsgs
           /\ f \in Injection(DOMAIN f, 1..NMsgs)
<1>1. PICK ms \in SUBSET Msgs : f \in [ms -> 1..NMsgs]
  BY DEF Numbers
<1>2. \A m1, m2 \in DOMAIN f : f[m1] = f[m2] => m1 = m2
  BY DEF Numbers
<1> QED
  BY <1>1, <1>2 DEF Injection, IsInjective

\* UIDL lists each message of the session under its number.
LEMMA ListedProperties ==
    ASSUME ListsInv
    PROVE  /\ Listed \in Numbers
           /\ \A m \in DOMAIN Listed :
                Listed[m] \in DOMAIN sess.nums /\ sess.nums[Listed[m]] = m
<1> DEFINE nums == sess.nums
           there == DOMAIN nums \ sess.dele
           ms == {nums[n] : n \in there}
<1>1. nums \in Boxes
  BY DEF ListsInv
<1>2. Listed = [m \in ms |-> CHOOSE n \in there : nums[n] = m]
  BY DEF Listed
<1>3. /\ there \in SUBSET DOMAIN nums /\ DOMAIN nums = 1..Len(nums)
      /\ Len(nums) \in Nat /\ Len(nums) <= NMsgs
      /\ \A n \in DOMAIN nums : nums[n] \in Msgs
  <2> HIDE DEF nums
  <2> QED
    BY <1>1, BoxShort
<1>4. \A m \in ms : \E n \in there : nums[n] = m
  OBVIOUS
<1>5. ms \in SUBSET Msgs
  <2> HIDE DEF nums, there
  <2> QED
    BY <1>3
<1> HIDE DEF nums, there, ms
<1>6. DOMAIN Listed = ms /\ \A m \in ms : Listed[m] \in there /\ nums[Listed[m]] = m
  BY <1>2, <1>4
<1>7. \A n \in there : n \in 1..NMsgs
  BY <1>3, MsgsFinite
<1>8. Listed \in [ms -> 1..NMsgs]
  BY <1>2, <1>6, <1>7
<1>9. Listed \in Numbers
  BY <1>5, <1>6, <1>8 DEF Numbers
<1> QED
  BY <1>3, <1>6, <1>9 DEF nums

\* After the check the index has each message once, as before.
LEMMA ReconciledProperties ==
    ASSUME ListsInv
    PROVE  /\ Reconciled \in Seq(Entry)
           /\ \A i, j \in 1..Len(Reconciled) : Reconciled[i].uid = Reconciled[j].uid => i = j
<1> DEFINE there == {i \in DOMAIN index : index[i].uid \in DOMAIN uidl}
           known == {index[i].uid : i \in DOMAIN index}
           new == DOMAIN uidl \ known
           s1 == Select(index, there)
           N == Cardinality(new)
           s2 == [k \in 1..N |-> [uid |-> Nth(new, uidl, k), deleted |-> FALSE]]
<1>1. Reconciled = s1 \o s2
  BY DEF Reconciled
<1>2. /\ index \in Seq(Entry) /\ DOMAIN index = 1..Len(index)
      /\ \A i, j \in 1..Len(index) : index[i].uid = index[j].uid => i = j
      /\ uidl \in Numbers
  BY IndexProperties DEF ListsInv
<1>3. /\ s1 \in Seq(Entry)
      /\ \A k \in 1..Len(s1) : From(there, k) \in there /\ s1[k] = index[From(there, k)]
      /\ \A k, l \in 1..Len(s1) : From(there, k) = From(there, l) => k = l
  <2>1. there \in SUBSET (1..Len(index))
    BY <1>2
  <2> HIDE DEF there
  <2> QED
    BY <1>2, <2>1, SelectProperties
<1>4. \A i \in there : i \in 1..Len(index) /\ index[i].uid \in known
  BY <1>2
<1>5. /\ N \in Nat
      /\ \A k \in 1..N : Nth(new, uidl, k) \in new
      /\ \A k, l \in 1..N : Nth(new, uidl, k) = Nth(new, uidl, l) => k = l
  <2>1. /\ new \in SUBSET DOMAIN uidl /\ uidl \in Injection(DOMAIN uidl, 1..NMsgs)
    BY <1>2, NumbersProperties
  <2> DEFINE rank == [m \in new |-> uidl[m]]
  <2>2. rank \in Injection(new, 1..NMsgs)
    <3> HIDE DEF new
    <3> QED
      BY <2>1 DEF Injection, IsInjective
  <2>3. \A k : Nth(new, uidl, k) = Nth(new, rank, k)
    <3>1. \A x \in new : {y \in new : uidl[y] < uidl[x]} = {y \in new : rank[y] < rank[x]}
      OBVIOUS
    <3> HIDE DEF new, rank
    <3> QED
      BY <3>1 DEF Nth
  <2> HIDE DEF new, rank
  <2>4. /\ Cardinality(new) \in Nat
        /\ \A k \in 1..Cardinality(new) : Nth(new, rank, k) \in new
        /\ \A k, l \in 1..Cardinality(new) : Nth(new, rank, k) = Nth(new, rank, l) => k = l
    BY <2>2, MsgsFinite, BelowCount, NthProperties
  <2> QED
    BY <2>3, <2>4
<1>6. \A m \in new : m \in Msgs /\ m \notin known
  BY <1>2, NumbersProperties
<1> HIDE DEF there, known, new, s1, N
<1>7. s2 \in [1..N -> Entry]
  BY <1>5, <1>6 DEF Entry
<1>8. s2 \in Seq(Entry) /\ Len(s2) = N
  <2> HIDE DEF s2
  <2> QED
    BY <1>5, <1>7, SeqDef, LenProperties
<1>9. \A k \in 1..N : s2[k].uid = Nth(new, uidl, k)
  OBVIOUS
<1> HIDE DEF s2
<1>10. Len(s1) \in Nat
  BY <1>3, LenProperties
<1>11. /\ s1 \o s2 \in Seq(Entry) /\ Len(s1 \o s2) = Len(s1) + N
       /\ \A i \in 1..(Len(s1) + N) :
            (s1 \o s2)[i] = IF i <= Len(s1) THEN s1[i] ELSE s2[i - Len(s1)]
  BY <1>3, <1>8, ConcatProperties
<1>12. \A k, l \in 1..Len(s1) : s1[k].uid = s1[l].uid => k = l
  <2>1. \A k, l \in 1..Len(s1) : s1[k].uid = s1[l].uid => From(there, k) = From(there, l)
    BY <1>2, <1>3, <1>4
  <2> QED
    BY <1>3, <2>1
<1>13. \A k \in 1..Len(s1), l \in 1..N : s1[k].uid # s2[l].uid
  BY <1>3, <1>4, <1>5, <1>6, <1>9
<1>14. \A k, l \in 1..N : s2[k].uid = s2[l].uid => k = l
  BY <1>5, <1>9
<1>15. ASSUME NEW i \in 1..(Len(s1) + N), NEW j \in 1..(Len(s1) + N),
              (s1 \o s2)[i].uid = (s1 \o s2)[j].uid
       PROVE  i = j
  <2>1. \A k \in 1..(Len(s1) + N) :
          \/ k \in 1..Len(s1) /\ (s1 \o s2)[k] = s1[k]
          \/ k - Len(s1) \in 1..N /\ (s1 \o s2)[k] = s2[k - Len(s1)]
    <3>1. ASSUME NEW k \in 1..(Len(s1) + N)
          PROVE  \/ k \in 1..Len(s1) /\ k <= Len(s1)
                 \/ k - Len(s1) \in 1..N /\ ~(k <= Len(s1))
      BY <1>5, <1>10
    <3> QED
      BY <1>11, <3>1
  <2>2. CASE i \in 1..Len(s1) /\ (s1 \o s2)[i] = s1[i]
    BY <1>12, <1>13, <1>15, <2>1, <2>2
  <2>3. CASE i - Len(s1) \in 1..N /\ (s1 \o s2)[i] = s2[i - Len(s1)]
    <3>1. \/ j \in 1..Len(s1) /\ (s1 \o s2)[j] = s1[j]
          \/ j - Len(s1) \in 1..N /\ (s1 \o s2)[j] = s2[j - Len(s1)]
      BY <2>1
    <3>2. j - Len(s1) \in 1..N /\ (s1 \o s2)[j] = s2[j - Len(s1)]
      BY <1>13, <1>15, <2>3, <3>1
    <3>3. i - Len(s1) = j - Len(s1)
      BY <1>14, <1>15, <2>3, <3>2
    <3> QED
      BY <1>5, <1>10, <3>3
  <2> QED
    BY <2>1, <2>2, <2>3
<1> QED
  BY <1>1, <1>11, <1>15

-----------------------------------------------------------------------------
(* The queue.                                                              *)

LEMMA TaskProperties ==
    /\ \A t \in Tasks : /\ t.req \in All \cup {NoReq}
                        /\ t.kind \in {"check", "update", "read", "logout"} => t.req \in All
    /\ \A k \in {"check", "update", "read", "logout"}, r \in All :
         Task(k, r) \in Tasks /\ Task(k, r).req = r
    /\ \A r \in All : LogoutThenCheck(r) \in Tasks /\ LogoutThenCheck(r).req = r
    /\ Task("noop", NoReq) \in Tasks /\ Task("noop", NoReq).req = NoReq
    /\ \A t \in Tasks : t.kind \in SessionKinds => LoginFor(t) \in Tasks /\ LoginFor(t).req = t.req
    /\ \A t \in Tasks : t.kind = "login" =>
         Task(t.for, t.req) \in Tasks /\ Task(t.for, t.req).req = t.req
<1>1. NoReq \notin All
  BY Pop3Assumption DEF All
<1>2. \A t \in Tasks : /\ t.req \in All \cup {NoReq}
                       /\ t.kind \in {"check", "update", "read", "logout"} => t.req \in All
  BY DEF Tasks
<1>3. \A k \in {"check", "update", "read", "logout"}, r \in All :
         Task(k, r) \in Tasks /\ Task(k, r).req = r
  BY <1>1 DEF Tasks, Task, SessionKinds
<1>4. \A r \in All : LogoutThenCheck(r) \in Tasks /\ LogoutThenCheck(r).req = r
  BY <1>1 DEF Tasks, LogoutThenCheck, SessionKinds
<1>5. Task("noop", NoReq) \in Tasks /\ Task("noop", NoReq).req = NoReq
  BY DEF Tasks, Task, SessionKinds
<1>6. \A t \in Tasks : t.kind \in SessionKinds => LoginFor(t) \in Tasks /\ LoginFor(t).req = t.req
  BY DEF Tasks, LoginFor, SessionKinds
<1>7. \A t \in Tasks : t.kind = "login" =>
         Task(t.for, t.req) \in Tasks /\ Task(t.for, t.req).req = t.req
  BY DEF Tasks, Task, SessionKinds
<1> QED
  BY <1>2, <1>3, <1>4, <1>5, <1>6, <1>7

LEMMA HeadProperties ==
    ASSUME NEW q \in Seq(Tasks), q # <<>>
    PROVE  /\ Head(q) = q[1] /\ Head(q) \in Tasks /\ Tail(q) \in Seq(Tasks)
           /\ Len(q) \in Nat /\ 1 \in 1..Len(q) /\ DOMAIN q = 1..Len(q)
           /\ Len(Tail(q)) = Len(q) - 1
           /\ \A i \in 1..Len(Tail(q)) : Tail(q)[i] = q[i + 1]
           /\ \A i \in 1..Len(q) : i = 1 \/ (i - 1 \in 1..Len(Tail(q)) /\ q[i] = Tail(q)[i - 1])
<1>1. Len(q) \in Nat \ {0} /\ DOMAIN q = 1..Len(q)
  BY EmptySeq, LenProperties
<1>2. /\ Head(q) \in Tasks /\ Tail(q) \in Seq(Tasks) /\ Len(Tail(q)) = Len(q) - 1
      /\ \A i \in 1..Len(Tail(q)) : Tail(q)[i] = q[i + 1]
  BY HeadTailProperties
<1>3. Head(q) = q[1]
  BY <1>1
<1>4. ASSUME NEW i \in 1..Len(q), i # 1
      PROVE  i - 1 \in 1..Len(Tail(q)) /\ q[i] = Tail(q)[i - 1]
  <2>1. i - 1 \in 1..Len(Tail(q)) /\ (i - 1) + 1 = i
    BY <1>1, <1>2, <1>4
  <2>2. Tail(q)[i - 1] = q[(i - 1) + 1]
    BY <1>2, <2>1
  <2> QED
    BY <2>1, <2>2
<1> QED
  BY <1>1, <1>2, <1>3, <1>4

LEMMA PlacedEmpty == <<>> \in Seq(Tasks) /\ PlacedIn(<<>>, {})
<1>1. <<>> \in Seq(Tasks) /\ Len(<<>>) = 0
  BY EmptySeq
<1> QED
  BY <1>1 DEF PlacedIn

\* A task for another request, at the end.
LEMMA PlacedAppend ==
    ASSUME NEW q \in Seq(Tasks), NEW rs, NEW t \in Tasks, PlacedIn(q, rs), t.req \notin rs
    PROVE  /\ Append(q, t) \in Seq(Tasks) /\ Append(q, t) # <<>>
           /\ PlacedIn(Append(q, t), rs \cup ({t.req} \ {NoReq}))
<1> DEFINE p == Append(q, t)
<1>1. /\ p \in Seq(Tasks) /\ p # <<>> /\ Len(p) = Len(q) + 1 /\ Len(q) \in Nat
      /\ \A i \in 1..Len(q) : p[i] = q[i]
      /\ p[Len(q) + 1] = t
  BY AppendProperties, LenProperties
<1> HIDE DEF p
<1>2. /\ \A i \in 1..Len(p) : i \in 1..Len(q) \/ i = Len(q) + 1
      /\ \A i \in 1..Len(q) : i \in 1..Len(p)
      /\ Len(q) + 1 \in 1..Len(p)
  BY <1>1
<1>3. /\ \A i \in 1..Len(q) : q[i].req \in rs \cup {NoReq}
      /\ \A i, j \in 1..Len(q) : q[i].req = q[j].req /\ q[i].req # NoReq => i = j
      /\ \A r \in rs : \E i \in 1..Len(q) : q[i].req = r
  BY DEF PlacedIn
<1>4. \A i \in 1..Len(p) : p[i].req \in (rs \cup ({t.req} \ {NoReq})) \cup {NoReq}
  BY <1>1, <1>2, <1>3
<1>5. \A i, j \in 1..Len(p) : p[i].req = p[j].req /\ p[i].req # NoReq => i = j
  BY <1>1, <1>2, <1>3
<1>6. \A r \in rs \cup ({t.req} \ {NoReq}) : \E i \in 1..Len(p) : p[i].req = r
  BY <1>1, <1>2, <1>3
<1>7. PlacedIn(p, rs \cup ({t.req} \ {NoReq}))
  BY <1>4, <1>5, <1>6 DEF PlacedIn
<1> QED
  BY <1>1, <1>7 DEF p

\* The first task goes.
LEMMA PlacedTail ==
    ASSUME NEW q \in Seq(Tasks), NEW rs, PlacedIn(q, rs), q # <<>>
    PROVE  /\ Tail(q) \in Seq(Tasks) /\ Head(q) \in Tasks
           /\ Head(q).req \in rs \cup {NoReq}
           /\ PlacedIn(Tail(q), rs \ {Head(q).req})
<1> DEFINE p == Tail(q)
           h == Head(q)
<1>1. /\ h = q[1] /\ h \in Tasks /\ p \in Seq(Tasks)
      /\ Len(q) \in Nat /\ 1 \in 1..Len(q) /\ Len(p) = Len(q) - 1
      /\ \A i \in 1..Len(p) : p[i] = q[i + 1]
      /\ \A i \in 1..Len(q) : i = 1 \/ (i - 1 \in 1..Len(p) /\ q[i] = p[i - 1])
  BY HeadProperties
<1> HIDE DEF p, h
<1>2. \A i \in 1..Len(p) : i \in Nat /\ i + 1 \in 1..Len(q) /\ i + 1 # 1
  BY <1>1
<1>3. /\ \A i \in 1..Len(q) : q[i].req \in rs \cup {NoReq}
      /\ \A i, j \in 1..Len(q) : q[i].req = q[j].req /\ q[i].req # NoReq => i = j
      /\ \A r \in rs : \E i \in 1..Len(q) : q[i].req = r
  BY DEF PlacedIn
<1>4. \A i \in 1..Len(p) : p[i].req \in (rs \ {h.req}) \cup {NoReq}
  BY <1>1, <1>2, <1>3
<1>5. \A i, j \in 1..Len(p) : p[i].req = p[j].req /\ p[i].req # NoReq => i = j
  <2>1. \A i, j \in 1..Len(p) : p[i].req = p[j].req /\ p[i].req # NoReq => i + 1 = j + 1
    BY <1>1, <1>2, <1>3
  <2> QED
    BY <1>2, <2>1
<1>6. \A r \in rs \ {h.req} : \E i \in 1..Len(p) : p[i].req = r
  BY <1>1, <1>3
<1>7. PlacedIn(p, rs \ {h.req})
  BY <1>4, <1>5, <1>6 DEF PlacedIn
<1> QED
  BY <1>1, <1>3, <1>7 DEF p, h

\* A task for another request, in front.
LEMMA PlacedFirst ==
    ASSUME NEW q \in Seq(Tasks), NEW rs, NEW t \in Tasks, PlacedIn(q, rs),
           t.req \notin rs \cup {NoReq}
    PROVE  /\ <<t>> \o q \in Seq(Tasks) /\ <<t>> \o q # <<>> /\ Head(<<t>> \o q) = t
           /\ PlacedIn(<<t>> \o q, rs \cup {t.req})
<1> DEFINE p == <<t>> \o q
<1>1. <<t>> \in Seq(Tasks) /\ Len(<<t>>) = 1 /\ <<t>>[1] = t /\ Len(q) \in Nat
  BY LenProperties
<1>2. /\ p \in Seq(Tasks) /\ Len(p) = 1 + Len(q)
      /\ \A i \in 1..(1 + Len(q)) : p[i] = IF i <= 1 THEN <<t>>[i] ELSE q[i - 1]
  BY <1>1, ConcatProperties
<1> HIDE DEF p
<1>3. /\ 1 \in 1..Len(p) /\ p[1] = t
      /\ \A i \in 1..Len(q) : i + 1 \in 1..Len(p) /\ p[i + 1] = q[i]
      /\ \A i \in 1..Len(p) : i = 1 \/ (i - 1 \in 1..Len(q) /\ p[i] = q[i - 1])
  <2>1. ASSUME NEW i \in 1..Len(q) PROVE i + 1 \in 1..Len(p) /\ p[i + 1] = q[i]
    BY <1>1, <1>2
  <2>2. ASSUME NEW i \in 1..Len(p), i # 1 PROVE i - 1 \in 1..Len(q) /\ p[i] = q[i - 1]
    BY <1>1, <1>2, <2>2
  <2>3. 1 \in 1..Len(p) /\ p[1] = t
    BY <1>1, <1>2
  <2> QED
    BY <2>1, <2>2, <2>3
<1>4. /\ \A i \in 1..Len(q) : q[i].req \in rs \cup {NoReq}
      /\ \A i, j \in 1..Len(q) : q[i].req = q[j].req /\ q[i].req # NoReq => i = j
      /\ \A r \in rs : \E i \in 1..Len(q) : q[i].req = r
  BY DEF PlacedIn
<1>5. \A i \in 1..Len(p) : p[i].req \in (rs \cup {t.req}) \cup {NoReq}
  BY <1>3, <1>4
<1>6. ASSUME NEW i \in 1..Len(p), NEW j \in 1..Len(p), p[i].req = p[j].req, p[i].req # NoReq
      PROVE  i = j
  <2>1. i = 1 <=> j = 1
    <3>1. \A k \in 1..Len(p) : k # 1 => p[k].req \in rs \cup {NoReq}
      BY <1>3, <1>4
    <3>2. p[1].req \notin rs \cup {NoReq}
      BY <1>3
    <3> QED
      BY <1>6, <3>1, <3>2
  <2>2. ASSUME i # 1 PROVE i - 1 = j - 1
    <3>1. /\ i - 1 \in 1..Len(q) /\ p[i] = q[i - 1]
          /\ j - 1 \in 1..Len(q) /\ p[j] = q[j - 1]
      BY <1>3, <2>1, <2>2
    <3> DEFINE k == i - 1
               l == j - 1
    <3>2. q[k].req = q[l].req /\ q[k].req # NoReq /\ k \in 1..Len(q) /\ l \in 1..Len(q)
      BY <1>6, <3>1
    <3> HIDE DEF k, l
    <3>3. k = l
      BY <1>4, <3>2
    <3> QED
      BY <3>3 DEF k, l
  <2>3. i \in Nat /\ j \in Nat
    BY <1>1, <1>2
  <2> QED
    BY <2>1, <2>2, <2>3
<1>7. \A r \in rs \cup {t.req} : \E i \in 1..Len(p) : p[i].req = r
  BY <1>3, <1>4
<1>8. PlacedIn(p, rs \cup {t.req})
  BY <1>5, <1>6, <1>7 DEF PlacedIn
<1>9. p # <<>> /\ Head(p) = t
  <2>1. p # <<>>
    BY <1>1, <1>2, EmptySeq
  <2> QED
    BY <1>2, <1>3, <2>1, HeadProperties
<1> QED
  BY <1>2, <1>8, <1>9 DEF p

\* The first task makes way for another one of the same request, in front or at
\* the end.
LEMMA PlacedInstead ==
    ASSUME NEW q \in Seq(Tasks), NEW rs, NEW t \in Tasks, PlacedIn(q, rs), q # <<>>,
           NoReq \notin rs, t.req = Head(q).req
    PROVE  /\ Append(Tail(q), t) \in Seq(Tasks) /\ Append(Tail(q), t) # <<>>
           /\ PlacedIn(Append(Tail(q), t), rs)
           /\ t.req # NoReq => /\ <<t>> \o Tail(q) \in Seq(Tasks) /\ <<t>> \o Tail(q) # <<>>
                               /\ Head(<<t>> \o Tail(q)) = t
                               /\ PlacedIn(<<t>> \o Tail(q), rs)
<1> DEFINE p == Tail(q)
           rest == rs \ {t.req}
<1>1. p \in Seq(Tasks) /\ PlacedIn(p, rest) /\ t.req \in rs \cup {NoReq}
  BY PlacedTail
<1>2. rest \cup ({t.req} \ {NoReq}) = rs /\ t.req \notin rest
  BY <1>1
<1>3. t.req # NoReq => rest \cup {t.req} = rs /\ t.req \notin rest \cup {NoReq}
  BY <1>1
<1> HIDE DEF p, rest
<1>4. /\ Append(p, t) \in Seq(Tasks) /\ Append(p, t) # <<>>
      /\ PlacedIn(Append(p, t), rest \cup ({t.req} \ {NoReq}))
  BY <1>1, <1>2, PlacedAppend
<1>5. ASSUME t.req # NoReq
      PROVE  /\ <<t>> \o p \in Seq(Tasks) /\ <<t>> \o p # <<>> /\ Head(<<t>> \o p) = t
             /\ PlacedIn(<<t>> \o p, rest \cup {t.req})
  BY <1>1, <1>3, <1>5, PlacedFirst
<1> QED
  BY <1>2, <1>3, <1>4, <1>5 DEF p

\* The requests of a queue are those it was placed for.
LEMMA OwnersPlaced ==
    ASSUME NEW q \in Seq(Tasks), NEW rs, PlacedIn(q, rs), NoReq \notin rs
    PROVE  Owners(q) = rs
<1>1. DOMAIN q = 1..Len(q)
  BY LenProperties
<1> QED
  BY <1>1 DEF Owners, PlacedIn

\* What ForceCheckNewMailTask leaves in the queue when all tasks fail.
LEMMA ChecksProperties ==
    ASSUME tasks \in Seq(Tasks), NEW rs, PlacedIn(tasks, rs)
    PROVE  /\ ChecksFor(Again) \in Seq(Tasks)
           /\ PlacedIn(ChecksFor(Again), {tasks[i].req : i \in Again})
           /\ {tasks[i].req : i \in Again} \in SUBSET rs
<1> DEFINE ns == Again
           ts == Select(tasks, ns)
           q == ChecksFor(ns)
           made == {tasks[i].req : i \in ns}
<1>1. /\ \A i \in 1..Len(tasks) : tasks[i].req \in rs \cup {NoReq}
      /\ \A i, j \in 1..Len(tasks) : tasks[i].req = tasks[j].req /\ tasks[i].req # NoReq => i = j
  BY DEF PlacedIn
<1>2. DOMAIN tasks = 1..Len(tasks) /\ \A i \in 1..Len(tasks) : tasks[i] \in Tasks
  BY LenProperties, ElementOfSeq
<1>3. ns \in SUBSET (1..Len(tasks)) /\ \A i \in ns : tasks[i].kind = "logout"
  BY <1>2 DEF Again, WillReconnect
<1>4. \A i \in ns : tasks[i].req \in All
  BY <1>2, <1>3, TaskProperties
<1>5. NoReq \notin All
  BY Pop3Assumption DEF All
<1>6. q = [k \in DOMAIN ts |-> Task("check", ts[k].req)]
  BY DEF ChecksFor
<1> HIDE DEF ns, q
<1>7. /\ ts \in Seq(Tasks)
      /\ \A k \in 1..Len(ts) : From(ns, k) \in ns /\ ts[k] = tasks[From(ns, k)]
      /\ \A k, l \in 1..Len(ts) : From(ns, k) = From(ns, l) => k = l
      /\ \A i \in ns : \E k \in 1..Len(ts) : From(ns, k) = i
  <2>1. tasks \in Seq(Tasks)
    OBVIOUS
  <2>2. ns \in SUBSET (1..Len(tasks))
    BY <1>3
  <2> DEFINE T == Tasks
  <2>3. tasks \in Seq(T)
    BY <2>1
  <2> HIDE DEF T
  <2>4. /\ ts \in Seq(T)
        /\ \A k \in 1..Len(ts) : From(ns, k) \in ns /\ ts[k] = tasks[From(ns, k)]
        /\ \A k, l \in 1..Len(ts) : From(ns, k) = From(ns, l) => k = l
        /\ \A i \in ns : \E k \in 1..Len(ts) : From(ns, k) = i
    BY ONLY <2>2, <2>3, SelectProperties
  <2> QED
    BY <2>4 DEF T
<1> HIDE DEF ts
<1>8. DOMAIN ts = 1..Len(ts) /\ Len(ts) \in Nat
  BY <1>7, LenProperties
<1>9. \A k \in 1..Len(ts) : ts[k].req \in All
  BY <1>4, <1>7
<1>10. \A k \in 1..Len(ts) : q[k] \in Tasks /\ q[k].req = ts[k].req
  BY <1>6, <1>8, <1>9, TaskProperties
<1>11. q \in [1..Len(ts) -> Tasks]
  BY <1>6, <1>8, <1>10
<1>12. q \in Seq(Tasks) /\ Len(q) = Len(ts)
  BY <1>8, <1>11, SeqDef, LenProperties
<1>13. \A i \in 1..Len(q) : q[i].req \in made \cup {NoReq}
  BY <1>7, <1>10, <1>12
<1>14. ASSUME NEW i \in 1..Len(q), NEW j \in 1..Len(q), q[i].req = q[j].req PROVE i = j
  <2>1. From(ns, i) = From(ns, j)
    <3>1. PICK x \in ns, y \in ns : /\ x = From(ns, i) /\ ts[i] = tasks[x]
                                   /\ y = From(ns, j) /\ ts[j] = tasks[y]
      BY <1>7, <1>12
    <3>2. tasks[x].req = tasks[y].req
      BY <1>10, <1>12, <1>14, <3>1
    <3>3. x = y
      BY <1>1, <1>3, <1>4, <1>5, <3>2
    <3> QED
      BY <3>1, <3>3
  <2> QED
    BY <1>7, <1>12, <2>1
<1>15. \A r \in made : \E i \in 1..Len(q) : q[i].req = r
  BY <1>7, <1>10, <1>12
<1>16. made \in SUBSET rs
  <2>1. \A i \in ns : tasks[i].req \in rs
    BY <1>1, <1>3, <1>4, <1>5
  <2> QED
    BY <2>1
<1> HIDE DEF made
<1>17. PlacedIn(q, made)
  BY <1>13, <1>14, <1>15 DEF PlacedIn
<1> QED
  BY <1>12, <1>16, <1>17 DEF q, ns, made

-----------------------------------------------------------------------------
(* Callbacks.                                                              *)

Inv == TypeInv /\ OwnerInv

LEMMA NoReqNotOpen == NoReq \notin All /\ NoReq \notin Open /\ Open \in SUBSET All
BY Pop3Assumption DEF All, Open

\* Some requests are answered, and the rest of the queue, with the callback that
\* was left behind, is for the others.
LEMMA OwnerStep ==
    ASSUME OwnerInv, NEW rs \in SUBSET Open, Answer(rs), asked' = asked,
           late' \in (Open \ rs) \cup {NoReq},
           PlacedIn(tasks', (Open \ rs) \ {late'})
    PROVE  OwnerInv'
<1>1. /\ answers \in [All -> {0, 1}]
      /\ \A r \in All : asked[r] = "no" => answers[r] = 0
  BY DEF OwnerInv
<1>2. answers' = [r \in All |-> IF r \in rs THEN answers[r] + 1 ELSE answers[r]]
  BY DEF Answer
<1>3. \A r \in rs : r \in All /\ asked[r] # "no" /\ answers[r] = 0
  BY DEF Open
<1>4. \A r \in All : answers[r] = 0 \/ answers[r] = 1
  BY <1>1
<1>5. /\ \A r \in rs : answers'[r] = 1
      /\ \A r \in All \ rs : answers'[r] = answers[r]
  BY <1>2, <1>3
<1>6. answers' \in [All -> {0, 1}]
  BY <1>2, <1>3, <1>4, <1>5
<1>7. \A r \in All : asked'[r] = "no" => answers'[r] = 0
  BY <1>1, <1>3, <1>5
<1>8. Open' = Open \ rs
  <2>1. \A r : r \in Open' <=> r \in All /\ asked[r] # "no" /\ answers'[r] = 0
    BY DEF Open
  <2>2. \A r : r \in Open \ rs <=> r \in All \ rs /\ asked[r] # "no" /\ answers[r] = 0
    BY DEF Open
  <2> QED
    BY <1>3, <1>5, <2>1, <2>2
<1> QED
  BY <1>6, <1>7, <1>8 DEF OwnerInv

LEMMA OwnerKept ==
    ASSUME OwnerInv, answers' = answers, asked' = asked,
           late' \in Open \cup {NoReq}, PlacedIn(tasks', Open \ {late'})
    PROVE  OwnerInv'
<1>1. Answer({})
  BY DEF Answer, OwnerInv
<1>2. Open \ {} = Open
  OBVIOUS
<1> QED
  BY <1>1, <1>2, OwnerStep

\* The queue after an action.
Queued == tasks' \in Seq(Tasks) /\ run' \in BOOLEAN /\ (run' => tasks' # <<>>)

LEMMA UnchangedQueue ==
    ASSUME QueueInv, OwnerInv, UNCHANGED <<tasks, answers, asked, late>>,
           run' = run \/ run' = FALSE
    PROVE  Queued /\ OwnerInv'
<1>1. Queued
  <2>1. tasks \in Seq(Tasks) /\ run \in BOOLEAN /\ (run => tasks # <<>>) /\ tasks' = tasks
    BY DEF QueueInv
  <2>2. CASE run' = run
    BY ONLY <2>1, <2>2, Zenon DEF Queued
  <2>3. CASE run' = FALSE
    BY ONLY <2>1, <2>3, Zenon DEF Queued
  <2> QED
    BY <2>2, <2>3
<1>2. Open' = Open
  BY DEF Open
<1> QED
  BY <1>1, <1>2 DEF OwnerInv

LEMMA EndsStep ==
    ASSUME QueueInv, OwnerInv, tasks # <<>>, Ends, UNCHANGED <<asked, late>>
    PROVE  Queued /\ OwnerInv'
<1> DEFINE h == Head(tasks)
           rs == {h.req} \ {NoReq}
<1>1. tasks \in Seq(Tasks) /\ PlacedIn(tasks, Open \ {late}) /\ late \in Open \cup {NoReq}
  BY DEF QueueInv, OwnerInv
<1>2. /\ Tail(tasks) \in Seq(Tasks) /\ h.req \in (Open \ {late}) \cup {NoReq}
      /\ PlacedIn(Tail(tasks), (Open \ {late}) \ {h.req})
  BY <1>1, PlacedTail
<1>3. tasks' = Tail(tasks) /\ run' = (Tail(tasks) # <<>>) /\ Answer(rs)
  BY DEF Ends, Done
<1> HIDE DEF h
<1>4. /\ rs \in SUBSET Open /\ late' \in (Open \ rs) \cup {NoReq}
      /\ (Open \ rs) \ {late'} = (Open \ {late}) \ {h.req}
  BY <1>1, <1>2, NoReqNotOpen
<1> HIDE DEF rs
<1>5. PlacedIn(tasks', (Open \ rs) \ {late'})
  BY <1>2, <1>3, <1>4
<1>6. OwnerInv'
  BY <1>3, <1>4, <1>5, OwnerStep
<1> QED
  BY <1>2, <1>3, <1>6 DEF Queued

\* Another task of the same request.
LEMMA InsteadStep ==
    ASSUME QueueInv, OwnerInv, tasks # <<>>, UNCHANGED <<answers, asked, late>>,
           NEW t \in Tasks, t.req = Head(tasks).req,
           \/ tasks' = Append(Tail(tasks), t)
           \/ tasks' = <<t>> \o Tail(tasks) /\ t.req \in All,
           run' \in BOOLEAN
    PROVE  Queued /\ OwnerInv'
<1>1. tasks \in Seq(Tasks) /\ PlacedIn(tasks, Open \ {late}) /\ late \in Open \cup {NoReq}
  BY DEF QueueInv, OwnerInv
<1>2. NoReq \notin Open \ {late} /\ NoReq \notin All
  BY NoReqNotOpen
<1>3. tasks' \in Seq(Tasks) /\ tasks' # <<>> /\ PlacedIn(tasks', Open \ {late})
  <2>1. /\ Append(Tail(tasks), t) \in Seq(Tasks) /\ Append(Tail(tasks), t) # <<>>
        /\ PlacedIn(Append(Tail(tasks), t), Open \ {late})
        /\ t.req # NoReq => /\ <<t>> \o Tail(tasks) \in Seq(Tasks) /\ <<t>> \o Tail(tasks) # <<>>
                            /\ PlacedIn(<<t>> \o Tail(tasks), Open \ {late})
    BY <1>1, <1>2, PlacedInstead
  <2>2. CASE tasks' = Append(Tail(tasks), t)
    BY <2>1, <2>2
  <2>3. CASE tasks' = <<t>> \o Tail(tasks) /\ t.req \in All
    BY <1>2, <2>1, <2>3
  <2> QED
    BY <2>2, <2>3
<1>4. OwnerInv'
  BY <1>1, <1>3, OwnerKept
<1> QED
  BY <1>3, <1>4 DEF Queued

\* The end of the account.
LEMMA AllEndStep ==
    ASSUME QueueInv, OwnerInv, tasks' = <<>>, Answer(Owners(tasks)), UNCHANGED <<asked, late>>,
           run' = FALSE
    PROVE  Queued /\ OwnerInv'
<1> DEFINE rs == Open \ {late}
<1>1. tasks \in Seq(Tasks) /\ PlacedIn(tasks, rs) /\ late \in Open \cup {NoReq}
  BY DEF QueueInv, OwnerInv
<1>2. NoReq \notin rs
  BY NoReqNotOpen
<1>3. Owners(tasks) = rs
  BY <1>1, <1>2, OwnersPlaced
<1>4. rs \in SUBSET Open /\ late' \in (Open \ rs) \cup {NoReq} /\ (Open \ rs) \ {late'} = {}
  BY <1>1
<1> HIDE DEF rs
<1>5. OwnerInv'
  BY <1>3, <1>4, PlacedEmpty, OwnerStep
<1> QED
  BY <1>5, PlacedEmpty DEF Queued

LEMMA LoggedOutStep ==
    ASSUME QueueInv, OwnerInv, tasks # <<>>, Head(tasks).kind = "logout", LoggedOut,
           UNCHANGED <<asked, late>>
    PROVE  Queued /\ OwnerInv' /\ over' \in Overs
<1>1. tasks \in Seq(Tasks) /\ over \in Overs
  BY DEF QueueInv
<1>2. Head(tasks) \in Tasks /\ Head(tasks).req \in All
  BY <1>1, HeadProperties, TaskProperties
<1>3. CASE WillReconnect(Head(tasks))
  <2> DEFINE t == Task("check", Head(tasks).req)
  <2>1. t \in Tasks /\ t.req = Head(tasks).req
    BY <1>2, TaskProperties
  <2>2. /\ tasks' = <<t>> \o Tail(tasks) /\ run' \in BOOLEAN
        /\ UNCHANGED <<answers, over>>
    BY <1>3 DEF LoggedOut, Done
  <2> HIDE DEF t
  <2>3. Queued /\ OwnerInv'
    BY <1>2, <2>1, <2>2, InsteadStep
  <2> QED
    BY <1>1, <2>2, <2>3
<1>4. CASE ~WillReconnect(Head(tasks))
  <2>1. tasks' = <<>> /\ run' = FALSE /\ over' = "closed" /\ Answer(Owners(tasks))
    BY <1>4 DEF LoggedOut
  <2>2. Queued /\ OwnerInv'
    BY <2>1, AllEndStep
  <2> QED
    BY <2>1, <2>2 DEF Overs
<1> QED
  BY <1>3, <1>4

\* There is a least number in every set of natural numbers but the empty one.
LEMMA LeastNat ==
    ASSUME NEW T \in SUBSET Nat, T # {}
    PROVE  \E x \in T : \A y \in T : x <= y
<1>1. PICK x \in T : \A y \in T : <<y, x>> \notin OpToRel(<, Nat)
  BY NatLessThanWellFounded, WFMin, Zenon
<1>2. \A y \in Nat : y < x => <<y, x>> \in OpToRel(<, Nat)
  BY DEF OpToRel
<1>3. \A y \in T : ~(y < x)
  BY <1>1, <1>2, Zenon
<1> QED
  BY <1>3

\* UpdateTask: the next message to delete, or a LogoutTask.
LEMMA UpdateStepProperties ==
    ASSUME NEW t, UpdateStep(t), ListsInv, t.req \in All, at \in [All -> 1..(NMsgs + 1)]
    PROVE  \/ \E i \in 1..Len(index) :
                /\ index[i].deleted /\ index[i].uid \in DOMAIN uidl
                /\ cmd' = [name |-> "dele", n |-> uidl[index[i].uid]]
                /\ at' = [at EXCEPT ![t.req] = i + 1]
                /\ run' = FALSE
                /\ UNCHANGED <<tasks, idle>>
           \/ /\ Done(<<LogoutThenCheck(t.req)>> \o Tail(tasks))
              /\ cmd' = NoCmd
              /\ UNCHANGED at
<1> DEFINE todo == ToDelete(t.req)
           i == CHOOSE i \in todo : \A j \in todo : i <= j
<1>1. CASE todo # {}
  <2>1. Len(index) \in Nat /\ at[t.req] \in 1..(NMsgs + 1) /\ NMsgs \in Nat
    BY IndexProperties, MsgsFinite
  <2>2. /\ todo \in SUBSET (1..Len(index)) /\ todo \in SUBSET Nat
        /\ \A k \in todo : index[k].deleted /\ index[k].uid \in DOMAIN uidl
    <3>1. at[t.req] \in Nat /\ 1 <= at[t.req]
      BY <2>1
    <3>2. \A k \in at[t.req]..Len(index) : k \in 1..Len(index) /\ k \in Nat
      BY <2>1, <3>1
    <3> QED
      BY <3>2 DEF ToDelete
  <2>3. \E k \in todo : \A j \in todo : k <= j
    <3> HIDE DEF todo
    <3> QED
      BY <1>1, <2>2, LeastNat
  <2>4. i \in todo
    <3> HIDE DEF todo
    <3> QED
      BY <2>3
  <2>5. /\ cmd' = [name |-> "dele", n |-> uidl[index[i].uid]]
        /\ at' = [at EXCEPT ![t.req] = i + 1]
        /\ run' = FALSE
        /\ UNCHANGED <<tasks, idle>>
    BY <1>1 DEF UpdateStep
  <2> HIDE DEF i, todo
  <2> QED
    BY <2>2, <2>4, <2>5
<1>2. CASE todo = {}
  BY <1>2 DEF UpdateStep
<1> QED
  BY <1>1, <1>2

\* Every action keeps the queue in order and the callbacks in their places.
LEMMA QueueStep ==
    ASSUME Inv, Next
    PROVE  QueueInv' /\ OwnerInv'
<1>1. /\ QueueInv /\ RequestInv /\ ListsInv /\ LineInv /\ OwnerInv
      /\ tasks \in Seq(Tasks) /\ run \in BOOLEAN /\ (run => tasks # <<>>)
      /\ over \in Overs
  BY DEF Inv, TypeInv, QueueInv
<1>2. late \in Open \cup {NoReq} /\ PlacedIn(tasks, Open \ {late})
  BY <1>1 DEF OwnerInv
<1>3. tasks # <<>> => /\ Head(tasks) \in Tasks
                      /\ Head(tasks).kind \in {"check", "update", "read", "logout"}
                         => Head(tasks).req \in All
  BY <1>1, HeadProperties, TaskProperties
<1>4. SUFFICES Queued /\ OwnerInv' /\ over' \in Overs
  <2>1. ASSUME OwnerInv' PROVE late' \in All \cup {NoReq}
    <3>1. Open' \in SUBSET All
      BY DEF Open
    <3> QED
      BY <2>1, <3>1 DEF OwnerInv
  <2> QED
    BY <2>1 DEF Queued, QueueInv
<1>5. ASSUME NEW r \in Reqs, NEW kind \in Kinds, Request(r, kind)
      PROVE  Queued /\ OwnerInv' /\ over' \in Overs
  <2> DEFINE t == IF kind = "check" THEN LogoutThenCheck(r) ELSE Task(kind, r)
  <2>1. r \in All /\ kind \in {"check", "update", "read", "logout"} /\ kind # "no"
    BY Pop3Assumption DEF All
  <2>2. /\ t \in Tasks /\ t.req = r /\ r # NoReq
    BY <2>1, TaskProperties, NoReqNotOpen
  <2>3. /\ late = NoReq /\ late' = late /\ asked[r] = "no" /\ asked' = [asked EXCEPT ![r] = kind]
        /\ answers' = answers /\ over' = over
        /\ tasks' = Append(tasks, t) /\ run' \in BOOLEAN
    BY <1>5 DEF Request, Quiet, Exists, Install
  <2>4. r \notin Open
    BY <2>3 DEF Open
  <2> HIDE DEF t
  <2>5. /\ tasks' \in Seq(Tasks) /\ tasks' # <<>>
        /\ PlacedIn(tasks', (Open \ {late}) \cup ({t.req} \ {NoReq}))
    BY <1>1, <1>2, <2>2, <2>3, <2>4, PlacedAppend
  <2>6. answers \in [All -> {0, 1}] /\ \A q \in All : asked[q] = "no" => answers[q] = 0
    BY <1>1 DEF OwnerInv
  <2>7. asked \in [All -> Kinds \cup {"check", "no"}]
    BY <1>1 DEF RequestInv
  <2>8. Open' = Open \cup {r}
    <3>1. \A q : q \in Open' <=> q \in All /\ asked'[q] # "no" /\ answers[q] = 0
      BY <2>3 DEF Open
    <3>2. \A q : q \in Open <=> q \in All /\ asked[q] # "no" /\ answers[q] = 0
      BY DEF Open
    <3>3. asked'[r] # "no" /\ \A q \in All \ {r} : asked'[q] = asked[q]
      BY <2>1, <2>3, <2>7
    <3> QED
      BY <2>1, <2>3, <2>6, <3>1, <3>2, <3>3
  <2>9. Open' \ {late'} = (Open \ {late}) \cup ({t.req} \ {NoReq}) /\ late' \in Open' \cup {NoReq}
    BY <2>2, <2>3, <2>8, NoReqNotOpen
  <2>10. \A q \in All : asked'[q] = "no" => answers'[q] = 0
    BY <2>1, <2>3, <2>6, <2>7
  <2>11. OwnerInv'
    BY <2>3, <2>5, <2>6, <2>9, <2>10 DEF OwnerInv
  <2> QED
    BY <1>1, <2>3, <2>5, <2>11 DEF Queued
<1>6. CASE \E i \in DOMAIN index : Flag(i)
  <2>1. UNCHANGED <<tasks, run, late, asked, answers, over>>
    BY <1>6 DEF Flag, cvars
  <2> QED
    BY <1>1, <2>1, UnchangedQueue
<1>7. CASE Noop
  <2> DEFINE t == Task("noop", NoReq)
  <2>1. /\ tasks' = Append(tasks, t) /\ run' \in BOOLEAN
        /\ UNCHANGED <<late, asked, answers, over>>
    BY <1>7 DEF Noop, Install, cvars
  <2>2. t \in Tasks /\ t.req = NoReq
    BY TaskProperties
  <2> HIDE DEF t
  <2>3. /\ tasks' \in Seq(Tasks) /\ tasks' # <<>>
        /\ PlacedIn(tasks', (Open \ {late}) \cup ({t.req} \ {NoReq}))
    BY <1>1, <1>2, <2>1, <2>2, NoReqNotOpen, PlacedAppend
  <2>4. (Open \ {late}) \cup ({t.req} \ {NoReq}) = Open \ {late'}
    BY <2>1, <2>2
  <2>5. OwnerInv'
    BY <1>1, <1>2, <2>1, <2>3, <2>4, OwnerKept
  <2> QED
    BY <1>1, <2>1, <2>3, <2>5 DEF Queued
<1>8. CASE InstallDetour
  <2> DEFINE t == LoginFor(Head(tasks))
  <2>1. /\ run /\ Head(tasks).kind \in SessionKinds
        /\ tasks' = Append(Tail(tasks), t) /\ run' = run
        /\ UNCHANGED <<late, asked, answers, over>>
    BY <1>8 DEF InstallDetour, cvars, SessionKinds
  <2>2. t \in Tasks /\ t.req = Head(tasks).req
    BY <1>1, <1>3, <2>1, TaskProperties
  <2> HIDE DEF t
  <2> QED
    BY <1>1, <2>1, <2>2, InsteadStep
<1>9. CASE InstallCheck
  <2>1. run /\ Ends /\ UNCHANGED <<late, asked, over>>
    BY <1>9 DEF InstallCheck, cvars
  <2> QED
    BY <1>1, <2>1, EndsStep
<1>10. ASSUME tasks # <<>>, Head(tasks).kind = "update", UpdateStep(Head(tasks)),
              UNCHANGED <<late, asked, answers, over>>
       PROVE  Queued /\ OwnerInv' /\ over' \in Overs
  <2> DEFINE t == LogoutThenCheck(Head(tasks).req)
  <2>1. Head(tasks).req \in All /\ at \in [All -> 1..(NMsgs + 1)]
    BY <1>1, <1>3, <1>10 DEF RequestInv
  <2>2. \/ run' = FALSE /\ tasks' = tasks
        \/ tasks' = <<t>> \o Tail(tasks) /\ run' \in BOOLEAN
    BY <1>1, <1>10, <2>1, UpdateStepProperties DEF Done
  <2>3. t \in Tasks /\ t.req = Head(tasks).req
    BY <2>1, TaskProperties
  <2> HIDE DEF t
  <2>4. CASE run' = FALSE /\ tasks' = tasks
    BY <1>1, <1>10, <2>4, UnchangedQueue
  <2>5. CASE tasks' = <<t>> \o Tail(tasks) /\ run' \in BOOLEAN
    BY <1>1, <1>10, <2>1, <2>3, <2>5, InsteadStep
  <2> QED
    BY <2>2, <2>4, <2>5
<1>11. CASE InstallUpdate
  <2>1. /\ run /\ Head(tasks).kind = "update" /\ UpdateStep(Head(tasks))
        /\ UNCHANGED <<late, asked, answers, over>>
    BY <1>11 DEF InstallUpdate
  <2> QED
    BY <1>1, <1>10, <2>1
<1>12. CASE InstallRead
  <2>1. /\ run /\ UNCHANGED <<late, asked, over>>
        /\ (run' = FALSE /\ UNCHANGED <<tasks, answers>>) \/ Ends
    BY <1>12 DEF InstallRead, cvars
  <2>2. CASE run' = FALSE /\ UNCHANGED <<tasks, answers>>
    BY <1>1, <2>1, <2>2, UnchangedQueue
  <2>3. CASE Ends
    BY <1>1, <2>1, <2>3, EndsStep
  <2> QED
    BY <2>1, <2>2, <2>3
<1>13. CASE InstallNoop \/ InstallLoggedIn
  <2>1. run' = FALSE /\ UNCHANGED <<tasks, late, asked, answers, over>>
    BY <1>13 DEF InstallNoop, InstallLoggedIn, cvars
  <2> QED
    BY <1>1, <2>1, UnchangedQueue
<1>14. ASSUME NEW ok \in BOOLEAN, InstallLogin(ok)
       PROVE  Queued /\ OwnerInv' /\ over' \in Overs
  <2>1. /\ run /\ UNCHANGED <<late, asked, over>>
        /\ (run' = FALSE /\ UNCHANGED <<tasks, answers>>) \/ Ends
    BY <1>14 DEF InstallLogin, cvars
  <2>2. CASE run' = FALSE /\ UNCHANGED <<tasks, answers>>
    BY <1>1, <2>1, <2>2, UnchangedQueue
  <2>3. CASE Ends
    BY <1>1, <2>1, <2>3, EndsStep
  <2> QED
    BY <2>1, <2>2, <2>3
<1>15. CASE InstallLogout
  <2>1. /\ run /\ Head(tasks).kind = "logout" /\ UNCHANGED <<late, asked>>
        /\ (run' = FALSE /\ UNCHANGED <<tasks, answers, over>>) \/ LoggedOut
    BY <1>15 DEF InstallLogout, cvars
  <2>2. CASE run' = FALSE /\ UNCHANGED <<tasks, answers, over>>
    BY <1>1, <2>1, <2>2, UnchangedQueue
  <2>3. CASE LoggedOut
    BY <1>1, <2>1, <2>3, LoggedOutStep
  <2> QED
    BY <2>1, <2>2, <2>3
<1>16. CASE LateCheck
  <2> DEFINE t == Task("check", late)
  <2>1. /\ ~run /\ late # NoReq /\ tasks' = <<t>> \o tasks /\ late' = NoReq /\ run' = run
        /\ UNCHANGED <<asked, answers, over>>
    BY <1>16 DEF LateCheck, cvars
  <2>2. late \in All /\ late \in Open
    BY <1>2, <2>1, NoReqNotOpen
  <2>3. t \in Tasks /\ t.req = late
    BY <2>2, TaskProperties
  <2> HIDE DEF t
  <2>4. t.req \notin (Open \ {late}) \cup {NoReq}
    BY <2>1, <2>3
  <2>5. /\ tasks' \in Seq(Tasks) /\ tasks' # <<>>
        /\ PlacedIn(tasks', (Open \ {late}) \cup {t.req})
    BY <1>1, <1>2, <2>1, <2>3, <2>4, PlacedFirst
  <2>6. (Open \ {late}) \cup {t.req} = Open \ {late'}
    BY <2>1, <2>2, <2>3, NoReqNotOpen
  <2>7. OwnerInv'
    BY <1>1, <2>1, <2>5, <2>6, OwnerKept
  <2> QED
    BY <1>1, <2>1, <2>5, <2>7 DEF Queued
<1>17. CASE ReplyAstray
  <2>1. UNCHANGED <<tasks, run, late, asked, answers>> /\ over' \in {"no", "crashed"}
    BY <1>17 DEF ReplyAstray, cvars
  <2>2. Queued /\ OwnerInv'
    BY <1>1, <2>1, UnchangedQueue
  <2> QED
    BY <2>1, <2>2 DEF Overs
<1>18. ASSUME NEW ok \in BOOLEAN, ReplyGreeting(ok) \/ ReplyAuth(ok) \/ ReplyList(ok)
       PROVE  Queued /\ OwnerInv' /\ over' \in Overs
  <2>1. /\ tasks # <<>> /\ UNCHANGED <<late, asked, over>>
        /\ UNCHANGED <<tasks, run, answers>> \/ Ends
    BY <1>18 DEF ReplyGreeting, ReplyAuth, ReplyList, Awaits, cvars
  <2>2. CASE UNCHANGED <<tasks, run, answers>>
    BY <1>1, <2>1, <2>2, UnchangedQueue
  <2>3. CASE Ends
    BY <1>1, <2>1, <2>3, EndsStep
  <2> QED
    BY <2>1, <2>2, <2>3
<1>19. ASSUME NEW ok \in BOOLEAN, ReplyUidl(ok)
       PROVE  Queued /\ OwnerInv' /\ over' \in Overs
  <2> DEFINE t == Task(Head(tasks).for, Head(tasks).req)
  <2>1. /\ tasks # <<>> /\ cmd.name = "uidl" /\ Head(tasks).kind # "check"
        /\ UNCHANGED <<late, asked, over>>
        /\ \/ tasks' = Append(Tail(tasks), t) /\ run' = TRUE /\ UNCHANGED answers
           \/ Ends
    BY <1>19 DEF ReplyUidl, Awaits, cvars
  <2>2. Head(tasks).kind = "login"
    BY <1>1, <2>1 DEF LineInv
  <2>3. t \in Tasks /\ t.req = Head(tasks).req
    BY <1>3, <2>1, <2>2, TaskProperties
  <2> HIDE DEF t
  <2>4. CASE tasks' = Append(Tail(tasks), t) /\ run' = TRUE /\ UNCHANGED answers
    BY <1>1, <2>1, <2>3, <2>4, InsteadStep
  <2>5. CASE Ends
    BY <1>1, <2>1, <2>5, EndsStep
  <2> QED
    BY <2>1, <2>4, <2>5
<1>20. CASE ReplyDele
  <2>1. /\ tasks # <<>> /\ cmd.name = "dele" /\ Head(tasks).kind # "check"
        /\ UNCHANGED <<late, asked, over>>
        /\ (UpdateStep(Head(tasks)) /\ UNCHANGED answers) \/ Ends
    BY <1>20 DEF ReplyDele, Awaits
  <2>2. Head(tasks).kind = "update"
    BY <1>1, <2>1 DEF LineInv
  <2>3. CASE UpdateStep(Head(tasks)) /\ UNCHANGED answers
    BY <1>10, <2>1, <2>2, <2>3
  <2>4. CASE Ends
    BY <1>1, <2>1, <2>4, EndsStep
  <2> QED
    BY <2>1, <2>3, <2>4
<1>21. CASE ReplyLast
  <2>1. tasks # <<>> /\ Ends /\ UNCHANGED <<late, asked, over>>
    BY <1>21 DEF ReplyLast, Awaits, cvars
  <2> QED
    BY <1>1, <2>1, EndsStep
<1>22. CASE ReplyQuit
  <2>1. tasks # <<>> /\ cmd.name = "quit" /\ LoggedOut /\ UNCHANGED <<late, asked>>
    BY <1>22 DEF ReplyQuit, Awaits, cvars
  <2>2. Head(tasks).kind = "logout"
    BY <1>1, <1>22, <2>1 DEF LineInv, ReplyQuit, Awaits
  <2> QED
    BY <1>1, <2>1, <2>2, LoggedOutStep
<1>23. CASE Disconnect
  <2>1. late = NoReq /\ ~run /\ UNCHANGED asked
    BY <1>23 DEF Disconnect, Quiet, Exists, cvars
  <2>2. CASE tasks # <<>> /\ WillReconnect(Head(tasks))
    <3>1. /\ tasks' = Tail(tasks) /\ run' = (Tail(tasks) # <<>>) /\ late' = Head(tasks).req
          /\ UNCHANGED <<answers, over>>
      BY <1>23, <2>2 DEF Disconnect, Done
    <3>2. /\ Tail(tasks) \in Seq(Tasks) /\ Head(tasks).req \in (Open \ {late}) \cup {NoReq}
          /\ PlacedIn(Tail(tasks), (Open \ {late}) \ {Head(tasks).req})
      BY <1>1, <1>2, <2>2, PlacedTail
    <3>3. late' \in Open \cup {NoReq} /\ (Open \ {late}) \ {Head(tasks).req} = Open \ {late'}
      BY <2>1, <3>1, <3>2, NoReqNotOpen
    <3>4. OwnerInv'
      BY <1>1, <2>1, <3>1, <3>2, <3>3, OwnerKept
    <3> QED
      BY <1>1, <3>1, <3>2, <3>4 DEF Queued
  <2>3. CASE ~(tasks # <<>> /\ WillReconnect(Head(tasks)))
    <3>1. /\ tasks' = <<>> /\ Answer(Owners(tasks)) /\ over' = "closed" /\ UNCHANGED <<run, late>>
      BY <1>23, <2>3 DEF Disconnect
    <3>2. run' = FALSE
      BY <1>1, <2>1, <3>1
    <3>3. Queued /\ OwnerInv'
      BY <1>1, <2>1, <3>1, <3>2, AllEndStep
    <3> QED
      BY <3>1, <3>3 DEF Overs
  <2> QED
    BY <2>2, <2>3
<1>24. CASE Timeout
  <2> DEFINE made == {tasks[i].req : i \in Again}
             rs == Owners(tasks) \ made
  <2>1. /\ late = NoReq /\ ~run /\ UNCHANGED <<run, late, asked, over>>
        /\ tasks' = ChecksFor(Again) /\ Answer(rs)
    BY <1>24 DEF Timeout, Exists, cvars
  <2>2. PlacedIn(tasks, Open)
    BY <1>2, <2>1, NoReqNotOpen, Open \ {late} = Open
  <2>3. ChecksFor(Again) \in Seq(Tasks) /\ PlacedIn(ChecksFor(Again), made) /\ made \in SUBSET Open
    BY <1>1, <2>2, ChecksProperties
  <2>4. Owners(tasks) = Open
    BY <1>1, <2>2, NoReqNotOpen, OwnersPlaced
  <2> HIDE DEF made
  <2>5. /\ rs \in SUBSET Open /\ late' \in (Open \ rs) \cup {NoReq}
        /\ (Open \ rs) \ {late'} = made
    BY <2>1, <2>3, <2>4, NoReqNotOpen
  <2> HIDE DEF rs
  <2>6. OwnerInv'
    BY <1>1, <2>1, <2>3, <2>5, OwnerStep
  <2>7. run' = FALSE
    BY <1>1, <2>1
  <2> QED
    BY <1>1, <2>1, <2>3, <2>6, <2>7 DEF Queued
<1>25. CASE Destroy
  <2>1. late = NoReq /\ ~run /\ UNCHANGED <<run, late, asked>>
    BY <1>25 DEF Destroy, Exists, cvars
  <2>2. run' = FALSE
    BY <1>1, <2>1
  <2>3. \/ over' = "abandoned" /\ UNCHANGED <<tasks, answers>>
        \/ over' = "gone" /\ tasks' = <<>> /\ Answer(Owners(tasks))
    BY <1>25 DEF Destroy
  <2>4. CASE over' = "abandoned" /\ UNCHANGED <<tasks, answers>>
    <3>1. Queued /\ OwnerInv'
      BY <1>1, <2>1, <2>2, <2>4, UnchangedQueue
    <3> QED
      BY <2>4, <3>1 DEF Overs
  <2>5. CASE over' = "gone" /\ tasks' = <<>> /\ Answer(Owners(tasks))
    <3>1. Queued /\ OwnerInv'
      BY <1>1, <2>1, <2>2, <2>5, AllEndStep
    <3> QED
      BY <2>5, <3>1 DEF Overs
  <2> QED
    BY <2>3, <2>4, <2>5
<1>26. ASSUME NEW m \in Msgs, OthersRemove(m)
       PROVE  Queued /\ OwnerInv' /\ over' \in Overs
  <2>1. UNCHANGED <<tasks, run, late, asked, answers, over>>
    BY <1>26 DEF OthersRemove, cvars
  <2> QED
    BY <1>1, <2>1, UnchangedQueue
<1> QED
  BY <1>5, <1>6, <1>7, <1>8, <1>9, <1>11, <1>12, <1>13, <1>14, <1>15, <1>16, <1>17,
     <1>18, <1>19, <1>20, <1>21, <1>22, <1>23, <1>24, <1>25, <1>26
     DEF Next, Installs, Replies

-----------------------------------------------------------------------------
(* The requests' data and the lists.                                       *)

LEMMA EmptyLists ==
    <<>> \in Boxes /\ <<>> \in Numbers /\ NoSess \in [auth : BOOLEAN, nums : Boxes, dele : SUBSET Nat]
<1>1. <<>> \in Seq(Msgs) /\ <<>> \in Seq(1..NMsgs) /\ Len(<<>>) = 0
  BY EmptySeq
<1>2. DOMAIN <<>> = {} /\ <<>> \in [{} -> 1..NMsgs]
  <2>1. <<>> \in [1..Len(<<>>) -> 1..NMsgs] /\ DOMAIN <<>> = 1..Len(<<>>)
    BY <1>1, LenProperties
  <2>2. 1..Len(<<>>) = {}
    BY <1>1
  <2> QED
    BY <2>1, <2>2
<1>3. <<>> \in Boxes /\ <<>> \in Numbers
  BY <1>1, <1>2 DEF Boxes, Numbers
<1> QED
  BY <1>3 DEF NoSess

\* What the server's mailbox may become.
LEMMA BoxStep ==
    ASSUME ListsInv
    PROVE  /\ Committed \in Boxes
           /\ \A m \in Msgs : Select(box, {i \in DOMAIN box : box[i] # m}) \in Boxes
<1>1. box \in Boxes
  BY DEF ListsInv
<1>2. Committed \in Boxes
  BY <1>1, BoxSelect DEF Committed
<1>3. ASSUME NEW m \in Msgs PROVE Select(box, {i \in DOMAIN box : box[i] # m}) \in Boxes
  BY <1>1, BoxSelect
<1> QED
  BY <1>2, <1>3

LEMMA LostStep ==
    ASSUME ListsInv, Lost
    PROVE  fd' = FALSE /\ cmd' = NoCmd /\ sess' = NoSess /\ box' \in Boxes
<1>1. box \in Boxes
  BY DEF ListsInv
<1> QED
  BY <1>1, BoxStep DEF Lost

\* A request keeps the message it wants; an update goes on through the index.
LEMMA RequestStep ==
    ASSUME Inv, Next
    PROVE  RequestInv'
<1>1. /\ QueueInv /\ RequestInv /\ ListsInv /\ LineInv
      /\ asked \in [All -> Kinds \cup {"check", "no"}] /\ want \in [All -> SUBSET Msgs]
      /\ \A r \in All, m1, m2 \in Msgs : m1 \in want[r] /\ m2 \in want[r] => m1 = m2
      /\ at \in [All -> 1..(NMsgs + 1)]
      /\ tasks \in Seq(Tasks) /\ (run => tasks # <<>>)
  BY DEF Inv, TypeInv, RequestInv, QueueInv
<1>2. UNCHANGED <<asked, want, at>> => RequestInv'
  BY <1>1 DEF RequestInv
<1>3. ASSUME NEW r \in Reqs, NEW kind \in Kinds, Request(r, kind)
      PROVE  RequestInv'
  <2>1. r \in All
    BY DEF All
  <2>2. /\ asked' = [asked EXCEPT ![r] = kind] /\ UNCHANGED at
        /\ UNCHANGED want \/ \E i \in DOMAIN index : want' = [want EXCEPT ![r] = {index[i].uid}]
    BY <1>3 DEF Request
  <2>3. asked' \in [All -> Kinds \cup {"check", "no"}]
    BY <1>1, <2>2
  <2>4. CASE UNCHANGED want
    BY <1>1, <2>2, <2>3, <2>4 DEF RequestInv
  <2>5. ASSUME NEW i \in DOMAIN index, want' = [want EXCEPT ![r] = {index[i].uid}]
        PROVE  RequestInv'
    <3>1. index[i].uid \in Msgs
      BY <1>1, IndexProperties
    <3>2. want' \in [All -> SUBSET Msgs]
      BY <1>1, <2>5, <3>1
    <3>3. want'[r] = {index[i].uid} /\ \A q \in All \ {r} : want'[q] = want[q]
      BY <1>1, <2>1, <2>5
    <3>4. \A q \in All, m1, m2 \in Msgs : m1 \in want'[q] /\ m2 \in want'[q] => m1 = m2
      BY <1>1, <3>3
    <3> QED
      BY <1>1, <2>2, <2>3, <3>2, <3>4 DEF RequestInv
  <2> QED
    BY <2>2, <2>4, <2>5
<1>4. ASSUME tasks # <<>>, Head(tasks).kind = "update", UpdateStep(Head(tasks)),
             UNCHANGED <<asked, want>>
      PROVE  RequestInv'
  <2>1. Head(tasks).req \in All
    BY <1>1, <1>4, HeadProperties, TaskProperties
  <2>2. UNCHANGED at \/ \E i \in 1..Len(index) : at' = [at EXCEPT ![Head(tasks).req] = i + 1]
    BY <1>1, <1>4, <2>1, UpdateStepProperties
  <2>3. \A i \in 1..Len(index) : i + 1 \in 1..(NMsgs + 1)
    BY <1>1, IndexProperties, MsgsFinite
  <2>4. at' \in [All -> 1..(NMsgs + 1)]
    BY <1>1, <2>2, <2>3
  <2> QED
    BY <1>1, <1>4, <2>4 DEF RequestInv
<1>5. CASE InstallUpdate
  BY <1>1, <1>4, <1>5 DEF InstallUpdate
<1>6. CASE ReplyDele
  <2>1. /\ tasks # <<>> /\ cmd.name = "dele" /\ Head(tasks).kind # "check"
        /\ UNCHANGED <<asked, want>>
        /\ UpdateStep(Head(tasks)) \/ UNCHANGED at
    BY <1>6 DEF ReplyDele, Awaits
  <2>2. Head(tasks).kind = "update"
    BY <1>1, <2>1 DEF LineInv
  <2> QED
    BY <1>2, <1>4, <2>1, <2>2
<1>7. CASE \E i \in DOMAIN index : Flag(i)
  BY <1>2, <1>7 DEF Flag, cvars
<1>8. CASE Noop \/ Disconnect \/ Timeout \/ Destroy
  BY <1>2, <1>8 DEF Noop, Disconnect, Timeout, Destroy, cvars
<1>9. CASE InstallDetour \/ InstallCheck \/ InstallRead \/ InstallNoop \/ InstallLoggedIn
           \/ InstallLogout \/ LateCheck
  BY <1>2, <1>9 DEF InstallDetour, InstallCheck, InstallRead, InstallNoop, InstallLoggedIn,
                    InstallLogout, LateCheck, cvars
<1>10. ASSUME NEW ok \in BOOLEAN,
              InstallLogin(ok) \/ ReplyGreeting(ok) \/ ReplyAuth(ok) \/ ReplyList(ok) \/ ReplyUidl(ok)
       PROVE  RequestInv'
  BY <1>2, <1>10 DEF InstallLogin, ReplyGreeting, ReplyAuth, ReplyList, ReplyUidl, cvars
<1>11. CASE ReplyAstray \/ ReplyLast \/ ReplyQuit
  BY <1>2, <1>11 DEF ReplyAstray, ReplyLast, ReplyQuit, cvars
<1>12. ASSUME NEW m \in Msgs, OthersRemove(m)
       PROVE  RequestInv'
  BY <1>2, <1>12 DEF OthersRemove, cvars
<1> QED
  BY <1>3, <1>5, <1>6, <1>7, <1>8, <1>9, <1>10, <1>11, <1>12 DEF Next, Installs, Replies

\* No message gets twice into the index or into a mailbox.
LEMMA ListsStep ==
    ASSUME Inv, Next
    PROVE  ListsInv'
<1>1. /\ ListsInv /\ LineInv
      /\ index \in Seq(Entry)
      /\ \A i, j \in 1..Len(index) : index[i].uid = index[j].uid => i = j
      /\ uidl \in Numbers /\ box \in Boxes
      /\ sess \in [auth : BOOLEAN, nums : Boxes, dele : SUBSET Nat]
  BY DEF Inv, TypeInv, ListsInv
<1>2. UNCHANGED index /\ uidl' \in Numbers /\ box' \in Boxes
      /\ sess' \in [auth : BOOLEAN, nums : Boxes, dele : SUBSET Nat] => ListsInv'
  BY <1>1 DEF ListsInv
<1>3. UNCHANGED <<index, uidl, box, sess>> => ListsInv'
  BY <1>1, <1>2
<1>4. ASSUME NEW i \in DOMAIN index, Flag(i)
      PROVE  ListsInv'
  <2>1. index' = [index EXCEPT ![i].deleted = ~@] /\ UNCHANGED <<uidl, box, sess>>
    BY <1>4 DEF Flag, svars
  <2>2. i \in 1..Len(index) /\ index[i] \in Entry
    BY <1>1, IndexProperties
  <2> DEFINE e == [index[i] EXCEPT !.deleted = ~@]
  <2>3. e \in Entry /\ e.uid = index[i].uid
    BY <2>2 DEF Entry
  <2>4. index' = [index EXCEPT ![i] = e]
    BY <2>1
  <2> HIDE DEF e
  <2>5. /\ index' \in Seq(Entry) /\ Len(index') = Len(index)
        /\ \A j \in 1..Len(index) : index'[j] = IF j = i THEN e ELSE index[j]
    BY <1>1, <2>2, <2>3, <2>4, ExceptSeq
  <2>6. \A j, k \in 1..Len(index') : index'[j].uid = index'[k].uid => j = k
    BY <1>1, <2>3, <2>5
  <2> QED
    BY <1>1, <2>1, <2>5, <2>6 DEF ListsInv
<1>5. CASE InstallCheck
  <2>1. index' = Reconciled /\ UNCHANGED <<uidl, box, sess>>
    BY <1>5 DEF InstallCheck, svars
  <2>2. /\ index' \in Seq(Entry)
        /\ \A i, j \in 1..Len(index') : index'[i].uid = index'[j].uid => i = j
    BY <1>1, <2>1, ReconciledProperties
  <2> QED
    BY <1>1, <2>1, <2>2 DEF ListsInv
<1>6. ASSUME NEW ok \in BOOLEAN, ReplyAuth(ok)
      PROVE  ListsInv'
  <2>1. /\ UNCHANGED <<index, uidl, box>>
        /\ sess' = [auth |-> TRUE, nums |-> box, dele |-> {}] \/ UNCHANGED sess
    BY <1>6 DEF ReplyAuth
  <2>2. [auth |-> TRUE, nums |-> box, dele |-> {}] \in [auth : BOOLEAN, nums : Boxes, dele : SUBSET Nat]
    BY <1>1
  <2>3. sess' \in [auth : BOOLEAN, nums : Boxes, dele : SUBSET Nat]
    BY ONLY <1>1, <2>1, <2>2, Zenon
  <2> QED
    BY <1>1, <1>2, <2>1, <2>3
<1>7. ASSUME NEW ok \in BOOLEAN, ReplyUidl(ok)
      PROVE  ListsInv'
  <2>1. UNCHANGED <<index, box, sess>> /\ (uidl' = Listed \/ uidl' = <<>>)
    BY <1>7 DEF ReplyUidl
  <2>2. uidl' \in Numbers
    BY <1>1, <2>1, ListedProperties, EmptyLists
  <2> QED
    BY <1>1, <1>2, <2>1, <2>2
<1>8. CASE ReplyDele
  <2>1. /\ UNCHANGED <<index, uidl, box>> /\ cmd.name = "dele"
        /\ sess' = [sess EXCEPT !.dele = @ \cup {cmd.n}] \/ UNCHANGED sess
    BY <1>8 DEF ReplyDele, Awaits
  <2>2. cmd.n \in Nat
    BY <1>1, <2>1 DEF LineInv, NoCmd
  <2>3. sess' \in [auth : BOOLEAN, nums : Boxes, dele : SUBSET Nat]
    BY <1>1, <2>1, <2>2
  <2> QED
    BY <1>1, <1>2, <2>1, <2>3
<1>9. CASE InstallLogout
  <2>1. UNCHANGED <<index, uidl, box>> /\ (UNCHANGED sess \/ sess' = NoSess)
    BY <1>9 DEF InstallLogout, LoggedOut
  <2> QED
    BY <1>1, <1>2, <2>1, EmptyLists
<1>10. CASE ReplyQuit
  <2>1. UNCHANGED <<index, uidl>> /\ sess' = NoSess /\ box' = Committed
    BY <1>10 DEF ReplyQuit, LoggedOut
  <2> QED
    BY <1>1, <1>2, <2>1, BoxStep, EmptyLists
<1>11. CASE Disconnect \/ Timeout \/ Destroy
  <2>1. UNCHANGED <<index, uidl>> /\ Lost
    BY <1>11 DEF Disconnect, Timeout, Destroy
  <2> QED
    BY <1>1, <1>2, <2>1, LostStep, EmptyLists
<1>12. ASSUME NEW m \in Msgs, OthersRemove(m)
       PROVE  ListsInv'
  <2>1. /\ UNCHANGED <<index, uidl, sess>>
        /\ box' = Select(box, {i \in DOMAIN box : box[i] # m})
    BY <1>12 DEF OthersRemove
  <2> QED
    BY <1>1, <1>2, <2>1, BoxStep
<1>13. ASSUME NEW r \in Reqs, NEW kind \in Kinds, Request(r, kind)
       PROVE  ListsInv'
  BY <1>3, <1>13 DEF Request, svars
<1>14. CASE Noop \/ InstallDetour \/ InstallUpdate \/ InstallRead \/ InstallNoop
            \/ InstallLoggedIn \/ LateCheck \/ ReplyAstray \/ ReplyLast
  BY <1>3, <1>14 DEF Noop, InstallDetour, InstallUpdate, InstallRead, InstallNoop,
                     InstallLoggedIn, LateCheck, ReplyAstray, ReplyLast, svars
<1>15. ASSUME NEW ok \in BOOLEAN, InstallLogin(ok) \/ ReplyGreeting(ok) \/ ReplyList(ok)
       PROVE  ListsInv'
  BY <1>3, <1>15 DEF InstallLogin, ReplyGreeting, ReplyList, svars
<1> QED
  BY <1>4, <1>5, <1>6, <1>7, <1>8, <1>9, <1>10, <1>11, <1>12, <1>13, <1>14, <1>15
     DEF Next, Installs, Replies

-----------------------------------------------------------------------------
(* The connection.                                                         *)

LEMMA NothingSent ==
    ASSUME cmd' = NoCmd, ~fd' => sess' = NoSess
    PROVE  LineInv'
BY DEF LineInv, NoCmd

\* The first task sends a command.
LEMMA CommandSent ==
    ASSUME NEW name \in Commands, NEW n \in Nat, cmd' = [name |-> name, n |-> n],
           fd', run' = FALSE, tasks # <<>>, UNCHANGED tasks,
           name \in {"greeting", "auth"} => sess' = NoSess,
           name \in {"greeting", "auth", "list", "uidl"} => Head(tasks).kind \in {"check", "login"},
           name = "dele" => Head(tasks).kind \in {"check", "update"},
           name = "quit" => Head(tasks).kind \in {"check", "logout"}
    PROVE  LineInv'
<1>1. /\ cmd' \in {NoCmd} \cup [name : Commands, n : Nat]
      /\ cmd'.name = name
  OBVIOUS
<1> QED
  BY <1>1 DEF LineInv

LEMMA LineKept ==
    ASSUME LineInv, UNCHANGED <<cmd, fd, sess>>,
           cmd # NoCmd => /\ ~run' /\ tasks' # <<>>
                          /\ Head(tasks') = Head(tasks) \/ Head(tasks').kind = "check"
    PROVE  LineInv'
<1>1. CASE cmd = NoCmd
  <2>1. cmd' = NoCmd /\ (~fd' => sess' = NoSess)
    BY <1>1 DEF LineInv
  <2> QED
    BY <2>1, NothingSent
<1>2. CASE cmd # NoCmd
  BY <1>2 DEF LineInv
<1> QED
  BY <1>1, <1>2

LEMMA LateCheckFirst ==
    ASSUME QueueInv, LateCheck
    PROVE  tasks' # <<>> /\ Head(tasks').kind = "check"
<1> DEFINE t == Task("check", late)
<1>1. late # NoReq /\ tasks' = <<t>> \o tasks /\ tasks \in Seq(Tasks) /\ late \in All
  BY DEF LateCheck, QueueInv
<1>2. t \in Tasks /\ t.kind = "check"
  BY <1>1, TaskProperties DEF Task
<1> HIDE DEF t
<1>3. <<t>> \in Seq(Tasks) /\ Len(<<t>>) = 1 /\ <<t>>[1] = t /\ Len(tasks) \in Nat
  BY <1>1, <1>2, LenProperties
<1>4. tasks' \in Seq(Tasks) /\ Len(tasks') = 1 + Len(tasks) /\ tasks'[1] = t
  BY <1>1, <1>3, ConcatProperties
<1>5. tasks' # <<>>
  BY <1>3, <1>4, EmptySeq
<1> QED
  BY <1>2, <1>4, <1>5, HeadProperties

\* A reply is awaited on a connection, by the task that sent the command.
LEMMA LineStep ==
    ASSUME Inv, Next
    PROVE  LineInv'
<1>1. /\ QueueInv /\ RequestInv /\ ListsInv /\ LineInv
      /\ tasks \in Seq(Tasks) /\ run \in BOOLEAN /\ (run => tasks # <<>>)
  BY DEF Inv, TypeInv, QueueInv
<1>2. /\ cmd \in {NoCmd} \cup [name : Commands, n : Nat]
      /\ cmd # NoCmd => fd /\ ~run /\ tasks # <<>>
      /\ cmd.name \in {"greeting", "auth", "list", "uidl"} => Head(tasks).kind \in {"check", "login"}
      /\ cmd.name = "dele" => Head(tasks).kind \in {"check", "update"}
      /\ ~fd \/ cmd.name \in {"greeting", "auth"} => sess = NoSess
  BY <1>1 DEF LineInv
<1>3. \A m \in DOMAIN uidl : uidl[m] \in Nat
  BY <1>1, NumbersProperties, MsgsFinite DEF ListsInv
<1>4. ASSUME NEW t \in Tasks, tasks' = Append(tasks, t), ~run, run' = (tasks = <<>>),
             UNCHANGED <<cmd, fd, sess>>
      PROVE  LineInv'
  <2>1. tasks # <<>> => tasks' # <<>> /\ Head(tasks') = Head(tasks)
    BY <1>1, <1>4, AppendProperties, HeadTailAppend
  <2> QED
    BY <1>1, <1>2, <1>4, <2>1, LineKept
<1>5. ASSUME NEW r \in Reqs, NEW kind \in Kinds, Request(r, kind)
      PROVE  LineInv'
  <2> DEFINE t == IF kind = "check" THEN LogoutThenCheck(r) ELSE Task(kind, r)
  <2>1. r \in All /\ kind \in {"check", "update", "read", "logout"}
    BY Pop3Assumption DEF All
  <2>2. t \in Tasks
    BY <2>1, TaskProperties
  <2>3. /\ ~run /\ tasks' = Append(tasks, t) /\ run' = (tasks = <<>>)
        /\ UNCHANGED <<cmd, fd, sess>>
    BY <1>5 DEF Request, Quiet, Exists, Install, svars
  <2> HIDE DEF t
  <2> QED
    BY <1>4, <2>2, <2>3
<1>6. CASE Noop
  <2>1. /\ ~run /\ tasks' = Append(tasks, Task("noop", NoReq)) /\ run' = (tasks = <<>>)
        /\ UNCHANGED <<cmd, fd, sess>>
    BY <1>6 DEF Noop, Quiet, Exists, Install, svars
  <2> QED
    BY <1>4, <2>1, TaskProperties
<1>7. ASSUME UNCHANGED <<tasks, run, cmd, fd, sess>> PROVE LineInv'
  BY <1>1, <1>2, <1>7, LineKept
<1>8. CASE \E i \in DOMAIN index : Flag(i)
  BY <1>7, <1>8 DEF Flag, svars
<1>9. ASSUME cmd = NoCmd, UNCHANGED <<cmd, fd, sess>> PROVE LineInv'
  BY <1>2, <1>9, NothingSent
<1>10. ASSUME run PROVE cmd = NoCmd /\ tasks # <<>>
  BY <1>1, <1>2, <1>10
<1>11. CASE InstallDetour \/ InstallCheck
  BY <1>9, <1>10, <1>11 DEF InstallDetour, InstallCheck, svars
<1>12. ASSUME tasks # <<>>, Head(tasks).kind = "update", UpdateStep(Head(tasks)), fd'
       PROVE  LineInv'
  <2>1. Head(tasks).req \in All /\ at \in [All -> 1..(NMsgs + 1)]
    BY <1>1, <1>12, HeadProperties, TaskProperties DEF RequestInv
  <2>2. \/ \E n \in Nat : cmd' = [name |-> "dele", n |-> n] /\ run' = FALSE /\ UNCHANGED tasks
        \/ cmd' = NoCmd
    BY <1>1, <1>3, <1>12, <2>1, UpdateStepProperties
  <2>3. ASSUME NEW n \in Nat, cmd' = [name |-> "dele", n |-> n], run' = FALSE, UNCHANGED tasks
        PROVE  LineInv'
    <3>1. "dele" \in Commands
      BY DEF Commands
    <3> QED
      BY <1>12, <2>3, <3>1, CommandSent
  <2> QED
    BY <1>12, <2>2, <2>3, NothingSent
<1>13. CASE InstallUpdate
  <2>1. run /\ fd' /\ Head(tasks).kind = "update" /\ UpdateStep(Head(tasks))
    BY <1>13 DEF InstallUpdate
  <2> QED
    BY <1>10, <1>12, <2>1
<1>14. CASE InstallRead
  <2>1. /\ run /\ fd /\ UNCHANGED <<fd, sess>>
        /\ \/ \E m \in DOMAIN uidl : cmd' = [name |-> "retr", n |-> uidl[m]] /\ run' = FALSE
                                    /\ UNCHANGED tasks
           \/ UNCHANGED cmd
    BY <1>14 DEF InstallRead
  <2>2. CASE UNCHANGED cmd
    BY <1>9, <1>10, <2>1, <2>2
  <2>3. ASSUME NEW m \in DOMAIN uidl, cmd' = [name |-> "retr", n |-> uidl[m]], run' = FALSE,
               UNCHANGED tasks
        PROVE  LineInv'
    <3>1. "retr" \in Commands
      BY DEF Commands
    <3> QED
      BY <1>3, <1>10, <2>1, <2>3, <3>1, CommandSent
  <2> QED
    BY <2>1, <2>2, <2>3
<1>15. CASE InstallNoop \/ InstallLoggedIn
  <2>1. /\ run /\ fd /\ UNCHANGED <<tasks, fd, sess>> /\ run' = FALSE
        /\ \/ cmd' = [name |-> "noop", n |-> 0]
           \/ cmd' = [name |-> "list", n |-> 0] /\ Head(tasks).kind = "login"
    BY <1>15 DEF InstallNoop, InstallLoggedIn
  <2>2. "noop" \in Commands /\ "list" \in Commands
    BY DEF Commands
  <2> QED
    BY <1>10, <2>1, <2>2, CommandSent
<1>16. ASSUME NEW ok \in BOOLEAN, InstallLogin(ok)
       PROVE  LineInv'
  <2>1. /\ run /\ ~fd /\ Head(tasks).kind = "login" /\ UNCHANGED sess
        /\ \/ cmd' = [name |-> "greeting", n |-> 0] /\ fd' /\ run' = FALSE /\ UNCHANGED tasks
           \/ UNCHANGED cmd
    BY <1>16 DEF InstallLogin
  <2>2. "greeting" \in Commands /\ sess = NoSess /\ cmd = NoCmd /\ tasks # <<>>
    BY <1>2, <1>10, <2>1 DEF Commands
  <2>3. CASE UNCHANGED cmd
    BY <2>1, <2>2, <2>3, NothingSent
  <2>4. CASE cmd' = [name |-> "greeting", n |-> 0] /\ fd' /\ run' = FALSE /\ UNCHANGED tasks
    BY <2>1, <2>2, <2>4, CommandSent
  <2> QED
    BY <2>1, <2>3, <2>4
<1>17. CASE InstallLogout
  <2>1. run /\ Head(tasks).kind = "logout"
    BY <1>17 DEF InstallLogout
  <2>2. CASE fd
    <3>1. cmd' = [name |-> "quit", n |-> 0] /\ run' = FALSE /\ UNCHANGED <<tasks, fd, sess>>
      BY <1>17, <2>2 DEF InstallLogout
    <3>2. "quit" \in Commands
      BY DEF Commands
    <3> QED
      BY <1>10, <2>1, <2>2, <3>1, <3>2, CommandSent
  <2>3. CASE ~fd
    BY <1>17, <2>3, NothingSent DEF InstallLogout, LoggedOut
  <2> QED
    BY <2>2, <2>3
<1>18. CASE LateCheck
  <2>1. ~run /\ run' = run /\ UNCHANGED <<cmd, fd, sess>>
    BY <1>18 DEF LateCheck, svars
  <2> QED
    BY <1>1, <1>18, <2>1, LateCheckFirst, LineKept
<1>19. CASE ReplyAstray \/ ReplyLast
  <2>1. cmd' = NoCmd /\ UNCHANGED <<fd, sess>>
    BY <1>19 DEF ReplyAstray, ReplyLast
  <2> QED
    BY <1>2, <2>1, NothingSent
<1>20. ASSUME NEW ok \in BOOLEAN, ReplyGreeting(ok)
       PROVE  LineInv'
  <2>1. /\ cmd.name = "greeting" /\ tasks # <<>> /\ UNCHANGED sess
        /\ \/ fd' /\ cmd' = [name |-> "auth", n |-> 0] /\ UNCHANGED <<tasks, run>>
           \/ cmd' = NoCmd
    BY <1>20 DEF ReplyGreeting, Awaits
  <2>2. "auth" \in Commands /\ sess = NoSess /\ run = FALSE /\ Head(tasks).kind \in {"check", "login"}
    BY <1>1, <1>2, <2>1 DEF Commands, NoCmd
  <2>3. CASE cmd' = NoCmd
    BY <2>1, <2>2, <2>3, NothingSent
  <2>4. CASE fd' /\ cmd' = [name |-> "auth", n |-> 0] /\ UNCHANGED <<tasks, run>>
    BY <2>1, <2>2, <2>4, CommandSent
  <2> QED
    BY <2>1, <2>3, <2>4
<1>21. ASSUME NEW ok \in BOOLEAN, ReplyAuth(ok)
       PROVE  LineInv'
  <2>1. /\ cmd.name = "auth" /\ tasks # <<>> /\ fd /\ UNCHANGED fd
        /\ \/ cmd' = [name |-> "list", n |-> 0] /\ UNCHANGED <<tasks, run>>
           \/ cmd' = NoCmd
    BY <1>21 DEF ReplyAuth, Awaits
  <2>2. "list" \in Commands /\ run = FALSE /\ Head(tasks).kind \in {"check", "login"}
    BY <1>1, <1>2, <2>1 DEF Commands, NoCmd
  <2>3. CASE cmd' = NoCmd
    BY <2>1, <2>3, NothingSent
  <2>4. CASE cmd' = [name |-> "list", n |-> 0] /\ UNCHANGED <<tasks, run>>
    BY <2>1, <2>2, <2>4, CommandSent
  <2> QED
    BY <2>1, <2>3, <2>4
<1>22. ASSUME NEW ok \in BOOLEAN, ReplyList(ok)
       PROVE  LineInv'
  <2>1. /\ cmd.name = "list" /\ tasks # <<>> /\ fd /\ UNCHANGED fd
        /\ \/ cmd' = [name |-> "uidl", n |-> 0] /\ UNCHANGED <<tasks, run>>
           \/ cmd' = NoCmd
    BY <1>22 DEF ReplyList, Awaits
  <2>2. "uidl" \in Commands /\ run = FALSE /\ Head(tasks).kind \in {"check", "login"}
    BY <1>1, <1>2, <2>1 DEF Commands, NoCmd
  <2>3. CASE cmd' = NoCmd
    BY <2>1, <2>3, NothingSent
  <2>4. CASE cmd' = [name |-> "uidl", n |-> 0] /\ UNCHANGED <<tasks, run>>
    BY <2>1, <2>2, <2>4, CommandSent
  <2> QED
    BY <2>1, <2>3, <2>4
<1>23. ASSUME NEW ok \in BOOLEAN, ReplyUidl(ok)
       PROVE  LineInv'
  BY <1>23, NothingSent DEF ReplyUidl, Awaits
<1>24. CASE ReplyDele
  <2>1. /\ tasks # <<>> /\ cmd.name = "dele" /\ Head(tasks).kind # "check" /\ fd /\ UNCHANGED fd
        /\ UpdateStep(Head(tasks)) \/ cmd' = NoCmd
    BY <1>24 DEF ReplyDele, Awaits
  <2>2. Head(tasks).kind = "update"
    BY <1>2, <2>1
  <2>3. CASE cmd' = NoCmd
    BY <2>1, <2>3, NothingSent
  <2>4. CASE UpdateStep(Head(tasks))
    BY <1>12, <2>1, <2>2, <2>4
  <2> QED
    BY <2>1, <2>3, <2>4
<1>25. CASE ReplyQuit
  BY <1>25, NothingSent DEF ReplyQuit, LoggedOut
<1>26. CASE Disconnect \/ Timeout \/ Destroy
  <2>1. Lost
    BY <1>26 DEF Disconnect, Timeout, Destroy
  <2> QED
    BY <2>1, NothingSent DEF Lost
<1>27. ASSUME NEW m \in Msgs, OthersRemove(m)
       PROVE  LineInv'
  BY <1>7, <1>27 DEF OthersRemove
<1> QED
  BY <1>5, <1>6, <1>8, <1>11, <1>13, <1>14, <1>15, <1>16, <1>17, <1>18, <1>19, <1>20, <1>21,
     <1>22, <1>23, <1>24, <1>25, <1>26, <1>27
     DEF Next, Installs, Replies

-----------------------------------------------------------------------------
(* The invariant.                                                          *)

LEMMA InvInit == Init => Inv
<1> SUFFICES ASSUME Init PROVE Inv
  OBVIOUS
<1> DEFINE t == Task("check", Opener)
<1>1. /\ tasks = <<t>> /\ run = TRUE /\ late = NoReq
      /\ asked = [r \in All |-> IF r = Opener THEN "check" ELSE "no"]
      /\ want = [r \in All |-> {}] /\ at = [r \in All |-> 1]
      /\ answers = [r \in All |-> 0]
      /\ index = <<>> /\ uidl = <<>> /\ fd = FALSE /\ cmd = NoCmd /\ over = "no" /\ sess = NoSess
      /\ box \in [1..NMsgs -> Msgs]
      /\ \A i, j \in DOMAIN box : box[i] = box[j] => i = j
  BY DEF Init, NMsgs
<1>2. Opener \in All /\ t \in Tasks /\ t.req = Opener
  BY TaskProperties DEF All
<1> HIDE DEF t
<1>3. /\ <<t>> \in Seq(Tasks) /\ Len(<<t>>) = 1 /\ <<t>>[1] = t /\ <<t>> # <<>>
  BY <1>2
<1>4. QueueInv
  <2>1. tasks \in Seq(Tasks) /\ tasks # <<>> /\ run = TRUE
    BY <1>1, <1>3
  <2> QED
    BY <1>1, <2>1 DEF QueueInv, Overs
<1>5. RequestInv
  <2>1. asked \in [All -> Kinds \cup {"check", "no"}]
    BY <1>1
  <2>2. want \in [All -> SUBSET Msgs] /\ \A r \in All : want[r] = {}
    BY <1>1
  <2>3. at \in [All -> 1..(NMsgs + 1)]
    BY <1>1, MsgsFinite
  <2> QED
    BY <2>1, <2>2, <2>3 DEF RequestInv
<1>6. ListsInv
  <2>1. index \in Seq(Entry) /\ Len(index) = 0
    BY <1>1, EmptySeq
  <2>2. box \in Seq(Msgs)
    BY <1>1, MsgsFinite, SeqDef
  <2>3. box \in Boxes
    BY <1>1, <2>2 DEF Boxes
  <2> QED
    BY <1>1, <2>1, <2>3, EmptyLists DEF ListsInv
<1>7. LineInv
  BY <1>1 DEF LineInv, NoCmd
<1>8. Open = {Opener}
  BY <1>1, <1>2 DEF Open
<1>9. PlacedIn(tasks, {Opener})
  BY <1>1, <1>2, <1>3 DEF PlacedIn
<1>10. OwnerInv
  <2>1. answers \in [All -> {0, 1}] /\ \A r \in All : answers[r] = 0
    BY <1>1
  <2>2. Open \ {late} = {Opener}
    BY <1>1, <1>2, <1>8, NoReqNotOpen
  <2> QED
    BY <1>1, <1>9, <2>1, <2>2 DEF OwnerInv
<1> QED
  BY <1>4, <1>5, <1>6, <1>7, <1>10 DEF Inv, TypeInv

LEMMA InvNext == Inv /\ [Next]_vars => Inv'
<1> SUFFICES ASSUME Inv, [Next]_vars PROVE Inv'
  OBVIOUS
<1>1. CASE Next
  BY <1>1, QueueStep, RequestStep, ListsStep, LineStep DEF Inv, TypeInv
<1>2. CASE UNCHANGED vars
  <2>1. /\ UNCHANGED <<tasks, run, late, asked, want, at, answers>>
        /\ UNCHANGED <<index, uidl, fd, cmd, over, sess, box>>
    BY <1>2 DEF vars
  <2>2. QueueInv' /\ RequestInv'
    BY <2>1 DEF Inv, TypeInv, QueueInv, RequestInv
  <2>3. ListsInv' /\ LineInv'
    BY <2>1 DEF Inv, TypeInv, ListsInv, LineInv
  <2>4. OwnerInv'
    BY <2>1 DEF Inv, OwnerInv, Open
  <2> QED
    BY <2>2, <2>3, <2>4 DEF Inv, TypeInv
<1> QED
  BY <1>1, <1>2

LEMMA InvAlways == Spec => []Inv
BY InvInit, InvNext, PTL DEF Spec

-----------------------------------------------------------------------------
(* The theorems.                                                           *)

LEMMA InvTypeOK == Inv => TypeOK
<1> SUFFICES ASSUME Inv PROVE TypeOK
  OBVIOUS
<1>1. QueueInv /\ RequestInv /\ ListsInv /\ LineInv /\ OwnerInv
  BY DEF Inv, TypeInv
<1>2. \A i \in DOMAIN tasks : TaskOK(tasks[i])
  <2>1. \A i \in DOMAIN tasks : tasks[i] \in Tasks
    BY <1>1, LenProperties, ElementOfSeq DEF QueueInv
  <2>2. \A t \in Tasks : TaskOK(t)
    BY DEF Tasks, TaskOK, SessionKinds
  <2> QED
    BY <2>1, <2>2
<1>3. run => tasks # <<>>
  BY <1>1 DEF QueueInv
<1>4. answers \in [All -> Nat]
  BY <1>1 DEF OwnerInv
<1>5. at \in [All -> 1..(Cardinality(Msgs) + 1)]
  BY <1>1 DEF RequestInv, NMsgs
<1>6. \A i \in DOMAIN index : index[i].uid \in Msgs /\ index[i].deleted \in BOOLEAN
  BY <1>1, IndexProperties
<1>7. \A m \in DOMAIN uidl : m \in Msgs /\ uidl[m] \in 1..Cardinality(Msgs)
  BY <1>1, NumbersProperties DEF ListsInv, NMsgs
<1>8. cmd # NoCmd => fd
  BY <1>1 DEF LineInv
<1>9. over \in {"no", "closed", "gone", "abandoned", "crashed"}
  BY <1>1 DEF QueueInv, Overs
<1> QED
  BY <1>2, <1>3, <1>4, <1>5, <1>6, <1>7, <1>8, <1>9 DEF TypeOK

\* The types of the variables; a task is installed only if there is one, and a
\* reply is awaited only on a connection.
THEOREM TypeCorrect == Spec => []TypeOK
BY InvAlways, InvTypeOK, PTL

LEMMA InvOneCallback == Inv => OneCallback
<1> SUFFICES ASSUME Inv, NEW r \in All, asked[r] # "no"
             PROVE  answers[r] + Held(r) = 1
  BY DEF OneCallback
<1> DEFINE own == {i \in DOMAIN tasks : tasks[i].req = r}
<1>1. /\ answers[r] \in {0, 1} /\ late \in Open \cup {NoReq}
      /\ PlacedIn(tasks, Open \ {late}) /\ tasks \in Seq(Tasks)
  BY DEF Inv, OwnerInv, TypeInv, QueueInv
<1>2. r # NoReq /\ (r \in Open <=> answers[r] = 0)
  BY NoReqNotOpen DEF Open
<1>3. DOMAIN tasks = 1..Len(tasks)
  BY <1>1, LenProperties
<1>4. Held(r) = Cardinality(own) + (IF late = r THEN 1 ELSE 0)
  BY DEF Held
<1>5. CASE r \in Open \ {late}
  <2>1. PICK i \in 1..Len(tasks) : tasks[i].req = r
    BY <1>1, <1>5 DEF PlacedIn
  <2>2. own = {i}
    BY <1>1, <1>2, <1>3, <2>1 DEF PlacedIn
  <2>3. Cardinality(own) = 1
    BY <2>2, FS_Singleton
  <2>4. answers[r] = 0 /\ late # r
    BY <1>2, <1>5
  <2> HIDE DEF own
  <2> QED
    BY <1>4, <2>3, <2>4
<1>6. CASE r \notin Open \ {late}
  <2>1. own = {}
    BY <1>1, <1>2, <1>3, <1>6 DEF PlacedIn
  <2>2. Cardinality(own) = 0
    BY <2>1, FS_EmptySet
  <2>3. (answers[r] = 0 /\ late = r) \/ (answers[r] = 1 /\ late # r)
    BY <1>1, <1>2, <1>6
  <2> HIDE DEF own
  <2> QED
    BY <1>4, <2>2, <2>3
<1> QED
  BY <1>5, <1>6

\* The callback of a request is held by one task, or by the
\* ForceCheckNewMailTask that is deleted late, until it is called, once: LoginTask,
\* LogoutTask and ForceCheckNewMailTask hand it on, Task::disconnected and a
\* timeout call it.
THEOREM CallbackKept == Spec => []OneCallback
BY InvAlways, InvOneCallback, PTL

-----------------------------------------------------------------------------
(* Message numbers, if the server does not refuse LIST or UIDL.            *)

LEMMA FreshKept ==
    ASSUME FreshInv, UNCHANGED uidl, sess'.auth = sess.auth, sess'.nums = sess.nums,
           Pending => Pending'
    PROVE  FreshInv'
BY DEF FreshInv, Fresh

\* In a session the numbers are those of the session, or are about to be listed.
LEMMA FreshStep ==
    ASSUME Inv, FreshInv, Next, ListMayFail = FALSE
    PROVE  FreshInv'
<1>1. QueueInv /\ ListsInv /\ LineInv /\ tasks \in Seq(Tasks) /\ (run => tasks # <<>>)
  BY DEF Inv, TypeInv, QueueInv
<1>2. ~fd \/ cmd.name \in {"greeting", "auth"} => sess = NoSess
  BY <1>1 DEF LineInv
<1>3. ASSUME sess' = NoSess \/ ~sess'.auth PROVE FreshInv'
  BY <1>3 DEF FreshInv, NoSess
<1>4. ASSUME Pending' PROVE FreshInv'
  BY <1>4 DEF FreshInv
<1>5. ASSUME run, UNCHANGED <<uidl, sess>> PROVE FreshInv'
  BY <1>5, FreshKept DEF Pending
<1>6. ASSUME UNCHANGED <<tasks, run, cmd, uidl, sess>> PROVE FreshInv'
  BY <1>6, FreshKept DEF Pending
<1>7. ASSUME NEW t \in Tasks, tasks' = Append(tasks, t), run' = (tasks = <<>>),
             UNCHANGED <<cmd, uidl, sess>>
      PROVE  FreshInv'
  <2>1. tasks # <<>> => tasks' # <<>> /\ Head(tasks') = Head(tasks)
    BY <1>1, <1>7, AppendProperties, HeadTailAppend
  <2>2. Pending => Pending'
    BY <1>7, <2>1 DEF Pending
  <2> QED
    BY <1>7, <2>2, FreshKept
<1>8. ASSUME NEW r \in Reqs, NEW kind \in Kinds, Request(r, kind)
      PROVE  FreshInv'
  <2> DEFINE t == IF kind = "check" THEN LogoutThenCheck(r) ELSE Task(kind, r)
  <2>1. r \in All /\ kind \in {"check", "update", "read", "logout"}
    BY Pop3Assumption DEF All
  <2>2. t \in Tasks
    BY <2>1, TaskProperties
  <2>3. tasks' = Append(tasks, t) /\ run' = (tasks = <<>>) /\ UNCHANGED <<cmd, uidl, sess>>
    BY <1>8 DEF Request, Install, svars
  <2> HIDE DEF t
  <2> QED
    BY <1>7, <2>2, <2>3
<1>9. CASE Noop
  BY <1>7, <1>9, TaskProperties DEF Noop, Install, svars
<1>10. CASE \E i \in DOMAIN index : Flag(i)
  BY <1>6, <1>10 DEF Flag, svars
<1>11. CASE InstallDetour \/ InstallCheck \/ InstallUpdate \/ InstallRead \/ InstallNoop
            \/ InstallLoggedIn
  BY <1>5, <1>11 DEF InstallDetour, InstallCheck, InstallUpdate, InstallRead, InstallNoop,
                     InstallLoggedIn, svars
<1>12. ASSUME NEW ok \in BOOLEAN, InstallLogin(ok)
       PROVE  FreshInv'
  BY <1>5, <1>12 DEF InstallLogin
<1>13. CASE InstallLogout
  BY <1>3, <1>5, <1>13 DEF InstallLogout, LoggedOut
<1>14. CASE LateCheck
  <2>1. Pending'
    BY <1>1, <1>14, LateCheckFirst DEF LateCheck, Pending
  <2> QED
    BY <1>4, <2>1
<1>15. CASE ReplyAstray
  <2>1. Pending'
    BY <1>15 DEF ReplyAstray, Quiet, Exists, Pending
  <2> QED
    BY <1>4, <2>1
<1>16. ASSUME NEW ok \in BOOLEAN, ReplyGreeting(ok)
       PROVE  FreshInv'
  BY <1>2, <1>3, <1>16 DEF ReplyGreeting, Awaits
<1>17. ASSUME NEW ok \in BOOLEAN, ReplyAuth(ok)
       PROVE  FreshInv'
  <2>1. CASE ok
    <3>1. Pending'
      BY <1>17, <2>1 DEF ReplyAuth, Awaits, Quiet, Exists, Pending
    <3> QED
      BY <1>4, <3>1
  <2>2. CASE ~ok
    BY <1>2, <1>3, <1>17, <2>2 DEF ReplyAuth, Awaits
  <2> QED
    BY <2>1, <2>2
<1>18. ASSUME NEW ok \in BOOLEAN, ReplyList(ok)
       PROVE  FreshInv'
  <2>1. CASE ok
    <3>1. Pending'
      BY <1>18, <2>1 DEF ReplyList, Awaits, Quiet, Exists, Pending
    <3> QED
      BY <1>4, <3>1
  <2>2. CASE ~ok
    <3>1. ~sess.auth /\ UNCHANGED sess
      BY <1>18, <2>2, ListMayFail = FALSE DEF ReplyList
    <3> QED
      BY <1>3, <3>1
  <2> QED
    BY <2>1, <2>2
<1>19. ASSUME NEW ok \in BOOLEAN, ReplyUidl(ok)
       PROVE  FreshInv'
  <2>1. uidl' = Listed /\ UNCHANGED sess
    BY <1>19, ListMayFail = FALSE DEF ReplyUidl
  <2>2. \A m \in DOMAIN uidl' : uidl'[m] \in DOMAIN sess.nums /\ sess.nums[uidl'[m]] = m
    BY <1>1, <2>1, ListedProperties
  <2>3. Fresh'
    BY <2>1, <2>2 DEF Fresh
  <2> QED
    BY <2>3 DEF FreshInv
<1>20. CASE ReplyDele
  <2>1. /\ cmd.name = "dele" /\ Head(tasks).kind # "check" /\ UNCHANGED uidl
        /\ sess' = [sess EXCEPT !.dele = @ \cup {cmd.n}] \/ UNCHANGED sess
    BY <1>20 DEF ReplyDele, Awaits
  <2>2. sess'.auth = sess.auth /\ sess'.nums = sess.nums
    <3>1. sess \in [auth : BOOLEAN, nums : Boxes, dele : SUBSET Nat]
      BY <1>1 DEF ListsInv
    <3> QED
      BY <2>1, <3>1
  <2>3. ~Pending
    BY <2>1 DEF Pending
  <2> QED
    BY <2>1, <2>2, <2>3, FreshKept
<1>21. CASE ReplyLast
  <2>1. ~Pending /\ UNCHANGED <<uidl, sess>>
    BY <1>21 DEF ReplyLast, Awaits, Pending
  <2> QED
    BY <2>1, FreshKept
<1>22. CASE ReplyQuit
  BY <1>3, <1>22 DEF ReplyQuit, LoggedOut
<1>23. CASE Disconnect \/ Timeout \/ Destroy
  BY <1>3, <1>23 DEF Disconnect, Timeout, Destroy, Lost
<1>24. ASSUME NEW m \in Msgs, OthersRemove(m)
       PROVE  FreshInv'
  BY <1>6, <1>24 DEF OthersRemove
<1> QED
  BY <1>8, <1>9, <1>10, <1>11, <1>12, <1>13, <1>14, <1>15, <1>16, <1>17, <1>18, <1>19, <1>20,
     <1>21, <1>22, <1>23, <1>24
     DEF Next, Installs, Replies

LEMMA FreshAlways ==
    ASSUME ListMayFail = FALSE
    PROVE  Spec => [](Inv /\ FreshInv)
<1>1. Init => Inv /\ FreshInv
  <2>1. Init => FreshInv
    BY DEF Init, FreshInv, NoSess
  <2> QED
    BY <2>1, InvInit
<1>2. Inv /\ FreshInv /\ [Next]_vars => (Inv /\ FreshInv)'
  <2> SUFFICES ASSUME Inv, FreshInv, [Next]_vars PROVE FreshInv'
    BY InvNext
  <2>1. CASE Next
    BY <2>1, FreshStep
  <2>2. CASE UNCHANGED vars
    BY <2>2, FreshKept DEF vars, Pending
  <2> QED
    BY <2>1, <2>2
<1> QED
  BY <1>1, <1>2, PTL DEF Spec

\* What SentRight says of a step.
Sent ==
    /\ (cmd'.name = "dele" /\ cmd' # cmd /\ sess'.auth) =>
          /\ cmd'.n \in DOMAIN sess'.nums
          /\ \E i \in DOMAIN index :
                index[i].deleted /\ sess'.nums[cmd'.n] = index[i].uid
    /\ (cmd'.name = "retr" /\ cmd' # cmd /\ sess'.auth) =>
          /\ cmd'.n \in DOMAIN sess'.nums
          /\ {sess'.nums[cmd'.n]} = want[Head(tasks').req]

\* An update that has fresh numbers deletes what is marked.
LEMMA UpdateSends ==
    ASSUME Inv, tasks # <<>>, Head(tasks).kind = "update", UpdateStep(Head(tasks)),
           sess'.auth => Fresh, sess'.nums = sess.nums
    PROVE  Sent
<1>1. QueueInv /\ RequestInv /\ ListsInv
  BY DEF Inv, TypeInv
<1>2. Head(tasks).req \in All /\ at \in [All -> 1..(NMsgs + 1)]
  BY <1>1, HeadProperties, TaskProperties DEF RequestInv, QueueInv
<1>3. \/ \E i \in 1..Len(index) : /\ index[i].deleted /\ index[i].uid \in DOMAIN uidl
                                  /\ cmd' = [name |-> "dele", n |-> uidl[index[i].uid]]
      \/ cmd' = NoCmd
  BY <1>1, <1>2, UpdateStepProperties
<1>4. CASE cmd' = NoCmd
  BY <1>4 DEF Sent, NoCmd
<1>5. ASSUME NEW i \in 1..Len(index), index[i].deleted, index[i].uid \in DOMAIN uidl,
             cmd' = [name |-> "dele", n |-> uidl[index[i].uid]]
      PROVE  Sent
  <2>1. cmd'.name = "dele" /\ cmd'.n = uidl[index[i].uid] /\ i \in DOMAIN index
    BY <1>1, <1>5, IndexProperties
  <2>2. ASSUME sess'.auth
        PROVE  cmd'.n \in DOMAIN sess'.nums /\ sess'.nums[cmd'.n] = index[i].uid
    BY <1>5, <2>1, <2>2 DEF Fresh
  <2> QED
    BY <1>5, <2>1, <2>2 DEF Sent
<1> QED
  BY <1>3, <1>4, <1>5

LEMMA SentStep ==
    ASSUME Inv, FreshInv, Next
    PROVE  Sent
<1>1. QueueInv /\ RequestInv /\ ListsInv /\ LineInv /\ tasks \in Seq(Tasks) /\ (run => tasks # <<>>)
  BY DEF Inv, TypeInv, QueueInv
<1>2. ASSUME UNCHANGED cmd \/ cmd'.name \notin {"dele", "retr"} PROVE Sent
  BY <1>2 DEF Sent
<1>3. CASE InstallUpdate
  <2>1. /\ run /\ Head(tasks).kind = "update" /\ UpdateStep(Head(tasks)) /\ UNCHANGED sess
    BY <1>3 DEF InstallUpdate
  <2>2. sess.auth => Fresh
    BY <2>1 DEF FreshInv, Pending
  <2> QED
    BY <1>1, <2>1, <2>2, UpdateSends
<1>4. CASE ReplyDele
  <2>1. /\ cmd.name = "dele" /\ tasks # <<>> /\ Head(tasks).kind # "check"
        /\ \/ UpdateStep(Head(tasks)) /\ sess' = [sess EXCEPT !.dele = @ \cup {cmd.n}]
           \/ cmd' = NoCmd
    BY <1>4 DEF ReplyDele, Awaits
  <2>2. Head(tasks).kind = "update"
    BY <1>1, <2>1 DEF LineInv
  <2>3. sess.auth => Fresh
    BY <2>1 DEF FreshInv, Pending
  <2>4. CASE cmd' = NoCmd
    BY <1>2, <2>4 DEF NoCmd
  <2>5. CASE UpdateStep(Head(tasks)) /\ sess' = [sess EXCEPT !.dele = @ \cup {cmd.n}]
    <3>1. sess \in [auth : BOOLEAN, nums : Boxes, dele : SUBSET Nat]
      BY <1>1 DEF ListsInv
    <3>2. sess'.auth = sess.auth /\ sess'.nums = sess.nums
      BY <2>5, <3>1
    <3> QED
      BY <2>1, <2>2, <2>3, <2>5, <3>2, UpdateSends
  <2> QED
    BY <2>1, <2>4, <2>5
<1>5. CASE InstallRead
  <2> DEFINE r == Head(tasks).req
  <2>1. run /\ Head(tasks).kind = "read" /\ UNCHANGED sess
    BY <1>5 DEF InstallRead
  <2>2. r \in All
    BY <1>1, <2>1, HeadProperties, TaskProperties
  <2>3. PICK m \in want[r] : \/ /\ m \in DOMAIN uidl
                                /\ cmd' = [name |-> "retr", n |-> uidl[m]]
                                /\ UNCHANGED tasks
                             \/ UNCHANGED cmd
    BY <1>5 DEF InstallRead
  <2>4. CASE UNCHANGED cmd
    BY <1>2, <2>4
  <2>5. CASE m \in DOMAIN uidl /\ cmd' = [name |-> "retr", n |-> uidl[m]] /\ UNCHANGED tasks
    <3>1. want[r] = {m}
      BY <1>1, <2>2, <2>3 DEF RequestInv
    <3>2. cmd'.name = "retr" /\ cmd'.n = uidl[m] /\ Head(tasks').req = r
      BY <2>5
    <3>3. sess.auth => uidl[m] \in DOMAIN sess.nums /\ sess.nums[uidl[m]] = m
      BY <2>1, <2>5 DEF FreshInv, Pending, Fresh
    <3> HIDE DEF r
    <3> QED
      BY <2>1, <3>1, <3>2, <3>3 DEF Sent
  <2> QED
    BY <2>3, <2>4, <2>5
<1>6. ASSUME NEW r \in Reqs, NEW kind \in Kinds, Request(r, kind)
      PROVE  Sent
  BY <1>2, <1>6 DEF Request, svars
<1>7. CASE Noop \/ InstallDetour \/ InstallCheck \/ LateCheck
  BY <1>2, <1>7 DEF Noop, InstallDetour, InstallCheck, LateCheck, svars
<1>8. CASE \E i \in DOMAIN index : Flag(i)
  BY <1>2, <1>8 DEF Flag, svars
<1>9. CASE InstallNoop \/ InstallLoggedIn
  BY <1>2, <1>9 DEF InstallNoop, InstallLoggedIn
<1>10. CASE InstallLogout
  BY <1>2, <1>10 DEF InstallLogout, LoggedOut, NoCmd
<1>11. ASSUME NEW ok \in BOOLEAN, InstallLogin(ok)
       PROVE  Sent
  BY <1>2, <1>11 DEF InstallLogin
<1>12. ASSUME NEW ok \in BOOLEAN,
              ReplyGreeting(ok) \/ ReplyAuth(ok) \/ ReplyList(ok) \/ ReplyUidl(ok)
       PROVE  Sent
  BY <1>2, <1>12 DEF ReplyGreeting, ReplyAuth, ReplyList, ReplyUidl, NoCmd
<1>13. CASE ReplyAstray \/ ReplyLast \/ ReplyQuit
  BY <1>2, <1>13 DEF ReplyAstray, ReplyLast, ReplyQuit, LoggedOut, NoCmd
<1>14. CASE Disconnect \/ Timeout \/ Destroy
  BY <1>2, <1>14 DEF Disconnect, Timeout, Destroy, Lost, NoCmd
<1>15. ASSUME NEW m \in Msgs, OthersRemove(m)
       PROVE  Sent
  BY <1>2, <1>15 DEF OthersRemove
<1> QED
  BY <1>3, <1>4, <1>5, <1>6, <1>7, <1>8, <1>9, <1>10, <1>11, <1>12, <1>13, <1>14, <1>15
     DEF Next, Installs, Replies

\* If the server refuses neither LIST nor UIDL in a session, every DELE and RETR
\* names a message by its number in this session: uidlMap is filled anew by each
\* LoginTask before LoggedInTask goes on, and a check that nobody installed lets
\* no task use an older one.
THEOREM NumbersRight ==
    ASSUME ListMayFail = FALSE
    PROVE  Spec => SentRight
<1>1. Inv /\ FreshInv /\ [Next]_vars => [Sent]_vars
  BY SentStep
<1>2. Spec => [](Inv /\ FreshInv)
  BY FreshAlways
<1> QED
  BY <1>1, <1>2, PTL DEF Spec, SentRight, Sent
=============================================================================
