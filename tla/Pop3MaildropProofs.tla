------------------------- MODULE Pop3MaildropProofs -------------------------
(***************************************************************************)
(* Proofs about Pop3Maildrop, for any messages and any size of a batch.    *)
(***************************************************************************)
EXTENDS Pop3Maildrop, FiniteSetTheorems, TLAPS

(***************************************************************************)
(* The messages of a session are on the server, each with one number.      *)
(***************************************************************************)
NumsInv ==
    /\ \A n \in DOMAIN nums : nums[n] \in box
    /\ \A n, k \in DOMAIN nums : nums[n] = nums[k] => n = k

(***************************************************************************)
(* What the client knows at each point of a session: what it has           *)
(* downloaded, what of that is delivered, and what it may have deleted.    *)
(***************************************************************************)
InMaildir(n) == n \in DOMAIN nums /\ nums[n] \in local

SessionInv ==
    /\ pc \in {"retr", "commit"} =>
         /\ dele = {}
         /\ next = Len(got) + 1
         /\ \A n \in 1..Len(got) : n \in DOMAIN nums /\ got[n] = nums[n]
    /\ pc = "commit" =>
         /\ at \in 1..(Len(got) + 1)
         /\ ~errflag => \A n \in 1..(at - 1) : InMaildir(n)
    /\ pc = "dele" => \A n \in 1..(next - 1) : InMaildir(n)
    /\ pc \in {"dele", "quit"} => \A n \in dele : InMaildir(n)

(***************************************************************************)
(* The messages that have been delivered in this session.                  *)
(***************************************************************************)
Fresh(m) ==
    \/ pc = "commit" /\ \E n \in 1..(at - 1) : got[n] = m
    \/ pc = "dele" /\ \E n \in (1..(next - 1)) \cup dele : nums[n] = m
    \/ pc = "quit" /\ \E n \in dele : nums[n] = m

(***************************************************************************)
(* A message that is delivered and still on the server was delivered in    *)
(* this session, or a failure has befallen it since.                       *)
(***************************************************************************)
CopiesInv ==
    \A m \in Msgs : m \in box /\ m \in local /\ ~Fresh(m) => m \in excused

Inv == TypeOK /\ NumsInv /\ SessionInv
IInv == Inv /\ CopiesInv

-----------------------------------------------------------------------------
\* The server gives every message one number.
LEMMA NumberingsLemma ==
    ASSUME TypeOK, NEW q \in Numberings
    PROVE  /\ q \in Seq(Msgs)
           /\ \A n \in DOMAIN q : q[n] \in box
           /\ \A n, k \in DOMAIN q : q[n] = q[k] => n = k
<1>1. IsFiniteSet(box)
  BY MaildropAssumption, FS_Subset DEF TypeOK
<1>2. Cardinality(box) \in Nat
  BY <1>1, FS_CardinalityType
<1> DEFINE S == 1..Cardinality(box)
<1>3. IsFiniteSet(S) /\ Cardinality(S) = Cardinality(box)
  BY <1>2, FS_Interval
<1>4. q \in [S -> box]
  BY DEF Numberings
<1>5. q \in Surjection(S, box)
  BY <1>4 DEF Numberings, Surjection
<1>6. q \in Injection(S, box)
  BY <1>3, <1>5, FS_SurjSameCardinalityImpliesInj
<1>7. \A n, k \in S : q[n] = q[k] => n = k
  BY <1>4, <1>6 DEF Injection, IsInjective
<1>8. q \in Seq(Msgs)
  BY <1>2, <1>4 DEF TypeOK
<1> QED
  BY <1>4, <1>7, <1>8

\* There are no messages yet.
LEMMA InitIInv == Init => IInv
<1> SUFFICES ASSUME Init PROVE IInv
  OBVIOUS
<1>1. TypeOK
  <2>1. sess \in BOOLEAN /\ errflag \in BOOLEAN /\ checking \in BOOLEAN
    BY Zenon DEF Init
  <2>2. nums \in Seq(Msgs) /\ got \in Seq(Msgs)
    BY DEF Init
  <2> QED
    BY <2>1, <2>2 DEF Init, TypeOK
<1>2. NumsInv /\ SessionInv
  BY DEF Init, NumsInv, SessionInv
<1>3. CopiesInv
  BY DEF Init, CopiesInv
<1> QED
  BY <1>1, <1>2, <1>3 DEF IInv, Inv

\* The session's messages are messages, and what was delivered in it is among
\* them.
LEMMA SessionMsgs == IInv => Session \subseteq Msgs
BY DEF IInv, Inv, TypeOK, Session

LEMMA FreshInSession ==
    ASSUME IInv, NEW m \in Msgs, Fresh(m) PROVE m \in Session
<1>1. CASE pc = "commit"
  <2>1. PICK n \in 1..(at - 1) : got[n] = m
    BY <1>1 DEF Fresh
  <2>2. n \in 1..Len(got)
    BY <1>1, <2>1 DEF IInv, Inv, TypeOK, SessionInv
  <2> QED
    BY <1>1, <2>1, <2>2 DEF IInv, Inv, SessionInv, Session
<1>2. CASE pc = "dele"
  BY <1>2 DEF Fresh, IInv, Inv, SessionInv, InMaildir, Session
<1>3. CASE pc = "quit"
  BY <1>3 DEF Fresh, IInv, Inv, SessionInv, InMaildir, Session
<1> QED
  BY <1>1, <1>2, <1>3 DEF Fresh

\* A step to a point without a session: the messages on the server may only
\* become fewer, and nothing is delivered.
LEMMA NoSession ==
    ASSUME IInv, pc' \in {"idle", "login", "closed"},
           \/ nums' = <<>>
           \/ UNCHANGED <<nums, box>>,
           box' \subseteq box,
           sess' \in BOOLEAN, errflag' = errflag, checking' \in BOOLEAN,
           UNCHANGED <<dele, next, at, local>>,
           got' = <<>> \/ UNCHANGED got,
           count' = count,
           excused' \subseteq Msgs, excused \subseteq excused',
           \A m \in Msgs : m \in box' /\ Fresh(m) => m \in excused'
    PROVE  IInv'
<1>1. TypeOK'
  <2>1. errflag' \in BOOLEAN
    BY Zenon DEF IInv, Inv, TypeOK
  <2>2. nums' \in Seq(Msgs) /\ got' \in Seq(Msgs)
    <3>1. <<>> \in Seq(Msgs)
      OBVIOUS
    <3> QED
      BY <3>1, Zenon DEF IInv, Inv, TypeOK
  <2>3. pc' \in {"idle", "login", "retr", "commit", "dele", "quit", "closed"}
    OBVIOUS
  <2> QED
    BY <2>1, <2>2, <2>3 DEF IInv, Inv, TypeOK
<1>2. NumsInv'
  BY DEF IInv, Inv, TypeOK, NumsInv
<1>3. SessionInv'
  BY DEF SessionInv
<1>4. CopiesInv'
  BY DEF IInv, CopiesInv
<1> QED
  BY <1>1, <1>2, <1>3, <1>4 DEF IInv, Inv

\* Every step keeps the invariant.
LEMMA NextIInv == IInv /\ [Next]_vars => IInv'
<1> SUFFICES ASSUME IInv, [Next]_vars PROVE IInv'
  OBVIOUS
<1>0. /\ sess \in BOOLEAN /\ errflag \in BOOLEAN /\ checking \in BOOLEAN
      /\ next \in Nat /\ at \in Nat
      /\ nums \in Seq(Msgs) /\ got \in Seq(Msgs)
      /\ local \subseteq Msgs /\ excused \subseteq Msgs
      /\ box \subseteq Msgs /\ dele \subseteq Nat
  BY DEF IInv, Inv, TypeOK
<1>1. CASE Check
  <2>1. \A m \in Msgs : ~Fresh(m)
    BY <1>1 DEF Check, Fresh
  <2> QED
    BY <1>0, <1>1, <2>1, NoSession DEF Check
<1>2. CASE LoginFails
  <2>1. \A m \in Msgs : ~Fresh(m)
    BY <1>2 DEF LoginFails, Fresh
  <2> QED
    BY <1>0, <1>2, <2>1, NoSession DEF LoginFails, Answered
<1>3. CASE RetrFails
  <2>1. \A m \in Msgs : ~Fresh(m)
    BY <1>3 DEF RetrFails, Fresh
  <2> QED
    BY <1>0, <1>3, <2>1, NoSession DEF RetrFails, Answered
<1>4. CASE Lost
  <2>1. /\ excused' \subseteq Msgs /\ excused \subseteq excused'
        /\ \A m \in Msgs : Fresh(m) => m \in excused'
    BY <1>0, <1>4, SessionMsgs, FreshInSession DEF Lost
  <2> QED
    BY <1>0, <1>4, <2>1, NoSession DEF Lost, Gone
<1>5. CASE Crash
  <2>1. /\ excused' \subseteq Msgs /\ excused \subseteq excused'
        /\ \A m \in Msgs : Fresh(m) => m \in excused'
    BY <1>0, <1>5, SessionMsgs, FreshInSession DEF Crash
  <2>2. box' \subseteq box
    BY <1>5 DEF Crash, Deleted
  <2> QED
    BY <1>0, <1>5, <2>1, <2>2, NoSession DEF Crash, Gone
<1>6. CASE QuitLost
  <2>1. /\ excused' \subseteq Msgs /\ excused \subseteq excused'
        /\ \A m \in Msgs : Fresh(m) => m \in excused'
    BY <1>0, <1>6, SessionMsgs, FreshInSession DEF QuitLost
  <2>2. box' \subseteq box
    BY <1>6 DEF QuitLost, Deleted
  <2>3. pc' \in {"idle", "login"} /\ checking' \in BOOLEAN
    BY <1>0, <1>6 DEF QuitLost, Again, Answered
  <2> QED
    BY <1>0, <1>6, <2>1, <2>2, <2>3, NoSession DEF QuitLost, Again
<1>7. CASE QuitDone
  <2>1. excused' = excused
    BY <1>7 DEF QuitDone
  <2>2. box' \subseteq box
    BY <1>7 DEF QuitDone, Deleted
  <2>3. pc' \in {"idle", "login"} /\ checking' \in BOOLEAN
    BY <1>0, <1>7 DEF QuitDone, Again, Answered
  <2>4. \A m \in Msgs : m \in box' => ~Fresh(m)
    BY <1>7 DEF QuitDone, Deleted, Fresh
  <2> QED
    BY <1>0, <1>7, <2>1, <2>2, <2>3, <2>4, NoSession DEF QuitDone, Again
<1>8. ASSUME NEW m \in Msgs, Arrive(m) PROVE IInv'
  <2>1. TypeOK'
    <3>1. errflag' \in BOOLEAN /\ sess' \in BOOLEAN /\ checking' \in BOOLEAN
      BY <1>0, <1>8, Zenon DEF Arrive
    <3> QED
      BY <1>8, <3>1 DEF IInv, Inv, TypeOK, Arrive
  <2>2. NumsInv'
    BY <1>8 DEF IInv, Inv, NumsInv, Arrive
  <2>3. SessionInv'
    BY <1>8 DEF IInv, Inv, SessionInv, InMaildir, Arrive
  <2>5. \A k \in Msgs : Fresh(k)' <=> Fresh(k)
    BY <1>8 DEF Arrive, Fresh
  <2>6. CopiesInv'
    BY <1>0, <1>8, <2>5 DEF IInv, CopiesInv, Arrive
  <2> QED
    BY <2>1, <2>2, <2>3, <2>6 DEF IInv, Inv
<1>9. CASE LoggedIn
  <2>1. /\ nums' \in Seq(Msgs)
        /\ \A n \in DOMAIN nums' : nums'[n] \in box
        /\ \A n, k \in DOMAIN nums' : nums'[n] = nums'[k] => n = k
    BY <1>9, NumberingsLemma DEF IInv, Inv, LoggedIn
  <2>2. TypeOK'
    <3>1. errflag' \in BOOLEAN /\ sess' \in BOOLEAN /\ checking' \in BOOLEAN
      BY <1>0, <1>9, Zenon DEF LoggedIn
    <3>2. got' \in Seq(Msgs)
      BY <1>9 DEF LoggedIn
    <3> QED
      BY <1>9, <2>1, <3>1, <3>2 DEF IInv, Inv, TypeOK, LoggedIn
  <2>3. NumsInv' /\ SessionInv'
    BY <1>9, <2>1 DEF NumsInv, SessionInv, LoggedIn
  <2>4. \A m \in Msgs : ~Fresh(m)
    BY <1>9 DEF Fresh, LoggedIn
  <2>5. CopiesInv'
    BY <1>9, <2>4 DEF IInv, CopiesInv, LoggedIn
  <2> QED
    BY <2>2, <2>3, <2>5 DEF IInv, Inv
<1>10. CASE Retr
  <2>1. /\ next \in DOMAIN nums /\ nums[next] \in Msgs /\ next = Len(got) + 1
        /\ dele = {} /\ dele' = {}
        /\ \A n \in 1..Len(got) : n \in DOMAIN nums /\ got[n] = nums[n]
    BY <1>0, <1>10 DEF IInv, Inv, SessionInv, Retr, MoreToGet
  <2>2. /\ got' \in Seq(Msgs) /\ Len(got') = Len(got) + 1
        /\ \A n \in 1..Len(got) : got'[n] = got[n]
        /\ got'[next] = nums[next]
    BY <1>0, <1>10, <2>1 DEF Retr
  <2>3. TypeOK'
    <3>1. errflag' \in BOOLEAN /\ sess' \in BOOLEAN /\ checking' \in BOOLEAN
      BY <1>0, <1>10, Zenon DEF Retr
    <3> QED
      BY <1>10, <2>2, <3>1 DEF IInv, Inv, TypeOK, Retr
  <2>4. NumsInv'
    BY <1>10 DEF IInv, Inv, NumsInv, Retr
  <2>5. ASSUME NEW n \in 1..Len(got') PROVE n \in DOMAIN nums /\ got'[n] = nums[n]
    <3>1. n \in 1..Len(got) \/ n = next
      BY <1>0, <2>1, <2>2
    <3> QED
      BY <2>1, <2>2, <3>1
  <2>6. next' = Len(got') + 1
    BY <1>0, <1>10, <2>1, <2>2 DEF Retr
  <2>7. SessionInv'
    BY <1>10, <2>1, <2>5, <2>6 DEF SessionInv, Retr
  <2>8. \A m \in Msgs : ~Fresh(m)
    BY <1>10 DEF Fresh, Retr
  <2>9. CopiesInv'
    BY <1>10, <2>8 DEF IInv, CopiesInv, Retr
  <2> QED
    BY <2>3, <2>4, <2>7, <2>9 DEF IInv, Inv
<1>11. CASE Commit
  <2>1. TypeOK'
    <3>1. errflag' \in BOOLEAN /\ sess' \in BOOLEAN /\ checking' \in BOOLEAN
      BY <1>0, <1>11, Zenon DEF Commit
    <3>2. Len(got) \in Nat
      BY <1>0
    <3> QED
      BY <1>11, <3>1, <3>2 DEF IInv, Inv, TypeOK, Commit
  <2>2. NumsInv'
    BY <1>11 DEF IInv, Inv, NumsInv, Commit
  <2>3. SessionInv'
    BY <1>0, <1>11 DEF IInv, Inv, SessionInv, Commit
  <2>4. \A m \in Msgs : ~Fresh(m)
    BY <1>11 DEF Fresh, Commit
  <2>5. CopiesInv'
    BY <1>11, <2>4 DEF IInv, CopiesInv, Commit
  <2> QED
    BY <2>1, <2>2, <2>3, <2>5 DEF IInv, Inv
<1>12. ASSUME NEW ok \in BOOLEAN, Go(ok) PROVE IInv'
  <2>1. /\ at \in 1..Len(got) /\ at \in DOMAIN nums /\ got[at] = nums[at]
        /\ got[at] \in Msgs /\ pc = "commit" /\ pc' = "commit" /\ dele = {}
        /\ next = Len(got) + 1 /\ Len(got) \in Nat
        /\ \A n \in 1..Len(got) : n \in DOMAIN nums /\ got[n] = nums[n]
    BY <1>0, <1>12 DEF IInv, Inv, SessionInv, Go
  <2>2. /\ local \subseteq local' /\ local' \subseteq local \cup {got[at]}
        /\ ok => got[at] \in local'
        /\ excused' \subseteq excused /\ excused \subseteq excused' \cup {got[at]}
    BY <1>0, <1>12, <2>1 DEF Go
  <2>3. TypeOK'
    <3>1. errflag' \in BOOLEAN /\ sess' \in BOOLEAN /\ checking' \in BOOLEAN
      BY <1>0, <1>12, Zenon DEF Go
    <3> QED
      BY <1>12, <2>1, <2>2, <3>1 DEF IInv, Inv, TypeOK, Go
  <2>4. NumsInv'
    BY <1>12 DEF IInv, Inv, NumsInv, Go
  <2>5. ASSUME ~errflag', NEW n \in 1..(at' - 1) PROVE InMaildir(n)'
    <3>1. ~errflag /\ ok
      BY <1>12, <2>5 DEF Go
    <3>2. n \in 1..(at - 1) \/ n = at
      BY <1>0, <1>12 DEF Go
    <3>3. CASE n = at
      BY <1>12, <2>1, <2>2, <3>1, <3>3 DEF InMaildir, Go
    <3>4. CASE n \in 1..(at - 1)
      <4>1. n \in DOMAIN nums /\ nums[n] \in local
        BY <2>1, <3>1, <3>4 DEF IInv, Inv, SessionInv, InMaildir
      <4> QED
        BY <1>12, <2>2, <4>1 DEF InMaildir, Go
    <3> QED
      BY <3>2, <3>3, <3>4
  <2>6. SessionInv'
    <3>1. at' \in 1..(Len(got') + 1)
      BY <1>12, <2>1 DEF Go
    <3> QED
      BY <1>12, <2>1, <2>5, <3>1 DEF SessionInv, Go
  <2>7. CopiesInv'
    <3>1. SUFFICES ASSUME NEW m \in Msgs, m \in box', m \in local', ~Fresh(m)'
                   PROVE  m \in excused'
      BY DEF CopiesInv
    <3>2. at' = at + 1 /\ got' = got /\ box' = box
      BY <1>12 DEF Go
    <3>3. at \in 1..(at' - 1) /\ \A n \in 1..(at - 1) : n \in 1..(at' - 1)
      BY <1>0, <2>1, <3>2
    <3>4. m # got[at] /\ ~Fresh(m)
      BY <2>1, <3>1, <3>2, <3>3 DEF Fresh
    <3> QED
      BY <2>2, <3>1, <3>2, <3>4 DEF IInv, CopiesInv
  <2> QED
    BY <2>3, <2>4, <2>6, <2>7 DEF IInv, Inv
<1>13. CASE Committed
  <2>1. CASE errflag
    <3>1. /\ excused' \subseteq Msgs /\ excused \subseteq excused'
          /\ \A m \in Msgs : Fresh(m) => m \in excused'
      BY <1>0, <1>13, <2>1, SessionMsgs, FreshInSession DEF Committed
    <3> QED
      BY <1>0, <1>13, <2>1, <3>1, NoSession DEF Committed, Answered
  <2>2. CASE ~errflag
    <3>1. /\ pc = "commit" /\ pc' = "dele" /\ got' = <<>> /\ at > Len(got)
          /\ UNCHANGED <<nums, dele, box, next, at, count, local, excused>>
          /\ UNCHANGED <<sess, errflag, checking>>
      BY <1>13, <2>2, Zenon DEF Committed
    <3>2. at = next /\ dele = {}
      BY <1>0, <3>1 DEF IInv, Inv, SessionInv
    <3>3. TypeOK'
      <4>1. errflag' \in BOOLEAN /\ sess' \in BOOLEAN /\ checking' \in BOOLEAN
        BY <1>0, <3>1, Zenon
      <4>2. got' \in Seq(Msgs)
        BY <3>1
      <4> QED
        BY <3>1, <4>1, <4>2 DEF IInv, Inv, TypeOK
    <3>4. NumsInv'
      BY <3>1 DEF IInv, Inv, NumsInv
    <3>5. \A n \in 1..(next - 1) : InMaildir(n)
      BY <2>2, <3>1, <3>2 DEF IInv, Inv, SessionInv
    <3>6. SessionInv'
      BY <3>1, <3>2, <3>5 DEF SessionInv, InMaildir
    <3>7. \A m \in Msgs : Fresh(m) => Fresh(m)'
      <4>1. \A n \in 1..(at - 1) : got[n] = nums[n]
        BY <1>0, <3>1, <3>2 DEF IInv, Inv, SessionInv
      <4> QED
        BY <3>1, <3>2, <4>1 DEF Fresh
    <3>8. CopiesInv'
      BY <3>1, <3>7 DEF IInv, CopiesInv
    <3> QED
      BY <3>3, <3>4, <3>6, <3>8 DEF IInv, Inv
  <2> QED
    BY <2>1, <2>2
<1>14. ASSUME NEW ok \in BOOLEAN, Dele(ok) PROVE IInv'
  <2>1. /\ pc = "dele" /\ pc' = "dele" /\ next > 1 /\ next' = next - 1
        /\ UNCHANGED <<nums, box, got, at, count, local>>
        /\ UNCHANGED <<sess, errflag, checking>>
        /\ \/ dele' = dele \cup {next - 1} /\ excused' = excused
           \/ dele' = dele /\ excused' = excused \cup {nums[next - 1]}
    BY <1>14, Zenon DEF Dele
  <2>2. next - 1 \in 1..(next - 1) /\ next - 1 \in Nat
    BY <1>0, <2>1
  <2>3. TypeOK'
    <3>1. errflag' \in BOOLEAN /\ sess' \in BOOLEAN /\ checking' \in BOOLEAN
      BY <1>0, <2>1, Zenon
    <3>2. next' \in Nat
      BY <2>1, <2>2
    <3>3. excused' \subseteq Msgs
      <4>1. next - 1 \in DOMAIN nums
        BY <2>1, <2>2 DEF IInv, Inv, SessionInv, InMaildir
      <4>2. nums[next - 1] \in Msgs
        BY <1>0, <4>1
      <4> QED
        BY <1>0, <2>1, <4>2
    <3>4. dele' \subseteq Nat
      BY <1>0, <2>1, <2>2, Zenon
    <3> QED
      BY <2>1, <3>1, <3>2, <3>3, <3>4 DEF IInv, Inv, TypeOK
  <2>4. NumsInv'
    BY <2>1 DEF IInv, Inv, NumsInv
  <2>5. /\ \A n \in 1..(next - 1) : InMaildir(n)
        /\ \A n \in dele : InMaildir(n)
    BY <2>1 DEF IInv, Inv, SessionInv
  <2>6. 1..(next' - 1) \subseteq 1..(next - 1)
    BY <1>0, <2>1
  <2>7. \A n \in (1..(next' - 1)) \cup dele' : InMaildir(n)
    BY <2>1, <2>2, <2>5, <2>6
  <2>8. SessionInv'
    BY <2>1, <2>7 DEF SessionInv, InMaildir
  <2>9. CopiesInv'
    <3>1. CASE dele' = dele \cup {next - 1} /\ excused' = excused
      <4>1. \A n \in 1..(next - 1) : n \in (1..(next' - 1)) \cup {next - 1}
        BY <1>0, <2>1
      <4>2. \A m \in Msgs : Fresh(m) => Fresh(m)'
        BY <2>1, <3>1, <4>1 DEF Fresh
      <4> QED
        BY <2>1, <3>1, <4>2 DEF IInv, CopiesInv
    <3>2. CASE dele' = dele /\ excused' = excused \cup {nums[next - 1]}
      <4>1. \A n \in 1..(next - 1) : n \in 1..(next' - 1) \/ n = next - 1
        BY <1>0, <2>1
      <4>2. \A m \in Msgs : Fresh(m) => Fresh(m)' \/ m = nums[next - 1]
        BY <2>1, <3>2, <4>1 DEF Fresh
      <4> QED
        BY <2>1, <3>2, <4>2 DEF IInv, CopiesInv
    <3> QED
      BY <2>1, <3>1, <3>2
  <2> QED
    BY <2>3, <2>4, <2>8, <2>9 DEF IInv, Inv
<1>15. CASE Quit
  <2>1. TypeOK'
    <3>1. errflag' \in BOOLEAN /\ sess' \in BOOLEAN /\ checking' \in BOOLEAN
      BY <1>0, <1>15, Zenon DEF Quit
    <3> QED
      BY <1>15, <3>1 DEF IInv, Inv, TypeOK, Quit
  <2>2. NumsInv'
    BY <1>15 DEF IInv, Inv, NumsInv, Quit
  <2>3. SessionInv'
    BY <1>15 DEF IInv, Inv, SessionInv, InMaildir, Quit
  <2>4. \A n \in 1..(next - 1) : FALSE
    BY <1>0, <1>15 DEF Quit
  <2>5. \A m \in Msgs : Fresh(m) => Fresh(m)'
    BY <1>15, <2>4 DEF Quit, Fresh
  <2>6. CopiesInv'
    BY <1>15, <2>5 DEF IInv, CopiesInv, Quit
  <2> QED
    BY <2>1, <2>2, <2>3, <2>6 DEF IInv, Inv
<1>16. CASE UNCHANGED vars
  <2>1. UNCHANGED <<pc, nums, sess, dele, box, next, got, at, errflag, count, local,
                    checking, excused>>
    BY <1>16 DEF vars
  <2>2. TypeOK'
    BY <2>1, Zenon DEF IInv, Inv, TypeOK
  <2>3. NumsInv' /\ SessionInv'
    BY <2>1 DEF IInv, Inv, NumsInv, SessionInv, InMaildir
  <2>4. CopiesInv'
    BY <2>1 DEF IInv, CopiesInv, Fresh
  <2> QED
    BY <2>2, <2>3, <2>4 DEF IInv, Inv
<1>17. ASSUME NEW m \in Msgs, Take(m) PROVE IInv'
  <2>1. /\ m \notin box /\ local' = local \ {m}
        /\ UNCHANGED <<pc, nums, dele, box, next, got, at, count, excused>>
        /\ UNCHANGED <<sess, errflag, checking>>
    BY <1>17, Zenon DEF Take
  <2>2. TypeOK'
    <3>1. errflag' \in BOOLEAN /\ sess' \in BOOLEAN /\ checking' \in BOOLEAN
      BY <1>0, <2>1, Zenon
    <3> QED
      BY <2>1, <3>1 DEF IInv, Inv, TypeOK
  <2>3. NumsInv'
    BY <2>1 DEF IInv, Inv, NumsInv
  <2>4. \A n : InMaildir(n) => InMaildir(n)'
    BY <2>1 DEF IInv, Inv, NumsInv, InMaildir
  <2>5. SessionInv'
    BY <2>1, <2>4 DEF IInv, Inv, SessionInv
  <2>6. \A k \in Msgs : Fresh(k)' <=> Fresh(k)
    BY <2>1 DEF Fresh
  <2>7. CopiesInv'
    BY <2>1, <2>6 DEF IInv, CopiesInv
  <2> QED
    BY <2>2, <2>3, <2>5, <2>7 DEF IInv, Inv
<1> QED
  BY <1>1, <1>2, <1>3, <1>4, <1>5, <1>6, <1>7, <1>8, <1>9, <1>10, <1>11, <1>12, <1>13,
     <1>14, <1>15, <1>16, <1>17 DEF Next, Steps

-----------------------------------------------------------------------------
\* The variables of the maildrop keep their types.
THEOREM TypeCorrect == Spec => []TypeOK
<1>1. IInv => TypeOK
  BY DEF IInv, Inv
<1> QED
  BY <1>1, InitIInv, NextIInv, PTL DEF Spec

\* A message that is moved into the maildir has a number in the session.
LEMMA GoNums ==
    ASSUME IInv, pc = "commit", at <= Len(got)
    PROVE  /\ at \in 1..Len(got) /\ at \in DOMAIN nums /\ got[at] = nums[at]
           /\ got[at] \in box /\ got[at] \in Msgs
<1>1. at \in 1..Len(got)
  BY DEF IInv, Inv, TypeOK, SessionInv
<1>2. at \in DOMAIN nums /\ got[at] = nums[at]
  BY <1>1 DEF IInv, Inv, SessionInv
<1> QED
  BY <1>1, <1>2 DEF IInv, Inv, TypeOK, NumsInv

\* It has not been delivered in this session yet.
LEMMA GoFirst ==
    ASSUME IInv, pc = "commit", at <= Len(got)
    PROVE  ~Fresh(got[at])
<1>1. ASSUME NEW n \in 1..(at - 1), got[n] = got[at] PROVE FALSE
  <2>1. n \in 1..Len(got) /\ n # at
    BY GoNums DEF IInv, Inv, TypeOK
  <2>2. n \in DOMAIN nums /\ nums[n] = nums[at]
    BY <1>1, <2>1, GoNums DEF IInv, Inv, SessionInv
  <2> QED
    BY <2>1, <2>2, GoNums DEF IInv, Inv, NumsInv
<1> QED
  BY <1>1 DEF Fresh

\* A message is delivered again only when something has failed since it was
\* delivered last that kept the server from deleting it, however many failures
\* there are, and in whatever order.
THEOREM CopiesExcused == Spec => Copies
<1>1. IInv /\ [Next]_vars =>
        [Go(TRUE) => got[at] \in excused \/ got[at] \notin local]_vars
  <2> SUFFICES ASSUME IInv, Go(TRUE), got[at] \in local PROVE got[at] \in excused
    OBVIOUS
  <2>1. pc = "commit" /\ at <= Len(got)
    BY DEF Go
  <2> QED
    BY <2>1, GoNums, GoFirst DEF IInv, CopiesInv
<1> QED
  BY <1>1, InitIInv, NextIInv, PTL DEF Spec, Copies

\* What the end of a session removes from the server is in the maildir.
LEMMA DeletedLocal ==
    ASSUME IInv, pc = "quit"
    PROVE  {nums[n] : n \in dele} \in SUBSET local
BY DEF IInv, Inv, TypeOK, SessionInv, InMaildir

\* The maildrop implements the abstract transfer of mail: pop3maildrop never
\* makes the server delete a message that the maildir does not have, for any
\* messages and any size of a batch.
THEOREM Implements == Spec => Moves
<1>1. Init => MT!Init
  BY DEF Init, MT!Init
<1>2. IInv /\ [Next]_vars => [MT!Next]_<<box, local>>
  <2> SUFFICES ASSUME IInv, [Next]_vars PROVE MT!Next \/ UNCHANGED <<box, local>>
    OBVIOUS
  <2>1. ASSUME NEW m \in Msgs, Arrive(m) \/ Take(m) PROVE MT!Next
    BY <2>1 DEF Arrive, Take, MT!Next, MT!Arrive, MT!Take
  <2>2. ASSUME pc = "quit", box' = Deleted, UNCHANGED local PROVE MT!Next
    <3> DEFINE ms == {nums[n] : n \in dele}
    <3>1. ms \in SUBSET local /\ ms \in SUBSET Msgs
      BY <2>2, DeletedLocal DEF IInv, Inv, TypeOK
    <3>2. MT!Remove(ms)
      BY <2>2, <3>1 DEF MT!Remove, Deleted
    <3> QED
      BY <3>1, <3>2 DEF MT!Next
  <2>3. ASSUME NEW ok \in BOOLEAN, Go(ok) PROVE MT!Next \/ UNCHANGED <<box, local>>
    <3>1. CASE ~ok
      BY <2>3, <3>1 DEF Go
    <3>2. CASE ok
      <4>1. pc = "commit" /\ at <= Len(got)
            /\ local' = local \cup {got[at]} /\ UNCHANGED box
        BY <2>3, <3>2 DEF Go
      <4> QED
        BY <4>1, GoNums DEF MT!Next, MT!Copy
    <3> QED
      BY <3>1, <3>2
  <2>4. CASE QuitDone
    BY <2>2, <2>4 DEF QuitDone
  <2>5. CASE QuitLost
    BY <2>2, <2>5 DEF QuitLost
  <2>6. CASE Crash
    BY <2>2, <2>6 DEF Crash
  <2>7. CASE \E ok \in BOOLEAN : Dele(ok)
    BY <2>7 DEF Dele
  <2>8. CASE LoginFails \/ LoggedIn \/ Retr \/ RetrFails \/ Commit \/ Committed
    BY <2>8 DEF LoginFails, LoggedIn, Retr, RetrFails, Commit, Committed
  <2>9. CASE Quit \/ Check \/ Lost \/ UNCHANGED vars
    BY <2>9 DEF Quit, Check, Lost, vars
  <2> QED
    BY <2>1, <2>3, <2>4, <2>5, <2>6, <2>7, <2>8, <2>9 DEF Next, Steps
<1> QED
  BY <1>1, <1>2, InitIInv, NextIInv, PTL DEF Spec, Moves, MT!Spec
=============================================================================
