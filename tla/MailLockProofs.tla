--------------------------- MODULE MailLockProofs ---------------------------
(***************************************************************************)
(* Proofs about MailLock, for any processes, hosts and inodes.             *)
(***************************************************************************)
EXTENDS MailLock, TLAPS

(***************************************************************************)
(* The labels at which ll_mail.cclientfd may be open.                      *)
(***************************************************************************)
Owning == {"d_link", "d_read", "d_kill", "d_unlink", "m_lock", "m_fallback",
           "held", "f_trunc", "f_unlink"}

Owner(p) == p \in chas \/ pc[p] \in Creating

(***************************************************************************)
(* What the label of a process says about the state it keeps.              *)
(***************************************************************************)
LabelInv ==
    \A p \in Procs :
        /\ p \in chas => pc[p] \in Owning
        /\ pc[p] = "f_unlink" => p \in chas
        /\ pc[p] = "f_dunlink" => p \in dot
        /\ (Owner(p) \/ pc[p] \in Examining) => cfd[p] \in Inodes
        /\ (p \in Writers \cap DirWriters /\ pc[p] \in {"m_lock", "held"}) => p \in dot
        /\ (p \in DirWriters /\ pc[p] = "m_fallback") => p \notin Writers

(***************************************************************************)
(* ll_lockfd on the mailbox.                                               *)
(***************************************************************************)
MlockInv ==
    /\ \A p \in Procs : pc[p] = "held" /\ p \notin Rereads => p \in mlock
    /\ \A p \in mlock : pc[p] = "held"
    /\ \A p, q \in mlock : p # q => p \notin Writers /\ q \notin Writers

(***************************************************************************)
(* No two processes have created the same inode.                           *)
(***************************************************************************)
OwnersInv ==
    \A p, q \in Procs : p # q /\ Owner(p) /\ Owner(q) => cfd[p] # cfd[q]

(***************************************************************************)
(* While nobody has died and nothing has become old, nobody is on its way  *)
(* to remove somebody else's lock file, and lock files belong to the       *)
(* processes that created them.                                            *)
(***************************************************************************)
Quiet == Gone = {} /\ ~aged

QuietInv ==
    Quiet => /\ cold = {}
             /\ ~dold
             /\ \A p \in Procs :
                   /\ pc[p] \notin {"c_unlink", "d_unlink"}
                   /\ p \in dot => dfile = p
                   /\ Owner(p) => cfile[Host[p]] = cfd[p]

IInv == TypeOK /\ LabelInv /\ MlockInv /\ OwnersInv /\ QuietInv

-----------------------------------------------------------------------------
\* Nobody has started: every part of the invariant holds.
LEMMA InitIInv == Init => IInv
  <1> SUFFICES ASSUME Init PROVE IInv
    OBVIOUS
  <1>1. TypeOK
    BY ProcsAssumption DEF Init, TypeOK, Labels
  <1>2. LabelInv
    BY DEF Init, LabelInv, Owner, Creating, Examining, Owning
  <1>3. MlockInv
    BY DEF Init, MlockInv
  <1>4. OwnersInv
    BY DEF Init, OwnersInv, Owner, Creating
  <1>5. QuietInv
    BY DEF Init, QuietInv, Owner, Creating
  <1> QED
    BY <1>1, <1>2, <1>3, <1>4, <1>5 DEF IInv

(***************************************************************************)
(* Every step preserves every part of the invariant; first, the types.     *)
(***************************************************************************)
LEMMA TypeStep ==
    ASSUME TypeOK, LabelInv, [Next]_vars PROVE TypeOK'
  <1> USE ProcsAssumption DEF TypeOK, Labels, Creating, Examining, Forget, Hosts,
          Goto, At, AfterCFail, cvars, dvars
  <1>1. CASE UNCHANGED vars
    BY <1>1 DEF vars
  <1>2. ASSUME NEW p \in Procs, Step(p) \/ Reread(p) PROVE TypeOK'
    <2>1. ASSUME NEW i \in Inodes, CCreate(p, i) PROVE TypeOK'
      BY <2>1 DEF CCreate
    <2>2. CASE CExists(p)
      BY <2>2 DEF CExists
    <2>3. CASE Start(p) \/ CWlock(p) \/ CWriteId(p)
      BY <2>3 DEF Start, CWlock, CWriteId
    <2>4. CASE CCheck(p) \/ COpen(p) \/ CReadId(p)
      <3>1. CASE CCheck(p)
        BY <3>1 DEF CCheck
      <3>2. CASE COpen(p)
        BY <3>2 DEF COpen
      <3>3. CASE CReadId(p)
        <4>1. cfd[p] \in Inodes
          BY <3>3 DEF CReadId, LabelInv
        <4> QED
          BY <3>3, <4>1 DEF CReadId
      <3> QED
        BY <2>4, <3>1, <3>2, <3>3
    <2>5. CASE CKill(p) \/ CRlock(p)
      BY <2>5 DEF CKill, CRlock
    <2>6. CASE CClose(p) \/ CStat(p) \/ CUnlink(p)
      BY <2>6 DEF CClose, CStat, CUnlink
    <2>7. CASE DLink(p)
      <3>1. dold' \in BOOLEAN
        BY <2>7 DEF DLink
      <3> QED
        BY <2>7, <3>1 DEF DLink
    <2>8. CASE MLock(p) \/ MFallback(p)
      BY <2>8 DEF MLock, MFallback
    <2>9. CASE DRead(p) \/ DKill(p) \/ DUnlink(p)
      <3>1. dold' \in BOOLEAN
        BY <2>9 DEF DRead, DKill, DUnlink
      <3> QED
        BY <2>9, <3>1 DEF DRead, DKill, DUnlink
    <2>10. CASE Release(p) \/ Reread(p)
      BY <2>10 DEF Release, Reread
    <2>11. CASE FTrunc(p)
      BY <2>11 DEF FTrunc
    <2>12. CASE FUnlink(p) \/ FDot(p)
      BY <2>12 DEF FUnlink, FDot
    <2>13. CASE FDUnlink(p) \/ Again(p)
      <3>1. dold' \in BOOLEAN
        BY <2>13 DEF FDUnlink, Again
      <3> QED
        BY <2>13, <3>1 DEF FDUnlink, Again
    <2> QED
      BY <1>2, <2>1, <2>2, <2>3, <2>4, <2>5, <2>6, <2>7, <2>8, <2>9, <2>10, <2>11, <2>12, <2>13 DEF Step, CStep, DStep, FStep
  <1>3. ASSUME NEW p \in Procs, Exit(p) \/ Crash(p) PROVE TypeOK'
    BY <1>3 DEF Exit, Crash, End
  <1>4. CASE AgeC \/ AgeD
    <2>1. dold' \in BOOLEAN /\ aged' \in BOOLEAN
      BY <1>4 DEF AgeC, AgeD
    <2> QED
      BY <1>4, <2>1 DEF AgeC, AgeD
  <1>5. CASE Over
    BY <1>1, <1>5 DEF Over
  <1> QED
    BY <1>1, <1>2, <1>3, <1>4, <1>5 DEF Next

\* What a process holds keeps following from the call that it is about to make.
LEMMA LabelStep ==
    ASSUME TypeOK, LabelInv, [Next]_vars PROVE LabelInv'
  <1> USE ProcsAssumption DEF TypeOK, Creating, Examining, Owning, Owner, LabelInv, Hosts,
          Goto, At, AfterCFail, cvars, dvars
  <1>1. CASE UNCHANGED vars
    BY <1>1 DEF vars
  <1>2. ASSUME NEW p \in Procs, Step(p) \/ Reread(p) PROVE LabelInv'
    <2>1. ASSUME NEW i \in Inodes, CCreate(p, i) PROVE LabelInv'
      BY <2>1 DEF CCreate
    <2>2. CASE CExists(p)
      BY <2>2 DEF CExists
    <2>3. CASE Start(p) \/ CWlock(p) \/ CWriteId(p)
      BY <2>3 DEF Start, CWlock, CWriteId
    <2>4. CASE CCheck(p) \/ COpen(p) \/ CReadId(p)
      BY <2>4 DEF CCheck, COpen, CReadId
    <2>5. CASE CKill(p) \/ CRlock(p)
      BY <2>5 DEF CKill, CRlock
    <2>6. CASE CClose(p) \/ CStat(p) \/ CUnlink(p)
      BY <2>6 DEF CClose, CStat, CUnlink
    <2>7. CASE DLink(p)
      BY <2>7 DEF DLink
    <2>8. CASE MLock(p) \/ MFallback(p)
      BY <2>8 DEF MLock, MFallback
    <2>9. CASE DRead(p) \/ DKill(p) \/ DUnlink(p)
      BY <2>9 DEF DRead, DKill, DUnlink
    <2>10. CASE Release(p) \/ Reread(p)
      BY <2>10 DEF Release, Reread
    <2>11. CASE FTrunc(p)
      BY <2>11 DEF FTrunc
    <2>12. CASE FUnlink(p) \/ FDot(p)
      BY <2>12 DEF FUnlink, FDot
    <2>13. CASE FDUnlink(p) \/ Again(p)
      BY <2>13 DEF FDUnlink, Again
    <2> QED
      BY <1>2, <2>1, <2>2, <2>3, <2>4, <2>5, <2>6, <2>7, <2>8, <2>9, <2>10, <2>11, <2>12, <2>13 DEF Step, CStep, DStep, FStep
  <1>3. ASSUME NEW p \in Procs, Exit(p) \/ Crash(p) PROVE LabelInv'
    BY <1>3 DEF Exit, Crash, End
  <1>4. CASE AgeC \/ AgeD
    BY <1>4 DEF AgeC, AgeD
  <1>5. CASE Over
    BY <1>1, <1>5 DEF Over
  <1> QED
    BY <1>1, <1>2, <1>3, <1>4, <1>5 DEF Next

\* ll_lockfd on the mailbox keeps excluding everybody beside a writer.
LEMMA MlockStep ==
    ASSUME TypeOK, MlockInv, [Next]_vars PROVE MlockInv'
  <1> USE DEF TypeOK, MlockInv, MailboxLockable,
          Goto, At, AfterCFail, cvars, dvars
  <1>1. CASE UNCHANGED vars
    BY <1>1 DEF vars
  <1>2. ASSUME NEW p \in Procs, Step(p) \/ Reread(p) PROVE MlockInv'
    <2>1. ASSUME NEW i \in Inodes, CCreate(p, i) PROVE MlockInv'
      BY <2>1 DEF CCreate
    <2>2. CASE CExists(p)
      BY <2>2 DEF CExists
    <2>3. CASE Start(p) \/ CWlock(p) \/ CWriteId(p)
      BY <2>3 DEF Start, CWlock, CWriteId
    <2>4. CASE CCheck(p) \/ COpen(p) \/ CReadId(p)
      BY <2>4 DEF CCheck, COpen, CReadId
    <2>5. CASE CKill(p) \/ CRlock(p)
      BY <2>5 DEF CKill, CRlock
    <2>6. CASE CClose(p) \/ CStat(p) \/ CUnlink(p)
      BY <2>6 DEF CClose, CStat, CUnlink
    <2>7. CASE DLink(p)
      BY <2>7 DEF DLink
    <2>8. CASE MLock(p) \/ MFallback(p)
      BY <2>8 DEF MLock, MFallback
    <2>9. CASE DRead(p) \/ DKill(p) \/ DUnlink(p)
      BY <2>9 DEF DRead, DKill, DUnlink
    <2>10. CASE Release(p) \/ Reread(p)
      BY <2>10 DEF Release, Reread
    <2>11. CASE FTrunc(p)
      BY <2>11 DEF FTrunc
    <2>12. CASE FUnlink(p) \/ FDot(p)
      BY <2>12 DEF FUnlink, FDot
    <2>13. CASE FDUnlink(p) \/ Again(p)
      BY <2>13 DEF FDUnlink, Again
    <2> QED
      BY <1>2, <2>1, <2>2, <2>3, <2>4, <2>5, <2>6, <2>7, <2>8, <2>9, <2>10, <2>11, <2>12, <2>13 DEF Step, CStep, DStep, FStep
  <1>3. ASSUME NEW p \in Procs, Exit(p) \/ Crash(p) PROVE MlockInv'
    BY <1>3 DEF Exit, Crash, End
  <1>4. CASE AgeC \/ AgeD
    BY <1>4 DEF AgeC, AgeD
  <1>5. CASE Over
    BY <1>1, <1>5 DEF Over
  <1> QED
    BY <1>1, <1>2, <1>3, <1>4, <1>5 DEF Next

\* A lock file's owner keeps being the one that the file names.
LEMMA OwnersStep ==
    ASSUME TypeOK, LabelInv, OwnersInv, [Next]_vars PROVE OwnersInv'
  <1> USE DEF TypeOK, LabelInv, OwnersInv, Owner, Owning, Creating, Examining,
          Goto, At, AfterCFail, cvars, dvars
  <1>1. CASE UNCHANGED vars
    BY <1>1 DEF vars
  <1>2. ASSUME NEW p \in Procs, Step(p) \/ Reread(p) PROVE OwnersInv'
    <2>1. ASSUME NEW i \in Inodes, CCreate(p, i) PROVE OwnersInv'
      BY <2>1 DEF CCreate
    <2>2. CASE CExists(p)
      BY <2>2 DEF CExists
    <2>3. CASE Start(p) \/ CWlock(p)
      BY <2>3 DEF Start, CWlock
    <2>4. CASE CWriteId(p)
      BY <2>4 DEF CWriteId
    <2>5. CASE CCheck(p) \/ COpen(p) \/ CReadId(p)
      BY <2>5 DEF CCheck, COpen, CReadId
    <2>6. CASE CKill(p) \/ CRlock(p)
      BY <2>6 DEF CKill, CRlock
    <2>7. CASE CClose(p) \/ CStat(p) \/ CUnlink(p)
      BY <2>7 DEF CClose, CStat, CUnlink
    <2>8. CASE DLink(p)
      BY <2>8 DEF DLink
    <2>9. CASE MLock(p) \/ MFallback(p)
      BY <2>9 DEF MLock, MFallback
    <2>10. CASE DRead(p) \/ DKill(p) \/ DUnlink(p)
      BY <2>10 DEF DRead, DKill, DUnlink
    <2>11. CASE Release(p) \/ Reread(p)
      BY <2>11 DEF Release, Reread
    <2>12. CASE FTrunc(p)
      BY <2>12 DEF FTrunc
    <2>13. CASE FUnlink(p) \/ FDot(p)
      BY <2>13 DEF FUnlink, FDot
    <2>14. CASE FDUnlink(p) \/ Again(p)
      BY <2>14 DEF FDUnlink, Again
    <2> QED
      BY <1>2, <2>1, <2>2, <2>3, <2>4, <2>5, <2>6, <2>7, <2>8, <2>9, <2>10, <2>11, <2>12, <2>13, <2>14 DEF Step, CStep, DStep, FStep
  <1>3. ASSUME NEW p \in Procs, Exit(p) \/ Crash(p) PROVE OwnersInv'
    BY <1>3 DEF Exit, Crash, End
  <1>4. CASE AgeC \/ AgeD
    BY <1>4 DEF AgeC, AgeD
  <1>5. CASE Over
    BY <1>1, <1>5 DEF Over
  <1> QED
    BY <1>1, <1>2, <1>3, <1>4, <1>5 DEF Next

\* Without deaths and old files, nobody gets to the point of removing a lock
\* file that is not its own.
LEMMA QuietStep ==
    ASSUME TypeOK, LabelInv, OwnersInv, QuietInv, [Next]_vars PROVE QuietInv'
  <1> USE ProcsAssumption DEF TypeOK, LabelInv, OwnersInv, QuietInv, Quiet, Gone,
          Owner, Owning, Creating, Examining, Hosts, Goto, At, AfterCFail, cvars, dvars
  <1>1. CASE UNCHANGED vars
    BY <1>1 DEF vars
  <1>2. ASSUME NEW p \in Procs, Step(p) \/ Reread(p) PROVE QuietInv'
    <2>1. ASSUME NEW i \in Inodes, CCreate(p, i) PROVE QuietInv'
      BY <2>1 DEF CCreate
    <2>2. CASE CExists(p)
      BY <2>2 DEF CExists
    <2>3. CASE Start(p) \/ CWlock(p)
      <3>1. CASE Start(p)
        BY <3>1 DEF Start
      <3>2. CASE CWlock(p)
        <4>1. \A q \in Procs \ {p} : pc'[q] = pc[q]
          BY <3>2 DEF CWlock
        <4>2. pc'[p] \in {"c_writeid", "f_trunc", "d_link"} /\ pc[p] = "c_wlock"
          BY <3>2 DEF CWlock
        <4>3. \A q \in Procs : Owner(q)' => Owner(q)
          BY <3>2, <4>1, <4>2 DEF CWlock
        <4>4. \A q \in Procs : Owner(q)' => cfd'[q] = cfd[q]
          BY <3>2, <4>1, <4>2 DEF CWlock
        <4> QED
          BY <3>2, <4>1, <4>2, <4>3, <4>4 DEF CWlock
      <3> QED
        BY <2>3, <3>1, <3>2
    <2>4. CASE CWriteId(p)
      BY <2>4, SMTT(30) DEF CWriteId
    <2>5. CASE CCheck(p) \/ COpen(p)
      BY <2>5 DEF CCheck, COpen
    <2>6. CASE CReadId(p) \/ CKill(p)
      BY <2>6 DEF CReadId, CKill
    <2>7. CASE CRlock(p)
      BY <2>7, SMTT(30) DEF CRlock
    <2>8. CASE CClose(p) \/ CStat(p) \/ CUnlink(p)
      <3>1. CASE CClose(p)
        BY <3>1 DEF CClose
      <3>2. CASE CStat(p)
        BY <3>2 DEF CStat
      <3>3. CASE CUnlink(p)
        BY <3>3 DEF CUnlink
      <3> QED
        BY <2>8, <3>1, <3>2, <3>3
    <2>9. CASE DLink(p)
      BY <2>9 DEF DLink
    <2>10. CASE MLock(p) \/ MFallback(p)
      BY <2>10 DEF MLock, MFallback
    <2>11. CASE DRead(p) \/ DKill(p) \/ DUnlink(p)
      BY <2>11 DEF DRead, DKill, DUnlink
    <2>12. CASE Release(p) \/ Reread(p)
      BY <2>12 DEF Release, Reread
    <2>13. CASE FTrunc(p)
      <3>1. CASE p \in chas /\ cid[cfd[p]] = p
        BY <2>13, <3>1 DEF FTrunc
      <3>2. CASE ~(p \in chas /\ cid[cfd[p]] = p)
        BY <2>13, <3>2 DEF FTrunc
      <3> QED
        BY <3>1, <3>2
    <2>14. CASE FUnlink(p)
      BY <2>14 DEF FUnlink
    <2>15. CASE FDot(p) \/ FDUnlink(p)
      BY <2>15 DEF FDot, FDUnlink
    <2>16. CASE Again(p)
      BY <2>16 DEF Again
    <2> QED
      BY <1>2, <2>1, <2>2, <2>3, <2>4, <2>5, <2>6, <2>7, <2>8, <2>9, <2>10, <2>11, <2>12, <2>13, <2>14, <2>15, <2>16 DEF Step, CStep, DStep, FStep
  <1>3. ASSUME NEW p \in Procs, Exit(p) \/ Crash(p) PROVE QuietInv'
    BY <1>3 DEF Exit, Crash, End
  <1>4. CASE AgeC \/ AgeD
    BY <1>4 DEF AgeC, AgeD
  <1>5. CASE Over
    BY <1>1, <1>5 DEF Over
  <1> QED
    BY <1>1, <1>2, <1>3, <1>4, <1>5 DEF Next

-----------------------------------------------------------------------------
\* The invariant holds in every state of every behaviour.
LEMMA Inductive == Spec => []IInv
  <1>1. IInv /\ [Next]_vars => IInv'
    BY TypeStep, LabelStep, MlockStep, OwnersStep, QuietStep DEF IInv
  <1> QED
    BY InitIInv, <1>1, PTL DEF Spec

(***************************************************************************)
(* Every variable of the protocol keeps its type.                          *)
(***************************************************************************)
THEOREM TypeCorrect == Spec => []TypeOK
  BY Inductive, PTL DEF IInv

(***************************************************************************)
(* ll_lockfd on the mailbox keeps everybody apart from a writer through    *)
(* crashes and the removal of lock files, when no holder closes a          *)
(* duplicate of its descriptor.                                            *)
(***************************************************************************)
THEOREM Exclusion == ASSUME Rereads = {} PROVE Spec => []WriteExclusion
  <1>1. IInv => WriteExclusion
    BY DEF IInv, MlockInv, WriteExclusion, Holders
  <1> QED
    BY Inductive, <1>1, PTL

(***************************************************************************)
(* Without deaths and old files, the lock files belong to those who think  *)
(* they own them.                                                          *)
(***************************************************************************)
THEOREM LockFilesSafe == Spec => []LockFilesKept
  <1>1. IInv => LockFilesKept
    BY DEF IInv, QuietInv, Quiet, Owner, LockFilesKept
  <1> QED
    BY Inductive, <1>1, PTL

(***************************************************************************)
(* Without deaths and old files, the dot-lock alone keeps writers apart.   *)
(***************************************************************************)
THEOREM DotlockSafe == Spec => []WritersKeptApart
  <1>1. IInv => WritersKeptApart
    BY ProcsAssumption DEF IInv, LabelInv, QuietInv, Quiet, WritersKeptApart, Holders
  <1> QED
    BY Inductive, <1>1, PTL

(***************************************************************************)
(* How the set of holders changes when a process goes to a label.          *)
(***************************************************************************)
LEMMA HoldersGoto ==
    ASSUME NEW p \in Procs, NEW l, pc \in [Procs -> Labels], Goto(p, l)
    PROVE  Holders' = IF l = "held" THEN Holders \cup {p} ELSE Holders \ {p}
  <1>1. \A q \in Procs : pc'[q] = IF q = p THEN l ELSE pc[q]
    BY DEF Goto
  <1> QED
    BY <1>1 DEF Holders

\* The set of holders is determined by who is at "held".
LEMMA HoldersSame ==
    ASSUME \A q \in Procs : pc'[q] = "held" <=> pc[q] = "held"
    PROVE  Holders' = Holders
  BY DEF Holders

(***************************************************************************)
(* The protocol implements MailboxMutex, when no holder closes a duplicate *)
(* of its descriptor.                                                      *)
(***************************************************************************)
THEOREM Implements == ASSUME Rereads = {} PROVE Spec => MutexSpec
  <1>1. Init => Mutex!Init
    BY DEF Init, Mutex!Init, Holders
  <1>2. ASSUME IInv, [Next]_vars PROVE [Mutex!Next]_Holders
    <2> USE <1>2 DEF IInv, TypeOK, AfterCFail
    <2>1. CASE UNCHANGED vars
      BY <2>1, HoldersSame DEF vars
    <2>2. ASSUME NEW p \in Procs, CStep(p) \/ Start(p) \/ Again(p)
          PROVE  Holders' = Holders
      <3>1. \A q \in Procs : pc'[q] = "held" <=> pc[q] = "held"
        BY <2>2 DEF CStep, Start, Again, CCreate, CExists, CWlock, CWriteId, CCheck,
                    COpen, CReadId, CKill, CRlock, CClose, CStat, CUnlink, Goto, At
      <3> QED
        BY <3>1, HoldersSame
    <2>3. ASSUME NEW p \in Procs, \/ DLink(p) \/ DRead(p) \/ DKill(p) \/ DUnlink(p)
                                  \/ FTrunc(p) \/ FUnlink(p) \/ FDot(p) \/ FDUnlink(p)
          PROVE  Holders' = Holders
      <3>1. \A q \in Procs : pc'[q] = "held" <=> pc[q] = "held"
        BY <2>3 DEF DLink, DRead, DKill, DUnlink, FTrunc, FUnlink, FDot, FDUnlink,
                    Goto, At
      <3> QED
        BY <3>1, HoldersSame
    <2>4. ASSUME NEW p \in Procs, MLock(p) \/ MFallback(p)
          PROVE  Mutex!Enter(p) \/ Holders' = Holders
      <3>1. Holders = mlock
        BY DEF Holders, MlockInv
      <3>2. p \notin Holders
        BY <2>4 DEF MLock, MFallback, At, Holders
      <3>3. CASE MailboxLockable(p)
        <4>1. Goto(p, "held")
          BY <2>4, <3>3 DEF MLock, MFallback
        <4>2. Holders' = Holders \cup {p}
          BY <4>1, HoldersGoto
        <4> QED
          BY <3>1, <3>2, <3>3, <4>2 DEF MailboxLockable, Mutex!Enter
      <3>4. CASE ~MailboxLockable(p)
        <4>1. \A q \in Procs : pc'[q] = "held" <=> pc[q] = "held"
          BY <2>4, <3>4 DEF MLock, MFallback, Goto, At
        <4> QED
          BY <4>1, HoldersSame
      <3> QED
        BY <3>3, <3>4
    <2>5. ASSUME NEW p \in Procs, Release(p) \/ Reread(p)
          PROVE  Mutex!Leave(p)
      <3>1. Goto(p, "f_trunc") /\ p \in Holders
        BY <2>5 DEF Release, Reread, At, Holders
      <3>2. Holders' = Holders \ {p}
        BY <3>1, HoldersGoto
      <3> QED
        BY <3>1, <3>2 DEF Mutex!Leave
    <2>6. ASSUME NEW p \in Procs, Exit(p) \/ Crash(p)
          PROVE  Mutex!Leave(p) \/ Holders' = Holders
      <3>1. Goto(p, "gone")
        BY <2>6 DEF Exit, Crash, End
      <3>2. Holders' = Holders \ {p}
        BY <3>1, HoldersGoto
      <3> QED
        BY <3>2 DEF Mutex!Leave
    <2>7. CASE AgeC \/ AgeD \/ Over
      <3>1. pc' = pc
        BY <2>7 DEF AgeC, AgeD, Over, vars
      <3> QED
        BY <3>1, HoldersSame
    <2> QED
      BY <2>1, <2>2, <2>3, <2>4, <2>5, <2>6, <2>7
         DEF Next, Step, DStep, FStep, Mutex!Next
  <1> QED
    BY Inductive, <1>1, <1>2, PTL DEF Spec, MutexSpec, Mutex!Spec
=============================================================================
