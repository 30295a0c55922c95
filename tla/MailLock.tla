------------------------------ MODULE MailLock ------------------------------
(***************************************************************************)
(* The mailbox locking protocol of liblock/mail.c, as mail::mbox::lock     *)
(* drives it (libmail/mbox.C).  A process takes three locks, in this       *)
(* order:                                                                  *)
(*                                                                         *)
(*   - the c-client lock: a file in /tmp, on the process's own host, named *)
(*     after the mailbox's device and inode, created with O_EXCL, locked   *)
(*     with ll_lockfd and holding the owner's "pid:host";                  *)
(*   - the dot-lock: <mailbox>.lock, created with link(), visible to every *)
(*     host, holding the same "pid:host";                                  *)
(*   - ll_lockfd on the mailbox itself.                                    *)
(*                                                                         *)
(* One action is one system call (or several that no other process can     *)
(* tell apart).  A process may die between any two of them: the kernel     *)
(* closes its descriptors, which drops its ll_lockfd locks, and its lock   *)
(* files stay behind.                                                      *)
(***************************************************************************)
EXTENDS Naturals, FiniteSets

CONSTANTS
    Procs,          \* processes; one stands for its "pid:host" string
    Writers,        \* the processes that want a read/write lock
    Persistent,     \* the processes whose caller never gives up
    OneShot,        \* the ones whose caller gives up after one attempt
    Host,           \* Host[p]: the host p runs on
    Inodes,         \* inode numbers of /tmp for c-client lock files
    DirWriters,     \* the ones that may create files in the mailbox's directory
    DiskFills,      \* may a write of the id fail for lack of space?
    Rereads,        \* the processes that read through mail::file and then
                    \* keep the lock (mail::mbox::MultiLock; ExpungeTask,
                    \* between reading the folder and the rename)
    None            \* no file, no process, no id

Hosts == {Host[p] : p \in Procs}

ASSUME ProcsAssumption ==
    /\ Writers \subseteq Procs
    /\ Persistent \subseteq Procs
    /\ OneShot \subseteq Procs
    /\ Rereads \subseteq Procs
    /\ Host \in [Procs -> Hosts]
    /\ None \notin Procs
    /\ None \notin Inodes
    /\ DirWriters \subseteq Procs
    /\ DiskFills \in BOOLEAN

VARIABLES
    pc,         \* pc[p]: the system call that p is about to make
    cfile,      \* cfile[h]: inode of the c-client lock file of host h
    cid,        \* cid[i]: the process named in inode i, None when it is empty
    cold,       \* the inodes last modified more than 300 seconds ago
    cfd,        \* cfd[p]: the inode p has open, as creator or as reader
    chas,       \* the processes whose ll_mail.cclientfd >= 0
    dfile,      \* the process named in the dot-lock, None when there is none
    dold,       \* the dot-lock was created more than 300 seconds ago
    dot,        \* the processes whose ll_mail.dotlock # NULL
    seen,       \* seen[p]: the id p read from somebody else's lock file
    mlock,      \* the processes that hold ll_lockfd on the mailbox itself
    aged        \* history: some lock file has got older than 300 seconds

vars == <<pc, cfile, cid, cold, cfd, chas, dfile, dold, dot, seen, mlock, aged>>

cvars == <<cfile, cid, cold, cfd, chas>>
dvars == <<dfile, dold, dot>>

Gone == {p \in Procs : pc[p] = "gone"}
Holders == {p \in Procs : pc[p] = "held"}

Creating == {"c_wlock", "c_writeid", "c_check"}
Examining == {"c_readid", "c_kill", "c_rlock", "c_rlocked"}
Labels == Creating \cup Examining \cup
    {"idle", "c_excl", "c_open", "c_unlink", "c_stat", "d_link",
     "d_read", "d_kill", "d_unlink", "m_lock", "m_fallback", "held",
     "f_trunc", "f_unlink", "f_dot", "f_dunlink", "done", "gone"}

-----------------------------------------------------------------------------
Init ==
    /\ pc = [p \in Procs |-> "idle"]
    /\ cfile = [h \in Hosts |-> None]
    /\ cid = [i \in Inodes |-> None]
    /\ cold = {}
    /\ cfd = [p \in Procs |-> None]
    /\ chas = {}
    /\ dfile = None
    /\ dold = FALSE
    /\ dot = {}
    /\ seen = [p \in Procs |-> None]
    /\ mlock = {}
    /\ aged = FALSE

Goto(p, l) == pc' = [pc EXCEPT ![p] = l]

Forget(p) == seen' = [seen EXCEPT ![p] = None]

At(p, l) == pc[p] = l

(***************************************************************************)
(* ll_lockfd (fcntl F_SETLK) on the c-client lock file: the creator's lock *)
(* is a write lock, held from c_wlock until its descriptor is closed; the  *)
(* examiner's is a read lock, held at c_rlocked.                           *)
(***************************************************************************)
WriteLocked(i, p) ==
    \E q \in Procs \ {p} : cfd[q] = i /\ (q \in chas \/ pc[q] \in Creating \ {"c_wlock"})

ReadLocked(i, p) == \E q \in Procs \ {p} : cfd[q] = i /\ pc[q] = "c_rlocked"

(***************************************************************************)
(* ll_lockfd on the mailbox.                                               *)
(***************************************************************************)
\* Mutant: a reader does not ask for a lock.
MailboxLockableMutant(p) == p \in Writers => mlock \ {p} = {}

MailboxLockable(p) ==
    IF p \in Writers THEN mlock \ {p} = {} ELSE mlock \cap (Writers \ {p}) = {}

(***************************************************************************)
(* ll_mail_lock has failed.  A writer gives up (and frees what it holds);  *)
(* mail::mbox::lock goes on without the c-client lock for a reader.        *)
(***************************************************************************)
AfterCFail(p) == IF p \in Writers THEN "f_trunc" ELSE "d_link"

-----------------------------------------------------------------------------
(* ll_mail_lock: the c-client lock.                                        *)

\* A caller allocates an ll_mail and starts.
Start(p) ==
    /\ At(p, "idle")
    /\ Goto(p, "c_excl")
    /\ UNCHANGED <<cvars, dvars, seen, mlock, aged>>

\* open(O_CREAT|O_EXCL): a fresh, empty inode...
CCreate(p, i) ==
    /\ At(p, "c_excl")
    /\ cfile[Host[p]] = None
    /\ \A h \in Hosts : cfile[h] # i
    /\ \A q \in Procs : cfd[q] # i
    /\ cfile' = [cfile EXCEPT ![Host[p]] = i]
    /\ cid' = [cid EXCEPT ![i] = None]
    /\ cold' = cold \ {i}
    /\ cfd' = [cfd EXCEPT ![p] = i]
    /\ Goto(p, "c_wlock")
    /\ UNCHANGED <<chas, dvars, seen, mlock, aged>>

\* ... or the file exists.
CExists(p) ==
    /\ At(p, "c_excl")
    /\ cfile[Host[p]] # None
    /\ Goto(p, "c_open")
    /\ UNCHANGED <<cvars, dvars, seen, mlock, aged>>

\* ll_lockfd(writelock) on the new file.  It fails when another process has
\* found the file, still without an id, and is testing it with a read lock.
CWlock(p) ==
    /\ At(p, "c_wlock")
    /\ IF ReadLocked(cfd[p], p)
       THEN /\ cfd' = [cfd EXCEPT ![p] = None]
            /\ Goto(p, AfterCFail(p))
       ELSE /\ Goto(p, "c_writeid")
            /\ UNCHANGED cfd
    /\ UNCHANGED <<cfile, cid, cold, chas, dvars, seen, mlock, aged>>

\* writeid: the file names its owner, or (disk full) the attempt ends and the
\* empty file stays.
CWriteId(p) ==
    /\ At(p, "c_writeid")
    /\ \/ /\ cid' = [cid EXCEPT ![cfd[p]] = p]
          /\ cold' = cold \ {cfd[p]}
          /\ Goto(p, "c_check")
          /\ UNCHANGED cfd
       \/ /\ DiskFills
          /\ cfd' = [cfd EXCEPT ![p] = None]
          /\ Goto(p, AfterCFail(p))
          /\ UNCHANGED <<cid, cold>>
    /\ UNCHANGED <<cfile, chas, dvars, seen, mlock, aged>>

\* fstat(fd) against lstat(name): is the name still this file?
CCheck(p) ==
    /\ At(p, "c_check")
    /\ IF cfile[Host[p]] = cfd[p]
       THEN /\ chas' = chas \cup {p}
            /\ Goto(p, "d_link")
            /\ UNCHANGED cfd
       ELSE /\ cfd' = [cfd EXCEPT ![p] = None]
            /\ Goto(p, AfterCFail(p))
            /\ UNCHANGED chas
    /\ UNCHANGED <<cfile, cid, cold, dvars, seen, mlock, aged>>

\* The file existed: open(O_RDONLY); it may have vanished meanwhile.
COpen(p) ==
    /\ At(p, "c_open")
    /\ cfd' = [cfd EXCEPT ![p] = cfile[Host[p]]]
    /\ Goto(p, IF cfile[Host[p]] = None THEN "c_stat" ELSE "c_readid")
    /\ UNCHANGED <<cfile, cid, cold, chas, dvars, seen, mlock, aged>>

\* readid, getpidid
CReadId(p) ==
    /\ At(p, "c_readid")
    /\ seen' = [seen EXCEPT ![p] = cid[cfd[p]]]
    /\ Goto(p, "c_kill")
    /\ UNCHANGED <<cvars, dvars, mlock, aged>>

\* Mutant: any failure of kill, also EPERM, counts as ESRCH.
CKillMutant(p) ==
    /\ At(p, "c_kill")
    /\ cfd' = [cfd EXCEPT ![p] = None]
    /\ Forget(p)
    /\ Goto(p, "c_unlink")
    /\ UNCHANGED <<cfile, cid, cold, chas, dvars, mlock, aged>>

\* kill(pid, 0): does the process named in the file still exist?
CKill(p) ==
    /\ At(p, "c_kill")
    /\ IF seen[p] \in Gone
       THEN /\ cfd' = [cfd EXCEPT ![p] = None]
            /\ Forget(p)
            /\ Goto(p, "c_unlink")
       ELSE /\ Goto(p, "c_rlock")
            /\ UNCHANGED <<cfd, seen>>
    /\ UNCHANGED <<cfile, cid, cold, chas, dvars, mlock, aged>>

\* "It's us", or the owner has the file locked (EEXIST); else a read lock.
CRlock(p) ==
    /\ At(p, "c_rlock")
    /\ IF seen[p] = p \/ WriteLocked(cfd[p], p)
       THEN /\ cfd' = [cfd EXCEPT ![p] = None]
            /\ Goto(p, AfterCFail(p))
       ELSE /\ Goto(p, "c_rlocked")
            /\ UNCHANGED cfd
    /\ Forget(p)
    /\ UNCHANGED <<cfile, cid, cold, chas, dvars, mlock, aged>>

\* close(fd) drops the read lock.
CClose(p) ==
    /\ At(p, "c_rlocked")
    /\ cfd' = [cfd EXCEPT ![p] = None]
    /\ Goto(p, "c_stat")
    /\ UNCHANGED <<cfile, cid, cold, chas, dvars, seen, mlock, aged>>

\* Mutant: a zero-length lock file is never stale.
CStatMutant(p) ==
    /\ At(p, "c_stat")
    /\ Goto(p, AfterCFail(p))
    /\ UNCHANGED <<cvars, dvars, seen, mlock, aged>>

\* lstat: an empty file older than 300 seconds is stale, else EAGAIN.
CStat(p) ==
    LET i == cfile[Host[p]] IN
    /\ At(p, "c_stat")
    /\ Goto(p, IF i # None /\ cid[i] = None /\ i \in cold
               THEN "c_unlink" ELSE AfterCFail(p))
    /\ UNCHANGED <<cvars, dvars, seen, mlock, aged>>

\* unlink(name), whatever file has that name by now; EAGAIN.
CUnlink(p) ==
    /\ At(p, "c_unlink")
    /\ cfile' = [cfile EXCEPT ![Host[p]] = None]
    /\ Goto(p, AfterCFail(p))
    /\ UNCHANGED <<cid, cold, cfd, chas, dvars, seen, mlock, aged>>

-----------------------------------------------------------------------------
(* ll_mail_open, ll_mail_open_ro: the dot-lock and the mailbox.            *)

\* Mutant: the fallback for an existing dot-lock is not kept to read-only locks.
DLinkMutant(p) ==
    /\ At(p, "d_link")
    /\ \/ /\ p \in DirWriters /\ dfile = None
          /\ dfile' = p
          /\ dold' = FALSE
          /\ dot' = dot \cup {p}
          /\ Goto(p, "m_lock")
       \/ /\ p \notin DirWriters \/ dfile # None
          /\ Goto(p, "m_fallback")
          /\ UNCHANGED dvars
    /\ UNCHANGED <<cvars, seen, mlock, aged>>

\* try_dotlock: link() succeeds only when there is no dot-lock.  A read-only
\* caller, and one that may not write to the directory, falls back on
\* ll_lockfd alone; one whose disk is full fails.
DLink(p) ==
    /\ At(p, "d_link")
    /\ \/ /\ p \in DirWriters /\ dfile = None
          /\ dfile' = p
          /\ dold' = FALSE
          /\ dot' = dot \cup {p}
          /\ Goto(p, "m_lock")
       \/ /\ p \notin DirWriters \/ dfile # None
          /\ Goto(p, IF p \in Writers \cap DirWriters THEN "d_read" ELSE "m_fallback")
          /\ UNCHANGED dvars
       \/ /\ p \in DirWriters /\ DiskFills
          /\ Goto(p, "f_trunc")
          /\ UNCHANGED dvars
    /\ UNCHANGED <<cvars, seen, mlock, aged>>

\* open() and ll_lockfd on the mailbox, with the dot-lock.
MLock(p) ==
    /\ At(p, "m_lock")
    /\ IF MailboxLockable(p)
       THEN /\ mlock' = mlock \cup {p}
            /\ Goto(p, "held")
       ELSE /\ Goto(p, "f_trunc")
            /\ UNCHANGED mlock
    /\ UNCHANGED <<cvars, dvars, seen, aged>>

\* Mutant: the fallback ignores the result of ll_lockfd.
MFallbackMutant(p) ==
    /\ At(p, "m_fallback")
    /\ mlock' = mlock \cup {p}
    /\ Goto(p, "held")
    /\ UNCHANGED <<cvars, dvars, seen, aged>>

\* The same without one; when it fails, a read-only caller looks whether the
\* dot-lock is stale.
MFallback(p) ==
    /\ At(p, "m_fallback")
    /\ IF MailboxLockable(p)
       THEN /\ mlock' = mlock \cup {p}
            /\ Goto(p, "held")
       ELSE /\ Goto(p, IF p \in DirWriters THEN "d_read" ELSE "f_trunc")
            /\ UNCHANGED mlock
    /\ UNCHANGED <<cvars, dvars, seen, aged>>

\* Mutant: the host is read from the dot-lock where the pid is expected.
DReadHost(p) ==
    /\ At(p, "d_read")
    /\ seen' = [seen EXCEPT ![p] = IF dfile = None THEN None ELSE Host[dfile]]
    /\ Goto(p, IF dfile = None THEN "f_trunc" ELSE "d_kill")
    /\ UNCHANGED <<cvars, dvars, mlock, aged>>

\* dotlock_exists: open() and readid.
DRead(p) ==
    /\ At(p, "d_read")
    /\ \/ /\ dfile # None /\ Host[dfile] = Host[p]
          /\ seen' = [seen EXCEPT ![p] = dfile]
          /\ Goto(p, "d_kill")
       \/ /\ dfile # None /\ Host[dfile] # Host[p]
          /\ Goto(p, IF dold THEN "d_unlink" ELSE "f_trunc")
          /\ UNCHANGED seen
       \/ /\ dfile = None
          /\ Goto(p, "f_trunc")
          /\ UNCHANGED seen
    /\ UNCHANGED <<cvars, dvars, mlock, aged>>

\* kill(pid, 0) of the owner, when it is on this host.
DKill(p) ==
    /\ At(p, "d_kill")
    /\ Goto(p, IF seen[p] \in Gone THEN "d_unlink" ELSE "f_trunc")
    /\ Forget(p)
    /\ UNCHANGED <<cvars, dvars, mlock, aged>>

\* unlink(dotlock), whoever owns the dot-lock by now.
DUnlink(p) ==
    /\ At(p, "d_unlink")
    /\ dfile' = None
    /\ dold' = FALSE
    /\ Goto(p, "f_trunc")
    /\ UNCHANGED <<cvars, dot, seen, mlock, aged>>

-----------------------------------------------------------------------------
(* mail::mbox::lock::~lock: close the mailbox, then ll_mail_free.          *)

\* The holder is finished: close() drops ll_lockfd on the mailbox.
Release(p) ==
    /\ At(p, "held")
    /\ mlock' = mlock \ {p}
    /\ Goto(p, "f_trunc")
    /\ UNCHANGED <<cvars, dvars, seen, aged>>

\* A mail::file's destructor closes a duplicate of the mailbox's descriptor:
\* fcntl then drops every lock of the process on that file.  Most tasks give
\* the lock back right after that.  A MultiLock's holder goes on holding "the
\* lock" to read the next message, and ExpungeTask::locked to rename the new
\* file, after LockTask::locked has read the old one.
Reread(p) ==
    /\ At(p, "held")
    /\ p \in Rereads \cap mlock
    /\ mlock' = mlock \ {p}
    /\ UNCHANGED <<pc, cvars, dvars, seen, aged>>

\* Its own c-client file, when it still names this process: ftruncate...
FTrunc(p) ==
    /\ At(p, "f_trunc")
    /\ IF p \in chas /\ cid[cfd[p]] = p
       THEN /\ cid' = [cid EXCEPT ![cfd[p]] = None]
            /\ cold' = cold \ {cfd[p]}
            /\ Goto(p, "f_unlink")
            /\ UNCHANGED <<cfd, chas>>
       ELSE /\ cfd' = [cfd EXCEPT ![p] = None]
            /\ chas' = chas \ {p}
            /\ Goto(p, "f_dot")
            /\ UNCHANGED <<cid, cold>>
    /\ UNCHANGED <<cfile, dvars, seen, mlock, aged>>

\* ... unlink by name, and close.
FUnlink(p) ==
    /\ At(p, "f_unlink")
    /\ cfile' = [cfile EXCEPT ![Host[p]] = None]
    /\ cfd' = [cfd EXCEPT ![p] = None]
    /\ chas' = chas \ {p}
    /\ Goto(p, "f_dot")
    /\ UNCHANGED <<cid, cold, dvars, seen, mlock, aged>>

\* The dot-lock, when it still names this process.
FDot(p) ==
    /\ At(p, "f_dot")
    /\ IF p \in dot /\ dfile = p
       THEN /\ Goto(p, "f_dunlink")
            /\ UNCHANGED dot
       ELSE /\ dot' = dot \ {p}
            /\ Goto(p, "done")
    /\ UNCHANGED <<cvars, dfile, dold, seen, mlock, aged>>

FDUnlink(p) ==
    /\ At(p, "f_dunlink")
    /\ dfile' = None
    /\ dold' = FALSE
    /\ dot' = dot \ {p}
    /\ Goto(p, "done")
    /\ UNCHANGED <<cvars, seen, mlock, aged>>

\* The caller tries again later (or locks the mailbox another time).
Again(p) ==
    /\ At(p, "done")
    /\ p \notin OneShot
    /\ Goto(p, "c_excl")
    /\ UNCHANGED <<cvars, dvars, seen, mlock, aged>>

-----------------------------------------------------------------------------
(* The environment: processes end, time passes.                            *)

End(p) ==
    /\ Goto(p, "gone")
    /\ cfd' = [cfd EXCEPT ![p] = None]
    /\ chas' = chas \ {p}
    /\ dot' = dot \ {p}
    /\ seen' = [seen EXCEPT ![p] = None]
    /\ mlock' = mlock \ {p}
    /\ UNCHANGED <<cfile, cid, cold, dfile, dold, aged>>

\* A process that holds nothing exits.
Exit(p) == p \notin Persistent /\ pc[p] \in {"idle", "done"} /\ End(p)

\* A process is killed anywhere else.
Crash(p) == pc[p] \notin {"idle", "done", "gone"} /\ End(p)

\* 300 seconds pass over the c-client lock files...
AgeC ==
    /\ \E h \in Hosts : cfile[h] # None /\ cfile[h] \notin cold
    /\ cold' = (cold \cup {cfile[h] : h \in Hosts}) \ {None}
    /\ aged' = TRUE
    /\ UNCHANGED <<pc, cfile, cid, cfd, chas, dvars, seen, mlock>>

\* ... or over the dot-lock.
AgeD ==
    /\ dfile # None /\ ~dold
    /\ dold' = TRUE
    /\ aged' = TRUE
    /\ UNCHANGED <<pc, cvars, dfile, dot, seen, mlock>>

-----------------------------------------------------------------------------
CStep(p) == \/ \E i \in Inodes : CCreate(p, i)
            \/ CExists(p) \/ CWlock(p) \/ CWriteId(p) \/ CCheck(p) \/ COpen(p)
            \/ CReadId(p) \/ CKill(p) \/ CRlock(p) \/ CClose(p) \/ CStat(p)
            \/ CUnlink(p)

DStep(p) == DLink(p) \/ MLock(p) \/ MFallback(p) \/ DRead(p) \/ DKill(p) \/ DUnlink(p)

FStep(p) == Release(p) \/ FTrunc(p) \/ FUnlink(p) \/ FDot(p) \/ FDUnlink(p)

Step(p) == Start(p) \/ CStep(p) \/ DStep(p) \/ FStep(p) \/ Again(p)

\* Everybody has exited: nothing more happens.
Over == Gone = Procs /\ UNCHANGED vars

Next == (\E p \in Procs : Step(p) \/ Reread(p) \/ Exit(p) \/ Crash(p)) \/ AgeC \/ AgeD \/ Over

Spec == Init /\ [][Next]_vars

(***************************************************************************)
(* A process that is alive goes on, and time passes.                       *)
(***************************************************************************)
Fairness == (\A p \in Procs : WF_vars(Step(p))) /\ WF_vars(AgeC) /\ WF_vars(AgeD)

FairSpec == Spec /\ Fairness

-----------------------------------------------------------------------------
(* Properties.                                                             *)

\* The types of what the kernel and the processes keep: a process is at one of
\* the calls of liblock/mail.c, a lock file names a process or nobody, and what
\* was read from a lock file is a process or nothing.
TypeOK ==
    /\ pc \in [Procs -> Labels]
    /\ cfile \in [Hosts -> Inodes \cup {None}]
    /\ cid \in [Inodes -> Procs \cup {None}]
    /\ cold \subseteq Inodes
    /\ cfd \in [Procs -> Inodes \cup {None}]
    /\ chas \subseteq Procs
    /\ dfile \in Procs \cup {None}
    /\ dold \in BOOLEAN
    /\ dot \subseteq Procs
    /\ seen \in [Procs -> Procs \cup {None}]
    /\ mlock \subseteq Procs
    /\ aged \in BOOLEAN

(***************************************************************************)
(* Whatever becomes of the lock files (stale ones removed under a live     *)
(* owner, crashes, an unwritable directory, clocks), nobody reads or       *)
(* writes the mailbox beside a writer, as long as no holder closes a       *)
(* duplicate of its descriptor.                                            *)
(***************************************************************************)
WriteExclusion ==
    \A p, q \in Holders : p # q => p \notin Writers /\ q \notin Writers

(***************************************************************************)
(* While no process has died and no lock file has become old, nobody       *)
(* removes a lock file that is not its own: whoever believes it has the    *)
(* dot-lock or the c-client lock has it.                                   *)
(***************************************************************************)
LockFilesKept ==
    (Gone = {} /\ ~aged) =>
        \A p \in Procs :
            /\ p \in dot => dfile = p
            /\ p \in chas => cfile[Host[p]] = cfd[p]

(***************************************************************************)
(* The dot-lock by itself keeps apart the writers that can make one, also  *)
(* those that lost ll_lockfd by closing a duplicate of the descriptor,     *)
(* while no process has died and no lock file has become old.              *)
(***************************************************************************)
WritersKeptApart ==
    (Gone = {} /\ ~aged) =>
        \A p, q \in Holders \cap Writers \cap DirWriters : p = q

(***************************************************************************)
(* MailboxMutex is implemented, the holders being the processes whose      *)
(* mail::mbox::lock has a descriptor.                                      *)
(***************************************************************************)
Mutex == INSTANCE MailboxMutex WITH holders <- Holders
MutexSpec == Mutex!Spec

(***************************************************************************)
(* Lock files left by dead processes do not block the mailbox for ever: a  *)
(* writer that keeps trying after all the others are gone gets its lock.   *)
(***************************************************************************)
SurvivorLocks ==
    \A w \in Persistent \cap Writers :
        (Gone = Procs \ {w}) ~> (pc[w] \in {"held", "gone"})

(***************************************************************************)
(* lockmail.1: a dot-lock created on the same server is removed (by        *)
(* somebody else) only when the process in it no longer exists.            *)
(***************************************************************************)
LiveDotlockKept ==
    [][\A p, q \in Procs :
          (p # q /\ DUnlink(p) /\ dfile = q /\ Host[p] = Host[q] /\ ~dold)
              => q \in Gone]_vars

(***************************************************************************)
(* mail.c: ll_lockfd on the file just created, and writing the id to it,   *)
(* "shouldn't" fail (the disk is not full).                                *)
(***************************************************************************)
CreatorLocks ==
    [][\A p \in Procs : CWlock(p) => pc'[p] = "c_writeid"]_vars
=============================================================================
