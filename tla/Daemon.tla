------------------------------- MODULE Daemon -------------------------------
(***************************************************************************)
(* Starting, stopping and restarting a daemon that has a lock file and a   *)
(* pid file (liblock/lockdaemon.c), as couriertcpd does (tcpd/tcpd.c).     *)
(*                                                                         *)
(* A start forks the daemon, which locks the lock file, binds its port,    *)
(* writes the pid file and tells the process that started it, over a pipe. *)
(* The daemon holds the lock until it ends; it never removes the pid file. *)
(* A stop tries the lock; if it is taken, one process waits for it and     *)
(* another sends signals to the process in the pid file.  A restart tries  *)
(* the lock, and if it is taken sends SIGHUP.                              *)
(*                                                                         *)
(* A daemon and its start are one identity.  Process numbers are not used  *)
(* twice.  Locks are fcntl locks: of a process, gone when it ends or       *)
(* closes the file.                                                        *)
(***************************************************************************)
EXTENDS Naturals, Sequences

CONSTANTS
    Starts,     \* the start commands, and the daemons
    Stops,      \* the stop commands
    Restarts,   \* the restart commands
    UserOf,     \* the user that runs a command
    Nobody      \* no process

Commands == Starts \cup Stops \cup Restarts

ASSUME DaemonAssumption ==
    /\ Starts \cap Stops = {} /\ Starts \cap Restarts = {} /\ Stops \cap Restarts = {}
    /\ Nobody \notin Commands
    /\ "none" \notin Starts /\ "empty" \notin Starts
    /\ DOMAIN UserOf = Commands

VARIABLES
    pc,        \* where each command is
    file,      \* the lock file's inode, 0 if there is none
    owner,     \* owner[i]: who created inode i: the inodes made so far
    opened,    \* opened[p]: the inode that p has opened, 0 if none
    held,      \* held[p]: the inode that p holds the lock of, 0 if none
    port,      \* the daemon that listens
    pidfile,   \* "none", "empty", or the daemon whose pid is in it
    read,      \* read[p]: the pid that a stop or a restart has read, or Nobody
    sig,       \* sig[s]: the signal that stop s sends next
    before     \* history: the daemons that ran when stop s began

vars == <<pc, file, owner, opened, held, port, pidfile, read, sig, before>>

Taken(i) == \E p \in Commands : held[p] = i

\* A daemon's life; from "unlink" on it has its signal handlers.
Listening == {"unlink", "create", "write", "report", "setup", "running"}
Alive == {"reopen", "lock", "bind"} \cup Listening

Init ==
    /\ pc = [p \in Commands |-> "idle"]
    /\ file = 0
    /\ owner = <<>>
    /\ opened = [p \in Commands |-> 0]
    /\ held = [p \in Commands |-> 0]
    /\ port = Nobody
    /\ pidfile = "none"
    /\ read = [p \in Stops \cup Restarts |-> Nobody]
    /\ sig = [s \in Stops |-> "term"]
    /\ before = [s \in Stops |-> {}]

-----------------------------------------------------------------------------
(* The lock file.                                                          *)

\* open(O_CREAT, 0600): the file that is there, if it is the user's, or a new one.
\* (No user here is the superuser, who may open and signal what is another's.)
MayOpen(p) == file # 0 => owner[file] = UserOf[p]
OpenFile(p) ==
    IF file = 0
    THEN /\ owner' = Append(owner, UserOf[p])
         /\ file' = Len(owner) + 1
         /\ opened' = [opened EXCEPT ![p] = Len(owner) + 1]
    ELSE /\ opened' = [opened EXCEPT ![p] = file]
         /\ UNCHANGED <<file, owner>>

Goto(p, l) == pc' = [pc EXCEPT ![p] = l]
TakeLock(p) == held' = [held EXCEPT ![p] = opened[p]]
DropLock(p) == held' = [held EXCEPT ![p] = 0]

\* A daemon ends: the kernel drops its lock and its port, and closes the pipe.
\* places is what the step does to the place of the other commands.
Ends(d, places) ==
    /\ pc' = [places EXCEPT ![d] = "dead"]
    /\ DropLock(d)
    /\ opened' = [opened EXCEPT ![d] = 0]
    /\ port' = IF port = d THEN Nobody ELSE port

-----------------------------------------------------------------------------
(* A start.                                                                *)

\* start1: another user's lock file is removed.
OpenLock(d) ==
    /\ pc[d] = "idle"
    /\ IF MayOpen(d)
       THEN OpenFile(d) /\ Goto(d, "lock")
       ELSE file' = 0 /\ Goto(d, "reopen") /\ UNCHANGED <<owner, opened>>
    /\ UNCHANGED <<held, port, pidfile, read, sig, before>>

ReopenLock(d) ==
    /\ pc[d] = "reopen" /\ MayOpen(d)
    /\ OpenFile(d)
    /\ Goto(d, "lock")
    /\ UNCHANGED <<held, port, pidfile, read, sig, before>>

\* Mutant: the pid is written as soon as the lock is had.
LockTestPid(d) ==
    /\ pc[d] = "lock" /\ ~Taken(opened[d])
    /\ TakeLock(d)
    /\ pidfile' = d
    /\ Goto(d, "bind")
    /\ UNCHANGED <<file, owner, opened, port, read, sig, before>>

\* start1: ll_lock_ex_test; if the lock is taken, pretend success.
LockTest(d) ==
    /\ pc[d] = "lock"
    /\ IF Taken(opened[d])
       THEN Goto(d, "pretended") /\ opened' = [opened EXCEPT ![d] = 0] /\ UNCHANGED held
       ELSE Goto(d, "bind") /\ TakeLock(d) /\ UNCHANGED opened
    /\ UNCHANGED <<file, owner, port, pidfile, read, sig, before>>

\* Mutant: the pid file is written whether or not the port is free.
BindAnyway(d) ==
    /\ pc[d] = "bind"
    /\ port' = IF port = Nobody THEN d ELSE port
    /\ Goto(d, "unlink")
    /\ UNCHANGED <<file, owner, opened, held, pidfile, read, sig, before>>

\* tcpd: mksockets(), and then the signal handlers.
Bind(d) ==
    /\ pc[d] = "bind" /\ port = Nobody
    /\ port' = d
    /\ Goto(d, "unlink")
    /\ UNCHANGED <<file, owner, opened, held, pidfile, read, sig, before>>

\* ll_daemon_started: unlink(), fopen("w"), fclose(), and the byte for the pipe.
PidUnlink(d) ==
    /\ pc[d] = "unlink"
    /\ pidfile' = "none"
    /\ Goto(d, "create")
    /\ UNCHANGED <<file, owner, opened, held, port, read, sig, before>>

PidCreate(d) ==
    /\ pc[d] = "create"
    /\ pidfile' = "empty"
    /\ Goto(d, "write")
    /\ UNCHANGED <<file, owner, opened, held, port, read, sig, before>>

\* Mutant: the number of some other process is written.
PidWriteOther(d) ==
    /\ pc[d] = "write"
    /\ pidfile' = Nobody
    /\ Goto(d, "report")
    /\ UNCHANGED <<file, owner, opened, held, port, read, sig, before>>

PidWrite(d) ==
    /\ pc[d] = "write"
    /\ pidfile' = d
    /\ Goto(d, "report")
    /\ UNCHANGED <<file, owner, opened, held, port, read, sig, before>>

Report(d) ==
    /\ pc[d] = "report"
    /\ Goto(d, "setup")
    /\ UNCHANGED <<file, owner, opened, held, port, pidfile, read, sig, before>>

\* tcpd: the rest of init().
Setup(d) ==
    /\ pc[d] = "setup"
    /\ Goto(d, "running")
    /\ UNCHANGED <<file, owner, opened, held, port, pidfile, read, sig, before>>

\* Any step of init() may fail; a daemon may also crash.
Exit(d) ==
    /\ pc[d] \in Alive
    /\ Ends(d, pc)
    /\ UNCHANGED <<file, owner, pidfile, read, sig, before>>

-----------------------------------------------------------------------------
(* Stop and restart begin alike: they open the file and try the lock.      *)

Open(p) ==
    /\ pc[p] = "idle"
    /\ IF MayOpen(p)
       THEN OpenFile(p) /\ Goto(p, "test")
       ELSE Goto(p, "failed") /\ UNCHANGED <<file, owner, opened>>
    /\ before' = [s \in Stops |-> IF s = p THEN {d \in Starts : pc[d] = "running"}
                                  ELSE before[s]]
    /\ UNCHANGED <<held, port, pidfile, read, sig>>

\* stop1, ll_daemon_restart: the lock is taken, or it is had for a moment.
Test(p) ==
    /\ pc[p] = "test"
    /\ IF Taken(opened[p])
       THEN Goto(p, "signal") /\ UNCHANGED held
       ELSE Goto(p, "tested") /\ TakeLock(p)
    /\ UNCHANGED <<file, owner, opened, port, pidfile, read, sig, before>>

TestClose(p) ==
    /\ pc[p] = "tested"
    /\ DropLock(p)
    /\ opened' = [opened EXCEPT ![p] = 0]
    /\ Goto(p, "done")
    /\ UNCHANGED <<file, owner, port, pidfile, read, sig, before>>

-----------------------------------------------------------------------------
(* A stop: one process waits for the lock ...                              *)

\* Mutant: a lock that cannot be had at once is not waited for.
WaitLockNot(s) ==
    /\ pc[s] = "signal"
    /\ Goto(s, "locked")
    /\ UNCHANGED <<file, owner, opened, held, port, pidfile, read, sig, before>>

WaitLock(s) ==
    /\ pc[s] = "signal" /\ ~Taken(opened[s])
    /\ TakeLock(s)
    /\ Goto(s, "locked")
    /\ UNCHANGED <<file, owner, opened, port, pidfile, read, sig, before>>

WaitClose(s) ==
    /\ pc[s] = "locked"
    /\ DropLock(s)
    /\ opened' = [opened EXCEPT ![s] = 0]
    /\ Goto(s, "closed")
    /\ UNCHANGED <<file, owner, port, pidfile, read, sig, before>>

\* ... and its exit ends the other: SIGCHLD.
WaitExit(s) ==
    /\ pc[s] = "closed"
    /\ Goto(s, "done")
    /\ read' = [read EXCEPT ![s] = Nobody]
    /\ UNCHANGED <<file, owner, opened, held, port, pidfile, sig, before>>

(* The other process reads the pid file every ten seconds, and sends a     *)
(* signal.  An empty file counts as a turn.                                *)

Signalling(s) == pc[s] \in {"signal", "locked", "closed"}

\* Mutant: one signal is sent.
KillReadOnce(s) ==
    /\ Signalling(s) /\ read[s] = Nobody /\ sig[s] = "term"
    /\ pidfile \in Starts
    /\ read' = [read EXCEPT ![s] = pidfile]
    /\ UNCHANGED <<pc, file, owner, opened, held, port, pidfile, sig, before>>

KillRead(s) ==
    /\ Signalling(s) /\ read[s] = Nobody
    /\ \/ /\ pidfile = "empty"
          /\ sig' = [sig EXCEPT ![s] = "kill"]
          /\ UNCHANGED read
       \/ /\ pidfile \in Starts
          /\ read' = [read EXCEPT ![s] = pidfile]
          /\ UNCHANGED sig
    /\ UNCHANGED <<pc, file, owner, opened, held, port, pidfile, before>>

KillSend(s) ==
    /\ Signalling(s)
    /\ \E d \in Starts :
         /\ read[s] = d
         /\ IF pc[d] \in Alive /\ UserOf[d] = UserOf[s]
            THEN Ends(d, pc)
            ELSE UNCHANGED <<pc, opened, held, port>>
    /\ read' = [read EXCEPT ![s] = Nobody]
    /\ sig' = [sig EXCEPT ![s] = "kill"]
    /\ UNCHANGED <<file, owner, pidfile, before>>

-----------------------------------------------------------------------------
(* A restart.                                                              *)

\* ll_daemon_restart: the lock file is closed, the pid file is read.
HupRead(r) ==
    /\ pc[r] = "signal"
    /\ opened' = [opened EXCEPT ![r] = 0]
    /\ IF pidfile \in Starts
       THEN read' = [read EXCEPT ![r] = pidfile] /\ Goto(r, "hup")
       ELSE Goto(r, "done") /\ UNCHANGED read
    /\ UNCHANGED <<file, owner, held, port, pidfile, sig, before>>

\* SIGHUP ends a process that has no handler for it.
HupSend(r) ==
    /\ pc[r] = "hup"
    /\ \E d \in Starts :
         /\ read[r] = d
         /\ IF pc[d] \in Alive \ Listening /\ UserOf[d] = UserOf[r]
            THEN Ends(d, [pc EXCEPT ![r] = "done"])
            ELSE Goto(r, "done") /\ UNCHANGED <<opened, held, port>>
    /\ read' = [read EXCEPT ![r] = Nobody]
    /\ UNCHANGED <<file, owner, pidfile, sig, before>>

-----------------------------------------------------------------------------
DaemonStep(d) ==
    \/ OpenLock(d) \/ ReopenLock(d) \/ LockTest(d) \/ Bind(d) \/ PidUnlink(d)
    \/ PidCreate(d) \/ PidWrite(d) \/ Report(d) \/ Setup(d) \/ Exit(d)

Next ==
    \/ \E d \in Starts : DaemonStep(d)
    \/ \E p \in Stops \cup Restarts : Open(p) \/ Test(p) \/ TestClose(p)
    \/ \E s \in Stops :
         WaitLock(s) \/ WaitClose(s) \/ WaitExit(s) \/ KillRead(s) \/ KillSend(s)
    \/ \E r \in Restarts : HupRead(r) \/ HupSend(r)

Spec == Init /\ [][Next]_vars

\* Processes run, and a daemon that starts gets on with it or fails.  A daemon
\* that runs may run for ever.
FairSpec ==
    /\ Spec
    /\ \A d \in Starts : WF_vars(pc[d] \notin {"idle", "running"} /\ DaemonStep(d))
    /\ \A p \in Stops \cup Restarts : WF_vars(Test(p) \/ TestClose(p))
    /\ \A s \in Stops : /\ WF_vars(WaitLock(s) \/ WaitClose(s) \/ WaitExit(s))
                        /\ WF_vars(KillRead(s) \/ KillSend(s))

-----------------------------------------------------------------------------
(* Properties.                                                             *)

Places == Alive \cup {"idle", "dead", "pretended", "failed", "test", "tested", "signal", "locked",
                      "closed", "hup", "done"}

\* The type invariant.
TypeOK ==
    /\ pc \in [Commands -> Places]
    /\ owner \in Seq({UserOf[p] : p \in Commands})
    /\ file \in 0..Len(owner)
    /\ opened \in [Commands -> 0..Len(owner)]
    /\ held \in [Commands -> 0..Len(owner)]
    /\ port \in Starts \cup {Nobody}
    /\ pidfile \in Starts \cup {"none", "empty"}
    /\ read \in [Stops \cup Restarts -> Starts \cup {Nobody}]
    /\ sig \in [Stops -> {"term", "kill"}]
    /\ before \in [Stops -> SUBSET Starts]

\* A daemon that has started finds its own pid in the pid file for as long as
\* it lives, whoever else tries to start: also when another user's start has
\* taken the lock file away.  (start1, mksockets, ll_daemon_started.)
PidTellsDaemon ==
    \A d \in Starts : pc[d] \in {"report", "setup", "running"} => pidfile = d

\* A restart never ends a daemon: when its pid can be read, it has a handler
\* for SIGHUP.  (ll_daemon_restart and tcpd's init.)
HupHarmless ==
    [][\A r \in Restarts : pc[r] = "hup" /\ pc'[r] = "done" =>
          \A d \in Starts : pc'[d] = "dead" => pc[d] = "dead"]_vars

\* When a stop is done, no daemon runs that ran when it began, unless another
\* user's start has replaced the lock file.  (stop1.)
StopStops ==
    Len(owner) <= 1 =>
       \A s \in Stops : pc[s] = "done" => \A d \in before[s] : pc[d] = "dead"

\* A stop comes to an end, whatever it finds in the pid file and whenever the
\* other starts, each of which happens once, take the lock while it waits.
\* (stop1.)
StopEnds == \A s \in Stops : pc[s] = "test" ~> pc[s] = "done"

\* lockdaemon.c: reading the byte from the pipe means that the daemon has
\* successfully initialized.
StartedMeansRunning ==
    [][\A d \in Starts : pc'[d] = "pretended" /\ pc[d] # "pretended" =>
          \E e \in Starts : pc'[e] \in {"setup", "running"}]_vars

\* lockdaemon.c: a stop "first sends a SIGTERM, then a SIGKILL".
TermFirst ==
    [][\A s \in Stops, d \in Starts :
          read[s] = d /\ read'[s] = Nobody /\ pc[d] \in Alive /\ pc'[d] = "dead" =>
             sig[s] = "term"]_vars
=============================================================================
