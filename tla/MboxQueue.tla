----------------------------- MODULE MboxQueue ------------------------------
(***************************************************************************)
(* The task queue of an mbox account (mail::mbox in libmail).  A request   *)
(* of the application becomes a task; handler() runs the first task of the *)
(* queue, from the application's event loop; a task ends by calling its    *)
(* callback and by task::done(), which takes it off the queue.             *)
(*                                                                         *)
(* A task that needs the current folder (LockTask) first compares the      *)
(* file's size and timestamp with those of the last scan.  If they differ, *)
(* it leaves the queue, and an OpenTask takes its place at the end, whose  *)
(* callback (LockTask::reopenCallback) puts the first task back.  A        *)
(* request for several messages takes a MultiLock, which later tasks of    *)
(* the account reuse, reads the messages one at a time, each in a task     *)
(* that a RunLater timer installs, and releases the lock at the end.       *)
(*                                                                         *)
(* What tasks do to the mail is MboxFolder's subject.                      *)
(***************************************************************************)
EXTENDS Naturals, Sequences, FiniteSets

CONSTANTS
    Reqs,           \* the requests of the application
    MaxReads,       \* the most messages one request asks for
    Timeout,        \* TimedTask's timeoutArg (60 seconds)
    MaxClock        \* bound: the seconds that pass

ASSUME QueueAssumption ==
    /\ MaxReads \in Nat \ {0}
    /\ Timeout \in Nat /\ MaxClock \in Nat

VARIABLES
    tasks,      \* mail::mbox::tasks: [req, re]; re: an OpenTask that reopens
                \* the folder for req's LockTask
    stage,      \* stage[r]: what is being done for request r
    left,       \* left[r]: the messages that r still has to read
    answers,    \* answers[r]: how often r's callback was called
    deadline,   \* deadline[r]: TimedTask::timeout of r's task
    multi,      \* multiLockLock # NULL
    isOpen,     \* currentFolder # ""
    changed,    \* the file differs from folderSavedSize, folderSavedTimestamp
    busy,       \* another process has the folder locked
    thrown,     \* an exception has left handler() or ~mbox()
    destroyed,  \* ~mbox() has run
    clock       \* time(NULL)

vars == <<tasks, stage, left, answers, deadline, multi, isOpen, changed, busy,
          thrown, destroyed, clock>>

rvars == <<stage, left, answers, deadline>>
fvars == <<multi, isOpen, changed>>
evars == <<busy, clock>>

\* OpenTask (another folder is opened), CheckNewMailTask, a LockTask on its own
\* (ExpungeTask, GenericGetMessageTask), MultiLock, and GenericReadTask.
Kinds == {"open", "check", "lock", "multi"}
Queued == Kinds \cup {"read"}
Stages == Queued \cup {"new", "later", "over"}

Running == ~thrown /\ ~destroyed

Task(r) == [req |-> r, re |-> FALSE]
Reopen(r) == [req |-> r, re |-> TRUE]

Init ==
    /\ tasks = <<>>
    /\ stage = [r \in Reqs |-> "new"]
    /\ left = [r \in Reqs |-> 0]
    /\ answers = [r \in Reqs |-> 0]
    /\ deadline = [r \in Reqs |-> 0]
    /\ multi = FALSE
    /\ isOpen = FALSE
    /\ changed = FALSE
    /\ busy = FALSE
    /\ thrown = FALSE
    /\ destroyed = FALSE
    /\ clock = 0

-----------------------------------------------------------------------------
(* Pieces of the actions.                                                  *)

\* r's callback is called; nothing more is done for it.
Answer(r) ==
    /\ stage' = [stage EXCEPT ![r] = "over"]
    /\ left' = [left EXCEPT ![r] = 0]
    /\ answers' = [answers EXCEPT ![r] = @ + 1]
    /\ UNCHANGED deadline

\* The answer of a request for several messages passes through
\* MultiLockRelease, which deletes multiLockLock.
Releases(r) == stage[r] \in {"multi", "read", "later"}

\* Mutant: MultiLockRelease::fail keeps the lock.
FinishKeepsLock(r, ok) ==
    /\ Answer(r)
    /\ multi' = (multi /\ ~(ok /\ Releases(r)))
    /\ UNCHANGED <<isOpen, changed>>

\* The request ends, well or badly.
Finish(r, ok) ==
    /\ Answer(r)
    /\ multi' = (multi /\ ~Releases(r))
    /\ UNCHANGED <<isOpen, changed>>

\* ReadMultiple::success: the next message waits for the timer; after the last
\* one the request ends.
NextMessage(r) ==
    \/ /\ left[r] > 1
       /\ left' = [left EXCEPT ![r] = @ - 1]
       /\ stage' = [stage EXCEPT ![r] = "later"]
       /\ UNCHANGED <<answers, deadline, fvars>>
    \/ /\ left[r] = 1
       /\ Finish(r, TRUE)

Pop == tasks' = Tail(tasks)

\* task::done(), for the task at the front.
Fail(r) == Finish(r, FALSE) /\ Pop /\ UNCHANGED thrown

\* reopenCallback::fail calls LockTask::fail: it calls the callback of the
\* request, and then done(), which throws because the front of the queue is
\* the OpenTask.
FailReopen(r) == Finish(r, FALSE) /\ thrown' = TRUE /\ UNCHANGED tasks

FailTask(t) == IF t.re THEN FailReopen(t.req) ELSE Fail(t.req)

\* Mutant: a folder that is locked is tried again without end.
ExpiredMutant(t) == FALSE

\* A task could not lock the folder.  TimedTask::doit(int &timeout) compares
\* the time with its parameter, which it has just set to 0, where the member
\* of the same name is the deadline.
Expired(t) == clock >= 0

Deferred(t) ==
    IF Expired(t) THEN FailTask(t) ELSE UNCHANGED <<tasks, rvars, fvars, thrown>>

\* Mutant: the timeout is taken for minutes.
DeadlineMutant == clock + 60 * Timeout

\* The deadline of a new TimedTask.
Deadline == clock + Timeout

-----------------------------------------------------------------------------
(* The application.                                                        *)

\* A request is installed at the end of the queue; without an open folder,
\* checkNewMail and updateFolderIndexInfo answer at once.
Request(r, k) ==
    /\ Running
    /\ stage[r] = "new"
    /\ \/ /\ k \in {"check", "lock"} /\ ~isOpen
          /\ Answer(r)
          /\ UNCHANGED tasks
       \/ /\ k # "check" \/ isOpen
          /\ stage' = [stage EXCEPT ![r] = k]
          /\ \E n \in 1..MaxReads :
                left' = [left EXCEPT ![r] = IF k = "multi" THEN n ELSE 0]
          /\ deadline' = [deadline EXCEPT ![r] = Deadline]
          /\ tasks' = Append(tasks, Task(r))
          /\ UNCHANGED answers
    /\ UNCHANGED <<fvars, evars, thrown, destroyed>>

\* ReadMultiple::RunningLater, from its timer: fails when the account is gone,
\* skips a message that is no longer in the index, or installs a
\* GenericReadTask.
RunningLater(r) ==
    /\ ~thrown
    /\ stage[r] = "later"
    /\ \/ /\ destroyed
          /\ Answer(r)
          /\ UNCHANGED <<tasks, fvars>>
       \/ /\ ~destroyed
          /\ NextMessage(r)
          /\ UNCHANGED tasks
       \/ /\ ~destroyed
          /\ stage' = [stage EXCEPT ![r] = "read"]
          /\ deadline' = [deadline EXCEPT ![r] = Deadline]
          /\ tasks' = Append(tasks, Task(r))
          /\ UNCHANGED <<left, answers, fvars>>
    /\ UNCHANGED <<evars, thrown, destroyed>>

-----------------------------------------------------------------------------
(* handler(): the first task.                                              *)

Front == Head(tasks)

IsOpenTask(t) == t.re \/ stage[t.req] \in {"open", "check"}

\* OpenTask asks for a lock of its own, also when multiLockLock is held: on the
\* folder that is open, that lock is then refused ("It's us!").
OpenBlocked(t) == busy \/ (multi /\ (t.re \/ stage[t.req] = "check"))

LockBlocked == isOpen /\ ~multi /\ busy

HandlerPre == Running /\ tasks # <<>>

\* The lock is refused with EAGAIN or EEXIST.
DoitDeferred ==
    /\ HandlerPre
    /\ IF IsOpenTask(Front) THEN OpenBlocked(Front) ELSE LockBlocked
    /\ Deferred(Front)
    /\ UNCHANGED <<evars, destroyed>>

\* It is refused with another error, or the file cannot be read.
DoitError ==
    /\ HandlerPre
    /\ IF IsOpenTask(Front) THEN ~OpenBlocked(Front) ELSE isOpen /\ ~LockBlocked
    /\ FailTask(Front)
    /\ UNCHANGED <<evars, destroyed>>

\* Mutant: reopenCallback::success forgets the task.
ReopenedMutant(r) == Pop

\* reopenCallback::success puts the LockTask at the end of the queue.
Reopened(r) == tasks' = Append(Tail(tasks), Task(r))

\* Mutant: after a CheckNewMailTask the callback is called by done() as well.
OpenedAnswersTwice(r) ==
    /\ stage' = [stage EXCEPT ![r] = "over"]
    /\ left' = [left EXCEPT ![r] = 0]
    /\ answers' = [answers EXCEPT ![r] = @ + 2]
    /\ UNCHANGED deadline

\* OpenTask::opened: done(), then the callback of the request.
Opened(r) == Answer(r)

\* OpenTask::doit: the folder is scanned (which deletes multiLockLock when the
\* folder is another one, or has changed) and its size and time are saved.
DoitOpen ==
    /\ HandlerPre
    /\ IsOpenTask(Front) /\ ~OpenBlocked(Front)
    /\ changed' = FALSE
    /\ isOpen' = TRUE
    /\ multi' = FALSE
    /\ IF Front.re THEN Reopened(Front.req) /\ UNCHANGED rvars
                   ELSE Opened(Front.req) /\ Pop
    /\ UNCHANGED <<evars, thrown, destroyed>>

\* LockTask::doit finds that the file has changed (with multiLockLock it does
\* not look): the task leaves the queue, an OpenTask with its reopenCallback
\* enters.
DoitChanged ==
    /\ HandlerPre
    /\ ~IsOpenTask(Front)
    /\ isOpen /\ ~multi /\ ~busy /\ changed
    /\ tasks' = Append(Tail(tasks), Reopen(Front.req))
    /\ UNCHANGED <<rvars, fvars, evars, thrown, destroyed>>

Locked == ~isOpen \/ multi \/ (~busy /\ ~changed)

\* locked() of a LockTask on its own; ExpungeTask changes the file, and its
\* scan() deletes multiLockLock.
DoitLock ==
    /\ HandlerPre
    /\ ~Front.re /\ stage[Front.req] = "lock"
    /\ Locked
    /\ Answer(Front.req) /\ Pop
    /\ \/ UNCHANGED fvars
       \/ isOpen /\ multi' = FALSE /\ changed' = TRUE /\ UNCHANGED isOpen
    /\ UNCHANGED <<evars, thrown, destroyed>>

\* MultiLock::locked keeps the lock; the messages are read later.
DoitMulti ==
    /\ HandlerPre
    /\ ~Front.re /\ stage[Front.req] = "multi"
    /\ Locked
    /\ stage' = [stage EXCEPT ![Front.req] = "later"]
    /\ multi' = isOpen
    /\ Pop
    /\ UNCHANGED <<left, answers, deadline, isOpen, changed, evars, thrown, destroyed>>

\* GenericReadTask::locked; verifyUid may fail, and with it the request.
DoitRead ==
    /\ HandlerPre
    /\ ~Front.re /\ stage[Front.req] = "read"
    /\ Locked
    /\ Pop
    /\ NextMessage(Front.req) \/ Finish(Front.req, FALSE)
    /\ UNCHANGED <<evars, thrown, destroyed>>

\* ~mbox: resetFolder, then disconnected() and done() for every task; at an
\* OpenTask that reopens the folder, reopenCallback::fail throws.
Destroy ==
    LET first == CHOOSE n \in 1..(Len(tasks) + 1) :
                     /\ n <= Len(tasks) => tasks[n].re
                     /\ \A i \in 1..(n - 1) : ~tasks[i].re
        told == {tasks[i].req : i \in {j \in 1..Len(tasks) : j <= first}}
    IN
    /\ Running
    /\ destroyed' = TRUE
    /\ thrown' = (first <= Len(tasks))
    /\ stage' = [r \in Reqs |-> IF r \in told THEN "over" ELSE stage[r]]
    /\ left' = [r \in Reqs |-> IF r \in told THEN 0 ELSE left[r]]
    /\ answers' = [r \in Reqs |-> answers[r] + (IF r \in told THEN 1 ELSE 0)]
    /\ tasks' = SubSeq(tasks, first, Len(tasks))
    /\ multi' = FALSE
    /\ UNCHANGED <<deadline, isOpen, changed, evars>>

-----------------------------------------------------------------------------
(* The environment.                                                        *)

\* Another process locks the folder, when the account has not (or is gone), or
\* unlocks it.
OtherLock ==
    /\ busy' = ~busy
    /\ busy \/ ~multi \/ thrown
    /\ UNCHANGED <<tasks, rvars, fvars, thrown, destroyed, clock>>

\* It changes the file, as often as it likes.
OtherWrite ==
    /\ busy /\ isOpen
    /\ changed' = TRUE
    /\ UNCHANGED <<tasks, rvars, multi, isOpen, evars, thrown, destroyed>>

Tick ==
    /\ clock < MaxClock
    /\ clock' = clock + 1
    /\ UNCHANGED <<tasks, rvars, fvars, thrown, destroyed, busy>>

Handler == \/ DoitDeferred \/ DoitError \/ DoitOpen \/ DoitChanged
           \/ DoitLock \/ DoitMulti \/ DoitRead

Next ==
    \/ \E r \in Reqs : (\E k \in Kinds : Request(r, k)) \/ RunningLater(r)
    \/ Handler
    \/ Destroy
    \/ OtherLock \/ OtherWrite \/ Tick

Spec == Init /\ [][Next]_vars

(***************************************************************************)
(* The application runs its event loop, which calls handler() and the      *)
(* timers.                                                                 *)
(***************************************************************************)
FairSpec ==
    /\ Spec
    /\ WF_vars(Handler)
    /\ \A r \in Reqs : WF_vars(RunningLater(r))

-----------------------------------------------------------------------------
(* Properties.                                                             *)

\* The types: the queue holds tasks of the requests, counters stay in their
\* bounds, and no TimedTask waits for longer than timeoutArg.
TypeOK ==
    /\ tasks \in Seq([req : Reqs, re : BOOLEAN])
    /\ stage \in [Reqs -> Stages]
    /\ left \in [Reqs -> 0..MaxReads]
    /\ answers \in [Reqs -> Nat]
    /\ deadline \in [Reqs -> 0..(MaxClock + Timeout)]
    /\ multi \in BOOLEAN /\ isOpen \in BOOLEAN /\ changed \in BOOLEAN
    /\ busy \in BOOLEAN /\ thrown \in BOOLEAN /\ destroyed \in BOOLEAN
    /\ clock \in 0..MaxClock

\* The callback of a request is called at most once, whatever detours its task
\* takes (reopening the folder, several messages, the end of the account):
\* callbacks delete themselves.
AnsweredOnce == \A r \in Reqs : answers[r] <= 1

\* A request that is being served is in the queue exactly once, as its task or
\* as the OpenTask that reopens the folder for it, or waits for its timer: no
\* task object is lost when it is taken off the queue to reopen the folder,
\* and none is queued twice.
NothingLost ==
    ~thrown => \A r \in Reqs :
        Cardinality({i \in 1..Len(tasks) : tasks[i].req = r})
            = IF stage[r] \in Queued THEN 1 ELSE 0

\* When no request is being served, the account holds no lock on the folder:
\* other programs can deliver mail.
LockReleased ==
    (\A r \in Reqs : stage[r] \in {"new", "over"}) => ~multi

\* Every request is answered, if only with an error, unless the exception ends
\* the program - or other programs never stop changing the file: LockTask goes
\* to the end of the queue each time it finds a change, without limit and
\* without a deadline.  However long they go on, a request is answered once
\* they have stopped, also one whose task is out of the queue at that moment,
\* and also when they keep the file locked from then on.
Answered ==
    \/ []<><<OtherWrite>>_vars
    \/ \A r \in Reqs : (stage[r] # "new") ~> (answers[r] >= 1 \/ thrown)

\* "Try again in 5 seconds": a task that finds the folder locked is not failed
\* before its deadline.
BusyIsRetried ==
    [][\A r \in Reqs : (DoitDeferred /\ answers'[r] > answers[r])
                           => clock >= deadline[r]]_vars

\* task::done() is called for the task at the front of the queue.
DoneIsFront == ~thrown

\* A task does not find the folder locked by the account's own multiLockLock.
OwnLockReused == [][DoitDeferred => busy]_vars
=============================================================================
