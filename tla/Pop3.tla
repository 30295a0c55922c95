-------------------------------- MODULE Pop3 --------------------------------
(***************************************************************************)
(* A POP3 account (mail::pop3 in libmail/pop3.C): the queue of tasks, the  *)
(* connection, and the index of the mailbox.                               *)
(*                                                                         *)
(* Only the first task talks to the server.  A task that needs a session   *)
(* (LoggedInTask) and finds no connection leaves the queue as the callback *)
(* of a LoginTask at its end, and comes back when that succeeds.  A POP3   *)
(* session never sees new mail, and deletes messages only when it is       *)
(* closed: to check for mail, and to expunge, the account closes the       *)
(* session (LogoutTask), and ForceCheckNewMailTask, the callback of that   *)
(* task, puts a CheckNewMailTask at the front of the queue, which starts   *)
(* the next one.  Messages have other numbers there.                       *)
(*                                                                         *)
(* Task::done() and LoggedInTask::installedTask() call installedTask() of  *)
(* the next task before they return: while "run" is TRUE the first task    *)
(* is to be installed and nothing else happens.  USER, PASS, CRAM, CAPA    *)
(* and STLS are one exchange with the server.                              *)
(***************************************************************************)
EXTENDS Naturals, Sequences, FiniteSets

CONSTANTS
    Reqs,         \* the requests of the application
    Opener,       \* the callback of the constructor's CheckNewMailTask
    NoReq,        \* a task without a callback
    Msgs,         \* the messages, each with its UIDL
    Kinds,        \* the requests made: subset of check, update, read, logout
    ListMayFail,  \* whether the server may refuse LIST or UIDL in a session
    MaxConnects   \* bound: the connections made

ASSUME Pop3Assumption ==
    /\ Opener \notin Reqs /\ NoReq \notin Reqs \cup {Opener}
    /\ Kinds \subseteq {"check", "update", "read", "logout"}
    /\ ListMayFail \in BOOLEAN /\ MaxConnects \in Nat
    /\ IsFiniteSet(Msgs)

VARIABLES
    tasks,      \* mail::pop3::tasks: [kind, req, for]
    run,        \* the first task is to be installed
    late,       \* the request whose ForceCheckNewMailTask fail()s when
                \* Task::done() is through with the next task, or NoReq
    asked,      \* asked[r]: the kind of request, "no" before it is made
    want,       \* want[r]: the message to read
    at,         \* at[r]: UpdateTask::updateIndex
    answers,    \* answers[r]: how often r's callback was called
    index,      \* currentFolderIndex: [uid, deleted]
    uidl,       \* uidlMap: from messages to numbers
    fd,         \* getfd() >= 0
    cmd,        \* the reply the client waits for: [name, n]
    idle,       \* lastTaskCompleted # 0
    over,       \* "no"; "closed": disconnected; "gone", "abandoned": destroyed;
                \* "crashed"
    sess,       \* the server's session: [auth, nums, dele]
    box,        \* the mailbox on the server
    connects    \* how many connections were made

cvars == <<asked, want, at>>
svars == <<fd, cmd, sess, box, connects>>
vars == <<tasks, run, late, asked, want, at, answers, index, uidl, fd, cmd, idle,
          over, sess, box, connects>>

All == Reqs \cup {Opener}
\* The members of a set in the order of their ranks, and those of a sequence that
\* are at the positions in ns.
Nth(S, rank, k) == CHOOSE x \in S : Cardinality({y \in S : rank[y] < rank[x]}) = k - 1
Select(s, ns) == [k \in 1..Cardinality(ns) |-> s[Nth(ns, [n \in ns |-> n], k)]]

NoCmd == [name |-> "none", n |-> 0]
NoSess == [auth |-> FALSE, nums |-> <<>>, dele |-> {}]

Task(kind, req) == [kind |-> kind, req |-> req, for |-> "none"]
\* LogoutTask with willReconnectFlag, its callback a ForceCheckNewMailTask.
LogoutThenCheck(req) == [kind |-> "logout", req |-> req, for |-> "check"]
LoginFor(t) == [kind |-> "login", req |-> t.req, for |-> t.kind]

WillReconnect(t) == t.kind = "logout" /\ t.for = "check"
\* The event loop is idle and the account object exists; the application was
\* not told that the account is closed (disconnect_callback).
Exists == ~run /\ late = NoReq /\ over \in {"no", "closed"}
Quiet == Exists /\ over = "no"

Init ==
    /\ tasks = <<Task("check", Opener)>>
    /\ run = TRUE
    /\ late = NoReq
    /\ asked = [r \in All |-> IF r = Opener THEN "check" ELSE "no"]
    /\ want = [r \in All |-> {}]
    /\ at = [r \in All |-> 1]
    /\ answers = [r \in All |-> 0]
    /\ index = <<>>
    /\ uidl = <<>>
    /\ fd = FALSE
    /\ cmd = NoCmd
    /\ idle = FALSE
    /\ over = "no"
    /\ sess = NoSess
    /\ box \in [1..Cardinality(Msgs) -> Msgs]
    /\ \A i, j \in DOMAIN box : box[i] = box[j] => i = j
    /\ connects = 0

-----------------------------------------------------------------------------
(* Building blocks.                                                        *)

Answer(rs) == answers' = [r \in All |-> IF r \in rs THEN answers[r] + 1 ELSE answers[r]]

Owners(ts) == {ts[i].req : i \in DOMAIN ts} \ {NoReq}

\* Mutant: the next task is installed without looking whether there is one.
DoneBlindly(ts) ==
    /\ tasks' = ts
    /\ run' = TRUE
    /\ idle' = FALSE

\* Task::done(): the first task goes, and the next one is installed.
Done(ts) ==
    /\ tasks' = ts
    /\ run' = (ts # <<>>)
    /\ idle' = (ts = <<>>)

\* reconcileFolderIndex: messages that are gone, then new ones by number.
Reconciled ==
    LET there == {i \in DOMAIN index : index[i].uid \in DOMAIN uidl}
        new == DOMAIN uidl \ {index[i].uid : i \in DOMAIN index}
    IN  Select(index, there) \o
          [k \in 1..Cardinality(new) |-> [uid |-> Nth(new, uidl, k), deleted |-> FALSE]]

\* UpdateTask: the next message to delete that the server has.
ToDelete(r) == {i \in at[r]..Len(index) : index[i].deleted /\ index[i].uid \in DOMAIN uidl}

\* Mutant: a message's place in the index is taken for its number.
UpdateStepPlace(t) ==
    IF ToDelete(t.req) # {}
    THEN LET i == CHOOSE i \in ToDelete(t.req) : \A j \in ToDelete(t.req) : i <= j
         IN  /\ cmd' = [name |-> "dele", n |-> i]
             /\ at' = [at EXCEPT ![t.req] = i + 1]
             /\ run' = FALSE
             /\ UNCHANGED <<tasks, idle>>
    ELSE /\ Done(<<LogoutThenCheck(t.req)>> \o Tail(tasks))
         /\ cmd' = NoCmd
         /\ UNCHANGED at

\* UpdateTask::serverResponse: another DELE, or a LogoutTask as the next task.
UpdateStep(t) ==
    IF ToDelete(t.req) # {}
    THEN LET i == CHOOSE i \in ToDelete(t.req) : \A j \in ToDelete(t.req) : i <= j
         IN  /\ cmd' = [name |-> "dele", n |-> uidl[index[i].uid]]
             /\ at' = [at EXCEPT ![t.req] = i + 1]
             /\ run' = FALSE
             /\ UNCHANGED <<tasks, idle>>
    ELSE /\ Done(<<LogoutThenCheck(t.req)>> \o Tail(tasks))
         /\ cmd' = NoCmd
         /\ UNCHANGED at

\* LogoutTask::serverResponse and what follows from disconnect(""): done(),
\* whose delete makes ForceCheckNewMailTask put a check first in the queue, or,
\* if the account will not reconnect, the end of every task.
LoggedOut ==
    LET t == Head(tasks)
    IN  /\ fd' = FALSE /\ cmd' = NoCmd /\ sess' = NoSess
        /\ IF WillReconnect(t)
           THEN /\ Done(<<Task("check", t.req)>> \o Tail(tasks))
                /\ UNCHANGED <<answers, over>>
           ELSE /\ tasks' = <<>> /\ run' = FALSE /\ over' = "closed"
                /\ Answer(Owners(tasks))
                /\ UNCHANGED idle

\* The first task ends, and its callback is called.
Ends ==
    /\ Done(Tail(tasks))
    /\ Answer({Head(tasks).req} \ {NoReq})

-----------------------------------------------------------------------------
(* Requests: they go to the end of the queue.                              *)

Install(t) ==
    /\ tasks' = Append(tasks, t)
    /\ run' = (tasks = <<>>)
    /\ idle' = FALSE

\* checkNewMail, updateFolderIndexInfo, genericMessageRead, logout.
Request(r, kind) ==
    /\ Quiet /\ asked[r] = "no" /\ kind \in Kinds
    /\ asked' = [asked EXCEPT ![r] = kind]
    /\ Install(IF kind = "check" THEN LogoutThenCheck(r) ELSE Task(kind, r))
    /\ IF kind = "read"
       THEN \E i \in DOMAIN index : want' = [want EXCEPT ![r] = {index[i].uid}]
       ELSE UNCHANGED want
    /\ UNCHANGED <<late, at, answers, index, uidl, over, svars>>

\* updateFolderIndexFlags, saveFolderIndexInfo.
Flag(i) ==
    /\ Quiet
    /\ index' = [index EXCEPT ![i].deleted = ~@]
    /\ UNCHANGED <<tasks, run, late, cvars, answers, uidl, idle, over, svars>>

\* handler(): a NOOP when nothing has been done for a while.
Noop ==
    /\ Quiet /\ fd /\ idle
    /\ Install(Task("noop", NoReq))
    /\ UNCHANGED <<late, cvars, answers, index, uidl, over, svars>>

-----------------------------------------------------------------------------
(* installedTask().                                                        *)

\* LoggedInTask without a connection: a LoginTask at the end of the queue.
InstallDetour ==
    /\ run /\ ~fd /\ Head(tasks).kind \in {"check", "update", "read", "noop"}
    /\ tasks' = Append(Tail(tasks), LoginFor(Head(tasks)))
    /\ UNCHANGED <<run, late, cvars, answers, index, uidl, idle, over, svars>>

\* CheckNewMailTask::loggedIn.
InstallCheck ==
    /\ run /\ fd /\ Head(tasks).kind = "check"
    /\ index' = Reconciled
    /\ Ends
    /\ UNCHANGED <<late, cvars, uidl, over, svars>>

InstallUpdate ==
    /\ run /\ fd /\ Head(tasks).kind = "update"
    /\ UpdateStep(Head(tasks))
    /\ UNCHANGED <<late, asked, want, answers, index, uidl, over, fd, sess, box, connects>>

\* ReadMessageTask::loggedIn: the message is gone from the server, or it is
\* gone from the index, or it is asked for.
InstallRead ==
    /\ run /\ fd /\ Head(tasks).kind = "read"
    /\ \E m \in want[Head(tasks).req] :
         IF m \in DOMAIN uidl /\ \E i \in DOMAIN index : index[i].uid = m
         THEN /\ cmd' = [name |-> "retr", n |-> uidl[m]]
              /\ run' = FALSE
              /\ UNCHANGED <<tasks, idle, answers>>
         ELSE Ends /\ UNCHANGED cmd
    /\ UNCHANGED <<late, cvars, index, uidl, over, fd, sess, box, connects>>

InstallNoop ==
    /\ run /\ fd /\ Head(tasks).kind = "noop"
    /\ cmd' = [name |-> "noop", n |-> 0]
    /\ run' = FALSE
    /\ UNCHANGED <<tasks, late, cvars, answers, index, uidl, idle, over, fd, sess, box, connects>>

\* LoginTask: a connection is taken for a session, and its messages are listed.
InstallLoggedIn ==
    /\ run /\ fd /\ Head(tasks).kind = "login"
    /\ cmd' = [name |-> "list", n |-> 0]
    /\ run' = FALSE
    /\ UNCHANGED <<tasks, late, cvars, answers, index, uidl, idle, over, fd, sess, box, connects>>

\* LoginTask: socketConnect succeeds, or it fails.
InstallLogin(ok) ==
    /\ run /\ ~fd /\ Head(tasks).kind = "login"
    /\ ok => connects < MaxConnects
    /\ fd' = ok
    /\ IF ok
       THEN /\ cmd' = [name |-> "greeting", n |-> 0]
            /\ connects' = connects + 1
            /\ run' = FALSE
            /\ UNCHANGED <<tasks, idle, answers>>
       ELSE Ends /\ UNCHANGED <<cmd, connects>>
    /\ UNCHANGED <<late, cvars, index, uidl, over, sess, box>>

InstallLogout ==
    /\ run /\ Head(tasks).kind = "logout"
    /\ IF fd
       THEN /\ cmd' = [name |-> "quit", n |-> 0]
            /\ run' = FALSE
            /\ UNCHANGED <<tasks, idle, answers, over, fd, sess>>
       ELSE LoggedOut
    /\ UNCHANGED <<late, cvars, index, uidl, box, connects>>

\* Task::done() called from disconnect() was left with LogoutTask's callback:
\* ForceCheckNewMailTask::fail puts a check first that nobody installs.
LateCheck ==
    /\ ~run /\ late # NoReq
    /\ tasks' = <<Task("check", late)>> \o tasks
    /\ late' = NoReq
    /\ idle' = FALSE
    /\ UNCHANGED <<run, cvars, answers, index, uidl, over, svars>>

-----------------------------------------------------------------------------
(* Replies: socketRead() gives a line to the first task.                   *)

Awaits(name) ==
    Quiet /\ fd /\ cmd.name = name /\ tasks # <<>> /\ Head(tasks).kind # "check"

\* A CheckNewMailTask that was not installed has no handler: the pointer was
\* never set.  It is null, or the program ends.
ReplyAstray ==
    /\ Quiet /\ fd /\ cmd # NoCmd /\ tasks # <<>> /\ Head(tasks).kind = "check"
    /\ cmd' = NoCmd
    /\ over' \in {"no", "crashed"}
    /\ UNCHANGED <<tasks, run, late, cvars, answers, index, uidl, idle, fd, sess, box, connects>>

\* greetingHandler: on an error the connection is closed.
ReplyGreeting(ok) ==
    /\ Awaits("greeting")
    /\ fd' = ok
    /\ IF ok
       THEN cmd' = [name |-> "auth", n |-> 0] /\ UNCHANGED <<tasks, run, idle, answers>>
       ELSE cmd' = NoCmd /\ Ends
    /\ UNCHANGED <<late, cvars, index, uidl, over, sess, box, connects>>

\* userHandler, passHandler, hmacHandler: on an error it is not.
ReplyAuth(ok) ==
    /\ Awaits("auth")
    /\ IF ok
       THEN /\ cmd' = [name |-> "list", n |-> 0]
            /\ sess' = [auth |-> TRUE, nums |-> box, dele |-> {}]
            /\ UNCHANGED <<tasks, run, idle, answers>>
       ELSE cmd' = NoCmd /\ Ends /\ UNCHANGED sess
    /\ UNCHANGED <<late, cvars, index, uidl, over, fd, box, connects>>

\* listHandler; the numbers of the last session are forgotten at its end, when
\* UIDL is asked for.  (Here: when UIDL is answered.  Nothing reads them in
\* between, and if the connection is lost the next login does it again.)
ReplyList(ok) ==
    /\ Awaits("list")
    /\ ok => sess.auth
    /\ ~ok => ~sess.auth \/ ListMayFail
    /\ IF ok
       THEN cmd' = [name |-> "uidl", n |-> 0] /\ UNCHANGED <<tasks, run, idle, answers>>
       ELSE cmd' = NoCmd /\ Ends
    /\ UNCHANGED <<late, cvars, index, uidl, over, fd, sess, box, connects>>

\* The UIDs of the session's messages.
Listed ==
    LET there == DOMAIN sess.nums \ sess.dele
    IN  [m \in {sess.nums[n] : n \in there} |-> CHOOSE n \in there : sess.nums[n] = m]

\* uidlHandler at the end of the list: done(), and the LoggedInTask installs
\* itself again.
ReplyUidl(ok) ==
    /\ Awaits("uidl")
    /\ ~ok => ListMayFail
    /\ uidl' = (IF ok THEN Listed ELSE <<>>)
    /\ IF ok
       THEN /\ tasks' = Append(Tail(tasks), Task(Head(tasks).for, Head(tasks).req))
            /\ run' = TRUE
            /\ idle' = FALSE
            /\ UNCHANGED answers
       ELSE Ends
    /\ cmd' = NoCmd
    /\ UNCHANGED <<late, cvars, index, over, fd, sess, box, connects>>

\* UpdateTask: an error ends it.
ReplyDele ==
    /\ Awaits("dele")
    /\ IF sess.auth /\ cmd.n \in DOMAIN sess.nums \ sess.dele
       THEN /\ sess' = [sess EXCEPT !.dele = @ \cup {cmd.n}]
            /\ UpdateStep(Head(tasks))
            /\ UNCHANGED answers
       ELSE cmd' = NoCmd /\ Ends /\ UNCHANGED <<sess, at>>
    /\ UNCHANGED <<late, asked, want, index, uidl, over, fd, box, connects>>

\* ReadMessageTask at the end of the message, or at an error; NoopTask.
ReplyLast ==
    /\ Awaits("retr") \/ Awaits("noop")
    /\ cmd' = NoCmd
    /\ Ends
    /\ UNCHANGED <<late, cvars, index, uidl, over, fd, sess, box, connects>>

\* The server deletes the messages when it closes the session.
Committed ==
    Select(box, {i \in DOMAIN box : \A n \in sess.dele : sess.nums[n] # box[i]})

ReplyQuit ==
    /\ Awaits("quit")
    /\ LoggedOut
    /\ box' = Committed
    /\ UNCHANGED <<late, cvars, index, uidl, connects>>

-----------------------------------------------------------------------------
(* Failures.                                                               *)

\* The connection is gone; if QUIT was under way the server may have got it.
Lost ==
    /\ fd' = FALSE /\ cmd' = NoCmd /\ sess' = NoSess
    /\ box' \in {box} \cup (IF cmd.name = "quit" THEN {Committed} ELSE {})

\* disconnect(reason): a LogoutTask that will reconnect is done; otherwise it
\* is the end of the account.
Disconnect ==
    /\ Quiet /\ fd
    /\ Lost
    /\ IF tasks # <<>> /\ WillReconnect(Head(tasks))
       THEN /\ Done(Tail(tasks))
            /\ late' = Head(tasks).req
            /\ UNCHANGED <<answers, over>>
       ELSE /\ tasks' = <<>>
            /\ Answer(Owners(tasks))
            /\ over' = "closed"
            /\ UNCHANGED <<run, late, idle>>
    /\ UNCHANGED <<cvars, index, uidl, connects>>

\* The tasks whose callback is a ForceCheckNewMailTask, and the checks it makes.
Again == {i \in DOMAIN tasks : WillReconnect(tasks[i])}
ChecksFor(ns) ==
    LET ts == Select(tasks, ns)
    IN  [k \in DOMAIN ts |-> Task("check", ts[k].req)]

\* Mutant: a ForceCheckNewMailTask also tells the application.
TimeoutTwice ==
    /\ Exists /\ tasks # <<>>
    /\ Lost
    /\ tasks' = ChecksFor(Again)
    /\ idle' = (idle /\ Again = {})
    /\ Answer(Owners(tasks))
    /\ UNCHANGED <<run, late, cvars, index, uidl, over, connects>>

\* Mutant: there is no timeout without a connection.
TimeoutConnected ==
    /\ Exists /\ tasks # <<>> /\ fd
    /\ Lost
    /\ tasks' = ChecksFor(Again)
    /\ Answer(Owners(tasks) \ {tasks[i].req : i \in Again})
    /\ idle' = (idle /\ Again = {})
    /\ UNCHANGED <<run, late, cvars, index, uidl, over, connects>>

\* getTimeout() of the first task: every task fails; a ForceCheckNewMailTask
\* that fails puts a check into the empty queue.
Timeout ==
    /\ Exists /\ tasks # <<>>
    /\ Lost
    /\ tasks' = ChecksFor(Again)
    /\ Answer(Owners(tasks) \ {tasks[i].req : i \in Again})
    /\ idle' = (idle /\ Again = {})
    /\ UNCHANGED <<run, late, cvars, index, uidl, over, connects>>

\* ~pop3(): disconnect(), which returns after done() if the first task will
\* reconnect.
Destroy ==
    /\ Exists
    /\ Lost
    /\ IF tasks # <<>> /\ WillReconnect(Head(tasks))
       THEN over' = "abandoned" /\ UNCHANGED <<tasks, answers>>
       ELSE over' = "gone" /\ tasks' = <<>> /\ Answer(Owners(tasks))
    /\ UNCHANGED <<run, late, cvars, index, uidl, idle, connects>>

\* Others change the mailbox between the sessions: one at a time has it.
OthersRemove(m) ==
    /\ Quiet /\ ~sess.auth
    /\ \E i \in DOMAIN box : box[i] = m
    /\ box' = Select(box, {i \in DOMAIN box : box[i] # m})
    /\ UNCHANGED <<tasks, run, late, cvars, answers, index, uidl, fd, cmd, idle, over,
                   sess, connects>>

-----------------------------------------------------------------------------
Installs ==
    \/ InstallDetour \/ InstallCheck \/ InstallUpdate \/ InstallRead
    \/ InstallNoop \/ InstallLoggedIn \/ InstallLogout \/ LateCheck
    \/ \E ok \in BOOLEAN : InstallLogin(ok)

Replies ==
    \/ ReplyAstray \/ ReplyDele \/ ReplyLast \/ ReplyQuit
    \/ \E ok \in BOOLEAN : ReplyGreeting(ok) \/ ReplyAuth(ok) \/ ReplyList(ok) \/ ReplyUidl(ok)

Next ==
    \/ Installs \/ Replies
    \/ \E r \in Reqs, kind \in Kinds : Request(r, kind)
    \/ \E i \in DOMAIN index : Flag(i)
    \/ Noop \/ Disconnect \/ Timeout \/ Destroy
    \/ \E m \in Msgs : OthersRemove(m)

Spec == Init /\ [][Next]_vars

\* The account's own code runs on, and the first task does not wait for ever:
\* the server answers or the task's timeout passes.
FairSpec == Spec /\ WF_vars(Installs) /\ WF_vars(Replies \/ Timeout)

-----------------------------------------------------------------------------
(* Properties.                                                             *)

TaskOK(t) ==
    /\ t.kind \in {"check", "update", "read", "noop", "login", "logout"}
    /\ t.req \in All \cup {NoReq}
    /\ t.kind = "login" => t.for \in {"check", "update", "read", "noop"}

\* The type invariant: also, a task is installed only if there is one, and a
\* command awaits its reply only on a connection.
TypeOK ==
    /\ \A i \in DOMAIN tasks : TaskOK(tasks[i])
    /\ run => tasks # <<>>
    /\ answers \in [All -> Nat]
    /\ at \in [All -> 1..(Cardinality(Msgs) + 1)]
    /\ \A i \in DOMAIN index : index[i].uid \in Msgs /\ index[i].deleted \in BOOLEAN
    /\ \A m \in DOMAIN uidl : m \in Msgs /\ uidl[m] \in 1..Cardinality(Msgs)
    /\ cmd # NoCmd => fd
    /\ over \in {"no", "closed", "gone", "abandoned", "crashed"}

\* How often r's callback is still held by a task, by a task that waits for a
\* login, or by a ForceCheckNewMailTask.
Held(r) ==
    Cardinality({i \in DOMAIN tasks : tasks[i].req = r}) + (IF late = r THEN 1 ELSE 0)

\* A request that was made has one callback: it has been called once, or one
\* task holds it, through every login, logout, timeout and loss of the
\* connection.  (Task::done, Task::disconnected, LoggedInTask, LogoutTask and
\* ForceCheckNewMailTask hand it to each other.)
OneCallback == \A r \in All : asked[r] # "no" => answers[r] + Held(r) = 1

\* A message number is used only in the session it belongs to: the message
\* that DELE deletes is marked as deleted in the index, the one that RETR gets
\* is the one asked for, whatever sessions came in between.  (A server that
\* has not let the client in refuses both.)
SentRight ==
    [][/\ (cmd'.name = "dele" /\ cmd' # cmd /\ sess'.auth) =>
             /\ cmd'.n \in DOMAIN sess'.nums
             /\ \E i \in DOMAIN index :
                   index[i].deleted /\ sess'.nums[cmd'.n] = index[i].uid
       /\ (cmd'.name = "retr" /\ cmd' # cmd /\ sess'.auth) =>
             /\ cmd'.n \in DOMAIN sess'.nums
             /\ {sess'.nums[cmd'.n]} = want[Head(tasks').req]]_vars

\* Every request is answered, unless the account is destroyed while it is to
\* reconnect or the program crashed; a check that was left in the queue
\* uninstalled is answered when its timeout has passed.
Answered ==
    \A r \in All :
       asked[r] # "no" ~> (answers[r] = 1 \/ over \in {"abandoned", "crashed"})

\* pop3.C: "so Task::done() ends up calling CheckNewMailTask's installedTask".
NoCheckAstray == over # "crashed"

\* pop3.C: a connection means "Logged in, yippee!!".
LoggedInMeansSession ==
    [][(cmd'.name \in {"dele", "retr", "noop"} /\ cmd' # cmd) => sess'.auth]_vars

\* ~pop3() ends every task with its callback.
ClosedAnswers ==
    over \in {"gone", "abandoned"} => \A r \in All : asked[r] # "no" => answers[r] = 1
=============================================================================
