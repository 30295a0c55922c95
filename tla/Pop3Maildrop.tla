---------------------------- MODULE Pop3Maildrop ----------------------------
(***************************************************************************)
(* A POP3 maildrop (libmail/pop3maildrop.C, and CheckNewMailTask of        *)
(* libmail/pop3.C): a check for new mail downloads all messages into a     *)
(* local maildir, deletes them from the server, and starts again in the    *)
(* next session, until one finds no mail.                                  *)
(*                                                                         *)
(* A message is downloaded into a file in tmp (maildir::addmessage), and   *)
(* all files of a session are moved into the maildir, one by one, when     *)
(* the last message has come: commitDownloadedMsgs.  Only then is DELE     *)
(* sent, and the server obeys it at the end of the session.                *)
(*                                                                         *)
(* The tasks of the account that come before this one, logging out and     *)
(* logging in, are modelled in Pop3; here they are one step.               *)
(***************************************************************************)
EXTENDS Naturals, Sequences, FiniteSets

CONSTANTS
    Msgs,        \* the messages
    MaxBatch     \* how many messages are downloaded in a session: 200

ASSUME MaildropAssumption ==
    /\ IsFiniteSet(Msgs)
    /\ MaxBatch \in Nat \ {0}

VARIABLES
    pc,          \* "idle", "login", "retr", "commit", "dele", "quit", or
                 \* "closed": there is no account
    nums,        \* the numbers of the messages in the session
    sess,        \* there is a session
    dele,        \* the numbers that the server is to delete
    box,         \* the messages on the server
    next,        \* next2Download
    got,         \* downloadedMsgs
    at,          \* the place in downloadedMsgs that commitDownloadedMsgs is at
    errflag,     \* errflag
    count,       \* messageCount
    local,       \* the messages that the maildir has a copy of
    checking,    \* a request to check for mail is not answered yet
    excused      \* history: messages that a failure has befallen since they
                 \* were delivered last

vars == <<pc, nums, sess, dele, box, next, got, at, errflag, count, local, checking, excused>>

Init ==
    /\ pc = "closed"
    /\ nums = <<>>
    /\ sess = FALSE
    /\ dele = {}
    /\ box = {}
    /\ next = 1
    /\ got = <<>>
    /\ at = 1
    /\ errflag = FALSE
    /\ count = 0
    /\ local = {}
    /\ checking = FALSE
    /\ excused = {}

\* Mail arrives; a session that is open does not see it.
Arrive(m) ==
    /\ m \notin box \cup local
    /\ box' = box \cup {m}
    /\ UNCHANGED <<pc, nums, sess, dele, next, got, at, errflag, count, local, checking,
                   excused>>

\* A message that has been moved is taken out of the maildir by its reader; its
\* name may stand for a new message, so that mail may come without end.
Take(m) ==
    /\ m \in local \ box
    /\ local' = local \ {m}
    /\ UNCHANGED <<pc, nums, sess, dele, box, next, got, at, errflag, count, checking,
                   excused>>

-----------------------------------------------------------------------------
(* The client.                                                             *)

\* checkNewMail, or the constructor: the session is closed if there is one.
Check ==
    /\ pc \in {"idle", "closed"}
    /\ checking' = TRUE
    /\ sess' = FALSE
    /\ nums' = <<>>
    /\ pc' = "login"
    /\ UNCHANGED <<dele, box, next, got, at, errflag, count, local, excused>>

Answered == checking' = FALSE /\ pc' = "idle"

LoginFails ==
    /\ pc = "login"
    /\ Answered
    /\ UNCHANGED <<nums, sess, dele, box, next, got, at, errflag, count, local, excused>>

\* The server numbers its messages.
Numberings == {q \in [1..Cardinality(box) -> box] : \A m \in box : \E n \in DOMAIN q : q[n] = m}

\* Mutant: the messages of an unfinished session are kept.
LoggedInNoReset ==
    /\ pc = "login"
    /\ sess' = TRUE
    /\ dele' = {}
    /\ nums' \in Numberings
    /\ next' = 1
    /\ pc' = "retr"
    /\ UNCHANGED <<got, errflag, box, at, count, local, checking, excused>>

\* CheckNewMailTask::loggedIn: pop3maildropreset().
LoggedIn ==
    /\ pc = "login"
    /\ sess' = TRUE
    /\ dele' = {}
    /\ nums' \in Numberings
    /\ got' = <<>>
    /\ errflag' = FALSE
    /\ next' = 1
    /\ pc' = "retr"
    /\ UNCHANGED <<box, at, count, local, checking, excused>>

\* doNextDownload: another RETR and its answer.
MoreToGet == next <= MaxBatch /\ next \in DOMAIN nums

Retr ==
    /\ pc = "retr" /\ MoreToGet
    /\ got' = Append(got, nums[next])
    /\ next' = next + 1
    /\ UNCHANGED <<pc, nums, sess, dele, box, at, errflag, count, local, checking, excused>>

\* retrHandler: an error ends the check; the session stays.
RetrFails ==
    /\ pc = "retr" /\ MoreToGet
    /\ Answered
    /\ UNCHANGED <<nums, sess, dele, box, next, got, at, errflag, count, local, excused>>

\* commitDownloadedMsgs begins.
Commit ==
    /\ pc = "retr" /\ ~MoreToGet
    /\ count' = Len(got)
    /\ at' = 1
    /\ pc' = "commit"
    /\ UNCHANGED <<nums, sess, dele, box, next, got, errflag, local, checking, excused>>

\* addmessage::go: the file is moved into the maildir, or that fails.
Go(ok) ==
    /\ pc = "commit" /\ at <= Len(got)
    /\ local' = IF ok THEN local \cup {got[at]} ELSE local
    /\ excused' = IF ok THEN excused \ {got[at]} ELSE excused
    /\ errflag' = (errflag \/ ~ok)
    /\ at' = at + 1
    /\ UNCHANGED <<pc, nums, sess, dele, box, next, got, count, checking>>

\* Mutant: the error of a message is not looked at.
CommittedAnyway ==
    /\ pc = "commit" /\ at > Len(got)
    /\ got' = <<>>
    /\ pc' = "dele"
    /\ UNCHANGED <<nums, sess, dele, box, next, at, errflag, count, local, checking, excused>>

\* The messages of the session.
Session == {nums[n] : n \in DOMAIN nums}

\* commitDownloadedMsgs ends: an error ends the check.
Committed ==
    /\ pc = "commit" /\ at > Len(got)
    /\ got' = <<>>
    /\ IF errflag
       THEN Answered /\ excused' = excused \cup Session
       ELSE pc' = "dele" /\ UNCHANGED <<checking, excused>>
    /\ UNCHANGED <<nums, sess, dele, box, next, at, errflag, count, local>>

\* doDeleteDownloaded: from the last message to the first; deleHandler does not
\* look at the answer.
Dele(ok) ==
    /\ pc = "dele" /\ next > 1
    /\ IF ok
       THEN dele' = dele \cup {next - 1} /\ UNCHANGED excused
       ELSE excused' = excused \cup {nums[next - 1]} /\ UNCHANGED dele
    /\ next' = next - 1
    /\ UNCHANGED <<pc, nums, sess, box, got, at, errflag, count, local, checking>>

Quit ==
    /\ pc = "dele" /\ next <= 1
    /\ pc' = "quit"
    /\ UNCHANGED <<nums, sess, dele, box, next, got, at, errflag, count, local, checking, excused>>

\* The server's end of a session.
Deleted == box \ {nums[n] : n \in dele}

\* Mutant: it is never found that there was no mail.
AgainAlways ==
    /\ sess' = FALSE
    /\ nums' = <<>>
    /\ pc' = "login"
    /\ UNCHANGED checking

\* checkNewMailHelper::success: once more, unless there was no mail.
Again ==
    /\ sess' = FALSE
    /\ nums' = <<>>
    /\ IF count > 0 THEN pc' = "login" /\ UNCHANGED checking ELSE Answered

\* quitHandler.
QuitDone ==
    /\ pc = "quit"
    /\ box' = Deleted
    /\ Again
    /\ UNCHANGED <<dele, next, got, at, errflag, count, local, excused>>

-----------------------------------------------------------------------------
(* Failures.                                                               *)

\* The connection is lost when QUIT is under way: CheckNewMailTask::done
\* takes it for the answer, because willReconnect().
QuitLost ==
    /\ pc = "quit"
    /\ box' \in {box, Deleted}
    /\ Again
    /\ excused' = excused \cup Session
    /\ UNCHANGED <<dele, next, got, at, errflag, count, local>>

Gone ==
    /\ pc' = "closed"
    /\ checking' = FALSE
    /\ sess' = FALSE
    /\ nums' = <<>>
    /\ got' = <<>>

\* disconnect: the account is closed, ~addmessage removes the files.
Lost ==
    /\ sess /\ pc \in {"idle", "retr", "dele"}
    /\ Gone
    /\ excused' = excused \cup Session
    /\ UNCHANGED <<dele, box, next, at, errflag, count, local>>

\* The program is killed.
Crash ==
    /\ pc # "closed"
    /\ Gone
    /\ box' \in {box} \cup (IF pc = "quit" THEN {Deleted} ELSE {})
    /\ excused' = excused \cup Session
    /\ UNCHANGED <<dele, next, at, errflag, count, local>>

-----------------------------------------------------------------------------
Steps ==
    \/ LoginFails \/ LoggedIn \/ Retr \/ RetrFails \/ Commit \/ Committed
    \/ Quit \/ QuitDone
    \/ \E ok \in BOOLEAN : Go(ok) \/ Dele(ok)

Next ==
    \/ Steps \/ Check \/ QuitLost \/ Lost \/ Crash
    \/ \E m \in Msgs : Arrive(m) \/ Take(m)

Spec == Init /\ [][Next]_vars

\* The client runs and the server answers.
FairSpec == Spec /\ WF_vars(Steps)

-----------------------------------------------------------------------------
(* Properties.                                                             *)

\* The type invariant.
TypeOK ==
    /\ pc \in {"idle", "login", "retr", "commit", "dele", "quit", "closed"}
    /\ nums \in Seq(Msgs)
    /\ sess \in BOOLEAN /\ errflag \in BOOLEAN /\ checking \in BOOLEAN
    /\ dele \subseteq Nat
    /\ box \subseteq Msgs
    /\ next \in Nat /\ at \in Nat /\ count \in Nat
    /\ got \in Seq(Msgs)
    /\ local \subseteq Msgs /\ excused \subseteq Msgs

\* The maildrop moves mail: what the server removes is in the maildir, through
\* failed downloads, failed deliveries, lost connections and crashes.
MT == INSTANCE MailTransfer WITH server <- box
Moves == MT!Spec

\* A message is delivered again only when something has failed since it was
\* delivered last that kept the server from deleting it: another delivery of
\* its session, its DELE, the connection or the program.  A session that was
\* given up leaves nothing behind that the next one delivers.
\* (pop3maildropreset, commitDownloadedMsgs.)
Copies == [][Go(TRUE) => got[at] \in excused \/ got[at] \notin local]_vars

\* A check for mail, which starts again as long as there is mail, comes to an
\* end, unless the server refuses to delete without end (deleHandler ignores
\* its answer, so the same messages are moved again and again), or the
\* connection breaks without end before the server has obeyed a QUIT, or mail
\* comes without end.  (checkNewMailHelper::success.)
CheckEnds ==
    \/ []<><<Dele(FALSE)>>_vars
    \/ []<><<QuitLost /\ box' # Deleted>>_vars
    \/ []<><<\E m \in Msgs : Arrive(m)>>_vars
    \/ checking ~> ~checking
=============================================================================
