----------------------------- MODULE MboxFolder -----------------------------
(***************************************************************************)
(* What the mbox driver of libmail (mail::mbox) does to the mail.  The     *)
(* account has INBOX open: the file $HOME/Inbox, into which OpenTask and   *)
(* CheckNewMailTask move what is in the system mailbox, the spool file.    *)
(* Messages get a UID by a tag line that the driver writes into the file;  *)
(* a message that another program has delivered has none until the driver  *)
(* rewrites the file (ExpungeTask).                                        *)
(*                                                                         *)
(* The driver keeps two lists: folderMessageIndex, what scan() has last    *)
(* seen in the file, and index, what the application sees.  It believes    *)
(* the first one as long as the file has the size and timestamp that it    *)
(* had when the file was last opened.                                      *)
(*                                                                         *)
(* While a task runs, the files are locked and nobody else changes them:   *)
(* that is what MailLock shows (WritersKeptApart).  The queue is that of   *)
(* MboxQueue, without the clock.  A task may be interrupted by a signal,   *)
(* or the program killed.                                                  *)
(***************************************************************************)
EXTENDS Naturals, Sequences, FiniteSets

CONSTANTS
    Bodies,         \* messages, told apart by what is in them
    MaxUid,         \* bound: the UIDs that are given out
    MaxQueue,       \* bound: the tasks in the queue
    MaxCrashes,     \* bound: how often the program is killed
    MultiLocks,     \* does the application read several messages at once?
    DiskFills,      \* may the disk be full when a task writes?
    MaxCopies       \* bound: the copies of a message that others make

ASSUME FolderAssumption ==
    /\ MaxUid \in Nat /\ MaxQueue \in Nat /\ MaxCrashes \in Nat
    /\ MultiLocks \in BOOLEAN /\ DiskFills \in BOOLEAN /\ MaxCopies \in Nat

VARIABLES
    inbox,      \* $HOME/Inbox: messages [b, u, d], u = 0 without a tag line,
                \* d the deleted flag
    spool,      \* the system mailbox: bodies
    spoolTag,   \* spoolTag[b]: the UID of the tag line that b has in the spool,
                \* 0 without one
    scratch,    \* Inbox~, written by ExpungeTask
    phase,      \* "none"; "copying": spool to Inbox; "renaming": Inbox~ to
                \* Inbox, or "unlocked": the same after the lock is gone
    orig,       \* sighandler::origSize
    isOpen,     \* currentFolder = "INBOX"
    fmi,        \* folderMessageIndex: tags [u, d], in file order
    index,      \* index: [u, d]
    dirty,      \* folderDirty
    changed,    \* Inbox differs from folderSavedSize, folderSavedTimestamp
    multi,      \* multiLockLock # NULL
    queue,      \* the tasks
    nextUid,    \* mboxMagicTag(): the next UID
    bodyOf,     \* history: bodyOf[u], the message for which u was made
    mail,       \* history: the messages that have been delivered
    asked,      \* history: the messages somebody has asked to remove
    crashes     \* how often the program was killed

vars == <<inbox, spool, spoolTag, scratch, phase, orig, isOpen, fmi, index, dirty,
          changed, multi, queue, nextUid, bodyOf, mail, asked, crashes>>

Uids == 1..MaxUid

UidsOf(s) == {s[i].u : i \in 1..Len(s)} \ {0}
BodiesOf(s) == {s[i].b : i \in 1..Len(s)}
SpoolBodies == {spool[i] : i \in 1..Len(spool)}

Phases == {"none", "copying", "renaming", "unlocked"}

OpenTask == [k |-> "open"]
CheckNewMailTask == [k |-> "check"]
ReadTask == [k |-> "read"]
MultiLock == [k |-> "multilock"]
AddTask(b, d) == [k |-> "add", b |-> b, d |-> d]
ExpungeTask(purge, del) == [k |-> "expunge", purge |-> purge, del |-> del]
ReopenFor(t) == [k |-> "reopen", task |-> t]

Init ==
    /\ inbox = <<>> /\ spool = <<>> /\ scratch = <<>>
    /\ spoolTag = [b \in Bodies |-> 0]
    /\ phase = "none" /\ orig = 0
    /\ isOpen = FALSE
    /\ fmi = <<>> /\ index = <<>>
    /\ dirty = FALSE /\ changed = FALSE /\ multi = FALSE
    /\ queue = <<>>
    /\ nextUid = 1
    /\ bodyOf = [u \in Uids |-> {}]
    /\ mail = {} /\ asked = {}
    /\ crashes = 0

-----------------------------------------------------------------------------
(* scan().                                                                 *)

\* mboxMagicTag(): a UID that was not there before.
TakeUid == nextUid <= MaxUid /\ nextUid' = nextUid + 1

\* The UID of position i when UIDs are made, in order and from next on, for the
\* positions in ns.
UidFrom(next, ns, i) == next + Cardinality({j \in ns : j < i})
NewUid(new, i) == UidFrom(nextUid, new, i)

\* The UIDs made for the positions in ns of the file, each with its message.
Made(next, ns, file) == {[u |-> UidFrom(next, ns, i), b |-> file[i].b] : i \in ns}

MakeUids(made) ==
    /\ nextUid + Cardinality(made) <= MaxUid + 1
    /\ nextUid' = nextUid + Cardinality(made)
    /\ bodyOf' = [u \in Uids |-> bodyOf[u] \cup {m.b : m \in {x \in made : x.u = u}}]

\* The members of a sequence at the positions in ns, in order.
Nth(ns, k) == CHOOSE n \in ns : Cardinality({x \in ns : x <= n}) = k
Select(s, ns) == [k \in 1..Cardinality(ns) |-> s[Nth(ns, k)]]

\* UIDs that were met before, in the same file, are replaced.
Doubled(tags) == {n \in 1..Len(tags) : \E m \in 1..(n - 1) : tags[m].u = tags[n].u}
Distinct(tags, next) ==
    [n \in 1..Len(tags) |->
        IF n \in Doubled(tags) THEN [tags[n] EXCEPT !.u = UidFrom(next, Doubled(tags), n)]
                               ELSE tags[n]]

Untagged(file) == {i \in 1..Len(file) : file[i].u = 0}

\* Mutant: a message without a tag gets no UID.
TagsMutant(file) == [i \in 1..Len(file) |-> [u |-> file[i].u, d |-> file[i].d]]

\* Situations A and C: folderMessageIndex is made from the file.
Tags(file) ==
    [i \in 1..Len(file) |->
        IF file[i].u = 0 THEN [u |-> NewUid(Untagged(file), i), d |-> FALSE]
                         ELSE [u |-> file[i].u, d |-> file[i].d]]

\* The flags that the application sees, for a UID in its index (the first entry
\* of the UID, as updatedFlags is filled).
FlagOf(u) ==
    LET at == {i \in 1..Len(index) : index[i].u = u}
    IN  index[CHOOSE i \in at : \A j \in at : i <= j].d

WithFlags(tag) == IF tag.u \in UidsOf(index) THEN [tag EXCEPT !.d = FlagOf(tag.u)] ELSE tag

\* Situations D and E: a position that is not copied, as its UID, or the one
\* that folderMessageIndex has for it, is in the list.
Deleted(i, del) ==
    IF inbox[i].u # 0 THEN inbox[i].u \in del \cap UidsOf(index)
    ELSE i <= Len(fmi) /\ fmi[i].u \in del \cap UidsOf(index)

\* Mutant: rewriteIndex is not advanced past a deleted message.
RewrittenMutant(i, del, new) ==
    LET k == i - Cardinality({j \in 1..(i - 1) : Deleted(j, del)})
        tag == IF inbox[i].u # 0 THEN [u |-> inbox[i].u, d |-> inbox[i].d]
               ELSE IF k <= Len(fmi) THEN fmi[k] ELSE [u |-> 0, d |-> FALSE]
    IN  IF i \in new THEN [b |-> inbox[i].b, u |-> NewUid(new, i), d |-> FALSE]
        ELSE [b |-> inbox[i].b, u |-> tag.u, d |-> WithFlags(tag).d]

\* The tag a copied position is written with: its own, or the one that
\* folderMessageIndex has for it, with the application's flags; or a new one,
\* also for a tagged message that the application has not seen yet.
Rewritten(i, del, new) ==
    LET tag == IF inbox[i].u # 0 THEN [u |-> inbox[i].u, d |-> inbox[i].d] ELSE fmi[i]
    IN  IF i \in new THEN [b |-> inbox[i].b, u |-> NewUid(new, i), d |-> FALSE]
        ELSE [b |-> inbox[i].b, u |-> tag.u, d |-> WithFlags(tag).d]

RewriteNew(del) ==
    {i \in 1..Len(inbox) :
        /\ ~Deleted(i, del)
        /\ IF inbox[i].u # 0 THEN inbox[i].u \notin UidsOf(index) ELSE i > Len(fmi)}

\* The positions that are copied.
Kept(del) == {i \in 1..Len(inbox) : ~Deleted(i, del)}

Rewrite(del) ==
    Select([i \in 1..Len(inbox) |-> Rewritten(i, del, RewriteNew(del))], Kept(del))

Headers(file) == [n \in 1..Len(file) |-> [u |-> file[n].u, d |-> file[n].d]]

-----------------------------------------------------------------------------
(* The lists that the application sees.                                    *)

\* checkNewMail(): what is in folderMessageIndex and not in index is added.
CheckNewMail(idx, tags) ==
    idx \o Select(tags, {n \in 1..Len(tags) : tags[n].u \notin UidsOf(idx)})

\* Mutant: entries whose message is gone stay.
PurgedMutant(idx, tags) == idx

\* ExpungeTask: entries whose message is gone are removed.
Purged(idx, tags) == Select(idx, {n \in 1..Len(idx) : idx[n].u \in UidsOf(tags)})

-----------------------------------------------------------------------------
(* The application.                                                        *)

Alive == phase = "none"

Install(t) == Len(queue) < MaxQueue /\ queue' = Append(queue, t)

files == <<inbox, spool, spoolTag, scratch, phase, orig>>
lists == <<fmi, index, dirty, changed, multi>>
history == <<nextUid, bodyOf, mail, crashes>>

\* folder::open; checkNewMail; messages are read, one or several.
RequestOpen ==
    /\ Alive /\ Install(OpenTask)
    /\ UNCHANGED <<files, isOpen, lists, history, asked>>

Request(t) ==
    /\ Alive /\ isOpen /\ Install(t)
    /\ UNCHANGED <<files, isOpen, lists, history, asked>>

RequestRead == Request(ReadTask) \/ (MultiLocks /\ Request(MultiLock))

Adds(t, b) == t.k = "add" /\ t.b = b
Pending(b) == \E i \in 1..Len(queue) :
    Adds(queue[i], b) \/ (queue[i].k = "reopen" /\ Adds(queue[i].task, b))

\* A message that nobody has seen before.
Fresh(b) == b \notin mail /\ ~Pending(b)

\* folder::addMessage.
RequestAdd(b, d) == Fresh(b) /\ Request(AddTask(b, d))

\* updateFolderIndexInfo: ExpungeTask's constructor lists the UIDs that are
\* marked as deleted now.
RequestExpunge ==
    LET del == {index[i].u : i \in {j \in 1..Len(index) : index[j].d}} IN
    /\ Alive /\ isOpen /\ Install(ExpungeTask(TRUE, del))
    /\ asked' = asked \cup UNION {bodyOf[u] : u \in del}
    /\ UNCHANGED <<files, isOpen, lists, history>>

\* logout, with something to save: the folder is rewritten.
RequestSave == dirty /\ Request(ExpungeTask(FALSE, {}))

\* saveFolderIndexInfo: a flag of a message is changed.
Mark(i) ==
    /\ Alive /\ isOpen
    /\ index' = [index EXCEPT ![i].d = ~@]
    /\ dirty' = TRUE
    /\ UNCHANGED <<files, isOpen, fmi, changed, multi, queue, history, asked>>

-----------------------------------------------------------------------------
(* handler(): OpenTask, CheckNewMailTask.                                  *)

Front == Head(queue)
Handling(ks) == Alive /\ queue # <<>> /\ Front.k \in ks

OpenKinds == {"open", "check", "reopen"}

\* Mutant: size and time are not compared.
ShortcutMutant == Front.k # "open" /\ inbox # <<>>

\* With the folder open and the file as it was, everything is left alone (an
\* empty file is always scanned).
Shortcut == Front.k # "open" /\ ~changed /\ inbox # <<>>

\* scan() of Inbox.
ScanInbox ==
    /\ Handling(OpenKinds) /\ ~multi
    /\ IF Shortcut
       THEN UNCHANGED <<fmi, dirty, nextUid, bodyOf>>
       ELSE LET new == Untagged(inbox)
                twice == Doubled(Tags(inbox))
            IN  /\ fmi' = Distinct(Tags(inbox), nextUid + Cardinality(new))
                /\ dirty' = (new \cup twice # {})
                /\ MakeUids(Made(nextUid, new, inbox)
                              \cup Made(nextUid + Cardinality(new), twice, inbox))
    /\ phase' = "copying"
    /\ orig' = Len(inbox)
    /\ UNCHANGED <<inbox, spool, spoolTag, scratch, isOpen, index, changed, multi, queue,
                   mail, asked, crashes>>

Copied == Len(inbox) - orig

NextCopied == spool[Copied + 1]

\* An OpenTask or CheckNewMailTask for the folder that is open (reopening): a
\* tag line is kept when the application's list has its UID.
KeepsTag ==
    /\ Front.k # "open"
    /\ spoolTag[NextCopied] \in UidsOf(index)

\* scan() of the spool: its messages go to the end of Inbox, with new tags.
\* Only untagged ones make the folder dirty.
CopyNew ==
    /\ phase = "copying" /\ Copied < Len(spool) /\ ~KeepsTag
    /\ TakeUid
    /\ inbox' = Append(inbox, [b |-> NextCopied, u |-> nextUid, d |-> FALSE])
    /\ fmi' = Append(fmi, [u |-> nextUid, d |-> FALSE])
    /\ bodyOf' = [bodyOf EXCEPT ![nextUid] = @ \cup {NextCopied}]
    /\ dirty' = (dirty \/ spoolTag[NextCopied] = 0)
    /\ UNCHANGED <<spool, spoolTag, scratch, phase, orig, isOpen, index, changed, multi,
                   queue, mail, asked, crashes>>

\* Mutant: a UID that folderMessageIndex has already is entered again.
KeepTwice(u) ==
    /\ fmi' = Append(fmi, [u |-> u, d |-> FlagOf(u)])
    /\ UNCHANGED <<nextUid, bodyOf, dirty>>

\* "SHOULD NOT HAPPEN": a UID that folderMessageIndex has already is replaced,
\* in memory only.
Keep(u) ==
    IF u \in UidsOf(fmi)
    THEN /\ TakeUid
         /\ fmi' = Append(fmi, [u |-> nextUid, d |-> FlagOf(u)])
         /\ bodyOf' = [bodyOf EXCEPT ![nextUid] = @ \cup {NextCopied}]
         /\ dirty' = TRUE
    ELSE /\ fmi' = Append(fmi, [u |-> u, d |-> FlagOf(u)])
         /\ UNCHANGED <<nextUid, bodyOf, dirty>>

\* A message whose tag is kept, with the flags that the application has.
CopyTagged ==
    LET u == spoolTag[NextCopied] IN
    /\ phase = "copying" /\ Copied < Len(spool) /\ KeepsTag
    /\ inbox' = Append(inbox, [b |-> NextCopied, u |-> u, d |-> FlagOf(u)])
    /\ Keep(u)
    /\ UNCHANGED <<spool, spoolTag, scratch, phase, orig, isOpen, index, changed, multi,
                   queue, mail, asked, crashes>>

\* Mutant: Inbox is left as it is.
RollbackNone == inbox

\* Mutant: the handler truncates Inbox without the size that was saved.
RollbackAll == <<>>

\* sighandler::rollback and sighandler::handler truncate Inbox.
Rollback == SubSeq(inbox, 1, orig)

CopyDone == phase = "copying" /\ Copied = Len(spool)

\* The spool is truncated, Inbox's size and time are saved, the task ends.  A
\* task that had the folder reopened is queued again.
OpenDone ==
    /\ CopyDone
    /\ spool' = <<>> /\ spoolTag' = [b \in Bodies |-> 0]
    /\ phase' = "none" /\ orig' = 0
    /\ changed' = FALSE
    /\ isOpen' = TRUE
    /\ index' = CASE Front.k = "open" -> fmi
                  [] Front.k = "check" -> CheckNewMail(index, fmi)
                  [] OTHER -> index
    /\ queue' = IF Front.k = "reopen" THEN Append(Tail(queue), Front.task)
                                      ELSE Tail(queue)
    /\ UNCHANGED <<inbox, scratch, fmi, dirty, multi, history, asked>>

\* The disk is full: rollback().  folderMessageIndex has the new messages by
\* now; truncating the file may have changed its time.  (When the folder is
\* reopened for a task, done() throws, and what is left is as after Signal.)
CopyFails ==
    /\ DiskFills /\ CopyDone /\ spool # <<>>
    /\ Front.k # "reopen"
    /\ inbox' = Rollback
    /\ phase' = "none" /\ orig' = 0
    /\ changed' \in {changed, TRUE}
    /\ queue' = Tail(queue)
    /\ UNCHANGED <<spool, spoolTag, scratch, isOpen, fmi, index, dirty, multi, history, asked>>

-----------------------------------------------------------------------------
(* handler(): LockTask.                                                    *)

LockKinds == {"read", "multilock", "add", "expunge"}

\* Mutant: the file is not compared with what it was.
MustReopenMutant == FALSE

\* With multiLockLock, the file is not looked at.
MustReopen == changed /\ ~multi

\* The file has changed: an OpenTask comes first.
LockReopen ==
    /\ Handling(LockKinds) /\ MustReopen
    /\ queue' = Append(Tail(queue), ReopenFor(Front))
    /\ UNCHANGED <<files, isOpen, lists, history, asked>>

LockHandling(k) == Handling({k}) /\ ~MustReopen

\* A message that is read changes no file; if it was unread, it no longer is.
Read ==
    /\ LockHandling("read")
    /\ queue' = Tail(queue)
    /\ dirty' \in {dirty, TRUE}
    /\ UNCHANGED <<files, isOpen, fmi, index, changed, multi, history, asked>>

\* MultiLock takes the lock and keeps it; MultiLockRelease drops it.
MultiLocked ==
    /\ LockHandling("multilock")
    /\ multi' = TRUE
    /\ queue' = Tail(queue)
    /\ UNCHANGED <<files, isOpen, fmi, index, dirty, changed, history, asked>>

MultiLockRelease ==
    /\ Alive /\ multi
    /\ multi' = FALSE
    /\ UNCHANGED <<files, isOpen, fmi, index, dirty, changed, queue, history, asked>>

\* folder::add::copyTo: a message is appended, with a tag.
Add ==
    /\ LockHandling("add")
    /\ TakeUid
    /\ inbox' = Append(inbox, [b |-> Front.b, u |-> nextUid, d |-> Front.d])
    /\ bodyOf' = [bodyOf EXCEPT ![nextUid] = @ \cup {Front.b}]
    /\ changed' = TRUE
    /\ mail' = mail \cup {Front.b}
    /\ queue' = Tail(queue)
    /\ UNCHANGED <<spool, spoolTag, scratch, phase, orig, isOpen, fmi, index, dirty, multi,
                   asked, crashes>>

\* The disk is full: rollback(), and the callback is told.
AddFails ==
    /\ DiskFills /\ LockHandling("add")
    /\ changed' \in {changed, TRUE}
    /\ queue' = Tail(queue)
    /\ UNCHANGED <<files, isOpen, fmi, index, dirty, multi, history, asked>>

\* ExpungeTask: Inbox is copied to Inbox~.  scan() ends with resetFolder, which
\* deletes multiLockLock, and makes folderMessageIndex anew.
Expunge ==
    LET file == Rewrite(Front.del)
        new == RewriteNew(Front.del)
        twice == Doubled(Headers(file))
    IN
    /\ LockHandling("expunge")
    /\ MakeUids(Made(nextUid, new, inbox)
                  \cup Made(nextUid + Cardinality(new), twice, file))
    /\ scratch' = file
    /\ fmi' = Distinct(Headers(file), nextUid + Cardinality(new))
    /\ dirty' = (twice # {})
    /\ multi' = FALSE
    /\ phase' = IF multi THEN "unlocked" ELSE "renaming"
    /\ UNCHANGED <<inbox, spool, spoolTag, orig, isOpen, index, changed, queue, mail, asked, crashes>>

\* rename(Inbox~, Inbox), then the application's list is brought up to date.
ExpungeRename ==
    /\ phase \in {"renaming", "unlocked"}
    /\ inbox' = scratch
    /\ scratch' = <<>>
    /\ phase' = "none"
    /\ changed' = TRUE
    /\ index' = CheckNewMail(IF Front.purge THEN Purged(index, fmi) ELSE index, fmi)
    /\ dirty' = FALSE
    /\ queue' = Tail(queue)
    /\ UNCHANGED <<spool, spoolTag, orig, isOpen, fmi, multi, history, asked>>

\* The disk was full: Inbox~ is removed, and Inbox is still what it was.
ExpungeFails ==
    /\ DiskFills /\ phase \in {"renaming", "unlocked"}
    /\ scratch' = <<>>
    /\ phase' = "none"
    /\ queue' = Tail(queue)
    /\ UNCHANGED <<inbox, spool, spoolTag, orig, isOpen, lists, history, asked>>

-----------------------------------------------------------------------------
(* The program ends: killed, or by a signal (sighandler::handler truncates *)
(* Inbox), or by the user after a logout.                                  *)

Gone ==
    /\ phase' = "none" /\ orig' = 0 /\ scratch' = <<>>
    /\ isOpen' = FALSE
    /\ fmi' = <<>> /\ index' = <<>>
    /\ dirty' = FALSE /\ changed' = FALSE /\ multi' = FALSE
    /\ queue' = <<>>
    /\ UNCHANGED <<spool, spoolTag, nextUid, bodyOf, mail, asked>>

\* The lock is refused, by another program, or because OpenTask meets the
\* account's own multiLockLock: the task fails.  When it was to reopen the
\* folder for another task, done() throws, and that ends the program.
Refused ==
    /\ Handling(OpenKinds) \/ (Handling(LockKinds) /\ ~multi)
    /\ IF Front.k = "reopen"
       THEN Gone /\ UNCHANGED <<inbox, crashes>>
       ELSE /\ queue' = Tail(queue)
            /\ UNCHANGED <<files, isOpen, lists, history, asked>>

Kill ==
    /\ crashes < MaxCrashes /\ crashes' = crashes + 1
    /\ isOpen \/ queue # <<>>
    /\ Gone /\ UNCHANGED inbox

Signal ==
    /\ phase = "copying"
    /\ Gone /\ inbox' = Rollback
    /\ UNCHANGED crashes

\* logout, with nothing to save.
Logout ==
    /\ Alive /\ isOpen /\ ~dirty /\ queue = <<>>
    /\ Gone /\ UNCHANGED <<inbox, crashes>>

-----------------------------------------------------------------------------
(* Other programs, when the account has no lock.                           *)

Unlocked == (phase = "none" /\ ~multi) \/ phase = "unlocked"

\* Mail is delivered to the spool.
Deliver(b) ==
    /\ phase # "copying" /\ Fresh(b)
    /\ spool' = Append(spool, b)
    /\ mail' = mail \cup {b}
    /\ UNCHANGED <<inbox, spoolTag, scratch, phase, orig, isOpen, lists, queue, nextUid,
                   bodyOf, asked, crashes>>

\* Mail is delivered to Inbox.
DeliverToInbox(b) ==
    /\ Unlocked /\ Fresh(b)
    /\ inbox' = Append(inbox, [b |-> b, u |-> 0, d |-> FALSE])
    /\ mail' = mail \cup {b}
    /\ changed' = isOpen
    /\ UNCHANGED <<spool, spoolTag, scratch, phase, orig, isOpen, fmi, index, dirty, multi, queue,
                   nextUid, bodyOf, asked, crashes>>

\* Another mail reader removes a message from Inbox.
RemoveFromInbox(i) ==
    /\ Unlocked
    /\ inbox' = SubSeq(inbox, 1, i - 1) \o SubSeq(inbox, i + 1, Len(inbox))
    /\ asked' = asked \cup {inbox[i].b}
    /\ changed' = isOpen
    /\ UNCHANGED <<spool, spoolTag, scratch, phase, orig, isOpen, fmi, index, dirty, multi, queue,
                   history>>

\* It saves a copy of a message of Inbox in the spool, tag line and all.
Resave(i) ==
    /\ Unlocked
    /\ inbox[i].u # 0 /\ inbox[i].b \notin SpoolBodies
    /\ Cardinality({j \in 1..Len(inbox) : inbox[j].b = inbox[i].b}) <= MaxCopies
    /\ spool' = Append(spool, inbox[i].b)
    /\ spoolTag' = [spoolTag EXCEPT ![inbox[i].b] = inbox[i].u]
    /\ UNCHANGED <<inbox, scratch, phase, orig, isOpen, lists, queue, history, asked>>

Others ==
    \/ \E b \in Bodies : Deliver(b) \/ DeliverToInbox(b)
    \/ \E i \in 1..Len(inbox) : RemoveFromInbox(i) \/ Resave(i)

Requests ==
    \/ RequestOpen \/ Request(CheckNewMailTask) \/ RequestRead \/ RequestExpunge \/ RequestSave
    \/ \E b \in Bodies, d \in BOOLEAN : RequestAdd(b, d)
    \/ \E i \in 1..Len(index) : Mark(i)

Handler ==
    \/ ScanInbox \/ CopyNew \/ CopyTagged \/ OpenDone \/ CopyFails
    \/ LockReopen \/ Read \/ MultiLocked \/ Add \/ AddFails \/ Expunge
    \/ ExpungeRename \/ ExpungeFails \/ Refused

\* Too few UIDs are left.
Over == MaxUid < nextUid + Len(inbox) + Len(spool) /\ UNCHANGED vars

Next == Requests \/ Handler \/ MultiLockRelease \/ Kill \/ Signal \/ Logout \/ Others \/ Over

Spec == Init /\ [][Next]_vars

-----------------------------------------------------------------------------
(* Properties.                                                             *)

\* The types: what is in memory (folderMessageIndex, index) and what was written
\* by ExpungeTask always has a UID, what is in Inbox may have none, and origSize
\* is within the file.
TypeOK ==
    /\ inbox \in Seq([b : Bodies, u : 0..MaxUid, d : BOOLEAN])
    /\ scratch \in Seq([b : Bodies, u : Uids, d : BOOLEAN])
    /\ spool \in Seq(Bodies)
    /\ spoolTag \in [Bodies -> 0..MaxUid]
    /\ phase \in Phases
    /\ orig \in 0..Len(inbox)
    /\ fmi \in Seq([u : Uids, d : BOOLEAN])
    /\ index \in Seq([u : Uids, d : BOOLEAN])
    /\ isOpen \in BOOLEAN /\ dirty \in BOOLEAN /\ changed \in BOOLEAN /\ multi \in BOOLEAN
    /\ Len(queue) <= MaxQueue
    /\ nextUid \in 1..(MaxUid + 1)
    /\ bodyOf \in [Uids -> SUBSET Bodies]
    /\ mail \subseteq Bodies /\ asked \subseteq mail
    /\ crashes \in 0..MaxCrashes

\* A message that was delivered, to the spool or to Inbox, or that the
\* application has added, is in one of the two files until somebody asks for
\* its removal: not when the program is killed between the copy and the
\* truncation, not when ExpungeTask takes the position of an untagged message
\* from folderMessageIndex.
NoMailLost == mail \subseteq BodiesOf(inbox) \cup SpoolBodies \cup asked

\* No message is twice in Inbox, unless the program was killed (with SIGKILL,
\* not with a signal that sighandler catches) while mail was copied, or other
\* programs make copies.
NoDuplicates ==
    crashes = 0 /\ MaxCopies = 0 => \A i, j \in 1..Len(inbox) : i # j => inbox[i].b # inbox[j].b

\* A tag line stays with the message for which its UID was made, and no UID is
\* made for two messages: the UIDs that the application keeps, and what it does
\* with them, are about the message that it has seen.
TagTellsBody ==
    /\ \A u \in Uids : Cardinality(bodyOf[u]) <= 1
    /\ \A i \in 1..Len(inbox) : inbox[i].u # 0 => bodyOf[inbox[i].u] = {inbox[i].b}

\* Neither of the lists in memory, folderMessageIndex and what the application
\* sees, has a UID twice, also when Inbox has (UidsUnique), whoever has written
\* it there, and whatever is copied, rewritten and rescanned.
ListsUnique ==
    /\ \A i, j \in 1..Len(fmi) : fmi[i].u = fmi[j].u => i = j
    /\ \A i, j \in 1..Len(index) : index[i].u = index[j].u => i = j

\* As long as the file is believed not to have changed, folderMessageIndex has
\* the messages of the file, each at its place, also those without a tag line,
\* and those whose UID an earlier message has: the assumption of ExpungeTask
\* ("We can assume that folderMessageIndex is valid") and of every task that
\* reads a message.
Aligned ==
    isOpen /\ ~changed /\ phase = "none" =>
        /\ Len(fmi) = Len(inbox)
        /\ \A i \in 1..Len(inbox) :
            /\ \/ inbox[i].u \in {0, fmi[i].u}
               \/ \E j \in 1..(i - 1) : fmi[j].u = inbox[i].u
            /\ bodyOf[fmi[i].u] = {inbox[i].b}

\* After an expunge the application's list has as many messages as the file,
\* and all its UIDs, whatever has happened to the file since the list was made.
ExpungeSyncs ==
    [][ExpungeRename /\ Front.purge =>
          Len(index') = Len(inbox') /\ UidsOf(inbox') \subseteq UidsOf(index')]_vars

\* "Any existing UIDs in the new messages are ignored, each new message is
\* assigned a new UID": no UID is twice in Inbox.
UidsUnique ==
    \A i, j \in 1..Len(inbox) : i # j /\ inbox[i].u # 0 => inbox[i].u # inbox[j].u

\* folderDirty is set while a flag that the user has changed is not in the file.
CleanMeansSaved ==
    Alive /\ isOpen /\ ~dirty =>
        \A i \in 1..Len(index), j \in 1..Len(inbox) :
            inbox[j].u = index[i].u => inbox[j].d = index[i].d

\* "All messages are copied to saveFile, with any updated flags and uids": when
\* Inbox is rewritten, the messages that are copied keep their tags.
TagsKept ==
    [][ExpungeRename => UidsOf(inbox) \ Front.del \subseteq UidsOf(inbox')]_vars

\* "Messages are copied to saveFile, except ones that are marked as deleted":
\* a message that was marked when the expunge was asked for, and that the
\* application still lists, is not copied.
DeletedNotCopied ==
    [][ExpungeRename => \A u \in Front.del \cap UidsOf(index) :
                            BodiesOf(inbox') \cap bodyOf[u] = {}]_vars
=============================================================================
