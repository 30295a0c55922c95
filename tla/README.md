# Cone: mail moved, locked and shared — a TLA+ development

Cone is a console mail reader and news reader. Its core is `libmail`, a C++
library with one driver per kind of mail store (mbox files, maildirs, IMAP,
POP3, NNTP, SMAP, SMTP), all of them driven by callbacks from one event loop,
and a handful of C libraries that it shares with the Courier mail server
(`liblock`, `maildir`, `tcpd`, `rfc822`, ...).

This directory models the parts of it in which processes, callbacks and failures
meet: the mailbox locks, the mbox driver, an open maildir folder, the Maildir++
quota, the POP3 client and its maildrop, and the server loop and daemon control
of `couriertcpd`. What they share is that a mistake costs mail, or a service, and
that hardly a test could reach it.

Paths below are relative to the repository (`src/`).

## 1. Inventory

| Component | State it keeps | Operations | Hard behaviour | What makes it correct |
|---|---|---|---|---|
| **Mailbox locks** `liblock/mail.c`, `lockfcntl.c` | lock file in `/tmp` (c-client), `<mailbox>.lock`, fcntl lock | `ll_mail_lock`, `ll_mail_open[_ro]`, `ll_mail_free` | several processes and hosts, every system call a point of interleaving; stale files; crashes | readers/writer exclusion; a lock file is removed by its owner or when it is stale; nobody is locked out for ever |
| `lockmail` `liblock/lockmail.c` | attempts, a signal flag, a child | lock, run a command, unlock | retry loop, signals | as above |
| **daemon control** `liblock/lockdaemon.c` | lock file, pid file, a pipe | start, started, stop, restart | two users, daemons that die at any point, pids read before they are used | the pid file names the daemon; a restart ends nobody; a stop stops |
| **mbox task queue** `libmail/mbox.C`, `mboxlock.C`, `mboxopen.C`, `mboxmultilock.C`, `mboxread.C`, ReadMultiple in `generic.C` | `tasks`, `multiLockLock`, `currentFolder`, deadlines | install, run, fail, reopen the folder and come back, hold a lock for several messages, destroy | tasks that take themselves off the queue and live on in a callback; a lock held across trips through the event loop | each callback called once; no task lost or doubled; the lock released on every path; every request answered |
| **mbox folder contents** `libmail/mbox.C` (`scan`), `mboxopen.C`, `mboxexpunge.C`, `mboxadd.C`, `mboxmagictag.C`, `mboxsighandler.C` | the files; `folderMessageIndex`, `index`, `folderDirty`, saved size and time | open, check for new mail, add, expunge, save, flags | crashes between two files; untagged messages known by their place in a list; stale requests; errors half way | no message lost; none doubled by the driver; a UID means one message for ever, and is once in the lists |
| **maildir folder** `libmail/maildir.C`, `maildirfolder.C`, `maildir/maildirfilename.c`, `maildirgetnew.c` | the folder index with the last known names | open, refresh, check, flags, remove, expunge | nothing is locked; other readers move, rename and remove the files | only what was asked to go is removed; index and directory agree after a refresh |
| **maildir quota** `maildir/maildirquota.c`, `maildirpurge.c`, `deliverquota.c` | `maildirsize` | check, append, recalculate and rename, purge, set | no locks; deliveries, purges and administrators at once; appends to a file that has been replaced | the total is right unless a race has happened; a few messages over quota at most |
| **POP3 client** `libmail/pop3.C` | task queue, connection, message numbers of the session | check, update, read, logout; login, NOOP | late answers, timeouts, disconnection; tasks that hand a callback to each other; numbers that change with the session | each callback called once; no number used in another session; every request answered |
| **POP3 maildrop** `libmail/pop3maildrop.C` | files in `tmp`, numbers to delete | download, deliver, delete, again | crashes and lost connections between delivery and deletion | the server never removes what the maildir does not have |
| **tcpd server loop** `tcpd/tcpd.c` | a table of children, shared with a signal handler | accept, fork, reap; limits in the child | signals between any two steps; table full; copies of the table of different times | no slot leaks; limits hold; every connection accepted |
| maildir library, rest `maildir/*.c` | keyword files, watch, ACLs, filters | - | - | - |
| IMAP, SMAP, NNTP, SMTP clients `libmail/*.C` | task queues or handler stacks, a connection | commands, timeouts, reconnection | late answers, disconnection | each callback called once |
| synchronous wrapper `libmail/sync.C` | one callback | run the event loop until it is called | - | - |
| TLS wrappers and cache `tcpd/*.c` | a circular file | put, get | wrap-around | the cache stays readable |
| parsers, character sets, digests, GnuPG wrapper, address books, screens | - | pure functions, or input and output | - | - |

How they interact: the application (the screens in `cone/`) calls methods of
`mail::account`; a driver turns a call into a task object and installs it in its
queue. The event loop calls the account's `handler()`, which runs the first task.
An mbox task locks its files through `mail::mbox::lock`, which calls `liblock`;
scans, copies or rewrites them; calls the application's callback; and ends with
`task::done()`. A POP3 task sends a command and lives on until the reply, a timeout
or the end of the connection. The maildrop is a POP3 account whose messages are put
into a maildir, which the maildir driver shows as its folder. Other programs meet
the drivers only in the files and their locks. `couriertcpd` is a program of its
own; it uses `lockdaemon.c` to be started, stopped and restarted.

The components in bold are modelled here; `PROJECT.json` lists all, with the
reason for those that are not.

## 2. Modules

    MailboxMutex  <- refined by -  MailLock       locks: liblock/mail.c, call by call
                                     ^ MailLockProofs
    MboxQueue      ^ MboxQueueProofs              the tasks of an mbox account
    MboxFolder     ^ MboxFolderProofs             the files and the lists of INBOX
    MaildirFolder  ^ MaildirFolderProofs          an open maildir folder
    MaildirQuota   ^ MaildirQuotaProofs           maildirsize
    Pop3           ^ Pop3Proofs                   the tasks and sessions of a POP3 account
    MailTransfer  <- refined by -  Pop3Maildrop   the maildrop
                                     ^ Pop3MaildropProofs
    Tcpd           ^ ServerProofs                 children, slots and limits
    Daemon         ^ ServerProofs                 start, stop and restart

Where TLC needs definitions to instantiate a module `M`, `MCM` has them.

`MboxQueue` and `MboxFolder` are two views of one program. The first keeps what a
task is waiting for and abstracts from the mail; the second keeps the mail, and a
queue without clock and without callbacks. Both take from `MailLock` that while
the account holds its locks, nobody else writes the files. `Pop3Maildrop` likewise
takes a login and a logout, which `Pop3` has in detail, as one step. `Tcpd`'s parent
is `Daemon`'s daemon once it is running; they share no variable, and their proofs share
a module, for which the definitions that both would have are called `TcpdInit`,
`TcpdNext`, `TcpdSpec` and so on in `Tcpd`.

Definitions that a comment calls a mutant are faulty variants of the definition
after them. No specification uses them; they show that the property they are
paired with in `PROJECT.json` can be violated.

### 2.1 MailLock and MailboxMutex

A process is a `pid:host` string. Its program counter `pc[p]` names the system
call it is about to make, and there is one action per call, or per group of calls
whose intermediate states nobody else can see:

- `C...`: `ll_mail_lock`. `CCreate` is `open(O_EXCL)`, `CWlock` the `ll_lockfd`
  that follows, `CWriteId` the id, `CCheck` the comparison of inodes by which the
  creator makes sure that the file is still there; `COpen` to `CUnlink` are the examination
  of somebody else's file, including the detour over its age when it is empty.
- `D...`, `M...`: `ll_mail_open_do`. `DLink` is `link()` to the dot-lock; `DRead`,
  `DKill`, `DUnlink` are `dotlock_exists`; `MLock` is `ll_lockfd` on the mailbox;
  `MFallback` is what the callers do without the dot-lock (readers fall back on a
  read lock of the file alone, and so does everybody who may not create files in
  the mailbox's directory: who is not in `DirWriters`).
- `F...`: `ll_mail_free`: truncate, unlink, check the dot-lock's id, unlink.
- `Reread`: `mail::file` duplicates the descriptor and closes the duplicate, with
  which fcntl drops all locks that the process has on the mailbox. The
  processes in `Rereads` do it *and* keep the lock object. There are two kinds: the
  holders of a multi-message lock, for as long as they have it, and `ExpungeTask`, from
  the end of `LockTask::locked`, which destroys the `mail::file`, to the rename
  (`libmail/mboxexpunge.C:139`). Other tasks give the lock back right after.
- `Exit`, `Crash`, `AgeC`, `AgeD`, the environment: processes end between any two
  calls, and 300 seconds pass over a lock file.

Inodes are a finite set, and a free one is reused as soon as nobody has it
open, as in a file system. Ids are the processes themselves: an id that was read
is what the file held then, so it may be stale.

`MailboxMutex` is the abstract lock: any number of holders that read, or one that
writes. The refinement mapping takes as holders the processes at `"held"`, those
whose `mail::mbox::lock` has a descriptor.

### 2.2 MboxQueue

`tasks` is the queue; a request `r` of the application has a `stage[r]`: not yet
made, the kind of task it is in, waiting for the `RunLater` timer between two
messages, or over. A task that finds the file changed leaves the queue and a
`Reopen(r)` entry takes its place at the end (`DoitChanged`); `Reopened` puts the
task back behind the others. `multi` is `multiLockLock`. `DoitDeferred` is
`TimedTask::doit` when the lock is busy, `DoitError` any other failure, and
`Destroy` is `~mbox()`. `thrown` records that `task::done()` threw its
assertion.

### 2.3 MboxFolder

`inbox` and `spool` are sequences of messages; a message of `inbox` has a body
`b`, the UID `u` of its tag line (0 without one) and a deleted flag `d`, the one flag
the properties tell apart. `spoolTag` has the tag lines of the spool: delivered mail has
none, but a mail reader may save a message of Inbox there, tag line and all (`Resave`). `fmi` and `index` are `folderMessageIndex` and
`index`; `changed` is the comparison of size and time with those saved.

`scan()` has five situations, which its comment in the source calls A to E. Here
they are `Tags` and `Distinct` (reading a file), `CopyNew` and `CopyTagged` (spool to Inbox; a tag line is kept when the folder is
reopened and the application's list has its UID),
and `Rewrite` (expunge, and saving at logout). `orig` is what the signal handler truncates
Inbox to. A copy is taken message by message, so that a kill or a signal may come
after any of them; an expunge is cut in two, before and after the rename.

`mail`, `asked` and `bodyOf` are history: which messages exist, which ones
somebody has asked to remove, and for which message a UID was made.

### 2.4 MaildirFolder

A message is `none`, in `new`, in `cur` or `gone`; its file name in `cur` is its
number and its flags. The driver's index has, per message, the flags as the driver
knows them and those in the last known name. `Rename` is one message of
`updateFlags`, `Find`, `Unlink` one of `removeMessages` or of an expunge,
`Stat`, `GetNew`, `Read`, `AddNew` and `Update` are the parts of a refresh or a check for
new mail: files of `new` are moved one by one, `cur` is read name by name, and then the
new messages are entered and the names of the known ones looked up. `dirent` says of each
file what `readdir()` will do: give its name (`"due"`), or not (`"done"`), or one or the
other (`"may"`), as it does for a file that came, or was renamed, while the directory was
read; `listing` is what `scan` has read. `Others` is any other program. The file
that the driver acts upon is always found again by the unique part of its name
(`maildir_filename`), and the step between finding and acting is visible to others.

### 2.5 MaildirQuota

`proc[p]` is the process: a delivery whose size is known (`job = "file"`) or not
(`"pipe"`), a purge, or a process that sets the quota or recalculates. `size` is
maildirsize: the quota, the sum and the number of its lines, and its modification time.
Opening and reading it is one step, as is every later append, `stat` and `rename`; a
process whose descriptor is of a replaced file has `fd = "old"`. The two directories
are counted one after the other, with `stamp`, their modification times, taken
before and after. `drift` is history: whether something has happened that
the code does not guard the total against. `alone` is history too: that nobody else has
been at work since a process began to count. `Total` is an equation between the sizes of
four sets: the messages inside, the deliveries whose message is inside and not
in the total (`Unlisted`) or the reverse (`Booked`), and the removals that a purge has not
subtracted, as pairs of a purge and a number (`Purged`).

### 2.6 Pop3

`tasks` is the queue; a task is its kind and the request that it will answer, and a
login has `for`, the task that it logs in for. Only the head talks: `Install` is
`installedTask`, and there is one action per reply, and one for each thing that
may come instead: a refusal, a timeout, or the end of the connection. `sess` is the
server's side: who the client is, and the numbers of the messages. `uidl` is
`uidlMap`, the numbers of the last session the client has listed. USER, PASS, CRAM,
CAPA and STLS are one exchange.

### 2.7 Pop3Maildrop and MailTransfer

A session of the maildrop: numbers are given (`LoggedIn`), files are downloaded
(`Retr`), moved into the maildir one by one (`Go`), and deleted from the last to
the first (`Dele`); the server obeys at `QuitDone`. `Lost`, `QuitLost` and `Crash` are
failures, and so is a DELE that the server refuses; there is no limit on any. Mail
arrives again and again: when a message has been moved, and its reader has taken it out of
the maildir (`Take`), its name stands for a new one. `excused` is history: the messages that
a failure has befallen since they were delivered last. `MailTransfer` says what moving mail
means: a message is removed from the server only if it is in the local mailbox. Its `server`
is `box`; `local`, the messages that the maildir has a copy of, is the same in both.

### 2.8 Tcpd

The parent's `label` follows `doit()` round its loop: `select`, `getfreeslot`
with SIGCHLD blocked, `accept`, `fork`, and the assignment of the slot. `ChildSig`
is the handler, which runs between any two steps while the signal is not blocked.
`seen[c]` is the child's copy of the table, made by `fork()`, in which it counts.

### 2.9 Daemon

A start is its command, its child and the daemon in one; `owner` is the list of
the lock files made so far, since `start1` unlinks a lock file that is
another user's. A stop is two processes: one waits for the lock
(`WaitLock`, `WaitClose`, `WaitExit`), the other sends signals (`KillRead`,
`KillSend`) until the first has ended. The pid file is unlinked, made and written in
three steps. The users are ordinary ones: the superuser may open another's lock file and
signal another's daemon, which no user of the model can.

## 3. Runs that pass

| Run | Instance | Checks |
|---|---|---|
| `MailLock_lockfiles` | three writers on two hosts, all of which lose their fcntl lock while they hold the mailbox; full disks | `TypeOK`, `LockFilesKept`, `WritersKeptApart` |
| `MailLock_survivor` | two writers and a reader on two hosts, one of which never gives up | `MutexSpec`: the refinement of `MailboxMutex`; `SurvivorLocks` |
| `MboxQueue_requests` | three requests of any kinds, any number of changes by others | `TypeOK`, `AnsweredOnce`, `NothingLost`, `LockReleased`, `Answered` |
| `MboxFolder_queue` | three messages, two tasks queued at once, signals, one kill | `NoMailLost`, `NoDuplicates`, `TypeOK`, `TagTellsBody`, `Aligned`, `ExpungeSyncs` |
| `MboxFolder_faults` | two messages, one task, multi-message locks, full disks, signals; others save a copy, tag line and all | `ListsUnique` |
| `MaildirQuota_totals` | two deliveries, a purge, and an administrator; one death or other event | `TypeOK`, `TotalRight`, `DoorShut` |
| `MaildirFolder_shared` | two messages, three operations, four changes by others | `TypeOK`, `UidsUnique`, `RefreshAgrees`, `RemovesAsked` |
| `Pop3_requests` | two requests of any kinds beside the account's own, two messages, three connections | `TypeOK`, `OneCallback`, `SentRight`, `Answered` |
| `Pop3Maildrop_moves` | three messages, two in a batch; any number of checks, failures and new messages | `Copies`, `Moves`: the refinement of `MailTransfer`; `CheckEnds` |
| `Tcpd_slots` | two connections from each of two addresses, three slots | `TableIsChildren`, `PerAddress`, `PerNetwork`, `Accepted` |
| `Daemon_control` | three starts, one of another user; a stop; a restart | `TypeOK`, `PidTellsDaemon`, `StopStops`, `HupHarmless`, `StopEnds` |

The type invariants of Tcpd and Pop3Maildrop are proved (section 5) and not checked again.

What they show, in words:

- **Exclusion.** Nobody reads or writes the mailbox beside a writer, whatever becomes
  of the lock files, because the fcntl lock on the mailbox is always taken last.
  The refinement says so for holders that do not close a duplicate of the descriptor.
- **Lock files.** As long as no process has died and no lock file is more than
  300 seconds old, whoever believes it has the dot-lock or the c-client lock has
  it, and the dot-lock alone keeps writers apart. This is the guarantee
  that is left to programs whose fcntl lock is gone or worth nothing (NFS).
- **No permanent lock-out.** A writer that keeps trying gets the mailbox once the
  others are gone, whatever files they left behind: by the pid when they were
  on its host, by the age when they were not or when the file is empty.
- **Callbacks.** A request's callback is called once, by the mbox driver and by
  the POP3 client; by the former once the others stop changing the file, if the file
  always changes before a task gets to it. In the first, no multi-message lock outlives its request; in the
  second, a callback is handed from task to task through logins, logouts and
  lost connections, and message numbers never stray into another session, as
  long as the server does not refuse LIST or UIDL (section 4).
- **Mail in mbox files.** Without multi-message locks and full disks no message
  disappears that nobody asked to remove, also when the program is killed at any point. A
  UID belongs to one message for ever. `folderMessageIndex` matches the file
  as long as the file is believed unchanged. The driver doubles no mail in Inbox, except
  after a SIGKILL in the middle of the copy, which no signal handler can undo. When
  somebody else puts a copy of a tagged message into the spool, its UID gets into Inbox
  twice (section 4, item 2); the lists in memory keep the two apart, and match the file.
- **Mail in maildirs.** The driver never removes a file that nobody asked to remove,
  although it works on numbers and names that may be stale. A refresh that is left
  alone makes index and directories agree, whatever happened before, also after a message
  was entered twice; and that takes another program which renames the file
  while it is read for the first time.
- **Mail in a maildrop.** It is in the maildir before the server removes it. A message is
  delivered again only after a failure that kept the server from removing it, and a check
  ends unless failures or new mail go on without end.
- **Quota.** The total is right unless one of the races that `TotalRight` names has
  happened since the last recalculation that had the maildir to itself; the two that are
  easiest to meet, an append that is lost to a recalculation and a purge that recalculates,
  are among them, so that nothing is shown of these. Deliveries
  overshoot the quota by one message for every other delivery under way at most.
- **Servers.** The table of children is the set of children, whenever the signal comes;
  the limits hold although each child counts in its own, older copy of the table; a
  failed `fork()`, which leaves SIGCHLD blocked, locks nobody out, because
  `getfreeslot` waits for children when the table is full.
- **Daemons.** Whoever starts one, and however the lock file is taken away, the pid
  file has the pid of the daemon that listens, because the port is bound first.

### Bounds

- *Processes.* A removal race takes the dead owner of a stale file,
  whoever examines it, and whoever has replaced it: three processes, of which two have
  to be alive. Two hosts are all the code tells apart (mine, or not mine).
  One process tries again without bound; callers in `OneShot` try once. With four
  inodes there is one for each process and one to spare, so that a freed number need
  not be reused at once; `MailLock_survivor` has two, where it must be. Processes that
  may not create files in the mailbox's directory are left to the proofs.
- *Requests.* Of three mbox requests one can be in the queue, one in a reopening entry and
  one in a timer at once. `MaxReads` 2 is the first number
  for which the timer is needed. Others change the file as often as they like. The clock
  needs a single tick to pass a deadline that is one tick away. Of POP3's two requests
  one may wait for the login of the other; three connections let a session be lost
  twice, and numbers of two earlier sessions be around.
- *Messages.* Two tell positions apart; three are needed to keep one in front of
  and one behind a deleted message. `MaxUid` 2 lets a message get a second UID
  after a copy that was undone. In
  `MboxFolder_queue` a second task may be queued when the first one finds the file
  changed, so a request can be stale by one rescan. The maildrop has a batch of two and
  three messages: a second session is needed when all have come.
  `MboxFolder_faults` has one copy of a message (`MaxCopies`), and two UIDs: one that the
  message and its copy have, and the one that the copy is given in memory. With the faults,
  a third UID, for the next rescan, is beyond TLC; `MboxFolder_copies.cfg` has it without
  faults, and checks `ListsUnique`, `TagTellsBody`, `Aligned` and `ExpungeSyncs`. It is no run
  of `PROJECT.json`: the theorems say the same for all constants.
- *Maildir.* Four changes by others: a message is delivered, moved, and renamed twice
  while it is read, which is what enters it twice; three operations, so that a refresh
  follows one on what was entered before.
- *Quota.* A quota of one message and a purge that changes it from two: the first
  delivery fills the maildir, the second one meets a full one. `Quarter` is one tick of
  the clock, so that the fifteen minutes pass once within `MaxClock`. `MaxLines` 3 stands
  for the 5120 bytes at which the file is written anew. One event (a death, a failed
  write, a removal by a reader, a recalculation that was asked for) is enough for every
  race, because deliveries and purges are not counted.
- *Slots.* Three, for four connections: the table gets full, and the cursor goes round.
- *Daemons.* Two of one user, so that one start meets another; one of another user, which
  takes the lock file away.
- When too few UIDs are left for the messages at hand, the behaviour ends
  (`Over`); nothing else is cut off. `MaxQueue`, `MaxCrashes`, `MaxClock`, `MaxCopies`,
  `MaxOps`, `MaxOther`, `MaxConnects` and `MaxEvents` are bounds in guards of the
  environment or of requests. None of them stands for an assumption of a liveness property
  about other programs or servers: `Answered` of MboxQueue and `CheckEnds`, for which such
  an assumption would matter, have no bound on the environment and state their exceptions.

Symmetry is used for inodes, requests, messages and deliveries, which the modules only
compare for equality, and never in a run with a property under fairness. Deadlock is
not checked where the system really stops when nobody asks for more: in the runs of
the maildir, POP3, tcpd and daemon modules.

### Fairness

- `MailLock`: weak fairness of the steps of each process (not of `Exit` and
  `Crash`: nobody is made to die) and of the passage of time over lock files. A live
  process that has started a system call finishes it, and file times get older.
- `MboxQueue`: weak fairness of the handler and of each timer. The application
  calls `mail::account::process()` in a loop, and that calls `handler()` and the
  `RunLater` timers each time. Other programs may keep the folder locked for ever, because
  a task that finds it locked fails (section 4, item 4). They may also change the file for
  ever, and then a task may be put back for ever: `Answered` says that every request is
  answered, or they do that (`[]<><<OtherWrite>>_vars`).
- `Pop3`: the account's own code runs on, and the first task does not wait for ever:
  a reply comes or the task's timeout passes, which the code itself sees to. Nothing
  makes the server answer.
- `Pop3Maildrop`: its steps go on. What is one step here, a command and its answer,
  ends with an answer, a timeout or a lost connection (`Pop3`). Nothing is assumed of the
  server: `CheckEnds` names three things that keep a check going when they happen without
  end (a refused DELE, a connection lost before the server has obeyed QUIT, new mail), and
  says that it ends otherwise.
- `Tcpd`: the parent runs, signals are delivered, and the programs end some day. Without
  the last a full table may stay full, which is what the limit is for.
- `Daemon`: processes run; a daemon that starts gets on with it or fails; one that
  runs may run for ever, until it is killed. There are as many starts as there are elements
  of `Starts`, each once: with starts without end, a stop might never get the lock.

`MboxFolder`, `MaildirFolder` and `MaildirQuota` have no liveness property: their
operations are loops over finite data that nobody waits for.

## 4. What the code does differently from what it says

One of these is a listed run, because it loses mail:

1. `MboxFolder_v_multilock` (`NoMailLost`): an expunge under a multi-message lock
   deletes the lock in `resetFolder()` before it renames the new file over Inbox; mail
   delivered in between is lost.

The others have a configuration too, and their property is in the module; TLC finds
each of them violated.

*Locks and mbox files*

2. `MboxFolder_v_uids` (`UidsUnique`): "Any existing UIDs in the new messages are
   ignored, each new message is assigned a new UID" (`libmail/mbox.C:1112-1113`). When the
   folder is reopened, a message of the system mailbox whose tag line has a UID of the
   application's list keeps it (`:1341-1357`), and is written to Inbox beside the one that
   has it already. This takes another program that saves a message, tag line and all, into
   the system mailbox. The check marked "SHOULD NOT HAPPEN" (`:1489`) gives the copy another
   UID, but in memory only: Inbox keeps the UID twice, also when it is rewritten, and each
   rescan or rewrite gives the copy a new one. An expunge that is to delete the first of the two
   deletes both, for `deleted` is looked up by the UID in the file (`:1328`).
3. `MailLock_v_multilock` (`WriteExclusion`): reading one message under a
   multi-message lock closes a duplicate of the descriptor (`libmail/file.C:28`), with
   which the fcntl lock is gone; a reader that falls back on the file lock gets in
   beside the writer. An `ExpungeTask` does the same before its rename.
4. `MboxQueue_v_retry` (`BusyIsRetried`): "Try again in 5 seconds" (`libmail/mbox.C:205`)
   never happens, because the parameter `timeout` of `TimedTask::doit` hides the member
   it is to be compared with.
5. `MboxFolder_v_diskfull` (`NoMailLost`): an expunge that fails for lack of space
   (`libmail/mbox.C:1514`) leaves a `folderMessageIndex` that no longer matches the file,
   and the next one believes it.
6. `MboxFolder_v_dirty` (`CleanMeansSaved`): rescanning the folder clears
   `folderDirty` (`libmail/mbox.C:398`) while flags are unsaved.
7. `MailLock_v_dotlock` (`LiveDotlockKept`): two processes examine the dot-lock of a
   dead one. The first removes it and makes its own; the second removes that, by name.
   The mailbox is still safe, the dot-lock is not.
8. `MailLock_v_creator` (`CreatorLocks`): locking the c-client file just created
   "shouldn't" fail, and does, when another process is testing the still empty file
   with a read lock.
9. `MboxQueue_v_done` (`DoneIsFront`): when reopening the folder on behalf of a task
   fails, the task calls `done()` although it is not at the front of the queue, and the
   assertion at `libmail/mbox.C:100` throws.
10. `MboxQueue_v_own` (`OwnLockReused`): an `OpenTask` meets the account's own
    multi-message lock and fails, although that lock is to be reused.
11. `MboxFolder_v_tags` (`TagsKept`): a rewrite gives a new UID to a tagged message that
    the application has not been told of yet.
12. `MboxFolder_v_deleted` (`DeletedNotCopied`): an untagged message that was marked as
    deleted is copied by the expunge, when the folder was rescanned after the request
    and the message has another UID now.

*Maildirs*

13. `MaildirFolder_v_gone` (`CheckAgrees`): a check for new mail is to "reflect deleted,
    or changed, mail" (`libmail/maildir.C:677`), but a message whose file is gone stays
    in the index, because `maildir_filename` always gives a name.
14. `MaildirQuota_v_purge` (`RecalculationHeals`): when the purge itself makes
    `maildirsize` be recalculated, the messages it has removed are subtracted a second
    time; `maildir/README.maildirquota.html:428` says that a recalculation makes the
    quota right again.
15. `MaildirQuota_v_quota` (`QuotaKept`): a recalculation writes back the quota it had
    read, and undoes a `maildirmake -q` of the meantime.

*POP3*

16. `Pop3_v_astray` (`NoCheckAstray`): "so Task::done() ends up calling
    CheckNewMailTask's installedTask" (`libmail/pop3.C:1289`) is not so when the task
    that is next in the queue ends at once; the check is then at the head without
    having been installed, and a reply may find it without a handler.
17. `Pop3_v_session` (`LoggedInMeansSession`): a connection is taken to mean "Logged in,
    yippee!!" (`libmail/pop3.C:807`), also after a login that was refused.
18. `Pop3_v_destroy` (`ClosedAnswers`): an account that is destroyed while it is to
    reconnect leaves callbacks uncalled.
19. `Pop3_v_list` (`SentRight`): when the server refuses LIST or UIDL, the numbers of the
    previous session stay in `uidlMap` and are used in this one.

*Daemons*

20. `Daemon_v_started` (`StartedMeansRunning`): a start that finds the lock taken
    "pretends success"; the lock may also be held, for a moment, by a stop or a restart,
    or by a daemon that never gets to run (`liblock/lockdaemon.c:55`, `:185`).
21. `Daemon_v_term` (`TermFirst`): the first signal of a stop is SIGKILL when the pid file
    was empty the first time it was read (`liblock/lockdaemon.c:304`).

Smaller things seen while modelling, which no violated property stands for: the count of a
maildir compares the latest of the modification times only, so that a message moved
from `new` to `cur` while they are counted may count twice; the warning message that
`deliverquota` adds is not counted when the maildir is over quota; a failed `fork()`
leaves SIGCHLD blocked until the next connection; a maildrop whose server
refuses every DELE checks for ever and moves the same messages each time, because
`deleHandler` does not look at the answer (`CheckEnds` excepts it); a task of an mbox
account is put back into the queue each time others have changed the file, without limit
or deadline (`Answered` excepts it); setting
flags in a maildir overwrites those that another reader has set since the last refresh;
a message of a maildir whose file others rename while its directory is read for the first
time may be entered twice in the index (`UidsUnique` excepts it), and stays so until the
folder is opened again, because `checkNewMail` looks for new UIDs in the old index only and
each refresh finds the file for both entries.

## 5. Proofs

For every value of the constants, from the modules' `ASSUME`s, which say only that the
constants have the right kinds:

| Module | Theorem | States | Assumes |
|---|---|---|---|
| `MailLockProofs` | `TypeCorrect` | `Spec => []TypeOK` | |
| | `Exclusion` | `Spec => []WriteExclusion` | `Rereads = {}` |
| | `LockFilesSafe` | `Spec => []LockFilesKept` | |
| | `DotlockSafe` | `Spec => []WritersKeptApart` | |
| | `Implements` | `Spec => MutexSpec` | `Rereads = {}` |
| `Pop3MaildropProofs` | `TypeCorrect` | `Spec => []TypeOK` | |
| | `CopiesExcused` | `Spec => Copies` | |
| | `Implements` | `Spec => Moves` | |
| `ServerProofs`, Daemon | `TypeCorrect` | `Spec => []TypeOK` | |
| | `PidFileSafe` | `Spec => []PidTellsDaemon` | |
| | `StopSafe` | `Spec => []StopStops` | |
| | `RestartSafe` | `Spec => HupHarmless` | |
| `ServerProofs`, Tcpd | `TcpdTypeCorrect` | `TcpdSpec => []TcpdTypeOK` | |
| | `TableCorrect` | `TcpdSpec => []TableIsChildren` | |
| | `AddressLimit` | `TcpdSpec => []PerAddress` | |
| | `NetworkLimit` | `TcpdSpec => []PerNetwork` | |
| `MboxQueueProofs` | `TypeCorrect` | `Spec => []TypeOK` | |
| | `CallbackOnce` | `Spec => []AnsweredOnce` | |
| | `TaskKept` | `Spec => []NothingLost` | |
| | `LockGivenBack` | `Spec => []LockReleased` | |
| `MboxFolderProofs` | `TypeCorrect` | `Spec => []TypeOK` | |
| | `NoneTwice` | `Spec => []NoDuplicates` | |
| | `ListsDistinct` | `Spec => []ListsUnique` | |
| | `TagsTrue` | `Spec => []TagTellsBody` | room on the disk |
| | `IndexAligned` | `Spec => []Aligned` | room on the disk |
| | `ExpungeInSync` | `Spec => ExpungeSyncs` | room on the disk |
| | `MailKept` | `Spec => []NoMailLost` | room on the disk, no multi-message locks |
| `MaildirFolderProofs` | `TypeCorrect` | `Spec => []TypeOK` | |
| | `IndexUnique` | `Spec => []UidsUnique` | |
| | `RefreshRight` | `Spec => []RefreshAgrees` | |
| | `RemovalAsked` | `Spec => RemovesAsked` | |
| `Pop3Proofs` | `TypeCorrect` | `Spec => []TypeOK` | |
| | `CallbackKept` | `Spec => []OneCallback` | |
| | `NumbersRight` | `Spec => SentRight` | LIST and UIDL not refused |
| `MaildirQuotaProofs` | `TypeCorrect` | `Spec => []TypeOK` | |
| | `TotalKept` | `Spec => []TotalRight` | |
| | `HealedUnlessPurged` | `Spec => []RecalculationHeals` | `Purgers = {}` |
| | `DoorKept` | `Spec => DoorShut` | |

"Room on the disk" is `DiskFills = FALSE`, "no multi-message locks" `MultiLocks = FALSE`,
"LIST and UIDL not refused" `ListMayFail = FALSE`, and `Purgers = {}` that no process is
in `maildir_purge`: the theorem is stated under that hypothesis, and 5.6 and 5.8 say what
happens without. Of the `ASSUME`s some say a little more than kinds: `Conns` of Tcpd,
`Msgs` of Pop3Maildrop, of Pop3 and of MaildirQuota, and the processes of MaildirQuota are
finite, because they are counted, and Tcpd's `None`, which stands for a free slot (pid 0
in the source), is no connection and no address.

### 5.1 MailLockProofs

`Rereads = {}` cannot be dropped: `MailLock_v_multilock` is the counterexample.
`DotlockSafe` is the theorem that covers those processes.

All five rest on one inductive invariant,

    IInv == TypeOK /\ LabelInv /\ MlockInv /\ OwnersInv /\ QuietInv

- `LabelInv`: what a process holds follows from the call it is about to make. A
  descriptor of a c-client file is open only where the code has one, the dot-lock
  is owned by a writer that goes for the mailbox, and a writer gets to the fallback
  only when it may not create files in the directory.
- `MlockInv`: the fcntl lock belongs to holders only, every holder that has not
  reread has it, and it excludes everybody beside a writer. From this,
  `WriteExclusion` follows at once. By itself `WriteExclusion` is not inductive:
  a process that enters is kept out by `mlock` and not by the set of holders.
- `OwnersInv`: two creators never have the same inode, although inodes are reused,
  since a number is free only when nobody has it open.
- `QuietInv`: while nobody has died and nothing is old, nobody is about to remove
  a file that is not its own, and the lock files belong to those who made them.
  `LockFilesKept` alone is not inductive: it says nothing about a process that has
  already decided to unlink, or about one that has created its file and not yet
  checked it.

There is one lemma per part (`TypeStep`, `LabelStep`, `MlockStep`, `OwnersStep`,
`QuietStep`), with one step per action. `Implements` maps each action to `Enter`,
`Leave` or a stutter: only `MLock` and `MFallback` enter, only `Release` and `End`
leave, and `MlockInv` gives `Enter`'s guard. Both theorems with `Rereads = {}` leave out
the multi-message locks and the last part of an `ExpungeTask` (2.1).

### 5.2 Pop3MaildropProofs

    Inv  == TypeOK /\ NumsInv /\ SessionInv
    IInv == Inv /\ CopiesInv

- `NumsInv`: while there is a session, each numbered message is on the server and has
  one number. That a numbering of `n` messages by `1..n` repeats none is
  `NumberingsLemma`, from the library's theorem on surjections of finite sets.
- `SessionInv`: what was downloaded are the first messages in their order
  (`got[n] = nums[n]`); before the end of the commit, those that were moved are in the
  maildir unless `errflag`; what DELE was sent for, or will be, is in the maildir.
- `CopiesInv`: a message that is in the maildir and still on the server was delivered in
  this session (`Fresh`), or a failure has befallen it since. `Copies`, which is about the
  step that delivers a message, follows: who is about to be delivered is on the server, and
  is not fresh, because no message has two numbers.

Steps that end in a state without session share `NoSession`. `Implements` maps `Go(TRUE)` to
`Copy`, the end of a session to `Remove`, whose guard is `SessionInv` at `"quit"`
(`DeletedLocal`), and everything else but `Arrive` to a stutter.

### 5.3 ServerProofs: Tcpd

    TableInv == TcpdTypeOK /\ LabelInv /\ TableIsChildren

`LabelInv` says what the parent may rely on at each label: that the slot under the
cursor stays free from `getfreeslot` to the assignment, and that between
`fork()` and the assignment SIGCHLD is blocked and the child in no slot. Without it,
`TableIsChildren` is not inductive: a child that dies before its slot is assigned
would be reaped first, and its slot never freed. `TableReap` is the handler and
`SlotWait`; `TableState` the steps of peers and children.

The limits are about children that count in copies of the table, each as old as its
`fork()`, which the parent's table has left behind by the time they count. What makes
the counts sufficient is the order of the forks: the parent stores a child before it
forks the next one, so a child's copy has every older child that is still there. The
order is not in the state, and it need not be added as history:

    LimitInv(A, L) == \E rank \in [Conns -> Nat], next \in Nat : Forks(A, L, rank, next)

says that there is one in which a child that has not counted yet has at most as many
older children of `A` as its copy has slots of `A`, and one that serves has fewer than
`L`. A fork takes `next` as the rank of its child. At the end, the youngest of the serving
children has fewer than `L` older ones, which are all the others. `A` is `{a}` for
`AddressLimit` and a network for `NetworkLimit`.

### 5.4 ServerProofs: Daemon

    IInv == TypeOK /\ PortInv /\ ReadInv /\ HeldInv /\ StopInv

- `PortInv`: a daemon past `mksockets()` has the port, so that one daemon at a time
  touches the pid file. It is the port and not the lock file that `PidTellsDaemon`
  rests on: another user's start replaces the lock file.
- `ReadInv`: a pid that is or was in the pid file is of a daemon that has its signal
  handlers, or is dead. `HupHarmless` follows.
- `HeldInv`, `StopInv`: daemons hold the lock of a file they have opened; a stop that
  has had the lock has outlived those that ran when it began (`Outlived`), provided
  that there has been one lock file only.

### 5.5 MboxQueueProofs

    IInv == TypeOK /\ (~thrown => PlacedIn(tasks, stage)) /\ AnsweredInv /\ MultiInv
              /\ DestroyedInv

- `PlacedIn`: the queue has one entry for each request whose stage says that it is
  there, and none for others. `NothingLost` counts entries; that the count is one is
  drawn from the positions being equal, so that no counting is needed in the steps.
- `AnsweredInv`: a callback has been called if, and only if, its request is over.
  `AnsweredOnce` is not inductive, because it allows a request that was answered to be
  still in the queue.
- `MultiInv`, `DestroyedInv`: `multiLockLock` belongs to a request that waits for its
  timer or reads its last message, or there is none.

A lemma for each change of the queue (`PopPlaced` for `task::done()`, and so on) says
that it stays right for the new stages; the actions use those.

### 5.6 MboxFolderProofs

The invariant has three layers, each on top of the one before.

- `BaseInv`, for all constants. `SafeInv` has the types, what the queue has (`QueueInv`:
  a message that is to be added is nowhere yet and in one task; what an expunge is to
  delete was asked for), what the driver is in the middle of, that UIDs which are still to
  be made are nowhere, and that what is in a file was delivered. `CopyInv`: what was copied
  from the spool is its beginning. `DupInv`: without a kill, and when others make no
  copies, a message is once in one file, but for the copy under way, whose position in
  Inbox tells its position in the spool.
  `NoDuplicates` needs that for the rollback and for the end of the copy alike.
  `ListsUnique` is inductive beside `SafeInv` (`ListsDistinct`): it needs that a UID just
  made is nowhere, and what each step does to the lists.
- `FileInv`, with `DiskFills = FALSE`. `TagInv`: a tag, in any file, is of the message it
  was made for. It may be in a file twice, on two copies of one message. `MatchInv`: while
  the file is believed unchanged, `folderMessageIndex` has its messages, each at its place;
  with `multiLockLock`, which keeps others away but not the account's own `Add`, the first
  ones (`Matches`). A message whose tag an earlier one has is there with another UID, made
  for the same message. `Aligned` says the first half of it, and is not inductive: an
  expunge under `multiLockLock` relies on the second. `SyncInv`: `folderMessageIndex` is as
  long as `Inbox~` and has all its UIDs.
- `SingleInv` and `KeepInv`, with `MultiLocks = FALSE` as well: no lock is held for
  several messages, and while `Inbox~` waits for its rename, whatever is in Inbox and not
  in `Inbox~` was asked for.

Both assumptions are needed. With a disk that may be full, TLC finds the
other properties violated, `Aligned` first: a copy or an expunge that fails leaves a
`folderMessageIndex` that the file does not match (section 4, item 5;
`MboxFolder_v_diskfull` for `NoMailLost`). And an expunge under `multiLockLock` gives the
lock back before the rename (item 1). `MboxFolder_queue` checks with both `FALSE`,
`MboxFolder_faults` checks `ListsUnique`, which needs neither, with both `TRUE`.
`NoDuplicates` needs neither either: the theorem covers full disks and multi-message locks.
No theorem but `NoneTwice` assumes that others make no copies of messages. That
no UID is twice in Inbox itself (`UidsUnique`) is false (section 4, item 2).

UIDs made for several positions (`UidFrom`), and the members of a list at certain
positions (`Select`), are defined by counting the positions before one. That this is an
enumeration (`NthProperties`) comes from a theorem of the library on injections between
finite sets of one size, and not from an induction: the step that a recursive `SelectSeq`
would need is out of the prover's reach. `RewriteProperties` says of the rewritten file
that it has each kept position once, and no other; it carries the proofs of `NoneTwice`,
`TagsTrue` and `MailKept` through the expunge.

### 5.7 MaildirFolderProofs

    IInv == SafeInv /\ ReadInv /\ AgreeInv /\ OtherInv

- `SafeInv`: the types; `UidsUnique`; which operation is where (`OpInv`); nothing is
  marked as deleted, in a name or in the index, that nobody wanted removed (`MarkInv`);
  what `removeMessages` has still to remove was asked for, and what an expunge is about to
  unlink is marked (`RemoveInv`). `RemovesAsked` is drawn from the last two: the number
  and the name that were looked up are still of the same message when the file is
  unlinked.
- `ReadInv`: what was read of a directory so far. A message that has been read twice, or
  that has been read and may be given by `readdir()` again, was renamed by others in this
  reading (`raced`), or is in the index already, so that its entry will not be used.
  `UidsUnique` is not inductive without it: it does not see the doubled names before they
  are entered. That the old index is consulted is what keeps those out which were known
  before, and that a new entry's names differ only for a `raced` message is `ReadInv`.
- `AgreeInv`: as long as nobody interferes, the messages the loop of a refresh has passed
  are in the directory (`LoopInv`), the name just looked up is the present one
  (`StatInv`), after the loop the index has nothing that the directory has not (`DirInv`),
  every file of `new` is still to be moved or has been (`NewInv`), every file of `cur` is
  still to be read or has been read with its present name (`CurInv`), and after the scan
  the index has everything, with the present flags (`ScanInv`).
  `RefreshAgrees` speaks of the end of the operation only and is not inductive without
  these.
- `OtherInv`: changes by others are counted, so that a step of the driver is none.

### 5.8 Pop3Proofs

    Inv == TypeInv /\ OwnerInv        TypeInv == QueueInv /\ RequestInv /\ ListsInv /\ LineInv

- `TypeInv` says more than `TypeOK`. `ListsInv`: no message is twice in the index or in a
  mailbox, and no number twice in `uidlMap`; without that neither would the index stay as
  short as `updateIndex` needs, nor would new messages be ordered by their numbers.
  `LineInv`: whoever reads the reply sent the command, unless a check that nobody
  installed was put before it, and a connection has no session before the client is let
  in. `ReplyUidl` needs the former to know that the task with the replies of a login is a
  LoginTask, and has a task to bring back.
- `OwnerInv`: the queue has one task for each request that was made and not answered, but
  for the one whose ForceCheckNewMailTask is deleted late, and none for others.
  `OneCallback` is not inductive, because it allows a task of a request that was never
  made. Each change of the queue has a lemma (`PlacedAppend`, `PlacedTail`, `PlacedFirst`,
  `PlacedInstead`, and `ChecksProperties` for the timeout, where the queue is filtered by
  positions, as in 5.6), each kind of step another one (`EndsStep`, `InsteadStep`,
  `AllEndStep`, `LoggedOutStep`).
- `FreshInv`, for `NumbersRight`: while the server has let the client in, `uidlMap` has
  the numbers of the session (`Fresh`), or the login that will list them is at work, or a
  check that was never installed stands in front of the queue (`Pending`). In both
  exceptions nothing is installed, so no task uses an old number. That the second one
  lasts until the connection is lost is what keeps the error described in section 4,
  item 16, from touching mail.

With `ListMayFail = TRUE`, `FreshInv` and `SentRight` are false: a LoginTask that fails at
LIST leaves its connection, which the next task takes for logged in, with the numbers of
the session before (section 4, item 19, `Pop3_v_list`). `TypeCorrect` and `CallbackKept`
do not depend on it.

### 5.9 MaildirQuotaProofs

    IInv == TypeInv /\ MsgInv /\ AloneInv /\ FdInv /\ TotalRight

- `TypeInv` has, beside the types, what each stage leaves in a process's record
  (`StageOK`): a process that has nothing to do is as `memset` leaves it, who counts has a
  quota, who renames has read both directories.
- `MsgInv`: the message of a delivery is outside the maildir until that delivery moves
  it, and no two deliveries have the same one. So a move adds one message.
- `AloneInv`: a process that has had the maildir to itself since it began to count has
  counted exactly the messages of the directories it has read. So its rename sets the
  total right; at that moment the others have nothing to enter, being idle.
- `FdInv`: while the total is right, who will append has the present maildirsize open.
  So no append goes to a file that was renamed over; it is why a recalculation beside
  another process counts as a race, for it leaves that process an `"old"` descriptor.

`TotalRight` alone is not inductive: it says neither where the next append goes nor what
a recalculation has counted. `IInv` was checked with TLC on the instance of
`MaildirQuota_totals` before it was proved.

The processes are any finite set, and the account is over all of them. `AccountStep`
says that a step of one process changes each of the four sets by that process's part
alone: `MemberStep` for `Unlisted` and `Booked`, which change in one element at most;
`PairsMore` and `PairsNone` for `Purged`, where a purge removes one message more, or has
subtracted all of its own. That is how a sum over the processes is had without induction.
What a step leaves to the others is in `KeptOthers`, and what docheckquota's
answer makes of a record in `ContinueShape` and `ProceedStep`, which `Open`, `WriteFails`
and `CountRestat` share. `QuietStep` is for the actions that change neither a
message nor maildirsize, `ReaderStep` for the mail reader.

`DoorKept` is an action property, and follows from the invariant: only `Open` lets a
message in (`LetInOpens`), and then on a total that is right, within the quota with
the message added; whoever is inside and not in the total is one of the others that
still owe. `HealedUnlessPurged` is the other side of `MaildirQuota_v_purge` (section
4, item 14): without a purge what that run refutes holds.

## 6. What is only model-checked

- Liveness (`SurvivorLocks`, `Answered`, `Accepted`, `StopEnds`, `CheckEnds`): fairness and
  ENABLED are out of the prover's reach, and stay with TLC.
- `MboxFolder` when the disk fills: `TypeCorrect`, `NoneTwice` and `ListsDistinct` cover that; what
  the other theorems state is false then (5.6).
- `Pop3` when the server refuses LIST or UIDL: `TypeCorrect` and `CallbackKept` cover that,
  `SentRight` is false then (5.8).
- `QuotaKept` of MaildirQuota does not hold, and `RecalculationHeals` only where nobody
  purges (section 4, 5.9).
- `DeletedNotCopied`, `TagsKept`, `CleanMeansSaved` and `UidsUnique` of MboxFolder do not hold (section 4).

## 7. Not modelled

### What the modules leave out

- *Text.* `From ` lines, headers, the layout of the tag line and of `pid:host` are
  model values. A message is copied whole or not at all: a kill in the middle of a
  message leaves a truncated one at the end of Inbox, which the next scan reads as
  a message, beside the whole one that is still in the spool. `NoMailLost` is not
  affected; `NoDuplicates` does not speak of runs with a kill.
- *Size and time.* `changed` is exact. For INBOX with a system mailbox
  the code sets the file's time back by one second (`libmail/mboxopen.C:197`), so that
  a later change in the same second shows. For other folders it may not
  (hazard `mboxopen.C:206`).
- *UIDs* are unique when made: time, process and counter in the source. A tag line in
  the spool has a UID that the driver made, from a message of Inbox that somebody saved;
  foreign ones, from another account's folder, are not in the application's list and would
  be ignored.
- *Opening.* A failing `ftruncate` of the spool after the copy, whose result the code
  ignores (`libmail/mboxopen.C:186`), and a failing `fstat` or `utime` after that
  (`:191-204`). In the first case the mail stays in the spool and is copied again.
- *Memory* is never short, and `malloc` does not fail.
- *Other folders* of the account, keywords, the folder hierarchy.
- *Locks in MboxFolder.* Other programs respect the locks, all of them: what
  `MailLock` shows of programs that use liblock. An `ExpungeTask` has only its lock files
  left when it renames (2.1): who respects nothing but fcntl is not kept out.
- `ll_dotlock` is `try_dotlock` and `dotlock_exists` with the caller's timeout.
- *Quota.* Messages of one size, so that bytes and messages are one number; one maildir
  without subfolders.
- *Maildirs.* `maildir_getnew` reads and renames twenty files at a time, and gives up
  further rounds when a rename fails; here they are one round. The search of a message by
  its unique part is one step, though it reads the directory too; keywords.
- *POP3.* The authentication exchanges, the text of messages and the cache of the last
  message read. With the option "cram", `hmacHandler` does not return after it has failed
  the login (`libmail/pop3.C:592-605`): it goes on with a task that is deleted, and sends
  USER. The model ends the task there.
- *tcpd.* Access files, DNS and blocklists are the choice whether a child serves;
  `waitlib` is not part of this repository.
- *Daemons.* Process numbers are not used twice. `couriertcpd` stands for the daemon.

### What no module covers

The repository has some 227,000 lines. Most of them are not state and steps: generated
tables (`unicode/*tab.h` alone more than 20,000), the bundled gettext, terminal screens
and dialogs (`cone/curses*.C`), and parsers and formatters over text (`rfc822`,
`rfc2045`, `rfc1035`, `imapfolder.C`, `smtpinfo.C`), whose correctness is about strings
character by character and which a model that abstracts from text says nothing of. To
map a third of the repository would take models of these, and these would be
transliterations. The components that have control worth checking and are not modelled
are the IMAP, SMAP, NNTP and SMTP clients, `lockmail`'s own loop, maildir keywords and
ACLs, and the TLS session cache.

## 8. Plan

Done: MailLock, MboxQueue, MboxFolder, MaildirFolder, MaildirQuota, Pop3, Pop3Maildrop,
Tcpd, Daemon, and proofs of all of them. Next, in this order:

1. `Smtp`: the queue of messages, pipelined recipients and reconnection; `Imap`: the
   handler stack and IDLE.
2. `Lockmail`: the retry loop, signals and child of `lockmail.c` (it sleeps between attempts
   with its handlers installed, and looks at the signal only after a failed one, `:120`) on top of the abstract
   lock.
3. A composition of `MailLock` and `MboxFolder`, in which the lock is the protocol
   and not an assumption.
4. `TlsCache`: the circular session cache, with integers and wrap-around.

## 9. Running

    tlc -workers 2 -config MailLock_survivor.cfg MCMailLock
    tlapm MailLockProofs.tla

The first part of a configuration's name is its module; TLC is given `MC` and that name
where there is such a module. The longest runs are `MaildirFolder_shared`
(three minutes with two workers), `MailLock_survivor`, `MaildirQuota_totals` and
`MboxFolder_queue` (about two each); the proofs take about twenty minutes in all, `MboxFolderProofs` and `MaildirQuotaProofs` more
than half of them.
