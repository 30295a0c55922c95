---------------------------- MODULE MaildirFolder ---------------------------
(***************************************************************************)
(* An open folder of the maildir driver (libmail/maildir.C, scan in        *)
(* libmail/maildirfolder.C, maildir_filename and maildir_getnew).          *)
(*                                                                         *)
(* A message is a file in new or cur.  Its name has a unique part, which   *)
(* is the message's UID, and in cur its flags.  Nothing is locked: other   *)
(* programs deliver, move, rename and remove files at any time, and the    *)
(* driver looks for a message by the unique part of the name it last had.  *)
(*                                                                         *)
(* Each step of the driver is a system call.  A directory is read name by  *)
(* name, while others change it: readdir() gives a name that is there all  *)
(* the time once, and one that comes or goes meanwhile or not.  Only the   *)
(* search for a message by its unique part is one step, and checkNewMail   *)
(* looks all known messages up again in one.  Keywords are not modelled.   *)
(***************************************************************************)
EXTENDS Naturals, Sequences, FiniteSets

CONSTANTS
    NMsgs,      \* the messages are 1..NMsgs, in the order of their timestamps
    MaxOps,     \* bound: the operations of the driver
    MaxOther    \* bound: the changes made by other programs

ASSUME MaildirFolderAssumption == NMsgs \in Nat /\ MaxOps \in Nat /\ MaxOther \in Nat

Msgs == 1..NMsgs
Flags == SUBSET {"S", "T"}      \* seen and deleted: the flags of a name

VARIABLES
    loc,       \* loc[m]: "none" before delivery, "new", "cur" or "gone"
    flags,     \* flags[m]: the flags in the name of m's file in cur
    index,     \* the folder index: [uid, name, flags]; name is
               \* lastKnownFilename's flags
    pc,        \* "idle", or what the driver is about to do
    op,        \* the operation it does, or the last it did
    todo,      \* message numbers still to be looked at
    fn,        \* messageFn: the flags in the name that getfilename gave
    ops,       \* how many operations there were
    other,     \* how many changes others made
    dirent,    \* dirent[m]: readdir() will give the name of m's file in the
               \* directory that is read ("due"), may give it ("may"), or has
               \* given it or never will ("done")
    listing,   \* newIndex, what was read of cur: entries, sorted
    touched,   \* history: others changed something during the operation
    raced,     \* history: the messages that others renamed while cur was read,
               \* before they were in the index
    asked      \* history: the messages that somebody wanted removed

mem == <<index, pc, op, todo, fn, ops>>
reading == <<dirent, listing, raced>>
vars == <<loc, flags, index, pc, op, todo, fn, ops, other, dirent, listing, touched,
          raced, asked>>

Init ==
    /\ loc = [m \in Msgs |-> "none"]
    /\ flags = [m \in Msgs |-> {}]
    /\ index = <<>>
    /\ pc = "getnew"
    /\ op = "open"
    /\ todo = {}
    /\ fn = {}
    /\ ops = 0
    /\ other = 0
    /\ dirent = [m \in Msgs |-> "done"]
    /\ listing = <<>>
    /\ touched = FALSE
    /\ raced = {}
    /\ asked = {}

-----------------------------------------------------------------------------
(* Other programs.                                                         *)

Cur == {m \in Msgs : loc[m] = "cur"}
Uids == {index[i].uid : i \in DOMAIN index}

\* The file is in the directory that the driver reads.
Reads(m) == (pc = "getnew" /\ loc[m] = "new") \/ (pc = "scan" /\ loc[m] = "cur")

\* A file that comes to the directory that is read, or gets another name there,
\* may be read, also if it was before; one that leaves it will not be.
Others(m) ==
    /\ other < MaxOther
    /\ other' = other + 1
    /\ touched' = TRUE
    /\ UNCHANGED <<mem, listing>>
    /\ dirent' = [dirent EXCEPT ![m] = IF Reads(m)' THEN "may" ELSE "done"]

Deliver(m) ==
    /\ loc[m] = "none"
    /\ loc' = [loc EXCEPT ![m] = "new"]
    /\ Others(m)
    /\ UNCHANGED <<flags, raced, asked>>

OtherMoves(m) ==
    /\ loc[m] = "new"
    /\ loc' = [loc EXCEPT ![m] = "cur"]
    /\ Others(m)
    /\ UNCHANGED <<flags, raced, asked>>

OtherFlags(m, f) ==
    /\ loc[m] = "cur" /\ f # flags[m]
    /\ flags' = [flags EXCEPT ![m] = f]
    /\ asked' = IF "T" \in f THEN asked \cup {m} ELSE asked
    /\ raced' = IF pc = "scan" THEN raced \cup ({m} \ Uids) ELSE raced
    /\ UNCHANGED loc
    /\ Others(m)

OtherRemoves(m) ==
    /\ loc[m] = "cur"
    /\ loc' = [loc EXCEPT ![m] = "gone"]
    /\ Others(m)
    /\ UNCHANGED <<flags, raced, asked>>

-----------------------------------------------------------------------------
(* The driver.                                                             *)

\* opendir().
OpenDir(dir) == dirent' = [m \in Msgs |-> IF loc[m] = dir THEN "due" ELSE "done"]

\* getfilename: the file with the same unique part, or the last known name,
\* whether there is such a file or not.
Filename(i) == IF index[i].uid \in Cur THEN flags[index[i].uid] ELSE index[i].name

\* Whether the file that was found is still there under that name.
Exists(i) == index[i].uid \in Cur /\ flags[index[i].uid] = fn

Begin(what) ==
    /\ pc = "idle" /\ ops < MaxOps
    /\ ops' = ops + 1
    /\ op' = what
    /\ touched' = FALSE

\* saveFolderIndexInfo, updateFolderIndexFlags: flags of one message.
Mark(i, f) ==
    /\ Begin("mark")
    /\ index' = [index EXCEPT ![i].flags = f]
    /\ todo' = {i}
    /\ fn' = Filename(i)
    /\ pc' = "rename"
    /\ asked' = IF "T" \in f THEN asked \cup {index[i].uid} ELSE asked
    /\ UNCHANGED <<loc, flags, other, reading>>

\* updateFlags: nothing to do if the name has the flags; rename() fails if the
\* name has changed.
Rename(i) ==
    /\ pc = "rename" /\ i \in todo
    /\ IF Exists(i) /\ fn # index[i].flags
       THEN /\ flags' = [flags EXCEPT ![index[i].uid] = index[i].flags]
            /\ index' = [index EXCEPT ![i].name = index[i].flags]
       ELSE UNCHANGED <<flags, index>>
    /\ todo' = {}
    /\ pc' = "idle"
    /\ UNCHANGED <<loc, op, fn, ops, other, reading, touched, asked>>

\* removeMessages.
Remove(is) ==
    /\ Begin("remove")
    /\ todo' = is
    /\ pc' = "find"
    /\ asked' = asked \cup {index[i].uid : i \in is}
    /\ UNCHANGED <<loc, flags, index, fn, other, reading>>

\* updateFolderIndexInfo(callback): an expunge; or, with doExpunge false, what
\* the handler does when the directory has changed.
Expunge ==
    /\ Begin("expunge")
    /\ todo' = DOMAIN index
    /\ pc' = "find"
    /\ UNCHANGED <<loc, flags, index, fn, other, reading, asked>>

Refresh ==
    /\ Begin("refresh")
    /\ todo' = DOMAIN index
    /\ pc' = "find"
    /\ UNCHANGED <<loc, flags, index, fn, other, reading, asked>>

CheckNewMail ==
    /\ Begin("check")
    /\ pc' = "getnew" /\ OpenDir("new")
    /\ UNCHANGED <<loc, flags, index, todo, fn, other, listing, raced, asked>>

\* Mutant: the loop goes from the first message to the last.
FirstMutant(i) == i \in todo /\ \A j \in todo : i <= j

\* The loop over the index goes from the last message to the first.  (The one
\* of removeMessages takes nothing out of the index, and its order is any.)
Last(i) == i \in todo /\ \A j \in todo : j <= i

Without(i) == SubSeq(index, 1, i - 1) \o SubSeq(index, i + 1, Len(index))

\* Mutant: an expunge takes any flag in the index for the mark.
FindFlagged(i) ==
    /\ pc = "find" /\ Last(i)
    /\ fn' = Filename(i)
    /\ IF op = "expunge" /\ index[i].flags = {}
       THEN todo' = todo \ {i} /\ UNCHANGED pc
       ELSE pc' = (IF op = "refresh" THEN "stat" ELSE "unlink") /\ UNCHANGED todo
    /\ UNCHANGED <<loc, flags, index, op, ops, other, reading, touched, asked>>

\* getfilename; an expunge skips what is not marked in the index.
Find(i) ==
    /\ pc = "find" /\ Last(i)
    /\ fn' = Filename(i)
    /\ IF op = "expunge" /\ "T" \notin index[i].flags
       THEN todo' = todo \ {i} /\ UNCHANGED pc
       ELSE pc' = (IF op = "refresh" THEN "stat" ELSE "unlink") /\ UNCHANGED todo
    /\ UNCHANGED <<loc, flags, index, op, ops, other, reading, touched, asked>>

\* unlink; an expunge takes the message out of the index, whatever came of it.
Unlink(i) ==
    /\ pc = "unlink" /\ Last(i)
    /\ loc' = IF Exists(i) THEN [loc EXCEPT ![index[i].uid] = "gone"] ELSE loc
    /\ index' = IF op = "expunge" THEN Without(i) ELSE index
    /\ todo' = todo \ {i}
    /\ pc' = "find"
    /\ UNCHANGED <<flags, op, fn, ops, other, reading, touched, asked>>

\* removeMessages goes on as updateFolderIndexInfo without an expunge.
Removed ==
    /\ pc = "find" /\ todo = {} /\ op = "remove"
    /\ op' = "refresh"
    /\ todo' = DOMAIN index
    /\ UNCHANGED <<loc, flags, index, pc, fn, ops, other, reading, touched, asked>>

\* A message that is not there is taken out of the index.
Stat(i) ==
    /\ pc = "stat" /\ Last(i)
    /\ index' = IF Exists(i) THEN index ELSE Without(i)
    /\ todo' = todo \ {i}
    /\ pc' = "find"
    /\ UNCHANGED <<loc, flags, op, fn, ops, other, reading, touched, asked>>

\* updateFolderIndexInfo goes on as checkNewMail.
Found ==
    /\ pc = "find" /\ todo = {} /\ op # "remove"
    /\ pc' = "getnew" /\ OpenDir("new")
    /\ UNCHANGED <<loc, flags, index, op, todo, fn, ops, other, listing, touched, raced, asked>>

\* maildir_getnew: the files that were read in new are renamed, one by one.
GetNew(m) ==
    /\ pc = "getnew" /\ dirent[m] # "done"
    /\ loc' = [loc EXCEPT ![m] = "cur"]
    /\ dirent' = [dirent EXCEPT ![m] = "done"]
    /\ UNCHANGED <<flags, mem, other, listing, touched, raced, asked>>

AllRead == \A m \in Msgs : dirent[m] # "due"

\* scan() comes next.
GotNew ==
    /\ pc = "getnew" /\ AllRead
    /\ pc' = "scan" /\ OpenDir("cur")
    /\ raced' = raced \cap Uids
    /\ UNCHANGED <<loc, flags, index, op, todo, fn, ops, other, listing, touched, asked>>

\* An entry of newIndex, before its k-th.
EntryOf(m) == [uid |-> m, name |-> flags[m], flags |-> flags[m]]

Insert(k, e) ==
    [i \in 1..(Len(listing) + 1) |->
        IF i < k THEN listing[i] ELSE IF i = k THEN e ELSE listing[i - 1]]

\* scan(): a name is read, and gets its place in the order of the timestamps.
\* (Two names of one message are in the order of their flags: in any.)
Read(m, k) ==
    /\ pc = "scan" /\ dirent[m] # "done"
    /\ \A i \in DOMAIN listing : IF i < k THEN listing[i].uid <= m ELSE m <= listing[i].uid
    /\ listing' = Insert(k, EntryOf(m))
    /\ dirent' = [dirent EXCEPT ![m] = "done"]
    /\ UNCHANGED <<loc, flags, mem, other, touched, raced, asked>>

\* The members of a sequence at the positions in ns, in order.
Nth(ns, k) == CHOOSE n \in ns : Cardinality({x \in ns : x <= n}) = k
Select(s, ns) == [k \in 1..Cardinality(ns) |-> s[Nth(ns, k)]]

NewOnes == {k \in DOMAIN listing : listing[k].uid \notin Uids}

ScanDone ==
    /\ pc = "scan" /\ AllRead
    /\ todo' = DOMAIN index
    /\ pc' = "update"
    /\ dirent' = [m \in Msgs |-> "done"] /\ listing' = <<>>
    /\ UNCHANGED <<loc, flags, op, fn, ops, other, touched, raced, asked>>

\* Mutant: every message of the directory is taken for a new one.
AddAll == ScanDone /\ index' = index \o listing

\* checkNewMail: entries whose UIDs are not in existingMessages, the UIDs of
\* the index before the scan, are added to it.
AddNew == ScanDone /\ index' = index \o Select(listing, NewOnes)

\* Mutant: the flags of a message that is known are not read again.
UpdateNames ==
    /\ pc = "update"
    /\ index' = [i \in DOMAIN index |->
                   IF i \in todo THEN [index[i] EXCEPT !.name = Filename(i)] ELSE index[i]]
    /\ todo' = {}
    /\ pc' = "idle"
    /\ UNCHANGED <<loc, flags, op, fn, ops, other, reading, touched, asked>>

\* checkNewMail: the names and flags of the others.  getfilename always has a
\* name to give: a message that is gone stays in the index.
Update ==
    /\ pc = "update"
    /\ index' = [i \in DOMAIN index |->
                   IF i \in todo
                   THEN [index[i] EXCEPT !.name = Filename(i), !.flags = Filename(i)]
                   ELSE index[i]]
    /\ todo' = {}
    /\ pc' = "idle"
    /\ UNCHANGED <<loc, flags, op, fn, ops, other, reading, touched, asked>>

-----------------------------------------------------------------------------
Requests ==
    \/ \E i \in DOMAIN index, f \in Flags : Mark(i, f)
    \/ \E is \in SUBSET DOMAIN index \ {{}} : Remove(is)
    \/ Expunge \/ Refresh \/ CheckNewMail

Driver ==
    \/ \E i \in todo : Rename(i) \/ Find(i) \/ Unlink(i) \/ Stat(i)
    \/ \E m \in Msgs : GetNew(m) \/ \E k \in 1..(Len(listing) + 1) : Read(m, k)
    \/ Removed \/ Found \/ GotNew \/ AddNew \/ Update

Next ==
    \/ Requests \/ Driver
    \/ \E m \in Msgs : \/ Deliver(m) \/ OtherMoves(m) \/ OtherRemoves(m)
                       \/ \E f \in Flags : OtherFlags(m, f)

Spec == Init /\ [][Next]_vars

-----------------------------------------------------------------------------
(* Properties.                                                             *)

\* The type invariant.
TypeOK ==
    /\ loc \in [Msgs -> {"none", "new", "cur", "gone"}]
    /\ flags \in [Msgs -> Flags]
    /\ \A i \in DOMAIN index : index[i] \in [uid : Msgs, name : Flags, flags : Flags]
    /\ pc \in {"idle", "rename", "find", "unlink", "stat", "getnew", "scan", "update"}
    /\ todo \subseteq DOMAIN index
    /\ fn \in Flags
    /\ dirent \in [Msgs -> {"due", "may", "done"}]
    /\ \A m \in Msgs : dirent[m] # "done" => Reads(m)
    /\ \A i \in DOMAIN listing : listing[i] \in [uid : Msgs, name : Flags, flags : Flags]
    /\ raced \subseteq Msgs

\* A message is in the index twice only if others renamed its file while the
\* directory was read, when it was entered: not because it was taken out of the
\* index while others renamed it, and came back, nor because others moved it
\* from new to cur beside the driver.  (scan, checkNewMail.)
UidsUnique ==
    \A i, j \in DOMAIN index : i # j /\ index[i].uid = index[j].uid => index[i].uid \in raced

\* The driver removes the file of a message only if its removal was asked for
\* or the message was marked as deleted: message numbers and names that were
\* looked up before another program's changes never lead to another message.
\* (removeMessages, updateFolderIndexInfo, getfilename.)
RemovesAsked ==
    [][\A m \in Msgs : pc = "unlink" /\ loc[m] = "cur" /\ loc'[m] = "gone" /\ other' = other
          => m \in asked]_vars

There == {m \in Msgs : loc[m] \in {"new", "cur"}}

\* The index and the folder are the same.
Agree ==
    /\ Uids = There
    /\ \A i \in DOMAIN index :
         index[i].name = flags[index[i].uid] /\ index[i].flags = flags[index[i].uid]

\* If nobody else changed the folder meanwhile, a refresh leaves index and
\* folder the same, whatever happened before it, and any check or expunge an
\* index that knows every message.  (updateFolderIndexInfo, checkNewMail.)
RefreshAgrees ==
    pc = "idle" /\ ~touched =>
       /\ op \in {"open", "refresh"} => Agree
       /\ op \in {"check", "expunge"} => There \subseteq Uids

\* maildir.C: checkNewMail's callbacks "reflect deleted, or changed, mail".
CheckAgrees == pc = "idle" /\ ~touched /\ op = "check" => Agree
=============================================================================
