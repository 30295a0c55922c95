---------------------------- MODULE MailboxMutex ----------------------------
(***************************************************************************)
(* What a mailbox lock promises to the code that opens a mailbox through   *)
(* it (mail::mbox::lock in libmail, lockmail in liblock): any number of    *)
(* readers, or one writer.  This is the abstract specification; MailLock   *)
(* is the protocol of liblock/mail.c that implements it.                   *)
(***************************************************************************)
CONSTANTS Procs,        \* the processes that lock the mailbox
          Writers       \* the ones that ask for a read/write lock
                        \* (a subset of Procs)

VARIABLE holders        \* the processes that have the mailbox open, locked

Init == holders = {}

(***************************************************************************)
(* A writer enters only when nobody is inside, a reader only when no       *)
(* writer is.                                                              *)
(***************************************************************************)
Enter(p) ==
    /\ p \notin holders
    /\ IF p \in Writers THEN holders = {} ELSE holders \cap Writers = {}
    /\ holders' = holders \cup {p}

(***************************************************************************)
(* A holder leaves by releasing the lock or by dying.                      *)
(***************************************************************************)
Leave(p) ==
    /\ p \in holders
    /\ holders' = holders \ {p}

Next == \E p \in Procs : Enter(p) \/ Leave(p)

Spec == Init /\ [][Next]_holders
=============================================================================
