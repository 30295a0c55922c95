----------------------------- MODULE MCMailLock -----------------------------
(***************************************************************************)
(* Instances of MailLock for TLC.  The host of every process is fixed by   *)
(* name, so that the configurations choose hosts by choosing processes.    *)
(***************************************************************************)
EXTENDS MailLock, TLC

CONSTANTS a1, a2, a3, b1        \* a1, a2, a3 run on one host, b1 on another

MCHost == [p \in Procs |-> IF p = b1 THEN "b" ELSE "a"]

\* The inode numbers are interchangeable.
InodeSymmetry == Permutations(Inodes)
=============================================================================
