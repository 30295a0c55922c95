---------------------------- MODULE MCMboxQueue -----------------------------
(***************************************************************************)
(* Instances of MboxQueue for TLC: the requests are interchangeable.       *)
(***************************************************************************)
EXTENDS MboxQueue, TLC

ReqSymmetry == Permutations(Reqs)
=============================================================================
