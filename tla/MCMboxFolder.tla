---------------------------- MODULE MCMboxFolder ----------------------------
(***************************************************************************)
(* Instances of MboxFolder for TLC: the messages are interchangeable.      *)
(***************************************************************************)
EXTENDS MboxFolder, TLC

BodySymmetry == Permutations(Bodies)
=============================================================================
