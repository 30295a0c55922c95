-------------------------- MODULE MCMaildirQuota ----------------------------
(***************************************************************************)
(* Instances of MaildirQuota for TLC: every delivery is started with the   *)
(* same quota argument, so that deliveries, like messages, are             *)
(* interchangeable.                                                        *)
(***************************************************************************)
EXTENDS MaildirQuota, TLC

QuotaArguments == [d \in Deliverers |-> 1]

QuotaSymmetry == Permutations(Msgs) \cup Permutations(Deliverers)
=============================================================================
