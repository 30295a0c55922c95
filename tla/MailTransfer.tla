---------------------------- MODULE MailTransfer ----------------------------
(***************************************************************************)
(* What it means to move mail from a server to a local mailbox without     *)
(* losing any: a message is removed from the server only when the local    *)
(* mailbox has it.  Its reader may then take it from there.                *)
(***************************************************************************)
CONSTANT Msgs
VARIABLES server, local

Init == server = {} /\ local = {}

Arrive(m) ==
    /\ m \notin server \cup local
    /\ server' = server \cup {m}
    /\ UNCHANGED local

Copy(m) ==
    /\ m \in server
    /\ local' = local \cup {m}
    /\ UNCHANGED server

Remove(ms) ==
    /\ ms \subseteq local
    /\ server' = server \ ms
    /\ UNCHANGED local

Take(m) ==
    /\ m \in local \ server
    /\ local' = local \ {m}
    /\ UNCHANGED server

Next ==
    \/ \E m \in Msgs : Arrive(m) \/ Copy(m) \/ Take(m)
    \/ \E ms \in SUBSET Msgs : Remove(ms)

Spec == Init /\ [][Next]_<<server, local>>
=============================================================================
