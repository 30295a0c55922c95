------------------------------- MODULE MCTcpd -------------------------------
(***************************************************************************)
(* An instance of Tcpd for TLC: two connections from each of two addresses *)
(* of one network.  The first may have one connection, the second two, the *)
(* network two; the table has three slots.                                 *)
(***************************************************************************)
EXTENDS Tcpd

CONSTANTS c1, c2, c3, c4

AllConns == {c1, c2, c3, c4}
Addresses == [c \in AllConns |-> IF c \in {c1, c2} THEN "a" ELSE "b"]
Networks == [a \in {"a", "b"} |-> "n"]
Limits == [a \in {"a", "b"} |-> IF a = "a" THEN 1 ELSE 2]
=============================================================================
