------------------------------ MODULE MCDaemon ------------------------------
(***************************************************************************)
(* An instance of Daemon for TLC: of three starts, the last is another     *)
(* user's; one stop and one restart.                                       *)
(***************************************************************************)
EXTENDS Daemon

CONSTANTS d1, d2, d3, stop1, restart1, alice, bob

AllStarts == {d1, d2, d3}
Users == [p \in AllStarts \cup {stop1, restart1} |-> IF p = d3 THEN bob ELSE alice]
=============================================================================
