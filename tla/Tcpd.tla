-------------------------------- MODULE Tcpd --------------------------------
(***************************************************************************)
(* The server loop of couriertcpd (tcpd/tcpd.c): doit, getfreeslot,        *)
(* accepted, doreap, and the limits that run() checks in the child.        *)
(*                                                                         *)
(* The parent keeps a table of its children, pids[] and addrs[].  A slot   *)
(* is taken after fork(), and given back by doreap(), which is called by   *)
(* the handler of SIGCHLD whenever that signal is not blocked, or from     *)
(* getfreeslot() when the table is full.  A child has the table as it was  *)
(* when it was forked, and counts in it the connections from its peer's    *)
(* address and network before it starts the server program.                *)
(*                                                                         *)
(* A connection, and the child that is forked for it, are one identity:    *)
(* the kernel does not give away a process number before wait() returned   *)
(* it.  waitlib (wait_block, wait_clear, wait_forchild, wait_reap) is not  *)
(* part of this repository; it is modelled from its use.                   *)
(***************************************************************************)
EXTENDS Naturals, FiniteSets

CONSTANTS
    Conns,       \* the connections, and the processes that serve them
    None,        \* the -1 of a free slot
    NProcs,      \* nprocs: the size of the table
    AddrOf,      \* AddrOf[c]: the address that connection c comes from
    BlockOf,     \* BlockOf[a]: the network of address a
    MaxPerIp,    \* maxperip, or MAXCPERIP of the access file, of an address
    MaxPerC      \* maxperc: the limit for a network

Addrs == {AddrOf[c] : c \in Conns}
Slots == 0..(NProcs - 1)

ASSUME TcpdAssumption ==
    /\ None \notin Conns \cup Addrs
    /\ IsFiniteSet(Conns)
    /\ NProcs \in Nat \ {0}
    /\ MaxPerC \in Nat \ {0}
    /\ DOMAIN AddrOf = Conns
    /\ DOMAIN BlockOf = Addrs
    /\ MaxPerIp \in [Addrs -> Nat \ {0}]

VARIABLES
    label,        \* the parent: "select", "slot", "accept", "fork", "store"
    cursor,    \* doit's pidptr
    conn,      \* the connection that accepted() works on, or None
    pids,      \* pids[]
    addrs,     \* addrs[]: whatever was there before, in a free slot
    blocked,   \* SIGCHLD is blocked
    state,     \* state[c]: "none", "pending", "accepted", "forked", "serving",
               \* "zombie", or the end: "reaped", "closed"
    seen       \* seen[c]: the addresses of the slots in use in c's copy of the
               \* table

tcpdVars == <<label, cursor, conn, pids, addrs, blocked, state, seen>>

\* The children that wait() has not returned yet.
Children == {c \in Conns : state[c] \in {"forked", "serving", "zombie"}}
Zombies == {c \in Conns : state[c] = "zombie"}

\* A process without a copy of the table: execv() and exit() drop it.
NoCopy == [n \in Slots |-> None]

TcpdInit ==
    /\ label = "select"
    /\ cursor = 0
    /\ conn = None
    /\ pids = [n \in Slots |-> None]
    /\ addrs \in [Slots -> {None}]
    /\ blocked = FALSE
    /\ state = [c \in Conns |-> "none"]
    /\ seen = [c \in Conns |-> NoCopy]

\* Somebody connects; the kernel queues it at the listening socket.
Connect(c) ==
    /\ state[c] = "none"
    /\ state' = [state EXCEPT ![c] = "pending"]
    /\ UNCHANGED <<label, cursor, conn, pids, addrs, blocked, seen>>

\* The peer gives up before accept().
Abort(c) ==
    /\ state[c] = "pending"
    /\ state' = [state EXCEPT ![c] = "closed"]
    /\ UNCHANGED <<label, cursor, conn, pids, addrs, blocked, seen>>

-----------------------------------------------------------------------------
(* The parent.                                                             *)

\* doreap, for every process in ps.
Reap(ps) ==
    /\ pids' = [n \in Slots |-> IF pids[n] \in ps THEN None ELSE pids[n]]
    /\ state' = [c \in Conns |-> IF c \in ps THEN "reaped" ELSE state[c]]

\* childsig: the handler runs between any two steps.
ChildSig ==
    /\ ~blocked /\ Zombies # {}
    /\ Reap(Zombies)
    /\ UNCHANGED <<label, cursor, conn, addrs, blocked, seen>>

\* doit: select() returns when there is a connection.
Select ==
    /\ label = "select"
    /\ \E c \in Conns : state[c] = "pending"
    /\ label' = "slot"
    /\ blocked' = TRUE
    /\ UNCHANGED <<cursor, conn, pids, addrs, state, seen>>

\* The first free slot that getfreeslot comes to.
Distance(n) == (n + NProcs - cursor) % NProcs
FreeSlots == {n \in Slots : pids[n] = None}

\* getfreeslot: a slot is found, and wait_clear().
SlotFound ==
    /\ label = "slot"
    /\ \E n \in FreeSlots :
         /\ \A m \in FreeSlots : Distance(n) <= Distance(m)
         /\ cursor' = n
    /\ blocked' = FALSE
    /\ label' = "accept"
    /\ UNCHANGED <<conn, pids, addrs, state, seen>>

\* Mutant: the table is searched again, with SIGCHLD blocked.
SlotSpin ==
    /\ label = "slot"
    /\ FreeSlots = {}
    /\ UNCHANGED tcpdVars

\* getfreeslot: the table is full, wait_forchild() returns one of the dead.
SlotWait ==
    /\ label = "slot"
    /\ FreeSlots = {}
    /\ \E c \in Zombies : Reap({c})
    /\ UNCHANGED <<label, cursor, conn, addrs, blocked, seen>>

\* doit: a connection, or none if the peer has gone; accepted() may find that
\* it cannot use it.
Accept ==
    /\ label = "accept"
    /\ \/ \E c \in Conns :
            /\ state[c] = "pending"
            /\ \/ /\ state' = [state EXCEPT ![c] = "accepted"]
                  /\ conn' = c
                  /\ label' = "fork"
               \/ /\ state' = [state EXCEPT ![c] = "closed"]
                  /\ label' = "select"
                  /\ UNCHANGED conn
       \/ /\ \A c \in Conns : state[c] # "pending"
          /\ label' = "select"
          /\ UNCHANGED <<conn, state>>
    /\ UNCHANGED <<cursor, pids, addrs, blocked, seen>>

\* What the child has of the table.
Copy == [n \in Slots |-> IF pids[n] = None THEN None ELSE addrs[n]]

\* Mutant: SIGCHLD is not blocked around fork().
ForkUnblocked ==
    /\ label = "fork"
    /\ state' = [state EXCEPT ![conn] = "forked"]
    /\ seen' = [seen EXCEPT ![conn] = Copy]
    /\ label' = "store"
    /\ UNCHANGED <<cursor, conn, pids, addrs, blocked>>

\* accepted: wait_block(), fork().
Fork ==
    /\ label = "fork"
    /\ blocked' = TRUE
    /\ state' = [state EXCEPT ![conn] = "forked"]
    /\ seen' = [seen EXCEPT ![conn] = Copy]
    /\ label' = "store"
    /\ UNCHANGED <<cursor, conn, pids, addrs>>

\* fork() fails: accepted returns, and SIGCHLD stays blocked.
ForkFails ==
    /\ label = "fork"
    /\ blocked' = TRUE
    /\ state' = [state EXCEPT ![conn] = "closed"]
    /\ conn' = None
    /\ label' = "select"
    /\ UNCHANGED <<cursor, pids, addrs, seen>>

\* accepted: pids[n]=p, addrs[n]=addr, wait_clear().
Store ==
    /\ label = "store"
    /\ pids' = [pids EXCEPT ![cursor] = conn]
    /\ addrs' = [addrs EXCEPT ![cursor] = AddrOf[conn]]
    /\ conn' = None
    /\ blocked' = FALSE
    /\ label' = "select"
    /\ UNCHANGED <<cursor, state, seen>>

-----------------------------------------------------------------------------
(* The children.                                                           *)

SameAddr(c) == {n \in Slots : seen[c][n] = AddrOf[c]}
SameBlock(c) ==
    {n \in Slots : seen[c][n] # None /\ BlockOf[seen[c][n]] = BlockOf[AddrOf[c]]}

\* Mutant: the connection itself is taken to be in the table.
AdmittedLate(c) ==
    /\ Cardinality(SameAddr(c)) <= MaxPerIp[AddrOf[c]]
    /\ Cardinality(SameBlock(c)) < MaxPerC

\* Mutant: the network is not looked at.
AdmittedAnyBlock(c) == Cardinality(SameAddr(c)) < MaxPerIp[AddrOf[c]]

\* run: fewer than the limit from the same address and from the same network.
Admitted(c) ==
    /\ Cardinality(SameAddr(c)) < MaxPerIp[AddrOf[c]]
    /\ Cardinality(SameBlock(c)) < MaxPerC

\* run: the program is started, if allowaccess, blocklists and so on let it.
Serve(c) ==
    /\ state[c] = "forked"
    /\ Admitted(c)
    /\ state' = [state EXCEPT ![c] = "serving"]
    /\ seen' = [seen EXCEPT ![c] = NoCopy]
    /\ UNCHANGED <<label, cursor, conn, pids, addrs, blocked>>

\* The child ends: refused, denied, or when the program has ended.
ChildExit(c) ==
    /\ state[c] \in {"forked", "serving"}
    /\ state' = [state EXCEPT ![c] = "zombie"]
    /\ seen' = [seen EXCEPT ![c] = NoCopy]
    /\ UNCHANGED <<label, cursor, conn, pids, addrs, blocked>>

-----------------------------------------------------------------------------
Parent == Select \/ SlotFound \/ SlotWait \/ Accept \/ Fork \/ ForkFails \/ Store

TcpdNext ==
    \/ Parent \/ ChildSig
    \/ \E c \in Conns : Connect(c) \/ Abort(c) \/ Serve(c) \/ ChildExit(c)

TcpdSpec == TcpdInit /\ [][TcpdNext]_tcpdVars

\* The parent runs, a signal is delivered, and the programs end some day.
TcpdFairSpec ==
    /\ TcpdSpec
    /\ WF_tcpdVars(Parent) /\ WF_tcpdVars(ChildSig)
    /\ \A c \in Conns : WF_tcpdVars(ChildExit(c))

-----------------------------------------------------------------------------
(* Properties.                                                             *)

\* The type invariant.
TcpdTypeOK ==
    /\ label \in {"select", "slot", "accept", "fork", "store"}
    /\ cursor \in Slots
    /\ conn \in Conns \cup {None}
    /\ pids \in [Slots -> Conns \cup {None}]
    /\ addrs \in [Slots -> Addrs \cup {None}]
    /\ blocked \in BOOLEAN
    /\ state \in [Conns -> {"none", "pending", "accepted", "forked", "serving",
                           "zombie", "reaped", "closed"}]
    /\ seen \in [Conns -> [Slots -> Addrs \cup {None}]]

\* The table is the set of the children, but for the one whose fork() has just
\* returned: a child has one slot, with its address, and no slot is kept for a
\* process that wait() has returned, however soon after fork() it ended.
\* (getfreeslot, accepted and doreap, which share pids[] with a handler.)
TableIsChildren ==
    /\ \A n \in Slots : pids[n] # None =>
         /\ pids[n] \in Children
         /\ addrs[n] = AddrOf[pids[n]]
         /\ \A m \in Slots : pids[m] = pids[n] => m = n
    /\ \A c \in Children :
         (label = "store" /\ c = conn) \/ \E n \in Slots : pids[n] = c
    /\ label = "store" => pids[cursor] = None

Serving(cs) == {c \in cs : state[c] = "serving"}

\* No address has more servers than its limit, although each child counts in
\* its own copy of the table and the copies are of different times (run).
PerAddress ==
    \A a \in Addrs :
       Cardinality(Serving({c \in Conns : AddrOf[c] = a})) <= MaxPerIp[a]

\* No network has more servers than its limit (run).
PerNetwork ==
    \A a \in Addrs :
       Cardinality(Serving({c \in Conns : BlockOf[AddrOf[c]] = BlockOf[a]})) <= MaxPerC

\* Every connection is accepted or given up by the peer, also after the table
\* was full and after a failed fork() that left SIGCHLD blocked (doit).
Accepted ==
    \A c \in Conns : state[c] = "pending" ~> state[c] # "pending"
=============================================================================
