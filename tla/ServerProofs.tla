---------------------------- MODULE ServerProofs ----------------------------
(***************************************************************************)
(* Proofs about the two components of a couriertcpd server, which share no *)
(* variable: Daemon, for any number of starts, stops and restarts of any   *)
(* users, and below it Tcpd, for any connections, table and limits.        *)
(***************************************************************************)
EXTENDS Daemon, Tcpd, FiniteSetTheorems, TLAPS

(***************************************************************************)
(* mksockets() keeps daemons apart where the lock file does not: who has   *)
(* bound the port is alone in writing the pid file.                        *)
(***************************************************************************)
PortInv ==
    /\ \A d \in Starts : pc[d] \in Listening => port = d
    /\ PidTellsDaemon

(***************************************************************************)
(* A pid that can be read is of a daemon that has, or had, its handlers.   *)
(***************************************************************************)
HasHandlers(d) == d \in Starts => pc[d] \in Listening \cup {"dead"}

ReadInv ==
    /\ HasHandlers(pidfile)
    /\ \A p \in Stops \cup Restarts : HasHandlers(read[p])

(***************************************************************************)
(* A daemon holds the lock of the file that it has opened.                 *)
(***************************************************************************)
HeldInv ==
    \A d \in Starts :
        /\ pc[d] = "lock" => opened[d] # 0
        /\ pc[d] \in {"bind"} \cup Listening => held[d] # 0

(***************************************************************************)
(* A stop that has had the lock has outlived the daemons that ran when it  *)
(* began.                                                                  *)
(***************************************************************************)
StopFacts(s) ==
    /\ pc[s] \in {"test", "signal"} => opened[s] # 0
    /\ \A d \in before[s] : pc[d] \in {"running", "dead"}
    /\ Len(owner) <= 1 /\ pc[s] \in {"tested", "locked", "closed", "done"} =>
         \A d \in before[s] : pc[d] = "dead"

StopInv == \A s \in Stops : StopFacts(s)

IInv == TypeOK /\ PortInv /\ ReadInv /\ HeldInv /\ StopInv

-----------------------------------------------------------------------------
\* Nothing has been started.
LEMMA InitIInv == Init => IInv
<1> SUFFICES ASSUME Init PROVE IInv
  OBVIOUS
<1>1. TypeOK
  <2>1. owner \in Seq({UserOf[p] : p \in Commands}) /\ Len(owner) = 0
    BY DEF Init
  <2> QED
    BY <2>1 DEF Init, TypeOK, Places
<1>2. PortInv /\ HeldInv
  BY DEF Init, PortInv, PidTellsDaemon, HeldInv, Listening, Commands
<1>3. ReadInv
  BY DaemonAssumption DEF Init, ReadInv, HasHandlers, Commands
<1>4. StopInv
  BY DEF Init, StopInv, StopFacts, Commands
<1> QED
  BY <1>1, <1>2, <1>3, <1>4 DEF IInv

Users == {UserOf[p] : p \in Commands}

Made(p) ==
    /\ owner' \in Seq(Users)
    /\ Len(owner) \in Nat /\ Len(owner') \in Nat /\ Len(owner) <= Len(owner')
    /\ 0..Len(owner) \subseteq 0..Len(owner')
    /\ file' \in 0..Len(owner')
    /\ opened' \in [Commands -> 0..Len(owner')]
    /\ opened'[p] # 0
    /\ \A q \in Commands \ {p} : opened'[q] = opened[q]

\* The lock file is opened: it is the one there was, or a new one.
LEMMA OpenFileLemma ==
    ASSUME TypeOK, NEW p \in Commands, OpenFile(p)
    PROVE  Made(p)
<1>1. owner \in Seq(Users) /\ UserOf[p] \in Users
  BY DEF TypeOK, Users
<1>2. Len(owner) \in Nat
  BY <1>1
<1>3. file \in 0..Len(owner) /\ opened \in [Commands -> 0..Len(owner)]
  BY DEF TypeOK
<1>4. CASE file = 0
  <2>1. owner' = Append(owner, UserOf[p]) /\ file' = Len(owner) + 1
        /\ opened' = [opened EXCEPT ![p] = Len(owner) + 1]
    BY <1>4 DEF OpenFile
  <2>2. owner' \in Seq(Users) /\ Len(owner') = Len(owner) + 1
    BY <1>1, <2>1
  <2>3. 0..Len(owner) \subseteq 0..Len(owner') /\ Len(owner) + 1 \in 0..Len(owner')
    BY <1>2, <2>2
  <2>4. opened' \in [Commands -> 0..Len(owner')]
    BY <1>3, <2>1, <2>3
  <2> QED
    BY <1>2, <1>3, <2>1, <2>2, <2>3, <2>4 DEF Made
<1>5. CASE file # 0
  <2>1. owner' = owner /\ file' = file /\ opened' = [opened EXCEPT ![p] = file]
    BY <1>5 DEF OpenFile
  <2>2. opened' \in [Commands -> 0..Len(owner')]
    BY <1>3, <2>1
  <2> QED
    BY <1>1, <1>2, <1>3, <1>5, <2>1, <2>2 DEF Made
<1> QED
  BY <1>4, <1>5

\* A daemon ends, wherever it is.
LEMMA EndsIInv ==
    ASSUME IInv, NEW d \in Starts, Ends(d, pc),
           UNCHANGED <<file, owner, pidfile, before>>,
           sig' \in [Stops -> {"term", "kill"}],
           read' \in [Stops \cup Restarts -> Starts \cup {Nobody}],
           \A p \in Stops \cup Restarts : read'[p] \in {read[p], Nobody}
    PROVE  IInv'
<1>1. /\ pc \in [Commands -> Places] /\ pc' \in [Commands -> Places]
      /\ pc'[d] = "dead"
      /\ \A p \in Commands \ {d} : pc'[p] = pc[p]
  BY DEF IInv, TypeOK, Ends, Places, Commands
<1>2. TypeOK'
  <2>1. 0 \in 0..Len(owner)
    BY DEF IInv, TypeOK
  <2> QED
    BY <1>1, <2>1 DEF IInv, TypeOK, Ends, DropLock, Commands
<1>3. PortInv'
  BY <1>1 DEF IInv, TypeOK, PortInv, PidTellsDaemon, Ends, Listening, Commands
<1>4. ReadInv'
  BY <1>1, DaemonAssumption DEF IInv, TypeOK, ReadInv, HasHandlers, Commands
<1>5. HeldInv'
  BY <1>1 DEF IInv, TypeOK, HeldInv, Ends, DropLock, Listening, Commands
<1>6. StopInv'
  <2>1. SUFFICES ASSUME NEW s \in Stops
                 PROVE  /\ pc'[s] = pc[s] /\ opened'[s] = opened[s]
                        /\ \A e \in before[s] : pc'[e] \in {pc[e], "dead"}
    BY DEF IInv, StopInv, StopFacts
  <2>2. s \in Commands \ {d}
    BY DaemonAssumption DEF Commands
  <2> QED
    BY <1>1, <2>2 DEF IInv, TypeOK, Ends, Commands
<1> QED
  BY <1>2, <1>3, <1>4, <1>5, <1>6 DEF IInv

\* A daemon that does not listen moves on to a place where it does not listen
\* either.
LEMMA StartingIInv ==
    ASSUME IInv, TypeOK', NEW d \in Starts, NEW l,
           l \notin Listening, l # "dead",
           pc' = [pc EXCEPT ![d] = l],
           pc[d] \in {"idle", "reopen", "lock"},
           l = "lock" => opened'[d] # 0,
           l = "bind" => held'[d] # 0,
           Len(owner) <= Len(owner'), Len(owner') \in Nat, Len(owner) \in Nat,
           \A p \in Commands \ {d} : opened'[p] = opened[p] /\ held'[p] = held[p],
           UNCHANGED <<port, pidfile, read, before>>
    PROVE  IInv'
<1>1. /\ pc'[d] = l
      /\ \A p \in Commands \ {d} : pc'[p] = pc[p]
      /\ \A p \in Stops \cup Restarts : p \in Commands \ {d}
      /\ Starts \subseteq Commands
  BY DaemonAssumption DEF IInv, TypeOK, Commands
<1>2. PortInv'
  BY <1>1 DEF IInv, PortInv, PidTellsDaemon, Listening
<1>3. ReadInv'
  BY <1>1 DEF IInv, ReadInv, HasHandlers, Listening
<1>4. HeldInv'
  BY <1>1 DEF IInv, HeldInv, Listening
<1>5. StopInv'
  <2> SUFFICES ASSUME NEW s \in Stops
               PROVE  /\ pc'[s] = pc[s] /\ opened'[s] = opened[s]
                      /\ \A e \in before[s] : pc[e] \in {"running", "dead"} => pc'[e] = pc[e]
    BY DEF IInv, StopInv, StopFacts
  <2> QED
    BY <1>1 DEF IInv, TypeOK
<1> QED
  BY <1>2, <1>3, <1>4, <1>5 DEF IInv

\* A daemon that has bound the port moves on.
LEMMA ListeningIInv ==
    ASSUME IInv, NEW d \in Starts, NEW l \in Listening,
           pc' = [pc EXCEPT ![d] = l],
           pc[d] \in Listening \ {"running"} \/ (pc[d] = "bind" /\ port = Nobody),
           port' = d,
           pidfile' \in {"none", "empty", d, pidfile},
           l \in {"report", "setup", "running"} => pidfile' = d,
           UNCHANGED <<file, owner, opened, held, read, sig, before>>
    PROVE  IInv'
<1>1. /\ pc'[d] = l
      /\ \A p \in Commands \ {d} : pc'[p] = pc[p]
      /\ \A p \in Stops \cup Restarts : p \in Commands \ {d}
      /\ Starts \subseteq Commands
  BY DaemonAssumption DEF IInv, TypeOK, Commands
<1>2. TypeOK'
  <2>1. pc' \in [Commands -> Places]
    BY <1>1 DEF IInv, TypeOK, Places, Alive
  <2> QED
    BY <2>1 DEF IInv, TypeOK
<1>3. \A e \in Starts \ {d} : pc[e] \notin Listening
  BY DaemonAssumption DEF IInv, PortInv, Commands
<1>4. PortInv'
  BY <1>1, <1>3 DEF IInv, PortInv, PidTellsDaemon, Listening
<1>5. ReadInv'
  BY <1>1, DaemonAssumption DEF IInv, ReadInv, HasHandlers, Listening
<1>6. HeldInv'
  BY <1>1 DEF IInv, HeldInv, Listening
<1>7. StopInv'
  <2> SUFFICES ASSUME NEW s \in Stops
               PROVE  /\ pc'[s] = pc[s]
                      /\ \A e \in before[s] : pc[e] \in {"running", "dead"} => pc'[e] = pc[e]
    BY DEF IInv, StopInv, StopFacts
  <2> QED
    BY <1>1 DEF IInv, TypeOK, Listening
<1> QED
  BY <1>2, <1>4, <1>5, <1>6, <1>7 DEF IInv

\* Every step of a daemon keeps the invariant.
LEMMA DaemonIInv ==
    ASSUME IInv, NEW d \in Starts, DaemonStep(d)
    PROVE  IInv'
<1>0. d \in Commands /\ Len(owner) \in Nat
  BY DEF IInv, TypeOK, Commands
<1>1. ASSUME OpenFile(d), Goto(d, "lock"), pc[d] \in {"idle", "reopen"},
             UNCHANGED <<held, port, pidfile, read, sig, before>>
      PROVE  IInv'
  <2>1. Made(d)
    BY <1>0, <1>1, OpenFileLemma DEF IInv
  <2>2. pc' \in [Commands -> Places]
    BY <1>1 DEF Goto, IInv, TypeOK, Places, Alive
  <2>3. held' \in [Commands -> 0..Len(owner')]
    BY <1>1, <2>1 DEF Made, IInv, TypeOK
  <2>4. TypeOK'
    BY <1>1, <2>1, <2>2, <2>3 DEF Made, Users, IInv, TypeOK
  <2> QED
    BY <1>1, <2>1, <2>4, StartingIInv DEF Made, Goto, Listening
<1>2. CASE OpenLock(d)
  <2>1. CASE MayOpen(d)
    BY <1>1, <1>2, <2>1 DEF OpenLock
  <2>2. CASE ~MayOpen(d)
    <3>1. 0 \in 0..Len(owner) /\ pc' \in [Commands -> Places]
      BY <1>0, <1>2, <2>2 DEF OpenLock, Goto, IInv, TypeOK, Places, Alive
    <3>2. TypeOK'
      BY <1>2, <2>2, <3>1 DEF OpenLock, IInv, TypeOK
    <3> QED
      BY <1>0, <1>2, <2>2, <3>2, StartingIInv DEF OpenLock, Goto, Listening
  <2> QED
    BY <2>1, <2>2
<1>2a. CASE ReopenLock(d)
  BY <1>1, <1>2a DEF ReopenLock
<1>3. CASE LockTest(d)
  <2>1. TypeOK'
    <3>1. pc' \in [Commands -> Places]
      BY <1>3 DEF LockTest, Goto, IInv, TypeOK, Places, Alive
    <3>2. 0 \in 0..Len(owner) /\ opened[d] \in 0..Len(owner)
      BY <1>0 DEF IInv, TypeOK
    <3>3. opened' \in [Commands -> 0..Len(owner)] /\ held' \in [Commands -> 0..Len(owner)]
      BY <1>0, <1>3, <3>2 DEF LockTest, TakeLock, IInv, TypeOK
    <3> QED
      BY <1>3, <3>1, <3>3 DEF LockTest, IInv, TypeOK
  <2>2. CASE Taken(opened[d])
    <3>1. /\ pc' = [pc EXCEPT ![d] = "pretended"] /\ pc[d] = "lock"
          /\ \A p \in Commands \ {d} : opened'[p] = opened[p] /\ held'[p] = held[p]
          /\ UNCHANGED <<owner, port, pidfile, read, before>>
      BY <1>3, <2>2 DEF LockTest, Goto, IInv, TypeOK
    <3>2. Len(owner) <= Len(owner') /\ Len(owner') \in Nat
      BY <1>0, <3>1
    <3> QED
      BY <1>0, <2>1, <3>1, <3>2, StartingIInv DEF Listening
  <2>3. CASE ~Taken(opened[d])
    <3>1. /\ pc' = [pc EXCEPT ![d] = "bind"] /\ pc[d] = "lock" /\ held'[d] = opened[d]
          /\ \A p \in Commands \ {d} : opened'[p] = opened[p] /\ held'[p] = held[p]
          /\ UNCHANGED <<owner, port, pidfile, read, before>>
      BY <1>0, <1>3, <2>3 DEF LockTest, TakeLock, Goto, IInv, TypeOK
    <3>2. held'[d] # 0
      BY <3>1 DEF IInv, HeldInv
    <3>3. Len(owner) <= Len(owner') /\ Len(owner') \in Nat
      BY <1>0, <3>1
    <3> QED
      BY <1>0, <2>1, <3>1, <3>2, <3>3, StartingIInv DEF Listening
  <2> QED
    BY <2>2, <2>3
<1>4. CASE Bind(d)
  BY <1>4, ListeningIInv DEF Bind, Goto, Listening
<1>5. CASE PidUnlink(d)
  <2>1. port = d
    BY <1>5 DEF PidUnlink, IInv, PortInv, Listening
  <2> QED
    BY <1>5, <2>1, ListeningIInv DEF PidUnlink, Goto, Listening
<1>6. CASE PidCreate(d)
  <2>1. port = d
    BY <1>6 DEF PidCreate, IInv, PortInv, Listening
  <2> QED
    BY <1>6, <2>1, ListeningIInv DEF PidCreate, Goto, Listening
<1>7. CASE PidWrite(d)
  <2>1. port = d
    BY <1>7 DEF PidWrite, IInv, PortInv, Listening
  <2> QED
    BY <1>7, <2>1, ListeningIInv DEF PidWrite, Goto, Listening
<1>8. CASE Report(d)
  <2>1. port = d /\ pidfile = d
    BY <1>8 DEF Report, IInv, PortInv, PidTellsDaemon, Listening
  <2> QED
    BY <1>8, <2>1, ListeningIInv DEF Report, Goto, Listening
<1>9. CASE Setup(d)
  <2>1. port = d /\ pidfile = d
    BY <1>9 DEF Setup, IInv, PortInv, PidTellsDaemon, Listening
  <2> QED
    BY <1>9, <2>1, ListeningIInv DEF Setup, Goto, Listening
<1>10. CASE Exit(d)
  BY <1>10, EndsIInv DEF Exit, IInv, TypeOK
<1> QED
  BY <1>2, <1>3, <1>4, <1>5, <1>6, <1>7, <1>8, <1>9, <1>10, <1>2a DEF DaemonStep

\* Pids are read, and signals are sent that nobody minds.
LEMMA SignalIInv ==
    ASSUME IInv, UNCHANGED <<pc, file, owner, opened, held, port, pidfile, before>>,
           sig' \in [Stops -> {"term", "kill"}],
           read' \in [Stops \cup Restarts -> Starts \cup {Nobody}],
           \A p \in Stops \cup Restarts : read'[p] \in {read[p], Nobody, pidfile}
    PROVE  IInv'
<1>1. TypeOK'
  BY DEF IInv, TypeOK
<1>2. PortInv' /\ HeldInv' /\ StopInv'
  BY DEF IInv, PortInv, PidTellsDaemon, HeldInv, StopInv, StopFacts
<1>3. ReadInv'
  BY DaemonAssumption DEF IInv, ReadInv, HasHandlers, Commands
<1> QED
  BY <1>1, <1>2, <1>3 DEF IInv

\* A stop or a restart moves on.
LEMMA CommandIInv ==
    ASSUME IInv, TypeOK', NEW p \in Stops \cup Restarts, NEW l,
           pc' = [pc EXCEPT ![p] = l],
           Len(owner) <= Len(owner'), Len(owner') \in Nat, Len(owner) \in Nat,
           \A q \in Commands \ {p} : opened'[q] = opened[q] /\ held'[q] = held[q],
           \A q \in Stops \cup Restarts : read'[q] \in {read[q], Nobody, pidfile},
           \A s \in Stops \ {p} : before'[s] = before[s],
           UNCHANGED <<port, pidfile>>,
           p \in Stops => StopFacts(p)'
    PROVE  IInv'
<1>1. /\ pc'[p] = l
      /\ \A q \in Commands \ {p} : pc'[q] = pc[q]
      /\ Starts \subseteq Commands \ {p}
      /\ \A s \in Stops : before[s] \subseteq Starts
  BY DaemonAssumption DEF IInv, TypeOK, Commands
<1>2. PortInv'
  BY <1>1 DEF IInv, PortInv, PidTellsDaemon
<1>3. ReadInv'
  BY <1>1, DaemonAssumption DEF IInv, ReadInv, HasHandlers, Commands
<1>4. HeldInv'
  BY <1>1 DEF IInv, HeldInv
<1>5. ASSUME NEW s \in Stops PROVE StopFacts(s)'
  <2>1. CASE s = p
    BY <2>1
  <2>2. CASE s # p
    <3>1. s \in Commands \ {p}
      BY <2>2 DEF Commands
    <3>2. pc'[s] = pc[s] /\ opened'[s] = opened[s] /\ before'[s] = before[s]
      BY <1>1, <2>2, <3>1
    <3>3. \A d \in before[s] : pc'[d] = pc[d]
      BY <1>1
    <3>4. Len(owner') <= 1 => Len(owner) <= 1
      OBVIOUS
    <3> QED
      BY <3>2, <3>3, <3>4 DEF IInv, StopInv, StopFacts
  <2> QED
    BY <2>1, <2>2
<1>6. StopInv'
  BY <1>5 DEF StopInv, StopFacts
<1> QED
  BY <1>2, <1>3, <1>4, <1>6 DEF IInv

\* A stop that finds the lock free has outlived the daemons that ran when it
\* began, if nobody has replaced the lock file.
LEMMA Outlived ==
    ASSUME IInv, NEW s \in Stops, opened[s] # 0, ~Taken(opened[s]),
           Len(owner) <= 1
    PROVE  \A d \in before[s] : pc[d] = "dead"
<1> SUFFICES ASSUME NEW d \in before[s], pc[d] # "dead" PROVE FALSE
  OBVIOUS
<1>1. d \in Starts /\ d \in Commands /\ s \in Commands
  BY DEF IInv, TypeOK, Commands
<1>2. pc[d] = "running"
  BY DEF IInv, StopInv, StopFacts
<1>3. held[d] # 0
  BY <1>1, <1>2 DEF IInv, HeldInv, Listening
<1>4. held[d] \in 0..Len(owner) /\ opened[s] \in 0..Len(owner) /\ Len(owner) \in Nat
  BY <1>1 DEF IInv, TypeOK
<1>5. held[d] = opened[s]
  BY <1>3, <1>4
<1> QED
  BY <1>1, <1>5 DEF Taken

\* Every step of a stop or a restart keeps the invariant.
LEMMA CommandStepIInv ==
    ASSUME IInv, NEW p \in Stops \cup Restarts,
           Open(p) \/ Test(p) \/ TestClose(p)
    PROVE  IInv'
<1>0. p \in Commands /\ Len(owner) \in Nat /\ (p \in Stops => p \notin Restarts)
  BY DaemonAssumption DEF IInv, TypeOK, Commands
<1>1. CASE Open(p)
  <2>1. before' \in [Stops -> SUBSET Starts] /\ \A s \in Stops \ {p} : before'[s] = before[s]
    BY <1>1 DEF Open, IInv, TypeOK
  <2>2. CASE MayOpen(p)
    <3>1. Made(p) /\ pc' = [pc EXCEPT ![p] = "test"]
      BY <1>0, <1>1, <2>2, OpenFileLemma DEF Open, Goto, IInv
    <3>2. pc' \in [Commands -> Places] /\ pc'[p] = "test"
      BY <1>0, <3>1 DEF IInv, TypeOK, Places, Alive
    <3>3. held' \in [Commands -> 0..Len(owner')]
      BY <1>1, <3>1 DEF Open, Made, IInv, TypeOK
    <3>4. TypeOK'
      BY <1>1, <2>1, <3>1, <3>2, <3>3 DEF Open, Made, Users, IInv, TypeOK
    <3>5. ASSUME p \in Stops PROVE StopFacts(p)'
      <4>1. \A d \in Starts : pc'[d] = pc[d]
        BY <3>1, <3>5, DaemonAssumption DEF IInv, TypeOK, Commands
      <4> QED
        BY <1>1, <3>1, <3>2, <3>5, <4>1 DEF Open, Made, StopFacts
    <3> QED
      BY <1>0, <1>1, <2>1, <3>1, <3>4, <3>5, CommandIInv DEF Open, Made
  <2>3. CASE ~MayOpen(p)
    <3>1. UNCHANGED <<owner, opened, file>> /\ pc' = [pc EXCEPT ![p] = "failed"]
      BY <1>1, <2>3 DEF Open, Goto
    <3>2. pc' \in [Commands -> Places] /\ pc'[p] = "failed"
      BY <1>0, <3>1 DEF IInv, TypeOK, Places, Alive
    <3>3. TypeOK'
      BY <1>1, <2>1, <3>1, <3>2 DEF Open, IInv, TypeOK
    <3>4. ASSUME p \in Stops PROVE StopFacts(p)'
      <4>1. \A d \in Starts : pc'[d] = pc[d]
        BY <3>1, <3>4, DaemonAssumption DEF IInv, TypeOK, Commands
      <4> QED
        BY <1>1, <3>2, <3>4, <4>1 DEF Open, StopFacts
    <3>5. Len(owner) <= Len(owner') /\ Len(owner') \in Nat
      BY <1>0, <3>1
    <3> QED
      BY <1>0, <1>1, <2>1, <3>1, <3>3, <3>4, <3>5, CommandIInv DEF Open
  <2> QED
    BY <2>2, <2>3
<1>2. CASE Test(p)
  <2>1. UNCHANGED <<file, owner, opened, port, pidfile, read, sig, before>> /\ pc[p] = "test"
    BY <1>2 DEF Test
  <2>2. PICK l \in {"signal", "tested"} : pc' = [pc EXCEPT ![p] = l]
    BY <1>2 DEF Test, Goto
  <2>3. pc' \in [Commands -> Places] /\ pc'[p] = l
    BY <1>0, <2>2 DEF IInv, TypeOK, Places, Alive
  <2>4. opened[p] \in 0..Len(owner)
    BY <1>0 DEF IInv, TypeOK
  <2>5. /\ held' \in [Commands -> 0..Len(owner)]
        /\ \A q \in Commands \ {p} : held'[q] = held[q]
    BY <1>0, <1>2, <2>4 DEF Test, TakeLock, IInv, TypeOK
  <2>6. TypeOK'
    BY <2>1, <2>3, <2>5 DEF IInv, TypeOK
  <2>7. ASSUME p \in Stops PROVE StopFacts(p)'
    <3>1. \A d \in before[p] : pc'[d] = pc[d]
      BY <2>2, <2>7, DaemonAssumption DEF IInv, TypeOK, Commands
    <3>2. opened[p] # 0 /\ \A d \in before[p] : pc[d] \in {"running", "dead"}
      BY <2>1, <2>7 DEF IInv, StopInv, StopFacts
    <3>3. l = "tested" => ~Taken(opened[p])
      BY <1>0, <1>2, <2>3 DEF Test, Goto, IInv, TypeOK
    <3>4. l = "tested" /\ Len(owner) <= 1 => \A d \in before[p] : pc[d] = "dead"
      BY <2>7, <3>2, <3>3, Outlived
    <3> QED
      BY <2>1, <2>3, <3>1, <3>2, <3>4 DEF StopFacts
  <2>8. Len(owner) <= Len(owner') /\ Len(owner') \in Nat
    BY <1>0, <2>1
  <2> QED
    BY <1>0, <2>1, <2>2, <2>5, <2>6, <2>7, <2>8, CommandIInv
<1>3. CASE TestClose(p)
  <2>1. /\ UNCHANGED <<file, owner, port, pidfile, read, sig, before>> /\ pc[p] = "tested"
        /\ pc' = [pc EXCEPT ![p] = "done"]
    BY <1>3 DEF TestClose, Goto
  <2>2. pc' \in [Commands -> Places] /\ pc'[p] = "done"
    BY <1>0, <2>1 DEF IInv, TypeOK, Places, Alive
  <2>3. /\ held' \in [Commands -> 0..Len(owner)]
        /\ opened' \in [Commands -> 0..Len(owner)]
        /\ \A q \in Commands \ {p} : opened'[q] = opened[q] /\ held'[q] = held[q]
    <3>1. 0 \in 0..Len(owner)
      BY <1>0
    <3> QED
      BY <1>3, <3>1 DEF TestClose, DropLock, IInv, TypeOK
  <2>4. TypeOK'
    BY <2>1, <2>2, <2>3 DEF IInv, TypeOK
  <2>5. ASSUME p \in Stops PROVE StopFacts(p)'
    <3>1. \A d \in before[p] : pc'[d] = pc[d]
      BY <2>1, <2>5, DaemonAssumption DEF IInv, TypeOK, Commands
    <3> QED
      BY <2>1, <2>2, <2>5, <3>1 DEF IInv, StopInv, StopFacts
  <2>6. Len(owner) <= Len(owner') /\ Len(owner') \in Nat
    BY <1>0, <2>1
  <2> QED
    BY <1>0, <2>1, <2>3, <2>4, <2>5, <2>6, CommandIInv
<1> QED
  BY <1>1, <1>2, <1>3

\* Every step of a stop keeps the invariant.
LEMMA StopStepIInv ==
    ASSUME IInv, NEW s \in Stops,
           WaitLock(s) \/ WaitClose(s) \/ WaitExit(s) \/ KillRead(s) \/ KillSend(s)
    PROVE  IInv'
<1>0. /\ s \in Commands /\ Len(owner) \in Nat /\ s \notin Starts
      /\ \A d \in before[s] : d \in Commands \ {s}
  BY DaemonAssumption DEF IInv, TypeOK, Commands
<1>1. CASE WaitLock(s)
  <2>1. /\ UNCHANGED <<file, owner, opened, port, pidfile, read, sig, before>>
        /\ pc[s] = "signal" /\ ~Taken(opened[s])
        /\ pc' = [pc EXCEPT ![s] = "locked"] /\ held' = [held EXCEPT ![s] = opened[s]]
    BY <1>1 DEF WaitLock, Goto, TakeLock
  <2>2. pc' \in [Commands -> Places] /\ pc'[s] = "locked"
    BY <1>0, <2>1 DEF IInv, TypeOK, Places, Alive
  <2>3. /\ held' \in [Commands -> 0..Len(owner)]
        /\ \A q \in Commands \ {s} : held'[q] = held[q]
    BY <1>0, <2>1 DEF IInv, TypeOK
  <2>4. TypeOK'
    BY <2>1, <2>2, <2>3 DEF IInv, TypeOK
  <2>5. StopFacts(s)'
    <3>1. \A d \in before[s] : pc'[d] = pc[d]
      BY <1>0, <2>1 DEF IInv, TypeOK
    <3>2. opened[s] # 0 /\ \A d \in before[s] : pc[d] \in {"running", "dead"}
      BY <2>1 DEF IInv, StopInv, StopFacts
    <3>3. Len(owner) <= 1 => \A d \in before[s] : pc[d] = "dead"
      BY <2>1, <3>2, Outlived
    <3> QED
      BY <2>1, <2>2, <3>1, <3>2, <3>3 DEF StopFacts
  <2>6. Len(owner) <= Len(owner') /\ Len(owner') \in Nat
    BY <1>0, <2>1
  <2> QED
    BY <1>0, <2>1, <2>3, <2>4, <2>5, <2>6, CommandIInv
<1>2. CASE WaitClose(s)
  <2>1. /\ UNCHANGED <<file, owner, port, pidfile, read, sig, before>>
        /\ pc[s] = "locked" /\ pc' = [pc EXCEPT ![s] = "closed"]
    BY <1>2 DEF WaitClose, Goto
  <2>2. pc' \in [Commands -> Places] /\ pc'[s] = "closed"
    BY <1>0, <2>1 DEF IInv, TypeOK, Places, Alive
  <2>3. /\ held' \in [Commands -> 0..Len(owner)]
        /\ opened' \in [Commands -> 0..Len(owner)]
        /\ \A q \in Commands \ {s} : opened'[q] = opened[q] /\ held'[q] = held[q]
    <3>1. 0 \in 0..Len(owner)
      BY <1>0
    <3> QED
      BY <1>2, <3>1 DEF WaitClose, DropLock, IInv, TypeOK
  <2>4. TypeOK'
    BY <2>1, <2>2, <2>3 DEF IInv, TypeOK
  <2>5. StopFacts(s)'
    <3>1. \A d \in before[s] : pc'[d] = pc[d]
      BY <1>0, <2>1 DEF IInv, TypeOK
    <3> QED
      BY <2>1, <2>2, <3>1 DEF IInv, StopInv, StopFacts
  <2>6. Len(owner) <= Len(owner') /\ Len(owner') \in Nat
    BY <1>0, <2>1
  <2> QED
    BY <1>0, <2>1, <2>3, <2>4, <2>5, <2>6, CommandIInv
<1>3. CASE WaitExit(s)
  <2>1. /\ UNCHANGED <<file, owner, opened, held, port, pidfile, sig, before>>
        /\ pc[s] = "closed" /\ pc' = [pc EXCEPT ![s] = "done"]
        /\ read' = [read EXCEPT ![s] = Nobody]
    BY <1>3 DEF WaitExit, Goto
  <2>2. pc' \in [Commands -> Places] /\ pc'[s] = "done"
    BY <1>0, <2>1 DEF IInv, TypeOK, Places, Alive
  <2>3. TypeOK'
    BY <2>1, <2>2 DEF IInv, TypeOK
  <2>4. StopFacts(s)'
    <3>1. \A d \in before[s] : pc'[d] = pc[d]
      BY <1>0, <2>1 DEF IInv, TypeOK
    <3> QED
      BY <2>1, <2>2, <3>1 DEF IInv, StopInv, StopFacts
  <2>5. \A q \in Stops \cup Restarts : read'[q] \in {read[q], Nobody, pidfile}
    BY <2>1 DEF IInv, TypeOK
  <2>6. Len(owner) <= Len(owner') /\ Len(owner') \in Nat
    BY <1>0, <2>1
  <2> QED
    BY <1>0, <2>1, <2>3, <2>4, <2>5, <2>6, CommandIInv
<1>4. CASE KillRead(s)
  <2>1. /\ sig' \in [Stops -> {"term", "kill"}]
        /\ read' \in [Stops \cup Restarts -> Starts \cup {Nobody}]
        /\ \A p \in Stops \cup Restarts : read'[p] \in {read[p], Nobody, pidfile}
    BY <1>4 DEF KillRead, IInv, TypeOK
  <2> QED
    BY <1>4, <2>1, SignalIInv DEF KillRead
<1>5. CASE KillSend(s)
  <2>1. /\ sig' \in [Stops -> {"term", "kill"}]
        /\ read' \in [Stops \cup Restarts -> Starts \cup {Nobody}]
        /\ \A p \in Stops \cup Restarts : read'[p] \in {read[p], Nobody}
    BY <1>5 DEF KillSend, IInv, TypeOK
  <2>2. CASE UNCHANGED <<pc, opened, held, port>>
    BY <1>5, <2>1, <2>2, SignalIInv DEF KillSend
  <2>3. ASSUME NEW d \in Starts, Ends(d, pc) PROVE IInv'
    BY <1>5, <2>1, <2>3, EndsIInv DEF KillSend
  <2> QED
    BY <1>5, <2>2, <2>3 DEF KillSend
<1> QED
  BY <1>1, <1>2, <1>3, <1>4, <1>5

\* The pid that a restart has read is of a daemon that takes SIGHUP well.
LEMMA HupSendLemma ==
    ASSUME IInv, NEW r \in Restarts, HupSend(r)
    PROVE  Goto(r, "done") /\ UNCHANGED <<opened, held, port>>
<1>1. PICK d \in Starts :
        /\ read[r] = d
        /\ IF pc[d] \in Alive \ Listening /\ UserOf[d] = UserOf[r]
           THEN Ends(d, [pc EXCEPT ![r] = "done"])
           ELSE Goto(r, "done") /\ UNCHANGED <<opened, held, port>>
  BY DEF HupSend
<1>2. pc[d] \in Listening \cup {"dead"}
  BY <1>1 DEF IInv, ReadInv, HasHandlers
<1>3. pc[d] \notin Alive \ Listening
  BY <1>2 DEF Alive, Listening
<1> QED
  BY <1>1, <1>3

\* Every step of a restart keeps the invariant.
LEMMA RestartStepIInv ==
    ASSUME IInv, NEW r \in Restarts, HupRead(r) \/ HupSend(r)
    PROVE  IInv'
<1>0. r \in Commands /\ Len(owner) \in Nat /\ r \notin Stops
  BY DaemonAssumption DEF IInv, TypeOK, Commands
<1>1. UNCHANGED <<file, owner, held, port, pidfile, sig, before>>
  BY HupSendLemma DEF HupRead, HupSend
<1>2. PICK l \in {"hup", "done"} : pc' = [pc EXCEPT ![r] = l]
  BY HupSendLemma DEF HupRead, Goto
<1>3. /\ opened' \in [Commands -> 0..Len(owner)]
      /\ \A q \in Commands \ {r} : opened'[q] = opened[q]
  <2>1. opened' \in {opened, [opened EXCEPT ![r] = 0]}
    BY HupSendLemma DEF HupRead
  <2>2. 0 \in 0..Len(owner) /\ opened \in [Commands -> 0..Len(owner)]
    BY <1>0 DEF IInv, TypeOK
  <2> QED
    BY <2>1, <2>2
<1>4. /\ read' \in [Stops \cup Restarts -> Starts \cup {Nobody}]
      /\ \A q \in Stops \cup Restarts : read'[q] \in {read[q], Nobody, pidfile}
  BY DEF HupRead, HupSend, IInv, TypeOK
<1>5. TypeOK'
  <2>1. pc' \in [Commands -> Places]
    BY <1>2 DEF IInv, TypeOK, Places
  <2> QED
    BY <1>1, <1>3, <1>4, <2>1 DEF IInv, TypeOK
<1>6. Len(owner) <= Len(owner') /\ Len(owner') \in Nat
  BY <1>0, <1>1
<1> QED
  BY <1>0, <1>1, <1>2, <1>3, <1>4, <1>5, <1>6, CommandIInv

\* Every step keeps the invariant.
LEMMA NextIInv == IInv /\ [Next]_vars => IInv'
<1> SUFFICES ASSUME IInv, [Next]_vars PROVE IInv'
  OBVIOUS
<1>1. CASE UNCHANGED vars
  BY <1>1, SignalIInv DEF vars, IInv, TypeOK
<1> QED
  BY <1>1, DaemonIInv, CommandStepIInv, StopStepIInv, RestartStepIInv DEF Next

-----------------------------------------------------------------------------
\* The variables keep their types.
THEOREM TypeCorrect == Spec => []TypeOK
<1>1. IInv => TypeOK
  BY DEF IInv
<1> QED
  BY <1>1, InitIInv, NextIInv, PTL DEF Spec

\* The daemon that has started finds its own pid in the pid file, however many
\* users start, stop and restart it at once.
THEOREM PidFileSafe == Spec => []PidTellsDaemon
<1>1. IInv => PidTellsDaemon
  BY DEF IInv, PortInv
<1> QED
  BY <1>1, InitIInv, NextIInv, PTL DEF Spec

\* When a stop is done, the daemons that ran when it began are dead, if no other
\* user's start has replaced the lock file.
THEOREM StopSafe == Spec => []StopStops
<1>1. IInv => StopStops
  BY DEF IInv, StopInv, StopFacts, StopStops
<1> QED
  BY <1>1, InitIInv, NextIInv, PTL DEF Spec

\* A restart never ends a daemon.
THEOREM RestartSafe == Spec => HupHarmless
<1> DEFINE Harmless ==
      \A r \in Restarts : pc[r] = "hup" /\ pc'[r] = "done" =>
         \A d \in Starts : pc'[d] = "dead" => pc[d] = "dead"
<1>1. IInv /\ [Next]_vars => [Harmless]_vars
  <2> SUFFICES ASSUME IInv, Next, NEW r \in Restarts, pc[r] = "hup", pc'[r] = "done",
                      NEW e \in Starts, pc'[e] = "dead"
               PROVE  pc[e] = "dead"
    OBVIOUS
  <2>0. /\ pc \in [Commands -> Places] /\ r \in Commands /\ e \in Commands
        /\ Starts \subseteq Commands \ {r} /\ Stops \subseteq Commands \ {r, e}
        /\ Restarts \subseteq Commands \ {e}
    BY DaemonAssumption DEF IInv, TypeOK, Commands
  <2>1. ASSUME NEW p \in Commands, NEW l, l # "dead", pc' = [pc EXCEPT ![p] = l]
        PROVE  pc[e] = "dead"
    BY <2>0, <2>1
  <2>2. ASSUME NEW d \in Starts, pc' = [pc EXCEPT ![d] = "dead"] PROVE FALSE
    BY <2>0, <2>2
  <2>3. ASSUME NEW d \in Starts, DaemonStep(d) PROVE pc[e] = "dead"
    <3>1. CASE Exit(d)
      BY <2>2, <3>1 DEF Exit, Ends
    <3>2. CASE OpenLock(d) \/ ReopenLock(d) \/ LockTest(d) \/ Bind(d) \/ PidUnlink(d)
      BY <2>0, <2>1, <3>2 DEF OpenLock, ReopenLock, LockTest, Bind, PidUnlink, Goto
    <3>3. CASE PidCreate(d) \/ PidWrite(d) \/ Report(d) \/ Setup(d)
      BY <2>0, <2>1, <3>3 DEF PidCreate, PidWrite, Report, Setup, Goto
    <3> QED
      BY <2>3, <3>1, <3>2, <3>3 DEF DaemonStep
  <2>4. ASSUME NEW p \in Stops \cup Restarts, Open(p) \/ Test(p) \/ TestClose(p)
        PROVE  pc[e] = "dead"
    BY <2>0, <2>1, <2>4 DEF Open, Test, TestClose, Goto
  <2>5. ASSUME NEW s \in Stops,
               WaitLock(s) \/ WaitClose(s) \/ WaitExit(s) \/ KillRead(s) \/ KillSend(s)
        PROVE  pc[e] = "dead"
    <3>1. CASE WaitLock(s) \/ WaitClose(s) \/ WaitExit(s)
      BY <2>0, <2>1, <3>1 DEF WaitLock, WaitClose, WaitExit, Goto
    <3>2. CASE KillRead(s)
      BY <3>2 DEF KillRead
    <3>3. CASE KillSend(s)
      <4>1. CASE UNCHANGED pc
        BY <4>1
      <4> QED
        BY <2>2, <3>3, <4>1 DEF KillSend, Ends
    <3> QED
      BY <2>5, <3>1, <3>2, <3>3
  <2>6. ASSUME NEW q \in Restarts, HupRead(q) \/ HupSend(q) PROVE pc[e] = "dead"
    BY <2>0, <2>1, <2>6, HupSendLemma DEF HupRead, Goto
  <2> QED
    BY <2>3, <2>4, <2>5, <2>6 DEF Next
<1> QED
  BY <1>1, InitIInv, NextIInv, PTL DEF Spec, HupHarmless

-----------------------------------------------------------------------------
(***************************************************************************)
(* The server loop of Tcpd.                                                *)
(***************************************************************************)

(***************************************************************************)
(* What the parent's label says about the connection it works on, about    *)
(* the slot it has chosen, and about SIGCHLD.                              *)
(***************************************************************************)
LabelInv ==
    /\ label = "fork" => conn \in Conns /\ state[conn] = "accepted"
    /\ label = "store" => /\ conn \in Children
                       /\ blocked
                       /\ \A n \in Slots : pids[n] # conn
    /\ label \in {"accept", "fork", "store"} => pids[cursor] = None

TableInv == TcpdTypeOK /\ LabelInv /\ TableIsChildren

-----------------------------------------------------------------------------
\* The table is empty and there are no children.
LEMMA TableInit == TcpdInit => TableInv
<1> SUFFICES ASSUME TcpdInit PROVE TableInv
  OBVIOUS
<1>1. 0 \in Slots
  BY TcpdAssumption DEF Slots
<1>2. TcpdTypeOK
  <2>1. pids \in [Slots -> Conns \cup {None}] /\ addrs \in [Slots -> Addrs \cup {None}]
    BY DEF TcpdInit
  <2>2. seen \in [Conns -> [Slots -> Addrs \cup {None}]]
    BY DEF TcpdInit, NoCopy
  <2>3. state \in [Conns -> {"none", "pending", "accepted", "forked", "serving",
                            "zombie", "reaped", "closed"}]
    BY DEF TcpdInit
  <2> QED
    BY <1>1, <2>1, <2>2, <2>3 DEF TcpdInit, TcpdTypeOK
<1>3. LabelInv
  BY DEF TcpdInit, LabelInv
<1>4. TableIsChildren
  BY DEF TcpdInit, TableIsChildren, Children
<1> QED
  BY <1>2, <1>3, <1>4 DEF TableInv

\* doreap: a process loses its slot when wait() returns it, and the others keep
\* theirs.  This is where SIGCHLD has to be blocked: the process at "store" is
\* not among those that are reaped.
LEMMA TableReap ==
    ASSUME TableInv, NEW ps, ps \subseteq Zombies, Reap(ps),
           label = "store" => conn \notin ps,
           UNCHANGED <<label, cursor, conn, addrs, blocked, seen>>
    PROVE  TableInv'
<1> USE TcpdAssumption
<1>1. /\ \A n \in Slots : pids'[n] = IF pids[n] \in ps THEN None ELSE pids[n]
      /\ \A c \in Conns : state'[c] = IF c \in ps THEN "reaped" ELSE state[c]
      /\ ps \subseteq Conns
      /\ None \notin Conns
  BY DEF Reap, Zombies
<1>2. TcpdTypeOK'
  BY <1>1 DEF TableInv, TcpdTypeOK, Reap
<1>3. Children' = Children \ ps
  BY <1>1 DEF Children, Zombies
<1>4. ASSUME label = "store" PROVE /\ conn \in Children'
                                /\ \A n \in Slots : pids'[n] # conn
  BY <1>1, <1>3, <1>4 DEF TableInv, LabelInv, TcpdTypeOK, Children
<1>5. label \in {"accept", "fork", "store"} => pids'[cursor] = None
  BY <1>1 DEF TableInv, LabelInv, TcpdTypeOK
<1>6. label = "fork" => conn \in Conns /\ state'[conn] = "accepted"
  BY <1>1 DEF TableInv, LabelInv, Zombies
<1>7. LabelInv'
  BY <1>4, <1>5, <1>6 DEF TableInv, LabelInv
<1>8. ASSUME NEW n \in Slots, pids'[n] # None
      PROVE  /\ pids'[n] \in Children'
             /\ addrs'[n] = AddrOf[pids'[n]]
             /\ \A m \in Slots : pids'[m] = pids'[n] => m = n
  BY <1>1, <1>3, <1>8 DEF TableInv, TableIsChildren
<1>9. ASSUME NEW c \in Children'
      PROVE  (label = "store" /\ c = conn) \/ \E n \in Slots : pids'[n] = c
  BY <1>1, <1>3 DEF TableInv, TableIsChildren
<1> QED
  BY <1>2, <1>5, <1>7, <1>8, <1>9 DEF TableInv, TableIsChildren

\* A step of one process that is no change of the table keeps the invariant if
\* the process is a child after it as it was before, and if it is not the
\* connection that accepted() works on.
LEMMA TableState ==
    ASSUME TableInv, NEW c \in Conns, NEW s,
           s \in {"pending", "serving", "zombie", "closed"},
           state' = [state EXCEPT ![c] = s],
           c \in Children <=> s \in {"serving", "zombie"},
           state[c] # "accepted",
           UNCHANGED <<label, cursor, conn, pids, addrs, blocked>>,
           seen' \in [Conns -> [Slots -> Addrs \cup {None}]]
    PROVE  TableInv'
<1>1. TcpdTypeOK'
  BY DEF TableInv, TcpdTypeOK
<1>2. Children' = Children
  BY DEF TableInv, TcpdTypeOK, Children
<1>3. LabelInv'
  BY <1>2 DEF TableInv, LabelInv, TcpdTypeOK
<1>4. TableIsChildren'
  BY <1>2 DEF TableInv, TableIsChildren
<1> QED
  BY <1>1, <1>3, <1>4 DEF TableInv

\* Every step keeps the invariant.
LEMMA TableNext == TableInv /\ [TcpdNext]_tcpdVars => TableInv'
<1> SUFFICES ASSUME TableInv, [TcpdNext]_tcpdVars PROVE TableInv'
  OBVIOUS
<1> USE TcpdAssumption
<1>1. ASSUME NEW c \in Conns, Connect(c) PROVE TableInv'
  BY <1>1, TableState DEF Connect, TableInv, TcpdTypeOK, Children
<1>2. ASSUME NEW c \in Conns, Abort(c) PROVE TableInv'
  BY <1>2, TableState DEF Abort, TableInv, TcpdTypeOK, Children
<1>3. ASSUME NEW c \in Conns, Serve(c) PROVE TableInv'
  BY <1>3, TableState DEF Serve, TableInv, TcpdTypeOK, Children, NoCopy
<1>4. ASSUME NEW c \in Conns, ChildExit(c) PROVE TableInv'
  BY <1>4, TableState DEF ChildExit, TableInv, TcpdTypeOK, Children, NoCopy
<1>5. CASE ChildSig
  BY <1>5, TableReap DEF ChildSig, TableInv, LabelInv
<1>6. CASE Select
  BY <1>6 DEF Select, TableInv, TcpdTypeOK, LabelInv, TableIsChildren, Children
<1>7. CASE SlotFound
  BY <1>7 DEF SlotFound, FreeSlots, TableInv, TcpdTypeOK, LabelInv, TableIsChildren, Children
<1>8. CASE SlotWait
  <2>1. PICK c \in Zombies : Reap({c})
    BY <1>8 DEF SlotWait
  <2> QED
    BY <1>8, <2>1, TableReap DEF SlotWait
<1>9. CASE Accept
  <2>1. CASE UNCHANGED <<conn, state>>
    BY <1>9, <2>1 DEF Accept, TableInv, TcpdTypeOK, LabelInv, TableIsChildren, Children
  <2>2. ASSUME NEW c \in Conns, state[c] = "pending",
               \/ state' = [state EXCEPT ![c] = "accepted"] /\ conn' = c /\ label' = "fork"
               \/ state' = [state EXCEPT ![c] = "closed"] /\ label' = "select" /\ UNCHANGED conn
        PROVE  TableInv'
    <3>1. TcpdTypeOK'
      BY <1>9, <2>2 DEF Accept, TableInv, TcpdTypeOK
    <3>2. Children' = Children
      BY <2>2 DEF TableInv, TcpdTypeOK, Children
    <3>3. LabelInv'
      BY <1>9, <2>2 DEF Accept, TableInv, TcpdTypeOK, LabelInv
    <3>4. TableIsChildren'
      BY <1>9, <2>2, <3>2 DEF Accept, TableInv, TableIsChildren
    <3> QED
      BY <3>1, <3>3, <3>4 DEF TableInv
  <2> QED
    BY <1>9, <2>1, <2>2 DEF Accept
<1>10. CASE Fork
  <2>1. conn \in Conns /\ state[conn] = "accepted"
    BY <1>10 DEF Fork, TableInv, LabelInv
  <2>2. TcpdTypeOK'
    BY <1>10, <2>1 DEF Fork, Copy, TableInv, TcpdTypeOK
  <2>3. Children' = Children \cup {conn} /\ conn \notin Children
    BY <1>10, <2>1 DEF Fork, TableInv, TcpdTypeOK, Children
  <2>4. \A n \in Slots : pids[n] # conn
    BY <2>1, <2>3 DEF TableInv, TableIsChildren
  <2>5. LabelInv'
    BY <1>10, <2>3, <2>4 DEF Fork, TableInv, LabelInv
  <2>6. TableIsChildren'
    BY <1>10, <2>3 DEF Fork, TableInv, LabelInv, TableIsChildren
  <2> QED
    BY <2>2, <2>5, <2>6 DEF TableInv
<1>11. CASE ForkFails
  <2>1. conn \in Conns /\ state[conn] = "accepted"
    BY <1>11 DEF ForkFails, TableInv, LabelInv
  <2>2. TcpdTypeOK'
    BY <1>11, <2>1 DEF ForkFails, TableInv, TcpdTypeOK
  <2>3. Children' = Children
    BY <1>11, <2>1 DEF ForkFails, TableInv, TcpdTypeOK, Children
  <2> QED
    BY <1>11, <2>2, <2>3 DEF ForkFails, TableInv, LabelInv, TableIsChildren
<1>12. CASE Store
  <2>1. conn \in Children /\ conn \in Conns /\ (\A n \in Slots : pids[n] # conn)
    BY <1>12 DEF Store, TableInv, LabelInv, Children
  <2>2. /\ cursor \in Slots /\ pids[cursor] = None
        /\ \A n \in Slots : pids'[n] = IF n = cursor THEN conn ELSE pids[n]
        /\ \A n \in Slots : addrs'[n] = IF n = cursor THEN AddrOf[conn] ELSE addrs[n]
    BY <1>12 DEF Store, TableInv, LabelInv, TcpdTypeOK
  <2>3. TcpdTypeOK'
    BY <1>12, <2>1 DEF Store, TableInv, TcpdTypeOK, Addrs
  <2>4. Children' = Children
    BY <1>12 DEF Store, Children
  <2>5. LabelInv'
    BY <1>12 DEF Store, LabelInv
  <2>6. ASSUME NEW n \in Slots, pids'[n] # None
        PROVE  /\ pids'[n] \in Children'
               /\ addrs'[n] = AddrOf[pids'[n]]
               /\ \A m \in Slots : pids'[m] = pids'[n] => m = n
    BY <2>1, <2>2, <2>4, <2>6 DEF TableInv, TableIsChildren
  <2>7. ASSUME NEW c \in Children' PROVE \E n \in Slots : pids'[n] = c
    <3>1. CASE c = conn
      BY <2>2, <3>1
    <3>2. CASE c # conn
      <4>1. PICK n \in Slots : pids[n] = c
        BY <2>4, <3>2 DEF TableInv, TableIsChildren
      <4>2. c # None
        BY <2>4 DEF Children
      <4> QED
        BY <2>2, <4>1, <4>2
    <3> QED
      BY <3>1, <3>2
  <2> QED
    BY <1>12, <2>3, <2>5, <2>6, <2>7 DEF Store, TableInv, TableIsChildren
<1>13. CASE UNCHANGED tcpdVars
  BY <1>13 DEF tcpdVars, TableInv, TcpdTypeOK, LabelInv, TableIsChildren, Children
<1> QED
  BY <1>1, <1>2, <1>3, <1>4, <1>5, <1>6, <1>7, <1>8, <1>9, <1>10, <1>11, <1>12,
     <1>13 DEF TcpdNext, Parent

-----------------------------------------------------------------------------
\* The variables of the server loop keep their types.
THEOREM TcpdTypeCorrect == TcpdSpec => []TcpdTypeOK
<1>1. TableInv => TcpdTypeOK
  BY DEF TableInv
<1> QED
  BY <1>1, TableInit, TableNext, PTL DEF TcpdSpec

\* pids[] is the set of the children that wait() has not returned, each with
\* one slot and its own address, for any size of the table: no slot leaks and
\* none is given away twice, though doreap() runs from a signal handler.
THEOREM TableCorrect == TcpdSpec => []TableIsChildren
<1>1. TableInv => TableIsChildren
  BY DEF TableInv
<1> QED
  BY <1>1, TableInit, TableNext, PTL DEF TcpdSpec

-----------------------------------------------------------------------------
(***************************************************************************)
(* The limits.  Each child counts in a copy of the table that is as old as *)
(* its fork().  What makes the counts sufficient is the order of the       *)
(* forks: the parent stores a child before it forks the next one, so a     *)
(* child's copy has every older child that is still there.  The order is   *)
(* not part of the state, and the invariant says that there is one.        *)
(*                                                                         *)
(* An address and a network are treated alike, as a set A of addresses     *)
(* with a limit L.                                                         *)
(***************************************************************************)
Of(A) == {c \in Conns : AddrOf[c] \in A}
Counted(c, A) == {n \in Slots : seen[c][n] \in A}

\* The children of A that were forked before c.
Older(c, A, rank) == {d \in Children \cap Of(A) : rank[d] < rank[c]}

Forks(A, L, rank, next) ==
    /\ \A c \in Children : rank[c] < next
    /\ \A c, d \in Children : rank[c] = rank[d] => c = d
    /\ \A c \in Of(A) : state[c] = "forked" =>
          Cardinality(Older(c, A, rank)) <= Cardinality(Counted(c, A))
    /\ \A c \in Of(A) : state[c] = "serving" => Cardinality(Older(c, A, rank)) < L

LimitInv(A, L) == \E rank \in [Conns -> Nat], next \in Nat : Forks(A, L, rank, next)

\* The program is started only when fewer than L slots of the copy are of A.
Gated(A, L) ==
    \A c \in Of(A) : Admitted(c) => Cardinality(Counted(c, A)) < L

\* There is a least number in every set of natural numbers but the empty one.
LEMMA LeastNat ==
    ASSUME NEW T \in SUBSET Nat, T # {}
    PROVE  \E x \in T : \A y \in T : x <= y
<1>1. PICK x \in T : \A y \in T : <<y, x>> \notin OpToRel(<, Nat)
  BY NatLessThanWellFounded, WFMin, Zenon
<1>2. \A y \in Nat : y < x => <<y, x>> \in OpToRel(<, Nat)
  BY DEF OpToRel
<1>3. \A y \in T : ~(y < x)
  BY <1>1, <1>2, Zenon
<1> QED
  BY <1>3

\* The sets that are counted are finite.
LEMMA CountedFinite ==
    ASSUME NEW A, NEW c, NEW rank
    PROVE  /\ IsFiniteSet(Children) /\ IsFiniteSet(Children \cap Of(A))
           /\ IsFiniteSet(Older(c, A, rank)) /\ IsFiniteSet(Counted(c, A))
           /\ Cardinality(Older(c, A, rank)) \in Nat
           /\ Cardinality(Counted(c, A)) \in Nat
<1>1. IsFiniteSet(Conns)
  BY TcpdAssumption
<1>2. IsFiniteSet(Slots)
  BY TcpdAssumption, FS_Interval DEF Slots
<1>3. /\ Children \in SUBSET Conns /\ Children \cap Of(A) \in SUBSET Conns
      /\ Older(c, A, rank) \in SUBSET Conns
      /\ Counted(c, A) \in SUBSET Slots
  BY DEF Children, Older, Of, Counted
<1> QED
  BY <1>1, <1>2, <1>3, FS_Subset, FS_CardinalityType

\* When children only go away, and those that remain are in the state and have
\* the copy they had, the limits hold as before.
LEMMA FewerChildren ==
    ASSUME NEW A, NEW L \in Nat, LimitInv(A, L),
           Children' \subseteq Children,
           \A c \in Conns : state'[c] \in {"forked", "serving"} =>
                               state'[c] = state[c] /\ seen'[c] = seen[c]
    PROVE  LimitInv(A, L)'
<1>1. PICK rank \in [Conns -> Nat], next \in Nat : Forks(A, L, rank, next)
  BY DEF LimitInv
<1>2. ASSUME NEW c \in Of(A)
      PROVE  /\ Cardinality(Older(c, A, rank)) \in Nat
             /\ Cardinality(Older(c, A, rank)') \in Nat
             /\ Cardinality(Older(c, A, rank)') <= Cardinality(Older(c, A, rank))
  <2>1. Older(c, A, rank)' \in SUBSET Older(c, A, rank)
    BY DEF Older, Of
  <2> QED
    BY <2>1, CountedFinite, FS_Subset, FS_CardinalityType
<1>3. ASSUME NEW c \in Of(A), state'[c] = "forked"
      PROVE  Cardinality(Older(c, A, rank)') <= Cardinality(Counted(c, A)')
  <2>1. c \in Conns /\ state[c] = "forked" /\ seen'[c] = seen[c]
    BY <1>3 DEF Of
  <2>2. Counted(c, A)' = Counted(c, A)
    BY <2>1 DEF Counted
  <2>3. Cardinality(Older(c, A, rank)) <= Cardinality(Counted(c, A))
    BY <1>1, <2>1 DEF Forks
  <2>4. Cardinality(Counted(c, A)) \in Nat
    BY CountedFinite
  <2> QED
    BY <1>2, <2>2, <2>3, <2>4
<1>4. ASSUME NEW c \in Of(A), state'[c] = "serving"
      PROVE  Cardinality(Older(c, A, rank)') < L
  BY <1>1, <1>2, <1>4 DEF Forks, Of
<1>5. Forks(A, L, rank, next)'
  BY <1>1, <1>3, <1>4 DEF Forks, Of
<1> QED
  BY <1>5 DEF LimitInv

\* fork(): the new child is the youngest, and its copy has all the others.
LEMMA ForkLimit ==
    ASSUME TableInv, Fork, NEW A, NEW L \in Nat, LimitInv(A, L)
    PROVE  LimitInv(A, L)'
<1>1. PICK rank \in [Conns -> Nat], next \in Nat : Forks(A, L, rank, next)
  BY DEF LimitInv
<1>2. PICK new \in Conns : new = conn /\ state[new] = "accepted"
  BY DEF Fork, TableInv, LabelInv
<1> DEFINE newRank == [rank EXCEPT ![new] = next]
<1>3. /\ Children' = Children \cup {new}
      /\ new \notin Children
      /\ \A c \in Conns : state'[c] = IF c = new THEN "forked" ELSE state[c]
      /\ \A c \in Conns : seen'[c] = IF c = new THEN Copy ELSE seen[c]
  BY <1>2 DEF Fork, TableInv, TcpdTypeOK, Children
<1>4. /\ newRank \in [Conns -> Nat] /\ next + 1 \in Nat
      /\ newRank[new] = next
      /\ \A c \in Children : newRank[c] = rank[c] /\ rank[c] \in Nat
      /\ \A c \in Children : rank[c] < next
  BY <1>1, <1>2, <1>3 DEF Forks, Children
<1>5. Older(new, A, newRank)' = Children \cap Of(A)
  BY <1>3, <1>4 DEF Older, Of
<1>6. Cardinality(Children \cap Of(A)) <= Cardinality(Counted(new, A)')
  <2> DEFINE slot == [c \in Children \cap Of(A) |-> CHOOSE n \in Slots : pids[n] = c]
  <2>1. ASSUME NEW c \in Children \cap Of(A)
        PROVE  slot[c] \in Counted(new, A)' /\ pids[slot[c]] = c
    <3>1. \E n \in Slots : pids[n] = c
      BY DEF Fork, TableInv, TableIsChildren
    <3>2. slot[c] \in Slots /\ pids[slot[c]] = c
      BY <3>1
    <3>3. c # None
      BY TcpdAssumption DEF Children
    <3>4. addrs[slot[c]] = AddrOf[c]
      BY <3>2, <3>3 DEF TableInv, TableIsChildren
    <3>5. Copy[slot[c]] \in A
      BY <3>2, <3>3, <3>4 DEF Copy, Of
    <3>6. seen'[new] = Copy
      BY <1>2, <1>3
    <3> HIDE DEF slot
    <3> QED
      BY <3>2, <3>5, <3>6 DEF Counted
  <2>2. slot \in Injection(Children \cap Of(A), Counted(new, A)')
    <3>1. slot \in [Children \cap Of(A) -> Counted(new, A)']
      BY <2>1
    <3>2. \A c, d \in Children \cap Of(A) : slot[c] = slot[d] => c = d
      BY <2>1, Zenon
    <3> HIDE DEF slot
    <3> QED
      BY <3>1, <3>2 DEF Injection, IsInjective
  <2>3. IsFiniteSet(Counted(new, A)')
    <3>1. Counted(new, A)' \in SUBSET Slots
      BY DEF Counted
    <3>2. IsFiniteSet(Slots)
      BY TcpdAssumption, FS_Interval DEF Slots
    <3> QED
      BY <3>1, <3>2, FS_Subset
  <2> HIDE DEF slot
  <2> QED
    BY <2>2, <2>3, FS_Injection
<1>7. ASSUME NEW c \in Of(A), c \in Children
      PROVE  Older(c, A, newRank)' = Older(c, A, rank)
  BY <1>3, <1>4, <1>7 DEF Older, Of
<1> HIDE DEF newRank
<1>8. ASSUME NEW c \in Of(A), state'[c] = "forked"
      PROVE  Cardinality(Older(c, A, newRank)') <= Cardinality(Counted(c, A)')
  <2>1. CASE c = new
    BY <1>5, <1>6, <2>1
  <2>2. CASE c # new
    <3>1. c \in Conns /\ state[c] = "forked" /\ seen'[c] = seen[c] /\ c \in Children
      BY <1>3, <1>8, <2>2 DEF Of, Children
    <3>2. Counted(c, A)' = Counted(c, A)
      BY <3>1 DEF Counted
    <3> QED
      BY <1>1, <1>7, <3>1, <3>2 DEF Forks
  <2> QED
    BY <2>1, <2>2
<1>9. ASSUME NEW c \in Of(A), state'[c] = "serving"
      PROVE  Cardinality(Older(c, A, newRank)') < L
  <2>1. c \in Conns /\ state[c] = "serving" /\ c \in Children
    BY <1>2, <1>3, <1>9 DEF Of, Children
  <2> QED
    BY <1>1, <1>7, <2>1 DEF Forks
<1>10. /\ \A c \in Children' : newRank[c] < next + 1
       /\ \A c, d \in Children' : newRank[c] = newRank[d] => c = d
  <2>1. ASSUME NEW c \in Children'
        PROVE  \/ c = new /\ newRank[c] = next
               \/ c \in Children /\ newRank[c] = rank[c] /\ rank[c] < next
    BY <1>3, <1>4
  <2>2. \A c \in Children' : newRank[c] \in Nat
    BY <1>3, <1>4
  <2> QED
    BY <1>1, <1>4, <2>1, <2>2 DEF Forks
<1>11. Forks(A, L, newRank, next + 1)'
  BY <1>8, <1>9, <1>10 DEF Forks, Of
<1> QED
  BY <1>4, <1>11 DEF LimitInv

\* A child starts its program: what it has counted bounds the older children.
LEMMA ServeLimit ==
    ASSUME TableInv, NEW c \in Conns, Serve(c), NEW A, NEW L \in Nat, LimitInv(A, L), Gated(A, L)
    PROVE  LimitInv(A, L)'
<1>1. PICK rank \in [Conns -> Nat], next \in Nat : Forks(A, L, rank, next)
  BY DEF LimitInv
<1>2. /\ Children' = Children
      /\ \A d \in Conns : state'[d] = IF d = c THEN "serving" ELSE state[d]
      /\ \A d \in Conns : d # c => seen'[d] = seen[d]
      /\ state[c] = "forked"
  BY DEF Serve, TableInv, TcpdTypeOK, Children
<1>3. \A d \in Of(A) : Older(d, A, rank)' = Older(d, A, rank)
  BY <1>2 DEF Older, Of
<1>4. ASSUME c \in Of(A) PROVE Cardinality(Older(c, A, rank)) < L
  <2>1. /\ Cardinality(Older(c, A, rank)) <= Cardinality(Counted(c, A))
        /\ Cardinality(Counted(c, A)) < L
    BY <1>1, <1>2, <1>4 DEF Forks, Gated, Serve
  <2>2. /\ Cardinality(Older(c, A, rank)) \in Nat
        /\ Cardinality(Counted(c, A)) \in Nat
    BY CountedFinite
  <2> QED
    BY <2>1, <2>2
<1>5. ASSUME NEW d \in Of(A), state'[d] = "forked"
      PROVE  Cardinality(Older(d, A, rank)') <= Cardinality(Counted(d, A)')
  <2>1. d \in Conns /\ d # c /\ state[d] = "forked" /\ seen'[d] = seen[d]
    BY <1>2, <1>5 DEF Of
  <2>2. Counted(d, A)' = Counted(d, A)
    BY <2>1 DEF Counted
  <2> QED
    BY <1>1, <1>3, <2>1, <2>2 DEF Forks
<1>6. ASSUME NEW d \in Of(A), state'[d] = "serving"
      PROVE  Cardinality(Older(d, A, rank)') < L
  BY <1>1, <1>2, <1>3, <1>4, <1>6 DEF Forks, Of
<1>7. Forks(A, L, rank, next)'
  BY <1>1, <1>2, <1>5, <1>6 DEF Forks, Of
<1> QED
  BY <1>7 DEF LimitInv

\* Every step keeps the order and the limits.
LEMMA NextLimit ==
    ASSUME TableInv, [TcpdNext]_tcpdVars, NEW A, NEW L \in Nat, LimitInv(A, L), Gated(A, L)
    PROVE  LimitInv(A, L)'
<1>1. ASSUME NEW c \in Conns, Serve(c) PROVE LimitInv(A, L)'
  BY <1>1, ServeLimit
<1>2. CASE Fork
  BY <1>2, ForkLimit
<1> DEFINE Rest == /\ Children' \subseteq Children
                   /\ \A c \in Conns : state'[c] \in {"forked", "serving"} =>
                                          state'[c] = state[c] /\ seen'[c] = seen[c]
<1>3. ASSUME NEW c \in Conns, Connect(c) \/ Abort(c) \/ ChildExit(c) PROVE Rest
  BY <1>3 DEF Connect, Abort, ChildExit, TableInv, TcpdTypeOK, Children
<1>4. ASSUME ChildSig \/ SlotWait PROVE Rest
  BY <1>4 DEF ChildSig, SlotWait, Reap, TableInv, TcpdTypeOK, Children
<1>5. ASSUME Accept \/ ForkFails PROVE Rest
  BY <1>5 DEF Accept, ForkFails, TableInv, LabelInv, TcpdTypeOK, Children
<1>6. ASSUME Select \/ SlotFound \/ Store \/ UNCHANGED tcpdVars PROVE Rest
  BY <1>6 DEF Select, SlotFound, Store, tcpdVars, Children
<1> HIDE DEF Rest
<1>7. CASE Rest
  BY <1>7, FewerChildren DEF Rest
<1> QED
  BY <1>1, <1>2, <1>3, <1>4, <1>5, <1>6, <1>7 DEF TcpdNext, Parent

\* At the beginning there are no children.
LEMMA InitLimit == ASSUME TcpdInit, NEW A, NEW L \in Nat PROVE LimitInv(A, L)
<1> DEFINE rank == [c \in Conns |-> 0]
<1>1. Children = {} /\ \A c \in Conns : state[c] = "none"
  BY DEF TcpdInit, Children
<1>2. Forks(A, L, rank, 0)
  BY <1>1 DEF Forks, Of
<1>3. rank \in [Conns -> Nat] /\ 0 \in Nat
  OBVIOUS
<1> QED
  BY <1>2, <1>3 DEF LimitInv

\* The youngest of A's servers has been let in beside all the others.
LEMMA LimitHolds ==
    ASSUME NEW A, NEW L \in Nat, LimitInv(A, L)
    PROVE  Cardinality(Serving(Of(A))) <= L
<1>1. PICK rank \in [Conns -> Nat], next \in Nat : Forks(A, L, rank, next)
  BY DEF LimitInv
<1> DEFINE S == Serving(Of(A))
<1>2. S \subseteq Children \cap Of(A)
  BY DEF Serving, Children, Of
<1>3. CASE S = {}
  BY <1>3, FS_EmptySet
<1>4. CASE S # {}
  <2> DEFINE T == {next - rank[c] : c \in S}
  <2>1. \A c \in S : rank[c] \in Nat /\ rank[c] < next
    BY <1>1, <1>2 DEF Forks, Children
  <2>2. T \in SUBSET Nat /\ T # {}
    BY <1>4, <2>1
  <2>3. PICK x \in T : \A y \in T : x <= y
    BY <2>2, LeastNat
  <2>4. PICK c \in S : x = next - rank[c]
    BY <2>3
  <2>5. ASSUME NEW d \in S PROVE rank[d] <= rank[c]
    <3>1. next - rank[c] <= next - rank[d]
      BY <2>3, <2>4
    <3> QED
      BY <2>1, <3>1
  <2>6. S \in SUBSET (Older(c, A, rank) \cup {c})
    <3>1. ASSUME NEW d \in S, d # c PROVE d \in Older(c, A, rank)
      <4>1. rank[d] # rank[c]
        BY <1>1, <1>2, <3>1 DEF Forks
      <4>2. rank[d] < rank[c]
        BY <2>1, <2>5, <4>1
      <4> QED
        BY <1>2, <4>2 DEF Older
    <3> QED
      BY <3>1
  <2>7. Cardinality(Older(c, A, rank)) < L
    BY <1>1 DEF Forks, Serving
  <2>8. /\ IsFiniteSet(Older(c, A, rank) \cup {c})
        /\ Cardinality(Older(c, A, rank) \cup {c}) <= L
    <3>1. IsFiniteSet(Older(c, A, rank)) /\ Cardinality(Older(c, A, rank)) \in Nat
      BY CountedFinite
    <3>2. /\ IsFiniteSet(Older(c, A, rank) \cup {c})
          /\ Cardinality(Older(c, A, rank) \cup {c}) =
                IF c \in Older(c, A, rank) THEN Cardinality(Older(c, A, rank))
                                          ELSE Cardinality(Older(c, A, rank)) + 1
      BY <3>1, FS_AddElement
    <3> QED
      BY <2>7, <3>1, <3>2
  <2> QED
    BY <2>6, <2>8, FS_Subset, FS_CardinalityType
<1> QED
  BY <1>3, <1>4

\* No address has more servers than its limit, for any number of connections
\* and children, although the copies that are counted are of different times.
THEOREM AddressLimit == TcpdSpec => []PerAddress
<1> DEFINE Inv == \A a \in Addrs : LimitInv({a}, MaxPerIp[a])
<1>1. \A a \in Addrs : MaxPerIp[a] \in Nat
  BY TcpdAssumption
<1>2. TcpdInit => Inv
  BY <1>1, InitLimit
<1>3. \A a \in Addrs : Gated({a}, MaxPerIp[a])
  <2>1. ASSUME NEW a \in Addrs, NEW c \in Of({a}), Admitted(c)
        PROVE  Cardinality(Counted(c, {a})) < MaxPerIp[a]
    <3>1. Counted(c, {a}) = SameAddr(c) /\ AddrOf[c] = a
      BY DEF Counted, SameAddr, Of
    <3> QED
      BY <2>1, <3>1 DEF Admitted
  <2> QED
    BY <2>1 DEF Gated
<1>4. TableInv /\ Inv /\ [TcpdNext]_tcpdVars => Inv'
  BY <1>1, <1>3, NextLimit
<1>5. Inv => PerAddress
  <2>1. ASSUME NEW a \in Addrs, Inv
        PROVE  Cardinality(Serving({c \in Conns : AddrOf[c] = a})) <= MaxPerIp[a]
    <3>1. Of({a}) = {c \in Conns : AddrOf[c] = a}
      BY DEF Of
    <3> QED
      BY <1>1, <2>1, <3>1, LimitHolds
  <2> QED
    BY <2>1 DEF PerAddress
<1> HIDE DEF Inv
<1> QED
  BY <1>2, <1>4, <1>5, TableInit, TableNext, PTL DEF TcpdSpec

\* No network has more servers than its limit.
THEOREM NetworkLimit == TcpdSpec => []PerNetwork
<1> DEFINE Net(a) == {b \in Addrs : BlockOf[b] = BlockOf[a]}
           Inv == \A a \in Addrs : LimitInv(Net(a), MaxPerC)
<1>1. MaxPerC \in Nat
  BY TcpdAssumption
<1>2. TcpdInit => Inv
  BY <1>1, InitLimit
<1>3. \A a \in Addrs : TableInv => Gated(Net(a), MaxPerC)
  <2>1. ASSUME NEW a \in Addrs, NEW c \in Of(Net(a)), Admitted(c)
        PROVE  Cardinality(Counted(c, Net(a))) < MaxPerC
    <3>1. BlockOf[AddrOf[c]] = BlockOf[a] /\ c \in Conns
      BY DEF Of
    <3>2. Counted(c, Net(a)) \in SUBSET SameBlock(c)
      BY <3>1, TcpdAssumption DEF Counted, SameBlock
    <3>3. SameBlock(c) \in SUBSET Slots /\ IsFiniteSet(Slots)
      BY TcpdAssumption, FS_Interval DEF SameBlock, Slots
    <3>4. Cardinality(SameBlock(c)) < MaxPerC
      BY <2>1 DEF Admitted
    <3> HIDE DEF Net
    <3> QED
      BY <1>1, <3>2, <3>3, <3>4, FS_Subset, FS_CardinalityType
  <2> HIDE DEF Net
  <2> QED
    BY <2>1 DEF Gated
<1>4. TableInv /\ Inv /\ [TcpdNext]_tcpdVars => Inv'
  <2> HIDE DEF Net
  <2> QED
    BY <1>1, <1>3, NextLimit
<1>5. Inv => PerNetwork
  <2>1. ASSUME NEW a \in Addrs, Inv
        PROVE  Cardinality(Serving({c \in Conns : BlockOf[AddrOf[c]] = BlockOf[a]})) <= MaxPerC
    <3>1. Of(Net(a)) = {c \in Conns : BlockOf[AddrOf[c]] = BlockOf[a]}
      BY DEF Of, Addrs
    <3> QED
      BY <1>1, <2>1, <3>1, LimitHolds
  <2> QED
    BY <2>1 DEF PerNetwork
<1> HIDE DEF Inv
<1> QED
  BY <1>2, <1>4, <1>5, TableInit, TableNext, PTL DEF TcpdSpec
=============================================================================
