-------------------------- MODULE MboxQueueProofs ---------------------------
(***************************************************************************)
(* Proofs about MboxQueue, for any requests and bounds: no task is lost or *)
(* queued twice, every callback is called once at most, and the account's  *)
(* lock on the folder goes with the last request that needs it.            *)
(***************************************************************************)
EXTENDS MboxQueue, FiniteSetTheorems, SequenceTheorems, TLAPS

Tasks == [req : Reqs, re : BOOLEAN]

(***************************************************************************)
(* The queue q is right for the stages st: it holds a task of each request *)
(* that is in it, and of no other, and no request twice.                   *)
(***************************************************************************)
PlacedIn(q, st) ==
    /\ \A i \in 1..Len(q) : st[q[i].req] \in Queued
    /\ \A i, j \in 1..Len(q) : q[i].req = q[j].req => i = j
    /\ \A r \in Reqs : st[r] \in Queued => \E i \in 1..Len(q) : q[i].req = r

\* A request is over when its callback has been called, and not before.
AnsweredInv == \A r \in Reqs : answers[r] = IF stage[r] = "over" THEN 1 ELSE 0

\* multiLockLock is there for a request that has got it and not released it.
MultiInv == multi => \E r \in Reqs : stage[r] \in {"later", "read"}

\* resetFolder has deleted it when the account is gone.
DestroyedInv == destroyed => ~multi

IInv ==
    /\ TypeOK
    /\ ~thrown => PlacedIn(tasks, stage)
    /\ AnsweredInv
    /\ MultiInv
    /\ DestroyedInv

-----------------------------------------------------------------------------
(* The queue.                                                              *)

\* task::done(): the first task goes, and its request waits or is over.
LEMMA PopPlaced ==
    ASSUME NEW q \in Seq(Tasks), q # <<>>, NEW st \in [Reqs -> Stages], PlacedIn(q, st),
           NEW s \in Stages \ Queued
    PROVE  PlacedIn(Tail(q), [st EXCEPT ![Head(q).req] = s])
<1> DEFINE st2 == [st EXCEPT ![Head(q).req] = s]
<1>1. /\ Len(q) \in Nat \ {0} /\ Len(Tail(q)) = Len(q) - 1
      /\ \A i \in 1..Len(Tail(q)) : Tail(q)[i] = q[i + 1]
      /\ Head(q) = q[1]
  BY HeadTailProperties, LenProperties, EmptySeq
<1>2. \A i \in 1..Len(q) : q[i].req \in Reqs
  <2>1. \A i \in 1..Len(q) : q[i] \in Tasks
    BY ElementOfSeq
  <2> QED
    BY <2>1 DEF Tasks
<1>3. \A r \in Reqs : st2[r] = IF r = q[1].req THEN s ELSE st[r]
  BY <1>1
<1> HIDE DEF st2
<1>4. ASSUME NEW i \in 1..Len(Tail(q)) PROVE st2[Tail(q)[i].req] \in Queued
  <2>1. i + 1 \in 1..Len(q) /\ 1 \in 1..Len(q) /\ i + 1 # 1 /\ Tail(q)[i] = q[i + 1]
    BY <1>1
  <2> QED
    BY <1>2, <1>3, <2>1 DEF PlacedIn
<1>5. ASSUME NEW i \in 1..Len(Tail(q)), NEW j \in 1..Len(Tail(q)),
             Tail(q)[i].req = Tail(q)[j].req
      PROVE  i = j
  <2>1. i + 1 \in 1..Len(q) /\ j + 1 \in 1..Len(q) /\ q[i + 1].req = q[j + 1].req
    BY <1>1, <1>5
  <2>2. i + 1 = j + 1
    BY <2>1 DEF PlacedIn
  <2> QED
    BY <1>1, <2>2
<1>6. ASSUME NEW r \in Reqs, st2[r] \in Queued
      PROVE  \E i \in 1..Len(Tail(q)) : Tail(q)[i].req = r
  <2>1. r # q[1].req /\ st[r] \in Queued
    BY <1>3, <1>6
  <2>2. PICK i \in 1..Len(q) : q[i].req = r
    BY <2>1 DEF PlacedIn
  <2>3. i - 1 \in 1..Len(Tail(q)) /\ Tail(q)[i - 1] = q[i]
    BY <1>1, <2>1, <2>2
  <2> QED
    BY <2>2, <2>3
<1> QED
  BY <1>4, <1>5, <1>6 DEF PlacedIn, st2

\* The first task gives its place up for one at the end, for the same request.
LEMMA RequeuePlaced ==
    ASSUME NEW q \in Seq(Tasks), q # <<>>, NEW st \in [Reqs -> Stages], PlacedIn(q, st),
           NEW t \in Tasks, t.req = Head(q).req
    PROVE  PlacedIn(Append(Tail(q), t), st)
<1> DEFINE q2 == Append(Tail(q), t)
<1>1. /\ Len(q) \in Nat \ {0} /\ Len(q2) = Len(q)
      /\ \A i \in 1..(Len(q) - 1) : q2[i] = q[i + 1]
      /\ q2[Len(q)] = t
      /\ t.req = q[1].req
  BY HeadTailProperties, LenProperties, EmptySeq, AppendProperties
<1> HIDE DEF q2
\* Where the request of place i was before.
<1> DEFINE was(i) == IF i = Len(q) THEN 1 ELSE i + 1
<1>2. \A i \in 1..Len(q2) : was(i) \in 1..Len(q) /\ q2[i].req = q[was(i)].req
  BY <1>1
<1>3. \A i, j \in 1..Len(q2) : was(i) = was(j) => i = j
  BY <1>1
<1>4. \A i \in 1..Len(q) : \E j \in 1..Len(q2) : was(j) = i
  <2>1. SUFFICES ASSUME NEW i \in 1..Len(q) PROVE \E j \in 1..Len(q2) : was(j) = i
    OBVIOUS
  <2>2. CASE i = 1
    BY <1>1, <2>2
  <2>3. CASE i # 1
    <3>1. i - 1 \in 1..Len(q2) /\ was(i - 1) = i
      BY <1>1, <2>3
    <3> QED
      BY <3>1
  <2> QED
    BY <2>2, <2>3
<1> HIDE DEF was
<1>5. \A i \in 1..Len(q2) : st[q2[i].req] \in Queued
  BY <1>2 DEF PlacedIn
<1>6. \A i, j \in 1..Len(q2) : q2[i].req = q2[j].req => i = j
  BY <1>2, <1>3 DEF PlacedIn
<1>7. \A r \in Reqs : st[r] \in Queued => \E i \in 1..Len(q2) : q2[i].req = r
  <2>1. SUFFICES ASSUME NEW r \in Reqs, st[r] \in Queued
                 PROVE  \E i \in 1..Len(q2) : q2[i].req = r
    OBVIOUS
  <2>2. PICK i \in 1..Len(q) : q[i].req = r
    BY <2>1 DEF PlacedIn
  <2>3. PICK j \in 1..Len(q2) : was(j) = i
    BY <1>4
  <2>4. q2[j].req = r
    BY <1>2, <2>2, <2>3
  <2> QED
    BY <2>4
<1> QED
  BY <1>5, <1>6, <1>7 DEF PlacedIn, q2

\* A task is installed for a request that has none.
LEMMA InstallPlaced ==
    ASSUME NEW q \in Seq(Tasks), NEW st \in [Reqs -> Stages], PlacedIn(q, st),
           NEW r \in Reqs, st[r] \notin Queued, NEW s \in Queued
    PROVE  PlacedIn(Append(q, Task(r)), [st EXCEPT ![r] = s])
<1> DEFINE q2 == Append(q, Task(r))
           st2 == [st EXCEPT ![r] = s]
<1>1. /\ Len(q) \in Nat /\ Len(q2) = Len(q) + 1
      /\ \A i \in 1..Len(q) : q2[i] = q[i]
      /\ q2[Len(q) + 1].req = r
  <2>1. Task(r) \in Tasks /\ Task(r).req = r
    BY DEF Task, Tasks
  <2> QED
    BY <2>1, LenProperties, AppendProperties
<1>2. \A x \in Reqs : st2[x] = IF x = r THEN s ELSE st[x]
  OBVIOUS
<1>3. \A i \in 1..Len(q) : q[i].req \in Reqs /\ q[i].req # r /\ st[q[i].req] \in Queued
  <2>1. \A i \in 1..Len(q) : q[i] \in Tasks
    BY ElementOfSeq
  <2> QED
    BY <2>1 DEF Tasks, PlacedIn
<1> HIDE DEF q2, st2
<1>4. \A i \in 1..Len(q2) : st2[q2[i].req] \in Queued
  BY <1>1, <1>2, <1>3
<1>5. \A i, j \in 1..Len(q2) : q2[i].req = q2[j].req => i = j
  BY <1>1, <1>3 DEF PlacedIn
<1>6. ASSUME NEW x \in Reqs, st2[x] \in Queued PROVE \E i \in 1..Len(q2) : q2[i].req = x
  <2>1. CASE x = r
    BY <1>1, <2>1
  <2>2. CASE x # r
    <3>1. PICK i \in 1..Len(q) : q[i].req = x
      BY <1>2, <1>6, <2>2 DEF PlacedIn
    <3> QED
      BY <1>1, <3>1
  <2> QED
    BY <2>1, <2>2
<1> QED
  BY <1>4, <1>5, <1>6 DEF PlacedIn, q2, st2

-----------------------------------------------------------------------------
(* Pieces of the actions.                                                  *)

\* The task that handler() runs, and its request.
LEMMA FrontTask ==
    ASSUME IInv, HandlerPre
    PROVE  /\ tasks \in Seq(Tasks) /\ tasks # <<>>
           /\ Front \in Tasks /\ Front.req \in Reqs
           /\ stage[Front.req] \in Queued
           /\ PlacedIn(tasks, stage)
           /\ stage \in [Reqs -> Stages]
           /\ ~thrown
<1>1. tasks \in Seq(Tasks) /\ tasks # <<>> /\ PlacedIn(tasks, stage) /\ ~thrown
  BY DEF IInv, TypeOK, HandlerPre, Running, Tasks
<1>2. /\ Front = tasks[1] /\ 1 \in 1..Len(tasks) /\ Front \in Tasks
  BY <1>1, HeadTailProperties, EmptySeq DEF Front
<1>3. Front.req \in Reqs
  BY <1>2 DEF Tasks
<1>4. stage[Front.req] \in Queued
  BY <1>1, <1>2 DEF PlacedIn
<1> QED
  BY <1>1, <1>2, <1>3, <1>4 DEF IInv, TypeOK

\* What stays as it is in the types of a handler's step.
Types ==
    /\ stage \in [Reqs -> Stages]
    /\ left \in [Reqs -> 0..MaxReads]
    /\ answers \in [Reqs -> Nat]
    /\ deadline \in [Reqs -> 0..(MaxClock + Timeout)]
    /\ multi \in BOOLEAN /\ isOpen \in BOOLEAN /\ changed \in BOOLEAN

\* A callback is called, of a request that is not over.
LEMMA AnswerInv ==
    ASSUME IInv, NEW r \in Reqs, stage[r] # "over", Answer(r)
    PROVE  /\ stage' \in [Reqs -> Stages]
           /\ left' \in [Reqs -> 0..MaxReads]
           /\ answers' \in [Reqs -> Nat]
           /\ deadline' \in [Reqs -> 0..(MaxClock + Timeout)]
           /\ AnsweredInv'
           /\ \A x \in Reqs : stage'[x] = IF x = r THEN "over" ELSE stage[x]
<1>1. "over" \in Stages /\ 0 \in 0..MaxReads
  BY QueueAssumption DEF Stages
<1>2. /\ stage' \in [Reqs -> Stages]
      /\ left' \in [Reqs -> 0..MaxReads]
      /\ answers' \in [Reqs -> Nat]
      /\ deadline' \in [Reqs -> 0..(MaxClock + Timeout)]
  BY <1>1 DEF IInv, TypeOK, Answer
<1>3. /\ \A x \in Reqs : stage'[x] = IF x = r THEN "over" ELSE stage[x]
      /\ \A x \in Reqs : answers'[x] = IF x = r THEN answers[r] + 1 ELSE answers[x]
  BY DEF IInv, TypeOK, Answer
<1>4. AnsweredInv'
  BY <1>3 DEF IInv, AnsweredInv
<1> QED
  BY <1>2, <1>3, <1>4

\* A request ends: with MultiLockRelease, if it has the lock.
LEMMA FinishInv ==
    ASSUME IInv, NEW r \in Reqs, stage[r] # "over", NEW ok, Finish(r, ok)
    PROVE  /\ Types' /\ AnsweredInv' /\ MultiInv'
           /\ \A x \in Reqs : stage'[x] = IF x = r THEN "over" ELSE stage[x]
<1>1. /\ stage' \in [Reqs -> Stages]
      /\ left' \in [Reqs -> 0..MaxReads]
      /\ answers' \in [Reqs -> Nat]
      /\ deadline' \in [Reqs -> 0..(MaxClock + Timeout)]
      /\ AnsweredInv'
      /\ \A x \in Reqs : stage'[x] = IF x = r THEN "over" ELSE stage[x]
  BY AnswerInv DEF Finish
<1>2. Types'
  BY <1>1 DEF Types, Finish, IInv, TypeOK
<1>3. MultiInv'
  <2>1. SUFFICES ASSUME multi' PROVE \E x \in Reqs : stage'[x] \in {"later", "read"}
    BY DEF MultiInv
  <2>2. multi /\ ~Releases(r)
    BY <2>1 DEF Finish
  <2>3. PICK x \in Reqs : stage[x] \in {"later", "read"}
    BY <2>2 DEF IInv, MultiInv
  <2>4. x # r
    BY <2>2, <2>3 DEF Releases
  <2> QED
    BY <1>1, <2>3, <2>4
<1> QED
  BY <1>1, <1>2, <1>3

\* The next message of a request, or its end.
LEMMA NextMessageInv ==
    ASSUME IInv, NEW r \in Reqs, stage[r] # "over", NextMessage(r)
    PROVE  /\ Types' /\ AnsweredInv' /\ MultiInv'
           /\ \E s \in {"later", "over"} : stage' = [stage EXCEPT ![r] = s]
<1>1. CASE left[r] = 1 /\ Finish(r, TRUE)
  BY <1>1, FinishInv DEF Finish, Answer
<1>2. CASE /\ left[r] > 1
           /\ left' = [left EXCEPT ![r] = @ - 1]
           /\ stage' = [stage EXCEPT ![r] = "later"]
           /\ UNCHANGED <<answers, deadline, fvars>>
  <2>1. left' \in [Reqs -> 0..MaxReads]
    BY <1>2, QueueAssumption DEF IInv, TypeOK
  <2>2. "later" \in Stages
    BY DEF Stages
  <2>3. stage' \in [Reqs -> Stages]
    BY <1>2, <2>2 DEF IInv, TypeOK
  <2>4. Types'
    BY <1>2, <2>1, <2>3 DEF Types, fvars, IInv, TypeOK
  <2>5. \A x \in Reqs : stage'[x] = IF x = r THEN "later" ELSE stage[x]
    BY <1>2 DEF IInv, TypeOK
  <2>6. AnsweredInv'
    BY <1>2, <2>5 DEF IInv, AnsweredInv
  <2>7. MultiInv'
    BY <2>5 DEF MultiInv
  <2> QED
    BY <1>2, <2>4, <2>6, <2>7
<1> QED
  BY <1>1, <1>2 DEF NextMessage

\* A task that fails: task::done(), or, for one that reopens the folder, the
\* exception that done() throws.
LEMMA FailTaskInv ==
    ASSUME IInv, HandlerPre, FailTask(Front), UNCHANGED <<evars, destroyed>>
    PROVE  IInv'
<1>1. /\ tasks \in Seq(Tasks) /\ tasks # <<>> /\ Front.req \in Reqs
      /\ stage[Front.req] \in Queued
      /\ PlacedIn(tasks, stage) /\ stage \in [Reqs -> Stages]
  BY FrontTask
<1>2. stage[Front.req] # "over" /\ "over" \in Stages \ Queued
  BY <1>1 DEF Queued, Kinds, Stages
<1>3. Finish(Front.req, FALSE)
  BY DEF FailTask, Fail, FailReopen
<1>4. Types' /\ AnsweredInv' /\ MultiInv'
  BY <1>1, <1>2, <1>3, FinishInv
<1>5. DestroyedInv'
  BY <1>3 DEF Finish, IInv, DestroyedInv
<1>6. CASE FailReopen(Front.req)
  <2>1. thrown' = TRUE /\ tasks' = tasks
    BY <1>6 DEF FailReopen
  <2>2. TypeOK'
    BY <1>4, <2>1 DEF Types, IInv, TypeOK, evars
  <2> QED
    BY <1>4, <1>5, <2>1, <2>2 DEF IInv
<1>7. CASE Fail(Front.req)
  <2>1. tasks' = Tail(tasks) /\ UNCHANGED thrown
    BY <1>7 DEF Fail, Pop
  <2>2. stage' = [stage EXCEPT ![Head(tasks).req] = "over"]
    BY <1>3 DEF Finish, Answer, Front
  <2>3. PlacedIn(tasks', stage')
    BY <1>1, <1>2, <2>1, <2>2, PopPlaced
  <2>4. tasks' \in Seq(Tasks)
    BY <1>1, <2>1, HeadTailProperties
  <2>5. TypeOK'
    BY <1>4, <2>1, <2>4 DEF Types, IInv, TypeOK, evars, Tasks
  <2> QED
    BY <1>4, <1>5, <2>3, <2>5 DEF IInv
<1> QED
  BY <1>6, <1>7 DEF FailTask

-----------------------------------------------------------------------------
(* Every step keeps the invariant.                                         *)

\* A request is installed, or answered at once.
LEMMA RequestInv == ASSUME IInv, NEW r \in Reqs, NEW k \in Kinds, Request(r, k) PROVE IInv'
<1>1. /\ ~thrown /\ stage[r] = "new" /\ PlacedIn(tasks, stage) /\ tasks \in Seq(Tasks)
      /\ stage \in [Reqs -> Stages]
  BY DEF Request, Running, IInv, TypeOK, Tasks
<1>2. stage[r] # "over" /\ stage[r] \notin Queued /\ stage[r] \notin {"later", "read"}
  BY <1>1 DEF Queued, Kinds
<1>3. UNCHANGED <<fvars, evars, thrown, destroyed>>
  BY DEF Request
<1>4. DestroyedInv'
  BY <1>3 DEF fvars, IInv, DestroyedInv
<1>5. CASE Answer(r) /\ UNCHANGED tasks
  <2>1. /\ stage' \in [Reqs -> Stages]
        /\ left' \in [Reqs -> 0..MaxReads]
        /\ answers' \in [Reqs -> Nat]
        /\ deadline' \in [Reqs -> 0..(MaxClock + Timeout)]
        /\ AnsweredInv'
        /\ \A x \in Reqs : stage'[x] = IF x = r THEN "over" ELSE stage[x]
    BY <1>2, <1>5, AnswerInv
  <2>2. TypeOK'
    BY <1>3, <1>5, <2>1 DEF IInv, TypeOK, fvars, evars
  <2>3. "over" \notin Queued
    BY DEF Queued, Kinds
  <2>4. \A i \in 1..Len(tasks) : tasks[i].req \in Reqs
    <3>1. \A i \in 1..Len(tasks) : tasks[i] \in Tasks
      BY <1>1, ElementOfSeq
    <3> QED
      BY <3>1 DEF Tasks
  <2>5. PlacedIn(tasks', stage')
    BY <1>1, <1>2, <1>5, <2>1, <2>3, <2>4 DEF PlacedIn
  <2>6. MultiInv'
    BY <1>2, <1>3, <2>1 DEF fvars, IInv, MultiInv
  <2> QED
    BY <1>4, <2>1, <2>2, <2>5, <2>6 DEF IInv
<1>6. CASE /\ stage' = [stage EXCEPT ![r] = k]
           /\ \E n \in 1..MaxReads :
                 left' = [left EXCEPT ![r] = IF k = "multi" THEN n ELSE 0]
           /\ deadline' = [deadline EXCEPT ![r] = Deadline]
           /\ tasks' = Append(tasks, Task(r))
           /\ UNCHANGED answers
  <2>1. k \in Queued /\ Queued \subseteq Stages /\ k # "over"
    BY DEF Queued, Stages, Kinds
  <2>2. PlacedIn(tasks', stage')
    BY <1>1, <1>2, <1>6, <2>1, InstallPlaced
  <2>3. stage' \in [Reqs -> Stages]
    BY <1>1, <1>6, <2>1
  <2>4. left' \in [Reqs -> 0..MaxReads]
    BY <1>6, QueueAssumption DEF IInv, TypeOK
  <2>5. deadline' \in [Reqs -> 0..(MaxClock + Timeout)]
    <3>1. Deadline \in 0..(MaxClock + Timeout)
      BY QueueAssumption DEF Deadline, IInv, TypeOK
    <3> QED
      BY <1>6, <3>1 DEF IInv, TypeOK
  <2>6. tasks' \in Seq(Tasks)
    <3>1. Task(r) \in Tasks
      BY DEF Task, Tasks
    <3> QED
      BY <1>1, <1>6, <3>1, AppendProperties
  <2>7. TypeOK'
    BY <1>3, <1>6, <2>3, <2>4, <2>5, <2>6 DEF IInv, TypeOK, fvars, evars, Tasks
  <2>8. \A x \in Reqs : stage'[x] = IF x = r THEN k ELSE stage[x]
    BY <1>1, <1>6
  <2>9. AnsweredInv'
    BY <1>2, <1>6, <2>1, <2>8 DEF IInv, AnsweredInv
  <2>10. MultiInv'
    BY <1>2, <1>3, <2>8 DEF fvars, IInv, MultiInv
  <2> QED
    BY <1>4, <2>2, <2>7, <2>9, <2>10 DEF IInv
<1> QED
  BY <1>5, <1>6 DEF Request

\* The timer of a request: it ends, goes on, or waits again.
LEMMA RunningLaterInv == ASSUME IInv, NEW r \in Reqs, RunningLater(r) PROVE IInv'
<1>1. /\ ~thrown /\ stage[r] = "later" /\ PlacedIn(tasks, stage) /\ tasks \in Seq(Tasks)
      /\ stage \in [Reqs -> Stages]
  BY DEF RunningLater, IInv, TypeOK, Tasks
<1>2. stage[r] # "over" /\ stage[r] \notin Queued
  BY <1>1 DEF Queued, Kinds
<1>3. UNCHANGED <<evars, thrown, destroyed>>
  BY DEF RunningLater
<1>4. DestroyedInv'
  BY <1>3 DEF RunningLater, NextMessage, Finish, fvars, IInv, DestroyedInv
<1>5. ASSUME NEW s \in {"later", "over"}, stage' = [stage EXCEPT ![r] = s], UNCHANGED tasks
      PROVE  PlacedIn(tasks', stage')
  <2>1. \A i \in 1..Len(tasks) : tasks[i].req \in Reqs
    <3>1. \A i \in 1..Len(tasks) : tasks[i] \in Tasks
      BY <1>1, ElementOfSeq
    <3> QED
      BY <3>1 DEF Tasks
  <2>2. \A x \in Reqs : stage'[x] = IF x = r THEN s ELSE stage[x]
    BY <1>1, <1>5
  <2>3. s \notin Queued
    BY <1>5 DEF Queued, Kinds
  <2> QED
    BY <1>1, <1>2, <1>5, <2>1, <2>2, <2>3 DEF PlacedIn
<1>6. CASE NextMessage(r) /\ UNCHANGED tasks
  <2>1. Types' /\ AnsweredInv' /\ MultiInv'
        /\ \E s \in {"later", "over"} : stage' = [stage EXCEPT ![r] = s]
    BY <1>2, <1>6, NextMessageInv
  <2>2. PlacedIn(tasks', stage')
    BY <1>5, <1>6, <2>1
  <2>3. TypeOK'
    BY <1>3, <1>6, <2>1 DEF Types, IInv, TypeOK, evars
  <2> QED
    BY <1>4, <2>1, <2>2, <2>3 DEF IInv
<1>7. CASE destroyed /\ Answer(r) /\ UNCHANGED <<tasks, fvars>>
  <2>1. /\ stage' \in [Reqs -> Stages]
        /\ left' \in [Reqs -> 0..MaxReads]
        /\ answers' \in [Reqs -> Nat]
        /\ deadline' \in [Reqs -> 0..(MaxClock + Timeout)]
        /\ AnsweredInv'
        /\ \A x \in Reqs : stage'[x] = IF x = r THEN "over" ELSE stage[x]
    BY <1>2, <1>7, AnswerInv
  <2>2. TypeOK'
    BY <1>3, <1>7, <2>1 DEF IInv, TypeOK, fvars, evars
  <2>3. PlacedIn(tasks', stage')
    BY <1>5, <1>7 DEF Answer
  <2>4. MultiInv'
    BY <1>7 DEF fvars, IInv, MultiInv, DestroyedInv
  <2> QED
    BY <1>4, <2>1, <2>2, <2>3, <2>4 DEF IInv
<1>8. CASE /\ stage' = [stage EXCEPT ![r] = "read"]
           /\ deadline' = [deadline EXCEPT ![r] = Deadline]
           /\ tasks' = Append(tasks, Task(r))
           /\ UNCHANGED <<left, answers, fvars>>
  <2>1. "read" \in Queued /\ Queued \subseteq Stages
    BY DEF Queued, Stages, Kinds
  <2>2. PlacedIn(tasks', stage')
    BY <1>1, <1>2, <1>8, <2>1, InstallPlaced
  <2>3. stage' \in [Reqs -> Stages]
    BY <1>1, <1>8, <2>1
  <2>4. deadline' \in [Reqs -> 0..(MaxClock + Timeout)]
    <3>1. Deadline \in 0..(MaxClock + Timeout)
      BY QueueAssumption DEF Deadline, IInv, TypeOK
    <3> QED
      BY <1>8, <3>1 DEF IInv, TypeOK
  <2>5. tasks' \in Seq(Tasks)
    <3>1. Task(r) \in Tasks
      BY DEF Task, Tasks
    <3> QED
      BY <1>1, <1>8, <3>1, AppendProperties
  <2>6. TypeOK'
    BY <1>3, <1>8, <2>3, <2>4, <2>5 DEF IInv, TypeOK, fvars, evars, Tasks
  <2>7. \A x \in Reqs : stage'[x] = IF x = r THEN "read" ELSE stage[x]
    BY <1>1, <1>8
  <2>8. AnsweredInv'
    BY <1>2, <1>8, <2>7 DEF IInv, AnsweredInv
  <2>9. MultiInv'
    BY <2>7 DEF MultiInv
  <2> QED
    BY <1>4, <2>2, <2>6, <2>8, <2>9 DEF IInv
<1> QED
  BY <1>6, <1>7, <1>8 DEF RunningLater

\* The folder is opened, for a request or for a LockTask that goes on after it.
LEMMA DoitOpenInv == ASSUME IInv, DoitOpen PROVE IInv'
<1>1. /\ tasks \in Seq(Tasks) /\ tasks # <<>> /\ Front.req \in Reqs
      /\ stage[Front.req] \in Queued
      /\ PlacedIn(tasks, stage) /\ stage \in [Reqs -> Stages]
      /\ Front = Head(tasks)
  BY FrontTask DEF DoitOpen, Front
<1>2. stage[Front.req] # "over" /\ "over" \in Stages \ Queued
  BY <1>1 DEF Queued, Kinds, Stages
<1>3. MultiInv' /\ DestroyedInv'
  BY DEF DoitOpen, MultiInv, DestroyedInv
<1>4. CASE Front.re
  <2>1. tasks' = Append(Tail(tasks), Task(Front.req)) /\ UNCHANGED rvars
    BY <1>4 DEF DoitOpen, Reopened
  <2>2. Task(Front.req) \in Tasks /\ Task(Front.req).req = Head(tasks).req
    BY <1>1 DEF Task, Tasks
  <2>3. PlacedIn(tasks', stage')
    BY <1>1, <2>1, <2>2, RequeuePlaced DEF rvars
  <2>4. tasks' \in Seq(Tasks)
    BY <1>1, <2>1, <2>2, HeadTailProperties, AppendProperties
  <2>5. TypeOK'
    BY <2>1, <2>4 DEF DoitOpen, rvars, evars, IInv, TypeOK, Tasks
  <2>6. AnsweredInv'
    BY <2>1 DEF rvars, IInv, AnsweredInv
  <2> QED
    BY <1>3, <2>3, <2>5, <2>6 DEF IInv
<1>5. CASE ~Front.re
  <2>1. Answer(Front.req) /\ tasks' = Tail(tasks)
    BY <1>5 DEF DoitOpen, Opened, Pop
  <2>2. /\ stage' \in [Reqs -> Stages]
        /\ left' \in [Reqs -> 0..MaxReads]
        /\ answers' \in [Reqs -> Nat]
        /\ deadline' \in [Reqs -> 0..(MaxClock + Timeout)]
        /\ AnsweredInv'
    BY <1>1, <1>2, <2>1, AnswerInv
  <2>3. stage' = [stage EXCEPT ![Head(tasks).req] = "over"]
    BY <1>1, <2>1 DEF Answer
  <2>4. PlacedIn(tasks', stage')
    BY <1>1, <1>2, <2>1, <2>3, PopPlaced
  <2>5. tasks' \in Seq(Tasks)
    BY <1>1, <2>1, HeadTailProperties
  <2>6. TypeOK'
    BY <2>2, <2>5 DEF DoitOpen, evars, IInv, TypeOK, Tasks
  <2> QED
    BY <1>3, <2>2, <2>4, <2>6 DEF IInv
<1> QED
  BY <1>4, <1>5

\* An OpenTask takes the place of the LockTask.
LEMMA DoitChangedInv == ASSUME IInv, DoitChanged PROVE IInv'
<1>1. /\ tasks \in Seq(Tasks) /\ tasks # <<>> /\ Front.req \in Reqs
      /\ PlacedIn(tasks, stage) /\ stage \in [Reqs -> Stages]
      /\ Front = Head(tasks)
  BY FrontTask DEF DoitChanged, Front
<1>2. tasks' = Append(Tail(tasks), Reopen(Front.req)) /\ UNCHANGED <<rvars, fvars>>
  BY DEF DoitChanged
<1>3. Reopen(Front.req) \in Tasks /\ Reopen(Front.req).req = Head(tasks).req
  BY <1>1 DEF Reopen, Tasks
<1>4. PlacedIn(tasks', stage')
  BY <1>1, <1>2, <1>3, RequeuePlaced DEF rvars
<1>5. tasks' \in Seq(Tasks)
  BY <1>1, <1>2, <1>3, HeadTailProperties, AppendProperties
<1>6. TypeOK'
  BY <1>2, <1>5 DEF DoitChanged, rvars, fvars, evars, IInv, TypeOK, Tasks
<1> QED
  BY <1>2, <1>4, <1>6 DEF DoitChanged, rvars, fvars, IInv, AnsweredInv, MultiInv, DestroyedInv

\* A task that ends, or waits for its timer, leaves the queue.
LEMMA TaskDone ==
    ASSUME IInv, HandlerPre, NEW s \in {"later", "over"},
           stage' = [stage EXCEPT ![Front.req] = s], Pop
    PROVE  PlacedIn(tasks', stage') /\ tasks' \in Seq([req : Reqs, re : BOOLEAN])
<1>1. /\ tasks \in Seq(Tasks) /\ tasks # <<>>
      /\ PlacedIn(tasks, stage) /\ stage \in [Reqs -> Stages]
      /\ Front = Head(tasks)
  BY FrontTask DEF Front
<1>2. s \in Stages \ Queued
  BY DEF Queued, Kinds, Stages
<1> QED
  BY <1>1, <1>2, PopPlaced, HeadTailProperties DEF Pop, Tasks

\* A LockTask on its own.
LEMMA DoitLockInv == ASSUME IInv, DoitLock PROVE IInv'
<1>1. HandlerPre /\ Front.req \in Reqs /\ stage[Front.req] = "lock"
  BY FrontTask DEF DoitLock
<1>2. /\ stage' \in [Reqs -> Stages]
      /\ left' \in [Reqs -> 0..MaxReads]
      /\ answers' \in [Reqs -> Nat]
      /\ deadline' \in [Reqs -> 0..(MaxClock + Timeout)]
      /\ AnsweredInv'
      /\ \A x \in Reqs : stage'[x] = IF x = Front.req THEN "over" ELSE stage[x]
  BY <1>1, AnswerInv DEF DoitLock
<1>3. PlacedIn(tasks', stage') /\ tasks' \in Seq([req : Reqs, re : BOOLEAN])
  BY <1>1, TaskDone DEF DoitLock, Answer
<1>4. TypeOK'
  BY <1>2, <1>3 DEF DoitLock, fvars, evars, IInv, TypeOK
<1>5. MultiInv' /\ DestroyedInv'
  BY <1>1, <1>2 DEF DoitLock, fvars, IInv, MultiInv, DestroyedInv
<1> QED
  BY <1>2, <1>3, <1>4, <1>5 DEF IInv

\* MultiLock keeps the lock.
LEMMA DoitMultiInv == ASSUME IInv, DoitMulti PROVE IInv'
<1>1. HandlerPre /\ Front.req \in Reqs /\ stage[Front.req] = "multi"
  BY FrontTask DEF DoitMulti
<1>2. PlacedIn(tasks', stage') /\ tasks' \in Seq([req : Reqs, re : BOOLEAN])
  BY <1>1, TaskDone DEF DoitMulti
<1>3. \A x \in Reqs : stage'[x] = IF x = Front.req THEN "later" ELSE stage[x]
  BY DEF DoitMulti, IInv, TypeOK
<1>4. stage' \in [Reqs -> Stages]
  <2>1. "later" \in Stages
    BY DEF Stages
  <2> QED
    BY <2>1 DEF DoitMulti, IInv, TypeOK
<1>5. TypeOK'
  BY <1>2, <1>4 DEF DoitMulti, evars, IInv, TypeOK
<1>6. AnsweredInv'
  BY <1>1, <1>3 DEF DoitMulti, IInv, AnsweredInv
<1>7. MultiInv' /\ DestroyedInv'
  BY <1>1, <1>3 DEF DoitMulti, HandlerPre, Running, MultiInv, DestroyedInv
<1> QED
  BY <1>2, <1>5, <1>6, <1>7 DEF IInv

\* A message was read.
LEMMA DoitReadInv == ASSUME IInv, DoitRead PROVE IInv'
<1>1. HandlerPre /\ Front.req \in Reqs /\ stage[Front.req] = "read"
  BY FrontTask DEF DoitRead
<1>2. /\ Types' /\ AnsweredInv' /\ MultiInv'
      /\ \E s \in {"later", "over"} : stage' = [stage EXCEPT ![Front.req] = s]
  <2>1. CASE NextMessage(Front.req)
    BY <1>1, <2>1, NextMessageInv
  <2>2. CASE Finish(Front.req, FALSE)
    BY <1>1, <2>2, FinishInv DEF Finish, Answer
  <2> QED
    BY <2>1, <2>2 DEF DoitRead
<1>3. PlacedIn(tasks', stage') /\ tasks' \in Seq([req : Reqs, re : BOOLEAN])
  BY <1>1, <1>2, TaskDone DEF DoitRead
<1>4. TypeOK'
  BY <1>2, <1>3 DEF DoitRead, Types, evars, IInv, TypeOK
<1>5. DestroyedInv'
  BY <1>1 DEF DoitRead, HandlerPre, Running, DestroyedInv
<1> QED
  BY <1>2, <1>3, <1>4, <1>5 DEF IInv

\* There is a least number in every set of natural numbers but the empty one.
LEMMA LeastNat ==
    ASSUME NEW T \in SUBSET Nat, T # {}
    PROVE  \E x \in T : \A y \in T : x <= y
<1>1. PICK x \in T : \A y \in T : <<y, x>> \notin OpToRel(<, Nat)
  BY NatLessThanWellFounded, WFMin, Zenon
<1>2. \A y \in Nat : y < x => <<y, x>> \in OpToRel(<, Nat)
  BY DEF OpToRel
<1>3. \A y \in T : ~(y < x)
  BY <1>1, <1>2, Zenon
<1> QED
  BY <1>3

\* ~mbox(): every task up to the first one that reopens the folder is told; if
\* there is none, the queue is empty afterwards.
LEMMA DestroyInv == ASSUME IInv, Destroy PROVE IInv'
<1> DEFINE ok(n) == /\ n <= Len(tasks) => tasks[n].re
                    /\ \A i \in 1..(n - 1) : ~tasks[i].re
           first == CHOOSE n \in 1..(Len(tasks) + 1) : ok(n)
           told == {tasks[i].req : i \in {j \in 1..Len(tasks) : j <= first}}
<1>1. /\ ~thrown /\ PlacedIn(tasks, stage) /\ tasks \in Seq(Tasks) /\ Len(tasks) \in Nat
      /\ stage \in [Reqs -> Stages]
  BY LenProperties DEF Destroy, Running, IInv, TypeOK, Tasks
<1>2. \A i \in 1..Len(tasks) : tasks[i] \in Tasks /\ tasks[i].req \in Reqs
  <2>1. \A i \in 1..Len(tasks) : tasks[i] \in Tasks
    BY <1>1, ElementOfSeq
  <2> QED
    BY <2>1 DEF Tasks
<1>3. first \in 1..(Len(tasks) + 1) /\ ok(first)
  <2> DEFINE T == {n \in 1..(Len(tasks) + 1) : n <= Len(tasks) => tasks[n].re}
  <2>1. T \in SUBSET Nat /\ Len(tasks) + 1 \in T
    BY <1>1
  <2>2. PICK n \in T : \A m \in T : n <= m
    BY <2>1, LeastNat
  <2>3. \A i \in 1..(n - 1) : i \in 1..(Len(tasks) + 1) /\ i <= Len(tasks) /\ i \notin T
    BY <1>1, <2>2
  <2>4. n \in 1..(Len(tasks) + 1) /\ ok(n)
    BY <2>2, <2>3
  <2> HIDE DEF ok
  <2> QED
    BY <2>4
<1>4. /\ destroyed' = TRUE
      /\ thrown' = (first <= Len(tasks))
      /\ stage' = [r \in Reqs |-> IF r \in told THEN "over" ELSE stage[r]]
      /\ left' = [r \in Reqs |-> IF r \in told THEN 0 ELSE left[r]]
      /\ answers' = [r \in Reqs |-> answers[r] + (IF r \in told THEN 1 ELSE 0)]
      /\ tasks' = SubSeq(tasks, first, Len(tasks))
      /\ multi' = FALSE
      /\ UNCHANGED <<deadline, isOpen, changed, evars>>
  BY DEF Destroy
<1> HIDE DEF first
<1>5. \A r \in told : r \in Reqs /\ stage[r] \in Queued
  BY <1>1, <1>2 DEF PlacedIn
<1>6. ASSUME ~thrown' PROVE tasks' = <<>> /\ \A r \in Reqs : stage[r] \in Queued => r \in told
  <2>1. first = Len(tasks) + 1
    <3>1. ~(first <= Len(tasks))
      BY <1>4, <1>6, Zenon
    <3> QED
      BY <1>1, <1>3, <3>1
  <2>2. tasks' = <<>>
    BY <1>1, <1>4, <2>1, SubSeqEmpty
  <2> QED
    BY <1>1, <2>1, <2>2 DEF PlacedIn
<1>7. \A r \in Reqs : r \in told => answers[r] = 0
  BY <1>5 DEF IInv, AnsweredInv, Queued, Kinds
<1> HIDE DEF told
<1>8. tasks' \in Seq(Tasks)
  BY <1>1, <1>2, <1>3, <1>4, SubSeqProperties
<1>9. "over" \in Stages /\ "over" \notin Queued
  BY DEF Stages, Queued, Kinds
<1>10. TypeOK'
  <2>1. stage' \in [Reqs -> Stages]
    BY <1>1, <1>4, <1>9
  <2>2. left' \in [Reqs -> 0..MaxReads] /\ answers' \in [Reqs -> Nat]
    BY <1>4, QueueAssumption DEF IInv, TypeOK
  <2>3. thrown' \in BOOLEAN
    BY <1>4
  <2> QED
    BY <1>4, <1>8, <2>1, <2>2, <2>3 DEF evars, IInv, TypeOK, Tasks
<1>11. ~thrown' => PlacedIn(tasks', stage')
  <2>1. SUFFICES ASSUME ~thrown' PROVE PlacedIn(tasks', stage')
    OBVIOUS
  <2>2. \A r \in Reqs : stage'[r] \notin Queued
    BY <1>4, <1>6, <1>9, <2>1
  <2>3. tasks' = <<>> /\ Len(tasks') = 0
    BY <1>6, <2>1, EmptySeq
  <2> QED
    BY <2>2, <2>3 DEF PlacedIn
<1>12. AnsweredInv'
  BY <1>4, <1>7 DEF IInv, AnsweredInv, TypeOK
<1> QED
  BY <1>4, <1>10, <1>11, <1>12 DEF IInv, MultiInv, DestroyedInv

LEMMA NextIInv == IInv /\ [Next]_vars => IInv'
<1> SUFFICES ASSUME IInv, [Next]_vars PROVE IInv'
  OBVIOUS
<1>1. ASSUME NEW r \in Reqs, NEW k \in Kinds, Request(r, k) PROVE IInv'
  BY <1>1, RequestInv
<1>2. ASSUME NEW r \in Reqs, RunningLater(r) PROVE IInv'
  BY <1>2, RunningLaterInv
<1>3. CASE DoitDeferred
  <2>1. CASE FailTask(Front)
    BY <1>3, <2>1, FailTaskInv DEF DoitDeferred
  <2>2. CASE UNCHANGED <<tasks, rvars, fvars, thrown>>
    BY <1>3, <2>2 DEF DoitDeferred, rvars, fvars, evars, IInv, TypeOK, AnsweredInv,
                      MultiInv, DestroyedInv
  <2> QED
    BY <1>3, <2>1, <2>2 DEF DoitDeferred, Deferred
<1>4. CASE DoitError
  BY <1>4, FailTaskInv DEF DoitError
<1>5. CASE DoitOpen
  BY <1>5, DoitOpenInv
<1>6. CASE DoitChanged
  BY <1>6, DoitChangedInv
<1>7. CASE DoitLock
  BY <1>7, DoitLockInv
<1>8. CASE DoitMulti
  BY <1>8, DoitMultiInv
<1>9. CASE DoitRead
  BY <1>9, DoitReadInv
<1>10. CASE Destroy
  BY <1>10, DestroyInv
<1>11. CASE OtherLock \/ OtherWrite \/ Tick
  <2>1. UNCHANGED <<tasks, rvars, multi, isOpen, thrown, destroyed>>
    BY <1>11 DEF OtherLock, OtherWrite, Tick, fvars
  <2>2. busy' \in BOOLEAN /\ changed' \in BOOLEAN
    BY <1>11, Zenon DEF OtherLock, OtherWrite, Tick, fvars, evars, IInv, TypeOK
  <2>3. clock' \in 0..MaxClock
    BY <1>11, QueueAssumption DEF OtherLock, OtherWrite, Tick, evars, IInv, TypeOK
  <2>4. TypeOK'
    BY <2>1, <2>2, <2>3 DEF rvars, IInv, TypeOK
  <2> QED
    BY <2>1, <2>4 DEF rvars, IInv, AnsweredInv, MultiInv, DestroyedInv
<1>12. CASE UNCHANGED vars
  BY <1>12 DEF vars, IInv, TypeOK, AnsweredInv, MultiInv, DestroyedInv
<1> QED
  BY <1>1, <1>2, <1>3, <1>4, <1>5, <1>6, <1>7, <1>8, <1>9, <1>10, <1>11, <1>12
     DEF Next, Handler

\* No request was made, and the queue is empty.
LEMMA InitIInv == Init => IInv
<1> SUFFICES ASSUME Init PROVE IInv
  OBVIOUS
<1>1. tasks = <<>> /\ Len(tasks) = 0 /\ tasks \in Seq(Tasks)
  BY EmptySeq DEF Init
<1>2. TypeOK
  <2>1. "new" \in Stages
    BY DEF Stages
  <2>2. 0 \in 0..MaxReads /\ 0 \in 0..(MaxClock + Timeout) /\ 0 \in 0..MaxClock
        /\ 0 \in Nat
    BY QueueAssumption
  <2>3. /\ stage \in [Reqs -> Stages]
        /\ left \in [Reqs -> 0..MaxReads]
        /\ answers \in [Reqs -> Nat]
        /\ deadline \in [Reqs -> 0..(MaxClock + Timeout)]
    BY <2>1, <2>2 DEF Init
  <2> QED
    BY <1>1, <2>2, <2>3 DEF Init, TypeOK, Tasks
<1>3. PlacedIn(tasks, stage)
  BY <1>1 DEF Init, PlacedIn, Queued, Kinds
<1> QED
  BY <1>2, <1>3 DEF Init, IInv, AnsweredInv, MultiInv, DestroyedInv

-----------------------------------------------------------------------------
(* The theorems.                                                           *)

\* The queue holds tasks, and the counters stay in their bounds.
THEOREM TypeCorrect == Spec => []TypeOK
<1>1. IInv => TypeOK
  BY DEF IInv
<1> QED
  BY <1>1, InitIInv, NextIInv, PTL DEF Spec

\* No callback is called twice, whatever tasks, timers, failures and ~mbox()
\* have it in turn, for any number of requests.
THEOREM CallbackOnce == Spec => []AnsweredOnce
<1>1. IInv => AnsweredOnce
  BY DEF IInv, AnsweredInv, AnsweredOnce
<1> QED
  BY <1>1, InitIInv, NextIInv, PTL DEF Spec

\* A request that is served has one place in the queue: no task is lost when
\* the folder is reopened for it, and none is queued twice.
THEOREM TaskKept == Spec => []NothingLost
<1>1. IInv => NothingLost
  <2> SUFFICES ASSUME IInv, ~thrown, NEW r \in Reqs
               PROVE  Cardinality({i \in 1..Len(tasks) : tasks[i].req = r})
                        = IF stage[r] \in Queued THEN 1 ELSE 0
    BY DEF NothingLost
  <2>1. PlacedIn(tasks, stage)
    BY DEF IInv
  <2>2. CASE stage[r] \in Queued
    <3>1. PICK i \in 1..Len(tasks) : tasks[i].req = r
      BY <2>1, <2>2 DEF PlacedIn
    <3>2. {j \in 1..Len(tasks) : tasks[j].req = r} = {i}
      BY <2>1, <3>1 DEF PlacedIn
    <3> QED
      BY <2>2, <3>2, FS_Singleton
  <2>3. CASE stage[r] \notin Queued
    <3>1. {j \in 1..Len(tasks) : tasks[j].req = r} = {}
      BY <2>1, <2>3 DEF PlacedIn
    <3> QED
      BY <2>3, <3>1, FS_EmptySet
  <2> QED
    BY <2>2, <2>3
<1> QED
  BY <1>1, InitIInv, NextIInv, PTL DEF Spec

\* The account's lock on the folder does not outlive the requests: when none
\* is being served, other programs can deliver mail.
THEOREM LockGivenBack == Spec => []LockReleased
<1>1. IInv => LockReleased
  BY DEF IInv, MultiInv, LockReleased
<1> QED
  BY <1>1, InitIInv, NextIInv, PTL DEF Spec
=============================================================================
