------------------------- MODULE MaildirQuotaProofs --------------------------
(***************************************************************************)
(* Proofs about MaildirQuota, for any number of processes, messages and    *)
(* attempts: the total in maildirsize is right until one of the named      *)
(* races has happened, and while it is right deliveries overshoot the      *)
(* quota by no more than one message each.                                 *)
(***************************************************************************)
EXTENDS MaildirQuota, FiniteSetTheorems, TLAPS

Sizes == Quotas \cup {0, OldQuota}

ProcState ==
    [pc : {"idle", "open", "stat", "read", "rename", "restat", "move", "append",
           "unlink", "purge"},
     job : {"none", "file", "pipe", "recalculate", "set", "purge"},
     msg : SUBSET Msgs, dir : {"new", "cur"}, count : Nat,
     fd : {"none", "file", "old"}, quota : Sizes, sum : Int, lines : Nat, mtime : Nat,
     recalc : BOOLEAN, tries : 0..(MaxTries - 1), seen : Nat, maxtime : Nat,
     next : 1..3, set : {"yet", "runs", "done"}, alone : BOOLEAN]

\* What the steps of process p leave in its record r.
StageOK(p, r) ==
    /\ r.pc = "idle" => r = Idle
    /\ r.job \in {"file", "pipe"} => p \in Deliverers
    /\ r.job = "purge" => r.set = "yet" /\ p \in Purgers
    /\ r.pc \in {"unlink", "purge"} => r.job = "purge"
    /\ r.pc = "unlink" => r.count > 0 /\ r.msg # {}
    /\ r.pc \in {"stat", "read"} => r.next \in 1..2
    /\ r.pc = "rename" => r.next = 3
    /\ r.pc \in {"stat", "read", "rename", "restat"} => r.quota # 0
    /\ r.pc = "move" => r.job \in {"file", "pipe"}
    /\ r.pc = "append" => r.job \in {"file", "pipe", "purge"}
    /\ r.pc \in {"move", "append"} => r.set = "yet"

TypeInv ==
    /\ TypeOK
    /\ size # NoFile => size.quota # 0
    /\ proc \in [Procs -> ProcState]
    /\ \A p \in Procs : StageOK(p, proc[p])

\* A delivery whose message is still outside the maildir is the only one that
\* has it.
Holds(r) == r.job = "pipe" \/ (r.job = "file" /\ r.pc # "append")

MsgInv ==
    /\ \A p \in Procs : Holds(proc[p]) =>
         \E m \in Msgs : proc[p].msg = {m} /\ where[m] = "out"
    /\ \A p, q \in Procs : Holds(proc[p]) /\ Holds(proc[q]) /\ p # q => proc[p].msg # proc[q].msg

\* A recalculation that has the maildir to itself has counted the messages of
\* the directories it has read.
Counted(n) == {m \in Msgs : \E i \in 1..(n - 1) : where[m] = Dirs[i]}

AloneInv ==
    \A p \in Procs : proc[p].alone =>
       /\ Undisturbed(p)
       /\ Counting(p)
       /\ proc[p].seen = Cardinality(Counted(proc[p].next))

\* While the total is right, who is about to change it has the present
\* maildirsize open.
Good == size # NoFile /\ drift \in {"none", "healed"}

Appends(r) ==
    \/ r.pc \in {"move", "append", "restat"}
    \/ r.job = "purge" /\ r.pc \in {"stat", "read", "rename"}

FdInv == Good => \A p \in Procs : Appends(proc[p]) => proc[p].fd = "file"

IInv == TypeInv /\ MsgInv /\ AloneInv /\ FdInv /\ TotalRight

-----------------------------------------------------------------------------
(* docheckquota's helpers.                                                 *)

\* The record of a process whose other fields are as memset left them.
Rest(pc, job, msg, count, fd, quota, tries, set, alone) ==
    [pc |-> pc, job |-> job, msg |-> msg, dir |-> "cur", count |-> count, fd |-> fd,
     quota |-> quota, sum |-> 0, lines |-> 0, mtime |-> 0, recalc |-> FALSE,
     tries |-> tries, seen |-> 0, maxtime |-> 0, next |-> 1, set |-> set, alone |-> alone]

\* A process that does nothing.
LEMMA IdleShape ==
    /\ Idle \in ProcState /\ \A p : StageOK(p, Idle)
    /\ Idle.pc = "idle" /\ Idle.job = "none" /\ Idle.alone = FALSE /\ Idle.set = "yet"
    /\ Idle.msg = {} /\ Idle.count = 0 /\ Idle.fd = "none" /\ Idle.dir = "cur"
<1>1. Idle = Rest("idle", "none", {}, 0, "none", 0, 0, "yet", FALSE)
  BY DEF Idle, Rest
<1>2. 0 \in Sizes /\ 0 \in 0..(MaxTries - 1)
  BY QuotaAssumption DEF Sizes
<1>3. /\ Idle \in ProcState
      /\ Idle.pc = "idle" /\ Idle.job = "none" /\ Idle.alone = FALSE /\ Idle.set = "yet"
      /\ Idle.msg = {} /\ Idle.count = 0 /\ Idle.fd = "none" /\ Idle.dir = "cur"
  BY <1>1, <1>2 DEF Rest, ProcState
<1> QED
  BY <1>3 DEF StageOK

Answered(p, r, answer) ==
    [Continue(r, answer) EXCEPT !.alone = answer = "count" /\ Undisturbed(p)]

\* What docheckquota's answer makes of the record r: the caller goes on with
\* its own message, and has its own file still open.
LEMMA ContinueShape ==
    ASSUME NEW p \in Procs, NEW r \in ProcState, NEW answer \in {"ok", "over", "count"},
           r.job \in {"file", "pipe"} => p \in Deliverers,
           r.job = "purge" => r.set = "yet" /\ p \in Purgers,
           answer = "count" => r.quota # 0,
           NEW c, c = Answered(p, r, answer)
    PROVE  /\ c \in ProcState /\ StageOK(p, c)
           /\ c.alone => answer = "count" /\ Undisturbed(p)
           /\ c.pc \in {"idle", "open", "stat", "move", "append"}
           /\ c.pc # "idle" => c.job = r.job /\ c.msg = r.msg /\ c.count = r.count
           /\ r.job = "purge" => c.pc # "idle"
           /\ c.pc = "stat" <=> answer = "count"
           /\ c.pc = "stat" => c.next = 1 /\ c.seen = 0
           /\ c.fd \in {"none", r.fd}
           /\ c.pc \in {"stat", "move", "append"} => c.fd = r.fd
           /\ c.pc = "move" => answer = "ok" /\ r.job = "file" /\ r.set # "runs"
           /\ c.pc = "append" => /\ r.set # "runs"
                                 /\ r.job = "purge" \/ (r.job = "pipe" /\ answer = "ok")
<1> PICK b \in BOOLEAN : b <=> answer = "count" /\ Undisturbed(p)
  OBVIOUS
<1> DEFINE rest(pc, fd, quota, tries, set) ==
             Rest(pc, r.job, r.msg, r.count, fd, quota, tries, set, b)
<1>0. /\ r.job \in {"none", "file", "pipe", "recalculate", "set", "purge"}
      /\ r.msg \in SUBSET Msgs /\ r.count \in Nat /\ r.fd \in {"none", "file", "old"}
      /\ r.quota \in Sizes /\ r.tries \in 0..(MaxTries - 1) /\ r.set \in {"yet", "runs", "done"}
      /\ 0 \in Sizes /\ 0 \in 0..(MaxTries - 1) /\ b \in BOOLEAN
  BY QuotaAssumption DEF ProcState, Sizes
<1>1. CASE answer = "count"
  <2>1. c = rest("stat", r.fd, r.quota, r.tries, r.set)
    BY <1>1 DEF Answered, Continue, Idle, Rest
  <2>2. c \in ProcState
    BY ONLY <1>0, <2>1 DEF Rest, ProcState
  <2>3. /\ c.pc = "stat" /\ c.job = r.job /\ c.msg = r.msg
        /\ c.count = r.count /\ c.fd = r.fd /\ c.quota = r.quota /\ c.set = r.set
        /\ c.alone = b /\ c.seen = 0 /\ c.next = 1
    BY <2>1 DEF Rest
  <2> QED
    BY <1>1, <2>2, <2>3 DEF StageOK
<1>2. CASE answer # "count" /\ r.set = "runs" /\ r.job # "set"
  <2>1. c = rest("open", "none", 0, 0, "done")
    BY <1>2 DEF Answered, Continue, Idle, Rest
  <2>2. c \in ProcState
    BY ONLY <1>0, <2>1 DEF Rest, ProcState
  <2>3. /\ c.pc = "open" /\ c.job = r.job /\ c.msg = r.msg /\ c.fd = "none"
        /\ c.count = r.count /\ c.set = "done" /\ c.alone = b
    BY <2>1 DEF Rest
  <2> QED
    BY <1>2, <2>2, <2>3 DEF StageOK
<1>3. ASSUME NEW pc \in {"move", "append"}, c = rest(pc, r.fd, 0, 0, "yet"), answer # "count"
      PROVE  /\ c \in ProcState /\ c.pc = pc /\ c.job = r.job /\ c.msg = r.msg
             /\ c.count = r.count /\ c.fd = r.fd /\ c.set = "yet" /\ c.alone = b
  <2>1. c \in ProcState
    BY ONLY <1>0, <1>3 DEF Rest, ProcState
  <2> QED
    BY <1>3, <2>1 DEF Rest
<1>4. CASE answer # "count" /\ r.set # "runs" /\ r.job = "purge"
  <2>1. c = rest("append", r.fd, 0, 0, "yet")
    BY <1>4 DEF Answered, Continue, Idle, Rest
  <2>2. /\ c \in ProcState /\ c.pc = "append" /\ c.job = r.job /\ c.msg = r.msg
        /\ c.count = r.count /\ c.fd = r.fd /\ c.set = "yet" /\ c.alone = b
    BY <1>3, <1>4, <2>1
  <2> QED
    BY <1>4, <2>2 DEF StageOK
<1>5. CASE answer = "ok" /\ r.set # "runs" /\ r.job = "file"
  <2>1. c = rest("move", r.fd, 0, 0, "yet")
    BY <1>5 DEF Answered, Continue, Idle, Rest
  <2>2. /\ c \in ProcState /\ c.pc = "move" /\ c.job = r.job /\ c.msg = r.msg
        /\ c.count = r.count /\ c.fd = r.fd /\ c.set = "yet" /\ c.alone = b
    BY <1>3, <1>5, <2>1
  <2> QED
    BY <1>5, <2>2 DEF StageOK
<1>6. CASE answer = "ok" /\ r.set # "runs" /\ r.job = "pipe"
  <2>1. c = rest("append", r.fd, 0, 0, "yet")
    BY <1>6 DEF Answered, Continue, Idle, Rest
  <2>2. /\ c \in ProcState /\ c.pc = "append" /\ c.job = r.job /\ c.msg = r.msg
        /\ c.count = r.count /\ c.fd = r.fd /\ c.set = "yet" /\ c.alone = b
    BY <1>3, <1>6, <2>1
  <2> QED
    BY <1>6, <2>2 DEF StageOK
<1>7. CASE \/ answer # "count" /\ r.set = "runs" /\ r.job = "set"
           \/ /\ answer # "count" /\ r.set # "runs" /\ r.job # "purge"
              /\ ~(answer = "ok" /\ r.job \in {"file", "pipe"})
  <2>1. c = Idle
    BY <1>7 DEF Answered, Continue, Idle
  <2> QED
    BY <1>7, <2>1, IdleShape
<1> QED
  BY <1>0, <1>1, <1>2, <1>4, <1>5, <1>6, <1>7

\* What do_maildir_openquotafile finds.
LEMMA OpenedShape ==
    ASSUME TypeInv, NEW r \in ProcState, NEW o, o = Opened(r)
    PROVE  /\ o \in ProcState
           /\ o.job = r.job /\ o.msg = r.msg /\ o.count = r.count /\ o.set = r.set
           /\ size = NoFile => o.fd = "none"
           /\ size # NoFile => o.fd = "file" /\ o.quota = size.quota
           /\ size # NoFile /\ o.recalc = FALSE => o.sum = size.sum
<1>1. CASE size = NoFile
  <2>1. o = [r EXCEPT !.fd = "none"]
    BY <1>1 DEF Opened
  <2>2. o \in ProcState
    BY ONLY <2>1, r \in ProcState DEF ProcState
  <2> QED
    BY <1>1, <2>1, <2>2 DEF ProcState
<1>2. CASE size # NoFile
  <2> DEFINE full == size.lines >= MaxLines
             sum == IF full THEN 0 ELSE size.sum
             lines == IF full THEN 0 ELSE size.lines
             recalc == r.job = "recalculate" \/ full \/ size.sum < 0
  <2>1. /\ size.quota \in Sizes /\ size.sum \in Int /\ size.lines \in Nat /\ size.mtime \in Nat
        /\ sum \in Int /\ lines \in Nat /\ recalc \in BOOLEAN
    BY QuotaAssumption DEF TypeInv, TypeOK, Sizes
  <2>2. recalc = FALSE => sum = size.sum
    OBVIOUS
  <2>3. o = [r EXCEPT !.fd = "file", !.quota = size.quota, !.mtime = size.mtime,
                      !.sum = sum, !.lines = lines, !.recalc = recalc]
    BY <1>2, Zenon DEF Opened
  <2> HIDE DEF full, sum, lines, recalc
  <2>4. o \in ProcState
    BY ONLY <2>1, <2>3, r \in ProcState DEF ProcState
  <2>5. /\ o.job = r.job /\ o.msg = r.msg /\ o.count = r.count /\ o.set = r.set
        /\ o.fd = "file" /\ o.quota = size.quota /\ o.sum = sum /\ o.recalc = recalc
    BY ONLY <2>3, r \in ProcState DEF ProcState
  <2> QED
    BY <1>2, <2>2, <2>4, <2>5
<1> QED
  BY <1>1, <1>2

\* p's own record as Open has it when docheckquota looks at it.
Wanted(p) ==
    IF proc[p].job \in {"file", "pipe"} /\ proc[p].set = "yet" THEN NewQuota[p] ELSE 0

Checked(p, r) ==
    CASE Wanted(p) # 0 /\ r.fd = "none" -> Setting(r, Wanted(p))
      [] Wanted(p) # 0 /\ r.fd # "none" /\ Wanted(p) # r.quota ->
           [r EXCEPT !.quota = Wanted(p), !.recalc = TRUE]
      [] OTHER -> r

LEMMA CheckedShape ==
    ASSUME TypeInv, NEW p \in Procs, proc[p].pc = "open",
           NEW s, s = Checked(p, Opened(proc[p]))
    PROVE  /\ s \in ProcState
           /\ s.job = proc[p].job /\ s.msg = proc[p].msg /\ s.count = proc[p].count
           /\ s.job = "purge" => s.set = "yet" /\ (s.fd = "none" => size = NoFile)
           /\ s.fd = "none" \/ s.quota # 0
           /\ size # NoFile => s.fd # "none"
           /\ s.fd = "old" => s.recalc = TRUE /\ s.set = "runs" /\ s.job \in {"file", "pipe"}
           /\ s.fd = "file" => size # NoFile
           /\ s.fd = "file" /\ s.recalc = FALSE => s.sum = size.sum /\ s.quota = size.quota
<1> DEFINE r == Opened(proc[p])
<1>0. proc[p] \in ProcState /\ StageOK(p, proc[p])
  BY DEF TypeInv
<1>1. /\ r \in ProcState
      /\ r.job = proc[p].job /\ r.msg = proc[p].msg /\ r.count = proc[p].count
      /\ r.set = proc[p].set
      /\ size = NoFile => r.fd = "none"
      /\ size # NoFile => r.fd = "file" /\ r.quota = size.quota
      /\ size # NoFile /\ r.recalc = FALSE => r.sum = size.sum
  BY <1>0, OpenedShape
<1>2. s = Checked(p, r)
  OBVIOUS
<1> HIDE DEF r
<1>3. Wanted(p) \in Sizes
  BY <1>0, QuotaAssumption DEF StageOK, Wanted, Sizes
<1>4. size # NoFile => size.quota # 0
  BY DEF TypeInv
<1>5. Wanted(p) # 0 => r.job \in {"file", "pipe"} /\ r.set = "yet"
  BY <1>1 DEF Wanted
<1>6. r.job = "purge" => r.set = "yet"
  BY <1>0, <1>1 DEF StageOK
<1>7. CASE Wanted(p) # 0 /\ r.fd = "none"
  <2>1. s = [r EXCEPT !.fd = "old", !.quota = Wanted(p), !.recalc = TRUE, !.set = "runs"]
    BY <1>2, <1>7 DEF Checked, Setting
  <2>2. s \in ProcState
    BY ONLY <1>1, <1>3, <2>1 DEF ProcState
  <2>3. /\ s.job = r.job /\ s.msg = r.msg /\ s.count = r.count /\ s.fd = "old"
        /\ s.quota = Wanted(p) /\ s.recalc = TRUE /\ s.set = "runs"
    BY ONLY <1>1, <2>1 DEF ProcState
  <2> QED
    BY <1>1, <1>5, <1>7, <2>2, <2>3
<1>8. CASE Wanted(p) # 0 /\ r.fd # "none" /\ Wanted(p) # r.quota
  <2>1. s = [r EXCEPT !.quota = Wanted(p), !.recalc = TRUE]
    BY <1>2, <1>8 DEF Checked
  <2>2. s \in ProcState
    BY ONLY <1>1, <1>3, <2>1 DEF ProcState
  <2>3. /\ s.job = r.job /\ s.msg = r.msg /\ s.count = r.count /\ s.fd = r.fd
        /\ s.quota = Wanted(p) /\ s.recalc = TRUE /\ s.set = r.set
    BY ONLY <1>1, <2>1 DEF ProcState
  <2> QED
    BY <1>1, <1>5, <1>8, <2>2, <2>3
<1>9. CASE Wanted(p) = 0 \/ (r.fd # "none" /\ Wanted(p) = r.quota)
  <2>1. s = r
    BY <1>2, <1>9 DEF Checked
  <2> QED
    BY <1>1, <1>4, <1>6, <1>9, <2>1
<1> QED
  BY <1>7, <1>8, <1>9

-----------------------------------------------------------------------------
(* What a step of one process leaves to the others: they lose the maildir  *)
(* to themselves, and nothing else.                                        *)

Crowded(r) == [r EXCEPT !.alone = FALSE]

OthersKept(p) == \A q \in Procs \ {p} : proc'[q] \in {proc[q], Crowded(proc[q])}

LEMMA CrowdedType ==
    ASSUME NEW r \in ProcState
    PROVE  Crowded(r) \in ProcState /\ Crowded(r).alone = FALSE
<1>1. Crowded(r) \in ProcState
  BY DEF ProcState, Crowded
<1> QED
  BY <1>1 DEF ProcState, Crowded

\* The fields of a process that another one's step has left as they were.
LEMMA KeptOthers ==
    ASSUME proc \in [Procs -> ProcState], NEW p \in Procs, OthersKept(p),
           NEW q \in Procs \ {p}
    PROVE  /\ proc'[q].pc = proc[q].pc /\ proc'[q].job = proc[q].job
           /\ proc'[q].msg = proc[q].msg /\ proc'[q].count = proc[q].count
           /\ proc'[q].fd = proc[q].fd
           /\ proc'[q].alone = FALSE \/ proc'[q] = proc[q]
           /\ StageOK(q, proc[q]) => StageOK(q, proc'[q])
<1> DEFINE r == proc[q]
           s == proc'[q]
<1>1. r \in ProcState /\ s \in {r, Crowded(r)}
  BY DEF OthersKept
<1> HIDE DEF r, s
<1>2. CASE s = r
  BY <1>2 DEF r, s
<1>3. CASE s = Crowded(r)
  <2>1. /\ s.pc = r.pc /\ s.job = r.job /\ s.msg = r.msg /\ s.count = r.count
        /\ s.fd = r.fd /\ s.seen = r.seen /\ s.next = r.next /\ s.set = r.set
        /\ s.quota = r.quota /\ s.alone = FALSE
    BY ONLY <1>1, <1>3 DEF ProcState, Crowded
  <2>2. ASSUME r = Idle PROVE s = Idle
    BY ONLY <1>3, <2>2 DEF Idle, Crowded
  <2>3. StageOK(q, r) => StageOK(q, s)
    BY <2>1, <2>2 DEF StageOK
  <2> QED
    BY <2>1, <2>3 DEF r, s
<1> QED
  BY <1>1, <1>2, <1>3

LEMMA DisturbShape ==
    ASSUME proc \in [Procs -> ProcState], NEW p \in Procs, NEW x \in ProcState,
           proc' = Disturb([proc EXCEPT ![p] = x], p)
    PROVE  /\ proc' \in [Procs -> ProcState] /\ proc'[p] = x
           /\ OthersKept(p)
           /\ \A q \in Procs \ {p} : proc'[q].alone = FALSE
<1>1. proc' = [q \in Procs |-> IF q = p THEN x ELSE Crowded(proc[q])]
  BY DEF Disturb, Crowded
<1>2. \A q \in Procs : Crowded(proc[q]) \in ProcState
  BY CrowdedType
<1>3. \A q \in Procs : Crowded(proc[q]).alone = FALSE
  BY CrowdedType
<1> QED
  BY <1>1, <1>2, <1>3 DEF OthersKept

\* The same when the others keep even that.
LEMMA OwnShape ==
    ASSUME proc \in [Procs -> ProcState], NEW p \in Procs, NEW x \in ProcState,
           proc' = [proc EXCEPT ![p] = x]
    PROVE  proc' \in [Procs -> ProcState] /\ proc'[p] = x /\ OthersKept(p)
BY DEF OthersKept

-----------------------------------------------------------------------------
(* The parts of the invariant after such a step.                           *)

\* The type of everything but the processes.
WorldOK ==
    /\ size \in [quota : Sizes, sum : Int, lines : Nat, mtime : 0..MaxClock]
    /\ size # NoFile => size.quota # 0
    /\ where \in [Msgs -> {"out", "new", "cur", "gone"}]
    /\ stamp \in [{"new", "cur"} -> 0..MaxClock]
    /\ clock \in 0..MaxClock
    /\ events \in 0..MaxEvents
    /\ drift \in {"none", "yes", "purge", "healed"}

LEMMA TypeParts ==
    TypeInv <=> /\ WorldOK
                /\ proc \in [Procs -> ProcState]
                /\ \A q \in Procs : StageOK(q, proc[q])
                /\ \A q \in Procs : proc[q].fd = "file" => size # NoFile
<1>1. ASSUME proc \in [Procs -> ProcState], \A q \in Procs : StageOK(q, proc[q])
      PROVE  \A q \in Procs : /\ proc[q].tries \in 0..(MaxTries - 1)
                              /\ proc[q].fd \in {"none", "file", "old"}
                              /\ proc[q].pc = "unlink" => proc[q].msg # {}
  BY <1>1 DEF ProcState, StageOK
<1>2. TypeOK /\ (size # NoFile => size.quota # 0)
        <=> /\ WorldOK
            /\ \A q \in Procs : /\ proc[q].tries \in 0..(MaxTries - 1)
                                /\ proc[q].fd \in {"none", "file", "old"}
                                /\ proc[q].fd = "file" => size # NoFile
                                /\ proc[q].pc = "unlink" => proc[q].msg # {}
  BY Zenon DEF TypeOK, WorldOK, Sizes
<1> QED
  BY <1>1, <1>2, Zenon DEF TypeInv

LEMMA TypeStep ==
    ASSUME TypeInv, NEW p \in Procs, OthersKept(p),
           proc' \in [Procs -> ProcState], StageOK(p, proc'[p]),
           WorldOK', size # NoFile => size' # NoFile,
           proc'[p].fd = "file" => size' # NoFile
    PROVE  TypeInv'
<1>1. /\ proc \in [Procs -> ProcState]
      /\ \A q \in Procs : StageOK(q, proc[q])
      /\ \A q \in Procs : proc[q].fd = "file" => size # NoFile
  BY TypeParts
<1>2. ASSUME NEW q \in Procs
      PROVE  StageOK(q, proc'[q]) /\ (proc'[q].fd = "file" => size' # NoFile)
  <2>1. CASE q = p
    BY <2>1
  <2>2. CASE q # p
    <3>1. proc'[q].fd = proc[q].fd /\ (StageOK(q, proc[q]) => StageOK(q, proc'[q]))
      BY <1>1, <2>2, KeptOthers
    <3> QED
      BY <1>1, <3>1
  <2> QED
    BY <2>1, <2>2
<1>3. (TypeInv <=> /\ WorldOK
                   /\ proc \in [Procs -> ProcState]
                   /\ \A q \in Procs : StageOK(q, proc[q])
                   /\ \A q \in Procs : proc[q].fd = "file" => size # NoFile)'
  BY TypeParts, PTL
<1> QED
  BY <1>2, <1>3

LEMMA MsgStep ==
    ASSUME TypeInv, MsgInv, NEW p \in Procs, OthersKept(p),
           Holds(proc'[p]) => Holds(proc[p]) /\ proc'[p].msg = proc[p].msg,
           \A m \in Msgs : where[m] = "out" /\ where'[m] # "out" =>
              ~Holds(proc'[p]) /\ Holds(proc[p]) /\ proc[p].msg = {m}
    PROVE  MsgInv'
<1>1. proc \in [Procs -> ProcState]
  BY DEF TypeInv
<1>2. \A q \in Procs \ {p} : (Holds(proc'[q]) <=> Holds(proc[q])) /\ proc'[q].msg = proc[q].msg
  <2>1. SUFFICES ASSUME NEW q \in Procs \ {p}
                 PROVE  (Holds(proc'[q]) <=> Holds(proc[q])) /\ proc'[q].msg = proc[q].msg
    OBVIOUS
  <2>2. proc'[q].pc = proc[q].pc /\ proc'[q].job = proc[q].job /\ proc'[q].msg = proc[q].msg
    BY <1>1, KeptOthers
  <2> QED
    BY <2>2 DEF Holds
<1>3. \A q \in Procs : Holds(proc'[q]) => Holds(proc[q]) /\ proc'[q].msg = proc[q].msg
  BY <1>2
<1>4. ASSUME NEW q \in Procs, Holds(proc'[q])
      PROVE  \E m \in Msgs : proc'[q].msg = {m} /\ where'[m] = "out"
  <2>1. PICK m \in Msgs : proc[q].msg = {m} /\ where[m] = "out"
    BY <1>3, <1>4 DEF MsgInv
  <2>2. where'[m] = "out"
    <3>1. SUFFICES ASSUME where'[m] # "out" PROVE FALSE
      OBVIOUS
    <3>2. ~Holds(proc'[p]) /\ Holds(proc[p]) /\ proc[p].msg = {m}
      BY <2>1, <3>1
    <3>3. q # p /\ Holds(proc[q])
      BY <1>3, <1>4, <3>2
    <3>4. proc[q].msg # proc[p].msg
      BY <3>2, <3>3 DEF MsgInv
    <3> QED
      BY <2>1, <3>2, <3>4
  <2> QED
    BY <1>3, <1>4, <2>1, <2>2
<1>5. \A q, s \in Procs : Holds(proc'[q]) /\ Holds(proc'[s]) /\ q # s => proc'[q].msg # proc'[s].msg
  BY <1>3 DEF MsgInv
<1> QED
  BY <1>4, <1>5 DEF MsgInv

LEMMA AloneStep ==
    ASSUME TypeInv, AloneInv, NEW p \in Procs, OthersKept(p),
           proc[p].pc # "idle" \/ \A q \in Procs \ {p} : proc'[q].alone = FALSE,
           proc'[p].alone => (/\ Undisturbed(p)
                              /\ Counting(p)
                              /\ proc[p].seen = Cardinality(Counted(proc[p].next)))'
    PROVE  AloneInv'
<1>1. \A q \in Procs \ {p} : ~proc'[q].alone
  <2>1. SUFFICES ASSUME NEW q \in Procs \ {p}, proc'[q].alone PROVE FALSE
    OBVIOUS
  <2>2. proc'[q].alone = FALSE \/ proc'[q] = proc[q]
    BY KeptOthers DEF TypeInv
  <2>3. proc[q].alone /\ proc[p].pc # "idle"
    BY <2>1, <2>2
  <2> QED
    BY <2>3 DEF AloneInv, Undisturbed
<1>2. \A q \in Procs : proc'[q].alone => q = p
  BY <1>1
<1> QED
  BY <1>2 DEF AloneInv

LEMMA FdStep ==
    ASSUME TypeInv, FdInv, NEW p \in Procs, OthersKept(p), Good' => Good,
           Good' /\ Appends(proc'[p]) => proc'[p].fd = "file"
    PROVE  FdInv'
<1>1. ASSUME Good', NEW q \in Procs, Appends(proc'[q])
      PROVE  proc'[q].fd = "file"
  <2>1. CASE q = p
    BY <1>1, <2>1
  <2>2. CASE q # p
    <3>1. /\ proc'[q].pc = proc[q].pc /\ proc'[q].job = proc[q].job
          /\ proc'[q].fd = proc[q].fd
      BY <2>2, KeptOthers DEF TypeInv
    <3>2. Appends(proc[q])
      BY <1>1, <3>1 DEF Appends
    <3> QED
      BY <1>1, <3>1, <3>2 DEF FdInv
  <2> QED
    BY <2>1, <2>2
<1> QED
  BY <1>1 DEF FdInv

-----------------------------------------------------------------------------
(* The account.                                                            *)

\* What the record r stands for in it.
Lists(r) == r.job = "file" /\ r.pc = "append"
Books(r) == r.job = "pipe" /\ r.pc = "move"

Taken(r) ==
    CASE r.job = "purge" /\ r.pc = "unlink" -> r.count - 1
      [] r.job = "purge" /\ r.pc # "unlink" -> r.count
      [] OTHER -> 0

Takes == [q \in Procs |-> Removed(q)]

\* The messages that the processes have removed, when f[q] says how many of
\* them q has.
Pairs(f) == UNION {{q} \X (1..f[q]) : q \in Procs}

LEMMA PairsIn ==
    ASSUME NEW f, NEW x
    PROVE  x \in Pairs(f) <=> \E q \in Procs : \E k \in 1..f[q] : x = <<q, k>>
BY DEF Pairs

LEMMA PairsFinite ==
    ASSUME NEW f \in [Procs -> Nat]
    PROVE  IsFiniteSet(Pairs(f)) /\ Cardinality(Pairs(f)) \in Nat
<1> DEFINE P(q) == {q} \X (1..f[q])
           S == {P(q) : q \in Procs}
           g == [q \in Procs |-> P(q)]
<1>1. IsFiniteSet(Procs)
  BY QuotaAssumption DEF Procs
<1>2. \A q \in Procs : IsFiniteSet(P(q))
  <2>1. SUFFICES ASSUME NEW q \in Procs PROVE IsFiniteSet(P(q))
    OBVIOUS
  <2>2. f[q] \in Int /\ 1 \in Int
    OBVIOUS
  <2>3. IsFiniteSet({q}) /\ IsFiniteSet(1..f[q])
    BY <2>2, FS_Singleton, FS_Interval
  <2> QED
    BY <2>3, FS_Product
<1> HIDE DEF P
<1>3. g \in Surjection(Procs, S)
  BY DEF Surjection
<1>4. IsFiniteSet(S) /\ \A T \in S : IsFiniteSet(T)
  BY <1>1, <1>2, <1>3, FS_Surjection
<1>5. IsFiniteSet(UNION S)
  BY <1>4, FS_UNION
<1> QED
  BY <1>5, FS_CardinalityType DEF Pairs, P

LEMMA PairsMoreIn ==
    ASSUME NEW f, NEW g, NEW p \in Procs, NEW n, 1..g[p] = (1..f[p]) \cup {n},
           \A q \in Procs \ {p} : g[q] = f[q]
    PROVE  Pairs(g) = Pairs(f) \cup {<<p, n>>}
<1>1. ASSUME NEW y PROVE y \in Pairs(g) <=> y \in Pairs(f) \/ y = <<p, n>>
  <2>1. y \in Pairs(g) <=> \E q \in Procs : \E k \in 1..g[q] : y = <<q, k>>
    BY DEF Pairs
  <2>2. y \in Pairs(f) <=> \E q \in Procs : \E k \in 1..f[q] : y = <<q, k>>
    BY DEF Pairs
  <2> QED
    BY <2>1, <2>2
<1> QED
  BY <1>1

\* One of them more, ...
LEMMA PairsMore ==
    ASSUME NEW f \in [Procs -> Nat], NEW g \in [Procs -> Nat], NEW p \in Procs,
           g = [f EXCEPT ![p] = f[p] + 1]
    PROVE  Cardinality(Pairs(g)) = Cardinality(Pairs(f)) + 1
<1>0. PICK n \in Nat : n = f[p] + 1
  OBVIOUS
<1> DEFINE new == <<p, n>>
<1>1. 1..g[p] = (1..f[p]) \cup {n} /\ \A q \in Procs \ {p} : g[q] = f[q]
  BY <1>0
<1>2. new \notin Pairs(f)
  BY <1>0, PairsIn
<1>3. Pairs(g) = Pairs(f) \cup {new}
  BY ONLY p \in Procs, <1>1, PairsMoreIn
<1>4. IsFiniteSet(Pairs(f)) /\ Cardinality(Pairs(f)) \in Nat
  BY PairsFinite
<1> HIDE DEF new
<1> QED
  BY <1>2, <1>3, <1>4, FS_AddElement

\* ... and all of p's less.
LEMMA PairsNone ==
    ASSUME NEW f \in [Procs -> Nat], NEW g \in [Procs -> Nat], NEW p \in Procs,
           g = [f EXCEPT ![p] = 0]
    PROVE  Cardinality(Pairs(f)) = Cardinality(Pairs(g)) + f[p]
<1> DEFINE P == {p} \X (1..f[p])
<1>1. 1..g[p] = {} /\ \A q \in Procs \ {p} : g[q] = f[q]
  OBVIOUS
<1>2. ASSUME NEW y \in P PROVE y \notin Pairs(g)
  <2>1. y \in Pairs(g) => \E q \in Procs : \E k \in 1..g[q] : y = <<q, k>>
    BY PairsIn, Zenon
  <2>2. \E k : y = <<p, k>>
    BY <1>2
  <2> QED
    BY <1>1, <2>1, <2>2
<1>3. \A y : y \in Pairs(f) <=> y \in Pairs(g) \cup P
  <2>1. SUFFICES ASSUME NEW y PROVE y \in Pairs(f) <=> y \in Pairs(g) \/ y \in P
    OBVIOUS
  <2>2. /\ y \in Pairs(g) <=> \E q \in Procs : \E k \in 1..g[q] : y = <<q, k>>
        /\ y \in Pairs(f) <=> \E q \in Procs : \E k \in 1..f[q] : y = <<q, k>>
    BY PairsIn, Zenon
  <2>3. y \in P <=> \E k \in 1..f[p] : y = <<p, k>>
    OBVIOUS
  <2> QED
    BY <1>1, <2>2, <2>3
<1>4. IsFiniteSet(P) /\ Cardinality(P) = f[p]
  <2>1. /\ IsFiniteSet({p}) /\ Cardinality({p}) = 1
        /\ IsFiniteSet(1..f[p]) /\ Cardinality(1..f[p]) = f[p]
    <3>1. PICK n \in Nat : n = f[p]
      OBVIOUS
    <3>2. 1 \in Int /\ n \in Int
      OBVIOUS
    <3>3. IsFiniteSet(1..n) /\ Cardinality(1..n) = (IF 1 > n THEN 0 ELSE n - 1 + 1)
      BY ONLY <3>2, FS_Interval
    <3>4. Cardinality(1..n) = n
      BY <3>3
    <3> QED
      BY <3>1, <3>3, <3>4, FS_Singleton
  <2>2. IsFiniteSet(P) /\ Cardinality(P) = 1 * f[p]
    BY ONLY <2>1, FS_Product
  <2> QED
    BY <2>2
<1> HIDE DEF P
<1>5. Pairs(g) \cap P = {} /\ Pairs(f) = Pairs(g) \cup P
  BY <1>2, <1>3
<1>6. IsFiniteSet(Pairs(g)) /\ Cardinality(Pairs(g)) \in Nat
  BY PairsFinite
<1>7. Cardinality(Pairs(g) \cup P) = Cardinality(Pairs(g)) + Cardinality(P) - Cardinality({})
  BY <1>4, <1>6, <1>5, FS_Union
<1> QED
  BY <1>4, <1>6, <1>7, <1>5, FS_EmptySet

LEMMA AccountParts ==
    TypeInv => /\ Takes \in [Procs -> Nat] /\ \A q \in Procs : Takes[q] = Taken(proc[q])
               /\ Purged = Pairs(Takes)
               /\ IsFiniteSet(Inside) /\ Cardinality(Inside) \in Nat
               /\ IsFiniteSet(Unlisted) /\ Cardinality(Unlisted) \in Nat
               /\ IsFiniteSet(Booked) /\ Cardinality(Booked) \in Nat
               /\ Cardinality(Purged) \in Nat
<1> SUFFICES ASSUME TypeInv
             PROVE  /\ Takes \in [Procs -> Nat] /\ \A q \in Procs : Takes[q] = Taken(proc[q])
                    /\ Purged = Pairs(Takes)
                    /\ IsFiniteSet(Inside) /\ Cardinality(Inside) \in Nat
                    /\ IsFiniteSet(Unlisted) /\ Cardinality(Unlisted) \in Nat
                    /\ IsFiniteSet(Booked) /\ Cardinality(Booked) \in Nat
                    /\ Cardinality(Purged) \in Nat
  OBVIOUS
<1>1. ASSUME NEW q \in Procs PROVE Taken(proc[q]) \in Nat
  <2>1. proc[q].count \in Nat /\ (proc[q].pc = "unlink" => proc[q].count > 0)
    BY DEF TypeInv, ProcState, StageOK
  <2> QED
    BY <2>1 DEF Taken
<1>2. \A q \in Procs : Takes[q] = Taken(proc[q])
  BY DEF Takes, Removed, Taken
<1>3. Takes \in [Procs -> Nat]
  BY <1>1, <1>2 DEF Takes
<1>4. Purged = Pairs(Takes)
  BY DEF Purged, Pairs, Takes
<1>5. IsFiniteSet(Procs) /\ IsFiniteSet(Msgs)
  BY QuotaAssumption DEF Procs
<1>6. Unlisted \in SUBSET Procs /\ Booked \in SUBSET Procs /\ Inside \in SUBSET Msgs
  BY DEF Unlisted, Booked, Inside
<1>7. IsFiniteSet(Unlisted) /\ IsFiniteSet(Booked) /\ IsFiniteSet(Inside)
  BY <1>5, <1>6, FS_Subset
<1> QED
  BY <1>2, <1>3, <1>4, <1>7, FS_CardinalityType, PairsFinite

LEMMA AccountPartsNext ==
    TypeInv' => /\ Takes' \in [Procs -> Nat] /\ \A q \in Procs : Takes'[q] = Taken(proc'[q])
                /\ Purged' = Pairs(Takes')
                /\ IsFiniteSet(Inside') /\ Cardinality(Inside') \in Nat
                /\ IsFiniteSet(Unlisted') /\ Cardinality(Unlisted') \in Nat
                /\ IsFiniteSet(Booked') /\ Cardinality(Booked') \in Nat
                /\ Cardinality(Purged') \in Nat
<1>1. (TypeInv => /\ Takes \in [Procs -> Nat] /\ \A q \in Procs : Takes[q] = Taken(proc[q])
                  /\ Purged = Pairs(Takes)
                  /\ IsFiniteSet(Inside) /\ Cardinality(Inside) \in Nat
                  /\ IsFiniteSet(Unlisted) /\ Cardinality(Unlisted) \in Nat
                  /\ IsFiniteSet(Booked) /\ Cardinality(Booked) \in Nat
                  /\ Cardinality(Purged) \in Nat)'
  BY AccountParts, PTL
<1> QED
  BY <1>1

\* A set that changes in one element at most.
LEMMA MemberStep ==
    ASSUME NEW S, NEW T, NEW p, IsFiniteSet(S), T \ {p} = S \ {p}
    PROVE  /\ p \in S /\ p \notin T => Cardinality(S) = Cardinality(T) + 1
           /\ p \notin S /\ p \in T => Cardinality(T) = Cardinality(S) + 1
           /\ (p \in S <=> p \in T) => T = S
<1>1. CASE p \in S /\ p \notin T
  <2>1. T = S \ {p}
    BY <1>1
  <2>2. Cardinality(S) \in Nat /\ Cardinality(T) = Cardinality(S) - 1
    BY <1>1, <2>1, FS_RemoveElement, FS_CardinalityType
  <2> QED
    BY <1>1, <2>2
<1>2. CASE p \notin S /\ p \in T
  <2>1. T = S \cup {p}
    BY <1>2
  <2> QED
    BY <1>2, <2>1, FS_AddElement
<1>3. CASE p \in S <=> p \in T
  <2>1. T = S
    BY <1>3
  <2> QED
    BY <1>3, <2>1
<1> QED
  BY <1>1, <1>2, <1>3

\* What a step of p changes in the account is p's own part.
LEMMA AccountStep ==
    ASSUME TypeInv, TypeInv', NEW p \in Procs, OthersKept(p)
    PROVE  /\ (Lists(proc[p]) <=> Lists(proc'[p])) => Unlisted' = Unlisted
           /\ Lists(proc[p]) /\ ~Lists(proc'[p]) =>
                Cardinality(Unlisted) = Cardinality(Unlisted') + 1
           /\ ~Lists(proc[p]) /\ Lists(proc'[p]) =>
                Cardinality(Unlisted') = Cardinality(Unlisted) + 1
           /\ (Books(proc[p]) <=> Books(proc'[p])) => Booked' = Booked
           /\ Books(proc[p]) /\ ~Books(proc'[p]) =>
                Cardinality(Booked) = Cardinality(Booked') + 1
           /\ ~Books(proc[p]) /\ Books(proc'[p]) =>
                Cardinality(Booked') = Cardinality(Booked) + 1
           /\ Taken(proc'[p]) = Taken(proc[p]) => Purged' = Purged
           /\ Taken(proc'[p]) = Taken(proc[p]) + 1 =>
                Cardinality(Purged') = Cardinality(Purged) + 1
           /\ Taken(proc'[p]) = 0 =>
                Cardinality(Purged) = Cardinality(Purged') + Taken(proc[p])
<1>1. ASSUME NEW q \in Procs \ {p}
      PROVE  /\ proc'[q].pc = proc[q].pc /\ proc'[q].job = proc[q].job
             /\ proc'[q].count = proc[q].count
  BY KeptOthers DEF TypeInv
<1>2. \A q \in Procs \ {p} : /\ q \in Unlisted' <=> q \in Unlisted
                             /\ q \in Booked' <=> q \in Booked
                             /\ Taken(proc'[q]) = Taken(proc[q])
  BY <1>1 DEF Unlisted, Booked, Taken
<1>3. /\ p \in Unlisted <=> Lists(proc[p])
      /\ p \in Unlisted' <=> Lists(proc'[p])
      /\ p \in Booked <=> Books(proc[p])
      /\ p \in Booked' <=> Books(proc'[p])
      /\ Unlisted \in SUBSET Procs /\ Unlisted' \in SUBSET Procs
      /\ Booked \in SUBSET Procs /\ Booked' \in SUBSET Procs
  BY DEF Unlisted, Booked, Lists, Books
<1>4. Unlisted' \ {p} = Unlisted \ {p} /\ Booked' \ {p} = Booked \ {p}
  BY <1>2, <1>3
<1>5. IsFiniteSet(Unlisted) /\ IsFiniteSet(Booked)
  BY AccountParts
<1>6. PICK f \in [Procs -> Nat], g \in [Procs -> Nat] : f = Takes /\ g = Takes'
  BY AccountParts, AccountPartsNext
<1>7. \A q \in Procs : f[q] = Taken(proc[q]) /\ g[q] = Taken(proc'[q])
  BY <1>6, AccountParts, AccountPartsNext
<1>8. Purged = Pairs(f) /\ Purged' = Pairs(g)
  BY <1>6, AccountParts, AccountPartsNext
<1>9. g = [f EXCEPT ![p] = g[p]]
  BY <1>2, <1>7
<1>10. g[p] = f[p] => Pairs(g) = Pairs(f)
  <2>1. g[p] = f[p] => g = f
    BY <1>9
  <2> QED
    BY <2>1
<1>11. g[p] = f[p] + 1 => Cardinality(Pairs(g)) = Cardinality(Pairs(f)) + 1
  BY <1>9, PairsMore
<1>12. g[p] = 0 => Cardinality(Pairs(f)) = Cardinality(Pairs(g)) + f[p]
  BY <1>9, PairsNone
<1>13. /\ p \in Unlisted /\ p \notin Unlisted' => Cardinality(Unlisted) = Cardinality(Unlisted') + 1
       /\ p \notin Unlisted /\ p \in Unlisted' => Cardinality(Unlisted') = Cardinality(Unlisted) + 1
       /\ (p \in Unlisted <=> p \in Unlisted') => Unlisted' = Unlisted
  BY <1>4, <1>5, MemberStep
<1>14. /\ p \in Booked /\ p \notin Booked' => Cardinality(Booked) = Cardinality(Booked') + 1
       /\ p \notin Booked /\ p \in Booked' => Cardinality(Booked') = Cardinality(Booked) + 1
       /\ (p \in Booked <=> p \in Booked') => Booked' = Booked
  BY <1>4, <1>5, MemberStep
<1>15. /\ Taken(proc'[p]) = Taken(proc[p]) => Purged' = Purged
       /\ Taken(proc'[p]) = Taken(proc[p]) + 1 => Cardinality(Purged') = Cardinality(Purged) + 1
       /\ Taken(proc'[p]) = 0 => Cardinality(Purged) = Cardinality(Purged') + Taken(proc[p])
  BY <1>7, <1>8, <1>10, <1>11, <1>12
<1> QED
  BY <1>3, <1>13, <1>14, <1>15

-----------------------------------------------------------------------------
(* Steps that change neither a message nor maildirsize.                    *)

LEMMA TotalSame ==
    ASSUME TypeInv, TypeInv', TotalRight, NEW p \in Procs, OthersKept(p), Good' => Good,
           Inside' = Inside, size' = size,
           Good' => /\ Lists(proc[p]) <=> Lists(proc'[p])
                    /\ Books(proc[p]) <=> Books(proc'[p])
                    /\ Taken(proc'[p]) = Taken(proc[p])
    PROVE  TotalRight'
<1>1. SUFFICES ASSUME Good' PROVE Total'
  BY DEF TotalRight, Good
<1>2. Unlisted' = Unlisted /\ Booked' = Booked /\ Purged' = Purged
  BY <1>1, AccountStep
<1>3. Total
  BY <1>1 DEF TotalRight, Good
<1> QED
  BY <1>2, <1>3 DEF Total

LEMMA QuietStep ==
    ASSUME IInv, NEW p \in Procs, OthersKept(p), proc' \in [Procs -> ProcState],
           where' = where, size' = size, stamp' = stamp, clock' = clock,
           events' \in 0..MaxEvents, drift' = drift \/ drift' = "yes",
           StageOK(p, proc'[p]), proc'[p].fd = "file" => size # NoFile,
           (Holds(proc'[p]) => Holds(proc[p]) /\ proc'[p].msg = proc[p].msg) \/ MsgInv',
           proc[p].pc # "idle" \/ \A q \in Procs \ {p} : proc'[q].alone = FALSE,
           proc'[p].alone => (/\ Undisturbed(p)
                              /\ Counting(p)
                              /\ proc[p].seen = Cardinality(Counted(proc[p].next)))',
           Good' /\ Appends(proc'[p]) => proc'[p].fd = "file",
           Good' => /\ Lists(proc[p]) <=> Lists(proc'[p])
                    /\ Books(proc[p]) <=> Books(proc'[p])
                    /\ Taken(proc'[p]) = Taken(proc[p])
    PROVE  IInv'
<1>1. TypeInv /\ MsgInv /\ AloneInv /\ FdInv /\ TotalRight
  BY DEF IInv
<1>2. Good' => Good
  BY DEF Good
<1>3. WorldOK'
  BY <1>1, TypeParts DEF WorldOK
<1>4. TypeInv'
  BY <1>1, <1>3, TypeStep
<1>5. MsgInv'
  BY <1>1, MsgStep
<1>6. AloneInv'
  BY <1>1, AloneStep
<1>7. FdInv'
  BY <1>1, <1>2, FdStep
<1>8. TotalRight'
  <2>1. Inside' = Inside
    BY DEF Inside
  <2> QED
    BY <1>1, <1>2, <1>4, <2>1, TotalSame
<1> QED
  BY <1>4, <1>5, <1>6, <1>7, <1>8 DEF IInv

\* A process that begins to count.
LEMMA AloneStart ==
    ASSUME TypeInv, NEW p \in Procs, OthersKept(p), Undisturbed(p),
           proc'[p].pc = "stat", proc'[p].next = 1, proc'[p].seen = 0
    PROVE  (/\ Undisturbed(p)
            /\ Counting(p)
            /\ proc[p].seen = Cardinality(Counted(proc[p].next)))'
<1>1. \A q \in Procs \ {p} : proc'[q].pc = proc[q].pc
  BY KeptOthers DEF TypeInv
<1>2. Undisturbed(p)'
  BY <1>1 DEF Undisturbed
<1>3. Counted(proc[p].next)' = {}
  BY DEF Counted
<1> QED
  BY <1>2, <1>3, FS_EmptySet DEF Counting

\* docheckquota has its answer.
LEMMA ProceedStep ==
    ASSUME IInv, NEW p \in Procs, proc[p].pc \in {"open", "rename", "restat"},
           NEW r \in ProcState, NEW answer \in {"ok", "over", "count"},
           Proceed(p, r, answer),
           r.job = proc[p].job, r.msg = proc[p].msg, r.count = proc[p].count,
           r.job = "purge" => r.set = "yet",
           answer = "count" => r.quota # 0,
           r.fd = "file" => size # NoFile,
           Good' /\ (r.job = "purge" \/ (answer = "ok" /\ r.set # "runs")) => r.fd = "file",
           where' = where, size' = size, stamp' = stamp, clock' = clock,
           events' \in 0..MaxEvents, drift' = drift \/ drift' = "yes"
    PROVE  IInv'
<1>1. proc \in [Procs -> ProcState] /\ StageOK(p, proc[p]) /\ TypeInv
  BY DEF IInv, TypeInv
<1>2. PICK c : c = Answered(p, r, answer)
  OBVIOUS
<1>3. /\ p \in Procs /\ r \in ProcState /\ answer \in {"ok", "over", "count"}
      /\ r.job = "purge" => r.set = "yet"
      /\ answer = "count" => r.quota # 0
  OBVIOUS
<1>4. /\ r.job \in {"file", "pipe"} => p \in Deliverers
      /\ r.job = "purge" => r.set = "yet" /\ p \in Purgers
  BY <1>1 DEF StageOK
<1>5. /\ c \in ProcState /\ StageOK(p, c)
      /\ c.alone => answer = "count" /\ Undisturbed(p)
      /\ c.pc \in {"idle", "open", "stat", "move", "append"}
      /\ c.pc # "idle" => c.job = r.job /\ c.msg = r.msg /\ c.count = r.count
      /\ r.job = "purge" => c.pc # "idle"
      /\ c.pc = "stat" <=> answer = "count"
      /\ c.pc = "stat" => c.next = 1 /\ c.seen = 0
      /\ c.fd \in {"none", r.fd}
      /\ c.pc \in {"stat", "move", "append"} => c.fd = r.fd
      /\ c.pc = "move" => answer = "ok" /\ r.job = "file" /\ r.set # "runs"
      /\ c.pc = "append" => /\ r.set # "runs"
                            /\ r.job = "purge" \/ (r.job = "pipe" /\ answer = "ok")
  BY ONLY <1>2, <1>3, <1>4, ContinueShape
<1>6. proc' = [proc EXCEPT ![p] = c]
  BY <1>2 DEF Proceed, Answered
<1>7. proc' \in [Procs -> ProcState] /\ proc'[p] = c /\ OthersKept(p)
  BY <1>1, <1>5, <1>6, OwnShape
<1>8. c.pc = "idle" => c.job = "none"
  BY <1>5, IdleShape DEF StageOK
<1>9. Holds(c) => Holds(proc[p]) /\ c.msg = proc[p].msg
  BY <1>5, <1>8 DEF Holds
<1>10. c.alone => (/\ Undisturbed(p)
                   /\ Counting(p)
                   /\ proc[p].seen = Cardinality(Counted(proc[p].next)))'
  <2>1. SUFFICES ASSUME c.alone
                 PROVE  (/\ Undisturbed(p)
                         /\ Counting(p)
                         /\ proc[p].seen = Cardinality(Counted(proc[p].next)))'
    OBVIOUS
  <2>2. answer = "count" /\ Undisturbed(p)
    BY <1>5, <2>1
  <2> QED
    BY <1>1, <1>5, <1>7, <2>2, AloneStart
<1>11. Good' /\ Appends(c) => c.fd = "file"
  BY <1>5 DEF Appends
<1>12. /\ Lists(proc[p]) <=> Lists(c)
       /\ Books(proc[p]) <=> Books(c)
       /\ Taken(c) = Taken(proc[p])
  BY <1>5, <1>8 DEF Lists, Books, Taken
<1>13. proc[p].pc # "idle" /\ (c.fd = "file" => size # NoFile)
  BY <1>5
<1> QED
  BY <1>5, <1>7, <1>9, <1>10, <1>11, <1>12, <1>13, QuietStep

-----------------------------------------------------------------------------
(* The processes, one action at a time.                                    *)

\* What every action may use of the process that takes it.
LEMMA ProcessOK ==
    ASSUME TypeInv, NEW p \in Procs
    PROVE  /\ proc \in [Procs -> ProcState]
           /\ proc[p] \in ProcState /\ StageOK(p, proc[p])
           /\ proc[p].pc = "idle" => proc[p] = Idle
           /\ proc[p].fd = "file" => size # NoFile
           /\ size # NoFile => size.quota # 0
           /\ events \in Nat /\ MaxEvents \in Nat
BY TypeParts, QuotaAssumption DEF WorldOK, StageOK

LEMMA DeliverIInv ==
    ASSUME IInv, NEW p \in Deliverers, NEW m \in Msgs, NEW job \in {"file", "pipe"},
           Deliver(p, m, job)
    PROVE  IInv'
<1>1. TypeInv /\ MsgInv /\ p \in Procs
  BY DEF IInv, Procs
<1>2. proc \in [Procs -> ProcState] /\ proc[p] = Idle /\ where[m] = "out"
  BY <1>1, ProcessOK DEF Deliver
<1>3. PICK x : x = [Idle EXCEPT !.pc = "open", !.job = job, !.msg = {m}]
  OBVIOUS
<1>4. x = Rest("open", job, {m}, 0, "none", 0, 0, "yet", FALSE)
  BY <1>3 DEF Idle, Rest
<1>5. 0 \in Sizes /\ 0 \in 0..(MaxTries - 1)
  BY QuotaAssumption DEF Sizes
<1>6. x \in ProcState
  BY ONLY <1>4, <1>5, m \in Msgs, job \in {"file", "pipe"} DEF Rest, ProcState
<1>7. /\ x.pc = "open" /\ x.job = job /\ x.msg = {m} /\ x.fd = "none"
      /\ x.set = "yet" /\ x.alone = FALSE
  BY ONLY <1>4 DEF Rest
<1>8. StageOK(p, x)
  BY <1>7 DEF StageOK
<1>9. proc' = Disturb([proc EXCEPT ![p] = x], p)
  BY <1>3 DEF Deliver
<1>10. /\ proc' \in [Procs -> ProcState] /\ proc'[p] = x /\ OthersKept(p)
       /\ \A q \in Procs \ {p} : proc'[q].alone = FALSE
  BY <1>1, <1>2, <1>6, <1>9, DisturbShape
<1>11. MsgInv'
  <2>1. where' = where /\ \A q \in Deliverers : proc[q].msg # {m}
    BY DEF Deliver
  <2>2. \A q \in Procs \ {p} : /\ Holds(proc'[q]) <=> Holds(proc[q])
                               /\ proc'[q].msg = proc[q].msg
    <3>1. SUFFICES ASSUME NEW q \in Procs \ {p}
                   PROVE  /\ Holds(proc'[q]) <=> Holds(proc[q])
                          /\ proc'[q].msg = proc[q].msg
      OBVIOUS
    <3>2. proc'[q].pc = proc[q].pc /\ proc'[q].job = proc[q].job /\ proc'[q].msg = proc[q].msg
      BY <1>1, <1>2, <1>10, KeptOthers
    <3> QED
      BY <3>2 DEF Holds
  <2>3. \A q \in Procs : Holds(proc[q]) => proc[q].msg # {m}
    BY <1>1, <2>1 DEF TypeInv, StageOK, Holds
  <2>4. ASSUME NEW q \in Procs, Holds(proc'[q])
        PROVE  \E n \in Msgs : proc'[q].msg = {n} /\ where'[n] = "out"
    <3>1. CASE q = p
      BY <1>2, <1>7, <1>10, <2>1, <3>1
    <3>2. CASE q # p
      BY <1>1, <2>1, <2>2, <2>4, <3>2 DEF MsgInv
    <3> QED
      BY <3>1, <3>2
  <2>5. ASSUME NEW q \in Procs, NEW s \in Procs, Holds(proc'[q]), Holds(proc'[s]), q # s
        PROVE  proc'[q].msg # proc'[s].msg
    <3>1. CASE q = p
      BY <1>7, <1>10, <2>2, <2>3, <2>5, <3>1
    <3>2. CASE s = p
      BY <1>7, <1>10, <2>2, <2>3, <2>5, <3>2
    <3>3. CASE q # p /\ s # p
      BY <1>1, <2>2, <2>5, <3>3 DEF MsgInv
    <3> QED
      BY <3>1, <3>2, <3>3
  <2> QED
    BY <2>4, <2>5 DEF MsgInv
<1>12. Good' /\ Appends(x) => x.fd = "file"
  BY <1>7 DEF Appends
<1>13. /\ Lists(proc[p]) <=> Lists(x)
       /\ Books(proc[p]) <=> Books(x)
       /\ Taken(x) = Taken(proc[p])
  BY <1>2, <1>7, IdleShape DEF Lists, Books, Taken
<1>14. /\ where' = where /\ size' = size /\ stamp' = stamp /\ clock' = clock
       /\ events' \in 0..MaxEvents /\ drift' = drift
  BY <1>1, TypeParts DEF Deliver, WorldOK
<1> QED
  BY <1>1, <1>7, <1>8, <1>10, <1>11, <1>12, <1>13, <1>14, QuietStep

LEMMA RecalculateIInv ==
    ASSUME IInv, NEW p \in Procs, Recalculate(p)
    PROVE  IInv'
<1>1. TypeInv /\ MsgInv
  BY DEF IInv
<1>2. proc \in [Procs -> ProcState] /\ proc[p] = Idle
  BY <1>1, ProcessOK DEF Recalculate
<1>3. PICK x : x = [Idle EXCEPT !.pc = "open", !.job = "recalculate"]
  OBVIOUS
<1>4. x = Rest("open", "recalculate", {}, 0, "none", 0, 0, "yet", FALSE)
  BY <1>3 DEF Idle, Rest
<1>5. 0 \in Sizes /\ 0 \in 0..(MaxTries - 1)
  BY QuotaAssumption DEF Sizes
<1>6. x \in ProcState
  BY ONLY <1>4, <1>5 DEF Rest, ProcState
<1>7. x.pc = "open" /\ x.job = "recalculate" /\ x.fd = "none" /\ x.set = "yet" /\ x.alone = FALSE
  BY ONLY <1>4 DEF Rest
<1>8. StageOK(p, x) /\ ~Holds(x)
  BY <1>7 DEF StageOK, Holds
<1>9. proc' = Disturb([proc EXCEPT ![p] = x], p)
  BY <1>3 DEF Recalculate
<1>10. /\ proc' \in [Procs -> ProcState] /\ proc'[p] = x /\ OthersKept(p)
       /\ \A q \in Procs \ {p} : proc'[q].alone = FALSE
  BY <1>2, <1>6, <1>9, DisturbShape
<1>11. Good' /\ Appends(x) => x.fd = "file"
  BY <1>7 DEF Appends
<1>12. /\ Lists(proc[p]) <=> Lists(x)
       /\ Books(proc[p]) <=> Books(x)
       /\ Taken(x) = Taken(proc[p])
  BY <1>2, <1>7, IdleShape DEF Lists, Books, Taken
<1>13. /\ where' = where /\ size' = size /\ stamp' = stamp /\ clock' = clock
       /\ events' \in 0..MaxEvents /\ drift' = drift
  BY <1>1, ProcessOK DEF Recalculate, Event
<1> QED
  BY <1>7, <1>8, <1>10, <1>11, <1>12, <1>13, QuietStep

LEMMA QuotaSetIInv ==
    ASSUME IInv, NEW p \in Procs, NEW quota \in Quotas, QuotaSet(p, quota)
    PROVE  IInv'
<1>1. TypeInv /\ MsgInv
  BY DEF IInv
<1>2. proc \in [Procs -> ProcState] /\ proc[p] = Idle
  BY <1>1, ProcessOK DEF QuotaSet
<1>3. PICK r : r = Setting([Idle EXCEPT !.job = "set"], quota)
  OBVIOUS
<1>4. quota \in Sizes /\ quota # 0 /\ 0 \in 0..(MaxTries - 1)
  BY QuotaAssumption DEF Sizes
<1>5. r = [pc |-> "idle", job |-> "set", msg |-> {}, dir |-> "cur", count |-> 0, fd |-> "old",
           quota |-> quota, sum |-> 0, lines |-> 0, mtime |-> 0, recalc |-> TRUE,
           tries |-> 0, seen |-> 0, maxtime |-> 0, next |-> 1, set |-> "runs", alone |-> FALSE]
  BY <1>3 DEF Setting, Idle
<1>6. r \in ProcState
  BY ONLY <1>4, <1>5 DEF ProcState
<1>7. r.job = "set" /\ r.quota = quota /\ r.fd = "old"
  BY ONLY <1>5
<1>8. PICK c : c = Answered(p, r, "count")
  OBVIOUS
<1>9. /\ c \in ProcState /\ StageOK(p, c)
      /\ c.alone => Undisturbed(p)
      /\ c.pc = "stat" /\ c.job = "set" /\ c.next = 1 /\ c.seen = 0 /\ c.fd = "old"
  BY <1>4, <1>6, <1>7, <1>8, ContinueShape
<1>10. proc' = Disturb([proc EXCEPT ![p] = c], p)
  <2>1. c = [Continue(r, "count") EXCEPT !.alone = Undisturbed(p)]
    <3>1. ("count" = "count" /\ Undisturbed(p)) = Undisturbed(p)
      BY DEF Undisturbed
    <3> QED
      BY <1>8, <3>1 DEF Answered
  <2> QED
    BY <1>3, <2>1 DEF QuotaSet
<1>11. /\ proc' \in [Procs -> ProcState] /\ proc'[p] = c /\ OthersKept(p)
       /\ \A q \in Procs \ {p} : proc'[q].alone = FALSE
  BY <1>2, <1>9, <1>10, DisturbShape
<1>12. ~Holds(c) /\ (Good' /\ Appends(c) => c.fd = "file")
  BY <1>9 DEF Appends, Holds
<1>13. c.alone => (/\ Undisturbed(p)
                   /\ Counting(p)
                   /\ proc[p].seen = Cardinality(Counted(proc[p].next)))'
  BY <1>1, <1>9, <1>11, AloneStart
<1>14. /\ Lists(proc[p]) <=> Lists(c)
       /\ Books(proc[p]) <=> Books(c)
       /\ Taken(c) = Taken(proc[p])
  BY <1>2, <1>9, IdleShape DEF Lists, Books, Taken
<1>15. /\ where' = where /\ size' = size /\ stamp' = stamp /\ clock' = clock
       /\ events' \in 0..MaxEvents /\ drift' = drift
  BY <1>1, ProcessOK DEF QuotaSet, Event
<1> QED
  BY <1>9, <1>11, <1>12, <1>13, <1>14, <1>15, QuietStep

LEMMA PurgeStatIInv ==
    ASSUME IInv, NEW p \in Procs, p \in Purgers, NEW m \in Msgs, PurgeStat(p, m)
    PROVE  IInv'
<1>1. TypeInv /\ MsgInv /\ AloneInv
  BY DEF IInv
<1>2. PICK r \in ProcState : r = proc[p]
  BY <1>1, ProcessOK
<1>3. /\ proc \in [Procs -> ProcState] /\ StageOK(p, r)
      /\ r.pc \in {"idle", "purge"} /\ (r.pc = "idle" => r = Idle)
      /\ r.fd = "file" => size # NoFile
  BY <1>1, <1>2, ProcessOK DEF PurgeStat
<1>4. ~r.alone
  BY <1>1, <1>2, <1>3 DEF AloneInv, Counting
<1>5. PICK x : x = [r EXCEPT !.pc = "unlink", !.job = "purge", !.msg = {m},
                             !.dir = where[m], !.count = r.count + 1]
  OBVIOUS
<1>6. where[m] \in {"new", "cur"} /\ {m} \in SUBSET Msgs /\ r.count \in Nat /\ r.count + 1 \in Nat
  <2>1. r.count \in Nat
    BY DEF ProcState
  <2> QED
    BY <2>1 DEF PurgeStat, Inside
<1>7. x \in ProcState
  BY ONLY <1>5, <1>6, r \in ProcState DEF ProcState
<1>8. /\ x.pc = "unlink" /\ x.job = "purge" /\ x.msg = {m} /\ x.count = r.count + 1
      /\ x.fd = r.fd /\ x.set = r.set /\ x.alone = r.alone
  BY ONLY <1>5, r \in ProcState DEF ProcState
<1>9. r.set = "yet"
  BY <1>3, IdleShape DEF StageOK
<1>10. StageOK(p, x) /\ ~Holds(x)
  BY <1>6, <1>8, <1>9 DEF StageOK, Holds
<1>11. proc' = Disturb([proc EXCEPT ![p] = x], p)
  <2>1. [proc EXCEPT ![p].pc = "unlink", ![p].job = "purge", ![p].msg = {m},
                     ![p].dir = where[m], ![p].count = @ + 1]
          = [proc EXCEPT ![p] = x]
    BY <1>2, <1>5
  <2> QED
    BY <2>1, Zenon DEF PurgeStat
<1>12. /\ proc' \in [Procs -> ProcState] /\ proc'[p] = x /\ OthersKept(p)
       /\ \A q \in Procs \ {p} : proc'[q].alone = FALSE
  BY <1>3, <1>7, <1>11, DisturbShape
<1>13. ~x.alone
  BY <1>4, <1>8
<1>14. Good' /\ Appends(x) => x.fd = "file"
  BY <1>8 DEF Appends
<1>15. /\ Lists(r) <=> Lists(x)
       /\ Books(r) <=> Books(x)
       /\ Taken(x) = Taken(r)
  <2>1. Taken(x) = r.count
    BY <1>6, <1>8 DEF Taken
  <2>2. CASE r.pc = "idle"
    BY <1>3, <1>8, <2>1, <2>2, IdleShape DEF Lists, Books, Taken
  <2>3. CASE r.pc = "purge"
    BY <1>3, <1>8, <2>1, <2>3 DEF Lists, Books, Taken, StageOK
  <2> QED
    BY <1>3, <2>2, <2>3
<1>16. /\ where' = where /\ size' = size /\ stamp' = stamp /\ clock' = clock
       /\ events' \in 0..MaxEvents /\ drift' = drift
  BY <1>1, TypeParts DEF PurgeStat, WorldOK
<1> QED
  BY <1>2, <1>3, <1>8, <1>10, <1>12, <1>13, <1>14, <1>15, <1>16, QuietStep

LEMMA PurgeEndIInv ==
    ASSUME IInv, NEW p \in Procs, PurgeEnd(p)
    PROVE  IInv'
<1>1. TypeInv /\ MsgInv /\ AloneInv
  BY DEF IInv
<1>2. PICK r \in ProcState : r = proc[p]
  BY <1>1, ProcessOK
<1>3. /\ proc \in [Procs -> ProcState] /\ StageOK(p, r) /\ r.pc = "purge"
      /\ r.fd = "file" => size # NoFile
  BY <1>1, <1>2, ProcessOK DEF PurgeEnd
<1>4. ~r.alone
  BY <1>1, <1>2, <1>3 DEF AloneInv, Counting
<1>5. PICK x : x = [r EXCEPT !.pc = "open"]
  OBVIOUS
<1>6. x \in ProcState
  BY ONLY <1>5, r \in ProcState DEF ProcState
<1>7. /\ x.pc = "open" /\ x.job = r.job /\ x.count = r.count
      /\ x.fd = r.fd /\ x.set = r.set /\ x.alone = r.alone
  BY ONLY <1>5, r \in ProcState DEF ProcState
<1>8. r.job = "purge" /\ r.set = "yet" /\ p \in Purgers
  BY <1>3 DEF StageOK
<1>9. StageOK(p, x) /\ ~Holds(x)
  BY <1>7, <1>8 DEF StageOK, Holds
<1>10. proc' = [proc EXCEPT ![p] = x]
  BY <1>2, <1>3, <1>5 DEF PurgeEnd
<1>11. proc' \in [Procs -> ProcState] /\ proc'[p] = x /\ OthersKept(p)
  BY <1>3, <1>6, <1>10, OwnShape
<1>12. ~x.alone /\ (Good' /\ Appends(x) => x.fd = "file")
  BY <1>4, <1>7 DEF Appends
<1>13. /\ Lists(r) <=> Lists(x)
       /\ Books(r) <=> Books(x)
       /\ Taken(x) = Taken(r)
  BY <1>3, <1>7, <1>8 DEF Lists, Books, Taken
<1>14. /\ where' = where /\ size' = size /\ stamp' = stamp /\ clock' = clock
       /\ events' \in 0..MaxEvents /\ drift' = drift
  BY <1>1, TypeParts DEF PurgeEnd, WorldOK
<1> QED
  BY <1>2, <1>3, <1>7, <1>9, <1>11, <1>12, <1>13, <1>14, QuietStep

\* What Open looks at, and when it lets a message in uncounted.
LEMMA OpenShape ==
    ASSUME TypeInv, NEW p \in Procs, Open(p)
    PROVE  \E s : /\ s = Checked(p, Opened(proc[p])) /\ Proceed(p, s, Verdict(s))
                  /\ proc[p].pc = "open"
                  /\ drift' = drift \/ drift' = "yes"
                  /\ s.job \in {"file", "pipe"} /\ s.fd = "none" => drift' = "yes"
                  /\ UNCHANGED <<size, where, stamp, clock, events>>
<1> PICK r : r = Opened(proc[p])
  OBVIOUS
<1>1. PICK s : s = Checked(p, r)
  OBVIOUS
<1>2. proc[p] \in ProcState
  BY ProcessOK
<1>3. r.job = proc[p].job /\ r.set = proc[p].set
  BY <1>2, OpenedShape
<1>4. s = CASE Wanted(p) # 0 /\ r.fd = "none" -> Setting(r, Wanted(p))
            [] Wanted(p) # 0 /\ r.fd # "none" /\ Wanted(p) # r.quota ->
                 [r EXCEPT !.quota = Wanted(p), !.recalc = TRUE]
            [] OTHER -> r
  BY <1>1, Zenon DEF Checked
<1>5. Wanted(p) = IF r.job \in {"file", "pipe"} /\ r.set = "yet" THEN NewQuota[p] ELSE 0
  BY <1>3 DEF Wanted
<1>6. /\ Proceed(p, s, Verdict(s))
      /\ IF r.job \in {"file", "pipe"} /\ s.fd = "none" THEN Worse ELSE UNCHANGED drift
  BY <1>4, <1>5 DEF Open
<1>7. s.job = r.job
  <2>1. s = Checked(p, Opened(proc[p])) /\ proc[p].pc = "open"
    BY <1>1 DEF Open
  <2>2. s.job = proc[p].job
    BY <2>1, CheckedShape
  <2> QED
    BY <1>3, <2>2
<1> QED
  BY <1>1, <1>6, <1>7 DEF Open, Worse

LEMMA VerdictType ==
    ASSUME NEW r
    PROVE  Verdict(r) \in {"ok", "over", "count"} /\ (r.fd = "none" => Verdict(r) = "ok")
<1>1. CASE r.fd = "none"
  BY <1>1, Zenon DEF Verdict
<1>2. CASE r.fd # "none" /\ ~r.recalc /\ Within(r.sum + Extra(r), r.quota)
  <2>1. Verdict(r) = "ok"
    BY <1>2, Zenon DEF Verdict
  <2> QED
    BY <1>2, <2>1
<1>3. CASE r.fd # "none" /\ ~(~r.recalc /\ Within(r.sum + Extra(r), r.quota))
  <2>1. Verdict(r) \in {"over", "count"}
    BY <1>3, Zenon DEF Verdict
  <2> QED
    BY <1>3, <2>1
<1> QED
  BY <1>1, <1>2, <1>3

LEMMA OpenIInv ==
    ASSUME IInv, NEW p \in Procs, Open(p)
    PROVE  IInv'
<1>1. TypeInv
  BY DEF IInv
<1>2. PICK s : /\ s = Checked(p, Opened(proc[p])) /\ Proceed(p, s, Verdict(s))
               /\ proc[p].pc = "open"
               /\ drift' = drift \/ drift' = "yes"
               /\ UNCHANGED <<size, where, stamp, clock, events>>
  BY <1>1, OpenShape
<1>3. /\ s \in ProcState
      /\ s.job = proc[p].job /\ s.msg = proc[p].msg /\ s.count = proc[p].count
      /\ s.job = "purge" => s.set = "yet" /\ (s.fd = "none" => size = NoFile)
      /\ s.fd = "none" \/ s.quota # 0
      /\ size # NoFile => s.fd # "none"
      /\ s.fd = "old" => s.recalc = TRUE /\ s.set = "runs" /\ s.job \in {"file", "pipe"}
      /\ s.fd = "file" => size # NoFile
  BY <1>1, <1>2, CheckedShape
<1>4. PICK answer \in {"ok", "over", "count"} : answer = Verdict(s)
  BY VerdictType
<1>5. answer = "count" => s.quota # 0
  BY <1>3, <1>4, VerdictType
<1>6. Good' /\ (s.job = "purge" \/ (answer = "ok" /\ s.set # "runs")) => s.fd = "file"
  <2>1. s.fd \in {"none", "file", "old"}
    BY <1>3 DEF ProcState
  <2> QED
    BY <1>2, <1>3, <2>1 DEF Good
<1>7. events' \in 0..MaxEvents
  BY <1>1, <1>2, TypeParts DEF WorldOK
<1> QED
  BY <1>2, <1>3, <1>4, <1>5, <1>6, <1>7, ProceedStep

LEMMA WriteFailsIInv ==
    ASSUME IInv, NEW p \in Procs, WriteFails(p)
    PROVE  IInv'
<1>1. TypeInv /\ FdInv
  BY DEF IInv
<1>2. PICK r \in ProcState : r = proc[p]
  BY <1>1, ProcessOK
<1>3. /\ StageOK(p, r) /\ r.pc = "rename" /\ (r.fd = "file" => size # NoFile)
      /\ Proceed(p, r, "over")
  BY <1>1, <1>2, ProcessOK DEF WriteFails
<1>4. Good' => Good
  BY DEF WriteFails, Good
<1>5. Good' /\ r.job = "purge" => r.fd = "file"
  BY <1>1, <1>2, <1>3, <1>4 DEF FdInv, Appends
<1>6. r.job = "purge" => r.set = "yet"
  BY <1>3 DEF StageOK
<1>7. /\ where' = where /\ size' = size /\ stamp' = stamp /\ clock' = clock
      /\ events' \in 0..MaxEvents /\ drift' = drift
  BY <1>1, ProcessOK DEF WriteFails, Event
<1> QED
  BY <1>2, <1>3, <1>5, <1>6, <1>7, ProceedStep

LEMMA CountRestatIInv ==
    ASSUME IInv, NEW p \in Procs, CountRestat(p)
    PROVE  IInv'
<1>1. TypeInv /\ FdInv
  BY DEF IInv
<1>2. PICK r \in ProcState : r = proc[p]
  BY <1>1, ProcessOK
<1>3. /\ StageOK(p, r) /\ r.pc = "restat" /\ (r.fd = "file" => size # NoFile)
      /\ MaxTries \in Nat \ {0}
  BY <1>1, <1>2, ProcessOK, QuotaAssumption DEF CountRestat
<1>4. /\ where' = where /\ size' = size /\ stamp' = stamp /\ clock' = clock
      /\ events' \in 0..MaxEvents /\ (drift' = drift \/ drift' = "yes")
  BY <1>1, TypeParts DEF CountRestat, WorldOK, Worse
<1>5. Good' => Good
  BY <1>4 DEF Good
<1>6. Good' => r.fd = "file"
  BY <1>1, <1>2, <1>3, <1>5 DEF FdInv, Appends
<1>7. (r.job = "purge" => r.set = "yet") /\ r.quota # 0
  BY <1>3 DEF StageOK
<1>8. PICK retry : retry = [r EXCEPT !.recalc = TRUE, !.lines = 0, !.tries = @ + 1]
  OBVIOUS
<1>9. PICK given : given = [retry EXCEPT !.fd = "none"]
  OBVIOUS
<1>10. PICK lost : lost = [r EXCEPT !.fd = "none"]
  OBVIOUS
<1>11. /\ retry.job = r.job /\ retry.msg = r.msg /\ retry.count = r.count
       /\ retry.fd = r.fd /\ retry.set = r.set /\ retry.quota = r.quota
       /\ retry.tries = r.tries + 1
       /\ given.job = r.job /\ given.msg = r.msg /\ given.count = r.count
       /\ given.fd = "none" /\ given.set = r.set
  BY ONLY <1>8, <1>9, r \in ProcState DEF ProcState
<1>12. /\ lost \in ProcState /\ lost.job = r.job /\ lost.msg = r.msg /\ lost.count = r.count
       /\ lost.fd = "none" /\ lost.set = r.set
  <2>1. lost \in ProcState
    BY ONLY <1>10, r \in ProcState DEF ProcState
  <2> QED
    BY ONLY <1>10, <2>1, r \in ProcState DEF ProcState
<1>13. Continue(retry, "over") = Continue(r, "over")
  BY <1>11 DEF Continue
<1>14. Continue(given, "ok") = Continue(lost, "ok")
  BY <1>11, <1>12 DEF Continue
<1>15. \/ Proceed(p, r, "ok") \/ Proceed(p, r, "over") \/ Proceed(p, retry, "over")
       \/ /\ Proceed(p, retry, "count") /\ retry.tries < MaxTries
          /\ r.job \in {"file", "pipe"} /\ r.set # "runs"
       \/ Proceed(p, given, "ok") /\ Worse /\ r.job \in {"file", "pipe"}
  BY <1>2, <1>8, <1>9 DEF CountRestat
<1>16. CASE Proceed(p, r, "ok")
  BY <1>2, <1>3, <1>4, <1>6, <1>7, <1>16, ProceedStep
<1>17. CASE Proceed(p, r, "over") \/ Proceed(p, retry, "over")
  <2>1. Proceed(p, r, "over")
    BY <1>13, <1>17 DEF Proceed
  <2> QED
    BY <1>2, <1>3, <1>4, <1>6, <1>7, <2>1, ProceedStep
<1>18. CASE /\ Proceed(p, retry, "count") /\ retry.tries < MaxTries
            /\ r.job \in {"file", "pipe"} /\ r.set # "runs"
  <2>1. r.tries \in 0..(MaxTries - 1) /\ r.tries + 1 \in 0..(MaxTries - 1)
    BY <1>3, <1>11, <1>18 DEF ProcState
  <2>2. retry \in ProcState
    BY ONLY <1>8, <2>1, r \in ProcState DEF ProcState
  <2> QED
    BY <1>2, <1>3, <1>4, <1>6, <1>7, <1>11, <1>18, <2>2, ProceedStep
<1>19. CASE Proceed(p, given, "ok") /\ Worse /\ r.job \in {"file", "pipe"}
  <2>1. Proceed(p, lost, "ok") /\ ~Good' /\ lost.job # "purge"
    BY <1>12, <1>14, <1>19 DEF Proceed, Worse, Good
  <2> QED
    BY <1>2, <1>3, <1>4, <1>12, <2>1, ProceedStep
<1> QED
  BY <1>15, <1>16, <1>17, <1>18, <1>19

\* The messages a recalculation has counted when it has read one directory more.
LEMMA CountedNext ==
    ASSUME NEW n \in 1..2
    PROVE  /\ Cardinality(Counted(n + 1)) =
                Cardinality(Counted(n)) + Cardinality({m \in Msgs : where[m] = Dirs[n]})
           /\ Cardinality(Counted(n)) \in Nat
           /\ Cardinality({m \in Msgs : where[m] = Dirs[n]}) \in Nat
           /\ Counted(3) = Inside
<1> DEFINE D == {m \in Msgs : where[m] = Dirs[n]}
<1>1. Dirs[1] = "new" /\ Dirs[2] = "cur"
  BY DEF Dirs
<1>2. Counted(1) = {} /\ Counted(2) = {m \in Msgs : where[m] = "new"} /\ Counted(3) = Inside
  <2>1. 1..(1 - 1) = {} /\ 1..(2 - 1) = {1} /\ 1..(3 - 1) = {1, 2}
    OBVIOUS
  <2> QED
    BY <1>1, <2>1 DEF Counted, Inside
<1>3. Counted(n + 1) = Counted(n) \cup D /\ Counted(n) \cap D = {}
  <2>1. CASE n = 1
    BY <1>1, <1>2, <2>1
  <2>2. CASE n = 2
    BY <1>1, <1>2, <2>2 DEF Inside
  <2> QED
    BY <2>1, <2>2
<1>4. IsFiniteSet(Counted(n)) /\ IsFiniteSet(D)
  <2>1. IsFiniteSet(Msgs) /\ Counted(n) \in SUBSET Msgs /\ D \in SUBSET Msgs
    BY QuotaAssumption DEF Counted
  <2> QED
    BY <2>1, FS_Subset
<1> HIDE DEF D
<1>5. PICK C : C = Counted(n)
  OBVIOUS
<1>6. Cardinality(C \cup D) = Cardinality(C) + Cardinality(D) - Cardinality({})
  BY <1>3, <1>4, <1>5, FS_Union
<1>7. Cardinality(C) \in Nat /\ Cardinality(D) \in Nat
  BY <1>4, <1>5, FS_CardinalityType
<1>8. Cardinality(Counted(n + 1)) = Cardinality(Counted(n)) + Cardinality(D)
  <2>1. Cardinality({}) = 0
    BY FS_EmptySet
  <2>2. Cardinality(C \cup D) = Cardinality(C) + Cardinality(D)
    BY ONLY <1>6, <1>7, <2>1
  <2>3. Counted(n + 1) = C \cup D /\ Counted(n) = C
    BY <1>3, <1>5
  <2> QED
    BY ONLY <2>2, <2>3
<1> QED
  BY <1>2, <1>5, <1>7, <1>8 DEF D

\* A process that goes on counting has the maildir to itself as before.
LEMMA AloneGoesOn ==
    ASSUME TypeInv, AloneInv, NEW p \in Procs, OthersKept(p), proc[p].alone, where' = where,
           proc'[p].pc \in {"stat", "read", "rename"},
           proc'[p].seen = Cardinality(Counted(proc'[p].next))
    PROVE  (/\ Undisturbed(p)
            /\ Counting(p)
            /\ proc[p].seen = Cardinality(Counted(proc[p].next)))'
<1>1. \A q \in Procs \ {p} : proc'[q].pc = proc[q].pc
  BY KeptOthers DEF TypeInv
<1>2. Undisturbed(p)'
  BY <1>1 DEF AloneInv, Undisturbed
<1>3. Counted(proc[p].next)' = Counted(proc'[p].next)
  BY DEF Counted
<1> QED
  BY <1>2, <1>3 DEF Counting

LEMMA CountStatIInv ==
    ASSUME IInv, NEW p \in Procs, CountStat(p)
    PROVE  IInv'
<1>1. TypeInv /\ AloneInv /\ FdInv
  BY DEF IInv
<1>2. PICK r \in ProcState : r = proc[p]
  BY <1>1, ProcessOK
<1>3. /\ proc \in [Procs -> ProcState] /\ StageOK(p, r) /\ r.pc = "stat"
      /\ r.fd = "file" => size # NoFile
  BY <1>1, <1>2, ProcessOK DEF CountStat
<1>4. PICK t \in Nat : t = Later(r.maxtime, stamp[Dirs[r.next]])
  <2>1. r.next \in {1, 2}
    BY <1>3 DEF StageOK
  <2>2. Dirs[r.next] \in {"new", "cur"}
    BY <2>1 DEF Dirs
  <2>3. stamp[Dirs[r.next]] \in Nat
    BY <1>1, <2>2, TypeParts, QuotaAssumption DEF WorldOK
  <2>4. r.maxtime \in Nat
    BY DEF ProcState
  <2> QED
    BY <2>3, <2>4 DEF Later
<1>5. PICK x : x = [r EXCEPT !.pc = "read", !.maxtime = t]
  OBVIOUS
<1>6. x \in ProcState
  BY ONLY <1>5, t \in Nat, r \in ProcState DEF ProcState
<1>7. /\ x.pc = "read" /\ x.job = r.job /\ x.msg = r.msg /\ x.count = r.count /\ x.fd = r.fd
      /\ x.set = r.set /\ x.quota = r.quota /\ x.next = r.next /\ x.seen = r.seen
      /\ x.alone = r.alone
  BY ONLY <1>5, r \in ProcState DEF ProcState
<1>8. StageOK(p, x) /\ (Holds(x) => Holds(r))
  BY <1>3, <1>7 DEF StageOK, Holds
<1>9. proc' = [proc EXCEPT ![p] = x]
  BY <1>2, <1>3, <1>4, <1>5 DEF CountStat
<1>10. proc' \in [Procs -> ProcState] /\ proc'[p] = x /\ OthersKept(p)
  BY <1>3, <1>6, <1>9, OwnShape
<1>11. /\ where' = where /\ size' = size /\ stamp' = stamp /\ clock' = clock
       /\ events' \in 0..MaxEvents /\ drift' = drift
  BY <1>1, TypeParts DEF CountStat, WorldOK
<1>12. Good' /\ Appends(x) => x.fd = "file"
  BY <1>1, <1>2, <1>3, <1>7, <1>11 DEF FdInv, Appends, Good
<1>13. x.alone => (/\ Undisturbed(p)
                   /\ Counting(p)
                   /\ proc[p].seen = Cardinality(Counted(proc[p].next)))'
  <2>1. SUFFICES ASSUME x.alone
                 PROVE  (/\ Undisturbed(p)
                         /\ Counting(p)
                         /\ proc[p].seen = Cardinality(Counted(proc[p].next)))'
    OBVIOUS
  <2>2. proc[p].alone /\ x.seen = Cardinality(Counted(x.next))
    BY <1>1, <1>2, <1>7, <2>1 DEF AloneInv
  <2> QED
    BY <1>1, <1>7, <1>10, <1>11, <2>2, AloneGoesOn
<1>14. /\ Lists(r) <=> Lists(x)
       /\ Books(r) <=> Books(x)
       /\ Taken(x) = Taken(r)
  BY <1>3, <1>7 DEF Lists, Books, Taken
<1> QED
  BY <1>2, <1>3, <1>7, <1>8, <1>10, <1>11, <1>12, <1>13, <1>14, QuietStep

LEMMA CountReadIInv ==
    ASSUME IInv, NEW p \in Procs, CountRead(p)
    PROVE  IInv'
<1>1. TypeInv /\ AloneInv /\ FdInv
  BY DEF IInv
<1>2. PICK r \in ProcState : r = proc[p]
  BY <1>1, ProcessOK
<1>3. /\ proc \in [Procs -> ProcState] /\ StageOK(p, r) /\ r.pc = "read"
      /\ r.fd = "file" => size # NoFile
  BY <1>1, <1>2, ProcessOK DEF CountRead
<1>4. PICK n \in 1..2 : n = r.next
  BY <1>3 DEF StageOK
<1>5. PICK k \in Nat : k = Cardinality({m \in Msgs : where[m] = Dirs[n]})
  BY CountedNext
<1>6. PICK pc \in {"stat", "rename"} : pc = IF n = 2 THEN "rename" ELSE "stat"
  OBVIOUS
<1>7. PICK x : x = [r EXCEPT !.seen = r.seen + k, !.next = n + 1, !.pc = pc]
  OBVIOUS
<1>8. r.seen + k \in Nat /\ n + 1 \in 1..3
  BY DEF ProcState
<1>9. x \in ProcState
  BY ONLY <1>6, <1>7, <1>8, r \in ProcState DEF ProcState
<1>10. /\ x.pc = pc /\ x.job = r.job /\ x.msg = r.msg /\ x.count = r.count /\ x.fd = r.fd
       /\ x.set = r.set /\ x.quota = r.quota /\ x.next = n + 1 /\ x.seen = r.seen + k
       /\ x.alone = r.alone
  BY ONLY <1>7, r \in ProcState DEF ProcState
<1>11. StageOK(p, x) /\ (Holds(x) => Holds(r))
  BY <1>3, <1>4, <1>6, <1>10 DEF StageOK, Holds
<1>12. proc' = [proc EXCEPT ![p] = x]
  <2>1. Len(Dirs) = 2
    BY DEF Dirs
  <2>2. proc' = [proc EXCEPT ![p].seen = @ + k, ![p].next = n + 1, ![p].pc = pc]
    BY <1>2, <1>4, <1>5, <1>6, <2>1 DEF CountRead
  <2> QED
    BY <1>2, <1>3, <1>7, <2>2
<1>13. proc' \in [Procs -> ProcState] /\ proc'[p] = x /\ OthersKept(p)
  BY <1>3, <1>9, <1>12, OwnShape
<1>14. /\ where' = where /\ size' = size /\ stamp' = stamp /\ clock' = clock
       /\ events' \in 0..MaxEvents /\ drift' = drift
  BY <1>1, TypeParts DEF CountRead, WorldOK
<1>15. Good' /\ Appends(x) => x.fd = "file"
  BY <1>1, <1>2, <1>3, <1>10, <1>14 DEF FdInv, Appends, Good
<1>16. x.alone => (/\ Undisturbed(p)
                   /\ Counting(p)
                   /\ proc[p].seen = Cardinality(Counted(proc[p].next)))'
  <2>1. SUFFICES ASSUME x.alone
                 PROVE  (/\ Undisturbed(p)
                         /\ Counting(p)
                         /\ proc[p].seen = Cardinality(Counted(proc[p].next)))'
    OBVIOUS
  <2>2. proc[p].alone /\ r.seen = Cardinality(Counted(n))
    BY <1>1, <1>2, <1>4, <1>10, <2>1 DEF AloneInv
  <2>3. x.seen = Cardinality(Counted(x.next))
    BY <1>5, <1>10, <2>2, CountedNext
  <2> QED
    BY <1>1, <1>6, <1>10, <1>13, <1>14, <2>2, <2>3, AloneGoesOn
<1>17. /\ Lists(r) <=> Lists(x)
       /\ Books(r) <=> Books(x)
       /\ Taken(x) = Taken(r)
  BY <1>3, <1>6, <1>10 DEF Lists, Books, Taken
<1> QED
  BY <1>2, <1>3, <1>10, <1>11, <1>13, <1>14, <1>15, <1>16, <1>17, QuietStep

LEMMA DieIInv ==
    ASSUME IInv, NEW p \in Procs, Die(p)
    PROVE  IInv'
<1>1. TypeInv
  BY DEF IInv
<1>2. proc \in [Procs -> ProcState] /\ proc[p].pc # "idle"
  BY <1>1, ProcessOK DEF Die
<1>3. proc' = Disturb([proc EXCEPT ![p] = Idle], p)
  BY DEF Die
<1>4. PICK x \in ProcState : x = Idle
  BY IdleShape
<1>5. /\ proc' \in [Procs -> ProcState] /\ proc'[p] = x /\ OthersKept(p)
      /\ \A q \in Procs \ {p} : proc'[q].alone = FALSE
  BY <1>2, <1>3, <1>4, DisturbShape
<1>6. /\ StageOK(p, x) /\ x.pc = "idle" /\ x.job = "none" /\ x.alone = FALSE /\ x.fd = "none"
  BY <1>4, IdleShape
<1>7. ~Holds(x) /\ ~Appends(x) /\ ~Lists(x) /\ ~Books(x) /\ Taken(x) = 0
  BY <1>6 DEF Holds, Appends, Lists, Books, Taken
<1>8. Good' => /\ Lists(proc[p]) <=> Lists(x)
               /\ Books(proc[p]) <=> Books(x)
               /\ Taken(x) = Taken(proc[p])
  <2>1. Good' => ~Owes(p)
    BY DEF Good, Die, Worse
  <2>2. ~Owes(p) => ~Lists(proc[p]) /\ ~Books(proc[p]) /\ Taken(proc[p]) = 0
    BY DEF Owes, Lists, Books, Taken
  <2> QED
    BY <1>7, <2>1, <2>2
<1>9. /\ where' = where /\ size' = size /\ stamp' = stamp /\ clock' = clock
      /\ events' \in 0..MaxEvents /\ (drift' = drift \/ drift' = "yes")
  BY <1>1, ProcessOK DEF Die, Event, Worse
<1> QED
  BY <1>5, <1>6, <1>7, <1>8, <1>9, QuietStep

LEMMA PurgeUnlinkIInv ==
    ASSUME IInv, NEW p \in Procs, PurgeUnlink(p)
    PROVE  IInv'
<1>1. TypeInv /\ MsgInv /\ AloneInv /\ FdInv /\ TotalRight
  BY DEF IInv
<1>2. PICK r \in ProcState : r = proc[p]
  BY <1>1, ProcessOK
<1>3. /\ proc \in [Procs -> ProcState] /\ StageOK(p, r) /\ r.pc = "unlink"
      /\ r.fd = "file" => size # NoFile
  BY <1>1, <1>2, ProcessOK DEF PurgeUnlink
<1>4. ~r.alone
  BY <1>1, <1>2, <1>3 DEF AloneInv, Counting
<1>5. PICK x : x = [r EXCEPT !.pc = "purge", !.msg = {}]
  OBVIOUS
<1>6. x \in ProcState
  BY ONLY <1>5, r \in ProcState DEF ProcState
<1>7. /\ x.pc = "purge" /\ x.job = r.job /\ x.count = r.count
      /\ x.fd = r.fd /\ x.set = r.set /\ x.alone = r.alone
  BY ONLY <1>5, r \in ProcState DEF ProcState
<1>8. r.job = "purge" /\ r.set = "yet" /\ p \in Purgers /\ r.count \in Nat /\ r.count > 0
  BY <1>3 DEF StageOK, ProcState
<1>9. StageOK(p, x) /\ ~Holds(x) /\ ~Holds(r)
  BY <1>7, <1>8 DEF StageOK, Holds
<1>10. proc' = Disturb([proc EXCEPT ![p] = x], p)
  <2>1. [proc EXCEPT ![p].pc = "purge", ![p].msg = {}] = [proc EXCEPT ![p] = x]
    BY <1>2, <1>3, <1>5
  <2> QED
    BY <2>1, Zenon DEF PurgeUnlink
<1>11. /\ proc' \in [Procs -> ProcState] /\ proc'[p] = x /\ OthersKept(p)
       /\ \A q \in Procs \ {p} : proc'[q].alone = FALSE
  BY <1>3, <1>6, <1>10, DisturbShape
<1>12. PICK m \in Msgs :
         \/ /\ where[m] = r.dir
            /\ where' = [where EXCEPT ![m] = "gone"]
            /\ stamp' = [stamp EXCEPT ![r.dir] = clock] /\ drift' = drift
         \/ drift' = "yes" /\ where' = where /\ stamp' = stamp
  <2>1. r.msg \in SUBSET Msgs
    BY DEF ProcState
  <2> QED
    BY <1>2, <2>1 DEF PurgeUnlink, Worse
<1>13. /\ size' = size /\ clock' = clock /\ events' = events /\ r.dir \in {"new", "cur"}
  BY DEF PurgeUnlink, ProcState
<1>14. TypeInv'
  <2>1. WorldOK
    BY <1>1, TypeParts
  <2>2. WorldOK'
    BY <1>12, <1>13, <2>1 DEF WorldOK
  <2> QED
    BY <1>1, <1>3, <1>7, <1>9, <1>11, <1>13, <2>2, TypeStep
<1>15. MsgInv'
  <2>1. \A n \in Msgs : where[n] = "out" => where'[n] = "out"
    BY <1>1, <1>12, <1>13 DEF TypeInv, TypeOK
  <2> QED
    BY <1>1, <1>9, <1>11, <2>1, MsgStep
<1>16. AloneInv'
  BY <1>1, <1>4, <1>7, <1>11, AloneStep
<1>17. (Good' => Good) /\ ~Appends(x)
  BY <1>7, <1>12, <1>13 DEF Good, Appends
<1>18. FdInv'
  BY <1>1, <1>11, <1>17, FdStep
<1>19. TotalRight'
  <2>1. SUFFICES ASSUME Good' PROVE Total'
    BY DEF TotalRight, Good
  <2>2. /\ where[m] = r.dir /\ where' = [where EXCEPT ![m] = "gone"]
    BY <1>12, <2>1 DEF Good
  <2>3. m \in Inside /\ Inside' = Inside \ {m}
    BY <1>1, <1>13, <2>2 DEF Inside, TypeInv, TypeOK
  <2>4. IsFiniteSet(Inside) /\ Cardinality(Inside) \in Nat
    BY <1>1, AccountParts
  <2>5. Cardinality(Inside') = Cardinality(Inside) - 1
    BY <2>3, <2>4, FS_RemoveElement
  <2>6. ~Lists(r) /\ ~Lists(x) /\ ~Books(r) /\ ~Books(x) /\ Taken(x) = Taken(r) + 1
    BY <1>3, <1>7, <1>8 DEF Lists, Books, Taken
  <2>7. Unlisted' = Unlisted /\ Booked' = Booked /\ Cardinality(Purged') = Cardinality(Purged) + 1
    BY <1>1, <1>2, <1>11, <1>14, <2>6, AccountStep
  <2>8. Total
    BY <1>1, <1>17, <2>1 DEF TotalRight, Good
  <2>9. /\ Cardinality(Booked) \in Nat /\ Cardinality(Purged) \in Nat
        /\ Cardinality(Unlisted) \in Nat
    BY <1>1, AccountParts
  <2> QED
    BY <1>13, <2>4, <2>5, <2>7, <2>8, <2>9 DEF Total
<1> QED
  BY <1>14, <1>15, <1>16, <1>18, <1>19 DEF IInv

LEMMA MoveIInv ==
    ASSUME IInv, NEW p \in Procs, Move(p)
    PROVE  IInv'
<1>1. TypeInv /\ MsgInv /\ AloneInv /\ FdInv /\ TotalRight
  BY DEF IInv
<1>2. PICK r \in ProcState : r = proc[p]
  BY <1>1, ProcessOK
<1>3. /\ proc \in [Procs -> ProcState] /\ StageOK(p, r) /\ r.pc = "move"
      /\ r.fd = "file" => size # NoFile
  BY <1>1, <1>2, ProcessOK DEF Move
<1>4. r.job \in {"file", "pipe"} /\ r.set = "yet" /\ Holds(r)
  BY <1>3 DEF StageOK, Holds
<1>5. PICK m \in Msgs : r.msg = {m} /\ where[m] = "out"
  BY <1>1, <1>2, <1>4 DEF MsgInv
<1>6. /\ where' = [where EXCEPT ![m] = "new"] /\ stamp' = [stamp EXCEPT !["new"] = clock]
      /\ size' = size /\ clock' = clock /\ events' = events /\ drift' = drift
  BY <1>2, <1>5 DEF Move
<1>7. PICK y : y = [r EXCEPT !.pc = "append"]
  OBVIOUS
<1>8. y \in ProcState
  BY ONLY <1>7, r \in ProcState DEF ProcState
<1>9. /\ y.pc = "append" /\ y.job = r.job /\ y.fd = r.fd /\ y.set = r.set /\ y.alone = r.alone
  BY ONLY <1>7, r \in ProcState DEF ProcState
<1>10. PICK x \in ProcState : x = IF r.job = "file" THEN y ELSE Idle
  BY <1>8, IdleShape
<1>11. proc' = Disturb([proc EXCEPT ![p] = x], p)
  BY <1>2, <1>3, <1>7, <1>10 DEF Move
<1>12. /\ proc' \in [Procs -> ProcState] /\ proc'[p] = x /\ OthersKept(p)
       /\ \A q \in Procs \ {p} : proc'[q].alone = FALSE
  BY <1>3, <1>11, DisturbShape
<1>13. ~r.alone
  BY <1>1, <1>2, <1>3 DEF AloneInv, Counting
<1>14. /\ StageOK(p, x) /\ ~Holds(x) /\ ~x.alone /\ x.fd \in {"none", r.fd}
       /\ Appends(x) => x.fd = r.fd
       /\ ~Books(x) /\ Taken(x) = 0 /\ (Lists(x) <=> r.job = "file")
  <2>1. CASE r.job = "file"
    <3>1. x = y
      BY <1>10, <2>1
    <3>2. StageOK(p, x)
      BY <1>3, <1>4, <1>9, <3>1 DEF StageOK
    <3> QED
      BY <1>9, <1>13, <2>1, <3>1, <3>2 DEF Holds, Appends, Books, Taken, Lists
  <2>2. CASE r.job = "pipe"
    <3>1. x = Idle
      BY <1>10, <2>2
    <3> QED
      BY <2>2, <3>1, IdleShape DEF Holds, Appends, Books, Taken, Lists
  <2> QED
    BY <1>4, <2>1, <2>2
<1>15. TypeInv'
  <2>1. WorldOK
    BY <1>1, TypeParts
  <2>2. WorldOK'
    BY <1>6, <2>1 DEF WorldOK
  <2> QED
    BY <1>1, <1>3, <1>6, <1>12, <1>14, <2>2, TypeStep
<1>16. MsgInv'
  <2>1. \A n \in Msgs : n # m => where'[n] = where[n]
    BY <1>1, <1>6 DEF TypeInv, TypeOK
  <2>2. \A n \in Msgs : where[n] = "out" /\ where'[n] # "out" => r.msg = {n}
    BY <1>5, <2>1
  <2> QED
    BY <1>1, <1>2, <1>4, <1>12, <1>14, <2>2, MsgStep
<1>17. AloneInv'
  BY <1>1, <1>12, <1>14, AloneStep
<1>18. Good' <=> Good
  BY <1>6 DEF Good
<1>19. FdInv'
  <2>1. Good => r.fd = "file"
    BY <1>1, <1>2, <1>3 DEF FdInv, Appends
  <2> QED
    BY <1>1, <1>12, <1>14, <1>18, <2>1, FdStep
<1>20. TotalRight'
  <2>1. SUFFICES ASSUME Good' PROVE Total'
    BY DEF TotalRight, Good
  <2>2. m \notin Inside /\ Inside' = Inside \cup {m}
    BY <1>1, <1>5, <1>6 DEF Inside, TypeInv, TypeOK
  <2>3. IsFiniteSet(Inside) /\ Cardinality(Inside) \in Nat
    BY <1>1, AccountParts
  <2>4. Cardinality(Inside') = Cardinality(Inside) + 1
    BY <2>2, <2>3, FS_AddElement
  <2>5. ~Lists(r) /\ (Books(r) <=> r.job = "pipe") /\ Taken(r) = 0
    BY <1>3, <1>4 DEF Lists, Books, Taken
  <2>6. /\ r.job = "file" => /\ Cardinality(Unlisted') = Cardinality(Unlisted) + 1
                             /\ Booked' = Booked
        /\ r.job = "pipe" => /\ Unlisted' = Unlisted
                             /\ Cardinality(Booked) = Cardinality(Booked') + 1
        /\ Purged' = Purged
    BY <1>1, <1>2, <1>12, <1>14, <1>15, <2>5, AccountStep
  <2>7. Total
    BY <1>1, <1>18, <2>1 DEF TotalRight, Good
  <2>8. /\ Cardinality(Booked) \in Nat /\ Cardinality(Purged) \in Nat
        /\ Cardinality(Unlisted) \in Nat /\ Cardinality(Booked') \in Nat
    BY <1>1, <1>15, AccountParts, AccountPartsNext
  <2>9. CASE r.job = "file"
    <3>1. /\ Cardinality(Unlisted') = Cardinality(Unlisted) + 1
          /\ Cardinality(Booked') = Cardinality(Booked)
          /\ Cardinality(Purged') = Cardinality(Purged) /\ size'.sum = size.sum
      BY <1>6, <2>6, <2>9
    <3>2. size.sum \in Int
      BY <1>1, TypeParts DEF WorldOK
    <3> QED
      BY ONLY <2>3, <2>4, <2>7, <2>8, <3>1, <3>2 DEF Total
  <2>10. CASE r.job = "pipe"
    BY <1>6, <2>3, <2>4, <2>6, <2>7, <2>8, <2>10 DEF Total
  <2> QED
    BY <1>4, <2>9, <2>10
<1> QED
  BY <1>15, <1>16, <1>17, <1>19, <1>20 DEF IInv

LEMMA Append1IInv ==
    ASSUME IInv, NEW p \in Procs, Append1(p)
    PROVE  IInv'
<1>1. TypeInv /\ MsgInv /\ AloneInv /\ FdInv /\ TotalRight
  BY DEF IInv
<1>2. PICK r \in ProcState : r = proc[p]
  BY <1>1, ProcessOK
<1>3. /\ proc \in [Procs -> ProcState] /\ StageOK(p, r) /\ r.pc = "append"
      /\ r.fd = "file" => size # NoFile
  BY <1>1, <1>2, ProcessOK DEF Append1
<1>4. r.job \in {"file", "pipe", "purge"} /\ r.set = "yet" /\ r.count \in Nat
  BY <1>3 DEF StageOK, ProcState
<1>5. PICK n \in Int : n = Extra(r) /\ n = IF r.job = "purge" THEN -r.count ELSE 1
  BY <1>4 DEF Extra
<1>6. /\ where' = where /\ stamp' = stamp
      /\ clock' = clock /\ events' = events /\ drift' = drift
      /\ r.fd = "file" => size' = [size EXCEPT !.sum = @ + n, !.lines = @ + 1, !.mtime = clock]
      /\ r.fd # "file" => size' = size
  BY <1>2, <1>5 DEF Append1
<1>7. PICK y : y = [r EXCEPT !.pc = "move"]
  OBVIOUS
<1>8. y \in ProcState
  BY ONLY <1>7, r \in ProcState DEF ProcState
<1>9. /\ y.pc = "move" /\ y.job = r.job /\ y.fd = r.fd /\ y.set = r.set
      /\ y.alone = r.alone /\ y.msg = r.msg
  BY ONLY <1>7, r \in ProcState DEF ProcState
<1>10. PICK x \in ProcState : x = IF r.job = "pipe" THEN y ELSE Idle
  BY <1>8, IdleShape
<1>11. proc' = Disturb([proc EXCEPT ![p] = x], p)
  BY <1>2, <1>3, <1>7, <1>10 DEF Append1
<1>12. /\ proc' \in [Procs -> ProcState] /\ proc'[p] = x /\ OthersKept(p)
       /\ \A q \in Procs \ {p} : proc'[q].alone = FALSE
  BY <1>3, <1>11, DisturbShape
<1>13. ~r.alone
  BY <1>1, <1>2, <1>3 DEF AloneInv, Counting
<1>14. /\ StageOK(p, x) /\ ~x.alone /\ x.fd \in {"none", r.fd}
       /\ Holds(x) => Holds(r) /\ x.msg = r.msg
       /\ Appends(x) => x.fd = r.fd
       /\ (Books(x) <=> r.job = "pipe") /\ Taken(x) = 0 /\ ~Lists(x)
  <2>1. CASE r.job = "pipe"
    <3>1. x = y
      BY <1>10, <2>1
    <3>2. StageOK(p, x)
      BY <1>3, <1>4, <1>9, <2>1, <3>1 DEF StageOK
    <3> QED
      BY <1>9, <1>13, <2>1, <3>1, <3>2 DEF Holds, Appends, Books, Taken, Lists
  <2>2. CASE r.job # "pipe"
    <3>1. x = Idle
      BY <1>10, <2>2
    <3> QED
      BY <2>2, <3>1, IdleShape DEF Holds, Appends, Books, Taken, Lists
  <2> QED
    BY <2>1, <2>2
<1>15. /\ WorldOK'
       /\ size # NoFile => size' # NoFile
       /\ size = NoFile => size' = NoFile
       /\ r.fd = "file" => size'.sum = size.sum + n
  <2>1. WorldOK
    BY <1>1, TypeParts
  <2>2. CASE r.fd # "file"
    BY <1>6, <2>1, <2>2 DEF WorldOK
  <2>3. CASE r.fd = "file"
    <3>1. size # NoFile /\ size.quota # 0
      BY <1>3, <2>1, <2>3 DEF WorldOK
    <3>2. size \in [quota : Sizes, sum : Int, lines : Nat, mtime : 0..MaxClock]
      BY <2>1 DEF WorldOK
    <3>3. clock \in 0..MaxClock
      BY <2>1 DEF WorldOK
    <3>4. size' \in [quota : Sizes, sum : Int, lines : Nat, mtime : 0..MaxClock]
      <4>1. PICK k \in Nat, t \in Int : k = size.lines + 1 /\ t = size.sum + n
        BY <3>2
      <4>2. size' = [size EXCEPT !.sum = t, !.lines = k, !.mtime = clock]
        BY <1>6, <2>3, <3>2, <4>1
      <4> QED
        BY ONLY <3>2, <3>3, <4>2, k \in Nat, t \in Int
    <3>5. size'.lines = size.lines + 1 /\ size'.quota = size.quota /\ size'.sum = size.sum + n
      BY ONLY <1>6, <2>3, <3>2
    <3>6. size'.lines # 0 /\ NoFile.lines = 0
      BY <3>2, <3>5 DEF NoFile
    <3>7. size' # NoFile
      BY <3>6
    <3> QED
      BY <1>6, <2>1, <2>3, <3>1, <3>4, <3>5, <3>7 DEF WorldOK
  <2> QED
    BY <2>2, <2>3
<1>16. TypeInv'
  BY <1>1, <1>3, <1>12, <1>14, <1>15, TypeStep
<1>17. MsgInv'
  BY <1>1, <1>2, <1>6, <1>12, <1>14, MsgStep
<1>18. AloneInv'
  BY <1>1, <1>12, <1>14, AloneStep
<1>19. Good' => Good
  BY <1>6, <1>15 DEF Good
<1>20. Good => r.fd = "file"
  BY <1>1, <1>2, <1>3 DEF FdInv, Appends
<1>21. FdInv'
  BY <1>1, <1>12, <1>14, <1>19, <1>20, FdStep
<1>22. TotalRight'
  <2>1. SUFFICES ASSUME Good' PROVE Total'
    BY DEF TotalRight, Good
  <2>2. Inside' = Inside
    BY <1>6 DEF Inside
  <2>3. (Lists(r) <=> r.job = "file") /\ ~Books(r) /\ (r.job = "purge" => Taken(r) = r.count)
        /\ (r.job # "purge" => Taken(r) = 0)
    BY <1>3, <1>4 DEF Lists, Books, Taken
  <2>4. /\ r.job = "file" => Cardinality(Unlisted) = Cardinality(Unlisted') + 1
        /\ r.job # "file" => Unlisted' = Unlisted
        /\ r.job = "pipe" => Cardinality(Booked') = Cardinality(Booked) + 1
        /\ r.job # "pipe" => Booked' = Booked
        /\ Cardinality(Purged) = Cardinality(Purged') + Taken(r)
    BY <1>1, <1>2, <1>12, <1>14, <1>16, <2>3, AccountStep
  <2>5. Total
    BY <1>1, <1>19, <2>1 DEF TotalRight, Good
  <2>6. /\ Cardinality(Inside) \in Nat /\ Cardinality(Booked) \in Nat
        /\ Cardinality(Purged) \in Nat /\ Cardinality(Unlisted) \in Nat
        /\ Cardinality(Booked') \in Nat /\ Cardinality(Purged') \in Nat
        /\ Cardinality(Unlisted') \in Nat
    BY <1>1, <1>16, AccountParts, AccountPartsNext
  <2>7. size.sum \in Int /\ size'.sum = size.sum + n
    BY <1>1, <1>15, <1>19, <1>20, <2>1, TypeParts DEF WorldOK
  <2>8. n = IF r.job = "purge" THEN -r.count ELSE 1
    BY <1>5
  <2>9. CASE r.job = "file"
    BY <2>2, <2>3, <2>4, <2>5, <2>6, <2>7, <2>8, <2>9 DEF Total
  <2>10. CASE r.job = "pipe"
    BY <2>2, <2>3, <2>4, <2>5, <2>6, <2>7, <2>8, <2>10 DEF Total
  <2>11. CASE r.job = "purge"
    BY <1>4, <2>2, <2>3, <2>4, <2>5, <2>6, <2>7, <2>8, <2>11 DEF Total
  <2> QED
    BY <1>4, <2>9, <2>10, <2>11
<1> QED
  BY <1>16, <1>17, <1>18, <1>21, <1>22 DEF IInv

\* What a rename over maildirsize leaves to another process.
Renamed(s) == [s EXCEPT !.fd = IF @ = "file" THEN "old" ELSE @]

LEMMA RenamedShape ==
    ASSUME NEW s \in ProcState, NEW y, y = Renamed(s)
    PROVE  /\ y \in ProcState
           /\ y.pc = s.pc /\ y.job = s.job /\ y.msg = s.msg /\ y.count = s.count
           /\ y.alone = s.alone /\ y.fd # "file"
           /\ \A q \in Procs : StageOK(q, s) => StageOK(q, y)
<1>1. PICK fd \in {"none", "old"} : fd = IF s.fd = "file" THEN "old" ELSE s.fd
  BY DEF ProcState
<1>2. y = [s EXCEPT !.fd = fd]
  BY <1>1 DEF Renamed
<1>3. y \in ProcState
  BY ONLY <1>2, fd \in {"none", "old"}, s \in ProcState DEF ProcState
<1>4. /\ y.pc = s.pc /\ y.job = s.job /\ y.msg = s.msg /\ y.count = s.count
      /\ y.alone = s.alone /\ y.fd = fd /\ y.set = s.set /\ y.next = s.next
      /\ y.quota = s.quota
  BY ONLY <1>2, s \in ProcState DEF ProcState
<1>5. s = Idle => y = Idle
  <2>1. SUFFICES ASSUME s = Idle PROVE y = Idle
    OBVIOUS
  <2>2. s.fd = "none" /\ fd = "none"
    BY <1>1, <2>1, IdleShape
  <2>3. s = Rest("idle", "none", {}, 0, "none", 0, 0, "yet", FALSE)
    BY <2>1 DEF Idle, Rest
  <2>4. y = Rest("idle", "none", {}, 0, "none", 0, 0, "yet", FALSE)
    BY ONLY <1>2, <2>2, <2>3 DEF Rest
  <2> QED
    BY <2>1, <2>3, <2>4
<1>6. \A q \in Procs : StageOK(q, s) => StageOK(q, y)
  BY <1>4, <1>5 DEF StageOK
<1> QED
  BY <1>3, <1>4, <1>6

\* Nobody has anything to enter in the total.
LEMMA TotalIdle ==
    ASSUME TypeInv, Cardinality(Inside) = size.sum,
           \A q \in Procs : ~Lists(proc[q]) /\ ~Books(proc[q]) /\ Taken(proc[q]) = 0
    PROVE  Total
<1>1. Unlisted = {} /\ Booked = {}
  BY DEF Unlisted, Booked, Lists, Books
<1>2. \A q \in Procs : Takes[q] = 0
  BY AccountParts
<1>3. Pairs(Takes) = {}
  <2>1. 1..0 = {}
    OBVIOUS
  <2> QED
    BY <1>2, <2>1 DEF Pairs
<1>4. Purged = {} /\ Cardinality(Inside) \in Nat
  BY <1>3, AccountParts
<1>5. Cardinality({}) = 0
  BY FS_EmptySet
<1> QED
  BY <1>1, <1>4, <1>5 DEF Total

LEMMA RenameIInv ==
    ASSUME IInv, NEW p \in Procs, Rename(p)
    PROVE  IInv'
<1>1. TypeInv /\ MsgInv /\ AloneInv
  BY DEF IInv
<1>2. PICK r \in ProcState : r = proc[p]
  BY <1>1, ProcessOK
<1>3. /\ proc \in [Procs -> ProcState] /\ StageOK(p, r) /\ r.pc = "rename"
      /\ \A q \in Procs : proc[q] \in ProcState /\ StageOK(q, proc[q])
  BY <1>1, <1>2, ProcessOK DEF Rename
<1>4. r.next = 3 /\ r.quota # 0 /\ r.quota \in Sizes /\ r.seen \in Nat
  BY <1>3 DEF StageOK, ProcState
<1>5. WorldOK
  BY <1>1, TypeParts
<1>6. clock \in Nat /\ clock \in 0..MaxClock /\ MaxClock \in Nat
  BY <1>5, QuotaAssumption DEF WorldOK
<1>7. PICK x : x = [r EXCEPT !.pc = "restat", !.fd = "file", !.recalc = FALSE,
                             !.sum = r.seen, !.lines = 1, !.mtime = clock, !.alone = FALSE]
  OBVIOUS
<1>8. x \in ProcState
  <2>1. 1 \in Nat /\ r.seen \in Int
    BY <1>4
  <2> QED
    BY ONLY <1>6, <1>7, <2>1, r \in ProcState DEF ProcState
<1>9. /\ x.pc = "restat" /\ x.fd = "file" /\ x.alone = FALSE
      /\ x.job = r.job /\ x.msg = r.msg /\ x.count = r.count
      /\ x.set = r.set /\ x.quota = r.quota
  BY ONLY <1>7, r \in ProcState DEF ProcState
<1>10. StageOK(p, x) /\ (Holds(x) <=> Holds(r)) /\ ~Lists(x) /\ ~Books(x)
  BY <1>3, <1>9 DEF StageOK, Holds, Lists, Books
<1>11. proc' = [q \in Procs |-> IF q = p THEN x ELSE Renamed(proc[q])]
  BY <1>2, <1>7 DEF Rename, Renamed
<1>12. proc'[p] = x /\ \A q \in Procs \ {p} : proc'[q] = Renamed(proc[q])
  BY <1>11
<1>13. \A q \in Procs \ {p} :
          /\ proc'[q] \in ProcState /\ StageOK(q, proc'[q])
          /\ proc'[q].pc = proc[q].pc /\ proc'[q].job = proc[q].job
          /\ proc'[q].msg = proc[q].msg
          /\ proc'[q].alone = proc[q].alone /\ proc'[q].fd # "file"
  BY <1>3, <1>12, RenamedShape
<1>14. proc' \in [Procs -> ProcState]
  <2>1. \A q \in Procs : (IF q = p THEN x ELSE Renamed(proc[q])) \in ProcState
    BY <1>8, <1>12, <1>13
  <2> QED
    BY <1>11, <2>1
<1>15. /\ size' = [quota |-> r.quota, sum |-> r.seen, lines |-> 1, mtime |-> clock]
       /\ where' = where /\ stamp' = stamp /\ clock' = clock /\ events' = events
  BY <1>2 DEF Rename
<1>16. size'.quota # 0 /\ size'.sum = r.seen /\ size' # NoFile
  BY <1>4, <1>15 DEF NoFile
<1>17. /\ drift' \in {"none", "yes", "purge", "healed"}
       /\ Good' => r.alone /\ r.job # "purge"
  <2>1. CASE ~r.alone
    BY <1>2, <2>1 DEF Rename, Good
  <2>2. CASE r.alone /\ r.job = "purge"
    BY <1>2, <2>2 DEF Rename, Good
  <2>3. CASE r.alone /\ r.job # "purge"
    BY <1>2, <1>5, <2>3 DEF Rename, WorldOK
  <2> QED
    BY <2>1, <2>2, <2>3
<1>18. TypeInv'
  <2>1. size' \in [quota : Sizes, sum : Int, lines : Nat, mtime : 0..MaxClock]
    <3>1. 1 \in Nat /\ r.seen \in Int
      BY <1>4
    <3> QED
      BY ONLY <1>4, <1>6, <1>15, <3>1
  <2>2. WorldOK'
    BY <1>5, <1>15, <1>16, <1>17, <2>1 DEF WorldOK
  <2>3. \A q \in Procs : StageOK(q, proc'[q])
    BY <1>10, <1>12, <1>13
  <2>4. (TypeInv <=> /\ WorldOK
                     /\ proc \in [Procs -> ProcState]
                     /\ \A q \in Procs : StageOK(q, proc[q])
                     /\ \A q \in Procs : proc[q].fd = "file" => size # NoFile)'
    BY TypeParts, PTL
  <2> QED
    BY <1>14, <1>16, <2>2, <2>3, <2>4
<1>19. MsgInv'
  <2>1. \A q \in Procs : (Holds(proc'[q]) <=> Holds(proc[q])) /\ proc'[q].msg = proc[q].msg
    <3>1. SUFFICES ASSUME NEW q \in Procs
                   PROVE  (Holds(proc'[q]) <=> Holds(proc[q])) /\ proc'[q].msg = proc[q].msg
      OBVIOUS
    <3>2. CASE q = p
      BY <1>2, <1>9, <1>10, <1>12, <3>2
    <3>3. CASE q # p
      BY <1>13, <3>3 DEF Holds
    <3> QED
      BY <3>2, <3>3
  <2> QED
    BY <1>1, <1>15, <2>1 DEF MsgInv
<1>20. AloneInv'
  <2>1. SUFFICES ASSUME NEW q \in Procs, proc'[q].alone PROVE FALSE
    BY DEF AloneInv
  <2>2. q # p
    BY <1>9, <1>12, <2>1
  <2>3. proc[q].alone
    BY <1>13, <2>1, <2>2
  <2>4. proc[p].pc = "idle"
    BY <1>1, <2>2, <2>3 DEF AloneInv, Undisturbed
  <2> QED
    BY <1>2, <1>3, <2>4
<1>21. ASSUME Good', NEW q \in Procs \ {p}
       PROVE  proc'[q].pc = "idle" /\ proc'[q].job = "none"
  <2>1. proc'[q].pc = "idle"
    BY <1>1, <1>2, <1>13, <1>17, <1>21 DEF AloneInv, Undisturbed
  <2>2. proc'[q] = Idle
    BY <1>13, <2>1 DEF StageOK
  <2> QED
    BY <2>1, <2>2, IdleShape
<1>22. FdInv'
  <2>1. ASSUME Good', NEW q \in Procs, Appends(proc'[q]) PROVE proc'[q].fd = "file"
    <3>1. CASE q = p
      BY <1>9, <1>12, <3>1
    <3>2. CASE q # p
      BY <1>21, <2>1, <3>2 DEF Appends
    <3> QED
      BY <3>1, <3>2
  <2> QED
    BY <2>1 DEF FdInv
<1>23. TotalRight'
  <2>1. SUFFICES ASSUME Good' PROVE Total'
    BY DEF TotalRight, Good
  <2>2. ASSUME NEW q \in Procs
        PROVE  ~Lists(proc'[q]) /\ ~Books(proc'[q]) /\ Taken(proc'[q]) = 0
    <3>1. CASE q = p
      BY <1>9, <1>10, <1>12, <1>17, <2>1, <3>1 DEF Taken
    <3>2. CASE q # p
      BY <1>21, <2>1, <3>2 DEF Lists, Books, Taken
    <3> QED
      BY <3>1, <3>2
  <2>3. r.seen = Cardinality(Inside)
    <3>1. r.seen = Cardinality(Counted(3))
      BY <1>1, <1>2, <1>4, <1>17, <2>1 DEF AloneInv
    <3>2. Counted(3) = Inside
      BY CountedNext
    <3> QED
      BY <3>1, <3>2
  <2>4. Cardinality(Inside') = size'.sum
    BY <1>15, <1>16, <2>3 DEF Inside
  <2>5. (TypeInv /\ Cardinality(Inside) = size.sum
          /\ (\A q \in Procs : ~Lists(proc[q]) /\ ~Books(proc[q]) /\ Taken(proc[q]) = 0)
            => Total)'
    BY TotalIdle, PTL
  <2> QED
    BY <1>18, <2>2, <2>4, <2>5
<1> QED
  BY <1>18, <1>19, <1>20, <1>22, <1>23 DEF IInv

-----------------------------------------------------------------------------
(* Steps of no process: the mail reader, the clock.                        *)

LEMMA CrowdedShape ==
    ASSUME NEW r \in ProcState, NEW s, s = Crowded(r)
    PROVE  /\ s \in ProcState
           /\ s.pc = r.pc /\ s.job = r.job /\ s.msg = r.msg /\ s.count = r.count
           /\ s.fd = r.fd /\ s.alone = FALSE
           /\ \A q \in Procs : StageOK(q, r) => StageOK(q, s)
<1>1. /\ s.pc = r.pc /\ s.job = r.job /\ s.msg = r.msg /\ s.count = r.count
      /\ s.fd = r.fd /\ s.next = r.next /\ s.set = r.set
      /\ s.quota = r.quota /\ s.alone = FALSE
  BY DEF ProcState, Crowded
<1>2. r = Idle => s = Idle
  <2>1. SUFFICES ASSUME r = Idle PROVE s = Idle
    OBVIOUS
  <2>2. s = Crowded(r)
    OBVIOUS
  <2> QED
    BY ONLY <2>1, <2>2 DEF Idle, Crowded
<1>3. \A q \in Procs : StageOK(q, r) => StageOK(q, s)
  BY <1>1, <1>2 DEF StageOK
<1> QED
  BY <1>1, <1>3, CrowdedType

\* A mail reader changes something in the directories.
LEMMA ReaderStep ==
    ASSUME IInv, proc' = [q \in Procs |-> Crowded(proc[q])], WorldOK', size' = size,
           \A m \in Msgs : where[m] = "out" => where'[m] = "out",
           Good' => Good /\ Inside' = Inside
    PROVE  IInv'
<1>1. TypeInv /\ MsgInv /\ FdInv /\ TotalRight
  BY DEF IInv
<1>2. /\ proc \in [Procs -> ProcState]
      /\ \A q \in Procs : StageOK(q, proc[q])
      /\ \A q \in Procs : proc[q].fd = "file" => size # NoFile
  BY <1>1, TypeParts
<1>3. \A q \in Procs :
         /\ proc'[q] \in ProcState
         /\ proc'[q].pc = proc[q].pc /\ proc'[q].job = proc[q].job
         /\ proc'[q].msg = proc[q].msg /\ proc'[q].count = proc[q].count
         /\ proc'[q].fd = proc[q].fd /\ proc'[q].alone = FALSE
         /\ StageOK(q, proc'[q])
  <2>1. SUFFICES ASSUME NEW q \in Procs
                 PROVE  /\ proc'[q] \in ProcState
                        /\ proc'[q].pc = proc[q].pc /\ proc'[q].job = proc[q].job
                        /\ proc'[q].msg = proc[q].msg /\ proc'[q].count = proc[q].count
                        /\ proc'[q].fd = proc[q].fd /\ proc'[q].alone = FALSE
                        /\ StageOK(q, proc'[q])
    OBVIOUS
  <2>2. proc'[q] = Crowded(proc[q]) /\ proc[q] \in ProcState
    BY <1>2
  <2> QED
    BY <1>2, <2>2, CrowdedShape
<1>4. proc' \in [Procs -> ProcState]
  <2>1. \A q \in Procs : Crowded(proc[q]) \in ProcState
    BY <1>3
  <2> QED
    BY <2>1
<1>5. TypeInv'
  <2>1. (TypeInv <=> /\ WorldOK
                     /\ proc \in [Procs -> ProcState]
                     /\ \A q \in Procs : StageOK(q, proc[q])
                     /\ \A q \in Procs : proc[q].fd = "file" => size # NoFile)'
    BY TypeParts, PTL
  <2> QED
    BY <1>2, <1>3, <1>4, <2>1
<1>6. MsgInv'
  <2>1. \A q \in Procs : (Holds(proc'[q]) <=> Holds(proc[q])) /\ proc'[q].msg = proc[q].msg
    BY <1>3 DEF Holds
  <2> QED
    BY <1>1, <2>1 DEF MsgInv
<1>7. AloneInv'
  BY <1>3 DEF AloneInv
<1>8. FdInv'
  <2>1. \A q \in Procs : Appends(proc'[q]) <=> Appends(proc[q])
    BY <1>3 DEF Appends
  <2> QED
    BY <1>1, <1>3, <2>1 DEF FdInv
<1>9. TotalRight'
  <2>1. SUFFICES ASSUME Good' PROVE Total'
    BY DEF TotalRight, Good
  <2>2. Unlisted' = Unlisted /\ Booked' = Booked
    BY <1>3 DEF Unlisted, Booked
  <2>3. \A q \in Procs : Removed(q)' = Removed(q)
    BY <1>3 DEF Removed
  <2>4. Purged' = Purged
    BY <2>3 DEF Purged
  <2>5. Total
    BY <1>1, <2>1 DEF TotalRight, Good
  <2> QED
    BY <2>1, <2>2, <2>4, <2>5 DEF Total
<1> QED
  BY <1>5, <1>6, <1>7, <1>8, <1>9 DEF IInv

LEMMA ReaderMovesIInv ==
    ASSUME IInv, NEW m \in Msgs, ReaderMoves(m)
    PROVE  IInv'
<1>1. WorldOK
  BY TypeParts DEF IInv
<1>2. proc' = [q \in Procs |-> Crowded(proc[q])]
  BY DEF ReaderMoves, Crowded
<1>3. /\ where' = [where EXCEPT ![m] = "cur"] /\ where[m] = "new"
      /\ stamp' = [d \in {"new", "cur"} |-> clock]
      /\ size' = size /\ clock' = clock /\ drift' = drift /\ events' = events
  BY <1>1 DEF ReaderMoves, WorldOK
<1>4. WorldOK'
  BY <1>1, <1>3 DEF WorldOK
<1>5. \A n \in Msgs : where[n] = "out" => where'[n] = "out"
  BY <1>1, <1>3 DEF WorldOK
<1>6. Inside' = Inside
  BY <1>1, <1>3 DEF Inside, WorldOK
<1>7. Good' => Good
  BY <1>3 DEF Good
<1> QED
  BY <1>2, <1>3, <1>4, <1>5, <1>6, <1>7, ReaderStep

LEMMA ReaderRemovesIInv ==
    ASSUME IInv, NEW m \in Msgs, ReaderRemoves(m)
    PROVE  IInv'
<1>1. WorldOK /\ events \in Nat /\ MaxEvents \in Nat
  BY TypeParts, QuotaAssumption DEF IInv, WorldOK
<1>2. proc' = [q \in Procs |-> Crowded(proc[q])]
  BY DEF ReaderRemoves, Crowded
<1>3. /\ where' = [where EXCEPT ![m] = "gone"] /\ where[m] = "cur"
      /\ stamp' = [stamp EXCEPT !["cur"] = clock]
      /\ size' = size /\ clock' = clock /\ drift' = "yes" /\ events' \in 0..MaxEvents
  BY <1>1 DEF ReaderRemoves, Worse, Event
<1>4. WorldOK'
  BY <1>1, <1>3 DEF WorldOK
<1>5. \A n \in Msgs : where[n] = "out" => where'[n] = "out"
  BY <1>1, <1>3 DEF WorldOK
<1>6. ~Good'
  BY <1>3 DEF Good
<1> QED
  BY <1>2, <1>3, <1>4, <1>5, <1>6, ReaderStep

\* Nothing happens but that time goes by.
LEMMA StillStep ==
    ASSUME IInv, UNCHANGED <<size, where, stamp, proc, events, drift>>, clock' \in 0..MaxClock
    PROVE  IInv'
<1>1. TypeInv /\ MsgInv /\ AloneInv /\ FdInv /\ TotalRight
  BY DEF IInv
<1>2. TypeInv'
  <2>1. WorldOK'
    BY <1>1, TypeParts DEF WorldOK
  <2>2. (TypeInv <=> /\ WorldOK
                     /\ proc \in [Procs -> ProcState]
                     /\ \A q \in Procs : StageOK(q, proc[q])
                     /\ \A q \in Procs : proc[q].fd = "file" => size # NoFile)'
    BY TypeParts, PTL
  <2> QED
    BY <1>1, <2>1, <2>2, TypeParts
<1>3. MsgInv'
  BY <1>1 DEF MsgInv
<1>4. AloneInv'
  BY <1>1 DEF AloneInv, Undisturbed, Counting, Counted
<1>5. FdInv'
  BY <1>1 DEF FdInv, Good
<1>6. TotalRight'
  <2>1. Inside' = Inside /\ Unlisted' = Unlisted /\ Booked' = Booked
    BY DEF Inside, Unlisted, Booked
  <2>2. Purged' = Purged
    <3>1. \A q \in Procs : Removed(q)' = Removed(q)
      BY DEF Removed
    <3> QED
      BY <3>1 DEF Purged
  <2>3. Total' <=> Total
    BY <2>1, <2>2 DEF Total
  <2> QED
    BY <1>1, <2>3 DEF TotalRight
<1> QED
  BY <1>2, <1>3, <1>4, <1>5, <1>6 DEF IInv

-----------------------------------------------------------------------------
(* The invariant holds in every state.                                     *)

LEMMA InitIInv == Init => IInv
<1> SUFFICES ASSUME Init PROVE IInv
  OBVIOUS
<1>1. \A q \in Procs : proc[q] = Idle
  BY DEF Init
<1>2. /\ size \in [quota : Sizes, sum : Int, lines : Nat, mtime : 0..MaxClock]
      /\ size # NoFile => size.quota # 0
      /\ size.sum = 0
  <2>1. OldQuota \in Nat \ {0} /\ 0 \in 0..MaxClock
    BY QuotaAssumption
  <2>2. \/ size = [quota |-> 0, sum |-> 0, lines |-> 0, mtime |-> 0]
        \/ size = [quota |-> OldQuota, sum |-> 0, lines |-> 1, mtime |-> 0]
    BY DEF Init, NoFile
  <2> QED
    BY <2>1, <2>2 DEF Sizes, NoFile
<1>3. WorldOK
  <2>1. 0 \in 0..MaxClock /\ 0 \in 0..MaxEvents
    BY QuotaAssumption
  <2> QED
    BY <1>2, <2>1 DEF Init, WorldOK
<1>4. TypeInv
  <2>1. proc \in [Procs -> ProcState]
    BY IdleShape DEF Init
  <2>2. \A q \in Procs : StageOK(q, proc[q]) /\ proc[q].fd = "none"
    BY <1>1, IdleShape
  <2> QED
    BY <1>3, <2>1, <2>2, TypeParts
<1>5. \A q \in Procs : /\ ~Holds(proc[q]) /\ ~Appends(proc[q]) /\ ~proc[q].alone
                       /\ ~Lists(proc[q]) /\ ~Books(proc[q]) /\ Taken(proc[q]) = 0
  BY <1>1, IdleShape DEF Holds, Appends, Lists, Books, Taken
<1>6. MsgInv /\ AloneInv /\ FdInv
  BY <1>5 DEF MsgInv, AloneInv, FdInv
<1>7. Inside = {}
  BY DEF Init, Inside
<1>8. Total
  BY <1>2, <1>4, <1>5, <1>7, TotalIdle, FS_EmptySet
<1> QED
  BY <1>4, <1>6, <1>8 DEF IInv, TotalRight

LEMMA BeginIInv ==
    ASSUME IInv, NEW p \in Procs, Begin(p)
    PROVE  IInv'
<1>1. CASE p \in Deliverers /\ \E m \in Msgs, job \in {"file", "pipe"} : Deliver(p, m, job)
  BY <1>1, DeliverIInv
<1>2. CASE p \in Purgers /\ \E m \in Msgs : PurgeStat(p, m)
  BY <1>2, PurgeStatIInv
<1>3. CASE Recalculate(p)
  BY <1>3, RecalculateIInv
<1>4. CASE \E q \in Quotas : QuotaSet(p, q)
  BY <1>4, QuotaSetIInv
<1> QED
  BY <1>1, <1>2, <1>3, <1>4 DEF Begin

LEMMA StepIInv ==
    ASSUME IInv, NEW p \in Procs, Step(p)
    PROVE  IInv'
BY OpenIInv, CountStatIInv, CountReadIInv, RenameIInv, WriteFailsIInv, CountRestatIInv,
   MoveIInv, Append1IInv, PurgeUnlinkIInv, PurgeEndIInv DEF Step

LEMMA NextIInv == IInv /\ [Next]_vars => IInv'
<1> SUFFICES ASSUME IInv, [Next]_vars PROVE IInv'
  OBVIOUS
<1>1. ASSUME NEW p \in Procs, Begin(p) \/ Step(p) \/ Die(p) PROVE IInv'
  BY <1>1, BeginIInv, StepIInv, DieIInv
<1>2. ASSUME NEW m \in Msgs, ReaderMoves(m) \/ ReaderRemoves(m) PROVE IInv'
  BY <1>2, ReaderMovesIInv, ReaderRemovesIInv
<1>3. clock \in 0..MaxClock /\ MaxClock \in Nat
  BY TypeParts, QuotaAssumption DEF IInv, WorldOK
<1>4. CASE Tick
  <2>1. UNCHANGED <<size, where, stamp, proc, events, drift>> /\ clock' \in 0..MaxClock
    BY <1>3, <1>4 DEF Tick
  <2> QED
    BY <2>1, StillStep
<1>5. CASE UNCHANGED vars
  <2>1. UNCHANGED <<size, where, stamp, proc, events, drift>> /\ clock' \in 0..MaxClock
    BY <1>3, <1>5 DEF vars
  <2> QED
    BY <2>1, StillStep
<1> QED
  BY <1>1, <1>2, <1>4, <1>5 DEF Next

LEMMA InvariantHolds == Spec => []IInv
BY InitIInv, NextIInv, PTL DEF Spec

\* The invariants of the size, the messages and the processes: maildirquota.c's
\* struct maildirsize is open only on a file that exists, no delivery counts
\* again more often than add_start allows, and an unlink has its message.
THEOREM TypeCorrect == Spec => []TypeOK
<1>1. IInv => TypeOK
  BY DEF IInv, TypeInv
<1> QED
  BY <1>1, InvariantHolds, PTL

\* The total in maildirsize (maildir_addquota's lines, the rename in
\* maildir_checkquota) is the number of messages in the maildir, less what
\* processes still have to enter, as long as none of the named races happened
\* since the last undisturbed recalculation.
THEOREM TotalKept == Spec => []TotalRight
<1>1. IInv => TotalRight
  BY DEF IInv
<1> QED
  BY <1>1, InvariantHolds, PTL

\* Only a purge leaves the total to a purge that recalculated.
LEMMA PurgeStep ==
    ASSUME IInv, [Next]_vars, drift' = "purge"
    PROVE  drift = "purge" \/ Purgers # {}
<1>1. TypeInv
  BY DEF IInv
<1>2. ASSUME NEW p \in Procs, Begin(p)
      PROVE  drift' = drift
  BY <1>2 DEF Begin, Deliver, PurgeStat, Recalculate, QuotaSet
<1>3. ASSUME NEW p \in Procs, Rename(p)
      PROVE  drift' \in {drift, "yes", "healed"} \/ Purgers # {}
  <2>1. proc[p].job = "purge" => p \in Purgers
    BY <1>1, ProcessOK DEF StageOK
  <2> QED
    BY <1>3, <2>1 DEF Rename
<1>4. ASSUME NEW p \in Procs, Open(p)
      PROVE  drift' \in {drift, "yes"}
  BY <1>4, Zenon DEF Open, Worse
<1>5. ASSUME NEW p \in Procs, CountRestat(p)
      PROVE  drift' \in {drift, "yes"}
  BY <1>5 DEF CountRestat, Worse
<1>6. ASSUME NEW p \in Procs, Step(p) \/ Die(p)
      PROVE  drift' \in {drift, "yes", "healed"} \/ Purgers # {}
  BY <1>3, <1>4, <1>5, <1>6 DEF Step, CountStat, CountRead, WriteFails, Move, Append1,
     PurgeUnlink, PurgeEnd, Die, Worse
<1>7. ASSUME NEW m \in Msgs, ReaderMoves(m) \/ ReaderRemoves(m)
      PROVE  drift' \in {drift, "yes"}
  BY <1>7 DEF ReaderMoves, ReaderRemoves, Worse
<1> QED
  BY <1>2, <1>6, <1>7 DEF Next, Tick, vars

\* Where nobody purges, a recalculation that has the maildir to itself sets the
\* total right, whoever asked for it (maildir_checkquota's docheckquota): it is
\* maildir_quota_deleted, and nothing else, that recalculation does not
\* compensate.
THEOREM HealedUnlessPurged ==
    ASSUME Purgers = {}
    PROVE  Spec => []RecalculationHeals
<1>1. Init => drift # "purge"
  BY DEF Init
<1>2. IInv /\ drift # "purge" /\ [Next]_vars => (drift # "purge")'
  BY PurgeStep
<1>3. IInv /\ drift # "purge" => RecalculationHeals
  BY TypeParts DEF IInv, WorldOK, TotalRight, RecalculationHeals
<1> QED
  BY <1>1, <1>2, <1>3, InvariantHolds, PTL DEF Spec

-----------------------------------------------------------------------------
(* The overshoot.                                                          *)

\* A process gets on only by steps of its own.
LEMMA OwnSteps ==
    ASSUME proc \in [Procs -> ProcState], NEW q \in Procs, NEW p \in Procs \ {q},
           Begin(q) \/ Step(q) \/ Die(q)
    PROVE  proc'[p].pc = proc[p].pc
<1> DEFINE a == proc[p]
           b == proc'[p]
<1>1. a \in ProcState
  OBVIOUS
<1>2. ASSUME NEW f, f[p] = a, proc' = Disturb(f, q) PROVE b = Crowded(a)
  BY <1>2 DEF Disturb, Crowded
<1>3. \A x : [proc EXCEPT ![q] = x][p] = a
  OBVIOUS
<1>4. b \in {a, Crowded(a), Renamed(a)}
  <2>1. CASE Begin(q)
    <3>1. CASE \E m \in Msgs, job \in {"file", "pipe"} : Deliver(q, m, job)
      BY <1>2, <1>3, <3>1 DEF Deliver
    <3>2. CASE \E m \in Msgs : PurgeStat(q, m)
      BY <1>2, <3>2 DEF PurgeStat
    <3>3. CASE Recalculate(q)
      BY <1>2, <1>3, <3>3 DEF Recalculate
    <3>4. CASE \E u \in Quotas : QuotaSet(q, u)
      BY <1>2, <1>3, <3>4 DEF QuotaSet
    <3> QED
      BY <2>1, <3>1, <3>2, <3>3, <3>4 DEF Begin
  <2>2. CASE Step(q)
    <3>1. ASSUME NEW r, NEW answer, Proceed(q, r, answer) PROVE b = a
      BY <1>3, <3>1 DEF Proceed
    <3>2. CASE Open(q)
      BY <3>1, <3>2 DEF Open
    <3>3. CASE CountStat(q) \/ CountRead(q) \/ PurgeEnd(q)
      BY <3>3 DEF CountStat, CountRead, PurgeEnd
    <3>4. CASE Rename(q)
      BY <3>4 DEF Rename, Renamed
    <3>5. CASE WriteFails(q)
      BY <3>1, <3>5 DEF WriteFails
    <3>6. CASE CountRestat(q)
      BY <3>1, <3>6 DEF CountRestat
    <3>7. CASE Move(q)
      BY <1>2, <1>3, <3>7 DEF Move
    <3>8. CASE Append1(q)
      BY <1>2, <1>3, <3>8 DEF Append1
    <3>9. CASE PurgeUnlink(q)
      BY <1>2, <3>9 DEF PurgeUnlink
    <3> QED
      BY <2>2, <3>2, <3>3, <3>4, <3>5, <3>6, <3>7, <3>8, <3>9 DEF Step
  <2>3. CASE Die(q)
    BY <1>2, <1>3, <2>3 DEF Die
  <2> QED
    BY <2>1, <2>2, <2>3
<1> HIDE DEF a, b
<1>5. b.pc = a.pc
  BY <1>1, <1>4, CrowdedShape, RenamedShape
<1> QED
  BY <1>5 DEF a, b

\* A delivery is let in by docheckquota's first look at maildirsize.
LEMMA LetInOpens ==
    ASSUME IInv, [Next]_vars, NEW p \in Procs, LetIn(p)
    PROVE  Open(p)
<1>1. proc \in [Procs -> ProcState] /\ proc[p].pc = "open" /\ proc'[p].pc \in {"move", "append"}
  BY DEF IInv, TypeInv, LetIn
<1>2. ASSUME NEW q \in Procs, Begin(q) \/ Step(q) \/ Die(q)
      PROVE  q = p
  BY <1>1, <1>2, OwnSteps
<1>3. ~Begin(p)
  BY <1>1 DEF Begin, Deliver, PurgeStat, Recalculate, QuotaSet
<1>4. ~Die(p)
  <2>1. SUFFICES ASSUME Die(p) PROVE FALSE
    OBVIOUS
  <2>2. proc' = Disturb([proc EXCEPT ![p] = Idle], p)
    BY <2>1 DEF Die
  <2>3. proc'[p] = Idle
    BY <1>1, <2>2, IdleShape, DisturbShape
  <2> QED
    BY <1>1, <2>3, IdleShape
<1>5. Step(p) => Open(p)
  BY <1>1 DEF Step, CountStat, CountRead, Rename, WriteFails, CountRestat, Move, Append1,
              PurgeUnlink, PurgeEnd
<1>6. ASSUME NEW m \in Msgs PROVE ~(ReaderMoves(m) \/ ReaderRemoves(m))
  <2>1. SUFFICES ASSUME ReaderMoves(m) \/ ReaderRemoves(m) PROVE FALSE
    OBVIOUS
  <2>2. proc'[p] = Crowded(proc[p])
    BY <2>1 DEF ReaderMoves, ReaderRemoves, Crowded
  <2>3. proc'[p].pc = proc[p].pc
    BY <1>1, <2>2, CrowdedShape
  <2> QED
    BY <1>1, <2>3
<1>7. ~Tick /\ ~UNCHANGED vars
  BY <1>1 DEF Tick, vars
<1> QED
  BY <1>2, <1>3, <1>4, <1>5, <1>6, <1>7 DEF Next

LEMMA DoorStep ==
    ASSUME IInv, [Next]_vars, NEW p \in Procs, LetIn(p), drift' \in {"none", "healed"}
    PROVE  Cardinality(Inside) + 1 <=
              size.quota + Cardinality({q \in Procs \ {p} : Owes(q)})
<1>1. TypeInv /\ TotalRight /\ Open(p)
  BY LetInOpens DEF IInv
<1>2. PICK s : /\ s = Checked(p, Opened(proc[p])) /\ Proceed(p, s, Verdict(s))
               /\ proc[p].pc = "open"
               /\ drift' = drift \/ drift' = "yes"
               /\ s.job \in {"file", "pipe"} /\ s.fd = "none" => drift' = "yes"
               /\ UNCHANGED <<size, where, stamp, clock, events>>
  BY <1>1, OpenShape
<1>3. /\ s \in ProcState
      /\ s.job = proc[p].job /\ s.msg = proc[p].msg /\ s.count = proc[p].count
      /\ s.job = "purge" => s.set = "yet" /\ (s.fd = "none" => size = NoFile)
      /\ s.fd = "none" \/ s.quota # 0
      /\ size # NoFile => s.fd # "none"
      /\ s.fd = "old" => s.recalc = TRUE /\ s.set = "runs" /\ s.job \in {"file", "pipe"}
      /\ s.fd = "file" => size # NoFile
      /\ s.fd = "file" /\ s.recalc = FALSE => s.sum = size.sum /\ s.quota = size.quota
  BY <1>1, <1>2, CheckedShape
<1>4. PICK answer \in {"ok", "over", "count"} : answer = Verdict(s)
  BY VerdictType
<1>5. answer = "count" => s.quota # 0
  BY <1>3, <1>4, VerdictType
<1>6. s.job \in {"file", "pipe"} /\ p \in Deliverers
  BY <1>1, <1>3, ProcessOK DEF LetIn, StageOK
<1>7. PICK c : c = Answered(p, s, answer)
  OBVIOUS
<1>8. /\ c.pc = "move" => answer = "ok" /\ s.job = "file" /\ s.set # "runs"
      /\ c.pc = "append" => /\ s.set # "runs"
                            /\ s.job = "purge" \/ (s.job = "pipe" /\ answer = "ok")
  BY <1>3, <1>5, <1>6, <1>7, ContinueShape
<1>9. proc'[p] = c
  BY <1>1, <1>2, <1>4, <1>7, ProcessOK DEF Proceed, Answered
<1>10. answer = "ok" /\ s.set # "runs" /\ s.fd = "file"
  <2>1. c.pc \in {"move", "append"}
    BY <1>9 DEF LetIn
  <2>2. s.fd \in {"none", "file", "old"}
    BY <1>3 DEF ProcState
  <2> QED
    BY <1>2, <1>3, <1>6, <1>8, <2>1, <2>2
<1>11. ~s.recalc /\ Within(s.sum + Extra(s), s.quota)
  <2>1. CASE ~(~s.recalc /\ Within(s.sum + Extra(s), s.quota))
    <3>1. Verdict(s) \in {"over", "count"}
      BY <1>10, <2>1, Zenon DEF Verdict
    <3> QED
      BY <1>4, <1>10, <3>1
  <2> QED
    BY <2>1
<1>12. size.sum + 1 <= size.quota
  <2>1. s.recalc \in BOOLEAN
    BY <1>3 DEF ProcState
  <2>2. s.sum = size.sum /\ s.quota = size.quota /\ s.quota # 0
    BY <1>3, <1>10, <1>11, <2>1
  <2>3. Extra(s) = 1
    BY <1>6, <1>10 DEF Extra
  <2> QED
    BY <1>11, <2>2, <2>3 DEF Within
<1>13. Total
  BY <1>1, <1>2, <1>3, <1>10 DEF TotalRight
<1> DEFINE others == {q \in Procs \ {p} : Owes(q)}
<1>14. Unlisted \in SUBSET others
  BY <1>2 DEF Unlisted, Owes
<1>15. IsFiniteSet(others)
  <2>1. IsFiniteSet(Procs) /\ others \in SUBSET Procs
    BY QuotaAssumption DEF Procs
  <2> QED
    BY <2>1, FS_Subset
<1> HIDE DEF others
<1>16. Cardinality(Unlisted) <= Cardinality(others) /\ Cardinality(others) \in Nat
  BY <1>14, <1>15, FS_Subset, FS_CardinalityType
<1>17. /\ Cardinality(Inside) \in Nat /\ Cardinality(Booked) \in Nat
       /\ Cardinality(Purged) \in Nat /\ Cardinality(Unlisted) \in Nat
       /\ size.sum \in Int /\ size.quota \in Nat
  BY <1>1, AccountParts, TypeParts, QuotaAssumption DEF WorldOK, Sizes
<1>18. Cardinality(Inside) + 1 <= size.quota + Cardinality(others)
  BY <1>12, <1>13, <1>16, <1>17 DEF Total
<1> QED
  BY <1>18 DEF others

\* A delivery that is let in while the total is right (docheckquota's
\* checkOneQuota against what do_maildir_openquotafile added up) leaves the
\* maildir over its quota by one message at most for every other delivery that
\* was let in before it and is still at work.
THEOREM DoorKept == Spec => DoorShut
<1> DEFINE A == \A p \in Procs : (LetIn(p) /\ drift' \in {"none", "healed"}) =>
                  Cardinality(Inside) + 1 <=
                     size.quota + Cardinality({q \in Procs \ {p} : Owes(q)})
<1>1. IInv /\ [Next]_vars => [A]_vars
  BY DoorStep
<1> QED
  BY <1>1, InvariantHolds, PTL DEF Spec, DoorShut
=============================================================================
