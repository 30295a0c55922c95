--------------------------- MODULE MaildirQuota -----------------------------
(***************************************************************************)
(* The quota of a Maildir++ (maildir/maildirquota.c) as several processes  *)
(* use it: deliverquota puts messages into the maildir, maildir_purge      *)
(* removes old ones, maildirmake -q and maildir_quota_recalculate rewrite  *)
(* the total, and a mail reader that knows nothing of quotas moves and     *)
(* removes messages.                                                       *)
(*                                                                         *)
(* There are no locks.  The file maildirsize holds the quota and one line  *)
(* per change; a process opens it, adds up the lines, later appends its    *)
(* own change to the file it opened.  A recalculation reads the            *)
(* directories one by one, writes a new file in tmp/ and renames it over   *)
(* maildirsize, so that a process that has the old file open appends to a  *)
(* file nobody will read again.                                            *)
(*                                                                         *)
(* Every message has size one: the byte count and the message count are    *)
(* one number.  Opening and reading maildirsize is one step.               *)
(***************************************************************************)
EXTENDS Integers, Sequences, FiniteSets

CONSTANTS
    Deliverers,   \* deliverquota processes
    Purgers,      \* processes in maildir_purge
    Keepers,      \* maildirmake -q, maildir_quota_recalculate
    Msgs,         \* the messages
    Quotas,       \* the quotas that may be asked for
    OldQuota,     \* the quota in maildirsize at the beginning, if it exists
    NewQuota,     \* NewQuota[p]: the quota argument of deliverquota p, or 0
    MaxTries,     \* how often add_start tries again (5)
    MaxLines,     \* the lines that fill the 5120 bytes do_openquotafile reads
    Quarter,      \* 15*60 seconds
    MaxClock,     \* bound: the seconds that pass
    MaxEvents     \* bound: deaths, failed writes, removals by a reader, quotas
                  \* set and recalculations asked for

ASSUME QuotaAssumption ==
    /\ Quotas \cup {OldQuota} \subseteq Nat \ {0}
    /\ NewQuota \in [Deliverers -> Quotas \cup {0}]
    /\ MaxTries \in Nat \ {0} /\ MaxLines \in Nat /\ Quarter \in Nat
    /\ MaxClock \in Nat /\ MaxEvents \in Nat
    /\ IsFiniteSet(Msgs) /\ IsFiniteSet(Deliverers \cup Purgers \cup Keepers)

VARIABLES
    size,    \* maildirsize: [quota, sum, lines, mtime], NoFile if absent
    where,   \* where[m]: "out", in one of the directories, or "gone"
    stamp,   \* stamp[d]: the modification time of directory d
    clock,   \* time()
    proc,    \* proc[p]: the state of process p
    events,  \* how many of the events that MaxEvents bounds there were
    drift    \* "none": nothing has thrown the total off; "yes": something has;
             \* "purge": only a purge that recalculated; "healed": a
             \* recalculation has set it right since

vars == <<size, where, stamp, clock, proc, events, drift>>

Procs == Deliverers \cup Purgers \cup Keepers

\* The order in which countcurnew reads the directories.
Dirs == <<"new", "cur">>

NoFile == [quota |-> 0, sum |-> 0, lines |-> 0, mtime |-> 0]

\* struct maildirsize after memset and fd = -1, with the process's own locals.
\* fd: "none", "file" (the present maildirsize), "old" (one renamed over).
\* set: maildir_quota_set, called by add_start, is "yet" to run, runs, has run.
Idle == [pc |-> "idle", job |-> "none", msg |-> {}, dir |-> "cur", count |-> 0,
         fd |-> "none", quota |-> 0, sum |-> 0, lines |-> 0, mtime |-> 0,
         recalc |-> FALSE, tries |-> 0, seen |-> 0, maxtime |-> 0, next |-> 1,
         set |-> "yet", alone |-> FALSE]

Init ==
    /\ size \in {NoFile, [NoFile EXCEPT !.quota = OldQuota, !.lines = 1]}
    /\ where = [m \in Msgs |-> "out"]
    /\ stamp = [d \in {"new", "cur"} |-> 0]
    /\ clock = 0
    /\ proc = [p \in Procs |-> Idle]
    /\ events = 0
    /\ drift = "none"

Inside == {m \in Msgs : where[m] \in {"new", "cur"}}
Counting(p) == proc[p].pc \in {"stat", "read", "rename"}

\* p starts or changes something: no recalculation under way is alone any more.
Disturb(ps, p) ==
    [q \in Procs |-> IF q = p THEN ps[q] ELSE [ps[q] EXCEPT !.alone = FALSE]]

Worse == drift' = "yes"
Event == events < MaxEvents /\ events' = events + 1

-----------------------------------------------------------------------------
(* docheckquota.                                                           *)

\* checkOneQuota: no quota, or the size is within it.
Within(total, quota) == quota = 0 \/ total <= quota

\* What p adds: xtra_size, xtra_cnt.
Extra(r) ==
    CASE r.job \in {"file", "pipe"} /\ r.set # "runs" -> 1
      [] r.job = "purge" -> -r.count
      [] OTHER -> 0

\* Mutant: the message itself is left out of the comparison.
Verdict_without(r) ==
    CASE r.fd = "none" -> "ok"
      [] ~r.recalc /\ Within(r.sum, r.quota) -> "ok"
      [] r.fd # "none" /\ ~r.recalc /\ ~Within(r.sum, r.quota)
            /\ r.lines = 1 /\ clock < r.mtime + Quarter -> "over"
      [] OTHER -> "count"

\* The total is within the quota, or it is not and was calculated in the last
\* quarter of an hour, or it has to be calculated.
Verdict(r) ==
    CASE r.fd = "none" -> "ok"
      [] ~r.recalc /\ Within(r.sum + Extra(r), r.quota) -> "ok"
      [] r.fd # "none" /\ ~r.recalc /\ ~Within(r.sum + Extra(r), r.quota)
            /\ r.lines = 1 /\ clock < r.mtime + Quarter -> "over"
      [] OTHER -> "count"

\* What the caller does with docheckquota's answer: a delivery with a regular
\* file writes the message first, one from a pipe has written it; the purge
\* appends whatever the answer; the others are done.
Continue(r, answer) ==
    LET job(pc) == [Idle EXCEPT !.pc = pc, !.job = r.job, !.msg = r.msg, !.count = r.count]
        keep(pc) == [job(pc) EXCEPT !.fd = r.fd]
    IN  CASE answer = "count" ->
               [keep("stat") EXCEPT !.quota = r.quota, !.tries = r.tries, !.set = r.set]
          [] answer # "count" /\ r.set = "runs" ->
               IF r.job = "set" THEN Idle ELSE [job("open") EXCEPT !.set = "done"]
          [] answer # "count" /\ r.set # "runs" /\ r.job = "purge" -> keep("append")
          [] answer = "ok" /\ r.set # "runs" /\ r.job = "file" -> keep("move")
          [] answer = "ok" /\ r.set # "runs" /\ r.job = "pipe" -> keep("append")
          [] OTHER -> Idle

\* Nobody else is doing anything: what p counts is what there is.
Undisturbed(p) == \A q \in Procs \ {p} : proc[q].pc = "idle"

Proceed(p, r, answer) ==
    proc' = [proc EXCEPT ![p] = [Continue(r, answer) EXCEPT
                                   !.alone = answer = "count" /\ Undisturbed(p)]]

\* do_maildir_openquotafile: the lines are added up, unless they fill the
\* buffer; the total is no good if it is negative.
Opened(r) ==
    IF size = NoFile THEN [r EXCEPT !.fd = "none"]
    ELSE LET full == size.lines >= MaxLines
         IN  [r EXCEPT !.fd = "file", !.quota = size.quota, !.mtime = size.mtime,
                       !.sum = IF full THEN 0 ELSE size.sum,
                       !.lines = IF full THEN 0 ELSE size.lines,
                       !.recalc = r.job = "recalculate" \/ full \/ size.sum < 0]

-----------------------------------------------------------------------------
(* The processes.                                                          *)

\* deliverquota begins: a regular file, or a pipe copied to tmp/ first.
Deliver(p, m, job) ==
    /\ proc[p].pc = "idle" /\ where[m] = "out"
    /\ \A q \in Deliverers : proc[q].msg # {m}
    /\ proc' = Disturb([proc EXCEPT ![p] =
                          [Idle EXCEPT !.pc = "open", !.job = job, !.msg = {m}]], p)
    /\ UNCHANGED <<size, where, stamp, clock, drift, events>>

\* maildir_quota_recalculate.
Recalculate(p) ==
    /\ proc[p].pc = "idle" /\ size # NoFile
    /\ proc' = Disturb([proc EXCEPT ![p] =
                          [Idle EXCEPT !.pc = "open", !.job = "recalculate"]], p)
    /\ Event
    /\ UNCHANGED <<size, where, stamp, clock, drift>>

\* maildir_quota_set: /dev/null is opened in place of maildirsize.
Setting(r, quota) ==
    [r EXCEPT !.fd = "old", !.quota = quota, !.recalc = TRUE, !.set = "runs"]

QuotaSet(p, quota) ==
    /\ proc[p].pc = "idle"
    /\ proc' = Disturb([proc EXCEPT ![p] =
                          [Continue(Setting([Idle EXCEPT !.job = "set"], quota), "count") EXCEPT
                             !.alone = Undisturbed(p)]], p)
    /\ Event
    /\ UNCHANGED <<size, where, stamp, clock, drift>>

\* dopurge: an old message is found and counted, then unlinked; whether the
\* unlink succeeds is not looked at.
PurgeStat(p, m) ==
    /\ proc[p].pc \in {"idle", "purge"} /\ m \in Inside
    /\ proc[p].dir = "new" => where[m] = "new"
    /\ proc' = Disturb([proc EXCEPT ![p].pc = "unlink", ![p].job = "purge", ![p].msg = {m},
                                    ![p].dir = where[m], ![p].count = @ + 1], p)
    /\ UNCHANGED <<size, where, stamp, clock, drift, events>>

PurgeUnlink(p) ==
    /\ proc[p].pc = "unlink"
    /\ \E m \in proc[p].msg :
         IF where[m] = proc[p].dir
         THEN /\ where' = [where EXCEPT ![m] = "gone"]
              /\ stamp' = [stamp EXCEPT ![proc[p].dir] = clock]
              /\ UNCHANGED drift
         ELSE Worse /\ UNCHANGED <<where, stamp>>
    /\ proc' = Disturb([proc EXCEPT ![p].pc = "purge", ![p].msg = {}], p)
    /\ UNCHANGED <<size, clock, events>>

\* maildir_purge has gone through both directories.
PurgeEnd(p) ==
    /\ proc[p].pc = "purge"
    /\ proc' = [proc EXCEPT ![p].pc = "open"]
    /\ UNCHANGED <<size, where, stamp, clock, drift, events>>

\* maildir_openquotafile, and the first look at the total.  deliverquota with a
\* quota argument sets it where there is none, and recalculates with it where
\* there is another.
Open(p) ==
    /\ proc[p].pc = "open"
    /\ LET r == Opened(proc[p])
           want == IF r.job \in {"file", "pipe"} /\ r.set = "yet" THEN NewQuota[p] ELSE 0
           s == CASE want # 0 /\ r.fd = "none" -> Setting(r, want)
                  [] want # 0 /\ r.fd # "none" /\ want # r.quota ->
                       [r EXCEPT !.quota = want, !.recalc = TRUE]
                  [] OTHER -> r
       IN  /\ Proceed(p, s, Verdict(s))
           /\ IF r.job \in {"file", "pipe"} /\ s.fd = "none" THEN Worse ELSE UNCHANGED drift
    /\ UNCHANGED <<size, where, stamp, clock, events>>

\* Mutant: the last directory is not read.
CountRead_skip(p) ==
    /\ proc[p].pc = "read"
    /\ LET n == proc[p].next
       IN  proc' = [proc EXCEPT ![p].seen = @ + Cardinality({m \in Msgs : where[m] = Dirs[n]}),
                                ![p].next = n + 1,
                                ![p].pc = "rename"]
    /\ UNCHANGED <<size, where, stamp, clock, drift, events>>

\* The later of two times.
Later(s, t) == IF s < t THEN t ELSE s

\* docount: the directory's time is taken before its files are read.
CountStat(p) ==
    /\ proc[p].pc = "stat"
    /\ proc' = [proc EXCEPT ![p].pc = "read",
                            ![p].maxtime = Later(@, stamp[Dirs[proc[p].next]])]
    /\ UNCHANGED <<size, where, stamp, clock, drift, events>>

CountRead(p) ==
    /\ proc[p].pc = "read"
    /\ LET n == proc[p].next
       IN  proc' = [proc EXCEPT ![p].seen = @ + Cardinality({m \in Msgs : where[m] = Dirs[n]}),
                                ![p].next = n + 1,
                                ![p].pc = IF n = Len(Dirs) THEN "rename" ELSE "stat"]
    /\ UNCHANGED <<size, where, stamp, clock, drift, events>>

\* The new file replaces maildirsize, and becomes p's own.  The total is right
\* if nobody did anything meanwhile, and p itself has nothing left to append
\* that has already happened.
Rename(p) ==
    /\ proc[p].pc = "rename"
    /\ LET r == proc[p]
       IN  /\ size' = [quota |-> r.quota, sum |-> r.seen, lines |-> 1, mtime |-> clock]
           /\ proc' = [q \in Procs |->
                 IF q = p
                 THEN [r EXCEPT !.pc = "restat", !.fd = "file", !.recalc = FALSE,
                                !.sum = r.seen, !.lines = 1, !.mtime = clock, !.alone = FALSE]
                 ELSE [proc[q] EXCEPT !.fd = IF @ = "file" THEN "old" ELSE @]]
           /\ drift' = CASE ~r.alone -> "yes"
                         [] r.alone /\ r.job = "purge" -> "purge"
                         [] r.alone /\ r.job # "purge" /\ drift # "none" -> "healed"
                         [] OTHER -> drift
    /\ UNCHANGED <<where, stamp, clock, events>>

\* The new file cannot be written (EIO): docheckquota fails.
WriteFails(p) ==
    /\ proc[p].pc = "rename"
    /\ Proceed(p, proc[p], "over")
    /\ Event
    /\ UNCHANGED <<size, where, stamp, clock, drift>>

\* Mutant: one attempt too many.
CountRestat_more(p) ==
    /\ proc[p].pc = "restat"
    /\ LET r == proc[p]
           again == Later(stamp["new"], stamp["cur"]) # r.maxtime
           retry == [r EXCEPT !.recalc = TRUE, !.lines = 0, !.tries = @ + 1]
           given == [retry EXCEPT !.fd = "none"]
       IN  CASE ~again ->
                  /\ Proceed(p, r, IF Within(r.sum + Extra(r), r.quota) THEN "ok" ELSE "over")
                  /\ UNCHANGED drift
             [] again /\ (r.job \notin {"file", "pipe"} \/ r.set = "runs") ->
                  Proceed(p, retry, "over") /\ UNCHANGED drift
             [] again /\ r.job \in {"file", "pipe"} /\ r.set # "runs"
                  /\ retry.tries <= MaxTries ->
                  Proceed(p, retry, "count") /\ UNCHANGED drift
             [] OTHER -> Proceed(p, given, "ok") /\ Worse
    /\ UNCHANGED <<size, where, stamp, clock, events>>

\* A later time in a directory: someone changed something.  add_start tries
\* again, and lets the message in uncounted when it has tried often enough.
CountRestat(p) ==
    /\ proc[p].pc = "restat"
    /\ LET r == proc[p]
           again == Later(stamp["new"], stamp["cur"]) # r.maxtime
           retry == [r EXCEPT !.recalc = TRUE, !.lines = 0, !.tries = @ + 1]
           given == [retry EXCEPT !.fd = "none"]
       IN  CASE ~again ->
                  /\ Proceed(p, r, IF Within(r.sum + Extra(r), r.quota) THEN "ok" ELSE "over")
                  /\ UNCHANGED drift
             [] again /\ (r.job \notin {"file", "pipe"} \/ r.set = "runs") ->
                  Proceed(p, retry, "over") /\ UNCHANGED drift
             [] again /\ r.job \in {"file", "pipe"} /\ r.set # "runs"
                  /\ retry.tries < MaxTries ->
                  Proceed(p, retry, "count") /\ UNCHANGED drift
             [] OTHER -> Proceed(p, given, "ok") /\ Worse
    /\ UNCHANGED <<size, where, stamp, clock, events>>

\* maildir_movetmpnew; a regular file is counted after that, a pipe's message
\* has been.
Move(p) ==
    /\ proc[p].pc = "move"
    /\ \E m \in proc[p].msg : where' = [where EXCEPT ![m] = "new"]
    /\ stamp' = [stamp EXCEPT !["new"] = clock]
    /\ proc' = Disturb([proc EXCEPT ![p] =
                          IF @.job = "file" THEN [@ EXCEPT !.pc = "append"] ELSE Idle], p)
    /\ UNCHANGED <<size, clock, drift, events>>

\* maildir_addquota on the file that p opened, or made.
Append1(p) ==
    /\ proc[p].pc = "append"
    /\ size' = IF proc[p].fd = "file"
               THEN [size EXCEPT !.sum = @ + Extra(proc[p]), !.lines = @ + 1, !.mtime = clock]
               ELSE size
    /\ proc' = Disturb([proc EXCEPT ![p] =
                          IF @.job = "pipe" THEN [@ EXCEPT !.pc = "move"] ELSE Idle], p)
    /\ UNCHANGED <<where, stamp, clock, drift, events>>

\* p's own part of the account is not complete yet.
Owes(p) ==
    \/ proc[p].job \in {"file", "pipe"} /\ proc[p].pc \in {"move", "append"}
    \/ proc[p].job = "purge"

\* A process is killed.
Die(p) ==
    /\ proc[p].pc # "idle"
    /\ proc' = Disturb([proc EXCEPT ![p] = Idle], p)
    /\ IF Owes(p) THEN Worse ELSE UNCHANGED drift
    /\ Event
    /\ UNCHANGED <<size, where, stamp, clock>>

\* A mail reader moves a message from new to cur (maildir_getnew) ...
ReaderMoves(m) ==
    /\ where[m] = "new"
    /\ where' = [where EXCEPT ![m] = "cur"]
    /\ stamp' = [d \in DOMAIN stamp |-> clock]
    /\ proc' = [p \in Procs |-> [proc[p] EXCEPT !.alone = FALSE]]
    /\ UNCHANGED <<size, clock, drift, events>>

\* ... or removes one, without telling maildirsize.
ReaderRemoves(m) ==
    /\ where[m] = "cur"
    /\ where' = [where EXCEPT ![m] = "gone"]
    /\ stamp' = [stamp EXCEPT !["cur"] = clock]
    /\ proc' = [p \in Procs |-> [proc[p] EXCEPT !.alone = FALSE]]
    /\ Worse
    /\ Event
    /\ UNCHANGED <<size, clock>>

Tick ==
    /\ clock < MaxClock
    /\ clock' = clock + 1
    /\ UNCHANGED <<size, where, stamp, proc, drift, events>>

-----------------------------------------------------------------------------
Step(p) ==
    \/ Open(p) \/ CountStat(p) \/ CountRead(p) \/ Rename(p) \/ WriteFails(p)
    \/ CountRestat(p) \/ Move(p) \/ Append1(p) \/ PurgeUnlink(p) \/ PurgeEnd(p)

Begin(p) ==
    \/ p \in Deliverers /\ \E m \in Msgs, job \in {"file", "pipe"} : Deliver(p, m, job)
    \/ p \in Purgers /\ \E m \in Msgs : PurgeStat(p, m)
    \/ p \in Keepers /\ (Recalculate(p) \/ \E q \in Quotas : QuotaSet(p, q))

Next ==
    \/ \E p \in Procs : Begin(p) \/ Step(p) \/ Die(p)
    \/ \E m \in Msgs : ReaderMoves(m) \/ ReaderRemoves(m)
    \/ Tick

Spec == Init /\ [][Next]_vars

-----------------------------------------------------------------------------
(* Properties.                                                             *)
\* The type invariant: also, a delivery tries the check five times at most, and
\* has maildirsize open only if there is one.
TypeOK ==
    /\ size \in [quota : Quotas \cup {0, OldQuota}, sum : Int, lines : Nat, mtime : 0..MaxClock]
    /\ where \in [Msgs -> {"out", "new", "cur", "gone"}]
    /\ stamp \in [{"new", "cur"} -> 0..MaxClock]
    /\ clock \in 0..MaxClock
    /\ \A p \in Procs :
         /\ proc[p].tries \in 0..(MaxTries - 1)
         /\ proc[p].fd \in {"none", "file", "old"}
         /\ proc[p].fd = "file" => size # NoFile
         /\ proc[p].pc = "unlink" => proc[p].msg # {}
    /\ events \in 0..MaxEvents
    /\ drift \in {"none", "yes", "purge", "healed"}

\* Deliveries whose message is in the maildir and not in the total, and those
\* whose message is in the total and not in the maildir.
Unlisted == {p \in Procs : proc[p].job = "file" /\ proc[p].pc = "append"}
Booked == {p \in Procs : proc[p].job = "pipe" /\ proc[p].pc = "move"}

\* How many messages purge p has removed and not subtracted; all of those.
Removed(p) ==
    CASE proc[p].job = "purge" /\ proc[p].pc = "unlink" -> proc[p].count - 1
      [] proc[p].job = "purge" /\ proc[p].pc # "unlink" -> proc[p].count
      [] OTHER -> 0

Purged == UNION {{p} \X (1..Removed(p)) : p \in Procs}

Total ==
    Cardinality(Inside) + Cardinality(Booked) + Cardinality(Purged)
       = size.sum + Cardinality(Unlisted)

\* The total in maildirsize is the number of messages, less what processes that
\* are still at work have yet to enter, unless one of these happened since the
\* last recalculation that had the maildir to itself: a recalculation while
\* another process was at work, a purge that recalculated, an unlink that
\* failed, a message let in uncounted, a death, a reader that removes mail.
\* (maildirquota.c: the appends, the recalculation, the order of both.)
TotalRight == (size # NoFile /\ drift \in {"none", "healed"}) => Total

\* A recalculation that has the maildir to itself sets the total right, whoever
\* asked for it.  maildir_quota_deleted counts the messages that are left and
\* then subtracts the ones maildir_purge has already removed a second time.
RecalculationHeals ==
    (size # NoFile /\ drift # "yes" /\ \A p \in Procs : proc[p].pc = "idle") => Total

\* The quota is changed only by who was asked to change it: a recalculation
\* keeps the one maildirsize has.  It writes the one it read when it opened the
\* file, which maildirmake -q may have replaced since.
QuotaKept ==
    [][\A p \in Purgers \cup Keepers :
          (proc[p].pc = "rename" /\ proc[p].set # "runs" /\ proc'[p].pc = "restat")
             => size'.quota = size.quota]_vars

\* How far deliveries may overshoot, "a few extra messages before the door is
\* shut": while the total is right, a message that is let in on the strength of
\* maildirsize leaves the maildir within the quota, but for one message for
\* every other delivery that was let in before and is still at work.
LetIn(p) ==
    /\ proc[p].job \in {"file", "pipe"}
    /\ proc[p].pc = "open" /\ proc'[p].pc \in {"move", "append"}

DoorShut ==
    [][\A p \in Procs : (LetIn(p) /\ drift' \in {"none", "healed"}) =>
          Cardinality(Inside) + 1 <=
             size.quota + Cardinality({q \in Procs \ {p} : Owes(q)})]_vars
=============================================================================
