------------------------- MODULE CronServiceProofs -------------------------
(***************************************************************************)
(* Proofs about CronService, for any jobs, generations of the service and  *)
(* bounds.                                                                 *)
(*                                                                         *)
(* The argument: as long as no write went missing, a service that has not  *)
(* read the file since another wrote it will read it before it writes, and *)
(* one that is about to write made its store of the file as it is.  So the *)
(* file always passes from one good store to the next.                     *)
(*                                                                         *)
(* What runs do needs two things more: one loop at a time, unless a start  *)
(* overlapped an earlier loop, and an account of the runs that have ended  *)
(* and whose outcome is still on its way to the file.                      *)
(***************************************************************************)
EXTENDS CronService, TLAPS

NoLoss    == gaps \cap LostWrites = {}
Running   == \E g \in Gens : status[g] = "running"
Outcomes  == {"end", "done", "auto"}
Unplanned(r) == r # None /\ r.on /\ r.next = None
Missed(i) == i \notin Periodic /\ "missed" \in gaps

(* A store says of each job what the commands made of it. *)
Obeys(st, w) ==
  \A j \in Jobs :
    /\ w[j] = "on" => st[j] # None /\ st[j].on
    /\ w[j] = "off" => st[j] # None /\ ~st[j].on
    /\ w[j] \in {"new", "gone"} => st[j] = None

(* What a saved operation makes of wanted (Record). *)
WantedAfter(w, op, j) ==
  CASE op \in {"add", "enable"} -> [w EXCEPT ![j] = "on"]
    [] op \in {"disable", "auto"} -> [w EXCEPT ![j] = "off"]
    [] op \in {"remove", "done"} -> [w EXCEPT ![j] = "gone"]
    [] OTHER -> w

(* A write is for a job, but for those of Start and checkJobs.             *)
Aimed ==
  \A s \in Services, op \in Writes, j \in Jobs \cup {None} :
    pending[s] = <<op, j>> /\ op \notin {"start", "check"} => j \in Jobs

(* A service that holds no mutex knows the file, or knows that it does not.*)
Reread == \A s \in Services : pending[s] = None => s \in unread \/ mem[s] = file

(* What a service is about to write, if it knows the file: it does what    *)
(* its operation is for, and a job that it leaves with no next run had     *)
(* none, is one it collected, or is an 'at' job whose time was missed.     *)
GoodStore(s, st, op, j) ==
  /\ Obeys(st, WantedAfter(wanted, op, j))
  /\ op \notin {"start", "check"} => wanted[j] # "gone"
  /\ \A i \in Jobs : Unplanned(st[i]) =>
       \/ Unplanned(file[i]) /\ op # "start" /\ (op \in Outcomes => i # j)
       \/ op = "check" /\ s \in Gens /\ i \in due[s]
       \/ Missed(i)

Written ==
  \A s \in Services, op \in Writes, j \in Jobs \cup {None} :
    s \notin unread /\ pending[s] = <<op, j>> => GoodStore(s, mem[s], op, j)

(* A collected job that its service no longer has was removed. *)
Collected ==
  \A g \in Gens : \A i \in due[g] :
    /\ wanted[i] # "new"
    /\ mem[g][i] = None =>
         wanted[i] = "gone" \/ pending[g] \in {<<"remove", i>>, <<"done", i>>}

(* Where the enabled jobs with no next run are. *)
Planned ==
  Running => \A i \in Jobs : Unplanned(file[i]) =>
    \/ \E g \in Gens : i \in due[g] \/ exec[g] = i
    \/ \E s \in Services, op \in Outcomes : pending[s] = <<op, i>>
    \/ Missed(i)

Kept == Obeys(file, wanted) /\ Reread /\ Written /\ Collected /\ Planned
CronInv == TypeOK /\ Aimed /\ (NoLoss => Kept)
-----------------------------------------------------------------------------
(***************************************************************************)
(* Types.                                                                  *)
(***************************************************************************)
LEMMA NextRunType ==
  ASSUME NEW j \in Jobs, NEW t \in Nat
  PROVE  NextRun(j, t) \in Nat \cup {None} /\ (j \in Periodic => NextRun(j, t) # None)
BY CronAssumption DEF NextRun

LEMMA ReloadType ==
  ASSUME TypeOK, NEW s \in Services
  PROVE  Reload(s) \in Stores
BY DEF TypeOK, Reload

(* A store in which one job is replaced, and a job in which fields are.    *)
LEMMA PutType ==
  ASSUME NEW st \in Stores, NEW j \in Jobs, NEW r \in Job \cup {None}
  PROVE  [st EXCEPT ![j] = r] \in Stores
BY DEF Stores

LEMMA JobType ==
  ASSUME NEW st \in Stores, NEW j \in Jobs, st[j] # None
  PROVE  st[j] \in Job
BY DEF Stores

LEMMA FieldTypes ==
  ASSUME NEW r \in Job, NEW on \in BOOLEAN, NEW n \in Nat \cup {None},
         NEW b \in BOOLEAN, NEW f \in Nat
  PROVE  /\ [r EXCEPT !.on = on] \in Job /\ [r EXCEPT !.next = n] \in Job
         /\ [r EXCEPT !.fails = f] \in Job
         /\ [r EXCEPT !.on = on, !.next = n] \in Job
         /\ [r EXCEPT !.on = on, !.next = n, !.fails = f] \in Job
         /\ [r EXCEPT !.back = b, !.fails = f] \in Job
BY DEF Job

LEMMA WriteType ==
  ASSUME TypeOK, NEW s \in Services, NEW st \in Stores, NEW op \in Writes,
         NEW j \in Jobs \cup {None}, Write(s, st, op, j)
  PROVE  /\ mem' \in [Services -> Stores]
         /\ unread' \subseteq Services
         /\ pending' \in [Services -> (Writes \X (Jobs \cup {None})) \cup {None}]
BY DEF TypeOK, Write

LEMMA LookType ==
  ASSUME TypeOK, NEW s \in Services, Look(s)
  PROVE  /\ mem' \in [Services -> Stores]
         /\ unread' \subseteq Services
         /\ pending' \in [Services -> (Writes \X (Jobs \cup {None})) \cup {None}]
BY ReloadType DEF TypeOK, Look

(* What the operations write of a job is a job. *)
LEMMA NewJobType ==
  ASSUME NEW j \in Jobs, NEW t \in Nat
  PROVE  NewJob(j, t) \in Job
BY NextRunType DEF NewJob, Job

LEMMA UpdatedType ==
  ASSUME now \in Nat, NEW j \in Jobs, NEW previous \in Job, NEW copy \in Job,
         NEW change \in {"name", "payload", "schedule"}
  PROVE  Updated(j, previous, copy, change) \in Job
<1>1. NextRun(j, now) \in Nat \cup {None}
  BY NextRunType
<1>2. [copy EXCEPT !.fails = 0] \in Job
  BY DEF Job
<1> QED
  BY <1>1, <1>2 DEF Updated, Job

LEMMA RecomputedType ==
  ASSUME now \in Nat, NEW j \in Jobs, NEW r \in Job \cup {None}
  PROVE  Recomputed(j, r) \in Job \cup {None}
BY NextRunType, FieldTypes DEF Recomputed

LEMMA TalliedType ==
  ASSUME NEW r \in Job, NEW outcome \in {"ok", "error", "canceled"}
  PROVE  Tallied(r, outcome) \in Job /\ Tallied(r, outcome).on = r.on
<1>1. r.fails \in Nat /\ r.fails + 1 \in Nat
  BY DEF Job
<1> QED
  BY <1>1 DEF Tallied, Job

LEMMA AfterRunType ==
  ASSUME now \in Nat, NEW j \in Jobs, NEW r \in Job,
         NEW outcome \in {"ok", "error", "canceled"}, NEW long \in BOOLEAN
  PROVE  AfterRun(j, r, outcome, long) \in Job \cup {None}
<1>1. NextRun(j, now) \in Nat \cup {None} /\ now + Retry \in Nat
  BY NextRunType, CronAssumption
<1> QED
  BY <1>1, FieldTypes DEF AfterRun

(* The count of failures is that of the job before, or starts anew.        *)
SameCount(old, new) ==
  new # None => new.fails = 0 \/ (old # None /\ new.fails = old.fails)

CommandTyped(s, j) ==
  \/ AddJob(s, j) \/ RemoveJob(s, j) \/ RunNow(s, j) \/ EnableJob(s, j) \/ DisableJob(s, j)

(* What a command that writes makes of the store its service has read.     *)
Commanded(s, st, op, j) ==
  /\ Write(s, st, op, j)
  /\ \A i \in Jobs \ {j} : st[i] = Reload(s)[i]
  /\ op = "add" => wanted[j] = "new" /\ st[j] # None /\ st[j].on
  /\ op # "add" => Reload(s)[j] # None
  /\ op = "remove" => st[j] = None
  /\ op = "enable" => st[j] # None /\ st[j].on
  /\ op = "disable" => st[j] # None /\ ~st[j].on
  /\ op = "run" => st[j] # None /\ st[j].on /\ Reload(s)[j].on
  /\ ~Unplanned(st[j])
  /\ SameCount(Reload(s)[j], st[j])
  /\ op = "enable" => st[j].fails = 0

LEMMA CommandStore ==
  ASSUME TypeOK, NEW s \in Services, NEW j \in Jobs, CommandTyped(s, j)
  PROVE  \E st \in Stores, op \in Commands \ {"edit"} : Commanded(s, st, op, j)
<1> DEFINE r == Reload(s)[j]
<1>1. Reload(s) \in Stores /\ now \in Nat
  BY ReloadType DEF TypeOK
<1>2. NextRun(j, now) \in Nat \cup {None}
  BY <1>1, NextRunType
<1>3. None \notin Job /\ None \notin Nat
  BY CronAssumption
<1>4. ASSUME NEW x \in Job \cup {None}
      PROVE  /\ [Reload(s) EXCEPT ![j] = x] \in Stores
             /\ [Reload(s) EXCEPT ![j] = x][j] = x
             /\ \A i \in Jobs \ {j} : [Reload(s) EXCEPT ![j] = x][i] = Reload(s)[i]
  BY <1>1 DEF Stores
<1>5. r # None => r \in Job
  BY <1>1, JobType
<1> HIDE DEF r
<1>6. CASE AddJob(s, j)
  <2>1. /\ NewJob(j, now) \in Job /\ NewJob(j, now).on /\ NewJob(j, now).next = NextRun(j, now)
        /\ NewJob(j, now).fails = 0
    BY <1>1, NewJobType DEF NewJob
  <2>2. /\ NextRun(j, now) # None /\ wanted[j] = "new"
        /\ Write(s, [Reload(s) EXCEPT ![j] = NewJob(j, now)], "add", j)
    BY <1>6 DEF AddJob
  <2>3. Commanded(s, [Reload(s) EXCEPT ![j] = NewJob(j, now)], "add", j)
    BY <1>3, <1>4, <2>1, <2>2 DEF Commanded, Unplanned, SameCount
  <2>4. [Reload(s) EXCEPT ![j] = NewJob(j, now)] \in Stores
    BY <1>4, <2>1
  <2> QED
    BY <2>3, <2>4 DEF Commands
<1>7. CASE RemoveJob(s, j)
  <2>1. r # None /\ Write(s, [Reload(s) EXCEPT ![j] = None], "remove", j)
    BY <1>7 DEF RemoveJob, r
  <2>3. Commanded(s, [Reload(s) EXCEPT ![j] = None], "remove", j)
    BY <1>4, <2>1 DEF Commanded, Unplanned, SameCount, r
  <2>4. [Reload(s) EXCEPT ![j] = None] \in Stores
    BY <1>4
  <2> QED
    BY <2>3, <2>4 DEF Commands
<1>8. CASE EnableJob(s, j)
  <2> DEFINE x == [r EXCEPT !.on = TRUE, !.next = NextRun(j, now), !.fails = 0]
  <2>1. /\ r # None /\ NextRun(j, now) # None
        /\ Write(s, [Reload(s) EXCEPT ![j] = x], "enable", j)
    BY <1>8 DEF EnableJob, r
  <2>2. x \in Job /\ x.on /\ x.next = NextRun(j, now) /\ x.fails = 0
    BY <1>2, <1>5, <2>1 DEF Job
  <2> HIDE DEF x
  <2>3. Commanded(s, [Reload(s) EXCEPT ![j] = x], "enable", j)
    BY <1>3, <1>4, <2>1, <2>2 DEF Commanded, Unplanned, SameCount, r
  <2>4. [Reload(s) EXCEPT ![j] = x] \in Stores
    BY <1>4, <2>2
  <2> QED
    BY <2>3, <2>4 DEF Commands
<1>9. CASE DisableJob(s, j)
  <2> DEFINE x == [r EXCEPT !.on = FALSE, !.next = None]
  <2>1. r # None /\ Write(s, [Reload(s) EXCEPT ![j] = x], "disable", j)
    BY <1>9 DEF DisableJob, r
  <2>2. x \in Job /\ ~x.on /\ x.fails = r.fails
    BY <1>5, <2>1 DEF Job
  <2> HIDE DEF x
  <2>3. Commanded(s, [Reload(s) EXCEPT ![j] = x], "disable", j)
    BY <1>3, <1>4, <2>1, <2>2 DEF Commanded, Unplanned, SameCount, r
  <2>4. [Reload(s) EXCEPT ![j] = x] \in Stores
    BY <1>4, <2>2
  <2> QED
    BY <2>3, <2>4 DEF Commands
<1>10. CASE RunNow(s, j)
  <2> DEFINE x == [r EXCEPT !.next = now]
  <2>1. r # None /\ r.on /\ Write(s, [Reload(s) EXCEPT ![j] = x], "run", j)
    BY <1>10 DEF RunNow, r
  <2>2. x \in Job /\ x.on /\ x.next = now /\ x.fails = r.fails
    BY <1>1, <1>5, <2>1 DEF Job
  <2> HIDE DEF x
  <2>3. Commanded(s, [Reload(s) EXCEPT ![j] = x], "run", j)
    BY <1>1, <1>3, <1>4, <2>1, <2>2 DEF Commanded, Unplanned, SameCount, r
  <2>4. [Reload(s) EXCEPT ![j] = x] \in Stores
    BY <1>4, <2>2
  <2> QED
    BY <2>3, <2>4 DEF Commands
<1> QED
  BY <1>6, <1>7, <1>8, <1>9, <1>10 DEF CommandTyped

LEMMA CommandFrame ==
  ASSUME NEW s \in Services, NEW j \in Jobs, CommandTyped(s, j)
  PROVE  /\ UNCHANGED <<now, file, status, due, exec, edit, faults, wanted, marked, streak,
                        finished, gaps>>
         /\ ops' = ops + 1 /\ ops < MaxOps
BY DEF CommandTyped, AddJob, RemoveJob, RunNow, EnableJob, DisableJob, Frame, Command, history

(* What a run makes of its job, and what the write of it is called. *)
RunOp(j, on, r, outcome) ==
  IF j \notin Periodic /\ outcome # "canceled" THEN "done"
  ELSE IF on /\ r # None /\ ~r.on THEN "auto" ELSE "end"

LEMMA RunResult ==
  ASSUME now \in Nat, NEW j \in Jobs, NEW old \in Job,
         NEW outcome \in {"ok", "error", "canceled"}, NEW long \in BOOLEAN
  PROVE  LET r  == AfterRun(j, Tallied(old, outcome), outcome, long)
             op == RunOp(j, old.on, r, outcome)
         IN  /\ r \in Job \cup {None}
             /\ ~Unplanned(r)
             /\ op \in Outcomes
             /\ op = "done" => r = None
             /\ op = "auto" => r # None /\ ~r.on
             /\ op = "end" => r # None /\ r.on = old.on
             /\ r # None => r.fails = Tallied(old, outcome).fails
             /\ op = "auto" => r.fails >= MaxFails
<1> DEFINE t == Tallied(old, outcome)
           r == AfterRun(j, t, outcome, long)
<1>1. t \in Job /\ t.on = old.on
  BY TalliedType
<1>2. r \in Job \cup {None}
  BY <1>1, AfterRunType
<1>3. None \notin Job /\ None \notin Nat /\ now + Retry \in Nat
  BY CronAssumption
<1>4. NextRun(j, now) \in Nat \cup {None} /\ (j \in Periodic => NextRun(j, now) # None)
  BY NextRunType
<1> HIDE DEF t
<1>5. ASSUME NEW n \in Nat \cup {None}
      PROVE  /\ [t EXCEPT !.next = n] \in Job
             /\ [t EXCEPT !.next = n].on = t.on
             /\ [t EXCEPT !.next = n].next = n
             /\ [t EXCEPT !.next = n].fails = t.fails
             /\ [t EXCEPT !.on = FALSE, !.next = n].fails = t.fails
             /\ [t EXCEPT !.on = FALSE, !.next = n] \in Job
             /\ ~[t EXCEPT !.on = FALSE, !.next = n].on
  BY <1>1 DEF Job
<1>6. CASE j \notin Periodic /\ outcome = "canceled" /\ t.on
  <2>1. r = [t EXCEPT !.next = now + Retry]
    BY <1>6 DEF AfterRun
  <2>2. r \in Job /\ r.on /\ r.next = now + Retry /\ r.fails = t.fails
    BY <1>1, <1>3, <1>6, <2>1 DEF Job
  <2> HIDE DEF r
  <2>3. RunOp(j, old.on, r, outcome) = "end"
    BY <1>6, <2>2 DEF RunOp
  <2> QED
    BY <1>1, <1>3, <1>6, <2>2, <2>3 DEF Unplanned, Outcomes, r, t
<1>7. CASE j \notin Periodic /\ outcome = "canceled" /\ ~t.on
  <2>1. r = t
    BY <1>7 DEF AfterRun
  <2> HIDE DEF r
  <2>3. RunOp(j, old.on, r, outcome) = "end"
    BY <1>1, <1>7, <2>1 DEF RunOp
  <2> QED
    BY <1>1, <1>3, <1>7, <2>1, <2>3 DEF Unplanned, Outcomes, r, t
<1>8. CASE j \notin Periodic /\ outcome # "canceled"
  <2>1. r = None
    BY <1>8 DEF AfterRun
  <2> HIDE DEF r
  <2>3. RunOp(j, old.on, r, outcome) = "done"
    BY <1>8 DEF RunOp
  <2> QED
    BY <1>2, <2>1, <2>3 DEF Unplanned, Outcomes, r, t
<1>9. CASE /\ j \in Periodic /\ r = [t EXCEPT !.on = FALSE, !.next = None]
           /\ outcome = "error" /\ t.fails >= MaxFails
  <2>1. r \in Job /\ ~r.on /\ r.fails = t.fails
    BY <1>5, <1>9
  <2> HIDE DEF r
  <2>3. RunOp(j, old.on, r, outcome) = IF old.on THEN "auto" ELSE "end"
    BY <1>3, <1>9, <2>1 DEF RunOp
  <2>4. old.on \in BOOLEAN /\ r.on \in BOOLEAN
    BY <2>1 DEF Job
  <2> QED
    BY <1>3, <1>9, <2>1, <2>3, <2>4 DEF Unplanned, Outcomes, r, t
<1>10. CASE j \in Periodic /\ r = [t EXCEPT !.next = IF t.on THEN NextRun(j, now) ELSE None]
  <2> DEFINE n == IF t.on THEN NextRun(j, now) ELSE None
  <2>4. n \in Nat \cup {None} /\ r = [t EXCEPT !.next = n]
    BY <1>4, <1>10
  <2> HIDE DEF n, r
  <2>1. r \in Job /\ r.on = t.on /\ r.next = n /\ r.fails = t.fails
    BY <1>1, <2>4 DEF Job
  <2>3. RunOp(j, old.on, r, outcome) = "end"
    BY <1>1, <1>10, <2>1 DEF RunOp
  <2> QED
    BY <1>1, <1>3, <1>4, <1>10, <2>1, <2>3 DEF Unplanned, Outcomes, n, r, t
<1> QED
  BY <1>6, <1>7, <1>8, <1>9, <1>10 DEF AfterRun, r

(* A run counts in the job as it does in the history. *)
Recounted(j, old, new) ==
  \/ new = 0
  \/ new = old /\ streak'[j] = streak[j]
  \/ new = old + 1 /\ streak'[j] = streak[j] + 1

(* What the end of a run makes of the store its service has read.          *)
Ran(g, st, op, j) ==
  /\ Write(g, st, op, j)
  /\ \A i \in Jobs \ {j} : st[i] = Reload(g)[i]
  /\ Reload(g)[j] # None
  /\ op = "done" => st[j] = None
  /\ op = "auto" => st[j] # None /\ ~st[j].on
  /\ op = "end" => st[j] # None /\ st[j].on = Reload(g)[j].on
  /\ ~Unplanned(st[j])
  /\ st[j] # None => Recounted(j, Reload(g)[j].fails, st[j].fails)
  /\ op = "auto" => st[j].fails >= MaxFails

LEMMA EndRunStore ==
  ASSUME TypeOK, NEW g \in Gens,
         NEW outcome \in {"ok", "error", "canceled"}, NEW long \in BOOLEAN,
         EndRun(g, outcome, long)
  PROVE  /\ exec[g] \in Jobs
         /\ \/ Reload(g)[exec[g]] = None /\ Look(g)
            \/ \E st \in Stores, op \in Outcomes : Ran(g, st, op, exec[g])
<1> DEFINE j == exec[g]
           old == Reload(g)[j]
           r == AfterRun(j, Tallied(old, outcome), outcome, long)
           op == RunOp(j, old.on, r, outcome)
           st == [Reload(g) EXCEPT ![j] = r]
<1>1. j \in Jobs /\ g \in Services /\ now \in Nat
  BY DEF TypeOK, EndRun, Services
<1>2. Reload(g) \in Stores
  BY <1>1, ReloadType
<1>3. CASE old = None
  BY <1>1, <1>3 DEF EndRun
<1>4. CASE old # None
  <2>1. old \in Job
    BY <1>1, <1>2, <1>4, JobType
  <2>2. /\ r \in Job \cup {None}
        /\ ~Unplanned(r)
        /\ op \in Outcomes
        /\ op = "done" => r = None
        /\ op = "auto" => r # None /\ ~r.on
        /\ op = "end" => r # None /\ r.on = old.on
        /\ r # None => r.fails = Tallied(old, outcome).fails
        /\ op = "auto" => r.fails >= MaxFails
    BY <1>1, <2>1, RunResult
  <2>3. Write(g, st, op, j)
    BY <1>4 DEF EndRun, RunOp
  <2>6. Recounted(j, old.fails, Tallied(old, outcome).fails)
    <3>1. /\ outcome = "error" => streak' = [streak EXCEPT ![j] = @ + 1]
          /\ outcome = "canceled" => streak' = streak
      BY DEF EndRun
    <3>2. streak \in [Jobs -> Nat]
      BY DEF TypeOK
    <3> QED
      BY <1>1, <2>1, <3>1, <3>2 DEF Recounted, Tallied, Job
  <2> HIDE DEF op, r
  <2>4. st \in Stores /\ st[j] = r /\ \A i \in Jobs \ {j} : st[i] = Reload(g)[i]
    BY <1>1, <1>2, <2>2 DEF Stores
  <2> HIDE DEF st
  <2>5. Ran(g, st, op, j)
    BY <1>4, <2>2, <2>3, <2>4, <2>6 DEF Ran
  <2> QED
    BY <1>1, <2>2, <2>4, <2>5
<1> QED
  BY <1>3, <1>4

(* What an edit makes of the store its service has read, when it writes.   *)
Edited(s, st, j) ==
  /\ Write(s, st, "edit", j)
  /\ \A i \in Jobs \ {j} : st[i] = Reload(s)[i]
  /\ Reload(s)[j] # None /\ st[j] # None
  /\ Reload(s)[j] # edit.copy => "stale" \in gaps'
  /\ st[j].on = edit.copy.on
  /\ Unplanned(st[j]) => edit.copy.next = None \/ ~Reload(s)[j].on
  /\ SameCount(edit.copy, st[j])

LEMMA EditStore ==
  ASSUME TypeOK, NEW change \in {"name", "payload", "schedule"}, UpdateJob(change)
  PROVE  /\ edit.by \in Services /\ edit.job \in Jobs /\ edit.copy \in Job
         /\ \/ Look(edit.by) /\ gaps' = gaps
            \/ \E st \in Stores : Edited(edit.by, st, edit.job)
<1> DEFINE s == edit.by
           j == edit.job
           old == Reload(s)[j]
           x == Updated(j, old, edit.copy, change)
           st == [Reload(s) EXCEPT ![j] = x]
<1>1. s \in Services /\ j \in Jobs /\ edit.copy \in Job /\ now \in Nat
  BY DEF UpdateJob, TypeOK
<1>2. Reload(s) \in Stores
  BY <1>1, ReloadType
<1>3. CASE old = None \/ (change = "schedule" /\ NextRun(j, now) = None)
  BY <1>1, <1>3 DEF UpdateJob
<1>4. CASE old # None /\ ~(change = "schedule" /\ NextRun(j, now) = None)
  <2>1. old \in Job
    BY <1>1, <1>2, <1>4, JobType
  <2>2. x \in Job
    BY <1>1, <2>1, UpdatedType
  <2>3. /\ Write(s, st, "edit", j)
        /\ gaps' = gaps \cup (IF old # edit.copy THEN {"stale"} ELSE {})
    BY <1>4 DEF UpdateJob
  <2>4. x.on = edit.copy.on
    BY <1>1 DEF Updated, Job
  <2>5. Unplanned(x) => edit.copy.next = None \/ ~old.on
    <3> SUFFICES ASSUME x.on, x.next = None, old.on
                 PROVE  edit.copy.next = None
      BY DEF Unplanned
    <3>1. NextRun(j, now) \in Nat \cup {None}
      BY <1>1, NextRunType
    <3>2. change # "schedule"
      BY <1>1, <1>4, <2>4, <3>1 DEF Updated, Job
    <3> QED
      BY <1>1, <2>4, <3>2 DEF Updated, Job
  <2>9. SameCount(edit.copy, x)
    <3>1. x.fails = 0 \/ x.fails = edit.copy.fails
      BY <1>1 DEF Updated, Job
    <3> QED
      BY <1>1, <3>1, CronAssumption DEF SameCount
  <2> HIDE DEF x
  <2>6. st \in Stores /\ st[j] = x /\ \A i \in Jobs \ {j} : st[i] = Reload(s)[i]
    BY <1>1, <1>2, <2>2 DEF Stores
  <2>7. x # None
    BY <2>2, CronAssumption
  <2> HIDE DEF st
  <2>8. Edited(s, st, j)
    BY <1>4, <2>3, <2>4, <2>5, <2>6, <2>7, <2>9 DEF Edited
  <2> QED
    BY <1>1, <2>6, <2>8
<1> QED
  BY <1>3, <1>4

(* A pending write is left alone, taken up or finished.                    *)
LEMMA AimedWrite ==
  ASSUME TypeOK, Aimed, NEW s \in Services, NEW st, NEW op \in Writes,
         NEW j \in Jobs \cup {None}, Write(s, st, op, j),
         op \notin {"start", "check"} => j \in Jobs
  PROVE  Aimed'
<1>1. pending' = [pending EXCEPT ![s] = <<op, j>>] /\ DOMAIN pending = Services
  BY DEF Write, TypeOK
<1> QED
  BY <1>1 DEF Aimed

LEMMA AimedFewer ==
  ASSUME Aimed, \A s \in Services : pending'[s] \in {pending[s], None}
  PROVE  Aimed'
<1>1. \A op \in Writes, j \in Jobs \cup {None} : <<op, j>> # None
  BY CronAssumption
<1> QED
  BY <1>1 DEF Aimed

LEMMA LookAimed ==
  ASSUME Aimed, NEW s, Look(s)
  PROVE  Aimed'
BY DEF Aimed, Look

(* What saving does to the history. *)
LEMMA RecordType ==
  ASSUME TypeOK, NEW op \in Writes, NEW j \in Jobs \cup {None}, NEW r,
         op \notin {"start", "check"} => j \in Jobs, Record(op, j, r)
  PROVE  /\ wanted' \in [Jobs -> {"new", "on", "off", "gone"}]
         /\ marked' \subseteq Jobs
         /\ streak' \in [Jobs -> Nat]
         /\ finished' \subseteq Jobs \ Periodic
<1>1. wanted' \in [Jobs -> {"new", "on", "off", "gone"}]
  BY DEF Record, TypeOK
<1>2. marked' \subseteq Jobs
  BY DEF Record, TypeOK
<1>3. streak' \in [Jobs -> Nat]
  BY DEF Record, TypeOK
<1>4. finished' \subseteq Jobs \ Periodic
  BY DEF Record, TypeOK
<1> QED
  BY <1>1, <1>2, <1>3, <1>4

Typed == TypeOK /\ Aimed

(* The steps that take up a write. *)
LEMMA TypedWrites ==
  ASSUME Typed, NEW s \in Services,
         \/ \E j \in Jobs : CommandTyped(s, j)
         \/ s \in Gens /\ Start(s)
         \/ s \in Gens /\ CheckJobs(s)
         \/ s \in Gens /\ \E outcome \in {"ok", "error", "canceled"}, long \in BOOLEAN :
                            EndRun(s, outcome, long)
  PROVE  Typed'
<1> USE DEF Typed
<1>0. None \notin Job /\ None \notin Jobs
  BY CronAssumption
<1>1. ASSUME NEW j \in Jobs, CommandTyped(s, j) PROVE Typed'
  <2>1. PICK st \in Stores, op \in Commands \ {"edit"} : Commanded(s, st, op, j)
    BY <1>1, CommandStore
  <2>2. Write(s, st, op, j) /\ op \in Writes /\ op \notin {"start", "check"}
    BY <2>1 DEF Commanded, Commands, Writes
  <2>3. /\ mem' \in [Services -> Stores] /\ unread' \subseteq Services
        /\ pending' \in [Services -> (Writes \X (Jobs \cup {None})) \cup {None}]
    BY <2>2, WriteType
  <2>4. Aimed'
    BY <2>2, AimedWrite
  <2>5. ops' \in 0 .. MaxOps
    BY <1>1, CommandFrame, CronAssumption DEF TypeOK
  <2> QED
    BY <1>1, <2>3, <2>4, <2>5, CommandFrame DEF TypeOK
<1>2. CASE s \in Gens /\ Start(s)
  <2> DEFINE st == [j \in Jobs |-> Recomputed(j, file[j])]
  <2>1. st \in Stores
    BY RecomputedType DEF Stores, TypeOK
  <2>2. Write(s, st, "start", None)
    BY <1>2 DEF Start
  <2> HIDE DEF st
  <2>3. /\ mem' \in [Services -> Stores] /\ unread' \subseteq Services
        /\ pending' \in [Services -> (Writes \X (Jobs \cup {None})) \cup {None}]
    BY <2>1, <2>2, WriteType DEF Writes
  <2>4. Aimed'
    BY <2>2, AimedWrite DEF Writes
  <2>5. /\ UNCHANGED <<now, file, due, exec, edit, ops, faults, wanted, streak, finished>>
        /\ marked' = {} /\ status' = [status EXCEPT ![s] = "starting"]
        /\ gaps' \subseteq gaps \cup {"missed", "overlap"}
    BY <1>2 DEF Start
  <2> QED
    BY <2>3, <2>4, <2>5 DEF TypeOK, GapKinds
<1>3. CASE s \in Gens /\ CheckJobs(s)
  <2> DEFINE found == {j \in Jobs : IsDue(Reload(s)[j])}
  <2>1. /\ UNCHANGED <<now, file, status, exec, edit, ops, faults, wanted, marked, streak,
                       finished, gaps>>
        /\ due' = [due EXCEPT ![s] = found]
        /\ found = {} => Look(s)
        /\ found # {} => Write(s, Erased(Reload(s)), "check", None)
    BY <1>3 DEF CheckJobs, history
  <2>2. Erased(Reload(s)) \in Stores
    <3>1. Reload(s) \in Stores
      BY ReloadType
    <3>2. ASSUME NEW j \in Jobs, IsDue(Reload(s)[j])
          PROVE  [Reload(s)[j] EXCEPT !.next = None] \in Job
      <4>1. Reload(s)[j] \in Job
        BY <3>1, <3>2, JobType DEF IsDue
      <4> QED
        BY <4>1 DEF Job
    <3> QED
      BY <3>1, <3>2 DEF Erased, Stores
  <2>3. /\ mem' \in [Services -> Stores] /\ unread' \subseteq Services
        /\ pending' \in [Services -> (Writes \X (Jobs \cup {None})) \cup {None}]
    BY <2>1, <2>2, WriteType, LookType DEF Writes
  <2>4. Aimed'
    BY <2>1, AimedWrite, LookAimed DEF Writes
  <2> QED
    BY <2>1, <2>3, <2>4 DEF TypeOK
<1>4. ASSUME s \in Gens, NEW outcome \in {"ok", "error", "canceled"}, NEW long \in BOOLEAN,
             EndRun(s, outcome, long)
      PROVE  Typed'
  <2>1. exec[s] \in Jobs
    BY <1>4, EndRunStore
  <2>2. /\ mem' \in [Services -> Stores] /\ unread' \subseteq Services
        /\ pending' \in [Services -> (Writes \X (Jobs \cup {None})) \cup {None}]
        /\ Aimed'
    <3>1. CASE Look(s)
      BY <3>1, LookType, LookAimed
    <3>2. ASSUME NEW st \in Stores, NEW op \in Outcomes, Ran(s, st, op, exec[s])
          PROVE  <2>2!1 /\ <2>2!2 /\ <2>2!3
      <4>1. Write(s, st, op, exec[s]) /\ op \in Writes
        BY <3>2 DEF Ran, Outcomes, Writes
      <4> QED
        BY <2>1, <4>1, WriteType, AimedWrite
    <3> QED
      BY <1>4, <3>1, <3>2, EndRunStore
  <2>3. /\ UNCHANGED <<now, file, status, due, edit, ops, faults, wanted, marked, gaps>>
        /\ exec' = [exec EXCEPT ![s] = None]
        /\ finished' \subseteq finished \cup ({exec[s]} \ Periodic)
    BY <1>4 DEF EndRun
  <2>4. streak' \in [Jobs -> Nat]
    BY <1>4, <2>1 DEF EndRun, TypeOK
  <2> QED
    BY <2>1, <2>2, <2>3, <2>4 DEF TypeOK
<1> QED
  BY <1>1, <1>2, <1>3, <1>4

LEMMA TypedEdit ==
  ASSUME Typed, NEW change \in {"name", "payload", "schedule"}, UpdateJob(change)
  PROVE  Typed'
<1> USE DEF Typed
<1>1. edit.by \in Services /\ edit.job \in Jobs
  BY EditStore
<1>2. /\ mem' \in [Services -> Stores] /\ unread' \subseteq Services
      /\ pending' \in [Services -> (Writes \X (Jobs \cup {None})) \cup {None}]
      /\ Aimed'
  <2>1. CASE Look(edit.by)
    BY <1>1, <2>1, LookType, LookAimed
  <2>2. ASSUME NEW st \in Stores, Edited(edit.by, st, edit.job)
        PROVE  <1>2!1 /\ <1>2!2 /\ <1>2!3
    <3>1. Write(edit.by, st, "edit", edit.job) /\ "edit" \in Writes
      BY <2>2 DEF Edited, Commands, Writes
    <3> QED
      BY <1>1, <3>1, WriteType, AimedWrite
  <2> QED
    BY <2>1, <2>2, EditStore
<1>3. /\ UNCHANGED <<now, file, status, due, exec, ops, faults, wanted, marked, streak,
                     finished>>
      /\ edit' = None /\ gaps' \subseteq gaps \cup {"stale"}
  BY DEF UpdateJob, history
<1> QED
  BY <1>2, <1>3 DEF TypeOK, GapKinds

LEMMA TypedFile ==
  ASSUME Typed, NEW s \in Services, Save(s) \/ SaveFails(s)
  PROVE  Typed'
<1> USE DEF Typed
<1>1. pending[s] # None
  BY DEF Save, SaveFails
<1>2. PICK op \in Writes, j \in Jobs \cup {None} : pending[s] = <<op, j>>
  BY <1>1 DEF TypeOK
<1>3. pending[s][1] = op /\ pending[s][2] = j
  BY <1>2
<1>4. Empty \in Stores
  BY DEF Empty, Stores
<1>5. /\ pending' = [pending EXCEPT ![s] = None]
      /\ mem' \in [Services -> Stores] /\ unread' \subseteq Services
  BY <1>4 DEF Save, SaveFails, Release, TypeOK
<1>6. pending' \in [Services -> (Writes \X (Jobs \cup {None})) \cup {None}]
  BY <1>5 DEF TypeOK
<1>7. Aimed'
  BY <1>5, AimedFewer DEF TypeOK
<1>8. CASE Save(s)
  <2>1. Record(op, j, IF j = None THEN None ELSE mem[s][j])
    BY <1>3, <1>8 DEF Save
  <2>2. op \notin {"start", "check"} => j \in Jobs
    BY <1>2 DEF Aimed
  <2>3. /\ wanted' \in [Jobs -> {"new", "on", "off", "gone"}]
        /\ marked' \subseteq Jobs
        /\ streak' \in [Jobs -> Nat]
        /\ finished' \subseteq Jobs \ Periodic
    BY <2>1, <2>2, RecordType
  <2>4. /\ UNCHANGED <<now, due, exec, edit, ops, faults>>
        /\ file' = mem[s] /\ gaps' \subseteq gaps \cup {"overwrite"}
        /\ status' \in {status, [status EXCEPT ![s] = "running"]}
    BY <1>8 DEF Save
  <2> QED
    BY <1>5, <1>6, <1>7, <2>3, <2>4 DEF TypeOK, GapKinds
<1>9. CASE SaveFails(s)
  <2>1. /\ UNCHANGED <<now, file, due, exec, edit, ops, wanted, marked, streak, finished>>
        /\ gaps' = gaps \cup {"unsaved"} /\ faults' = faults + 1 /\ faults < MaxFaults
        /\ status' \in {status, [status EXCEPT ![s] = "off"], [status EXCEPT ![s] = "stopped"]}
    BY <1>9 DEF SaveFails, history
  <2>2. faults' \in 0 .. MaxFaults
    BY <2>1, CronAssumption DEF TypeOK
  <2> QED
    BY <1>5, <1>6, <1>7, <2>1, <2>2 DEF TypeOK, GapKinds
<1> QED
  BY <1>8, <1>9

LEMMA TypedNext == Typed /\ [Next]_vars => Typed'
<1> SUFFICES ASSUME Typed, [Next]_vars PROVE Typed'
  OBVIOUS
<1> USE DEF Typed
<1>1. ASSUME NEW s \in Services, NEW j \in Jobs, GetJob(s, j) PROVE Typed'
  <2>1. /\ UNCHANGED <<now, file, status, due, exec, faults, wanted, marked, streak,
                       finished, gaps>>
        /\ Look(s) /\ ops' = ops + 1 /\ ops < MaxOps
        /\ edit' = [by |-> s, job |-> j, copy |-> Reload(s)[j]] /\ Reload(s)[j] # None
    BY <1>1 DEF GetJob, Frame, Command, history
  <2>2. edit' \in [by : Services, job : Jobs, copy : Job]
    BY <2>1, ReloadType, JobType
  <2>3. ops' \in 0 .. MaxOps
    BY <2>1, CronAssumption DEF TypeOK
  <2> QED
    BY <2>1, <2>2, <2>3, LookType, LookAimed DEF TypeOK
<1>2. ASSUME NEW g \in Gens, Stop(g) PROVE Typed'
  <2>1. /\ UNCHANGED <<now, file, mem, unread, pending, due, exec, edit, faults, wanted,
                       marked, streak, finished, gaps>>
        /\ status' = [status EXCEPT ![g] = "stopped"] /\ ops' = ops + 1 /\ ops < MaxOps
    BY <1>2 DEF Stop, history
  <2>2. ops' \in 0 .. MaxOps
    BY <2>1, CronAssumption DEF TypeOK
  <2> QED
    BY <2>1, <2>2 DEF TypeOK, Aimed
<1>3. ASSUME NEW g \in Gens, NEW j \in Jobs, BeginRun(g, j) PROVE Typed'
  BY <1>3 DEF BeginRun, TypeOK, Aimed
<1>4. CASE Crash
  <2>1. /\ UNCHANGED <<now, file, ops, wanted, marked, streak, finished>>
        /\ mem' = [s \in Services |-> IF s = Cli THEN mem[s] ELSE Empty]
        /\ unread' = unread \cup Gens
        /\ pending' = [s \in Services |-> IF s = Cli THEN pending[s] ELSE None]
        /\ status' = [g \in Gens |-> "off"]
        /\ due' = [g \in Gens |-> {}] /\ exec' = [g \in Gens |-> None]
        /\ edit' \in {edit, None} /\ gaps' \subseteq gaps \cup {"unsaved"}
        /\ faults' = faults + 1 /\ faults < MaxFaults
    BY <1>4 DEF Crash, history
  <2>2. faults' \in 0 .. MaxFaults
    BY <2>1, CronAssumption DEF TypeOK
  <2>3. mem' \in [Services -> Stores]
    BY <2>1 DEF TypeOK, Empty, Stores
  <2>4. Aimed'
    BY <2>1, AimedFewer
  <2>5. pending' \in [Services -> (Writes \X (Jobs \cup {None})) \cup {None}]
    BY <2>1 DEF TypeOK
  <2> QED
    BY <2>1, <2>2, <2>3, <2>4, <2>5 DEF TypeOK, GapKinds, Services
<1>5. CASE Tick
  <2>1. now' \in 0 .. MaxNow
    BY <1>5, CronAssumption DEF Tick, TypeOK
  <2> QED
    BY <1>5, <2>1 DEF Tick, TypeOK, Aimed, history
<1>6. CASE UNCHANGED vars
  BY <1>6 DEF vars, history, TypeOK, Aimed
<1>7. \A g \in Gens : g \in Services
  BY DEF Services
<1> QED
  BY <1>1, <1>2, <1>3, <1>4, <1>5, <1>6, <1>7, TypedWrites, TypedEdit, TypedFile
  DEF Next, Loop, CommandTyped

LEMMA TypedInit == Init => Typed
<1> SUFFICES ASSUME Init PROVE Typed
  OBVIOUS
<1>1. 0 \in 0 .. MaxNow /\ 0 \in 0 .. MaxOps /\ 0 \in 0 .. MaxFaults
  BY CronAssumption
<1>2. file \in Stores /\ wanted \in [Jobs -> {"new", "on", "off", "gone"}]
  BY NewJobType DEF Init, Stores
<1>3. Empty \in Stores
  BY DEF Empty, Stores
<1>4. Aimed
  BY CronAssumption DEF Init, Aimed
<1> QED
  BY <1>1, <1>2, <1>3, <1>4 DEF Init, Typed, TypeOK

(* Every variable keeps its type: the operations write jobs, whatever the  *)
(* file they find and whichever service they run on.                       *)
THEOREM CronTypeCorrect == Spec => []TypeOK
BY TypedInit, TypedNext, PTL DEF Spec, Typed

-----------------------------------------------------------------------------
(***************************************************************************)
(* What becomes of the jobs.                                               *)
(***************************************************************************)
LEMMA FileKnown ==
  ASSUME Reread, NEW s \in Services, pending[s] = None
  PROVE  Reload(s) = file
BY DEF Reread, Reload

(* A service takes up a write: it has made a good store of the file.       *)
LEMMA TakesUp ==
  ASSUME Typed, Kept, NEW s \in Services, NEW st \in Stores, NEW op \in Writes,
         NEW j \in Jobs \cup {None}, Write(s, st, op, j),
         UNCHANGED <<file, wanted>>, gaps \subseteq gaps',
         \A g \in Gens \ {s} : due'[g] = due[g],
         s \in Gens => \A i \in due'[s] :
           /\ wanted[i] # "new"
           /\ st[i] = None => wanted[i] = "gone" \/ <<op, j>> \in {<<"remove", i>>, <<"done", i>>},
         GoodStore(s, st, op, j)',
         Planned'
  PROVE  Kept'
<1>1. /\ mem' = [mem EXCEPT ![s] = st] /\ unread' = unread \ {s}
      /\ pending' = [pending EXCEPT ![s] = <<op, j>>] /\ pending[s] = None
      /\ DOMAIN mem = Services /\ DOMAIN pending = Services
      /\ <<op, j>> # None
  BY CronAssumption DEF Write, Typed, TypeOK
<1>2. Obeys(file, wanted)'
  BY DEF Kept
<1>3. Reread'
  BY <1>1 DEF Kept, Reread
<1>4. Written'
  <2> SUFFICES ASSUME NEW t \in Services, NEW o \in Writes, NEW i \in Jobs \cup {None},
                      t \notin unread', pending'[t] = <<o, i>>
               PROVE  GoodStore(t, mem[t], o, i)'
    BY DEF Written
  <2>1. CASE t = s
    <3>1. o = op /\ i = j /\ mem'[t] = st
      BY <1>1, <2>1
    <3> QED
      BY <2>1, <3>1
  <2>2. CASE t # s
    <3>1. t \notin unread /\ pending[t] = <<o, i>> /\ mem'[t] = mem[t]
      BY <1>1, <2>2
    <3>2. GoodStore(t, mem[t], o, i)
      BY <3>1 DEF Kept, Written
    <3>3. t \in Gens => due'[t] = due[t]
      BY <2>2
    <3> QED
      BY <3>1, <3>2, <3>3 DEF GoodStore, Missed
  <2> QED
    BY <2>1, <2>2
<1>5. Collected'
  <2> SUFFICES ASSUME NEW g \in Gens, NEW i \in due'[g]
               PROVE  /\ wanted[i] # "new"
                      /\ mem'[g][i] = None => wanted[i] = "gone"
                           \/ pending'[g] \in {<<"remove", i>>, <<"done", i>>}
    BY DEF Collected
  <2>1. CASE g = s
    BY <1>1, <2>1
  <2>2. CASE g # s
    <3>1. g \in Services /\ due'[g] = due[g]
      BY <2>2 DEF Services
    <3> QED
      BY <1>1, <2>2, <3>1 DEF Kept, Collected
  <2> QED
    BY <2>1, <2>2
<1> QED
  BY <1>2, <1>3, <1>4, <1>5 DEF Kept

(* A service looks at the file and writes nothing.                         *)
LEMMA Looks ==
  ASSUME Typed, Kept, NEW s \in Services, Look(s),
         UNCHANGED <<file, wanted, due>>, gaps \subseteq gaps', Planned'
  PROVE  Kept'
<1>1. /\ pending' = pending /\ pending[s] = None
      /\ mem' \in {mem, [mem EXCEPT ![s] = file]}
      /\ s \notin Gens => mem' = mem /\ unread' = unread
      /\ s \in Gens => mem' = [mem EXCEPT ![s] = file] /\ unread' = unread \ {s}
  <2>1. pending' = pending /\ pending[s] = None /\ unread' = unread \ (Gens \cap {s})
    BY DEF Look
  <2>2. mem' = IF s = Cli THEN mem ELSE [mem EXCEPT ![s] = file]
    BY <2>1, FileKnown DEF Look, Kept
  <2>3. s \in Gens <=> s # Cli
    BY CronAssumption DEF Services
  <2>4. s \notin Gens => Gens \cap {s} = {}
    OBVIOUS
  <2>5. s \in Gens => Gens \cap {s} = {s}
    OBVIOUS
  <2> QED
    BY <2>1, <2>2, <2>3, <2>4, <2>5
<1>2. \A t \in Services \ {s} : mem'[t] = mem[t] /\ (t \in unread' <=> t \in unread)
  BY <1>1 DEF Typed, TypeOK
<1>3. DOMAIN mem = Services
  BY DEF Typed, TypeOK
<1>4. Reread'
  BY <1>1, <1>2, <1>3 DEF Kept, Reread
<1>5. Written'
  <2> SUFFICES ASSUME NEW t \in Services, NEW o \in Writes, NEW i \in Jobs \cup {None},
                      t \notin unread', pending'[t] = <<o, i>>
               PROVE  GoodStore(t, mem[t], o, i)'
    BY DEF Written
  <2>1. t # s
    BY <1>1, CronAssumption
  <2>2. GoodStore(t, mem[t], o, i)
    BY <1>1, <1>2, <2>1 DEF Kept, Written
  <2> QED
    BY <1>2, <2>1, <2>2 DEF GoodStore, Missed
<1>6. Collected'
  <2> SUFFICES ASSUME NEW g \in Gens, NEW i \in due[g]
               PROVE  /\ wanted[i] # "new"
                      /\ mem'[g][i] = None => wanted[i] = "gone"
                           \/ pending[g] \in {<<"remove", i>>, <<"done", i>>}
    BY <1>1 DEF Collected
  <2>1. i \in Jobs /\ g \in Services /\ wanted[i] \in {"new", "on", "off", "gone"}
    BY DEF Typed, TypeOK, Services
  <2>2. CASE g = s
    BY <1>1, <1>3, <2>1, <2>2 DEF Kept, Collected, Obeys
  <2>3. CASE g # s
    BY <1>2, <2>1, <2>3 DEF Kept, Collected
  <2> QED
    BY <2>2, <2>3
<1> QED
  BY <1>4, <1>5, <1>6 DEF Kept

(* Where the unplanned jobs are does not change when only writes are taken *)
(* up, and the services do not start.                                      *)
LEMMA PlannedStays ==
  ASSUME Planned, UNCHANGED <<file, due, exec>>, Running' => Running, gaps \subseteq gaps',
         \A s \in Services : pending[s] # None => pending'[s] = pending[s]
  PROVE  Planned'
<1>1. \A s \in Services, op \in Outcomes, i \in Jobs :
        pending[s] = <<op, i>> => pending'[s] = <<op, i>>
  BY CronAssumption DEF Outcomes, Writes
<1> QED
  BY <1>1 DEF Planned, Missed

LEMMA KeptCommand ==
  ASSUME Typed, Kept, NEW s \in Services, NEW j \in Jobs, CommandTyped(s, j)
  PROVE  Kept'
<1>1. PICK st \in Stores, op \in Commands \ {"edit"} : Commanded(s, st, op, j)
  BY CommandStore DEF Typed
<1>2. /\ Write(s, st, op, j) /\ op \in Writes /\ op \notin {"start", "check"}
      /\ op \notin Outcomes /\ pending[s] = None
  BY <1>1 DEF Commanded, Commands, Writes, Outcomes, Write
<1>3. Reload(s) = file
  BY <1>2, FileKnown DEF Kept
<1>4. /\ UNCHANGED <<file, status, due, exec, wanted, gaps>>
  BY CommandFrame
<1>5. /\ \A i \in Jobs \ {j} : st[i] = file[i]
      /\ op = "add" => wanted[j] = "new" /\ st[j] # None /\ st[j].on
      /\ op # "add" => file[j] # None
      /\ op = "remove" => st[j] = None
      /\ op = "enable" => st[j] # None /\ st[j].on
      /\ op = "disable" => st[j] # None /\ ~st[j].on
      /\ op = "run" => st[j] # None /\ st[j].on /\ file[j].on
      /\ ~Unplanned(st[j])
  BY <1>1, <1>3 DEF Commanded
<1>6. wanted \in [Jobs -> {"new", "on", "off", "gone"}] /\ Obeys(file, wanted)
  BY DEF Typed, TypeOK, Kept
<1>7. wanted[j] # "gone"
  BY <1>5, <1>6 DEF Obeys
<1>8. Obeys(st, WantedAfter(wanted, op, j))
  <2>1. op \in {"add", "remove", "enable", "disable", "run"}
    BY DEF Commands
  <2>2. CASE op \in {"add", "enable"}
    BY <1>5, <1>6, <2>2 DEF Obeys, WantedAfter
  <2>3. CASE op = "disable"
    BY <1>5, <1>6, <2>3 DEF Obeys, WantedAfter
  <2>4. CASE op = "remove"
    BY <1>5, <1>6, <2>4 DEF Obeys, WantedAfter
  <2>5. CASE op = "run"
    <3>1. WantedAfter(wanted, op, j) = wanted
      BY <2>5 DEF WantedAfter
    <3> QED
      BY <1>5, <1>6, <2>5, <3>1 DEF Obeys
  <2> QED
    BY <2>1, <2>2, <2>3, <2>4, <2>5
<1>9. GoodStore(s, st, op, j)'
  BY <1>2, <1>4, <1>5, <1>7, <1>8 DEF GoodStore, Unplanned
<1>10. s \in Gens => \A i \in due'[s] :
         /\ wanted[i] # "new"
         /\ st[i] = None => wanted[i] = "gone" \/ <<op, j>> \in {<<"remove", i>>, <<"done", i>>}
  <2> SUFFICES ASSUME s \in Gens, NEW i \in due[s]
               PROVE  /\ wanted[i] # "new"
                      /\ st[i] = None => wanted[i] = "gone" \/ <<op, j>> = <<"remove", i>>
    BY <1>4
  <2>1. i \in Jobs /\ wanted[i] # "new"
    BY DEF Typed, TypeOK, Kept, Collected
  <2>2. CASE i = j
    BY <1>5, <2>1, <2>2 DEF Commands
  <2>3. CASE i # j
    BY <1>5, <1>6, <2>1, <2>3 DEF Obeys
  <2> QED
    BY <2>1, <2>2, <2>3
<1>11. Planned'
  <2>1. \A t \in Services : pending[t] # None => pending'[t] = pending[t]
    BY <1>2 DEF Write, Typed, TypeOK
  <2> QED
    BY <1>4, <2>1, PlannedStays DEF Kept, Running
<1> QED
  BY <1>2, <1>4, <1>9, <1>10, <1>11, TakesUp

LEMMA KeptStart ==
  ASSUME Typed, Kept, NEW g \in Gens, Start(g)
  PROVE  Kept'
<1>1. file \in Stores /\ now \in Nat /\ Obeys(file, wanted) /\ g \in Services
  BY DEF Typed, TypeOK, Kept, Services
<1>2. PICK st \in Stores : st = [j \in Jobs |-> Recomputed(j, file[j])]
  <2>1. [j \in Jobs |-> Recomputed(j, file[j])] \in Stores
    BY <1>1, RecomputedType DEF Stores
  <2> QED
    BY <2>1
<1>3. /\ Write(g, st, "start", None) /\ "start" \in Writes
      /\ UNCHANGED <<file, due, exec, wanted>> /\ gaps \subseteq gaps'
      /\ due[g] = {}
      /\ status' = [status EXCEPT ![g] = "starting"]
      /\ (\E j \in Jobs \ Periodic : st[j] # None /\ st[j].on /\ st[j].next = None)
           => "missed" \in gaps'
  BY <1>2 DEF Start, Busy, Writes
<1>4. ASSUME NEW j \in Jobs
      PROVE  /\ st[j] = None <=> file[j] = None
             /\ file[j] # None => st[j].on = file[j].on
             /\ Unplanned(st[j]) => j \notin Periodic
  <2>1. NextRun(j, now) \in Nat \cup {None} /\ (j \in Periodic => NextRun(j, now) # None)
    BY <1>1, NextRunType
  <2>2. file[j] = None \/ file[j] \in Job
    BY <1>1 DEF Stores
  <2>3. CASE file[j] = None
    BY <1>2, <2>3 DEF Recomputed, Unplanned
  <2>4. CASE file[j] \in Job
    <3>1. file[j] # None
      BY <2>4, CronAssumption
    <3>2. CASE ~file[j].on \/ (j \notin Periodic /\ file[j].back /\ file[j].next # None)
      BY <1>2, <3>1, <3>2 DEF Recomputed, Unplanned
    <3>3. CASE ~(~file[j].on \/ (j \notin Periodic /\ file[j].back /\ file[j].next # None))
      <4> DEFINE r == [file[j] EXCEPT !.next = NextRun(j, now)]
      <4>1. st[j] = r
        BY <1>2, <3>1, <3>3 DEF Recomputed
      <4>2. r \in Job /\ r.on = file[j].on /\ r.next = NextRun(j, now)
        BY <2>1, <2>4 DEF Job
      <4> HIDE DEF r
      <4>3. r # None
        BY <4>2, CronAssumption
      <4> QED
        BY <2>1, <3>1, <4>1, <4>2, <4>3 DEF Unplanned
    <3> QED
      BY <3>2, <3>3
  <2> QED
    BY <2>2, <2>3, <2>4
<1>5. Obeys(st, WantedAfter(wanted, "start", None))
  <2>1. WantedAfter(wanted, "start", None) = wanted
    BY DEF WantedAfter
  <2> QED
    BY <1>1, <1>4, <2>1 DEF Obeys
<1>6. \A i \in Jobs : Unplanned(st[i]) => i \notin Periodic /\ "missed" \in gaps'
  BY <1>3, <1>4 DEF Unplanned
<1>7. GoodStore(g, st, "start", None)'
  BY <1>3, <1>5, <1>6 DEF GoodStore, Missed, Unplanned
<1>8. Planned'
  <2>1. Running' => Running
    BY <1>3 DEF Running, Typed, TypeOK
  <2>2. \A t \in Services : pending[t] # None => pending'[t] = pending[t]
    BY <1>3 DEF Write, Typed, TypeOK
  <2> QED
    BY <1>3, <2>1, <2>2, PlannedStays DEF Kept
<1> QED
  BY <1>1, <1>2, <1>3, <1>7, <1>8, TakesUp

LEMMA KeptCheck ==
  ASSUME Typed, Kept, NEW g \in Gens, CheckJobs(g)
  PROVE  Kept'
<1>1. pending[g] = None /\ due[g] = {} /\ g \in Services
  BY DEF CheckJobs, Busy, Services
<1>2. Reload(g) = file
  BY <1>1, FileKnown DEF Kept
<1>3. PICK found \in SUBSET Jobs : found = {j \in Jobs : IsDue(file[j])}
  OBVIOUS
<1>4. /\ UNCHANGED <<file, status, exec, wanted, gaps>>
      /\ due' = [due EXCEPT ![g] = found]
      /\ found = {} => Look(g)
      /\ found # {} => Write(g, Erased(file), "check", None)
  BY <1>2, <1>3 DEF CheckJobs, history
<1>5. /\ file \in Stores /\ Obeys(file, wanted) /\ due \in [Gens -> SUBSET Jobs]
      /\ wanted \in [Jobs -> {"new", "on", "off", "gone"}]
  BY DEF Typed, TypeOK, Kept
<1>6. \A h \in Gens : due[h] \subseteq due'[h]
  BY <1>1, <1>4, <1>5
<1>7. Planned'
  <2>1. \A s \in Services : pending[s] # None => pending'[s] = pending[s]
    BY <1>4 DEF Write, Look, Typed, TypeOK
  <2>2. \A s \in Services, op \in Outcomes, i \in Jobs :
          pending[s] = <<op, i>> => pending'[s] = <<op, i>>
    BY <2>1, CronAssumption DEF Outcomes, Writes
  <2> QED
    BY <1>4, <1>6, <2>2 DEF Planned, Running, Missed, Kept
<1>8. CASE found = {}
  <2>1. due' = due
    BY <1>1, <1>4, <1>5, <1>8
  <2> QED
    BY <1>1, <1>4, <1>7, <1>8, <2>1, Looks
<1>9. CASE found # {}
  <2>1. PICK st \in Stores : st = Erased(file)
    <3>1. ASSUME NEW j \in Jobs, IsDue(file[j])
          PROVE  [file[j] EXCEPT !.next = None] \in Job
      <4>1. file[j] \in Job
        BY <1>5, <3>1, JobType DEF IsDue
      <4> QED
        BY <4>1 DEF Job
    <3> QED
      BY <1>5, <3>1 DEF Erased, Stores
  <2>2. ASSUME NEW j \in Jobs
        PROVE  /\ st[j] = None <=> file[j] = None
               /\ file[j] # None => st[j].on = file[j].on
               /\ j \notin found => st[j] = file[j]
    <3>1. CASE IsDue(file[j])
      <4>1. file[j] \in Job /\ file[j] # None
        BY <1>5, <3>1, JobType DEF IsDue
      <4>2. st[j] = [file[j] EXCEPT !.next = None]
        BY <2>1, <3>1 DEF Erased
      <4>3. st[j] \in Job /\ st[j].on = file[j].on
        BY <4>1, <4>2 DEF Job
      <4> QED
        BY <1>3, <3>1, <4>1, <4>3, CronAssumption
    <3>2. CASE ~IsDue(file[j])
      BY <2>1, <3>2 DEF Erased
    <3> QED
      BY <3>1, <3>2
  <2>3. Write(g, st, "check", None) /\ "check" \in Writes
    BY <1>4, <1>9, <2>1 DEF Writes
  <2>4. Obeys(st, WantedAfter(wanted, "check", None))
    <3>1. WantedAfter(wanted, "check", None) = wanted
      BY DEF WantedAfter
    <3> QED
      BY <1>5, <2>2, <3>1 DEF Obeys
  <2>5. \A i \in Jobs : Unplanned(st[i]) => Unplanned(file[i]) \/ i \in due'[g]
    BY <1>4, <1>5, <2>2
  <2>6. GoodStore(g, st, "check", None)'
    BY <1>4, <2>4, <2>5 DEF GoodStore, Unplanned, Outcomes
  <2>7. \A i \in due'[g] : wanted[i] # "new" /\ st[i] # None
    <3>1. \A i \in due'[g] : i \in Jobs /\ file[i] # None
      BY <1>3, <1>4, <1>5 DEF IsDue
    <3> QED
      BY <1>5, <2>2, <3>1 DEF Obeys
  <2> QED
    BY <1>1, <1>4, <1>5, <1>7, <2>3, <2>6, <2>7, TakesUp
<1> QED
  BY <1>8, <1>9

LEMMA KeptEndRun ==
  ASSUME Typed, Kept, NEW g \in Gens,
         NEW outcome \in {"ok", "error", "canceled"}, NEW long \in BOOLEAN,
         EndRun(g, outcome, long)
  PROVE  Kept'
<1>1. PICK j \in Jobs : j = exec[g]
  BY EndRunStore DEF Typed
<1>2. /\ UNCHANGED <<file, status, due, wanted, gaps>>
      /\ exec' = [exec EXCEPT ![g] = None]
  BY DEF EndRun
<1>3. g \in Services
  BY DEF Services
<1>4. /\ Obeys(file, wanted) /\ wanted \in [Jobs -> {"new", "on", "off", "gone"}]
      /\ \A h \in Gens \ {g} : exec'[h] = exec[h]
  BY <1>2 DEF Typed, TypeOK, Kept
<1>5. CASE Reload(g)[j] = None /\ Look(g)
  <2>1. pending[g] = None /\ pending' = pending
    BY <1>5 DEF Look
  <2>2. file[j] = None
    BY <1>3, <1>5, <2>1, FileKnown DEF Kept
  <2>3. Planned'
    BY <1>1, <1>2, <1>4, <2>1, <2>2 DEF Planned, Running, Missed, Unplanned, Kept
  <2> QED
    BY <1>2, <1>3, <1>5, <2>3, Looks
<1>6. ASSUME NEW st \in Stores, NEW op \in Outcomes, Ran(g, st, op, j)
      PROVE  Kept'
  <2>1. Write(g, st, op, j) /\ op \in Writes /\ op \notin {"start", "check"} /\ pending[g] = None
    BY <1>6 DEF Ran, Outcomes, Writes, Write
  <2>2. Reload(g) = file
    BY <1>3, <2>1, FileKnown DEF Kept
  <2>3. /\ \A i \in Jobs \ {j} : st[i] = file[i]
        /\ file[j] # None
        /\ op = "done" => st[j] = None
        /\ op = "auto" => st[j] # None /\ ~st[j].on
        /\ op = "end" => st[j] # None /\ st[j].on = file[j].on
        /\ ~Unplanned(st[j])
    BY <1>6, <2>2 DEF Ran
  <2>4. wanted[j] \in {"on", "off"}
    BY <1>4, <2>3 DEF Obeys
  <2>5. Obeys(st, WantedAfter(wanted, op, j))
    <3>1. CASE op = "done"
      <4>1. WantedAfter(wanted, op, j) = [wanted EXCEPT ![j] = "gone"]
        BY <3>1 DEF WantedAfter
      <4> QED
        BY <1>4, <2>3, <3>1, <4>1 DEF Obeys
    <3>2. CASE op = "auto"
      <4>1. WantedAfter(wanted, op, j) = [wanted EXCEPT ![j] = "off"]
        BY <3>2 DEF WantedAfter
      <4> QED
        BY <1>4, <2>3, <3>2, <4>1 DEF Obeys
    <3>3. CASE op = "end"
      <4>1. WantedAfter(wanted, op, j) = wanted
        BY <3>3 DEF WantedAfter
      <4> QED
        BY <1>4, <2>3, <3>3, <4>1 DEF Obeys
    <3> QED
      BY <3>1, <3>2, <3>3 DEF Outcomes
  <2>6. \A i \in Jobs : Unplanned(st[i]) => Unplanned(file[i]) /\ i # j
    BY <2>3
  <2>7. GoodStore(g, st, op, j)'
    BY <1>2, <2>1, <2>4, <2>5, <2>6 DEF GoodStore, Unplanned
  <2>8. \A i \in due'[g] :
          /\ wanted[i] # "new"
          /\ st[i] = None => wanted[i] = "gone" \/ <<op, j>> = <<"done", i>>
    <3> SUFFICES ASSUME NEW i \in due[g]
                 PROVE  /\ wanted[i] # "new"
                        /\ st[i] = None => wanted[i] = "gone" \/ <<op, j>> = <<"done", i>>
      BY <1>2
    <3>1. i \in Jobs /\ wanted[i] # "new"
      BY DEF Typed, TypeOK, Kept, Collected
    <3>2. CASE i = j
      BY <2>3, <3>1, <3>2 DEF Outcomes
    <3>3. CASE i # j
      BY <1>4, <2>3, <3>1, <3>3 DEF Obeys
    <3> QED
      BY <3>1, <3>2, <3>3
  <2>9. Planned'
    <3>1. /\ \A s \in Services : pending[s] # None => pending'[s] = pending[s]
          /\ pending'[g] = <<op, j>>
      BY <1>3, <2>1 DEF Write, Typed, TypeOK
    <3>2. \A s \in Services, o \in Outcomes, i \in Jobs :
            pending[s] = <<o, i>> => pending'[s] = <<o, i>>
      BY <3>1, CronAssumption DEF Outcomes, Writes
    <3>3. ASSUME NEW h \in Gens, NEW i \in Jobs, exec[h] = i
          PROVE  exec'[h] = i \/ (\E s \in Services, o \in Outcomes : pending'[s] = <<o, i>>)
      BY <1>1, <1>3, <1>4, <3>1, <3>3
    <3>4. ASSUME Running', NEW i \in Jobs, Unplanned(file'[i])
          PROVE  \/ \E h \in Gens : i \in due'[h] \/ exec'[h] = i
                 \/ \E s \in Services, o \in Outcomes : pending'[s] = <<o, i>>
                 \/ Missed(i)'
      <4>1. \/ \E h \in Gens : i \in due[h] \/ exec[h] = i
            \/ \E s \in Services, o \in Outcomes : pending[s] = <<o, i>>
            \/ Missed(i)
        BY <1>2, <3>4 DEF Planned, Running, Kept
      <4>2. CASE \E s \in Services, o \in Outcomes : pending[s] = <<o, i>>
        BY <3>2, <4>2
      <4>3. CASE \E h \in Gens : i \in due[h] \/ exec[h] = i
        BY <1>2, <3>3, <4>3
      <4>4. CASE Missed(i)
        BY <1>2, <4>4 DEF Missed
      <4> QED
        BY <4>1, <4>2, <4>3, <4>4
    <3> QED
      BY <3>4 DEF Planned
  <2> QED
    BY <1>2, <1>3, <2>1, <2>7, <2>8, <2>9, TakesUp
<1> QED
  BY <1>1, <1>5, <1>6, EndRunStore DEF Typed

LEMMA KeptEdit ==
  ASSUME Typed, Kept, NEW change \in {"name", "payload", "schedule"}, UpdateJob(change), NoLoss'
  PROVE  Kept'
<1>1. PICK s \in Services, j \in Jobs, copy \in Job : s = edit.by /\ j = edit.job /\ copy = edit.copy
  BY EditStore DEF Typed
<1>2. /\ UNCHANGED <<file, status, due, exec, wanted>> /\ gaps \subseteq gaps'
  BY DEF UpdateJob, history
<1>3. \A t \in Services : pending[t] # None => pending'[t] = pending[t]
  BY <1>1, EditStore DEF Edited, Look, Write, Typed, TypeOK
<1>4. Planned'
  BY <1>2, <1>3, PlannedStays DEF Kept, Running
<1>5. CASE Look(s)
  BY <1>2, <1>4, <1>5, Looks
<1>6. ASSUME NEW st \in Stores, Edited(s, st, j)
      PROVE  Kept'
  <2>1. Write(s, st, "edit", j) /\ "edit" \in Writes /\ pending[s] = None
    BY <1>6 DEF Edited, Write, Writes, Commands
  <2>2. Reload(s) = file
    BY <2>1, FileKnown DEF Kept
  <2>3. file[j] = copy
    BY <1>1, <1>6, <2>2 DEF Edited, NoLoss, LostWrites
  <2>4. /\ \A i \in Jobs \ {j} : st[i] = file[i]
        /\ file[j] # None /\ st[j] # None /\ st[j].on = file[j].on
        /\ Unplanned(st[j]) => Unplanned(file[j])
    BY <1>1, <1>6, <2>2, <2>3 DEF Edited, Unplanned
  <2>5. Obeys(file, wanted) /\ wanted \in [Jobs -> {"new", "on", "off", "gone"}]
    BY DEF Kept, Typed, TypeOK
  <2>6. Obeys(st, WantedAfter(wanted, "edit", j))
    <3>1. WantedAfter(wanted, "edit", j) = wanted
      BY DEF WantedAfter
    <3> QED
      BY <2>4, <2>5, <3>1 DEF Obeys
  <2>7. wanted[j] # "gone" /\ \A i \in Jobs : Unplanned(st[i]) => Unplanned(file[i])
    BY <2>4, <2>5 DEF Obeys
  <2>8. GoodStore(s, st, "edit", j)'
    BY <1>2, <2>6, <2>7 DEF GoodStore, Unplanned, Outcomes
  <2>9. s \in Gens => \A i \in due'[s] : wanted[i] # "new" /\ (st[i] = None => wanted[i] = "gone")
    <3> SUFFICES ASSUME s \in Gens, NEW i \in due[s]
                 PROVE  wanted[i] # "new" /\ (st[i] = None => wanted[i] = "gone")
      BY <1>2
    <3>1. i \in Jobs /\ wanted[i] # "new"
      BY DEF Typed, TypeOK, Kept, Collected
    <3>2. st[i] = None => file[i] = None
      BY <2>4, <3>1
    <3> QED
      BY <2>5, <3>1, <3>2 DEF Obeys
  <2> QED
    BY <1>2, <1>4, <2>1, <2>8, <2>9, TakesUp
<1> QED
  BY <1>1, <1>5, <1>6, EditStore DEF Typed

(* Saving a good store makes it the file.                                  *)
LEMMA KeptSave ==
  ASSUME Typed, Kept, NEW s \in Services, Save(s), NoLoss'
  PROVE  Kept'
<1>1. pending[s] # None /\ s \notin unread
  BY DEF Save, NoLoss, LostWrites
<1>2. PICK op \in Writes, j \in Jobs \cup {None} : pending[s] = <<op, j>>
  BY <1>1 DEF Typed, TypeOK
<1>3. GoodStore(s, mem[s], op, j)
  BY <1>1, <1>2 DEF Kept, Written
<1>4. wanted' = WantedAfter(wanted, op, j)
  <2>1. pending[s][1] = op /\ pending[s][2] = j
    BY <1>2
  <2> QED
    BY <2>1 DEF Save, Record, WantedAfter
<1>5. /\ file' = mem[s] /\ unread' = Services \ (Gens \cap {s})
      /\ UNCHANGED <<due, exec>> /\ gaps \subseteq gaps'
      /\ pending' = [pending EXCEPT ![s] = None]
      /\ mem' = IF s = Cli THEN [mem EXCEPT ![s] = Empty] ELSE mem
      /\ op # "start" => status' = status
  BY <1>2 DEF Save, Release
<1>6. \A t \in Services : t \notin unread' => t = s /\ s \in Gens /\ s # Cli
  BY <1>5, CronAssumption
<1>7. Obeys(file, wanted)'
  BY <1>3, <1>4, <1>5 DEF GoodStore, Obeys
<1>8. Reread'
  BY <1>5, <1>6 DEF Reread
<1>9. Written'
  <2>1. pending'[s] = None
    BY <1>5 DEF Typed, TypeOK
  <2>2. \A o \in Writes, i \in Jobs \cup {None} : <<o, i>> # None
    BY CronAssumption
  <2> QED
    BY <1>6, <2>1, <2>2 DEF Written
<1>10. Collected'
  <2> SUFFICES ASSUME NEW g \in Gens, NEW i \in due[g]
               PROVE  /\ wanted'[i] # "new"
                      /\ mem'[g][i] = None =>
                           wanted'[i] = "gone" \/ pending'[g] \in {<<"remove", i>>, <<"done", i>>}
    BY <1>5 DEF Collected
  <2>1. /\ i \in Jobs /\ wanted[i] # "new" /\ g \in Services /\ g # Cli
        /\ mem[g][i] = None => wanted[i] = "gone" \/ pending[g] \in {<<"remove", i>>, <<"done", i>>}
    BY CronAssumption DEF Typed, TypeOK, Kept, Collected, Services
  <2>2. mem'[g] = mem[g] /\ (g # s => pending'[g] = pending[g])
    BY <1>5, <2>1 DEF Typed, TypeOK
  <2>3. wanted \in [Jobs -> {"new", "on", "off", "gone"}]
    BY DEF Typed, TypeOK
  <2>4. wanted'[i] # "new"
    BY <1>4, <2>1, <2>3 DEF WantedAfter
  <2>5. wanted[i] = "gone" => wanted'[i] = "gone"
    <3>1. CASE op \in {"start", "check"}
      BY <1>4, <3>1 DEF WantedAfter
    <3>2. CASE op \notin {"start", "check"}
      <4>1. wanted[j] # "gone"
        BY <1>3, <3>2 DEF GoodStore
      <4> QED
        BY <1>4, <2>1, <2>3, <4>1 DEF WantedAfter
    <3> QED
      BY <3>1, <3>2
  <2>6. ASSUME g = s, pending[g] \in {<<"remove", i>>, <<"done", i>>}
        PROVE  wanted'[i] = "gone"
    <3>1. op \in {"remove", "done"} /\ j = i
      BY <1>2, <2>6
    <3> QED
      BY <1>4, <2>1, <2>3, <3>1 DEF WantedAfter
  <2> QED
    BY <2>1, <2>2, <2>4, <2>5, <2>6
<1>11. Planned'
  <2> SUFFICES ASSUME Running', NEW i \in Jobs, Unplanned(mem[s][i])
               PROVE  \/ \E g \in Gens : i \in due[g] \/ exec[g] = i
                      \/ \E t \in Services, o \in Outcomes : pending'[t] = <<o, i>>
                      \/ Missed(i)'
    BY <1>5 DEF Planned
  <2>1. Missed(i) => Missed(i)'
    BY <1>5 DEF Missed
  <2>2. \/ Unplanned(file[i]) /\ op # "start" /\ (op \in Outcomes => i # j)
        \/ op = "check" /\ s \in Gens /\ i \in due[s]
        \/ Missed(i)
    BY <1>3 DEF GoodStore
  <2>3. ASSUME Unplanned(file[i]), op # "start", op \in Outcomes => i # j
        PROVE  \/ \E g \in Gens : i \in due[g] \/ exec[g] = i
               \/ \E t \in Services, o \in Outcomes : pending'[t] = <<o, i>>
               \/ Missed(i)
    <3>1. Running
      BY <1>5, <2>3 DEF Running
    <3>2. \/ \E g \in Gens : i \in due[g] \/ exec[g] = i
          \/ \E t \in Services, o \in Outcomes : pending[t] = <<o, i>>
          \/ Missed(i)
      BY <2>3, <3>1 DEF Kept, Planned
    <3>3. ASSUME NEW t \in Services, NEW o \in Outcomes, pending[t] = <<o, i>>
          PROVE  pending'[t] = <<o, i>>
      <4>1. t # s
        BY <1>2, <2>3, <3>3
      <4> QED
        BY <1>5, <3>3, <4>1 DEF Typed, TypeOK
    <3> QED
      BY <3>2, <3>3
  <2> QED
    BY <2>1, <2>2, <2>3
<1> QED
  BY <1>7, <1>8, <1>9, <1>10, <1>11 DEF Kept

LEMMA KeptBegin ==
  ASSUME Typed, Kept, NEW g \in Gens, NEW j \in Jobs, BeginRun(g, j)
  PROVE  Kept'
<1>1. /\ UNCHANGED <<file, mem, unread, pending, status, wanted, gaps>>
      /\ j \in due[g] /\ exec[g] = None /\ pending[g] = None
      /\ due' = [due EXCEPT ![g] = @ \ {j}]
      /\ mem[g][j] # None => exec' = [exec EXCEPT ![g] = j]
      /\ mem[g][j] = None => exec' = exec
      /\ due \in [Gens -> SUBSET Jobs] /\ exec \in [Gens -> Jobs \cup {None}]
  BY DEF BeginRun, Typed, TypeOK
<1>2. mem[g][j] = None => file[j] = None
  <2>1. mem[g][j] = None => wanted[j] = "gone"
    BY <1>1, CronAssumption DEF Kept, Collected, Writes, Commands
  <2> QED
    BY <2>1 DEF Kept, Obeys
<1>3. \A h \in Gens : due'[h] \subseteq due[h] /\ (h # g => due'[h] = due[h] /\ exec'[h] = exec[h])
  BY <1>1
<1>4. Obeys(file, wanted)' /\ Reread'
  BY <1>1 DEF Kept, Reread
<1>5. Written'
  <2> SUFFICES ASSUME NEW s \in Services, NEW o \in Writes, NEW i \in Jobs \cup {None},
                      s \notin unread, pending[s] = <<o, i>>
               PROVE  GoodStore(s, mem[s], o, i)'
    BY <1>1 DEF Written
  <2>1. GoodStore(s, mem[s], o, i)
    BY DEF Kept, Written
  <2>2. s \in Gens => due'[s] = due[s]
    <3>1. <<o, i>> # None
      BY CronAssumption
    <3>2. s # g
      BY <1>1, <3>1
    <3> QED
      BY <1>3, <3>2
  <2> QED
    BY <1>1, <2>1, <2>2 DEF GoodStore, Missed
<1>6. Collected'
  BY <1>1, <1>3 DEF Kept, Collected
<1>7. Planned'
  <2> SUFFICES ASSUME Running, NEW i \in Jobs, Unplanned(file[i])
               PROVE  \/ \E h \in Gens : i \in due'[h] \/ exec'[h] = i
                      \/ \E s \in Services, o \in Outcomes : pending[s] = <<o, i>>
                      \/ Missed(i)
    BY <1>1 DEF Planned, Running, Missed
  <2>1. \/ \E h \in Gens : i \in due[h] \/ exec[h] = i
        \/ \E s \in Services, o \in Outcomes : pending[s] = <<o, i>>
        \/ Missed(i)
    BY DEF Kept, Planned
  <2>2. ASSUME NEW h \in Gens, i \in due[h] \/ exec[h] = i
        PROVE  i \in due'[h] \/ exec'[h] = i
    <3>1. CASE h # g
      BY <1>3, <2>2, <3>1
    <3>2. CASE h = g
      <4>1. i \in due[g]
        BY <1>1, <2>2, <3>2, CronAssumption
      <4>2. CASE i = j
        BY <1>1, <1>2, <3>2, <4>2 DEF Unplanned
      <4>3. CASE i # j
        BY <1>1, <3>2, <4>1, <4>3
      <4> QED
        BY <4>2, <4>3
    <3> QED
      BY <3>1, <3>2
  <2> QED
    BY <2>1, <2>2
<1> QED
  BY <1>4, <1>5, <1>6, <1>7 DEF Kept

(* What has gone wrong is not forgotten. *)
LEMMA GapsStay ==
  ASSUME [Next]_vars
  PROVE  gaps \subseteq gaps'
<1>1. ASSUME NEW s \in Services, NEW j \in Jobs,
             \/ AddJob(s, j) \/ RemoveJob(s, j) \/ RunNow(s, j) \/ GetJob(s, j)
             \/ EnableJob(s, j) \/ DisableJob(s, j)
      PROVE  gaps \subseteq gaps'
  <2>1. Frame
    BY <1>1 DEF AddJob, RemoveJob, RunNow, GetJob, EnableJob, DisableJob
  <2> QED
    BY <2>1 DEF Frame
<1>2. ASSUME NEW change \in {"name", "payload", "schedule"}, UpdateJob(change)
      PROVE  gaps \subseteq gaps'
  BY <1>2 DEF UpdateJob
<1>3. ASSUME NEW s \in Services, Save(s) \/ SaveFails(s) PROVE gaps \subseteq gaps'
  BY <1>3 DEF Save, SaveFails
<1>4. ASSUME NEW g \in Gens, Start(g) \/ Stop(g) PROVE gaps \subseteq gaps'
  BY <1>4 DEF Start, Stop
<1>5. ASSUME NEW g \in Gens, CheckJobs(g) PROVE gaps \subseteq gaps'
  BY <1>5 DEF CheckJobs
<1>6. ASSUME NEW g \in Gens, NEW j \in Jobs, BeginRun(g, j) PROVE gaps \subseteq gaps'
  BY <1>6 DEF BeginRun
<1>7. ASSUME NEW g \in Gens, NEW outcome, NEW long, EndRun(g, outcome, long)
      PROVE  gaps \subseteq gaps'
  BY <1>7 DEF EndRun
<1>8. CASE Crash
  BY <1>8 DEF Crash
<1>9. CASE Tick
  BY <1>9 DEF Tick
<1>10. CASE UNCHANGED vars
  BY <1>10 DEF vars
<1> QED
  BY <1>1, <1>2, <1>3, <1>4, <1>5, <1>6, <1>7, <1>8, <1>9, <1>10 DEF Next, Loop

LEMMA KeptNext == CronInv /\ [Next]_vars => CronInv'
<1> SUFFICES ASSUME Typed, NoLoss => Kept, [Next]_vars, NoLoss' PROVE Kept'
  BY TypedNext DEF CronInv, Typed
<1>1. gaps \subseteq gaps'
  BY GapsStay
<1>2. Kept
  BY <1>1 DEF NoLoss
<1>3. \A g \in Gens : g \in Services
  BY DEF Services
<1>4. ASSUME NEW s \in Services, NEW j \in Jobs, GetJob(s, j) PROVE Kept'
  <2>1. UNCHANGED <<file, wanted, due, exec, status, gaps>> /\ Look(s)
    BY <1>4 DEF GetJob, Frame, history
  <2>2. pending' = pending
    BY <2>1 DEF Look
  <2>3. Planned'
    BY <1>2, <2>1, <2>2, PlannedStays DEF Kept, Running
  <2> QED
    BY <1>2, <2>1, <2>3, Looks
<1>5. ASSUME NEW s \in Services, SaveFails(s) PROVE Kept'
  BY <1>5 DEF SaveFails, NoLoss, LostWrites
<1>6. ASSUME NEW g \in Gens, Stop(g) PROVE Kept'
  <2>1. /\ UNCHANGED <<file, mem, unread, pending, due, exec, wanted, gaps>>
        /\ status' = [status EXCEPT ![g] = "stopped"]
    BY <1>6 DEF Stop, history
  <2>2. Running' => Running
    BY <2>1 DEF Running, Typed, TypeOK
  <2>3. Written'
    BY <1>2, <2>1 DEF Kept, Written, GoodStore, Missed, Obeys
  <2>4. Planned'
    BY <1>2, <2>1, <2>2 DEF Kept, Planned, Missed
  <2> QED
    BY <1>2, <2>1, <2>3, <2>4 DEF Kept, Reread, Collected, Obeys
<1>7. CASE Crash
  <2>1. /\ UNCHANGED <<file, wanted>>
        /\ mem' = [s \in Services |-> IF s = Cli THEN mem[s] ELSE Empty]
        /\ unread' = unread \cup Gens
        /\ pending' = [s \in Services |-> IF s = Cli THEN pending[s] ELSE None]
        /\ status' = [g \in Gens |-> "off"]
        /\ due' = [g \in Gens |-> {}]
    BY <1>7 DEF Crash, history
  <2>2. \A s \in Services : s \notin unread' => s = Cli /\ s \notin Gens /\ s \notin unread
                              /\ mem'[s] = mem[s] /\ pending'[s] = pending[s]
    BY <2>1, CronAssumption DEF Services
  <2>3. Obeys(file, wanted)'
    BY <1>2, <2>1 DEF Kept
  <2>4. Reread'
    BY <1>2, <2>1, <2>2 DEF Kept, Reread
  <2>5. Written'
    <3> SUFFICES ASSUME NEW s \in Services, NEW o \in Writes, NEW i \in Jobs \cup {None},
                        s \notin unread', pending'[s] = <<o, i>>
                 PROVE  GoodStore(s, mem[s], o, i)'
      BY DEF Written
    <3>1. GoodStore(s, mem[s], o, i) /\ s \notin Gens /\ mem'[s] = mem[s]
      BY <1>2, <2>2 DEF Kept, Written
    <3> QED
      BY <1>1, <2>1, <3>1 DEF GoodStore, Missed
  <2>6. Collected' /\ Planned'
    BY <2>1 DEF Collected, Planned, Running
  <2> QED
    BY <2>3, <2>4, <2>5, <2>6 DEF Kept
<1>8. CASE Tick \/ UNCHANGED vars
  <2>1. UNCHANGED <<file, mem, unread, pending, status, due, exec, wanted, gaps>>
    BY <1>8 DEF Tick, vars, history
  <2>2. Written'
    BY <1>2, <2>1 DEF Kept, Written, GoodStore, Missed, Obeys
  <2>3. Planned'
    BY <1>2, <2>1 DEF Kept, Planned, Running, Missed
  <2> QED
    BY <1>2, <2>1, <2>2, <2>3 DEF Kept, Reread, Collected, Obeys
<1> QED
  BY <1>2, <1>3, <1>4, <1>5, <1>6, <1>7, <1>8,
     KeptCommand, KeptStart, KeptCheck, KeptEndRun, KeptEdit, KeptSave, KeptBegin
  DEF Next, Loop, CommandTyped

LEMMA KeptInit == Init => CronInv
<1> SUFFICES ASSUME Init PROVE CronInv
  OBVIOUS
<1>1. Typed
  BY TypedInit
<1>2. PICK known \in SUBSET Jobs :
        /\ file = [j \in Jobs |-> IF j \in known THEN NewJob(j, 0) ELSE None]
        /\ wanted = [j \in Jobs |-> IF j \in known THEN "on" ELSE "new"]
  BY DEF Init
<1>3. Obeys(file, wanted)
  <2>1. \A j \in Jobs : NewJob(j, 0) # None /\ NewJob(j, 0).on
    BY NewJobType, CronAssumption DEF NewJob
  <2> QED
    BY <1>2, <2>1 DEF Obeys
<1>4. Reread /\ Written /\ Collected /\ Planned
  BY DEF Init, Reread, Written, Collected, Planned, Running
<1> QED
  BY <1>1, <1>3, <1>4 DEF CronInv, Typed, Kept

LEMMA CronInvariance == Spec => []CronInv
BY KeptInit, KeptNext, PTL DEF Spec

(* What the last saved command made of a job is what jobs.json says of it, *)
(* whatever runs of it ended in between (executeJobByID's merge), as long  *)
(* as no write went missing.                                               *)
THEOREM CommandsNotUndone == Spec => []CommandsKept
<1>1. CronInv => CommandsKept
  BY DEF CronInv, Typed, TypeOK, NoLoss, Kept, Obeys, CommandsKept
<1> QED
  BY <1>1, CronInvariance, PTL

(* An enabled job is not left with no next run and nobody to give it one   *)
(* (checkJobs erases it before the run and executeJobByID sets it          *)
(* after), as long as no write went missing.                               *)
THEOREM NoJobForgotten == Spec => []EnabledIsScheduled
<1>1. CronInv => EnabledIsScheduled
  <2> SUFFICES ASSUME CronInv, gaps \cap LostWrites = {}, Running, NEW j \in Jobs,
                      Unplanned(file[j])
               PROVE  \/ \E g \in Gens : j \in due[g] \/ exec[g] = j
                      \/ \E s \in Services : pending[s] # None /\ pending[s][2] = j
                      \/ j \notin Periodic /\ "missed" \in gaps
    BY DEF EnabledIsScheduled, Running, Unplanned
  <2>1. \/ \E g \in Gens : j \in due[g] \/ exec[g] = j
        \/ \E s \in Services, op \in Outcomes : pending[s] = <<op, j>>
        \/ Missed(j)
    BY DEF CronInv, NoLoss, Kept, Planned
  <2>2. \A s \in Services, op \in Outcomes :
          pending[s] = <<op, j>> => pending[s] # None /\ pending[s][2] = j
    BY CronAssumption DEF Outcomes, Writes
  <2> QED
    BY <2>1, <2>2 DEF Missed
<1> QED
  BY <1>1, CronInvariance, PTL

-----------------------------------------------------------------------------
(***************************************************************************)
(* One loop at a time.                                                     *)
(***************************************************************************)

(* A run of i ended, and its outcome is not in the file yet. *)
Ending(g, i) == \E op \in Outcomes : pending[g] = <<op, i>>

(* The loop of g runs, or is not done with what it collected. *)
Active(g) ==
  \/ status[g] \in {"starting", "running"}
  \/ due[g] # {}
  \/ exec[g] # None
  \/ \E i \in Jobs : Ending(g, i)

Alone ==
  /\ \A g, h \in Gens : Active(g) /\ Active(h) => g = h
  /\ \A s \in Services, j \in Jobs \cup {None} :
       pending[s] = <<"start", j>> => s \in Gens /\ status[s] = "starting"

LEMMA AloneStays ==
  ASSUME Alone, \A g \in Gens : Active(g)' => Active(g),
         \A s \in Services, j \in Jobs \cup {None} :
           pending'[s] = <<"start", j>> => pending[s] = <<"start", j>> /\ (s \in Gens => status'[s] = status[s])
  PROVE  Alone'
<1>1. \A g, h \in Gens : Active(g)' /\ Active(h)' => g = h
  BY DEF Alone
<1>2. \A s \in Services, j \in Jobs \cup {None} :
        pending'[s] = <<"start", j>> => s \in Gens /\ status'[s] = "starting"
  BY DEF Alone
<1> QED
  BY <1>1, <1>2 DEF Alone

(* An operation that is not the end of a run nor a start.                  *)
LEMMA AloneWrite ==
  ASSUME Typed, Alone, NEW s \in Services, UNCHANGED <<status, due, exec>>,
         \/ pending' = pending
         \/ \E op \in Writes \ (Outcomes \cup {"start"}), j \in Jobs \cup {None} :
              pending' = [pending EXCEPT ![s] = <<op, j>>]
         \/ \A t \in Services : pending'[t] \in {pending[t], None}
  PROVE  Alone'
<1>1. \A t \in Services : pending'[t] = pending[t] \/ pending'[t] = None
        \/ \E op \in Writes \ (Outcomes \cup {"start"}), j \in Jobs \cup {None} :
             pending'[t] = <<op, j>>
  BY DEF Typed, TypeOK
<1>2. \A o \in Writes, i \in Jobs \cup {None} : <<o, i>> # None
  BY CronAssumption
<1>3. \A g \in Gens, i \in Jobs : Ending(g, i)' => Ending(g, i)
  <2> SUFFICES ASSUME NEW g \in Gens, NEW i \in Jobs, NEW o \in Outcomes, pending'[g] = <<o, i>>
               PROVE  pending[g] = <<o, i>>
    BY DEF Ending
  <2>1. g \in Services /\ o \in Writes
    BY DEF Services, Outcomes, Writes
  <2> QED
    BY <1>1, <1>2, <2>1
<1>4. \A g \in Gens : Active(g)' => Active(g)
  BY <1>3 DEF Active
<1>5. \A t \in Services, j \in Jobs \cup {None} :
        pending'[t] = <<"start", j>> => pending[t] = <<"start", j>>
  BY <1>1, <1>2 DEF Writes
<1> QED
  BY <1>4, <1>5, AloneStays

LEMMA AloneStart ==
  ASSUME Typed, Alone, NEW g \in Gens, Start(g), "overlap" \notin gaps'
  PROVE  Alone'
<1>1. /\ \A h \in Gens : status[h] \in {"off", "stopped"}
      /\ \A h \in Gens : ~Busy(h)
      /\ pending' = [pending EXCEPT ![g] = <<"start", None>>]
      /\ status' = [status EXCEPT ![g] = "starting"]
      /\ UNCHANGED <<due, exec>>
  BY DEF Start, Write
<1>2. /\ g \in Services /\ DOMAIN pending = Services /\ DOMAIN status = Gens
      /\ \A o \in Writes, i \in Jobs \cup {None} : <<o, i>> # None
  BY CronAssumption DEF Typed, TypeOK, Services
<1>3. ASSUME NEW h \in Gens, h # g PROVE ~Active(h)'
  <2>1. status'[h] = status[h] /\ pending'[h] = None /\ due'[h] = {} /\ exec'[h] = None
    BY <1>1, <1>2, <1>3 DEF Busy
  <2> QED
    BY <1>1, <1>2, <2>1 DEF Active, Ending, Outcomes, Writes
<1>4. ASSUME NEW s \in Services, NEW j \in Jobs \cup {None}, pending'[s] = <<"start", j>>
      PROVE  s \in Gens /\ status'[s] = "starting"
  <2>1. CASE s = g
    BY <1>1, <1>2, <2>1
  <2>2. CASE s # g
    <3>1. pending[s] = <<"start", j>>
      BY <1>1, <1>2, <1>4, <2>2
    <3> QED
      BY <1>1, <3>1 DEF Alone
  <2> QED
    BY <2>1, <2>2
<1> QED
  BY <1>3, <1>4 DEF Alone

LEMMA AloneEndRun ==
  ASSUME Typed, Alone, NEW g \in Gens,
         NEW outcome \in {"ok", "error", "canceled"}, NEW long \in BOOLEAN,
         EndRun(g, outcome, long)
  PROVE  Alone'
<1>1. /\ UNCHANGED <<status, due>> /\ exec[g] # None
      /\ exec' = [exec EXCEPT ![g] = None]
      /\ exec \in [Gens -> Jobs \cup {None}] /\ g \in Services
  BY DEF EndRun, Typed, TypeOK, Services
<1>2. \A t \in Services \ {g} : pending'[t] = pending[t]
  BY DEF EndRun, Write, Look, Typed, TypeOK
<1>3. pending'[g] = pending[g] \/ \E op \in Outcomes, j \in Jobs : pending'[g] = <<op, j>>
  BY <1>1, EndRunStore DEF Ran, Look, Write, Typed, TypeOK
<1>4. Active(g)
  BY <1>1 DEF Active
<1>5. ASSUME NEW h \in Gens, Active(h)' PROVE Active(h)
  <2>1. CASE h = g
    BY <1>4, <2>1
  <2>2. CASE h # g
    <3>1. pending'[h] = pending[h] /\ exec'[h] = exec[h]
      BY <1>1, <1>2, <2>2 DEF Services
    <3> QED
      BY <1>1, <1>5, <3>1 DEF Active, Ending
  <2> QED
    BY <2>1, <2>2
<1>6. \A s \in Services, j \in Jobs \cup {None} :
        pending'[s] = <<"start", j>> => pending[s] = <<"start", j>>
  BY <1>2, <1>3 DEF Outcomes
<1> QED
  BY <1>1, <1>5, <1>6, AloneStays

LEMMA AloneSave ==
  ASSUME Typed, Alone, NEW s \in Services, Save(s) \/ SaveFails(s)
  PROVE  Alone'
<1>1. /\ UNCHANGED <<due, exec>>
      /\ pending' = [pending EXCEPT ![s] = None]
      /\ DOMAIN pending = Services /\ DOMAIN status = Gens
  BY DEF Save, SaveFails, Release, Typed, TypeOK
<1>2. PICK op \in Writes, j \in Jobs \cup {None} : pending[s] = <<op, j>>
  BY DEF Save, SaveFails, Typed, TypeOK
<1>3. /\ op # "start" => status' = status
      /\ op = "start" => status' = [status EXCEPT ![s] = "running"]
                         \/ status' = [status EXCEPT ![s] = "off"]
                         \/ status' = [status EXCEPT ![s] = "stopped"]
  BY <1>2 DEF Save, SaveFails
<1>4. op = "start" => s \in Gens /\ status[s] = "starting"
  BY <1>2 DEF Alone
<1>5. ASSUME NEW h \in Gens, Active(h)' PROVE Active(h)
  <2>1. \A i \in Jobs : Ending(h, i)' => Ending(h, i)
    <3> SUFFICES ASSUME NEW i \in Jobs, NEW o \in Outcomes, pending'[h] = <<o, i>>
                 PROVE  pending[h] = <<o, i>>
      BY DEF Ending
    <3>1. h \in Services /\ <<o, i>> # None
      BY CronAssumption DEF Services, Outcomes, Writes
    <3> QED
      BY <1>1, <3>1
  <2>2. CASE op = "start" /\ h = s
    BY <1>4, <2>2 DEF Active
  <2>3. CASE ~(op = "start" /\ h = s)
    <3>1. status'[h] = status[h]
      BY <1>1, <1>3, <2>3
    <3> QED
      BY <1>1, <1>5, <2>1, <3>1 DEF Active
  <2> QED
    BY <2>2, <2>3
<1>6. ASSUME NEW t \in Services, NEW i \in Jobs \cup {None}, pending'[t] = <<"start", i>>
      PROVE  pending[t] = <<"start", i>> /\ (t \in Gens => status'[t] = status[t])
  <2>1. <<"start", i>> # None
    BY CronAssumption DEF Writes
  <2>2. t # s
    BY <1>1, <1>6, <2>1
  <2> QED
    BY <1>1, <1>3, <1>6, <2>2
<1> QED
  BY <1>5, <1>6, AloneStays

LEMMA AloneNext ==
  ASSUME Typed, Alone, [Next]_vars, "overlap" \notin gaps'
  PROVE  Alone'
<1> USE DEF Typed
<1>1. \A g \in Gens : g \in Services
  BY DEF Services
<1>2. ASSUME NEW s \in Services, NEW j \in Jobs, CommandTyped(s, j) PROVE Alone'
  <2>1. PICK st \in Stores, op \in Commands \ {"edit"} : Commanded(s, st, op, j)
    BY <1>2, CommandStore
  <2>2. pending' = [pending EXCEPT ![s] = <<op, j>>] /\ op \in Writes \ (Outcomes \cup {"start"})
    BY <2>1 DEF Commanded, Write, Commands, Writes, Outcomes
  <2> QED
    BY <1>2, <2>2, CommandFrame, AloneWrite
<1>3. ASSUME NEW s \in Services, NEW j \in Jobs, GetJob(s, j) PROVE Alone'
  BY <1>3, AloneWrite DEF GetJob, Frame, Look
<1>4. ASSUME NEW change \in {"name", "payload", "schedule"}, UpdateJob(change) PROVE Alone'
  <2>1. UNCHANGED <<status, due, exec>>
    BY <1>4 DEF UpdateJob
  <2>2. PICK s \in Services, j \in Jobs : s = edit.by /\ j = edit.job
    BY <1>4, EditStore
  <2>3. pending' = pending \/ pending' = [pending EXCEPT ![s] = <<"edit", j>>]
    BY <1>4, <2>2, EditStore DEF Edited, Write, Look
  <2>4. "edit" \in Writes \ (Outcomes \cup {"start"})
    BY DEF Writes, Commands, Outcomes
  <2> QED
    BY <2>1, <2>2, <2>3, <2>4, AloneWrite
<1>5. ASSUME NEW g \in Gens, Stop(g) PROVE Alone'
  <2>1. /\ UNCHANGED <<pending, due, exec>> /\ status[g] = "running" /\ pending[g] = None
        /\ status' = [status EXCEPT ![g] = "stopped"] /\ DOMAIN status = Gens
    BY <1>5 DEF Stop, TypeOK
  <2>2. \A h \in Gens : Active(h)' => Active(h)
    BY <2>1 DEF Active, Ending
  <2>3. \A j \in Jobs \cup {None} : <<"start", j>> # None
    BY CronAssumption DEF Writes
  <2> QED
    BY <2>1, <2>2, <2>3, AloneStays
<1>6. ASSUME NEW g \in Gens, CheckJobs(g) PROVE Alone'
  <2>1. /\ UNCHANGED <<status, exec>> /\ status[g] = "running" /\ g \in Services
        /\ due \in [Gens -> SUBSET Jobs] /\ \A h \in Gens \ {g} : due'[h] = due[h]
        /\ pending' = pending \/ pending' = [pending EXCEPT ![g] = <<"check", None>>]
        /\ DOMAIN pending = Services
    BY <1>1, <1>6 DEF CheckJobs, Write, Look, TypeOK
  <2>2. ASSUME NEW h \in Gens, Active(h)' PROVE Active(h)
    <3>1. CASE h = g
      BY <2>1, <3>1 DEF Active
    <3>2. CASE h # g
      <4>1. pending'[h] = pending[h]
        BY <1>1, <2>1, <3>2
      <4> QED
        BY <2>1, <2>2, <3>2, <4>1 DEF Active, Ending
    <3> QED
      BY <3>1, <3>2
  <2> QED
    BY <2>1, <2>2, AloneStays
<1>7. ASSUME NEW g \in Gens, NEW j \in Jobs, BeginRun(g, j) PROVE Alone'
  <2>1. /\ UNCHANGED <<status, pending>> /\ due[g] # {}
        /\ due \in [Gens -> SUBSET Jobs] /\ exec \in [Gens -> Jobs \cup {None}]
        /\ \A h \in Gens \ {g} : due'[h] = due[h] /\ exec'[h] = exec[h]
    BY <1>7 DEF BeginRun, TypeOK
  <2>2. \A h \in Gens : Active(h)' => Active(h)
    BY <2>1 DEF Active, Ending
  <2> QED
    BY <2>1, <2>2, AloneStays
<1>8. CASE Crash
  <2>1. /\ \A g \in Gens : status'[g] = "off" /\ due'[g] = {} /\ exec'[g] = None
        /\ \A s \in Services : pending'[s] = pending[s] \/ pending'[s] = None
        /\ \A g \in Gens : pending'[g] = None
    BY <1>1, <1>8, CronAssumption DEF Crash
  <2>2. \A o \in Writes, i \in Jobs \cup {None} : <<o, i>> # None
    BY CronAssumption
  <2>3. \A g \in Gens : ~Active(g)'
    BY <2>1, <2>2 DEF Active, Ending, Outcomes, Writes
  <2>4. \A s \in Services, j \in Jobs \cup {None} : pending'[s] # <<"start", j>>
    <3> SUFFICES ASSUME NEW s \in Services, NEW j \in Jobs \cup {None},
                        pending'[s] = <<"start", j>>
                 PROVE  FALSE
      OBVIOUS
    <3>1. pending[s] = <<"start", j>>
      BY <2>1, <2>2 DEF Writes
    <3>2. s \in Gens
      BY <3>1 DEF Alone
    <3> QED
      BY <2>1, <2>2, <3>2 DEF Writes
  <2> QED
    BY <2>3, <2>4 DEF Alone
<1>9. CASE Tick \/ UNCHANGED vars
  <2>1. UNCHANGED <<status, due, exec, pending>>
    BY <1>9 DEF Tick, vars
  <2> QED
    BY <2>1 DEF Alone, Active, Ending
<1> QED
  BY <1>1, <1>2, <1>3, <1>4, <1>5, <1>6, <1>7, <1>8, <1>9, AloneStart, AloneEndRun, AloneSave
  DEF Next, Loop, CommandTyped

-----------------------------------------------------------------------------
(***************************************************************************)
(* What the steps do to the finished jobs and to the counts of failures.   *)
(***************************************************************************)

(* A store counts no more failures of i than the history, if the file does *)
(* not either.                                                             *)
Counts(st, i) ==
  st[i] # None =>
    /\ file[i] = None => st[i].fails = 0
    /\ file[i] # None /\ file[i].fails <= streak[i] => st[i].fails <= streak'[i]

(* What its loop may do to the jobs of s when s reads the file: collect    *)
(* some that are there, and end a run.                                     *)
Looped(s) ==
  \A g \in Gens :
    /\ exec'[g] \in {exec[g], None}
    /\ \A i \in due'[g] : i \in due[g] \/ (g = s /\ status[s] = "running" /\ file[i] # None)

(* Any operation that takes up a write, as it acts on what the file says.  *)
Taken(s, st, op, j) ==
  /\ Write(s, st, op, j)
  /\ UNCHANGED <<file, wanted>>
  /\ Looped(s)
  /\ op \notin {"start", "check"} => j \in Jobs
  /\ op = "enable" => st[j] # None /\ st[j].fails = 0
  /\ op = "auto" => st[j].fails >= MaxFails /\ st[j] # None
  /\ op \in Outcomes => s \in Gens /\ exec[s] = j /\ file[j] # None
  /\ \A i \in Jobs : file[i] = None /\ wanted[i] # "new" => st[i] = None
  /\ \A i \in Jobs : Counts(st, i)
  /\ \A i \in Jobs : streak'[i] # streak[i] => op \in Outcomes /\ i = j
  /\ finished \subseteq finished'
  /\ \A i \in finished' : i \in finished \/ (op \in Outcomes /\ i = j /\ op = "done")
  /\ op = "done" => st[j] = None

(* Any operation that only reads. *)
Glanced(s) ==
  /\ Look(s)
  /\ UNCHANGED <<file, wanted>>
  /\ Looped(s)
  /\ \A i \in Jobs : streak'[i] # streak[i] => file[i] = None
  /\ finished \subseteq finished'
  /\ \A i \in finished' :
       i \in finished \/ (i \in Jobs /\ s \in Gens /\ exec[s] = i /\ file[i] = None)

LEMMA SameCounts ==
  ASSUME Typed, NEW st \in Stores, NEW i \in Jobs, SameCount(file[i], st[i]), streak'[i] = streak[i]
  PROVE  Counts(st, i)
<1>1. streak[i] \in Nat
  BY DEF Typed, TypeOK
<1>2. st[i] # None => st[i].fails \in Nat
  BY JobType DEF Job
<1> QED
  BY <1>1, <1>2 DEF Counts, SameCount

LEMMA TakenCommand ==
  ASSUME Typed, Kept, NEW s \in Services, NEW j \in Jobs, CommandTyped(s, j)
  PROVE  \E st \in Stores, op \in Writes : Taken(s, st, op, j)
<1>1. PICK st \in Stores, op \in Commands \ {"edit"} : Commanded(s, st, op, j)
  BY CommandStore DEF Typed
<1>2. /\ Write(s, st, op, j) /\ op \in Writes /\ op \notin {"start", "check"} \cup Outcomes
      /\ pending[s] = None
  BY <1>1 DEF Commanded, Commands, Writes, Outcomes, Write
<1>3. Reload(s) = file
  BY <1>2, FileKnown DEF Kept
<1>4. UNCHANGED <<file, status, due, exec, wanted, streak, finished>>
  BY CommandFrame
<1>5. /\ \A i \in Jobs \ {j} : st[i] = file[i]
      /\ op = "add" => wanted[j] = "new"
      /\ op # "add" => file[j] # None
      /\ op = "enable" => st[j] # None /\ st[j].fails = 0
      /\ SameCount(file[j], st[j])
  BY <1>1, <1>3 DEF Commanded
<1>6. \A i \in Jobs : Counts(st, i)
  <2>1. \A i \in Jobs : SameCount(file[i], st[i])
    BY <1>5 DEF SameCount
  <2> QED
    BY <1>4, <2>1, SameCounts
<1>7. \A i \in Jobs : file[i] = None /\ wanted[i] # "new" => st[i] = None
  BY <1>5
<1>8. Looped(s)
  BY <1>4 DEF Looped
<1>9. Taken(s, st, op, j)
  BY <1>2, <1>4, <1>5, <1>6, <1>7, <1>8 DEF Taken, Outcomes
<1> QED
  BY <1>2, <1>9

LEMMA TakenStart ==
  ASSUME Typed, Kept, NEW g \in Gens, Start(g)
  PROVE  \E st \in Stores : Taken(g, st, "start", None)
<1>1. file \in Stores /\ now \in Nat
  BY DEF Typed, TypeOK
<1>2. PICK st \in Stores : st = [j \in Jobs |-> Recomputed(j, file[j])]
  <2>1. [j \in Jobs |-> Recomputed(j, file[j])] \in Stores
    BY <1>1, RecomputedType DEF Stores
  <2> QED
    BY <2>1
<1>3. /\ Write(g, st, "start", None)
      /\ UNCHANGED <<file, due, exec, wanted, streak, finished>>
  BY <1>2 DEF Start
<1>4. ASSUME NEW i \in Jobs
      PROVE  SameCount(file[i], st[i]) /\ (file[i] = None => st[i] = None)
  <2>1. st[i] = file[i] \/ (file[i] # None /\ st[i] = [file[i] EXCEPT !.next = NextRun(i, now)])
    BY <1>2 DEF Recomputed
  <2>2. file[i] # None => file[i] \in Job
    BY <1>1, JobType
  <2> QED
    BY <2>1, <2>2 DEF SameCount, Job
<1>5. \A i \in Jobs : Counts(st, i)
  BY <1>3, <1>4, SameCounts
<1>6. Taken(g, st, "start", None)
  BY <1>3, <1>4, <1>5 DEF Taken, Looped, Outcomes
<1> QED
  BY <1>6

LEMMA TakenCheck ==
  ASSUME Typed, Kept, NEW g \in Gens, CheckJobs(g)
  PROVE  Glanced(g) \/ \E st \in Stores : Taken(g, st, "check", None)
<1>1. pending[g] = None /\ status[g] = "running" /\ g \in Services
  BY DEF CheckJobs, Busy, Services
<1>2. Reload(g) = file /\ file \in Stores /\ due \in [Gens -> SUBSET Jobs]
  BY <1>1, FileKnown DEF Kept, Typed, TypeOK
<1>3. PICK found \in SUBSET Jobs : found = {j \in Jobs : IsDue(file[j])}
  OBVIOUS
<1>4. /\ UNCHANGED <<file, status, exec, wanted, streak, finished>>
      /\ due' = [due EXCEPT ![g] = found]
      /\ found = {} => Look(g)
      /\ found # {} => Write(g, Erased(file), "check", None)
  BY <1>2, <1>3 DEF CheckJobs, history
<1>5. Looped(g)
  BY <1>1, <1>2, <1>3, <1>4 DEF Looped, IsDue
<1>6. CASE found = {}
  BY <1>4, <1>5, <1>6 DEF Glanced
<1>7. CASE found # {}
  <2>1. PICK st \in Stores : st = Erased(file)
    <3>1. ASSUME NEW j \in Jobs, IsDue(file[j])
          PROVE  [file[j] EXCEPT !.next = None] \in Job
      <4>1. file[j] \in Job
        BY <1>2, <3>1, JobType DEF IsDue
      <4> QED
        BY <4>1 DEF Job
    <3> QED
      BY <1>2, <3>1 DEF Erased, Stores
  <2>2. ASSUME NEW i \in Jobs
        PROVE  SameCount(file[i], st[i]) /\ (file[i] = None => st[i] = None)
    <3>1. st[i] = file[i] \/ (file[i] # None /\ st[i] = [file[i] EXCEPT !.next = None])
      BY <2>1 DEF Erased, IsDue
    <3>2. file[i] # None => file[i] \in Job
      BY <1>2, JobType
    <3> QED
      BY <3>1, <3>2 DEF SameCount, Job
  <2>3. \A i \in Jobs : Counts(st, i)
    BY <1>4, <2>2, SameCounts
  <2>4. Taken(g, st, "check", None)
    BY <1>4, <1>5, <1>7, <2>1, <2>2, <2>3 DEF Taken, Outcomes
  <2> QED
    BY <2>4
<1> QED
  BY <1>6, <1>7

LEMMA TakenEdit ==
  ASSUME Typed, Kept, NEW change \in {"name", "payload", "schedule"}, UpdateJob(change), NoLoss'
  PROVE  \E s \in Services, j \in Jobs :
           Glanced(s) \/ \E st \in Stores : Taken(s, st, "edit", j)
<1>1. PICK s \in Services, j \in Jobs, copy \in Job : s = edit.by /\ j = edit.job /\ copy = edit.copy
  BY EditStore DEF Typed
<1>2. UNCHANGED <<file, status, due, exec, wanted, streak, finished>>
  BY DEF UpdateJob, history
<1>3. Looped(s)
  BY <1>2 DEF Looped
<1>4. CASE Look(s)
  BY <1>2, <1>3, <1>4 DEF Glanced
<1>5. ASSUME NEW st \in Stores, Edited(s, st, j)
      PROVE  Taken(s, st, "edit", j)
  <2>1. Write(s, st, "edit", j) /\ pending[s] = None
    BY <1>5 DEF Edited, Write
  <2>2. Reload(s) = file
    BY <2>1, FileKnown DEF Kept
  <2>3. file[j] = copy
    BY <1>1, <1>5, <2>2 DEF Edited, NoLoss, LostWrites
  <2>4. /\ \A i \in Jobs \ {j} : st[i] = file[i]
        /\ file[j] # None /\ SameCount(file[j], st[j])
    BY <1>1, <1>5, <2>2, <2>3 DEF Edited
  <2>5. \A i \in Jobs : SameCount(file[i], st[i])
    BY <2>4 DEF SameCount
  <2>6. \A i \in Jobs : Counts(st, i)
    BY <1>2, <2>5, SameCounts
  <2> QED
    BY <1>2, <1>3, <2>1, <2>4, <2>6 DEF Taken, Outcomes
<1> QED
  BY <1>1, <1>4, <1>5, EditStore DEF Typed

LEMMA TakenEndRun ==
  ASSUME Typed, Kept, NEW g \in Gens,
         NEW outcome \in {"ok", "error", "canceled"}, NEW long \in BOOLEAN,
         EndRun(g, outcome, long)
  PROVE  Glanced(g) \/ \E st \in Stores, op \in Outcomes : Taken(g, st, op, exec[g])
<1>1. PICK j \in Jobs : j = exec[g]
  BY EndRunStore DEF Typed
<1>2. /\ UNCHANGED <<file, status, due, wanted>>
      /\ exec' = [exec EXCEPT ![g] = None]
      /\ streak \in [Jobs -> Nat] /\ \A i \in Jobs \ {j} : streak'[i] = streak[i]
      /\ finished' = finished \/ (finished' = finished \cup {j} /\ j \notin Periodic /\ outcome # "canceled")
  BY <1>1 DEF EndRun, Typed, TypeOK
<1>3. g \in Services
  BY DEF Services
<1>4. Looped(g)
  BY <1>2 DEF Looped, Typed, TypeOK
<1>5. CASE Reload(g)[j] = None /\ Look(g)
  <2>1. pending[g] = None
    BY <1>5 DEF Look
  <2>2. file[j] = None
    BY <1>3, <1>5, <2>1, FileKnown DEF Kept
  <2> QED
    BY <1>1, <1>2, <1>4, <1>5, <2>2 DEF Glanced
<1>6. ASSUME NEW st \in Stores, NEW op \in Outcomes, Ran(g, st, op, j)
      PROVE  Taken(g, st, op, j)
  <2>1. Write(g, st, op, j) /\ op \in Writes /\ op \notin {"start", "check", "enable"} /\ pending[g] = None
    BY <1>6 DEF Ran, Outcomes, Writes, Write
  <2>2. Reload(g) = file
    BY <1>3, <2>1, FileKnown DEF Kept
  <2>3. /\ \A i \in Jobs \ {j} : st[i] = file[i]
        /\ file[j] # None
        /\ op = "done" => st[j] = None
        /\ op = "auto" => st[j] # None /\ st[j].fails >= MaxFails
        /\ st[j] # None => Recounted(j, file[j].fails, st[j].fails)
    BY <1>6, <2>2 DEF Ran
  <2>4. ASSUME NEW i \in Jobs PROVE Counts(st, i)
    <3>1. CASE i # j
      <4>1. SameCount(file[i], st[i])
        BY <2>3, <3>1 DEF SameCount
      <4> QED
        BY <1>2, <3>1, <4>1, SameCounts
    <3>2. CASE i = j
      <4>1. file[j].fails \in Nat /\ streak[j] \in Nat
        BY <2>3, JobType DEF Typed, TypeOK, Job
      <4>2. streak'[j] \in Nat
        BY <1>1 DEF EndRun, Typed, TypeOK
      <4> QED
        BY <2>3, <3>2, <4>1, <4>2 DEF Counts, Recounted
    <3> QED
      BY <3>1, <3>2
  <2>5. finished' # finished => op = "done"
    <3>1. ASSUME j \notin Periodic, outcome # "canceled" PROVE op = "done"
      <4>1. Write(g, [Reload(g) EXCEPT ![j] = AfterRun(j, Tallied(Reload(g)[j], outcome), outcome, long)],
                  "done", j)
        BY <1>1, <2>2, <2>3, <3>1 DEF EndRun
      <4> QED
        BY <1>3, <2>1, <4>1 DEF Write, Typed, TypeOK
    <3> QED
      BY <1>2, <3>1
  <2>6. \A i \in finished' : i \in finished \/ (op \in Outcomes /\ i = j /\ op = "done")
    BY <1>2, <2>5
  <2> QED
    BY <1>1, <1>2, <1>4, <2>1, <2>3, <2>4, <2>6 DEF Taken
<1> QED
  BY <1>1, <1>5, <1>6, EndRunStore DEF Typed

(* A step is one of these, or leaves the stores alone.                     *)
Still == UNCHANGED <<file, mem, unread, pending, due, exec, wanted, streak, finished>>

LEMMA Steps ==
  ASSUME Typed, Kept, [Next]_vars, NoLoss'
  PROVE  \/ \E s \in Services : Glanced(s)
         \/ \E s \in Services, st \in Stores, op \in Writes, j \in Jobs \cup {None} :
              Taken(s, st, op, j)
         \/ \E s \in Services : Save(s)
         \/ \E g \in Gens, j \in Jobs : BeginRun(g, j)
         \/ Crash
         \/ Still
<1> DEFINE T == \E s \in Services, st \in Stores, op \in Writes, j \in Jobs \cup {None} :
                  Taken(s, st, op, j)
           G == \E s \in Services : Glanced(s)
<1>1. \A g \in Gens : g \in Services /\ (exec[g] \in Jobs \cup {None})
  BY DEF Services, Typed, TypeOK
<1>2. {"start", "check", "edit"} \cup Outcomes \subseteq Writes
  BY DEF Writes, Commands, Outcomes
<1>3. ASSUME NEW s \in Services, NEW j \in Jobs, CommandTyped(s, j) PROVE T
  BY <1>3, TakenCommand
<1>4. ASSUME NEW s \in Services, NEW j \in Jobs, GetJob(s, j) PROVE G
  <2>1. Look(s) /\ UNCHANGED <<file, status, due, exec, wanted, streak, finished>>
    BY <1>4 DEF GetJob, Frame, history
  <2>2. Glanced(s)
    BY <2>1 DEF Glanced, Looped
  <2> QED
    BY <2>2
<1>5. ASSUME NEW change \in {"name", "payload", "schedule"}, UpdateJob(change) PROVE T \/ G
  BY <1>2, <1>5, TakenEdit
<1>6. ASSUME NEW g \in Gens, Start(g) PROVE T
  BY <1>1, <1>2, <1>6, TakenStart
<1>7. ASSUME NEW g \in Gens, CheckJobs(g) PROVE T \/ G
  BY <1>1, <1>2, <1>7, TakenCheck
<1>8. ASSUME NEW g \in Gens, NEW outcome \in {"ok", "error", "canceled"}, NEW long \in BOOLEAN,
             EndRun(g, outcome, long)
      PROVE  T \/ G
  BY <1>1, <1>2, <1>8, TakenEndRun
<1>9. ASSUME NEW s \in Services, SaveFails(s) PROVE FALSE
  BY <1>9 DEF SaveFails, NoLoss, LostWrites
<1>10. ASSUME NEW g \in Gens, Stop(g) PROVE Still
  BY <1>10 DEF Stop, vars, history, Still
<1>11. ASSUME Tick \/ UNCHANGED vars PROVE Still
  BY <1>11 DEF Tick, vars, history, Still
<1> HIDE DEF T, G
<1>12. \/ T \/ G \/ Crash \/ Still
       \/ \E s \in Services : Save(s)
       \/ \E g \in Gens, j \in Jobs : BeginRun(g, j)
  BY <1>3, <1>4, <1>5, <1>6, <1>7, <1>8, <1>9, <1>10, <1>11 DEF Next, Loop, CommandTyped
<1> QED
  BY <1>12 DEF T, G

(* What is left of the 'at' jobs a run of which has ended: nobody has one  *)
(* that could run again.                                                   *)
Finished ==
  /\ \A g \in Gens : exec[g] # None => wanted[exec[g]] # "new"
  /\ \A i \in finished :
       /\ wanted[i] # "new"
       /\ wanted[i] = "gone" \/ \E g \in Gens : pending[g] = <<"done", i>>
       /\ \A g \in Gens : i \in due[g] => mem[g][i] = None

(* The runs that the file, or a store about to be written, has not counted *)
(* are those whose outcome another service is about to write.              *)
Counted ==
  /\ \A i \in Jobs : file[i] # None => file[i].fails <= streak[i] \/ \E g \in Gens : Ending(g, i)
  /\ \A s \in Services, op \in Writes, j \in Jobs \cup {None} :
       s \notin unread /\ pending[s] = <<op, j>> =>
         /\ \A i \in Jobs : mem[s][i] # None =>
              /\ mem[s][i].fails <= streak[i] \/ \E g \in Gens \ {s} : Ending(g, i)
              /\ file[i] = None => mem[s][i].fails = 0
         /\ op = "enable" => mem[s][j].fails = 0

LEMMA Removed ==
  ASSUME Typed, Kept, Alone, Finished, NEW g \in Gens, NEW i \in finished,
         Active(g), pending[g] = None
  PROVE  file[i] = None
<1>1. i \in Jobs
  BY DEF Typed, TypeOK
<1>2. CASE wanted[i] = "gone"
  BY <1>1, <1>2 DEF Kept, Obeys
<1>3. ASSUME NEW h \in Gens, pending[h] = <<"done", i>> PROVE FALSE
  <2>1. Active(h) /\ pending[h] # None
    BY <1>1, <1>3, CronAssumption DEF Active, Ending, Outcomes, Writes
  <2> QED
    BY <2>1 DEF Alone
<1> QED
  BY <1>2, <1>3 DEF Finished

LEMMA FinishedTaken ==
  ASSUME Typed, Kept, Alone, Finished, NEW s \in Services, NEW st \in Stores, NEW op \in Writes,
         NEW j \in Jobs \cup {None}, Taken(s, st, op, j)
  PROVE  Finished'
<1>1. /\ mem' = [mem EXCEPT ![s] = st] /\ pending[s] = None
      /\ pending' = [pending EXCEPT ![s] = <<op, j>>]
      /\ DOMAIN mem = Services /\ DOMAIN pending = Services
      /\ wanted' = wanted /\ \A g \in Gens : g \in Services
  BY DEF Taken, Write, Typed, TypeOK, Services
<1>2. \A g \in Gens : exec'[g] # None => wanted[exec'[g]] # "new"
  BY DEF Taken, Looped, Finished
<1>3. ASSUME NEW i \in finished'
      PROVE  \/ i \in finished
             \/ op = "done" /\ i = j /\ s \in Gens /\ exec[s] = i /\ i \in Jobs /\ st[i] = None
  BY DEF Taken, Outcomes
<1>4. ASSUME NEW i \in finished' PROVE wanted[i] # "new"
  <2>1. CASE i \in finished
    BY <2>1 DEF Finished
  <2>2. CASE i \notin finished
    BY <1>3, <2>2, CronAssumption DEF Finished
  <2> QED
    BY <2>1, <2>2
<1>5. ASSUME NEW i \in finished'
      PROVE  wanted[i] = "gone" \/ \E g \in Gens : pending'[g] = <<"done", i>>
  <2>1. CASE i \in finished
    <3>1. ASSUME NEW g \in Gens, pending[g] = <<"done", i>> PROVE pending'[g] = <<"done", i>>
      <4>1. <<"done", i>> # None
        BY <2>1, CronAssumption DEF Typed, TypeOK, Writes
      <4> QED
        BY <1>1, <3>1, <4>1
    <3> QED
      BY <2>1, <3>1 DEF Finished
  <2>2. CASE i \notin finished
    <3>1. s \in Gens /\ pending'[s] = <<"done", i>>
      BY <1>1, <1>3, <2>2
    <3> QED
      BY <3>1
  <2> QED
    BY <2>1, <2>2
<1>6. ASSUME NEW i \in finished', NEW g \in Gens, i \in due'[g]
      PROVE  mem'[g][i] = None
  <2>1. i \in due[g] \/ (g = s /\ status[s] = "running" /\ file[i] # None)
    BY <1>6 DEF Taken, Looped
  <2>2. Active(g)
    BY <2>1 DEF Active
  <2>3. CASE i \notin finished
    <3>1. Active(s) /\ s \in Gens
      BY <1>3, <2>3, CronAssumption DEF Active
    <3>2. s = g
      BY <2>2, <3>1 DEF Alone
    <3> QED
      BY <1>1, <1>3, <2>3, <3>2
  <2>4. CASE i \in finished /\ g = s
    <3>1. file[i] = None /\ i \in Jobs
      BY <1>1, <2>2, <2>4, Removed DEF Typed, TypeOK
    <3>2. st[i] = None
      BY <1>4, <3>1 DEF Taken
    <3> QED
      BY <1>1, <2>4, <3>2
  <2>5. CASE i \in finished /\ g # s
    BY <1>1, <2>1, <2>5 DEF Finished
  <2> QED
    BY <2>3, <2>4, <2>5
<1> QED
  BY <1>1, <1>2, <1>4, <1>5, <1>6 DEF Finished

LEMMA FinishedGlanced ==
  ASSUME Typed, Kept, Alone, Finished, NEW s \in Services, Glanced(s)
  PROVE  Finished'
<1>1. /\ pending' = pending /\ pending[s] = None /\ wanted' = wanted
      /\ DOMAIN mem = Services /\ \A g \in Gens : g \in Services /\ g # Cli
  BY CronAssumption DEF Glanced, Look, Typed, TypeOK, Services
<1>2. mem' = IF s = Cli THEN mem ELSE [mem EXCEPT ![s] = file]
  BY <1>1, FileKnown DEF Glanced, Look, Kept
<1>3. \A g \in Gens : exec'[g] # None => wanted[exec'[g]] # "new"
  BY DEF Glanced, Looped, Finished
<1>4. ASSUME NEW i \in finished'
      PROVE  \/ i \in finished
             \/ s \in Gens /\ exec[s] = i /\ file[i] = None /\ i \in Jobs /\ wanted[i] = "gone"
  <2> SUFFICES ASSUME i \notin finished
               PROVE  s \in Gens /\ exec[s] = i /\ file[i] = None /\ i \in Jobs /\ wanted[i] = "gone"
    OBVIOUS
  <2>1. s \in Gens /\ exec[s] = i /\ file[i] = None /\ i \in Jobs
    BY DEF Glanced
  <2>2. wanted[i] # "new" /\ wanted[i] \in {"new", "on", "off", "gone"}
    BY <2>1, CronAssumption DEF Finished, Typed, TypeOK
  <2> QED
    BY <2>1, <2>2 DEF Kept, Obeys
<1>5. ASSUME NEW i \in finished', NEW g \in Gens, i \in due'[g]
      PROVE  mem'[g][i] = None
  <2>1. i \in due[g] \/ (g = s /\ status[s] = "running" /\ file[i] # None)
    BY <1>5 DEF Glanced, Looped
  <2>2. Active(g)
    BY <2>1 DEF Active
  <2>3. CASE i \notin finished
    <3>1. Active(s) /\ s \in Gens
      BY <1>4, <2>3, CronAssumption DEF Active
    <3>2. s = g
      BY <2>2, <3>1 DEF Alone
    <3> QED
      BY <1>1, <1>2, <1>4, <2>3, <3>2
  <2>4. CASE i \in finished /\ g = s
    <3>1. file[i] = None
      BY <1>1, <2>2, <2>4, Removed
    <3> QED
      BY <1>1, <1>2, <2>4, <3>1
  <2>5. CASE i \in finished /\ g # s
    BY <1>1, <1>2, <2>1, <2>5 DEF Finished
  <2> QED
    BY <2>3, <2>4, <2>5
<1> QED
  BY <1>1, <1>3, <1>4, <1>5 DEF Finished

LEMMA FinishedSave ==
  ASSUME Typed, Kept, Finished, NEW s \in Services, Save(s), NoLoss'
  PROVE  Finished'
<1>1. pending[s] # None /\ s \notin unread
  BY DEF Save, NoLoss, LostWrites
<1>2. PICK op \in Writes, j \in Jobs \cup {None} : pending[s] = <<op, j>>
  BY <1>1 DEF Typed, TypeOK
<1>3. /\ op \notin {"start", "check"} => wanted[j] # "gone" /\ j \in Jobs
      /\ wanted \in [Jobs -> {"new", "on", "off", "gone"}]
  BY <1>1, <1>2 DEF Kept, Written, GoodStore, Typed, TypeOK, Aimed
<1>4. wanted' = WantedAfter(wanted, op, j)
  <2>1. pending[s][1] = op /\ pending[s][2] = j
    BY <1>2
  <2> QED
    BY <2>1 DEF Save, Record, WantedAfter
<1>5. /\ UNCHANGED <<due, exec, finished>>
      /\ pending' = [pending EXCEPT ![s] = None]
      /\ \A g \in Gens : mem'[g] = mem[g]
  BY CronAssumption DEF Save, Release, Record, Typed, TypeOK
<1>6. ASSUME NEW i \in Jobs
      PROVE  /\ wanted[i] # "new" => wanted'[i] # "new"
             /\ wanted[i] = "gone" => wanted'[i] = "gone"
             /\ op = "done" /\ i = j => wanted'[i] = "gone"
  BY <1>3, <1>4 DEF WantedAfter
<1>7. \A g \in Gens : exec[g] \in Jobs \cup {None}
  BY DEF Typed, TypeOK
<1>8. \A g \in Gens : exec'[g] # None => wanted'[exec'[g]] # "new"
  BY <1>5, <1>6, <1>7 DEF Finished
<1>9. ASSUME NEW i \in finished
      PROVE  /\ wanted'[i] # "new"
             /\ wanted'[i] = "gone" \/ \E g \in Gens : pending'[g] = <<"done", i>>
  <2>1. i \in Jobs /\ wanted[i] # "new"
    BY DEF Typed, TypeOK, Finished
  <2>2. ASSUME NEW g \in Gens, pending[g] = <<"done", i>>
        PROVE  wanted'[i] = "gone" \/ pending'[g] = <<"done", i>>
    <3>1. CASE g = s
      BY <1>2, <1>6, <2>1, <2>2, <3>1
    <3>2. CASE g # s
      BY <1>5, <2>2, <3>2 DEF Typed, TypeOK, Services
    <3> QED
      BY <3>1, <3>2
  <2> QED
    BY <1>6, <2>1, <2>2 DEF Finished
<1> QED
  BY <1>5, <1>8, <1>9 DEF Finished

LEMMA FinishedNext ==
  ASSUME Typed, Kept, Alone, Finished, [Next]_vars, NoLoss'
  PROVE  Finished'
<1>1. ASSUME NEW g \in Gens, NEW j \in Jobs, BeginRun(g, j) PROVE Finished'
  <2>1. /\ UNCHANGED <<mem, pending, wanted, finished>> /\ j \in due[g]
        /\ exec' = exec \/ exec' = [exec EXCEPT ![g] = j]
        /\ due' = [due EXCEPT ![g] = @ \ {j}]
        /\ due \in [Gens -> SUBSET Jobs] /\ exec \in [Gens -> Jobs \cup {None}]
    BY <1>1 DEF BeginRun, Typed, TypeOK
  <2>2. wanted[j] # "new"
    BY <2>1 DEF Kept, Collected
  <2>3. \A h \in Gens : due'[h] \subseteq due[h] /\ exec'[h] \in {exec[h], j}
    BY <2>1
  <2> QED
    BY <2>1, <2>2, <2>3 DEF Finished
<1>2. CASE Crash
  <2>1. /\ UNCHANGED <<wanted, finished>>
        /\ \A g \in Gens : due'[g] = {} /\ exec'[g] = None
        /\ \A g \in Gens : pending[g] = None
    BY <1>2 DEF Crash, history, NoLoss, LostWrites
  <2>2. \A i \in finished : <<"done", i>> # None
    BY CronAssumption DEF Typed, TypeOK, Writes
  <2> QED
    BY <2>1, <2>2 DEF Finished
<1>3. CASE Still
  BY <1>3 DEF Still, Finished
<1> QED
  BY <1>1, <1>2, <1>3, Steps, FinishedTaken, FinishedGlanced, FinishedSave

LEMMA CountedTaken ==
  ASSUME Typed, Counted, NEW s \in Services, NEW st \in Stores, NEW op \in Writes,
         NEW j \in Jobs \cup {None}, Taken(s, st, op, j), TypeOK'
  PROVE  Counted'
<1>1. /\ mem' = [mem EXCEPT ![s] = st] /\ pending[s] = None
      /\ pending' = [pending EXCEPT ![s] = <<op, j>>] /\ unread' = unread \ {s}
      /\ DOMAIN mem = Services /\ DOMAIN pending = Services
      /\ file' = file /\ \A g \in Gens : g \in Services
  BY DEF Taken, Write, Typed, TypeOK, Services
<1>2. ASSUME NEW g \in Gens, NEW i \in Jobs, Ending(g, i)
      PROVE  g # s /\ Ending(g, i)'
  <2>1. PICK o \in Outcomes : pending[g] = <<o, i>>
    BY <1>2 DEF Ending
  <2>2. g # s
    BY <1>1, <2>1, CronAssumption DEF Outcomes, Writes
  <2> QED
    BY <1>1, <2>1, <2>2 DEF Ending
<1>3. ASSUME NEW i \in Jobs, streak'[i] # streak[i]
      PROVE  s \in Gens /\ Ending(s, i)'
  <2>1. op \in Outcomes /\ i = j /\ s \in Gens
    BY <1>3 DEF Taken
  <2> QED
    BY <1>1, <2>1 DEF Ending
<1>4. ASSUME NEW i \in Jobs, file[i] # None
      PROVE  file[i].fails <= streak'[i] \/ \E g \in Gens : Ending(g, i)'
  BY <1>2, <1>3, <1>4 DEF Counted
<1>5. ASSUME NEW i \in Jobs, st[i] # None
      PROVE  /\ st[i].fails <= streak'[i] \/ \E g \in Gens \ {s} : Ending(g, i)'
             /\ file[i] = None => st[i].fails = 0
  <2>1. Counts(st, i) /\ streak'[i] \in Nat
    BY DEF Taken, TypeOK
  <2> QED
    BY <1>2, <1>5, <2>1 DEF Counts, Counted
<1>6. ASSUME NEW t \in Services, NEW o \in Writes, NEW k \in Jobs \cup {None},
             t \notin unread', pending'[t] = <<o, k>>
      PROVE  /\ \A i \in Jobs : mem'[t][i] # None =>
                  /\ mem'[t][i].fails <= streak'[i] \/ \E g \in Gens \ {t} : Ending(g, i)'
                  /\ file'[i] = None => mem'[t][i].fails = 0
             /\ o = "enable" => mem'[t][k].fails = 0
  <2>1. CASE t = s
    <3>1. mem'[t] = st /\ o = op /\ k = j
      BY <1>1, <1>6, <2>1
    <3>2. op = "enable" => st[j].fails = 0
      BY DEF Taken
    <3> QED
      BY <1>1, <1>5, <2>1, <3>1, <3>2
  <2>2. CASE t # s
    <3>1. mem'[t] = mem[t] /\ pending[t] = <<o, k>> /\ t \notin unread
      BY <1>1, <1>6, <2>2
    <3>2. /\ \A i \in Jobs : mem[t][i] # None =>
               /\ mem[t][i].fails <= streak[i] \/ \E g \in Gens \ {t} : Ending(g, i)
               /\ file[i] = None => mem[t][i].fails = 0
          /\ o = "enable" => mem[t][k].fails = 0
      BY <3>1 DEF Counted
    <3>3. ASSUME NEW i \in Jobs, mem[t][i] # None
          PROVE  mem[t][i].fails <= streak'[i] \/ \E g \in Gens \ {t} : Ending(g, i)'
      <4>1. CASE streak'[i] = streak[i]
        BY <1>2, <3>2, <3>3, <4>1
      <4>2. CASE streak'[i] # streak[i]
        <5>1. s \in Gens \ {t} /\ Ending(s, i)'
          BY <1>3, <2>2, <4>2
        <5> QED
          BY <5>1
      <4> QED
        BY <4>1, <4>2
    <3> QED
      BY <1>1, <3>1, <3>2, <3>3
  <2> QED
    BY <2>1, <2>2
<1> QED
  BY <1>1, <1>4, <1>6 DEF Counted

LEMMA CountedGlanced ==
  ASSUME Typed, Counted, NEW s \in Services, Glanced(s), TypeOK'
  PROVE  Counted'
<1>1. /\ pending' = pending /\ pending[s] = None /\ file' = file
      /\ \A t \in Services \ {s} : mem'[t] = mem[t] /\ (t \in unread' <=> t \in unread)
  BY DEF Glanced, Look, Typed, TypeOK
<1>2. \A i \in Jobs : streak'[i] # streak[i] => file[i] = None
  BY DEF Glanced
<1>3. \A g \in Gens, i \in Jobs : Ending(g, i)' <=> Ending(g, i)
  BY <1>1 DEF Ending
<1>4. \A i \in Jobs : file[i] # None => file[i].fails <= streak'[i] \/ \E g \in Gens : Ending(g, i)'
  BY <1>2, <1>3 DEF Counted
<1>5. ASSUME NEW t \in Services, NEW o \in Writes, NEW k \in Jobs \cup {None},
             t \notin unread', pending'[t] = <<o, k>>
      PROVE  /\ \A i \in Jobs : mem'[t][i] # None =>
                  /\ mem'[t][i].fails <= streak'[i] \/ \E g \in Gens \ {t} : Ending(g, i)'
                  /\ file'[i] = None => mem'[t][i].fails = 0
             /\ o = "enable" => mem'[t][k].fails = 0
  <2>1. t # s
    BY <1>1, <1>5, CronAssumption
  <2>2. mem'[t] = mem[t] /\ pending[t] = <<o, k>> /\ t \notin unread
    BY <1>1, <1>5, <2>1
  <2>3. /\ \A i \in Jobs : mem[t][i] # None =>
             /\ mem[t][i].fails <= streak[i] \/ \E g \in Gens \ {t} : Ending(g, i)
             /\ file[i] = None => mem[t][i].fails = 0
        /\ o = "enable" => mem[t][k].fails = 0
    BY <2>2 DEF Counted
  <2>4. ASSUME NEW i \in Jobs, mem[t][i] # None
        PROVE  mem[t][i].fails <= streak'[i] \/ \E g \in Gens \ {t} : Ending(g, i)'
    <3>1. CASE streak'[i] = streak[i]
      BY <1>3, <2>3, <2>4, <3>1
    <3>2. CASE streak'[i] # streak[i]
      <4>1. mem[t][i].fails = 0 /\ streak'[i] \in Nat
        BY <1>2, <2>3, <2>4, <3>2 DEF TypeOK
      <4> QED
        BY <4>1
    <3> QED
      BY <3>1, <3>2
  <2> QED
    BY <1>1, <2>2, <2>3, <2>4
<1> QED
  BY <1>1, <1>4, <1>5 DEF Counted

LEMMA CountedSave ==
  ASSUME Typed, Counted, NEW s \in Services, Save(s), NoLoss'
  PROVE  Counted'
<1>1. pending[s] # None /\ s \notin unread
  BY DEF Save, NoLoss, LostWrites
<1>2. PICK op \in Writes, j \in Jobs \cup {None} : pending[s] = <<op, j>>
  BY <1>1 DEF Typed, TypeOK
<1>3. /\ \A i \in Jobs : mem[s][i] # None =>
           mem[s][i].fails <= streak[i] \/ \E g \in Gens \ {s} : Ending(g, i)
      /\ op = "enable" => mem[s][j].fails = 0
  BY <1>1, <1>2 DEF Counted
<1>4. /\ file' = mem[s] /\ unread' = Services \ (Gens \cap {s})
      /\ pending' = [pending EXCEPT ![s] = None]
      /\ DOMAIN pending = Services /\ streak \in [Jobs -> Nat]
  BY DEF Save, Release, Typed, TypeOK
<1>5. \/ streak' = streak
      \/ streak' = [streak EXCEPT ![j] = 0] /\ (op = "enable" \/ (j # None /\ mem[s][j].fails = 0))
  <2>1. pending[s][1] = op /\ pending[s][2] = j
    BY <1>2
  <2>2. op = "edit" => j \in Jobs
    BY <1>2 DEF Typed, Aimed
  <2> QED
    BY <2>1, <2>2, CronAssumption DEF Save, Record
<1>6. ASSUME NEW i \in Jobs, mem[s][i] # None
      PROVE  mem[s][i].fails <= streak'[i] \/ \E g \in Gens : Ending(g, i)'
  <2>1. ASSUME NEW g \in Gens \ {s}, Ending(g, i) PROVE Ending(g, i)'
    BY <1>4, <2>1 DEF Ending, Services
  <2>2. CASE streak'[i] = streak[i]
    BY <1>3, <1>6, <2>1, <2>2
  <2>3. CASE streak'[i] # streak[i]
    BY <1>3, <1>4, <1>5, <2>3
  <2> QED
    BY <2>2, <2>3
<1>7. \A t \in Services \ unread' : pending'[t] = None
  BY <1>4
<1>8. \A o \in Writes, k \in Jobs \cup {None} : <<o, k>> # None
  BY CronAssumption
<1> QED
  BY <1>4, <1>6, <1>7, <1>8 DEF Counted

LEMMA CountedNext ==
  ASSUME Typed, Kept, Counted, [Next]_vars, NoLoss'
  PROVE  Counted'
<1>1. ASSUME UNCHANGED <<file, mem, unread, pending, streak>> PROVE Counted'
  <2>1. \A g \in Gens, i \in Jobs : Ending(g, i)' <=> Ending(g, i)
    BY <1>1 DEF Ending
  <2>2. \A i \in Jobs :
          file'[i] # None => file'[i].fails <= streak'[i] \/ \E g \in Gens : Ending(g, i)'
    BY <1>1, <2>1 DEF Counted
  <2>3. ASSUME NEW s \in Services, NEW o \in Writes, NEW k \in Jobs \cup {None},
               s \notin unread', pending'[s] = <<o, k>>
        PROVE  /\ \A i \in Jobs : mem'[s][i] # None =>
                    /\ mem'[s][i].fails <= streak'[i] \/ \E g \in Gens \ {s} : Ending(g, i)'
                    /\ file'[i] = None => mem'[s][i].fails = 0
               /\ o = "enable" => mem'[s][k].fails = 0
    <3>1. /\ \A i \in Jobs : mem[s][i] # None =>
               /\ mem[s][i].fails <= streak[i] \/ \E g \in Gens \ {s} : Ending(g, i)
               /\ file[i] = None => mem[s][i].fails = 0
          /\ o = "enable" => mem[s][k].fails = 0
      BY <1>1, <2>3 DEF Counted
    <3> QED
      BY <1>1, <2>1, <3>1
  <2> QED
    BY <2>2, <2>3 DEF Counted
<1>2. ASSUME NEW g \in Gens, NEW j \in Jobs, BeginRun(g, j) PROVE Counted'
  BY <1>1, <1>2 DEF BeginRun
<1>3. CASE Crash
  <2>1. /\ UNCHANGED <<file, streak>>
        /\ \A g \in Gens : pending[g] = None
        /\ \A s \in Services : s \notin unread' =>
             s \notin unread /\ mem'[s] = mem[s] /\ pending'[s] = pending[s]
    BY <1>3 DEF Crash, history, NoLoss, LostWrites, Services
  <2>2. \A g \in Gens, i \in Jobs : ~Ending(g, i)
    <3>1. \A op \in Outcomes, i \in Jobs : <<op, i>> # None
      BY CronAssumption DEF Outcomes, Writes
    <3> QED
      BY <2>1, <3>1 DEF Ending
  <2> QED
    BY <2>1, <2>2 DEF Counted
<1>4. CASE Still
  BY <1>1, <1>4 DEF Still
<1>5. TypeOK'
  BY TypedNext DEF Typed
<1> QED
  BY <1>2, <1>3, <1>4, <1>5, Steps, CountedTaken, CountedGlanced, CountedSave
-----------------------------------------------------------------------------
Careful == "overlap" \notin gaps
CountInv ==
  /\ CronInv
  /\ Careful => Alone
  /\ Careful /\ NoLoss => Finished
  /\ NoLoss => Counted

LEMMA CountNext == CountInv /\ [Next]_vars => CountInv'
<1> SUFFICES ASSUME CountInv, [Next]_vars PROVE CountInv'
  OBVIOUS
<1>1. gaps \subseteq gaps'
  BY GapsStay
<1>2. (Careful' => Careful) /\ (NoLoss' => NoLoss)
  BY <1>1 DEF Careful, NoLoss
<1>3. CronInv'
  BY KeptNext DEF CountInv
<1>4. Typed /\ (NoLoss => Kept)
  BY DEF CountInv, CronInv, Typed
<1>5. Careful' => Alone'
  BY <1>2, <1>4, AloneNext DEF CountInv, Careful
<1>6. Careful' /\ NoLoss' => Finished'
  BY <1>2, <1>4, FinishedNext DEF CountInv
<1>7. NoLoss' => Counted'
  BY <1>2, <1>4, CountedNext DEF CountInv
<1> QED
  BY <1>3, <1>5, <1>6, <1>7 DEF CountInv

LEMMA CountInit == Init => CountInv
<1> SUFFICES ASSUME Init PROVE CountInv
  OBVIOUS
<1>1. CronInv
  BY KeptInit
<1>2. Alone
  <2>1. \A op \in Writes, i \in Jobs \cup {None} : <<op, i>> # None
    BY CronAssumption
  <2>2. /\ \A g \in Gens : status[g] = "off" /\ due[g] = {} /\ exec[g] = None
        /\ \A s \in Services : pending[s] = None
    BY DEF Init
  <2>3. \A g \in Gens : ~Active(g)
    BY <2>1, <2>2 DEF Active, Ending, Outcomes, Writes, Services
  <2> QED
    BY <2>1, <2>2, <2>3 DEF Alone, Writes
<1>3. Finished
  BY DEF Init, Finished
<1>4. Counted
  <2>1. unread = Services /\ \A i \in Jobs : streak[i] = 0
    BY DEF Init
  <2>2. \A i \in Jobs : file[i] # None => file[i].fails = 0
    BY DEF Init, NewJob
  <2> QED
    BY <2>1, <2>2 DEF Counted
<1> QED
  BY <1>1, <1>2, <1>3, <1>4 DEF CountInv

LEMMA CountInvariance == Spec => []CountInv
BY CountInit, CountNext, PTL DEF Spec

(* A run begins only where BeginRun begins it. *)
LEMMA RunsBegin ==
  ASSUME Typed, [Next]_vars, NEW g \in Gens, exec'[g] # exec[g], exec'[g] # None
  PROVE  \E j \in Jobs : BeginRun(g, j)
<1>1. \A h \in Gens, j \in Jobs : BeginRun(h, j) => h = g
  BY DEF BeginRun, Typed, TypeOK
<1>2. \A h \in Gens, outcome \in {"ok", "error", "canceled"}, long \in BOOLEAN :
        ~EndRun(h, outcome, long)
  BY DEF EndRun, Typed, TypeOK
<1>3. ~Crash
  BY DEF Crash
<1>4. exec' # exec
  OBVIOUS
<1> QED
  BY <1>1, <1>2, <1>3, <1>4
  DEF Next, Loop, AddJob, RemoveJob, RunNow, GetJob, EnableJob, DisableJob, Frame, UpdateJob,
      Save, SaveFails, Start, Stop, CheckJobs, Tick, vars

(* A job is switched off only where a run of it ends. *)
LEMMA AutoAfterRun ==
  ASSUME Typed, [Next]_vars, NEW g \in Gens, NEW j \in Jobs,
         pending'[g] = <<"auto", j>>, pending[g] # pending'[g]
  PROVE  \E outcome \in {"ok", "error", "canceled"}, long \in BOOLEAN : EndRun(g, outcome, long)
<1> USE DEF Typed
<1>1. g \in Services /\ pending \in [Services -> (Writes \X (Jobs \cup {None})) \cup {None}]
      /\ <<"auto", j>> # None
  BY CronAssumption DEF TypeOK, Services, Writes
<1>2. ASSUME NEW s \in Services, NEW op, NEW i, pending' = [pending EXCEPT ![s] = <<op, i>>]
      PROVE  s = g /\ op = "auto"
  BY <1>1, <1>2
<1>3. ASSUME NEW s \in Services, pending' = [pending EXCEPT ![s] = None] PROVE FALSE
  BY <1>1, <1>3
<1>4. pending' # pending
  OBVIOUS
<1>5. ASSUME NEW s \in Services, NEW i \in Jobs, CommandTyped(s, i) PROVE FALSE
  <2>1. PICK st \in Stores, op \in Commands \ {"edit"} : Commanded(s, st, op, i)
    BY <1>5, CommandStore
  <2>2. pending' = [pending EXCEPT ![s] = <<op, i>>]
    BY <2>1 DEF Commanded, Write
  <2> QED
    BY <1>2, <2>2 DEF Commands
<1>6. ASSUME NEW s \in Services, NEW i \in Jobs, GetJob(s, i) PROVE FALSE
  BY <1>4, <1>6 DEF GetJob, Look
<1>7. ASSUME NEW change \in {"name", "payload", "schedule"}, UpdateJob(change) PROVE FALSE
  <2>1. PICK s \in Services, i \in Jobs : s = edit.by /\ i = edit.job
    BY <1>7, EditStore
  <2>2. pending' = pending \/ pending' = [pending EXCEPT ![s] = <<"edit", i>>]
    BY <1>7, <2>1, EditStore DEF Edited, Write, Look
  <2> QED
    BY <1>2, <1>4, <2>2
<1>8. ASSUME NEW s \in Services, Save(s) \/ SaveFails(s) PROVE FALSE
  BY <1>3, <1>8 DEF Save, SaveFails, Release
<1>9. ASSUME NEW h \in Gens, Start(h) PROVE FALSE
  <2>1. pending' = [pending EXCEPT ![h] = <<"start", None>>] /\ h \in Services
    BY <1>9 DEF Start, Write, Services
  <2> QED
    BY <1>2, <2>1
<1>10. ASSUME NEW h \in Gens, CheckJobs(h) PROVE FALSE
  <2>1. (pending' = pending \/ pending' = [pending EXCEPT ![h] = <<"check", None>>]) /\ h \in Services
    BY <1>10 DEF CheckJobs, Write, Look, Services
  <2> QED
    BY <1>2, <1>4, <2>1
<1>11. ASSUME NEW h \in Gens, NEW outcome \in {"ok", "error", "canceled"}, NEW long \in BOOLEAN,
              EndRun(h, outcome, long)
       PROVE  h = g
  <2>1. h \in Services /\ (pending' = pending \/ \E op, i : pending' = [pending EXCEPT ![h] = <<op, i>>])
    BY <1>11, EndRunStore DEF Ran, Write, Look, Services
  <2> QED
    BY <1>2, <1>4, <2>1
<1>12. ~Crash
  BY <1>1 DEF Crash
<1>13. ASSUME (\E h \in Gens : Stop(h) \/ \E i \in Jobs : BeginRun(h, i)) \/ Tick \/ UNCHANGED vars
       PROVE  FALSE
  BY <1>4, <1>13 DEF Stop, BeginRun, Tick, vars
<1> QED
  BY <1>5, <1>6, <1>7, <1>8, <1>9, <1>10, <1>11, <1>12, <1>13 DEF Next, Loop, CommandTyped

(* An 'at' job whose run ended is not run again, also not after a crash    *)
(* and a restart: executeJobByID deletes it, and nothing brings it back as *)
(* long as no write went missing and no two loops overlapped.              *)
THEOREM OneShotsRunOnce == Spec => OneShotOnce
<1>1. CountInv /\ [Next]_vars =>
        [\A g \in Gens : exec'[g] \in finished /\ exec[g] # exec'[g] =>
           gaps \cap (LostWrites \cup {"overlap"}) # {}]_vars
  <2> SUFFICES ASSUME CountInv, [Next]_vars, NEW g \in Gens, exec'[g] \in finished,
                      exec[g] # exec'[g], gaps \cap (LostWrites \cup {"overlap"}) = {}
               PROVE  FALSE
    OBVIOUS
  <2>1. Typed /\ Finished
    BY DEF CountInv, CronInv, Typed, Careful, NoLoss, LostWrites
  <2>2. exec'[g] \in Jobs
    BY <2>1 DEF Typed, TypeOK
  <2>3. PICK j \in Jobs : BeginRun(g, j)
    BY <2>1, <2>2, RunsBegin, CronAssumption
  <2>4. j \in due[g] /\ mem[g][j] # None /\ exec'[g] = j
    BY <2>1, <2>3 DEF BeginRun, Typed, TypeOK
  <2> QED
    BY <2>1, <2>4 DEF Finished
<1> QED
  BY <1>1, CountInvariance, PTL DEF Spec, OneShotOnce

(* A job is switched off for its failures only after that many runs of it  *)
(* failed in a row: executeJobByID counts in what the file says, and the   *)
(* file never says more than the runs, as long as no write went missing    *)
(* and no two loops overlapped.                                            *)
THEOREM SwitchingOffIsEarned == Spec => AutoDisableEarned
<1>1. CountInv /\ [Next]_vars =>
        [\A g \in Gens, j \in Jobs :
           pending'[g] = <<"auto", j>> /\ pending[g] # pending'[g] =>
             \/ streak'[j] >= MaxFails
             \/ gaps \cap (LostWrites \cup {"overlap"}) # {}]_vars
  <2> SUFFICES ASSUME CountInv, [Next]_vars, NEW g \in Gens, NEW j \in Jobs,
                      pending'[g] = <<"auto", j>>, pending[g] # pending'[g],
                      gaps \cap (LostWrites \cup {"overlap"}) = {}
               PROVE  streak'[j] >= MaxFails
    OBVIOUS
  <2>1. Typed /\ Kept /\ Alone /\ Counted
    BY DEF CountInv, CronInv, Typed, Careful, NoLoss, LostWrites
  <2>2. PICK outcome \in {"ok", "error", "canceled"}, long \in BOOLEAN : EndRun(g, outcome, long)
    BY <2>1, AutoAfterRun
  <2>3. PICK st \in Stores, op \in Outcomes : Taken(g, st, op, exec[g])
    BY <2>1, <2>2, TakenEndRun DEF Glanced, Look
  <2>4. op = "auto" /\ exec[g] = j /\ pending[g] = None
    BY <2>1, <2>3 DEF Taken, Write, Typed, TypeOK, Services
  <2>5. /\ st[j] # None /\ st[j].fails >= MaxFails /\ file[j] # None /\ Counts(st, j)
    BY <2>3, <2>4 DEF Taken
  <2>6. \A h \in Gens : ~Ending(h, j)
    <3> SUFFICES ASSUME NEW h \in Gens, Ending(h, j) PROVE FALSE
      OBVIOUS
    <3>1. Active(g) /\ Active(h)
      BY <2>4, CronAssumption DEF Active
    <3>2. h = g
      BY <2>1, <3>1 DEF Alone
    <3> QED
      BY <2>4, <3>2, CronAssumption DEF Ending, Outcomes, Writes
  <2>7. st[j].fails <= streak'[j]
    BY <2>1, <2>5, <2>6 DEF Counts, Counted
  <2>8. st[j].fails \in Nat /\ streak'[j] \in Nat /\ MaxFails \in Nat
    <3>1. TypeOK'
      BY <2>1, TypedNext DEF Typed
    <3> QED
      BY <2>5, <3>1, JobType, CronAssumption DEF TypeOK, Job
  <2> QED
    BY <2>5, <2>7, <2>8
<1> QED
  BY <1>1, CountInvariance, PTL DEF Spec, AutoDisableEarned
=============================================================================
