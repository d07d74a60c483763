---------------------------- MODULE CronService ----------------------------
(***************************************************************************)
(* Scheduled jobs.  The gateway keeps the jobs in memory and in jobs.json; *)
(* the command line rewrites the same file from a process of its own, and  *)
(* a reload of the configuration puts a new service (a generation) beside  *)
(* one whose last run has not ended.  Every operation re-reads the file    *)
(* when it is not what the service last read or wrote, changes its copy    *)
(* and writes it back; a service's mutex covers the three, and nothing     *)
(* covers two services.  A job runs outside the mutex.                     *)
(*                                                                         *)
(* A job never changes its kind here (an edit may turn an 'at' job into a  *)
(* recurring one), and two edits are not under way at once.                *)
(***************************************************************************)
EXTENDS Naturals, FiniteSets

CONSTANTS
  Jobs,
  Periodic,   \* the 'every' and 'cron' jobs; the others are 'at' jobs
  Gens,       \* the services of the gateway, one after another
  Cli,        \* the service of a command-line process
  None,
  Every,      \* the interval of a recurring job
  At,         \* the time of an 'at' job
  Retry,      \* canceledAtRetryDelay
  MaxFails,   \* maxConsecutiveFailures; 0 switches no job off
  MaxJobs,    \* bound on the jobs of a behaviour
  MaxNow,     \* bound on the clock
  MaxOps,     \* bound on the commands and reloads of a behaviour
  MaxFaults   \* bound on its crashes and failed writes

(* back: the last run was canceled; fails: ConsecutiveFailures. *)
Job    == [on : BOOLEAN, next : Nat \cup {None}, back : BOOLEAN, fails : Nat]
Stores == [Jobs -> Job \cup {None}]
Empty  == [j \in Jobs |-> None]

Commands == {"add", "remove", "enable", "disable", "run", "edit"}
Writes   == Commands \cup {"start", "check", "end", "done", "auto"}

ASSUME CronAssumption ==
  /\ Periodic \subseteq Jobs
  /\ Cli \notin Gens
  /\ None \notin Jobs \cup Nat
  /\ None \notin Job
  /\ None \notin Writes \X (Jobs \cup {None})
  /\ {Every, Retry} \subseteq Nat \ {0}
  /\ {At, MaxFails, MaxJobs, MaxNow, MaxOps, MaxFaults} \subseteq Nat

Services == Gens \cup {Cli}

VARIABLES
  now,
  file,     \* the content of jobs.json
  mem,      \* per service, its store
  unread,   \* the services whose lastBytes is not the content of the file
  pending,  \* per service, the operation that holds its mutex to write the file
  status,   \* per generation, whether its loop runs
  due,      \* per generation, the jobs its loop collected and has yet to run
  exec,     \* per generation, the job that runs
  edit,     \* the copy an edit works on, between GetJob and UpdateJob
  ops,
  faults,
  (* History. *)
  wanted,   \* per job, what the last saved command or run made of it
  marked,   \* the jobs RunNow marked, with a service running, that have not run since
  streak,   \* per job, its errors in a row since it last succeeded or was reset
  finished, \* the 'at' jobs a run of which has ended
  gaps      \* what happened so far that the code takes no care of

history == <<wanted, marked, streak, finished>>
vars == <<now, file, mem, unread, pending, status, due, exec, edit, ops, faults,
          history, gaps>>

(* "overwrite": a service wrote the file without having seen another's     *)
(* write; "unsaved": a write failed, or the process died before it;        *)
(* "stale": an edit put back a job that had changed since it was copied;   *)
(* "missed": a service started after the time of an enabled 'at' job;      *)
(* "overlap": it started while the loop of an earlier one was still        *)
(* running jobs.                                                           *)
GapKinds == {"overwrite", "unsaved", "stale", "missed", "overlap"}

TypeOK ==
  /\ now \in 0 .. MaxNow
  /\ file \in Stores
  /\ mem \in [Services -> Stores]
  /\ unread \subseteq Services
  /\ pending \in [Services -> (Writes \X (Jobs \cup {None})) \cup {None}]
  /\ status \in [Gens -> {"off", "starting", "running", "stopped"}]
  /\ due \in [Gens -> SUBSET Jobs]
  /\ exec \in [Gens -> Jobs \cup {None}]
  /\ edit \in [by : Services, job : Jobs, copy : Job] \cup {None}
  /\ ops \in 0 .. MaxOps
  /\ faults \in 0 .. MaxFaults
  /\ wanted \in [Jobs -> {"new", "on", "off", "gone"}]
  /\ marked \subseteq Jobs
  /\ streak \in [Jobs -> Nat]
  /\ finished \subseteq Jobs \ Periodic
  /\ gaps \subseteq GapKinds

-----------------------------------------------------------------------------
(* computeNextRunAt. *)
NextRun(j, t) ==
  IF j \in Periodic THEN t + Every
  ELSE IF At > t THEN At ELSE None

NewJob(j, t) == [on |-> TRUE, next |-> NextRun(j, t), back |-> FALSE, fails |-> 0]

Init ==
  /\ now = 0
  /\ \E known \in SUBSET Jobs :
       /\ Cardinality(known) <= MaxJobs
       /\ file = [j \in Jobs |-> IF j \in known THEN NewJob(j, 0) ELSE None]
       /\ wanted = [j \in Jobs |-> IF j \in known THEN "on" ELSE "new"]
  /\ mem = [s \in Services |-> Empty]
  /\ unread = Services
  /\ pending = [s \in Services |-> None]
  /\ status = [g \in Gens |-> "off"]
  /\ due = [g \in Gens |-> {}]
  /\ exec = [g \in Gens |-> None]
  /\ edit = None
  /\ ops = 0 /\ faults = 0
  /\ marked = {} /\ finished = {} /\ gaps = {}
  /\ streak = [j \in Jobs |-> 0]

(* Mutation: the store of the service is never read again. *)
NoReload(s) == IF s = Cli \/ (s \in unread /\ status[s] \in {"off", "starting"}) THEN file ELSE mem[s]

(* reloadIfChangedUnsafe: every write changes the bytes of the file, by    *)
(* the job's UpdatedAtMS if by nothing else.  The file is replaced as a    *)
(* whole, so it can always be read and parsed.                             *)
Reload(s) == IF s \in unread THEN file ELSE mem[s]

(* Begin an operation of s: it re-reads, makes st of its store and holds   *)
(* the mutex until the file is written.                                    *)
Write(s, st, op, j) ==
  /\ pending[s] = None
  /\ mem' = [mem EXCEPT ![s] = st]
  /\ unread' = unread \ {s}
  /\ pending' = [pending EXCEPT ![s] = <<op, j>>]

(* Re-read and write nothing; a command-line process keeps nothing.        *)
Look(s) ==
  /\ pending[s] = None
  /\ mem' = IF s = Cli THEN mem ELSE [mem EXCEPT ![s] = Reload(s)]
  /\ unread' = unread \ (Gens \cap {s})
  /\ UNCHANGED pending

(* The loop of g is in the middle of its jobs. *)
Busy(g) == due[g] # {} \/ exec[g] # None \/ pending[g] # None

-----------------------------------------------------------------------------
(***************************************************************************)
(* Commands: of the agent's tool and the web UI on a service of the        *)
(* gateway, of the command line on its own.                                *)
(***************************************************************************)
Command(s) ==
  /\ s \in {Cli} \cup {g \in Gens : status[g] \in {"running", "stopped"}}
  /\ ops < MaxOps
  /\ ops' = ops + 1

Frame == UNCHANGED <<now, file, status, due, exec, faults, history, gaps>>

(* AddJob, AddJobWithPayload.  An 'at' in the past is refused; an          *)
(* identical job is returned as it is.                                     *)
AddJob(s, j) ==
  /\ Command(s) /\ Frame /\ UNCHANGED edit
  /\ wanted[j] = "new" /\ \A t \in Services : mem[t][j] = None
  /\ Cardinality({i \in Jobs : wanted[i] # "new"}) < MaxJobs
  /\ NextRun(j, now) # None
  /\ Write(s, [Reload(s) EXCEPT ![j] = NewJob(j, now)], "add", j)

RemoveJob(s, j) ==
  /\ Command(s) /\ Frame /\ UNCHANGED edit
  /\ Reload(s)[j] # None
  /\ Write(s, [Reload(s) EXCEPT ![j] = None], "remove", j)

EnableJob(s, j) ==
  LET r == Reload(s)[j]
  IN  /\ Command(s) /\ Frame /\ UNCHANGED edit
      /\ r # None /\ NextRun(j, now) # None
      /\ Write(s, [Reload(s) EXCEPT
                    ![j] = [r EXCEPT !.on = TRUE, !.next = NextRun(j, now), !.fails = 0]],
               "enable", j)

DisableJob(s, j) ==
  LET r == Reload(s)[j]
  IN  /\ Command(s) /\ Frame /\ UNCHANGED edit
      /\ r # None
      /\ Write(s, [Reload(s) EXCEPT ![j] = [r EXCEPT !.on = FALSE, !.next = None]],
               "disable", j)

RunNow(s, j) ==
  LET r == Reload(s)[j]
  IN  /\ Command(s) /\ Frame /\ UNCHANGED edit
      /\ r # None /\ r.on
      /\ Write(s, [Reload(s) EXCEPT ![j] = [r EXCEPT !.next = now]], "run", j)

(* GetJob by a caller that is going to edit the job. *)
GetJob(s, j) ==
  /\ Command(s) /\ Frame
  /\ edit = None /\ Reload(s)[j] # None
  /\ Look(s)
  /\ edit' = [by |-> s, job |-> j, copy |-> Reload(s)[j]]

(* What UpdateJob stores, given the job it replaces and the caller's copy. *)
Updated(j, previous, copy, change) ==
  LET reset == IF change = "name" THEN copy ELSE [copy EXCEPT !.fails = 0]
  IN  [reset EXCEPT !.next =
         IF ~copy.on THEN None
         ELSE IF change = "schedule" \/ ~previous.on THEN NextRun(j, now)
         ELSE @]

(* UpdateJob, with the caller's copy and one change of it.  A new schedule *)
(* that can never fire is refused.                                         *)
UpdateJob(change) ==
  LET s == edit.by
      j == edit.job
      previous == Reload(s)[j]
  IN  /\ edit # None /\ pending[s] = None
      /\ UNCHANGED <<now, file, status, due, exec, ops, faults, history>>
      /\ edit' = None
      /\ IF previous = None \/ (change = "schedule" /\ NextRun(j, now) = None)
         THEN /\ Look(s)
              /\ UNCHANGED gaps
         ELSE /\ Write(s, [Reload(s) EXCEPT ![j] = Updated(j, previous, edit.copy, change)],
                       "edit", j)
              /\ gaps' = gaps \cup (IF previous # edit.copy THEN {"stale"} ELSE {})

-----------------------------------------------------------------------------
(***************************************************************************)
(* The file.                                                               *)
(***************************************************************************)

(* A command-line process ends with its command. *)
Release(s) ==
  /\ pending' = [pending EXCEPT ![s] = None]
  /\ mem' = IF s = Cli THEN [mem EXCEPT ![s] = Empty] ELSE mem

(* The history a saved operation leaves. *)
Record(op, j, r) ==
  /\ wanted' = CASE op \in {"add", "enable"} -> [wanted EXCEPT ![j] = "on"]
                 [] op \in {"disable", "auto"} -> [wanted EXCEPT ![j] = "off"]
                 [] op \in {"remove", "done"} -> [wanted EXCEPT ![j] = "gone"]
                 [] OTHER -> wanted
  /\ marked' = CASE op = "run" /\ (\E g \in Gens : status[g] = "running") -> marked \cup {j}
                 [] op \in {"remove", "disable", "auto", "done", "enable", "edit"} ->
                      marked \ {j}
                 [] OTHER -> marked
  /\ streak' = IF op = "enable" \/ (op = "edit" /\ r.fails = 0)
               THEN [streak EXCEPT ![j] = 0] ELSE streak
  /\ UNCHANGED finished

(* saveStoreUnsafe; a Start whose store is saved has its loop running. *)
Save(s) ==
  LET op == pending[s][1]
      j  == pending[s][2]
  IN  /\ pending[s] # None
      /\ file' = mem[s]
      /\ unread' = Services \ (Gens \cap {s})
      /\ Release(s)
      /\ Record(op, j, IF j = None THEN None ELSE mem[s][j])
      /\ status' = IF op = "start" THEN [status EXCEPT ![s] = "running"] ELSE status
      /\ gaps' = gaps \cup (IF s \in unread THEN {"overwrite"} ELSE {})
      /\ UNCHANGED <<now, due, exec, edit, ops, faults>>

(* The write fails: what was made of the store stays in memory.  A service *)
(* whose Start fails has no loop: the gateway ends if it was starting up,  *)
(* and goes on with the service if it was reloading; both are allowed.     *)
SaveFails(s) ==
  /\ pending[s] # None /\ faults < MaxFaults
  /\ faults' = faults + 1
  /\ Release(s)
  /\ unread' = unread \cup ({Cli} \cap {s})
  /\ IF pending[s][1] = "start"
     THEN \E to \in {"off", "stopped"} : status' = [status EXCEPT ![s] = to]
     ELSE UNCHANGED status
  /\ gaps' = gaps \cup {"unsaved"}
  /\ UNCHANGED <<now, file, due, exec, edit, ops, history>>

-----------------------------------------------------------------------------
(***************************************************************************)
(* The loop of a service.                                                  *)
(***************************************************************************)

(* Mutation: the next runs are kept as they were saved. *)
NotRecomputed(j, r) == r

(* recomputeNextRuns: a canceled 'at' job keeps the time of its retry. *)
Recomputed(j, r) ==
  IF r = None \/ ~r.on \/ (j \notin Periodic /\ r.back /\ r.next # None) THEN r
  ELSE [r EXCEPT !.next = NextRun(j, now)]

(* Start, once the earlier service was stopped.  Which of the idle names   *)
(* the new service takes makes no difference.                              *)
Start(g) ==
  LET st == [j \in Jobs |-> Recomputed(j, file[j])]
  IN  /\ \A h \in Gens : status[h] \in {"off", "stopped"}
      /\ ~Busy(g) /\ g = CHOOSE h \in Gens : ~Busy(h)
      /\ Write(g, st, "start", None)
      /\ status' = [status EXCEPT ![g] = "starting"]
      /\ gaps' = gaps
           \cup (IF \E j \in Jobs \ Periodic : st[j] # None /\ st[j].on /\ st[j].next = None
                 THEN {"missed"} ELSE {})
           \cup (IF \E h \in Gens : Busy(h) THEN {"overlap"} ELSE {})
      /\ marked' = {}
      /\ UNCHANGED <<now, file, due, exec, edit, ops, faults, wanted, streak, finished>>

(* Stop: the loop runs what it has collected and ends. *)
Stop(g) ==
  /\ status[g] = "running" /\ pending[g] = None
  /\ ops < MaxOps
  /\ ops' = ops + 1
  /\ status' = [status EXCEPT ![g] = "stopped"]
  /\ UNCHANGED <<now, file, mem, unread, pending, due, exec, edit, faults, history, gaps>>

IsDue(r) == r # None /\ r.on /\ r.next # None /\ r.next <= now

(* Collecting erases the next run. *)
Erased(st) == [j \in Jobs |-> IF IsDue(st[j]) THEN [st[j] EXCEPT !.next = None] ELSE st[j]]

(* The loop wakes and re-reads the file; checkJobs collects the due jobs,  *)
(* and writes the file only when there are any.                            *)
CheckJobs(g) ==
  LET st == Reload(g)
      found == {j \in Jobs : IsDue(st[j])}
  IN  /\ status[g] = "running" /\ ~Busy(g)
      /\ IF found = {} THEN Look(g) ELSE Write(g, Erased(st), "check", None)
      /\ due' = [due EXCEPT ![g] = found]
      /\ UNCHANGED <<now, file, status, exec, edit, ops, faults, history, gaps>>

(* executeJobByID up to the call of onJob: a job that is no longer there   *)
(* is skipped, a disabled one is not.                                      *)
BeginRun(g, j) ==
  /\ j \in due[g] /\ exec[g] = None /\ pending[g] = None
  /\ due' = [due EXCEPT ![g] = @ \ {j}]
  /\ exec' = IF mem[g][j] = None THEN exec ELSE [exec EXCEPT ![g] = j]
  /\ marked' = marked \ {j}
  /\ UNCHANGED <<now, file, mem, unread, pending, status, edit, ops, faults, wanted,
                 streak, finished, gaps>>

(* Mutation: a success only takes one failure off. *)
TalliedDown(r, outcome) ==
  [r EXCEPT !.back = outcome = "canceled",
            !.fails = IF outcome = "ok" THEN @ - 1 ELSE @ + 1]

(* Mutation: a canceled run is a failed one. *)
TalliedAll(r, outcome) ==
  IF outcome = "ok" THEN [r EXCEPT !.back = FALSE, !.fails = 0]
  ELSE [r EXCEPT !.back = outcome = "canceled", !.fails = @ + 1]

(* The outcome of a run in the job's state. *)
Tallied(r, outcome) ==
  [r EXCEPT !.back = outcome = "canceled",
            !.fails = CASE outcome = "ok" -> 0
                        [] outcome = "error" -> @ + 1
                        [] OTHER -> @]

(* Mutation: the job is scheduled again whether or not it was disabled. *)
AfterAnyRun(j, r, outcome, long) == [r EXCEPT !.on = TRUE, !.next = NextRun(j, now)]

(* Mutation: an 'at' job is like any other. *)
AfterRunKept(j, r, outcome, long) ==
  [r EXCEPT !.next = IF r.on THEN NextRun(j, now) ELSE None]

(* The job after its run.  long: an hour has passed since the first of its *)
(* failures.  An 'at' job that ran is deleted (AddJob and the agent's tool *)
(* set DeleteAfterRun of every 'at' job, so the branch that would disable  *)
(* and keep it is left out).                                               *)
AfterRun(j, r, outcome, long) ==
  CASE j \notin Periodic /\ outcome = "canceled" ->
         IF r.on THEN [r EXCEPT !.next = now + Retry] ELSE r
    [] j \notin Periodic /\ outcome # "canceled" -> None
    [] /\ j \in Periodic /\ r.on /\ outcome = "error" /\ long
       /\ MaxFails > 0 /\ r.fails >= MaxFails ->
         [r EXCEPT !.on = FALSE, !.next = None]
    [] OTHER -> [r EXCEPT !.next = IF r.on THEN NextRun(j, now) ELSE None]

(* executeJobByID from the return of onJob: its outcome is written into    *)
(* what the file now says of the job.                                      *)
EndRun(g, outcome, long) ==
  LET j == exec[g]
      st == Reload(g)
      r == AfterRun(j, Tallied(st[j], outcome), outcome, long)
  IN  /\ exec[g] # None
      /\ exec' = [exec EXCEPT ![g] = None]
      /\ IF st[j] = None
         THEN Look(g)
         ELSE Write(g, [st EXCEPT ![j] = r],
                    IF j \notin Periodic /\ outcome # "canceled" THEN "done"
                    ELSE IF st[j].on /\ r # None /\ ~r.on THEN "auto" ELSE "end", j)
      /\ streak' = CASE outcome = "ok" -> [streak EXCEPT ![j] = 0]
                     [] outcome = "error" -> [streak EXCEPT ![j] = @ + 1]
                     [] OTHER -> streak
      /\ finished' = IF j \notin Periodic /\ outcome # "canceled"
                     THEN finished \cup {j} ELSE finished
      /\ UNCHANGED <<now, file, status, due, edit, ops, faults, wanted, marked, gaps>>

-----------------------------------------------------------------------------
(* The process of the gateway dies; jobs.json is what was last written. *)
Crash ==
  /\ faults < MaxFaults
  /\ faults' = faults + 1
  /\ \E g \in Gens : status[g] # "off"
  /\ mem' = [s \in Services |-> IF s = Cli THEN mem[s] ELSE Empty]
  /\ unread' = unread \cup Gens
  /\ pending' = [s \in Services |-> IF s = Cli THEN pending[s] ELSE None]
  /\ status' = [g \in Gens |-> "off"]
  /\ due' = [g \in Gens |-> {}]
  /\ exec' = [g \in Gens |-> None]
  /\ edit' = IF edit # None /\ edit.by # Cli THEN None ELSE edit
  /\ gaps' = gaps \cup (IF \E g \in Gens : pending[g] # None THEN {"unsaved"} ELSE {})
  /\ UNCHANGED <<now, file, ops, history>>

Tick ==
  /\ now < MaxNow
  /\ now' = now + 1
  /\ UNCHANGED <<file, mem, unread, pending, status, due, exec, edit, ops, faults,
                 history, gaps>>

Loop(g) ==
  \/ CheckJobs(g)
  \/ \E j \in Jobs : BeginRun(g, j)
  \/ \E outcome \in {"ok", "error", "canceled"}, long \in BOOLEAN : EndRun(g, outcome, long)

Next ==
  \/ \E s \in Services, j \in Jobs :
       \/ AddJob(s, j) \/ RemoveJob(s, j) \/ RunNow(s, j) \/ GetJob(s, j)
       \/ EnableJob(s, j) \/ DisableJob(s, j)
  \/ \E change \in {"name", "payload", "schedule"} : UpdateJob(change)
  \/ \E s \in Services : Save(s) \/ SaveFails(s)
  \/ \E g \in Gens : Start(g) \/ Stop(g) \/ Loop(g)
  \/ Crash
  \/ Tick

(* The loop is a goroutine that wakes at least every maxSleep; a run ends, *)
(* bounded by the limits of a command or of a turn; a write ends; a        *)
(* gateway that was stopped or died is started again.                      *)
Fairness ==
  /\ \A s \in Services : WF_vars(Save(s))
  /\ \A g \in Gens : WF_vars(Loop(g))
  /\ WF_vars(\E g \in Gens : Start(g))

Spec == Init /\ [][Next]_vars /\ Fairness

-----------------------------------------------------------------------------
(***************************************************************************)
(* Properties.                                                             *)
(***************************************************************************)
LostWrites == {"overwrite", "unsaved", "stale"}

(* What the last saved command made of a job -- added, enabled, disabled,  *)
(* removed -- is what jobs.json says of it, whatever runs of the job ended *)
(* in between, until a write goes missing in one of the known ways.        *)
CommandsKept ==
  gaps \cap LostWrites = {} =>
    \A j \in Jobs :
      CASE wanted[j] = "on"  -> file[j] # None /\ file[j].on
        [] wanted[j] = "off" -> file[j] # None /\ ~file[j].on
        [] OTHER -> file[j] = None

(* While a service runs, a job that is enabled in jobs.json has a next     *)
(* run, or is collected, running or being written back: it is not an       *)
(* enabled job that silently never runs.  The ways to become one are       *)
(* a lost write and, for an 'at' job, a start after its time.              *)
EnabledIsScheduled ==
  gaps \cap LostWrites = {} /\ (\E g \in Gens : status[g] = "running") =>
    \A j \in Jobs :
      file[j] # None /\ file[j].on /\ file[j].next = None =>
        \/ \E g \in Gens : j \in due[g] \/ exec[g] = j
        \/ \E s \in Services : pending[s] # None /\ pending[s][2] = j
        \/ j \notin Periodic /\ "missed" \in gaps

(* An 'at' job whose run ended is not run again, not even by a service     *)
(* started after a crash, unless two loops overlap or a write was lost.    *)
OneShotOnce ==
  [][\A g \in Gens : exec'[g] \in finished /\ exec[g] # exec'[g] =>
       gaps \cap (LostWrites \cup {"overlap"}) # {}]_vars

(* A job is switched off for its failures only after that many runs of it  *)
(* failed with no success, enabling or edit of it in between: canceled     *)
(* runs do not count, and an old count does not come back, unless a write  *)
(* was lost or the runs of two loops overlapped.                           *)
AutoDisableEarned ==
  [][\A g \in Gens, j \in Jobs :
       pending'[g] = <<"auto", j>> /\ pending[g] # pending'[g] =>
         \/ streak'[j] >= MaxFails
         \/ gaps \cap (LostWrites \cup {"overlap"}) # {}]_vars

(* A due job of jobs.json, also one only another process marked, is        *)
(* collected, or is no longer due for another reason.                      *)
DueIsCollected ==
  \A j \in Jobs : IsDue(file[j]) ~> (~IsDue(file[j]) \/ "unsaved" \in gaps)

(* RunNow "marks an enabled job as due now.  The process running the       *)
(* scheduler executes it on its next wake-up": a saved mark stays due      *)
(* until the job is collected.                                             *)
RunNowKept ==
  gaps = {} =>
    \A j \in marked :
      \/ IsDue(file[j])
      \/ \E g \in Gens : j \in due[g]
=============================================================================
