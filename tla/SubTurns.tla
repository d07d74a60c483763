------------------------------ MODULE SubTurns ------------------------------
(***************************************************************************)
(* Sub-turns: a turn that runs a tool may spawn another turn, at most      *)
(* MaxDepth deep.  A spawn takes a token of its parent's semaphore, then a *)
(* slot of the process-wide pool of its depth, runs, gives both back and,  *)
(* when it is asynchronous, delivers its result to its parent's channel.   *)
(* A synchronous spawn blocks its parent.                                  *)
(*                                                                         *)
(* The turn of a chat message (a root) comes from newTurnState: it has no  *)
(* semaphore, no results channel, no cancel function and no reference to   *)
(* the agent loop.  No code calls Finish(false), so a turn that ends by    *)
(* itself is never marked finished, and `critical' decides nothing.        *)
(***************************************************************************)
EXTENDS Naturals, Sequences, FiniteSets

CONSTANTS
  Roots,          \* the turns of chat messages
  Subs,           \* the spawns of a behaviour
  None,
  MaxDepth,
  MaxConcurrent,  \* capacity of a turn's concurrencySem
  MaxGlobal,      \* capacity of each pool of subTurnSlots
  ChanCap,        \* capacity of pendingResults
  MaxFaults       \* bound on timeouts, refusals, panics and hard aborts

ASSUME SubTurnsAssumption ==
  /\ IsFiniteSet(Subs)
  /\ Roots \cap Subs = {}
  /\ None \notin Roots \cup Subs
  /\ {MaxDepth, MaxConcurrent, MaxGlobal, ChanCap} \subseteq Nat \ {0}
  /\ MaxFaults \in Nat

Turns  == Roots \cup Subs
Depths == 1 .. MaxDepth

VARIABLES
  pc,        \* per turn, the point its goroutine has reached
  parent,
  depth,
  async,     \* the asynchronous spawns
  sem,       \* per turn, the tokens in its concurrencySem
  pool,      \* per depth, the slots taken of subTurnSlots
  results,   \* per turn, the spawns whose results are in its pendingResults
  aborted,   \* the turns that HardAbort was called for (hardAbort)
  finish,    \* per turn, how far its Finish(true) is
  panicked,  \* the sub-turns that panicked
  faults

vars == <<pc, parent, depth, async, sem, pool, results, aborted, finish,
          panicked, faults>>

PCs == {"unused", "sem", "slot", "setup", "run", "look", "send", "done"}

(* "flagged": isFinished is set; "closed": the channels are closed and the *)
(* context is canceled.                                                    *)
Finishing == {"no", "flagged", "closed", "done"}

TypeOK ==
  /\ pc \in [Turns -> PCs]
  /\ parent \in [Subs -> Turns \cup {None}]
  /\ depth \in [Turns -> 0 .. MaxDepth + 1]
  /\ async \subseteq Subs
  /\ sem \in [Subs -> 0 .. MaxConcurrent]
  /\ pool \in [Depths -> 0 .. MaxGlobal]
  /\ results \in [Subs -> Seq(Subs)]
  /\ aborted \subseteq Turns
  /\ finish \in [Turns -> Finishing]
  /\ panicked \subseteq Subs
  /\ faults \in 0 .. MaxFaults

Init ==
  /\ pc = [t \in Turns |-> IF t \in Roots THEN "run" ELSE "unused"]
  /\ parent = [c \in Subs |-> None]
  /\ depth = [t \in Turns |-> 0]
  /\ async = {}
  /\ sem = [t \in Subs |-> 0]
  /\ pool = [d \in Depths |-> 0]
  /\ results = [t \in Subs |-> << >>]
  /\ aborted = {} /\ panicked = {} /\ faults = 0
  /\ finish = [t \in Turns |-> "no"]

-----------------------------------------------------------------------------
Goto(c, p) == pc' = [pc EXCEPT ![c] = p]

(* The spawns that hold a token of t, and a slot of the pool of depth d.   *)
(* A panic keeps both until the result is delivered.                       *)
Late(c) == pc[c] \in {"look", "send"} /\ c \in panicked
HoldsSem(c)  == parent[c] \in Subs /\ (pc[c] \in {"slot", "setup", "run"} \/ Late(c))
HoldsSlot(c) == pc[c] \in {"setup", "run"} \/ Late(c)

(* Mutation: one pool for all depths. *)
OnePool(c) == 1

PoolOf(c) == depth[c]

SemWithout(c) ==
  IF HoldsSem(c) THEN [sem EXCEPT ![parent[c]] = @ - 1] ELSE sem
PoolWithout(c) ==
  IF HoldsSlot(c) THEN [pool EXCEPT ![PoolOf(c)] = @ - 1] ELSE pool

(* A synchronous spawn of t is under way: t waits in its tool call.        *)
Blocked(t) ==
  \E c \in Subs \ async : parent[c] = t /\ pc[c] \notin {"unused", "done"}

(* t is in activeTurnStates; runTurn takes it out when it returns. *)
Registered(t) == pc[t] = "run"

-----------------------------------------------------------------------------
(***************************************************************************)
(* spawnSubTurn.                                                           *)
(***************************************************************************)

(* A tool call of t.  Which of the unused names the spawn takes makes no   *)
(* difference.  A root's semaphore is nil.                                 *)
Spawn(t, c, isAsync) ==
  /\ pc[t] = "run" /\ ~Blocked(t) /\ t \notin aborted
  /\ pc[c] = "unused" /\ c = CHOOSE x \in Subs : pc[x] = "unused"
  /\ Goto(c, IF t \in Roots THEN "slot" ELSE "sem")
  /\ parent' = [parent EXCEPT ![c] = t]
  /\ depth' = [depth EXCEPT ![c] = depth[t] + 1]
  /\ async' = IF isAsync THEN async \cup {c} ELSE async
  /\ UNCHANGED <<sem, pool, results, aborted, finish, panicked, faults>>

Unchanged == UNCHANGED <<parent, depth, async, aborted, finish>>

Fault == faults < MaxFaults /\ faults' = faults + 1

(* The token is taken; a spawn that would be too deep gives it back.       *)
AcquireSem(c) ==
  LET t == parent[c]
  IN  /\ pc[c] = "sem" /\ sem[t] < MaxConcurrent
      /\ IF depth[t] >= MaxDepth
         THEN Goto(c, "done") /\ UNCHANGED sem
         ELSE Goto(c, "slot") /\ sem' = [sem EXCEPT ![t] = @ + 1]
      /\ Unchanged /\ UNCHANGED <<pool, results, panicked, faults>>

AcquireSlot(c) ==
  /\ pc[c] = "slot" /\ pool[PoolOf(c)] < MaxGlobal
  /\ pool' = [pool EXCEPT ![PoolOf(c)] = @ + 1]
  /\ Goto(c, "setup")
  /\ Unchanged /\ UNCHANGED <<sem, results, panicked, faults>>

(* Mutation: a spawn that gives up keeps its token. *)
GiveUpKeeps(c) ==
  /\ Fault /\ pc[c] \in {"sem", "slot"}
  /\ Goto(c, "done")
  /\ Unchanged /\ UNCHANGED <<sem, pool, results, panicked>>

(* The concurrency timeout, or the end of the tool call's context; or the  *)
(* configuration or the agent is not valid.                                *)
GiveUp(c) ==
  /\ Fault /\ pc[c] \in {"sem", "slot", "setup"}
  /\ sem' = SemWithout(c)
  /\ pool' = PoolWithout(c)
  /\ Goto(c, "done")
  /\ Unchanged /\ UNCHANGED <<results, panicked>>

(* The sub-turn is stored in activeTurnStates and in its parent, and runs. *)
Register(c) ==
  /\ pc[c] = "setup"
  /\ Goto(c, "run")
  /\ Unchanged /\ UNCHANGED <<sem, pool, results, panicked, faults>>

-----------------------------------------------------------------------------
(***************************************************************************)
(* runTurn and what follows.                                               *)
(***************************************************************************)

(* A poll of pendingResults: between two iterations or after a tool.       *)
Poll(t) ==
  /\ pc[t] = "run" /\ ~Blocked(t) /\ results[t] # << >>
  /\ results' = [results EXCEPT ![t] = Tail(@)]
  /\ Unchanged /\ UNCHANGED <<pc, sem, pool, panicked, faults>>

EndRoot(t) ==
  /\ t \in Roots /\ pc[t] = "run" /\ ~Blocked(t)
  /\ Goto(t, "done")
  /\ Unchanged /\ UNCHANGED <<sem, pool, results, panicked, faults>>

(* runTurn returns, whatever the reason. *)
EndRun(c) ==
  /\ pc[c] = "run" /\ ~Blocked(c)
  /\ sem' = SemWithout(c)
  /\ pool' = PoolWithout(c)
  /\ Goto(c, IF c \in async THEN "look" ELSE "done")
  /\ Unchanged /\ UNCHANGED <<results, panicked, faults>>

(* Mutation: the recovery gives token and slot back, and so does the end.  *)
PanicFreesTwice(c) ==
  /\ Fault /\ pc[c] = "run" /\ ~Blocked(c)
  /\ panicked' = panicked \cup {c}
  /\ sem' = SemWithout(c) /\ pool' = PoolWithout(c)
  /\ Goto(c, IF c \in async THEN "look" ELSE "done")
  /\ Unchanged /\ UNCHANGED results

(* It panics.  The recovery is the deferred function that delivers; the    *)
(* ones that give back slot and token run after it.                        *)
Panic(c) ==
  /\ Fault /\ pc[c] = "run" /\ ~Blocked(c)
  /\ panicked' = panicked \cup {c}
  /\ IF c \in async
     THEN Goto(c, "look") /\ UNCHANGED <<sem, pool>>
     ELSE Goto(c, "done") /\ sem' = SemWithout(c) /\ pool' = PoolWithout(c)
  /\ Unchanged /\ UNCHANGED results

Return(c) ==
  /\ sem' = SemWithout(c)
  /\ pool' = PoolWithout(c)
  /\ Goto(c, "done")

(* deliverSubTurnResult, up to its select: the result is an orphan when    *)
(* the parent is finished or has no channel.                               *)
Look(c) ==
  LET t == parent[c]
  IN  /\ pc[c] = "look"
      /\ IF t \in Roots \/ finish[t] # "no"
         THEN Return(c)
         ELSE Goto(c, "send") /\ UNCHANGED <<sem, pool>>
      /\ Unchanged /\ UNCHANGED <<results, panicked, faults>>

Send(c) ==
  LET t == parent[c]
  IN  /\ pc[c] = "send" /\ finish[t] \in {"no", "flagged"}
      /\ Len(results[t]) < ChanCap
      /\ results' = [results EXCEPT ![t] = Append(@, c)]
      /\ Return(c)
      /\ Unchanged /\ UNCHANGED <<panicked, faults>>

(* The parent's channels are closed: the select takes Finished, or the     *)
(* send, which panics and is recovered.                                    *)
SendOrphan(c) ==
  /\ pc[c] = "send" /\ finish[parent[c]] \in {"closed", "done"}
  /\ Return(c)
  /\ Unchanged /\ UNCHANGED <<results, panicked, faults>>

-----------------------------------------------------------------------------
(***************************************************************************)
(* HardAbort and Finish(true).  Finish walks the tree turn after turn; here *)
(* the turns it has reached go on independently.                           *)
(***************************************************************************)
HardAbort(t) ==
  /\ Fault /\ Registered(t) /\ t \notin aborted
  /\ aborted' = aborted \cup {t}
  /\ finish' = IF finish[t] = "no" THEN [finish EXCEPT ![t] = "flagged"] ELSE finish
  /\ UNCHANGED <<pc, parent, depth, async, sem, pool, results, panicked>>

Close(t) ==
  /\ finish[t] = "flagged"
  /\ finish' = [finish EXCEPT ![t] = "closed"]
  /\ UNCHANGED <<pc, parent, depth, async, sem, pool, results, aborted, panicked, faults>>

(* A root has no reference to the loop and reaches nobody. *)
Cascade(t) ==
  LET reached == {c \in Subs : parent[c] = t /\ Registered(c) /\ t \notin Roots}
  IN  /\ finish[t] = "closed"
      /\ finish' = [x \in Turns |->
                      IF x = t THEN "done"
                      ELSE IF x \in reached /\ finish[x] = "no" THEN "flagged"
                      ELSE finish[x]]
      /\ UNCHANGED <<pc, parent, depth, async, sem, pool, results, aborted,
                     panicked, faults>>

-----------------------------------------------------------------------------
Deliver(c) == Look(c) \/ Send(c) \/ SendOrphan(c)

Next ==
  \/ \E t \in Turns : \/ \E c \in Subs, isAsync \in BOOLEAN : Spawn(t, c, isAsync)
                      \/ HardAbort(t) \/ Close(t) \/ Cascade(t) \/ EndRoot(t)
  \/ \E c \in Subs : \/ AcquireSem(c) \/ AcquireSlot(c) \/ GiveUp(c) \/ Register(c)
                     \/ Poll(c) \/ EndRun(c) \/ Panic(c) \/ Deliver(c)

(* A goroutine that can go on does; a turn ends, its iterations being      *)
(* limited and its context having a deadline.  No timeout of a wait for a  *)
(* token or a slot is assumed to come, no result to be polled.             *)
Fairness ==
  /\ \A c \in Subs :
       /\ WF_vars(AcquireSem(c) \/ AcquireSlot(c) \/ Register(c))
       /\ WF_vars(EndRun(c))
       /\ WF_vars(Deliver(c))
  /\ \A t \in Turns : WF_vars(EndRoot(t)) /\ WF_vars(Close(t)) /\ WF_vars(Cascade(t))

Spec == Init /\ [][Next]_vars /\ Fairness

-----------------------------------------------------------------------------
(***************************************************************************)
(* Properties.                                                             *)
(***************************************************************************)

(* Tokens and slots are given back on every path out of spawnSubTurn       *)
(* (timeout, refusal, return, panic, a parent that was aborted or is gone) *)
(* and by the spawn that took them; no turn runs deeper than MaxDepth.     *)
SlotsMatchRuns ==
  /\ \A t \in Subs :
       sem[t] = Cardinality({c \in Subs : parent[c] = t /\ HoldsSem(c)})
  /\ \A d \in Depths :
       pool[d] = Cardinality({c \in Subs : depth[c] = d /\ HoldsSlot(c)})
  /\ \A c \in Subs : HoldsSlot(c) => depth[c] \in Depths

(* newSubTurnSlots: "the pools never deadlock (no hold-and-wait)".  Every  *)
(* spawn that waits for a token or a slot gets it without the help of its  *)
(* timeout, however turns nest and whether or not anybody polls the        *)
(* results.  (A sub-turn that panics delivers before it gives anything     *)
(* back, and may then keep its slot for good.)                             *)
SpawnsProceed ==
  <>[](\A c \in Subs : pc[c] \notin {"sem", "slot"}) \/ <>(panicked # {})

(* HardAbort "immediately cancels the running agent loop for the given     *)
(* session, cascading the cancellation to all child SubTurns".             *)
AbortCascades ==
  [][\A t \in Turns, c \in Subs :
       finish[t] # "done" /\ finish'[t] = "done" /\ parent[c] = t /\ pc[c] = "run" =>
         finish'[c] # "no"]_vars
=============================================================================
