------------------------------ MODULE RunState ------------------------------
(***************************************************************************)
(* The process-wide mode of the agent: the refcounted bits of              *)
(* runstate.Engine and everything that enters and leaves them: model and   *)
(* tool calls (TryEnter), reflexes (Enter), the dreams of the evolution    *)
(* and sleep bridges (TryEnterDream behind a dreamGate), the subscribers   *)
(* that follow the mode, and calls that wait for the end of a suspension.  *)
(*                                                                         *)
(* A step is one critical section of Engine.mu, or one of the code between *)
(* two of them: what a client does with a cancel function it took under    *)
(* the lock happens after the lock is gone.  When the watchdogs suspend    *)
(* and throttle is left open here; the Watchdogs module says when.         *)
(***************************************************************************)
EXTENDS Naturals, FiniteSets

CONSTANTS
  Clients,    \* callers that enter a bit and leave it, again and again
  BitOf,      \* the bit a client enters
  Evolvers,   \* workspaces of the evolution bridge's ColdPathRunner
  Sleepers,   \* sleep bridges
  Listeners,  \* publishers subscribed for the life of the process
  MaxTimers,  \* bound: retries of a refused evolver that are scheduled
  None

Dreamers == Evolvers \cup Sleepers
ClientBits == {"inference", "toolexec", "reflex"}
Bits == ClientBits \cup {"dream", "suspended", "throttled"}
Modes == SUBSET Bits
Empty == {"empty"}   \* an empty channel: not a mode

ASSUME RunStateAssumption ==
  /\ IsFiniteSet(Clients)
  /\ BitOf \in [Clients -> ClientBits]
  /\ Evolvers \cap Sleepers = {}
  /\ Clients \cap Listeners = {}
  /\ MaxTimers \in Nat \ {0}
  /\ None \notin Dreamers

VARIABLES
  counts,       \* the refcount of every bit
  dreamCancel,  \* the dreamer whose cancel function the engine holds
  enabled,      \* al.runstate is the engine (and not nil)
  cpc,          \* per client, where it is
  toCancel,     \* per client, the dream it preempted and has still to cancel
  dpc,          \* per dreamer, where it is
  pending,      \* the evolvers triggered again during a run
  timers,       \* per dreamer, the retries scheduled
  cancelled,    \* the dreamers whose dream context is cancelled
  closed,       \* the dreamers whose bridge was closed by a reload
  chan,         \* per subscriber, the mode buffered in its channel, or Empty
  last          \* per listener, the mode it received last, or Empty

clientVars  == <<enabled, cpc, toCancel>>
dreamerVars == <<dpc, pending, timers, cancelled, closed>>
vars == <<counts, dreamCancel, clientVars, dreamerVars, chan, last>>

ClientPCs  == {"idle", "enter", "cancel", "held", "free", "refused", "wait"}
DreamerPCs == {"idle", "run", "dream", "end", "nap"}

(* The clients inside their bit: from the increment to the decrement.      *)
InsidePCs == {"cancel", "held"}

ModeOf(f) == {b \in Bits : f[b] > 0}
Mode == ModeOf(counts)

TypeOK ==
  /\ counts \in [Bits -> Nat]
  /\ dreamCancel \in Dreamers \cup {None}
  /\ enabled \in BOOLEAN
  /\ cpc \in [Clients -> ClientPCs]
  /\ toCancel \in [Clients -> Dreamers \cup {None}]
  /\ dpc \in [Dreamers -> DreamerPCs]
  /\ pending \subseteq Evolvers
  /\ timers \in [Dreamers -> Nat]
  /\ cancelled \subseteq Dreamers
  /\ closed \subseteq Dreamers
  /\ chan \in [Clients \cup Listeners -> Modes \cup {Empty}]
  /\ last \in [Listeners -> Modes \cup {Empty}]

(* The engine is idle; a listener has been handed that mode by Subscribe.  *)
Init ==
  /\ counts = [b \in Bits |-> 0]
  /\ dreamCancel = None
  /\ enabled = TRUE
  /\ cpc = [c \in Clients |-> "idle"]
  /\ toCancel = [c \in Clients |-> None]
  /\ dpc = [d \in Dreamers |-> "idle"]
  /\ pending = {}
  /\ timers = [d \in Dreamers |-> 0]
  /\ cancelled = {}
  /\ closed = {}
  /\ chan = [x \in Clients \cup Listeners |-> IF x \in Listeners THEN {} ELSE Empty]
  /\ last = [x \in Listeners |-> Empty]

-----------------------------------------------------------------------------
(***************************************************************************)
(* The engine.                                                             *)
(***************************************************************************)
Subscribed(x) == x \in Listeners \/ (x \in Clients /\ cpc[x] = "wait")

(* Mutation: a full channel keeps the mode it has. *)
NotifyIfEmpty(f) ==
  chan' = [x \in Clients \cup Listeners |->
             IF Subscribed(x) /\ ModeOf(f) # Mode /\ chan[x] = Empty
             THEN ModeOf(f) ELSE chan[x]]

(* noteTransitionLocked: when the aggregate mode changes every subscriber's*)
(* channel of size one is made to hold the new mode.                       *)
Notify(f) ==
  chan' = [x \in Clients \cup Listeners |->
             IF Subscribed(x) /\ ModeOf(f) # Mode THEN ModeOf(f) ELSE chan[x]]

SetCount(b, n) ==
  LET f == [counts EXCEPT ![b] = n]
  IN  counts' = f /\ Notify(f)

Idle == Mode = {}
Suspended == counts["suspended"] > 0

At(c, pc)  == cpc' = [cpc EXCEPT ![c] = pc]
DAt(d, pc) == dpc' = [dpc EXCEPT ![d] = pc]

-----------------------------------------------------------------------------
(***************************************************************************)
(* Clients: activeRequestsInc, ExecuteTools, askSideQuestion, tryReflex.   *)
(***************************************************************************)

(* rsSnapshot: a nil engine makes entry and release no-ops. *)
Snapshot(c) ==
  /\ cpc[c] = "idle"
  /\ At(c, IF enabled THEN "enter" ELSE "free")
  /\ UNCHANGED <<counts, dreamCancel, enabled, toCancel, dreamerVars, chan, last>>

(* Mutation: the cancel function is taken and never called. *)
EnterForgets(c) ==
  /\ cpc[c] = "enter"
  /\ BitOf[c] # "reflex" => ~Suspended
  /\ SetCount(BitOf[c], counts[BitOf[c]] + 1)
  /\ dreamCancel' = IF BitOf[c] = "inference" THEN None ELSE dreamCancel
  /\ At(c, "held")
  /\ UNCHANGED <<enabled, toCancel, dreamerVars, last>>

(* Mutation: every client enters with Enter, which nothing vetoes.         *)
EnterUngated(c) ==
  /\ cpc[c] = "enter"
  /\ SetCount(BitOf[c], counts[BitOf[c]] + 1)
  /\ At(c, "held")
  /\ UNCHANGED <<dreamCancel, enabled, toCancel, dreamerVars, last>>

(* TryEnter (Enter for a reflex, which no suspension vetoes): an inference *)
(* takes the cancel function of a running dream with it.                   *)
Enter(c) ==
  /\ cpc[c] = "enter"
  /\ BitOf[c] # "reflex" => ~Suspended
  /\ SetCount(BitOf[c], counts[BitOf[c]] + 1)
  /\ IF BitOf[c] = "inference" /\ dreamCancel # None
     THEN /\ toCancel' = [toCancel EXCEPT ![c] = dreamCancel]
          /\ dreamCancel' = None
          /\ At(c, "cancel")
     ELSE At(c, "held") /\ UNCHANGED <<toCancel, dreamCancel>>
  /\ UNCHANGED <<enabled, dreamerVars, last>>

CallCancel(c) ==
  /\ cpc[c] = "cancel"
  /\ cancelled' = cancelled \cup {toCancel[c]}
  /\ toCancel' = [toCancel EXCEPT ![c] = None]
  /\ At(c, "held")
  /\ UNCHANGED <<counts, dreamCancel, enabled, dpc, pending, timers, closed,
                 chan, last>>

(* Mutation: the release looks the engine up again. *)
LeaveLooksUp(c) ==
  /\ cpc[c] \in {"held", "free"}
  /\ IF enabled /\ counts[BitOf[c]] > 0
     THEN SetCount(BitOf[c], counts[BitOf[c]] - 1)
     ELSE UNCHANGED <<counts, chan>>
  /\ At(c, "idle")
  /\ UNCHANGED <<dreamCancel, enabled, toCancel, dreamerVars, last>>

(* The release is bound to what the entry found, whatever a reload has     *)
(* made of al.runstate since.                                              *)
Leave(c) ==
  /\ \/ cpc[c] = "held" /\ SetCount(BitOf[c], counts[BitOf[c]] - 1)
     \/ cpc[c] = "free" /\ UNCHANGED <<counts, chan>>
  /\ At(c, "idle")
  /\ UNCHANGED <<dreamCancel, enabled, toCancel, dreamerVars, last>>

(* ErrBusy.  A model call may wait for the resume, any other gives up.     *)
Refused(c) ==
  /\ cpc[c] = "enter" /\ BitOf[c] # "reflex" /\ Suspended
  /\ \/ BitOf[c] = "inference" /\ At(c, "refused")
     \/ At(c, "idle")
  /\ UNCHANGED <<counts, dreamCancel, enabled, toCancel, dreamerVars, chan, last>>

(* waitForRunstateResume on the engine of the moment: Subscribe hands out  *)
(* the current mode at once.                                               *)
Subscribe(c) ==
  /\ cpc[c] = "refused"
  /\ \/ /\ enabled
        /\ At(c, "wait")
        /\ chan' = [chan EXCEPT ![c] = Mode]
     \/ /\ ~enabled
        /\ At(c, "idle")
        /\ UNCHANGED chan
  /\ UNCHANGED <<counts, dreamCancel, enabled, toCancel, dreamerVars, last>>

(* A received mode without the suspended bit ends the wait. *)
Wake(c) ==
  /\ cpc[c] = "wait" /\ chan[c] # Empty
  /\ chan' = [chan EXCEPT ![c] = Empty]
  /\ IF "suspended" \in chan[c] THEN UNCHANGED cpc ELSE At(c, "idle")
  /\ UNCHANGED <<counts, dreamCancel, enabled, toCancel, dreamerVars, last>>

(* The wait's budget or the turn's context is over. *)
WaitEnds(c) ==
  /\ cpc[c] = "wait"
  /\ chan' = [chan EXCEPT ![c] = Empty]
  /\ At(c, "idle")
  /\ UNCHANGED <<counts, dreamCancel, enabled, toCancel, dreamerVars, last>>

(* A configuration reload turns runstate.enabled on or off. *)
SwapEngine ==
  /\ enabled' = ~enabled
  /\ UNCHANGED <<counts, dreamCancel, cpc, toCancel, dreamerVars, chan, last>>

-----------------------------------------------------------------------------
(***************************************************************************)
(* Dreamers: an evolver is a workspace of the ColdPathRunner, a sleeper a  *)
(* sleep bridge.                                                           *)
(***************************************************************************)
(* ColdPathRunner.Trigger: a run in progress is asked to run once more.    *)
Triggers(d) ==
  \/ dpc[d] = "idle" /\ DAt(d, "run") /\ UNCHANGED pending
  \/ dpc[d] # "idle" /\ pending' = pending \cup {d} /\ UNCHANGED dpc

Trigger(d) ==
  /\ d \in Evolvers \ closed
  /\ timers[d] < MaxTimers
  /\ Triggers(d)
  /\ UNCHANGED <<counts, dreamCancel, clientVars, timers, cancelled, closed,
                 chan, last>>

(* The retry scheduled for a refused run fires. *)
Retrigger(d) ==
  /\ d \in Evolvers \ closed /\ timers[d] > 0
  /\ timers' = [timers EXCEPT ![d] = @ - 1]
  /\ Triggers(d)
  /\ UNCHANGED <<counts, dreamCancel, clientVars, cancelled, closed, chan, last>>

(* A sleep window opens, or a busy window is tried again. *)
WindowRun(d) ==
  /\ d \in Sleepers \ closed
  /\ dpc[d] \in {"idle", "nap"}
  /\ DAt(d, "run")
  /\ UNCHANGED <<counts, dreamCancel, clientVars, pending, timers, cancelled,
                 closed, chan, last>>

(* The window's deadline passes, or the bridge is closed, during the nap.  *)
WindowOver(d) ==
  /\ d \in Sleepers
  /\ dpc[d] = "nap"
  /\ DAt(d, "idle")
  /\ UNCHANGED <<counts, dreamCancel, clientVars, pending, timers, cancelled,
                 closed, chan, last>>

(* TryEnterDream succeeds: the context is new, and born cancelled when the *)
(* bridge's own context is.                                                *)
EnterDream(d) ==
  /\ dpc[d] = "run" /\ Idle
  /\ SetCount("dream", 1)
  /\ dreamCancel' = d
  /\ cancelled' = IF d \in closed THEN cancelled \cup {d} ELSE cancelled \ {d}
  /\ DAt(d, "dream")
  /\ UNCHANGED <<clientVars, pending, timers, closed, last>>

(* TryEnterDream refuses: the gate of an evolver schedules a retry, a      *)
(* sleeper naps.                                                           *)
RefuseDream(d) ==
  /\ dpc[d] = "run" /\ ~Idle
  /\ \/ /\ d \in Evolvers
        /\ timers' = IF d \in closed THEN timers
                     ELSE [timers EXCEPT ![d] = @ + 1]
        /\ DAt(d, "end")
     \/ /\ d \in Sleepers
        /\ DAt(d, "nap")
        /\ UNCHANGED timers
  /\ UNCHANGED <<counts, dreamCancel, clientVars, pending, cancelled, closed,
                 chan, last>>

(* The work is done or gave up: release.  It cancels whatever dream context*)
(* the engine still holds.                                                 *)
ReleaseDream(d) ==
  /\ dpc[d] = "dream"
  /\ cancelled' = cancelled \cup ({dreamCancel} \ {None})
  /\ dreamCancel' = None
  /\ SetCount("dream", 0)
  /\ DAt(d, "end")
  /\ UNCHANGED <<clientVars, pending, timers, closed, last>>

(* Mutation: runWorkspace does not look for a trigger before it ends.      *)
EndRunForgets(d) ==
  /\ dpc[d] = "end"
  /\ DAt(d, "idle")
  /\ UNCHANGED <<counts, dreamCancel, clientVars, pending, timers, cancelled,
                 closed, chan, last>>

(* runWorkspace looks for a trigger that came during the run, runWindow for*)
(* another workspace of its bridge.                                        *)
EndRun(d) ==
  /\ dpc[d] = "end"
  /\ \/ /\ d \in pending \ closed
        /\ DAt(d, "run")
     \/ /\ d \in Evolvers /\ d \notin pending \ closed
        /\ DAt(d, "idle")
     \/ /\ d \in Sleepers
        /\ \E pc \in {"run", "idle"} : DAt(d, pc)
  /\ pending' = pending \ {d}
  /\ UNCHANGED <<counts, dreamCancel, clientVars, timers, cancelled, closed,
                 chan, last>>

(* A reload closes a bridge: its context is cancelled, its retries are     *)
(* void.  Another dreamer is the bridge that takes over at once.           *)
CloseBridge(d) ==
  /\ d \notin closed
  /\ closed' = closed \cup {d}
  /\ timers' = [timers EXCEPT ![d] = 0]
  /\ cancelled' = IF dpc[d] = "dream" THEN cancelled \cup {d} ELSE cancelled
  /\ UNCHANGED <<counts, dreamCancel, clientVars, dpc, pending, chan, last>>

(* A bridge of a later reload, gated if the engine is enabled, under the   *)
(* name of a closed one whose run has ended.                               *)
NewBridge(d) ==
  /\ d \in closed /\ dpc[d] = "idle" /\ enabled
  /\ closed' = closed \ {d}
  /\ UNCHANGED <<counts, dreamCancel, clientVars, dpc, pending, timers,
                 cancelled, chan, last>>

-----------------------------------------------------------------------------
(***************************************************************************)
(* The memory and CPU watchdogs, and the publishers.                       *)
(***************************************************************************)
Suspend ==
  /\ SetCount("suspended", 1)
  /\ UNCHANGED <<dreamCancel, clientVars, dreamerVars, last>>

(* Mutation: the suspended bit is refcounted and not idempotent. *)
ResumeDecrements ==
  /\ SetCount("suspended", counts["suspended"] - 1)
  /\ UNCHANGED <<dreamCancel, clientVars, dreamerVars, last>>

Resume ==
  /\ SetCount("suspended", 0)
  /\ UNCHANGED <<dreamCancel, clientVars, dreamerVars, last>>

Throttle ==
  /\ counts["throttled"] = 0
  /\ SetCount("throttled", 1)
  /\ UNCHANGED <<dreamCancel, clientVars, dreamerVars, last>>

Unthrottle ==
  /\ counts["throttled"] = 1
  /\ SetCount("throttled", 0)
  /\ UNCHANGED <<dreamCancel, clientVars, dreamerVars, last>>

Publish(x) ==
  /\ chan[x] # Empty
  /\ last' = [last EXCEPT ![x] = chan[x]]
  /\ chan' = [chan EXCEPT ![x] = Empty]
  /\ UNCHANGED <<counts, dreamCancel, clientVars, dreamerVars>>

ClientNext(c) ==
  \/ Snapshot(c)
  \/ Enter(c)
  \/ CallCancel(c)
  \/ Leave(c)
  \/ Refused(c)
  \/ Subscribe(c)
  \/ Wake(c)
  \/ WaitEnds(c)

DreamerNext(d) ==
  \/ Trigger(d)
  \/ Retrigger(d)
  \/ WindowRun(d)
  \/ WindowOver(d)
  \/ EnterDream(d)
  \/ RefuseDream(d)
  \/ ReleaseDream(d)
  \/ EndRun(d)
  \/ CloseBridge(d)
  \/ NewBridge(d)

WatchdogNext == Suspend \/ Resume \/ Throttle \/ Unthrottle

Next ==
  \/ \E c \in Clients : ClientNext(c)
  \/ \E d \in Dreamers : DreamerNext(d)
  \/ \E x \in Listeners : Publish(x)
  \/ WatchdogNext
  \/ SwapEngine

(***************************************************************************)
(* What a goroutine does between two blocking points it does; a dream ends *)
(* by itself only when its context is cancelled, and the timers of         *)
(* time.AfterFunc fire.  No fairness for calls, windows, waits that run    *)
(* out, watchdogs or reloads.                                              *)
(***************************************************************************)
Fairness ==
  /\ \A c \in Clients : WF_vars(CallCancel(c)) /\ WF_vars(Wake(c))
  /\ \A d \in Dreamers :
       /\ WF_vars(EnterDream(d) \/ RefuseDream(d) \/ EndRun(d))
       /\ WF_vars(d \in cancelled /\ ReleaseDream(d))
       /\ WF_vars(Retrigger(d))

Spec == Init /\ [][Next]_vars /\ Fairness

-----------------------------------------------------------------------------
(***************************************************************************)
(* Properties.                                                             *)
(***************************************************************************)

(* The refcount of a bit is the number of its holders, whatever reloads    *)
(* happen between an entry and its release (T35, agent_utils.go:559): a    *)
(* leaked inference would keep every dream out and the heartbeat silent,   *)
(* a lost one would let a dream run under a model call.                    *)
CountsMatchHolders ==
  /\ \A b \in ClientBits :
       counts[b] = Cardinality({c \in Clients : BitOf[c] = b /\ cpc[c] \in InsidePCs})
  /\ counts["dream"] = Cardinality({d \in Dreamers : dpc[d] = "dream"})

(* One dream at a time, the preempted one included until it has unwound.   *)
OneDream ==
  \A d, e \in Dreamers : dpc[d] = "dream" /\ dpc[e] = "dream" => d = e

(* A model call and a dream overlap only while the dream's context is      *)
(* cancelled, or the client that preempted it is about to cancel it: no    *)
(* order of entries, releases and reloads lets a dream go on unnoticed.    *)
InferencePreempts ==
  \A d \in Dreamers :
    counts["inference"] > 0 /\ dpc[d] = "dream" =>
      d \in cancelled \/ \E c \in Clients : cpc[c] = "cancel" /\ toCancel[c] = d

(* While the engine is suspended nobody new enters a model call, a tool    *)
(* batch or a dream (ADR-016 point 6).                                     *)
SuspendedVetoes ==
  [][\A b \in {"inference", "toolexec", "dream"} :
       Suspended => counts'[b] <= counts[b]]_vars

(* A subscriber that has emptied its channel has seen the current mode: a  *)
(* slow one misses modes but never the newest.                             *)
NoStaleListener ==
  /\ \A x \in Listeners : Mode = IF chan[x] = Empty THEN last[x] ELSE chan[x]
  /\ \A c \in Clients : cpc[c] = "wait" /\ chan[c] = Empty => Suspended

(* A call that waits for the resume wakes up when the suspension ends for  *)
(* good, without the help of its timeout.                                  *)
WaiterWakes ==
  \A c \in Clients :
    <>[](~Suspended) => ((cpc[c] = "wait") ~> (cpc[c] # "wait"))

(* A dream that a model call overlaps ends. *)
DreamYields ==
  \A d \in Dreamers :
    (counts["inference"] > 0 /\ dpc[d] = "dream") ~> (dpc[d] # "dream")

(* A trigger that comes during a run leads to another run, if dreams end.  *)
TriggerNotLost ==
  \A d \in Evolvers :
    []<>(dpc[d] # "dream") =>
      ((d \in pending) ~> (dpc[d] = "run" \/ d \in closed))

(* mode.go:47: Throttled never gates any transition, so it is not what a   *)
(* dream is refused for.                                                   *)
ThrottledGatesNothing ==
  [][\A d \in Dreamers :
       dpc[d] = "run" /\ dpc'[d] \in {"end", "nap"} => Mode # {"throttled"}]_vars
=============================================================================
