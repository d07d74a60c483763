---------------------------- MODULE TurnDispatch ----------------------------
(***************************************************************************)
(* How the agent loop turns inbound messages into turns: the claim of a    *)
(* session in activeTurnStates, the worker goroutines behind workerSem,    *)
(* the steering queue that collects messages for a busy session, /stop,    *)
(* and the drain of queued messages after a turn (Continue).               *)
(*                                                                         *)
(* Every inbound message that claims its session starts one worker         *)
(* goroutine, so a worker is named by that message.  A step below is the   *)
(* code between two accesses to shared state (activeTurnStates, the        *)
(* steering queue, pendingStops, workerSem); everything may interleave     *)
(* between them.                                                           *)
(*                                                                         *)
(* A message that is not routable (system messages) is left out: the loop  *)
(* runs its turn itself, without a claim, before it receives another.      *)
(***************************************************************************)
EXTENDS Naturals, Sequences, FiniteSets

CONSTANTS
  Msgs,          \* the routable inbound messages of a behaviour
  Sessions,      \* session keys
  SessionOf,     \* the session a message resolves to
  StopMsgs,      \* the messages whose text is the /stop command
  MaxWorkers,    \* capacity of workerSem (agents.defaults.max_parallel_turns)
  MaxQueueSize,  \* steering messages kept per session
  DrainAll,      \* SteeringMode "all" (otherwise one-at-a-time)
  HasDeadline,   \* user_turn_max_minutes > 0
  MayPanic,      \* a worker goroutine may panic
  ReloadFaults,  \* a configuration reload may make a worker's lookups fail
  None

ASSUME DispatchAssumption ==
  /\ IsFiniteSet(Msgs)
  /\ SessionOf \in [Msgs -> Sessions]
  /\ StopMsgs \subseteq Msgs
  /\ MaxWorkers \in Nat \ {0}
  /\ MaxQueueSize \in Nat \ {0}
  /\ DrainAll \in BOOLEAN
  /\ HasDeadline \in BOOLEAN
  /\ MayPanic \in BOOLEAN
  /\ ReloadFaults \in BOOLEAN
  /\ None \notin Msgs

VARIABLES
  activeTurns,   \* per session, the entry of activeTurnStates or NoEntry
  steering,      \* per session, the queued steering messages
  pendingStops,  \* the sessions with a pending stop
  workerSem,     \* tokens in the workerSem channel
  loopPC,        \* the receive loop: its next step,
  loopMsg,       \* the message it holds,
  cleared,       \* and whether its /stop has cleared queued messages
  wpc,           \* per worker, the next step
  isCont,        \* the worker's current turn is a continuation
  onReturn,      \* where the worker goes when its turn has cleared its entry
  batch,         \* the messages the worker's current turn works on
  hardAbort,     \* the workers whose current turn was hard-aborted
  seen,          \* the entry a worker's exit cleanup has found
  fate,          \* where a message is
  reach,         \* history: the messages received before a pending stop
  overreached,   \* history: later messages that fell to a pending stop
  stolen,        \* history: sessions whose entry a non-owner deleted
  wedged,        \* history: workers that panicked inside Continue
  ctxDone        \* the context of Run is cancelled

loop == <<loopPC, loopMsg, cleared>>
vars == <<activeTurns, steering, pendingStops, workerSem, loop, wpc, isCont,
          onReturn, batch, hardAbort, seen, fate, reach, overreached, stolen,
          wedged, ctxDone>>

-----------------------------------------------------------------------------
(***************************************************************************)
(* Entries of activeTurnStates.  "claim" is the placeholder of the receive *)
(* loop, "cont" the one of Continue (both carry the pending- prefix),      *)
(* "turn" a registered turn.  The owner is the worker that will run it.    *)
(***************************************************************************)
Entries == [kind : {"claim", "cont", "turn"}, owner : Msgs]
NoEntry == [kind |-> "none", owner |-> None]

Entry(k, w)   == [kind |-> k, owner |-> w]
IsPending(e)  == e.kind \in {"claim", "cont"}
Slot(w)       == activeTurns[SessionOf[w]]
SetSlot(s, e) == activeTurns' = [activeTurns EXCEPT ![s] = e]

WorkerPCs == {"none", "sem", "gate", "unclaim", "process", "procAbort",
              "register", "takeStop", "poll", "run", "final", "clear",
              "clearDel", "drain", "cont", "contDeq", "exit", "cleanup",
              "cleanupChk", "cleanupDel", "panic", "panicCleanup", "done"}

(* A worker holds a token of workerSem at these points. *)
TokenPCs == WorkerPCs \ {"none", "sem", "cleanup", "cleanupChk",
                         "cleanupDel", "panicCleanup", "done"}

(* runTurn has registered and not yet cleared its turn. *)
TurnPCs == {"takeStop", "poll", "run", "final", "clear", "clearDel"}

LoopPCs == {"recv", "enqueue", "stopClear", "stopLook", "stopAbort",
            "stopRecheck", "stopMark"}

(* A message is with the channel, with the receive loop, with the worker   *)
(* that claimed the session for it, in the steering queue, in a turn, or   *)
(* settled: answered, failed, stopped, rejected or handled without a turn. *)
Fates == {"inbox", "held", "claimed", "queued", "batch", "settled"}

Goto(w, pc) == wpc' = [wpc EXCEPT ![w] = pc]

(* The messages of M have all come to f. *)
Settle(M, f) == fate' = [m \in Msgs |-> IF m \in M THEN f ELSE fate[m]]

SteeringMsgs(s) == {steering[s][i] : i \in 1..Len(steering[s])}

(* dequeueLocked: one message, or all of them in SteeringMode "all". *)
Dequeued(s)  == IF DrainAll THEN SteeringMsgs(s) ELSE {Head(steering[s])}

(* Mutation: a message that is taken one at a time stays in the queue.     *)
RemainingPeeked(s) == IF DrainAll THEN << >> ELSE steering[s]
Remaining(s) == IF DrainAll THEN << >> ELSE Tail(steering[s])

TypeOK ==
  /\ activeTurns \in [Sessions -> Entries \cup {NoEntry}]
  /\ steering \in [Sessions -> Seq(Msgs)]
  /\ pendingStops \subseteq Sessions
  /\ workerSem \in Nat
  /\ loopPC \in LoopPCs
  /\ loopMsg \in Msgs \cup {None}
  /\ (loopPC # "recv") => (loopMsg \in Msgs)
  /\ cleared \in BOOLEAN
  /\ wpc \in [Msgs -> WorkerPCs]
  /\ isCont \in [Msgs -> BOOLEAN]
  /\ onReturn \in [Msgs -> {"drain", "exit", "panic"}]
  /\ batch \in [Msgs -> SUBSET Msgs]
  /\ hardAbort \subseteq Msgs
  /\ seen \in [Msgs -> Entries \cup {NoEntry}]
  /\ fate \in [Msgs -> Fates]
  /\ reach \in [Sessions -> SUBSET Msgs]
  /\ overreached \subseteq Msgs
  /\ stolen \subseteq Sessions
  /\ wedged \subseteq Msgs
  /\ ctxDone \in BOOLEAN

Init ==
  /\ activeTurns = [s \in Sessions |-> NoEntry]
  /\ steering = [s \in Sessions |-> << >>]
  /\ pendingStops = {}
  /\ workerSem = 0
  /\ loopPC = "recv" /\ loopMsg = None /\ cleared = FALSE
  /\ wpc = [m \in Msgs |-> "none"]
  /\ isCont = [m \in Msgs |-> FALSE]
  /\ onReturn = [m \in Msgs |-> "drain"]
  /\ batch = [m \in Msgs |-> {}]
  /\ hardAbort = {}
  /\ seen = [m \in Msgs |-> NoEntry]
  /\ fate = [m \in Msgs |-> "inbox"]
  /\ reach = [s \in Sessions |-> {}]
  /\ overreached = {}
  /\ stolen = {}
  /\ wedged = {}
  /\ ctxDone = FALSE

-----------------------------------------------------------------------------
(***************************************************************************)
(* The receive loop (AgentLoop.Run).                                       *)
(***************************************************************************)
turnVars == <<isCont, onReturn, batch, seen>>
ghosts   == <<reach, overreached, stolen, wedged>>

LoopAt(pc, m, c) == loopPC' = pc /\ loopMsg' = m /\ cleared' = c
LoopRecv         == LoopAt("recv", None, FALSE)

(* LoadOrStore finds no entry: the message claims its session and gets a   *)
(* worker.                                                                 *)
Claim(m) ==
  /\ Slot(m) = NoEntry
  /\ SetSlot(SessionOf[m], Entry("claim", m))
  /\ Goto(m, "sem")
  /\ Settle({m}, "claimed")
  /\ UNCHANGED loop

(* LoadOrStore finds an entry: /stop is handled by the loop itself, any    *)
(* other message is prepared (transcription) and then queued.              *)
FindBusy(m) ==
  /\ Slot(m) # NoEntry
  /\ LoopAt(IF m \in StopMsgs THEN "stopClear" ELSE "enqueue", m, FALSE)
  /\ Settle({m}, "held")
  /\ UNCHANGED <<activeTurns, wpc>>

Receive(m) ==
  /\ loopPC = "recv" /\ ~ctxDone
  /\ fate[m] = "inbox"
  /\ Claim(m) \/ FindBusy(m)
  /\ UNCHANGED <<steering, pendingStops, workerSem, turnVars, hardAbort,
                 ghosts, ctxDone>>

(* enqueueSteeringMessage: a full queue rejects the message (it is only    *)
(* logged); one that cleaning leaves empty is ignored.                     *)
Enqueue ==
  /\ loopPC = "enqueue"
  /\ LET m == loopMsg
         s == SessionOf[m]
     IN  \/ /\ Len(steering[s]) < MaxQueueSize
            /\ steering' = [steering EXCEPT ![s] = Append(@, m)]
            /\ Settle({m}, "queued")
         \/ /\ Len(steering[s]) >= MaxQueueSize
            /\ Settle({m}, "settled")
            /\ UNCHANGED steering
         \/ /\ Settle({m}, "settled")
            /\ UNCHANGED steering
  /\ LoopRecv
  /\ UNCHANGED <<activeTurns, pendingStops, workerSem, wpc, turnVars,
                 hardAbort, ghosts, ctxDone>>

(* stopActiveTurnForSession drops what is queued before it looks for a     *)
(* turn.                                                                   *)
StopClear ==
  /\ loopPC = "stopClear"
  /\ LET s == SessionOf[loopMsg]
     IN  /\ Settle(SteeringMsgs(s), "settled")
         /\ steering' = [steering EXCEPT ![s] = << >>]
         /\ LoopAt("stopLook", loopMsg, steering[s] # << >>)
  /\ UNCHANGED <<activeTurns, pendingStops, workerSem, wpc, turnVars,
                 hardAbort, ghosts, ctxDone>>

StopDone == LoopRecv /\ Settle({loopMsg}, "settled")

(* The first look: no entry ends the stop when something was cleared, a    *)
(* registered turn goes to HardAbort, a placeholder to the second look.    *)
StopLook ==
  /\ loopPC = "stopLook"
  /\ LET e == Slot(loopMsg)
     IN  \/ /\ e.kind = "turn"
            /\ LoopAt("stopAbort", loopMsg, cleared)
            /\ UNCHANGED fate
         \/ /\ e = NoEntry /\ cleared
            /\ StopDone
         \/ /\ IsPending(e) \/ (e = NoEntry /\ ~cleared)
            /\ LoopAt("stopRecheck", loopMsg, cleared)
            /\ UNCHANGED fate
  /\ UNCHANGED <<activeTurns, steering, pendingStops, workerSem, wpc,
                 turnVars, hardAbort, ghosts, ctxDone>>

(* HardAbort loads the entry again: a turn is aborted, a placeholder is an *)
(* error, and with no entry left the stop counts what it cleared.          *)
StopAbort ==
  /\ loopPC = "stopAbort"
  /\ LET e == Slot(loopMsg)
     IN  \/ /\ e.kind = "turn"
            /\ hardAbort' = hardAbort \cup {e.owner}
            /\ StopDone
         \/ /\ IsPending(e) \/ (e = NoEntry /\ cleared)
            /\ StopDone
            /\ UNCHANGED hardAbort
         \/ /\ e = NoEntry /\ ~cleared
            /\ LoopAt("stopRecheck", loopMsg, FALSE)
            /\ UNCHANGED <<hardAbort, fate>>
  /\ UNCHANGED <<activeTurns, steering, pendingStops, workerSem, wpc,
                 turnVars, ghosts, ctxDone>>

(* tryHandleStopCommand looks again, and arms a pending stop when it finds *)
(* a placeholder.                                                          *)
StopRecheck ==
  /\ loopPC = "stopRecheck"
  /\ IF IsPending(Slot(loopMsg))
     THEN LoopAt("stopMark", loopMsg, cleared) /\ UNCHANGED fate
     ELSE StopDone
  /\ UNCHANGED <<activeTurns, steering, pendingStops, workerSem, wpc,
                 turnVars, hardAbort, ghosts, ctxDone>>

StopMark ==
  /\ loopPC = "stopMark"
  /\ pendingStops' = pendingStops \cup {SessionOf[loopMsg]}
  /\ reach' = [reach EXCEPT ![SessionOf[loopMsg]] =
                              {m \in Msgs : fate[m] # "inbox"}]
  /\ StopDone
  /\ UNCHANGED <<activeTurns, steering, workerSem, wpc, turnVars, hardAbort,
                 overreached, stolen, wedged, ctxDone>>

Shutdown ==
  /\ ~ctxDone
  /\ ctxDone' = TRUE
  /\ UNCHANGED <<activeTurns, steering, pendingStops, workerSem, loop,
                 wpc, turnVars, hardAbort, fate, ghosts>>

LoopNext ==
  \/ \E m \in Msgs : Receive(m)
  \/ Enqueue
  \/ StopClear
  \/ StopLook
  \/ StopAbort
  \/ StopRecheck
  \/ StopMark

-----------------------------------------------------------------------------
(***************************************************************************)
(* The worker goroutine, up to its turn.                                   *)
(***************************************************************************)
AcquireSlot(w) ==
  /\ wpc[w] = "sem"
  /\ workerSem < MaxWorkers
  /\ workerSem' = workerSem + 1
  /\ Goto(w, "gate")
  /\ UNCHANGED <<activeTurns, steering, pendingStops, loop, turnVars,
                 hardAbort, fate, ghosts, ctxDone>>

(* Mutation: the cancelled worker runs the deferred release of a token it  *)
(* never took.                                                             *)
AbandonThroughExit(w) ==
  /\ wpc[w] = "sem" /\ ctxDone
  /\ SetSlot(SessionOf[w], NoEntry)
  /\ Goto(w, "exit")
  /\ Settle({w}, "settled")
  /\ UNCHANGED <<steering, pendingStops, workerSem, loop, turnVars,
                 hardAbort, ghosts, ctxDone>>

(* Cancelled while waiting for a token: the entry is deleted, whoever's it *)
(* is (releaseSessionTurnState with a nil expectation).                    *)
AbandonClaim(w) ==
  /\ wpc[w] = "sem" /\ ctxDone
  /\ SetSlot(SessionOf[w], NoEntry)
  /\ Goto(w, "done")
  /\ Settle({w}, "settled")
  /\ UNCHANGED <<steering, pendingStops, workerSem, loop, turnVars,
                 hardAbort, ghosts, ctxDone>>

(* takePendingStop (LoadAndDelete) has found a stop for s, and the messages*)
(* of M fall to it.                                                        *)
FallToStop(s, M) ==
  /\ s \in pendingStops
  /\ pendingStops' = pendingStops \ {s}
  /\ overreached' = overreached \cup (M \ reach[s])
  /\ reach' = [reach EXCEPT ![s] = {}]

(* takePendingStop before the turn: the message is not run. *)
GateStop(w) ==
  /\ wpc[w] = "gate"
  /\ FallToStop(SessionOf[w], {w})
  /\ Settle({w}, "settled")
  /\ Goto(w, "unclaim")
  /\ UNCHANGED <<activeTurns, steering, workerSem, loop, turnVars, hardAbort,
                 stolen, wedged, ctxDone>>

GatePass(w) ==
  /\ wpc[w] = "gate" /\ SessionOf[w] \notin pendingStops
  /\ Goto(w, "process")
  /\ UNCHANGED <<activeTurns, steering, pendingStops, workerSem, loop,
                 turnVars, hardAbort, fate, ghosts, ctxDone>>

Unclaim(w) ==
  /\ wpc[w] = "unclaim"
  /\ SetSlot(SessionOf[w], NoEntry)
  /\ Goto(w, "drain")
  /\ UNCHANGED <<steering, pendingStops, workerSem, loop, turnVars,
                 hardAbort, fate, ghosts, ctxDone>>

(* processMessage answers without a turn: a slash command, a reflex, an    *)
(* empty message or an error.  A cancellation returns without draining.    *)
ProcessWithoutTurn(w) ==
  /\ wpc[w] = "process" /\ w \notin StopMsgs
  /\ Settle({w}, "settled")
  /\ \/ Goto(w, "drain")
     \/ ctxDone /\ Goto(w, "exit")
  /\ UNCHANGED <<activeTurns, steering, pendingStops, workerSem, loop,
                 turnVars, hardAbort, ghosts, ctxDone>>

(* A /stop that claimed the session itself clears the queue and, should it *)
(* find a turn registered, aborts it.                                      *)
ProcessStop(w) ==
  LET s == SessionOf[w]
  IN  /\ wpc[w] = "process" /\ w \in StopMsgs
      /\ Settle(SteeringMsgs(s), "settled")
      /\ steering' = [steering EXCEPT ![s] = << >>]
      /\ Goto(w, "procAbort")
      /\ UNCHANGED <<activeTurns, pendingStops, workerSem, loop, turnVars,
                     hardAbort, ghosts, ctxDone>>

ProcessStopAbort(w) ==
  /\ wpc[w] = "procAbort"
  /\ hardAbort' = IF Slot(w).kind = "turn"
                  THEN hardAbort \cup {Slot(w).owner} ELSE hardAbort
  /\ Settle({w}, "settled")
  /\ Goto(w, "drain")
  /\ UNCHANGED <<activeTurns, steering, pendingStops, workerSem, loop,
                 turnVars, ghosts, ctxDone>>

ProcessTurn(w) ==
  /\ wpc[w] = "process" /\ w \notin StopMsgs
  /\ isCont' = [isCont EXCEPT ![w] = FALSE]
  /\ batch' = [batch EXCEPT ![w] = {w}]
  /\ Settle({w}, "batch")
  /\ Goto(w, "register")
  /\ UNCHANGED <<activeTurns, steering, pendingStops, workerSem, loop,
                 onReturn, hardAbort, seen, ghosts, ctxDone>>

-----------------------------------------------------------------------------
(***************************************************************************)
(* runTurn: registration, the hard-abort checks, the steering polls, the   *)
(* ways it ends, and the deferred clearActiveTurn.                         *)
(***************************************************************************)

(* runAgentLoop fails before runTurn (turn profile): the placeholder stays.*)
RegisterFails(w) ==
  /\ wpc[w] = "register"
  /\ Settle(batch[w], "settled")
  /\ batch' = [batch EXCEPT ![w] = {}]
  /\ isCont' = [isCont EXCEPT ![w] = FALSE]
  /\ Goto(w, IF isCont[w] THEN "exit" ELSE "drain")
  /\ UNCHANGED <<activeTurns, steering, pendingStops, workerSem, loop,
                 onReturn, hardAbort, seen, ghosts, ctxDone>>

(* registerActiveTurn is a plain Store. *)
Register(w) ==
  /\ wpc[w] = "register"
  /\ SetSlot(SessionOf[w], Entry("turn", w))
  /\ Goto(w, "takeStop")
  /\ UNCHANGED <<steering, pendingStops, workerSem, loop, turnVars, hardAbort,
                 fate, ghosts, ctxDone>>

(* runTurn takes a pending stop as a hard abort of itself. *)
TakeStop(w) ==
  /\ wpc[w] = "takeStop"
  /\ \/ /\ FallToStop(SessionOf[w], batch[w])
        /\ hardAbort' = hardAbort \cup {w}
     \/ /\ SessionOf[w] \notin pendingStops
        /\ UNCHANGED <<pendingStops, reach, overreached, hardAbort>>
  /\ Goto(w, IF isCont[w] THEN "run" ELSE "poll")
  /\ UNCHANGED <<activeTurns, steering, workerSem, loop, turnVars, fate,
                 stolen, wedged, ctxDone>>

(* What a poll of the steering queue adds to the turn. *)
TakeSteering(w) ==
  LET s == SessionOf[w]
  IN  /\ steering[s] # << >>
      /\ batch' = [batch EXCEPT ![w] = @ \cup Dequeued(s)]
      /\ Settle(Dequeued(s), "batch")
      /\ steering' = [steering EXCEPT ![s] = Remaining(s)]

(* The initial poll; continuations skip it (SkipInitialSteeringPoll). *)
InitialPoll(w) ==
  /\ wpc[w] = "poll" /\ w \notin hardAbort
  /\ \/ TakeSteering(w)
     \/ steering[SessionOf[w]] = << >> /\ UNCHANGED <<steering, batch, fate>>
  /\ Goto(w, "run")
  /\ UNCHANGED <<activeTurns, pendingStops, workerSem, loop, isCont,
                 onReturn, hardAbort, seen, ghosts, ctxDone>>

(* ExecuteTools polls after each tool call. *)
ToolPoll(w) ==
  /\ wpc[w] = "run" /\ w \notin hardAbort
  /\ TakeSteering(w)
  /\ UNCHANGED <<activeTurns, pendingStops, workerSem, loop, wpc, isCont,
                 onReturn, hardAbort, seen, ghosts, ctxDone>>

(* The turn is over: its messages are settled, clearActiveTurn runs, and   *)
(* the worker goes on at pc.                                               *)
EndTurn(w, pc) ==
  /\ Settle(batch[w], "settled")
  /\ batch' = [batch EXCEPT ![w] = {}]
  /\ onReturn' = [onReturn EXCEPT ![w] = pc]
  /\ Goto(w, "clear")
  /\ UNCHANGED <<activeTurns, steering, pendingStops, workerSem, loop,
                 isCont, hardAbort, seen, ghosts, ctxDone>>

(* abortTurn: the reply is empty, which ends the drain of a continuation.  *)
TurnAborts(w) ==
  /\ wpc[w] \in {"poll", "run"} /\ w \in hardAbort
  /\ EndTurn(w, IF isCont[w] THEN "exit" ELSE "drain")

(* The model or a tool fails, or the context is cancelled. *)
TurnFails(w) ==
  /\ wpc[w] \in {"poll", "run"}
  /\ \E pc \in {"drain", "exit"} :
       /\ (pc = "drain") => ~isCont[w]
       /\ (pc = "exit") => (isCont[w] \/ ctxDone)
       /\ EndTurn(w, pc)

(* The last abort check has passed: Finalize runs whatever is requested    *)
(* from now on.                                                            *)
LastAbortCheck(w) ==
  /\ wpc[w] = "run" /\ w \notin hardAbort
  /\ Goto(w, "final")
  /\ UNCHANGED <<activeTurns, steering, pendingStops, workerSem, loop,
                 turnVars, hardAbort, fate, ghosts, ctxDone>>

(* Finalize.  A continuation whose tools delivered the output returns an   *)
(* empty reply, which ends the drain; when tools delivered the output      *)
(* Finalize still honours an abort.                                        *)
TurnAnswers(w) ==
  /\ wpc[w] = "final"
  /\ \/ EndTurn(w, "drain")
     \/ isCont[w] /\ EndTurn(w, "exit")
     \/ /\ w \in hardAbort
        /\ EndTurn(w, IF isCont[w] THEN "exit" ELSE "drain")

TurnPanics(w) ==
  /\ MayPanic /\ wpc[w] \in {"takeStop", "poll", "run", "final"}
  /\ EndTurn(w, "panic")

(* runTurn has returned and its turnState is gone. *)
Returned(w) ==
  /\ Goto(w, onReturn[w])
  /\ onReturn' = [onReturn EXCEPT ![w] = "drain"]
  /\ isCont' = [isCont EXCEPT ![w] = FALSE]
  /\ hardAbort' = hardAbort \ {w}

(* clearActiveTurn: delete the entry if it still is this turn.  The check  *)
(* and the delete are two operations on the map.                           *)
ClearCheck(w) ==
  /\ wpc[w] = "clear"
  /\ \/ /\ Slot(w) = Entry("turn", w)
        /\ Goto(w, "clearDel")
        /\ UNCHANGED <<onReturn, isCont, hardAbort>>
     \/ /\ Slot(w) # Entry("turn", w)
        /\ Returned(w)
  /\ UNCHANGED <<activeTurns, steering, pendingStops, workerSem, loop, batch, seen,
                 fate, ghosts, ctxDone>>

ClearDelete(w) ==
  /\ wpc[w] = "clearDel"
  /\ SetSlot(SessionOf[w], NoEntry)
  /\ Returned(w)
  /\ UNCHANGED <<steering, pendingStops, workerSem, loop, batch, seen, fate, ghosts,
                 ctxDone>>

-----------------------------------------------------------------------------
(***************************************************************************)
(* drainQueuedSteeringContinuations and Continue.                          *)
(***************************************************************************)
DrainMore(w) ==
  /\ wpc[w] = "drain" /\ steering[SessionOf[w]] # << >> /\ ~ctxDone
  /\ Goto(w, "cont")
  /\ UNCHANGED <<activeTurns, steering, pendingStops, workerSem, loop,
                 turnVars, hardAbort, fate, ghosts, ctxDone>>

(* Nothing queued, the context is over (shutdown, user-turn deadline), or  *)
(* the message's route does not resolve any more.                          *)
DrainEnds(w) ==
  /\ wpc[w] = "drain"
  /\ steering[SessionOf[w]] = << >> \/ ctxDone \/ HasDeadline \/ ReloadFaults
  /\ Goto(w, "exit")
  /\ UNCHANGED <<activeTurns, steering, pendingStops, workerSem, loop,
                 turnVars, hardAbort, fate, ghosts, ctxDone>>

(* Mutation: Continue stores its placeholder over whatever is there. *)
ContinueStores(w) ==
  /\ wpc[w] = "cont"
  /\ SetSlot(SessionOf[w], Entry("cont", w))
  /\ Goto(w, "contDeq")
  /\ UNCHANGED <<steering, pendingStops, workerSem, loop, turnVars,
                 hardAbort, fate, ghosts, ctxDone>>

(* Continue claims the session with its own placeholder. *)
ContinueClaim(w) ==
  /\ wpc[w] = "cont" /\ Slot(w) = NoEntry
  /\ SetSlot(SessionOf[w], Entry("cont", w))
  /\ Goto(w, "contDeq")
  /\ UNCHANGED <<steering, pendingStops, workerSem, loop, turnVars,
                 hardAbort, fate, ghosts, ctxDone>>

ContinueBusy(w) ==
  /\ wpc[w] = "cont" /\ Slot(w) # NoEntry
  /\ Goto(w, "exit")
  /\ UNCHANGED <<activeTurns, steering, pendingStops, workerSem, loop,
                 turnVars, hardAbort, fate, ghosts, ctxDone>>

ContinueDequeue(w) ==
  LET s == SessionOf[w]
  IN  /\ wpc[w] = "contDeq" /\ steering[s] # << >>
      /\ batch' = [batch EXCEPT ![w] = Dequeued(s)]
      /\ Settle(Dequeued(s), "batch")
      /\ steering' = [steering EXCEPT ![s] = Remaining(s)]
      /\ isCont' = [isCont EXCEPT ![w] = TRUE]
      /\ Goto(w, "register")
      /\ UNCHANGED <<activeTurns, pendingStops, workerSem, loop, onReturn,
                     hardAbort, seen, ghosts, ctxDone>>

(* The queue is empty after all: the placeholder is deleted. *)
ContinueEmpty(w) ==
  /\ wpc[w] = "contDeq" /\ steering[SessionOf[w]] = << >>
  /\ SetSlot(SessionOf[w], NoEntry)
  /\ Goto(w, "exit")
  /\ UNCHANGED <<steering, pendingStops, workerSem, loop, turnVars,
                 hardAbort, fate, ghosts, ctxDone>>

(* Hooks or MCP fail to initialise, or (once it has dequeued) Continue     *)
(* finds no agent: the placeholder is deleted, and what was dequeued lost. *)
ContinueFails(w) ==
  LET s == SessionOf[w]
  IN  /\ wpc[w] = "contDeq" /\ ReloadFaults
      /\ SetSlot(s, NoEntry)
      /\ \/ UNCHANGED <<steering, fate>>
         \/ /\ steering[s] # << >>
            /\ Settle(Dequeued(s), "settled")
            /\ steering' = [steering EXCEPT ![s] = Remaining(s)]
      /\ Goto(w, "exit")
      /\ UNCHANGED <<pendingStops, workerSem, loop, turnVars, hardAbort, ghosts,
                     ctxDone>>

-----------------------------------------------------------------------------
(***************************************************************************)
(* The worker's deferred functions: release the token, then the entry.     *)
(***************************************************************************)
(* Mutation: the token is not given back by a worker that panicked. *)
ReleaseUnlessPanic(w) ==
  /\ wpc[w] \in {"exit", "panic"}
  /\ workerSem' = IF wpc[w] = "exit" THEN workerSem - 1 ELSE workerSem
  /\ Goto(w, IF wpc[w] = "exit" THEN "cleanup" ELSE "panicCleanup")
  /\ UNCHANGED <<activeTurns, steering, pendingStops, loop, turnVars,
                 hardAbort, fate, ghosts, ctxDone>>

ReleaseToken(w) ==
  /\ wpc[w] \in {"exit", "panic"}
  /\ workerSem' = workerSem - 1
  /\ Goto(w, IF wpc[w] = "exit" THEN "cleanup" ELSE "panicCleanup")
  /\ UNCHANGED <<activeTurns, steering, pendingStops, loop, turnVars,
                 hardAbort, fate, ghosts, ctxDone>>

(* A panic outside runTurn: in processMessage or in Continue. *)
ProcessPanics(w) ==
  /\ MayPanic /\ wpc[w] \in {"process", "register", "contDeq"}
  /\ Settle(IF wpc[w] = "process" THEN {w} ELSE batch[w], "settled")
  /\ batch' = [batch EXCEPT ![w] = {}]
  /\ isCont' = [isCont EXCEPT ![w] = FALSE]
  /\ wedged' = IF wpc[w] = "contDeq" \/ isCont[w] THEN wedged \cup {w}
               ELSE wedged
  /\ Goto(w, "panic")
  /\ UNCHANGED <<activeTurns, steering, pendingStops, workerSem, loop,
                 onReturn, hardAbort, seen, reach, overreached, stolen, ctxDone>>

(* Mutation: the safety net looks for the worker's own first placeholder.  *)
CleanupLoadsOwn(w) ==
  /\ wpc[w] = "cleanup"
  /\ Goto(w, IF Slot(w) = Entry("claim", w) THEN "cleanupChk" ELSE "done")
  /\ seen' = [seen EXCEPT ![w] = IF Slot(w) = Entry("claim", w) THEN Slot(w)
                                 ELSE NoEntry]
  /\ UNCHANGED <<activeTurns, steering, pendingStops, workerSem, loop,
                 isCont, onReturn, batch, hardAbort, fate, ghosts, ctxDone>>

(* After a normal return the safety net looks for any placeholder, ...     *)
CleanupLoad(w) ==
  /\ wpc[w] = "cleanup"
  /\ IF IsPending(Slot(w))
     THEN Goto(w, "cleanupChk") /\ seen' = [seen EXCEPT ![w] = Slot(w)]
     ELSE Goto(w, "done") /\ UNCHANGED seen
  /\ UNCHANGED <<activeTurns, steering, pendingStops, workerSem, loop,
                 isCont, onReturn, batch, hardAbort, fate, ghosts, ctxDone>>

(* ... and releaseSessionTurnState removes it if it is still there.        *)
CleanupCheck(w) ==
  /\ wpc[w] = "cleanupChk"
  /\ Goto(w, IF Slot(w) = seen[w] THEN "cleanupDel" ELSE "done")
  /\ seen' = [seen EXCEPT ![w] = NoEntry]
  /\ UNCHANGED <<activeTurns, steering, pendingStops, workerSem, loop,
                 isCont, onReturn, batch, hardAbort, fate, ghosts, ctxDone>>

(* After a panic only the worker's own claim is removed. *)
PanicCleanupLoad(w) ==
  /\ wpc[w] = "panicCleanup"
  /\ Goto(w, IF Slot(w) = Entry("claim", w) THEN "cleanupDel" ELSE "done")
  /\ UNCHANGED <<activeTurns, steering, pendingStops, workerSem, loop,
                 turnVars, hardAbort, fate, ghosts, ctxDone>>

CleanupDelete(w) ==
  LET s == SessionOf[w]
  IN  /\ wpc[w] = "cleanupDel"
      /\ SetSlot(s, NoEntry)
      /\ stolen' = IF Slot(w).owner \in {w, None} THEN stolen
                   ELSE stolen \cup {s}
      /\ Goto(w, "done")
      /\ UNCHANGED <<steering, pendingStops, workerSem, loop, turnVars,
                     hardAbort, fate, reach, overreached, wedged,
                     ctxDone>>

-----------------------------------------------------------------------------
TurnNext(w) ==
  \/ RegisterFails(w)
  \/ Register(w)
  \/ TakeStop(w)
  \/ InitialPoll(w)
  \/ ToolPoll(w)
  \/ TurnAborts(w)
  \/ TurnFails(w)
  \/ LastAbortCheck(w)
  \/ TurnAnswers(w)
  \/ TurnPanics(w)
  \/ ClearCheck(w)
  \/ ClearDelete(w)

WorkerNext(w) ==
  \/ AcquireSlot(w)
  \/ AbandonClaim(w)
  \/ GateStop(w)
  \/ GatePass(w)
  \/ Unclaim(w)
  \/ ProcessWithoutTurn(w)
  \/ ProcessStop(w)
  \/ ProcessStopAbort(w)
  \/ ProcessTurn(w)
  \/ TurnNext(w)
  \/ DrainMore(w)
  \/ DrainEnds(w)
  \/ ContinueClaim(w)
  \/ ContinueBusy(w)
  \/ ContinueDequeue(w)
  \/ ContinueEmpty(w)
  \/ ContinueFails(w)
  \/ ReleaseToken(w)
  \/ ProcessPanics(w)
  \/ CleanupLoad(w)
  \/ CleanupCheck(w)
  \/ PanicCleanupLoad(w)
  \/ CleanupDelete(w)

(* Nothing is left to do: every message was received and every worker has  *)
(* returned.                                                               *)
Idle ==
  /\ loopPC = "recv"
  /\ \A m \in Msgs : (fate[m] # "inbox" \/ ctxDone) /\ wpc[m] \in {"none", "done"}
  /\ UNCHANGED vars

Next ==
  \/ LoopNext
  \/ Shutdown
  \/ \E w \in Msgs : WorkerNext(w)
  \/ Idle

(***************************************************************************)
(* The goroutines run: the receive loop and every worker take their next   *)
(* step.  A model call ends (its context has a deadline or the provider    *)
(* answers), which WF of the worker's steps stands for.                    *)
(***************************************************************************)
Fairness ==
  /\ WF_vars(LoopNext)
  /\ \A w \in Msgs : WF_vars(WorkerNext(w))

Spec == Init /\ [][Next]_vars /\ Fairness
-----------------------------------------------------------------------------
(***************************************************************************)
(* Properties.                                                             *)
(***************************************************************************)

(* Two turns of one session never overlap, unless a worker's exit cleanup  *)
(* has deleted another worker's entry of that session: LoadOrStore, the    *)
(* identity check of clearActiveTurn, Continue and the pending-stop path   *)
(* keep a session's turns apart, and the prefix check of the cleanup       *)
(* (agent.go:341) is the only step that gives the guarantee up.            *)
OneTurnUnlessStolen ==
  \A v, w \in Msgs :
    /\ SessionOf[v] = SessionOf[w] /\ SessionOf[v] \notin stolen
    /\ wpc[v] \in TurnPCs /\ wpc[w] \in TurnPCs
    => v = w

(* The comment at agent.go:275 and the test at agent_test.go:7538: the     *)
(* messages of one session never become separate concurrent turns.         *)
OneTurnPerSession ==
  \A v, w \in Msgs :
    /\ SessionOf[v] = SessionOf[w]
    /\ wpc[v] \in TurnPCs /\ wpc[w] \in TurnPCs
    => v = w

(* The workerSem channel holds one token for each worker between its send  *)
(* and its receive, on every path out of the goroutine (return, pending    *)
(* stop, panic), and never more than its capacity.                         *)
TokensMatchWorkers ==
  /\ workerSem = Cardinality({w \in Msgs : wpc[w] \in TokenPCs})
  /\ workerSem <= MaxWorkers

(* Session-level deadlock (agent.go:320): an entry left in activeTurns by  *)
(* a worker that is gone would queue every later message of the session    *)
(* and run none of them.  Only a panic inside Continue leaves one: the     *)
(* recovery removes the worker's first placeholder and no other.           *)
EntryHasLiveOwner ==
  \A s \in Sessions :
    LET e == activeTurns[s]
    IN  e # NoEntry => \/ wpc[e.owner] \notin {"none", "done"}
                       \/ e.kind = "cont" /\ e.owner \in wedged

(* A received message is always in exactly one place: with the receive     *)
(* loop, with the worker that claimed the session, in its session's queue  *)
(* once, or in the batch of one running turn; none is lost or answered     *)
(* twice on the way between them (enqueueSteeringMessage, the dequeues,    *)
(* Continue, /stop).                                                       *)
EveryMessageAccounted ==
  /\ \A m \in Msgs :
       /\ (fate[m] = "held") => (loopMsg = m)
       /\ (fate[m] = "claimed") =>
            wpc[m] \in {"sem", "gate", "process", "procAbort"}
       /\ (fate[m] = "queued") =>
            \E i \in 1..Len(steering[SessionOf[m]]) :
              steering[SessionOf[m]][i] = m
       /\ (fate[m] = "batch") =>
            \E w \in Msgs : m \in batch[w] /\ wpc[w] \in TurnPCs \cup {"register"}
  /\ \A s \in Sessions : \A i \in 1..Len(steering[s]) :
       /\ fate[steering[s][i]] = "queued" /\ SessionOf[steering[s][i]] = s
       /\ \A j \in 1..Len(steering[s]) : steering[s][i] = steering[s][j] => i = j
  /\ \A v, w \in Msgs : v # w => batch[v] \cap batch[w] = {}

(* A /stop reaches back, never forward: a message that falls to a pending  *)
(* stop was received before that /stop.  agent_stop.go:26 arms the stop    *)
(* for a worker which hasn't started yet.                                  *)
StopReachesBack == overreached = {}

(* Every worker gets its token and returns: tokens are given back on every *)
(* path, no step waits for another worker, and once the messages are used  *)
(* up no goroutine is left.                                                *)
WorkersReturn == <>[](\A w \in Msgs : wpc[w] \in {"none", "done"})

(* agent.go:387 and pipeline_llm.go:646: a worker drains its steering      *)
(* queue, so a message that is queued while the worker still has its own   *)
(* message to process is not left behind.                                  *)
QueuedBehindWorkerDrains ==
  \A m \in Msgs :
    (/\ fate[m] = "queued"
     /\ \E w \in Msgs : SessionOf[w] = SessionOf[m] /\ wpc[w] = "process")
      ~> (fate[m] # "queued" \/ ctxDone)
=============================================================================
