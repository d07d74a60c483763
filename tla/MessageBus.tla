----------------------------- MODULE MessageBus -----------------------------
(***************************************************************************)
(* The message bus between the channels and the agent loop: publish calls  *)
(* on bounded Go channels, one receiver per stream, and Close, which must  *)
(* close the channels while publishers may be blocked on them.  A send on  *)
(* a closed channel panics, so Close first turns new publishers away,      *)
(* wakes the blocked ones and waits for all of them.                       *)
(*                                                                         *)
(* A publish call is named by its message.  The branch of publish with a   *)
(* timeout is left out: no exported Publish method sets one.               *)
(***************************************************************************)
EXTENDS Naturals, Sequences, FiniteSets

CONSTANTS
  Streams,   \* the inbound, outbound and media channels
  Msgs,      \* the publish calls of a behaviour
  StreamOf,  \* the stream a message is published on
  Capacity,  \* of a channel (defaultBusBufferSize)
  Closers,   \* callers of Close
  None

ASSUME BusAssumption ==
  /\ IsFiniteSet(Msgs)
  /\ StreamOf \in [Msgs -> Streams]
  /\ Capacity \in Nat \ {0}
  /\ None \notin Closers

VARIABLES
  ppc,         \* per publish call, where it is
  queue,       \* per stream, the messages buffered in its channel
  got,         \* per stream, what its receiver has received
  drained,     \* the messages that Close has thrown away
  receiving,   \* the streams whose receiver still receives
  wg,          \* the wait group's counter
  closed,      \* the closed flag is set and the done channel is closed
  chanClosed,  \* the streams whose channel is closed
  once,        \* the caller that runs the body of closeOnce
  cpc          \* per caller of Close, where it is

vars == <<ppc, queue, got, drained, receiving, wg, closed, chanClosed, once, cpc>>

(* "sent" and "failed" have left the select and owe the wait group a Done. *)
PublishPCs == {"new", "sending", "sent", "failed", "ok", "error"}
InFlight   == {"sending", "sent", "failed"}
Accepted   == {"sent", "ok"}
ClosePCs   == {"idle", "begin", "wait", "close", "drain", "blocked", "done"}

TypeOK ==
  /\ ppc \in [Msgs -> PublishPCs]
  /\ queue \in [Streams -> Seq(Msgs)]
  /\ got \in [Streams -> Seq(Msgs)]
  /\ drained \subseteq Msgs
  /\ receiving \subseteq Streams
  /\ wg \in Nat
  /\ closed \in BOOLEAN
  /\ chanClosed \subseteq Streams
  /\ once \in Closers \cup {None}
  /\ cpc \in [Closers -> ClosePCs]

Init ==
  /\ ppc = [m \in Msgs |-> "new"]
  /\ queue = [s \in Streams |-> << >>]
  /\ got = [s \in Streams |-> << >>]
  /\ drained = {}
  /\ receiving = Streams
  /\ wg = 0
  /\ closed = FALSE
  /\ chanClosed = {}
  /\ once = None
  /\ cpc = [c \in Closers |-> "idle"]

PAt(m, pc) == ppc' = [ppc EXCEPT ![m] = pc]
CAt(c, pc) == cpc' = [cpc EXCEPT ![c] = pc]

-----------------------------------------------------------------------------
(***************************************************************************)
(* Publishers.                                                             *)
(***************************************************************************)

(* Mutation: the closed flag is not looked at under the lock. *)
EnterUnchecked(m) ==
  /\ ppc[m] = "new"
  /\ wg' = wg + 1
  /\ PAt(m, "sending")
  /\ UNCHANGED <<queue, got, drained, receiving, closed, chanClosed, once, cpc>>

(* enterPublish, one critical section of publishMu. *)
EnterPublish(m) ==
  /\ ppc[m] = "new" /\ ~closed
  /\ wg' = wg + 1
  /\ PAt(m, "sending")
  /\ UNCHANGED <<queue, got, drained, receiving, closed, chanClosed, once, cpc>>

(* Mutation: the deferred wg.Done comes before the check. *)
RefuseDone(m) ==
  /\ ppc[m] = "new"
  /\ wg' = wg - 1
  /\ PAt(m, "error")
  /\ UNCHANGED <<queue, got, drained, receiving, closed, chanClosed, once, cpc>>

(* The bus is closed, the call's context is over, or the message has no    *)
(* context to be routed by.                                                *)
RefusePublish(m) ==
  /\ ppc[m] = "new"
  /\ PAt(m, "error")
  /\ UNCHANGED <<queue, got, drained, receiving, wg, closed, chanClosed, once, cpc>>

(* Mutation: the context is looked at once more after the send. *)
SendThenCheck(m) ==
  LET s == StreamOf[m]
  IN  /\ ppc[m] = "sending" /\ Len(queue[s]) < Capacity
      /\ queue' = [queue EXCEPT ![s] = Append(@, m)]
      /\ \E pc \in {"sent", "failed"} : PAt(m, pc)
      /\ UNCHANGED <<got, drained, receiving, wg, closed, chanClosed, once, cpc>>

(* The select of publish: any case that is ready may be taken, also the    *)
(* send when the bus is closing.                                           *)
Send(m) ==
  LET s == StreamOf[m]
  IN  /\ ppc[m] = "sending" /\ Len(queue[s]) < Capacity
      /\ queue' = [queue EXCEPT ![s] = Append(@, m)]
      /\ PAt(m, "sent")
      /\ UNCHANGED <<got, drained, receiving, wg, closed, chanClosed, once, cpc>>

(* The call's context ends. *)
SendCancelled(m) ==
  /\ ppc[m] = "sending"
  /\ PAt(m, "failed")
  /\ UNCHANGED <<queue, got, drained, receiving, wg, closed, chanClosed, once, cpc>>

(* Mutation: a blocked publisher does not watch the done channel. *)
SendNeverClosed(m) == FALSE /\ UNCHANGED vars

SendClosed(m) ==
  /\ closed
  /\ SendCancelled(m)

(* The deferred wg.Done. *)
LeavePublish(m) ==
  /\ ppc[m] \in {"sent", "failed"}
  /\ wg' = wg - 1
  /\ PAt(m, IF ppc[m] = "sent" THEN "ok" ELSE "error")
  /\ UNCHANGED <<queue, got, drained, receiving, closed, chanClosed, once, cpc>>

-----------------------------------------------------------------------------
(***************************************************************************)
(* Receivers: AgentLoop.Run and the two dispatchers of the channel manager.*)
(***************************************************************************)
Receive(s) ==
  /\ s \in receiving /\ queue[s] # << >>
  /\ got' = [got EXCEPT ![s] = Append(@, Head(queue[s]))]
  /\ queue' = [queue EXCEPT ![s] = Tail(@)]
  /\ UNCHANGED <<ppc, drained, receiving, wg, closed, chanClosed, once, cpc>>

(* Its context ends, or it finds the channel closed and empty. *)
ReceiverStops(s) ==
  /\ s \in receiving
  /\ receiving' = receiving \ {s}
  /\ UNCHANGED <<ppc, queue, got, drained, wg, closed, chanClosed, once, cpc>>

-----------------------------------------------------------------------------
(***************************************************************************)
(* Close.                                                                  *)
(***************************************************************************)

(* closeOnce.Do: a second caller waits until the first has finished. *)
CallClose(c) ==
  /\ cpc[c] = "idle"
  /\ IF once = None
     THEN once' = c /\ CAt(c, "begin")
     ELSE CAt(c, "blocked") /\ UNCHANGED once
  /\ UNCHANGED <<ppc, queue, got, drained, receiving, wg, closed, chanClosed>>

MarkClosed(c) ==
  /\ cpc[c] = "begin"
  /\ closed' = TRUE
  /\ CAt(c, "wait")
  /\ UNCHANGED <<ppc, queue, got, drained, receiving, wg, chanClosed, once>>

(* Mutation: no wg.Wait. *)
WaitNot(c) ==
  /\ cpc[c] = "wait"
  /\ CAt(c, "close")
  /\ UNCHANGED <<ppc, queue, got, drained, receiving, wg, closed, chanClosed, once>>

WaitPublishers(c) ==
  /\ cpc[c] = "wait" /\ wg = 0
  /\ CAt(c, "close")
  /\ UNCHANGED <<ppc, queue, got, drained, receiving, wg, closed, chanClosed, once>>

CloseChan(c, s) ==
  /\ cpc[c] = "close" /\ s \notin chanClosed
  /\ chanClosed' = chanClosed \cup {s}
  /\ CAt(c, IF chanClosed' = Streams THEN "drain" ELSE "close")
  /\ UNCHANGED <<ppc, queue, got, drained, receiving, wg, closed, once>>

(* The range loops over the closed channels, while the receivers may still *)
(* receive from them.                                                      *)
Drain(c, s) ==
  /\ cpc[c] = "drain" /\ queue[s] # << >>
  /\ drained' = drained \cup {Head(queue[s])}
  /\ queue' = [queue EXCEPT ![s] = Tail(@)]
  /\ UNCHANGED <<ppc, got, receiving, wg, closed, chanClosed, once, cpc>>

CloseReturns(c) ==
  /\ \/ cpc[c] = "drain" /\ \A s \in Streams : queue[s] = << >>
     \/ cpc[c] = "blocked" /\ cpc[once] = "done"
  /\ CAt(c, "done")
  /\ UNCHANGED <<ppc, queue, got, drained, receiving, wg, closed, chanClosed, once>>

PublishNext(m) ==
  \/ EnterPublish(m)
  \/ RefusePublish(m)
  \/ Send(m)
  \/ SendCancelled(m)
  \/ SendClosed(m)
  \/ LeavePublish(m)

CloseNext(c) ==
  \/ MarkClosed(c)
  \/ WaitPublishers(c)
  \/ \E s \in Streams : CloseChan(c, s) \/ Drain(c, s)
  \/ CloseReturns(c)

Next ==
  \/ \E m \in Msgs : PublishNext(m)
  \/ \E s \in Streams : Receive(s) \/ ReceiverStops(s)
  \/ \E c \in Closers : CallClose(c) \/ CloseNext(c)

(***************************************************************************)
(* A publisher runs except where it is blocked: in the select, which wakes *)
(* it when done is closed.  Close runs.  Receivers owe nothing: they may   *)
(* stop at any time.                                                       *)
(***************************************************************************)
Fairness ==
  /\ \A m \in Msgs : WF_vars(SendClosed(m)) /\ WF_vars(LeavePublish(m))
  /\ \A c \in Closers : WF_vars(CloseNext(c))

Spec == Init /\ [][Next]_vars /\ Fairness

-----------------------------------------------------------------------------
(***************************************************************************)
(* Properties.                                                             *)
(***************************************************************************)

(* Nobody is in the select of publish when its channel is closed: a send   *)
(* on a closed channel would panic, and with it the process.               *)
NoSendOnClosed ==
  \A m \in Msgs : ppc[m] = "sending" => StreamOf[m] \notin chanClosed

Elems(q) == {q[i] : i \in 1..Len(q)}

(* A message whose publish succeeded is buffered, received or drained, in  *)
(* one place and once; one whose publish failed is nowhere, so a caller    *)
(* that tries again does not deliver it twice.                             *)
AcceptedOnce ==
  /\ \A m \in Msgs :
       LET s == StreamOf[m]
       IN  ppc[m] \in Accepted <=> m \in Elems(got[s]) \cup Elems(queue[s]) \cup drained
  /\ \A s \in Streams :
       LET trail == got[s] \o queue[s]
       IN  /\ \A i, j \in 1..Len(trail) : trail[i] = trail[j] => i = j
           /\ Elems(trail) \cap drained = {}

(* When any call of Close has returned no publish call is under way and no *)
(* message is left in a channel (bus.go:351).                              *)
ClosedMeansEmpty ==
  \A c \in Closers : cpc[c] = "done" =>
    /\ \A m \in Msgs : ppc[m] \notin InFlight
    /\ \A s \in Streams : queue[s] = << >>

(* Close returns, although publishers may be blocked on full channels that *)
(* nobody receives from any more.                                          *)
CloseTerminates ==
  \A c \in Closers : (cpc[c] # "idle") ~> (cpc[c] = "done")

(* The streams are bounded FIFO mailboxes. *)
Mail == INSTANCE Mailbox WITH
  posted <- {m \in Msgs : ppc[m] \in Accepted},
  box <- queue,
  shut <- chanClosed

MailSpec == Mail!Spec
=============================================================================
