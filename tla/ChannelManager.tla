--------------------------- MODULE ChannelManager ---------------------------
(***************************************************************************)
(* The chat channels of the gateway and what carries replies to them.  A   *)
(* dispatcher takes replies from the bus, looks up the channel's worker    *)
(* under the manager's lock and puts the reply into the worker's queue     *)
(* without it; the worker sends one reply after the other.  A reload       *)
(* stops and starts channels while the lock is held, and leaves the        *)
(* changes of the tables to a goroutine that takes the lock once per       *)
(* change and, under it, waits for the worker it removes.                  *)
(*                                                                         *)
(* Media replies go through a dispatcher, queues and workers of their own  *)
(* in the same way and are left out, as are placeholders, typing signs and *)
(* the marks of streamed answers, and SendMessage and SendMedia, which use *)
(* no queue.  Every enabled channel can be built: a Reload that gives up   *)
(* after it has stopped channels, because one cannot, is left out.         *)
(***************************************************************************)
EXTENDS Naturals, Sequences, FiniteSets

CONSTANTS
  Names,      \* the channels the configuration may enable
  Last,       \* the replies are 1 .. Last, in the order they leave the bus
  Dest,       \* the channel of each
  QueueCap,   \* defaultChannelQueueSize
  MaxReloads, \* bound on the reloads of a behaviour
  MaxBuilt,   \* bound on the channel objects built in a behaviour
  None

ASSUME ChannelAssumption ==
  /\ Last \in Nat /\ MaxReloads \in Nat
  /\ Dest \in [1 .. Last -> Names]
  /\ {QueueCap, MaxBuilt} \subseteq Nat \ {0}
  /\ None \notin Nat \cup Names

(* The n-th object built for a channel, and the worker made for it. *)
Instances == Names \X (1 .. MaxBuilt)
Contexts  == 0 .. MaxReloads  \* StartAll's, then one of each Reload
Replies   == 1 .. Last

ASSUME NoneAssumption == None \notin Instances \cup ((1 .. MaxReloads) \X Names)

VARIABLES
  phase,     \* of the manager
  on,        \* the channels in channelHashes
  made,      \* per name, the objects built so far
  channels,
  workers,
  started,   \* the objects that were started and not stopped
  wpc,       \* per worker, the point its goroutine has reached
  cur,       \* per worker, the reply in its hands
  queue,
  shut,      \* the workers whose queue is closed
  ctx,       \* per worker, its dispatch context
  canceled,
  reloads,
  tidy,      \* per reload, what its goroutine has yet to do
  holder,    \* the removal that holds the lock while waiting for a worker
  next,      \* the next reply to leave the bus
  dpc,       \* the dispatcher
  dworker,   \* the worker it has looked up
  sent,
  crashed,   \* a goroutine panicked and took the process with it
  (* History. *)
  disturbed  \* the channels that a reload changed, or met while an earlier
             \* reload's goroutine had still to deal with them

tables   == <<on, made, channels, workers, ctx, reloads, disturbed>>
delivery == <<wpc, cur, queue, sent>>
vars == <<phase, tables, started, delivery, shut, canceled, tidy, holder, next, dpc,
          dworker, crashed>>

TypeOK ==
  /\ phase \in {"new", "up", "stopping", "stopped", "failed"}
  /\ on \subseteq Names
  /\ made \in [Names -> 0 .. MaxBuilt]
  /\ channels \in [Names -> Instances \cup {None}]
  /\ workers \in [Names -> Instances \cup {None}]
  /\ started \subseteq Instances
  /\ wpc \in [Instances -> {"none", "idle", "wait", "send", "ended"}]
  /\ cur \in [Instances -> Replies \cup {None}]
  /\ queue \in [Instances -> Seq(Replies)]
  /\ shut \subseteq Instances
  /\ ctx \in [Instances -> Contexts]
  /\ canceled \subseteq Contexts
  /\ reloads \in 0 .. MaxReloads
  /\ tidy \in [1 .. MaxReloads -> [remove : SUBSET Names, put : SUBSET Instances]]
  /\ holder \in {None} \cup ((1 .. MaxReloads) \X Names)
  /\ next \in 1 .. Last + 1
  /\ dpc \in {"off", "recv", "send", "ended"}
  /\ dworker \in Instances \cup {None}
  /\ sent \in Seq(Replies)
  /\ crashed \in BOOLEAN
  /\ disturbed \subseteq Names

Nothing == [remove |-> {}, put |-> {}]

(* NewManager builds the enabled channels. *)
Init ==
  /\ phase = "new"
  /\ on \in SUBSET Names /\ Cardinality(on) <= MaxBuilt
  /\ made = [n \in Names |-> IF n \in on THEN 1 ELSE 0]
  /\ channels = [n \in Names |-> IF n \in on THEN <<n, 1>> ELSE None]
  /\ workers = [n \in Names |-> None]
  /\ started = {} /\ shut = {} /\ canceled = {} /\ disturbed = {}
  /\ wpc = [i \in Instances |-> "none"]
  /\ cur = [i \in Instances |-> None]
  /\ queue = [i \in Instances |-> << >>]
  /\ ctx = [i \in Instances |-> 0]
  /\ reloads = 0
  /\ tidy = [r \in 1 .. MaxReloads |-> Nothing]
  /\ holder = None
  /\ next = 1 /\ dpc = "off" /\ dworker = None
  /\ sent = << >>
  /\ crashed = FALSE

(* StopAll holds it while it waits. *)
Free == holder = None /\ phase # "stopping" /\ ~crashed

-----------------------------------------------------------------------------
(***************************************************************************)
(* StartAll, StopAll.                                                      *)
(***************************************************************************)

(* up: the channels that can be started.  When none of several can, the    *)
(* manager gives up and the gateway ends.                                  *)
StartAll(up) ==
  /\ phase = "new" /\ Free
  /\ up \subseteq on
  /\ IF on # {} /\ up = {}
     THEN /\ phase' = "failed" /\ canceled' = {0}
          /\ UNCHANGED dpc
     ELSE /\ phase' = "up" /\ dpc' = "recv"
          /\ UNCHANGED canceled
  /\ started' = {channels[n] : n \in up}
  /\ workers' = [n \in Names |-> IF n \in up THEN channels[n] ELSE None]
  /\ wpc' = [i \in Instances |-> IF i \in started' THEN "idle" ELSE "none"]
  /\ UNCHANGED <<on, made, channels, ctx, reloads, disturbed, cur, queue, sent, shut,
                 tidy, holder, next, dworker, crashed>>

Working == {workers[n] : n \in Names} \ {None}

(* Mutation: only the context of the latest start is canceled. *)
StopAllLatest ==
  /\ phase = "up" /\ Free
  /\ phase' = "stopping"
  /\ canceled' = canceled \cup {reloads}
  /\ crashed' = (Working \cap shut # {})
  /\ shut' = shut \cup Working
  /\ UNCHANGED <<tables, started, delivery, tidy, holder, next, dpc, dworker>>

(* StopAll, on the way out of the process: the contexts are canceled, the  *)
(* queues closed (closing one twice panics) ...                            *)
StopAll ==
  /\ phase = "up" /\ Free
  /\ phase' = "stopping"
  /\ canceled' = 0 .. reloads
  /\ crashed' = (Working \cap shut # {})
  /\ shut' = shut \cup Working
  /\ UNCHANGED <<tables, started, delivery, tidy, holder, next, dpc, dworker>>

(* ... and, once the workers have ended, the channels stopped. *)
AllStopped ==
  /\ phase = "stopping" /\ ~crashed
  /\ \A i \in Working : wpc[i] = "ended"
  /\ phase' = "stopped"
  /\ started' = started \ {channels[n] : n \in Names}
  /\ UNCHANGED <<tables, delivery, shut, canceled, tidy, holder, next, dpc, dworker, crashed>>

-----------------------------------------------------------------------------
(***************************************************************************)
(* Reload and the goroutine it leaves behind.                              *)
(***************************************************************************)
Pending(n) ==
  \E r \in 1 .. MaxReloads : n \in tidy[r].remove \/ \E i \in tidy[r].put : i[1] = n

Built(n) == <<n, made[n] + 1>>
Existing == {i \in Instances : i[2] <= made[i[1]]}

(* Mutation: the contexts of earlier starts are canceled. *)
ReloadCancels == canceled' = 0 .. reloads

(* Earlier contexts stay alive.                                            *)
KeepContexts == UNCHANGED canceled

(* compareChannels: a channel whose settings differ is removed and added.  *)
Removed(target, changed) == (on \ target) \cup changed
Added(target, changed)   == (target \ on) \cup changed

(* target: the channels of the new configuration; changed: those whose     *)
(* settings differ; up: those that can be started.  A channel that is not  *)
(* in the table any more is stopped through a nil pointer.                 *)
Reload(target, changed, up) ==
  LET removed == Removed(target, changed)
      added   == Added(target, changed)
      fresh   == {Built(n) : n \in up}
  IN  /\ phase = "up" /\ Free /\ reloads < MaxReloads
      /\ changed \subseteq on \cap target /\ up \subseteq added
      /\ Cardinality(Existing) + Cardinality(added) <= MaxBuilt
      /\ \A n \in added : Built(n) \in Instances
      /\ reloads' = reloads + 1
      /\ disturbed' = disturbed \cup changed \cup {n \in removed \cup added : Pending(n)}
      /\ crashed' = (\E n \in removed : channels[n] = None)
      /\ on' = target
      /\ made' = [n \in Names |-> IF n \in added THEN made[n] + 1 ELSE made[n]]
      /\ channels' = [n \in Names |-> IF n \in added THEN Built(n) ELSE channels[n]]
      /\ workers' = [n \in Names |-> IF n \in up THEN Built(n) ELSE workers[n]]
      /\ started' = (started \ {channels[n] : n \in removed}) \cup fresh
      /\ wpc' = [i \in Instances |-> IF i \in fresh THEN "idle" ELSE wpc[i]]
      /\ ctx' = [i \in Instances |-> IF i \in fresh THEN reloads + 1 ELSE ctx[i]]
      /\ tidy' = [tidy EXCEPT ![reloads + 1] = [remove |-> removed, put |-> fresh]]
      /\ KeepContexts
      /\ UNCHANGED <<phase, cur, queue, sent, shut, holder, next, dpc, dworker>>

Frame == UNCHANGED <<phase, on, made, ctx, reloads, disturbed, started, delivery,
                     canceled, next, dpc, dworker, crashed>>

(* UnregisterChannel: the worker's queue is closed, and the lock held      *)
(* until it has sent what is in it.  A queue that is closed already makes  *)
(* the goroutine of the reload panic, which ends it.                       *)
Unregister(r, n) ==
  /\ Free /\ n \in tidy[r].remove
  /\ IF workers[n] = None
     THEN /\ channels' = [channels EXCEPT ![n] = None]
          /\ tidy' = [tidy EXCEPT ![r].remove = @ \ {n}]
          /\ UNCHANGED <<shut, holder>>
     ELSE IF workers[n] \in shut
     THEN /\ tidy' = [tidy EXCEPT ![r] = Nothing]
          /\ UNCHANGED <<channels, shut, holder>>
     ELSE /\ shut' = shut \cup {workers[n]}
          /\ holder' = <<r, n>>
          /\ UNCHANGED <<channels, tidy>>
  /\ Frame /\ UNCHANGED workers

Unregistered(r, n) ==
  /\ holder = <<r, n>> /\ ~crashed
  /\ wpc[workers[n]] = "ended"
  /\ holder' = None
  /\ channels' = [channels EXCEPT ![n] = None]
  /\ workers' = [workers EXCEPT ![n] = None]
  /\ tidy' = [tidy EXCEPT ![r].remove = @ \ {n}]
  /\ Frame /\ UNCHANGED shut

(* RegisterChannel, after all removals. *)
Register(r, i) ==
  /\ Free /\ tidy[r].remove = {} /\ i \in tidy[r].put
  /\ channels' = [channels EXCEPT ![i[1]] = i]
  /\ tidy' = [tidy EXCEPT ![r].put = @ \ {i}]
  /\ Frame /\ UNCHANGED <<workers, shut, holder>>

-----------------------------------------------------------------------------
(***************************************************************************)
(* dispatchLoop.                                                           *)
(***************************************************************************)
DispatcherOnly ==
  /\ ~crashed
  /\ UNCHANGED <<phase, tables, started, wpc, cur, sent, shut, canceled, tidy, holder>>

(* A reply is taken and its worker looked up; without one, or without the  *)
(* channel, the reply is dropped.  A reply that waits for the lock is one  *)
(* that has not been taken yet.                                            *)
Receive ==
  LET n == Dest[next]
  IN  /\ dpc = "recv" /\ next <= Last /\ Free
      /\ next' = next + 1
      /\ IF channels[n] # None /\ workers[n] # None
         THEN dpc' = "send" /\ dworker' = workers[n]
         ELSE UNCHANGED <<dpc, dworker>>
      /\ DispatcherOnly /\ UNCHANGED <<queue, crashed>>

(* Mutation: the counter of the replies has moved on. *)
EnqueueNext ==
  /\ dpc = "send" /\ dworker \notin shut /\ Len(queue[dworker]) < QueueCap
  /\ queue' = [queue EXCEPT ![dworker] = Append(@, next)]
  /\ dpc' = "recv" /\ dworker' = None
  /\ DispatcherOnly /\ UNCHANGED <<next, crashed>>

Enqueue ==
  /\ dpc = "send" /\ dworker \notin shut /\ Len(queue[dworker]) < QueueCap
  /\ queue' = [queue EXCEPT ![dworker] = Append(@, next - 1)]
  /\ dpc' = "recv" /\ dworker' = None
  /\ DispatcherOnly /\ UNCHANGED <<next, crashed>>

(* A send on a closed queue panics, and nothing recovers it. *)
EnqueueClosed ==
  /\ dpc = "send" /\ dworker \in shut
  /\ crashed' = TRUE
  /\ DispatcherOnly /\ UNCHANGED <<queue, next, dpc, dworker>>

DispatcherEnds ==
  /\ dpc \in {"recv", "send"} /\ 0 \in canceled
  /\ dpc' = "ended" /\ dworker' = None
  /\ DispatcherOnly /\ UNCHANGED <<queue, next, crashed>>

-----------------------------------------------------------------------------
(***************************************************************************)
(* runWorker, sendWithRetry.                                               *)
(***************************************************************************)
WorkerOnly ==
  /\ ~crashed
  /\ UNCHANGED <<phase, tables, started, shut, canceled, tidy, holder, next, dpc,
                 dworker, crashed>>

Take(i) ==
  /\ wpc[i] = "idle" /\ queue[i] # << >>
  /\ cur' = [cur EXCEPT ![i] = Head(queue[i])]
  /\ queue' = [queue EXCEPT ![i] = Tail(@)]
  /\ wpc' = [wpc EXCEPT ![i] = "wait"]
  /\ WorkerOnly /\ UNCHANGED sent

(* The queue is closed and empty, or the context is canceled. *)
WorkerEnds(i) ==
  /\ wpc[i] = "idle"
  /\ (i \in shut /\ queue[i] = << >>) \/ ctx[i] \in canceled
  /\ wpc' = [wpc EXCEPT ![i] = "ended"]
  /\ WorkerOnly /\ UNCHANGED <<cur, queue, sent>>

(* The limiter lets it pass, and the channel accepts it. *)
Admit(i) ==
  /\ wpc[i] = "wait" /\ ctx[i] \notin canceled /\ i \in started
  /\ wpc' = [wpc EXCEPT ![i] = "send"]
  /\ WorkerOnly /\ UNCHANGED <<cur, queue, sent>>

Deliver(i) ==
  /\ wpc[i] = "send"
  /\ sent' = Append(sent, cur[i])
  /\ wpc' = [wpc EXCEPT ![i] = "idle"]
  /\ cur' = [cur EXCEPT ![i] = None]
  /\ WorkerOnly /\ UNCHANGED queue

(* Mutation: a reply that could not be sent goes to the end of the queue. *)
Requeue(i) ==
  /\ \/ wpc[i] = "wait" /\ (ctx[i] \in canceled \/ i \notin started)
     \/ wpc[i] = "send"
  /\ queue' = [queue EXCEPT ![i] = Append(@, cur[i])]
  /\ wpc' = [wpc EXCEPT ![i] = "idle"]
  /\ cur' = [cur EXCEPT ![i] = None]
  /\ WorkerOnly /\ UNCHANGED sent

(* The context is canceled, the channel is not running, the failure is     *)
(* permanent or the retries are used up: the reply is lost.                *)
GiveUp(i) ==
  /\ \/ wpc[i] = "wait" /\ (ctx[i] \in canceled \/ i \notin started)
     \/ wpc[i] = "send"
  /\ wpc' = [wpc EXCEPT ![i] = "idle"]
  /\ cur' = [cur EXCEPT ![i] = None]
  /\ WorkerOnly /\ UNCHANGED <<queue, sent>>

-----------------------------------------------------------------------------
Tidy(r) ==
  \/ \E n \in Names : Unregister(r, n) \/ Unregistered(r, n)
  \/ \E i \in Instances : Register(r, i)

Dispatch == Receive \/ Enqueue \/ EnqueueClosed \/ DispatcherEnds

Work(i) == Take(i) \/ WorkerEnds(i) \/ Admit(i) \/ Deliver(i) \/ GiveUp(i)

Next ==
  \/ \E up \in SUBSET Names : StartAll(up)
  \/ \E target, changed, up \in SUBSET Names : Reload(target, changed, up)
  \/ StopAll \/ AllStopped
  \/ \E r \in 1 .. MaxReloads : Tidy(r)
  \/ Dispatch
  \/ \E i \in Instances : Work(i)

(* Goroutines run; a send returns, its retries being limited; nobody has   *)
(* to reload or stop anything, nor to reply.                               *)
Fairness ==
  /\ WF_vars(AllStopped)
  /\ \A r \in 1 .. MaxReloads : WF_vars(Tidy(r))
  /\ WF_vars(Enqueue \/ EnqueueClosed \/ DispatcherEnds)
  /\ \A i \in Instances : WF_vars(Work(i))

Spec == Init /\ [][Next]_vars /\ Fairness

-----------------------------------------------------------------------------
(***************************************************************************)
(* Properties.                                                             *)
(***************************************************************************)

(* While the manager is up, a channel that was started and is enabled has  *)
(* a worker that goes on, on a context that is not canceled: "unchanged    *)
(* channels keep their workers" across reloads (manager.go:93).  The ways  *)
(* to lose it are a reload that changes the channel, and one that meets    *)
(* the channel before the goroutine of an earlier one is through with it.  *)
StartedHaveWorkers ==
  phase = "up" /\ ~crashed =>
    \A n \in on \ disturbed :
      channels[n] \in started =>
        /\ workers[n] = channels[n]
        /\ wpc[workers[n]] # "ended"
        /\ workers[n] \notin shut
        /\ ctx[workers[n]] \notin canceled

(* Replies of one channel arrive in the order in which they left the bus,  *)
(* also across failed sends and reloads of other channels.                 *)
RepliesInOrder ==
  \A j, k \in 1 .. Len(sent) :
    j < k /\ Dest[sent[j]] = Dest[sent[k]] /\ Dest[sent[j]] \notin disturbed =>
      sent[j] < sent[k]

(* Who waits for a worker under the lock gets through: a removal, while    *)
(* every reply of every channel waits, and StopAll, which may meet reloads' *)
(* goroutines on their way.  After it no goroutine of a dispatcher or a    *)
(* worker is left, not even of a worker that a reload replaced.            *)
WaitsEnd ==
  /\ holder # None ~> (holder = None \/ crashed)
  /\ phase = "stopping" ~>
       \/ crashed
       \/ /\ phase = "stopped" /\ dpc = "ended"
          /\ \A i \in Instances : wpc[i] \in {"none", "ended"}

(* "every Reload starts the workers of the channels it added"              *)
(* (manager_test.go:3440): once a reload's goroutine is through, a started *)
(* channel has a worker.  Does not hold: see StartedHaveWorkers.           *)
ReloadedHaveWorkers ==
  phase = "up" /\ ~crashed /\ holder = None /\ (\A n \in Names : ~Pending(n)) =>
    \A n \in on : channels[n] \in started => workers[n] # None

(* "Close all worker queues and wait for them to drain" (manager.go:1372). *)
(* Does not hold: the workers' contexts are canceled before.               *)
StopDrains ==
  phase = "stopped" => \A n \in Names : workers[n] # None => queue[workers[n]] = << >>
=============================================================================
