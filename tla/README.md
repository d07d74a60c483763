# Kuromatsu: a TLA+ verification project

Kuromatsu is a personal AI agent in Go (`src/`, module `github.com/andre25costa-code/kuromatsu`):
chat channels put messages on a bus, an agent loop turns them into *turns*
(model calls and tool calls), and in the background cron jobs, a heartbeat and two kinds of
"dreams" (skill evolution and sleep consolidation) use the same machine and the same model.
This directory models the parts of it in which several goroutines share state.

## 1. Inventory

| Component | State | Operations | Hard behaviours | What makes it correct |
|---|---|---|---|---|
| Turn dispatch and steering (`pkg/agent/agent.go`, `steering.go`, `agent_steering.go`, `agent_stop.go`, `turn_coord.go`, `turn_state.go`) | `activeTurnStates`, `steeringQueue`, `pendingStops`, `workerSem` | receive, claim, enqueue, `/stop`, register, poll, clear, drain, `Continue`, exit cleanup | each access under its own lock or none; panics; shutdown; a full queue | one turn of a session at a time; slots given back; no message lost or answered twice; a stop hits what it was meant for |
| Runtime state engine (`pkg/runstate/engine.go`) | refcount per bit, the cancel function of a dream, subscribers | `Inc`/`Dec`/`TryEnter`, `TryEnterDream`, `Suspend`/`Resume`, `Subscribe` | cancel called after the unlock; slow subscribers; suspension vetoes | counts match holders; inference preempts a dream; nobody enters while suspended |
| Hooks of the engine (`pkg/agent/agent_utils.go`, `runstate_wiring.go`, `dream_gate.go`, `sleep_bridge.go`, `pkg/evolution/cold_path_runner.go`) | which engine is wired, a runner's pending flag, retry timers | enter, wait for the resume, trigger, retry, close | a reload between entry and release; a trigger during a run | releases reach the engine they entered; no trigger is lost |
| Memory and CPU watchdogs (`pkg/runstate/memguard.go`, `throttle.go`, `pkg/gateway/*_wiring.go`) | sustain windows, local flags | poll, reload | hysteresis; flags that do not survive a reload while the engine does | only sustained conditions move a bit; what was set gets cleared |
| Message bus (`pkg/bus/bus.go`) | three bounded channels, `done`, a wait group | publish, receive, close | publishers blocked on a full queue while the bus closes | no send on a closed channel; every accepted message is received or drained; close returns |
| Sub-turns (`pkg/agent/subturn.go`, `turn_state.go`) | a semaphore per parent, a pool of slots per depth, a results channel per sub-turn, the tree of turns | spawn, acquire, register, run, poll, deliver, hard abort | nested waits for slots; parents that end, abort or panic first; results nobody polls | tokens and slots given back once, on every path; no spawn waits for ever; an abort reaches the children |
| Cron (`pkg/cron/service.go`) | the jobs in memory and in `jobs.json`, run times, failure counts | collect due jobs, run, add, update, enable, disable, remove, mark, reload, save | jobs run outside the lock; a command-line process edits the same file; reloads leave an old service running; crashes, failed writes | a command survives the runs around it; an enabled job is scheduled; a one-shot job runs once; a due job is collected |
| Session store (`pkg/memory/jsonl.go`, `pkg/session/jsonl_backend.go`) | a message file and a meta file per session, 64 sharded locks | append, truncate, set, compact, promote an alias | two writes per method with a crash or an error between or within; two locks at once | methods are atomic; what was to be kept is kept; calls block each other for good only where locks are shared |
| Channel manager (`pkg/channels/manager.go`) | tables of channels and workers, a queue per worker, dispatch contexts | start, reload, stop, register, unregister, dispatch, send with retries | a reload that finishes in a goroutine; a lock held while a worker drains; a queue closed under the dispatcher | a running channel has a live worker; replies of a channel in order; whoever waits gets through |
| Providers (`pkg/providers/fallback.go`, `cooldown.go`, `ratelimiter.go`) | failure counts, cooldowns, token buckets | try the next candidate, mark | concurrent success and failure | a cooling candidate is not called |
| Heartbeat (`pkg/heartbeat/service.go`) | ticker, hook | tick | check, then act | silent when busy |
| Event bus (`pkg/events`), media store (`pkg/media`), MCP manager (`pkg/mcp`), pid file, state file | maps and files | | mostly sequential | |
| Channel adapters, providers' clients, tools, web UI, configuration, routing, seahorse memory, evolution and sleep work, setup commands | | | external protocols, parsing, SQL, prompts | not modelled, see section 5 |

How they interact: channels publish to the bus; `AgentLoop.Run` is the only reader of its
inbound channel and starts one worker goroutine per claimed message. A worker takes a slot
of `workerSem`, runs the turn and then drains the session's steering queue. Each model call
enters `Inference`, each tool batch `ToolExec`, each reflex `Reflex` in the process-wide
engine. Dreams go through a `dreamGate`, the watchdogs set `Suspended` and `Throttled`, and
publishers, the heartbeat and `/health` follow the mode. A configuration reload replaces the
engine reference, the bridges, the watchdogs, the cron service, the changed channels and the
provider while all of this goes on. Replies leave through the bus's outbound channel, which the
channel manager's dispatcher reads. A tool call may spawn sub-turns, which run like turns, below
the one that spawned them. Cron jobs and the command line share `jobs.json`; turns, the sleep
bridge and the web UI share a session's files through one store.

## 2. Modules

| Module | What it is |
|---|---|
| `TurnDispatch` | the receive loop, the workers and `/stop`, at the grain of single accesses to shared state |
| `TurnDispatchProofs` | the TLAPS proofs about it |
| `RunState` | the engine with its clients, dreamers, subscribers and reloads |
| `RunStateProofs` | the TLAPS proofs about it |
| `Watchdogs` | the memory guard and the CPU watchdog over readings and reloads |
| `WatchdogsProofs` | the TLAPS proofs about them |
| `Mailbox` | abstract: bounded FIFO mailboxes that can be shut |
| `MessageBus` | publishers, receivers and `Close` of the bus, which implements `Mailbox` |
| `MessageBusProofs` | the TLAPS proofs about it, the refinement included |
| `SubTurns` | spawning, semaphores and pools, delivery of results, the hard abort and its cascade |
| `SubTurnsProofs` | the TLAPS proofs about them |
| `CronService` | the gateway's cron services, one after another, and a command-line process on the same file |
| `CronServiceProofs` | the TLAPS proofs about them |
| `JSONLStore` | the session store's methods with their locks and their writes |
| `JSONLStoreProofs` | the TLAPS proofs about it |
| `ChannelManager` | the manager's tables, the workers, the dispatcher, reloads and the stop |
| `ChannelManagerProofs` | the TLAPS proofs about it |
| `MC_*` | constants for TLC; one `.cfg` per run |

### TurnDispatch

A claimed message starts one goroutine, so a worker is named by its message. `wpc[w]` is the
point the goroutine has reached; an action is the code up to the next access to
`activeTurnStates` (`activeTurns`), the steering queue (`steering`), `pendingStops` or
`workerSem`. Entries of `activeTurnStates` are `claim` (the placeholder of the receive loop),
`cont` (the placeholder of `Continue`) and `turn`; both placeholders carry the `pending-`
prefix, which `IsPending` stands for. `releaseSessionTurnState(key, ts)` compares and then
deletes without a lock, so it is two actions (`ClearCheck`/`ClearDelete`,
`CleanupCheck`/`CleanupDelete`). `/stop` is four actions, because clearing the queue, looking
up the turn, aborting it and arming a pending stop take different locks.

`fate` says where a message is: still in the channel, held by the loop, claimed, queued, in a
turn's batch, or settled (answered, failed, stopped, refused, handled without a turn).
`reach`, `overreached`, `stolen` and `wedged` are history variables: what had been received
when a pending stop was armed, what a stop swallowed beyond that, sessions whose entry was
deleted by a worker that did not own it, workers that panicked inside `Continue`.

What a turn says is abstracted: a model call, a tool call and an answer are steps without
content. Not in the model: sub-turns, the rollback of history by a hard abort, the mention of
several agents (sessions are constants), messages injected by `Steer` from outside the loop.

### RunState

`counts` is `Engine.counts`, `dreamCancel` names the dreamer whose cancel function the engine
holds. A client is at `idle`, `enter` (it has taken its snapshot of `al.runstate`), `cancel`
(it incremented `Inference` under the lock and has still to call the cancel function it took
away), `held`, `free` (its snapshot was nil), `refused` or `wait`. A dreamer is an *evolver*
(a workspace of the evolution bridge's `ColdPathRunner`, with its pending flag and the
`time.AfterFunc` retries of the gate) or a *sleeper* (the window loop of the sleep bridge,
which naps and tries again). `chan` is the size-one channel of a subscriber;
`noteTransitionLocked` makes it hold the new mode whenever the aggregate mode changes.

A bridge that a reload closes has its context cancelled and lives on until its run has ended.
The bridge that takes over at once is another dreamer; one of a later reload takes the identity
of a closed one whose run has ended. The window's deadline is one of the reasons for which a dream
ends by itself. When the watchdogs act is left open here.

### Watchdogs

Time is counted in polls; a `since` is 0 for Go's zero time and otherwise one more than the
polls passed since. A reading is above the upper threshold, below the lower one, in between,
or missing. `Install` is a start or reload: it stops both watchdogs and starts new ones, or
none, on the engine as it is. `calm`, `pressed`, `easy`, `busy` and `leaked` are history
variables used by the properties only. `beat` flips at every poll, so that a poll that changes
nothing is still a step and fairness speaks about it.

### MessageBus

A publish call is named by its message; `ppc` says whether it is before `enterPublish`, in its
`select`, has left it with or without success and owes the wait group a `Done`, or has
returned. `closed` stands for the closed flag and the `done` channel, which one critical section
sets and closes together. A caller of `Close` goes through `once.Do`: the first runs the body
(`begin`, `wait`, `close`, `drain`, `done`), the others are `blocked` until it is done. The
receivers are `AgentLoop.Run` and the dispatchers of the channel manager; they may stop at any
time (`ReceiverStops`), which leaves a full channel with publishers blocked on it. A `select`
whose `done` and whose channel are both ready takes either, so `Send` and `SendClosed` are
both enabled. The branch of `publish` with a timeout is left out: no exported method sets one.

### SubTurns

A spawn is named; `pc` is the point its goroutine has reached: waiting for a token of its
parent's `concurrencySem` (`sem`), for a slot of the pool of its depth (`slot`), setting up,
running, looking at its parent (`look`), sending its result (`send`). `finish` follows
`Finish(true)` through its three steps (flag, channels and context, cascade), each of which other
goroutines may see alone. What the model shows of the code, and no property is about:

* the turn of a chat message has no `pendingResults`, so the result of an asynchronous spawn of
  a chat turn is always an orphan;
* nothing calls `Finish(false)`: a sub-turn that ends by itself is never marked finished, so a
  result delivered to it afterwards is counted as delivered and lost, and a delivery to its
  full channel blocks (`subturn.go:611`);
* a sub-turn that panics delivers before it gives back its token and slot
  (`subturn.go:484-518`), so a blocked delivery keeps both: `SpawnsProceed` excludes it by name;
* a spawn that registers after a cascade has read `childTurnIDs` is not reached by it.

### CronService

Services are the gateway's (`Gens`: a reload makes a new one while the old one's loop may still be
running what it has collected) and the command line's (`Cli`). Each has its copy of the store
(`mem`) and may not have read the file's last content (`unread`, for `lastBytes`). An operation
re-reads the file, changes the copy and holds the service's mutex (`pending`) until its write has
succeeded (`Save`) or failed (`SaveFails`; a service whose `Start` fails has no loop, and the gateway
ends, or goes on without one if it was reloading). `CheckJobs` erases the next run of what it collects;
a job runs outside the mutex (`exec`) and `EndRun` writes its outcome into what the file then
says. `edit` is the copy that an edit of the web UI works on between `GetJob` and `UpdateJob`.

`wanted`, `marked`, `streak` and `finished` are history variables. `gaps` records the events
after which the code promises less, so that the properties can say "unless": *overwrite* (a
service wrote the file without having seen another's write: nothing locks the file between
two processes), *unsaved* (a write failed or the process died before it), *stale* (an edit put
back a job that had changed since it was copied), *missed* (a service started after the time of
an enabled one-shot job, which `computeNextRunAt` then gives no next run), *overlap* (a
service was started while an earlier one's loop was still running jobs). Each of the five does
happen in the instance.

### JSONLStore

`lines` and `open` are a session's message file (`open`: its last line has no line feed), `skip`
and `summary` its meta file. A call takes the lock or, for a promotion, the pair of locks in the
order of `lockSessionPair`, and then makes its first and second write, which are steps of
their own; between them, or instead of them, `WriteFails`, `AppendFails` or `Crash` may come.
`WriteFileAtomic` replaces a file or leaves it. An append may be cut short: the part of a line
that is in the file makes the next appended line unreadable (`Appended`). `expect` is what the
session was told to keep; `faulty` and `hurt` are the sessions where a method failed, and where
it failed in one of the two ways that no method makes up for.

### ChannelManager

The n-th object built for a channel is `<<name, n>>`, and so is the worker made for it.
`channels` and `workers` are the manager's two tables; `made` counts objects. `Free` says that
the manager's mutex can be taken: `holder` is the removal that keeps it while it waits for a
worker (`UnregisterChannel`, between `Unregister` and `Unregistered`), and `StopAll` keeps it
between `StopAll` and `AllStopped`. `tidy[r]` is what the goroutine of the r-th reload has yet
to do: all removals first, in the order of a Go map, then the registrations. A worker's goroutine
is at `idle` (its `select`), `wait` (the rate limiter) or `send`; a retry is a longer `send`.
`crashed` says that a goroutine without a `recover` has panicked: the process is gone.

`disturbed` is a history variable: the channels a reload has changed, or has met while an
earlier reload's goroutine had still to deal with them. For those the code does not keep what it
says (see the findings), so the invariants are about the others.

Two more things the model shows: the dispatcher looks a worker up under the lock and sends on
its queue without it, so a removal or `StopAll` in between makes the send panic and ends the
process (`EnqueueClosed`, `manager.go:1666`); and a second reload that removes a channel which
the goroutine of the first has already taken out of the table stops it through a nil pointer
(`manager.go:1903-1907`).

## 3. Runs

| Run | Instance | Checks |
|---|---|---|
| `dispatch` | one session, three chat messages and a `/stop`, two slots, queue of one, panics, reload faults, shutdown | `TypeOK`, `OneTurnUnlessStolen`, `TokensMatchWorkers`, `EntryHasLiveOwner`, `EveryMessageAccounted`, `WorkersReturn` |
| `dispatch_theft`, `dispatch_drain` | one session, no faults | violations, see below |
| `runstate` | two model calls, an evolver, a sleeper | `TypeOK`, `CountsMatchHolders`, `InferencePreempts`, `SuspendedVetoes` |
| `runstate_live` | a model call, a reflex, an evolver, a publisher | `NoStaleListener`, `WaiterWakes`, `DreamYields`, `TriggerNotLost` |
| `watchdogs` | sustain windows of two polls, reloads until `Throttled` is counted twice | `TypeOK`, `ThrottleHeldOnce`, `MovesAreSustained`, `GuardResumes` |
| `bus` | three calls on a channel of capacity one, one call on another, two callers of `Close` | `TypeOK`, `NoSendOnClosed`, `AcceptedOnce`, `CloseTerminates`, and that the bus implements `Mailbox` (`MailSpec`) |
| `cron` | one job of a recurring and a one-shot, two services and a command-line process, two commands or reloads, one crash or failed write; deadlock is checked | `TypeOK`, `CommandsKept`, `EnabledIsScheduled`, `OneShotOnce`, `AutoDisableEarned`, `DueIsCollected` |
| `jsonl` | one conversation under three names, two of which share a lock, two callers, two messages, four calls, one fault | `TypeOK`, `MethodsAtomic`, `NothingLost`, `RingsCollide` |
| `subturns` | a chat turn, four spawns in any tree of depth two, every capacity one, one fault | `TypeOK`, `SlotsMatchRuns`, `SpawnsProceed` |
| `channels` | two channels, two replies to one of them, queues of one, two reloads | `TypeOK`, `StartedHaveWorkers`, `RepliesInOrder`, `WaitsEnd` |
| `channels_reload` | the same | violation, see below |

Why these bounds are enough to be interesting. Three messages of one session are the fewest
for which one worker is on its way out, one has claimed and a third claims again; a queue of
one makes it full with the second queued message. Two model calls let one preempt a dream while
the other holds the bit. A window of two polls has an inside: opened, not yet sustained,
sustained. Three calls on a channel of one leave one buffered and two blocked, so that a receive
lets one of them pass while the bus closes. In `cron` the clock has three values, so that a job
is due, is due again after its interval, and a one-shot's time can be missed; two failures
switch a job off; two operations and a fault put a command and a crash around one run. In
`jsonl` four calls are two messages, a truncation, and one more call that meets them; two
names that are each other's alias (the two old names of a chat, when messages give either as
their session) make two promotions want the same two locks, and three names on two locks are the
fewest with which the order of the locks crosses that of the keys. In `subturns`
four spawns make two levels with two competitors each for one slot. In `channels` two reloads
let the goroutine of the first meet the second, and a channel that neither of them changes
stays beside one they do; three objects are the fewest with which a channel is built twice.

Bounds by name: `MaxTimers` caps the retries scheduled for a refused evolver (a new trigger waits
for one to fire); `MaxThrottled` stops further reloads when the leaked count reaches it, and
readings longer ago than the sustain window are not told apart; `MaxNow`, `MaxOps`, `MaxFaults`
and `MaxJobs` (`CronService`), `MaxCalls` and `MaxFaults` (`JSONLStore`), `MaxFaults`
(`SubTurns`, whose `Subs` is every spawn of a behaviour), `MaxReloads` and `MaxBuilt`
(`ChannelManager`). Deadlock is not checked where every goroutine may have returned or every call
been made (`bus`, `jsonl`, `subturns`, `channels`); in `jsonl` two callers may also have blocked each
other.

### Fairness

`TurnDispatch`: weak fairness of the receive loop and of every worker: goroutines are
scheduled, a model call ends because its context has a deadline or the provider answers.
`RunState`: what a goroutine does between two blocking points it does; a dream ends by itself
only if its context is cancelled (`DreamYields` rests on that: the model call of a dream honours
its context); timers of `time.AfterFunc` fire. No call, window, resume, timeout or reload is
assumed to happen. `MessageBus`: a publish call that `done` has woken, or that has left its
`select`, returns, and the body of `Close` runs; nobody has to receive, publish or close.
`Watchdogs`: the tickers tick. A property that would only fail because reloads never stop says so
(`ReloadsForever`). `CronService`: a write ends, the loop of a service wakes at least every
`maxSleep` and its runs end, and a gateway that was stopped or has died is started again; no
command comes. `SubTurns`: the goroutines of spawns and of `Finish` go on and turns end; no
timeout of a wait is assumed to come and no result to be polled. `ChannelManager`: the
goroutines of the dispatcher, the workers and the reloads go on, a send returns because its
retries are limited; no reply, reload or stop is assumed to come. `JSONLStore` has no liveness
property.

### Findings

* `dispatch_theft`: the exit cleanup of a worker deletes any placeholder it finds
  (`agent.go:341`), also that of a newer worker; then two turns of one session overlap.
  `OneTurnUnlessStolen` shows that this is the only way.
* `dispatch_drain`: a message queued behind one that never registers a turn (a slash command, a
  reflex) is stranded: `Continue` finds the worker's own placeholder (`steering.go:341`).
* `channels_reload`: a reload that changes a channel's settings makes a worker for the new
  object and leaves the removal of the old one to a goroutine, which by then finds the new worker in
  the table, closes and deletes it, and registers only the channel again (`manager.go:1913`,
  `1959-1972`, `2003-2016`): every reply to the channel is dropped from then on.
  `StartedHaveWorkers` shows that channels no reload has disturbed are safe.

Properties that the modules state and that do not hold either. To see the counterexample, add
the definition to the cfg of the module's run as an invariant or a property.

| Definition | What is said | What the code does |
|---|---|---|
| `StopReachesBack` (`TurnDispatch`) | `agent_stop.go:24-28`, a stop is for what came before it | a pending stop armed after the worker's last look at it waits for a later message |
| `ThrottledGatesNothing` (`RunState`) | `mode.go:47-50`, `Throttled` is purely informative | `TryEnterDream` wants an idle engine (`engine.go:269`), so it gates dreams |
| `ThrottleRecovers` (`Watchdogs`) | `mode.go:47-50`, the watchdog clears the bit | a reload while it is on leaves it on for the life of the process (`throttle.go:56`) |
| `AbortCascades` (`SubTurns`) | `steering.go:436-437`, a hard abort cascades to all sub-turns | the walk needs `ts.al`, which only `spawnSubTurn` sets (`turn_state.go:906`, `subturn.go:442`): aborting a chat turn reaches none |
| `RunNowKept` (`CronService`) | `service.go:1046-1048`, a marked job is run on the next wake-up | a mark set while the job runs is overwritten when the run ends (`service.go:440`) |
| `NoCircularWait` (`JSONLStore`) | no text says it; `lockSessionPair` orders the keys, which serves nothing else | the locks are shards (`jsonl.go:82-86`) and the order is that of the keys (`jsonl.go:374-388`): where `opaque` has the lock of `old1`, promotions of `old1`, `old2` and of `old2`, `opaque` take the same two locks in opposite orders. Each gets one, neither returns, and every later call on a session of either shard blocks behind them |
| `AppendsSurvive` (`JSONLStore`) | `jsonl.go:60-64`, appends are crash-safe | the message after a line that was cut short is glued to it and lost (`jsonl.go:628`) |
| `StopDrains` (`ChannelManager`) | `manager.go:1372`, `StopAll` waits for the queues to drain | the workers' contexts are cancelled before, and a worker may end with replies in its queue |

Seen while reading and stated in the hazards of `PROJECT.json` only: turning memguard off while
the engine is suspended leaves nobody to resume it. A preempted dream is not rescheduled although
`engine.go:113-116` says its caller does; a guard whose first PSI read fails stays down.

## 4. Proofs

`TurnDispatchProofs` proves, for any finite set of messages, any sessions, slots and queue
size, with and without panics, deadlines and reload faults:

* `TypeCorrect`: `Spec => []TypeOK`;
* `TokensCorrect`: `Spec => []TokensMatchWorkers`;
* `SerialTurns`: `Spec => []OneTurnUnlessStolen`;
* `NoOrphanEntry`: `Spec => []EntryHasLiveOwner`;
* `NoMessageLost`: `Spec => []EveryMessageAccounted`.

The only assumption is `DispatchAssumption` (the set of messages is finite, sessions, stop
messages and bounds have their types). None of the last four is inductive. The inductive
invariant `DispatchInv` adds `OwnsSlot` (while nothing was stolen from its session, a worker
between claim and clear finds the matching entry of its own under the session's key),
`SlotOwned` (an entry's owner is at a point from which it will still replace or delete the
entry) and `Fresh` (a message in the channel has no worker). The tokens need a cardinality
argument of their own: `HolderMoves` says by how much one worker's step changes the number of
holders, and each action cites it with its own program counters. For the messages `Accounted`
turns the implications of `EveryMessageAccounted` into equivalences (a message in a queue or in a
batch has that fate, too) and says at which points a worker may have a batch: `enqueueSteeringMessage` appends
a message that is nowhere else, so the queue keeps no message twice, and what a dequeue takes
(`DequeueSplits`) was in no batch.

`RunStateProofs` proves, for any finite set of clients with any bits, any evolvers, sleepers,
listeners and retries:

* `EngineTypeCorrect`: `Spec => []TypeOK`, with refcounts in `Nat`: the clamp in
  `Engine.leave` is never needed;
* `RefcountsExact`: `Spec => []CountsMatchHolders`;
* `NoSecondDream`: `Spec => []OneDream`;
* `DreamsArePreempted`: `Spec => []InferencePreempts`;
* `NoEntryWhileSuspended`: `Spec => SuspendedVetoes`, an action property;
* `SubscribersUpToDate`: `Spec => []NoStaleListener`.

From `RunStateAssumption` (finitely many clients, each with one of the three bits; evolvers,
sleepers, clients and listeners are different things). The invariant `EngineInv` says that
refcounts are numbers of holders (`InsideMoves` is the cardinality argument), that the engine
holds a cancel function only of the dream that runs and only while no model call does
(`CancelHeld`), and that a running dream's cancel function is in the engine, has been called, or is
in the hands of the call that took it (`Cancellable`). Preemption needs all three: that a dream
starts only in an idle engine excludes a model call only because refcounts are exact.
`ChanCurrent`, inductive beside it, says what a channel of size one holds.

`WatchdogsProofs` proves, for sustain windows of any length and any number of reloads,
`WatchTypeCorrect`, `ThrottledAccounted` (`Spec => []ThrottleHeldOnce`) and the action property
`MovesSustained` (`Spec => MovesAreSustained`, from one theorem for each watchdog). The
strengthening is `WindowsInside`: an open window is never older than the run of readings that keeps
it open.

`MessageBusProofs` proves, for any finite set of publish calls, any streams, closers and capacity:

* `BusTypeCorrect`: `Spec => []TypeOK`, so `wg.Done` never finds the counter at zero;
* `NeverSendsOnClosed`: `Spec => []NoSendOnClosed`;
* `CloseLeavesNothing`: `Spec => []ClosedMeansEmpty`;
* `NeverTwice`: `Spec => []AcceptedOnce`;
* `BusImplementsMailbox`: `Spec => MailSpec`, the refinement.

The argument: the wait group is the number of calls under way (`WgCounts`), only one caller is
inside the body of `Close` (`OneCloser`), and once that caller has seen zero after setting the
closed flag nobody is under way again (`Progress`). `NeverTwice` needs `Placed` besides: each
message that was received or is buffered is in one channel, its own, and once, is accepted and is
not drained, and an accepted message is somewhere. A sender is in neither place before its send,
so the send adds it to one, and a receive or a drain takes it from the head.

`SubTurnsProofs` proves, for any finite set of spawns, any chat turns and any limits:

* `SubTurnsTypeCorrect`: `Spec => []TypeOK`, so no semaphore or pool exceeds its capacity and no
  release finds it empty;
* `SlotsAccounted`: `Spec => []SlotsMatchRuns`.

The invariant is `TypeOK`, `TreeShape` (a spawn is one deeper than its parent, and its parent is a
turn that has begun) and `SlotsMatchRuns` itself. `TokenMoves` is the counting argument: a step that
moves one spawn changes the two counters that are its own, and those are named by its parent and
depth, which is what `TreeShape` is for.

`ChannelManagerProofs` proves, for any channels, replies, destinations, queues and number of
reloads:

* `ManagerTypeCorrect`: `Spec => []TypeOK`;
* `WorkersSurviveReloads`: `Spec => []StartedHaveWorkers`;
* `RepliesArriveInOrder`: `Spec => []RepliesInOrder`.

For the second, the invariant `ManagerInv` adds `Named` (the tables hold a channel's own objects, and nothing
was started, closed or left for registration before it was built, so what a reload builds is new),
`TidyOk` (no reload's goroutine is going to remove an enabled channel that is not disturbed, and
what it is going to register for one is there already), `Early` (nothing is cancelled
before `StopAll`) and `InHands`. A removal closes the queue of whatever worker is in the table under its
name; that this is not an undisturbed channel's is `TidyOk`, and that it is not another name's is
`Named`.

The order of the replies is not inductive: it is the end of a line that begins at the bus. `OrderInv`
says that for the worker of an undisturbed channel the replies sent, the one in its hands,
those in its queue and the one the dispatcher is about to enqueue rise (`Line`), that no other
worker of the channel is at work (`Single`), and that all of them have left the bus and are for that
channel (`Addressed`). `Single` in turn needs that the worker of a channel which is switched off and
on again has been removed before a new one is made (`Off`: until then a reload's goroutine has
it on its list), that a closed queue belongs to a worker that leaves the table (`ShutOk`), and that
what a reload builds has never worked (`Unborn`).

`CronServiceProofs` proves, for any jobs, generations of the service and bounds:

* `CronTypeCorrect`: `Spec => []TypeOK`;
* `CommandsNotUndone`: `Spec => []CommandsKept`;
* `NoJobForgotten`: `Spec => []EnabledIsScheduled`;
* `OneShotsRunOnce`: `Spec => OneShotOnce`, an action property;
* `SwitchingOffIsEarned`: `Spec => AutoDisableEarned`, an action property.

The invariant `CronInv` says, while no write has gone missing, that a service that holds no mutex
has the file or knows that it must read it (`Reread`); that what a service is about to write does
what its operation is for, to the file as it is (`Written`, `GoodStore`), unless another service
wrote the file since, in which case its own write will count as an overwrite; that a collected job
its service no longer has was removed (`Collected`), so skipping it forgets nothing; and where the
enabled jobs with no next run are (`Planned`). `Planned` alone is not inductive: a save replaces the
whole file, so it needs to know of every job in the store that is about to become the file.

The two action properties rest on `CountInv`, which adds three parts. `Alone`: at most one service
has a loop that runs, has jobs to run or has an outcome to write, unless an overlap was recorded.
`Finished`: a one-shot job that has ended was removed, or its service is about to write that it
was; a service that has it among its collected jobs has no copy of it any more, which is what
makes `executeJobByID` skip it. `Counted`: neither the file nor a store about to replace it counts
more failures of a job than its runs had in a row, except for a job whose outcome *another* service
is about to write. That exception is what makes it inductive: a run that succeeds resets the
history at once and the file only with the save, and in between a command may take up the old
count. `Steps` brings every action into one of a few shapes (an operation that takes up a write, one
that only reads, a save, the start of a run, a crash), and the parts are proved of the shapes.

`JSONLStoreProofs` proves, for any sessions, aliases, callers, messages and shards:

* `StoreTypeCorrect`: `Spec => []TypeOK`;
* `OnlyCollisionsBlock`: `Spec => []RingsCollide`: of any finite set of callers that wait for each
  other, two are at work on different sessions of one lock. Nothing is assumed of the shards;
  where they cross the order of the keys, such callers exist (`NoCircularWait`, section 3);
* `MethodsAreAtomic`: `Spec => []MethodsAtomic`;
* `NothingIsLost`: `Spec => []NothingLost`.

From `StoreAssumption` (the order of `lockSessionPair` tells sessions apart, and the value for
"no call" is not a call). `LockInv` adds to the types who holds which locks at which point (`Locked`).
`OnlyCollisionsBlock` follows from it: without a collision the session whose lock a caller waits for
is the lower one of the next caller's two, so that along a ring its rank would only climb.
`StoreInv` says of each session's two files what they hold when no method is between its two writes
(`Good`: what was expected, or its end if a fault has hit the session) and, for each method, what they
hold in between (`Half`); the expected content is not an invariant there, and `Locked` is why nobody
sees it.

What `readMessages` returns is the recursive function `Scan`, so lemmas about it are inductions over
the lines of a file. The induction theorems of the library cannot be instantiated here; `Least` (a
set of numbers that is not empty has a least element) takes their place: a statement that failed
would fail first at some line, and holds of the one before. `ScanExists` shows in this way that the
function is defined, `ReadWhole` that a file of whole lines is read as it is from the offset on, and
`KeptReads` that the offset a truncation writes leaves the last messages.

Model-checked only: everything under fairness (`WorkersReturn`, `WaiterWakes`, `DreamYields`,
`TriggerNotLost`, `GuardResumes`, `CloseTerminates`, `DueIsCollected`, `SpawnsProceed`,
`WaitsEnd`: the proof system has no means for these) and the violations. Every safety and action
property of a passing run is a theorem.

## 5. What is left, and what is not modelled

Branches of modelled functions that are left out:

* `TurnDispatch`: a message that is not routable (`agent.go:266-273`) has its turn run by the
  receive loop itself, on the agent's main session and without a claim.
* `CronService`: a re-read of `jobs.json` that fails (`service.go:704-722`; the file is replaced as a
  whole, so only a disk error or an edit by hand makes it fail), and a one-shot job whose
  `DeleteAfterRun` is false (`service.go:434-437`; `AddJob` and the agent's tool always set it).
* `ChannelManager`: a `Reload` that returns after it stopped channels, because a new one cannot
  be configured or built (`manager.go:1919-1932`).
* `Watchdogs`: a watchdog stopped while its tick is ready may poll once more.

Left to do: the provider fallback with its cooldowns and a success that arrives after newer
failures; the reload of the provider with its grace period; the composition of `TurnDispatch` with
the bus in front of it and `RunState` behind it, and of `ChannelManager` with the bus.

Not modelled, and why:

* *The turn pipeline*: apart from its polls and abort checks, which are in `TurnDispatch`, it
  is prompts, tool calls and the wording of errors.
* *Placeholders, typing signs and streamed answers of the channel manager*: sequences of edits of
  one message per chat; a property about them is a property of each chat network.
* *Heartbeat, runtime event bus, media store, MCP manager, pid file and state file*: a ticker,
  maps and files with hardly any step that two goroutines can interleave in a harmful way.
* *Gateway*: starts and stops services in order; its reload appears as `Install` (`Watchdogs`),
  `SwapEngine` (`RunState`), `Start`/`Stop` (`CronService`) and `Reload` (`ChannelManager`).
* *Evolution, sleep consolidation, seahorse memory*: what a dream does once it holds the bit, and
  SQL over a local database. Their gates are in `RunState`.
* *Routing, focus, skills, configuration, providers' clients, tools, channel adapters, web UI and
  the command line*: pure functions over texts, or protocols of other systems.
