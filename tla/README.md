# TLA+ models of vikhry

vikhry is a distributed load-testing framework: an orchestrator that owns the
life cycle of a test, worker processes that run virtual users (VUs), and Redis,
through which alone they coordinate; a command line starts and stops the
processes. The modules here model that coordination from the Python sources
under `src/vikhry/`; TLC checks them on small instances
and TLAPS proves the central invariants, of each component and of the composed
system, and two refinements, for every instance.

    tlc -workers 2 -config lifecycle_one_client.cfg MCLifecycle
    tlapm LifecycleSafety.tla

Contents: [inventory](#inventory), [modules](#modules-and-code),
[runs](#runs), [divergences](#divergences), [proofs](#proofs),
[abstractions](#abstractions), [not modelled](#not-modelled), [plan](#plan).

## Inventory

| component | state | operations | hard behaviour | correct when |
|---|---|---|---|---|
| Lifecycle service `orchestrator/services/lifecycle_service.py` | none of its own: `test:state`, `test:epoch` in Redis, locals of handlers | `start_test`, `change_users`, `stop_test`, rollback | no lock: handlers overtake each other at every `await`; any Redis call may fail; an answer may be lost; the process may restart | PREPARING, RUNNING and STOPPING are entered only from the state before, IDLE leaves nobody behind, epochs tell runs apart |
| User orchestration `services/user_orchestration.py` | none | `add_users`, `remove_users`, `send_start_test`, `send_stop_test` | two scans of the alive workers in one start; pacing that aborts | users spread evenly, ids 1..n, workers are told what Redis assigns |
| Redis repository `orchestrator/redis_repo/state_repo.py` | the keyspace | Lua scripts, pipelines, single commands | only scripts and pipelines are atomic, read-then-write methods are not | hash, member set and worker index of a user agree |
| Worker dispatcher `worker/services/command_dispatcher.py` | phase, epoch, assigned users, task table | one handler per command type | tasks are cancelled wherever they are; delayed commands; failing Redis calls | an idle worker is quiet, tests do not mix, the dispatcher returns |
| VU runtime `worker/services/vu_runtime.py` | per user: stage, the active flag | `run_user` | cancellation inside SADD, SREM and hooks | a running user is listed, a finished one is not |
| Resource pool `worker/redis_repo/state_repo.py`, `orchestrator/services/resource_service.py` | counter, payloads, pool, watermark | ensure/create, acquire, release | acquire is six Redis calls, creators and users run at once; users fill the pool themselves | an instance is held by one user unless syncs race; none is lost but by an acquire that breaks off |
| Metrics service `orchestrator/services/metrics_service.py` | cursors, recent events, aggregates, subscriber queues | poll, reset, subscribe, fan-out | cursors read under a lock and used after it; polls and resets overlap; full queues | no event skipped, none twice, clients catch up |
| Presence `services/worker_presence.py`, `worker_monitor.py`, `worker/services/heartbeat.py` | `workers`, status hashes, `_cached_alive_workers` | register, beat, scan | a heartbeat stale at one scan and fresh at the next; list and statuses are two reads | commands go to those who listen, the view comes right |
| Worker process `worker/app.py` | main, heartbeat, dispatcher and probe tasks, `shutdown_event` | start-up, shutdown | alive before subscribed; each await of the shutdown may fail, be signalled or be the last | a clean end leaves no trace, no load outlives its test |
| Probe service and runtime `worker/services/probes.py`, `orchestrator/services/probe_service.py` | probe loops, streams, cursors, buckets | probe loop, poll, aggregate | the phase is looked at before a call and reported after | quiet when no test runs |
| Rolling window of metrics and probes | `buckets`, totals per entry | apply, trim, snapshot | event times that go back and forth; ranks and ties | what is counted is what happened |
| Step scheduling, strategies `runtime/strategy/`, `runtime/dsl.py` | per VU: completed steps, `next_allowed_at` | choose ready steps, run | `requires`, `every_s`, time-outs, parallel steps | no starvation, no step beside the user's end |
| Process management `cli.py` | pid files, the process table, a Redis container | start, serve, stop, infra up/down, redis start/stop/restart | no lock on a pid file; zombies; time-outs against late children; partial failure | stop reaches what runs, a failed up leaves nothing |
| HTTP API, scenario loader, HTTP client, frontend | | I/O around the above | | |

Interactions: the orchestrator's handlers write assignments and PUBLISH commands
on `worker:{w}:commands`; workers read them, keep `worker:{w}:active_users` and
append metric events; `start_test` calls `ensure_resource_count` and resets the
metrics; the metrics service reads the streams and feeds websocket clients. The
worker process starts heartbeat, probes and dispatcher and stops them in the
opposite order; the command line sees processes only as pids and signals.

## Modules and code

| module | models | one step is |
|---|---|---|
| `RedisKeyspace` | the keys both sides use and each atomic operation on them | one command, script or MULTI/EXEC pipeline |
| `Lifecycle` | lifecycle service + user orchestration; `pc[r]` names the await at which the handler in request slot `r` is suspended, the other variables are its locals | the code from one await to the next |
| `TestLifecycle` | the abstract specification: four states, an epoch per test, a population only active tests have, whether a failed start is being taken back | a promise to the operator |
| `WorkerDispatcher` | the dispatcher and the tasks of a worker (`task[w][u]`: starting, adding, active, leaving, closing) | the code between two awaits of the dispatcher or of a task |
| `Vikhry` | `Lifecycle` and `WorkerDispatcher` composed over one keyspace: what one adds to the log of a worker (`commands`) arrives in the `channel` the other reads | a step of either, the other's variables unchanged |
| `ResourcePool` | creators (orchestrator) and users (workers) of one resource | one Redis call |
| `MetricsPoller` | poll loop, start-up poll, reset, websocket subscribers | one Redis call, or one section under the service's lock (none contains an await that suspends) |
| `VirtualUser` | `run_user` and `_execute_step` of one user: `at` is the await at which it is suspended, `doing[s]` what the call of step `s` waits for | the code between two awaits, a cancellation, or a tick of all timers |
| `WorkerProcess` | `run_worker_async` await by await, its heartbeat, dispatcher and probe tasks, the monitor, and the scan and broadcast of a request | the code between two awaits of one task, a signal, a crash, a tick |
| `RollingWindow` | one entry of the aggregates of the metrics or the probe service, and its snapshot as operators | one event applied, a reset, a tick of Redis' clock |
| `ProcessControl` | the commands of `cli.py` that manage processes, the servers they start, and the container | one look at, or change of, the file system, the process table or Docker |
| `UserTask` | the abstract task: the stages of `WorkerDispatcher` and when a user is listed | what the dispatcher can see |
| `MCLifecycle`, `MCWorkerDispatcher`, `MCVikhry`, `MCResourcePool`, `MCMetricsPoller`, `MCVirtualUser`, `MCWorkerProcess`, `MCRollingWindow`, `MCProcessControl` | instances for TLC | |
| `LifecycleSafety`, `LifecycleOneClient` | theorems about `Lifecycle`: its types and what holds whatever overlaps, what holds for one client | |
| `VikhryProofs` | theorems about the workers (`WorkerDispatcher`), and about the system they make with the orchestrator (`Vikhry`) | |
| `ResourcePoolProofs`, `VirtualUserProofs`, `WorkerProcessProofs`, `MetricsPollerProofs`, `ProcessControlProofs` | theorems about the module each is named after | |

How to read `Lifecycle` next to the code: `StartTest`, `ChangeUsers` and
`StopTest` accept a request after the read that lets it through (a refused
request changes nothing and is no step). `Prepare`, `ScanForStart`,
`PublishStartTest`, then the loop `ScanForAdd` – `AddAbsent`/`SkipExisting` –
`AddWrite` – `AddPublish` – `AddPoint` – `AddCheck`, then `ListForStatus`,
`WriteStatus`, `Commit` are the body of `start_test`; `Raise` is its `except`
branch, whose own stop broadcast, clear and SET IDLE are the steps that
`stop_test` shares with it. `AddCheck` looks at the state only where the code
does: between users, with a `spawn_interval_ms`. `RedisError` makes the call at
any await raise (one that Redis executed and whose answer is lost is the same as a
failure at the next await); `ClaimAnswerLost` and `CommitAnswerLost` are the two cases
for which there is no next await: the first script is awaited outside the `try`, the
committing one is the last call inside it; `OrchestratorCrash` drops
all handlers and keeps Redis; `Flap` makes a heartbeat late or fresh again.

`ResourcePool` begins with an empty Redis: `ensure_resource_count` raises the counter
and writes payloads, and the takers fill the pool themselves, each by comparing the
counter with the watermark `pool_loaded_count` before it pops. So the first users of
a test race on an empty pool. A request that creates may break off at any of its
awaits (`CreatorFails`), after HINCRBY and before SET too; nothing takes its id back.
`dropped` records the ids that an acquire popped and gave to nobody.

`WorkerProcess` and `ProcessControl` read the same way: `main[w]` and
`cmd[c].point` name the await, or the call of the operating system, that comes
next. In `WorkerProcess` the start-up is `Ping` … `StartProbes`, the `finally`
is `ShutDown` … `UnregisterWorker`, and `EndLoop` is what `asyncio.run` does to the
tasks that are left. In `ProcessControl` a server goes from `CheckPidFile` over
`OpenPidFile` and `WritePidFile` (`write_text` is an open that truncates and a
write) to `RemoveOwnFile` and `UnlinkOwnFile`; `infra up` is `Precheck` … `Started`
for each server in turn, its clean-up and `infra down` share `NextToStop` …
`Unlink` with `stop`. A signal may be refused unless the process is a child
(`MayRefuse`: `os.kill` raises, and `kill 0` with EPERM counts as alive), SIGINT and
SIGTERM may come to nothing, and after SIGKILL a server takes no further step but is a
process for some time (`killed`), which may outlast the wait. Every docker command may
fail, the removal with or without effect. In `WorkerProcess` a HSET of the heartbeat that is
cut off by a cancellation or a crash is `adrift` and may land at any later time.

Definitions named after a bug (each marked "Mutant:") are variants of the
definition that follows them. They are not used by the specification: they are
there to show that each property notices a plausible mistake in that place.

## Runs

Each passing run explores its complete state space. Deadlock is checked where
nothing may end: `Rest` in `Lifecycle` and `SystemRest` in `Vikhry` let the system
be idle only when no handler is suspended.

| run | instance | asks |
|---|---|---|
| `lifecycle_one_client` | 2 workers, 1 request slot, targets of 0, 1, 3 and 5 users, 2 timeline points, 4 requests, 2 faults, 1 flap | a client that waits for its answers: refinement of `TestLifecycle` (IDLE is empty), ids contiguous, start before add and nothing after stop, told = assigned, timeline, balance |
| `lifecycle_concurrent` | 1 worker, 2 slots, 2 users, 3 requests, 1 flap; fair | requests that overtake each other: epoch fence, edges, readable members, PREPARING and STOPPING end |
| `worker_dispatcher` | 1 worker, 2 users, 3 epochs, channel of 1, 1 fault; fair | any command of any epoch in any order against tasks in every stage |
| `vikhry_one_client` | 2 workers, 1 slot, 2 users, 3 requests; fair | the composed system: workers agree with Redis, are idle when it is, and the load settles |
| `resource_pool` | an empty Redis, 2 creators, 2 users, 2 ids, 1 request and 1 acquire that break off; symmetry of creators and of users | what can make an instance available twice, loss, creation |
| `metrics_poller` | 2 metrics, 3 events, batches of 1, 1 client with a queue of 1, 1 reset, 1 failing poll; fair | nothing skipped, all counted, clients catch up |
| `virtual_user` | 3 steps (a periodic one, one that requires it and has a time-out, a frequent one), either strategy, delays up to 3 ticks, 2 cancellations, 1 fault; fair | refinement of `UserTask`, clean end, awaited steps, no starvation |
| `worker_process` | 1 worker started twice, time-out of 1 tick, 3 requests, 1 fault, 1 late heartbeat, cut-off HSETs that land at any time; fair | a clean end leaves no trace, load follows the test, probes are quiet, the view converges |
| `rolling_window` | 4 events of 5 seconds, window of 2, 3 codes of which 1 is shown, percentiles 0, 25, 34, 50, 75, 100 | the window, the totals, the top codes and the quantiles against definitions that count from scratch |
| `cli_processes` | 2 commands, any beside a start, a stop, an `infra down` or a `redis restart`; 1 worker and the orchestrator, 2 servers, 1 event | pid files name what runs, a failed `infra up` leaves nothing but what the property names, a stop that succeeds has stopped, though signals are refused and removals fail |

`worker_process`, `rolling_window` and `cli_processes` do not check deadlock: a
worker that nobody starts again, a stream without events and commands that have
all ended are ordinary ends.

Why the bounds suffice for the questions asked: three users over two workers are
the least for which round robin wraps and a shrink leaves a choice, and five drawn
with two points (fifty in the code) the least for which users go by between two
points and the last one falls between them; four
requests hold a start, a change, a stop and a second start, or a start that
fails and one that succeeds; two faults hold a failing start whose rollback
fails too; two slots and three requests hold a stop that overtakes a start, and
a newer start that overtakes both, and a late heartbeat lets a start find no
worker and roll back (Redis errors under concurrency are left to the proofs, which
cover any number of them); three epochs hold a current, an old and a
newer test; two creators and two users on an empty pool of two ids
let both creators count the same gap, both users fill the same pool at once, and a
sync follow another; batches and queues of one are full at once; three steps
are the least with one ready, one waiting and one locked, and the dispatcher
cancels a task twice at most. Workers share only the scan and the broadcast, which
treat them one by one, so one worker stands for each; two lives hold a restart
after a crash, three requests a start, a stop and a newer start, and one fault
a failure at each await (the proofs cover any number). Four events
are the least with one that is late, one that opens a second bucket and one that
trims, and a median of an even sample; a window of two has an inside edge; the
percentiles stand in for 95 and 99, which name the last of so few samples
(`math.ceil` of the float product agrees with the exact rank up to 5,000
samples). Two commands race: the second puts in place or takes
away what the first looks for, a server or a container; two servers are the two of
an `infra up`, or its first and one that overtakes it, after which the next spawn
fails (the proofs cover any number of commands of any kind and of servers).

Properties that hold only while nothing has failed say so in their antecedent
(`faults = 0`, `flaps = 0`, `workerFaults = 0`); the
same run reaches those states, and the states where they do not apply are
covered by the other properties.

Fairness: `WF(Handle(r))` — asyncio resumes every coroutine whose awaited answer
is there, and redis-py answers or raises; `WF(Dispatch(w))` and
`WF(TaskStep(w))` — the worker's event loop does the same, and the hooks of a
scenario return; `WF(Poll("loop"))` — the poll loop sleeps for a fixed time.
In `WorkerProcess`: `WF(MainStep(w))` and `WF(Heartbeat(w))` — the event loop
again; `WF(MonitorLists)`, `WF(MonitorReads)` — the monitor sleeps for a fixed
time; `WF(Tick)` — time passes, and a running heartbeat is late `MaxLate` times
only, as its interval is shorter than the time-out.
In `VirtualUser`: `WF(Advance)` — the hooks and Redis answer; `WF(Tick)` — time
passes; a step with a time-out may hang until then, one without returns or raises
(nothing in the code protects a user from one that does not).
Requests, late heartbeats (flaps), faults, cancellations and metric events have no fairness: they
may never come. `ForceTasks` (the second cancellation after the wait of a stop)
has none either: it stands for a time-out.

Notable results:

* `ImplementsLifecycle` — with one client, through any errors or restarts,
  what Redis shows is a behaviour of `TestLifecycle`: the rollback of a start
  never ends in IDLE with users left.
* `EpochFence`, `LifecycleEdges` — they survive every overlap of requests, so a
  worker that compares epochs is never misled about which run is newer. The edges are
  those into PREPARING, RUNNING and STOPPING; IDLE may be entered from any state, as
  a rollback does not look (see below).
* `TasksBelong`, `IdleIsQuiet` — a worker keeps these against any order of
  commands; it does not rely on the orchestrator's order.
* `EventsCountOnce`, `AllCounted` — events may be counted twice when polls
  overlap (its `CountedOnce` is stated for the other case), but none is lost by it.
* `ImplementsTask` of `VirtualUser` — a task cancelled at any of its awaits does
  what `WorkerDispatcher` assumes: SREM exactly if the SADD was answered.
* `WorkersFollow` — of everything that can go wrong in a worker's start-up, life
  and shutdown, only a stop broadcast that finds its heartbeat late, or overwritten by
  a cut-off one of the process before, leaves load behind.
* `LeavesNothingBehind` — the order of the shutdown holds: it ends unregistered and
  with its status deleted. Only a HSET that was cut off and that Redis executes after
  `unregister_worker` brings a status back, and never the registration.
* `WindowIsExact` — although `_ensure_bucket` looks at the last bucket only and trims by
  the event at hand, no event of the window is lost or counted twice in any order of
  seconds; what stays too long is bounded by how late the stream is.
* `NamedByItsFile` — of all the looks at a pid file only two can go wrong: two
  servers that start up at once, and a start-up beside a pending unlink (`Racing`).
* `OnlySyncDuplicates`, `OnlyRacesDuplicate` — of all the steps of the resource pool,
  only the SADD of new ids can make an instance available twice; and only one that is
  made beside another sync, or after the watermark it read has moved, or a sync
  broken off between its SADD and its SET, can spoil the pool (`SyncRace`). Syncs in turn
  keep instances exclusive, whatever is created or released meanwhile.
* `EnsureReaches` — a request that breaks off leaves at most one id that is counted
  and has no payload, and no other way leads to one.
* `SuccessMeansStopped` — for one server a stop that succeeds has stopped it, as the process
  is looked at once more after every signal; `infra down` answers for the workers only.

## Divergences

Two runs look for a counterexample to what the documentation says, and find it.

| run | property | what happens |
|---|---|---|
| `vikhry_zombie_load` | `NoLoadWhenIdle` | A stop overtakes a start and is delivered first. The worker then accepts `start_test` and `add_user` of the same epoch and runs users of a test that is IDLE. |
| `resource_pool_double_acquire` | `Exclusive` | The first two users of a test compare counter and watermark at once; the slower SADD puts back an id the faster one has popped and holds. |

Others were met while modelling. The models contain them, and properties are
worded around them, but no run is devoted to each. Some contradict a document:

* A start fails after a stop and a newer start have overtaken it. Its rollback
  clears and sets IDLE without looking at the epoch (`lifecycle_service.py:169`): the newer test
  goes from RUNNING to IDLE, a transition `execution-model.md:13` does not have.
* The commit of a start is applied, but its answer is lost (`lifecycle_service.py:137`):
  the rollback takes a RUNNING test to IDLE, the same transition. When the rollback
  fails in its turn the test stays RUNNING with its workers told to stop, and
  `change_users` goes on with it (hence `faults < 2` in `NothingAfterStop`).
* A Redis error in `stop_test` after the compare-and-set
  (`lifecycle_service.py:273`): STOPPING stays, and no request is accepted in it
  (hence `TransientStatesEnd` is checked without Redis errors).
* SREM raises in `remove_user` after the user was discarded
  (`command_dispatcher.py:232`). The task stays; the next `add_user` of that user
  overwrites its entry, and nothing can cancel it any more (hence `workerFaults = 0`
  in `TasksAreAssigned`).
* The dispatcher task dies when a Redis call of it raises. The worker stays alive
  and deaf, and at shutdown the exception comes out of `dispatcher.stop()`, the first
  await of the `finally` (`worker/app.py:94`): heartbeat and registration are not
  taken back (`.plans/steps/step_11.md:25` has "unregister on shutdown"). The worker leaves the
  view only by the age of its heartbeat (hence `exit = "clean"` in
  `LeavesNothingBehind`).
* `infra down` counts the workers it failed to stop and not the orchestrator
  (`cli.py:535-542`): over an orchestrator that refuses its signals or outlives them it
  prints "Infra stopped." and exits 0 (`docs/src/content/docs/how-to-run.md:38` has "Stop the
  full stack with"; hence the exception for slot 0 in `SuccessMeansStopped`).
* The window advances with events only (`metrics_service.py`, `_trim_buckets` is
  called by an event): without new ones `aggregate` keeps what
  is older than `window_s`, and so does a late event for the buckets behind it
  (hence the second conjunct of `WindowIsExact` speaks of the last event).

Others do not:

* Two servers started at once on one pid file both pass the check and both run;
  stop reaches one (`clean` in `ProcessControl`). An unlink of a stale file may take
  the file of a server that has started since.
* `os.kill(pid, 0)` succeeds on a zombie (`cli.py:1321`): a child that has ended
  but is not waited for counts as alive.
* `infra up` cleans up after `typer.Exit` only (`cli.py:504`): interrupted, it
  leaves what it has started.
* The wait for a child ends when its pid file names a live process, whichever
  (`cli.py:947`): a child that another server has overtaken, and that has yet to
  look at the file, counts as started and is in nobody's care when `infra up` fails
  and stops that server (`missed` in `ProcessControl`).
* A result code that is itself named "OTHER" and among the most frequent is
  overwritten by the sum of the rest (exception in `TopCodesAreComplete`).
* A worker registers at start-up only: when Redis loses its data, or a process of
  the same id unregisters late, it beats on but is invisible.
* A stop served while `start_test` adds users without pacing ends before it:
  members are added to an IDLE test, and the next start skips them.
* `set_all_users_status` lists members before and writes after such a clear:
  hashes with a status and no `worker_id` remain, which a later start cannot
  parse (hence `MembersAreAssigned` speaks of members, not of hashes).
* A start overtaken by a stop and a newer start commits the newer test's
  PREPARING: `compare_and_set_state` compares the state only.
* A worker that becomes alive between the two scans of a start is given users of
  an epoch it was not told to start (hence `flaps = 0` in `StartBeforeAdd`).
* A task cancelled while its SADD is in flight stays in `active_users` until the
  next stop or newer start. (A SADD that Redis executes after the DEL of that stop would
  list it until the one after; the models let a SADD act at the cancellation or never.)
* A HSET of a cancelled heartbeat that lands late gives a worker that is gone a
  status without a registration, or ages that of the next process of the same id
  (hence `adrift` in `LeavesNothingBehind` and `WorkersFollow`).
* Two polls at once that fetched the same events both count them, and one that fetched
  before a reset and applies after it counts those of the run before (hence `overlap`
  in `CountedOnce`).
* A user that pops an id between HINCRBY and the write of its payload raises,
  and the id is in no pool and no hand; when the request broke off there, the payload
  never comes (hence `dropped` in `NothingLost` and "failed" in `EnsureReaches`).
* `_remove_infra_redis_container` returns False when Docker fails, and the clean-up of
  a failed `infra up` ignores it (`cli.py:1159`): the container stays (hence `Refuses` in
  `FailedUpLeavesNothing`).
* A failing SREM skips `on_stop`, and a second cancellation may cut `on_stop` or
  `close()` short: acquired resources stay taken, a client open (hence
  `OneCancelIsClean` counts both).
* Under the parallel strategy `gather` goes on with the first cancelled step; the
  others may still clean up while `on_stop` and `close()` run (hence the
  exception in `StepsAreAwaited`).
* A reset between SADD metrics and XADD leaves a stream no poll lists until the
  next event of that metric (hence `AllCounted` speaks of listed metrics).

## Proofs

Every theorem is about any instance: any set of workers, requests, users, creators,
metrics, subscribers or steps, and any value of each bound. They assume the named
assumptions of the constants and nothing else: types, positive limits and time-outs
where the code refuses others, and finite sets of workers, metrics and subscribers
(a process has finitely many of each). The six of `LifecycleOneClient` also have
the hypothesis `OneSlot` (no two request slots), which is what their section of
`Lifecycle` is about; with two slots these properties are false. `WorkersAgreeWithRedis`
and `StoppedEverywhere` have it too (`vikhry_zombie_load` is the counterexample with
two slots), and `NothingFails`: a request that is broken off leaves users listed in
Redis whom no worker was told of, and a start_test whose DEL fails leaves its worker in
the test before, so both are about a system in which Redis answers. The other four
of `VikhryProofs` have no hypothesis.

| theorem | states | code |
|---|---|---|
| `LifecycleSafety!TypeCorrect` | `TypeOK` | all handlers |
| `LifecycleSafety!EpochFenceHolds` | `EpochFence` | handlers that overlap |
| `LifecycleSafety!LifecycleEdgesHold` | `LifecycleEdges` (action property) | the scripts on `test:state` |
| `LifecycleSafety!MembersAssigned` | `MembersAreAssigned` | the assignment pipelines |
| `LifecycleOneClient!UsersStayContiguous` | `ContiguousUsers` | `add_users`, `remove_users`, rollback |
| `LifecycleOneClient!LifecycleImplements` | `ImplementsLifecycle` (refinement of `TestLifecycle`) | all handlers |
| `LifecycleOneClient!ChannelsStayInOrder` | `CommandsInOrder` | every PUBLISH |
| `LifecycleOneClient!DeliveriesMatchAssignments` | `DeliveredMatchesAssigned` | `add_users`, `remove_users` and their PUBLISH |
| `LifecycleOneClient!TimelineEndsRight` | `TimelineMatchesUsers` | the timeline points |
| `LifecycleOneClient!StartsAreBalanced` | `BalancedStart` | the round robin of `add_users` |
| `VikhryProofs!WorkersAreQuiet` | `IdleIsQuiet` | `stop_test` in a worker |
| `VikhryProofs!EveryTaskBelongs` | `TasksBelong` | the task table |
| `VikhryProofs!WorkersAgreeWithRedis` | `WorkersAgree` | everything between a request and the worker's `assigned_users` |
| `VikhryProofs!StoppedEverywhere` | `IdleEverywhere` | the broadcast of `stop_test` and what a worker does with it |
| `VikhryProofs!SystemWorkersAreQuiet` | `IdleIsQuiet`, `TasksBelong`, of the composed system | what a worker needs of what is published |
| `VikhryProofs!SystemKeepsFence` | `EpochFence`, `LifecycleEdges`, of the composed system | what a worker leaves alone |
| `ResourcePoolProofs!PoolStaysIntact` | `PoolIsIntact` | acquire, release |
| `ResourcePoolProofs!OnlyRacesDuplicates` | `OnlyRacesDuplicate` (action property) | acquire beside every other step |
| `ResourcePoolProofs!SyncsInTurnAreExclusive` | a behaviour without a `SyncRace` is `Exclusive` throughout | the sync of new ids |
| `ResourcePoolProofs!EnsureReachesTarget` | `EnsureReaches` | `ensure_resource_count` |
| `ResourcePoolProofs!OnlySyncsDuplicate` | `OnlySyncDuplicates` (action property) | the sync of new ids |
| `VirtualUserProofs!NoStepRunsBeside` | `StepsAreAwaited` | the step loop |
| `VirtualUserProofs!OneCancelEndsClean` | `OneCancelIsClean` | `finally` of `run_user` |
| `VirtualUserProofs!UserImplementsTask` | `ImplementsTask` (refinement of `UserTask`) | `run_user` |
| `WorkerProcessProofs!CleanExitLeavesNoTrace` | `LeavesNothingBehind` | the shutdown |
| `WorkerProcessProofs!WorkersFollowTheTest` | `WorkersFollow` | start-up, broadcasts |
| `WorkerProcessProofs!ProbesFallSilent` | `OneStray` | the probe loop |
| `MetricsPollerProofs!EventsAreCounted` | `EventsCountOnce` | polls and resets |
| `MetricsPollerProofs!SubscribersCatchUp` | `ClientsCatchUp` | the fan-out |
| `ProcessControlProofs!PidFilesNameTheirServers` | `NamedByItsFile` | every look at, write and unlink of a pid file |
| `ProcessControlProofs!SuccessStops` | `SuccessMeansStopped` (action property) | `stop`, `infra down` |
| `ProcessControlProofs!FailureLeavesNothing` | `FailedUpLeavesNothing` (action property) | `infra up` |

None of these is inductive but `TypeOK`. Each proof is an inductive invariant, that
it holds initially, one lemma per group of actions that it is kept (each action a
step of its own), and the theorem as a consequence. TLC checked every inductive
invariant over the states of the run of that component before it was proved. What
each adds to the property, and why that is needed:

* `FenceInv` (`EpochFence`). Two starts keep different epochs only because a
  handler that will read `test:epoch` later is never a start
  (`ReadersAreNoStarts`), and the edge into STOPPING needs that the state a stop
  read first was active (`StopSawActive`). Most actions have one shape — go on or
  end, publish at most one command under the handler's own epoch, leave state and
  epoch alone — so one lemma about that shape (`Proceeds`) covers them.
  `LifecycleEdges` follows step by step. `MembersAreAssigned` is inductive together
  with `TypeOK`: only three pipelines write assignments, and each keeps it.
* `OneClientInv` (`ContiguousUsers`, `ImplementsLifecycle`). At every await the state
  Redis is in fits the handler (`StateFits`), and the users still to add follow the
  members, those still to remove are the last of them, and those listed for a
  clear or a status refresh are the members (`UsersFit`). Then `SkipExisting` and
  `SkipMissing` never happen to one client. Each action is proved to keep this and,
  in the same lemma, to be a step of `TestLifecycle` or a stutter (`DocStep`).
* `ChannelInv` (`CommandsInOrder`), on `OneClientInv`. A worker a start may hand users
  to has heard its `start_test` (`AllHeardStart`, while no heartbeat was late), and a
  worker was told to stop a test that is RUNNING only in a rollback or after two
  faults: one hid the commit, one broke the rollback off.
* `BooksInv` (`DeliveredMatchesAssigned`, `TimelineMatchesUsers`, `BalancedStart`), on
  `ChannelInv`. The members, the worker index, what was told, the totals and the
  timeline differ by the one user the handler is at, await by await (`Ahead`,
  `TimelineFits`). A round robin of any length leaves every worker of the scan with
  the same number, or one more if its rank is below the index modulo the number of
  workers (`EvenAfter`, kept by `EvenStep`): this takes no induction over the round,
  as the invariant says it of the state.
* `DispatcherInv`. When the dispatcher waits for the DEL of `active_users`, no task and
  no assigned user are left (`ClearIsDrained`): the phase it sets next is true of
  the worker. Cancelling a task never ends it and starts none (`CancelKeepsRunning`).
* `SystemInv` (`WorkersAgree`, `IdleEverywhere`), on `BooksInv` and `DispatcherInv`. The
  log of a worker, when nothing fails: epochs never go back (`EpochsGrow`), start_test
  is the first a worker hears of a test (`StartComesFirst`), and every test but the one
  in progress has been stopped on every worker (`TestsEnd`). A worker is a function of
  the part of the log it has handled (`WorkerFits`): its channel is the unread tail,
  its epoch the newest in that part, its phase what the last start or stop made it,
  and its assigned users those the part has added and not removed (`ToldBy`). When the
  tail is empty, that is what `BooksInv` says of the whole log. A start or stop counts from
  the end of its handler on, and the awaits in between are those of `DispatcherInv`.
* `ComposedInv`, on `FenceInv` and `DispatcherInv`. On its own a worker is sent any
  command in any order, and the orchestrator has no workers; composed, each is the
  other's environment. All that is to be added is that every command published is
  well formed, also by handlers that overlap or roll back, and that a worker
  writes `active_users` only.
* `PoolInv`. A creator knows how many instances its goal still lacks, and others
  only make that smaller; an id counted has its payload or a creator about to
  write it, or one that broke off there. A total that a user compares with the
  watermark was read in the past and is at most the counter; up to the watermark, and to
  any a user remembers, every id is in the pool, in a hand or dropped. `OnlyRacesDuplicate` follows
  step by step from it: a sync that is alone and whose watermark is still the
  present one adds ids above all that were ever pooled.
* `UserInv`. A round of the sequential strategy has one step; one that unwinds was
  cancelled; `user_is_active` is set exactly between SADD and `finally`, and `finally`
  begins with a cancellation or a failure. The refinement maps the awaits to stages.
* `ProcessInv`. Heartbeat and dispatcher run only between their starts and their stops,
  and meanwhile the worker is registered and healthy (`TasksOK`); nothing brings
  a trace back after it was deleted but a HSET that was cut off and lands, and it leaves
  the registration alone (`TraceOK`); the last message of a channel, or
  the phase when it is empty, is the state of the test unless a broadcast missed
  the worker (`FollowOK`).
* `PollerInv`. A batch is read from the cursor on, one event more than wanted, and
  filtered; that leaves the oldest events after the cursor, also when the event of the cursor has
  been deleted. What a poll has read has no hole above its cursor, and all below it was
  counted when it began, so even a cursor that an older batch sets back skips
  nothing. A poll that is alone applies its batch to the cursors it read
  (`AloneOK`). A queue holds the newest ticks, in order (`QueueOK`).
* `FileInv` (`NamedByItsFile`). A server writes its file, and a command unlinks one,
  only where nobody is up (`SlotFits`): the server has seen that at its check, and
  the pid the command found dead stays dead (`Ages`). Both rest on there being one
  starter and no unlink beside it, which is what `clean` remembers.
* `ChaseInv` (`SuccessMeansStopped`, `FailedUpLeavesNothing`), on `FileInv`. Each server
  that a command owes an end is on a file it will still visit, or is the one whose
  pid it holds, and then a signal is left (`Sought`); each child of an `infra up` is
  awaited or up on a file that is ahead of it (`Reared`). A step that ends a command
  fulfils what it owes, every other step carries it on (`Serves`). `infra down` owes the
  workers only (`Owes`), and an `infra up` keeps `redisBy` its own until the removal.

What proving changed in the model: the attempt at `ImplementsLifecycle` asked at which
awaits an answer may be lost, and the commit had been left out
(`CommitAnswerLost`); with it, `TestLifecycle` has the failed start as a state of its
own. The sets of metrics and subscribers had to be finite. The attempt at
`FailedUpLeavesNothing` showed that the check before an `infra up` had left the command
at the last worker instead of the orchestrator, so that it never started all of its
servers; with that corrected (`Prechecked`), a child that is overtaken by another
server survives a failed start, and the property names that exception (`missed`).
`Vikhry` used to take commands away from the log as they were read, so that no
invariant could relate a worker to what was published: now the log stays, and
`channel` holds what has not been read.

Only model-checked:

* liveness (`TransientStatesEnd`, `DispatcherReturns`, `LoadSettles`, `AllCounted`,
  `CancelEnds`, `ReadyRuns`, `ViewConverges`) and everything
  under fairness: out of the prover's reach;
* what `RollingWindow` computes for every input (sums, ranks and medians over a
  sequence): induction over data, which these provers cannot do.

## Abstractions

* Worker ids, user ids and metric ids are numbers in their sorted order; payloads,
  timestamps and correlation ids are left out of commands.
* Merged into one step: `list_workers` and the status reads of one scan of the
  alive workers; `list_users` and `list_workers` of `clear_users_data`; the
  timeline clear, the resource preparation and the metrics reset in `Prepare`
  (none touches a key of `RedisKeyspace` but the timeline); the SCAN iterations of
  the metrics reset.
* Heartbeats are never late in `Vikhry`; `WorkerProcess` has what that leads to.
* `WorkerProcess` reduces a request to its scan and one broadcast, and a command to
  start or stop: `Lifecycle` and `WorkerDispatcher` have the detail. RUNNING stands
  for the users of the worker too; that the users of a crashed worker are given to
  nobody else is not a property of it. Worker ids are distinct, as the
  documentation asks. Of several HSETs cut off in a row one lands.
* `ProcessControl`: pids are not reused; the numbered pid file of a worker stands
  for `--pid-file`; the second read in `_ensure_no_active_*` is the same as the
  first; a server of another user is one that refuses signals, and a child of the
  command never is.
* `RollingWindow`: errors are a flag, categories are counted like result codes and
  left out; `elapsed`, `rps` and the layout of the snapshot are left out.
* Timing is left out except in `VirtualUser` and `WorkerProcess`, which count ticks:
  elsewhere a sleep may take any time, a time-out may fire at any time.
* The two levels of a user's task: a cancelled task whose steps still clean up is
  "leaving" in `WorkerDispatcher` and "step" (active) in `VirtualUser`, where its
  SREM comes later; so `ForceTasks` need not move every task.
* Weights of steps are left out: the sequential strategy picks any ready step. A
  scenario's own strategy is not modelled. Steps let CancelledError pass.
* A SADD or SREM interrupted by a cancellation may or may not have been executed, and
  is not executed later (a HSET of the heartbeat may be).
* An orphaned task is remembered, but its own later writes to Redis are not.
* Ids of stream events grow over all the streams, as they do while the clock of
  Redis does not go back.
* `recent_events` and the number of subscribers are below their caps in
  `MetricsPoller`; the tick a client shows stands for the snapshot in it.
* Every counter has a bound, named `Max…` and declared as a constant.

## Not modelled

* HTTP API (`orchestrator/api/`): parsing, routing and status codes around the
  handlers of `Lifecycle`; the websocket stream is in `MetricsPoller`.
* Scenario loader: imports modules and inspects classes, no state outlives the call.
* HTTP client of scenarios: request construction and classification of errors.
* Frontend and packaging: reads what the API serves; no behaviour.
* Of the metrics service: `stop`, the lists of recent events and lagging metrics
  (the lag flag stays up after a batch that was exactly full, until the next event:
  nothing depends on it), the layout of the snapshot.
* Of the probe service: its poll loop, which repeats that of the metrics service
  without subscribers.
* Of the worker: CPU and memory figures of a heartbeat; what becomes of a user
  that fails (its task is popped, it stays assigned, nobody replaces it).
* Of the DSL: decorators, collection and validation of steps and probes, weights, a
  scenario's own strategy. Of emission: context variables.
* Of the command line: commands that are one HTTP call or one read (`test start`,
  `change-users`, `stop`, `redis status`, `redis flush`), a paused container.

## Plan

1. `WorkersAgree` with faults: what a broken-off start or stop leaves, and what the next
   request makes of it.
2. A failed user (`VirtualUser` composed with `WorkerDispatcher`), if documentation
   comes to say what should become of it.
