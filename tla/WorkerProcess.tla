---------------------------- MODULE WorkerProcess ----------------------------
(***************************************************************************)
(* The life of a worker process, from its first ping to the end of its     *)
(* event loop, and what the orchestrator makes of it: the heartbeat task,  *)
(* the dispatcher task, a probe loop and the main task run side by side    *)
(* and meet in Redis, where a monitor decides by the clock which workers   *)
(* are alive.  A request is its look at the alive workers and the          *)
(* broadcast that follows (Lifecycle has the rest of it), a command is     *)
(* "start" or "stop" with all it makes the worker do (WorkerDispatcher).   *)
(* Worker ids are distinct, as the documentation asks for.                 *)
(***************************************************************************)
EXTENDS Integers, Sequences

CONSTANTS
    Worker,      \* worker ids
    Timeout,     \* heartbeat_timeout_s in ticks, at least the heartbeat's interval
    MaxLives,    \* bound: processes started per worker id
    MaxRequests, \* bound: start_test and stop_test requests
    MaxFaults,   \* bound: Redis calls that fail
    MaxLate      \* bound: ticks that find a running heartbeat overdue

ASSUME WorkerProcessAssumption ==
    /\ Timeout \in Nat \ {0}
    /\ MaxLives \in Nat /\ MaxRequests \in Nat /\ MaxFaults \in Nat /\ MaxLate \in Nat

Stale == Timeout + 1   \* ages beyond the time-out are all alike

\* run_worker_async, by what it awaits; "stop dispatcher" begins its finally and
\* "end" is the end of asyncio.run, which cancels what still runs.
Main == {"down", "ping", "retry", "register", "healthy", "probes", "up",
         "stop dispatcher", "stop probes", "stop heartbeat", "unhealthy",
         "unregister", "end"}

\* "turned back" before it reached Redis, "escaped" by an exception out of finally,
\* "failed" after an error inside it.
Exit == {"running", "turned back", "clean", "failed", "escaped", "killed"}

VARIABLES
    main, shutdown, exit,   \* main task, shutdown_event, how the process ends
    heartbeat,              \* heartbeat task: what it awaits
    dispatcher, inbox,      \* dispatcher task and what its subscription holds
    phase,                  \* runtime_state.phase; RUNNING stands for its users too
    probe,                  \* probe loop: what it awaits
    lives,                  \* processes started so far
    registered,             \* SET workers
    status, age,            \* HASH worker:{id}:status: status, age of last_heartbeat
    adrift,                 \* a heartbeat's HSET that was cut off: still under way, or landed
    monitor,                \* worker-monitor: "sleep" or between its two reads
    listed,                 \* the workers that the monitor and the request have read
    cached,                 \* _cached_alive_workers
    test, request, issued,  \* test:state, the request under way, requests so far
    faults, late,           \* how much of MaxFaults and MaxLate is used up
    missed,                 \* history: why the last broadcast did not reach a worker
    stray                   \* history: probe events since the worker left RUNNING

process == <<main, shutdown, exit, heartbeat, dispatcher, inbox, phase, probe, lives, stray>>
stored  == <<registered, status, age>>
keys    == <<stored, adrift>>
view    == <<monitor, listed, cached>>
control == <<test, request, issued, missed>>
vars    == <<process, keys, view, control, faults, late>>

TypeOK ==
    /\ main \in [Worker -> Main]
    /\ shutdown \in [Worker -> BOOLEAN]
    /\ exit \in [Worker -> Exit]
    /\ heartbeat \in [Worker -> {"none", "publish", "sleep"}]
    /\ dispatcher \in [Worker -> {"none", "subscribe", "listen", "dead"}]
    /\ inbox \in [Worker -> Seq({"start", "stop"})]
    /\ phase \in [Worker -> {"IDLE", "RUNNING"}]
    /\ probe \in [Worker -> {"none", "idle", "call", "emit"}]
    /\ lives \in [Worker -> 0 .. MaxLives]
    /\ registered \subseteq Worker
    /\ status \in [Worker -> {"none", "healthy", "unhealthy"}]
    /\ age \in [Worker -> 0 .. Stale]
    /\ adrift \in [Worker -> {"none", "adrift", "landed"}]
    /\ monitor \in {"sleep", "scan"}
    /\ listed \in [{"monitor", "request"} -> SUBSET Worker]
    /\ cached \subseteq Worker
    /\ test \in {"IDLE", "RUNNING"}
    /\ request \in {"none", "start", "stop"}
    /\ issued \in 0 .. MaxRequests /\ faults \in 0 .. MaxFaults /\ late \in 0 .. MaxLate
    /\ missed \in [Worker -> {"nothing", "absent", "not alive", "deaf"}]
    /\ stray \in [Worker -> 0 .. 2]

Init ==
    /\ main = [w \in Worker |-> "down"]
    /\ shutdown = [w \in Worker |-> FALSE]
    /\ exit = [w \in Worker |-> "clean"]
    /\ heartbeat = [w \in Worker |-> "none"]
    /\ dispatcher = [w \in Worker |-> "none"]
    /\ inbox = [w \in Worker |-> <<>>]
    /\ phase = [w \in Worker |-> "IDLE"]
    /\ probe = [w \in Worker |-> "none"]
    /\ lives = [w \in Worker |-> 0]
    /\ registered = {}
    /\ status = [w \in Worker |-> "none"]
    /\ age = [w \in Worker |-> 0]
    /\ adrift = [w \in Worker |-> "none"]
    /\ monitor = "sleep"
    /\ listed = [a \in {"monitor", "request"} |-> {}]
    /\ cached = {}
    /\ test = "IDLE" /\ request = "none" /\ issued = 0
    /\ faults = 0 /\ late = 0
    /\ missed = [w \in Worker |-> "absent"]
    /\ stray = [w \in Worker |-> 0]

-----------------------------------------------------------------------------
\* Redis calls

Succeeds == UNCHANGED faults

\* A call that raises; whether it took effect is up to the caller to say.
Raises == faults < MaxFaults /\ faults' = faults + 1

GoTo(w, stage) == main' = [main EXCEPT ![w] = stage]

\* set_worker_health
Publish(w, st) ==
    /\ status' = [status EXCEPT ![w] = st]
    /\ age' = [age EXCEPT ![w] = 0]
    /\ UNCHANGED <<registered, adrift>>

\* unregister_worker: one transaction
Forget(w) ==
    /\ registered' = registered \ {w}
    /\ status' = [status EXCEPT ![w] = "none"]
    /\ age' = [age EXCEPT ![w] = 0]
    /\ UNCHANGED adrift

\* The heartbeat is cancelled or killed.  A HSET it awaits may have been sent, and
\* Redis may execute it at any later time.
CutOff(w) ==
    /\ heartbeat' = [heartbeat EXCEPT ![w] = "none"]
    /\ UNCHANGED stored
    /\ \/ heartbeat[w] = "publish" /\ adrift' = [adrift EXCEPT ![w] = "adrift"]
       \/ UNCHANGED adrift

\* It lands, with the time at which it was sent.
Lands(w) ==
    /\ adrift[w] = "adrift"
    /\ adrift' = [adrift EXCEPT ![w] = "landed"]
    /\ status' = [status EXCEPT ![w] = "healthy"]
    /\ \E a \in 0 .. Stale : age' = [age EXCEPT ![w] = a]
    /\ UNCHANGED <<process, registered, view, control, faults, late>>

\* An error inside finally is logged, and it goes on.
Logged(w) == exit' = [exit EXCEPT ![w] = "failed"]

-----------------------------------------------------------------------------
\* Start-up

Start(w) ==
    /\ main[w] = "down" /\ lives[w] < MaxLives
    /\ GoTo(w, "ping")
    /\ lives' = [lives EXCEPT ![w] = @ + 1]
    /\ exit' = [exit EXCEPT ![w] = "running"]
    /\ missed' = [missed EXCEPT ![w] = "absent"]
    /\ adrift' = [adrift EXCEPT ![w] = IF @ = "landed" THEN "none" ELSE @]
    /\ UNCHANGED <<shutdown, heartbeat, dispatcher, inbox, phase, probe, stray, stored, view,
                   test, request, issued, faults, late>>

\* _wait_for_redis_or_retry
Ping(w) ==
    /\ main[w] = "ping"
    /\ \/ Succeeds /\ GoTo(w, "register")
       \/ Raises /\ GoTo(w, "retry")
    /\ UNCHANGED <<shutdown, exit, heartbeat, dispatcher, inbox, phase, probe, lives, stray,
                   keys, view, control, late>>

\* The wait between two pings ends by the clock or with the process.
Retry(w) ==
    /\ main[w] = "retry"
    /\ IF shutdown[w]
       THEN GoTo(w, "down") /\ exit' = [exit EXCEPT ![w] = "turned back"]
       ELSE GoTo(w, "ping") /\ UNCHANGED exit
    /\ shutdown' = [shutdown EXCEPT ![w] = FALSE]
    /\ UNCHANGED <<heartbeat, dispatcher, inbox, phase, probe, lives, stray, keys, view,
                   control, faults, late>>

RegisterWorker(w) ==
    /\ main[w] = "register"
    /\ \/ Succeeds /\ registered' = registered \union {w} /\ GoTo(w, "healthy")
       \/ Raises /\ registered' \in {registered, registered \union {w}} /\ GoTo(w, "stop dispatcher")
    /\ UNCHANGED <<shutdown, exit, heartbeat, dispatcher, inbox, phase, probe, lives, stray,
                   status, age, adrift, view, control, late>>

\* mark_healthy, and the starts that follow it without an await: with --run-probes
\* those of the heartbeat only, the first probe's registration comes next.
MarkHealthy(w) ==
    /\ main[w] = "healthy"
    /\ \/ /\ Succeeds /\ Publish(w, "healthy")
          /\ heartbeat' = [heartbeat EXCEPT ![w] = "publish"]
          /\ \/ GoTo(w, "probes") /\ UNCHANGED dispatcher
             \/ GoTo(w, "up") /\ dispatcher' = [dispatcher EXCEPT ![w] = "subscribe"]
       \/ /\ Raises /\ (Publish(w, "healthy") \/ UNCHANGED keys)
          /\ GoTo(w, "stop dispatcher")
          /\ UNCHANGED <<heartbeat, dispatcher>>
    /\ UNCHANGED <<shutdown, exit, inbox, phase, probe, lives, stray, view, control, late>>

\* WorkerProbeRuntime.start, and dispatcher.start.
StartProbes(w) ==
    /\ main[w] = "probes"
    /\ \/ /\ Succeeds
          /\ probe' = [probe EXCEPT ![w] = "idle"]
          /\ dispatcher' = [dispatcher EXCEPT ![w] = "subscribe"]
          /\ GoTo(w, "up")
       \/ Raises /\ GoTo(w, "stop dispatcher") /\ UNCHANGED <<probe, dispatcher>>
    /\ UNCHANGED <<shutdown, exit, heartbeat, inbox, phase, lives, stray, keys, view, control,
                   late>>

-----------------------------------------------------------------------------
\* Shutdown: the finally of run_worker_async

ShutDown(w) ==
    /\ main[w] = "up" /\ shutdown[w]
    /\ GoTo(w, "stop dispatcher")
    /\ UNCHANGED <<shutdown, exit, heartbeat, dispatcher, inbox, phase, probe, lives, stray,
                   keys, view, control, faults, late>>

\* The exception of a task that has died comes out of the await in stop(), which
\* expects CancelledError only, and leaves the finally.
StopDispatcher(w) ==
    /\ main[w] = "stop dispatcher"
    /\ IF dispatcher[w] = "dead"
       THEN GoTo(w, "end") /\ exit' = [exit EXCEPT ![w] = "escaped"]
       ELSE GoTo(w, "stop probes") /\ UNCHANGED exit
    /\ dispatcher' = [dispatcher EXCEPT ![w] = "none"]
    /\ inbox' = [inbox EXCEPT ![w] = <<>>]
    /\ UNCHANGED <<shutdown, heartbeat, phase, probe, lives, stray, keys, view, control,
                   faults, late>>

StopProbes(w) ==
    /\ main[w] = "stop probes"
    /\ probe' = [probe EXCEPT ![w] = "none"]
    /\ GoTo(w, "stop heartbeat")
    /\ UNCHANGED <<shutdown, exit, heartbeat, dispatcher, inbox, phase, lives, stray, keys,
                   view, control, faults, late>>

\* Mutant: the heartbeat is left to asyncio.run.
KeepsBeating(w) ==
    /\ main[w] = "stop heartbeat"
    /\ GoTo(w, "unhealthy")
    /\ UNCHANGED <<heartbeat, keys, shutdown, exit, dispatcher, inbox, phase, probe, lives,
                   stray, view, control, faults, late>>

StopHeartbeat(w) ==
    /\ main[w] = "stop heartbeat"
    /\ CutOff(w)
    /\ GoTo(w, "unhealthy")
    /\ UNCHANGED <<shutdown, exit, dispatcher, inbox, phase, probe, lives, stray, view,
                   control, faults, late>>

MarkUnhealthy(w) ==
    /\ main[w] = "unhealthy"
    /\ \/ Succeeds /\ Publish(w, "unhealthy") /\ UNCHANGED exit
       \/ Raises /\ (Publish(w, "unhealthy") \/ UNCHANGED keys) /\ Logged(w)
    /\ GoTo(w, "unregister")
    /\ UNCHANGED <<shutdown, heartbeat, dispatcher, inbox, phase, probe, lives, stray, view,
                   control, late>>

UnregisterWorker(w) ==
    /\ main[w] = "unregister"
    /\ \/ Succeeds /\ Forget(w) /\ UNCHANGED exit
       \/ Raises /\ (Forget(w) \/ UNCHANGED keys) /\ Logged(w)
    /\ GoTo(w, "end")
    /\ UNCHANGED <<shutdown, heartbeat, dispatcher, inbox, phase, probe, lives, stray, view,
                   control, late>>

\* What a process loses when it ends.
Gone(w) ==
    /\ GoTo(w, "down")
    /\ shutdown' = [shutdown EXCEPT ![w] = FALSE]
    /\ CutOff(w)
    /\ dispatcher' = [dispatcher EXCEPT ![w] = "none"]
    /\ inbox' = [inbox EXCEPT ![w] = <<>>]
    /\ phase' = [phase EXCEPT ![w] = "IDLE"]
    /\ probe' = [probe EXCEPT ![w] = "none"]
    /\ stray' = [stray EXCEPT ![w] = 0]

\* asyncio.run cancels the tasks that are left: the users always, all others
\* after an escape.
EndLoop(w) ==
    /\ main[w] = "end"
    /\ Gone(w)
    /\ exit' = [exit EXCEPT ![w] = IF @ = "running" THEN "clean" ELSE @]
    /\ UNCHANGED <<lives, view, control, faults, late>>

Signal(w) ==
    /\ main[w] # "down" /\ ~shutdown[w]
    /\ shutdown' = [shutdown EXCEPT ![w] = TRUE]
    /\ UNCHANGED <<main, exit, heartbeat, dispatcher, inbox, phase, probe, lives, stray, keys,
                   view, control, faults, late>>

\* SIGKILL, or a crash: whatever is in Redis stays.
Kill(w) ==
    /\ main[w] # "down"
    /\ Gone(w)
    /\ exit' = [exit EXCEPT ![w] = "killed"]
    /\ UNCHANGED <<lives, view, control, faults, late>>

-----------------------------------------------------------------------------
\* The worker's other tasks

\* Mutant: the heartbeat's loop has no handler.
BeatsUntilError(w) ==
    /\ \/ /\ heartbeat[w] = "publish"
          /\ \/ Succeeds /\ Publish(w, "healthy") /\ heartbeat' = [heartbeat EXCEPT ![w] = "sleep"]
             \/ Raises /\ UNCHANGED keys /\ heartbeat' = [heartbeat EXCEPT ![w] = "none"]
       \/ /\ heartbeat[w] = "sleep"
          /\ heartbeat' = [heartbeat EXCEPT ![w] = "publish"]
          /\ UNCHANGED <<keys, faults>>
    /\ UNCHANGED <<main, shutdown, exit, dispatcher, inbox, phase, probe, lives, stray, view,
                   control, late>>

\* WorkerHeartbeatService._run: an error is logged, and the loop goes on.
Heartbeat(w) ==
    /\ \/ /\ heartbeat[w] = "publish"
          /\ heartbeat' = [heartbeat EXCEPT ![w] = "sleep"]
          /\ \/ Succeeds /\ Publish(w, "healthy")
             \/ Raises /\ (Publish(w, "healthy") \/ UNCHANGED keys)
       \/ /\ heartbeat[w] = "sleep"
          /\ heartbeat' = [heartbeat EXCEPT ![w] = "publish"]
          /\ UNCHANGED <<keys, faults>>
    /\ UNCHANGED <<main, shutdown, exit, dispatcher, inbox, phase, probe, lives, stray, view,
                   control, late>>

\* An error of subscribe_commands or get_message ends the task; nothing restarts it.
Subscribe(w) ==
    /\ dispatcher[w] = "subscribe"
    /\ \/ Succeeds /\ dispatcher' = [dispatcher EXCEPT ![w] = "listen"]
       \/ Raises /\ dispatcher' = [dispatcher EXCEPT ![w] = "dead"]
    /\ UNCHANGED <<main, shutdown, exit, heartbeat, inbox, phase, probe, lives, stray, keys,
                   view, control, late>>

GetMessage(w) ==
    /\ dispatcher[w] = "listen"
    /\ \/ /\ Succeeds /\ inbox[w] # <<>>
          /\ inbox' = [inbox EXCEPT ![w] = Tail(@)]
          /\ phase' = [phase EXCEPT ![w] = IF Head(inbox[w]) = "start" THEN "RUNNING" ELSE "IDLE"]
          /\ stray' = [stray EXCEPT ![w] = 0]
          /\ UNCHANGED dispatcher
       \/ /\ Raises
          /\ dispatcher' = [dispatcher EXCEPT ![w] = "dead"]
          /\ inbox' = [inbox EXCEPT ![w] = <<>>]
          /\ UNCHANGED <<phase, stray>>
    /\ UNCHANGED <<main, shutdown, exit, heartbeat, probe, lives, keys, view, control, late>>

\* Mutant: the probe loop looks at the phase once.
ProbesOn(w) ==
    /\ \/ /\ probe[w] = "idle" /\ phase[w] = "RUNNING"
          /\ probe' = [probe EXCEPT ![w] = "call"]
          /\ UNCHANGED <<stray, faults>>
       \/ /\ probe[w] = "call"
          /\ probe' = [probe EXCEPT ![w] = "emit"]
          /\ UNCHANGED <<stray, faults>>
       \/ /\ probe[w] = "emit" /\ Succeeds
          /\ probe' = [probe EXCEPT ![w] = "call"]
          /\ stray' = [stray EXCEPT ![w] = IF phase[w] = "RUNNING" \/ @ = 2 THEN @ ELSE @ + 1]
    /\ UNCHANGED <<main, shutdown, exit, heartbeat, dispatcher, inbox, phase, lives, keys,
                   view, control, late>>

\* WorkerProbeRuntime._run_probe_loop: a call that fails or times out is an event
\* as well, and an event that cannot be appended is logged.
RunProbe(w) ==
    /\ \/ /\ probe[w] = "idle" /\ phase[w] = "RUNNING"
          /\ probe' = [probe EXCEPT ![w] = "call"]
          /\ UNCHANGED <<stray, faults>>
       \/ /\ probe[w] = "call"
          /\ probe' = [probe EXCEPT ![w] = "emit"]
          /\ UNCHANGED <<stray, faults>>
       \/ /\ probe[w] = "emit"
          /\ Succeeds \/ Raises
          /\ probe' = [probe EXCEPT ![w] = "idle"]
          /\ stray' = [stray EXCEPT ![w] = IF phase[w] = "RUNNING" \/ @ = 2 THEN @ ELSE @ + 1]
    /\ UNCHANGED <<main, shutdown, exit, heartbeat, dispatcher, inbox, phase, lives, keys,
                   view, control, late>>

-----------------------------------------------------------------------------
\* The orchestrator

\* Mutant: >= instead of >, a heartbeat as old as the time-out is too old.
AliveBefore(ws) == { w \in ws : status[w] = "healthy" /\ age[w] < Timeout }

\* list_alive_workers, for the workers that were listed before.
Alive(ws) == { w \in ws : status[w] = "healthy" /\ age[w] <= Timeout }

MonitorLists ==
    /\ monitor = "sleep"
    /\ monitor' = "scan"
    /\ listed' = [listed EXCEPT !["monitor"] = registered]
    /\ UNCHANGED <<process, keys, cached, control, faults, late>>

\* The second read of refresh_cache; an error of either is logged by the monitor.
MonitorReads ==
    /\ monitor = "scan"
    /\ monitor' = "sleep"
    /\ listed' = [listed EXCEPT !["monitor"] = {}]
    /\ \/ Succeeds /\ cached' = Alive(listed["monitor"])
       \/ Raises /\ UNCHANGED cached
    /\ UNCHANGED <<process, keys, control, late>>

BeginRequest ==
    /\ request = "none" /\ issued < MaxRequests
    /\ request' = IF test = "IDLE" THEN "start" ELSE "stop"
    /\ issued' = issued + 1
    /\ listed' = [listed EXCEPT !["request"] = registered]
    /\ UNCHANGED <<process, keys, monitor, cached, test, missed, faults, late>>

\* PUBLISH reaches who listens at that moment.
Broadcast(command, to) ==
    /\ inbox' = [w \in Worker |-> IF w \in to /\ dispatcher[w] = "listen"
                                  THEN Append(inbox[w], command) ELSE inbox[w]]
    /\ missed' = [w \in Worker |-> CASE w \notin listed["request"]  -> "absent"
                                     [] w \in listed["request"] \ to -> "not alive"
                                     [] w \in to /\ dispatcher[w] # "listen" -> "deaf"
                                     [] OTHER -> "nothing"]

StartTest ==
    /\ request = "start"
    /\ LET alive == Alive(listed["request"]) IN
       /\ cached' = alive
       /\ IF alive = {}
          THEN UNCHANGED <<test, inbox, missed>>   \* NoAliveWorkersError
          ELSE test' = "RUNNING" /\ Broadcast("start", alive)
    /\ request' = "none"
    /\ listed' = [listed EXCEPT !["request"] = {}]
    /\ UNCHANGED <<main, shutdown, exit, heartbeat, dispatcher, phase, probe, lives, stray,
                   keys, monitor, issued, faults, late>>

StopTest ==
    /\ request = "stop"
    /\ test' = "IDLE"
    /\ Broadcast("stop", Alive(listed["request"]))
    /\ request' = "none"
    /\ listed' = [listed EXCEPT !["request"] = {}]
    /\ UNCHANGED <<main, shutdown, exit, heartbeat, dispatcher, phase, probe, lives, stray,
                   keys, monitor, cached, issued, faults, late>>

(***************************************************************************)
(* Time.  A heartbeat is published more often than the time-out, so a tick *)
(* finds it overdue only when the process or Redis is slow, MaxLate times. *)
(***************************************************************************)
Tick ==
    /\ age' = [w \in Worker |-> IF status[w] = "none" \/ age[w] = Stale THEN age[w]
                                ELSE age[w] + 1]
    /\ IF \E w \in Worker : heartbeat[w] # "none" /\ age[w] >= Timeout
       THEN late < MaxLate /\ late' = late + 1
       ELSE UNCHANGED late
    /\ UNCHANGED <<process, registered, status, adrift, view, control, faults>>

-----------------------------------------------------------------------------
MainStep(w) ==
    \/ Ping(w) \/ Retry(w) \/ RegisterWorker(w) \/ MarkHealthy(w) \/ StartProbes(w)
    \/ ShutDown(w) \/ StopDispatcher(w) \/ StopProbes(w) \/ StopHeartbeat(w)
    \/ MarkUnhealthy(w) \/ UnregisterWorker(w) \/ EndLoop(w)

Event(w) == Start(w) \/ Signal(w) \/ Kill(w) \/ Lands(w)

Task(w) == Heartbeat(w) \/ Subscribe(w) \/ GetMessage(w) \/ RunProbe(w)

Orchestrate == MonitorLists \/ MonitorReads \/ BeginRequest \/ StartTest \/ StopTest

Next == (\E w \in Worker : MainStep(w) \/ Event(w) \/ Task(w)) \/ Orchestrate \/ Tick

Spec == Init /\ [][Next]_vars

\* Tasks that can go on do, and time passes.  Nobody has to start or stop anything.
Fairness ==
    /\ \A w \in Worker : WF_vars(MainStep(w)) /\ WF_vars(Heartbeat(w))
    /\ WF_vars(MonitorLists) /\ WF_vars(MonitorReads)
    /\ WF_vars(Tick)

FairSpec == Spec /\ Fairness

-----------------------------------------------------------------------------
\* Properties

(***************************************************************************)
(* A process that was asked to stop and met no error while stopping leaves *)
(* no trace by which it could pass for alive, whatever its heartbeat was   *)
(* doing when it was cancelled: it is not registered, and its status is    *)
(* deleted, unless the HSET that was cut off lands after that.  The state  *)
(* is well typed, and no task is left once it was stopped.                 *)
(***************************************************************************)
NoTaskOutlivesItsStop ==
    \A w \in Worker :
        /\ main[w] \in {"down", "unhealthy", "unregister"} => heartbeat[w] = "none"
        /\ main[w] \in {"down", "stop probes", "unregister"} => dispatcher[w] = "none"

LeavesNothingBehind ==
    /\ TypeOK /\ NoTaskOutlivesItsStop
    /\ \A w \in Worker : main[w] = "down" /\ exit[w] = "clean" =>
        w \notin registered /\ (status[w] = "none" \/ adrift[w] = "landed")

(***************************************************************************)
(* Workers follow the test they were told of: one that has read its        *)
(* channel runs load exactly when a test runs, unless a broadcast missed   *)
(* it; and if it runs load without a test, its heartbeat was late when the *)
(* stop was sent, or overwritten by one of the process before it.  No      *)
(* start-up or shutdown order leaves load behind.                          *)
(***************************************************************************)
WorkersFollow ==
    \A w \in Worker : dispatcher[w] = "listen" /\ inbox[w] = <<>> =>
        /\ missed[w] = "nothing" => phase[w] = test
        /\ phase[w] = "RUNNING" /\ test = "IDLE" =>
            missed[w] = "not alive" /\ (late > 0 \/ adrift[w] = "landed")

(***************************************************************************)
(* A probe whose call is under way when the test stops reports it, and is  *)
(* then quiet until the next start.                                        *)
(***************************************************************************)
OneStray == \A w \in Worker : stray[w] <= 1

(***************************************************************************)
(* The orchestrator's view is right in the end: workers that crash, exit   *)
(* with an exception or miss a heartbeat leave it and come back, and only  *)
(* those that are up are in it.                                            *)
(***************************************************************************)
ViewConverges == <>[](cached = { w \in Worker : main[w] = "up" })
=============================================================================
