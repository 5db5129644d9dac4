-------------------------- MODULE WorkerDispatcher --------------------------
(***************************************************************************)
(* A worker process: WorkerCommandDispatcher, which handles the commands   *)
(* of its channel one at a time, and the tasks that run_user makes of the  *)
(* virtual users it is given.  Dispatcher and tasks share one event loop   *)
(* and interleave at every await.  A task is seen only as far as Redis and *)
(* the dispatcher can tell: whether it is listed in active_users, and how  *)
(* it reacts to cancel().                                                  *)
(***************************************************************************)
EXTENDS RedisKeyspace

CONSTANTS
    MaxEpoch,        \* bound: epochs of the commands that may be delivered
    MaxQueue,        \* bound: delivered commands a worker has not read yet
    MaxWorkerFaults  \* bound: failures inside handlers and tasks

ASSUME WorkerDispatcherAssumption ==
    MaxEpoch \in Nat /\ MaxQueue \in Nat /\ MaxWorkerFaults \in Nat

(***************************************************************************)
(*   starting   on_init, on_start (and the jitter before them)             *)
(*   adding     SADD active_users is sent, its answer has not come         *)
(*   active     the step loop                                              *)
(*   leaving    finally: SREM active_users is sent                         *)
(*   closing    finally: on_stop and close                                 *)
(***************************************************************************)
Stage == {"none", "starting", "adding", "active", "leaving", "closing"}

\* The awaits of the dispatcher: get_message, asyncio.wait, DEL, SREM, gather.
DispatcherAwait == {"poll", "halt", "clear", "drop", "reap"}

Phase == {"IDLE", "RUNNING", "STOPPING"}

NoCommand == [type |-> "stop_test", epoch |-> 0, user |-> NoUser]

VARIABLES
    channel,      \* commands delivered to each worker and not read yet
    dispatcher,   \* where the dispatcher of each worker is suspended
    handling,     \* the command it is handling, NoCommand in "poll"
    phase,        \* WorkerRuntimeState.phase
    currentEpoch, \* WorkerRuntimeState.current_epoch
    assigned,     \* WorkerRuntimeState.assigned_users
    task,         \* stage of the task user_tasks refers to, "none" without one
    taskEpoch,    \* the epoch whose init_params that task was given
    reaped,       \* stage of the task remove_user has popped and awaits
    orphans,      \* users with a task that nothing refers to any more
    workerFaults  \* how much of MaxWorkerFaults is used up

workerVars == <<dispatcher, handling, phase, currentEpoch, assigned, task,
                taskEpoch, reaped, orphans, workerFaults>>

WorkerTypeOK ==
    /\ dispatcher \in [Worker -> DispatcherAwait]
    /\ handling \in [Worker -> Command \union {NoCommand}]
    /\ phase \in [Worker -> Phase]
    /\ currentEpoch \in [Worker -> Nat]
    /\ assigned \in [Worker -> SUBSET UserId]
    /\ task \in [Worker -> [UserId -> Stage]]
    /\ taskEpoch \in [Worker -> [UserId -> Nat]]
    /\ reaped \in [Worker -> Stage]
    /\ orphans \in [Worker -> SUBSET UserId]
    /\ workerFaults \in Nat
    /\ \A w \in Worker :
        /\ dispatcher[w] = "poll" => handling[w] = NoCommand
        /\ dispatcher[w] \in {"halt", "clear"} => handling[w].type \in {"start_test", "stop_test"}
        /\ dispatcher[w] \in {"drop", "reap"} => handling[w].user \in UserId
        /\ reaped[w] # "none" => dispatcher[w] = "reap"

WorkerInit ==
    /\ channel = [w \in Worker |-> <<>>]
    /\ dispatcher = [w \in Worker |-> "poll"]
    /\ handling = [w \in Worker |-> NoCommand]
    /\ phase = [w \in Worker |-> "IDLE"]
    /\ currentEpoch = [w \in Worker |-> 0]
    /\ assigned = [w \in Worker |-> {}]
    /\ task = [w \in Worker |-> [u \in UserId |-> "none"]]
    /\ taskEpoch = [w \in Worker |-> [u \in UserId |-> 0]]
    /\ reaped = [w \in Worker |-> "none"]
    /\ orphans = [w \in Worker |-> {}]
    /\ workerFaults = 0

-----------------------------------------------------------------------------
\* Tasks

Running(w) == { u \in UserId : task[w][u] # "none" }

\* Mutant: the step loop swallows CancelledError and goes on.
SwallowsCancel(stage) == IF stage \in {"none", "active"} THEN stage ELSE "closing"

\* The stage an exception, CancelledError included, sends a task to.
Unwound(stage) == CASE stage = "active" -> "leaving"
                    [] stage = "none"   -> "none"
                    [] OTHER            -> "closing"

(***************************************************************************)
(* cancel() of tasks in "adding" and "leaving" interrupts the wait for an  *)
(* answer of Redis, not the command: it may or may not have been applied.  *)
(***************************************************************************)
InterruptedIn(w, stage, us) == { u \in us : task[w][u] = stage }

CancelAll(w, us) ==
    /\ task' = [task EXCEPT ![w] =
                  [u \in UserId |-> IF u \in us THEN Unwound(task[w][u]) ELSE task[w][u]]]
    /\ \E sadd \in SUBSET InterruptedIn(w, "adding", us),
          srem \in SUBSET InterruptedIn(w, "leaving", us) :
        activeUsers' = [activeUsers EXCEPT ![w] = (@ \union sadd) \ srem]

\* on_init and on_start are done.
TaskStarts(w, u) ==
    /\ task[w][u] = "starting"
    /\ task' = [task EXCEPT ![w][u] = "adding"]
    /\ UNCHANGED <<reaped, activeUsers>>

TaskActive(w, u) ==
    /\ task[w][u] = "adding"
    /\ task' = [task EXCEPT ![w][u] = "active"]
    /\ activeUsers' = [activeUsers EXCEPT ![w] = @ \union {u}]
    /\ UNCHANGED reaped

TaskLeaves(w, u) ==
    /\ task[w][u] = "leaving"
    /\ task' = [task EXCEPT ![w][u] = "closing"]
    /\ activeUsers' = [activeUsers EXCEPT ![w] = @ \ {u}]
    /\ UNCHANGED reaped

\* The task is done: _on_user_task_done pops it, assigned_users keeps the user.
TaskEnds(w, u) ==
    /\ task[w][u] = "closing"
    /\ task' = [task EXCEPT ![w][u] = "none"]
    /\ UNCHANGED <<reaped, activeUsers>>

\* The same end of the task that remove_user awaits.
ReapedLeaves(w) ==
    /\ reaped[w] = "leaving"
    /\ reaped' = [reaped EXCEPT ![w] = "closing"]
    /\ activeUsers' = [activeUsers EXCEPT ![w] = @ \ {handling[w].user}]
    /\ UNCHANGED task

ReapedEnds(w) ==
    /\ reaped[w] = "closing"
    /\ reaped' = [reaped EXCEPT ![w] = "none"]
    /\ UNCHANGED <<task, activeUsers>>

TaskStep(w) ==
    /\ \/ \E u \in UserId : \/ TaskStarts(w, u) \/ TaskActive(w, u)
                            \/ TaskLeaves(w, u) \/ TaskEnds(w, u)
       \/ ReapedLeaves(w) \/ ReapedEnds(w)
    /\ UNCHANGED <<dispatcher, handling, phase, currentEpoch, assigned, taskEpoch,
                   orphans, workerFaults, stateKeys, userSetKeys, timeline,
                   presenceKeys, commands, channel>>

\* on_init, on_start or a Redis call of the task raises.
TaskFails(w) ==
    /\ workerFaults < MaxWorkerFaults
    /\ workerFaults' = workerFaults + 1
    /\ \E u \in UserId :
        /\ task[w][u] \in {"starting", "adding", "active", "leaving"}
        /\ CancelAll(w, {u})
    /\ UNCHANGED <<dispatcher, handling, phase, currentEpoch, assigned, taskEpoch,
                   reaped, orphans, stateKeys, userSetKeys, timeline, presenceKeys,
                   commands, channel>>

-----------------------------------------------------------------------------
\* The dispatcher

Received(w) == Head(channel[w])

\* get_message returns the next command of the channel.
Receive(w) ==
    /\ dispatcher[w] = "poll"
    /\ channel[w] # <<>>
    /\ channel' = [channel EXCEPT ![w] = Tail(@)]
    /\ UNCHANGED <<stateKeys, userSetKeys, timeline, presenceKeys, commands>>

\* Suspends in the middle of the handler of c.
Suspend(w, c, await) ==
    /\ dispatcher' = [dispatcher EXCEPT ![w] = await]
    /\ handling' = [handling EXCEPT ![w] = c]

Return(w) ==
    /\ dispatcher' = [dispatcher EXCEPT ![w] = "poll"]
    /\ handling' = [handling EXCEPT ![w] = NoCommand]

\* Mutant: a user can be removed while the test is being stopped only.
IgnoresRemovals(w, c) ==
    \/ c.type = "start_test" /\ c.epoch < currentEpoch[w]
    \/ c.type # "start_test" /\ c.epoch # currentEpoch[w]
    \/ c.type = "add_user" /\ phase[w] # "RUNNING"
    \/ c.type = "add_user" /\ c.user \in assigned[w]
    \/ c.type = "remove_user" /\ phase[w] # "STOPPING"

\* Of another epoch, in the wrong phase, or for a user already assigned.
Ignored(w, c) ==
    \/ c.type = "start_test" /\ c.epoch < currentEpoch[w]
    \/ c.type # "start_test" /\ c.epoch # currentEpoch[w]
    \/ c.type = "add_user" /\ phase[w] # "RUNNING"
    \/ c.type = "add_user" /\ c.user \in assigned[w]
    \/ c.type = "remove_user" /\ phase[w] \notin {"RUNNING", "STOPPING"}

Accepts(w, type) == Received(w).type = type /\ ~Ignored(w, Received(w))

Ignore(w) ==
    /\ Receive(w)
    /\ Ignored(w, Received(w))
    /\ UNCHANGED <<activeUsers, workerVars>>

\* A repeated start_test of the current epoch, also after its stop_test.
StartAgain(w) ==
    /\ Receive(w)
    /\ Accepts(w, "start_test") /\ Received(w).epoch = currentEpoch[w]
    /\ phase' = [phase EXCEPT ![w] = "RUNNING"]
    /\ UNCHANGED <<dispatcher, handling, currentEpoch, assigned, task, taskEpoch,
                   reaped, orphans, workerFaults, activeUsers>>

\* Mutant: the cancelled tasks are not awaited.
StopsWithoutWaiting(w, c) ==
    /\ CancelAll(w, Running(w))
    /\ assigned' = [assigned EXCEPT ![w] = {}]
    /\ Suspend(w, c, "clear")

\* _stop_all_user_tasks up to its first await, or past it when there is no task.
StopAllTasks(w, c) ==
    \/ /\ Running(w) # {}
       /\ CancelAll(w, Running(w))
       /\ Suspend(w, c, "halt")
       /\ UNCHANGED assigned
    \/ /\ Running(w) = {}
       /\ assigned' = [assigned EXCEPT ![w] = {}]
       /\ Suspend(w, c, "clear")
       /\ UNCHANGED <<task, activeUsers>>

\* Mutant: a newer start_test does not stop the tasks of the test before.
StartKeepsTasks(w) ==
    /\ Receive(w)
    /\ Accepts(w, "start_test") /\ Received(w).epoch > currentEpoch[w]
    /\ assigned' = [assigned EXCEPT ![w] = {}]
    /\ Suspend(w, Received(w), "clear")
    /\ UNCHANGED <<task, activeUsers, phase, currentEpoch, taskEpoch, reaped, orphans,
                   workerFaults>>

StartNewer(w) ==
    /\ Receive(w)
    /\ Accepts(w, "start_test") /\ Received(w).epoch > currentEpoch[w]
    /\ StopAllTasks(w, Received(w))
    /\ UNCHANGED <<phase, currentEpoch, taskEpoch, reaped, orphans, workerFaults>>

StopCurrent(w) ==
    /\ Receive(w)
    /\ Accepts(w, "stop_test")
    /\ StopAllTasks(w, Received(w))
    /\ phase' = [phase EXCEPT ![w] = "STOPPING"]
    /\ UNCHANGED <<currentEpoch, taskEpoch, reaped, orphans, workerFaults>>

\* graceful_stop_timeout_s is over: cancel() again.  A task whose steps are
\* still cleaning up stays before its SREM.
ForceTasks(w) ==
    /\ dispatcher[w] = "halt"
    /\ \E forced \in SUBSET Running(w) \ {{}} : CancelAll(w, forced)
    /\ UNCHANGED <<dispatcher, handling, phase, currentEpoch, assigned, taskEpoch,
                   reaped, orphans, workerFaults, stateKeys, userSetKeys, timeline,
                   presenceKeys, commands, channel>>

TasksStopped(w) ==
    /\ dispatcher[w] = "halt"
    /\ Running(w) = {}
    /\ assigned' = [assigned EXCEPT ![w] = {}]
    /\ Suspend(w, handling[w], "clear")
    /\ UNCHANGED <<phase, currentEpoch, task, taskEpoch, reaped, orphans,
                   workerFaults, redisVars, channel>>

\* clear_worker_active_users is answered: the rest of start_test or stop_test.
ClearActive(w) ==
    /\ dispatcher[w] = "clear"
    /\ activeUsers' = [activeUsers EXCEPT ![w] = {}]
    /\ \/ /\ handling[w].type = "start_test"
          /\ currentEpoch' = [currentEpoch EXCEPT ![w] = handling[w].epoch]
          /\ phase' = [phase EXCEPT ![w] = "RUNNING"]
       \/ /\ handling[w].type = "stop_test"
          /\ phase' = [phase EXCEPT ![w] = "IDLE"]
          /\ UNCHANGED currentEpoch
    /\ Return(w)
    /\ UNCHANGED <<assigned, task, taskEpoch, reaped, orphans, workerFaults,
                   stateKeys, userSetKeys, timeline, presenceKeys, commands, channel>>

\* A task that is still in user_tasks is overwritten, not cancelled.
AddUser(w) ==
    /\ Receive(w)
    /\ Accepts(w, "add_user")
    /\ LET u == Received(w).user
       IN  /\ assigned' = [assigned EXCEPT ![w] = @ \union {u}]
           /\ task' = [task EXCEPT ![w][u] = "starting"]
           /\ taskEpoch' = [taskEpoch EXCEPT ![w][u] = currentEpoch[w]]
           /\ orphans' = IF task[w][u] = "none" THEN orphans
                         ELSE [orphans EXCEPT ![w] = @ \union {u}]
    /\ UNCHANGED <<dispatcher, handling, phase, currentEpoch, reaped, workerFaults,
                   activeUsers>>

RemoveUser(w) ==
    /\ Receive(w)
    /\ Accepts(w, "remove_user")
    /\ assigned' = [assigned EXCEPT ![w] = @ \ {Received(w).user}]
    /\ Suspend(w, Received(w), "drop")
    /\ UNCHANGED <<phase, currentEpoch, task, taskEpoch, reaped, orphans,
                   workerFaults, activeUsers>>

\* remove_worker_active_user is answered: pop, cancel and await the task.
DropUser(w) ==
    /\ dispatcher[w] = "drop"
    /\ LET u == handling[w].user
       IN  /\ \E active \in IF task[w][u] = "adding" THEN {{}, {u}} ELSE {{}} :
                activeUsers' = [activeUsers EXCEPT ![w] = (@ \ {u}) \union active]
           /\ reaped' = [reaped EXCEPT ![w] = Unwound(task[w][u])]
           /\ task' = [task EXCEPT ![w][u] = "none"]
           /\ IF task[w][u] = "none" THEN Return(w) ELSE Suspend(w, handling[w], "reap")
    /\ UNCHANGED <<phase, currentEpoch, assigned, taskEpoch, orphans, workerFaults,
                   stateKeys, userSetKeys, timeline, presenceKeys, commands, channel>>

TaskReaped(w) ==
    /\ dispatcher[w] = "reap"
    /\ reaped[w] = "none"
    /\ Return(w)
    /\ UNCHANGED <<phase, currentEpoch, assigned, task, taskEpoch, reaped, orphans,
                   workerFaults, redisVars, channel>>

(***************************************************************************)
(* The Redis call of a handler raises; _handle_raw_message logs that and   *)
(* goes on with the next command.                                          *)
(***************************************************************************)
HandlerFails(w) ==
    /\ dispatcher[w] \in {"clear", "drop"}
    /\ workerFaults < MaxWorkerFaults
    /\ workerFaults' = workerFaults + 1
    /\ Return(w)
    /\ UNCHANGED <<phase, currentEpoch, assigned, task, taskEpoch, reaped, orphans,
                   redisVars, channel>>

-----------------------------------------------------------------------------
Dispatch(w) ==
    \/ Ignore(w) \/ StartAgain(w) \/ StartNewer(w) \/ StopCurrent(w)
    \/ TasksStopped(w) \/ ClearActive(w) \/ AddUser(w) \/ RemoveUser(w)
    \/ DropUser(w) \/ TaskReaped(w)

WorkerStep(w) == Dispatch(w) \/ TaskStep(w) \/ ForceTasks(w)

WorkerNext(w) == WorkerStep(w) \/ TaskFails(w) \/ HandlerFails(w)

(***************************************************************************)
(* On its own: any command, of any epoch and in any order, may be          *)
(* delivered, and Redis keeps nothing of it.                               *)
(***************************************************************************)
Deliver(w) ==
    /\ Len(channel[w]) < MaxQueue
    /\ \E type \in CommandType, e \in 1 .. MaxEpoch, u \in UserId :
        channel' = [channel EXCEPT ![w] =
            Append(@, [type |-> type, epoch |-> e,
                       user |-> IF type \in {"add_user", "remove_user"} THEN u ELSE NoUser])]
    /\ UNCHANGED <<workerVars, redisVars>>

dispatcherVars == <<redisVars, channel, workerVars>>

DispatcherInit ==
    /\ RedisInit
    /\ workers = Worker
    /\ heartbeat = [w \in Worker |-> "healthy"]
    /\ subscribed = Worker
    /\ WorkerInit

DispatcherNext == \E w \in Worker : WorkerNext(w) \/ Deliver(w)

DispatcherSpec == DispatcherInit /\ [][DispatcherNext]_dispatcherVars

(***************************************************************************)
(* The event loop resumes the dispatcher and every task that can go on,    *)
(* and the hooks of the scenario return.                                   *)
(***************************************************************************)
WorkerFairness ==
    \A w \in Worker : WF_dispatcherVars(Dispatch(w)) /\ WF_dispatcherVars(TaskStep(w))

DispatcherFairSpec == DispatcherSpec /\ WorkerFairness

-----------------------------------------------------------------------------
\* Properties

(***************************************************************************)
(* A worker that has handled stop_test is quiet: no task, no assigned      *)
(* user, nobody listed as active, whatever was being started, interrupted  *)
(* or removed when the command came.                                       *)
(***************************************************************************)
IdleIsQuiet ==
    \A w \in Worker : phase[w] = "IDLE" =>
        Running(w) = {} /\ assigned[w] = {} /\ activeUsers[w] = {}

(***************************************************************************)
(* Every task belongs: to the test the worker is in, for those of another  *)
(* are over before it is, and, as long as nothing fails, to a user the     *)
(* dispatcher can still find, one that is assigned or whose removal is     *)
(* under way.  The state is well typed; remove_user awaits what it pops.   *)
(***************************************************************************)
OneEpochAtATime ==
    \A w \in Worker : \A u \in Running(w) : taskEpoch[w][u] = currentEpoch[w]

TasksAreAssigned ==
    workerFaults = 0 => \A w \in Worker :
        /\ orphans[w] = {}
        /\ \A u \in Running(w) :
            u \in assigned[w] \/ (dispatcher[w] = "drop" /\ handling[w].user = u)

TasksBelong == WorkerTypeOK /\ OneEpochAtATime /\ TasksAreAssigned

\* No command blocks the dispatcher for ever: it comes back to its channel.
DispatcherReturns ==
    \A w \in Worker : dispatcher[w] # "poll" ~> dispatcher[w] = "poll"
=============================================================================
