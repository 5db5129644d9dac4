---------------------------- MODULE VikhryProofs ----------------------------
(***************************************************************************)
(* What holds of the workers, and of the system they make with the         *)
(* orchestrator.                                                           *)
(*                                                                         *)
(* Part 1: the dispatcher and the tasks of any number of workers, for any  *)
(* users, epochs and failures, and any commands in any order.              *)
(* Part 2: what the orchestrator tells the workers, one request at a time  *)
(* and nothing failing; it rests on the invariants of LifecycleOneClient.  *)
(* Part 3: a worker and what it was told, and the agreement of the two.    *)
(* Part 4: what each side keeps in the system whatever overlaps and fails. *)
(***************************************************************************)
EXTENDS Vikhry, LifecycleOneClient, SequenceTheorems

USE LifecycleAssumption, WorkerAssumption, MaxUserIdAssumption, WorkerDispatcherAssumption
USE DEF UserId, NoUser, NoWorker

-----------------------------------------------------------------------------
\* Part 1: the workers

(***************************************************************************)
(* The strengthening.  A command about a user names one; what the channels *)
(* and active_users hold has its type; and once the dispatcher waits for   *)
(* DEL active_users, no task and no assigned user are left, so that the    *)
(* phase it sets next finds the worker empty.                              *)
(***************************************************************************)
WellFormed ==
    { c \in Command : c.type \in {"add_user", "remove_user"} <=> c.user \in UserId }

ChannelsOK ==
    /\ channel \in [Worker -> Seq(WellFormed)]
    /\ activeUsers \in [Worker -> SUBSET UserId]

ClearIsDrained ==
    \A w \in Worker : dispatcher[w] = "clear" => Running(w) = {} /\ assigned[w] = {}

DispatcherInv == ChannelsOK /\ ClearIsDrained /\ IdleIsQuiet /\ TasksBelong

-----------------------------------------------------------------------------
\* A command taken from a channel is well formed, and so are those left in it.
LEMMA ReceivedProper ==
    ASSUME ChannelsOK, NEW w \in Worker, Receive(w)
    PROVE  /\ Received(w) \in WellFormed
           /\ channel' \in [Worker -> Seq(WellFormed)]
<1>1. channel[w] \in Seq(WellFormed) /\ channel[w] # <<>>
  BY DEF ChannelsOK, Receive
<1>2. Head(channel[w]) \in WellFormed /\ Tail(channel[w]) \in Seq(WellFormed)
  BY <1>1
<1> QED
  BY <1>2 DEF ChannelsOK, Receive, Received

LEMMA UnwoundStage ==
    ASSUME NEW s \in Stage
    PROVE  /\ Unwound(s) \in Stage
           /\ Unwound(s) = "none" <=> s = "none"
  BY DEF Unwound, Stage

(***************************************************************************)
(* cancel() starts no task and ends none, leaves the other workers alone   *)
(* and lists nobody who had no task.                                       *)
(***************************************************************************)
LEMMA CancelKeepsRunning ==
    ASSUME ChannelsOK, task \in [Worker -> [UserId -> Stage]],
           NEW w \in Worker, NEW us \in SUBSET UserId, CancelAll(w, us)
    PROVE  /\ task' \in [Worker -> [UserId -> Stage]]
           /\ activeUsers' \in [Worker -> SUBSET UserId]
           /\ \A v \in Worker : Running(v)' = Running(v)
           /\ \A v \in Worker : activeUsers'[v] \subseteq activeUsers[v] \union Running(v)
<1>1. \A u \in UserId : /\ Unwound(task[w][u]) \in Stage
                        /\ Unwound(task[w][u]) = "none" <=> task[w][u] = "none"
  BY UnwoundStage
<1>2. task' = [task EXCEPT ![w] =
                 [u \in UserId |-> IF u \in us THEN Unwound(task[w][u]) ELSE task[w][u]]]
  BY DEF CancelAll
<1>3. PICK sadd \in SUBSET InterruptedIn(w, "adding", us),
           srem \in SUBSET InterruptedIn(w, "leaving", us) :
        activeUsers' = [activeUsers EXCEPT ![w] = (@ \union sadd) \ srem]
  BY DEF CancelAll
<1>4. sadd \subseteq Running(w)
  BY DEF InterruptedIn, Running
<1>5. task' \in [Worker -> [UserId -> Stage]]
  BY <1>1, <1>2
<1>6. \A v \in Worker : Running(v)' = Running(v)
  BY <1>1, <1>2 DEF Running
<1> QED
  BY <1>3, <1>4, <1>5, <1>6 DEF ChannelsOK, Running

-----------------------------------------------------------------------------
LEMMA InitDispatcher == DispatcherInit => DispatcherInv
  BY DEF DispatcherInit, RedisInit, WorkerInit, DispatcherInv, ChannelsOK, ClearIsDrained, IdleIsQuiet,
     TasksBelong, WorkerTypeOK, OneEpochAtATime, TasksAreAssigned, Running, DispatcherAwait,
     Phase, Stage, NoCommand

(***************************************************************************)
(* The shape of every step of a task: tasks end but do not begin, only who *)
(* has a task is listed, and the dispatcher is where it was.               *)
(***************************************************************************)
LEMMA TasksProgress ==
    ASSUME DispatcherInv, ChannelsOK', WorkerTypeOK',
           UNCHANGED <<dispatcher, handling, phase, currentEpoch, assigned, taskEpoch, orphans>>,
           workerFaults' = 0 => workerFaults = 0,
           \A v \in Worker : Running(v)' \subseteq Running(v),
           \A v \in Worker : activeUsers'[v] \subseteq activeUsers[v] \union Running(v)
    PROVE  DispatcherInv'
<1> USE DEF DispatcherInv, TasksBelong
<1>1. ClearIsDrained'
  BY DEF ClearIsDrained
<1>2. IdleIsQuiet'
  BY DEF IdleIsQuiet
<1>3. OneEpochAtATime'
  BY DEF OneEpochAtATime
<1>4. TasksAreAssigned'
  BY DEF TasksAreAssigned
<1> QED
  BY <1>1, <1>2, <1>3, <1>4

\* Nothing of the workers changes, whatever their channels receive or lose, and whoever
\* else takes users off active_users.
LEMMA QuietKeeps ==
    ASSUME DispatcherInv, ChannelsOK', UNCHANGED workerVars,
           \A v \in Worker : activeUsers'[v] \subseteq activeUsers[v]
    PROVE  DispatcherInv'
<1>1. UNCHANGED <<dispatcher, handling, phase, currentEpoch, assigned, task, taskEpoch, reaped,
                  orphans, workerFaults>>
  BY DEF workerVars
<1>2. \A v \in Worker : Running(v)' = Running(v)
  BY <1>1 DEF Running
<1>3. WorkerTypeOK'
  BY <1>1 DEF DispatcherInv, TasksBelong, WorkerTypeOK
<1> QED
  BY <1>1, <1>2, <1>3, TasksProgress

LEMMA CancelProgress ==
    ASSUME DispatcherInv, NEW w \in Worker, NEW us \in SUBSET UserId, CancelAll(w, us),
           UNCHANGED <<dispatcher, handling, phase, currentEpoch, assigned, taskEpoch, reaped,
                       orphans, channel>>,
           workerFaults' \in Nat, workerFaults' = 0 => workerFaults = 0
    PROVE  DispatcherInv'
<1>1. /\ task' \in [Worker -> [UserId -> Stage]]
      /\ activeUsers' \in [Worker -> SUBSET UserId]
      /\ \A v \in Worker : Running(v)' = Running(v)
      /\ \A v \in Worker : activeUsers'[v] \subseteq activeUsers[v] \union Running(v)
  BY CancelKeepsRunning DEF DispatcherInv, TasksBelong, WorkerTypeOK
<1>2. ChannelsOK'
  BY <1>1 DEF DispatcherInv, ChannelsOK
<1>3. WorkerTypeOK'
  BY <1>1 DEF DispatcherInv, TasksBelong, WorkerTypeOK
<1> QED
  BY <1>1, <1>2, <1>3, TasksProgress

LEMMA TaskStepKeeps ==
    ASSUME DispatcherInv, NEW w \in Worker, TaskStep(w) \/ TaskFails(w) \/ ForceTasks(w)
    PROVE  DispatcherInv'
<1>1. CASE TaskStep(w)
  <2>1. UNCHANGED <<dispatcher, handling, phase, currentEpoch, assigned, taskEpoch, orphans,
                    workerFaults, channel>>
    BY <1>1 DEF TaskStep
  <2>2. /\ activeUsers \in [Worker -> SUBSET UserId]
        /\ task \in [Worker -> [UserId -> Stage]] /\ reaped \in [Worker -> Stage]
    BY DEF DispatcherInv, TasksBelong, ChannelsOK, WorkerTypeOK
  <2>3. ASSUME NEW u \in UserId,
               TaskStarts(w, u) \/ TaskActive(w, u) \/ TaskLeaves(w, u) \/ TaskEnds(w, u)
        PROVE  DispatcherInv'
    <3>1. /\ reaped' = reaped
          /\ task[w][u] # "none"
          /\ \E s \in Stage : task' = [task EXCEPT ![w][u] = s]
      BY <2>3 DEF TaskStarts, TaskActive, TaskLeaves, TaskEnds, Stage
    <3>2. /\ activeUsers' \in [Worker -> SUBSET UserId]
          /\ \A v \in Worker : activeUsers'[v] \subseteq activeUsers[v] \union Running(v)
      BY <2>2, <2>3, <3>1 DEF TaskStarts, TaskActive, TaskLeaves, TaskEnds, Running
    <3>3. /\ task' \in [Worker -> [UserId -> Stage]]
          /\ \A v \in Worker : Running(v)' \subseteq Running(v)
      BY <2>2, <3>1 DEF Running
    <3>4. ChannelsOK'
      BY <2>1, <3>2 DEF DispatcherInv, ChannelsOK
    <3>5. WorkerTypeOK'
      BY <2>1, <3>1, <3>3 DEF DispatcherInv, TasksBelong, WorkerTypeOK
    <3> QED
      BY <2>1, <3>2, <3>3, <3>4, <3>5, TasksProgress
  <2>4. CASE ReapedLeaves(w) \/ ReapedEnds(w)
    <3>1. /\ reaped[w] # "none"
          /\ \E s \in {"closing", "none"} : reaped' = [reaped EXCEPT ![w] = s]
          /\ task' = task
      BY <2>4 DEF ReapedLeaves, ReapedEnds
    <3>2. /\ activeUsers' \in [Worker -> SUBSET UserId]
          /\ \A v \in Worker : activeUsers'[v] \subseteq activeUsers[v]
      BY <2>2, <2>4 DEF ReapedLeaves, ReapedEnds
    <3>3. /\ reaped' \in [Worker -> Stage]
          /\ \A v \in Worker : reaped'[v] # "none" => reaped[v] # "none"
      BY <2>2, <3>1 DEF Stage
    <3>4. \A v \in Worker : Running(v)' = Running(v)
      BY <3>1 DEF Running
    <3>5. ChannelsOK'
      BY <2>1, <3>2 DEF DispatcherInv, ChannelsOK
    <3>6. WorkerTypeOK'
      BY <2>1, <3>1, <3>3 DEF DispatcherInv, TasksBelong, WorkerTypeOK
    <3> QED
      BY <2>1, <3>2, <3>4, <3>5, <3>6, TasksProgress
  <2> QED
    BY <1>1, <2>3, <2>4 DEF TaskStep
<1>2. CASE TaskFails(w)
  <2>1. PICK u \in UserId : CancelAll(w, {u})
    BY <1>2 DEF TaskFails
  <2>2. workerFaults' \in Nat /\ workerFaults' # 0
    BY <1>2 DEF TaskFails, DispatcherInv, TasksBelong, WorkerTypeOK
  <2> QED
    BY <1>2, <2>1, <2>2, CancelProgress DEF TaskFails
<1>3. CASE ForceTasks(w)
  <2>1. PICK us \in SUBSET UserId : CancelAll(w, us)
    BY <1>3 DEF ForceTasks, Running
  <2> QED
    BY <1>3, <2>1, CancelProgress DEF ForceTasks, DispatcherInv, TasksBelong, WorkerTypeOK
<1> QED
  BY <1>1, <1>2, <1>3

-----------------------------------------------------------------------------
\* start_test and stop_test, up to their first await.
LEMMA StopAllTasksKeeps ==
    ASSUME DispatcherInv, NEW w \in Worker, Receive(w),
           Received(w).type \in {"start_test", "stop_test"}, StopAllTasks(w, Received(w)),
           phase' \in [Worker -> Phase],
           \A v \in Worker : phase'[v] = "IDLE" => phase[v] = "IDLE",
           UNCHANGED <<currentEpoch, taskEpoch, reaped, orphans, workerFaults>>
    PROVE  DispatcherInv'
<1> USE DEF DispatcherInv, TasksBelong
<1>1. Received(w) \in Command /\ channel' \in [Worker -> Seq(WellFormed)]
  BY ReceivedProper DEF WellFormed
<1>2. PICK await \in {"halt", "clear"} :
        /\ Suspend(w, Received(w), await)
        /\ await = "clear" => Running(w) = {} /\ assigned'[w] = {}
        /\ assigned' = assigned \/ (Running(w) = {} /\ assigned' = [assigned EXCEPT ![w] = {}])
        /\ CancelAll(w, Running(w)) \/ UNCHANGED <<task, activeUsers>>
  BY DEF StopAllTasks, WorkerTypeOK
<1>3. /\ task' \in [Worker -> [UserId -> Stage]]
      /\ activeUsers' \in [Worker -> SUBSET UserId]
      /\ \A v \in Worker : Running(v)' = Running(v)
      /\ \A v \in Worker : activeUsers'[v] \subseteq activeUsers[v] \union Running(v)
  <2>1. Running(w) \subseteq UserId
    BY DEF Running
  <2> QED
    BY SMTT(40), <1>2, <2>1, CancelKeepsRunning DEF WorkerTypeOK, ChannelsOK, Running
<1>4. dispatcher[w] = "poll" /\ await \in DispatcherAwait /\ reaped[w] = "none"
  BY DEF Receive, DispatcherAwait, WorkerTypeOK
<1>5. ChannelsOK'
  BY <1>1, <1>3 DEF ChannelsOK
<1>6. WorkerTypeOK'
  BY <1>1, <1>2, <1>3, <1>4 DEF Suspend, WorkerTypeOK
<1>7. ClearIsDrained'
  BY <1>2, <1>3 DEF Suspend, ClearIsDrained, WorkerTypeOK
<1>8. IdleIsQuiet'
  <2> SUFFICES ASSUME NEW v \in Worker, phase'[v] = "IDLE"
               PROVE  Running(v)' = {} /\ assigned'[v] = {} /\ activeUsers'[v] = {}
    BY DEF IdleIsQuiet
  <2>1. Running(v) = {} /\ assigned[v] = {} /\ activeUsers[v] = {}
    BY DEF IdleIsQuiet
  <2>2. Running(v)' = {} /\ activeUsers'[v] = {}
    BY <1>3, <2>1
  <2>3. assigned'[v] = {}
    BY <1>2, <2>1 DEF WorkerTypeOK
  <2> QED
    BY <2>2, <2>3
<1>9. OneEpochAtATime'
  BY <1>3 DEF OneEpochAtATime
<1>10. TasksAreAssigned'
  BY <1>2, <1>3, <1>4 DEF Suspend, TasksAreAssigned, WorkerTypeOK
<1> QED
  BY <1>5, <1>6, <1>7, <1>8, <1>9, <1>10

\* Commands that are done without an await.
LEMMA HandledAtOnceKeeps ==
    ASSUME DispatcherInv, NEW w \in Worker, Ignore(w) \/ StartAgain(w) \/ AddUser(w)
    PROVE  DispatcherInv'
<1> USE DEF DispatcherInv, TasksBelong
<1>1. Receive(w)
  BY DEF Ignore, StartAgain, AddUser
<1>2. Received(w) \in WellFormed /\ channel' \in [Worker -> Seq(WellFormed)]
  BY <1>1, ReceivedProper
<1>3. dispatcher[w] = "poll"
  BY <1>1 DEF Receive
<1>4. CASE Ignore(w)
  BY <1>2, <1>4, QuietKeeps DEF Ignore, ChannelsOK
<1>5. CASE StartAgain(w)
  <2>1. phase' = [phase EXCEPT ![w] = "RUNNING"] /\ "RUNNING" \in Phase
    BY <1>5 DEF StartAgain, Phase
  <2>2. UNCHANGED <<dispatcher, handling, currentEpoch, assigned, task, taskEpoch, reaped,
                    orphans, workerFaults, activeUsers>>
    BY <1>5 DEF StartAgain
  <2>3. \A v \in Worker : Running(v)' = Running(v)
    BY <2>2 DEF Running
  <2>4. ChannelsOK' /\ WorkerTypeOK'
    BY <1>2, <2>1, <2>2 DEF ChannelsOK, WorkerTypeOK
  <2>5. ClearIsDrained' /\ OneEpochAtATime' /\ TasksAreAssigned'
    <3>1. ClearIsDrained'
      BY <2>2, <2>3 DEF ClearIsDrained
    <3>2. OneEpochAtATime'
      BY <2>2, <2>3 DEF OneEpochAtATime
    <3>3. TasksAreAssigned'
      BY <2>2, <2>3 DEF TasksAreAssigned
    <3> QED
      BY <3>1, <3>2, <3>3
  <2>6. IdleIsQuiet'
    BY <2>1, <2>2, <2>3 DEF IdleIsQuiet, WorkerTypeOK
  <2> QED
    BY <2>4, <2>5, <2>6
<1>6. CASE AddUser(w)
  <2> DEFINE u == Received(w).user
  <2>1. /\ u \in UserId /\ u \notin assigned[w] /\ phase[w] = "RUNNING"
    BY <1>2, <1>6 DEF AddUser, Accepts, Ignored, WellFormed
  <2>2. /\ assigned' = [assigned EXCEPT ![w] = @ \union {u}]
        /\ task' = [task EXCEPT ![w][u] = "starting"]
        /\ taskEpoch' = [taskEpoch EXCEPT ![w][u] = currentEpoch[w]]
        /\ orphans' = IF task[w][u] = "none" THEN orphans
                      ELSE [orphans EXCEPT ![w] = @ \union {u}]
        /\ UNCHANGED <<dispatcher, handling, phase, currentEpoch, reaped, workerFaults,
                       activeUsers>>
    BY <1>6 DEF AddUser
  <2> HIDE DEF u
  <2>3. /\ Running(w)' = Running(w) \union {u}
        /\ \A v \in Worker \ {w} : Running(v)' = Running(v)
    BY <2>1, <2>2 DEF Running, WorkerTypeOK
  <2>4. ChannelsOK' /\ WorkerTypeOK'
    BY <1>2, <2>1, <2>2 DEF ChannelsOK, WorkerTypeOK, Stage
  <2>5. ClearIsDrained'
    BY <1>3, <2>2, <2>3 DEF ClearIsDrained, WorkerTypeOK
  <2>6. IdleIsQuiet'
    BY <2>1, <2>2, <2>3 DEF IdleIsQuiet, WorkerTypeOK
  <2>7. OneEpochAtATime'
    BY <2>1, <2>2, <2>3 DEF OneEpochAtATime, WorkerTypeOK
  <2>8. TasksAreAssigned'
    <3>1. workerFaults = 0 => task[w][u] = "none"
      BY <1>3, <2>1 DEF TasksAreAssigned, Running
    <3> QED
      BY <2>1, <2>2, <2>3, <3>1 DEF TasksAreAssigned, WorkerTypeOK
  <2> QED
    BY <2>4, <2>5, <2>6, <2>7, <2>8
<1> QED
  BY <1>4, <1>5, <1>6

\* The second halves of start_test and stop_test, and their failure.
LEMMA ClearKeeps ==
    ASSUME DispatcherInv, NEW w \in Worker, TasksStopped(w) \/ ClearActive(w) \/ HandlerFails(w)
    PROVE  DispatcherInv'
<1> USE DEF DispatcherInv, TasksBelong
<1>1. UNCHANGED <<task, taskEpoch, reaped, orphans, channel>>
  BY DEF TasksStopped, ClearActive, HandlerFails, redisVars
<1>2. \A v \in Worker : Running(v)' = Running(v)
  BY <1>1 DEF Running
<1>3. CASE TasksStopped(w)
  <2>1. /\ dispatcher[w] = "halt" /\ Running(w) = {}
        /\ assigned' = [assigned EXCEPT ![w] = {}]
        /\ dispatcher' = [dispatcher EXCEPT ![w] = "clear"]
        /\ handling' = handling
        /\ UNCHANGED <<phase, currentEpoch, workerFaults, activeUsers>>
    BY <1>3 DEF TasksStopped, Suspend, redisVars, WorkerTypeOK
  <2>2. ChannelsOK' /\ WorkerTypeOK'
    BY <1>1, <2>1 DEF ChannelsOK, WorkerTypeOK, DispatcherAwait
  <2>3. ClearIsDrained' /\ IdleIsQuiet'
    BY <1>2, <2>1 DEF ClearIsDrained, IdleIsQuiet, WorkerTypeOK
  <2>4. OneEpochAtATime'
    BY <1>1, <1>2, <2>1 DEF OneEpochAtATime
  <2>5. TasksAreAssigned'
    BY <1>1, <1>2, <2>1 DEF TasksAreAssigned, WorkerTypeOK
  <2> QED
    BY <2>2, <2>3, <2>4, <2>5
<1>4. CASE ClearActive(w)
  <2>1. /\ dispatcher[w] = "clear" /\ Running(w) = {} /\ assigned[w] = {}
        /\ activeUsers' = [activeUsers EXCEPT ![w] = {}]
        /\ dispatcher' = [dispatcher EXCEPT ![w] = "poll"]
        /\ handling' = [handling EXCEPT ![w] = NoCommand]
        /\ UNCHANGED <<assigned, workerFaults>>
    BY <1>4 DEF ClearActive, Return, ClearIsDrained
  <2>2. handling[w].type = "start_test" => handling[w].epoch \in Nat
    BY DEF WorkerTypeOK, Command, NoCommand
  <2>3. \E p \in Phase, e \in Nat : /\ phase' = [phase EXCEPT ![w] = p]
                                   /\ currentEpoch' = [currentEpoch EXCEPT ![w] = e]
    <3>1. CASE handling[w].type = "start_test"
      BY <1>4, <2>2, <3>1 DEF ClearActive, Phase
    <3>2. CASE handling[w].type = "stop_test"
      <4>1. currentEpoch' = [currentEpoch EXCEPT ![w] = currentEpoch[w]] /\ currentEpoch[w] \in Nat
        BY <1>4, <3>2 DEF ClearActive, WorkerTypeOK
      <4> QED
        BY <1>4, <3>2, <4>1 DEF ClearActive, Phase
    <3> QED
      BY <1>4, <3>1, <3>2 DEF ClearActive
  <2>4. ChannelsOK' /\ WorkerTypeOK'
    <3>1. phase' \in [Worker -> Phase] /\ currentEpoch' \in [Worker -> Nat]
      BY <2>3 DEF WorkerTypeOK
    <3>2. ChannelsOK'
      BY <1>1, <2>1 DEF ChannelsOK
    <3> QED
      BY <1>1, <2>1, <3>1, <3>2 DEF WorkerTypeOK, DispatcherAwait
  <2>5. ClearIsDrained' /\ IdleIsQuiet' /\ OneEpochAtATime' /\ TasksAreAssigned'
    <3>1. ClearIsDrained'
      BY <1>2, <2>1, <2>3 DEF ClearIsDrained, WorkerTypeOK
    <3>2. IdleIsQuiet'
      <4>1. \A v \in Worker \ {w} : phase'[v] = phase[v] /\ activeUsers'[v] = activeUsers[v]
                                    /\ dispatcher'[v] = dispatcher[v]
        BY <2>1, <2>3 DEF WorkerTypeOK, ChannelsOK
      <4>2. activeUsers'[w] = {}
        BY <2>1 DEF ChannelsOK
      <4> QED
        BY <1>2, <2>1, <4>1, <4>2 DEF IdleIsQuiet
    <3>3. OneEpochAtATime'
      BY <1>1, <1>2, <2>1, <2>3 DEF ClearIsDrained, OneEpochAtATime, WorkerTypeOK
    <3>4. TasksAreAssigned'
      BY <1>1, <1>2, <2>1, <2>3 DEF TasksAreAssigned, WorkerTypeOK
    <3> QED
      BY <3>1, <3>2, <3>3, <3>4
  <2> QED
    BY <2>4, <2>5
<1>5. CASE HandlerFails(w)
  <2>1. /\ dispatcher[w] \in {"clear", "drop"}
        /\ dispatcher' = [dispatcher EXCEPT ![w] = "poll"]
        /\ handling' = [handling EXCEPT ![w] = NoCommand]
        /\ workerFaults' = workerFaults + 1
        /\ UNCHANGED <<phase, currentEpoch, assigned, activeUsers>>
    BY <1>5 DEF HandlerFails, Return, redisVars
  <2>2. ChannelsOK' /\ WorkerTypeOK'
    <3>1. ChannelsOK'
      BY <1>1, <2>1 DEF ChannelsOK
    <3>2. /\ dispatcher' \in [Worker -> DispatcherAwait]
          /\ handling' \in [Worker -> Command \union {NoCommand}]
          /\ workerFaults' \in Nat
      BY <2>1 DEF WorkerTypeOK, DispatcherAwait
    <3>3. ASSUME NEW v \in Worker
          PROVE  /\ dispatcher'[v] = "poll" => handling'[v] = NoCommand
                 /\ dispatcher'[v] \in {"halt", "clear"} =>
                       handling'[v].type \in {"start_test", "stop_test"}
                 /\ dispatcher'[v] \in {"drop", "reap"} => handling'[v].user \in UserId
                 /\ reaped[v] # "none" => dispatcher'[v] = "reap"
      <4>1. CASE v = w
        BY <2>1, <4>1 DEF WorkerTypeOK
      <4>2. CASE v # w
        BY <2>1, <4>2 DEF WorkerTypeOK
      <4> QED
        BY <4>1, <4>2
    <3> QED
      BY <1>1, <2>1, <3>1, <3>2, <3>3 DEF WorkerTypeOK
  <2>3. ClearIsDrained' /\ IdleIsQuiet' /\ OneEpochAtATime' /\ TasksAreAssigned'
    BY <1>1, <1>2, <2>1 DEF ClearIsDrained, IdleIsQuiet, OneEpochAtATime, TasksAreAssigned,
       WorkerTypeOK
  <2> QED
    BY <2>2, <2>3
<1> QED
  BY <1>3, <1>4, <1>5

\* remove_user: SREM, then pop, cancel and await.
LEMMA RemoveKeeps ==
    ASSUME DispatcherInv, NEW w \in Worker, RemoveUser(w) \/ DropUser(w) \/ TaskReaped(w)
    PROVE  DispatcherInv'
<1> USE DEF DispatcherInv, TasksBelong
<1>1. CASE RemoveUser(w)
  <2> DEFINE c == Received(w)
  <2>1. /\ c \in Command /\ c.user \in UserId /\ phase[w] # "IDLE"
        /\ channel' \in [Worker -> Seq(WellFormed)]
    BY <1>1, ReceivedProper DEF RemoveUser, Accepts, Ignored, WellFormed
  <2>2. /\ dispatcher[w] = "poll"
        /\ assigned' = [assigned EXCEPT ![w] = @ \ {c.user}]
        /\ dispatcher' = [dispatcher EXCEPT ![w] = "drop"]
        /\ handling' = [handling EXCEPT ![w] = c]
        /\ UNCHANGED <<phase, currentEpoch, task, taskEpoch, reaped, orphans, workerFaults,
                       activeUsers>>
    BY <1>1 DEF RemoveUser, Receive, Suspend
  <2> HIDE DEF c
  <2>3. \A v \in Worker : Running(v)' = Running(v)
    BY <2>2 DEF Running
  <2>4. ChannelsOK' /\ WorkerTypeOK'
    BY <2>1, <2>2 DEF ChannelsOK, WorkerTypeOK, DispatcherAwait
  <2>5. ClearIsDrained' /\ IdleIsQuiet' /\ OneEpochAtATime'
    BY <2>1, <2>2, <2>3 DEF ClearIsDrained, IdleIsQuiet, OneEpochAtATime, WorkerTypeOK
  <2>6. TasksAreAssigned'
    BY <2>2, <2>3 DEF TasksAreAssigned, WorkerTypeOK
  <2> QED
    BY <2>4, <2>5, <2>6
<1>2. CASE DropUser(w)
  <2> DEFINE u == handling[w].user
  <2>1. dispatcher[w] = "drop" /\ u \in UserId /\ reaped[w] = "none"
    BY <1>2 DEF DropUser, WorkerTypeOK
  <2>2. PICK active \in SUBSET {u} :
          /\ activeUsers' = [activeUsers EXCEPT ![w] = (@ \ {u}) \union active]
          /\ active # {} => task[w][u] # "none"
    BY <1>2 DEF DropUser
  <2>3. /\ reaped' = [reaped EXCEPT ![w] = Unwound(task[w][u])]
        /\ task' = [task EXCEPT ![w][u] = "none"]
        /\ UNCHANGED <<phase, currentEpoch, assigned, taskEpoch, orphans, workerFaults, channel>>
    BY <1>2 DEF DropUser
  <2>4. \/ /\ task[w][u] = "none"
           /\ dispatcher' = [dispatcher EXCEPT ![w] = "poll"]
           /\ handling' = [handling EXCEPT ![w] = NoCommand]
        \/ /\ dispatcher' = [dispatcher EXCEPT ![w] = "reap"]
           /\ handling' = handling
    <3>1. [handling EXCEPT ![w] = handling[w]] = handling
      BY DEF WorkerTypeOK
    <3>2. IF task[w][u] = "none" THEN Return(w) ELSE Suspend(w, handling[w], "reap")
      BY <1>2 DEF DropUser
    <3> QED
      BY <3>1, <3>2 DEF Return, Suspend
  <2>5. /\ Unwound(task[w][u]) \in Stage
        /\ Unwound(task[w][u]) = "none" <=> task[w][u] = "none"
    BY <2>1, UnwoundStage DEF WorkerTypeOK
  <2> HIDE DEF u
  <2>6. /\ Running(w)' = Running(w) \ {u}
        /\ \A v \in Worker \ {w} : Running(v)' = Running(v)
    BY <2>1, <2>3 DEF Running, WorkerTypeOK
  <2>7. ChannelsOK'
    BY <2>1, <2>2, <2>3 DEF ChannelsOK
  <2>8. WorkerTypeOK'
    <3>1. /\ reaped' \in [Worker -> Stage]
          /\ task' \in [Worker -> [UserId -> Stage]]
      BY <2>1, <2>3, <2>5 DEF WorkerTypeOK, Stage
    <3>2. /\ dispatcher' \in [Worker -> DispatcherAwait]
          /\ handling' \in [Worker -> Command \union {NoCommand}]
      BY <2>4 DEF WorkerTypeOK, DispatcherAwait
    <3>3. ASSUME NEW v \in Worker
          PROVE  /\ dispatcher'[v] = "poll" => handling'[v] = NoCommand
                 /\ dispatcher'[v] \in {"halt", "clear"} =>
                       handling'[v].type \in {"start_test", "stop_test"}
                 /\ dispatcher'[v] \in {"drop", "reap"} => handling'[v].user \in UserId
                 /\ reaped'[v] # "none" => dispatcher'[v] = "reap"
      <4>1. CASE v = w
        <5>1. /\ reaped'[w] = Unwound(task[w][u])
              /\ handling[w].user \in UserId
          BY <2>1, <2>3 DEF WorkerTypeOK, u
        <5>2. \/ /\ task[w][u] = "none"
                 /\ dispatcher'[w] = "poll" /\ handling'[w] = NoCommand
              \/ dispatcher'[w] = "reap" /\ handling'[w] = handling[w]
          BY <2>4 DEF WorkerTypeOK
        <5> QED
          BY <2>5, <4>1, <5>1, <5>2
      <4>2. CASE v # w
        <5>1. /\ dispatcher'[v] = dispatcher[v] /\ handling'[v] = handling[v]
              /\ reaped'[v] = reaped[v]
          BY <2>3, <2>4, <4>2 DEF WorkerTypeOK
        <5> QED
          BY <5>1 DEF WorkerTypeOK
      <4> QED
        BY <4>1, <4>2
    <3> QED
      BY <2>3, <3>1, <3>2, <3>3 DEF WorkerTypeOK
  <2>9. ClearIsDrained'
    BY <2>3, <2>4, <2>6 DEF ClearIsDrained, WorkerTypeOK
  <2>10. IdleIsQuiet'
    BY <2>1, <2>2, <2>3, <2>6 DEF IdleIsQuiet, ChannelsOK, Running
  <2>11. OneEpochAtATime'
    BY <2>3, <2>6 DEF OneEpochAtATime
  <2>12. TasksAreAssigned'
    <3> SUFFICES ASSUME workerFaults = 0, NEW v \in Worker
                 PROVE  /\ orphans[v] = {}
                        /\ \A x \in Running(v)' :
                             x \in assigned[v]
                              \/ (dispatcher'[v] = "drop" /\ handling'[v].user = x)
      BY <2>3 DEF TasksAreAssigned
    <3>1. /\ orphans[v] = {}
          /\ \A x \in Running(v) :
               x \in assigned[v] \/ (dispatcher[v] = "drop" /\ handling[v].user = x)
      BY DEF TasksAreAssigned
    <3>2. CASE v = w
      <4>1. \A x \in Running(w)' : x \in Running(w) /\ x # handling[w].user
        BY <2>6 DEF u
      <4> QED
        BY <3>1, <3>2, <4>1
    <3>3. CASE v # w
      <4>1. dispatcher'[v] = dispatcher[v] /\ handling'[v] = handling[v]
        BY <2>4, <3>3 DEF WorkerTypeOK
      <4>2. Running(v)' = Running(v)
        BY <2>6, <3>3
      <4> QED
        BY <3>1, <4>1, <4>2
    <3> QED
      BY <3>2, <3>3
  <2> QED
    BY <2>7, <2>8, <2>9, <2>10, <2>11, <2>12
<1>3. CASE TaskReaped(w)
  <2>1. /\ dispatcher[w] = "reap" /\ reaped[w] = "none"
        /\ dispatcher' = [dispatcher EXCEPT ![w] = "poll"]
        /\ handling' = [handling EXCEPT ![w] = NoCommand]
        /\ UNCHANGED <<phase, currentEpoch, assigned, task, taskEpoch, reaped, orphans,
                       workerFaults, activeUsers, channel>>
    BY <1>3 DEF TaskReaped, Return, redisVars
  <2>2. \A v \in Worker : Running(v)' = Running(v)
    BY <2>1 DEF Running
  <2>3. ChannelsOK' /\ WorkerTypeOK'
    BY <2>1 DEF ChannelsOK, WorkerTypeOK, DispatcherAwait
  <2>4. ClearIsDrained' /\ IdleIsQuiet' /\ OneEpochAtATime' /\ TasksAreAssigned'
    BY <2>1, <2>2 DEF ClearIsDrained, IdleIsQuiet, OneEpochAtATime, TasksAreAssigned,
       WorkerTypeOK
  <2> QED
    BY <2>3, <2>4
<1> QED
  BY <1>1, <1>2, <1>3

LEMMA DispatchKeeps ==
    ASSUME DispatcherInv, NEW w \in Worker, Dispatch(w) \/ HandlerFails(w)
    PROVE  DispatcherInv'
<1>1. CASE StartNewer(w)
  BY <1>1, StopAllTasksKeeps DEF StartNewer, Accepts, DispatcherInv, TasksBelong, WorkerTypeOK
<1>2. CASE StopCurrent(w)
  <2>1. phase' \in [Worker -> Phase]
    BY <1>2 DEF StopCurrent, Phase, DispatcherInv, TasksBelong, WorkerTypeOK
  <2>2. \A v \in Worker : phase'[v] = "IDLE" => phase[v] = "IDLE"
    BY <1>2 DEF StopCurrent, DispatcherInv, TasksBelong, WorkerTypeOK
  <2> QED
    BY <1>2, <2>1, <2>2, StopAllTasksKeeps DEF StopCurrent, Accepts
<1> QED
  BY <1>1, <1>2, HandledAtOnceKeeps, ClearKeeps, RemoveKeeps DEF Dispatch

LEMMA DeliverKeeps ==
    ASSUME DispatcherInv, NEW w \in Worker, Deliver(w)
    PROVE  DispatcherInv'
<1>1. PICK type \in CommandType, e \in 1 .. MaxEpoch, u \in UserId :
        channel' = [channel EXCEPT ![w] =
            Append(@, [type |-> type, epoch |-> e,
                       user |-> IF type \in {"add_user", "remove_user"} THEN u ELSE NoUser])]
  BY DEF Deliver
<1> DEFINE c == [type |-> type, epoch |-> e,
                 user |-> IF type \in {"add_user", "remove_user"} THEN u ELSE NoUser]
<1>2. c \in WellFormed
  BY DEF WellFormed, Command
<1>3. channel[w] \in Seq(WellFormed)
  BY DEF DispatcherInv, ChannelsOK
<1>4. Append(channel[w], c) \in Seq(WellFormed)
  BY <1>2, <1>3
<1>5. channel' = [channel EXCEPT ![w] = Append(channel[w], c)]
  BY <1>1
<1> HIDE DEF c
<1>6. ChannelsOK'
  BY <1>4, <1>5 DEF Deliver, DispatcherInv, ChannelsOK, redisVars
<1>7. UNCHANGED <<workerVars, activeUsers>>
  BY DEF Deliver, redisVars
<1> QED
  BY <1>6, <1>7, QuietKeeps

LEMMA StutterKeeps ==
    ASSUME DispatcherInv, UNCHANGED dispatcherVars
    PROVE  DispatcherInv'
<1>1. UNCHANGED <<workerVars, activeUsers, channel>>
  BY DEF dispatcherVars, redisVars
<1>2. ChannelsOK'
  BY <1>1 DEF DispatcherInv, ChannelsOK
<1> QED
  BY <1>1, <1>2, QuietKeeps

THEOREM DispatcherInvariant == DispatcherSpec => []DispatcherInv
<1>1. DispatcherInv /\ [DispatcherNext]_dispatcherVars => DispatcherInv'
  BY TaskStepKeeps, DispatchKeeps, DeliverKeeps, StutterKeeps DEF DispatcherNext, WorkerNext, WorkerStep
<1> QED
  BY <1>1, InitDispatcher, PTL DEF DispatcherSpec

(***************************************************************************)
(* A worker that has handled stop_test is quiet.                           *)
(***************************************************************************)
THEOREM WorkersAreQuiet == DispatcherSpec => []IdleIsQuiet
<1>1. DispatcherInv => IdleIsQuiet
  BY DEF DispatcherInv
<1> QED
  BY <1>1, DispatcherInvariant, PTL

(***************************************************************************)
(* Every task belongs to the test the worker is in, and to a user the      *)
(* dispatcher can find as long as nothing fails.                           *)
(***************************************************************************)
THEOREM EveryTaskBelongs == DispatcherSpec => []TasksBelong
<1>1. DispatcherInv => TasksBelong
  BY DEF DispatcherInv
<1> QED
  BY <1>1, DispatcherInvariant, PTL

-----------------------------------------------------------------------------
\* Part 2: what the workers are told

\* No Redis call, no task and no orchestrator fails.
NothingFails == MaxFaults = 0 /\ MaxWorkerFaults = 0

(***************************************************************************)
(* The log of a worker when nothing fails.  A worker compares epochs and   *)
(* trusts the order of its channel, so this is what the orchestrator owes  *)
(* it: epochs never go back, start_test is the first a worker hears of a   *)
(* test, and every test but the one in progress has been stopped on every  *)
(* worker.                                                                 *)
(***************************************************************************)
ProperCommand == { c \in WellFormed : c.epoch > 0 }

EpochsGrow ==
    \A w \in Worker : \A i, j \in 1 .. Len(commands[w]) :
        i < j => commands[w][i].epoch <= commands[w][j].epoch

StartComesFirst ==
    \A w \in Worker : \A j \in 1 .. Len(commands[w]) :
        commands[w][j].type # "start_test" =>
            \E i \in 1 .. j - 1 : /\ commands[w][i].type = "start_test"
                                  /\ commands[w][i].epoch = commands[w][j].epoch

Ended(w, e) ==
    \E i \in 1 .. Len(commands[w]) : /\ commands[w][i].type = "stop_test"
                                     /\ commands[w][i].epoch = e

TestsEnd ==
    \A w \in Worker : \A e \in 1 .. testEpoch :
        e < testEpoch \/ testState = "IDLE" => Ended(w, e)

LogGrows ==
    /\ commands \in [Worker -> Seq(ProperCommand)]
    /\ EpochsGrow /\ StartComesFirst

LogEnds ==
    /\ TestsEnd
    /\ testState \in {"RUNNING", "STOPPING"} => AllHeardStart
    /\ testState # "IDLE" => testEpoch > 0

\* The awaits after the broadcast of stop_test.
Closing == {"clear_list", "clear", "stop_point", "set_idle"}

\* What the handler of r knows of it.
LogFits(r) ==
    /\ RollsBack(r) => Worker = {}
    /\ pc[r] = "stop_pub" => \A w \in Worker \ recipients[r] : Heard(w, "stop_test")
    /\ pc[r] \in Closing => \A w \in Worker : Heard(w, "stop_test")
    /\ pc[r] = "stop_cas" => testState = "RUNNING"
    /\ pc[r] = "idle" => testState \in {"IDLE", "RUNNING"}

Unharmed == faults = 0 /\ flaps = 0

LogInv == BooksInv /\ Unharmed /\ LogGrows /\ LogEnds /\ \A r \in Request : LogFits(r)

\* What each step owes.
LogStep(r) == Unharmed' /\ LogGrows' /\ LogEnds' /\ LogFits(r)'

-----------------------------------------------------------------------------
\* A command in its turn: under the epoch of the test, and after its start_test.
LEMMA PublishGrows ==
    ASSUME LogInv, NEW w \in Worker, NEW type, NEW u,
           Publish(w, type, testEpoch, u),
           [type |-> type, epoch |-> testEpoch, user |-> u] \in ProperCommand,
           type # "start_test" => Heard(w, "start_test")
    PROVE  LogGrows'
<1> DEFINE msg == [type |-> type, epoch |-> testEpoch, user |-> u]
           n   == Len(commands[w])
<1>0. TypeOK /\ subscribed = Worker /\ CommandsBehind
  BY DEF LogInv, BooksInv, ChannelInv, OneClientInv, FenceInv, EpochFence, ChannelsFit, Presence
<1>1. /\ \A v \in Worker \ {w} : commands'[v] = commands[v]
      /\ Len(commands'[w]) = n + 1 /\ n \in Nat
      /\ \A i \in 1 .. n : commands'[w][i] = commands[w][i]
      /\ commands'[w][n + 1] = msg
  <2>1. msg \in Command
    BY DEF ProperCommand, WellFormed
  <2>2. commands \in [Worker -> Seq(Command)]
    BY <1>0 DEF TypeOK, RedisTypeOK
  <2>3. commands' = [commands EXCEPT ![w] = Append(@, msg)]
    BY <1>0 DEF Publish
  <2> HIDE DEF msg
  <2>4. /\ commands'[w] = Append(commands[w], msg) /\ commands[w] \in Seq(Command)
        /\ \A v \in Worker \ {w} : commands'[v] = commands[v]
    BY <2>2, <2>3
  <2>5. /\ Len(commands[w]) \in Nat
        /\ Len(Append(commands[w], msg)) = Len(commands[w]) + 1
        /\ \A i \in 1 .. Len(commands[w]) : Append(commands[w], msg)[i] = commands[w][i]
        /\ Append(commands[w], msg)[Len(commands[w]) + 1] = msg
    BY <2>1, <2>4, AppendProperties, LenProperties
  <2> QED
    BY <2>4, <2>5, Zenon
<1>2. commands' \in [Worker -> Seq(ProperCommand)]
  <2>1. commands \in [Worker -> Seq(ProperCommand)] /\ msg \in ProperCommand
    BY DEF LogInv, LogGrows
  <2>2. commands' = [commands EXCEPT ![w] = Append(commands[w], msg)]
    BY <1>0 DEF Publish
  <2> HIDE DEF msg
  <2>3. Append(commands[w], msg) \in Seq(ProperCommand)
    BY <2>1
  <2> QED
    BY <2>1, <2>2, <2>3
<1>3. msg.type = type /\ msg.epoch = testEpoch
  OBVIOUS
<1>4. \A i \in 1 .. n : commands[w][i].epoch <= testEpoch
  BY <1>0 DEF CommandsBehind
<1>5. Heard(w, "start_test") <=>
        \E i \in 1 .. n : commands[w][i].type = "start_test" /\ commands[w][i].epoch = testEpoch
  BY DEF Heard
<1>6. testEpoch \in Nat
  BY <1>0 DEF TypeOK, RedisTypeOK
<1> HIDE DEF msg, n
<1>7. EpochsGrow'
  <2>1. SUFFICES ASSUME NEW v \in Worker, NEW i \in 1 .. Len(commands'[v]),
                        NEW j \in 1 .. Len(commands'[v]), i < j
                 PROVE  commands'[v][i].epoch <= commands'[v][j].epoch
    BY DEF EpochsGrow
  <2>2. CASE v # w
    BY <1>1, <2>1, <2>2 DEF LogInv, LogGrows, EpochsGrow
  <2>3. CASE v = w /\ j # n + 1
    <3>1. i \in 1 .. n /\ j \in 1 .. n
      BY <1>1, <2>1, <2>3
    <3>2. commands'[v][i] = commands[w][i] /\ commands'[v][j] = commands[w][j]
      BY <1>1, <2>3, <3>1
    <3> QED
      BY <2>1, <3>1, <3>2 DEF LogInv, LogGrows, EpochsGrow, n
  <2>4. CASE v = w /\ j = n + 1
    <3>1. i \in 1 .. n /\ commands'[v][i] = commands[w][i] /\ commands'[v][j] = msg
      BY <1>1, <2>1, <2>4
    <3> QED
      BY <1>3, <1>4, <3>1
  <2> QED
    BY <2>2, <2>3, <2>4
<1>8. StartComesFirst'
  <2>1. SUFFICES ASSUME NEW v \in Worker, NEW j \in 1 .. Len(commands'[v]),
                        commands'[v][j].type # "start_test"
                 PROVE  \E i \in 1 .. j - 1 : /\ commands'[v][i].type = "start_test"
                                              /\ commands'[v][i].epoch = commands'[v][j].epoch
    BY DEF StartComesFirst
  <2>2. CASE v # w
    <3>1. commands'[v] = commands[v]
      BY <1>1, <2>2
    <3> QED
      BY <2>1, <3>1 DEF LogInv, LogGrows, StartComesFirst
  <2>3. CASE v = w /\ j # n + 1
    <3>1. j \in 1 .. n /\ commands'[v][j] = commands[w][j]
      BY <1>1, <2>1, <2>3
    <3>2. PICK i \in 1 .. j - 1 : /\ commands[w][i].type = "start_test"
                                  /\ commands[w][i].epoch = commands[w][j].epoch
      BY <2>1, <3>1 DEF LogInv, LogGrows, StartComesFirst, n
    <3>3. i \in 1 .. n /\ n \in Nat
      BY <1>1, <3>1
    <3>4. commands'[v][i] = commands[w][i]
      BY <1>1, <2>3, <3>3
    <3> QED
      BY <3>1, <3>2, <3>4
  <2>4. CASE v = w /\ j = n + 1
    <3>1. commands'[v][j] = msg
      BY <1>1, <2>4
    <3>2. PICK i \in 1 .. n : commands[w][i].type = "start_test" /\ commands[w][i].epoch = testEpoch
      BY <1>3, <1>5, <2>1, <3>1
    <3>3. i \in 1 .. j - 1 /\ commands'[v][i] = commands[w][i]
      BY <1>1, <2>4
    <3> QED
      BY <1>3, <3>1, <3>2, <3>3
  <2> QED
    BY <2>2, <2>3, <2>4
<1> QED
  BY <1>2, <1>7, <1>8 DEF LogGrows

\* What has ended stays so.
LEMMA PublishEnds ==
    ASSUME TypeOK, subscribed = Worker, NEW w \in Worker, NEW type, NEW u,
           Publish(w, type, testEpoch, u),
           [type |-> type, epoch |-> testEpoch, user |-> u] \in Command,
           NEW v \in Worker, NEW e, Ended(v, e)
    PROVE  Ended(v, e)'
<1>1. /\ v # w => commands'[v] = commands[v]
      /\ Len(commands'[w]) = Len(commands[w]) + 1 /\ Len(commands[w]) \in Nat
      /\ \A i \in 1 .. Len(commands[w]) : commands'[w][i] = commands[w][i]
  BY PublishAppends
<1> QED
  BY <1>1 DEF Ended

\* A step that publishes nothing and leaves the state of the test.
LEMMA QuietLog ==
    ASSUME LogInv, NEW r \in Request,
           UNCHANGED <<testState, testEpoch, commands, faults, flaps>>, LogFits(r)'
    PROVE  LogStep(r)
<1>1. LogGrows'
  BY DEF LogInv, LogGrows, EpochsGrow, StartComesFirst
<1>2. TestsEnd'
  BY DEF LogInv, LogEnds, TestsEnd, Ended
<1>3. AllHeardStart' <=> AllHeardStart
  BY DEF AllHeardStart, Heard
<1>4. LogEnds'
  BY <1>2, <1>3 DEF LogInv, LogEnds
<1> QED
  BY <1>1, <1>4 DEF LogInv, Unharmed, LogStep

\* Such a step to an await that owes nothing, or to the end of the handler.
LEMMA QuietGo ==
    ASSUME LogInv, NEW r \in Request,
           UNCHANGED <<testState, testEpoch, commands, faults, flaps>>,
           \/ pc'[r] \in TryAwaits \union ChangeAwaits
           \/ pc'[r] = "idle" /\ op'[r] = "none" /\ testState \in {"IDLE", "RUNNING"}
           \/ pc'[r] = "stop_cas" /\ op'[r] # "start" /\ testState = "RUNNING"
           \/ pc'[r] \in {"stop_epoch", "stop_scan"} /\ op'[r] # "start"
    PROVE  LogStep(r)
<1>1. LogFits(r)'
  BY DEF LogFits, RollsBack, TryAwaits, ChangeAwaits, StopAwaits, Closing
<1> QED
  BY <1>1, QuietLog

\* A handler ends; what it leaves is a state between requests.
LEMMA FinishLog ==
    ASSUME LogInv, NEW r \in Request, Finish(r), testState = "RUNNING",
           UNCHANGED <<testState, testEpoch, commands, faults>>
    PROVE  LogStep(r)
<1>1. pc'[r] = "idle" /\ op'[r] = "none" /\ flaps' = flaps
  BY DEF Finish, LogInv, BooksInv, ChannelInv, OneClientInv, FenceInv, TypeOK, RequestTypeOK
<1> QED
  BY <1>1, QuietGo

LEMMA SubmitLog ==
    ASSUME LogInv, NEW r \in Request, Submit(r)
    PROVE  LogStep(r)
<1> USE DEF LogInv, BooksInv, ChannelInv, OneClientInv, FenceInv
<1>1. ASSUME NEW n \in Targets, NEW p \in BOOLEAN, StartTest(r, n, p)
      PROVE  LogStep(r)
  <2>1. /\ pc'[r] = "prepare" /\ op'[r] = "start" /\ testState = "IDLE"
        /\ testState' = "PREPARING" /\ testEpoch' = testEpoch + 1 /\ testEpoch \in Nat
        /\ UNCHANGED <<commands, faults, flaps>>
    BY <1>1 DEF StartTest, StartPreparingAndBumpEpoch, Accept, TypeOK, RequestTypeOK, RedisTypeOK
  <2>2. LogGrows'
    BY <2>1 DEF LogGrows, EpochsGrow, StartComesFirst
  <2>3. TestsEnd'
    <3>1. SUFFICES ASSUME NEW w \in Worker, NEW e \in 1 .. testEpoch + 1, e < testEpoch + 1
                   PROVE  Ended(w, e)'
      BY <2>1 DEF TestsEnd
    <3>2. e \in 1 .. testEpoch
      BY <2>1, <3>1
    <3> QED
      BY <2>1, <3>2 DEF LogEnds, TestsEnd, Ended
  <2>4. LogEnds'
    BY <2>1, <2>3 DEF LogEnds
  <2>5. LogFits(r)'
    BY <2>1 DEF LogFits, RollsBack, StopAwaits, Closing
  <2> QED
    BY <2>1, <2>2, <2>4, <2>5 DEF LogStep, Unharmed
<1>2. ASSUME NEW n \in Targets, NEW p \in BOOLEAN, ChangeUsers(r, n, p)
      PROVE  LogStep(r)
  <2>1. /\ pc'[r] = "change_epoch"
        /\ UNCHANGED <<testState, testEpoch, commands, faults, flaps>>
    BY <1>2 DEF ChangeUsers, Accept, TypeOK, RequestTypeOK, redisVars, stateKeys
  <2> QED
    BY <2>1, QuietGo DEF ChangeAwaits
<1>3. CASE StopTest(r)
  <2>1. /\ pc'[r] = "stop_cas" /\ op'[r] = "stop" /\ testState = "RUNNING"
        /\ UNCHANGED <<testState, testEpoch, commands, faults, flaps>>
    BY <1>3 DEF StopTest, Accept, TypeOK, RequestTypeOK, redisVars, stateKeys, LogFits
  <2> QED
    BY <2>1, QuietGo
<1> QED
  BY <1>1, <1>2, <1>3 DEF Submit

\* With every heartbeat in time a start finds no worker only if there is none.
LEMMA NobodyAlive ==
    ASSUME LogInv, NEW r \in Request, NoAliveWorkers(r)
    PROVE  LogStep(r)
<1> USE DEF LogInv, BooksInv, ChannelInv, OneClientInv, FenceInv
<1>1. Worker = {}
  BY DEF NoAliveWorkers, AliveWorkers, ChannelsFit, Presence, Unharmed
<1>2. UNCHANGED <<testState, testEpoch, commands, faults>> /\ pc[r] \in TryAwaits
  BY DEF NoAliveWorkers, redisVars, stateKeys, TryAwaits
<1>3. CASE op[r] = "start" /\ Continues(r, "stop_scan")
  <2>1. pc'[r] = "stop_scan" /\ op'[r] = "start" /\ flaps' = flaps
    BY <1>3 DEF Continues, TypeOK, RequestTypeOK
  <2>2. LogFits(r)'
    BY <1>1, <2>1 DEF LogFits, Closing
  <2> QED
    BY <1>2, <2>1, <2>2, QuietLog
<1>4. CASE op[r] # "start" /\ Finish(r)
  <2>1. testState = "RUNNING"
    BY <1>2, <1>4 DEF Fits, StateFits
  <2> QED
    BY <1>2, <1>4, <2>1, FinishLog
<1> QED
  BY <1>2, <1>3, <1>4 DEF NoAliveWorkers, Raise, TryAwaits

LEMMA StartLog ==
    ASSUME LogInv, NEW r \in Request, StartStep(r)
    PROVE  LogStep(r)
<1> USE DEF LogInv, BooksInv, ChannelInv, OneClientInv, FenceInv
<1>1. ASSUME NEW b \in TryAwaits, GoTo(r, b), UNCHANGED <<stateKeys, commands>>
      PROVE  LogStep(r)
  <2>1. pc'[r] = b /\ UNCHANGED <<faults, flaps>>
    BY <1>1, GoToHere DEF GoTo, boundVars
  <2> QED
    BY <1>1, <2>1, QuietGo DEF stateKeys
<1>2. UNCHANGED redisVars => UNCHANGED <<stateKeys, commands>>
  BY DEF redisVars
<1>3. CASE Prepare(r)
  BY <1>1, <1>3 DEF Prepare, TryAwaits
<1>4. CASE ScanForStart(r)
  BY <1>1, <1>2, <1>4 DEF ScanForStart, TryAwaits
<1>5. CASE PublishStartTest(r)
  <2>1. PICK w \in recipients[r] : Publish(w, "start_test", reqEpoch[r], NoUser)
    BY <1>5 DEF PublishStartTest, Broadcast
  <2>2. /\ pc[r] = "start_pub" /\ reqEpoch[r] = testEpoch /\ op[r] = "start"
        /\ pc'[r] \in TryAwaits
        /\ UNCHANGED <<testState, testEpoch, faults, flaps>>
    BY <1>5, BroadcastHere DEF PublishStartTest, Broadcast, GoTo, boundVars, stateKeys,
       ChannelFits, Informed, TryAwaits, Fits, UsersFit
  <2>3. testState = "PREPARING" /\ testEpoch > 0 /\ testEpoch \in Nat
    BY <2>2 DEF Fits, StateFits, TryAwaits, LogEnds, TypeOK, RedisTypeOK
  <2>4. /\ w \in Worker /\ Publish(w, "start_test", testEpoch, NoUser)
        /\ [type |-> "start_test", epoch |-> testEpoch, user |-> NoUser] \in ProperCommand
    BY <2>1, <2>2, <2>3 DEF TypeOK, RequestTypeOK, Command, CommandType, ProperCommand, WellFormed
  <2>5. LogGrows'
    BY <2>4, PublishGrows
  <2>6. TestsEnd'
    BY <2>2, <2>4, PublishEnds DEF LogEnds, TestsEnd, ChannelsFit, Presence, ProperCommand, WellFormed
  <2>7. LogEnds'
    BY <2>2, <2>3, <2>6 DEF LogEnds
  <2>8. LogFits(r)'
    BY <2>2 DEF LogFits, RollsBack, TryAwaits, StopAwaits, Closing
  <2> QED
    BY <2>2, <2>5, <2>7, <2>8 DEF LogStep, Unharmed
<1>6. CASE ListForStatus(r)
  <2>1. CASE op[r] # "start" /\ Finish(r) /\ UNCHANGED faults
    <3>1. testState = "RUNNING"
      BY <1>6, <2>1 DEF ListForStatus, Fits, StateFits, TryAwaits
    <3> QED
      BY <1>2, <1>6, <2>1, <3>1, FinishLog DEF ListForStatus, stateKeys
  <2>2. CASE GoTo(r, IF users = {} THEN "commit" ELSE "status_write")
    BY <1>1, <1>2, <1>6, <2>2 DEF ListForStatus, TryAwaits
  <2> QED
    BY <1>6, <2>1, <2>2 DEF ListForStatus
<1>7. CASE WriteStatus(r)
  <2>1. CASE op[r] # "start" /\ Finish(r) /\ UNCHANGED faults
    <3>1. testState = "RUNNING"
      BY <1>7, <2>1 DEF WriteStatus, Fits, StateFits, TryAwaits
    <3> QED
      BY <1>7, <2>1, <3>1, FinishLog DEF WriteStatus, stateKeys
  <2>2. CASE GoTo(r, "commit")
    BY <1>1, <1>7, <2>2 DEF WriteStatus, TryAwaits
  <2> QED
    BY <1>7, <2>1, <2>2 DEF WriteStatus
<1>8. CASE Commit(r)
  <2>1. op[r] = "start" /\ pc[r] = "commit" /\ testState = "PREPARING"
    BY <1>8 DEF Commit, Fits, UsersFit, StateFits, TryAwaits
  <2>2. /\ pc'[r] = "idle" /\ op'[r] = "none" /\ testState' = "RUNNING"
        /\ UNCHANGED <<testEpoch, commands, faults, flaps>>
    BY <1>8, <2>1 DEF Commit, CompareAndSetState, Finish, TypeOK, RequestTypeOK
  <2>3. AllHeardStart'
    <3>1. AllHeardStart
      BY <2>1 DEF ChannelFits, Told, TryAwaits, Unharmed
    <3> QED
      BY <2>2, <3>1 DEF AllHeardStart, Heard
  <2>4. LogGrows'
    BY <2>2 DEF LogGrows, EpochsGrow, StartComesFirst
  <2>5. TestsEnd'
    BY <2>1, <2>2 DEF LogEnds, TestsEnd, Ended
  <2>6. LogEnds'
    BY <2>1, <2>2, <2>3, <2>5 DEF LogEnds
  <2>7. LogFits(r)'
    BY <2>2 DEF LogFits, RollsBack, StopAwaits, Closing
  <2> QED
    BY <2>2, <2>4, <2>6, <2>7 DEF LogStep, Unharmed
<1> QED
  BY <1>3, <1>4, <1>5, <1>6, <1>7, <1>8, NobodyAlive DEF StartStep

LEMMA AddLog ==
    ASSUME LogInv, NEW r \in Request, AddUsersStep(r)
    PROVE  LogStep(r)
<1> USE DEF LogInv, BooksInv, ChannelInv, OneClientInv, FenceInv
<1>1. ASSUME NEW b \in TryAwaits, GoTo(r, b), UNCHANGED <<stateKeys, commands>>
      PROVE  LogStep(r)
  <2>1. pc'[r] = b /\ UNCHANGED <<faults, flaps>>
    BY <1>1, GoToHere DEF GoTo, boundVars
  <2> QED
    BY <1>1, <2>1, QuietGo DEF stateKeys
<1>2. /\ UNCHANGED redisVars => UNCHANGED <<stateKeys, commands>>
      /\ ~SkipExisting(r) /\ ~InvalidAssignment(r) /\ ~AddAborted(r)
  BY NothingUnexpected DEF redisVars
<1>3. CASE ScanForAdd(r)
  <2>1. PICK b \in {"status_list", "add_read"} : GoTo(r, b)
    BY <1>3 DEF ScanForAdd
  <2> QED
    BY <1>1, <1>2, <1>3, <2>1 DEF ScanForAdd, TryAwaits
<1>4. CASE AddAbsent(r)
  BY <1>1, <1>2, <1>4 DEF AddAbsent, TryAwaits
<1>5. CASE AddWrite(r)
  BY <1>1, <1>5 DEF AddWrite, TryAwaits
<1>6. CASE AddPublish(r)
  <2>1. PICK u \in todo[r], w \in recipients[r] :
          /\ Publish(w, "add_user", reqEpoch[r], u)
          /\ GoTo(r, "add_point") \/ NextAllocation(r, u)
    BY <1>6 DEF AddPublish
  <2>2. PICK b \in {"add_point", "status_list", "add_check", "add_read"} : GoTo(r, b)
    BY <2>1 DEF NextAllocation
  <2>3. /\ pc[r] = "add_pub" /\ reqEpoch[r] = testEpoch /\ pc'[r] = b
        /\ UNCHANGED <<testState, testEpoch, faults, flaps>>
    BY <1>6, <2>2, GoToHere DEF AddPublish, GoTo, boundVars, stateKeys, ChannelFits, Informed,
       TryAwaits
  <2>4. /\ testState = IF op[r] = "start" THEN "PREPARING" ELSE "RUNNING"
        /\ testEpoch > 0 /\ testEpoch \in Nat
    BY <2>3 DEF Fits, StateFits, TryAwaits, LogEnds, TypeOK, RedisTypeOK
  <2>5. AllHeardStart
    BY <2>3, <2>4 DEF ChannelFits, Told, TryAwaits, Unharmed, LogEnds
  <2>6. /\ w \in Worker /\ Publish(w, "add_user", testEpoch, u)
        /\ [type |-> "add_user", epoch |-> testEpoch, user |-> u] \in ProperCommand
    BY <2>1, <2>3, <2>4 DEF TypeOK, RequestTypeOK, Command, CommandType, ProperCommand, WellFormed
  <2>7. LogGrows'
    BY <2>5, <2>6, PublishGrows DEF AllHeardStart
  <2>8. TestsEnd'
    BY <2>3, <2>6, PublishEnds DEF LogEnds, TestsEnd, ChannelsFit, Presence, ProperCommand, WellFormed
  <2>9. AllHeardStart'
    BY <2>3, <2>5, <2>6, PublishHeard DEF AllHeardStart, ChannelsFit, Presence, ProperCommand, WellFormed
  <2>10. LogEnds'
    BY <2>3, <2>4, <2>8, <2>9 DEF LogEnds
  <2>11. LogFits(r)'
    BY <2>3 DEF LogFits, RollsBack, StopAwaits, Closing
  <2> QED
    BY <2>3, <2>7, <2>10, <2>11 DEF LogStep, Unharmed
<1>7. CASE AddPoint(r)
  <2>1. PICK b \in {"status_list", "add_check", "add_read"} : GoTo(r, b)
    BY <1>7 DEF AddPoint, NextAllocation
  <2> QED
    BY <1>1, <1>7, <2>1 DEF AddPoint, TryAwaits
<1>8. CASE AddCheck(r)
  BY <1>1, <1>2, <1>8 DEF AddCheck, TryAwaits
<1> QED
  BY <1>2, <1>3, <1>4, <1>5, <1>6, <1>7, <1>8 DEF AddUsersStep

LEMMA StopLog ==
    ASSUME LogInv, NEW r \in Request, StopStep(r)
    PROVE  LogStep(r)
<1> USE DEF LogInv, BooksInv, ChannelInv, OneClientInv, FenceInv
<1>1. UNCHANGED redisVars => UNCHANGED <<stateKeys, commands>>
  BY DEF redisVars
<1>2. ASSUME NEW b \in Closing, GoTo(r, b), UNCHANGED <<stateKeys, commands>>,
             \A w \in Worker : Heard(w, "stop_test"), pc[r] \in StopAwaits
      PROVE  LogStep(r)
  <2>1. pc'[r] = b /\ op'[r] = op[r] /\ UNCHANGED <<testState, testEpoch, faults, flaps>>
    BY <1>2, GoToHere DEF GoTo, boundVars, stateKeys
  <2>2. \A w \in Worker : Heard(w, "stop_test")'
    BY <1>2, <2>1 DEF Heard
  <2>3. LogFits(r)'
    BY <1>2, <2>1, <2>2 DEF LogFits, RollsBack, Closing
  <2> QED
    BY <1>2, <2>1, <2>3, QuietLog
<1>3. CASE StopCas(r)
  <2>1. /\ pc[r] = "stop_cas" /\ op[r] # "start" /\ testState = "RUNNING" /\ seen[r] = "RUNNING"
    BY <1>3 DEF StopCas, LogFits, Fits, StateFits, ReadersAreNoStarts, EpochReaders
  <2>2. /\ pc'[r] = "stop_epoch" /\ op'[r] # "start" /\ testState' = "STOPPING"
        /\ UNCHANGED <<testEpoch, commands, faults, flaps>>
    BY <1>3, <2>1, GoToHere DEF StopCas, CompareAndSetState, GoTo, boundVars
  <2>3. LogGrows'
    BY <2>2 DEF LogGrows, EpochsGrow, StartComesFirst
  <2>4. TestsEnd'
    BY <2>1, <2>2 DEF LogEnds, TestsEnd, Ended
  <2>5. AllHeardStart'
    BY <2>1, <2>2 DEF LogEnds, AllHeardStart, Heard
  <2>6. LogEnds'
    BY <2>1, <2>2, <2>4, <2>5 DEF LogEnds
  <2>7. LogFits(r)'
    BY <2>2 DEF LogFits, RollsBack, Closing
  <2> QED
    BY <2>2, <2>3, <2>6, <2>7 DEF LogStep, Unharmed
<1>4. CASE ReadEpoch(r)
  <2>1. /\ \/ pc[r] = "stop_epoch" /\ pc'[r] = "stop_scan"
           \/ pc[r] = "change_epoch" /\ pc'[r] = "change_list"
        /\ op'[r] = op[r]
        /\ UNCHANGED <<stateKeys, commands, faults, flaps>>
    BY <1>1, <1>4, GoToHere DEF ReadEpoch, GoTo, boundVars
  <2>2. op[r] # "start"
    BY <2>1 DEF ReadersAreNoStarts, EpochReaders
  <2> QED
    BY <2>1, <2>2, QuietGo DEF stateKeys, ChangeAwaits
<1>5. CASE ScanForStop(r)
  <2>1. /\ pc[r] = "stop_scan" /\ recipients'[r] = AliveWorkers
        /\ UNCHANGED <<stateKeys, commands>>
    BY <1>1, <1>5 DEF ScanForStop, TypeOK, RequestTypeOK
  <2>2. AliveWorkers = Worker
    BY DEF AliveWorkers, ChannelsFit, Presence, Unharmed
  <2>3. CASE Worker = {} /\ GoTo(r, "clear_list")
    BY <1>2, <2>1, <2>3 DEF Closing, StopAwaits
  <2>4. CASE Worker # {} /\ GoTo(r, "stop_pub")
    <3>1. /\ pc'[r] = "stop_pub" /\ op'[r] = op[r]
          /\ UNCHANGED <<testState, testEpoch, faults, flaps>>
      BY <2>1, <2>4, GoToHere DEF GoTo, boundVars, stateKeys
    <3>2. LogFits(r)'
      BY <2>1, <2>2, <3>1 DEF LogFits, RollsBack, Closing, StopAwaits
    <3> QED
      BY <2>1, <3>1, <3>2, QuietLog
  <2> QED
    BY <1>5, <2>2, <2>3, <2>4 DEF ScanForStop
<1>6. CASE PublishStopTest(r)
  <2>1. PICK w \in recipients[r] :
          /\ Publish(w, "stop_test", reqEpoch[r], NoUser)
          /\ recipients' = [recipients EXCEPT ![r] = @ \ {w}]
          /\ GoTo(r, IF recipients[r] = {w} THEN "clear_list" ELSE "stop_pub")
    BY <1>6 DEF PublishStopTest, Broadcast
  <2>2. /\ pc[r] = "stop_pub" /\ reqEpoch[r] = testEpoch
        /\ pc'[r] = IF recipients[r] = {w} THEN "clear_list" ELSE "stop_pub"
        /\ op'[r] = op[r] /\ recipients'[r] = recipients[r] \ {w}
        /\ UNCHANGED <<testState, testEpoch, faults, flaps>>
    BY <1>6, <2>1, GoToHere DEF PublishStopTest, Broadcast, GoTo, boundVars, stateKeys,
       ChannelFits, Informed, StopAwaits, TypeOK, RequestTypeOK
  <2>3. w \in Worker /\ op[r] # "start" /\ ~RollsBack(r)'
    BY <2>1, <2>2 DEF TypeOK, RequestTypeOK, LogFits, RollsBack, StopAwaits
  <2>4. testState = "STOPPING" /\ testEpoch > 0 /\ testEpoch \in Nat /\ AllHeardStart
    BY <2>2, <2>3 DEF Fits, StateFits, StopAwaits, LogEnds, TypeOK, RedisTypeOK
  <2>5. /\ Publish(w, "stop_test", testEpoch, NoUser)
        /\ [type |-> "stop_test", epoch |-> testEpoch, user |-> NoUser] \in ProperCommand
    BY <2>1, <2>2, <2>4 DEF Command, CommandType, ProperCommand, WellFormed
  <2>6. LogGrows'
    BY <2>3, <2>4, <2>5, PublishGrows DEF AllHeardStart
  <2>7. TestsEnd'
    BY <2>2, <2>3, <2>5, PublishEnds DEF LogEnds, TestsEnd, ChannelsFit, Presence, ProperCommand, WellFormed
  <2>8. \A v \in Worker : Heard(v, "stop_test")' <=> Heard(v, "stop_test") \/ v = w
    BY <2>2, <2>3, <2>5, PublishHeard DEF ChannelsFit, Presence, ProperCommand, WellFormed
  <2>9. LogEnds'
    <3>1. AllHeardStart'
      BY <2>2, <2>3, <2>4, <2>5, PublishHeard DEF AllHeardStart, ChannelsFit, Presence, ProperCommand, WellFormed
    <3> QED
      BY <2>2, <2>4, <2>7, <3>1 DEF LogEnds
  <2>10. LogFits(r)'
    BY <2>2, <2>3, <2>8 DEF LogFits, Closing
  <2> QED
    BY <2>2, <2>6, <2>9, <2>10 DEF LogStep, Unharmed
<1>7. CASE ListForClear(r)
  BY <1>1, <1>2, <1>7 DEF ListForClear, Closing, StopAwaits, LogFits
<1>8. CASE Clear(r)
  <2>1. PICK b \in {"stop_point", "set_idle"} : GoTo(r, b)
    BY <1>8 DEF Clear
  <2> QED
    BY <1>2, <1>8, <2>1 DEF Clear, Closing, StopAwaits, LogFits
<1>9. CASE StopPoint(r)
  BY <1>2, <1>9 DEF StopPoint, Closing, StopAwaits, LogFits
<1>10. CASE SetIdle(r)
  <2>1. /\ pc[r] = "set_idle" /\ pc'[r] = "idle" /\ op'[r] = "none" /\ testState' = "IDLE"
        /\ UNCHANGED <<testEpoch, commands, faults, flaps>>
    BY <1>10 DEF SetIdle, SetState, Finish, TypeOK, RequestTypeOK
  <2>2. \A w \in Worker : Ended(w, testEpoch)
    BY <2>1 DEF LogFits, Closing, Heard, Ended
  <2>3. LogGrows'
    BY <2>1 DEF LogGrows, EpochsGrow, StartComesFirst
  <2>4. TestsEnd'
    <3>1. SUFFICES ASSUME NEW w \in Worker, NEW e \in 1 .. testEpoch PROVE Ended(w, e)'
      BY <2>1 DEF TestsEnd
    <3>2. e = testEpoch \/ e < testEpoch
      BY DEF TypeOK, RedisTypeOK
    <3>3. Ended(w, e)
      BY <2>2, <3>2 DEF LogEnds, TestsEnd
    <3> QED
      BY <2>1, <3>3 DEF Ended
  <2>5. LogEnds'
    BY <2>1, <2>4 DEF LogEnds
  <2>6. LogFits(r)'
    BY <2>1 DEF LogFits, RollsBack, Closing
  <2> QED
    BY <2>1, <2>3, <2>5, <2>6 DEF LogStep, Unharmed
<1> QED
  BY <1>3, <1>4, <1>5, <1>6, <1>7, <1>8, <1>9, <1>10 DEF StopStep

LEMMA ChangeLog ==
    ASSUME LogInv, NEW r \in Request, ChangeStep(r)
    PROVE  LogStep(r)
<1> USE DEF LogInv, BooksInv, ChannelInv, OneClientInv, FenceInv
<1>1. ASSUME NEW b \in TryAwaits \union ChangeAwaits, GoTo(r, b), UNCHANGED <<stateKeys, commands>>
      PROVE  LogStep(r)
  <2>1. pc'[r] = b /\ UNCHANGED <<faults, flaps>>
    BY <1>1, GoToHere DEF GoTo, boundVars
  <2> QED
    BY <1>1, <2>1, QuietGo DEF stateKeys
<1>2. /\ UNCHANGED redisVars => UNCHANGED <<stateKeys, commands>>
      /\ pc[r] \in ChangeAwaits => testState = "RUNNING" /\ ~RollsBack(r)
      /\ ~SkipMissing(r)
  BY NothingUnexpected DEF redisVars, Fits, StateFits, RollsBack, ChangeAwaits, StopAwaits
<1>3. CASE ChangeNothing(r)
  BY <1>2, <1>3, FinishLog DEF ChangeNothing, ChangeAwaits, stateKeys
<1>4. CASE ChangeUp(r)
  BY <1>1, <1>2, <1>4 DEF ChangeUp, TryAwaits
<1>5. CASE ChangeDown(r)
  BY <1>1, <1>2, <1>5 DEF ChangeDown, ChangeAwaits
<1>6. CASE RemoveFound(r)
  BY <1>1, <1>2, <1>6 DEF RemoveFound, ChangeAwaits
<1>7. CASE PublishRemove(r)
  <2>1. PICK u \in todo[r] : IsHighest(u, todo[r]) /\ Publish(found[r], "remove_user", reqEpoch[r], u)
    BY <1>7 DEF PublishRemove
  <2>2. /\ pc[r] = "rem_pub" /\ reqEpoch[r] = testEpoch /\ pc'[r] = "rem_hget"
        /\ UNCHANGED <<testState, testEpoch, faults, flaps>>
    BY <1>7, GoToHere DEF PublishRemove, GoTo, boundVars, stateKeys, ChannelFits, Informed,
       ChangeAwaits
  <2>3. u \in users /\ found[r] = userWorker[u] /\ userWorker[u] # NoWorker
    BY <2>1, <2>2, NothingUnexpected DEF BooksFit, LocalsFit, MembersAreAssigned
  <2>4. PICK w \in Worker : w = found[r]
    BY <2>3 DEF TypeOK, RedisTypeOK
  <2>5. testState = "RUNNING" /\ testEpoch > 0 /\ testEpoch \in Nat /\ AllHeardStart
    BY <1>2, <2>2 DEF ChangeAwaits, LogEnds, TypeOK, RedisTypeOK
  <2>6. /\ Publish(w, "remove_user", testEpoch, u)
        /\ [type |-> "remove_user", epoch |-> testEpoch, user |-> u] \in ProperCommand
    BY <2>1, <2>2, <2>4, <2>5 DEF TypeOK, RequestTypeOK, Command, CommandType, ProperCommand, WellFormed
  <2>7. LogGrows'
    BY <2>5, <2>6, PublishGrows DEF AllHeardStart
  <2>8. TestsEnd'
    BY <2>2, <2>6, PublishEnds DEF LogEnds, TestsEnd, ChannelsFit, Presence, ProperCommand, WellFormed
  <2>9. AllHeardStart'
    BY <2>2, <2>5, <2>6, PublishHeard DEF AllHeardStart, ChannelsFit, Presence, ProperCommand, WellFormed
  <2>10. LogEnds'
    BY <2>2, <2>5, <2>8, <2>9 DEF LogEnds
  <2>11. LogFits(r)'
    BY <2>2 DEF LogFits, RollsBack, StopAwaits, Closing
  <2> QED
    BY <2>2, <2>7, <2>10, <2>11 DEF LogStep, Unharmed
<1>8. CASE RemoveRead(r)
  BY <1>1, <1>2, <1>8 DEF RemoveRead, ChangeAwaits
<1>9. CASE RemoveWrite(r)
  <2>1. PICK b \in {"rem_point", "rem_read"} : GoTo(r, b)
    BY <1>9 DEF RemoveWrite, NextRemoval
  <2> QED
    BY <1>1, <1>9, <2>1 DEF RemoveWrite, ChangeAwaits
<1>10. CASE RemovePoint(r)
  BY <1>2, <1>10, FinishLog DEF RemovePoint, ChangeAwaits, stateKeys
<1> QED
  BY <1>2, <1>3, <1>4, <1>5, <1>6, <1>7, <1>8, <1>9, <1>10 DEF ChangeStep

-----------------------------------------------------------------------------
LEMMA LogInit == Init => LogInv
<1> SUFFICES ASSUME Init PROVE LogInv
  OBVIOUS
<1>1. Len(<<>>) = 0 /\ <<>> \in Seq(ProperCommand)
  OBVIOUS
<1>2. \A w \in Worker : commands[w] = <<>> /\ 1 .. Len(commands[w]) = {}
  BY <1>1 DEF Init, RedisInit
<1>3. LogGrows
  BY <1>1, <1>2 DEF Init, RedisInit, LogGrows, EpochsGrow, StartComesFirst
<1>4. LogEnds
  BY DEF Init, RedisInit, LogEnds, TestsEnd
<1>5. ASSUME NEW r \in Request PROVE LogFits(r)
  BY DEF Init, RedisInit, RequestInit, LogFits, RollsBack, StopAwaits, Closing
<1> QED
  BY <1>3, <1>4, <1>5, BooksInit DEF LogInv, Unharmed, Init, RequestInit

\* Every step of the orchestrator keeps it, as long as none is a fault.
LEMMA LogInductive ==
    ASSUME OneSlot, MaxFaults = 0, LogInv, OrchestratorNext
    PROVE  LogInv'
<1>1. BooksInv'
  BY BooksInductive DEF LogInv, Next
<1>2. ~Fault
  BY DEF Fault, RedisError, ClaimAnswerLost, CommitAnswerLost, OrchestratorCrash, LogInv, Unharmed
<1>3. PICK r \in Request : Submit(r) \/ Handle(r)
  BY <1>2 DEF OrchestratorNext
<1>4. LogStep(r)
  BY <1>3, SubmitLog, StartLog, AddLog, StopLog, ChangeLog DEF Handle
<1>5. \A s \in Request : LogFits(s)'
  BY <1>4 DEF OneSlot, LogStep
<1> QED
  BY <1>1, <1>4, <1>5 DEF LogStep, LogInv

-----------------------------------------------------------------------------
\* Part 3: the system

\* The fence is about nothing a worker writes.
LEMMA WorkersLeaveFence ==
    ASSUME FenceInv, activeUsers' \in [Worker -> SUBSET UserId],
           UNCHANGED <<stateKeys, userSetKeys, timeline, presenceKeys, commands, requestVars,
                       boundVars>>
    PROVE  FenceInv'
<1>1. UNCHANGED <<testState, testEpoch, users, userKeys, userWorker, workerUsers, timeline,
                  workers, heartbeat, subscribed, commands, pc, op, target, paced, reqEpoch, seen,
                  todo, recipients, index, added, base, found, issued, faults, flaps>>
  BY DEF stateKeys, userSetKeys, presenceKeys, requestVars, boundVars
<1>2. TypeOK'
  BY <1>1 DEF FenceInv, TypeOK, RedisTypeOK, RequestTypeOK
<1>3. ReadersAreNoStarts' /\ StopSawActive'
  BY <1>1 DEF FenceInv, ReadersAreNoStarts, StopSawActive
<1>4. EpochFence'
  BY <1>1 DEF FenceInv, EpochFence, RequestsBehind, CommandsBehind, StartsApart
<1> QED
  BY <1>2, <1>3, <1>4 DEF FenceInv

\* Nor is the log about active_users, the only key a worker writes.
LEMMA WorkersLeaveLog ==
    ASSUME LogInv, activeUsers' \in [Worker -> SUBSET UserId],
           UNCHANGED <<stateKeys, userSetKeys, timeline, presenceKeys, commands, requestVars,
                       boundVars>>
    PROVE  LogInv'
<1> USE DEF LogInv, BooksInv, ChannelInv, OneClientInv, FenceInv
<1>1. UNCHANGED <<testState, testEpoch, users, userKeys, userWorker, workerUsers, timeline,
                  workers, heartbeat, subscribed, commands, pc, op, target, paced, reqEpoch, seen,
                  todo, recipients, index, added, base, found, issued, faults, flaps>>
  BY DEF stateKeys, userSetKeys, presenceKeys, requestVars, boundVars
<1>2. FenceInv'
  BY WorkersLeaveFence
<1>5. KeysFit'
  BY <1>1, KeysStay
<1>6. \A r \in Request : Fits(r)'
  BY <1>1 DEF Fits, StateFits, UsersFit, AddsNext, AddedFirst, RemovesLast
<1>7. /\ \A w \in Worker : \A t \in {"start_test", "stop_test"} : Heard(w, t)' <=> Heard(w, t)
      /\ AllHeardStart' <=> AllHeardStart
      /\ \A r \in Request : RollsBack(r)' <=> RollsBack(r)
  BY <1>1 DEF Heard, AllHeardStart, RollsBack
<1>8. CommandsInOrder' /\ Presence'
  BY <1>1, OrderStays DEF ChannelsFit, TypeOK, Presence
<1>9. ChannelsFit'
  BY <1>1, <1>7, <1>8 DEF ChannelsFit
<1>10. \A r \in Request : ChannelFits(r)'
  BY <1>1, <1>7 DEF ChannelFits
<1>11. MembersAreAssigned' /\ IndexFits' /\ Share' = Share
  BY <1>1 DEF MembersAreAssigned, IndexFits, Share
<1>12. \A w \in Worker : ToldUsers(w)' = ToldUsers(w)
  BY <1>1, ToldSame
<1>13. TimelineMatchesUsers' /\ DeliveredMatchesAssigned'
  BY <1>1, <1>12 DEF TimelineMatchesUsers, DeliveredMatchesAssigned, AtRest
<1>14. ASSUME NEW r \in Request PROVE BooksFit(r)'
  <2>1. LocalsFit(r)'
    BY <1>1 DEF BooksFit, LocalsFit, IsAllocated
  <2>2. BalanceFits(r)'
    BY <1>1, <1>11 DEF BooksFit, BalanceFits
  <2>3. TimelineFits(r)'
    BY <1>1, <1>7 DEF BooksFit, TimelineFits
  <2>4. DeliveryFits(r)'
    BY <1>1, <1>12 DEF BooksFit, DeliveryFits, Ahead
  <2> QED
    BY <2>1, <2>2, <2>3, <2>4 DEF BooksFit
<1>15. LogGrows' /\ Unharmed'
  BY <1>1 DEF LogGrows, EpochsGrow, StartComesFirst, Unharmed
<1>16. LogEnds'
  BY <1>1, <1>7 DEF LogEnds, TestsEnd, Ended
<1>17. \A r \in Request : LogFits(r)'
  BY <1>1, <1>7 DEF LogFits
<1> QED
  BY <1>2, <1>5, <1>6, <1>9, <1>10, <1>11, <1>13, <1>14, <1>15, <1>16, <1>17
-----------------------------------------------------------------------------
(***************************************************************************)
(* What the orchestrator does to a worker: its log is only added to, what  *)
(* is added is delivered, and users leave active_users but never enter it. *)
(***************************************************************************)
Extends(w) ==
    /\ Len(commands[w]) <= Len(commands'[w])
    /\ \A i \in 1 .. Len(commands[w]) : commands'[w][i] = commands[w][i]

LEMMA PublishExtends ==
    ASSUME TypeOK, NEW w, NEW type, NEW e, NEW u, Publish(w, type, e, u)
    PROVE  \A v \in Worker : Extends(v)
<1> DEFINE msg == [type |-> type, epoch |-> e, user |-> u]
<1>1. commands \in [Worker -> Seq(Command)]
  BY DEF TypeOK, RedisTypeOK
<1>2. \A v \in Worker : Len(commands[v]) \in Nat
  BY <1>1
<1>3. commands' = commands \/ commands' = [commands EXCEPT ![w] = Append(commands[w], msg)]
  BY DEF Publish
<1> HIDE DEF msg
<1>4. ASSUME NEW v \in Worker, commands'[v] = Append(commands[v], msg) PROVE Extends(v)
  BY <1>1, <1>4 DEF Extends
<1>5. ASSUME NEW v \in Worker, commands'[v] = commands[v] PROVE Extends(v)
  BY <1>2, <1>5 DEF Extends
<1>6. \A v \in Worker : commands'[v] = commands[v] \/ commands'[v] = Append(commands[v], msg)
  BY <1>1, <1>3
<1> QED
  BY <1>4, <1>5, <1>6

LEMMA CommandWriters ==
    ASSUME NEW r \in Request, Handle(r)
    PROVE  \/ UNCHANGED commands
           \/ PublishStartTest(r) \/ PublishStopTest(r) \/ AddPublish(r) \/ PublishRemove(r)
<1> USE DEF redisVars
<1>1. CASE AddUsersStep(r)
  BY <1>1 DEF AddUsersStep, ScanForAdd, AddAbsent, SkipExisting, InvalidAssignment,
     AddWrite, AddPoint, AddCheck, AddAborted
<1>2. CASE StartStep(r)
  BY <1>2 DEF StartStep, Prepare, ScanForStart, NoAliveWorkers, ListForStatus, WriteStatus,
     Commit
<1>3. CASE StopStep(r)
  BY <1>3 DEF StopStep, StopCas, ReadEpoch, ScanForStop, ListForClear, Clear, StopPoint, SetIdle
<1>4. CASE ChangeStep(r)
  BY <1>4 DEF ChangeStep, ChangeNothing, ChangeUp, ChangeDown, SkipMissing, RemoveFound,
     RemoveRead, RemoveWrite, RemovePoint
<1> QED
  BY <1>1, <1>2, <1>3, <1>4 DEF Handle

LEMMA ActiveWriters ==
    ASSUME NEW r \in Request, Handle(r)
    PROVE  UNCHANGED activeUsers \/ Clear(r)
<1> USE DEF redisVars
<1>1. CASE AddUsersStep(r)
  BY <1>1 DEF AddUsersStep, ScanForAdd, AddAbsent, SkipExisting, InvalidAssignment,
     AddWrite, AddPublish, AddPoint, AddCheck, AddAborted
<1>2. CASE StartStep(r)
  BY <1>2 DEF StartStep, Prepare, ScanForStart, NoAliveWorkers, PublishStartTest, Broadcast,
     ListForStatus, WriteStatus, Commit
<1>3. CASE StopStep(r)
  BY <1>3 DEF StopStep, StopCas, ReadEpoch, ScanForStop, PublishStopTest, Broadcast,
     ListForClear, StopPoint, SetIdle
<1>4. CASE ChangeStep(r)
  BY <1>4 DEF ChangeStep, ChangeNothing, ChangeUp, ChangeDown, SkipMissing, RemoveFound,
     PublishRemove, RemoveRead, RemoveWrite, RemovePoint
<1> QED
  BY <1>1, <1>2, <1>3, <1>4 DEF Handle

LEMMA OrchestratorTells ==
    ASSUME TypeOK, OrchestratorNext
    PROVE  /\ \A w \in Worker : Extends(w)
           /\ \A w \in Worker : activeUsers'[w] \subseteq activeUsers[w]
<1>1. CASE UNCHANGED <<commands, activeUsers>>
  <2>1. \A w \in Worker : Len(commands[w]) \in Nat
    BY DEF TypeOK, RedisTypeOK
  <2> QED
    BY <1>1, <2>1 DEF Extends
<1>2. ASSUME NEW r \in Request, Handle(r)
      PROVE  /\ \A w \in Worker : Extends(w)
             /\ \A w \in Worker : activeUsers'[w] \subseteq activeUsers[w]
  <2>1. \A w \in Worker : Extends(w)
    <3>1. CASE UNCHANGED commands
      <4>1. \A w \in Worker : Len(commands[w]) \in Nat
        BY DEF TypeOK, RedisTypeOK
      <4> QED
        BY <3>1, <4>1 DEF Extends
    <3>2. ASSUME PublishStartTest(r) \/ PublishStopTest(r) \/ AddPublish(r) \/ PublishRemove(r)
          PROVE  \E w, type, e, u : Publish(w, type, e, u)
      BY <3>2 DEF PublishStartTest, PublishStopTest, AddPublish, PublishRemove, Broadcast
    <3> QED
      BY <1>2, <3>1, <3>2, CommandWriters, PublishExtends
  <2>2. CASE Clear(r)
    BY <2>1, <2>2 DEF Clear, ClearUsersData
  <2> QED
    BY <1>2, <2>1, <2>2, ActiveWriters
<1>3. ASSUME NEW r \in Request, Submit(r) PROVE UNCHANGED <<commands, activeUsers>>
  BY <1>3 DEF Submit, StartTest, ChangeUsers, StopTest, redisVars
<1>4. Fault => UNCHANGED <<commands, activeUsers>>
  BY DEF Fault, RedisError, ClaimAnswerLost, CommitAnswerLost, OrchestratorCrash, redisVars
<1> QED
  BY <1>1, <1>2, <1>3, <1>4 DEF OrchestratorNext
-----------------------------------------------------------------------------
(***************************************************************************)
(* A worker and its log.  The channel is the part of the log it has not    *)
(* read.  A start_test or stop_test counts from the end of its handler on, *)
(* every other command from the moment it is read.  The phase, the epoch   *)
(* and the assigned users are what the commands that count add up to.      *)
(***************************************************************************)
Read(w) == Len(commands[w]) - Len(channel[w])

InHand(w) == dispatcher[w] \in {"halt", "clear"}

Done(w) == IF InHand(w) THEN Read(w) - 1 ELSE Read(w)

HeardBy(w, n, type, e) ==
    \E i \in 1 .. n : commands[w][i].type = type /\ commands[w][i].epoch = e

ToldBy(w, n, e) ==
    { u \in UserId : \E i \in 1 .. n :
        /\ commands[w][i] = [type |-> "add_user", epoch |-> e, user |-> u]
        /\ \A j \in i + 1 .. n : commands[w][j].user # u }

ChannelFitsLog(w) ==
    /\ Read(w) \in Nat
    /\ \A i \in 1 .. Len(channel[w]) : channel[w][i] = commands[w][Read(w) + i]

HandlingFits(w) ==
    InHand(w) =>
        /\ Read(w) > 0 /\ handling[w] = commands[w][Read(w)]
        /\ handling[w].type = "start_test" =>
              handling[w].epoch > currentEpoch[w] /\ phase[w] # "STOPPING"
        /\ handling[w].type = "stop_test" => handling[w].epoch = currentEpoch[w]

PhaseFits(w) ==
    LET e == currentEpoch[w]
    IN  /\ phase[w] = "STOPPING" => InHand(w) /\ handling[w].type = "stop_test"
        /\ e > 0 => HeardBy(w, Done(w), "start_test", e)
        /\ phase[w] = "IDLE" /\ e > 0 => HeardBy(w, Done(w), "stop_test", e)
        /\ phase[w] = "RUNNING" => e > 0 /\ ~HeardBy(w, Done(w), "stop_test", e)

UpToDate(w) ==
    /\ \A i \in 1 .. Done(w) : commands[w][i].epoch <= currentEpoch[w]
    /\ phase[w] = "RUNNING" /\ ~InHand(w) => assigned[w] = ToldBy(w, Done(w), currentEpoch[w])

WorkerFits(w) == ChannelFitsLog(w) /\ HandlingFits(w) /\ PhaseFits(w) /\ UpToDate(w)

SystemInv ==
    /\ LogInv /\ DispatcherInv /\ \A w \in Worker : WorkerFits(w)
    /\ Request = {} => testState = "IDLE"

-----------------------------------------------------------------------------
\* The lengths are lengths.
LEMMA ReadBounds ==
    ASSUME LogInv, DispatcherInv, NEW w \in Worker, ChannelFitsLog(w)
    PROVE  /\ Len(commands[w]) \in Nat /\ Len(channel[w]) \in Nat
           /\ Read(w) \in 0 .. Len(commands[w])
           /\ Read(w) + Len(channel[w]) = Len(commands[w])
<1>1. commands[w] \in Seq(ProperCommand) /\ channel[w] \in Seq(WellFormed)
  BY DEF LogInv, LogGrows, DispatcherInv, ChannelsOK
<1>2. Len(commands[w]) \in Nat /\ Len(channel[w]) \in Nat
  BY <1>1
<1>3. Read(w) \in Nat
  BY DEF ChannelFitsLog
<1>4. \A m, n \in Nat : m - n \in Nat => m - n \in 0 .. m /\ (m - n) + n = m
  OBVIOUS
<1> QED
  BY <1>2, <1>3, <1>4 DEF Read

\* What w has heard does not depend on what its log is extended by.
LEMMA HeardBefore ==
    ASSUME NEW w \in Worker, NEW n \in Nat, n <= Len(commands[w]), Len(commands[w]) \in Nat,
           Extends(w)
    PROVE  /\ \A type, e : HeardBy(w, n, type, e)' <=> HeardBy(w, n, type, e)
           /\ \A e : ToldBy(w, n, e)' = ToldBy(w, n, e)
           /\ \A i \in 1 .. n : commands'[w][i] = commands[w][i]
<1>1. \A i \in 1 .. n : commands'[w][i] = commands[w][i]
  BY DEF Extends
<1>2. \A type, e : HeardBy(w, n, type, e)' <=> HeardBy(w, n, type, e)
  BY <1>1 DEF HeardBy
<1>3. ASSUME NEW i \in 1 .. n, NEW u
      PROVE  (\A j \in i + 1 .. n : commands'[w][j].user # u)
                <=> (\A j \in i + 1 .. n : commands[w][j].user # u)
  <2>1. \A j \in i + 1 .. n : commands'[w][j] = commands[w][j]
    BY <1>1
  <2> QED
    BY <2>1
<1>4. ASSUME NEW e PROVE ToldBy(w, n, e)' = ToldBy(w, n, e)
  <2> DEFINE Add(u) == [type |-> "add_user", epoch |-> e, user |-> u]
  <2> HIDE DEF Add
  <2>1. ASSUME NEW u, NEW i \in 1 .. n
        PROVE  (/\ commands'[w][i] = Add(u)
                /\ \A j \in i + 1 .. n : commands'[w][j].user # u)
                 <=> (/\ commands[w][i] = Add(u)
                      /\ \A j \in i + 1 .. n : commands[w][j].user # u)
    BY <1>1, <1>3
  <2>2. ASSUME NEW u
        PROVE  (\E i \in 1 .. n : /\ commands'[w][i] = Add(u)
                                  /\ \A j \in i + 1 .. n : commands'[w][j].user # u)
                 <=> (\E i \in 1 .. n : /\ commands[w][i] = Add(u)
                                        /\ \A j \in i + 1 .. n : commands[w][j].user # u)
    BY <2>1, Zenon
  <2>3. ToldBy(w, n, e) =
            { u \in UserId : \E i \in 1 .. n :
                /\ commands[w][i] = Add(u)
                /\ \A j \in i + 1 .. n : commands[w][j].user # u }
    BY Zenon DEF ToldBy, Add
  <2>4. ToldBy(w, n, e)' =
            { u \in UserId : \E i \in 1 .. n :
                /\ commands'[w][i] = Add(u)
                /\ \A j \in i + 1 .. n : commands'[w][j].user # u }
    BY Zenon DEF ToldBy, Add
  <2> QED
    BY <2>2, <2>3, <2>4
<1> QED
  BY <1>1, <1>2, <1>4

\* Nothing of w changes but, at most, the end of its log, and what it waits for.
LEMMA WorkerStays ==
    ASSUME LogInv, DispatcherInv, NEW w \in Worker, WorkerFits(w), ChannelFitsLog(w)', Extends(w),
           Read(w)' = Read(w), InHand(w)' <=> InHand(w), InHand(w) => handling'[w] = handling[w],
           phase'[w] = phase[w], currentEpoch'[w] = currentEpoch[w],
           InHand(w) \/ assigned'[w] = assigned[w]
    PROVE  WorkerFits(w)'
<1>1. /\ Len(commands[w]) \in Nat /\ Read(w) \in 0 .. Len(commands[w])
      /\ InHand(w) => Read(w) > 0
  BY ReadBounds DEF WorkerFits, HandlingFits
<1>2. Done(w)' = Done(w) /\ Done(w) \in Nat /\ Done(w) <= Len(commands[w])
  BY <1>1 DEF Done
<1>3. /\ \A type, e : HeardBy(w, Done(w), type, e)' <=> HeardBy(w, Done(w), type, e)
      /\ \A e : ToldBy(w, Done(w), e)' = ToldBy(w, Done(w), e)
      /\ \A i \in 1 .. Done(w) : commands'[w][i] = commands[w][i]
  BY <1>1, <1>2, HeardBefore
<1>4. Read(w) > 0 => commands'[w][Read(w)] = commands[w][Read(w)]
  BY <1>1 DEF Extends
<1>5. HandlingFits(w)'
  BY <1>4 DEF WorkerFits, HandlingFits
<1>6. PhaseFits(w)'
  BY <1>2, <1>3 DEF WorkerFits, PhaseFits
<1>7. UpToDate(w)'
  BY <1>2, <1>3 DEF WorkerFits, UpToDate
<1> QED
  BY <1>5, <1>6, <1>7 DEF WorkerFits
-----------------------------------------------------------------------------
(***************************************************************************)
(* One command further.                                                    *)
(***************************************************************************)
LEMMA HeardNext ==
    ASSUME NEW w \in Worker, NEW n \in Nat, NEW type, NEW e
    PROVE  HeardBy(w, n + 1, type, e) <=>
              \/ HeardBy(w, n, type, e)
              \/ commands[w][n + 1].type = type /\ commands[w][n + 1].epoch = e
<1>1. 1 .. n + 1 = (1 .. n) \union {n + 1}
  OBVIOUS
<1> QED
  BY <1>1 DEF HeardBy

LEMMA ToldNext ==
    ASSUME NEW w \in Worker, NEW n \in Nat, NEW k, k = n + 1, NEW e \in Nat,
           NEW c \in ProperCommand, c = commands[w][k]
    PROVE  \A u : u \in ToldBy(w, k, e) <=>
                     \/ u \in ToldBy(w, n, e) /\ c.user # u
                     \/ u = c.user /\ c.type = "add_user" /\ c.epoch = e
<1> DEFINE Last(i, m, u) == \A j \in i + 1 .. m : commands[w][j].user # u
           add(u) == [type |-> "add_user", epoch |-> e, user |-> u]
<1>1. c \in Command /\ (c.type = "add_user" => c.user \in UserId)
  BY DEF ProperCommand, WellFormed
<1>2. \A u \in UserId : c = add(u) <=> c.type = "add_user" /\ c.epoch = e /\ c.user = u
  BY <1>1 DEF Command
<1>3. \A m, u : u \in ToldBy(w, m, e) <=>
                   u \in UserId /\ \E i \in 1 .. m : commands[w][i] = add(u) /\ Last(i, m, u)
  BY DEF ToldBy
<1>4. \A i \in 1 .. n : \A u : Last(i, n + 1, u) <=> Last(i, n, u) /\ c.user # u
  <2>1. \A i \in 1 .. n : i + 1 .. n + 1 = (i + 1 .. n) \union {n + 1}
    OBVIOUS
  <2> QED
    BY <2>1
<1>5. \A u : Last(n + 1, n + 1, u)
  OBVIOUS
<1>6. 1 .. n + 1 = (1 .. n) \union {n + 1}
  OBVIOUS
<1> HIDE DEF Last, add
<1>7. ASSUME NEW u
      PROVE  u \in ToldBy(w, n + 1, e) <=>
                \/ u \in ToldBy(w, n, e) /\ c.user # u
                \/ u = c.user /\ c.type = "add_user" /\ c.epoch = e
  <2>1. u \in ToldBy(w, n + 1, e) <=>
           /\ u \in UserId
           /\ \/ \E i \in 1 .. n : commands[w][i] = add(u) /\ Last(i, n + 1, u)
              \/ c = add(u) /\ Last(n + 1, n + 1, u)
    BY <1>3, <1>6
  <2> QED
    BY <1>1, <1>2, <1>3, <1>4, <1>5, <2>1
<1> QED
  BY <1>7

\* Whoever has been told nothing of test e has no user of it.
LEMMA NothingTold ==
    ASSUME NEW w \in Worker, NEW n \in Nat, NEW e,
           \A i \in 1 .. n : commands[w][i].epoch # e \/ commands[w][i].type # "add_user"
    PROVE  ToldBy(w, n, e) = {}
  BY DEF ToldBy

(***************************************************************************)
(* What a worker finds when it takes a command from its channel: it is the *)
(* next of its log, no earlier one is of a later test, and, start_test     *)
(* excepted, it is of no test the worker has not entered.  After stop_test *)
(* of a test no other command of it comes.                                 *)
(***************************************************************************)
LEMMA ReceiveNext ==
    ASSUME SystemInv, NEW w \in Worker, Receive(w), NEW c, c = Received(w)
    PROVE  /\ Read(w) \in Nat /\ Read(w) + 1 <= Len(commands[w]) /\ Done(w) = Read(w)
           /\ Read(w)' = Read(w) + 1 /\ ChannelFitsLog(w)' /\ ~InHand(w)
           /\ c \in ProperCommand /\ c = commands[w][Read(w) + 1]
           /\ \A i \in 1 .. Read(w) : commands[w][i].epoch <= c.epoch
           /\ c.type # "start_test" => c.epoch <= currentEpoch[w]
           /\ HeardBy(w, Read(w), "stop_test", c.epoch) => c.type = "stop_test"
           /\ phase[w] # "STOPPING"
<1> DEFINE n == Read(w)
<1> USE DEF SystemInv
<1>1. /\ dispatcher[w] = "poll" /\ channel[w] # <<>>
      /\ channel' = [channel EXCEPT ![w] = Tail(channel[w])] /\ commands' = commands
  BY DEF Receive
<1>2. channel[w] \in Seq(WellFormed) /\ channel \in [Worker -> Seq(WellFormed)]
  BY DEF DispatcherInv, ChannelsOK
<1>3. /\ Len(channel[w]) \in Nat /\ Len(channel[w]) >= 1
      /\ Len(Tail(channel[w])) = Len(channel[w]) - 1
      /\ \A i \in 1 .. Len(channel[w]) - 1 : Tail(channel[w])[i] = channel[w][i + 1]
      /\ Head(channel[w]) = channel[w][1]
  BY <1>1, <1>2
<1>4. WorkerFits(w) /\ ChannelFitsLog(w)
  BY DEF WorkerFits
<1>5. /\ Len(commands[w]) \in Nat
      /\ n \in 0 .. Len(commands[w]) /\ n + Len(channel[w]) = Len(commands[w])
  BY <1>4, ReadBounds
<1>6. channel'[w] = Tail(channel[w])
  BY <1>1, <1>2
<1>7. Read(w)' = Len(commands[w]) - (Len(channel[w]) - 1) /\ n = Len(commands[w]) - Len(channel[w])
  BY <1>1, <1>3, <1>6 DEF Read
<1>8. Read(w)' = n + 1
  BY <1>3, <1>5, <1>7
<1>9. c = commands[w][n + 1]
  <2>1. channel[w][1] = commands[w][n + 1]
    BY <1>3, <1>4 DEF ChannelFitsLog
  <2> QED
    BY <1>3, <2>1 DEF Received
<1>10. ChannelFitsLog(w)'
  <2>1. ASSUME NEW i \in 1 .. Len(channel[w]) - 1
        PROVE  channel'[w][i] = commands'[w][n + 1 + i]
    <3>1. channel'[w][i] = channel[w][i + 1] /\ i + 1 \in 1 .. Len(channel[w])
      BY <1>3, <1>6
    <3>2. channel[w][i + 1] = commands[w][n + (i + 1)]
      BY <1>4, <3>1 DEF ChannelFitsLog
    <3>3. n + (i + 1) = n + 1 + i
      BY <1>5
    <3> QED
      BY <1>1, <3>1, <3>2, <3>3
  <2> QED
    BY <1>3, <1>5, <1>6, <1>8, <2>1 DEF ChannelFitsLog
<1>11. ~InHand(w) /\ Done(w) = n
  BY <1>1 DEF InHand, Done
<1> HIDE DEF n
<1>13. n \in Nat /\ n + 1 \in 1 .. Len(commands[w])
  BY <1>3, <1>5
<1>12. c \in ProperCommand
  BY <1>9, <1>13 DEF LogInv, LogGrows
<1>14. \A i \in 1 .. n : i \in 1 .. Len(commands[w]) /\ i < n + 1
  BY <1>13
<1>15. \A i \in 1 .. n : commands[w][i].epoch <= c.epoch
  BY <1>9, <1>13, <1>14 DEF LogInv, LogGrows, EpochsGrow
<1>16. ASSUME c.type # "start_test" PROVE c.epoch <= currentEpoch[w]
  <2>3. StartComesFirst
    BY DEF LogInv, LogGrows
  <2>4. commands[w][n + 1].type # "start_test" /\ commands[w][n + 1].epoch = c.epoch
    BY <1>9, <1>16
  <2>1. PICK i \in 1 .. n + 1 - 1 : commands[w][i].epoch = c.epoch
    BY <1>13, <2>3, <2>4 DEF StartComesFirst
  <2>2. i \in 1 .. n
    BY <1>13
  <2> QED
    BY <1>4, <1>11, <2>1, <2>2 DEF WorkerFits, UpToDate
<1>17. ASSUME HeardBy(w, n, "stop_test", c.epoch) PROVE c.type = "stop_test"
  <2>1. PICK i \in 1 .. n : commands[w][i].type = "stop_test" /\ commands[w][i].epoch = c.epoch
    BY <1>17 DEF HeardBy
  <2>2. NothingAfterStop /\ faults = 0
    BY DEF LogInv, BooksInv, ChannelInv, ChannelsFit, CommandsInOrder, Unharmed
  <2>3. commands[w][n + 1].epoch <= commands[w][i].epoch
    BY <1>9, <1>12, <2>1 DEF ProperCommand, WellFormed, Command
  <2> QED
    BY <1>9, <1>13, <1>14, <2>1, <2>2, <2>3 DEF NothingAfterStop
<1>18. phase[w] # "STOPPING"
  BY <1>4, <1>11 DEF WorkerFits, PhaseFits
<1> QED
  BY <1>5, <1>8, <1>9, <1>10, <1>11, <1>12, <1>13, <1>15, <1>16, <1>17, <1>18 DEF n
-----------------------------------------------------------------------------
\* A command that counts from the moment it is read.
LEMMA TakenFits ==
    ASSUME SystemInv, NEW w \in Worker,
           Ignore(w) \/ StartAgain(w) \/ AddUser(w) \/ RemoveUser(w)
    PROVE  WorkerFits(w)'
<1> USE DEF SystemInv
<1>0. PICK c, n, e : c = Received(w) /\ n = Read(w) /\ e = currentEpoch[w]
  OBVIOUS
<1>1. /\ Receive(w) /\ commands' = commands
      /\ UNCHANGED currentEpoch
  BY DEF Ignore, StartAgain, AddUser, RemoveUser, Receive, workerVars
<1>2. /\ n \in Nat /\ n + 1 <= Len(commands[w]) /\ Done(w) = n
      /\ Read(w)' = n + 1 /\ ChannelFitsLog(w)' /\ ~InHand(w)
      /\ c \in ProperCommand /\ c = commands[w][n + 1]
      /\ c.type # "start_test" => c.epoch <= e
      /\ HeardBy(w, n, "stop_test", c.epoch) => c.type = "stop_test"
      /\ phase[w] # "STOPPING"
  BY <1>0, <1>1, ReceiveNext
<1>3. /\ PhaseFits(w) /\ UpToDate(w)
      /\ e \in Nat /\ c.epoch \in Nat /\ c.epoch > 0 /\ phase \in [Worker -> Phase]
      /\ assigned \in [Worker -> SUBSET UserId] /\ dispatcher \in [Worker -> DispatcherAwait]
      /\ dispatcher[w] = "poll" /\ c.type \in CommandType
      /\ c.type \in {"add_user", "remove_user"} <=> c.user \in UserId
  BY <1>0, <1>1, <1>2 DEF WorkerFits, DispatcherInv, TasksBelong, WorkerTypeOK, ProperCommand, WellFormed, Command,
     Receive
<1>4. ~InHand(w)'
  <2>1. CASE RemoveUser(w)
    BY <1>3, <2>1 DEF RemoveUser, Suspend, InHand
  <2>2. CASE ~RemoveUser(w)
    BY <1>3, <2>2 DEF Ignore, StartAgain, AddUser, workerVars, InHand
  <2> QED
    BY <2>1, <2>2
<1>5. Done(w)' = n + 1
  BY <1>0, <1>2, <1>4 DEF Done
<1>6. /\ \A t, x : HeardBy(w, n + 1, t, x) <=> HeardBy(w, n, t, x) \/ (c.type = t /\ c.epoch = x)
      /\ \A t, x : HeardBy(w, n + 1, t, x)' <=> HeardBy(w, n + 1, t, x)
      /\ ToldBy(w, n + 1, e)' = ToldBy(w, n + 1, e)
  <2>1. \A t, x : HeardBy(w, n + 1, t, x) <=> HeardBy(w, n, t, x) \/ (c.type = t /\ c.epoch = x)
    BY <1>0, <1>2, HeardNext
  <2> QED
    BY <1>1, <2>1 DEF HeardBy, ToldBy
<1>7. \A u : u \in ToldBy(w, n + 1, e) <=>
                 \/ u \in ToldBy(w, n, e) /\ c.user # u
                 \/ u = c.user /\ c.type = "add_user" /\ c.epoch = e
  <2>1. n \in Nat /\ c = commands[w][n + 1] /\ c \in ProperCommand
    BY <1>0, <1>2
  <2>2. PICK k : k = n + 1
    OBVIOUS
  <2>3. e \in Nat /\ c = commands[w][k]
    BY <1>3, <2>1, <2>2
  <2>4. \A u : u \in ToldBy(w, k, e) <=>
                 \/ u \in ToldBy(w, n, e) /\ c.user # u
                 \/ u = c.user /\ c.type = "add_user" /\ c.epoch = e
    BY <2>1, <2>2, <2>3, ToldNext
  <2> QED
    BY <2>2, <2>4
<1>8. ToldBy(w, n, e) \subseteq UserId
  BY DEF ToldBy
<1>9. /\ e > 0 => HeardBy(w, n, "start_test", e)
      /\ phase[w] = "IDLE" /\ e > 0 => HeardBy(w, n, "stop_test", e)
      /\ phase[w] = "RUNNING" => e > 0 /\ ~HeardBy(w, n, "stop_test", e)
      /\ \A i \in 1 .. n : commands[w][i].epoch <= e
      /\ phase[w] = "RUNNING" => assigned[w] = ToldBy(w, n, e)
  BY <1>0, <1>2, <1>3 DEF PhaseFits, UpToDate
<1>10. currentEpoch'[w] = e
  BY <1>0, <1>1
\* In the test it is in, a worker takes only what is of this test.
<1>11. /\ c.epoch <= e
       /\ phase'[w] = phase[w] \/ (phase'[w] = "RUNNING" /\ c.type = "start_test" /\ c.epoch = e)
       /\ phase[w] = "RUNNING" => phase'[w] = "RUNNING" /\ ~(c.type = "stop_test" /\ c.epoch = e)
       /\ phase'[w] = "RUNNING" => assigned'[w] = ToldBy(w, n + 1, e)
  <2>1. CASE Ignore(w)
    <3>1. Ignored(w, c) /\ UNCHANGED <<phase, assigned>>
      BY <1>0, <2>1 DEF Ignore, workerVars
    <3>2. c.epoch <= e /\ ~(phase[w] = "RUNNING" /\ c.type = "stop_test" /\ c.epoch = e)
      BY <1>0, <1>2, <1>3, <3>1 DEF Ignored
    <3>3. ASSUME phase[w] = "RUNNING" PROVE ToldBy(w, n + 1, e) = ToldBy(w, n, e)
      <4>1. CASE c.epoch # e
        <5>1. c.user \notin ToldBy(w, n, e)
          <6>1. \A i \in 1 .. n : commands[w][i].epoch <= c.epoch
            BY <1>0, <1>1, ReceiveNext
          <6>2. c.epoch < e
            BY <1>0, <1>3, <3>2, <4>1
          <6>3. \A i \in 1 .. n : commands[w][i].epoch # e
            <7>1. \A i \in 1 .. n : commands[w][i].epoch \in Nat
              <8>1. commands[w] \in Seq(ProperCommand) /\ \A x \in ProperCommand : x.epoch \in Nat
                BY DEF LogInv, LogGrows, ProperCommand, WellFormed, Command
              <8>2. \A i \in 1 .. n : i \in 1 .. Len(commands[w])
                BY <1>2, <8>1
              <8> QED
                BY <8>1, <8>2
            <7> QED
              BY <1>3, <6>1, <6>2, <7>1
          <6> QED
            BY <1>0, <6>3, NothingTold, <1>2
        <5> QED
          BY <1>7, <4>1, <5>1
      <4>2. CASE c.epoch = e
        <5>1. c.type \in {"add_user", "remove_user"} => c.type = "add_user" /\ c.user \in assigned[w]
          BY <1>0, <3>1, <3>3, <4>2 DEF Ignored
        <5> QED
          BY <1>3, <1>7, <1>8, <1>9, <3>3, <4>2, <5>1
      <4> QED
        BY <4>1, <4>2
    <3>4. phase'[w] = phase[w] /\ assigned'[w] = assigned[w]
      BY <3>1
    <3>5. phase[w] = "RUNNING" => assigned[w] = ToldBy(w, n + 1, e)
      BY <1>9, <3>3
    <3> QED
      BY <3>2, <3>4, <3>5
  <2>2. CASE StartAgain(w)
    <3>1. c.type = "start_test" /\ c.epoch = e /\ phase'[w] = "RUNNING" /\ assigned' = assigned
      BY <1>0, <1>3, <2>2 DEF StartAgain, Accepts
    <3>2. phase[w] = "RUNNING"
      BY <1>0, <1>2, <1>3, <1>9, <3>1 DEF Phase
    <3>3. ToldBy(w, n + 1, e) = ToldBy(w, n, e)
      <4>1. c.user \notin UserId
        BY <1>3, <3>1
      <4> QED
        BY <1>7, <1>8, <3>1, <4>1
    <3> QED
      BY <1>0, <1>3, <1>9, <3>1, <3>2, <3>3
  <2>3. CASE AddUser(w)
    <3>1. /\ c.type = "add_user" /\ c.epoch = e /\ phase[w] = "RUNNING" /\ phase' = phase
          /\ assigned'[w] = assigned[w] \union {c.user}
      BY <1>0, <1>3, <2>3 DEF AddUser, Accepts, Ignored
    <3>2. phase[w] = "RUNNING" => assigned'[w] = ToldBy(w, n + 1, e)
      <4>1. ToldBy(w, n + 1, e) = ToldBy(w, n, e) \union {c.user}
        BY <1>7, <3>1
      <4> QED
        BY <1>9, <3>1, <4>1
    <3> QED
      BY <1>0, <1>3, <3>1, <3>2
  <2>4. CASE RemoveUser(w)
    <3>1. /\ c.type = "remove_user" /\ c.epoch = e /\ phase' = phase
          /\ assigned'[w] = assigned[w] \ {c.user}
      BY <1>0, <1>3, <2>4 DEF RemoveUser, Accepts, Ignored
    <3>2. phase[w] = "RUNNING" => assigned'[w] = ToldBy(w, n + 1, e)
      <4>1. ToldBy(w, n + 1, e) = ToldBy(w, n, e) \ {c.user}
        BY <1>7, <3>1
      <4> QED
        BY <1>9, <3>1, <4>1
    <3> QED
      BY <1>0, <1>3, <3>1, <3>2
  <2> QED
    BY <2>1, <2>2, <2>3, <2>4
<1>12. PhaseFits(w)'
  <2>1. phase'[w] # "STOPPING"
    BY <1>2, <1>11
  <2>2. phase'[w] = "IDLE" => phase[w] = "IDLE"
    BY <1>11
  <2>3. phase'[w] = "RUNNING" => e > 0 /\ ~HeardBy(w, n + 1, "stop_test", e)
    BY <1>0, <1>2, <1>3, <1>6, <1>9, <1>11
  <2> QED
    BY <1>5, <1>6, <1>9, <1>10, <2>1, <2>2, <2>3 DEF PhaseFits
<1>13. UpToDate(w)'
  <2>1. \A i \in 1 .. n + 1 : i \in 1 .. n \/ i = n + 1
    BY <1>0, <1>2
  <2>2. \A i \in 1 .. n + 1 : commands[w][i].epoch <= e
    BY <1>0, <1>2, <1>9, <1>11, <2>1
  <2> QED
    BY <1>1, <1>5, <1>6, <1>10, <1>11, <2>2 DEF UpToDate
<1> QED
  BY <1>2, <1>4, <1>12, <1>13 DEF WorkerFits, HandlingFits

\* start_test of a newer test and stop_test, up to their first await: nothing counts yet.
LEMMA StopTakenFits ==
    ASSUME SystemInv, NEW w \in Worker, StartNewer(w) \/ StopCurrent(w)
    PROVE  WorkerFits(w)'
<1> USE DEF SystemInv
<1>0. PICK c, n : c = Received(w) /\ n = Read(w)
  OBVIOUS
<1>1. /\ Receive(w) /\ commands' = commands /\ StopAllTasks(w, c)
      /\ UNCHANGED currentEpoch
  BY <1>0 DEF StartNewer, StopCurrent, Receive
<1>2. /\ n \in Nat /\ Done(w) = n /\ Read(w)' = n + 1 /\ ChannelFitsLog(w)' /\ ~InHand(w)
      /\ c \in ProperCommand /\ c = commands[w][n + 1] /\ phase[w] # "STOPPING"
  BY <1>0, <1>1, ReceiveNext
<1>3. /\ dispatcher \in [Worker -> DispatcherAwait] /\ phase \in [Worker -> Phase]
      /\ handling \in [Worker -> Command \union {NoCommand}]
  BY DEF DispatcherInv, TasksBelong, WorkerTypeOK
<1>4. dispatcher'[w] \in {"halt", "clear"} /\ handling'[w] = c
  BY <1>1, <1>3 DEF StopAllTasks, Suspend
<1>5. InHand(w)' /\ Done(w)' = n
  BY <1>2, <1>4 DEF InHand, Done
<1>6. /\ \A t, x : HeardBy(w, n, t, x)' <=> HeardBy(w, n, t, x)
      /\ currentEpoch'[w] = currentEpoch[w]
  BY <1>1 DEF HeardBy
<1>7. /\ c.type = "start_test" => c.epoch > currentEpoch[w] /\ phase'[w] = phase[w]
      /\ c.type = "stop_test" => c.epoch = currentEpoch[w] /\ phase'[w] = "STOPPING"
      /\ c.type \in {"start_test", "stop_test"}
  <2>1. CASE StartNewer(w)
    BY <1>0, <2>1 DEF StartNewer, Accepts
  <2>2. CASE StopCurrent(w)
    BY <1>0, <1>3, <2>2 DEF StopCurrent, Accepts, Ignored
  <2> QED
    BY <2>1, <2>2
<1>8. HandlingFits(w)'
  BY <1>1, <1>2, <1>4, <1>6, <1>7 DEF HandlingFits
<1>9. PhaseFits(w)'
  <2>1. PhaseFits(w)
    BY DEF WorkerFits
  <2> QED
    BY <1>2, <1>4, <1>5, <1>6, <1>7, <2>1 DEF PhaseFits
<1>10. UpToDate(w)'
  <2>1. UpToDate(w)
    BY DEF WorkerFits
  <2> QED
    BY <1>1, <1>2, <1>5, <1>6, <2>1 DEF UpToDate
<1> QED
  BY <1>2, <1>8, <1>9, <1>10 DEF WorkerFits

(***************************************************************************)
(* The end of start_test and stop_test.  A started worker has no task and  *)
(* no user left of an earlier test, and has heard of none of this one.     *)
(***************************************************************************)
LEMMA ClearFits ==
    ASSUME SystemInv, NEW w \in Worker, ClearActive(w)
    PROVE  WorkerFits(w)'
<1> USE DEF SystemInv
<1>0. PICK c, n : c = handling[w] /\ n = Read(w)
  OBVIOUS
<1>1. WorkerFits(w) /\ InHand(w) /\ ChannelFitsLog(w)
  BY DEF ClearActive, InHand, WorkerFits
<1>2. /\ n \in Nat /\ n > 0 /\ Len(commands[w]) \in Nat /\ n <= Len(commands[w])
      /\ Done(w) = n - 1 /\ c = commands[w][n]
      /\ c.type = "start_test" => c.epoch > currentEpoch[w]
      /\ c.type = "stop_test" => c.epoch = currentEpoch[w]
  <2>1. HandlingFits(w) /\ InHand(w)
    BY <1>1 DEF WorkerFits
  <2>2. /\ n > 0 /\ c = commands[w][n]
        /\ c.type = "start_test" => c.epoch > currentEpoch[w]
        /\ c.type = "stop_test" => c.epoch = currentEpoch[w]
    BY <1>0, <2>1 DEF HandlingFits
  <2>3. Len(commands[w]) \in Nat /\ n \in 0 .. Len(commands[w])
    BY <1>0, <1>1, ReadBounds
  <2>4. Done(w) = n - 1
    BY <1>0, <1>1 DEF Done
  <2> QED
    BY <2>2, <2>3, <2>4
<1>3. /\ dispatcher \in [Worker -> DispatcherAwait] /\ phase \in [Worker -> Phase]
      /\ currentEpoch \in [Worker -> Nat] /\ assigned[w] = {}
  BY DEF DispatcherInv, TasksBelong, WorkerTypeOK, ClearActive, ClearIsDrained
<1>4. /\ commands' = commands /\ channel' = channel /\ assigned' = assigned
      /\ dispatcher'[w] = "poll"
  BY <1>3 DEF ClearActive, Return
<1>5. ~InHand(w)' /\ Read(w)' = n /\ Done(w)' = n
  BY <1>0, <1>4 DEF InHand, Read, Done
<1>6. ChannelFitsLog(w)'
  BY <1>1, <1>4 DEF ChannelFitsLog, Read
<1>7. c \in ProperCommand /\ \A i \in 1 .. n : commands[w][i] \in ProperCommand
  <2>1. commands[w] \in Seq(ProperCommand)
    BY DEF LogInv, LogGrows
  <2>2. \A i \in 1 .. n : i \in 1 .. Len(commands[w])
    BY <1>2
  <2> QED
    BY <1>2, <2>1, <2>2
<1>8. \A i \in 1 .. n : i = n \/ commands[w][i].epoch <= currentEpoch[w]
  <2>1. \A i \in 1 .. n : i = n \/ i \in 1 .. n - 1
    BY <1>2
  <2> QED
    BY <1>1, <1>2, <2>1 DEF WorkerFits, UpToDate
<1>9. /\ \A t, x : HeardBy(w, n, t, x)' <=> HeardBy(w, n, t, x)
      /\ \A x : ToldBy(w, n, x)' = ToldBy(w, n, x)
  BY <1>4 DEF HeardBy, ToldBy
<1>10. HeardBy(w, n, c.type, c.epoch)
  BY <1>2 DEF HeardBy
<1>11. CASE c.type = "start_test"
  <2>1. currentEpoch'[w] = c.epoch /\ phase'[w] = "RUNNING"
    BY <1>0, <1>3, <1>11 DEF ClearActive
  <2>2. c.epoch \in Nat /\ c.epoch > 0 /\ currentEpoch[w] \in Nat
    BY <1>3, <1>7 DEF ProperCommand, WellFormed, Command
  <2>3. \A i \in 1 .. n : commands[w][i].epoch \in Nat
    BY <1>7 DEF ProperCommand, WellFormed, Command
  <2>4. \A i \in 1 .. n : i = n \/ commands[w][i].epoch < c.epoch
    BY <1>2, <1>8, <1>11, <2>2, <2>3
  <2>5. ToldBy(w, n, c.epoch) = {}
    BY <1>2, <1>11, <2>2, <2>3, <2>4, NothingTold
  <2>6. ~HeardBy(w, n, "stop_test", c.epoch)
    BY <1>2, <1>11, <2>2, <2>3, <2>4 DEF HeardBy
  <2>7. \A i \in 1 .. n : commands[w][i].epoch <= c.epoch
    BY <1>2, <2>2, <2>3, <2>4
  <2>8. PhaseFits(w)'
    BY <1>5, <1>9, <1>10, <1>11, <2>1, <2>2, <2>6 DEF PhaseFits
  <2>9. UpToDate(w)'
    BY <1>3, <1>4, <1>5, <1>9, <2>1, <2>5, <2>7 DEF UpToDate
  <2> QED
    BY <1>5, <1>6, <2>8, <2>9 DEF WorkerFits, HandlingFits
<1>12. CASE c.type = "stop_test"
  <2>1. currentEpoch'[w] = currentEpoch[w] /\ phase'[w] = "IDLE" /\ c.epoch = currentEpoch[w]
    BY <1>0, <1>2, <1>3, <1>12 DEF ClearActive
  <2>2. currentEpoch[w] > 0 => HeardBy(w, n, "start_test", currentEpoch[w])
    <3>1. \A t, x : HeardBy(w, n - 1, t, x) => HeardBy(w, n, t, x)
      BY <1>2 DEF HeardBy
    <3> QED
      BY <1>1, <1>2, <3>1 DEF WorkerFits, PhaseFits
  <2>3. PhaseFits(w)'
    BY <1>5, <1>9, <1>10, <1>12, <2>1, <2>2 DEF PhaseFits
  <2>4. \A i \in 1 .. n : commands[w][i].epoch <= currentEpoch[w]
    BY <1>2, <1>3, <1>8, <2>1
  <2>5. UpToDate(w)'
    BY <1>4, <1>5, <2>1, <2>4 DEF UpToDate
  <2> QED
    BY <1>5, <1>6, <2>3, <2>5 DEF WorkerFits, HandlingFits
<1> QED
  BY <1>0, <1>11, <1>12 DEF ClearActive

-----------------------------------------------------------------------------
\* A worker writes active_users only, and leaves the other workers alone.
LEMMA WorkersApart ==
    ASSUME DispatcherInv, NEW w \in Worker, WorkerNext(w)
    PROVE  /\ UNCHANGED <<stateKeys, userSetKeys, timeline, presenceKeys, commands>>
           /\ \A v \in Worker \ {w} :
                /\ channel'[v] = channel[v] /\ dispatcher'[v] = dispatcher[v]
                /\ handling'[v] = handling[v] /\ phase'[v] = phase[v]
                /\ currentEpoch'[v] = currentEpoch[v] /\ assigned'[v] = assigned[v]
<1> DEFINE Apart ==
      /\ UNCHANGED <<stateKeys, userSetKeys, timeline, presenceKeys, commands>>
      /\ \A v \in Worker \ {w} :
           /\ channel'[v] = channel[v] /\ dispatcher'[v] = dispatcher[v]
           /\ handling'[v] = handling[v] /\ phase'[v] = phase[v]
           /\ currentEpoch'[v] = currentEpoch[v] /\ assigned'[v] = assigned[v]
<1>0. /\ channel \in [Worker -> Seq(WellFormed)]
      /\ dispatcher \in [Worker -> DispatcherAwait] /\ phase \in [Worker -> Phase]
      /\ handling \in [Worker -> Command \union {NoCommand}]
      /\ currentEpoch \in [Worker -> Nat] /\ assigned \in [Worker -> SUBSET UserId]
  BY DEF DispatcherInv, TasksBelong, WorkerTypeOK, ChannelsOK
<1>1. CASE TaskStep(w) \/ TaskFails(w) \/ ForceTasks(w)
  BY <1>1 DEF TaskStep, TaskFails, ForceTasks
<1>2. CASE Ignore(w) \/ StartAgain(w)
  BY <1>0, <1>2 DEF Ignore, StartAgain, Receive, workerVars
<1>3. CASE StartNewer(w) \/ StopCurrent(w)
  <2>1. /\ UNCHANGED <<stateKeys, userSetKeys, timeline, presenceKeys, commands, currentEpoch>>
        /\ channel' = [channel EXCEPT ![w] = Tail(@)]
        /\ phase' = phase \/ phase' = [phase EXCEPT ![w] = "STOPPING"]
    BY <1>3 DEF StartNewer, StopCurrent, Receive
  <2>2. /\ \E a : dispatcher' = [dispatcher EXCEPT ![w] = a]
        /\ handling' = [handling EXCEPT ![w] = Received(w)]
        /\ assigned' = assigned \/ assigned' = [assigned EXCEPT ![w] = {}]
    BY <1>3 DEF StartNewer, StopCurrent, StopAllTasks, Suspend
  <2> QED
    BY <1>0, <2>1, <2>2
<1>4. CASE AddUser(w)
  BY <1>0, <1>4 DEF AddUser, Receive
<1>5. CASE RemoveUser(w)
  BY <1>0, <1>5 DEF RemoveUser, Receive, Suspend
<1>6. CASE TasksStopped(w) \/ TaskReaped(w) \/ HandlerFails(w)
  BY <1>0, <1>6 DEF TasksStopped, TaskReaped, HandlerFails, Suspend, Return, redisVars
<1>7. CASE ClearActive(w)
  BY <1>0, <1>7 DEF ClearActive, Return
<1>8. CASE DropUser(w)
  BY <1>0, <1>8 DEF DropUser, Return, Suspend
<1> QED
  BY <1>1, <1>2, <1>3, <1>4, <1>5, <1>6, <1>7, <1>8 DEF WorkerNext, WorkerStep, Dispatch

\* Every step of a worker none of whose handlers fails.
LEMMA OwnStepFits ==
    ASSUME SystemInv, NEW w \in Worker, WorkerNext(w), MaxWorkerFaults = 0
    PROVE  WorkerFits(w)'
<1> USE DEF SystemInv
<1>0. /\ dispatcher \in [Worker -> DispatcherAwait]
      /\ handling \in [Worker -> Command \union {NoCommand}]
      /\ assigned \in [Worker -> SUBSET UserId] /\ workerFaults \in Nat
      /\ Len(commands[w]) \in Nat /\ WorkerFits(w) /\ ChannelFitsLog(w)
  BY ReadBounds DEF DispatcherInv, TasksBelong, WorkerTypeOK, WorkerFits
<1>1. ASSUME UNCHANGED <<commands, channel, phase, currentEpoch>>, InHand(w)' <=> InHand(w),
             InHand(w) => handling'[w] = handling[w],
             InHand(w) \/ assigned'[w] = assigned[w]
      PROVE  WorkerFits(w)'
  <2>1. Read(w)' = Read(w) /\ ChannelFitsLog(w)' /\ Extends(w)
    <3>1. commands' = commands /\ channel' = channel
      BY <1>1
    <3>2. Extends(w)
      BY <1>0, <3>1 DEF Extends
    <3>3. Read(w)' = Read(w) /\ ChannelFitsLog(w)'
      BY <1>0, <3>1 DEF Read, ChannelFitsLog
    <3> QED
      BY <3>2, <3>3
  <2> QED
    BY <1>0, <1>1, <2>1, WorkerStays
<1>2. CASE TaskStep(w) \/ TaskFails(w) \/ ForceTasks(w)
  BY <1>1, <1>2 DEF TaskStep, TaskFails, ForceTasks, InHand
<1>3. CASE TasksStopped(w)
  BY <1>0, <1>1, <1>3 DEF TasksStopped, Suspend, InHand, redisVars
<1>4. CASE TaskReaped(w)
  BY <1>0, <1>1, <1>4 DEF TaskReaped, Return, InHand, redisVars
<1>5. CASE DropUser(w)
  BY <1>0, <1>1, <1>5 DEF DropUser, Return, Suspend, InHand
<1>6. ~HandlerFails(w)
  BY <1>0 DEF HandlerFails
<1> QED
  BY <1>2, <1>3, <1>4, <1>5, <1>6, TakenFits, StopTakenFits, ClearFits
     DEF WorkerNext, WorkerStep, Dispatch

LEMMA WorkersKeep ==
    ASSUME SystemInv, WorkersStep, MaxWorkerFaults = 0
    PROVE  SystemInv'
<1> USE DEF SystemInv
<1>1. PICK w \in Worker : WorkerNext(w) /\ ByWorker
  BY DEF WorkersStep
<1>2. DispatcherInv'
  BY <1>1, TaskStepKeeps, DispatchKeeps DEF WorkerNext, WorkerStep
<1>3. LogInv'
  BY <1>1, <1>2, WorkersApart, WorkersLeaveLog DEF ByWorker, DispatcherInv, ChannelsOK
<1>4. ASSUME NEW v \in Worker, v # w PROVE WorkerFits(v)'
  <2>1. /\ commands' = commands /\ channel'[v] = channel[v] /\ dispatcher'[v] = dispatcher[v]
        /\ handling'[v] = handling[v] /\ phase'[v] = phase[v]
        /\ currentEpoch'[v] = currentEpoch[v] /\ assigned'[v] = assigned[v]
    BY <1>1, <1>4, WorkersApart
  <2>2. WorkerFits(v) /\ ChannelFitsLog(v) /\ Len(commands[v]) \in Nat
    BY ReadBounds DEF WorkerFits
  <2>3. Read(v)' = Read(v) /\ (InHand(v)' <=> InHand(v))
    BY <2>1 DEF Read, InHand
  <2>4. ChannelFitsLog(v)'
    BY <2>1, <2>2, <2>3 DEF ChannelFitsLog
  <2>5. Extends(v)
    BY <2>1, <2>2 DEF Extends
  <2> QED
    BY <2>1, <2>2, <2>3, <2>4, <2>5, WorkerStays
<1>5. testState' = testState
  BY <1>1, WorkersApart DEF stateKeys
<1> QED
  BY <1>1, <1>2, <1>3, <1>4, <1>5, OwnStepFits

-----------------------------------------------------------------------------
\* What the orchestrator publishes arrives, behind what has not been read.
LEMMA ArrivalFits ==
    ASSUME LogInv, LogInv', DispatcherInv, NEW w \in Worker, ChannelFitsLog(w), Extends(w),
           Delivers
    PROVE  Read(w)' = Read(w) /\ ChannelFitsLog(w)' /\ channel'[w] \in Seq(WellFormed)
<1>0. PICK old, log, was, is : /\ old = commands[w] /\ log = commands'[w]
                               /\ was = channel[w] /\ is = channel'[w]
  OBVIOUS
<1>1. PICK n, m, l, r : n = Len(old) /\ m = Len(log) /\ l = Len(was) /\ r = Read(w)
  OBVIOUS
<1>2. PICK new : new = SubSeq(log, n + 1, m)
  OBVIOUS
<1>3. old \in Seq(ProperCommand) /\ log \in Seq(ProperCommand) /\ was \in Seq(WellFormed)
  BY <1>0 DEF LogInv, LogGrows, DispatcherInv, ChannelsOK
<1>4. /\ n \in Nat /\ m \in Nat /\ n <= m /\ l \in Nat
      /\ \A i \in 1 .. n : log[i] = old[i]
  BY <1>0, <1>1, <1>3 DEF Extends
<1>5. r \in Nat /\ r + l = n
  BY <1>0, <1>1, ReadBounds
<1>6. /\ new \in Seq(WellFormed) /\ Len(new) = m - n
      /\ \A i \in 1 .. m - n : new[i] = log[n + i]
  <2>1. n + 1 \in Int /\ m \in Int /\ \A i \in n + 1 .. m : log[i] \in WellFormed
    <3>1. \A i \in n + 1 .. m : i \in 1 .. Len(log)
      BY <1>1, <1>4
    <3>2. \A i \in 1 .. Len(log) : log[i] \in ProperCommand
      BY <1>3
    <3> QED
      BY <1>4, <3>1, <3>2 DEF ProperCommand
  <2>2. /\ new \in Seq(WellFormed)
        /\ Len(new) = IF n + 1 <= m THEN m - (n + 1) + 1 ELSE 0
        /\ \A i \in 1 .. m - (n + 1) + 1 : new[i] = log[(n + 1) + i - 1]
    BY <1>2, <2>1, SubSeqProperties
  <2>3. m - (n + 1) + 1 = m - n /\ (n + 1 <= m \/ m - n = 0)
    BY <1>4
  <2>4. \A i \in 1 .. m - n : (n + 1) + i - 1 = n + i
    BY <1>4
  <2> QED
    BY <2>2, <2>3, <2>4
<1>7. is = was \o new
  BY <1>0, <1>1, <1>2 DEF Delivers, Delivered
<1>8. /\ is \in Seq(WellFormed) /\ Len(is) = l + Len(new)
      /\ \A i \in 1 .. l + Len(new) : is[i] = IF i <= l THEN was[i] ELSE new[i - l]
  <2>1. was \in Seq(WellFormed) /\ new \in Seq(WellFormed)
    BY <1>3, <1>6
  <2>2. /\ was \o new \in Seq(WellFormed)
        /\ Len(was \o new) = Len(was) + Len(new)
        /\ \A i \in 1 .. Len(was) + Len(new) : (was \o new)[i] =
                IF i <= Len(was) THEN was[i] ELSE new[i - Len(was)]
    BY <2>1, ConcatProperties, Zenon
  <2>3. l = Len(was)
    BY <1>1
  <2> QED
    BY <1>7, <2>2, <2>3
<1>9. Len(is) = l + (m - n)
  BY <1>6, <1>8
<1>10. Read(w)' = r
  <2>1. Read(w)' = m - Len(is)
    BY <1>0, <1>1 DEF Read
  <2> QED
    BY <1>4, <1>5, <1>9, <2>1
<1>11. ASSUME NEW i \in 1 .. Len(is) PROVE is[i] = log[r + i]
  <2>1. i \in Int /\ i >= 1 /\ i <= l + (m - n)
    BY <1>4, <1>9
  <2>2. is[i] = IF i <= l THEN was[i] ELSE new[i - l]
    BY <1>8
  <2>3. CASE i <= l
    <3>1. i \in 1 .. l /\ r + i \in 1 .. n
      BY <1>4, <1>5, <2>1, <2>3
    <3>2. was[i] = old[r + i]
      BY <1>0, <1>1, <3>1 DEF ChannelFitsLog
    <3> QED
      BY <1>4, <2>2, <2>3, <3>1, <3>2
  <2>4. CASE ~(i <= l)
    <3>1. i - l \in 1 .. m - n /\ n + (i - l) = r + i
      BY <1>4, <1>5, <2>1, <2>4
    <3>2. new[i - l] = log[n + (i - l)]
      BY <1>6, <3>1
    <3> QED
      BY <2>2, <2>4, <3>1, <3>2
  <2> QED
    BY <2>3, <2>4
<1>12. ChannelFitsLog(w)'
  BY <1>0, <1>5, <1>10, <1>11 DEF ChannelFitsLog
<1> QED
  BY <1>0, <1>1, <1>8, <1>10, <1>12

LEMMA OrchestratorKeeps ==
    ASSUME OneSlot, MaxFaults = 0, SystemInv, OrchestratorStep
    PROVE  SystemInv'
<1> USE DEF SystemInv
<1>1. OrchestratorNext /\ Delivers /\ UNCHANGED workerVars
  BY DEF OrchestratorStep, Delivers
<1>2. LogInv'
  BY <1>1, LogInductive
<1>3. /\ \A w \in Worker : Extends(w)
      /\ \A w \in Worker : activeUsers'[w] \subseteq activeUsers[w]
  BY <1>1, OrchestratorTells DEF LogInv, BooksInv, ChannelInv, OneClientInv, FenceInv
<1>4. \A w \in Worker : ChannelFitsLog(w)
  BY DEF WorkerFits
<1>5. \A w \in Worker : /\ Read(w)' = Read(w) /\ ChannelFitsLog(w)'
                        /\ channel'[w] \in Seq(WellFormed)
  BY <1>1, <1>2, <1>3, <1>4, ArrivalFits
<1>6. ChannelsOK'
  <2>1. activeUsers' \in [Worker -> SUBSET UserId]
    BY <1>2 DEF LogInv, BooksInv, ChannelInv, OneClientInv, FenceInv, TypeOK, RedisTypeOK
  <2>2. channel' = [w \in Worker |-> channel'[w]]
    BY <1>1 DEF Delivers
  <2> QED
    BY <1>5, <2>1, <2>2 DEF ChannelsOK
<1>7. DispatcherInv'
  BY <1>1, <1>3, <1>6, QuietKeeps
<1>8. ASSUME NEW w \in Worker PROVE WorkerFits(w)'
  <2>1. WorkerFits(w)
    OBVIOUS
  <2>2. /\ dispatcher' = dispatcher /\ handling' = handling /\ phase' = phase
        /\ currentEpoch' = currentEpoch /\ assigned' = assigned
    BY <1>1 DEF workerVars
  <2> QED
    BY <1>3, <1>5, <2>1, <2>2, WorkerStays DEF InHand
<1>9. Request # {}
  <2>1. ~Fault
    BY DEF Fault, RedisError, ClaimAnswerLost, CommitAnswerLost, OrchestratorCrash, LogInv, Unharmed
  <2> QED
    BY <1>1, <2>1 DEF OrchestratorNext
<1> QED
  BY <1>2, <1>7, <1>8, <1>9

LEMMA SystemStarts == SystemInit => SystemInv
<1> SUFFICES ASSUME SystemInit PROVE SystemInv
  OBVIOUS
<1>1. Init /\ WorkerInit
  BY DEF SystemInit
<1>2. LogInv
  BY <1>1, LogInit
<1>3. DispatcherInv
  BY <1>1, InitDispatcher DEF Init, DispatcherInit
<1>4. ASSUME NEW w \in Worker PROVE WorkerFits(w)
  <2>1. commands[w] = <<>> /\ channel[w] = <<>> /\ Len(<<>>) = 0
    BY <1>1 DEF Init, RedisInit, WorkerInit
  <2>2. ~InHand(w) /\ phase[w] = "IDLE" /\ currentEpoch[w] = 0
    BY <1>1 DEF WorkerInit, InHand
  <2>3. Read(w) = 0 /\ Done(w) = 0
    BY <2>1, <2>2 DEF Read, Done
  <2> QED
    BY <2>1, <2>2, <2>3 DEF WorkerFits, ChannelFitsLog, HandlingFits, PhaseFits, UpToDate
<1>5. testState = "IDLE"
  BY <1>1 DEF Init, RedisInit
<1> QED
  BY <1>2, <1>3, <1>4, <1>5 DEF SystemInv

LEMMA NothingMoves ==
    ASSUME SystemInv, UNCHANGED systemVars
    PROVE  SystemInv'
<1> USE DEF SystemInv
<1>1. /\ UNCHANGED <<stateKeys, userSetKeys, timeline, presenceKeys, commands, activeUsers>>
      /\ UNCHANGED <<requestVars, boundVars, channel, workerVars>>
  BY DEF systemVars, vars, redisVars
<1>2. DispatcherInv'
  BY <1>1, StutterKeeps DEF dispatcherVars, redisVars
<1>3. LogInv'
  BY <1>1, <1>2, WorkersLeaveLog DEF DispatcherInv, ChannelsOK
<1>4. ASSUME NEW w \in Worker PROVE WorkerFits(w)'
  <2>1. /\ commands' = commands /\ channel' = channel /\ dispatcher' = dispatcher
        /\ handling' = handling /\ phase' = phase
        /\ currentEpoch' = currentEpoch /\ assigned' = assigned
    BY <1>1 DEF workerVars
  <2>2. WorkerFits(w) /\ ChannelFitsLog(w) /\ Len(commands[w]) \in Nat
    BY ReadBounds DEF WorkerFits
  <2>3. Read(w)' = Read(w) /\ ChannelFitsLog(w)'
    BY <2>1, <2>2 DEF Read, ChannelFitsLog
  <2>4. Extends(w) /\ (InHand(w)' <=> InHand(w))
    BY <2>1, <2>2 DEF Extends, InHand
  <2> QED
    BY <2>1, <2>2, <2>3, <2>4, WorkerStays
<1>5. testState' = testState
  BY <1>1 DEF stateKeys
<1> QED
  BY <1>2, <1>3, <1>4, <1>5

THEOREM SystemInvariant ==
    ASSUME OneSlot, NothingFails
    PROVE  SystemSpec => []SystemInv
<1>1. SystemInv /\ [SystemNext]_systemVars => SystemInv'
  BY OrchestratorKeeps, WorkersKeep, NothingMoves DEF SystemNext, SystemRest, NothingFails
<1> QED
  BY <1>1, SystemStarts, PTL DEF SystemSpec

-----------------------------------------------------------------------------
(***************************************************************************)
(* A worker that has read its channel.  It is in the test that runs, if    *)
(* one does, and was told all that ToldUsers says; when none runs, it has  *)
(* heard the end of every test it was in.                                  *)
(***************************************************************************)
LEMMA RestingState ==
    ASSUME SystemInv, AtRest
    PROVE  testState \in {"IDLE", "RUNNING"}
  BY DEF SystemInv, AtRest, LogInv, LogFits

LEMMA ChannelRead ==
    ASSUME SystemInv, NEW w \in Worker, channel[w] = <<>>, dispatcher[w] = "poll"
    PROVE  /\ ~InHand(w) /\ Done(w) = Len(commands[w]) /\ Len(commands[w]) \in Nat
           /\ phase[w] \in {"IDLE", "RUNNING"}
           /\ currentEpoch[w] \in Nat /\ currentEpoch[w] <= testEpoch
<1> USE DEF SystemInv
<1>1. ~InHand(w) /\ WorkerFits(w)
  BY DEF InHand
<1>2. Len(channel[w]) = 0
  OBVIOUS
<1>3. Len(commands[w]) \in Nat /\ Done(w) = Len(commands[w])
  BY <1>1, <1>2, ReadBounds DEF Read, Done, WorkerFits
<1>4. phase[w] \in Phase /\ currentEpoch[w] \in Nat /\ testEpoch \in Nat
  BY DEF DispatcherInv, TasksBelong, WorkerTypeOK, LogInv, BooksInv, ChannelInv, OneClientInv,
     FenceInv, TypeOK, RedisTypeOK
<1>5. phase[w] \in {"IDLE", "RUNNING"}
  BY <1>1, <1>4 DEF WorkerFits, PhaseFits, Phase
<1>6. CASE currentEpoch[w] > 0
  <2>1. PICK i \in 1 .. Len(commands[w]) : commands[w][i].epoch = currentEpoch[w]
    BY <1>1, <1>3, <1>6 DEF WorkerFits, PhaseFits, HeardBy
  <2>2. commands[w][i].epoch <= testEpoch
    BY DEF LogInv, BooksInv, ChannelInv, OneClientInv, FenceInv, EpochFence, CommandsBehind
  <2> QED
    BY <1>1, <1>3, <1>4, <1>5, <2>1, <2>2
<1> QED
  BY <1>1, <1>3, <1>4, <1>5, <1>6

LEMMA WorkerIsIdle ==
    ASSUME SystemInv, testState = "IDLE",
           NEW w \in Worker, channel[w] = <<>>, dispatcher[w] = "poll"
    PROVE  phase[w] = "IDLE"
<1> USE DEF SystemInv
<1>1. SUFFICES ASSUME phase[w] = "RUNNING" PROVE FALSE
  BY ChannelRead
<1>2. /\ currentEpoch[w] > 0 /\ currentEpoch[w] \in Nat /\ currentEpoch[w] <= testEpoch
      /\ ~HeardBy(w, Len(commands[w]), "stop_test", currentEpoch[w])
  BY <1>1, ChannelRead DEF WorkerFits, PhaseFits
<1>3. testEpoch \in Nat
  BY DEF LogInv, BooksInv, ChannelInv, OneClientInv, FenceInv, TypeOK, RedisTypeOK
<1>4. currentEpoch[w] \in 1 .. testEpoch
  BY <1>2, <1>3
<1>5. Ended(w, currentEpoch[w])
  BY <1>4 DEF LogInv, LogEnds, TestsEnd
<1> QED
  BY <1>2, <1>5 DEF Ended, HeardBy

LEMMA WorkerIsRunning ==
    ASSUME SystemInv, AtRest, testState = "RUNNING",
           NEW w \in Worker, channel[w] = <<>>, dispatcher[w] = "poll"
    PROVE  assigned[w] = workerUsers[w]
<1> USE DEF SystemInv
<1>1. ~InHand(w) /\ Done(w) = Len(commands[w]) /\ phase[w] \in {"IDLE", "RUNNING"}
  BY ChannelRead
<1>2. currentEpoch[w] \in Nat /\ currentEpoch[w] <= testEpoch /\ testEpoch \in Nat
  BY ChannelRead DEF LogInv, BooksInv, ChannelInv, OneClientInv, FenceInv, TypeOK, RedisTypeOK
<1>3. testEpoch > 0
  BY DEF LogInv, LogEnds
<1>4. currentEpoch[w] = testEpoch
  <2>1. Heard(w, "start_test")
    BY DEF LogInv, LogEnds, AllHeardStart
  <2>2. PICK i \in 1 .. Len(commands[w]) : commands[w][i].epoch = testEpoch
    BY <2>1 DEF Heard
  <2>3. testEpoch <= currentEpoch[w]
    BY <1>1, <2>2 DEF WorkerFits, UpToDate
  <2> QED
    BY <1>2, <2>3
<1>5. ~Heard(w, "stop_test")
  <2>1. \A r \in Request : ~RollsBack(r)
    BY DEF AtRest, RollsBack, StopAwaits
  <2>2. ~(faults >= 2)
    BY DEF LogInv, Unharmed
  <2> QED
    BY <2>1, <2>2 DEF LogInv, BooksInv, ChannelInv, ChannelsFit
<1>6. phase[w] = "RUNNING"
  <2>1. phase[w] = "IDLE" => HeardBy(w, Len(commands[w]), "stop_test", testEpoch)
    BY <1>1, <1>3, <1>4 DEF WorkerFits, PhaseFits
  <2> QED
    BY <1>1, <1>5, <2>1 DEF Heard, HeardBy
<1>7. assigned[w] = ToldBy(w, Len(commands[w]), testEpoch)
  BY <1>1, <1>4, <1>6 DEF WorkerFits, UpToDate
<1>8. ToldUsers(w) = workerUsers[w]
  BY DEF LogInv, BooksInv, DeliveredMatchesAssigned, Unharmed
<1> QED
  BY <1>7, <1>8 DEF ToldBy, ToldUsers

(***************************************************************************)
(* Whenever the requests are answered, a worker that has read its channel  *)
(* is assigned exactly the users Redis lists for it, and none when no test *)
(* runs: what add_users, remove_users and the broadcasts publish, and what *)
(* the dispatcher makes of it, add up, for any workers, users and tests.   *)
(***************************************************************************)
THEOREM WorkersAgreeWithRedis ==
    ASSUME OneSlot, NothingFails
    PROVE  SystemSpec => []WorkersAgree
<1>1. SystemInv => WorkersAgree
  <2>1. SUFFICES ASSUME SystemInv, AtRest,
                        NEW w \in Worker, channel[w] = <<>>, dispatcher[w] = "poll"
                 PROVE  assigned[w] = IF testState = "RUNNING" THEN workerUsers[w] ELSE {}
    BY DEF WorkersAgree
  <2>2. CASE testState = "RUNNING"
    BY <2>1, <2>2, WorkerIsRunning
  <2>3. CASE testState = "IDLE"
    BY <2>1, <2>3, WorkerIsIdle DEF SystemInv, DispatcherInv, IdleIsQuiet
  <2> QED
    BY <2>1, <2>2, <2>3, RestingState
<1> QED
  BY <1>1, SystemInvariant, PTL

(***************************************************************************)
(* A stopped test stops everywhere: once nothing is on its way and no test *)
(* is active, no worker runs a user, is ready for one or lists any.        *)
(***************************************************************************)
THEOREM StoppedEverywhere ==
    ASSUME OneSlot, NothingFails
    PROVE  SystemSpec => []IdleEverywhere
<1>1. SystemInv => IdleEverywhere
  BY WorkerIsIdle DEF IdleEverywhere, Quiescent, Settled, SystemInv, DispatcherInv, IdleIsQuiet
<1> QED
  BY <1>1, SystemInvariant, PTL

-----------------------------------------------------------------------------
\* Part 4: whatever overlaps and fails

(***************************************************************************)
(* Any number of requests, any faults of either side.  What each component *)
(* keeps on its own it keeps in the system: the workers write nothing the  *)
(* fence is about, and what the orchestrator publishes is well formed,     *)
(* which is all that the workers ask of it.                                *)
(***************************************************************************)
ComposedInv ==
    /\ FenceInv /\ DispatcherInv
    /\ commands \in [Worker -> Seq(WellFormed)]

LEMMA PublishesWellFormed ==
    ASSUME commands \in [Worker -> Seq(WellFormed)], NEW w, NEW type, NEW e, NEW u,
           Publish(w, type, e, u), [type |-> type, epoch |-> e, user |-> u] \in WellFormed
    PROVE  commands' \in [Worker -> Seq(WellFormed)]
<1> DEFINE msg == [type |-> type, epoch |-> e, user |-> u]
<1>1. commands' = commands \/ commands' = [commands EXCEPT ![w] = Append(commands[w], msg)]
  BY DEF Publish
<1>2. msg \in WellFormed
  OBVIOUS
<1> HIDE DEF msg
<1>3. w \in Worker => Append(commands[w], msg) \in Seq(WellFormed)
  BY <1>2
<1> QED
  BY <1>1, <1>3

LEMMA LogStaysWellFormed ==
    ASSUME TypeOK, commands \in [Worker -> Seq(WellFormed)], OrchestratorNext
    PROVE  commands' \in [Worker -> Seq(WellFormed)]
<1>1. ASSUME NEW r \in Request, Submit(r) PROVE UNCHANGED commands
  BY <1>1 DEF Submit, StartTest, ChangeUsers, StopTest, redisVars
<1>2. Fault => UNCHANGED commands
  BY DEF Fault, RedisError, ClaimAnswerLost, CommitAnswerLost, OrchestratorCrash, redisVars
<1>3. ASSUME NEW r \in Request, Handle(r)
      PROVE  commands' \in [Worker -> Seq(WellFormed)]
  <2>1. reqEpoch[r] \in Nat /\ todo[r] \subseteq UserId
    BY DEF TypeOK, RequestTypeOK
  <2>2. \A type \in {"start_test", "stop_test"} :
            [type |-> type, epoch |-> reqEpoch[r], user |-> NoUser] \in WellFormed
    BY <2>1 DEF WellFormed, Command, CommandType, UserId, NoUser
  <2>3. \A type \in {"add_user", "remove_user"}, u \in todo[r] :
            [type |-> type, epoch |-> reqEpoch[r], user |-> u] \in WellFormed
    BY <2>1 DEF WellFormed, Command, CommandType
  <2>4. CASE PublishStartTest(r) \/ PublishStopTest(r)
    <3>1. PICK w \in recipients[r], type \in {"start_test", "stop_test"} :
              Publish(w, type, reqEpoch[r], NoUser)
      BY <2>4 DEF PublishStartTest, PublishStopTest, Broadcast
    <3> QED
      BY <2>2, <3>1, PublishesWellFormed
  <2>5. CASE AddPublish(r)
    <3>1. PICK u \in todo[r], w \in recipients[r] : Publish(w, "add_user", reqEpoch[r], u)
      BY <2>5 DEF AddPublish
    <3> QED
      BY <2>3, <3>1, PublishesWellFormed
  <2>6. CASE PublishRemove(r)
    <3>1. PICK u \in todo[r] : Publish(found[r], "remove_user", reqEpoch[r], u)
      BY <2>6 DEF PublishRemove
    <3> QED
      BY <2>3, <3>1, PublishesWellFormed
  <2> QED
    BY <1>3, <2>4, <2>5, <2>6, CommandWriters
<1> QED
  BY <1>1, <1>2, <1>3 DEF OrchestratorNext

LEMMA ArrivesWellFormed ==
    ASSUME commands \in [Worker -> Seq(WellFormed)], commands' \in [Worker -> Seq(WellFormed)],
           channel \in [Worker -> Seq(WellFormed)], Delivers
    PROVE  channel' \in [Worker -> Seq(WellFormed)]
<1>1. ASSUME NEW w \in Worker PROVE channel'[w] \in Seq(WellFormed)
  <2>0. PICK log, n, m : log = commands'[w] /\ n = Len(commands[w]) /\ m = Len(log)
    OBVIOUS
  <2>1. log \in Seq(WellFormed) /\ n \in Nat /\ m \in Nat
    BY <2>0
  <2>2. \A i \in n + 1 .. m : log[i] \in WellFormed
    <3>1. \A i \in 1 .. m : log[i] \in WellFormed
      BY <2>0, <2>1
    <3>2. \A i \in n + 1 .. m : i \in 1 .. m
      BY <2>1
    <3> QED
      BY <3>1, <3>2
  <2>3. n + 1 \in Int /\ m \in Int
    BY <2>1
  <2>4. SubSeq(log, n + 1, m) \in Seq(WellFormed)
    BY <2>2, <2>3, SubSeqProperties
  <2>5. channel'[w] = channel[w] \o SubSeq(log, n + 1, m)
    BY <2>0 DEF Delivers, Delivered
  <2>6. channel[w] \in Seq(WellFormed)
    OBVIOUS
  <2> QED
    BY <2>4, <2>5, <2>6, ConcatProperties
<1> QED
  BY <1>1 DEF Delivers

\* A step of the system is one of its parts, or changes nothing.
LEMMA ComposedStep ==
    ASSUME ComposedInv, [SystemNext]_systemVars
    PROVE  ComposedInv' /\ LifecycleEdge
<1> USE DEF ComposedInv
<1>1. CASE OrchestratorStep
  <2>1. OrchestratorNext /\ Delivers /\ UNCHANGED workerVars
    BY <1>1 DEF OrchestratorStep, Delivers
  <2>2. FenceInv' /\ LifecycleEdge
    BY <2>1, FenceStep, StepEdge DEF Next
  <2>3. /\ commands' \in [Worker -> Seq(WellFormed)]
        /\ \A w \in Worker : activeUsers'[w] \subseteq activeUsers[w]
    BY <2>1, LogStaysWellFormed, OrchestratorTells DEF FenceInv
  <2>4. ChannelsOK'
    BY <2>1, <2>2, <2>3, ArrivesWellFormed
       DEF ChannelsOK, DispatcherInv, FenceInv, TypeOK, RedisTypeOK
  <2> QED
    BY <2>1, <2>2, <2>3, <2>4, QuietKeeps
<1>2. CASE WorkersStep
  <2>1. PICK w \in Worker : WorkerNext(w) /\ ByWorker
    BY <1>2 DEF WorkersStep
  <2>2. DispatcherInv'
    BY <2>1, TaskStepKeeps, DispatchKeeps DEF WorkerNext, WorkerStep
  <2>3. UNCHANGED <<stateKeys, userSetKeys, timeline, presenceKeys, commands>>
    BY <2>1, WorkersApart
  <2>4. FenceInv'
    BY <2>1, <2>2, <2>3, WorkersLeaveFence DEF ByWorker, DispatcherInv, ChannelsOK
  <2> QED
    BY <2>2, <2>3, <2>4 DEF stateKeys, LifecycleEdge
<1>3. CASE UNCHANGED systemVars
  <2>1. UNCHANGED vars /\ UNCHANGED dispatcherVars
    BY <1>3 DEF systemVars, vars, dispatcherVars
  <2>2. FenceInv' /\ LifecycleEdge
    BY <2>1, FenceStep, StepEdge
  <2> QED
    BY <2>1, <2>2, StutterKeeps DEF vars, redisVars
<1> QED
  BY <1>1, <1>2, <1>3 DEF SystemNext, SystemRest

LEMMA ComposedStarts == SystemInit => ComposedInv
<1> SUFFICES ASSUME SystemInit PROVE ComposedInv
  OBVIOUS
<1>1. Init /\ WorkerInit
  BY DEF SystemInit
<1>2. FenceInv
  BY <1>1, FenceInit
<1>3. DispatcherInv
  BY <1>1, InitDispatcher DEF Init, DispatcherInit
<1>4. <<>> \in Seq(WellFormed)
  OBVIOUS
<1> QED
  BY <1>1, <1>2, <1>3, <1>4 DEF Init, RedisInit, ComposedInv

(***************************************************************************)
(* In the system as well, whatever requests overlap and whatever fails, a  *)
(* worker that has handled stop_test is quiet and its tasks belong.        *)
(***************************************************************************)
THEOREM SystemWorkersAreQuiet == SystemSpec => [](IdleIsQuiet /\ TasksBelong)
<1>1. ComposedInv /\ [SystemNext]_systemVars => ComposedInv'
  BY ComposedStep
<1>2. ComposedInv => IdleIsQuiet /\ TasksBelong
  BY DEF ComposedInv, DispatcherInv
<1> QED
  BY <1>1, <1>2, ComposedStarts, PTL DEF SystemSpec

(***************************************************************************)
(* And the epoch fence holds with workers at work: the test moves along    *)
(* the documented edges only, and nothing is ahead of test:epoch.          *)
(***************************************************************************)
THEOREM SystemKeepsFence == SystemSpec => []EpochFence /\ LifecycleEdges
<1>1. ComposedInv /\ [SystemNext]_systemVars => ComposedInv'
  BY ComposedStep
<1>2. ComposedInv /\ [SystemNext]_systemVars => [LifecycleEdge]_vars
  BY ComposedStep
<1>3. ComposedInv => EpochFence
  BY DEF ComposedInv, FenceInv
<1> QED
  BY <1>1, <1>2, <1>3, ComposedStarts, PTL DEF SystemSpec, LifecycleEdges
=============================================================================
