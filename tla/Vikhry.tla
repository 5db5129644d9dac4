------------------------------- MODULE Vikhry -------------------------------
(***************************************************************************)
(* The orchestrator and its workers, coordinating through Redis only: the  *)
(* handlers of Lifecycle publish and keep the assignments, the dispatchers *)
(* of WorkerDispatcher read the channels and run the users.  Heartbeats    *)
(* are never late here: Lifecycle alone models that.                       *)
(*                                                                         *)
(* Both modules are part of this one, over the same keyspace: commands     *)
(* stays the log of what was delivered to a worker, channel is the part of *)
(* it the worker has still to read.                                        *)
(***************************************************************************)
EXTENDS Lifecycle, WorkerDispatcher

systemVars == <<vars, channel, workerVars>>

SystemInit == Init /\ WorkerInit

\* What this step delivers to w.
Delivered(w) == SubSeq(commands'[w], Len(commands[w]) + 1, Len(commands'[w]))

\* What the orchestrator publishes reaches the channels it is published to.
Delivers ==
    /\ channel' = [w \in Worker |-> channel[w] \o Delivered(w)]
    /\ UNCHANGED workerVars

ByWorker == UNCHANGED <<requestVars, boundVars>>

OrchestratorStep == OrchestratorNext /\ Delivers

WorkersStep == \E w \in Worker : WorkerNext(w) /\ ByWorker

\* No command and no task of w is on its way.
Settled(w) ==
    /\ channel[w] = <<>>
    /\ dispatcher[w] = "poll"
    /\ \A u \in UserId : task[w][u] \in {"none", "active"}

\* No request is on its way either.
Quiescent == AtRest /\ \A w \in Worker : Settled(w)

SystemRest == Quiescent /\ UNCHANGED systemVars

SystemNext == OrchestratorStep \/ WorkersStep \/ SystemRest

SystemSpec == SystemInit /\ [][SystemNext]_systemVars

(***************************************************************************)
(* Handlers, dispatchers and tasks that can go on do.  Clients and failures *)
(* may never come.                                                         *)
(***************************************************************************)
SystemFairness ==
    /\ \A r \in Request : WF_systemVars(Handle(r) /\ Delivers)
    /\ \A w \in Worker :
        /\ WF_systemVars(Dispatch(w) /\ ByWorker)
        /\ WF_systemVars(TaskStep(w) /\ ByWorker)

SystemFairSpec == SystemSpec /\ SystemFairness

-----------------------------------------------------------------------------
\* Properties

(***************************************************************************)
(* With one request at a time: whenever the requests are answered and      *)
(* worker w has read its channel, it is assigned exactly the users that    *)
(* Redis lists for it, and none when no test runs.                         *)
(***************************************************************************)
WorkersAgree ==
    AtRest => \A w \in Worker :
        channel[w] = <<>> /\ dispatcher[w] = "poll" =>
            assigned[w] = IF testState = "RUNNING" THEN workerUsers[w] ELSE {}

(***************************************************************************)
(* A stopped test stops everywhere: once no test is active and nothing is  *)
(* on its way, no worker runs a user, is ready for users or lists any.     *)
(***************************************************************************)
IdleEverywhere ==
    Quiescent /\ testState = "IDLE" =>
        \A w \in Worker : /\ phase[w] # "RUNNING"
                          /\ Running(w) = {}
                          /\ activeUsers[w] = {}

(***************************************************************************)
(* The commands of a request take effect: if no further request comes,     *)
(* every assigned user ends up in its step loop and listed as active, and  *)
(* nobody else does.                                                       *)
(***************************************************************************)
LoadInPlace ==
    \A w \in Worker :
        /\ { u \in UserId : task[w][u] = "active" } = workerUsers[w]
        /\ workerUsers[w] \subseteq activeUsers[w]
LoadSettles == <>[](testState = "RUNNING" => LoadInPlace)

-----------------------------------------------------------------------------
\* What the documentation says and two concurrent requests break

\* "IDLE: no active test is running": at rest no worker runs a user.
NoLoadWhenIdle ==
    Quiescent /\ testState = "IDLE" => \A w \in Worker : Running(w) = {}
=============================================================================
