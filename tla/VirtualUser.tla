----------------------------- MODULE VirtualUser -----------------------------
(***************************************************************************)
(* run_user: the task of one virtual user, from its start-up jitter over   *)
(* the hooks and the step loop to on_stop and close(), with failures at    *)
(* its calls and cancel() at any of its awaits, as often as the dispatcher *)
(* does it.  Time is what is left on each timer, in ticks.                 *)
(***************************************************************************)
EXTENDS Naturals, FiniteSetsExt

CONSTANTS
    Step,        \* the steps of the scenario
    Requires,    \* requires: the steps that must have completed once
    Every,       \* the delays every_s may resolve to; 0 for None or an invalid one
    Timeout,     \* timeout, 0 for None
    IdleSleep,   \* idle_sleep_s
    MaxCancels,  \* bound: cancel() by the dispatcher
    MaxFaults    \* bound: hooks and Redis calls that raise

ASSUME VirtualUserAssumption ==
    /\ Requires \in [Step -> SUBSET Step]
    /\ Every \in [Step -> SUBSET Nat] /\ Timeout \in [Step -> Nat]
    /\ IdleSleep \in Nat \ {0}
    /\ MaxCancels \in Nat /\ MaxFaults \in Nat

\* The awaits of run_user; in "select" it runs.
Await == {"jitter", "on_init", "on_start", "report", "sadd", "select", "sleep",
          "step", "srem", "on_stop", "close", "done"}

\* A step waits for its method, for the method to clean up, or for its metric.
Activity == {"none", "call", "unwind", "emit"}

VARIABLES
    strategy,    \* vu.step_strategy
    at,          \* where run_user is suspended
    doing,       \* what each _execute_step waits for
    completed,   \* completed_steps
    delay,       \* what is left until next_allowed_at, 0 when it has passed
    timer,       \* what is left of the timeout of a step
    sleep,       \* what is left to sleep
    active,      \* user_is_active
    listed,      \* the user is in worker:{w}:active_users
    client,      \* the HTTP client: "none", "open", "closed"
    holds,       \* the scenario holds resources that on_stop releases
    cancels, faults  \* how much of each bound is used up

loopVars == <<completed, delay, timer, sleep>>
ownVars  == <<active, listed, client, holds>>
vars == <<strategy, at, doing, loopVars, ownVars, cancels, faults>>

TypeOK ==
    /\ strategy \in {"sequential", "parallel"}
    /\ at \in Await
    /\ doing \in [Step -> Activity]
    /\ completed \subseteq Step
    /\ delay \in [Step -> Nat] /\ timer \in [Step -> Nat]
    /\ sleep \in Nat
    /\ active \in BOOLEAN /\ listed \in BOOLEAN /\ holds \in BOOLEAN
    /\ client \in {"none", "open", "closed"}
    /\ cancels \in Nat /\ faults \in Nat
    /\ at = "step" => \E s \in Step : doing[s] # "none"

Init ==
    /\ strategy \in {"sequential", "parallel"}
    /\ at = "jitter"
    /\ doing = [s \in Step |-> "none"]
    /\ completed = {} /\ sleep = 0
    /\ delay = [s \in Step |-> 0] /\ timer = [s \in Step |-> 0]
    /\ active = FALSE /\ listed = FALSE /\ client = "none" /\ holds = FALSE
    /\ cancels = 0 /\ faults = 0

-----------------------------------------------------------------------------
\* Start-up

\* The jitter is over: on_init is called, which makes the client.
Begin ==
    /\ at = "jitter" /\ at' = "on_init"
    /\ UNCHANGED <<strategy, doing, loopVars, ownVars, cancels, faults>>

Initialized ==
    /\ at = "on_init" /\ at' = "on_start"
    /\ client' = "open"
    /\ UNCHANGED <<strategy, doing, loopVars, active, listed, holds, cancels,
                   faults>>

\* on_start returns; it may have acquired resources.
Started ==
    /\ at = "on_start" /\ at' = "sadd"
    /\ holds' \in BOOLEAN
    /\ UNCHANGED <<strategy, doing, loopVars, active, listed, client, cancels,
                   faults>>

Activate ==
    /\ at = "sadd" /\ at' = "select"
    /\ listed' = TRUE /\ active' = TRUE
    /\ UNCHANGED <<strategy, doing, loopVars, client, holds, cancels, faults>>

-----------------------------------------------------------------------------
\* The step loop

Unlocked(s) == Requires[s] \subseteq completed

\* find_ready_steps
Ready == { s \in Step : Unlocked(s) /\ delay[s] = 0 }

\* nearest_ready_at: the shortest delay of an unlocked step, {} when it is None.
NearestReadyIn ==
    LET waits == { delay[s] : s \in { r \in Step : Unlocked(r) /\ delay[r] > 0 } }
    IN  { n \in waits : \A w \in waits : n <= w }

\* What the strategy may select: a ready step, or all of them.
Selections == IF strategy = "parallel" THEN {Ready} ELSE { {s} : s \in Ready }

Select ==
    /\ at = "select" /\ at' = "step"
    /\ \E chosen \in Selections \ {{}} :
        /\ doing' = [s \in Step |-> IF s \in chosen THEN "call" ELSE "none"]
        /\ timer' = [s \in Step |-> IF s \in chosen THEN Timeout[s] ELSE 0]
    /\ UNCHANGED <<strategy, completed, delay, sleep, ownVars, cancels, faults>>

Sleep ==
    /\ at = "select" /\ at' = "sleep"
    /\ Ready = {}
    /\ \/ \E n \in NearestReadyIn : sleep' = Max({IdleSleep, n})
       \/ NearestReadyIn = {} /\ sleep' = IdleSleep
    /\ UNCHANGED <<strategy, doing, completed, delay, timer, ownVars, cancels,
                   faults>>

Wake ==
    /\ at = "sleep" /\ at' = "select"
    /\ sleep = 0
    /\ UNCHANGED <<strategy, doing, loopVars, ownVars, cancels, faults>>

\* The finally clause of _execute_step, up to emit_metric.
Report(s) ==
    /\ \E d \in Every[s] : delay' = [delay EXCEPT ![s] = d]
    /\ timer' = [timer EXCEPT ![s] = 0]
    /\ doing' = [doing EXCEPT ![s] = "emit"]
    /\ UNCHANGED <<strategy, at, sleep, ownVars, cancels, faults>>

\* Mutant: only the step completed last counts.
ReturnsForgetting(s) ==
    /\ doing[s] = "call"
    /\ Report(s)
    /\ completed' = {s}

StepReturns(s) ==
    /\ doing[s] = "call"
    /\ Report(s)
    /\ completed' = completed \union {s}

\* The method raises; asyncio.timeout makes it raise when its time is over.
StepRaises(s) ==
    /\ doing[s] = "call"
    /\ Report(s)
    /\ UNCHANGED completed

StepTimesOut(s) ==
    /\ Timeout[s] # 0 /\ timer[s] = 0
    /\ StepRaises(s)

\* What is left of the steps when s is over.
Remaining(s) == { r \in Step \ {s} : doing[r] # "none" }

\* Mutant: the next round begins as soon as one of the steps is over.
FirstDoneEndsRound(s) ==
    /\ at = "step" /\ doing[s] = "emit"
    /\ doing' = [doing EXCEPT ![s] = "none"]
    /\ at' = "select"
    /\ UNCHANGED <<strategy, loopVars, ownVars, cancels, faults>>

\* The metric is stored; the last step of the round ends it.
StepDone(s) ==
    /\ at = "step" /\ doing[s] = "emit"
    /\ doing' = [doing EXCEPT ![s] = "none"]
    /\ at' = IF Remaining(s) = {} THEN "select" ELSE "step"
    /\ UNCHANGED <<strategy, loopVars, ownVars, cancels, faults>>

-----------------------------------------------------------------------------
\* The way out: run_user leaves its try block, and cancel() can hit any await

\* Mutant: the user stays listed.
FinallySkipsSrem(a) == CASE a \in {"srem", "on_stop"} -> "close"
                         [] a \in {"jitter", "close"} -> "done"
                         [] OTHER -> "on_stop"

\* Mutant: on_stop is called after a step loop only.
FinallySkipsStop(a) == CASE a \in {"srem", "on_stop"} -> "close"
                         [] a \in {"jitter", "close"} -> "done"
                         [] OTHER -> IF active THEN "srem" ELSE "close"

\* Mutant: a cancelled step counts as one that failed, and the loop goes on.
FinallyGoesOn(a) == CASE a = "step" -> "select"
                      [] a \in {"srem", "on_stop"} -> "close"
                      [] a \in {"jitter", "close"} -> "done"
                      [] OTHER -> IF active THEN "srem" ELSE "on_stop"

\* Where an exception or a cancellation leads run_user at the await a.
Finally(a) == CASE a \in {"srem", "on_stop"} -> "close"
                [] a \in {"jitter", "close"} -> "done"
                [] OTHER -> IF active THEN "srem" ELSE "on_stop"

(***************************************************************************)
(* A cancelled step cleans up in its own time; one that waits for its      *)
(* metric is over at once.  run_user waits for a step it has called, but   *)
(* gather lets it go on with the first of its steps that is over.          *)
(***************************************************************************)
UnwindStep(s) ==
    /\ doing[s] = "unwind"
    /\ doing' = [doing EXCEPT ![s] = "none"]
    /\ at' = IF at = "step" THEN Finally("step") ELSE at
    /\ UNCHANGED <<strategy, loopVars, ownVars, cancels, faults>>

CancelSteps ==
    LET over == { s \in Step : doing[s] \in {"emit", "unwind"} }
        late == { s \in Step : doing[s] = "call" }
    IN  \E quick \in SUBSET late :
            /\ doing' = [s \in Step |-> IF s \in late \ quick THEN "unwind" ELSE "none"]
            /\ timer' = [s \in Step |-> 0]
            /\ at' = IF over \union quick # {} THEN Finally("step") ELSE "step"

\* The interrupted call has happened or not.
Interrupt ==
    /\ listed' \in CASE at = "sadd" -> BOOLEAN
                     [] at = "srem" -> {listed, FALSE}
                     [] OTHER -> {listed}
    /\ holds' \in CASE at = "on_start" -> BOOLEAN
                    [] at = "on_stop" -> {holds, FALSE}
                    [] OTHER -> {holds}
    /\ client' \in CASE at = "on_init" -> {"none", "open"}
                     [] at = "close" -> {client, IF client = "open" THEN "closed" ELSE client}
                     [] OTHER -> {client}

Cancel ==
    /\ at \notin {"select", "done"}
    /\ cancels < MaxCancels
    /\ cancels' = cancels + 1
    /\ IF at = "step" THEN CancelSteps
       ELSE at' = Finally(at) /\ UNCHANGED <<doing, timer>>
    /\ Interrupt
    /\ UNCHANGED <<strategy, completed, delay, sleep, active, faults>>

\* A hook or a Redis call raises; on_init and on_start are reported first.
Fail ==
    /\ at \in {"on_init", "on_start", "sadd", "srem", "on_stop"}
    /\ faults < MaxFaults
    /\ faults' = faults + 1
    /\ at' = IF at \in {"on_init", "on_start"} THEN "report" ELSE Finally(at)
    /\ Interrupt
    /\ UNCHANGED <<strategy, doing, loopVars, active, cancels>>

Reported ==
    /\ at = "report" /\ at' = "on_stop"
    /\ UNCHANGED <<strategy, doing, loopVars, ownVars, cancels, faults>>

Deactivate ==
    /\ at = "srem" /\ at' = "on_stop"
    /\ listed' = FALSE
    /\ UNCHANGED <<strategy, doing, loopVars, active, client, holds, cancels,
                   faults>>

Stopped ==
    /\ at = "on_stop" /\ at' = "close"
    /\ holds' = FALSE
    /\ UNCHANGED <<strategy, doing, loopVars, active, listed, client, cancels,
                   faults>>

Close ==
    /\ at = "close" /\ at' = "done"
    /\ client' = IF client = "open" THEN "closed" ELSE client
    /\ UNCHANGED <<strategy, doing, loopVars, active, listed, holds, cancels,
                   faults>>

-----------------------------------------------------------------------------
\* Time passes on every timer that is set.
Tick ==
    LET less(n) == IF n > 0 THEN n - 1 ELSE 0
    IN  /\ sleep' = less(sleep)
        /\ delay' = [s \in Step |-> less(delay[s])]
        /\ timer' = [s \in Step |-> less(timer[s])]
    /\ <<sleep, delay, timer>>' # <<sleep, delay, timer>>
    /\ UNCHANGED <<strategy, at, doing, completed, ownVars, cancels, faults>>

\* The answer run_user waits for.
Advance ==
    \/ Begin \/ Initialized \/ Started \/ Activate \/ Select \/ Sleep \/ Wake
    \/ Reported \/ Deactivate \/ Stopped \/ Close

StepRuns(s) ==
    StepReturns(s) \/ StepRaises(s) \/ StepTimesOut(s) \/ StepDone(s) \/ UnwindStep(s)

\* The task is over.
Over == at = "done" /\ UNCHANGED vars

Next == Advance \/ (\E s \in Step : StepRuns(s)) \/ Cancel \/ Fail \/ Tick \/ Over

Spec == Init /\ [][Next]_vars

(***************************************************************************)
(* The event loop resumes what can go on, Redis and the hooks answer, and  *)
(* a step without a timeout comes to its end; one with a timeout may hang. *)
(***************************************************************************)
Fairness ==
    /\ WF_vars(Advance) /\ WF_vars(Tick)
    /\ \A s \in Step :
        /\ WF_vars(StepDone(s)) /\ WF_vars(UnwindStep(s)) /\ WF_vars(StepTimesOut(s))
        /\ Timeout[s] = 0 => WF_vars(StepReturns(s) \/ StepRaises(s))

FairSpec == Spec /\ Fairness

-----------------------------------------------------------------------------
\* What the dispatcher sees

TaskStage ==
    CASE at \in {"jitter", "on_init", "on_start", "report"} -> "starting"
      [] at = "sadd" -> "adding"
      [] at \in {"select", "sleep", "step"} -> "active"
      [] at = "srem" -> "leaving"
      [] at \in {"on_stop", "close"} -> "closing"
      [] at = "done" -> "none"

Task == INSTANCE UserTask WITH stage <- TaskStage, listed <- listed

(***************************************************************************)
(* run_user is a task as WorkerDispatcher models it: it is listed from the *)
(* end of SADD to SREM, leaves in that order, and a cancellation leads to  *)
(* the stage the dispatcher expects.                                       *)
(***************************************************************************)
ImplementsTask == Task!Spec

-----------------------------------------------------------------------------
\* Properties

(***************************************************************************)
(* No step runs beside run_user: neither into the next round nor into      *)
(* on_stop and close().  Except that gather does not wait for the other    *)
(* steps it cancels.  The state is well typed, and a round has a step.     *)
(***************************************************************************)
StepsAreAwaited ==
    /\ TypeOK
    /\ strategy = "sequential" \/ cancels = 0 =>
        (at # "step" => \A s \in Step : doing[s] = "none")

(***************************************************************************)
(* One cancellation, wherever it hits, is a clean end: the HTTP client is  *)
(* closed and on_stop has released what the user holds.  A single failure  *)
(* closes the client, too; but one of SREM skips on_stop.                  *)
(***************************************************************************)
OneCancelIsClean ==
    at = "done" /\ cancels + faults <= 1 =>
        /\ client # "open"
        /\ faults = 0 => ~holds

\* A cancelled task comes to its end, whatever it was doing.
CancelEnds == cancels > 0 ~> at = "done"

(***************************************************************************)
(* No step starves under the parallel strategy: one whose prerequisites    *)
(* have completed is called, however long others take and whichever hang   *)
(* until their timeout, unless the user is stopped.                        *)
(***************************************************************************)
Ending == at \in {"srem", "on_stop", "close", "done"} \/ cancels > 0

ReadyRuns ==
    \A s \in Step :
        strategy = "parallel" /\ at = "select" /\ Unlocked(s) ~> doing[s] = "call" \/ Ending
=============================================================================
