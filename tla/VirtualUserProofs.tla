-------------------------- MODULE VirtualUserProofs --------------------------
(***************************************************************************)
(* What holds of run_user for any scenario: any steps, requirements,       *)
(* delays and time-outs, and any number of cancellations and failures.     *)
(***************************************************************************)
EXTENDS VirtualUser, TLAPS

USE VirtualUserAssumption

-----------------------------------------------------------------------------
(***************************************************************************)
(* The strengthening.  A round of the sequential strategy has one step; a  *)
(* step is called or reports only while run_user waits for it; one that    *)
(* unwinds was cancelled.  user_is_active is set between SADD and finally, *)
(* and finally begins with a cancellation or a failure.                    *)
(***************************************************************************)
Starting == {"jitter", "on_init", "on_start", "report", "sadd"}
InLoop   == {"select", "sleep", "step"}

RoundOK ==
    /\ strategy = "sequential" =>
        \A r, s \in Step : doing[r] # "none" /\ doing[s] # "none" => r = s
    /\ at # "step" => \A s \in Step : doing[s] \in {"none", "unwind"}
    /\ \A s \in Step : doing[s] = "unwind" =>
        cancels > 0 /\ \A r \in Step : doing[r] \in {"none", "unwind"}

CleanupOK ==
    /\ at \in Starting => active = FALSE
    /\ at \in InLoop => active = TRUE
    /\ at \in {"report", "srem", "on_stop", "close", "done"} => cancels + faults > 0
    /\ at = "jitter" => client = "none" /\ holds = FALSE
    /\ at = "close" /\ cancels + faults <= 1 /\ faults = 0 => holds = FALSE
    /\ at = "done" /\ cancels + faults <= 1 =>
        client # "open" /\ (faults = 0 => holds = FALSE)

UserInv == StepsAreAwaited /\ RoundOK /\ CleanupOK

-----------------------------------------------------------------------------
LEMMA MaxOfTwo ==
    ASSUME NEW a \in Nat, NEW b \in Nat
    PROVE  Max({a, b}) \in Nat
  BY DEF Max

\* Where run_user goes from the await a when it is thrown out of it.
LEMMA FinallyLeads ==
    ASSUME NEW a \in Await, active \in BOOLEAN
    PROVE  /\ a \in {"jitter", "close"} => Finally(a) = "done"
           /\ a \in {"srem", "on_stop"} => Finally(a) = "close"
           /\ a \notin {"jitter", "close", "srem", "on_stop"} /\ active = TRUE => Finally(a) = "srem"
           /\ a \notin {"jitter", "close", "srem", "on_stop"} /\ active = FALSE => Finally(a) = "on_stop"
<1>1. a \in {"srem", "on_stop"} => Finally(a) = "close"
  BY DEF Finally
<1>2. a \in {"jitter", "close"} => Finally(a) = "done"
  BY DEF Finally
<1>3. ASSUME a \notin {"jitter", "close", "srem", "on_stop"}, active = TRUE PROVE Finally(a) = "srem"
  BY <1>3 DEF Finally
<1>4. ASSUME a \notin {"jitter", "close", "srem", "on_stop"}, active = FALSE PROVE Finally(a) = "on_stop"
  BY <1>4 DEF Finally
<1> QED
  BY <1>1, <1>2, <1>3, <1>4

LEMMA OneMore ==
    ASSUME NEW a \in Nat, NEW b \in Nat, NEW c \in Nat, NEW d \in Nat,
           \/ c = a + 1 /\ d = b
           \/ c = a /\ d = b + 1
    PROVE  c + d > 0 /\ (c + d <= 1 => ~(a + b > 0)) /\ (a > 0 => c > 0)
  OBVIOUS

LEMMA InitUser == Init => UserInv
<1> SUFFICES ASSUME Init PROVE UserInv
  OBVIOUS
<1>1. StepsAreAwaited
  BY DEF Init, StepsAreAwaited, TypeOK, Await, Activity
<1>2. RoundOK
  BY DEF Init, RoundOK
<1>3. CleanupOK
  BY DEF Init, CleanupOK, Starting, InLoop
<1> QED
  BY <1>1, <1>2, <1>3 DEF UserInv

-----------------------------------------------------------------------------
\* Steps that leave the steps of the scenario alone.
LEMMA RoundKept ==
    ASSUME UserInv, UNCHANGED <<strategy, doing>>, cancels' = cancels,
           at = "step" <=> at' = "step"
    PROVE  RoundOK' /\ (strategy' = "sequential" \/ cancels' = 0 =>
                            (at' # "step" => \A s \in Step : doing'[s] = "none"))
  BY DEF UserInv, StepsAreAwaited, RoundOK

LEMMA AdvanceKeeps ==
    ASSUME UserInv, Advance
    PROVE  UserInv'
<1> USE DEF UserInv, StepsAreAwaited
<1>1. /\ strategy' = strategy /\ UNCHANGED <<completed, delay, cancels, faults>>
      /\ at \in Await /\ at' \in Await
      /\ active' \in BOOLEAN /\ listed' \in BOOLEAN /\ holds' \in BOOLEAN
      /\ client' \in {"none", "open", "closed"}
      /\ sleep' \in Nat
  <2>1. CASE Sleep
    <3>1. sleep' \in Nat
      BY ZenonT(40), <2>1, MaxOfTwo DEF Sleep, NearestReadyIn, TypeOK
    <3> QED
      BY <2>1, <3>1 DEF Sleep, TypeOK, ownVars, Await
  <2>2. CASE ~Sleep
    BY <2>2 DEF Advance, Begin, Initialized, Started, Activate, Select, Wake, Reported,
       Deactivate, Stopped, Close, TypeOK, loopVars, ownVars, Await
  <2> QED
    BY <2>1, <2>2
<1>3. CleanupOK'
  BY <1>1 DEF Advance, Begin, Initialized, Started, Activate, Select, Sleep, Wake, Reported,
     Deactivate, Stopped, Close, ownVars, CleanupOK, Starting, InLoop, TypeOK
<1>4. CASE Select
  <2>1. PICK chosen \in Selections \ {{}} :
          /\ doing' = [s \in Step |-> IF s \in chosen THEN "call" ELSE "none"]
          /\ timer' = [s \in Step |-> IF s \in chosen THEN Timeout[s] ELSE 0]
    BY <1>4 DEF Select
  <2>2. /\ chosen \subseteq Step /\ chosen # {}
        /\ strategy = "sequential" => \A r, s \in chosen : r = s
    BY DEF Selections, Ready, TypeOK
  <2>3. at' = "step"
    BY <1>4 DEF Select
  <2>4. TypeOK'
    BY <1>1, <2>1, <2>2, <2>3 DEF TypeOK, Activity
  <2>5. RoundOK'
    BY <1>1, <2>1, <2>2, <2>3 DEF RoundOK
  <2> QED
    BY <1>3, <2>3, <2>4, <2>5
<1>5. CASE ~Select
  <2>1. UNCHANGED <<doing, timer>> /\ at # "step" /\ at' # "step"
    BY <1>5 DEF Advance, Begin, Initialized, Started, Activate, Sleep, Wake, Reported,
       Deactivate, Stopped, Close, loopVars
  <2>2. TypeOK'
    BY <1>1, <2>1 DEF TypeOK
  <2> QED
    BY <1>1, <1>3, <2>1, <2>2, RoundKept
<1> QED
  BY <1>4, <1>5

\* A step of the scenario goes on, while run_user waits for it.
LEMMA StepRunsKeeps ==
    ASSUME UserInv, NEW s \in Step, StepRuns(s)
    PROVE  UserInv'
<1> USE DEF UserInv, StepsAreAwaited
<1>1. UNCHANGED <<strategy, sleep, active, listed, client, holds, cancels, faults>>
  BY DEF StepRuns, StepReturns, StepRaises, StepTimesOut, StepDone, UnwindStep, Report,
     loopVars, ownVars
<1>2. CASE StepReturns(s) \/ StepRaises(s) \/ StepTimesOut(s)
  <2>1. /\ doing[s] = "call" /\ doing' = [doing EXCEPT ![s] = "emit"]
        /\ at' = at /\ Report(s)
        /\ completed' \subseteq Step
    BY <1>2 DEF StepReturns, StepRaises, StepTimesOut, Report, TypeOK
  <2>2. delay' \in [Step -> Nat] /\ timer' \in [Step -> Nat]
    BY <2>1 DEF Report, TypeOK
  <2>3. at = "step"
    BY <2>1 DEF RoundOK
  <2>4. TypeOK'
    BY <1>1, <2>1, <2>2, <2>3 DEF TypeOK, Activity
  <2>5. RoundOK'
    BY <1>1, <2>1, <2>3 DEF RoundOK, TypeOK
  <2>6. CleanupOK'
    BY <1>1, <2>1, <2>3 DEF CleanupOK
  <2> QED
    BY <2>1, <2>3, <2>4, <2>5, <2>6
<1>3. CASE StepDone(s)
  <2>1. /\ at = "step" /\ doing' = [doing EXCEPT ![s] = "none"]
        /\ at' = IF Remaining(s) = {} THEN "select" ELSE "step"
        /\ UNCHANGED <<completed, delay, timer>>
    BY <1>3 DEF StepDone, loopVars
  <2>2. Remaining(s) = { r \in Step : doing'[r] # "none" }
    BY <2>1 DEF Remaining, TypeOK
  <2>3. TypeOK'
    BY <1>1, <2>1, <2>2 DEF TypeOK, Activity, Await
  <2>4. RoundOK'
    BY <1>1, <2>1, <2>2 DEF RoundOK, TypeOK
  <2>5. CleanupOK'
    BY <1>1, <2>1 DEF CleanupOK, Starting, InLoop
  <2> QED
    BY <2>1, <2>2, <2>3, <2>4, <2>5
<1>4. CASE UnwindStep(s)
  <2>1. /\ doing[s] = "unwind" /\ doing' = [doing EXCEPT ![s] = "none"]
        /\ at' = IF at = "step" THEN Finally("step") ELSE at
        /\ UNCHANGED <<completed, delay, timer>>
    BY <1>4 DEF UnwindStep, loopVars
  <2>2. cancels > 0
    BY <2>1 DEF RoundOK
  <2>3. at = "step" => at' = "srem"
    BY <2>1, FinallyLeads DEF TypeOK, Await, CleanupOK, InLoop
  <2>4. TypeOK'
    BY <1>1, <2>1, <2>3 DEF TypeOK, Activity, Await
  <2>5. RoundOK'
    BY <1>1, <2>1, <2>3 DEF RoundOK, TypeOK
  <2>6. CleanupOK'
    <3>1. cancels \in Nat /\ faults \in Nat /\ cancels' = cancels /\ faults' = faults
      BY <1>1 DEF TypeOK
    <3>2. CASE at' = at
      BY <1>1, <3>2 DEF CleanupOK
    <3>3. CASE at' = "srem"
      BY <1>1, <2>2, <3>1, <3>3 DEF CleanupOK, Starting, InLoop
    <3> QED
      BY <2>1, <2>3, <3>2, <3>3
  <2>7. strategy = "sequential" => \A r \in Step : doing'[r] = "none"
    BY <2>1 DEF RoundOK, TypeOK
  <2> QED
    BY <1>1, <2>2, <2>4, <2>5, <2>6, <2>7 DEF TypeOK
<1> QED
  BY <1>2, <1>3, <1>4 DEF StepRuns

-----------------------------------------------------------------------------
\* cancel() while the steps run: run_user leaves the loop, or waits for all to unwind.
LEMMA CancelStepsKeeps ==
    ASSUME UserInv, at = "step", CancelSteps, strategy' = strategy, active' = active,
           cancels' = cancels + 1
    PROVE  /\ at' \in {"step", "srem"}
           /\ doing' \in [Step -> {"none", "unwind"}] /\ timer' \in [Step -> Nat]
           /\ at' = "step" => \E s \in Step : doing'[s] # "none"
           /\ RoundOK'
           /\ strategy = "sequential" /\ at' # "step" => \A s \in Step : doing'[s] = "none"
<1> USE DEF UserInv, StepsAreAwaited
<1> DEFINE over == { s \in Step : doing[s] \in {"emit", "unwind"} }
           late == { s \in Step : doing[s] = "call" }
<1>1. PICK quick \in SUBSET late :
        /\ doing' = [s \in Step |-> IF s \in late \ quick THEN "unwind" ELSE "none"]
        /\ timer' = [s \in Step |-> 0]
        /\ at' = IF over \union quick # {} THEN Finally("step") ELSE "step"
  BY DEF CancelSteps
<1>2. Finally("step") = "srem"
  BY FinallyLeads DEF TypeOK, Await, CleanupOK, InLoop
<1>3. over \union late = { s \in Step : doing[s] # "none" }
  BY DEF TypeOK, Activity
<1>4. over \intersect late = {} /\ quick \subseteq late
  OBVIOUS
<1>5. PICK s \in Step : doing[s] # "none"
  BY DEF TypeOK
<1> HIDE DEF over
<1>6. at' = "step" => s \in late \ quick
  BY <1>1, <1>2, <1>3, <1>5
<1>7. at' = "step" => doing'[s] # "none"
  BY <1>1, <1>6
<1>8. strategy = "sequential" =>
        \A p, q \in over \union late : p = q
  BY <1>3 DEF RoundOK
<1>9. late \subseteq Step /\ over \subseteq Step
  BY DEF over
<1> HIDE DEF late
<1>10. strategy = "sequential" /\ at' # "step" => \A r \in Step : doing'[r] = "none"
  BY <1>1, <1>4, <1>8
<1>11. cancels' > 0
  BY DEF TypeOK
<1>12. RoundOK'
  <2>1. strategy' = "sequential" =>
          \A p, q \in Step : doing'[p] # "none" /\ doing'[q] # "none" => p = q
    BY <1>1, <1>8, <1>9
  <2>2. \A p \in Step : doing'[p] \in {"none", "unwind"}
    BY <1>1
  <2> QED
    BY <1>11, <2>1, <2>2 DEF RoundOK
<1> QED
  BY <1>1, <1>2, <1>7, <1>10, <1>12

LEMMA InterruptTyped ==
    ASSUME TypeOK, Interrupt
    PROVE  /\ listed' \in BOOLEAN /\ holds' \in BOOLEAN
           /\ client' \in {"none", "open", "closed"}
           /\ at \notin {"on_init", "close"} => client' = client
           /\ at \notin {"on_start", "on_stop"} => holds' = holds
           /\ at \notin {"sadd", "srem"} => listed' = listed
           /\ at = "srem" => listed' \in {listed, FALSE}
  BY DEF TypeOK, Interrupt

LEMMA CancelKeeps ==
    ASSUME UserInv, Cancel \/ Fail
    PROVE  UserInv'
<1> USE DEF UserInv, StepsAreAwaited
<1>1. /\ at \in Await \ {"select", "done"} /\ Interrupt
      /\ UNCHANGED <<strategy, completed, delay, sleep, active>>
      /\ cancels \in Nat /\ faults \in Nat /\ cancels' \in Nat /\ faults' \in Nat
      /\ \/ cancels' = cancels + 1 /\ faults' = faults
         \/ cancels' = cancels /\ faults' = faults + 1
  BY DEF Cancel, Fail, TypeOK, loopVars, Await
<1>2. /\ listed' \in BOOLEAN /\ holds' \in BOOLEAN /\ active' \in BOOLEAN
      /\ client' \in {"none", "open", "closed"}
      /\ at = "jitter" => client' = client /\ holds' = holds
  BY <1>1, InterruptTyped DEF TypeOK
<1>5. /\ cancels' + faults' > 0
      /\ cancels' + faults' <= 1 => ~(cancels + faults > 0)
      /\ cancels > 0 => cancels' > 0
  BY <1>1, OneMore
<1>6. at = "done" \/ at \in {"srem", "on_stop", "close"} => cancels + faults > 0
  BY DEF CleanupOK
<1>3. CASE at = "step"
  <2>1. /\ CancelSteps /\ cancels' = cancels + 1
    BY <1>3 DEF Cancel, Fail
  <2>2. /\ at' \in {"step", "srem"}
        /\ doing' \in [Step -> {"none", "unwind"}] /\ timer' \in [Step -> Nat]
        /\ at' = "step" => \E s \in Step : doing'[s] # "none"
        /\ RoundOK'
        /\ strategy = "sequential" /\ at' # "step" => \A s \in Step : doing'[s] = "none"
    BY <1>1, <1>3, <2>1, CancelStepsKeeps
  <2>3. TypeOK'
    BY <1>1, <1>2, <2>2 DEF TypeOK, Activity, Await
  <2>4. CleanupOK'
    <3>1. CASE at' = "step"
      BY <1>1, <1>3, <3>1 DEF CleanupOK, Starting, InLoop
    <3>2. CASE at' = "srem"
      BY <1>5, <3>2 DEF CleanupOK, Starting, InLoop
    <3> QED
      BY <2>2, <3>1, <3>2
  <2>5. cancels' # 0
    BY <2>1 DEF TypeOK
  <2> QED
    BY <1>1, <2>2, <2>3, <2>4, <2>5
<1>4. CASE at # "step"
  <2>1. UNCHANGED <<doing, timer>>
    BY <1>4 DEF Cancel, Fail, loopVars
  <2>2. \/ at' = Finally(at)
        \/ at \in {"on_init", "on_start"} /\ at' = "report"
    BY <1>4 DEF Cancel, Fail
  <2>3. /\ at = "jitter" => at' = "done" /\ cancels' = cancels + 1
        /\ at = "close" => at' = "done" /\ cancels' = cancels + 1
        /\ at \in {"srem", "on_stop"} => at' = "close"
        /\ at \in Starting \ {"jitter"} => at' \in {"report", "on_stop"}
        /\ at = "sleep" => at' = "srem"
    BY <1>1, <2>2, FinallyLeads DEF Cancel, Fail, TypeOK, CleanupOK, Starting, InLoop, Await
  <2>4. /\ at' \in {"report", "srem", "on_stop", "close", "done"}
    BY <1>1, <1>4, <2>3 DEF Await, Starting
  <2>5. TypeOK'
    BY <1>1, <1>2, <2>1, <2>4 DEF TypeOK, Await
  <2>6. RoundOK'
    BY <1>1, <1>4, <2>1 DEF RoundOK, TypeOK
  <2>9. at' = "done" => at \in {"jitter", "close"}
    BY <1>1, <1>4, <2>3 DEF Starting, Await
  <2>10. at' = "close" => at \in {"srem", "on_stop"}
    BY <1>1, <1>4, <2>3 DEF Starting, Await
  <2>11. at' = "close" => ~(cancels' + faults' <= 1)
    BY <1>5, <1>6, <2>10
  <2>12. at' = "done" /\ cancels' + faults' <= 1 => at = "jitter"
    BY <1>5, <1>6, <2>9
  <2>14. at' = "report" => active' = FALSE
    BY <1>1, <1>4, <2>3 DEF CleanupOK, Starting, Await
  <2>15. CleanupOK'
    BY <1>2, <1>5, <2>4, <2>11, <2>12, <2>14 DEF CleanupOK, Starting, InLoop
  <2>13. cancels' = 0 => cancels = 0
    BY <1>1
  <2> QED
    BY <1>1, <1>4, <2>1, <2>5, <2>6, <2>13, <2>15
<1> QED
  BY <1>3, <1>4

LEMMA TimeKeeps ==
    ASSUME UserInv, Tick \/ UNCHANGED vars
    PROVE  UserInv'
<1> USE DEF UserInv, StepsAreAwaited
<1>1. UNCHANGED <<strategy, at, doing, completed, active, listed, client, holds, cancels, faults>>
  BY DEF Tick, vars, loopVars, ownVars
<1>2. sleep' \in Nat /\ delay' \in [Step -> Nat] /\ timer' \in [Step -> Nat]
  BY DEF Tick, vars, loopVars, TypeOK
<1>3. TypeOK'
  BY <1>1, <1>2 DEF TypeOK
<1>4. CleanupOK'
  BY <1>1 DEF CleanupOK
<1> QED
  BY <1>1, <1>3, <1>4, RoundKept

THEOREM UserInvariant == Spec => []UserInv
<1>1. UserInv /\ [Next]_vars => UserInv'
  BY AdvanceKeeps, StepRunsKeeps, CancelKeeps, TimeKeeps DEF Next, Over
<1> QED
  BY <1>1, InitUser, PTL DEF Spec

-----------------------------------------------------------------------------
(***************************************************************************)
(* No step of the scenario runs beside run_user, but for those gather does *)
(* not wait for when it cancels them.                                      *)
(***************************************************************************)
THEOREM NoStepRunsBeside == Spec => []StepsAreAwaited
<1>1. UserInv => StepsAreAwaited
  BY DEF UserInv
<1> QED
  BY <1>1, UserInvariant, PTL

(***************************************************************************)
(* One cancellation, at whatever await, ends with a closed client and all  *)
(* resources released.                                                     *)
(***************************************************************************)
THEOREM OneCancelEndsClean == Spec => []OneCancelIsClean
<1>1. UserInv => OneCancelIsClean
  BY DEF UserInv, CleanupOK, OneCancelIsClean
<1> QED
  BY <1>1, UserInvariant, PTL

-----------------------------------------------------------------------------
\* The stage that an await stands for.
LEMMA StageOf ==
    ASSUME at \in Await
    PROVE  /\ at \in Starting \ {"sadd"} => TaskStage = "starting"
           /\ at = "sadd" => TaskStage = "adding"
           /\ at \in InLoop => TaskStage = "active"
           /\ at = "srem" => TaskStage = "leaving"
           /\ at \in {"on_stop", "close"} => TaskStage = "closing"
           /\ at = "done" => TaskStage = "none"
  BY DEF TaskStage, Await, Starting, InLoop

LEMMA StageAfter ==
    ASSUME at' \in Await
    PROVE  /\ at' \in Starting \ {"sadd"} => TaskStage' = "starting"
           /\ at' = "sadd" => TaskStage' = "adding"
           /\ at' \in InLoop => TaskStage' = "active"
           /\ at' = "srem" => TaskStage' = "leaving"
           /\ at' \in {"on_stop", "close"} => TaskStage' = "closing"
           /\ at' = "done" => TaskStage' = "none"
  BY DEF TaskStage, Await, Starting, InLoop

(***************************************************************************)
(* run_user implements the task the dispatcher relies on: a step of it is  *)
(* a step of that task, or one the dispatcher cannot see.                  *)
(***************************************************************************)
THEOREM UserImplementsTask == Spec => ImplementsTask
<1>1. Init => Task!Init
  BY StageOf DEF Init, Task!Init, Await, Starting
<1>2. ASSUME UserInv, UserInv', [Next]_vars PROVE [Task!Next]_(Task!vars)
  <2> USE DEF Task!Next, Task!Starts, Task!Activated, Task!Leaves, Task!Ends, Task!Interrupted,
              Task!vars
  <2>1. at \in Await /\ at' \in Await /\ listed \in BOOLEAN
    BY <1>2 DEF UserInv, StepsAreAwaited, TypeOK
  <2>2. CASE Advance
    BY <2>1, <2>2, StageOf, StageAfter DEF Advance, Begin, Initialized, Started, Activate,
       Select, Sleep, Wake, Reported, Deactivate, Stopped, Close, Starting, InLoop, ownVars
  <2>3. ASSUME NEW s \in Step, StepRuns(s) PROVE [Task!Next]_(Task!vars)
    <3>1. listed' = listed
      BY <2>3 DEF StepRuns, StepReturns, StepRaises, StepTimesOut, StepDone, UnwindStep, Report,
         ownVars
    <3>2. at' = at \/ (at = "step" /\ at' \in {"step", "select", "srem"})
      <4>1. at = "step" => Finally("step") = "srem"
        BY <1>2, FinallyLeads DEF UserInv, StepsAreAwaited, TypeOK, CleanupOK, InLoop, Await
      <4> QED
        BY <2>3, <4>1 DEF StepRuns, StepReturns, StepRaises, StepTimesOut, StepDone,
           UnwindStep, Report
    <3> QED
      BY <2>1, <3>1, <3>2, StageOf, StageAfter DEF InLoop, TaskStage
  <2>4. CASE Cancel \/ Fail
    <3>1. Interrupt /\ active \in BOOLEAN
      BY <1>2, <2>4 DEF Cancel, Fail, UserInv, StepsAreAwaited, TypeOK
    <3>2. /\ at \notin {"sadd", "srem"} => listed' = listed
          /\ at = "srem" => listed' \in {listed, FALSE}
          /\ listed' \in BOOLEAN
      BY <1>2, <3>1, InterruptTyped DEF UserInv, StepsAreAwaited
    <3>3. \/ at' = Finally(at)
          \/ at \in {"on_init", "on_start"} /\ at' = "report"
          \/ at = "step" /\ at' = "step"
      BY <2>4 DEF Cancel, Fail, CancelSteps
    <3>4. /\ at \in Starting => active = FALSE
          /\ at \in InLoop => active = TRUE
          /\ at # "done"
      BY <1>2, <2>4 DEF UserInv, CleanupOK, Cancel, Fail
    <3> QED
      BY <2>1, <3>1, <3>2, <3>3, <3>4, FinallyLeads, StageOf, StageAfter DEF Starting, InLoop,
         Await
  <2>5. CASE Tick \/ UNCHANGED vars
    BY <2>5 DEF Tick, vars, ownVars, TaskStage
  <2> QED
    BY <1>2, <2>2, <2>3, <2>4, <2>5 DEF Next, Over
<1> QED
  BY <1>1, <1>2, UserInvariant, PTL DEF Spec, ImplementsTask, Task!Spec
=============================================================================
