------------------------- MODULE WorkerProcessProofs -------------------------
(***************************************************************************)
(* What holds of any number of worker processes, with any time-out, and    *)
(* any number of restarts, requests, Redis errors and late heartbeats.     *)
(***************************************************************************)
EXTENDS WorkerProcess, SequenceTheorems, TLAPS

USE WorkerProcessAssumption

-----------------------------------------------------------------------------
(***************************************************************************)
(* The strengthening.  The heartbeat runs between mark_healthy and its     *)
(* stop, or until the loop ends after an escape, and all that time the     *)
(* worker is registered and published healthy; the dispatcher runs within  *)
(* that; a channel is read only while it listens.  What a worker was told  *)
(* last is what it will do once it has read its channel.                   *)
(***************************************************************************)
StartUp == {"ping", "retry", "register", "healthy", "probes"}

Told(w) ==
    IF inbox[w] = <<>> THEN phase[w]
    ELSE IF inbox[w][Len(inbox[w])] = "start" THEN "RUNNING" ELSE "IDLE"

TasksOK(w) ==
    /\ heartbeat[w] # "none" =>
        /\ main[w] \in {"probes", "up", "stop dispatcher", "stop probes", "stop heartbeat", "end"}
        /\ w \in registered /\ status[w] = "healthy"
        /\ age[w] > Timeout => late > 0 \/ adrift[w] = "landed"
    /\ main[w] = "healthy" => w \in registered
    /\ main[w] = "probes" => heartbeat[w] # "none"
    /\ dispatcher[w] # "none" => main[w] \in {"up", "stop dispatcher"} /\ heartbeat[w] # "none"
    /\ inbox[w] # <<>> => dispatcher[w] = "listen"

TraceOK(w) ==
    /\ main[w] # "down" => exit[w] # "clean"
    /\ main[w] = "end" /\ exit[w] = "running" => heartbeat[w] = "none"
    /\ \/ main[w] = "end" /\ exit[w] = "running"
       \/ main[w] = "down" /\ exit[w] = "clean"
       => w \notin registered /\ (status[w] = "none" \/ adrift[w] = "landed")

FollowOK(w) ==
    /\ main[w] = "down" => phase[w] = "IDLE"
    /\ main[w] \in StartUp \/ dispatcher[w] = "subscribe" =>
        phase[w] = "IDLE" /\ missed[w] # "nothing"
    /\ dispatcher[w] = "listen" =>
        /\ missed[w] = "nothing" => Told(w) = test
        /\ Told(w) = "RUNNING" /\ test = "IDLE" =>
            missed[w] = "not alive" /\ (late > 0 \/ adrift[w] = "landed")
        /\ Told(w) = "RUNNING" /\ request # "none" => w \in listed["request"]

StrayOK(w) ==
    \/ stray[w] = 0
    \/ stray[w] = 1 /\ phase[w] = "IDLE" /\ probe[w] \in {"none", "idle"}

WorkerOK(w) == TasksOK(w) /\ TraceOK(w) /\ FollowOK(w) /\ StrayOK(w)

ProcessInv == TypeOK /\ \A w \in Worker : WorkerOK(w)

-----------------------------------------------------------------------------
LEMMA InitProcess == Init => ProcessInv
<1> SUFFICES ASSUME Init PROVE ProcessInv
  OBVIOUS
<1>1. TypeOK
  BY DEF Init, TypeOK, Main, Exit, Stale
<1>2. ASSUME NEW w \in Worker PROVE WorkerOK(w)
  BY DEF Init, WorkerOK, TasksOK, TraceOK, FollowOK, StrayOK, StartUp, Told
<1> QED
  BY <1>1, <1>2 DEF ProcessInv

LEMMA Domains ==
    ASSUME TypeOK
    PROVE  /\ DOMAIN main = Worker /\ DOMAIN exit = Worker /\ DOMAIN heartbeat = Worker
           /\ DOMAIN dispatcher = Worker /\ DOMAIN inbox = Worker /\ DOMAIN phase = Worker
           /\ DOMAIN probe = Worker /\ DOMAIN stray = Worker /\ DOMAIN status = Worker
           /\ DOMAIN age = Worker /\ DOMAIN missed = Worker /\ DOMAIN adrift = Worker
  BY DEF TypeOK

LEMMA MainTyped ==
    ASSUME TypeOK, NEW w \in Worker, \E stage \in Main : GoTo(w, stage)
    PROVE  main' \in [Worker -> Main]
<1>1. PICK stage \in Main : GoTo(w, stage)
  OBVIOUS
<1> QED
  BY <1>1 DEF TypeOK, GoTo

LEMMA ExitTyped ==
    ASSUME TypeOK, NEW w \in Worker,
           exit' = exit \/ \E how \in Exit : exit' = [exit EXCEPT ![w] = how]
    PROVE  exit' \in [Worker -> Exit]
<1>1. exit \in [Worker -> Exit]
  BY DEF TypeOK
<1> QED
  BY <1>1

LEMMA FaultsTyped ==
    ASSUME TypeOK, Succeeds \/ Raises
    PROVE  faults' \in 0 .. MaxFaults
<1>1. faults \in 0 .. MaxFaults
  BY DEF TypeOK
<1> QED
  BY <1>1 DEF Succeeds, Raises

LEMMA InboxTyped ==
    ASSUME TypeOK, NEW w \in Worker, inbox' = inbox \/ inbox' = [inbox EXCEPT ![w] = <<>>]
    PROVE  inbox' \in [Worker -> Seq({"start", "stop"})]
<1>1. inbox \in [Worker -> Seq({"start", "stop"})]
  BY DEF TypeOK
<1>2. <<>> \in Seq({"start", "stop"})
  OBVIOUS
<1> QED
  BY <1>1, <1>2

LEMMA PublishTyped ==
    ASSUME TypeOK, NEW w \in Worker, NEW st \in {"healthy", "unhealthy"}, Publish(w, st)
    PROVE  /\ status' \in [Worker -> {"none", "healthy", "unhealthy"}]
           /\ age' \in [Worker -> 0 .. Stale]
           /\ registered' = registered /\ adrift' = adrift
           /\ status'[w] = st /\ ~(age'[w] > Timeout)
<1>1. status' \in [Worker -> {"none", "healthy", "unhealthy"}]
  BY DEF TypeOK, Publish
<1>2. age' \in [Worker -> 0 .. Stale]
  <2>1. age \in [Worker -> 0 .. Stale] /\ age' = [age EXCEPT ![w] = 0]
    BY DEF TypeOK, Publish
  <2>2. 0 \in 0 .. Stale
    BY DEF Stale
  <2> QED
    BY <2>1, <2>2
<1>3. registered' = registered /\ adrift' = adrift /\ status'[w] = st /\ age'[w] = 0
  BY DEF TypeOK, Publish
<1> QED
  BY <1>1, <1>2, <1>3

LEMMA CutOffTyped ==
    ASSUME TypeOK, NEW w \in Worker, CutOff(w)
    PROVE  /\ heartbeat' \in [Worker -> {"none", "publish", "sleep"}] /\ heartbeat'[w] = "none"
           /\ adrift' \in [Worker -> {"none", "adrift", "landed"}]
           /\ UNCHANGED <<registered, status, age>>
           /\ heartbeat[w] = "none" => adrift' = adrift
  BY DEF TypeOK, CutOff, stored

\* A step of one worker is no step of another one.
LEMMA OnlyItself ==
    ASSUME TypeOK, NEW w \in Worker, NEW v \in Worker, v # w,
           MainStep(w) \/ Event(w) \/ Task(w)
    PROVE  /\ main'[v] = main[v] /\ exit'[v] = exit[v] /\ heartbeat'[v] = heartbeat[v]
           /\ dispatcher'[v] = dispatcher[v] /\ inbox'[v] = inbox[v] /\ phase'[v] = phase[v]
           /\ probe'[v] = probe[v] /\ stray'[v] = stray[v]
           /\ v \in registered' <=> v \in registered
           /\ status'[v] = status[v] /\ age'[v] = age[v] /\ missed'[v] = missed[v]
           /\ adrift'[v] = adrift[v]
           /\ UNCHANGED <<test, request, listed, late>>
<1> USE Domains DEF process, keys, stored, view, control, GoTo, Publish
<1>1. CASE Ping(w)
  BY <1>1 DEF Ping
<1>2. CASE Retry(w)
  BY <1>2 DEF Retry
<1>3. CASE RegisterWorker(w)
  BY <1>3 DEF RegisterWorker
<1>4. CASE ShutDown(w)
  BY <1>4 DEF ShutDown
<1>5. CASE Signal(w)
  BY <1>5 DEF Signal
<1>6. CASE Start(w)
  BY <1>6 DEF Start, stored
<1>7. CASE MarkHealthy(w)
  BY ZenonT(120), <1>7 DEF MarkHealthy
<1>8. CASE StartProbes(w)
  BY <1>8 DEF StartProbes
<1>9. CASE StopDispatcher(w)
  BY <1>9 DEF StopDispatcher
<1>10. CASE StopProbes(w)
  BY <1>10 DEF StopProbes
<1>11. CASE StopHeartbeat(w)
  BY <1>11 DEF StopHeartbeat, CutOff
<1>12. CASE MarkUnhealthy(w)
  BY <1>12 DEF MarkUnhealthy, Logged
<1>13. CASE UnregisterWorker(w)
  BY <1>13 DEF UnregisterWorker, Logged, Forget
<1>14. CASE EndLoop(w)
  BY <1>14 DEF EndLoop, Gone, CutOff
<1>15. CASE Kill(w)
  BY <1>15 DEF Kill, Gone, CutOff
<1>16. CASE Heartbeat(w)
  BY <1>16 DEF Heartbeat
<1>17. CASE Subscribe(w)
  BY <1>17 DEF Subscribe
<1>18. CASE GetMessage(w)
  BY <1>18 DEF GetMessage
<1>19. CASE RunProbe(w)
  BY <1>19 DEF RunProbe
<1>20. CASE Lands(w)
  BY <1>20 DEF Lands
<1> QED
  BY <1>1, <1>2, <1>3, <1>4, <1>5, <1>6, <1>7, <1>8, <1>9, <1>10, <1>11, <1>12, <1>13, <1>14, <1>15, <1>16, <1>17, <1>18, <1>19, <1>20 DEF MainStep, Event, Task

LEMMA OthersStay ==
    ASSUME ProcessInv, NEW w \in Worker, NEW v \in Worker, v # w,
           MainStep(w) \/ Event(w) \/ Task(w)
    PROVE  WorkerOK(v)'
<1> USE OnlyItself DEF ProcessInv, WorkerOK
<1>1. TasksOK(v)'
  BY ZenonT(120) DEF TasksOK
<1>2. TraceOK(v)'
  BY DEF TraceOK
<1>3. FollowOK(v)'
  BY ZenonT(120) DEF FollowOK, Told, keys, stored
<1>4. StrayOK(v)'
  BY DEF StrayOK
<1> QED
  BY <1>1, <1>2, <1>3, <1>4

-----------------------------------------------------------------------------
\* The steps of one worker, and what it is afterwards.
LEMMA StartUpKeeps ==
    ASSUME ProcessInv, NEW w \in Worker,
           Start(w) \/ Ping(w) \/ Retry(w) \/ RegisterWorker(w)
    PROVE  TypeOK' /\ WorkerOK(w)'
<1> USE DEF ProcessInv, WorkerOK
<1>1. TypeOK'
  <2>1. /\ \E stage \in Main : GoTo(w, stage)
        /\ exit' = exit \/ \E how \in Exit : exit' = [exit EXCEPT ![w] = how]
        /\ Succeeds \/ Raises
    BY DEF Start, Ping, Retry, RegisterWorker, Main, Exit, Succeeds
  <2>2. lives' \in [Worker -> 0 .. MaxLives]
    <3>1. lives \in [Worker -> 0 .. MaxLives]
      BY DEF TypeOK
    <3>2. CASE Start(w)
      <4>1. lives[w] + 1 \in 0 .. MaxLives
        BY <3>1, <3>2 DEF Start
      <4> QED
        BY <3>1, <3>2, <4>1 DEF Start
    <3> QED
      BY <3>1, <3>2 DEF Ping, Retry, RegisterWorker
  <2>3. shutdown' \in [Worker -> BOOLEAN]
    <3>1. shutdown \in [Worker -> BOOLEAN]
      BY DEF TypeOK
    <3>2. shutdown' = shutdown \/ shutdown' = [shutdown EXCEPT ![w] = FALSE]
      BY DEF Start, Ping, Retry, RegisterWorker
    <3> QED
      BY <3>1, <3>2
  <2>4. missed' \in [Worker -> {"nothing", "absent", "not alive", "deaf"}]
    <3>1. missed \in [Worker -> {"nothing", "absent", "not alive", "deaf"}]
      BY DEF TypeOK
    <3>2. missed' = missed \/ missed' = [missed EXCEPT ![w] = "absent"]
      BY DEF Start, Ping, Retry, RegisterWorker, control
    <3> QED
      BY <3>1, <3>2
  <2>5. registered' \subseteq Worker
    BY ZenonT(120) DEF TypeOK, Start, Ping, Retry, RegisterWorker, keys, stored
  <2>6. /\ UNCHANGED <<heartbeat, dispatcher, inbox, phase, probe, stray, view, test, request>>
        /\ UNCHANGED <<status, age, issued, late>>
    BY DEF Start, Ping, Retry, RegisterWorker, keys, stored, control
  <2>7. adrift' \in [Worker -> {"none", "adrift", "landed"}]
    <3>1. adrift \in [Worker -> {"none", "adrift", "landed"}]
      BY DEF TypeOK
    <3>2. CASE Start(w)
      BY <3>1, <3>2 DEF Start
    <3>3. CASE Ping(w) \/ Retry(w) \/ RegisterWorker(w)
      <4>1. adrift' = adrift
        BY <3>3 DEF Ping, Retry, RegisterWorker, keys
      <4> QED
        BY <3>1, <4>1
    <3> QED
      BY <3>2, <3>3
  <2> QED
    BY <2>1, <2>2, <2>3, <2>4, <2>5, <2>6, <2>7, MainTyped, ExitTyped, FaultsTyped DEF TypeOK, view
<1>2. /\ main[w] \in {"down", "ping", "retry", "register"}
      /\ main'[w] \in {"down", "ping", "retry", "register", "healthy", "stop dispatcher"}
      /\ main[w] = "down" => missed'[w] = "absent" /\ main'[w] = "ping"
      /\ main[w] # "down" => missed'[w] = missed[w]
      /\ main'[w] = "healthy" => w \in registered'
      /\ main'[w] # "down" => exit'[w] # "clean"
      /\ main'[w] = "down" => exit'[w] = "turned back"
      /\ UNCHANGED <<heartbeat, dispatcher, inbox, phase, probe, stray>>
  BY Domains DEF Start, Ping, Retry, RegisterWorker, GoTo, control, TraceOK
<1>3. heartbeat[w] = "none" /\ dispatcher[w] = "none" /\ inbox[w] = <<>> /\ phase[w] = "IDLE"
  BY <1>2 DEF TasksOK, FollowOK, TypeOK, StartUp
<1>4. TasksOK(w)'
  BY <1>2, <1>3 DEF TasksOK
<1>5. TraceOK(w)'
  BY <1>2 DEF TraceOK
<1>6. FollowOK(w)'
  BY <1>2, <1>3 DEF FollowOK, StartUp, keys, stored
<1>7. StrayOK(w)'
  BY <1>2 DEF StrayOK
<1> QED
  BY <1>1, <1>4, <1>5, <1>6, <1>7

LEMMA MarkHealthyKeeps ==
    ASSUME ProcessInv, NEW w \in Worker, MarkHealthy(w)
    PROVE  TypeOK' /\ WorkerOK(w)'
<1> USE DEF ProcessInv, WorkerOK
<1>1. TypeOK'
  <2>1. (\E stage \in Main : GoTo(w, stage)) /\ (Succeeds \/ Raises)
    BY DEF MarkHealthy, Main
  <2>2. heartbeat' \in [Worker -> {"none", "publish", "sleep"}]
    <3>1. heartbeat \in [Worker -> {"none", "publish", "sleep"}]
      BY DEF TypeOK
    <3>2. heartbeat' = heartbeat \/ heartbeat' = [heartbeat EXCEPT ![w] = "publish"]
      BY DEF MarkHealthy
    <3> QED
      BY <3>1, <3>2
  <2>5. dispatcher' \in [Worker -> {"none", "subscribe", "listen", "dead"}]
    BY ZenonT(120) DEF TypeOK, MarkHealthy
  <2>3. keys' = keys \/ Publish(w, "healthy")
    BY DEF MarkHealthy
  <2>4. UNCHANGED <<shutdown, exit, inbox, phase, probe, lives, stray, view, control, late>>
    BY DEF MarkHealthy
  <2> QED
    BY ZenonT(120), <2>1, <2>2, <2>3, <2>4, <2>5, MainTyped, FaultsTyped, PublishTyped
       DEF TypeOK, view, control, keys, stored
<1>2. /\ main[w] = "healthy" /\ main'[w] \in {"probes", "up", "stop dispatcher"}
      /\ main'[w] # "stop dispatcher" =>
            /\ heartbeat'[w] = "publish" /\ Publish(w, "healthy")
            /\ dispatcher'[w] = IF main'[w] = "up" THEN "subscribe" ELSE dispatcher[w]
      /\ main'[w] = "stop dispatcher" => UNCHANGED <<heartbeat, dispatcher>>
      /\ UNCHANGED <<exit, inbox, phase, probe, stray, missed>>
      /\ registered' = registered
  BY Domains DEF MarkHealthy, Publish, GoTo, control, keys, stored
<1>3. heartbeat[w] = "none" /\ dispatcher[w] = "none" /\ inbox[w] = <<>> /\ phase[w] = "IDLE"
  BY <1>2 DEF TasksOK, FollowOK, TypeOK, StartUp
<1>4. TasksOK(w)'
  BY <1>2, <1>3, PublishTyped DEF TasksOK
<1>5. TraceOK(w)'
  BY <1>2 DEF TraceOK
<1>6. FollowOK(w)'
  BY <1>2, <1>3 DEF FollowOK, StartUp, keys, stored
<1>7. StrayOK(w)'
  BY <1>2 DEF StrayOK
<1> QED
  BY <1>1, <1>4, <1>5, <1>6, <1>7

LEMMA StartProbesKeeps ==
    ASSUME ProcessInv, NEW w \in Worker, StartProbes(w)
    PROVE  TypeOK' /\ WorkerOK(w)'
<1> USE DEF ProcessInv, WorkerOK
<1>1. TypeOK'
  <2>1. (\E stage \in Main : GoTo(w, stage)) /\ (Succeeds \/ Raises)
    BY DEF StartProbes, Main
  <2>2. probe' \in [Worker -> {"none", "idle", "call", "emit"}]
    BY ZenonT(120) DEF TypeOK, StartProbes
  <2>4. dispatcher' \in [Worker -> {"none", "subscribe", "listen", "dead"}]
    BY ZenonT(120) DEF TypeOK, StartProbes
  <2>3. UNCHANGED <<shutdown, exit, heartbeat, inbox, phase, lives, stray, keys, view, control, late>>
    BY DEF StartProbes
  <2> QED
    BY <2>1, <2>2, <2>3, <2>4, MainTyped, FaultsTyped DEF TypeOK, view, control, keys, stored
<1>2. /\ main[w] = "probes" /\ main'[w] \in {"up", "stop dispatcher"}
      /\ probe'[w] \in {probe[w], "idle"}
      /\ dispatcher'[w] = IF main'[w] = "up" THEN "subscribe" ELSE dispatcher[w]
      /\ UNCHANGED <<exit, heartbeat, inbox, phase, stray, missed>>
      /\ UNCHANGED <<registered, status, age, adrift, late>>
  BY Domains DEF StartProbes, GoTo, control, keys, stored
<1>3. dispatcher[w] = "none" /\ inbox[w] = <<>> /\ phase[w] = "IDLE"
  BY <1>2 DEF TasksOK, FollowOK, TypeOK, StartUp
<1>4. TasksOK(w)'
  BY <1>2, <1>3 DEF TasksOK
<1>5. TraceOK(w)'
  BY <1>2 DEF TraceOK
<1>6. FollowOK(w)'
  BY <1>2, <1>3 DEF FollowOK, StartUp, keys, stored
<1>7. StrayOK(w)'
  BY <1>2 DEF StrayOK
<1> QED
  BY <1>1, <1>4, <1>5, <1>6, <1>7

LEMMA ShutDownKeeps ==
    ASSUME ProcessInv, NEW w \in Worker, ShutDown(w) \/ Signal(w)
    PROVE  TypeOK' /\ WorkerOK(w)'
<1> USE DEF ProcessInv, WorkerOK
<1>1. /\ main'[w] = main[w] \/ (main[w] = "up" /\ main'[w] = "stop dispatcher")
      /\ UNCHANGED <<exit, heartbeat, dispatcher, inbox, phase, probe, lives, stray, keys, view>>
      /\ UNCHANGED <<control, faults, late>>
  BY Domains DEF ShutDown, Signal, GoTo
<1>2. TypeOK'
  <2>1. main' = main \/ \E stage \in Main : GoTo(w, stage)
    BY DEF ShutDown, Signal, Main
  <2>2. main' \in [Worker -> Main]
    BY <2>1, MainTyped DEF TypeOK
  <2>3. shutdown' \in [Worker -> BOOLEAN]
    BY DEF TypeOK, ShutDown, Signal
  <2> QED
    BY <1>1, <2>2, <2>3 DEF TypeOK, keys, stored, view, control
<1>3. TasksOK(w)'
  BY <1>1 DEF TasksOK, keys, stored
<1>4. TraceOK(w)'
  BY <1>1 DEF TraceOK, keys, stored
<1>5. FollowOK(w)'
  BY <1>1 DEF FollowOK, Told, StartUp, control, view, keys, stored
<1>6. StrayOK(w)'
  BY <1>1 DEF StrayOK
<1> QED
  BY <1>2, <1>3, <1>4, <1>5, <1>6

LEMMA StopTasksKeeps ==
    ASSUME ProcessInv, NEW w \in Worker, StopDispatcher(w) \/ StopProbes(w)
    PROVE  TypeOK' /\ WorkerOK(w)'
<1> USE DEF ProcessInv, WorkerOK
<1>1. /\ main[w] \in {"stop dispatcher", "stop probes"}
      /\ main'[w] \in {"stop probes", "stop heartbeat", "end"}
      /\ main'[w] = "end" => exit'[w] = "escaped"
      /\ main'[w] # "end" => exit'[w] = exit[w]
      /\ dispatcher'[w] \in {dispatcher[w], "none"} /\ inbox'[w] \in {inbox[w], <<>>}
      /\ main[w] = "stop dispatcher" => dispatcher'[w] = "none" /\ inbox'[w] = <<>>
      /\ probe'[w] \in {probe[w], "none"}
      /\ UNCHANGED <<heartbeat, phase, lives, stray, keys, view, control, faults, late>>
  BY ZenonT(120), Domains DEF StopDispatcher, StopProbes, GoTo
<1>2. TypeOK'
  <2>1. (\E stage \in Main : GoTo(w, stage)) /\ UNCHANGED shutdown
    BY DEF StopDispatcher, StopProbes, Main
  <2>2. exit' = exit \/ \E how \in Exit : exit' = [exit EXCEPT ![w] = how]
    BY DEF StopDispatcher, StopProbes, Exit
  <2>3. dispatcher' \in [Worker -> {"none", "subscribe", "listen", "dead"}]
    BY ZenonT(120) DEF TypeOK, StopDispatcher, StopProbes
  <2>4. inbox' \in [Worker -> Seq({"start", "stop"})]
    BY InboxTyped, <1>1 DEF StopDispatcher, StopProbes
  <2>5. probe' \in [Worker -> {"none", "idle", "call", "emit"}]
    BY ZenonT(120) DEF TypeOK, StopDispatcher, StopProbes
  <2> QED
    BY ZenonT(120), <1>1, <2>1, <2>2, <2>3, <2>4, <2>5, MainTyped, ExitTyped DEF TypeOK, keys, stored, view, control
<1>3. dispatcher'[w] = "none" /\ inbox'[w] = <<>>
  BY <1>1 DEF TasksOK
<1>4. TasksOK(w)'
  BY <1>1, <1>3 DEF TasksOK, keys, stored
<1>5. TraceOK(w)'
  BY <1>1 DEF TraceOK, keys, stored
<1>6. FollowOK(w)'
  BY <1>1, <1>3 DEF FollowOK, StartUp, keys, stored
<1>7. StrayOK(w)'
  BY <1>1 DEF StrayOK
<1> QED
  BY <1>2, <1>4, <1>5, <1>6, <1>7

LEMMA StopHeartbeatKeeps ==
    ASSUME ProcessInv, NEW w \in Worker, StopHeartbeat(w)
    PROVE  TypeOK' /\ WorkerOK(w)'
<1> USE DEF ProcessInv, WorkerOK
<1>1. /\ main[w] = "stop heartbeat" /\ main'[w] = "unhealthy"
      /\ CutOff(w) /\ heartbeat'[w] = "none"
      /\ UNCHANGED <<shutdown, exit, dispatcher, inbox, phase, probe, lives, stray, view>>
      /\ UNCHANGED <<control, faults, late>>
  BY Domains, CutOffTyped DEF StopHeartbeat, GoTo
<1>2. TypeOK'
  <2>1. \E stage \in Main : GoTo(w, stage)
    BY DEF StopHeartbeat, Main
  <2>2. main' \in [Worker -> Main]
    BY <2>1, MainTyped DEF ProcessInv
  <2>3. /\ heartbeat' \in [Worker -> {"none", "publish", "sleep"}]
        /\ adrift' \in [Worker -> {"none", "adrift", "landed"}]
        /\ UNCHANGED <<registered, status, age>>
    BY <1>1, CutOffTyped DEF ProcessInv
  <2> QED
    BY <1>1, <2>2, <2>3 DEF TypeOK, view, control
<1>3. dispatcher[w] = "none" /\ inbox[w] = <<>>
  BY <1>1 DEF TasksOK, TypeOK
<1>4. TasksOK(w)'
  BY <1>1, <1>3 DEF TasksOK
<1>5. TraceOK(w)'
  BY <1>1 DEF TraceOK
<1>6. FollowOK(w)'
  BY <1>1, <1>3 DEF FollowOK, StartUp, keys, stored
<1>7. StrayOK(w)'
  BY <1>1 DEF StrayOK
<1> QED
  BY <1>2, <1>4, <1>5, <1>6, <1>7

LEMMA MarkUnhealthyKeeps ==
    ASSUME ProcessInv, NEW w \in Worker, MarkUnhealthy(w)
    PROVE  TypeOK' /\ WorkerOK(w)'
<1> USE DEF ProcessInv, WorkerOK
<1>1. /\ main[w] = "unhealthy" /\ main'[w] = "unregister"
      /\ exit'[w] \in {exit[w], "failed"}
      /\ UNCHANGED <<shutdown, heartbeat, dispatcher, inbox, phase, probe, lives, stray, view>>
      /\ UNCHANGED <<control, late>>
  BY Domains DEF MarkUnhealthy, GoTo, Logged
<1>2. TypeOK'
  <2>1. (\E stage \in Main : GoTo(w, stage)) /\ (Succeeds \/ Raises)
    BY DEF MarkUnhealthy, Main
  <2>2. exit' = exit \/ \E how \in Exit : exit' = [exit EXCEPT ![w] = how]
    BY DEF MarkUnhealthy, Logged, Exit
  <2>3. UNCHANGED keys \/ Publish(w, "unhealthy")
    BY DEF MarkUnhealthy
  <2> QED
    BY ZenonT(120), <1>1, <2>1, <2>2, <2>3, MainTyped, ExitTyped, FaultsTyped, PublishTyped
       DEF TypeOK, keys, stored, view, control
<1>3. heartbeat[w] = "none" /\ dispatcher[w] = "none" /\ inbox[w] = <<>>
  BY <1>1 DEF TasksOK, TypeOK
<1>4. TasksOK(w)'
  BY <1>1, <1>3 DEF TasksOK
<1>5. TraceOK(w)'
  BY <1>1 DEF TraceOK
<1>6. FollowOK(w)'
  BY <1>1, <1>3 DEF FollowOK, StartUp, keys, stored
<1>7. StrayOK(w)'
  BY <1>1 DEF StrayOK
<1> QED
  BY <1>2, <1>4, <1>5, <1>6, <1>7

LEMMA UnregisterKeeps ==
    ASSUME ProcessInv, NEW w \in Worker, UnregisterWorker(w)
    PROVE  TypeOK' /\ WorkerOK(w)'
<1> USE DEF ProcessInv, WorkerOK
<1>1. /\ main[w] = "unregister" /\ main'[w] = "end"
      /\ exit'[w] = "failed" \/ (exit'[w] = exit[w] /\ Forget(w))
      /\ UNCHANGED <<shutdown, heartbeat, dispatcher, inbox, phase, probe, lives, stray, view>>
      /\ UNCHANGED <<control, late>>
  BY Domains DEF UnregisterWorker, GoTo, Logged
<1>2. TypeOK'
  <2>1. (\E stage \in Main : GoTo(w, stage)) /\ (Succeeds \/ Raises)
    BY DEF UnregisterWorker, Main
  <2>2. exit' = exit \/ \E how \in Exit : exit' = [exit EXCEPT ![w] = how]
    BY DEF UnregisterWorker, Logged, Exit
  <2>3. UNCHANGED keys \/ Forget(w)
    BY DEF UnregisterWorker
  <2>4. age' \in [Worker -> 0 .. Stale]
    <3>1. age \in [Worker -> 0 .. Stale]
      BY DEF TypeOK
    <3>2. 0 \in 0 .. Stale
      BY DEF Stale
    <3> QED
      BY <2>3, <3>1, <3>2 DEF keys, stored, Forget
  <2>5. status' \in [Worker -> {"none", "healthy", "unhealthy"}]
    BY <2>3 DEF TypeOK, keys, stored, Forget
  <2>6. registered' \subseteq Worker
    BY <2>3 DEF TypeOK, keys, stored, Forget
  <2>7. adrift' = adrift
    BY <2>3 DEF keys, Forget
  <2> QED
    BY <1>1, <2>1, <2>2, <2>4, <2>5, <2>6, <2>7, MainTyped, ExitTyped, FaultsTyped
       DEF TypeOK, view, control
<1>3. heartbeat[w] = "none" /\ dispatcher[w] = "none" /\ inbox[w] = <<>>
  BY <1>1 DEF TasksOK, TypeOK
<1>4. TasksOK(w)'
  BY <1>1, <1>3 DEF TasksOK
<1>5. TraceOK(w)'
  BY <1>1, <1>3, Domains DEF TraceOK, Forget
<1>6. FollowOK(w)'
  BY <1>1, <1>3 DEF FollowOK, StartUp, keys, stored
<1>7. StrayOK(w)'
  BY <1>1 DEF StrayOK
<1> QED
  BY <1>2, <1>4, <1>5, <1>6, <1>7

LEMMA GoneKeeps ==
    ASSUME ProcessInv, NEW w \in Worker, EndLoop(w) \/ Kill(w)
    PROVE  TypeOK' /\ WorkerOK(w)'
<1> USE DEF ProcessInv, WorkerOK
<1>1. /\ Gone(w)
      /\ \/ exit' = [exit EXCEPT ![w] = "killed"]
         \/ main[w] = "end" /\ exit' = [exit EXCEPT ![w] = IF @ = "running" THEN "clean" ELSE @]
      /\ CutOff(w) /\ main[w] # "down"
      /\ UNCHANGED <<lives, view, control, faults, late>>
  BY DEF EndLoop, Kill, Gone
<1>2. /\ main'[w] = "down" /\ heartbeat'[w] = "none" /\ dispatcher'[w] = "none"
      /\ inbox'[w] = <<>> /\ phase'[w] = "IDLE" /\ stray'[w] = 0
  BY <1>1, Domains, CutOffTyped DEF Gone, GoTo
<1>3. exit'[w] = "clean" => main[w] = "end" /\ exit[w] = "running"
  BY <1>1, Domains DEF TraceOK
<1>4. TypeOK'
  <2>1. \E stage \in Main : GoTo(w, stage)
    BY <1>1 DEF Gone, Main
  <2>2. exit' \in [Worker -> Exit]
    <3>1. exit \in [Worker -> Exit]
      BY DEF TypeOK
    <3> QED
      BY <1>1, <3>1 DEF Exit
  <2>3. shutdown' \in [Worker -> BOOLEAN]
    BY <1>1 DEF TypeOK, Gone
  <2>4. /\ heartbeat' \in [Worker -> {"none", "publish", "sleep"}]
        /\ adrift' \in [Worker -> {"none", "adrift", "landed"}]
        /\ UNCHANGED <<registered, status, age>>
    BY <1>1, CutOffTyped
  <2>5. dispatcher' \in [Worker -> {"none", "subscribe", "listen", "dead"}]
    BY <1>1 DEF TypeOK, Gone
  <2>6. inbox' = [inbox EXCEPT ![w] = <<>>]
    BY <1>1 DEF Gone
  <2>7. phase' \in [Worker -> {"IDLE", "RUNNING"}]
    BY <1>1 DEF TypeOK, Gone
  <2>8. probe' \in [Worker -> {"none", "idle", "call", "emit"}]
    BY <1>1 DEF TypeOK, Gone
  <2>9. stray' \in [Worker -> 0 .. 2]
    <3>1. stray \in [Worker -> 0 .. 2]
      BY DEF TypeOK
    <3> QED
      BY <1>1, <3>1 DEF Gone
  <2> QED
    <3>1. main' \in [Worker -> Main] /\ inbox' \in [Worker -> Seq({"start", "stop"})]
      BY <2>1, <2>6, MainTyped, InboxTyped
    <3> QED
      BY <1>1, <2>2, <2>3, <2>4, <2>5, <2>7, <2>8, <2>9, <3>1 DEF TypeOK, view, control
<1>5. TasksOK(w)'
  BY <1>2 DEF TasksOK
<1>6. TraceOK(w)'
  <2>1. UNCHANGED <<registered, status>> /\ (heartbeat[w] = "none" => adrift' = adrift)
    BY <1>1, CutOffTyped
  <2> QED
    BY <1>1, <1>2, <1>3, <2>1 DEF TraceOK
<1>7. FollowOK(w)'
  BY <1>2 DEF FollowOK, StartUp, keys, stored
<1>8. StrayOK(w)'
  BY <1>2 DEF StrayOK
<1> QED
  BY <1>4, <1>5, <1>6, <1>7, <1>8

-----------------------------------------------------------------------------
LEMMA HeartbeatKeeps ==
    ASSUME ProcessInv, NEW w \in Worker, Heartbeat(w)
    PROVE  TypeOK' /\ WorkerOK(w)'
<1> USE DEF ProcessInv, WorkerOK
<1>1. /\ heartbeat[w] # "none" /\ heartbeat'[w] # "none"
      /\ UNCHANGED keys \/ Publish(w, "healthy")
      /\ UNCHANGED <<main, shutdown, exit, dispatcher, inbox, phase, probe, lives, stray, view>>
      /\ UNCHANGED <<control, late>>
  BY Domains DEF Heartbeat
<1>2. TypeOK'
  <2>1. Succeeds \/ Raises
    BY DEF Heartbeat, Succeeds
  <2>2. heartbeat' \in [Worker -> {"none", "publish", "sleep"}]
    <3>1. heartbeat \in [Worker -> {"none", "publish", "sleep"}]
      BY DEF TypeOK
    <3> QED
      BY <3>1 DEF Heartbeat
  <2>3. faults' \in 0 .. MaxFaults
    BY <2>1, FaultsTyped
  <2>4. /\ status' \in [Worker -> {"none", "healthy", "unhealthy"}]
        /\ age' \in [Worker -> 0 .. Stale]
        /\ registered' = registered /\ adrift' = adrift
    <3>1. CASE UNCHANGED keys
      BY <3>1 DEF TypeOK, keys, stored
    <3>2. CASE Publish(w, "healthy")
      BY <3>2, PublishTyped
    <3> QED
      BY <1>1, <3>1, <3>2
  <2> QED
    BY <1>1, <2>2, <2>3, <2>4 DEF TypeOK, view, control
<1>3. TasksOK(w)'
  <2>1. w \in registered' /\ status'[w] = "healthy"
    BY <1>1, PublishTyped DEF TasksOK, keys, stored
  <2>2. age'[w] > Timeout => late' > 0 \/ adrift'[w] = "landed"
    BY <1>1, PublishTyped DEF TasksOK, keys, stored
  <2> QED
    BY <1>1, <2>1, <2>2 DEF TasksOK
<1>4. TraceOK(w)'
  BY <1>1 DEF TraceOK, TasksOK
<1>5. FollowOK(w)'
  <2>1. adrift' = adrift
    BY <1>1, PublishTyped DEF keys
  <2> QED
    BY <1>1, <2>1 DEF FollowOK, Told, control, view
<1>6. StrayOK(w)'
  BY <1>1 DEF StrayOK
<1> QED
  BY <1>2, <1>3, <1>4, <1>5, <1>6

LEMMA SubscribeKeeps ==
    ASSUME ProcessInv, NEW w \in Worker, Subscribe(w)
    PROVE  TypeOK' /\ WorkerOK(w)'
<1> USE DEF ProcessInv, WorkerOK
<1>1. /\ dispatcher[w] = "subscribe" /\ dispatcher'[w] \in {"listen", "dead"}
      /\ UNCHANGED <<main, shutdown, exit, heartbeat, inbox, phase, probe, lives, stray, keys>>
      /\ UNCHANGED <<view, control, late>>
  BY Domains DEF Subscribe
<1>2. TypeOK'
  <2>1. Succeeds \/ Raises
    BY DEF Subscribe
  <2>2. dispatcher' \in [Worker -> {"none", "subscribe", "listen", "dead"}]
    <3>1. dispatcher \in [Worker -> {"none", "subscribe", "listen", "dead"}]
      BY DEF TypeOK
    <3> QED
      BY <3>1 DEF Subscribe
  <2> QED
    BY <1>1, <2>1, <2>2, FaultsTyped DEF TypeOK, keys, stored, view, control
<1>3. inbox[w] = <<>> /\ phase[w] = "IDLE" /\ missed[w] # "nothing"
  BY <1>1 DEF TasksOK, FollowOK
<1>4. TasksOK(w)'
  BY <1>1, <1>3 DEF TasksOK, keys, stored
<1>5. TraceOK(w)'
  BY <1>1 DEF TraceOK, keys, stored
<1>6. FollowOK(w)'
  BY <1>1, <1>3 DEF FollowOK, Told, control, keys, stored
<1>7. StrayOK(w)'
  BY <1>1 DEF StrayOK
<1> QED
  BY <1>2, <1>4, <1>5, <1>6, <1>7

LEMMA TailEmpty ==
    ASSUME NEW S, NEW s \in Seq(S), s # <<>>, Tail(s) = <<>>
    PROVE  Len(s) = 1
<1>1. Len(Tail(s)) = Len(s) - 1 /\ Len(s) \in Nat
  BY HeadTailProperties, LenProperties
<1>2. Len(Tail(s)) = 0
  <2>1. Len(<<>>) = 0
    OBVIOUS
  <2> QED
    BY <2>1, Zenon
<1> QED
  BY <1>1, <1>2

\* Reading a command does not change what the worker was told last.
LEMMA GetMessageKeeps ==
    ASSUME ProcessInv, NEW w \in Worker, GetMessage(w)
    PROVE  TypeOK' /\ WorkerOK(w)'
<1> USE DEF ProcessInv, WorkerOK
<1>0. inbox[w] \in Seq({"start", "stop"}) /\ inbox \in [Worker -> Seq({"start", "stop"})]
  BY DEF TypeOK
<1>1. /\ dispatcher[w] = "listen"
      /\ UNCHANGED <<main, shutdown, exit, heartbeat, probe, lives, keys, view, control, late>>
      /\ Succeeds \/ Raises
  BY DEF GetMessage
<1>2. CASE inbox[w] # <<>> /\ inbox' = [inbox EXCEPT ![w] = Tail(@)]
           /\ phase' = [phase EXCEPT ![w] = IF Head(inbox[w]) = "start" THEN "RUNNING" ELSE "IDLE"]
           /\ stray' = [stray EXCEPT ![w] = 0] /\ UNCHANGED dispatcher
  <2>1. /\ inbox'[w] = Tail(inbox[w]) /\ stray'[w] = 0
        /\ phase'[w] = IF inbox[w][1] = "start" THEN "RUNNING" ELSE "IDLE"
    BY <1>2, Domains
  <2>2. Tail(inbox[w]) \in Seq({"start", "stop"}) /\ Len(Tail(inbox[w])) = Len(inbox[w]) - 1
    BY <1>0, <1>2
  <2>3. Told(w)' = Told(w)
    <3>1. CASE Tail(inbox[w]) = <<>>
      <4>1. Len(inbox[w]) = 1
        BY <1>0, <1>2, <3>1, TailEmpty
      <4> QED
        BY <1>2, <2>1, <3>1, <4>1 DEF Told
    <3>2. CASE Tail(inbox[w]) # <<>>
      <4>1. Tail(inbox[w])[Len(Tail(inbox[w]))] = inbox[w][Len(inbox[w])]
        BY <1>0, <1>2, <2>2, <3>2
      <4> QED
        BY <1>2, <2>1, <3>2, <4>1 DEF Told
    <3> QED
      BY <3>1, <3>2
  <2>4. TypeOK'
    <3>1. inbox' \in [Worker -> Seq({"start", "stop"})]
      BY <1>0, <1>2, <2>2
    <3>2. phase' \in [Worker -> {"IDLE", "RUNNING"}]
      BY <1>2 DEF TypeOK
    <3>3. stray' \in [Worker -> 0 .. 2]
      <4>1. stray \in [Worker -> 0 .. 2]
        BY DEF TypeOK
      <4> QED
        BY <1>2, <4>1
    <3> QED
      BY <1>1, <1>2, <3>1, <3>2, <3>3, FaultsTyped DEF TypeOK, keys, stored, view, control
  <2>5. TasksOK(w)'
    BY <1>1, <1>2 DEF TasksOK, keys, stored
  <2>6. TraceOK(w)'
    BY <1>1, <1>2 DEF TraceOK, keys, stored
  <2>7. FollowOK(w)'
    BY <1>1, <1>2, <2>3 DEF FollowOK, TasksOK, StartUp, control, view, keys, stored
  <2>8. StrayOK(w)'
    BY <2>1 DEF StrayOK
  <2> QED
    BY <2>4, <2>5, <2>6, <2>7, <2>8
<1>3. CASE /\ dispatcher' = [dispatcher EXCEPT ![w] = "dead"]
           /\ inbox' = [inbox EXCEPT ![w] = <<>>] /\ UNCHANGED <<phase, stray>>
  <2>1. dispatcher'[w] = "dead" /\ inbox'[w] = <<>>
    BY <1>3, Domains
  <2>2. TypeOK'
    <3>1. dispatcher' \in [Worker -> {"none", "subscribe", "listen", "dead"}]
      BY <1>3 DEF TypeOK
    <3> QED
      BY <1>1, <1>3, <3>1, InboxTyped, FaultsTyped DEF TypeOK, keys, stored, view, control
  <2>3. TasksOK(w)'
    BY <1>1, <1>3, <2>1 DEF TasksOK, keys, stored
  <2>4. TraceOK(w)'
    BY <1>1, <1>3 DEF TraceOK, keys, stored
  <2>5. FollowOK(w)'
    BY <1>1, <1>3, <2>1 DEF FollowOK, control, keys, stored
  <2>6. StrayOK(w)'
    BY <1>1, <1>3 DEF StrayOK
  <2> QED
    BY <2>2, <2>3, <2>4, <2>5, <2>6
<1> QED
  BY <1>2, <1>3 DEF GetMessage

LEMMA RunProbeKeeps ==
    ASSUME ProcessInv, NEW w \in Worker, RunProbe(w)
    PROVE  TypeOK' /\ WorkerOK(w)'
<1> USE DEF ProcessInv, WorkerOK
<1>1. /\ UNCHANGED <<main, shutdown, exit, heartbeat, dispatcher, inbox, phase, lives, keys>>
      /\ UNCHANGED <<view, control, late>> /\ (Succeeds \/ Raises)
      /\ \/ probe[w] = "idle" /\ phase[w] = "RUNNING" /\ probe'[w] = "call" /\ stray' = stray
         \/ probe[w] = "call" /\ probe'[w] = "emit" /\ stray' = stray
         \/ /\ probe[w] = "emit" /\ probe'[w] = "idle"
            /\ stray' = [stray EXCEPT ![w] = IF phase[w] = "RUNNING" \/ @ = 2 THEN @ ELSE @ + 1]
  BY Domains DEF RunProbe, Succeeds
<1>2. stray \in [Worker -> 0 .. 2] /\ phase[w] \in {"IDLE", "RUNNING"}
  BY DEF TypeOK
<1>3. StrayOK(w)' /\ stray' \in [Worker -> 0 .. 2]
  BY <1>1, <1>2 DEF StrayOK
<1>4. TypeOK'
  <2>1. probe' \in [Worker -> {"none", "idle", "call", "emit"}]
    <3>1. probe \in [Worker -> {"none", "idle", "call", "emit"}]
      BY DEF TypeOK
    <3> QED
      BY <3>1 DEF RunProbe
  <2> QED
    BY <1>1, <1>3, <2>1, FaultsTyped DEF TypeOK, keys, stored, view, control
<1>5. TasksOK(w)'
  BY <1>1 DEF TasksOK, keys, stored
<1>6. TraceOK(w)'
  BY <1>1 DEF TraceOK, keys, stored
<1>7. FollowOK(w)'
  BY <1>1 DEF FollowOK, Told, control, view, keys, stored
<1> QED
  BY <1>3, <1>4, <1>5, <1>6, <1>7

\* The write of a process before this one may bring its age back, and after a clean
\* end the status, but nothing else.
LEMMA LandsKeeps ==
    ASSUME ProcessInv, NEW w \in Worker, Lands(w)
    PROVE  TypeOK' /\ WorkerOK(w)'
<1> USE DEF ProcessInv, WorkerOK
<1>1. /\ adrift'[w] = "landed" /\ status'[w] = "healthy"
      /\ UNCHANGED <<process, registered, view, control, faults, late>>
  BY Domains DEF Lands
<1>2. TypeOK'
  <2>1. age' \in [Worker -> 0 .. Stale]
    <3>1. age \in [Worker -> 0 .. Stale]
      BY DEF TypeOK
    <3> QED
      BY <3>1 DEF Lands
  <2>2. status' \in [Worker -> {"none", "healthy", "unhealthy"}]
    BY DEF TypeOK, Lands
  <2>3. adrift' \in [Worker -> {"none", "adrift", "landed"}]
    BY DEF TypeOK, Lands
  <2> QED
    BY <1>1, <2>1, <2>2, <2>3 DEF TypeOK, process, view, control
<1>3. TasksOK(w)'
  BY <1>1 DEF TasksOK, process
<1>4. TraceOK(w)'
  BY <1>1 DEF TraceOK, process
<1>5. FollowOK(w)'
  BY <1>1 DEF FollowOK, Told, process, view, control, keys, stored
<1>6. StrayOK(w)'
  BY <1>1 DEF StrayOK, process
<1> QED
  BY <1>2, <1>3, <1>4, <1>5, <1>6

LEMMA OneWorkerKeeps ==
    ASSUME ProcessInv, NEW w \in Worker, MainStep(w) \/ Event(w) \/ Task(w)
    PROVE  ProcessInv'
<1>1. TypeOK' /\ WorkerOK(w)'
  BY StartUpKeeps, MarkHealthyKeeps, StartProbesKeeps, ShutDownKeeps, StopTasksKeeps,
     StopHeartbeatKeeps, MarkUnhealthyKeeps, UnregisterKeeps, GoneKeeps, HeartbeatKeeps,
     SubscribeKeeps, GetMessageKeeps, RunProbeKeeps, LandsKeeps DEF MainStep, Event, Task
<1>2. \A v \in Worker : v # w => WorkerOK(v)'
  BY OthersStay
<1> QED
  BY <1>1, <1>2 DEF ProcessInv

-----------------------------------------------------------------------------
\* What the orchestrator reads is no step of a worker.
LEMMA ReadingKeeps ==
    ASSUME ProcessInv, MonitorLists \/ MonitorReads \/ BeginRequest
    PROVE  ProcessInv'
<1> USE DEF ProcessInv, WorkerOK
<1>1. /\ UNCHANGED <<process, keys, test, missed, late>>
      /\ Succeeds \/ Raises
      /\ \/ request' = request /\ listed'["request"] = listed["request"]
         \/ listed'["request"] = registered
  BY ZenonT(120) DEF MonitorLists, MonitorReads, BeginRequest, control, Succeeds, TypeOK
<1>2. TypeOK'
  <2>1. listed' \in [{"monitor", "request"} -> SUBSET Worker]
    <3>1. listed \in [{"monitor", "request"} -> SUBSET Worker] /\ registered \subseteq Worker
      BY DEF TypeOK
    <3> QED
      BY <3>1 DEF MonitorLists, MonitorReads, BeginRequest
  <2>2. monitor' \in {"sleep", "scan"} /\ cached' \subseteq Worker
    BY DEF TypeOK, MonitorLists, MonitorReads, BeginRequest, Alive
  <2>3. request' \in {"none", "start", "stop"}
    BY DEF TypeOK, MonitorLists, MonitorReads, BeginRequest, control
  <2>4. issued' \in 0 .. MaxRequests
    <3>1. issued \in 0 .. MaxRequests
      BY DEF TypeOK
    <3> QED
      BY <3>1 DEF MonitorLists, MonitorReads, BeginRequest, control
  <2> QED
    BY <1>1, <2>1, <2>2, <2>3, <2>4, FaultsTyped DEF TypeOK, process, keys, stored
<1>3. ASSUME NEW w \in Worker PROVE WorkerOK(w)'
  <2>1. TasksOK(w)'
    BY <1>1 DEF TasksOK, process, keys, stored
  <2>2. TraceOK(w)'
    BY <1>1 DEF TraceOK, process, keys, stored
  <2>3. FollowOK(w)'
    BY <1>1 DEF FollowOK, TasksOK, Told, process, keys, stored
  <2>4. StrayOK(w)'
    BY <1>1 DEF StrayOK, process
  <2> QED
    BY <2>1, <2>2, <2>3, <2>4
<1> QED
  BY <1>2, <1>3

LEMMA AppendTold ==
    ASSUME TypeOK, NEW w \in Worker, NEW command \in {"start", "stop"},
           inbox'[w] = Append(inbox[w], command)
    PROVE  Told(w)' = IF command = "start" THEN "RUNNING" ELSE "IDLE"
<1>1. inbox[w] \in Seq({"start", "stop"})
  BY DEF TypeOK
<1>2. /\ Append(inbox[w], command) # <<>>
      /\ Append(inbox[w], command)[Len(Append(inbox[w], command))] = command
  BY SMTT(40), <1>1
<1> QED
  BY <1>2 DEF Told

\* A listening worker that runs load, or will, is on the list; the stop passes it
\* over only when its heartbeat is overdue, or an older one has landed on it.
LEMMA NotAliveIsLate ==
    ASSUME ProcessInv, NEW w \in Worker, dispatcher[w] = "listen",
           w \in listed["request"], w \notin Alive(listed["request"])
    PROVE  late > 0 \/ adrift[w] = "landed"
<1>1. status[w] = "healthy" /\ (age[w] > Timeout => late > 0 \/ adrift[w] = "landed")
  BY DEF ProcessInv, WorkerOK, TasksOK
<1>2. age[w] \in 0 .. Stale
  BY DEF ProcessInv, TypeOK
<1> QED
  BY <1>1, <1>2 DEF Alive, Stale

LEMMA BroadcastKeeps ==
    ASSUME ProcessInv, StartTest \/ StopTest
    PROVE  ProcessInv'
<1> USE DEF ProcessInv, WorkerOK
<1> DEFINE to == Alive(listed["request"])
<1>1. /\ UNCHANGED <<main, shutdown, exit, heartbeat, dispatcher, phase, probe, lives, stray>>
      /\ UNCHANGED <<keys, monitor, issued, late>> /\ UNCHANGED faults
      /\ request \in {"start", "stop"} /\ request' = "none"
      /\ listed' = [listed EXCEPT !["request"] = {}]
      /\ \/ UNCHANGED <<test, inbox, missed>>
         \/ request = "start" /\ test' = "RUNNING" /\ Broadcast("start", to)
         \/ request = "stop" /\ test' = "IDLE" /\ Broadcast("stop", to)
  BY DEF StartTest, StopTest
<1>2. to \subseteq listed["request"]
  BY DEF Alive
<1>3. TypeOK'
  <2>1. listed' \in [{"monitor", "request"} -> SUBSET Worker]
    BY <1>1 DEF TypeOK
  <2>2. cached' \subseteq Worker
    BY DEF StartTest, StopTest, TypeOK, Alive
  <2>3. inbox' \in [Worker -> Seq({"start", "stop"})]
    <3>1. inbox \in [Worker -> Seq({"start", "stop"})]
      BY DEF TypeOK
    <3>2. \A w \in Worker, c \in {"start", "stop"} :
            Append(inbox[w], c) \in Seq({"start", "stop"})
      BY <3>1
    <3> QED
      BY ZenonT(120), <1>1, <3>1, <3>2 DEF Broadcast
  <2>4. missed' \in [Worker -> {"nothing", "absent", "not alive", "deaf"}]
    BY <1>1 DEF TypeOK, Broadcast
  <2>5. test' \in {"IDLE", "RUNNING"}
    BY <1>1 DEF TypeOK
  <2> QED
    BY <1>1, <2>1, <2>2, <2>3, <2>4, <2>5 DEF TypeOK, keys, stored
<1>4. ASSUME NEW w \in Worker PROVE WorkerOK(w)'
  <2>1. TasksOK(w)'
    BY <1>1 DEF TasksOK, keys, stored, Broadcast
  <2>2. TraceOK(w)'
    BY <1>1 DEF TraceOK, keys, stored
  <2>3. FollowOK(w)'
    <3>1. CASE UNCHANGED <<test, inbox, missed>>
      BY <1>1, <3>1 DEF FollowOK, Told, keys, stored
    <3>2. CASE Broadcast("start", to) /\ test' = "RUNNING"
      <4>1. dispatcher[w] # "listen" => missed'[w] # "nothing"
        BY <1>2, <3>2 DEF Broadcast
      <4>2. dispatcher[w] = "listen" /\ missed'[w] = "nothing" => Told(w)' = "RUNNING"
        BY <3>2, AppendTold DEF Broadcast
      <4> QED
        BY <1>1, <3>2, <4>1, <4>2 DEF FollowOK, TasksOK, StartUp, keys, stored
    <3>3. CASE Broadcast("stop", to) /\ test' = "IDLE" /\ request = "stop"
      <4>1. dispatcher[w] # "listen" => missed'[w] # "nothing"
        BY <1>2, <3>3 DEF Broadcast
      <4>2. dispatcher[w] = "listen" /\ w \in to => Told(w)' = "IDLE"
        BY <3>3, AppendTold DEF Broadcast
      <4>3. ASSUME dispatcher[w] = "listen", w \notin to
            PROVE  /\ missed'[w] # "nothing"
                   /\ Told(w)' = "RUNNING" =>
                        missed'[w] = "not alive" /\ (late > 0 \/ adrift[w] = "landed")
        <5>1. Told(w)' = Told(w)
          BY <1>1, <3>3, <4>3 DEF Told, Broadcast
        <5>2. Told(w) = "RUNNING" => w \in listed["request"]
          BY <3>3, <4>3 DEF FollowOK
        <5>3. missed'[w] = IF w \in listed["request"] THEN "not alive" ELSE "absent"
          BY <3>3, <4>3 DEF Broadcast
        <5> QED
          BY <4>3, <5>1, <5>2, <5>3, NotAliveIsLate
      <4> QED
        BY <1>1, <3>3, <4>1, <4>2, <4>3 DEF FollowOK, TasksOK, StartUp, keys, stored
    <3> QED
      BY <1>1, <3>1, <3>2, <3>3
  <2>4. StrayOK(w)'
    BY <1>1 DEF StrayOK
  <2> QED
    BY <2>1, <2>2, <2>3, <2>4
<1> QED
  BY <1>3, <1>4

LEMMA TickKeeps ==
    ASSUME ProcessInv, Tick
    PROVE  ProcessInv'
<1> USE DEF ProcessInv, WorkerOK
<1>1. /\ UNCHANGED <<process, registered, status, adrift, view, control, faults>>
      /\ late' \in 0 .. MaxLate /\ late <= late'
      /\ \A w \in Worker : heartbeat[w] # "none" /\ age[w] >= Timeout => late' > 0
  <2>1. late \in 0 .. MaxLate
    BY DEF TypeOK
  <2>2. UNCHANGED <<process, registered, status, adrift, view, control, faults>>
    BY DEF Tick
  <2>3. CASE \E w \in Worker : heartbeat[w] # "none" /\ age[w] >= Timeout
    BY <2>1, <2>2, <2>3 DEF Tick
  <2>4. CASE ~\E w \in Worker : heartbeat[w] # "none" /\ age[w] >= Timeout
    BY <2>1, <2>2, <2>4 DEF Tick
  <2> QED
    BY <2>3, <2>4
<1>2. /\ age' \in [Worker -> 0 .. Stale]
      /\ \A w \in Worker : age'[w] > Timeout => age[w] >= Timeout
  <2>1. age \in [Worker -> 0 .. Stale]
    BY DEF TypeOK
  <2>2. age' = [w \in Worker |-> IF status[w] = "none" \/ age[w] = Stale THEN age[w]
                                 ELSE age[w] + 1]
    BY DEF Tick
  <2> QED
    BY <2>1, <2>2 DEF Stale
<1>3. TypeOK'
  BY <1>1, <1>2 DEF TypeOK, process, view, control
<1>4. ASSUME NEW w \in Worker PROVE WorkerOK(w)'
  <2>1. TasksOK(w)'
    BY <1>1, <1>2 DEF TasksOK, process
  <2>2. TraceOK(w)'
    BY <1>1 DEF TraceOK, process
  <2>3. FollowOK(w)'
    <3>1. late > 0 => late' > 0
      <4>1. late \in 0 .. MaxLate
        BY DEF TypeOK
      <4> QED
        BY <1>1, <4>1
    <3> QED
      BY <1>1, <3>1 DEF FollowOK, Told, process, control, view, keys, stored
  <2>4. StrayOK(w)'
    BY <1>1 DEF StrayOK, process
  <2> QED
    BY <2>1, <2>2, <2>3, <2>4
<1> QED
  BY <1>3, <1>4

LEMMA StutterKeeps == ProcessInv /\ UNCHANGED vars => ProcessInv'
<1> SUFFICES ASSUME ProcessInv, UNCHANGED vars PROVE ProcessInv'
  OBVIOUS
<1>1. TypeOK'
  BY DEF ProcessInv, TypeOK, vars, process, keys, stored, view, control
<1>2. ASSUME NEW w \in Worker PROVE WorkerOK(w)'
  BY DEF ProcessInv, WorkerOK, TasksOK, TraceOK, FollowOK, StrayOK, Told, vars, process, keys, stored,
     view, control
<1> QED
  BY <1>1, <1>2 DEF ProcessInv

-----------------------------------------------------------------------------
(***************************************************************************)
(* The inductive invariant: heartbeat, dispatcher and probe loop run only  *)
(* between their starts and their stops, the traces in Redis match that,   *)
(* and what a worker was told last is the test's state unless a broadcast  *)
(* missed it.                                                              *)
(***************************************************************************)
THEOREM ProcessInvariant == Spec => []ProcessInv
<1>1. ProcessInv /\ [Next]_vars => ProcessInv'
  BY OneWorkerKeeps, ReadingKeeps, BroadcastKeeps, TickKeeps, StutterKeeps DEF Next, Orchestrate
<1> QED
  BY <1>1, InitProcess, PTL DEF Spec

(***************************************************************************)
(* A worker that was asked to stop, and met no error while it stopped, is  *)
(* not registered, and its status is deleted unless a heartbeat that was   *)
(* cut off lands later: run_worker_async stops the heartbeat before it     *)
(* marks itself unhealthy and unregisters.                                 *)
(***************************************************************************)
THEOREM CleanExitLeavesNoTrace == Spec => []LeavesNothingBehind
<1>1. ProcessInv => LeavesNothingBehind
  BY DEF ProcessInv, WorkerOK, TasksOK, TraceOK, TypeOK, LeavesNothingBehind,
     NoTaskOutlivesItsStop
<1> QED
  BY <1>1, ProcessInvariant, PTL

(***************************************************************************)
(* A worker that has read its channel runs load exactly when a test runs,  *)
(* unless the last broadcast missed it; load without a test is left only   *)
(* on a worker whose heartbeat was late when stop_test listed the alive,   *)
(* or was overwritten by one that the process before it had sent.          *)
(***************************************************************************)
THEOREM WorkersFollowTheTest == Spec => []WorkersFollow
<1>1. ProcessInv => WorkersFollow
  BY DEF ProcessInv, WorkerOK, FollowOK, Told, WorkersFollow
<1> QED
  BY <1>1, ProcessInvariant, PTL

(***************************************************************************)
(* The probe loop reports at most one probe after a test has stopped: the  *)
(* one whose call was under way, since it looks at the phase before each.  *)
(***************************************************************************)
THEOREM ProbesFallSilent == Spec => []OneStray
<1>1. ProcessInv => OneStray
  <2>1. ASSUME ProcessInv, NEW w \in Worker PROVE stray[w] <= 1
    <3>1. stray[w] = 0 \/ stray[w] = 1
      BY <2>1 DEF ProcessInv, WorkerOK, StrayOK
    <3> QED
      BY <3>1
  <2> QED
    BY <2>1 DEF OneStray
<1> QED
  BY <1>1, ProcessInvariant, PTL
=============================================================================
