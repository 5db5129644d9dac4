------------------------------ MODULE Lifecycle ------------------------------
(***************************************************************************)
(* The orchestrator's LifecycleService and UserOrchestrationService: the   *)
(* handlers of start_test, change_users and stop_test.  The code holds no  *)
(* lock, so a handler is a process that other handlers may overtake at     *)
(* every await.  One action is the code from one await to the next.  A     *)
(* request that its first read refuses changes nothing: refusal is the     *)
(* absence of a step.                                                      *)
(*                                                                         *)
(* Nothing in this module reads commands, so a worker's channel is the     *)
(* log of everything delivered to it.                                      *)
(***************************************************************************)
EXTENDS RedisKeyspace, FiniteSetsExt

CONSTANTS
    Request,         \* request slots: as many requests are served concurrently
    TimelinePoints,  \* points a ramp-up is drawn with, 50 in the code
    MaxRequests,     \* bound: requests accepted in a behaviour
    Targets,         \* bound: the values of target_users asked for
    MaxFaults,       \* bound: Redis errors and orchestrator crashes
    MaxFlaps         \* bound: heartbeats going stale or fresh again

ASSUME LifecycleAssumption ==
    /\ Targets \subseteq 0 .. MaxUserId
    /\ MaxRequests \in Nat /\ MaxFaults \in Nat /\ MaxFlaps \in Nat

ASSUME TimelineAssumption == TimelinePoints \in Nat \ {0}

(***************************************************************************)
(* pc[r] names the await at which the handler of r is suspended.           *)
(***************************************************************************)
TryAwaits == {"prepare", "start_scan", "start_pub", "add_scan", "add_read",
              "add_write", "add_pub", "add_point", "add_check", "status_list",
              "status_write", "commit"}
StopAwaits == {"stop_cas", "stop_epoch", "stop_scan", "stop_pub",
               "clear_list", "clear", "stop_point", "set_idle"}
ChangeAwaits == {"change_epoch", "change_list", "rem_read", "rem_pub",
                 "rem_hget", "rem_write", "rem_point"}
Await == {"idle"} \union TryAwaits \union StopAwaits \union ChangeAwaits

Operation == {"none", "start", "change", "stop"}

VARIABLES
    pc,          \* where each request slot is suspended, "idle" when free
    op,          \* the handler that runs in the slot
    target,      \* target_users
    paced,       \* spawn_interval_ms > 0
    reqEpoch,    \* local epoch, 0 before it is known
    seen,        \* stop_test: the state read before the compare-and-set
    todo,        \* users still to process, or the users just listed
    recipients,  \* workers still to publish to, or the snapshot just taken
    index,       \* add_users: allocations processed
    added,       \* add_users: users added
    base,        \* add_users: initial_user_count
    found,       \* remove_users: the worker_id read last
    issued, faults, flaps   \* how much of each bound is used up

requestVars == <<pc, op, target, paced, reqEpoch, seen, todo, recipients,
                 index, added, base, found>>
boundVars   == <<issued, faults, flaps>>
vars        == <<redisVars, requestVars, boundVars>>

RequestTypeOK ==
    /\ pc \in [Request -> Await]
    /\ op \in [Request -> Operation]
    /\ target \in [Request -> 0 .. MaxUserId]
    /\ paced \in [Request -> BOOLEAN]
    /\ reqEpoch \in [Request -> Nat]
    /\ seen \in [Request -> TestState]
    /\ todo \in [Request -> SUBSET UserId]
    /\ recipients \in [Request -> SUBSET Worker]
    /\ index \in [Request -> Nat]
    /\ added \in [Request -> Nat]
    /\ base \in [Request -> Nat]
    /\ found \in [Request -> Worker \union {NoWorker}]

TypeOK == RedisTypeOK /\ RequestTypeOK /\ issued \in Nat /\ faults \in Nat /\ flaps \in Nat

RequestInit ==
    /\ pc = [r \in Request |-> "idle"]
    /\ op = [r \in Request |-> "none"]
    /\ target = [r \in Request |-> 0]
    /\ paced = [r \in Request |-> FALSE]
    /\ reqEpoch = [r \in Request |-> 0]
    /\ seen = [r \in Request |-> "IDLE"]
    /\ todo = [r \in Request |-> {}]
    /\ recipients = [r \in Request |-> {}]
    /\ index = [r \in Request |-> 0]
    /\ added = [r \in Request |-> 0]
    /\ base = [r \in Request |-> 0]
    /\ found = [r \in Request |-> NoWorker]
    /\ issued = 0 /\ faults = 0 /\ flaps = 0

\* Every worker has registered, beats and listens.
Init ==
    /\ RedisInit
    /\ workers = Worker
    /\ heartbeat = [w \in Worker |-> "healthy"]
    /\ subscribed = Worker
    /\ RequestInit

-----------------------------------------------------------------------------
\* Control: accept a request, move to the next await, return or raise.

Accept(r, handler, n, p, e, await) ==
    /\ pc[r] = "idle"
    /\ issued < MaxRequests
    /\ issued' = issued + 1
    /\ pc' = [pc EXCEPT ![r] = await]
    /\ op' = [op EXCEPT ![r] = handler]
    /\ target' = [target EXCEPT ![r] = n]
    /\ paced' = [paced EXCEPT ![r] = p]
    /\ reqEpoch' = [reqEpoch EXCEPT ![r] = e]
    /\ UNCHANGED <<todo, recipients, index, added, base, found, faults, flaps>>

\* Moves on and keeps the arguments of the request.
GoTo(r, await) ==
    /\ pc' = [pc EXCEPT ![r] = await]
    /\ UNCHANGED <<op, target, paced, boundVars>>

\* The handler returns or raises: its locals are gone.
Finish(r) ==
    /\ pc' = [pc EXCEPT ![r] = "idle"]
    /\ op' = [op EXCEPT ![r] = "none"]
    /\ target' = [target EXCEPT ![r] = 0]
    /\ paced' = [paced EXCEPT ![r] = FALSE]
    /\ reqEpoch' = [reqEpoch EXCEPT ![r] = 0]
    /\ seen' = [seen EXCEPT ![r] = "IDLE"]
    /\ todo' = [todo EXCEPT ![r] = {}]
    /\ recipients' = [recipients EXCEPT ![r] = {}]
    /\ index' = [index EXCEPT ![r] = 0]
    /\ added' = [added EXCEPT ![r] = 0]
    /\ base' = [base EXCEPT ![r] = 0]
    /\ found' = [found EXCEPT ![r] = NoWorker]
    /\ UNCHANGED <<issued, flaps>>

(***************************************************************************)
(* An exception at the await of r.  start_test answers it with a rollback; *)
(* the rollback swallows a failed broadcast; everything else propagates.   *)
(***************************************************************************)
Continues(r, await) ==
    /\ pc' = [pc EXCEPT ![r] = await]
    /\ UNCHANGED <<op, target, paced, reqEpoch, seen, todo, recipients, index,
                   added, base, found, issued, flaps>>

\* Mutant: a rollback whose broadcast fails does not clear the users.
RollbackSkipsClear(r) ==
    \/ /\ op[r] = "start" /\ pc[r] \in TryAwaits
       /\ Continues(r, "stop_scan")
    \/ /\ op[r] = "start" /\ pc[r] \in {"stop_scan", "stop_pub"}
       /\ Continues(r, "set_idle")
    \/ /\ op[r] # "start" \/ pc[r] \in {"clear_list", "clear", "set_idle"}
       /\ Finish(r)

Raise(r) ==
    \/ /\ op[r] = "start" /\ pc[r] \in TryAwaits
       /\ Continues(r, "stop_scan")
    \/ /\ op[r] = "start" /\ pc[r] \in {"stop_scan", "stop_pub"}
       /\ Continues(r, "clear_list")
    \/ /\ op[r] # "start" \/ pc[r] \in {"clear_list", "clear", "set_idle"}
       /\ Finish(r)

IsLowest(x, S)  == x \in S /\ \A y \in S : x <= y
IsHighest(x, S) == x \in S /\ \A y \in S : y <= x

-----------------------------------------------------------------------------
\* start_test

StartTest(r, n, p) ==
    /\ StartPreparingAndBumpEpoch
    /\ Accept(r, "start", n, p, testEpoch + 1, "prepare")
    /\ UNCHANGED <<seen, userSetKeys, activeUsers, timeline, presenceKeys, commands>>

\* The metrics hook, clear_users_timeline, prepare_for_start.
Prepare(r) ==
    /\ pc[r] = "prepare"
    /\ timeline' = 0
    /\ GoTo(r, "start_scan")
    /\ UNCHANGED <<reqEpoch, seen, todo, recipients, index, added, base, found,
                   stateKeys, userSetKeys, activeUsers, presenceKeys, commands>>

\* require_alive_workers of send_start_test.
ScanForStart(r) ==
    /\ pc[r] = "start_scan"
    /\ AliveWorkers # {}
    /\ recipients' = [recipients EXCEPT ![r] = AliveWorkers]
    /\ GoTo(r, "start_pub")
    /\ UNCHANGED <<reqEpoch, seen, todo, index, added, base, found, redisVars>>

NoAliveWorkers(r) ==
    /\ pc[r] \in {"start_scan", "add_scan"}
    /\ AliveWorkers = {}
    /\ Raise(r)
    /\ UNCHANGED <<faults, redisVars>>

\* Mutant: the loop returns after the first worker.
PublishOnce(r, await, type, next) ==
    /\ pc[r] = await
    /\ \E w \in recipients[r] :
        /\ IsLowest(w, recipients[r])
        /\ Publish(w, type, reqEpoch[r], NoUser)
        /\ recipients' = [recipients EXCEPT ![r] = @ \ {w}]
        /\ GoTo(r, next)
    /\ UNCHANGED <<reqEpoch, seen, todo, index, added, base, found,
                   stateKeys, userSetKeys, activeUsers, timeline, presenceKeys>>

\* _publish_to_workers, of send_start_test and of send_stop_test.
Broadcast(r, await, type, next) ==
    /\ pc[r] = await
    /\ \E w \in recipients[r] :
        /\ IsLowest(w, recipients[r])
        /\ Publish(w, type, reqEpoch[r], NoUser)
        /\ recipients' = [recipients EXCEPT ![r] = @ \ {w}]
        /\ GoTo(r, IF recipients[r] = {w} THEN next ELSE await)
    /\ UNCHANGED <<reqEpoch, seen, todo, index, added, base, found,
                   stateKeys, userSetKeys, activeUsers, timeline, presenceKeys>>

PublishStartTest(r) == Broadcast(r, "start_pub", "start_test", "add_scan")

-----------------------------------------------------------------------------
\* add_users, for start_test and for change_users

\* Mutant: range(target_users + 1).
UserIdsFromZero(n) == 0 .. n

\* The users of a new test.
StartUserIds(n) == 1 .. n

\* require_alive_workers of add_users: a second snapshot, taken later.
ScanForAdd(r) ==
    /\ pc[r] = "add_scan"
    /\ AliveWorkers # {}
    /\ recipients' = [recipients EXCEPT ![r] = AliveWorkers]
    /\ LET user_ids == IF op[r] = "start" THEN StartUserIds(target[r]) ELSE todo[r]
       IN  /\ todo' = [todo EXCEPT ![r] = user_ids]
           /\ GoTo(r, IF user_ids = {} THEN "status_list" ELSE "add_read")
    /\ UNCHANGED <<reqEpoch, seen, index, added, base, found, redisVars>>

\* Mutant: the index of the allocation is ignored.
FirstWorker(w, r) == IsLowest(w, recipients[r])

\* allocate_round_robin: the worker of the allocation number index[r].
IsAllocated(w, r) ==
    /\ w \in recipients[r]
    /\ Cardinality({ v \in recipients[r] : v < w })
         = index[r] % Cardinality(recipients[r])

\* get_user_assignment finds no hash.
AddAbsent(r) ==
    /\ pc[r] = "add_read"
    /\ \E u \in todo[r] : IsLowest(u, todo[r]) /\ u \notin userKeys
    /\ GoTo(r, "add_write")
    /\ UNCHANGED <<reqEpoch, seen, todo, recipients, index, added, base, found,
                   redisVars>>

\* The user has an assignment: continue, past the timeline, the sleep and the check.
SkipExisting(r) ==
    /\ pc[r] = "add_read"
    /\ \E u \in todo[r] :
        /\ IsLowest(u, todo[r])
        /\ u \in userKeys /\ userWorker[u] # NoWorker
        /\ todo' = [todo EXCEPT ![r] = @ \ {u}]
        /\ GoTo(r, IF todo[r] = {u} THEN "status_list" ELSE "add_read")
    /\ index' = [index EXCEPT ![r] = @ + 1]
    /\ UNCHANGED <<reqEpoch, seen, recipients, added, base, found, redisVars>>

\* The hash has no worker_id: UserAssignment.model_validate raises.
InvalidAssignment(r) ==
    /\ \/ /\ pc[r] = "add_read"
          /\ \E u \in todo[r] : IsLowest(u, todo[r]) /\ u \in userKeys
                                /\ userWorker[u] = NoWorker
       \/ /\ pc[r] = "rem_read"
          /\ \E u \in todo[r] : IsHighest(u, todo[r]) /\ u \in userKeys
                                /\ userWorker[u] = NoWorker
    /\ Raise(r)
    /\ UNCHANGED <<faults, redisVars>>

AddWrite(r) ==
    /\ pc[r] = "add_write"
    /\ \E u \in todo[r], w \in recipients[r] :
        IsLowest(u, todo[r]) /\ IsAllocated(w, r) /\ AddUserAssignment(u, w)
    /\ GoTo(r, "add_pub")
    /\ UNCHANGED <<reqEpoch, seen, todo, recipients, index, added, base, found,
                   stateKeys, activeUsers, timeline, presenceKeys, commands>>

\* max(1, total // 50)
TimelineEvery(total) == Max({1, total \div TimelinePoints})

\* The allocation is done: sleep, or take the next one, or return.
NextAllocation(r, u) ==
    /\ todo' = [todo EXCEPT ![r] = @ \ {u}]
    /\ index' = [index EXCEPT ![r] = @ + 1]
    /\ GoTo(r, IF todo[r] = {u} THEN "status_list"
               ELSE IF paced[r] THEN "add_check" ELSE "add_read")

\* Mutant: is_last is forgotten, the ramp-up may end between two points.
PointDueByCount(r, u, count) ==
    LET total == index[r] + Cardinality(todo[r])
    IN  count % TimelineEvery(total) = 0

\* A timeline event is due after the user that makes added this large.
PointDue(r, u, count) ==
    LET total == index[r] + Cardinality(todo[r])
    IN  todo[r] = {u} \/ count % TimelineEvery(total) = 0

AddPublish(r) ==
    /\ pc[r] = "add_pub"
    /\ \E u \in todo[r], w \in recipients[r] :
        /\ IsLowest(u, todo[r]) /\ IsAllocated(w, r)
        /\ Publish(w, "add_user", reqEpoch[r], u)
        /\ IF PointDue(r, u, added[r] + 1)
           THEN GoTo(r, "add_point") /\ UNCHANGED <<todo, index>>
           ELSE NextAllocation(r, u)
    /\ added' = [added EXCEPT ![r] = @ + 1]
    /\ UNCHANGED <<reqEpoch, seen, recipients, base, found,
                   stateKeys, userSetKeys, activeUsers, timeline, presenceKeys>>

PointCount(r) == base[r] + added[r]

AddPoint(r) ==
    /\ pc[r] = "add_point"
    /\ AppendTimeline(PointCount(r))
    /\ \E u \in todo[r] : IsLowest(u, todo[r]) /\ NextAllocation(r, u)
    /\ UNCHANGED <<reqEpoch, seen, recipients, added, base, found,
                   stateKeys, userSetKeys, activeUsers, presenceKeys, commands>>

ExpectedState(r) == IF op[r] = "start" THEN "PREPARING" ELSE "RUNNING"

\* After the sleep: the test is still in the state the ramp-up belongs to.
AddCheck(r) ==
    /\ pc[r] = "add_check"
    /\ testState = ExpectedState(r)
    /\ GoTo(r, "add_read")
    /\ UNCHANGED <<reqEpoch, seen, todo, recipients, index, added, base, found,
                   redisVars>>

AddAborted(r) ==
    /\ pc[r] = "add_check"
    /\ testState # ExpectedState(r)
    /\ Finish(r)
    /\ UNCHANGED <<faults, redisVars>>

-----------------------------------------------------------------------------
\* The end of start_test and of a growing change_users

\* list_users of set_all_users_status.
ListForStatus(r) ==
    /\ pc[r] = "status_list"
    /\ \/ /\ users # {} \/ op[r] = "start"
          /\ todo' = [todo EXCEPT ![r] = users]
          /\ GoTo(r, IF users = {} THEN "commit" ELSE "status_write")
          /\ UNCHANGED <<reqEpoch, seen, recipients, index, added, base, found>>
       \/ /\ users = {} /\ op[r] # "start"
          /\ Finish(r)
          /\ UNCHANGED faults
    /\ UNCHANGED redisVars

WriteStatus(r) ==
    /\ pc[r] = "status_write"
    /\ SetAllUsersStatus(todo[r])
    /\ \/ /\ op[r] = "start"
          /\ GoTo(r, "commit")
          /\ UNCHANGED <<reqEpoch, seen, todo, recipients, index, added, base, found>>
       \/ /\ op[r] # "start"
          /\ Finish(r)
          /\ UNCHANGED faults
    /\ UNCHANGED <<stateKeys, activeUsers, timeline, presenceKeys, commands>>

Commit(r) ==
    /\ pc[r] = "commit"
    /\ CompareAndSetState("PREPARING", "RUNNING")
    /\ Finish(r)
    /\ UNCHANGED <<faults, userSetKeys, activeUsers, timeline, presenceKeys, commands>>

-----------------------------------------------------------------------------
\* stop_test, and the rollback of start_test from "stop_scan" on

StopTest(r) ==
    /\ testState \in {"PREPARING", "RUNNING"}
    /\ Accept(r, "stop", 0, FALSE, 0, "stop_cas")
    /\ seen' = [seen EXCEPT ![r] = testState]
    /\ UNCHANGED redisVars

StopCas(r) ==
    /\ pc[r] = "stop_cas"
    /\ CompareAndSetState(seen[r], "STOPPING")
    /\ \/ /\ testState = seen[r]
          /\ GoTo(r, "stop_epoch")
          /\ UNCHANGED <<reqEpoch, seen, todo, recipients, index, added, base, found>>
       \/ /\ testState # seen[r]
          /\ Finish(r)
          /\ UNCHANGED faults
    /\ UNCHANGED <<userSetKeys, activeUsers, timeline, presenceKeys, commands>>

\* get_epoch, of stop_test and of change_users.
ReadEpoch(r) ==
    /\ \/ pc[r] = "stop_epoch" /\ GoTo(r, "stop_scan")
       \/ pc[r] = "change_epoch" /\ GoTo(r, "change_list")
    /\ reqEpoch' = [reqEpoch EXCEPT ![r] = testEpoch]
    /\ UNCHANGED <<seen, todo, recipients, index, added, base, found, redisVars>>

\* list_alive_workers of send_stop_test: an empty snapshot is no error here.
ScanForStop(r) ==
    /\ pc[r] = "stop_scan"
    /\ recipients' = [recipients EXCEPT ![r] = AliveWorkers]
    /\ GoTo(r, IF AliveWorkers = {} THEN "clear_list" ELSE "stop_pub")
    /\ UNCHANGED <<reqEpoch, seen, todo, index, added, base, found, redisVars>>

\* Mutant: only the first worker is told to stop.
StopsFirstWorker(r) == PublishOnce(r, "stop_pub", "stop_test", "clear_list")

PublishStopTest(r) == Broadcast(r, "stop_pub", "stop_test", "clear_list")

\* list_users and list_workers of clear_users_data.
ListForClear(r) ==
    /\ pc[r] = "clear_list"
    /\ todo' = [todo EXCEPT ![r] = users]
    /\ recipients' = [recipients EXCEPT ![r] = workers]
    /\ GoTo(r, "clear")
    /\ UNCHANGED <<reqEpoch, seen, index, added, base, found, redisVars>>

Clear(r) ==
    /\ pc[r] = "clear"
    /\ ClearUsersData(todo[r], recipients[r])
    /\ GoTo(r, IF op[r] = "stop" THEN "stop_point" ELSE "set_idle")
    /\ UNCHANGED <<reqEpoch, seen, todo, recipients, index, added, base, found,
                   stateKeys, timeline, presenceKeys, commands>>

StopPoint(r) ==
    /\ pc[r] = "stop_point"
    /\ AppendTimeline(0)
    /\ GoTo(r, "set_idle")
    /\ UNCHANGED <<reqEpoch, seen, todo, recipients, index, added, base, found,
                   stateKeys, userSetKeys, activeUsers, presenceKeys, commands>>

\* set_state, whatever the state is by now.
SetIdle(r) ==
    /\ pc[r] = "set_idle"
    /\ SetState("IDLE")
    /\ Finish(r)
    /\ UNCHANGED <<faults, userSetKeys, activeUsers, timeline, presenceKeys, commands>>

-----------------------------------------------------------------------------
\* change_users

ChangeUsers(r, n, p) ==
    /\ testState = "RUNNING"
    /\ Accept(r, "change", n, p, 0, "change_epoch")
    /\ UNCHANGED <<seen, redisVars>>

NewUserIds(existing, count) ==
    LET max_user_id == Max(existing \union {0})
    IN  max_user_id + 1 .. max_user_id + count

\* Mutant: the lowest ids go first.
LowestForRemoval(existing, count) ==
    { u \in existing : Cardinality({ v \in existing : v < u }) < count }

UsersForRemoval(existing, count) ==
    { u \in existing : Cardinality({ v \in existing : u < v }) < count }

\* list_users finds the population asked for already.
ChangeNothing(r) ==
    /\ pc[r] = "change_list"
    /\ target[r] = Cardinality(users)
    /\ Finish(r)
    /\ UNCHANGED <<faults, redisVars>>

\* MaxUserId bounds the ids handed out.
ChangeUp(r) ==
    /\ pc[r] = "change_list"
    /\ target[r] > Cardinality(users)
    /\ LET new == NewUserIds(users, target[r] - Cardinality(users))
       IN  /\ new \subseteq UserId
           /\ todo' = [todo EXCEPT ![r] = new]
    /\ base' = [base EXCEPT ![r] = Cardinality(users)]
    /\ GoTo(r, "add_scan")
    /\ UNCHANGED <<reqEpoch, seen, recipients, index, added, found, redisVars>>

ChangeDown(r) ==
    /\ pc[r] = "change_list"
    /\ target[r] < Cardinality(users)
    /\ todo' = [todo EXCEPT ![r] =
                  UsersForRemoval(users, Cardinality(users) - target[r])]
    /\ GoTo(r, "rem_read")
    /\ UNCHANGED <<reqEpoch, seen, recipients, index, added, base, found, redisVars>>

NextRemoval(r, u) == IF todo[r] = {u} THEN "rem_point" ELSE "rem_read"

\* get_user_assignment of remove_users finds no hash.
SkipMissing(r) ==
    /\ pc[r] = "rem_read"
    /\ \E u \in todo[r] :
        /\ IsHighest(u, todo[r]) /\ u \notin userKeys
        /\ todo' = [todo EXCEPT ![r] = @ \ {u}]
        /\ GoTo(r, NextRemoval(r, u))
    /\ UNCHANGED <<reqEpoch, seen, recipients, index, added, base, found, redisVars>>

RemoveFound(r) ==
    /\ pc[r] = "rem_read"
    /\ \E u \in todo[r] :
        /\ IsHighest(u, todo[r]) /\ u \in userKeys /\ userWorker[u] # NoWorker
        /\ found' = [found EXCEPT ![r] = userWorker[u]]
    /\ GoTo(r, "rem_pub")
    /\ UNCHANGED <<reqEpoch, seen, todo, recipients, index, added, base, redisVars>>

PublishRemove(r) ==
    /\ pc[r] = "rem_pub"
    /\ \E u \in todo[r] :
        IsHighest(u, todo[r]) /\ Publish(found[r], "remove_user", reqEpoch[r], u)
    /\ GoTo(r, "rem_hget")
    /\ UNCHANGED <<reqEpoch, seen, todo, recipients, index, added, base, found,
                   stateKeys, userSetKeys, activeUsers, timeline, presenceKeys>>

\* remove_user_assignment reads worker_id again.
RemoveRead(r) ==
    /\ pc[r] = "rem_hget"
    /\ \E u \in todo[r] :
        /\ IsHighest(u, todo[r])
        /\ found' = [found EXCEPT ![r] = userWorker[u]]
    /\ GoTo(r, "rem_write")
    /\ UNCHANGED <<reqEpoch, seen, todo, recipients, index, added, base, redisVars>>

RemoveWrite(r) ==
    /\ pc[r] = "rem_write"
    /\ \E u \in todo[r] :
        /\ IsHighest(u, todo[r])
        /\ RemoveUserAssignment(u, found[r])
        /\ todo' = [todo EXCEPT ![r] = @ \ {u}]
        /\ GoTo(r, NextRemoval(r, u))
    /\ UNCHANGED <<reqEpoch, seen, recipients, index, added, base, found,
                   stateKeys, activeUsers, timeline, presenceKeys, commands>>

RemovePoint(r) ==
    /\ pc[r] = "rem_point"
    /\ AppendTimeline(target[r])
    /\ Finish(r)
    /\ UNCHANGED <<faults, stateKeys, userSetKeys, activeUsers, presenceKeys, commands>>

-----------------------------------------------------------------------------
\* What the handlers do not control

(***************************************************************************)
(* A Redis call of r fails.  A call that was applied and whose answer is   *)
(* lost is the call followed by a failure at the next await; the last call *)
(* of a handler has none, and two of them make a difference.               *)
(***************************************************************************)
RedisError(r) ==
    /\ pc[r] # "idle"
    /\ faults < MaxFaults
    /\ faults' = faults + 1
    /\ Raise(r)
    /\ UNCHANGED redisVars

\* The answer to the preparing script is lost, outside the try of start_test.
ClaimAnswerLost(r) ==
    /\ pc[r] = "prepare"
    /\ faults < MaxFaults
    /\ faults' = faults + 1
    /\ Finish(r)
    /\ UNCHANGED redisVars

\* The answer to the committing script is lost: start_test rolls a running test back.
CommitAnswerLost(r) ==
    /\ pc[r] = "commit"
    /\ faults < MaxFaults
    /\ faults' = faults + 1
    /\ CompareAndSetState("PREPARING", "RUNNING")
    /\ Continues(r, "stop_scan")
    /\ UNCHANGED <<userSetKeys, activeUsers, timeline, presenceKeys, commands>>

\* Every handler vanishes; startup only sets keys that are missing.
OrchestratorCrash ==
    /\ faults < MaxFaults
    /\ faults' = faults + 1
    /\ \E r \in Request : pc[r] # "idle"
    /\ pc' = [r \in Request |-> "idle"]
    /\ op' = [r \in Request |-> "none"]
    /\ target' = [r \in Request |-> 0]
    /\ paced' = [r \in Request |-> FALSE]
    /\ reqEpoch' = [r \in Request |-> 0]
    /\ seen' = [r \in Request |-> "IDLE"]
    /\ todo' = [r \in Request |-> {}]
    /\ recipients' = [r \in Request |-> {}]
    /\ index' = [r \in Request |-> 0]
    /\ added' = [r \in Request |-> 0]
    /\ base' = [r \in Request |-> 0]
    /\ found' = [r \in Request |-> NoWorker]
    /\ UNCHANGED <<issued, flaps, redisVars>>

\* A heartbeat is late by more than the timeout, or arrives again.
Flap(w) ==
    /\ flaps < MaxFlaps
    /\ flaps' = flaps + 1
    /\ heartbeat[w] \in {"healthy", "stale"}
    /\ heartbeat' = [heartbeat EXCEPT ![w] =
                       IF @ = "healthy" THEN "stale" ELSE "healthy"]
    /\ UNCHANGED <<requestVars, issued, faults, stateKeys, userSetKeys, activeUsers,
                   timeline, workers, subscribed, commands>>

-----------------------------------------------------------------------------
Submit(r) ==
    \/ \E n \in Targets, p \in BOOLEAN : StartTest(r, n, p) \/ ChangeUsers(r, n, p)
    \/ StopTest(r)

AddUsersStep(r) ==
    \/ ScanForAdd(r) \/ AddAbsent(r) \/ SkipExisting(r) \/ InvalidAssignment(r)
    \/ AddWrite(r) \/ AddPublish(r) \/ AddPoint(r) \/ AddCheck(r) \/ AddAborted(r)

StartStep(r) ==
    \/ Prepare(r) \/ ScanForStart(r) \/ NoAliveWorkers(r) \/ PublishStartTest(r)
    \/ ListForStatus(r) \/ WriteStatus(r) \/ Commit(r)

StopStep(r) ==
    \/ StopCas(r) \/ ReadEpoch(r) \/ ScanForStop(r) \/ PublishStopTest(r)
    \/ ListForClear(r) \/ Clear(r) \/ StopPoint(r) \/ SetIdle(r)

ChangeStep(r) ==
    \/ ChangeNothing(r) \/ ChangeUp(r) \/ ChangeDown(r) \/ SkipMissing(r)
    \/ RemoveFound(r) \/ PublishRemove(r) \/ RemoveRead(r) \/ RemoveWrite(r)
    \/ RemovePoint(r)

\* What the event loop runs once the awaited answer is there.
Handle(r) == AddUsersStep(r) \/ StartStep(r) \/ StopStep(r) \/ ChangeStep(r)

Fault ==
    \/ \E r \in Request : RedisError(r) \/ ClaimAnswerLost(r) \/ CommitAnswerLost(r)
    \/ OrchestratorCrash

AtRest == \A r \in Request : pc[r] = "idle"

\* Nobody asks for anything: only a handler that cannot go on is a deadlock.
Rest == AtRest /\ UNCHANGED vars

OrchestratorNext == (\E r \in Request : Submit(r) \/ Handle(r)) \/ Fault

Next == OrchestratorNext \/ (\E w \in Worker : Flap(w)) \/ Rest

Spec == Init /\ [][Next]_vars

(***************************************************************************)
(* redis-py awaits every answer and asyncio resumes every ready coroutine: *)
(* a handler that can go on does.  Nothing makes a client send a request.  *)
(***************************************************************************)
Fairness == \A r \in Request : WF_vars(Handle(r))

FairSpec == Spec /\ Fairness

-----------------------------------------------------------------------------
\* Properties that any number of concurrent requests keep

(***************************************************************************)
(* Every member of SET users has a complete hash, and the set of the       *)
(* worker that hash names lists the user: add, remove, clear and the       *)
(* status refresh of concurrent handlers never leave a member that cannot  *)
(* be read or that its worker's index misses.                              *)
(***************************************************************************)
MembersAreAssigned ==
    \A u \in users : /\ u \in userKeys
                     /\ userWorker[u] # NoWorker
                     /\ u \in workerUsers[userWorker[u]]

(***************************************************************************)
(* The epoch fence: no handler and no delivered command is ahead of        *)
(* test:epoch, and no two start handlers share an epoch, so a worker that  *)
(* compares epochs can tell every run from the runs before it.             *)
(***************************************************************************)
RequestsBehind == \A r \in Request : reqEpoch[r] <= testEpoch

CommandsBehind ==
    \A w \in Worker : \A i \in 1 .. Len(commands[w]) : commands[w][i].epoch <= testEpoch

StartsApart ==
    \A r, s \in Request :
        r # s /\ op[r] = "start" /\ op[s] = "start" => reqEpoch[r] # reqEpoch[s]

EpochFence == RequestsBehind /\ CommandsBehind /\ StartsApart

(***************************************************************************)
(* Whatever handlers and faults overlap, RUNNING is entered only from      *)
(* PREPARING, PREPARING only from IDLE and with the next epoch, STOPPING   *)
(* only from PREPARING or RUNNING, and the epoch moves at no other time.   *)
(***************************************************************************)
LifecycleEdge ==
    /\ testState' # testState =>
          CASE testState' = "PREPARING" -> testState = "IDLE"
            [] testState' = "RUNNING"   -> testState = "PREPARING"
            [] testState' = "STOPPING"  -> testState \in {"PREPARING", "RUNNING"}
            [] OTHER -> TRUE
    /\ testEpoch' = IF testState' = "PREPARING" /\ testState # "PREPARING"
                    THEN testEpoch + 1 ELSE testEpoch
LifecycleEdges == [][LifecycleEdge]_vars

(***************************************************************************)
(* As long as Redis and the orchestrator stay up, PREPARING and STOPPING   *)
(* do not last: start_test commits, rolls back or is overtaken by a stop,  *)
(* and a stop reaches IDLE.                                                *)
(***************************************************************************)
Transient == testState \in {"PREPARING", "STOPPING"}
TransientStatesEnd == Transient ~> ~Transient \/ faults > 0

-----------------------------------------------------------------------------
\* Properties of a client that sends one request at a time (one slot)

(***************************************************************************)
(* User hashes and members agree at every step, through errors, rollbacks  *)
(* and restarts, and the ids in use are always 1 .. n: growing and         *)
(* shrinking never leave a hole or hand out an id that is taken.           *)
(***************************************************************************)
ContiguousUsers == userKeys = users /\ users = 1 .. Cardinality(users)

(***************************************************************************)
(* What a worker hears of a run makes sense in the order in which it hears *)
(* it.  After stop_test nothing of that run or an earlier one is           *)
(* delivered, except a repeated stop_test: a stopped worker is not set to  *)
(* work again.  (Only when the rollback of a committed start fails in its  *)
(* turn does change_users go on with a test after its stop_test: that      *)
(* takes two faults, and a start_test is not among what follows.)  And as  *)
(* long as no heartbeat is late, start_test comes before the users of the  *)
(* run.  (With a late one start_test and add_user may see different        *)
(* workers.)                                                               *)
(***************************************************************************)
NothingAfterStop ==
    \A w \in Worker : \A i, j \in 1 .. Len(commands[w]) :
        /\ i < j /\ commands[w][i].type = "stop_test"
        /\ commands[w][j].epoch <= commands[w][i].epoch
        => /\ commands[w][j].type # "start_test"
           /\ faults < 2 => commands[w][j].type = "stop_test"

StartBeforeAdd ==
    flaps = 0 => \A w \in Worker : \A j \in 1 .. Len(commands[w]) :
        commands[w][j].type = "add_user" =>
            \E i \in 1 .. j - 1 : /\ commands[w][i].type = "start_test"
                                 /\ commands[w][i].epoch = commands[w][j].epoch

CommandsInOrder == NothingAfterStop /\ StartBeforeAdd

(***************************************************************************)
(* Between requests none of which failed, what worker w was told about the *)
(* users of this run (last command per user) is what Redis says is         *)
(* assigned to w.                                                          *)
(***************************************************************************)
ToldUsers(w) ==
    { u \in UserId : \E i \in 1 .. Len(commands[w]) :
        /\ commands[w][i] = [type |-> "add_user", epoch |-> testEpoch, user |-> u]
        /\ \A j \in i + 1 .. Len(commands[w]) : commands[w][j].user # u }

DeliveredMatchesAssigned ==
    AtRest /\ faults = 0 /\ testState = "RUNNING" =>
        \A w \in Worker : /\ ToldUsers(w) = workerUsers[w]
                          /\ workerUsers[w] = { u \in users : userWorker[u] = w }

(***************************************************************************)
(* Between requests none of which failed the last timeline point is the    *)
(* population, however many users go by between two points of a ramp-up:   *)
(* growing ends with a point of all users, the first ones included.        *)
(***************************************************************************)
TimelineMatchesUsers ==
    AtRest /\ faults = 0 => timeline = Cardinality(users)

\* A test is committed with its users spread evenly over the workers it saw.
BalancedStart ==
    \A r \in Request : pc[r] = "commit" =>
        \A v, w \in recipients[r] :
            Cardinality(workerUsers[v]) <= Cardinality(workerUsers[w]) + 1

\* A start that takes its test back.
RollsBack(r) == op[r] = "start" /\ pc[r] \in StopAwaits

Documented == INSTANCE TestLifecycle WITH
    state <- testState, epoch <- testEpoch, population <- Cardinality(users),
    failed <- \E r \in Request : RollsBack(r)

(***************************************************************************)
(* With one request at a time the handlers implement the lifecycle of the  *)
(* documentation: every step of theirs is one of its steps or changes      *)
(* nothing it speaks of, errors, rollbacks and restarts included.          *)
(***************************************************************************)
ImplementsLifecycle == Documented!Spec
=============================================================================
