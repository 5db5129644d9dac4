---------------------------- MODULE RedisKeyspace ----------------------------
(***************************************************************************)
(* The part of the Redis keyspace through which the orchestrator and the   *)
(* workers coordinate, and the repository operations that change it.  An   *)
(* operation below is what Redis executes atomically: one command, one Lua *)
(* script or one MULTI/EXEC pipeline.  Repository methods that issue       *)
(* several commands are split by the callers, one action per command, so   *)
(* that another client can run in between.                                 *)
(***************************************************************************)
EXTENDS Naturals, Sequences, FiniteSets

CONSTANTS
    Worker,      \* worker ids; numbers stand for the sorted order of the ids
    MaxUserId    \* user ids handed out are 1, 2, ..., MaxUserId

ASSUME WorkerAssumption ==
    /\ Worker \subseteq Nat \ {0}
    /\ IsFiniteSet(Worker)

ASSUME MaxUserIdAssumption == MaxUserId \in Nat

UserId == 1 .. MaxUserId

NoWorker == 0    \* the worker_id field of a user hash is missing
NoUser   == 0    \* commands without a user payload

TestState   == {"IDLE", "PREPARING", "RUNNING", "STOPPING"}
CommandType == {"start_test", "stop_test", "add_user", "remove_user"}

\* init_params, command_id and sent_at are data no modelled decision reads.
Command == [type : CommandType, epoch : Nat, user : UserId \union {NoUser}]

(***************************************************************************)
(* "healthy" is a status hash with status=healthy and a heartbeat not      *)
(* older than heartbeat_timeout_s; "stale" one whose heartbeat is older;   *)
(* "none" no hash at all.                                                  *)
(***************************************************************************)
Heartbeat == {"none", "healthy", "stale", "unhealthy"}

VARIABLES
    testState,     \* test:state
    testEpoch,     \* test:epoch
    users,         \* SET users
    userKeys,      \* the u for which a hash user:{u} exists
    userWorker,    \* field worker_id of user:{u}, NoWorker when it is missing
    workerUsers,   \* SET worker:{w}:users
    activeUsers,   \* SET worker:{w}:active_users
    timeline,      \* users_count of the last users:timeline event, 0 if none
    workers,       \* SET workers: the registered workers
    heartbeat,     \* worker:{w}:status
    subscribed,    \* workers whose subscription to worker:{w}:commands is live
    commands       \* messages delivered to w's subscription, in their order

stateKeys    == <<testState, testEpoch>>
userSetKeys  == <<users, userKeys, userWorker, workerUsers>>
presenceKeys == <<workers, heartbeat, subscribed>>
redisVars    == <<stateKeys, userSetKeys, activeUsers, timeline, presenceKeys,
                  commands>>

RedisTypeOK ==
    /\ testState \in TestState
    /\ testEpoch \in Nat
    /\ users \subseteq UserId
    /\ userKeys \subseteq UserId
    /\ userWorker \in [UserId -> Worker \union {NoWorker}]
    /\ workerUsers \in [Worker -> SUBSET UserId]
    /\ activeUsers \in [Worker -> SUBSET UserId]
    /\ timeline \in Nat
    /\ workers \subseteq Worker
    /\ heartbeat \in [Worker -> Heartbeat]
    /\ subscribed \subseteq Worker
    /\ commands \in [Worker -> Seq(Command)]

\* initialize_defaults on an empty database; no worker has registered yet.
RedisInit ==
    /\ testState = "IDLE"
    /\ testEpoch = 0
    /\ users = {}
    /\ userKeys = {}
    /\ userWorker = [u \in UserId |-> NoWorker]
    /\ workerUsers = [w \in Worker |-> {}]
    /\ activeUsers = [w \in Worker |-> {}]
    /\ timeline = 0
    /\ commands = [w \in Worker |-> <<>>]

-----------------------------------------------------------------------------
(***************************************************************************)
(* WorkerPresenceService.list_alive_workers: registered, healthy, fresh.   *)
(***************************************************************************)
AliveWorkers == { w \in workers : heartbeat[w] = "healthy" }

\* Mutant: the script forgets to INCR test:epoch.
PreparingKeepsEpoch ==
    /\ testState = "IDLE"
    /\ testState' = "PREPARING"
    /\ UNCHANGED testEpoch

\* _START_PREPARING_WITH_EPOCH_SCRIPT, the branch that finds IDLE.
StartPreparingAndBumpEpoch ==
    /\ testState = "IDLE"
    /\ testState' = "PREPARING"
    /\ testEpoch' = testEpoch + 1

\* Mutant: the script does not compare.
SetRegardless(expected, new) ==
    /\ testState' = new
    /\ UNCHANGED testEpoch

\* _CAS_STATE_SCRIPT: sets the state only if it is still the expected one.
CompareAndSetState(expected, new) ==
    /\ testState' = IF testState = expected THEN new ELSE testState
    /\ UNCHANGED testEpoch

\* Mutant: the unconditional SET is made a compare-and-set from STOPPING.
SetStateWhenStopping(new) ==
    /\ testState' = IF testState = "STOPPING" THEN new ELSE testState
    /\ UNCHANGED testEpoch

SetState(new) ==
    /\ testState' = new
    /\ UNCHANGED testEpoch

\* Pipeline of add_user_assignment: SADD users, HSET user:{u}, SADD worker:{w}:users.
AddUserAssignment(u, w) ==
    /\ users' = users \union {u}
    /\ userKeys' = userKeys \union {u}
    /\ userWorker' = [userWorker EXCEPT ![u] = w]
    /\ workerUsers' = [workerUsers EXCEPT ![w] = @ \union {u}]

\* Mutant: the index of the worker is not updated.
RemoveKeepsWorkerUsers(u, w) ==
    /\ users' = users \ {u}
    /\ userKeys' = userKeys \ {u}
    /\ userWorker' = [userWorker EXCEPT ![u] = NoWorker]
    /\ UNCHANGED workerUsers

\* Pipeline of remove_user_assignment; w is the worker_id read just before it.
RemoveUserAssignment(u, w) ==
    /\ users' = users \ {u}
    /\ userKeys' = userKeys \ {u}
    /\ userWorker' = [userWorker EXCEPT ![u] = NoWorker]
    /\ workerUsers' = [v \in Worker |-> IF v = w THEN workerUsers[v] \ {u}
                                                 ELSE workerUsers[v]]

\* Mutant: SREM of the users listed instead of DEL of the set.
ClearListedMembers(us, ws) ==
    /\ users' = users \ us
    /\ userKeys' = userKeys \ us
    /\ userWorker' = [u \in UserId |-> IF u \in us THEN NoWorker ELSE userWorker[u]]
    /\ workerUsers' = [w \in Worker |-> IF w \in ws THEN {} ELSE workerUsers[w]]
    /\ activeUsers' = [w \in Worker |-> IF w \in ws THEN {} ELSE activeUsers[w]]

\* Pipeline of clear_users_data over the users us and workers ws listed before it.
ClearUsersData(us, ws) ==
    /\ users' = {}
    /\ userKeys' = userKeys \ us
    /\ userWorker' = [u \in UserId |-> IF u \in us THEN NoWorker ELSE userWorker[u]]
    /\ workerUsers' = [w \in Worker |-> IF w \in ws THEN {} ELSE workerUsers[w]]
    /\ activeUsers' = [w \in Worker |-> IF w \in ws THEN {} ELSE activeUsers[w]]

(***************************************************************************)
(* Pipeline of set_all_users_status over the users us listed before it.    *)
(* HSET creates the hash when it is gone, without a worker_id.             *)
(***************************************************************************)
SetAllUsersStatus(us) ==
    /\ userKeys' = userKeys \union us
    /\ UNCHANGED <<users, userWorker, workerUsers>>

\* XADD users:timeline; only the last point is kept.
AppendTimeline(count) == timeline' = count

\* PUBLISH worker:{w}:commands: no subscriber, no delivery, no trace.
Publish(w, type, epoch, user) ==
    commands' = IF w \in subscribed
                THEN [commands EXCEPT ![w] =
                        Append(@, [type |-> type, epoch |-> epoch, user |-> user])]
                ELSE commands
=============================================================================
