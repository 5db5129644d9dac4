-------------------------- MODULE LifecycleSafety --------------------------
(***************************************************************************)
(* What holds of the lifecycle handlers for any set of workers, any number *)
(* of concurrent requests, and any number of errors, crashes and flaps:    *)
(* that the state is well-typed, and the safety properties that hold       *)
(* whatever requests overlap, the epoch fence, the edges of the lifecycle, *)
(* and the agreement of the keys of an assignment.                         *)
(***************************************************************************)
EXTENDS Lifecycle, FiniteSetTheorems, TLAPS

USE LifecycleAssumption, WorkerAssumption, MaxUserIdAssumption
USE DEF UserId, NoUser, NoWorker

-----------------------------------------------------------------------------
\* Publishing keeps every channel a sequence of commands.
LEMMA PublishType ==
    ASSUME RedisTypeOK, NEW w \in Worker, NEW type \in CommandType, NEW e \in Nat,
           NEW u \in UserId \union {NoUser}, Publish(w, type, e, u)
    PROVE  commands' \in [Worker -> Seq(Command)]
<1> DEFINE msg == [type |-> type, epoch |-> e, user |-> u]
<1>1. msg \in Command
  BY DEF Command
<1>2. commands \in [Worker -> Seq(Command)]
  BY DEF RedisTypeOK
<1>3. Append(commands[w], msg) \in Seq(Command)
  BY <1>1, <1>2
<1>4. commands' = IF w \in subscribed THEN [commands EXCEPT ![w] = Append(@, msg)]
                                      ELSE commands
  BY DEF Publish
<1> QED
  BY <1>2, <1>3, <1>4

LEMMA FinishType ==
    ASSUME RequestTypeOK, NEW r \in Request, Finish(r)
    PROVE  RequestTypeOK'
  BY DEF Finish, RequestTypeOK, Await, Operation, TestState

LEMMA GoToType ==
    ASSUME RequestTypeOK, NEW r \in Request, NEW a \in Await, GoTo(r, a)
    PROVE  /\ pc' \in [Request -> Await]
           /\ op' \in [Request -> Operation]
           /\ target' \in [Request -> 0 .. MaxUserId]
           /\ paced' \in [Request -> BOOLEAN]
  BY DEF GoTo, RequestTypeOK

LEMMA AcceptType ==
    ASSUME RequestTypeOK, NEW r \in Request, NEW h \in Operation, NEW n \in 0 .. MaxUserId,
           NEW p \in BOOLEAN, NEW e \in Nat, NEW a \in Await, Accept(r, h, n, p, e, a),
           seen' \in [Request -> TestState]
    PROVE  RequestTypeOK'
  BY DEF Accept, RequestTypeOK

LEMMA RaiseType ==
    ASSUME RequestTypeOK, NEW r \in Request, Raise(r)
    PROVE  RequestTypeOK'
  BY FinishType DEF Raise, Continues, RequestTypeOK, Await, StopAwaits

\* Broadcasting a command of the request keeps the types.
LEMMA BroadcastType ==
    ASSUME TypeOK, NEW r \in Request, NEW a \in Await, NEW next \in Await,
           NEW type \in CommandType, Broadcast(r, a, type, next)
    PROVE  TypeOK'
<1>1. PICK w \in recipients[r] :
        /\ Publish(w, type, reqEpoch[r], NoUser)
        /\ recipients' = [recipients EXCEPT ![r] = @ \ {w}]
        /\ GoTo(r, IF recipients[r] = {w} THEN next ELSE a)
  BY DEF Broadcast
<1>2. commands' \in [Worker -> Seq(Command)]
  BY <1>1, PublishType DEF TypeOK, RequestTypeOK
<1> QED
  BY <1>1, <1>2 DEF Broadcast, GoTo, TypeOK, RedisTypeOK, RequestTypeOK, boundVars,
     stateKeys, userSetKeys, presenceKeys

\* The sets the handlers count are finite.
LEMMA UsersFinite ==
    ASSUME NEW S \in SUBSET UserId
    PROVE  IsFiniteSet(S) /\ Cardinality(S) \in Nat
<1>1. IsFiniteSet(1 .. MaxUserId)
  BY FS_Interval
<1> QED
  BY <1>1, FS_Subset, FS_CardinalityType

\* What changes no Redis key keeps the types of the keyspace.
LEMMA RedisUnchangedType ==
    ASSUME RedisTypeOK, UNCHANGED redisVars
    PROVE  RedisTypeOK'
  BY DEF RedisTypeOK, redisVars, stateKeys, userSetKeys, presenceKeys

-----------------------------------------------------------------------------
LEMMA InitType == Init => TypeOK
  BY DEF Init, RedisInit, RequestInit, TypeOK, RedisTypeOK, RequestTypeOK,
         Await, Operation, TestState, Heartbeat

\* A step of start_test keeps the types.
LEMMA StartTypes ==
    ASSUME TypeOK, NEW r \in Request,
           StartStep(r) \/ (\E n \in Targets, p \in BOOLEAN : StartTest(r, n, p))
    PROVE  TypeOK'
<1> USE DEF TypeOK
<1>1. ASSUME NEW n \in Targets, NEW p \in BOOLEAN, StartTest(r, n, p) PROVE TypeOK'
  <2>1. "prepare" \in Await /\ "start" \in Operation
    BY DEF Await, TryAwaits, Operation
  <2>2. testEpoch + 1 \in Nat
    BY DEF RedisTypeOK
  <2>3. Accept(r, "start", n, p, testEpoch + 1, "prepare") /\ UNCHANGED seen
    BY <1>1 DEF StartTest
  <2>4. seen' \in [Request -> TestState]
    BY <2>3 DEF RequestTypeOK
  <2>5. RequestTypeOK'
    BY <2>1, <2>2, <2>3, <2>4, AcceptType
  <2> QED
    BY <1>1, <2>3, <2>5 DEF StartTest, StartPreparingAndBumpEpoch, Accept, RedisTypeOK,
       TestState, userSetKeys, presenceKeys
<1>2. CASE Prepare(r)
  BY <1>2 DEF Prepare, GoTo, RedisTypeOK, RequestTypeOK, Await, TryAwaits, stateKeys,
     userSetKeys, presenceKeys, boundVars
<1>3. CASE ScanForStart(r)
  BY <1>3 DEF ScanForStart, GoTo, RedisTypeOK, RequestTypeOK, Await, TryAwaits,
     AliveWorkers, redisVars, stateKeys, userSetKeys, presenceKeys, boundVars
<1>4. CASE NoAliveWorkers(r)
  <2>1. RequestTypeOK'
    BY <1>4, RaiseType DEF NoAliveWorkers
  <2> QED
    BY <1>4, <2>1 DEF NoAliveWorkers, Raise, Continues, Finish, RedisTypeOK, redisVars,
       stateKeys, userSetKeys, presenceKeys
<1>5. CASE PublishStartTest(r)
  BY <1>5, BroadcastType DEF PublishStartTest, Await, TryAwaits, CommandType
<1>6. CASE ListForStatus(r)
  <2>1. RedisTypeOK'
    BY <1>6, RedisUnchangedType DEF ListForStatus
  <2>2. CASE /\ todo' = [todo EXCEPT ![r] = users]
             /\ GoTo(r, IF users = {} THEN "commit" ELSE "status_write")
             /\ UNCHANGED <<reqEpoch, seen, recipients, index, added, base, found>>
    <3>1. users \in SUBSET UserId
      BY DEF RedisTypeOK
    <3>2. (IF users = {} THEN "commit" ELSE "status_write") \in Await
      BY DEF Await, TryAwaits
    <3> QED
      BY <2>1, <2>2, <3>1, <3>2, GoToType DEF GoTo, RequestTypeOK, boundVars
  <2>3. CASE Finish(r) /\ UNCHANGED faults
    BY <2>1, <2>3, FinishType DEF Finish
  <2> QED
    BY <1>6, <2>2, <2>3 DEF ListForStatus
<1>7. CASE WriteStatus(r)
  <2>1. RedisTypeOK'
    BY <1>7 DEF WriteStatus, SetAllUsersStatus, RedisTypeOK, RequestTypeOK, stateKeys,
       presenceKeys
  <2>2. CASE GoTo(r, "commit") /\ UNCHANGED <<reqEpoch, seen, todo, recipients, index,
                                              added, base, found>>
    BY <2>1, <2>2 DEF GoTo, RequestTypeOK, Await, TryAwaits, boundVars
  <2>3. CASE Finish(r) /\ UNCHANGED faults
    BY <2>1, <2>3, FinishType DEF Finish
  <2> QED
    BY <1>7, <2>2, <2>3 DEF WriteStatus
<1>8. CASE Commit(r)
  BY <1>8, FinishType DEF Commit, CompareAndSetState, Finish, RedisTypeOK, TestState,
     userSetKeys, presenceKeys
<1> QED
  BY <1>1, <1>2, <1>3, <1>4, <1>5, <1>6, <1>7, <1>8 DEF StartStep

LEMMA NextAllocationType ==
    ASSUME RequestTypeOK, issued \in Nat, faults \in Nat, flaps \in Nat,
           NEW r \in Request, NEW u, NextAllocation(r, u)
    PROVE  /\ pc' \in [Request -> Await]
           /\ op' \in [Request -> Operation]
           /\ target' \in [Request -> 0 .. MaxUserId]
           /\ paced' \in [Request -> BOOLEAN]
           /\ todo' \in [Request -> SUBSET UserId]
           /\ index' \in [Request -> Nat]
           /\ issued' \in Nat /\ faults' \in Nat /\ flaps' \in Nat
<1> DEFINE a == IF todo[r] = {u} THEN "status_list"
                ELSE IF paced[r] THEN "add_check" ELSE "add_read"
<1>1. a \in Await
  BY DEF Await, TryAwaits
<1>2. /\ GoTo(r, a)
      /\ todo' = [todo EXCEPT ![r] = @ \ {u}]
      /\ index' = [index EXCEPT ![r] = @ + 1]
  BY DEF NextAllocation
<1> HIDE DEF a
<1> QED
  BY <1>1, <1>2, GoToType DEF GoTo, RequestTypeOK, boundVars

UserSetTypeOK ==
    /\ users \subseteq UserId
    /\ userKeys \subseteq UserId
    /\ userWorker \in [UserId -> Worker \union {NoWorker}]
    /\ workerUsers \in [Worker -> SUBSET UserId]

\* A step of add_users keeps the types.
LEMMA AddTypes ==
    ASSUME TypeOK, NEW r \in Request, AddUsersStep(r)
    PROVE  TypeOK'
<1> USE DEF TypeOK
<1>1. CASE ScanForAdd(r)
  <2> DEFINE ids == IF op[r] = "start" THEN StartUserIds(target[r]) ELSE todo[r]
  <2>1. ids \subseteq UserId
    BY DEF StartUserIds, RequestTypeOK
  <2>2. (IF ids = {} THEN "status_list" ELSE "add_read") \in Await
    BY DEF Await, TryAwaits
  <2>3. AliveWorkers \subseteq Worker
    BY DEF AliveWorkers, RedisTypeOK
  <2>4. /\ todo' = [todo EXCEPT ![r] = ids]
        /\ recipients' = [recipients EXCEPT ![r] = AliveWorkers]
        /\ GoTo(r, IF ids = {} THEN "status_list" ELSE "add_read")
        /\ UNCHANGED <<reqEpoch, seen, index, added, base, found, redisVars>>
    BY <1>1 DEF ScanForAdd
  <2>5. RedisTypeOK'
    BY <2>4, RedisUnchangedType
  <2> HIDE DEF ids
  <2> QED
    BY <2>1, <2>2, <2>3, <2>4, <2>5, GoToType DEF GoTo, RequestTypeOK, boundVars
<1>2. CASE AddAbsent(r)
  BY <1>2 DEF AddAbsent, GoTo, RedisTypeOK, RequestTypeOK, Await, TryAwaits, boundVars,
     redisVars, stateKeys, userSetKeys, presenceKeys
<1>3. CASE SkipExisting(r)
  <2>1. PICK u \in todo[r] :
          /\ todo' = [todo EXCEPT ![r] = @ \ {u}]
          /\ GoTo(r, IF todo[r] = {u} THEN "status_list" ELSE "add_read")
    BY <1>3 DEF SkipExisting
  <2>2. (IF todo[r] = {u} THEN "status_list" ELSE "add_read") \in Await
    BY DEF Await, TryAwaits
  <2>3. RedisTypeOK'
    BY <1>3, RedisUnchangedType DEF SkipExisting
  <2> QED
    BY <1>3, <2>1, <2>2, <2>3, GoToType DEF SkipExisting, GoTo, RequestTypeOK, boundVars
<1>4. CASE InvalidAssignment(r)
  <2>1. RequestTypeOK'
    BY <1>4, RaiseType DEF InvalidAssignment
  <2> QED
    BY <1>4, <2>1 DEF InvalidAssignment, Raise, Continues, Finish, RedisTypeOK,
       redisVars, stateKeys, userSetKeys, presenceKeys
<1>5. CASE AddWrite(r)
  <2>1. PICK u \in todo[r], w \in recipients[r] : AddUserAssignment(u, w)
    BY <1>5 DEF AddWrite
  <2>2. u \in UserId /\ w \in Worker
    BY DEF RequestTypeOK
  <2>3. UserSetTypeOK'
    BY <2>1, <2>2 DEF AddUserAssignment, RedisTypeOK, UserSetTypeOK
  <2>4. RedisTypeOK'
    BY <1>5, <2>3 DEF AddWrite, RedisTypeOK, UserSetTypeOK, stateKeys, presenceKeys
  <2>5. GoTo(r, "add_pub") /\ "add_pub" \in Await
    BY <1>5 DEF AddWrite, Await, TryAwaits
  <2> QED
    BY <1>5, <2>4, <2>5, GoToType DEF AddWrite, RequestTypeOK, GoTo, boundVars
<1>6. CASE AddPublish(r)
  <2>1. PICK u \in todo[r], w \in recipients[r] :
          /\ Publish(w, "add_user", reqEpoch[r], u)
          /\ \/ GoTo(r, "add_point") /\ UNCHANGED <<todo, index>>
             \/ NextAllocation(r, u)
    BY <1>6 DEF AddPublish
  <2>2. commands' \in [Worker -> Seq(Command)]
    BY <2>1, PublishType DEF RequestTypeOK, CommandType
  <2>3. RedisTypeOK'
    BY <1>6, <2>2 DEF AddPublish, RedisTypeOK, stateKeys, userSetKeys, presenceKeys
  <2>4. added' \in [Request -> Nat]
    BY <1>6 DEF AddPublish, RequestTypeOK
  <2>5. CASE GoTo(r, "add_point") /\ UNCHANGED <<todo, index>>
    BY <1>6, <2>3, <2>4, <2>5 DEF AddPublish, GoTo, RequestTypeOK, Await, TryAwaits,
       boundVars
  <2>6. CASE NextAllocation(r, u)
    BY <1>6, <2>3, <2>4, <2>6, NextAllocationType DEF AddPublish, RequestTypeOK
  <2> QED
    BY <2>1, <2>5, <2>6
<1>7. CASE AddPoint(r)
  <2>1. PICK u \in todo[r] : NextAllocation(r, u)
    BY <1>7 DEF AddPoint
  <2>2. timeline' \in Nat
    BY <1>7 DEF AddPoint, PointCount, AppendTimeline, RequestTypeOK
  <2>3. RedisTypeOK'
    BY <1>7, <2>2 DEF AddPoint, RedisTypeOK, stateKeys, userSetKeys, presenceKeys
  <2> QED
    BY <1>7, <2>1, <2>3, NextAllocationType DEF AddPoint, RequestTypeOK
<1>8. CASE AddCheck(r)
  BY <1>8 DEF AddCheck, GoTo, RedisTypeOK, RequestTypeOK, Await, TryAwaits, boundVars,
     redisVars, stateKeys, userSetKeys, presenceKeys
<1>9. CASE AddAborted(r)
  BY <1>9, FinishType DEF AddAborted, Finish, RedisTypeOK,
     redisVars, stateKeys, userSetKeys, presenceKeys
<1> QED
  BY <1>1, <1>2, <1>3, <1>4, <1>5, <1>6, <1>7, <1>8, <1>9 DEF AddUsersStep

\* A step of stop_test, or of the rollback of start_test, keeps the types.
LEMMA StopTypes ==
    ASSUME TypeOK, NEW r \in Request, StopStep(r) \/ StopTest(r)
    PROVE  TypeOK'
<1> USE DEF TypeOK
<1>1. CASE StopTest(r)
  <2>1. "stop_cas" \in Await /\ "stop" \in Operation
    BY DEF Await, StopAwaits, Operation
  <2>2. seen' \in [Request -> TestState]
    BY <1>1 DEF StopTest, RedisTypeOK, RequestTypeOK
  <2>3. 0 \in 0 .. MaxUserId
    OBVIOUS
  <2>4. RequestTypeOK'
    BY <1>1, <2>1, <2>2, <2>3, AcceptType DEF StopTest
  <2> QED
    BY <1>1, <2>4 DEF StopTest, Accept, RedisTypeOK, redisVars, stateKeys, userSetKeys,
       presenceKeys
<1>2. CASE StopCas(r)
  <2>1. RedisTypeOK'
    BY <1>2 DEF StopCas, CompareAndSetState, RedisTypeOK, TestState, userSetKeys,
       presenceKeys
  <2>2. CASE GoTo(r, "stop_epoch") /\ UNCHANGED <<reqEpoch, seen, todo, recipients, index,
                                                  added, base, found>>
    BY <2>1, <2>2 DEF GoTo, RequestTypeOK, Await, StopAwaits, boundVars
  <2>3. CASE Finish(r) /\ UNCHANGED faults
    BY <2>1, <2>3, FinishType DEF Finish
  <2> QED
    BY <1>2, <2>2, <2>3 DEF StopCas
<1>3. CASE ReadEpoch(r)
  BY <1>3 DEF ReadEpoch, GoTo, RedisTypeOK, RequestTypeOK, Await, StopAwaits, ChangeAwaits,
     boundVars, redisVars, stateKeys, userSetKeys, presenceKeys
<1>4. CASE ScanForStop(r)
  BY <1>4 DEF ScanForStop, GoTo, RedisTypeOK, RequestTypeOK, Await, StopAwaits,
     AliveWorkers, boundVars, redisVars, stateKeys, userSetKeys, presenceKeys
<1>5. CASE PublishStopTest(r)
  BY <1>5, BroadcastType DEF PublishStopTest, Await, StopAwaits, CommandType
<1>6. CASE ListForClear(r)
  BY <1>6 DEF ListForClear, GoTo, RedisTypeOK, RequestTypeOK, Await, StopAwaits,
     boundVars, redisVars, stateKeys, userSetKeys, presenceKeys
<1>7. CASE Clear(r)
  <2>1. RedisTypeOK'
    BY <1>7 DEF Clear, ClearUsersData, RedisTypeOK, stateKeys, presenceKeys
  <2> QED
    BY <1>7, <2>1 DEF Clear, GoTo, RequestTypeOK, Await, StopAwaits, boundVars
<1>8. CASE StopPoint(r)
  BY <1>8 DEF StopPoint, AppendTimeline, GoTo, RedisTypeOK, RequestTypeOK, Await,
     StopAwaits, boundVars, stateKeys, userSetKeys, presenceKeys
<1>9. CASE SetIdle(r)
  BY <1>9, FinishType DEF SetIdle, SetState, Finish, RedisTypeOK, TestState, userSetKeys,
     presenceKeys
<1> QED
  BY <1>1, <1>2, <1>3, <1>4, <1>5, <1>6, <1>7, <1>8, <1>9 DEF StopStep

\* A step of change_users keeps the types.
LEMMA ChangeTypes ==
    ASSUME TypeOK, NEW r \in Request,
           ChangeStep(r) \/ (\E n \in Targets, p \in BOOLEAN : ChangeUsers(r, n, p))
    PROVE  TypeOK'
<1> USE DEF TypeOK
<1>1. ASSUME NEW n \in Targets, NEW p \in BOOLEAN, ChangeUsers(r, n, p) PROVE TypeOK'
  <2>1. "change_epoch" \in Await /\ "change" \in Operation
    BY DEF Await, ChangeAwaits, Operation
  <2>2. seen' \in [Request -> TestState]
    BY <1>1 DEF ChangeUsers, RequestTypeOK
  <2>3. RequestTypeOK'
    BY <1>1, <2>1, <2>2, AcceptType DEF ChangeUsers
  <2> QED
    BY <1>1, <2>3 DEF ChangeUsers, Accept, RedisTypeOK, redisVars, stateKeys, userSetKeys,
       presenceKeys
<1>2. CASE ChangeNothing(r)
  BY <1>2, FinishType DEF ChangeNothing, Finish, RedisTypeOK,
     redisVars, stateKeys, userSetKeys, presenceKeys
<1>3. CASE ChangeUp(r)
  <2>1. Cardinality(users) \in Nat
    BY UsersFinite DEF RedisTypeOK
  <2>2. PICK new \in SUBSET UserId : todo' = [todo EXCEPT ![r] = new]
    BY <1>3 DEF ChangeUp
  <2> QED
    BY <1>3, <2>1, <2>2 DEF ChangeUp, GoTo, RedisTypeOK, RequestTypeOK, Await, TryAwaits,
       boundVars, redisVars, stateKeys, userSetKeys, presenceKeys
<1>4. CASE ChangeDown(r)
  <2>1. \A n : UsersForRemoval(users, n) \subseteq UserId
    BY DEF UsersForRemoval, RedisTypeOK
  <2> QED
    BY <1>4, <2>1 DEF ChangeDown, GoTo, RedisTypeOK, RequestTypeOK, Await, ChangeAwaits,
       boundVars, redisVars, stateKeys, userSetKeys, presenceKeys
<1>5. CASE SkipMissing(r)
  <2>1. PICK u \in todo[r] : /\ todo' = [todo EXCEPT ![r] = @ \ {u}]
                             /\ GoTo(r, NextRemoval(r, u))
    BY <1>5 DEF SkipMissing
  <2>2. NextRemoval(r, u) \in Await
    BY DEF NextRemoval, Await, ChangeAwaits
  <2>3. RedisTypeOK'
    BY <1>5, RedisUnchangedType DEF SkipMissing
  <2> QED
    BY <1>5, <2>1, <2>2, <2>3, GoToType DEF SkipMissing, GoTo, RequestTypeOK, boundVars
<1>6. CASE RemoveFound(r)
  BY <1>6 DEF RemoveFound, GoTo, RedisTypeOK, RequestTypeOK, Await, ChangeAwaits,
     boundVars, redisVars, stateKeys, userSetKeys, presenceKeys
<1>7. CASE PublishRemove(r)
  <2>1. PICK u \in todo[r] : Publish(found[r], "remove_user", reqEpoch[r], u)
    BY <1>7 DEF PublishRemove
  <2>2. commands' \in [Worker -> Seq(Command)]
    <3>1. CASE found[r] \in Worker
      BY <2>1, <3>1, PublishType DEF RequestTypeOK, CommandType
    <3>2. CASE found[r] \notin Worker
      BY <2>1, <3>2 DEF Publish, RedisTypeOK
    <3> QED
      BY <3>1, <3>2
  <2> QED
    BY <1>7, <2>2 DEF PublishRemove, GoTo, RedisTypeOK, RequestTypeOK, Await, ChangeAwaits,
       boundVars, stateKeys, userSetKeys, presenceKeys
<1>8. CASE RemoveRead(r)
  BY ZenonT(40), <1>8 DEF RemoveRead, GoTo, RedisTypeOK, RequestTypeOK, Await, ChangeAwaits,
     boundVars, redisVars, stateKeys, userSetKeys, presenceKeys
<1>9. CASE RemoveWrite(r)
  <2>1. PICK u \in todo[r] : RemoveUserAssignment(u, found[r])
                             /\ todo' = [todo EXCEPT ![r] = @ \ {u}]
                             /\ GoTo(r, NextRemoval(r, u))
    BY <1>9 DEF RemoveWrite
  <2>2. RedisTypeOK'
    BY <1>9, <2>1 DEF RemoveWrite, RemoveUserAssignment, RedisTypeOK, stateKeys,
       presenceKeys
  <2> QED
    BY <1>9, <2>1, <2>2 DEF RemoveWrite, NextRemoval, GoTo, RequestTypeOK, Await,
       ChangeAwaits, boundVars
<1>10. CASE RemovePoint(r)
  <2>1. RedisTypeOK'
    BY SMTT(40), <1>10 DEF RemovePoint, AppendTimeline, RedisTypeOK, RequestTypeOK, stateKeys,
       userSetKeys, presenceKeys
  <2>2. RequestTypeOK'
    BY <1>10, FinishType DEF RemovePoint
  <2> QED
    BY <1>10, <2>1, <2>2 DEF RemovePoint, Finish
<1> QED
  BY <1>1, <1>2, <1>3, <1>4, <1>5, <1>6, <1>7, <1>8, <1>9, <1>10 DEF ChangeStep

\* Errors, crashes and flaps keep the types.
LEMMA EnvironmentTypes ==
    ASSUME TypeOK, Fault \/ (\E w \in Worker : Flap(w)) \/ Rest
    PROVE  TypeOK'
<1> USE DEF TypeOK
<1>1. ASSUME NEW r \in Request, RedisError(r) PROVE TypeOK'
  <2>1. RequestTypeOK'
    BY <1>1, RaiseType DEF RedisError
  <2> QED
    BY <1>1, <2>1 DEF RedisError, Raise, Continues, Finish, RedisTypeOK,
       redisVars, stateKeys, userSetKeys, presenceKeys
<1>2. ASSUME NEW r \in Request, ClaimAnswerLost(r) PROVE TypeOK'
  <2>1. RedisTypeOK'
    BY <1>2, RedisUnchangedType DEF ClaimAnswerLost
  <2>2. RequestTypeOK'
    BY <1>2, FinishType DEF ClaimAnswerLost
  <2> QED
    BY <1>2, <2>1, <2>2 DEF ClaimAnswerLost, Finish
<1>3. CASE OrchestratorCrash
  BY SMTT(40), <1>3 DEF OrchestratorCrash, RedisTypeOK, RequestTypeOK, Await, Operation, TestState,
     redisVars, stateKeys, userSetKeys, presenceKeys
<1>4. ASSUME NEW w \in Worker, Flap(w) PROVE TypeOK'
  BY <1>4 DEF Flap, RedisTypeOK, RequestTypeOK, Heartbeat, requestVars, stateKeys,
     userSetKeys
<1>6. ASSUME NEW r \in Request, CommitAnswerLost(r) PROVE TypeOK'
  <2>1. testState' \in TestState /\ testEpoch' \in Nat
    BY <1>6 DEF CommitAnswerLost, CompareAndSetState, RedisTypeOK, TestState
  <2>2. RedisTypeOK'
    BY <1>6, <2>1 DEF CommitAnswerLost, RedisTypeOK, userSetKeys, presenceKeys
  <2>3. RequestTypeOK'
    BY <1>6 DEF CommitAnswerLost, Continues, RequestTypeOK, Await, StopAwaits
  <2> QED
    BY <1>6, <2>2, <2>3 DEF CommitAnswerLost, Continues
<1>5. CASE Rest
  BY <1>5 DEF Rest, vars, redisVars, requestVars, boundVars, RedisTypeOK, RequestTypeOK,
     stateKeys, userSetKeys, presenceKeys
<1> QED
  BY <1>1, <1>2, <1>3, <1>4, <1>5, <1>6 DEF Fault

(***************************************************************************)
(* Type correctness, for every step of every handler.                      *)
(***************************************************************************)
LEMMA StepType == TypeOK /\ [Next]_vars => TypeOK'
<1> SUFFICES ASSUME TypeOK, [Next]_vars PROVE TypeOK'
  OBVIOUS
<1>1. ASSUME NEW r \in Request, Submit(r) PROVE TypeOK'
  BY <1>1, StartTypes, StopTypes, ChangeTypes DEF Submit
<1>2. ASSUME NEW r \in Request, Handle(r) PROVE TypeOK'
  BY <1>2, StartTypes, AddTypes, StopTypes, ChangeTypes DEF Handle
<1>3. CASE Fault \/ (\E w \in Worker : Flap(w)) \/ Rest
  BY <1>3, EnvironmentTypes
<1>4. CASE UNCHANGED vars
  BY <1>4 DEF TypeOK, vars, redisVars, requestVars, boundVars, RedisTypeOK, RequestTypeOK,
     stateKeys, userSetKeys, presenceKeys
<1> QED
  BY <1>1, <1>2, <1>3, <1>4 DEF Next, OrchestratorNext

THEOREM TypeCorrect == Spec => []TypeOK
<1> QED
  BY InitType, StepType, PTL DEF Spec

HIDE DEF UserId, NoUser, NoWorker

-----------------------------------------------------------------------------
(***************************************************************************)
(* The strengthening.  EpochFence alone is not inductive: that two starts  *)
(* keep different epochs needs that a handler that reads test:epoch anew   *)
(* is not a start, and that a stop leaves only an active state needs what  *)
(* its first read saw.                                                     *)
(***************************************************************************)
EpochReaders == {"stop_cas", "stop_epoch", "change_epoch"}

ReadersAreNoStarts == \A r \in Request : pc[r] \in EpochReaders => op[r] # "start"

StopSawActive ==
    \A r \in Request : pc[r] = "stop_cas" => seen[r] \in {"PREPARING", "RUNNING"}

FenceInv == TypeOK /\ ReadersAreNoStarts /\ StopSawActive /\ EpochFence

-----------------------------------------------------------------------------
(***************************************************************************)
(* Nearly every step has one shape: the handler of r goes on to an await   *)
(* that is no epoch reader, or ends; it publishes at most one command,     *)
(* under its own epoch; test:state and test:epoch stay.                    *)
(***************************************************************************)
PublishesOwnEpoch(r) ==
    \E w \in Worker, type \in CommandType, u \in UserId \union {NoUser} :
        Publish(w, type, reqEpoch[r], u)

MovesOn(r) ==
    /\ \E a \in Await \ EpochReaders : pc' = [pc EXCEPT ![r] = a]
    /\ UNCHANGED <<op, reqEpoch, seen>>

Ends(r) ==
    /\ pc' = [pc EXCEPT ![r] = "idle"]
    /\ op' = [op EXCEPT ![r] = "none"]
    /\ reqEpoch' = [reqEpoch EXCEPT ![r] = 0]
    /\ seen' = [seen EXCEPT ![r] = "IDLE"]

Proceeds(r) ==
    /\ MovesOn(r) \/ Ends(r)
    /\ UNCHANGED commands \/ PublishesOwnEpoch(r)

LEMMA PublishBehind ==
    ASSUME TypeOK, CommandsBehind, NEW r \in Request, reqEpoch[r] <= testEpoch,
           UNCHANGED testEpoch, PublishesOwnEpoch(r)
    PROVE  CommandsBehind'
<1>1. PICK w \in Worker, type \in CommandType, u \in UserId \union {NoUser} :
        Publish(w, type, reqEpoch[r], u)
  BY DEF PublishesOwnEpoch
<1> DEFINE msg == [type |-> type, epoch |-> reqEpoch[r], user |-> u]
<1>2. commands[w] \in Seq(Command) /\ msg \in Command
  BY DEF TypeOK, RedisTypeOK, RequestTypeOK, Command
<1>3. commands' = IF w \in subscribed THEN [commands EXCEPT ![w] = Append(@, msg)]
                                      ELSE commands
  BY <1>1 DEF Publish
<1>4. commands \in [Worker -> Seq(Command)]
  BY DEF TypeOK, RedisTypeOK
<1> SUFFICES ASSUME NEW v \in Worker, NEW i \in 1 .. Len(commands'[v])
             PROVE  commands'[v][i].epoch <= testEpoch
  BY DEF CommandsBehind
<1>5. CASE w \in subscribed /\ v = w
  <2>1. commands'[v] = Append(commands[w], msg)
    BY <1>3, <1>4, <1>5
  <2>2. CASE i = Len(commands[w]) + 1
    <3>1. commands'[v][i] = msg
      BY <1>2, <2>1, <2>2
    <3> QED
      BY <3>1
  <2>3. CASE i # Len(commands[w]) + 1
    <3>1. i \in 1 .. Len(commands[w]) /\ commands'[v][i] = commands[w][i]
      BY <1>2, <2>1, <2>3
    <3> QED
      BY <3>1 DEF CommandsBehind
  <2> QED
    BY <2>2, <2>3
<1>6. CASE ~(w \in subscribed /\ v = w)
  BY <1>3, <1>4, <1>6 DEF CommandsBehind
<1> QED
  BY <1>5, <1>6

LEMMA ProceedsFence ==
    ASSUME FenceInv, NEW r \in Request, Proceeds(r), UNCHANGED testEpoch
    PROVE  ReadersAreNoStarts' /\ StopSawActive' /\ EpochFence'
<1> USE DEF FenceInv, TypeOK
<1>1. CommandsBehind'
  <2>1. reqEpoch[r] <= testEpoch
    BY DEF EpochFence, RequestsBehind
  <2> QED
    BY <2>1, PublishBehind DEF Proceeds, EpochFence, CommandsBehind
<1>2. CASE MovesOn(r)
  BY <1>1, <1>2 DEF MovesOn, EpochReaders, ReadersAreNoStarts, StopSawActive, EpochFence,
     RequestsBehind, StartsApart, RequestTypeOK
<1>3. CASE Ends(r)
  BY <1>1, <1>3 DEF Ends, EpochReaders, ReadersAreNoStarts, StopSawActive, EpochFence,
     RequestsBehind, StartsApart, RequestTypeOK, RedisTypeOK
<1> QED
  BY <1>2, <1>3 DEF Proceeds

-----------------------------------------------------------------------------
LEMMA FinishEnds ==
    ASSUME NEW r \in Request, Finish(r)
    PROVE  Ends(r)
  BY DEF Finish, Ends

LEMMA GoToMovesOn ==
    ASSUME NEW r \in Request, NEW a \in Await \ EpochReaders, GoTo(r, a),
           UNCHANGED <<reqEpoch, seen>>
    PROVE  MovesOn(r)
  BY DEF GoTo, MovesOn

LEMMA RaiseProceeds ==
    ASSUME NEW r \in Request, Raise(r)
    PROVE  MovesOn(r) \/ Ends(r)
<1>1. "stop_scan" \in Await \ EpochReaders /\ "clear_list" \in Await \ EpochReaders
  BY DEF Await, StopAwaits, EpochReaders
<1> QED
  BY <1>1, FinishEnds DEF Raise, Continues, MovesOn

\* The awaits that handlers go to without reading the epoch.
LEMMA NoReader ==
    /\ TryAwaits \subseteq Await \ EpochReaders
    /\ {"idle", "stop_scan", "stop_pub", "clear_list", "clear", "stop_point", "set_idle",
        "change_list", "rem_read", "rem_pub", "rem_hget", "rem_write", "rem_point"}
         \subseteq Await \ EpochReaders
  BY DEF Await, TryAwaits, StopAwaits, ChangeAwaits, EpochReaders

LEMMA AddProceeds ==
    ASSUME TypeOK, NEW r \in Request, AddUsersStep(r)
    PROVE  Proceeds(r) /\ UNCHANGED stateKeys
<1> USE NoReader DEF TryAwaits, stateKeys, redisVars
<1>1. CASE ScanForAdd(r)
  BY <1>1, GoToMovesOn DEF ScanForAdd, Proceeds
<1>2. CASE AddAbsent(r)
  BY <1>2, GoToMovesOn DEF AddAbsent, Proceeds
<1>3. CASE SkipExisting(r)
  BY <1>3, GoToMovesOn DEF SkipExisting, Proceeds
<1>4. CASE InvalidAssignment(r)
  BY <1>4, RaiseProceeds DEF InvalidAssignment, Proceeds
<1>5. CASE AddWrite(r)
  BY <1>5, GoToMovesOn DEF AddWrite, Proceeds
<1>6. CASE AddPublish(r)
  <2>1. PICK u \in todo[r], w \in recipients[r] :
          /\ Publish(w, "add_user", reqEpoch[r], u)
          /\ \/ GoTo(r, "add_point")
             \/ GoTo(r, IF todo[r] = {u} THEN "status_list"
                        ELSE IF paced[r] THEN "add_check" ELSE "add_read")
    BY <1>6 DEF AddPublish, NextAllocation
  <2>2. PublishesOwnEpoch(r)
    BY <2>1 DEF PublishesOwnEpoch, TypeOK, RequestTypeOK, CommandType
  <2>3. MovesOn(r)
    BY <1>6, <2>1, GoToMovesOn DEF AddPublish
  <2> QED
    BY <1>6, <2>2, <2>3 DEF AddPublish, Proceeds
<1>7. CASE AddPoint(r)
  BY <1>7, GoToMovesOn DEF AddPoint, NextAllocation, Proceeds
<1>8. CASE AddCheck(r)
  BY <1>8, GoToMovesOn DEF AddCheck, Proceeds
<1>9. CASE AddAborted(r)
  BY <1>9, FinishEnds DEF AddAborted, Proceeds
<1> QED
  BY <1>1, <1>2, <1>3, <1>4, <1>5, <1>6, <1>7, <1>8, <1>9 DEF AddUsersStep

LEMMA BroadcastProceeds ==
    ASSUME TypeOK, NEW r \in Request, NEW a \in Await \ EpochReaders,
           NEW next \in Await \ EpochReaders, NEW type \in CommandType,
           Broadcast(r, a, type, next)
    PROVE  Proceeds(r) /\ UNCHANGED stateKeys
<1>1. PICK w \in recipients[r] : /\ Publish(w, type, reqEpoch[r], NoUser)
                                /\ GoTo(r, IF recipients[r] = {w} THEN next ELSE a)
  BY DEF Broadcast
<1>2. PublishesOwnEpoch(r)
  BY <1>1 DEF PublishesOwnEpoch, TypeOK, RequestTypeOK
<1>3. MovesOn(r)
  BY <1>1, GoToMovesOn DEF Broadcast
<1> QED
  BY <1>2, <1>3 DEF Broadcast, Proceeds

LEMMA StartProceeds ==
    ASSUME TypeOK, NEW r \in Request, StartStep(r)
    PROVE  Proceeds(r) /\ (UNCHANGED stateKeys \/ Commit(r))
<1> USE NoReader DEF TryAwaits, stateKeys, redisVars
<1>1. CASE Prepare(r)
  BY <1>1, GoToMovesOn DEF Prepare, Proceeds
<1>2. CASE ScanForStart(r)
  BY <1>2, GoToMovesOn DEF ScanForStart, Proceeds
<1>3. CASE NoAliveWorkers(r)
  BY <1>3, RaiseProceeds DEF NoAliveWorkers, Proceeds
<1>4. CASE PublishStartTest(r)
  BY <1>4, BroadcastProceeds DEF PublishStartTest, CommandType
<1>5. CASE ListForStatus(r)
  BY <1>5, FinishEnds, GoToMovesOn DEF ListForStatus, Proceeds
<1>6. CASE WriteStatus(r)
  BY <1>6, FinishEnds, GoToMovesOn DEF WriteStatus, Proceeds
<1>7. CASE Commit(r)
  BY <1>7, FinishEnds DEF Commit, Proceeds
<1> QED
  BY <1>1, <1>2, <1>3, <1>4, <1>5, <1>6, <1>7 DEF StartStep

LEMMA StopProceeds ==
    ASSUME TypeOK, NEW r \in Request, StopStep(r)
    PROVE  \/ Proceeds(r) /\ (UNCHANGED stateKeys \/ SetIdle(r))
           \/ StopCas(r) \/ ReadEpoch(r)
<1> USE NoReader DEF stateKeys, redisVars
<1>1. CASE ScanForStop(r)
  BY <1>1, GoToMovesOn DEF ScanForStop, Proceeds
<1>2. CASE PublishStopTest(r)
  BY <1>2, BroadcastProceeds DEF PublishStopTest, CommandType
<1>3. CASE ListForClear(r)
  BY <1>3, GoToMovesOn DEF ListForClear, Proceeds
<1>4. CASE Clear(r)
  BY <1>4, GoToMovesOn DEF Clear, Proceeds
<1>5. CASE StopPoint(r)
  BY <1>5, GoToMovesOn DEF StopPoint, Proceeds
<1>6. CASE SetIdle(r)
  BY <1>6, FinishEnds DEF SetIdle, Proceeds
<1> QED
  BY <1>1, <1>2, <1>3, <1>4, <1>5, <1>6 DEF StopStep

LEMMA ChangeProceeds ==
    ASSUME TypeOK, NEW r \in Request, ChangeStep(r)
    PROVE  Proceeds(r) /\ UNCHANGED stateKeys
<1> USE NoReader DEF TryAwaits, stateKeys, redisVars
<1>1. CASE ChangeNothing(r)
  BY <1>1, FinishEnds DEF ChangeNothing, Proceeds
<1>2. CASE ChangeUp(r)
  BY <1>2, GoToMovesOn DEF ChangeUp, Proceeds
<1>3. CASE ChangeDown(r)
  BY <1>3, GoToMovesOn DEF ChangeDown, Proceeds
<1>4. CASE SkipMissing(r)
  BY <1>4, GoToMovesOn DEF SkipMissing, NextRemoval, Proceeds
<1>5. CASE RemoveFound(r)
  BY <1>5, GoToMovesOn DEF RemoveFound, Proceeds
<1>6. CASE PublishRemove(r)
  <2>1. PICK u \in todo[r] : Publish(found[r], "remove_user", reqEpoch[r], u)
    BY <1>6 DEF PublishRemove
  <2>2. u \in UserId
    BY DEF TypeOK, RequestTypeOK
  <2>3. UNCHANGED commands \/ PublishesOwnEpoch(r)
    <3>1. CASE found[r] \in Worker
      BY <2>1, <2>2, <3>1 DEF PublishesOwnEpoch, CommandType
    <3>2. CASE found[r] \notin Worker
      BY <2>1, <3>2 DEF Publish, TypeOK, RedisTypeOK
    <3> QED
      BY <3>1, <3>2
  <2>4. MovesOn(r)
    BY <1>6, GoToMovesOn DEF PublishRemove
  <2> QED
    BY <1>6, <2>3, <2>4 DEF PublishRemove, Proceeds
<1>7. CASE RemoveRead(r)
  BY <1>7, GoToMovesOn DEF RemoveRead, Proceeds
<1>8. CASE RemoveWrite(r)
  BY <1>8, GoToMovesOn DEF RemoveWrite, NextRemoval, Proceeds
<1>9. CASE RemovePoint(r)
  BY <1>9, FinishEnds DEF RemovePoint, Proceeds
<1> QED
  BY <1>1, <1>2, <1>3, <1>4, <1>5, <1>6, <1>7, <1>8, <1>9 DEF ChangeStep

-----------------------------------------------------------------------------
\* The steps that claim an epoch, take a request in, or read the epoch.
LEMMA SubmitFence ==
    ASSUME FenceInv, NEW r \in Request, Submit(r)
    PROVE  ReadersAreNoStarts' /\ StopSawActive' /\ EpochFence'
<1> USE DEF FenceInv, TypeOK, RequestTypeOK, RedisTypeOK, EpochFence, ReadersAreNoStarts,
        StopSawActive, RequestsBehind, CommandsBehind, StartsApart, EpochReaders, Accept
<1>1. ASSUME NEW n, NEW p, StartTest(r, n, p)
      PROVE  ReadersAreNoStarts' /\ StopSawActive' /\ EpochFence'
  <2>1. /\ testEpoch' = testEpoch + 1 /\ UNCHANGED <<commands, seen>>
        /\ pc' = [pc EXCEPT ![r] = "prepare"]
        /\ op' = [op EXCEPT ![r] = "start"]
        /\ reqEpoch' = [reqEpoch EXCEPT ![r] = testEpoch + 1]
    BY <1>1 DEF StartTest, StartPreparingAndBumpEpoch
  <2>2. CommandsBehind'
    <3>1. ASSUME NEW w \in Worker, NEW i \in 1 .. Len(commands[w])
          PROVE  commands[w][i].epoch <= testEpoch + 1
      <4>1. commands[w] \in Seq(Command)
        OBVIOUS
      <4>2. commands[w][i] \in Command
        BY <4>1
      <4>3. commands[w][i].epoch \in Nat /\ commands[w][i].epoch <= testEpoch
        BY <4>2 DEF Command
      <4> QED
        BY <4>3
    <3> QED
      BY <2>1, <3>1
  <2>3. \A s \in Request \ {r} : reqEpoch'[s] = reqEpoch[s] /\ reqEpoch[s] < testEpoch + 1
    BY <2>1
  <2>4. reqEpoch'[r] = testEpoch + 1
    BY <2>1
  <2>5. RequestsBehind'
    BY <2>1, <2>3, <2>4
  <2>6. \A s \in Request \ {r} : reqEpoch'[s] # reqEpoch'[r] /\ op'[s] = op[s]
    BY <2>1, <2>3, <2>4
  <2>7. \A s, t \in Request \ {r} :
          s # t /\ op'[s] = "start" /\ op'[t] = "start" => reqEpoch'[s] # reqEpoch'[t]
    BY <2>3, <2>6
  <2>8. StartsApart'
    BY <2>6, <2>7
  <2> QED
    BY <2>1, <2>2, <2>5, <2>8
<1>2. ASSUME NEW n, NEW p, ChangeUsers(r, n, p)
      PROVE  ReadersAreNoStarts' /\ StopSawActive' /\ EpochFence'
  <2>1. /\ pc' = [pc EXCEPT ![r] = "change_epoch"] /\ op' = [op EXCEPT ![r] = "change"]
        /\ reqEpoch' = [reqEpoch EXCEPT ![r] = 0]
        /\ UNCHANGED <<seen, testEpoch, commands>>
    BY <1>2 DEF ChangeUsers, redisVars, stateKeys
  <2> QED
    BY <2>1
<1>3. CASE StopTest(r)
  BY <1>3 DEF StopTest, redisVars, stateKeys
<1> QED
  BY <1>1, <1>2, <1>3 DEF Submit

LEMMA ReadersFence ==
    ASSUME FenceInv, NEW r \in Request, StopCas(r) \/ ReadEpoch(r)
    PROVE  ReadersAreNoStarts' /\ StopSawActive' /\ EpochFence'
<1> USE DEF FenceInv, TypeOK, RequestTypeOK, RedisTypeOK, EpochFence, ReadersAreNoStarts,
        StopSawActive, RequestsBehind, CommandsBehind, StartsApart, EpochReaders
<1>1. CASE StopCas(r)
  <2>1. UNCHANGED <<testEpoch, commands>>
    BY <1>1 DEF StopCas, CompareAndSetState
  <2>2. CASE GoTo(r, "stop_epoch") /\ UNCHANGED <<reqEpoch, seen>>
    BY <1>1, <2>1, <2>2 DEF StopCas, GoTo
  <2>3. CASE Finish(r)
    BY <2>1, <2>3 DEF Finish
  <2> QED
    BY <1>1, <2>2, <2>3 DEF StopCas
<1>2. CASE ReadEpoch(r)
  BY SMTT(40), <1>2 DEF ReadEpoch, GoTo, redisVars, stateKeys
<1> QED
  BY <1>1, <1>2

LEMMA FaultFence ==
    ASSUME FenceInv, Fault
    PROVE  ReadersAreNoStarts' /\ StopSawActive' /\ EpochFence'
<1>1. ASSUME NEW r \in Request, RedisError(r) \/ ClaimAnswerLost(r)
      PROVE  Proceeds(r) /\ UNCHANGED testEpoch
  BY <1>1, RaiseProceeds, FinishEnds DEF RedisError, ClaimAnswerLost, Proceeds, redisVars,
     stateKeys
<1>3. ASSUME NEW r \in Request, CommitAnswerLost(r)
      PROVE  Proceeds(r) /\ UNCHANGED testEpoch
  BY <1>3, NoReader DEF CommitAnswerLost, CompareAndSetState, Continues, Proceeds, MovesOn
<1>2. CASE OrchestratorCrash
  BY <1>2 DEF OrchestratorCrash, FenceInv, TypeOK, RedisTypeOK, EpochFence,
     ReadersAreNoStarts, StopSawActive, RequestsBehind, CommandsBehind, StartsApart,
     EpochReaders, redisVars, stateKeys
<1> QED
  BY <1>1, <1>2, <1>3, ProceedsFence DEF Fault

\* A handler keeps the fence: by its shape, or as an epoch reader.
LEMMA HandleFence ==
    ASSUME FenceInv, NEW r \in Request, Handle(r)
    PROVE  ReadersAreNoStarts' /\ StopSawActive' /\ EpochFence'
<1>1. TypeOK
  BY DEF FenceInv
<1>2. \/ Proceeds(r) /\ (UNCHANGED stateKeys \/ Commit(r) \/ SetIdle(r))
      \/ StopCas(r) \/ ReadEpoch(r)
  BY <1>1, AddProceeds, StartProceeds, StopProceeds, ChangeProceeds DEF Handle
<1>3. UNCHANGED stateKeys \/ Commit(r) \/ SetIdle(r) => UNCHANGED testEpoch
  BY DEF stateKeys, Commit, CompareAndSetState, SetIdle, SetState
<1> QED
  BY <1>2, <1>3, ProceedsFence, ReadersFence

LEMMA FenceInit == Init => FenceInv
<1> SUFFICES ASSUME Init PROVE FenceInv
  OBVIOUS
<1>1. TypeOK
  BY InitType
<1> QED
  BY <1>1 DEF Init, RedisInit, RequestInit, FenceInv, EpochFence, ReadersAreNoStarts,
     StopSawActive, RequestsBehind, CommandsBehind, StartsApart, EpochReaders

LEMMA FenceStep == FenceInv /\ [Next]_vars => FenceInv'
<1> SUFFICES ASSUME FenceInv, [Next]_vars PROVE FenceInv'
  OBVIOUS
<1>1. TypeOK'
  BY StepType DEF FenceInv
<1>2. CASE (\E w \in Worker : Flap(w)) \/ Rest \/ UNCHANGED vars
  BY <1>1, <1>2 DEF Flap, Rest, vars, redisVars, requestVars, stateKeys, FenceInv,
     EpochFence, ReadersAreNoStarts, StopSawActive, RequestsBehind, CommandsBehind,
     StartsApart, EpochReaders
<1>3. CASE OrchestratorNext
  BY <1>1, <1>3, SubmitFence, HandleFence, FaultFence DEF OrchestratorNext, FenceInv
<1> QED
  BY <1>2, <1>3 DEF Next

(***************************************************************************)
(* The epoch fence, whatever requests overlap, fail or are cut off by a    *)
(* crash: no handler and no command of add_user, remove_user, start_test   *)
(* or stop_test is ahead of test:epoch, and two starts never share one.    *)
(***************************************************************************)
THEOREM EpochFenceHolds == Spec => []EpochFence
<1>1. FenceInv => EpochFence
  BY DEF FenceInv
<1> QED
  BY <1>1, FenceInit, FenceStep, PTL DEF Spec

-----------------------------------------------------------------------------
\* Only five operations touch test:state or test:epoch.
LEMMA StepEdge == FenceInv /\ [Next]_vars => LifecycleEdge
<1> SUFFICES ASSUME FenceInv, [Next]_vars PROVE LifecycleEdge
  OBVIOUS
<1>1. CASE UNCHANGED stateKeys
  BY <1>1 DEF stateKeys, LifecycleEdge
<1>2. ASSUME NEW r \in Request, NEW n, NEW p, StartTest(r, n, p) PROVE LifecycleEdge
  BY <1>2 DEF StartTest, StartPreparingAndBumpEpoch, LifecycleEdge
<1>3. ASSUME NEW r \in Request, Commit(r) PROVE LifecycleEdge
  BY <1>3 DEF Commit, CompareAndSetState, LifecycleEdge
<1>4. ASSUME NEW r \in Request, StopCas(r) PROVE LifecycleEdge
  BY <1>4 DEF StopCas, CompareAndSetState, LifecycleEdge, FenceInv, StopSawActive
<1>5. ASSUME NEW r \in Request, SetIdle(r) PROVE LifecycleEdge
  BY <1>5 DEF SetIdle, SetState, LifecycleEdge
<1>6. ASSUME NEW r \in Request, Handle(r) PROVE LifecycleEdge
  <2>1. UNCHANGED stateKeys \/ Commit(r) \/ SetIdle(r) \/ StopCas(r) \/ ReadEpoch(r)
    BY <1>6, AddProceeds, StartProceeds, StopProceeds, ChangeProceeds DEF Handle, FenceInv
  <2> QED
    BY <1>1, <1>3, <1>4, <1>5, <2>1 DEF ReadEpoch, redisVars
<1>7. ASSUME NEW r \in Request, Submit(r) PROVE LifecycleEdge
  BY <1>1, <1>2, <1>7 DEF Submit, ChangeUsers, StopTest, redisVars
<1>9. ASSUME NEW r \in Request, CommitAnswerLost(r) PROVE LifecycleEdge
  BY <1>9 DEF CommitAnswerLost, CompareAndSetState, LifecycleEdge
<1>8. CASE Fault \/ (\E w \in Worker : Flap(w)) \/ Rest \/ UNCHANGED vars
  BY <1>1, <1>8, <1>9 DEF Fault, RedisError, ClaimAnswerLost, OrchestratorCrash, Flap, Rest,
     vars, redisVars
<1> QED
  BY <1>6, <1>7, <1>8 DEF Next, OrchestratorNext

(***************************************************************************)
(* Whatever overlaps or fails, the lifecycle moves along its edges only:   *)
(* RUNNING from PREPARING, PREPARING from IDLE with the next epoch,        *)
(* STOPPING from an active state, the epoch at no other time.              *)
(***************************************************************************)
THEOREM LifecycleEdgesHold == Spec => LifecycleEdges
<1> QED
  BY FenceInit, FenceStep, StepEdge, PTL DEF Spec, LifecycleEdges

-----------------------------------------------------------------------------
\* Four pipelines write the keys of assignments; no other step touches them.
LEMMA AssignmentWriters ==
    ASSUME NEW r \in Request, Handle(r)
    PROVE  \/ UNCHANGED userSetKeys
           \/ AddWrite(r) \/ WriteStatus(r) \/ Clear(r) \/ RemoveWrite(r)
<1> USE DEF redisVars
<1>1. CASE AddUsersStep(r)
  BY <1>1 DEF AddUsersStep, ScanForAdd, AddAbsent, SkipExisting, InvalidAssignment,
     AddPublish, AddPoint, AddCheck, AddAborted
<1>2. CASE StartStep(r)
  BY <1>2 DEF StartStep, Prepare, ScanForStart, NoAliveWorkers, PublishStartTest, Broadcast,
     ListForStatus, Commit
<1>3. CASE StopStep(r)
  BY <1>3 DEF StopStep, StopCas, ReadEpoch, ScanForStop, PublishStopTest, Broadcast,
     ListForClear, StopPoint, SetIdle
<1>4. CASE ChangeStep(r)
  BY <1>4 DEF ChangeStep, ChangeNothing, ChangeUp, ChangeDown, SkipMissing, RemoveFound,
     PublishRemove, RemoveRead, RemovePoint
<1> QED
  BY <1>1, <1>2, <1>3, <1>4 DEF Handle

LEMMA MembersInit == Init => MembersAreAssigned
  BY DEF Init, RedisInit, MembersAreAssigned

LEMMA MembersStep == TypeOK /\ MembersAreAssigned /\ [Next]_vars => MembersAreAssigned'
<1> SUFFICES ASSUME TypeOK, MembersAreAssigned, [Next]_vars PROVE MembersAreAssigned'
  OBVIOUS
<1> USE DEF TypeOK, RedisTypeOK, RequestTypeOK, MembersAreAssigned
<1>1. CASE UNCHANGED userSetKeys
  BY <1>1 DEF userSetKeys
<1>2. ASSUME NEW r \in Request, AddWrite(r) PROVE MembersAreAssigned'
  <2>1. PICK u \in todo[r], w \in recipients[r] : AddUserAssignment(u, w)
    BY <1>2 DEF AddWrite
  <2>2. u \in UserId /\ w \in Worker /\ w # NoWorker
    BY WorkerAssumption DEF WorkerAssumption, NoWorker, UserId
  <2>3. userWorker'[u] = w /\ u \in workerUsers'[w] /\ u \in userKeys'
    BY <2>1, <2>2 DEF AddUserAssignment
  <2>4. ASSUME NEW v \in users, v # u
        PROVE  /\ v \in userKeys' /\ userWorker'[v] # NoWorker
               /\ v \in workerUsers'[userWorker'[v]]
    <3>1. v \in UserId /\ userWorker[v] \in Worker /\ userWorker'[v] = userWorker[v]
      BY <2>1, <2>4 DEF AddUserAssignment
    <3>2. workerUsers[userWorker[v]] \subseteq workerUsers'[userWorker[v]]
      BY <2>1, <2>2, <3>1 DEF AddUserAssignment
    <3> QED
      BY <2>1, <3>1, <3>2 DEF AddUserAssignment
  <2> QED
    BY <2>1, <2>2, <2>3, <2>4 DEF AddUserAssignment
<1>3. ASSUME NEW r \in Request, WriteStatus(r) PROVE MembersAreAssigned'
  BY <1>3 DEF WriteStatus, SetAllUsersStatus
<1>4. ASSUME NEW r \in Request, Clear(r) PROVE MembersAreAssigned'
  BY <1>4 DEF Clear, ClearUsersData
<1>5. ASSUME NEW r \in Request, RemoveWrite(r) PROVE MembersAreAssigned'
  <2>1. PICK u \in todo[r] : RemoveUserAssignment(u, found[r])
    BY <1>5 DEF RemoveWrite
  <2>2. ASSUME NEW v \in users'
        PROVE  /\ v \in userKeys' /\ userWorker'[v] # NoWorker
               /\ v \in workerUsers'[userWorker'[v]]
    <3>1. v \in users /\ v # u /\ v \in UserId
      BY <2>1, <2>2 DEF RemoveUserAssignment
    <3>2. userWorker'[v] = userWorker[v] /\ userWorker[v] \in Worker
      BY <2>1, <3>1 DEF RemoveUserAssignment
    <3>3. v \in workerUsers'[userWorker[v]]
      BY <2>1, <3>1, <3>2 DEF RemoveUserAssignment
    <3> QED
      BY <2>1, <3>1, <3>2, <3>3 DEF RemoveUserAssignment
  <2> QED
    BY <2>2
<1>6. ASSUME NEW r \in Request, Handle(r) PROVE MembersAreAssigned'
  BY <1>1, <1>2, <1>3, <1>4, <1>5, <1>6, AssignmentWriters
<1>7. ASSUME NEW r \in Request, Submit(r) PROVE MembersAreAssigned'
  <2>1. UNCHANGED userSetKeys
    BY <1>7 DEF Submit, StartTest, ChangeUsers, StopTest, redisVars
  <2> QED
    BY <1>1, <2>1
<1>8. CASE Fault \/ (\E w \in Worker : Flap(w)) \/ Rest \/ UNCHANGED vars
  <2>1. UNCHANGED userSetKeys
    BY <1>8 DEF Fault, RedisError, ClaimAnswerLost, CommitAnswerLost, OrchestratorCrash,
       Flap, Rest, vars, redisVars
  <2> QED
    BY <1>1, <2>1
<1> QED
  BY <1>6, <1>7, <1>8 DEF Next, OrchestratorNext

(***************************************************************************)
(* However adds, removals, clears and status refreshes of concurrent       *)
(* handlers interleave, every member of SET users has a complete hash, and *)
(* the worker that hash names lists the user.                              *)
(***************************************************************************)
THEOREM MembersAssigned == Spec => []MembersAreAssigned
<1> QED
  BY TypeCorrect, MembersInit, MembersStep, PTL DEF Spec
=============================================================================
