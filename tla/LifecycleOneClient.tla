------------------------ MODULE LifecycleOneClient ------------------------
(***************************************************************************)
(* What the lifecycle handlers keep for a client that waits for its        *)
(* answers: with one request slot no handler is overtaken.  Any number of  *)
(* workers, users, requests, Redis errors, lost answers, restarts and late *)
(* heartbeats; the hypothesis OneSlot is that of the section of Lifecycle  *)
(* these properties stand in.  Three parts, each on the invariant of the   *)
(* one before: OneClientInv, what Redis holds at each await; ChannelInv,   *)
(* what the workers have heard of the test; BooksInv, the order of the     *)
(* allocation, the timeline, and what the workers were told of each user.  *)
(***************************************************************************)
EXTENDS LifecycleSafety

USE LifecycleAssumption, WorkerAssumption, MaxUserIdAssumption

OneSlot == \A r, s \in Request : r = s

(***************************************************************************)
(* The strengthening.  What a handler is about to do is tied to what Redis *)
(* holds at that await: which state the test is in, and where the users    *)
(* still to process stand relative to those that are there.                *)
(***************************************************************************)
Count == 0 .. MaxUserId

\* The users to add come right after the members.
AddsNext(r) ==
    \E n, m \in Count : n < m /\ users = 1 .. n /\ todo[r] = n + 1 .. m

\* The first of them has just become a member.
AddedFirst(r) ==
    \E n, m \in Count : 0 < n /\ n <= m /\ users = 1 .. n /\ todo[r] = n .. m

\* The users to remove are the last members.
RemovesLast(r) ==
    \E n, m \in Count : 0 < m /\ m <= n /\ users = 1 .. n /\ todo[r] = m .. n

StateFits(r) ==
    /\ op[r] = "start" /\ pc[r] \in TryAwaits => testState = "PREPARING"
    /\ op[r] # "start" /\ pc[r] \in TryAwaits => testState = "RUNNING"
    /\ pc[r] \in ChangeAwaits => testState = "RUNNING" /\ op[r] # "start"
    /\ pc[r] = "stop_cas" => testState = seen[r]
    /\ op[r] # "start" /\ pc[r] \in StopAwaits \ {"stop_cas"} => testState = "STOPPING"

UsersFit(r) ==
    /\ pc[r] \in {"prepare", "start_scan", "start_pub"} => op[r] = "start"
    /\ op[r] = "start" /\ pc[r] \in {"prepare", "start_scan", "start_pub", "add_scan"}
         => users = {}
    /\ op[r] # "start" /\ pc[r] = "add_scan" => AddsNext(r)
    /\ pc[r] \in {"add_read", "add_write", "add_check"} => AddsNext(r)
    /\ pc[r] \in {"add_pub", "add_point"} => AddedFirst(r)
    /\ pc[r] \in {"rem_read", "rem_pub", "rem_hget", "rem_write"} => RemovesLast(r)
    /\ pc[r] \in {"status_write", "clear"} => todo[r] = users
    /\ pc[r] = "commit" => op[r] = "start"
    /\ pc[r] \in {"stop_point", "set_idle"} => users = {}

Fits(r) == StateFits(r) /\ UsersFit(r)

KeysFit ==
    /\ userKeys = users
    /\ \E n \in Count : users = 1 .. n
    /\ testState = "IDLE" => users = {}

OneClientInv == FenceInv /\ KeysFit /\ \A r \in Request : Fits(r)

-----------------------------------------------------------------------------
(***************************************************************************)
(* What a step amounts to in TestLifecycle.                                *)
(***************************************************************************)
Failed == \E r \in Request : RollsBack(r)

DocStep == [Documented!Next]_<<testState, testEpoch, Cardinality(users), Failed>>

LEMMA OneFailed ==
    ASSUME OneSlot, NEW r \in Request
    PROVE  (Failed <=> RollsBack(r)) /\ (Failed' <=> RollsBack(r)')
  BY DEF OneSlot, Failed

LEMMA OneFits ==
    ASSUME OneSlot, NEW r \in Request, Fits(r)'
    PROVE  \A s \in Request : Fits(s)'
  BY DEF OneSlot

\* Neither test, members nor rollback: nothing the lifecycle speaks of.
LEMMA Stutters ==
    ASSUME OneSlot, NEW r \in Request, UNCHANGED <<testState, testEpoch, users>>,
           RollsBack(r)' <=> RollsBack(r)
    PROVE  DocStep
<1>1. Failed' = Failed
  BY OneFailed DEF Failed
<1>2. Cardinality(users)' = Cardinality(users)
  OBVIOUS
<1> QED
  BY <1>1, <1>2 DEF DocStep

LEMMA GoToHere ==
    ASSUME TypeOK, NEW r \in Request, NEW a, GoTo(r, a)
    PROVE  pc'[r] = a /\ op'[r] = op[r]
  BY DEF GoTo, TypeOK, RequestTypeOK

LEMMA SetHere ==
    ASSUME TypeOK, NEW r \in Request, NEW x
    PROVE  /\ todo' = [todo EXCEPT ![r] = x] => todo'[r] = x
           /\ seen' = [seen EXCEPT ![r] = x] => seen'[r] = x
  BY DEF TypeOK, RequestTypeOK

LEMMA KeysStay ==
    ASSUME KeysFit, UNCHANGED <<testState, users, userKeys>>
    PROVE  KeysFit'
  BY DEF KeysFit

\* The handler returns or gives up, and Redis is as it was.
LEMMA FinishFits ==
    ASSUME OneSlot, OneClientInv, NEW r \in Request, Finish(r),
           UNCHANGED <<testState, testEpoch, users, userKeys>>
    PROVE  Fits(r)' /\ KeysFit' /\ DocStep
<1>1. pc'[r] = "idle" /\ op'[r] = "none"
  BY DEF Finish, OneClientInv, FenceInv, TypeOK, RequestTypeOK
<1>2. UNCHANGED <<testState, testEpoch, users, userKeys>>
  OBVIOUS
<1>3. Fits(r)'
  BY <1>1 DEF Fits, StateFits, UsersFit, TryAwaits, ChangeAwaits, StopAwaits
<1>4. DocStep
  <2>1. ~RollsBack(r)'
    BY <1>1 DEF RollsBack
  <2>2. CASE ~RollsBack(r)
    BY <1>2, <2>1, <2>2, Stutters
  <2>3. CASE RollsBack(r)
    <3>1. Failed = TRUE /\ Failed' = FALSE
      BY <2>1, <2>3, OneFailed DEF Failed
    <3>2. Cardinality(users)' = Cardinality(users)
      BY <1>2
    <3>3. Documented!GiveUp
      BY <1>2, <3>1, <3>2 DEF Documented!GiveUp, Failed
    <3> QED
      BY <3>3 DEF DocStep, Documented!Next
  <2> QED
    BY <2>2, <2>3
<1> QED
  BY <1>2, <1>3, <1>4, KeysStay DEF OneClientInv

\* An exception: a start begins to roll back, a rollback goes on, the rest ends.
LEMMA RaiseFits ==
    ASSUME OneSlot, OneClientInv, NEW r \in Request, Raise(r), UNCHANGED redisVars
    PROVE  Fits(r)' /\ KeysFit' /\ DocStep
<1>1. UNCHANGED <<testState, testEpoch, users, userKeys>>
  BY DEF redisVars, stateKeys, userSetKeys
<1>2. KeysFit'
  BY <1>1, KeysStay DEF OneClientInv
<1>3. ASSUME NEW a \in {"stop_scan", "clear_list"}, op[r] = "start", Continues(r, a)
      PROVE  Fits(r)' /\ RollsBack(r)'
  <2>1. pc'[r] = a /\ op'[r] = "start"
    BY <1>3 DEF Continues, OneClientInv, FenceInv, TypeOK, RequestTypeOK
  <2> QED
    BY <2>1 DEF Fits, StateFits, UsersFit, RollsBack, TryAwaits, ChangeAwaits, StopAwaits
<1>4. CASE op[r] = "start" /\ pc[r] \in TryAwaits /\ Continues(r, "stop_scan")
  <2>1. testState = "PREPARING"
    BY <1>4 DEF OneClientInv, Fits, StateFits
  <2>2. Failed = FALSE /\ Failed' = TRUE
    BY <1>3, <1>4, OneFailed DEF Failed, RollsBack, TryAwaits, StopAwaits
  <2>3. Cardinality(users)' = Cardinality(users)
    BY <1>1
  <2>4. Documented!Fail
    BY <1>1, <2>1, <2>2, <2>3 DEF Documented!Fail, Failed
  <2> QED
    BY <1>2, <1>3, <1>4, <2>4 DEF DocStep, Documented!Next
<1>5. CASE op[r] = "start" /\ pc[r] \in {"stop_scan", "stop_pub"} /\ Continues(r, "clear_list")
  <2>1. RollsBack(r)
    BY <1>5 DEF RollsBack, StopAwaits
  <2> QED
    BY <1>1, <1>2, <1>3, <1>5, <2>1, Stutters
<1>6. CASE Finish(r)
  BY <1>1, <1>6, FinishFits
<1> QED
  BY <1>4, <1>5, <1>6 DEF Raise

\* A broadcast goes on with the same await or with the next.
LEMMA BroadcastHere ==
    ASSUME TypeOK, NEW r \in Request, NEW a, NEW next, NEW type, Broadcast(r, a, type, next)
    PROVE  /\ pc[r] = a /\ pc'[r] \in {a, next} /\ op'[r] = op[r] /\ todo'[r] = todo[r]
           /\ UNCHANGED <<testState, testEpoch, users, userKeys>>
<1>1. PICK w \in recipients[r] : GoTo(r, IF recipients[r] = {w} THEN next ELSE a)
  BY DEF Broadcast
<1>2. pc'[r] \in {a, next} /\ op'[r] = op[r]
  BY <1>1, GoToHere
<1> QED
  BY <1>2 DEF Broadcast, stateKeys, userSetKeys

-----------------------------------------------------------------------------
\* Requests are accepted in the state they need.
LEMMA SubmitFits ==
    ASSUME OneSlot, OneClientInv, NEW r \in Request, Submit(r)
    PROVE  Fits(r)' /\ KeysFit' /\ DocStep
<1> USE DEF OneClientInv, FenceInv
<1>1. ASSUME NEW n \in Targets, NEW p \in BOOLEAN, StartTest(r, n, p)
      PROVE  Fits(r)' /\ KeysFit' /\ DocStep
  <2>1. /\ pc[r] = "idle" /\ pc'[r] = "prepare" /\ op'[r] = "start"
        /\ testState = "IDLE" /\ testState' = "PREPARING" /\ testEpoch' = testEpoch + 1
        /\ UNCHANGED <<users, userKeys>>
    BY <1>1 DEF StartTest, StartPreparingAndBumpEpoch, Accept, TypeOK, RequestTypeOK,
       userSetKeys
  <2>2. users = {}
    BY <2>1 DEF KeysFit
  <2>3. Fits(r)' /\ KeysFit'
    BY <2>1, <2>2 DEF Fits, StateFits, UsersFit, KeysFit, TryAwaits, ChangeAwaits, StopAwaits
  <2>4. Failed' = Failed
    BY <2>1, OneFailed DEF Failed, RollsBack, StopAwaits
  <2>5. Cardinality(users)' = Cardinality(users)
    BY <2>1
  <2>6. Documented!Start
    BY <2>1, <2>4, <2>5 DEF Documented!Start, Failed
  <2> QED
    BY <2>3, <2>6 DEF DocStep, Documented!Next
<1>2. ASSUME NEW n \in Targets, NEW p \in BOOLEAN, ChangeUsers(r, n, p)
      PROVE  Fits(r)' /\ KeysFit' /\ DocStep
  <2>1. /\ pc[r] = "idle" /\ pc'[r] = "change_epoch" /\ op'[r] = "change"
        /\ testState = "RUNNING" /\ UNCHANGED <<testState, testEpoch, users, userKeys>>
    BY <1>2 DEF ChangeUsers, Accept, TypeOK, RequestTypeOK, redisVars, stateKeys, userSetKeys
  <2>2. Fits(r)'
    BY <2>1 DEF Fits, StateFits, UsersFit, TryAwaits, ChangeAwaits, StopAwaits
  <2>3. RollsBack(r)' <=> RollsBack(r)
    BY <2>1 DEF RollsBack, StopAwaits
  <2> QED
    BY <2>1, <2>2, <2>3, KeysStay, Stutters
<1>3. CASE StopTest(r)
  <2>1. /\ pc[r] = "idle" /\ pc'[r] = "stop_cas" /\ op'[r] = "stop" /\ seen'[r] = testState
        /\ UNCHANGED <<testState, testEpoch, users, userKeys>>
    BY <1>3, SetHere DEF StopTest, Accept, TypeOK, RequestTypeOK, redisVars, stateKeys,
       userSetKeys
  <2>2. Fits(r)'
    BY <2>1 DEF Fits, StateFits, UsersFit, TryAwaits, ChangeAwaits, StopAwaits
  <2>3. RollsBack(r)' <=> RollsBack(r)
    BY <2>1 DEF RollsBack, StopAwaits
  <2> QED
    BY <2>1, <2>2, <2>3, KeysStay, Stutters
<1> QED
  BY <1>1, <1>2, <1>3 DEF Submit

\* The steps of start_test outside add_users.
LEMMA StartFits ==
    ASSUME OneSlot, OneClientInv, NEW r \in Request, StartStep(r)
    PROVE  Fits(r)' /\ KeysFit' /\ DocStep
<1> USE DEF OneClientInv, FenceInv, redisVars, stateKeys, userSetKeys
<1>1. CASE Prepare(r)
  <2>1. /\ pc[r] = "prepare" /\ pc'[r] = "start_scan" /\ op'[r] = op[r]
        /\ UNCHANGED <<testState, testEpoch, users, userKeys>>
    BY <1>1, GoToHere DEF Prepare
  <2>2. Fits(r)' /\ (RollsBack(r)' <=> RollsBack(r))
    BY <2>1 DEF Fits, StateFits, UsersFit, RollsBack, TryAwaits, ChangeAwaits, StopAwaits
  <2> QED
    BY <2>1, <2>2, KeysStay, Stutters
<1>2. CASE ScanForStart(r)
  <2>1. /\ pc[r] = "start_scan" /\ pc'[r] = "start_pub" /\ op'[r] = op[r]
        /\ UNCHANGED <<testState, testEpoch, users, userKeys>>
    BY <1>2, GoToHere DEF ScanForStart
  <2>2. Fits(r)' /\ (RollsBack(r)' <=> RollsBack(r))
    BY <2>1 DEF Fits, StateFits, UsersFit, RollsBack, TryAwaits, ChangeAwaits, StopAwaits
  <2> QED
    BY <2>1, <2>2, KeysStay, Stutters
<1>3. CASE NoAliveWorkers(r)
  BY <1>3, RaiseFits DEF NoAliveWorkers
<1>4. CASE PublishStartTest(r)
  <2>1. /\ pc[r] = "start_pub" /\ pc'[r] \in {"start_pub", "add_scan"} /\ op'[r] = op[r]
        /\ UNCHANGED <<testState, testEpoch, users, userKeys>>
    BY <1>4, BroadcastHere DEF PublishStartTest
  <2>2. Fits(r)' /\ (RollsBack(r)' <=> RollsBack(r))
    BY <2>1 DEF Fits, StateFits, UsersFit, RollsBack, TryAwaits, ChangeAwaits, StopAwaits
  <2> QED
    BY <2>1, <2>2, KeysStay, Stutters
<1>5. CASE ListForStatus(r)
  <2>1. CASE Finish(r) /\ UNCHANGED faults
    BY <1>5, <2>1, FinishFits DEF ListForStatus
  <2>2. CASE /\ users # {} \/ op[r] = "start"
             /\ todo' = [todo EXCEPT ![r] = users]
             /\ GoTo(r, IF users = {} THEN "commit" ELSE "status_write")
    <3>1. /\ pc[r] = "status_list" /\ op'[r] = op[r] /\ todo'[r] = users
          /\ pc'[r] = IF users = {} THEN "commit" ELSE "status_write"
          /\ UNCHANGED <<testState, testEpoch, users, userKeys>>
      BY <1>5, <2>2, GoToHere, SetHere DEF ListForStatus
    <3>2. Fits(r)' /\ (RollsBack(r)' <=> RollsBack(r))
      BY <2>2, <3>1 DEF Fits, StateFits, UsersFit, RollsBack, TryAwaits, ChangeAwaits,
         StopAwaits
    <3> QED
      BY <3>1, <3>2, KeysStay, Stutters
  <2> QED
    BY <1>5, <2>1, <2>2 DEF ListForStatus
<1>6. CASE WriteStatus(r)
  <2>1. pc[r] = "status_write" /\ todo[r] = users /\ ~RollsBack(r)
    BY <1>6 DEF WriteStatus, Fits, UsersFit, RollsBack, StopAwaits
  <2>2. UNCHANGED <<testState, testEpoch, users, userKeys>>
    BY <1>6, <2>1 DEF WriteStatus, SetAllUsersStatus, KeysFit
  <2>3. \/ op[r] = "start" /\ pc'[r] = "commit" /\ op'[r] = op[r]
        \/ pc'[r] = "idle" /\ op'[r] = "none"
    BY <1>6, GoToHere DEF WriteStatus, Finish, TypeOK, RequestTypeOK
  <2>4. Fits(r)' /\ ~RollsBack(r)'
    BY <2>1, <2>2, <2>3 DEF Fits, StateFits, UsersFit, RollsBack, TryAwaits, ChangeAwaits,
       StopAwaits
  <2> QED
    BY <2>1, <2>2, <2>4, KeysStay, Stutters
<1>7. CASE Commit(r)
  <2>1. testState = "PREPARING" /\ op[r] = "start"
    BY <1>7 DEF Commit, Fits, StateFits, UsersFit, TryAwaits
  <2>2. /\ pc[r] = "commit" /\ pc'[r] = "idle" /\ op'[r] = "none"
        /\ testState' = "RUNNING" /\ UNCHANGED <<testEpoch, users, userKeys>>
    BY <1>7, <2>1 DEF Commit, CompareAndSetState, Finish, TypeOK, RequestTypeOK
  <2>3. Fits(r)' /\ KeysFit'
    BY <2>2 DEF Fits, StateFits, UsersFit, KeysFit, TryAwaits, ChangeAwaits, StopAwaits
  <2>4. Failed = FALSE /\ Failed' = FALSE
    BY <2>2, OneFailed DEF Failed, RollsBack, StopAwaits
  <2>5. Cardinality(users)' = Cardinality(users)
    BY <2>2
  <2>6. Documented!Commit
    BY <2>1, <2>2, <2>4, <2>5 DEF Documented!Commit, Failed
  <2> QED
    BY <2>3, <2>6 DEF DocStep, Documented!Next
<1> QED
  BY <1>1, <1>2, <1>3, <1>4, <1>5, <1>6, <1>7 DEF StartStep

\* stop_test, and the rollback of start_test: nobody is left when IDLE is set.
LEMMA StopFits ==
    ASSUME OneSlot, OneClientInv, NEW r \in Request, StopStep(r)
    PROVE  Fits(r)' /\ KeysFit' /\ DocStep
<1> USE DEF OneClientInv, FenceInv, redisVars, stateKeys, userSetKeys
<1>1. CASE StopCas(r)
  <2>1. /\ pc[r] = "stop_cas" /\ op[r] # "start" /\ testState = seen[r]
        /\ testState \in {"PREPARING", "RUNNING"}
    BY <1>1 DEF StopCas, Fits, StateFits, ReadersAreNoStarts, EpochReaders, StopSawActive
  <2>2. /\ pc'[r] = "stop_epoch" /\ op'[r] = op[r]
        /\ testState' = "STOPPING" /\ UNCHANGED <<testEpoch, users, userKeys>>
    BY <1>1, <2>1, GoToHere DEF StopCas, CompareAndSetState
  <2>3. Fits(r)' /\ KeysFit'
    BY <2>1, <2>2 DEF Fits, StateFits, UsersFit, KeysFit, TryAwaits, ChangeAwaits, StopAwaits
  <2>4. Failed = FALSE /\ Failed' = FALSE
    BY <2>1, <2>2, OneFailed DEF Failed, RollsBack
  <2>5. Cardinality(users)' = Cardinality(users)
    BY <2>2
  <2>6. Documented!Stop
    BY <2>1, <2>2, <2>4, <2>5 DEF Documented!Stop, Failed
  <2> QED
    BY <2>3, <2>6 DEF DocStep, Documented!Next
<1>2. CASE ReadEpoch(r)
  <2>1. /\ \/ pc[r] = "stop_epoch" /\ pc'[r] = "stop_scan"
           \/ pc[r] = "change_epoch" /\ pc'[r] = "change_list"
        /\ op'[r] = op[r] /\ UNCHANGED <<testState, testEpoch, users, userKeys>>
    BY <1>2, GoToHere DEF ReadEpoch
  <2>2. Fits(r)' /\ (RollsBack(r)' <=> RollsBack(r))
    BY <2>1 DEF Fits, StateFits, UsersFit, RollsBack, TryAwaits, ChangeAwaits, StopAwaits
  <2> QED
    BY <2>1, <2>2, KeysStay, Stutters
<1>3. CASE ScanForStop(r)
  <2>1. /\ pc[r] = "stop_scan" /\ pc'[r] \in {"clear_list", "stop_pub"} /\ op'[r] = op[r]
        /\ UNCHANGED <<testState, testEpoch, users, userKeys>>
    BY <1>3, GoToHere DEF ScanForStop
  <2>2. Fits(r)' /\ (RollsBack(r)' <=> RollsBack(r))
    BY <2>1 DEF Fits, StateFits, UsersFit, RollsBack, TryAwaits, ChangeAwaits, StopAwaits
  <2> QED
    BY <2>1, <2>2, KeysStay, Stutters
<1>4. CASE PublishStopTest(r)
  <2>1. /\ pc[r] = "stop_pub" /\ pc'[r] \in {"stop_pub", "clear_list"} /\ op'[r] = op[r]
        /\ UNCHANGED <<testState, testEpoch, users, userKeys>>
    BY <1>4, BroadcastHere DEF PublishStopTest
  <2>2. Fits(r)' /\ (RollsBack(r)' <=> RollsBack(r))
    BY <2>1 DEF Fits, StateFits, UsersFit, RollsBack, TryAwaits, ChangeAwaits, StopAwaits
  <2> QED
    BY <2>1, <2>2, KeysStay, Stutters
<1>5. CASE ListForClear(r)
  <2>1. /\ pc[r] = "clear_list" /\ pc'[r] = "clear" /\ op'[r] = op[r] /\ todo'[r] = users
        /\ UNCHANGED <<testState, testEpoch, users, userKeys>>
    BY <1>5, GoToHere, SetHere DEF ListForClear
  <2>2. Fits(r)' /\ (RollsBack(r)' <=> RollsBack(r))
    BY <2>1 DEF Fits, StateFits, UsersFit, RollsBack, TryAwaits, ChangeAwaits, StopAwaits
  <2> QED
    BY <2>1, <2>2, KeysStay, Stutters
<1>6. CASE Clear(r)
  <2>1. pc[r] = "clear" /\ todo[r] = users
    BY <1>6 DEF Clear, Fits, UsersFit
  <2>2. /\ pc'[r] \in {"stop_point", "set_idle"} /\ op'[r] = op[r]
        /\ users' = {} /\ userKeys' = {} /\ UNCHANGED <<testState, testEpoch>>
    BY <1>6, <2>1, GoToHere DEF Clear, ClearUsersData, KeysFit
  <2>3. Fits(r)' /\ (RollsBack(r)' <=> RollsBack(r))
    BY <2>1, <2>2 DEF Fits, StateFits, UsersFit, RollsBack, TryAwaits, ChangeAwaits,
       StopAwaits
  <2>4. KeysFit'
    <3>1. 0 \in Count /\ {} = 1 .. 0
      BY DEF Count
    <3> QED
      BY <2>2, <3>1 DEF KeysFit
  <2>5. Cardinality(users)' = 0
    BY <2>2, FS_EmptySet
  <2>6. testState = "STOPPING" \/ RollsBack(r)
    BY <2>1 DEF Fits, StateFits, RollsBack, StopAwaits
  <2>7. Failed' = Failed
    BY <2>3, OneFailed DEF Failed
  <2>8. Documented!Clear
    BY <2>2, <2>5, <2>6, <2>7, OneFailed DEF Documented!Clear, Documented!Ending, Failed
  <2> QED
    BY <2>3, <2>4, <2>8 DEF DocStep, Documented!Next
<1>7. CASE StopPoint(r)
  <2>1. /\ pc[r] = "stop_point" /\ pc'[r] = "set_idle" /\ op'[r] = op[r]
        /\ UNCHANGED <<testState, testEpoch, users, userKeys>>
    BY <1>7, GoToHere DEF StopPoint
  <2>2. Fits(r)' /\ (RollsBack(r)' <=> RollsBack(r))
    BY <2>1 DEF Fits, StateFits, UsersFit, RollsBack, TryAwaits, ChangeAwaits, StopAwaits
  <2> QED
    BY <2>1, <2>2, KeysStay, Stutters
<1>8. CASE SetIdle(r)
  <2>1. pc[r] = "set_idle" /\ users = {}
    BY <1>8 DEF SetIdle, Fits, UsersFit
  <2>2. /\ pc'[r] = "idle" /\ op'[r] = "none"
        /\ testState' = "IDLE" /\ UNCHANGED <<testEpoch, users, userKeys>>
    BY <1>8 DEF SetIdle, SetState, Finish, TypeOK, RequestTypeOK
  <2>3. Fits(r)' /\ KeysFit'
    BY <2>1, <2>2 DEF Fits, StateFits, UsersFit, KeysFit, TryAwaits, ChangeAwaits, StopAwaits
  <2>4. testState = "STOPPING" \/ RollsBack(r)
    BY <2>1 DEF Fits, StateFits, RollsBack, StopAwaits
  <2>5. Failed' = FALSE
    BY <2>2, OneFailed DEF Failed, RollsBack
  <2>6. Cardinality(users) = 0 /\ Cardinality(users)' = Cardinality(users)
    BY <2>1, <2>2, FS_EmptySet
  <2>7. Documented!End
    BY <2>2, <2>4, <2>5, <2>6, OneFailed DEF Documented!End, Documented!Ending, Failed
  <2> QED
    BY <2>3, <2>7 DEF DocStep, Documented!Next
<1> QED
  BY <1>1, <1>2, <1>3, <1>4, <1>5, <1>6, <1>7, <1>8 DEF StopStep

-----------------------------------------------------------------------------
\* Intervals of user ids and how many there are.
LEMMA CountOf ==
    ASSUME NEW n \in Nat
    PROVE  Cardinality(1 .. n) = n
<1>1. Cardinality(1 .. n) = IF 1 > n THEN 0 ELSE n - 1 + 1
  BY FS_Interval
<1> QED
  BY <1>1

LEMMA LowestOf ==
    ASSUME NEW n \in Nat, NEW m \in Nat, n <= m, NEW u, IsLowest(u, n .. m)
    PROVE  u = n
  BY DEF IsLowest

LEMMA HighestOf ==
    ASSUME NEW n \in Nat, NEW m \in Nat, m <= n, NEW u, IsHighest(u, m .. n)
    PROVE  u = n
  BY DEF IsHighest

\* _new_user_ids continues after the highest id.
LEMMA NewIds ==
    ASSUME NEW n \in Nat, NEW k \in Nat
    PROVE  NewUserIds(1 .. n, k) = n + 1 .. n + k
<1>1. n \in (1 .. n) \union {0} /\ \A x \in (1 .. n) \union {0} : n >= x
  OBVIOUS
<1>2. ASSUME NEW y \in (1 .. n) \union {0}, \A x \in (1 .. n) \union {0} : y >= x
      PROVE  y = n
  BY <1>1, <1>2
<1>3. Max((1 .. n) \union {0}) = n
  BY <1>1, <1>2 DEF Max
<1> QED
  BY <1>3 DEF NewUserIds

\* _users_for_removal takes the highest ids.
LEMMA RemovalIds ==
    ASSUME NEW n \in Nat, NEW t \in Nat, t < n
    PROVE  UsersForRemoval(1 .. n, n - t) = t + 1 .. n
<1>1. ASSUME NEW u \in 1 .. n
      PROVE  Cardinality({ v \in 1 .. n : u < v }) = n - u
  <2>1. { v \in 1 .. n : u < v } = u + 1 .. n
    OBVIOUS
  <2>2. Cardinality(u + 1 .. n) = IF u + 1 > n THEN 0 ELSE n - (u + 1) + 1
    BY FS_Interval
  <2>3. (IF u + 1 > n THEN 0 ELSE n - (u + 1) + 1) = n - u
    OBVIOUS
  <2> QED
    BY <2>1, <2>2, <2>3
<1>2. ASSUME NEW u \in 1 .. n
      PROVE  Cardinality({ v \in 1 .. n : u < v }) < n - t <=> u \in t + 1 .. n
  BY <1>1
<1> QED
  BY <1>2 DEF UsersForRemoval

\* After an allocation the loop goes on behind the members, or the adding is done.
LEMMA NextAllocationFits ==
    ASSUME OneSlot, OneClientInv, NEW r \in Request, NEW u \in todo[r], IsLowest(u, todo[r]),
           pc[r] \in {"add_pub", "add_point"}, NextAllocation(r, u),
           UNCHANGED <<testState, testEpoch, users, userKeys>>
    PROVE  Fits(r)' /\ KeysFit' /\ DocStep
<1> USE DEF OneClientInv, FenceInv
<1>1. PICK n \in Count, m \in Count : 0 < n /\ n <= m /\ users = 1 .. n /\ todo[r] = n .. m
  BY DEF Fits, UsersFit, AddedFirst
<1>2. u = n
  BY <1>1, LowestOf DEF Count
<1>3. /\ op'[r] = op[r] /\ todo'[r] = todo[r] \ {u}
      /\ pc'[r] = IF todo[r] = {u} THEN "status_list"
                  ELSE IF paced[r] THEN "add_check" ELSE "add_read"
  BY GoToHere, SetHere DEF NextAllocation, TypeOK, RequestTypeOK
<1>4. todo'[r] = n + 1 .. m
  BY <1>1, <1>2, <1>3 DEF Count
<1>5. pc'[r] # "status_list" => AddsNext(r)'
  <2>1. CASE n = m
    BY <1>1, <1>2, <1>3, <2>1 DEF Count
  <2>2. CASE n < m
    BY <1>1, <1>4, <2>2 DEF AddsNext
  <2> QED
    BY <1>1, <2>1, <2>2 DEF Count
<1>6. pc'[r] \in {"status_list", "add_check", "add_read"}
  BY <1>3
<1>7. Fits(r)' /\ (RollsBack(r)' <=> RollsBack(r))
  BY <1>3, <1>5, <1>6 DEF Fits, StateFits, UsersFit, RollsBack, TryAwaits, ChangeAwaits,
     StopAwaits
<1> QED
  BY <1>7, KeysStay, Stutters

\* add_users, of a start and of a growing change_users.
LEMMA AddFits ==
    ASSUME OneSlot, OneClientInv, NEW r \in Request, AddUsersStep(r)
    PROVE  Fits(r)' /\ KeysFit' /\ DocStep
<1> USE DEF OneClientInv, FenceInv, redisVars, stateKeys, userSetKeys
<1>1. CASE ScanForAdd(r)
  <2> DEFINE ids == IF op[r] = "start" THEN StartUserIds(target[r]) ELSE todo[r]
  <2>1. /\ pc[r] = "add_scan" /\ op'[r] = op[r] /\ todo'[r] = ids
        /\ pc'[r] = IF ids = {} THEN "status_list" ELSE "add_read"
        /\ UNCHANGED <<testState, testEpoch, users, userKeys>>
    BY ZenonT(120), <1>1, GoToHere, SetHere DEF ScanForAdd
  <2>2. ids # {} => AddsNext(r)'
    <3>1. CASE op[r] = "start"
      <4>1. PICK t \in Nat : t = target[r] /\ t <= MaxUserId
        BY DEF TypeOK, RequestTypeOK
      <4>2. users = 1 .. 0 /\ ids = 0 + 1 .. t
        BY <2>1, <3>1, <4>1 DEF Fits, UsersFit, StartUserIds
      <4>3. 0 \in Count /\ t \in Count /\ (ids # {} => 0 < t)
        BY <4>1, <4>2 DEF Count
      <4> HIDE DEF ids
      <4> QED
        BY <2>1, <4>2, <4>3 DEF AddsNext
    <3>2. CASE op[r] # "start"
      BY <2>1, <3>2 DEF Fits, UsersFit, AddsNext
    <3> QED
      BY <3>1, <3>2
  <2> HIDE DEF ids
  <2>3. Fits(r)' /\ (RollsBack(r)' <=> RollsBack(r))
    BY <2>1, <2>2 DEF Fits, StateFits, UsersFit, RollsBack, TryAwaits, ChangeAwaits, StopAwaits
  <2> QED
    BY <2>1, <2>3, KeysStay, Stutters
<1>2. CASE AddAbsent(r)
  <2>1. /\ pc[r] = "add_read" /\ pc'[r] = "add_write" /\ op'[r] = op[r] /\ UNCHANGED todo
        /\ UNCHANGED <<testState, testEpoch, users, userKeys>>
    BY <1>2, GoToHere DEF AddAbsent
  <2>2. AddsNext(r)'
    BY <2>1 DEF Fits, UsersFit, AddsNext
  <2>3. Fits(r)' /\ (RollsBack(r)' <=> RollsBack(r))
    BY <2>1, <2>2 DEF Fits, StateFits, UsersFit, RollsBack, TryAwaits, ChangeAwaits, StopAwaits
  <2> QED
    BY <2>1, <2>3, KeysStay, Stutters
<1>3. ~SkipExisting(r)
  <2>1. SUFFICES ASSUME SkipExisting(r) PROVE FALSE
    OBVIOUS
  <2>2. PICK u \in todo[r] : u \in users
    BY <2>1 DEF SkipExisting, KeysFit
  <2>3. PICK n \in Count, m \in Count : users = 1 .. n /\ todo[r] = n + 1 .. m
    BY <2>1 DEF SkipExisting, Fits, UsersFit, AddsNext
  <2> QED
    BY <2>2, <2>3 DEF Count
<1>4. CASE InvalidAssignment(r)
  BY <1>4, RaiseFits DEF InvalidAssignment
<1>5. CASE AddWrite(r)
  <2>1. PICK u \in todo[r], w \in recipients[r] : IsLowest(u, todo[r]) /\ AddUserAssignment(u, w)
    BY <1>5 DEF AddWrite
  <2>2. /\ pc[r] = "add_write" /\ pc'[r] = "add_pub" /\ op'[r] = op[r] /\ UNCHANGED todo
        /\ UNCHANGED <<testState, testEpoch>>
    BY <1>5, GoToHere DEF AddWrite
  <2>3. PICK n \in Count, m \in Count : n < m /\ users = 1 .. n /\ todo[r] = n + 1 .. m
    BY <2>2 DEF Fits, UsersFit, AddsNext
  <2>4. u = n + 1
    <3>1. PICK k \in Nat : k = n + 1
      BY DEF Count
    <3>2. k <= m /\ m \in Nat /\ IsLowest(u, k .. m)
      BY <2>1, <2>3, <3>1 DEF Count
    <3> QED
      BY <3>1, <3>2, LowestOf
  <2>5. n + 1 \in Count /\ users' = 1 .. n + 1 /\ userKeys' = users'
    BY <2>1, <2>3, <2>4 DEF Count, AddUserAssignment, KeysFit
  <2>6. AddedFirst(r)'
    BY <2>2, <2>3, <2>5 DEF AddedFirst, Count
  <2>7. testState = IF op[r] = "start" THEN "PREPARING" ELSE "RUNNING"
    BY <2>2 DEF Fits, StateFits, TryAwaits
  <2>8. Fits(r)' /\ (RollsBack(r)' <=> RollsBack(r)) /\ KeysFit'
    BY <2>2, <2>5, <2>6, <2>7 DEF Fits, StateFits, UsersFit, KeysFit, RollsBack, TryAwaits,
       ChangeAwaits, StopAwaits
  <2>9. Cardinality(users)' = Cardinality(users) + 1
    BY <2>3, <2>5, CountOf DEF Count
  <2>10. Failed = FALSE /\ Failed' = FALSE
    BY <2>2, <2>8, OneFailed DEF Failed, RollsBack, StopAwaits
  <2>11. Documented!Join
    BY <2>2, <2>7, <2>9, <2>10 DEF Documented!Join, Failed
  <2> QED
    BY <2>8, <2>11 DEF DocStep, Documented!Next
<1>6. CASE AddPublish(r)
  <2>1. PICK u \in todo[r] :
          /\ IsLowest(u, todo[r])
          /\ \/ GoTo(r, "add_point") /\ UNCHANGED todo
             \/ NextAllocation(r, u)
    BY <1>6 DEF AddPublish
  <2>2. pc[r] = "add_pub" /\ UNCHANGED <<testState, testEpoch, users, userKeys>>
    BY <1>6 DEF AddPublish
  <2>3. CASE NextAllocation(r, u)
    BY <2>1, <2>2, <2>3, NextAllocationFits
  <2>4. CASE GoTo(r, "add_point") /\ UNCHANGED todo
    <3>1. pc'[r] = "add_point" /\ op'[r] = op[r]
      BY <2>4, GoToHere
    <3>2. AddedFirst(r)'
      BY <2>2, <2>4 DEF Fits, UsersFit, AddedFirst
    <3>3. Fits(r)' /\ (RollsBack(r)' <=> RollsBack(r))
      BY <2>2, <3>1, <3>2 DEF Fits, StateFits, UsersFit, RollsBack, TryAwaits, ChangeAwaits,
         StopAwaits
    <3> QED
      BY <2>2, <3>3, KeysStay, Stutters
  <2> QED
    BY <2>1, <2>3, <2>4
<1>7. CASE AddPoint(r)
  <2>1. PICK u \in todo[r] : IsLowest(u, todo[r]) /\ NextAllocation(r, u)
    BY <1>7 DEF AddPoint
  <2> QED
    BY <1>7, <2>1, NextAllocationFits DEF AddPoint
<1>8. CASE AddCheck(r)
  <2>1. /\ pc[r] = "add_check" /\ pc'[r] = "add_read" /\ op'[r] = op[r] /\ UNCHANGED todo
        /\ UNCHANGED <<testState, testEpoch, users, userKeys>>
    BY <1>8, GoToHere DEF AddCheck
  <2>2. AddsNext(r)'
    BY <2>1 DEF Fits, UsersFit, AddsNext
  <2>3. Fits(r)' /\ (RollsBack(r)' <=> RollsBack(r))
    BY <2>1, <2>2 DEF Fits, StateFits, UsersFit, RollsBack, TryAwaits, ChangeAwaits, StopAwaits
  <2> QED
    BY <2>1, <2>3, KeysStay, Stutters
<1>9. CASE AddAborted(r)
  BY <1>9, FinishFits DEF AddAborted
<1> QED
  BY <1>1, <1>2, <1>3, <1>4, <1>5, <1>6, <1>7, <1>8, <1>9 DEF AddUsersStep

\* change_users outside add_users.
LEMMA ChangeFits ==
    ASSUME OneSlot, OneClientInv, NEW r \in Request, ChangeStep(r)
    PROVE  Fits(r)' /\ KeysFit' /\ DocStep
<1> USE DEF OneClientInv, FenceInv, redisVars, stateKeys, userSetKeys
<1>1. CASE ChangeNothing(r)
  BY <1>1, FinishFits DEF ChangeNothing
<1>2. ASSUME ChangeUp(r) \/ ChangeDown(r)
      PROVE  \E n \in Count, t \in Count : /\ users = 1 .. n /\ Cardinality(users) = n
                                           /\ t = target[r]
  <2>1. PICK n \in Count : users = 1 .. n
    BY DEF KeysFit
  <2>2. target[r] \in Count
    BY DEF TypeOK, RequestTypeOK, Count
  <2> QED
    BY <2>1, <2>2, CountOf DEF Count
<1>3. CASE ChangeUp(r)
  <2>1. PICK n \in Count, t \in Count : users = 1 .. n /\ Cardinality(users) = n /\ t = target[r]
    BY <1>2, <1>3
  <2>2. /\ pc[r] = "change_list" /\ pc'[r] = "add_scan" /\ op'[r] = op[r] /\ n < t
        /\ todo'[r] = NewUserIds(1 .. n, t - n)
        /\ UNCHANGED <<testState, testEpoch, users, userKeys>>
    BY <1>3, <2>1, GoToHere, SetHere DEF ChangeUp, Count
  <2>3. t - n \in Nat /\ n + (t - n) = t
    BY <2>2 DEF Count
  <2>4. todo'[r] = n + 1 .. t
    BY <2>2, <2>3, NewIds DEF Count
  <2>5. AddsNext(r)'
    BY <2>1, <2>2, <2>4 DEF AddsNext
  <2>6. Fits(r)' /\ (RollsBack(r)' <=> RollsBack(r))
    BY <2>2, <2>5 DEF Fits, StateFits, UsersFit, RollsBack, TryAwaits, ChangeAwaits, StopAwaits
  <2> QED
    BY <2>2, <2>6, KeysStay, Stutters
<1>4. CASE ChangeDown(r)
  <2>1. PICK n \in Count, t \in Count : users = 1 .. n /\ Cardinality(users) = n /\ t = target[r]
    BY <1>2, <1>4
  <2>2. /\ pc[r] = "change_list" /\ pc'[r] = "rem_read" /\ op'[r] = op[r] /\ t < n
        /\ todo'[r] = UsersForRemoval(1 .. n, n - t)
        /\ UNCHANGED <<testState, testEpoch, users, userKeys>>
    BY <1>4, <2>1, GoToHere, SetHere DEF ChangeDown
  <2>3. todo'[r] = t + 1 .. n
    BY <2>2, RemovalIds DEF Count
  <2>4. t + 1 \in Count /\ 0 < t + 1 /\ t + 1 <= n
    BY <2>2 DEF Count
  <2>5. RemovesLast(r)'
    BY <2>1, <2>2, <2>3, <2>4 DEF RemovesLast
  <2>6. Fits(r)' /\ (RollsBack(r)' <=> RollsBack(r))
    BY <2>2, <2>5 DEF Fits, StateFits, UsersFit, RollsBack, TryAwaits, ChangeAwaits, StopAwaits
  <2> QED
    BY <2>2, <2>6, KeysStay, Stutters
<1>5. ~SkipMissing(r)
  <2>1. SUFFICES ASSUME SkipMissing(r) PROVE FALSE
    OBVIOUS
  <2>2. PICK u \in todo[r] : u \notin users
    BY <2>1 DEF SkipMissing, KeysFit
  <2>3. PICK n \in Count, m \in Count : 0 < m /\ users = 1 .. n /\ todo[r] = m .. n
    BY <2>1 DEF SkipMissing, Fits, UsersFit, RemovesLast
  <2> QED
    BY <2>2, <2>3 DEF Count
<1>6. CASE RemoveFound(r) \/ PublishRemove(r) \/ RemoveRead(r)
  <2>1. /\ \/ pc[r] = "rem_read" /\ pc'[r] = "rem_pub"
           \/ pc[r] = "rem_pub" /\ pc'[r] = "rem_hget"
           \/ pc[r] = "rem_hget" /\ pc'[r] = "rem_write"
        /\ op'[r] = op[r] /\ UNCHANGED todo
        /\ UNCHANGED <<testState, testEpoch, users, userKeys>>
    BY <1>6, GoToHere DEF RemoveFound, PublishRemove, RemoveRead
  <2>2. RemovesLast(r)'
    BY <2>1 DEF Fits, UsersFit, RemovesLast
  <2>3. Fits(r)' /\ (RollsBack(r)' <=> RollsBack(r))
    BY <2>1, <2>2 DEF Fits, StateFits, UsersFit, RollsBack, TryAwaits, ChangeAwaits, StopAwaits
  <2> QED
    BY <2>1, <2>3, KeysStay, Stutters
<1>7. CASE RemoveWrite(r)
  <2>1. PICK u \in todo[r] : /\ IsHighest(u, todo[r])
                             /\ RemoveUserAssignment(u, found[r])
                             /\ todo' = [todo EXCEPT ![r] = @ \ {u}]
                             /\ GoTo(r, NextRemoval(r, u))
    BY <1>7 DEF RemoveWrite
  <2>2. /\ pc[r] = "rem_write" /\ op'[r] = op[r] /\ todo'[r] = todo[r] \ {u}
        /\ pc'[r] = IF todo[r] = {u} THEN "rem_point" ELSE "rem_read"
        /\ UNCHANGED <<testState, testEpoch>>
    BY <1>7, <2>1, GoToHere, SetHere DEF RemoveWrite, NextRemoval
  <2>3. PICK n \in Count, m \in Count : 0 < m /\ m <= n /\ users = 1 .. n /\ todo[r] = m .. n
    BY <2>2 DEF Fits, UsersFit, RemovesLast
  <2>4. u = n
    BY <2>1, <2>3, HighestOf DEF Count
  <2>5. PICK k \in Count : k = n - 1
    BY <2>3 DEF Count
  <2>6. users' = 1 .. k /\ userKeys' = users' /\ todo'[r] = m .. k
    <3>1. (1 .. n) \ {n} = 1 .. k /\ (m .. n) \ {n} = m .. k
      BY <2>3, <2>5 DEF Count
    <3>2. users' = users \ {u} /\ userKeys' = userKeys \ {u} /\ userKeys = users
      BY <2>1 DEF RemoveUserAssignment, KeysFit
    <3> QED
      BY <2>2, <2>3, <2>4, <3>1, <3>2
  <2>7. pc'[r] = "rem_read" => RemovesLast(r)'
    <3>1. CASE m = n
      <4>1. todo[r] = {u}
        BY <2>3, <2>4, <3>1 DEF Count
      <4> QED
        BY <2>2, <4>1
    <3>2. CASE m < n
      <4>1. m <= k
        BY <2>5, <3>2 DEF Count
      <4> QED
        BY <2>3, <2>6, <4>1 DEF RemovesLast
    <3> QED
      BY <2>3, <3>1, <3>2 DEF Count
  <2>8. testState = "RUNNING" /\ op[r] # "start"
    BY <2>2 DEF Fits, StateFits, ChangeAwaits
  <2>9. Fits(r)' /\ KeysFit'
    BY <2>2, <2>6, <2>7, <2>8 DEF Fits, StateFits, UsersFit, KeysFit, TryAwaits, ChangeAwaits,
       StopAwaits
  <2>10. Cardinality(users)' = Cardinality(users) - 1 /\ Cardinality(users) > 0
    BY <2>3, <2>5, <2>6, CountOf DEF Count
  <2>11. Failed = FALSE /\ Failed' = FALSE
    BY <2>2, <2>8, OneFailed DEF Failed, RollsBack
  <2>12. Documented!Leave
    BY <2>2, <2>8, <2>10, <2>11 DEF Documented!Leave, Failed
  <2> QED
    BY <2>9, <2>12 DEF DocStep, Documented!Next
<1>8. CASE RemovePoint(r)
  BY <1>8, FinishFits DEF RemovePoint
<1> QED
  BY <1>1, <1>3, <1>4, <1>5, <1>6, <1>7, <1>8 DEF ChangeStep

-----------------------------------------------------------------------------
\* What a handler does not control.
LEMMA FaultFits ==
    ASSUME OneSlot, OneClientInv, Fault
    PROVE  (\A r \in Request : Fits(r)') /\ KeysFit' /\ DocStep
<1> USE DEF OneClientInv, FenceInv, redisVars, stateKeys, userSetKeys
<1>1. ASSUME NEW r \in Request, RedisError(r)
      PROVE  Fits(r)' /\ KeysFit' /\ DocStep
  BY <1>1, RaiseFits DEF RedisError
<1>2. ASSUME NEW r \in Request, ClaimAnswerLost(r)
      PROVE  Fits(r)' /\ KeysFit' /\ DocStep
  BY <1>2, FinishFits DEF ClaimAnswerLost
<1>3. ASSUME NEW r \in Request, CommitAnswerLost(r)
      PROVE  Fits(r)' /\ KeysFit' /\ DocStep
  <2>1. pc[r] = "commit" /\ op[r] = "start" /\ testState = "PREPARING"
    BY <1>3 DEF CommitAnswerLost, Fits, StateFits, UsersFit, TryAwaits
  <2>2. /\ pc'[r] = "stop_scan" /\ op'[r] = "start"
        /\ testState' = "RUNNING" /\ UNCHANGED <<testEpoch, users, userKeys>>
    BY <1>3, <2>1 DEF CommitAnswerLost, CompareAndSetState, Continues, TypeOK, RequestTypeOK
  <2>3. Fits(r)' /\ KeysFit'
    BY <2>2 DEF Fits, StateFits, UsersFit, KeysFit, TryAwaits, ChangeAwaits, StopAwaits
  <2>4. Failed = FALSE /\ Failed' = TRUE
    BY <2>1, <2>2, OneFailed DEF Failed, RollsBack, StopAwaits
  <2>5. Cardinality(users)' = Cardinality(users)
    BY <2>2
  <2>6. Documented!Fail
    BY <2>1, <2>2, <2>4, <2>5 DEF Documented!Fail, Failed
  <2> QED
    BY <2>3, <2>6 DEF DocStep, Documented!Next
<1>4. CASE OrchestratorCrash
  <2>1. /\ \A r \in Request : pc'[r] = "idle" /\ op'[r] = "none"
        /\ UNCHANGED <<testState, testEpoch, users, userKeys>>
    BY <1>4 DEF OrchestratorCrash
  <2>2. \A r \in Request : Fits(r)'
    BY <2>1 DEF Fits, StateFits, UsersFit, TryAwaits, ChangeAwaits, StopAwaits
  <2>3. Failed' = FALSE
    BY <2>1 DEF Failed, RollsBack
  <2>4. Cardinality(users)' = Cardinality(users)
    BY <2>1
  <2>5. ASSUME Failed PROVE DocStep
    <3>1. Documented!GiveUp
      BY <2>1, <2>3, <2>4, <2>5 DEF Documented!GiveUp, Failed
    <3> QED
      BY <3>1 DEF DocStep, Documented!Next
  <2>6. ASSUME ~Failed PROVE DocStep
    <3>1. Failed = FALSE
      BY <2>6 DEF Failed
    <3> QED
      BY <2>1, <2>3, <2>4, <3>1 DEF DocStep
  <2> QED
    BY <2>1, <2>2, <2>5, <2>6, KeysStay
<1>5. ASSUME NEW r \in Request, Fits(r)'
      PROVE  \A s \in Request : Fits(s)'
  BY <1>5, OneFits
<1> QED
  BY <1>1, <1>2, <1>3, <1>4, <1>5 DEF Fault

LEMMA OneClientInit == Init => OneClientInv
<1> SUFFICES ASSUME Init PROVE OneClientInv
  OBVIOUS
<1>1. KeysFit
  <2>1. 0 \in Count /\ {} = 1 .. 0
    BY DEF Count
  <2> QED
    BY <2>1 DEF Init, RedisInit, KeysFit
<1>2. ASSUME NEW r \in Request PROVE Fits(r)
  BY DEF Init, RequestInit, Fits, StateFits, UsersFit, TryAwaits, ChangeAwaits, StopAwaits
<1> QED
  BY <1>1, <1>2, FenceInit DEF OneClientInv

LEMMA OneClientStep ==
    ASSUME OneSlot
    PROVE  OneClientInv /\ [Next]_vars => OneClientInv' /\ DocStep
<1> SUFFICES ASSUME OneClientInv, [Next]_vars PROVE OneClientInv' /\ DocStep
  OBVIOUS
<1>1. FenceInv'
  BY FenceStep DEF OneClientInv
<1>2. ASSUME NEW r \in Request, Submit(r) \/ Handle(r)
      PROVE  (\A s \in Request : Fits(s)') /\ KeysFit' /\ DocStep
  <2>1. Fits(r)' /\ KeysFit' /\ DocStep
    BY <1>2, SubmitFits, StartFits, AddFits, StopFits, ChangeFits DEF Handle
  <2> QED
    BY <2>1, OneFits
<1>3. CASE (\E w \in Worker : Flap(w)) \/ Rest \/ UNCHANGED vars
  <2>1. UNCHANGED <<testState, testEpoch, users, userKeys, requestVars>>
    BY <1>3 DEF Flap, Rest, vars, redisVars, stateKeys, userSetKeys
  <2>2. \A r \in Request : Fits(r)'
    BY <2>1 DEF OneClientInv, Fits, StateFits, UsersFit, AddsNext, AddedFirst, RemovesLast,
       requestVars
  <2>3. Failed' = Failed
    BY <2>1 DEF Failed, RollsBack, requestVars
  <2>4. Cardinality(users)' = Cardinality(users)
    BY <2>1
  <2>5. DocStep
    BY <2>1, <2>3, <2>4 DEF DocStep
  <2> QED
    BY <1>1, <2>1, <2>2, <2>5, KeysStay DEF OneClientInv
<1>4. CASE OrchestratorNext
  BY <1>1, <1>2, <1>4, FaultFits DEF OrchestratorNext, OneClientInv
<1> QED
  BY <1>3, <1>4 DEF Next

LEMMA OneClientInvariant ==
    ASSUME OneSlot
    PROVE  Spec => []OneClientInv
<1>1. OneClientInv /\ [Next]_vars => OneClientInv'
  BY OneClientStep
<1> QED
  BY <1>1, OneClientInit, PTL DEF Spec

(***************************************************************************)
(* For a client that sends one request at a time: hashes and members agree *)
(* at every await, and the ids in use are 1 .. n, whatever add_users,      *)
(* remove_users, a rollback or a restart leaves unfinished.                *)
(***************************************************************************)
THEOREM UsersStayContiguous ==
    ASSUME OneSlot
    PROVE  Spec => []ContiguousUsers
<1>1. OneClientInv => ContiguousUsers
  BY CountOf DEF OneClientInv, KeysFit, ContiguousUsers, Count
<1> QED
  BY <1>1, OneClientInvariant, PTL

(***************************************************************************)
(* For such a client start_test, change_users and stop_test implement      *)
(* TestLifecycle: members join and leave one by one while the test is      *)
(* active, and IDLE is reached with nobody left, through any error.        *)
(***************************************************************************)
THEOREM LifecycleImplements ==
    ASSUME OneSlot
    PROVE  Spec => ImplementsLifecycle
<1>1. Init => Documented!Init
  <2>1. SUFFICES ASSUME Init PROVE Documented!Init
    OBVIOUS
  <2>2. Failed = FALSE
    BY <2>1 DEF Init, RequestInit, Failed, RollsBack
  <2> QED
    BY <2>1, <2>2, FS_EmptySet DEF Init, RedisInit, Documented!Init, Failed
<1>2. OneClientInv /\ [Next]_vars => [Documented!Next]_(Documented!vars)
  BY OneClientStep DEF DocStep, Documented!vars, Failed
<1> QED
  BY <1>1, <1>2, OneClientInvariant, PTL DEF Spec, ImplementsLifecycle, Documented!Spec

-----------------------------------------------------------------------------
(***************************************************************************)
(* What the workers have heard.  CommandsInOrder alone is not inductive:   *)
(* that a user is announced after the start of its test needs that every   *)
(* worker the handler may choose has heard that start.  That nothing       *)
(* follows a stop needs that a RUNNING test some worker was told to stop   *)
(* is being rolled back, or has met two faults: one hid its commit, and    *)
(* one broke the rollback off.                                             *)
(***************************************************************************)
\* The awaits of a start whose start_test has been published to all it scanned.
Told == TryAwaits \ {"prepare", "start_scan", "start_pub"}

\* The awaits at which the handler has the epoch of the test.
Informed == TryAwaits \union (StopAwaits \ {"stop_cas", "stop_epoch"})
              \union (ChangeAwaits \ {"change_epoch"})

\* Worker w was sent a command of this type under the epoch of the test.
Heard(w, type) ==
    \E i \in 1 .. Len(commands[w]) : /\ commands[w][i].type = type
                                     /\ commands[w][i].epoch = testEpoch

AllHeardStart == \A w \in Worker : Heard(w, "start_test")

\* What the handler of r knows of the channels, at the await it is at.
ChannelFits(r) ==
    /\ pc[r] \in Informed => reqEpoch[r] = testEpoch
    /\ op[r] = "start" /\ pc[r] \in TryAwaits => \A w \in Worker : ~Heard(w, "stop_test")
    /\ RollsBack(r) /\ testState = "RUNNING" => faults >= 1
    /\ flaps = 0 /\ pc[r] = "start_pub" =>
          \A w \in Worker \ recipients[r] : Heard(w, "start_test")
    /\ flaps = 0 /\ op[r] = "start" /\ pc[r] \in Told => AllHeardStart

\* Every worker is registered and listens; only a late heartbeat hides one.
Presence ==
    /\ workers = Worker /\ subscribed = Worker
    /\ flaps = 0 => \A w \in Worker : heartbeat[w] = "healthy"

\* What the channels hold, whoever is at work.
ChannelsFit ==
    /\ Presence
    /\ flaps = 0 /\ testState = "RUNNING" => AllHeardStart
    /\ testState = "RUNNING" /\ (\E w \in Worker : Heard(w, "stop_test"))
         => faults >= 2 \/ \E r \in Request : RollsBack(r)
    /\ CommandsInOrder

ChannelInv == OneClientInv /\ ChannelsFit /\ \A r \in Request : ChannelFits(r)


-----------------------------------------------------------------------------

\* What is heard, and in which order, only a command or a new epoch changes.
LEMMA HeardSame ==
    ASSUME UNCHANGED <<commands, testEpoch>>, NEW w, NEW type
    PROVE  Heard(w, type)' <=> Heard(w, type)
  BY DEF Heard

LEMMA OrderStays ==
    ASSUME CommandsInOrder, UNCHANGED commands, flaps' = 0 => flaps = 0,
           faults \in Nat, faults' \in Nat, faults <= faults'
    PROVE  CommandsInOrder'
<1>1. NothingAfterStop'
  BY DEF CommandsInOrder, NothingAfterStop
<1>2. StartBeforeAdd'
  <2>1. CASE flaps' = 0
    <3>1. StartBeforeAdd /\ flaps = 0 /\ commands' = commands
      BY <2>1 DEF CommandsInOrder
    <3>2. SUFFICES ASSUME NEW w \in Worker, NEW j \in 1 .. Len(commands'[w]),
                          commands'[w][j].type = "add_user"
                   PROVE  \E i \in 1 .. j - 1 : /\ commands'[w][i].type = "start_test"
                                                /\ commands'[w][i].epoch = commands'[w][j].epoch
      BY DEF StartBeforeAdd
    <3>3. j \in 1 .. Len(commands[w]) /\ commands[w][j].type = "add_user"
      BY <3>1, <3>2
    <3>4. PICK i \in 1 .. j - 1 : /\ commands[w][i].type = "start_test"
                                 /\ commands[w][i].epoch = commands[w][j].epoch
      BY <3>1, <3>3, Zenon DEF StartBeforeAdd
    <3> QED
      BY <3>1, <3>4
  <2> QED
    BY <2>1 DEF StartBeforeAdd
<1> QED
  BY <1>1, <1>2 DEF CommandsInOrder

\* What publishing under the epoch of the test does to a channel.
LEMMA PublishAppends ==
    ASSUME TypeOK, subscribed = Worker, NEW w \in Worker, NEW type, NEW e, NEW u,
           Publish(w, type, e, u), [type |-> type, epoch |-> e, user |-> u] \in Command
    PROVE  /\ \A v \in Worker \ {w} : commands'[v] = commands[v]
           /\ commands'[w] \in Seq(Command) /\ Len(commands'[w]) = Len(commands[w]) + 1
           /\ Len(commands[w]) \in Nat
           /\ \A i \in 1 .. Len(commands[w]) : commands'[w][i] = commands[w][i]
           /\ commands'[w][Len(commands[w]) + 1] = [type |-> type, epoch |-> e, user |-> u]
<1> DEFINE msg == [type |-> type, epoch |-> e, user |-> u]
<1>1. commands \in [Worker -> Seq(Command)] /\ msg \in Command
  BY DEF TypeOK, RedisTypeOK
<1>2. commands' = [commands EXCEPT ![w] = Append(@, msg)]
  BY DEF Publish
<1> HIDE DEF msg
<1>3. commands'[w] = Append(commands[w], msg) /\ commands[w] \in Seq(Command)
  BY <1>1, <1>2
<1>4. \A v \in Worker \ {w} : commands'[v] = commands[v]
  BY <1>1, <1>2
<1> QED
  BY <1>1, <1>3, <1>4 DEF msg

\* Publishing adds the command to what its addressee has heard, and nothing else.
LEMMA PublishHeard ==
    ASSUME TypeOK, subscribed = Worker, NEW w \in Worker, NEW type, NEW u,
           Publish(w, type, testEpoch, u), UNCHANGED testEpoch,
           [type |-> type, epoch |-> testEpoch, user |-> u] \in Command,
           NEW v \in Worker, NEW t
    PROVE  Heard(v, t)' <=> Heard(v, t) \/ (v = w /\ t = type)
<1> DEFINE msg == [type |-> type, epoch |-> testEpoch, user |-> u]
<1>1. /\ v # w => commands'[v] = commands[v]
      /\ commands'[w] \in Seq(Command) /\ Len(commands'[w]) = Len(commands[w]) + 1
      /\ Len(commands[w]) \in Nat
      /\ \A i \in 1 .. Len(commands[w]) : commands'[w][i] = commands[w][i]
      /\ commands'[w][Len(commands[w]) + 1] = msg
  BY PublishAppends
<1>2. msg.type = type /\ msg.epoch = testEpoch
  OBVIOUS
<1> HIDE DEF msg
<1>3. CASE v # w
  BY <1>1, <1>3 DEF Heard
<1>4. CASE v = w
  <2>1. ASSUME Heard(w, t)' PROVE Heard(w, t) \/ t = type
    <3>1. PICK i \in 1 .. Len(commands[w]) + 1 :
                 commands'[w][i].type = t /\ commands'[w][i].epoch = testEpoch
      BY <1>1, <2>1 DEF Heard
    <3>2. CASE i = Len(commands[w]) + 1
      BY <1>1, <1>2, <3>1, <3>2
    <3>3. CASE i # Len(commands[w]) + 1
      <4>1. i \in 1 .. Len(commands[w]) /\ commands'[w][i] = commands[w][i]
        <5>1. Len(commands[w]) \in Nat /\ i \in 1 .. Len(commands[w]) + 1
          BY <1>1
        <5>2. i \in 1 .. Len(commands[w])
          BY <3>3, <5>1
        <5> QED
          BY <1>1, <5>2
      <4> QED
        BY <3>1, <4>1 DEF Heard
    <3> QED
      BY <3>2, <3>3
  <2>2. ASSUME Heard(w, t) PROVE Heard(w, t)'
    BY <1>1, <2>2 DEF Heard
  <2>3. ASSUME t = type PROVE Heard(w, t)'
    <3>1. Len(commands[w]) + 1 \in 1 .. Len(commands'[w])
      BY <1>1
    <3> QED
      BY <1>1, <1>2, <2>3, <3>1 DEF Heard
  <2> QED
    BY <1>4, <2>1, <2>2, <2>3
<1> QED
  BY <1>3, <1>4

\* A command in its turn: no start after a stop, no user before the start.
LEMMA PublishInOrder ==
    ASSUME TypeOK, subscribed = Worker, CommandsBehind, CommandsInOrder,
           NEW w \in Worker, NEW type, NEW u,
           Publish(w, type, testEpoch, u), UNCHANGED <<testEpoch, faults, flaps>>,
           [type |-> type, epoch |-> testEpoch, user |-> u] \in Command,
           Heard(w, "stop_test") => type # "start_test" /\ (faults < 2 => type = "stop_test"),
           flaps = 0 /\ type = "add_user" => Heard(w, "start_test")
    PROVE  CommandsInOrder'
<1> DEFINE msg == [type |-> type, epoch |-> testEpoch, user |-> u]
           n   == Len(commands[w])
<1>1. /\ \A v \in Worker \ {w} : commands'[v] = commands[v]
      /\ Len(commands'[w]) = n + 1 /\ n \in Nat
      /\ \A i \in 1 .. n : commands'[w][i] = commands[w][i]
      /\ commands'[w][n + 1] = msg
  BY PublishAppends
<1>2. msg.type = type /\ msg.epoch = testEpoch
  OBVIOUS
<1>3. \A i \in 1 .. n : commands[w][i].epoch \in Nat /\ commands[w][i].epoch <= testEpoch
  <2>1. commands[w] \in Seq(Command)
    BY DEF TypeOK, RedisTypeOK
  <2>2. \A i \in 1 .. n : commands[w][i] \in Command
    BY <1>1, <2>1
  <2> QED
    BY <2>2 DEF CommandsBehind, Command
<1>4. testEpoch \in Nat
  BY DEF TypeOK, RedisTypeOK
<1>5. Heard(w, "stop_test") <=> \E i \in 1 .. n : commands[w][i].type = "stop_test" /\ commands[w][i].epoch = testEpoch
  BY DEF Heard
<1>6. Heard(w, "start_test") <=> \E i \in 1 .. n : commands[w][i].type = "start_test" /\ commands[w][i].epoch = testEpoch
  BY DEF Heard
<1> HIDE DEF msg, n
<1>7. NothingAfterStop'
  <2>1. SUFFICES ASSUME NEW v \in Worker, NEW i \in 1 .. Len(commands'[v]),
                        NEW j \in 1 .. Len(commands'[v]), i < j,
                        commands'[v][i].type = "stop_test",
                        commands'[v][j].epoch <= commands'[v][i].epoch
                 PROVE  /\ commands'[v][j].type # "start_test"
                        /\ faults < 2 => commands'[v][j].type = "stop_test"
    BY DEF NothingAfterStop
  <2>2. CASE v # w
    BY <1>1, <2>1, <2>2 DEF CommandsInOrder, NothingAfterStop
  <2>3. CASE v = w /\ j # n + 1
    <3>1. i \in 1 .. n /\ j \in 1 .. n
      BY <1>1, <2>1, <2>3
    <3>2. commands'[v][i] = commands[w][i] /\ commands'[v][j] = commands[w][j]
      BY <1>1, <2>3, <3>1
    <3> QED
      BY <2>1, <3>1, <3>2 DEF CommandsInOrder, NothingAfterStop, n
  <2>4. CASE v = w /\ j = n + 1
    <3>1. i \in 1 .. n /\ commands'[v][i] = commands[w][i] /\ commands'[v][j] = msg
      BY <1>1, <2>1, <2>4
    <3>2. commands[w][i].epoch = testEpoch
      BY <1>2, <1>3, <1>4, <2>1, <3>1
    <3>3. Heard(w, "stop_test")
      BY <1>5, <2>1, <3>1, <3>2
    <3> QED
      BY <1>2, <3>1, <3>3
  <2> QED
    BY <2>2, <2>3, <2>4
<1>8. StartBeforeAdd'
  <2>1. SUFFICES ASSUME flaps = 0, NEW v \in Worker, NEW j \in 1 .. Len(commands'[v]),
                        commands'[v][j].type = "add_user"
                 PROVE  \E i \in 1 .. j - 1 : /\ commands'[v][i].type = "start_test"
                                              /\ commands'[v][i].epoch = commands'[v][j].epoch
    BY DEF StartBeforeAdd
  <2>2. CASE v # w
    <3>1. commands'[v] = commands[v]
      BY <1>1, <2>2
    <3>2. j \in 1 .. Len(commands[v]) /\ commands[v][j].type = "add_user"
      BY <2>1, <3>1
    <3>3. PICK i \in 1 .. j - 1 : /\ commands[v][i].type = "start_test"
                                 /\ commands[v][i].epoch = commands[v][j].epoch
      BY <2>1, <3>2, Zenon DEF CommandsInOrder, StartBeforeAdd
    <3> QED
      BY <3>1, <3>3
  <2>3. CASE v = w /\ j # n + 1
    <3>1. j \in 1 .. n /\ commands'[v][j] = commands[w][j]
      BY <1>1, <2>1, <2>3
    <3>2. PICK i \in 1 .. j - 1 : /\ commands[w][i].type = "start_test"
                                  /\ commands[w][i].epoch = commands[w][j].epoch
      BY <2>1, <3>1 DEF CommandsInOrder, StartBeforeAdd, n
    <3>3. commands'[v][i] = commands[w][i]
      BY <1>1, <2>3, <3>1
    <3> QED
      BY <3>1, <3>2, <3>3
  <2>4. CASE v = w /\ j = n + 1
    <3>1. commands'[v][j] = msg
      BY <1>1, <2>4
    <3>2. PICK i \in 1 .. n : commands[w][i].type = "start_test" /\ commands[w][i].epoch = testEpoch
      BY <1>2, <1>6, <2>1, <3>1
    <3>3. i \in 1 .. j - 1 /\ commands'[v][i] = commands[w][i]
      BY <1>1, <2>4
    <3> QED
      BY <1>2, <3>1, <3>2, <3>3
  <2> QED
    BY <2>2, <2>3, <2>4
<1> QED
  BY <1>7, <1>8 DEF CommandsInOrder

\* With one slot, what holds of its handler holds of every handler.
LEMMA OneChannelFits ==
    ASSUME OneSlot, NEW r \in Request, ChannelFits(r)'
    PROVE  \A s \in Request : ChannelFits(s)'
  BY DEF OneSlot

LEMMA OneRollsBack ==
    ASSUME OneSlot, NEW r \in Request
    PROVE  /\ (\E s \in Request : RollsBack(s)) <=> RollsBack(r)
           /\ (\E s \in Request : RollsBack(s)') <=> RollsBack(r)'
  BY DEF OneSlot

\* What each step owes: the part of the invariant that is about channels.
ChannelStep(r) == ChannelsFit' /\ ChannelFits(r)'

\* A step that tells the workers nothing and stays in its part of the handler.
LEMMA QuietStep ==
    ASSUME OneSlot, ChannelInv, NEW r \in Request,
           UNCHANGED <<stateKeys, presenceKeys, commands, faults, flaps>>,
           op'[r] = op[r], reqEpoch'[r] = reqEpoch[r], pc'[r] # "start_pub",
           pc'[r] \in Informed => pc[r] \in Informed,
           op[r] = "start" => /\ pc'[r] \in TryAwaits => pc[r] \in TryAwaits
                              /\ pc'[r] \in Told => pc[r] \in Told
                              /\ pc'[r] \in StopAwaits <=> pc[r] \in StopAwaits
    PROVE  ChannelStep(r)
<1> USE DEF ChannelInv
<1>1. \A w \in Worker : \A t \in {"start_test", "stop_test"} : Heard(w, t)' <=> Heard(w, t)
  BY HeardSame DEF stateKeys
<1>2. AllHeardStart' <=> AllHeardStart
  BY <1>1 DEF AllHeardStart
<1>3. RollsBack(r)' <=> RollsBack(r)
  BY DEF RollsBack
<1>4. CommandsInOrder'
  BY OrderStays DEF ChannelsFit, OneClientInv, FenceInv, TypeOK
<1>5. Presence'
  BY DEF ChannelsFit, Presence, presenceKeys
<1>6. ChannelsFit'
  BY <1>1, <1>2, <1>3, <1>4, <1>5, OneRollsBack DEF ChannelsFit, stateKeys
<1>7. ChannelFits(r)'
  BY <1>1, <1>2, <1>3 DEF ChannelFits, stateKeys
<1> QED
  BY <1>6, <1>7 DEF ChannelStep

\* A handler that ends; only one fault more ends a rollback early.
LEMMA QuietEnd ==
    ASSUME OneSlot, ChannelInv, NEW r \in Request,
           UNCHANGED <<stateKeys, presenceKeys, commands, flaps>>,
           pc'[r] = "idle", op'[r] = "none",
           \/ faults' = faults /\ ~RollsBack(r)
           \/ faults' = faults + 1
    PROVE  ChannelStep(r)
<1> USE DEF ChannelInv
<1>1. \A w \in Worker : \A t \in {"start_test", "stop_test"} : Heard(w, t)' <=> Heard(w, t)
  BY HeardSame DEF stateKeys
<1>2. AllHeardStart' <=> AllHeardStart
  BY <1>1 DEF AllHeardStart
<1>3. ~RollsBack(r)' /\ faults \in Nat
  BY DEF RollsBack, OneClientInv, FenceInv, TypeOK
<1>4. CommandsInOrder'
  BY <1>3, OrderStays DEF ChannelsFit
<1>5. Presence'
  BY DEF ChannelsFit, Presence, presenceKeys
<1>6. testState = "RUNNING" /\ (\E w \in Worker : Heard(w, "stop_test")) => faults' >= 2
  BY <1>3, OneRollsBack DEF ChannelsFit, ChannelFits
<1>7. ChannelsFit'
  BY <1>1, <1>2, <1>4, <1>5, <1>6 DEF ChannelsFit, stateKeys
<1>8. ChannelFits(r)'
  BY <1>3 DEF ChannelFits, Informed, Told, TryAwaits, StopAwaits, ChangeAwaits
<1> QED
  BY <1>7, <1>8 DEF ChannelStep

\* A request that is accepted and has yet to learn the epoch.
LEMMA QuietSubmit ==
    ASSUME OneSlot, ChannelInv, NEW r \in Request,
           UNCHANGED <<stateKeys, presenceKeys, commands, faults, flaps>>,
           pc[r] = "idle", pc'[r] \in {"change_epoch", "stop_cas"}, op'[r] \in {"change", "stop"}
    PROVE  ChannelStep(r)
<1> USE DEF ChannelInv
<1>1. \A w \in Worker : \A t \in {"start_test", "stop_test"} : Heard(w, t)' <=> Heard(w, t)
  BY HeardSame DEF stateKeys
<1>2. AllHeardStart' <=> AllHeardStart
  BY <1>1 DEF AllHeardStart
<1>3. ~RollsBack(r) /\ ~RollsBack(r)'
  BY DEF RollsBack, StopAwaits
<1>4. CommandsInOrder'
  BY OrderStays DEF ChannelsFit, OneClientInv, FenceInv, TypeOK
<1>5. Presence'
  BY DEF ChannelsFit, Presence, presenceKeys
<1>6. ChannelsFit'
  BY <1>1, <1>2, <1>3, <1>4, <1>5, OneRollsBack DEF ChannelsFit, stateKeys
<1>7. ChannelFits(r)'
  BY <1>3 DEF ChannelFits, Informed, Told, TryAwaits, StopAwaits, ChangeAwaits
<1> QED
  BY <1>6, <1>7 DEF ChannelStep

\* An exception.
LEMMA QuietRaise ==
    ASSUME OneSlot, ChannelInv, NEW r \in Request, Raise(r), UNCHANGED redisVars,
           \/ faults' = faults /\ ~RollsBack(r)
           \/ faults' = faults + 1
    PROVE  ChannelStep(r)
<1> USE DEF ChannelInv, redisVars
<1>1. CASE Finish(r)
  <2>1. pc'[r] = "idle" /\ op'[r] = "none" /\ UNCHANGED flaps
    BY <1>1 DEF Finish, OneClientInv, FenceInv, TypeOK, RequestTypeOK
  <2> QED
    BY <2>1, QuietEnd
<1>2. ASSUME NEW a \in {"stop_scan", "clear_list"}, op[r] = "start", Continues(r, a),
             pc[r] \in TryAwaits \union {"stop_scan", "stop_pub"}
      PROVE  ChannelStep(r)
  <2>1. /\ pc'[r] = a /\ op'[r] = "start" /\ reqEpoch' = reqEpoch
        /\ UNCHANGED <<testState, testEpoch, commands, flaps>>
    BY <1>2 DEF Continues, OneClientInv, FenceInv, TypeOK, RequestTypeOK, stateKeys
  <2>2. \A w \in Worker : \A t \in {"start_test", "stop_test"} : Heard(w, t)' <=> Heard(w, t)
    BY <2>1, HeardSame
  <2>3. AllHeardStart' <=> AllHeardStart
    BY <2>2 DEF AllHeardStart
  <2>4. RollsBack(r)' /\ faults \in Nat /\ faults' \in Nat /\ faults <= faults'
    BY <2>1 DEF RollsBack, StopAwaits, OneClientInv, FenceInv, TypeOK
  <2>5. CommandsInOrder'
    BY <2>1, <2>4, OrderStays DEF ChannelsFit
  <2>6. Presence'
    BY <2>1 DEF ChannelsFit, Presence, presenceKeys
  <2>7. ChannelsFit'
    BY <2>1, <2>2, <2>3, <2>4, <2>5, <2>6, OneRollsBack DEF ChannelsFit
  <2>8. reqEpoch[r] = testEpoch
    BY <1>2 DEF ChannelFits, Informed, TryAwaits, StopAwaits
  <2>9. testState = "RUNNING" => faults >= 1
    BY <1>2 DEF ChannelFits, OneClientInv, Fits, StateFits, RollsBack, StopAwaits
  <2>10. ChannelFits(r)'
    BY <2>1, <2>4, <2>8, <2>9 DEF ChannelFits, Told, TryAwaits, StopAwaits
  <2> QED
    BY <2>7, <2>10 DEF ChannelStep
<1> QED
  BY <1>1, <1>2 DEF Raise

-----------------------------------------------------------------------------
\* A new request; a new test has a new epoch, of which nobody has heard.
LEMMA SubmitChannels ==
    ASSUME OneSlot, ChannelInv, NEW r \in Request, Submit(r)
    PROVE  ChannelStep(r)
<1> USE DEF ChannelInv, OneClientInv, FenceInv
<1>1. ASSUME NEW n \in Targets, NEW p \in BOOLEAN, StartTest(r, n, p)
      PROVE  ChannelStep(r)
  <2>1. /\ pc'[r] = "prepare" /\ op'[r] = "start" /\ reqEpoch'[r] = testEpoch + 1
        /\ testState' = "PREPARING" /\ testEpoch' = testEpoch + 1 /\ testEpoch \in Nat
        /\ UNCHANGED <<commands, presenceKeys, faults, flaps>>
    BY <1>1 DEF StartTest, StartPreparingAndBumpEpoch, Accept, TypeOK, RequestTypeOK, RedisTypeOK
  <2>2. \A w \in Worker : ~Heard(w, "stop_test")'
    <3>1. ASSUME NEW w \in Worker, NEW i \in 1 .. Len(commands[w])
          PROVE  commands[w][i].epoch # testEpoch + 1
      <4>1. commands[w] \in Seq(Command)
        BY DEF TypeOK, RedisTypeOK
      <4>2. commands[w][i] \in Command
        BY <4>1
      <4>3. commands[w][i].epoch \in Nat /\ commands[w][i].epoch <= testEpoch
        BY <4>2 DEF EpochFence, CommandsBehind, Command
      <4> QED
        BY <2>1, <4>3
    <3> QED
      BY <2>1, <3>1 DEF Heard
  <2>3. CommandsInOrder'
    BY <2>1, OrderStays DEF ChannelsFit, TypeOK
  <2>4. Presence'
    BY <2>1 DEF ChannelsFit, Presence, presenceKeys
  <2>5. ChannelsFit'
    BY <2>1, <2>3, <2>4 DEF ChannelsFit
  <2>6. ChannelFits(r)'
    BY <2>1, <2>2 DEF ChannelFits, RollsBack, Told, TryAwaits, StopAwaits, Informed
  <2> QED
    BY <2>5, <2>6 DEF ChannelStep
<1>2. ASSUME NEW n \in Targets, NEW p \in BOOLEAN, ChangeUsers(r, n, p)
      PROVE  ChannelStep(r)
  <2>1. /\ pc[r] = "idle" /\ pc'[r] = "change_epoch" /\ op'[r] = "change"
        /\ UNCHANGED <<stateKeys, commands, presenceKeys, faults, flaps>>
    BY <1>2 DEF ChangeUsers, Accept, TypeOK, RequestTypeOK, redisVars
  <2> QED
    BY <2>1, QuietSubmit
<1>3. CASE StopTest(r)
  <2>1. /\ pc[r] = "idle" /\ pc'[r] = "stop_cas" /\ op'[r] = "stop"
        /\ UNCHANGED <<stateKeys, commands, presenceKeys, faults, flaps>>
    BY <1>3 DEF StopTest, Accept, TypeOK, RequestTypeOK, redisVars
  <2> QED
    BY <2>1, QuietSubmit
<1> QED
  BY <1>1, <1>2, <1>3 DEF Submit

\* start_test outside add_users.
LEMMA StartChannels ==
    ASSUME OneSlot, ChannelInv, NEW r \in Request, StartStep(r)
    PROVE  ChannelStep(r)
<1> USE DEF ChannelInv, OneClientInv, FenceInv
<1>1. CASE Prepare(r)
  <2>1. pc[r] = "prepare" /\ pc'[r] = "start_scan" /\ op'[r] = op[r]
    BY <1>1, GoToHere DEF Prepare
  <2> QED
    BY <1>1, <2>1, QuietStep DEF Prepare, GoTo, boundVars, Informed, Told, TryAwaits, StopAwaits
<1>2. CASE ScanForStart(r)
  <2>1. /\ pc[r] = "start_scan" /\ pc'[r] = "start_pub" /\ op'[r] = op[r]
        /\ recipients'[r] = AliveWorkers /\ reqEpoch' = reqEpoch
        /\ UNCHANGED <<testState, testEpoch, commands, presenceKeys, faults, flaps>>
    BY <1>2, GoToHere DEF ScanForStart, GoTo, boundVars, redisVars, stateKeys, TypeOK,
       RequestTypeOK
  <2>2. \A w \in Worker : \A t \in {"start_test", "stop_test"} : Heard(w, t)' <=> Heard(w, t)
    BY <2>1, HeardSame
  <2>3. AllHeardStart' <=> AllHeardStart
    BY <2>2 DEF AllHeardStart
  <2>4. Presence' /\ (flaps = 0 => AliveWorkers = Worker)
    BY <2>1 DEF ChannelsFit, Presence, presenceKeys, AliveWorkers
  <2>5. CommandsInOrder'
    BY <2>1, OrderStays DEF ChannelsFit, TypeOK
  <2>6. RollsBack(r)' <=> RollsBack(r)
    BY <2>1 DEF RollsBack, StopAwaits
  <2>7. ChannelsFit'
    BY <2>1, <2>2, <2>3, <2>4, <2>5, <2>6, OneRollsBack DEF ChannelsFit
  <2>8. ChannelFits(r)'
    BY <2>1, <2>2, <2>4, <2>6 DEF ChannelFits, Informed, Told, TryAwaits
  <2> QED
    BY <2>7, <2>8 DEF ChannelStep
<1>3. CASE NoAliveWorkers(r)
  <2>1. ~RollsBack(r)
    BY <1>3 DEF NoAliveWorkers, RollsBack, StopAwaits
  <2> QED
    BY <1>3, <2>1, QuietRaise DEF NoAliveWorkers
<1>4. CASE PublishStartTest(r)
  <2>1. PICK w \in recipients[r] :
          /\ Publish(w, "start_test", reqEpoch[r], NoUser)
          /\ recipients' = [recipients EXCEPT ![r] = @ \ {w}]
          /\ GoTo(r, IF recipients[r] = {w} THEN "add_scan" ELSE "start_pub")
    BY <1>4 DEF PublishStartTest, Broadcast
  <2>2. /\ pc[r] = "start_pub" /\ reqEpoch[r] = testEpoch /\ op[r] = "start"
        /\ pc'[r] = IF recipients[r] = {w} THEN "add_scan" ELSE "start_pub"
        /\ op'[r] = op[r] /\ reqEpoch' = reqEpoch /\ recipients'[r] = recipients[r] \ {w}
        /\ UNCHANGED <<testState, testEpoch, presenceKeys, faults, flaps>>
    BY <1>4, <2>1, GoToHere DEF PublishStartTest, Broadcast, GoTo, boundVars, stateKeys,
       ChannelFits, Informed, TryAwaits, TypeOK, RequestTypeOK, Fits, UsersFit
  <2>3. w \in Worker /\ [type |-> "start_test", epoch |-> testEpoch, user |-> NoUser] \in Command
    BY <2>1 DEF TypeOK, RequestTypeOK, RedisTypeOK, Command, CommandType
  <2>4. ASSUME NEW v \in Worker
        PROVE  /\ Heard(v, "start_test")' <=> Heard(v, "start_test") \/ v = w
               /\ ~Heard(v, "stop_test")'
    <3>1. ~Heard(v, "stop_test") /\ Publish(w, "start_test", testEpoch, NoUser)
      BY <2>1, <2>2 DEF ChannelFits, TryAwaits
    <3> QED
      BY <2>2, <2>3, <3>1, PublishHeard DEF ChannelsFit, Presence
  <2>5. CommandsInOrder'
    <3>1. ~Heard(w, "stop_test") /\ Publish(w, "start_test", testEpoch, NoUser)
      BY <2>1, <2>2, <2>3 DEF ChannelFits, TryAwaits
    <3> QED
      BY <2>2, <2>3, <3>1, PublishInOrder DEF ChannelsFit, Presence, EpochFence
  <2>6. Presence'
    BY <2>2 DEF ChannelsFit, Presence, presenceKeys
  <2>7. testState = "PREPARING"
    BY <2>2 DEF Fits, StateFits, TryAwaits
  <2>8. ChannelsFit'
    BY <2>2, <2>5, <2>6, <2>7 DEF ChannelsFit
  <2>9. ~RollsBack(r)'
    BY <2>2 DEF RollsBack, StopAwaits
  <2>10. flaps = 0 => \A v \in Worker \ recipients'[r] : Heard(v, "start_test")'
    BY <2>2, <2>4 DEF ChannelFits
  <2>11. ChannelFits(r)'
    BY <2>2, <2>4, <2>9, <2>10 DEF ChannelFits, AllHeardStart
  <2> QED
    BY <2>8, <2>11 DEF ChannelStep
<1>5. CASE ListForStatus(r)
  <2>1. CASE Finish(r) /\ UNCHANGED faults
    <3>1. /\ pc'[r] = "idle" /\ op'[r] = "none" /\ ~RollsBack(r)
          /\ UNCHANGED <<redisVars, faults, flaps>>
      BY <1>5, <2>1 DEF ListForStatus, Finish, TypeOK, RequestTypeOK, RollsBack, StopAwaits
    <3> QED
      BY <3>1, QuietEnd DEF redisVars
  <2>2. CASE /\ GoTo(r, IF users = {} THEN "commit" ELSE "status_write")
             /\ UNCHANGED reqEpoch
    <3>1. /\ pc[r] = "status_list" /\ pc'[r] \in {"commit", "status_write"} /\ op'[r] = op[r]
          /\ UNCHANGED <<redisVars, faults, flaps, reqEpoch>>
      BY <1>5, <2>2, GoToHere DEF ListForStatus, GoTo, boundVars
    <3> QED
      BY <3>1, QuietStep DEF redisVars, Informed, Told, TryAwaits, StopAwaits
  <2> QED
    BY <1>5, <2>1, <2>2 DEF ListForStatus
<1>6. CASE WriteStatus(r)
  <2>1. CASE Finish(r) /\ UNCHANGED faults
    <3>1. /\ pc'[r] = "idle" /\ op'[r] = "none" /\ ~RollsBack(r)
          /\ UNCHANGED <<stateKeys, presenceKeys, commands, faults, flaps>>
      BY <1>6, <2>1 DEF WriteStatus, Finish, TypeOK, RequestTypeOK, RollsBack, StopAwaits
    <3> QED
      BY <3>1, QuietEnd
  <2>2. CASE GoTo(r, "commit") /\ UNCHANGED reqEpoch
    <3>1. /\ pc[r] = "status_write" /\ pc'[r] = "commit" /\ op'[r] = op[r]
          /\ UNCHANGED <<stateKeys, presenceKeys, commands, faults, flaps, reqEpoch>>
      BY <1>6, <2>2, GoToHere DEF WriteStatus, GoTo, boundVars
    <3> QED
      BY <3>1, QuietStep DEF Informed, Told, TryAwaits, StopAwaits
  <2> QED
    BY <1>6, <2>1, <2>2 DEF WriteStatus
<1>7. CASE Commit(r)
  <2>1. op[r] = "start" /\ pc[r] = "commit"
    BY <1>7 DEF Commit, Fits, UsersFit
  <2>2. /\ pc'[r] = "idle" /\ op'[r] = "none" /\ testEpoch' = testEpoch
        /\ UNCHANGED <<commands, presenceKeys, faults, flaps>>
    BY <1>7 DEF Commit, CompareAndSetState, Finish, TypeOK, RequestTypeOK
  <2>3. /\ \A w \in Worker : \A t \in {"start_test", "stop_test"} : Heard(w, t)' <=> Heard(w, t)
        /\ AllHeardStart' <=> AllHeardStart
    BY <2>2, HeardSame DEF AllHeardStart
  <2>4. flaps = 0 => AllHeardStart
    BY <2>1 DEF ChannelFits, Told, TryAwaits
  <2>5. \A w \in Worker : ~Heard(w, "stop_test")
    BY <2>1 DEF ChannelFits, TryAwaits
  <2>6. CommandsInOrder' /\ Presence'
    BY <2>2, OrderStays DEF ChannelsFit, TypeOK, Presence, presenceKeys
  <2>7. ChannelsFit'
    BY <2>2, <2>3, <2>4, <2>5, <2>6 DEF ChannelsFit
  <2>8. ChannelFits(r)'
    BY <2>2 DEF ChannelFits, RollsBack, Informed, Told, TryAwaits, StopAwaits, ChangeAwaits
  <2> QED
    BY <2>7, <2>8 DEF ChannelStep
<1> QED
  BY <1>1, <1>2, <1>3, <1>4, <1>5, <1>6, <1>7 DEF StartStep

\* add_users: the workers asked for users are those that heard start_test, if none was late.
LEMMA AddChannels ==
    ASSUME OneSlot, ChannelInv, NEW r \in Request, AddUsersStep(r)
    PROVE  ChannelStep(r)
<1> USE DEF ChannelInv, OneClientInv, FenceInv
<1>1. ASSUME NEW a \in Told, NEW b \in Told, pc[r] = a, GoTo(r, b), UNCHANGED reqEpoch,
             UNCHANGED <<stateKeys, presenceKeys, commands>>
      PROVE  ChannelStep(r)
  <2>1. pc'[r] = b /\ op'[r] = op[r] /\ UNCHANGED <<faults, flaps>>
    BY <1>1, GoToHere DEF GoTo, boundVars
  <2> QED
    BY <1>1, <2>1, QuietStep DEF Informed, Told, TryAwaits, StopAwaits
<1>2. /\ {"add_scan", "add_read", "add_write", "add_pub", "add_point", "add_check",
           "status_list"} \subseteq Told
      /\ UNCHANGED redisVars => UNCHANGED <<stateKeys, presenceKeys, commands>>
  BY DEF Told, TryAwaits, redisVars
<1>3. CASE ScanForAdd(r)
  <2>1. PICK b \in {"status_list", "add_read"} : GoTo(r, b)
    BY <1>3 DEF ScanForAdd
  <2> QED
    BY <1>1, <1>2, <1>3, <2>1 DEF ScanForAdd
<1>4. CASE AddAbsent(r)
  BY <1>1, <1>2, <1>4 DEF AddAbsent
<1>5. CASE SkipExisting(r)
  <2>1. PICK b \in {"status_list", "add_read"} : GoTo(r, b)
    BY <1>5 DEF SkipExisting
  <2> QED
    BY <1>1, <1>2, <1>5, <2>1 DEF SkipExisting
<1>6. CASE InvalidAssignment(r)
  <2>1. ~RollsBack(r)
    BY <1>6 DEF InvalidAssignment, RollsBack, StopAwaits
  <2> QED
    BY <1>6, <2>1, QuietRaise DEF InvalidAssignment
<1>7. CASE AddWrite(r)
  BY <1>1, <1>2, <1>7 DEF AddWrite
<1>8. CASE AddPublish(r)
  <2>1. PICK u \in todo[r], w \in recipients[r] :
          /\ Publish(w, "add_user", reqEpoch[r], u)
          /\ GoTo(r, "add_point") \/ NextAllocation(r, u)
    BY <1>8 DEF AddPublish
  <2>2. PICK b \in {"add_point", "status_list", "add_check", "add_read"} : GoTo(r, b)
    BY <2>1 DEF NextAllocation
  <2>3. /\ pc[r] = "add_pub" /\ reqEpoch[r] = testEpoch /\ pc'[r] = b
        /\ op'[r] = op[r] /\ reqEpoch' = reqEpoch
        /\ UNCHANGED <<testState, testEpoch, presenceKeys, faults, flaps>>
    BY <1>8, <2>2, GoToHere DEF AddPublish, GoTo, boundVars, stateKeys, ChannelFits, Informed,
       TryAwaits
  <2>4. w \in Worker /\ [type |-> "add_user", epoch |-> testEpoch, user |-> u] \in Command
    BY <2>1 DEF TypeOK, RequestTypeOK, RedisTypeOK, Command, CommandType
  <2>5. Publish(w, "add_user", testEpoch, u)
    BY <2>1, <2>3
  <2>6. \A v \in Worker : \A t \in {"start_test", "stop_test"} : Heard(v, t)' <=> Heard(v, t)
    BY <2>3, <2>4, <2>5, PublishHeard DEF ChannelsFit, Presence
  <2>7. AllHeardStart' <=> AllHeardStart
    BY <2>6 DEF AllHeardStart
  <2>8. /\ op[r] = "start" \/ testState = "RUNNING"
        /\ flaps = 0 => AllHeardStart
    BY <2>3 DEF Fits, StateFits, ChannelsFit, ChannelFits, Told, TryAwaits
  <2>9. ~RollsBack(r) /\ ~RollsBack(r)'
    BY <2>3 DEF RollsBack, StopAwaits
  <2>10. Heard(w, "stop_test") => ~(faults < 2)
    <3>1. Heard(w, "stop_test") => op[r] # "start"
      BY <2>3, <2>4 DEF ChannelFits, TryAwaits
    <3>2. Heard(w, "stop_test") => faults >= 2
      BY <2>4, <2>8, <2>9, <3>1, OneRollsBack DEF ChannelsFit
    <3> QED
      BY <3>2 DEF TypeOK
  <2>11. CommandsInOrder'
    BY <2>3, <2>4, <2>5, <2>8, <2>10, PublishInOrder DEF ChannelsFit, Presence, EpochFence,
       AllHeardStart
  <2>12. Presence'
    BY <2>3 DEF ChannelsFit, Presence, presenceKeys
  <2>13. ChannelsFit'
    BY <2>3, <2>6, <2>7, <2>9, <2>11, <2>12, OneRollsBack DEF ChannelsFit
  <2>14. ChannelFits(r)'
    BY <2>3, <2>6, <2>7, <2>8, <2>9 DEF ChannelFits, Told, TryAwaits, Informed
  <2> QED
    BY <2>13, <2>14 DEF ChannelStep
<1>9. CASE AddPoint(r)
  <2>1. PICK b \in {"status_list", "add_check", "add_read"} : GoTo(r, b)
    BY <1>9 DEF AddPoint, NextAllocation
  <2> QED
    BY <1>1, <1>2, <1>9, <2>1 DEF AddPoint
<1>10. CASE AddCheck(r)
  BY <1>1, <1>2, <1>10 DEF AddCheck
<1>11. CASE AddAborted(r)
  <2>1. /\ pc'[r] = "idle" /\ op'[r] = "none" /\ ~RollsBack(r)
        /\ UNCHANGED <<redisVars, faults, flaps>>
    BY <1>11 DEF AddAborted, Finish, TypeOK, RequestTypeOK, RollsBack, StopAwaits
  <2> QED
    BY <2>1, QuietEnd DEF redisVars
<1> QED
  BY <1>3, <1>4, <1>5, <1>6, <1>7, <1>8, <1>9, <1>10, <1>11 DEF AddUsersStep

\* stop_test and the rollback: what is published is the stop, of the epoch of the test.
LEMMA StopChannels ==
    ASSUME OneSlot, ChannelInv, NEW r \in Request, StopStep(r)
    PROVE  ChannelStep(r)
<1> USE DEF ChannelInv, OneClientInv, FenceInv
<1>1. ASSUME NEW a \in StopAwaits \ {"stop_cas", "stop_epoch"},
             NEW b \in StopAwaits \ {"stop_cas", "stop_epoch"}, pc[r] = a, GoTo(r, b),
             UNCHANGED <<stateKeys, presenceKeys, commands, reqEpoch>>
      PROVE  ChannelStep(r)
  <2>1. pc'[r] = b /\ op'[r] = op[r] /\ UNCHANGED <<faults, flaps>>
    BY <1>1, GoToHere DEF GoTo, boundVars
  <2> QED
    BY <1>1, <2>1, QuietStep DEF Informed, Told, TryAwaits, StopAwaits
<1>2. /\ {"stop_scan", "stop_pub", "clear_list", "clear", "stop_point", "set_idle"}
            \subseteq StopAwaits \ {"stop_cas", "stop_epoch"}
      /\ UNCHANGED redisVars => UNCHANGED <<stateKeys, presenceKeys, commands>>
  BY DEF StopAwaits, redisVars
<1>3. ASSUME NEW b, pc'[r] = b, b \in StopAwaits \union {"idle"}, op'[r] # "start",
             b \in Informed => reqEpoch'[r] = testEpoch,
             testEpoch' = testEpoch, testState' # "RUNNING",
             UNCHANGED <<presenceKeys, commands, faults, flaps>>
      PROVE  ChannelStep(r)
  <2>1. CommandsInOrder' /\ Presence'
    BY <1>3, OrderStays DEF ChannelsFit, TypeOK, Presence, presenceKeys
  <2>2. ChannelsFit'
    BY <1>3, <2>1 DEF ChannelsFit
  <2>3. ChannelFits(r)'
    BY <1>3 DEF ChannelFits, RollsBack, StopAwaits
  <2> QED
    BY <2>2, <2>3 DEF ChannelStep
<1>4. CASE StopCas(r)
  <2>1. /\ pc[r] = "stop_cas" /\ op[r] # "start" /\ testState = seen[r]
    BY <1>4 DEF StopCas, Fits, StateFits, ReadersAreNoStarts, EpochReaders
  <2>2. /\ pc'[r] = "stop_epoch" /\ op'[r] = op[r] /\ testState' = "STOPPING"
        /\ UNCHANGED <<testEpoch, presenceKeys, commands, faults, flaps>>
    BY <1>4, <2>1, GoToHere DEF StopCas, CompareAndSetState, GoTo, boundVars
  <2> QED
    BY <1>3, <2>1, <2>2 DEF StopAwaits, Informed, TryAwaits, ChangeAwaits
<1>5. CASE ReadEpoch(r)
  <2>1. /\ \/ pc[r] = "stop_epoch" /\ pc'[r] = "stop_scan"
           \/ pc[r] = "change_epoch" /\ pc'[r] = "change_list"
        /\ op'[r] = op[r] /\ reqEpoch'[r] = testEpoch
        /\ UNCHANGED <<stateKeys, presenceKeys, commands, faults, flaps>>
    BY <1>5, GoToHere DEF ReadEpoch, GoTo, boundVars, redisVars, TypeOK, RequestTypeOK
  <2>2. op[r] # "start"
    BY <2>1 DEF ReadersAreNoStarts, EpochReaders
  <2>3. CASE pc[r] = "stop_epoch"
    <3>1. testState' # "RUNNING"
      BY <2>1, <2>2, <2>3 DEF Fits, StateFits, StopAwaits, stateKeys
    <3> QED
      BY <1>3, <2>1, <2>2, <2>3, <3>1 DEF StopAwaits, stateKeys
  <2>4. CASE pc[r] = "change_epoch"
    <3>1. \A w \in Worker : \A t \in {"start_test", "stop_test"} : Heard(w, t)' <=> Heard(w, t)
      BY <2>1, HeardSame DEF stateKeys
    <3>2. AllHeardStart' <=> AllHeardStart
      BY <3>1 DEF AllHeardStart
    <3>3. ~RollsBack(r)' /\ ~RollsBack(r)
      BY <2>1, <2>2 DEF RollsBack
    <3>4. CommandsInOrder' /\ Presence'
      BY <2>1, OrderStays DEF ChannelsFit, TypeOK, Presence, presenceKeys
    <3>5. ChannelsFit'
      BY <2>1, <3>1, <3>2, <3>3, <3>4, OneRollsBack DEF ChannelsFit, stateKeys
    <3>6. ChannelFits(r)'
      BY <2>1, <2>2, <2>4, <3>3 DEF ChannelFits, Told, TryAwaits, stateKeys
    <3> QED
      BY <3>5, <3>6 DEF ChannelStep
  <2> QED
    BY <2>1, <2>3, <2>4
<1>6. CASE ScanForStop(r)
  <2>1. PICK b \in {"clear_list", "stop_pub"} : GoTo(r, b)
    BY <1>6 DEF ScanForStop
  <2> QED
    BY <1>1, <1>2, <1>6, <2>1 DEF ScanForStop
<1>7. CASE PublishStopTest(r)
  <2>1. PICK w \in recipients[r] : Publish(w, "stop_test", reqEpoch[r], NoUser)
    BY <1>7 DEF PublishStopTest, Broadcast
  <2>2. /\ pc[r] = "stop_pub" /\ reqEpoch[r] = testEpoch
        /\ pc'[r] \in {"stop_pub", "clear_list"} /\ op'[r] = op[r] /\ reqEpoch' = reqEpoch
        /\ UNCHANGED <<testState, testEpoch, presenceKeys, faults, flaps>>
    BY <1>7, BroadcastHere DEF PublishStopTest, Broadcast, GoTo, boundVars, stateKeys,
       ChannelFits, Informed, StopAwaits
  <2>3. w \in Worker /\ [type |-> "stop_test", epoch |-> testEpoch, user |-> NoUser] \in Command
    BY <2>1 DEF TypeOK, RequestTypeOK, RedisTypeOK, Command, CommandType
  <2>4. Publish(w, "stop_test", testEpoch, NoUser)
    BY <2>1, <2>2
  <2>5. \A v \in Worker : Heard(v, "start_test")' <=> Heard(v, "start_test")
    BY <2>2, <2>3, <2>4, PublishHeard DEF ChannelsFit, Presence
  <2>6. AllHeardStart' <=> AllHeardStart
    BY <2>5 DEF AllHeardStart
  <2>7. CommandsInOrder'
    BY <2>2, <2>3, <2>4, PublishInOrder DEF ChannelsFit, Presence, EpochFence
  <2>8. Presence'
    BY <2>2 DEF ChannelsFit, Presence, presenceKeys
  <2>9. RollsBack(r) <=> RollsBack(r)'
    BY <2>2 DEF RollsBack, StopAwaits
  <2>10. testState = "RUNNING" => RollsBack(r)
    BY <2>2 DEF Fits, StateFits, RollsBack, StopAwaits
  <2>11. ChannelsFit'
    BY <2>2, <2>6, <2>7, <2>8, <2>9, <2>10, OneRollsBack DEF ChannelsFit
  <2>12. ChannelFits(r)'
    BY <2>2, <2>9 DEF ChannelFits, Told, TryAwaits
  <2> QED
    BY <2>11, <2>12 DEF ChannelStep
<1>8. CASE ListForClear(r)
  BY <1>1, <1>2, <1>8 DEF ListForClear
<1>9. CASE Clear(r)
  <2>1. PICK b \in {"stop_point", "set_idle"} : GoTo(r, b)
    BY <1>9 DEF Clear
  <2> QED
    BY <1>1, <1>2, <1>9, <2>1 DEF Clear
<1>10. CASE StopPoint(r)
  BY <1>1, <1>2, <1>10 DEF StopPoint
<1>11. CASE SetIdle(r)
  <2>1. /\ pc'[r] = "idle" /\ op'[r] = "none" /\ testState' = "IDLE"
        /\ UNCHANGED <<testEpoch, presenceKeys, commands, faults, flaps>>
    BY <1>11 DEF SetIdle, SetState, Finish, TypeOK, RequestTypeOK
  <2> QED
    BY <1>3, <2>1 DEF Informed, TryAwaits, StopAwaits, ChangeAwaits
<1> QED
  BY <1>4, <1>5, <1>6, <1>7, <1>8, <1>9, <1>10, <1>11 DEF StopStep

\* change_users: a running test has not been stopped, unless two faults came together.
LEMMA ChangeChannels ==
    ASSUME OneSlot, ChannelInv, NEW r \in Request, ChangeStep(r)
    PROVE  ChannelStep(r)
<1> USE DEF ChannelInv, OneClientInv, FenceInv
<1>1. ASSUME pc[r] \in ChangeAwaits \ {"change_epoch"},
             NEW b \in (ChangeAwaits \ {"change_epoch"}) \union {"add_scan"}, GoTo(r, b),
             UNCHANGED <<stateKeys, presenceKeys, commands, reqEpoch>>
      PROVE  ChannelStep(r)
  <2>1. /\ pc'[r] = b /\ op'[r] = op[r] /\ op[r] # "start" /\ UNCHANGED <<faults, flaps>>
    BY <1>1, GoToHere DEF GoTo, boundVars, Fits, StateFits
  <2> QED
    BY <1>1, <2>1, QuietStep DEF Informed, Told, TryAwaits, StopAwaits, ChangeAwaits
<1>2. ASSUME pc[r] \in ChangeAwaits, Finish(r),
             UNCHANGED <<stateKeys, presenceKeys, commands, faults>>
      PROVE  ChannelStep(r)
  <2>1. pc'[r] = "idle" /\ op'[r] = "none" /\ ~RollsBack(r) /\ UNCHANGED flaps
    BY <1>2 DEF Finish, TypeOK, RequestTypeOK, RollsBack, StopAwaits, ChangeAwaits
  <2> QED
    BY <1>2, <2>1, QuietEnd
<1>3. UNCHANGED redisVars => UNCHANGED <<stateKeys, presenceKeys, commands>>
  BY DEF redisVars
<1>4. CASE ChangeNothing(r)
  BY <1>2, <1>3, <1>4 DEF ChangeNothing, ChangeAwaits
<1>5. CASE ChangeUp(r)
  BY <1>1, <1>3, <1>5 DEF ChangeUp, ChangeAwaits
<1>6. CASE ChangeDown(r)
  BY <1>1, <1>3, <1>6 DEF ChangeDown, ChangeAwaits
<1>7. CASE SkipMissing(r)
  <2>1. PICK b \in {"rem_point", "rem_read"} : GoTo(r, b)
    BY <1>7 DEF SkipMissing, NextRemoval
  <2> QED
    BY <1>1, <1>3, <1>7, <2>1 DEF SkipMissing, ChangeAwaits
<1>8. CASE RemoveFound(r)
  BY <1>1, <1>3, <1>8 DEF RemoveFound, ChangeAwaits
<1>9. CASE PublishRemove(r)
  <2>1. PICK u \in todo[r] : Publish(found[r], "remove_user", reqEpoch[r], u)
    BY <1>9 DEF PublishRemove
  <2>2. /\ pc[r] = "rem_pub" /\ reqEpoch[r] = testEpoch /\ pc'[r] = "rem_hget"
        /\ op'[r] = op[r] /\ reqEpoch' = reqEpoch
        /\ UNCHANGED <<testState, testEpoch, presenceKeys, faults, flaps>>
    BY <1>9, GoToHere DEF PublishRemove, GoTo, boundVars, stateKeys, ChannelFits, Informed,
       ChangeAwaits
  <2>3. Publish(found[r], "remove_user", testEpoch, u)
    BY <2>1, <2>2
  <2>4. testState = "RUNNING" /\ op[r] # "start" /\ ~RollsBack(r) /\ ~RollsBack(r)'
    BY <2>2 DEF Fits, StateFits, ChangeAwaits, RollsBack
  <2>5. CASE found[r] \in Worker
    <3>1. [type |-> "remove_user", epoch |-> testEpoch, user |-> u] \in Command
      BY <2>1 DEF TypeOK, RequestTypeOK, RedisTypeOK, Command, CommandType
    <3>2. PICK w \in Worker : w = found[r]
      BY <2>5
    <3>3. Publish(w, "remove_user", testEpoch, u)
      BY <2>3, <3>2
    <3>4. \A v \in Worker : \A t \in {"start_test", "stop_test"} : Heard(v, t)' <=> Heard(v, t)
      BY <2>2, <3>3, <3>1, PublishHeard DEF ChannelsFit, Presence
    <3>5. AllHeardStart' <=> AllHeardStart
      BY <3>4 DEF AllHeardStart
    <3>9. Heard(w, "stop_test") => faults >= 2
      BY <2>4, OneRollsBack DEF ChannelsFit
    <3>10. Heard(w, "stop_test") => ~(faults < 2)
      BY <3>9 DEF TypeOK
    <3>11. CommandsInOrder'
      BY <2>2, <3>3, <3>1, <3>10, PublishInOrder DEF ChannelsFit, Presence, EpochFence
    <3>6. Presence'
      BY <2>2 DEF ChannelsFit, Presence, presenceKeys
    <3>7. ChannelsFit'
      BY <2>2, <2>4, <3>4, <3>5, <3>11, <3>6, OneRollsBack DEF ChannelsFit
    <3>8. ChannelFits(r)'
      BY <2>2, <2>4 DEF ChannelFits, Told, TryAwaits
    <3> QED
      BY <3>7, <3>8 DEF ChannelStep
  <2>6. CASE found[r] \notin Worker
    <3>1. commands' = commands
      BY <2>3, <2>6 DEF Publish, ChannelsFit, Presence
    <3> QED
      BY <2>2, <2>4, <3>1, QuietStep DEF stateKeys, Informed, ChangeAwaits
  <2> QED
    BY <2>5, <2>6
<1>10. CASE RemoveRead(r)
  BY <1>1, <1>3, <1>10 DEF RemoveRead, ChangeAwaits
<1>11. CASE RemoveWrite(r)
  <2>1. PICK b \in {"rem_point", "rem_read"} : GoTo(r, b)
    BY <1>11 DEF RemoveWrite, NextRemoval
  <2> QED
    BY <1>1, <1>11, <2>1 DEF RemoveWrite, ChangeAwaits
<1>12. CASE RemovePoint(r)
  BY <1>2, <1>12 DEF RemovePoint, ChangeAwaits
<1> QED
  BY <1>4, <1>5, <1>6, <1>7, <1>8, <1>9, <1>10, <1>11, <1>12 DEF ChangeStep

\* What goes wrong: an error, a lost answer, a restart, a late heartbeat.
LEMMA FaultChannels ==
    ASSUME OneSlot, ChannelInv, Fault
    PROVE  ChannelsFit' /\ \A r \in Request : ChannelFits(r)'
<1> USE DEF ChannelInv, OneClientInv, FenceInv
<1>1. ASSUME NEW r \in Request, RedisError(r) PROVE ChannelStep(r)
  BY <1>1, QuietRaise DEF RedisError
<1>2. ASSUME NEW r \in Request, ClaimAnswerLost(r) PROVE ChannelStep(r)
  <2>1. /\ pc'[r] = "idle" /\ op'[r] = "none" /\ faults' = faults + 1
        /\ UNCHANGED <<redisVars, flaps>>
    BY <1>2 DEF ClaimAnswerLost, Finish, TypeOK, RequestTypeOK
  <2> QED
    BY <2>1, QuietEnd DEF redisVars
<1>3. ASSUME NEW r \in Request, CommitAnswerLost(r) PROVE ChannelStep(r)
  <2>1. op[r] = "start" /\ pc[r] = "commit"
    BY <1>3 DEF CommitAnswerLost, Fits, UsersFit
  <2>2. /\ pc'[r] = "stop_scan" /\ op'[r] = "start" /\ reqEpoch' = reqEpoch
        /\ faults \in Nat /\ faults' = faults + 1
        /\ UNCHANGED <<testEpoch, commands, presenceKeys, flaps>>
    BY <1>3, <2>1 DEF CommitAnswerLost, CompareAndSetState, Continues, TypeOK, RequestTypeOK
  <2>3. /\ \A w \in Worker : \A t \in {"start_test", "stop_test"} : Heard(w, t)' <=> Heard(w, t)
        /\ AllHeardStart' <=> AllHeardStart
    BY <2>2, HeardSame DEF AllHeardStart
  <2>4. flaps = 0 => AllHeardStart
    BY <2>1 DEF ChannelFits, Told, TryAwaits
  <2>5. reqEpoch[r] = testEpoch
    BY <2>1 DEF ChannelFits, Informed, TryAwaits
  <2>6. RollsBack(r)' /\ faults' >= 1
    BY <2>2 DEF RollsBack, StopAwaits
  <2>7. CommandsInOrder' /\ Presence'
    BY <2>2, OrderStays DEF ChannelsFit, Presence, presenceKeys
  <2>8. ChannelsFit'
    BY <2>2, <2>3, <2>4, <2>6, <2>7, OneRollsBack DEF ChannelsFit
  <2>9. ChannelFits(r)'
    BY <2>2, <2>5, <2>6 DEF ChannelFits, Told, TryAwaits
  <2> QED
    BY <2>8, <2>9 DEF ChannelStep
<1>4. CASE OrchestratorCrash
  <2>1. PICK r \in Request : pc[r] # "idle"
    BY <1>4 DEF OrchestratorCrash
  <2>2. /\ pc'[r] = "idle" /\ op'[r] = "none" /\ faults' = faults + 1
        /\ UNCHANGED <<redisVars, flaps>>
    BY <1>4 DEF OrchestratorCrash
  <2>3. ChannelStep(r)
    BY <2>2, QuietEnd DEF redisVars
  <2> QED
    BY <2>3, OneChannelFits DEF ChannelStep
<1> QED
  BY <1>1, <1>2, <1>3, <1>4, OneChannelFits DEF Fault, ChannelStep

\* Initially, at every step, and so always.
LEMMA ChannelInit == Init => ChannelInv
<1> SUFFICES ASSUME Init PROVE ChannelInv
  OBVIOUS
<1>1. \A w \in Worker : commands[w] = <<>> /\ Len(commands[w]) = 0
  <2>1. Len(<<>>) = 0
    OBVIOUS
  <2> QED
    BY <2>1 DEF Init, RedisInit
<1>2. CommandsInOrder
  <2>1. \A w \in Worker : 1 .. Len(commands[w]) = {}
    BY <1>1
  <2>2. NothingAfterStop
    BY <2>1 DEF NothingAfterStop
  <2>3. StartBeforeAdd
    BY <2>1 DEF StartBeforeAdd
  <2> QED
    BY <2>2, <2>3 DEF CommandsInOrder
<1>3. ChannelsFit
  BY <1>2 DEF ChannelsFit, Presence, Init, RedisInit
<1>4. ASSUME NEW r \in Request PROVE ChannelFits(r)
  BY DEF Init, RequestInit, ChannelFits, RollsBack, Informed, Told, TryAwaits, StopAwaits,
     ChangeAwaits
<1> QED
  BY <1>3, <1>4, OneClientInit DEF ChannelInv

LEMMA ChannelInductive ==
    ASSUME OneSlot
    PROVE  ChannelInv /\ [Next]_vars => ChannelInv'
<1> SUFFICES ASSUME ChannelInv, [Next]_vars PROVE ChannelInv'
  OBVIOUS
<1>1. OneClientInv'
  BY OneClientStep DEF ChannelInv
<1>2. ASSUME NEW r \in Request, Submit(r) \/ Handle(r) PROVE ChannelInv'
  <2>1. ChannelStep(r)
    BY <1>2, SubmitChannels, StartChannels, AddChannels, StopChannels, ChangeChannels DEF Handle
  <2> QED
    BY <1>1, <2>1, OneChannelFits DEF ChannelStep, ChannelInv
<1>3. CASE (\E w \in Worker : Flap(w)) \/ Rest \/ UNCHANGED vars
  <2>1. /\ UNCHANGED <<testState, testEpoch, commands, requestVars, workers, subscribed, faults>>
        /\ (\E w \in Worker : Flap(w)) => flaps' # 0
        /\ ~(\E w \in Worker : Flap(w)) => UNCHANGED <<heartbeat, flaps>>
    BY <1>3 DEF Flap, Rest, vars, redisVars, stateKeys, presenceKeys, boundVars, ChannelInv,
       OneClientInv, FenceInv, TypeOK
  <2>2. flaps' = 0 => flaps = 0 /\ heartbeat' = heartbeat
    BY <2>1
  <2>3. /\ \A w \in Worker : \A t \in {"start_test", "stop_test"} : Heard(w, t)' <=> Heard(w, t)
        /\ AllHeardStart' <=> AllHeardStart
    BY <2>1, HeardSame DEF AllHeardStart
  <2>4. CommandsInOrder'
    BY <2>1, <2>2, OrderStays DEF ChannelInv, ChannelsFit, OneClientInv, FenceInv, TypeOK
  <2>5. Presence'
    BY <2>1, <2>2 DEF ChannelInv, ChannelsFit, Presence
  <2>6. \A r \in Request : RollsBack(r)' <=> RollsBack(r)
    BY <2>1 DEF RollsBack, requestVars
  <2>7. ChannelsFit'
    BY <2>1, <2>2, <2>3, <2>4, <2>5, <2>6 DEF ChannelInv, ChannelsFit
  <2>8. \A r \in Request : ChannelFits(r)'
    BY <2>1, <2>2, <2>3, <2>6 DEF ChannelInv, ChannelFits, requestVars
  <2> QED
    BY <1>1, <2>7, <2>8 DEF ChannelInv
<1>4. CASE OrchestratorNext
  BY <1>1, <1>2, <1>4, FaultChannels DEF OrchestratorNext, ChannelInv
<1> QED
  BY <1>3, <1>4 DEF Next

LEMMA ChannelInvariant ==
    ASSUME OneSlot
    PROVE  Spec => []ChannelInv
<1>1. ChannelInv /\ [Next]_vars => ChannelInv'
  BY ChannelInductive
<1> QED
  BY <1>1, ChannelInit, PTL DEF Spec

(***************************************************************************)
(* For a client that sends one request at a time: every worker hears a run *)
(* in an order it can make sense of, through lost answers, rollbacks and   *)
(* restarts.  Nothing but stop_test follows the stop_test of a run (short  *)
(* of two faults in one start), and with no heartbeat late no add_user     *)
(* comes before start_test.                                                *)
(***************************************************************************)
THEOREM ChannelsStayInOrder ==
    ASSUME OneSlot
    PROVE  Spec => []CommandsInOrder
<1>1. ChannelInv => CommandsInOrder
  BY DEF ChannelInv, ChannelsFit
<1> QED
  BY <1>1, ChannelInvariant, PTL

-----------------------------------------------------------------------------
(***************************************************************************)
(* The books: who is assigned, how many to each worker, what the timeline  *)
(* says, and what each worker was told of each user.  While a handler is   *)
(* between two of these writes they differ by the one user it is at, which *)
(* is what the four conjuncts about a handler say, await by await.         *)
(***************************************************************************)
\* The place of w among the workers S in the order of their ids.
Rank(w, S) == Cardinality({ v \in S : v < w })

\* The first i of a round over the workers S have one user more than the others.
EvenAfter(S, size, i) ==
    \E q \in Nat : \A w \in S :
        size[w] = q + (IF Rank(w, S) < i % Cardinality(S) THEN 1 ELSE 0)

\* How many users each worker has.
Share == [w \in Worker |-> Cardinality(workerUsers[w])]

\* The users indexed under a worker are the members that name it.
IndexFits ==
    \A w \in Worker : workerUsers[w] = { u \in users : userWorker[u] = w }

\* The locals of the handler agree with the user it is at.
LocalsFit(r) ==
    /\ pc[r] = "idle" => index[r] = 0 /\ base[r] = 0 /\ added[r] = 0
    /\ pc[r] \in StopAwaits => op[r] \in {"start", "stop"}
    /\ pc[r] = "clear" => recipients[r] = Worker
    /\ pc[r] = "add_pub" =>
          \A u \in todo[r], w \in recipients[r] :
              IsLowest(u, todo[r]) /\ IsAllocated(w, r) => userWorker[u] = w
    /\ pc[r] \in {"rem_pub", "rem_write"} =>
          \A u \in todo[r] : IsHighest(u, todo[r]) => found[r] = userWorker[u]

\* While users are added for a start, the round-robin is at its index.
BalanceFits(r) ==
    op[r] = "start" =>
        /\ pc[r] \in {"prepare", "start_scan", "start_pub", "add_scan"} => index[r] = 0
        /\ pc[r] \in Told \ {"add_scan"} => recipients[r] # {}
        /\ pc[r] \in Told \ {"add_scan", "add_pub", "add_point"}
              => EvenAfter(recipients[r], Share, index[r])
        /\ pc[r] \in {"add_pub", "add_point"}
              => EvenAfter(recipients[r], Share, index[r] + 1)

\* How far the timeline, and the totals it is written from, are behind the members.
TimelineFits(r) ==
    LET n == Cardinality(users)
    IN  faults = 0 =>
        /\ pc[r] \in {"idle", "start_scan", "start_pub", "add_scan", "status_list",
                      "status_write", "commit", "change_epoch", "change_list", "set_idle"}
              => timeline = n
        /\ pc[r] \in {"prepare", "start_scan", "start_pub", "change_epoch", "change_list"}
              => base[r] = 0 /\ added[r] = 0
        /\ pc[r] = "add_scan" => base[r] = n /\ added[r] = 0
        /\ pc[r] \in {"add_read", "add_write", "add_check", "add_point"}
              => base[r] + added[r] = n
        /\ pc[r] = "add_pub" => base[r] + added[r] + 1 = n
        /\ pc[r] \in {"rem_read", "rem_pub", "rem_hget", "rem_write"}
              => todo[r] = target[r] + 1 .. n
        /\ pc[r] = "rem_point" => n = target[r]
        /\ RollsBack(r) => users = {} /\ timeline = 0

\* The user that a member set lists and the worker has not been told of, or the other way
\* round.
Ahead(r) ==
    IF pc[r] = "add_pub" THEN { u \in todo[r] : IsLowest(u, todo[r]) }
    ELSE IF pc[r] \in {"rem_hget", "rem_write"} THEN { u \in todo[r] : IsHighest(u, todo[r]) }
    ELSE {}

\* Without a fault, each worker was told its users, but for the one at hand.
DeliveryFits(r) ==
    /\ faults = 0
    /\ pc[r] \in TryAwaits \union ChangeAwaits \/ (pc[r] = "idle" /\ testState = "RUNNING")
    => \A w \in Worker : ToldUsers(w) = workerUsers[w] \ Ahead(r)

\* What holds of one handler, and the strengthening.
BooksFit(r) == LocalsFit(r) /\ BalanceFits(r) /\ TimelineFits(r) /\ DeliveryFits(r)

BooksInv ==
    /\ ChannelInv /\ MembersAreAssigned /\ IndexFits
    /\ TimelineMatchesUsers /\ DeliveredMatchesAssigned
    /\ \A r \in Request : BooksFit(r)

-----------------------------------------------------------------------------
\* Workers in the order of their ids.
LEMMA Ranks ==
    ASSUME NEW S \in SUBSET Worker
    PROVE  /\ Cardinality(S) \in Nat
           /\ \A w \in S : Rank(w, S) \in Nat /\ Rank(w, S) < Cardinality(S)
           /\ \A v, w \in S : v < w => Rank(v, S) < Rank(w, S)
<1>1. IsFiniteSet(S) /\ Cardinality(S) \in Nat
  BY FS_Subset, FS_CardinalityType
<1>2. ASSUME NEW w \in S
      PROVE  /\ IsFiniteSet({ v \in S : v < w }) /\ Rank(w, S) \in Nat
             /\ Rank(w, S) < Cardinality(S)
  <2>1. IsFiniteSet(S \ {w}) /\ Cardinality(S \ {w}) = Cardinality(S) - 1
    BY <1>1, FS_RemoveElement
  <2>2. { v \in S : v < w } \in SUBSET (S \ {w})
    OBVIOUS
  <2>3. /\ IsFiniteSet({ v \in S : v < w })
        /\ Cardinality({ v \in S : v < w }) <= Cardinality(S \ {w})
    BY <2>1, <2>2, FS_Subset
  <2>4. Cardinality({ v \in S : v < w }) \in Nat
    BY <2>3, FS_CardinalityType
  <2> QED
    BY <1>1, <2>1, <2>3, <2>4 DEF Rank
<1>3. ASSUME NEW v \in S, NEW w \in S, v < w
      PROVE  Rank(v, S) < Rank(w, S)
  <2> DEFINE A == { x \in S : x < v }
             B == { x \in S : x < w }
  <2>1. A \in SUBSET B /\ v \in B /\ v \notin A
    <3>1. ASSUME NEW x \in S, x < v PROVE x < w
      <4>1. x \in Nat /\ v \in Nat /\ w \in Nat
        OBVIOUS
      <4> QED
        BY <1>3, <3>1, <4>1
    <3>2. v \in Nat /\ ~(v < v)
      OBVIOUS
    <3> QED
      BY <1>3, <3>1, <3>2
  <2>2. IsFiniteSet(B) /\ Cardinality(B) \in Nat /\ Cardinality(A) \in Nat
    BY <1>2 DEF Rank
  <2>3. Cardinality(A) <= Cardinality(B) /\ Cardinality(A) # Cardinality(B)
    BY <2>1, <2>2, FS_Subset
  <2> QED
    BY <2>2, <2>3 DEF Rank
<1> QED
  BY <1>1, <1>2, <1>3

\* One worker is next in turn, and the turn moves round by round.
LEMMA OneAllocated ==
    ASSUME TypeOK, NEW r \in Request, NEW v, NEW w, IsAllocated(v, r), IsAllocated(w, r)
    PROVE  v = w
<1>1. recipients[r] \in SUBSET Worker /\ v \in recipients[r] /\ w \in recipients[r]
  BY DEF TypeOK, RequestTypeOK, IsAllocated
<1>2. Rank(v, recipients[r]) = Rank(w, recipients[r])
  BY DEF IsAllocated, Rank
<1>3. v \in Nat /\ w \in Nat
  BY <1>1
<1>4. /\ v < w => Rank(v, recipients[r]) < Rank(w, recipients[r])
      /\ w < v => Rank(w, recipients[r]) < Rank(v, recipients[r])
      /\ Rank(v, recipients[r]) \in Nat
  BY <1>1, Ranks
<1> QED
  BY <1>2, <1>3, <1>4

LEMMA NextModulo ==
    ASSUME NEW n \in Nat \ {0}, NEW i \in Nat
    PROVE  /\ i % n \in 0 .. n - 1
           /\ (i + 1) % n = IF i % n = n - 1 THEN 0 ELSE (i % n) + 1
<1> DEFINE q == i \div n
           r == i % n
           s == (i + 1) \div n
           t == (i + 1) % n
<1>1. q \in Int /\ r \in 0 .. n - 1 /\ i = n * q + r
  OBVIOUS
<1>2. s \in Int /\ t \in 0 .. n - 1 /\ i + 1 = n * s + t
  OBVIOUS
<1> HIDE DEF q, r, s, t
<1>3. s = q \/ s = q + 1
  <2>1. CASE s <= q - 1
    <3>1. n * s <= n * (q - 1)
      BY <1>1, <1>2, <2>1
    <3>2. n * (q - 1) = n * q - n
      BY <1>1
    <3> QED
      BY <1>1, <1>2, <3>1, <3>2
  <2>2. CASE s >= q + 2
    <3>1. n * s >= n * (q + 2)
      BY <1>1, <1>2, <2>2
    <3>2. n * (q + 2) = n * q + 2 * n
      BY <1>1
    <3> QED
      BY <1>1, <1>2, <3>1, <3>2
  <2> QED
    BY <1>1, <1>2, <2>1, <2>2
<1>4. CASE s = q
  BY <1>1, <1>2, <1>4 DEF r, t
<1>5. CASE s = q + 1
  <2>1. n * s = n * q + n
    BY <1>1, <1>5
  <2> QED
    BY <1>1, <1>2, <2>1 DEF r, t
<1> QED
  BY <1>3, <1>4, <1>5

\* One more user for the worker whose turn it is.
LEMMA EvenStep ==
    ASSUME NEW S \in SUBSET Worker, NEW f \in [Worker -> Nat], NEW g \in [Worker -> Nat],
           NEW i \in Nat, NEW w \in S, EvenAfter(S, f, i),
           Rank(w, S) = i % Cardinality(S), g[w] = f[w] + 1,
           \A v \in S \ {w} : g[v] = f[v]
    PROVE  EvenAfter(S, g, i + 1)
<1> DEFINE n == Cardinality(S)
           k == i % n
<1>1. /\ n \in Nat \ {0}
      /\ \A v \in S : Rank(v, S) \in Nat /\ Rank(v, S) < n
      /\ \A v \in S \ {w} : Rank(v, S) # k
  <2>1. /\ n \in Nat
        /\ \A v \in S : Rank(v, S) \in Nat /\ Rank(v, S) < n
        /\ \A v, x \in S : v < x => Rank(v, S) < Rank(x, S)
    BY Ranks
  <2>2. \A v \in S \ {w} : v < w \/ w < v
    OBVIOUS
  <2> QED
    BY <2>1, <2>2
<1>2. k \in Nat /\ (i + 1) % n = IF k = n - 1 THEN 0 ELSE k + 1
  BY <1>1, NextModulo
<1>3. PICK q \in Nat : \A v \in S : f[v] = q + (IF Rank(v, S) < k THEN 1 ELSE 0)
  BY DEF EvenAfter
<1>4. \A v \in S : g[v] = q + (IF Rank(v, S) < k + 1 THEN 1 ELSE 0)
  BY <1>1, <1>2, <1>3
<1> HIDE DEF n, k
<1>5. CASE k = n - 1
  <2>1. \A v \in S : g[v] = q + 1 + (IF Rank(v, S) < 0 THEN 1 ELSE 0)
    BY <1>1, <1>2, <1>4, <1>5
  <2>2. q + 1 \in Nat /\ (i + 1) % n = 0
    BY <1>2, <1>5
  <2> QED
    BY <2>1, <2>2 DEF EvenAfter, n
<1>6. CASE k # n - 1
  BY <1>2, <1>4, <1>6 DEF EvenAfter, n
<1> QED
  BY <1>5, <1>6

\* What a round-robin leaves is balanced.
LEMMA EvenIsBalanced ==
    ASSUME NEW S \in SUBSET Worker, NEW f, NEW i, EvenAfter(S, f, i), NEW v \in S, NEW w \in S
    PROVE  f[v] <= f[w] + 1
  BY DEF EvenAfter

-----------------------------------------------------------------------------
\* What a worker has been told.
LEMMA ToldSame ==
    ASSUME UNCHANGED <<commands, testEpoch>>, NEW w
    PROVE  ToldUsers(w)' = ToldUsers(w)
  BY DEF ToldUsers

\* A command about user u decides about u and about nobody else.
LEMMA PublishTells ==
    ASSUME TypeOK, subscribed = Worker, NEW w \in Worker, NEW type \in CommandType,
           NEW u \in UserId \union {NoUser},
           Publish(w, type, testEpoch, u), UNCHANGED testEpoch
    PROVE  /\ \A v \in Worker \ {w} : ToldUsers(v)' = ToldUsers(v)
           /\ ToldUsers(w)' = (ToldUsers(w) \ {u})
                                \union (IF type = "add_user" /\ u \in UserId THEN {u} ELSE {})
<1> DEFINE msg == [type |-> type, epoch |-> testEpoch, user |-> u]
           n   == Len(commands[w])
<1>1. msg \in Command /\ msg.user = u
  BY DEF TypeOK, RedisTypeOK, Command
<1>2. /\ \A v \in Worker \ {w} : commands'[v] = commands[v]
      /\ Len(commands'[w]) = n + 1 /\ n \in Nat
      /\ \A i \in 1 .. n : commands'[w][i] = commands[w][i]
      /\ commands'[w][n + 1] = msg
  BY <1>1, PublishAppends
<1>3. \A v \in Worker \ {w} : ToldUsers(v)' = ToldUsers(v)
  BY <1>2 DEF ToldUsers
<1>4. ASSUME NEW x \in UserId
      PROVE  x \in ToldUsers(w)' <=> (x \in ToldUsers(w) /\ x # u) \/ (x = u /\ type = "add_user")
  <2> DEFINE add == [type |-> "add_user", epoch |-> testEpoch, user |-> x]
             Last(i, m) == \A j \in i + 1 .. m : commands[w][j].user # x
  <2>1. x \in ToldUsers(w) <=> \E i \in 1 .. n : commands[w][i] = add /\ Last(i, n)
    BY DEF ToldUsers
  <2>2. x \in ToldUsers(w)' <=>
            \E i \in 1 .. n + 1 : /\ commands'[w][i] = add
                                  /\ \A j \in i + 1 .. n + 1 : commands'[w][j].user # x
    BY <1>2 DEF ToldUsers
  <2>3. \A i \in 1 .. n : commands'[w][i] = commands[w][i]
    BY <1>2
  <2>4. commands'[w][n + 1] = add <=> x = u /\ type = "add_user"
    <3>1. msg = add <=> x = u /\ type = "add_user"
      OBVIOUS
    <3> QED
      BY <1>2, <3>1
  <2>5. \A i \in 1 .. n : (\A j \in i + 1 .. n + 1 : commands'[w][j].user # x)
                             <=> Last(i, n) /\ x # u
    <3>1. SUFFICES ASSUME NEW i \in 1 .. n
                   PROVE  (\A j \in i + 1 .. n + 1 : commands'[w][j].user # x)
                             <=> Last(i, n) /\ x # u
      OBVIOUS
    <3>2. i + 1 .. n + 1 = (i + 1 .. n) \union {n + 1}
      BY <1>2
    <3>3. \A j \in i + 1 .. n : commands'[w][j] = commands[w][j]
      BY <1>2
    <3>4. commands'[w][n + 1].user = u
      BY <1>1, <1>2
    <3> QED
      BY <3>2, <3>3, <3>4
  <2>6. \A j \in n + 1 + 1 .. n + 1 : commands'[w][j].user # x
    BY <1>2
  <2> HIDE DEF add, Last, msg, n
  <2>7. ASSUME x \in ToldUsers(w)' PROVE (x \in ToldUsers(w) /\ x # u) \/ (x = u /\ type = "add_user")
    <3>1. PICK i \in 1 .. n + 1 : /\ commands'[w][i] = add
                                /\ \A j \in i + 1 .. n + 1 : commands'[w][j].user # x
      BY <2>2, <2>7
    <3>2. CASE i = n + 1
      BY <2>4, <3>1, <3>2
    <3>3. CASE i \in 1 .. n
      BY <2>1, <2>3, <2>5, <3>1, <3>3
    <3> QED
      BY <1>2, <3>2, <3>3
  <2>8. ASSUME x \in ToldUsers(w), x # u PROVE x \in ToldUsers(w)'
    <3>1. PICK i \in 1 .. n : commands[w][i] = add /\ Last(i, n)
      BY <2>1, <2>8
    <3>2. i \in 1 .. n + 1
      BY <1>2
    <3> QED
      BY <2>2, <2>3, <2>5, <2>8, <3>1, <3>2
  <2>9. ASSUME x = u, type = "add_user" PROVE x \in ToldUsers(w)'
    <3>1. n + 1 \in 1 .. n + 1
      BY <1>2
    <3> QED
      BY <2>2, <2>4, <2>6, <2>9, <3>1
  <2> QED
    BY <2>7, <2>8, <2>9
<1>5. ToldUsers(w) \subseteq UserId /\ ToldUsers(w)' \subseteq UserId
  BY DEF ToldUsers
<1>6. ToldUsers(w)' = (ToldUsers(w) \ {u})
                        \union (IF type = "add_user" /\ u \in UserId THEN {u} ELSE {})
  BY <1>4, <1>5
<1> QED
  BY <1>3, <1>6

\* Under a new epoch nobody has been told anything.
LEMMA NewEpochForgets ==
    ASSUME TypeOK, CommandsBehind, testEpoch' = testEpoch + 1, UNCHANGED commands,
           NEW w \in Worker
    PROVE  ToldUsers(w)' = {}
<1>1. ASSUME NEW i \in 1 .. Len(commands[w])
      PROVE  commands[w][i].epoch # testEpoch + 1
  <2>1. commands[w] \in Seq(Command) /\ testEpoch \in Nat
    BY DEF TypeOK, RedisTypeOK
  <2>2. commands[w][i] \in Command
    BY <2>1
  <2>3. commands[w][i].epoch \in Nat /\ commands[w][i].epoch <= testEpoch
    BY <2>2 DEF CommandsBehind, Command
  <2> QED
    BY <2>1, <2>3
<1> QED
  BY <1>1 DEF ToldUsers

-----------------------------------------------------------------------------
\* What each step owes: the index and the part about the handler.
BooksStep(r) == IndexFits' /\ BooksFit(r)'

\* What the steps have in common.
LEMMA GoesTo ==
    ASSUME TypeOK, NEW r \in Request, NEW a, GoTo(r, a)
    PROVE  pc'[r] = a /\ op'[r] = op[r] /\ target'[r] = target[r] /\ faults' = faults
  BY DEF GoTo, TypeOK, RequestTypeOK, boundVars

LEMMA Population ==
    ASSUME KeysFit
    PROVE  \E n \in Count : users = 1 .. n /\ Cardinality(users) = n
  BY CountOf DEF KeysFit, Count

LEMMA IndexSame ==
    ASSUME IndexFits, UNCHANGED <<users, userWorker, workerUsers>>
    PROVE  IndexFits'
  BY DEF IndexFits

\* A step that tells nobody anything, from where worker and Redis agree.
LEMMA DeliverySame ==
    ASSUME NEW r \in Request, DeliveryFits(r), pc[r] \in TryAwaits \union ChangeAwaits,
           UNCHANGED <<commands, testEpoch, workerUsers>>, faults' = 0 => faults = 0,
           Ahead(r)' = Ahead(r)
    PROVE  DeliveryFits(r)'
<1>1. \A w \in Worker : ToldUsers(w)' = ToldUsers(w)
  BY ToldSame
<1> QED
  BY <1>1 DEF DeliveryFits

\* The handler returns: its locals are gone, the books have to agree.
LEMMA EndBooks ==
    ASSUME BooksInv, NEW r \in Request, Finish(r), IndexFits',
           faults' = 0 => timeline' = Cardinality(users'),
           faults' = 0 /\ testState' = "RUNNING" =>
               \A w \in Worker : ToldUsers(w)' = workerUsers'[w]
    PROVE  BooksStep(r)
<1>1. /\ pc'[r] = "idle" /\ op'[r] = "none" /\ index'[r] = 0 /\ base'[r] = 0 /\ added'[r] = 0
  BY DEF Finish, BooksInv, ChannelInv, OneClientInv, FenceInv, TypeOK, RequestTypeOK
<1>2. LocalsFit(r)' /\ BalanceFits(r)'
  BY <1>1 DEF LocalsFit, BalanceFits, StopAwaits, Told
<1>3. TimelineFits(r)'
  BY <1>1 DEF TimelineFits, RollsBack
<1>4. DeliveryFits(r)'
  BY <1>1 DEF DeliveryFits, Ahead, TryAwaits, ChangeAwaits
<1> QED
  BY <1>2, <1>3, <1>4 DEF BooksStep, BooksFit

\* A handler on its way to IDLE: a rollback without a fault has nobody to remove.
LEMMA StoppingBooks ==
    ASSUME NEW r \in Request, IndexFits', pc'[r] \in StopAwaits, op'[r] \in {"start", "stop"},
           pc'[r] = "clear" => recipients'[r] = Worker,
           faults' = 0 /\ op'[r] = "start" => users' = {} /\ timeline' = 0,
           faults' = 0 /\ pc'[r] = "set_idle" => timeline' = Cardinality(users')
    PROVE  BooksStep(r)
<1>1. LocalsFit(r)' /\ BalanceFits(r)'
  BY DEF LocalsFit, BalanceFits, StopAwaits, Told, TryAwaits
<1>2. TimelineFits(r)'
  BY DEF TimelineFits, RollsBack, StopAwaits
<1>3. DeliveryFits(r)'
  BY DEF DeliveryFits, TryAwaits, ChangeAwaits, StopAwaits
<1> QED
  BY <1>1, <1>2, <1>3 DEF BooksStep, BooksFit

\* An exception, in a start a rollback.
LEMMA RaiseBooks ==
    ASSUME BooksInv, NEW r \in Request, Raise(r), UNCHANGED redisVars,
           \/ faults' # 0
           \/ faults' = faults /\ pc[r] \in {"start_scan", "add_scan"}
    PROVE  BooksStep(r)
<1> USE DEF BooksInv, ChannelInv, OneClientInv, FenceInv
<1>1. /\ UNCHANGED <<users, userWorker, workerUsers, timeline, commands, testEpoch>>
      /\ IndexFits'
  BY IndexSame DEF redisVars, stateKeys, userSetKeys
<1>2. \A w \in Worker : ToldUsers(w)' = ToldUsers(w)
  BY <1>1, ToldSame
<1>3. faults' = 0 => faults = 0 /\ pc[r] \in {"start_scan", "add_scan"}
  OBVIOUS
<1>4. faults' = 0 => timeline = Cardinality(users)
  BY <1>3 DEF BooksFit, TimelineFits
<1>5. faults' = 0 => \A w \in Worker : ToldUsers(w) = workerUsers[w]
  BY <1>3 DEF BooksFit, DeliveryFits, TryAwaits, Ahead
<1>6. faults' = 0 /\ op[r] = "start" => users = {} /\ timeline = 0
  BY <1>3, <1>4, FS_EmptySet DEF Fits, UsersFit
<1>7. CASE Finish(r)
  BY <1>1, <1>2, <1>4, <1>5, <1>7, EndBooks
<1>8. ASSUME NEW a \in {"stop_scan", "clear_list"}, op[r] = "start", Continues(r, a)
      PROVE  BooksStep(r)
  <2>1. pc'[r] = a /\ op'[r] = "start"
    BY <1>8 DEF Continues, TypeOK, RequestTypeOK
  <2> QED
    BY <1>1, <1>6, <1>8, <2>1, StoppingBooks DEF StopAwaits
<1> QED
  BY <1>7, <1>8 DEF Raise

\* Requests find the locals of the slot fresh.
LEMMA SubmitBooks ==
    ASSUME BooksInv, NEW r \in Request, Submit(r)
    PROVE  BooksStep(r)
<1> USE DEF BooksInv, ChannelInv, OneClientInv, FenceInv
<1>1. pc[r] = "idle" /\ index[r] = 0 /\ base[r] = 0 /\ added[r] = 0
  BY DEF Submit, StartTest, ChangeUsers, StopTest, Accept, BooksFit, LocalsFit
<1>2. IndexFits' /\ UNCHANGED <<users, userWorker, workerUsers, timeline, commands>>
  BY IndexSame DEF Submit, StartTest, ChangeUsers, StopTest, redisVars, userSetKeys
<1>3. ASSUME NEW n \in Targets, NEW p \in BOOLEAN, StartTest(r, n, p)
      PROVE  BooksStep(r)
  <2>1. /\ pc'[r] = "prepare" /\ op'[r] = "start" /\ testState = "IDLE"
        /\ testEpoch' = testEpoch + 1 /\ UNCHANGED <<index, base, added, faults>>
    BY <1>3 DEF StartTest, StartPreparingAndBumpEpoch, Accept, TypeOK, RequestTypeOK
  <2>2. users = {} /\ \A w \in Worker : workerUsers'[w] = {}
    BY <1>2, <2>1 DEF KeysFit, IndexFits
  <2>3. \A w \in Worker : ToldUsers(w)' = {}
    BY <1>2, <2>1, NewEpochForgets DEF EpochFence
  <2>4. LocalsFit(r)' /\ BalanceFits(r)'
    BY <1>1, <2>1 DEF LocalsFit, BalanceFits, StopAwaits, Told
  <2>5. TimelineFits(r)'
    BY <1>1, <2>1 DEF TimelineFits, RollsBack, StopAwaits
  <2>6. DeliveryFits(r)'
    BY <2>1, <2>2, <2>3 DEF DeliveryFits, Ahead
  <2> QED
    BY <1>2, <2>4, <2>5, <2>6 DEF BooksStep, BooksFit
<1>4. ASSUME NEW n \in Targets, NEW p \in BOOLEAN, ChangeUsers(r, n, p)
      PROVE  BooksStep(r)
  <2>1. /\ pc'[r] = "change_epoch" /\ op'[r] = "change" /\ testState = "RUNNING"
        /\ UNCHANGED <<index, base, added, faults, testEpoch>>
    BY <1>4 DEF ChangeUsers, Accept, TypeOK, RequestTypeOK, redisVars, stateKeys
  <2>2. \A w \in Worker : ToldUsers(w)' = ToldUsers(w)
    BY <1>2, <2>1, ToldSame
  <2>3. LocalsFit(r)' /\ BalanceFits(r)'
    BY <1>1, <2>1 DEF LocalsFit, BalanceFits, StopAwaits, Told
  <2>4. TimelineFits(r)'
    BY <1>1, <1>2, <2>1 DEF BooksFit, TimelineFits, RollsBack, StopAwaits
  <2>5. DeliveryFits(r)'
    BY <1>1, <1>2, <2>1, <2>2 DEF BooksFit, DeliveryFits, Ahead
  <2> QED
    BY <1>2, <2>3, <2>4, <2>5 DEF BooksStep, BooksFit
<1>5. CASE StopTest(r)
  <2>1. pc'[r] = "stop_cas" /\ op'[r] = "stop"
    BY <1>5 DEF StopTest, Accept, TypeOK, RequestTypeOK
  <2> QED
    BY <1>2, <2>1, StoppingBooks DEF StopAwaits
<1> QED
  BY <1>3, <1>4, <1>5 DEF Submit

\* start_test outside add_users.
LEMMA StartBooks ==
    ASSUME BooksInv, NEW r \in Request, StartStep(r)
    PROVE  BooksStep(r)
<1> USE DEF BooksInv, ChannelInv, OneClientInv, FenceInv
<1>1. CASE Prepare(r)
  <2>1. /\ pc[r] = "prepare" /\ pc'[r] = "start_scan" /\ op'[r] = op[r] /\ timeline' = 0
        /\ UNCHANGED <<index, base, added, faults, testEpoch, commands, users, userWorker,
                       workerUsers>>
    BY <1>1, GoesTo DEF Prepare, stateKeys, userSetKeys
  <2>2. op[r] = "start" /\ users = {} /\ Cardinality(users) = 0
    BY <2>1, FS_EmptySet DEF Fits, UsersFit
  <2>3. IndexFits'
    BY <2>1, IndexSame
  <2>4. LocalsFit(r)' /\ BalanceFits(r)'
    BY <2>1 DEF BooksFit, LocalsFit, BalanceFits, StopAwaits, Told
  <2>5. TimelineFits(r)'
    BY <2>1, <2>2 DEF BooksFit, TimelineFits, RollsBack, StopAwaits
  <2>6. DeliveryFits(r)'
    BY <2>1, DeliverySame DEF BooksFit, Ahead, TryAwaits
  <2> QED
    BY <2>3, <2>4, <2>5, <2>6 DEF BooksStep, BooksFit
<1>2. CASE ScanForStart(r)
  <2>1. /\ pc[r] = "start_scan" /\ pc'[r] = "start_pub" /\ op'[r] = op[r]
        /\ UNCHANGED <<index, base, added, faults, timeline, testEpoch, commands, users,
                       userWorker, workerUsers>>
    BY <1>2, GoesTo DEF ScanForStart, redisVars, stateKeys, userSetKeys
  <2>2. IndexFits'
    BY <2>1, IndexSame
  <2>3. LocalsFit(r)' /\ BalanceFits(r)'
    BY <2>1 DEF BooksFit, LocalsFit, BalanceFits, StopAwaits, Told
  <2>4. TimelineFits(r)'
    BY <2>1 DEF BooksFit, TimelineFits, RollsBack, StopAwaits
  <2>5. DeliveryFits(r)'
    BY <2>1, DeliverySame DEF BooksFit, Ahead, TryAwaits
  <2> QED
    BY <2>2, <2>3, <2>4, <2>5 DEF BooksStep, BooksFit
<1>3. CASE NoAliveWorkers(r)
  BY <1>3, RaiseBooks DEF NoAliveWorkers
<1>4. CASE PublishStartTest(r)
  <2>1. PICK w \in recipients[r] : Publish(w, "start_test", reqEpoch[r], NoUser)
    BY <1>4 DEF PublishStartTest, Broadcast
  <2>2. /\ pc[r] = "start_pub" /\ pc'[r] \in {"start_pub", "add_scan"} /\ op'[r] = op[r]
        /\ reqEpoch[r] = testEpoch
        /\ UNCHANGED <<index, base, added, faults, timeline, testEpoch, users, userWorker,
                       workerUsers>>
    BY <1>4, BroadcastHere DEF PublishStartTest, Broadcast, GoTo, boundVars, stateKeys,
       userSetKeys, ChannelFits, Informed, TryAwaits
  <2>3. op[r] = "start" /\ users = {} /\ Cardinality(users) = 0
    BY <2>2, FS_EmptySet DEF Fits, UsersFit
  <2>4. w \in Worker
    BY <2>1 DEF TypeOK, RequestTypeOK
  <2>5. Publish(w, "start_test", testEpoch, NoUser)
    BY <2>1, <2>2
  <2>6. \A v \in Worker : ToldUsers(v)' = ToldUsers(v)
    <3>1. /\ \A v \in Worker \ {w} : ToldUsers(v)' = ToldUsers(v)
          /\ ToldUsers(w)' = ToldUsers(w) \ {NoUser}
      BY <2>2, <2>4, <2>5, PublishTells DEF ChannelsFit, Presence, CommandType
    <3>2. NoUser \notin ToldUsers(w)
      BY DEF ToldUsers, UserId, NoUser
    <3> QED
      BY <3>1, <3>2
  <2>7. IndexFits'
    BY <2>2, IndexSame
  <2>8. LocalsFit(r)' /\ BalanceFits(r)'
    BY <2>2 DEF BooksFit, LocalsFit, BalanceFits, StopAwaits, Told
  <2>9. TimelineFits(r)'
    BY <2>2, <2>3 DEF BooksFit, TimelineFits, RollsBack, StopAwaits
  <2>10. DeliveryFits(r)'
    BY <2>2, <2>6 DEF BooksFit, DeliveryFits, Ahead, TryAwaits
  <2> QED
    BY <2>7, <2>8, <2>9, <2>10 DEF BooksStep, BooksFit
<1>5. CASE ListForStatus(r)
  <2>1. /\ pc[r] = "status_list" /\ UNCHANGED redisVars
        /\ UNCHANGED <<timeline, testEpoch, commands, users, userWorker, workerUsers>>
    BY <1>5 DEF ListForStatus, redisVars, stateKeys, userSetKeys
  <2>2. IndexFits'
    BY <2>1, IndexSame
  <2>3. CASE Finish(r) /\ UNCHANGED faults
    <3>1. \A w \in Worker : ToldUsers(w)' = ToldUsers(w)
      BY <2>1, ToldSame
    <3>2. faults' = 0 => timeline' = Cardinality(users')
      BY <2>1, <2>3 DEF BooksFit, TimelineFits
    <3>3. faults' = 0 => \A w \in Worker : ToldUsers(w)' = workerUsers'[w]
      BY <2>1, <2>3, <3>1 DEF BooksFit, DeliveryFits, Ahead, TryAwaits
    <3> QED
      BY <2>2, <2>3, <3>2, <3>3, EndBooks
  <2>4. CASE /\ GoTo(r, IF users = {} THEN "commit" ELSE "status_write")
             /\ UNCHANGED <<recipients, index, base, added>>
    <3>1. /\ pc'[r] \in {"commit", "status_write"} /\ op'[r] = op[r]
          /\ UNCHANGED <<recipients, index, base, added, faults>> /\ Share' = Share
      BY <2>1, <2>4, GoesTo DEF Share
    <3>2. LocalsFit(r)'
      BY <3>1 DEF LocalsFit, StopAwaits
    <3>3. BalanceFits(r)'
      BY <2>1, <3>1 DEF BooksFit, BalanceFits, Told, TryAwaits
    <3>4. TimelineFits(r)'
      BY <2>1, <3>1 DEF BooksFit, TimelineFits, RollsBack, StopAwaits
    <3>5. DeliveryFits(r)'
      BY <2>1, <3>1, DeliverySame DEF BooksFit, Ahead, TryAwaits
    <3> QED
      BY <2>2, <3>2, <3>3, <3>4, <3>5 DEF BooksStep, BooksFit
  <2> QED
    BY <1>5, <2>3, <2>4 DEF ListForStatus
<1>6. CASE WriteStatus(r)
  <2>1. /\ pc[r] = "status_write"
        /\ UNCHANGED <<timeline, testEpoch, commands, users, userWorker, workerUsers>>
    BY <1>6 DEF WriteStatus, SetAllUsersStatus, stateKeys
  <2>2. IndexFits'
    BY <2>1, IndexSame
  <2>3. CASE Finish(r) /\ UNCHANGED faults
    <3>1. \A w \in Worker : ToldUsers(w)' = ToldUsers(w)
      BY <2>1, ToldSame
    <3>2. faults' = 0 => timeline' = Cardinality(users')
      BY <2>1, <2>3 DEF BooksFit, TimelineFits
    <3>3. faults' = 0 => \A w \in Worker : ToldUsers(w)' = workerUsers'[w]
      BY <2>1, <2>3, <3>1 DEF BooksFit, DeliveryFits, Ahead, TryAwaits
    <3> QED
      BY <2>2, <2>3, <3>2, <3>3, EndBooks
  <2>4. CASE GoTo(r, "commit") /\ UNCHANGED <<recipients, index, base, added>>
    <3>1. /\ pc'[r] = "commit" /\ op'[r] = op[r]
          /\ UNCHANGED <<recipients, index, base, added, faults>> /\ Share' = Share
      BY <2>1, <2>4, GoesTo DEF Share
    <3>2. LocalsFit(r)'
      BY <3>1 DEF LocalsFit, StopAwaits
    <3>3. BalanceFits(r)'
      BY <2>1, <3>1 DEF BooksFit, BalanceFits, Told, TryAwaits
    <3>4. TimelineFits(r)'
      BY <2>1, <3>1 DEF BooksFit, TimelineFits, RollsBack, StopAwaits
    <3>5. DeliveryFits(r)'
      BY <2>1, <3>1, DeliverySame DEF BooksFit, Ahead, TryAwaits
    <3> QED
      BY <2>2, <3>2, <3>3, <3>4, <3>5 DEF BooksStep, BooksFit
  <2> QED
    BY <1>6, <2>3, <2>4 DEF WriteStatus
<1>7. CASE Commit(r)
  <2>1. /\ pc[r] = "commit" /\ Finish(r)
        /\ UNCHANGED <<faults, timeline, testEpoch, commands, users, userWorker, workerUsers>>
    BY <1>7 DEF Commit, CompareAndSetState, userSetKeys
  <2>2. IndexFits' /\ \A w \in Worker : ToldUsers(w)' = ToldUsers(w)
    BY <2>1, IndexSame, ToldSame
  <2>3. faults' = 0 => timeline' = Cardinality(users')
    BY <2>1 DEF BooksFit, TimelineFits
  <2>4. faults' = 0 => \A w \in Worker : ToldUsers(w)' = workerUsers'[w]
    BY <2>1, <2>2 DEF BooksFit, DeliveryFits, Ahead, TryAwaits
  <2> QED
    BY <2>1, <2>2, <2>3, <2>4, EndBooks
<1> QED
  BY <1>1, <1>2, <1>3, <1>4, <1>5, <1>6, <1>7 DEF StartStep

\* stop_test and the rollback; change_users learns the epoch by the way.
LEMMA StopBooks ==
    ASSUME BooksInv, NEW r \in Request, StopStep(r)
    PROVE  BooksStep(r)
<1> USE DEF BooksInv, ChannelInv, OneClientInv, FenceInv
<1>1. pc[r] \in StopAwaits => /\ op[r] \in {"start", "stop"}
                              /\ faults = 0 /\ op[r] = "start" => users = {} /\ timeline = 0
  BY DEF BooksFit, LocalsFit, TimelineFits, RollsBack
<1>2. ASSUME pc[r] \in StopAwaits, NEW a \in StopAwaits \ {"clear", "set_idle"}, GoTo(r, a),
             UNCHANGED <<users, userWorker, workerUsers, timeline>>
      PROVE  BooksStep(r)
  <2>1. pc'[r] = a /\ op'[r] = op[r] /\ faults' = faults
    BY <1>2, GoesTo
  <2>2. IndexFits'
    BY <1>2, IndexSame
  <2> QED
    BY <1>1, <1>2, <2>1, <2>2, StoppingBooks
<1>3. CASE StopCas(r)
  <2>1. testState = seen[r]
    BY <1>3 DEF StopCas, Fits, StateFits
  <2> QED
    BY <1>2, <1>3, <2>1 DEF StopCas, userSetKeys, StopAwaits
<1>4. CASE ReadEpoch(r)
  <2>1. UNCHANGED <<users, userWorker, workerUsers, timeline, commands, testEpoch>>
    BY <1>4 DEF ReadEpoch, redisVars, stateKeys, userSetKeys
  <2>2. CASE pc[r] = "stop_epoch" /\ GoTo(r, "stop_scan")
    BY <1>2, <2>1, <2>2 DEF StopAwaits
  <2>3. CASE pc[r] = "change_epoch" /\ GoTo(r, "change_list")
    <3>1. /\ pc'[r] = "change_list" /\ op'[r] = op[r] /\ op[r] # "start"
          /\ UNCHANGED <<base, added, faults>>
      BY <1>4, <2>3, GoesTo DEF ReadEpoch, Fits, StateFits, ChangeAwaits
    <3>2. LocalsFit(r)' /\ BalanceFits(r)'
      BY <3>1 DEF LocalsFit, BalanceFits, StopAwaits
    <3>3. TimelineFits(r)'
      BY <2>1, <2>3, <3>1 DEF BooksFit, TimelineFits, RollsBack
    <3>4. DeliveryFits(r)'
      BY <2>1, <2>3, <3>1, DeliverySame DEF BooksFit, Ahead, ChangeAwaits
    <3>5. IndexFits'
      BY <2>1, IndexSame
    <3> QED
      BY <3>2, <3>3, <3>4, <3>5 DEF BooksStep, BooksFit
  <2> QED
    BY <1>4, <2>2, <2>3 DEF ReadEpoch
<1>5. CASE ScanForStop(r)
  <2>1. PICK a \in {"clear_list", "stop_pub"} : GoTo(r, a)
    BY <1>5 DEF ScanForStop
  <2> QED
    BY <1>2, <1>5, <2>1 DEF ScanForStop, redisVars, userSetKeys, StopAwaits
<1>6. CASE PublishStopTest(r)
  <2>1. PICK a \in {"clear_list", "stop_pub"} : GoTo(r, a)
    BY <1>6 DEF PublishStopTest, Broadcast
  <2> QED
    BY <1>2, <1>6, <2>1 DEF PublishStopTest, Broadcast, userSetKeys, StopAwaits
<1>7. CASE ListForClear(r)
  <2>1. /\ pc[r] = "clear_list" /\ pc'[r] = "clear" /\ op'[r] = op[r] /\ faults' = faults
        /\ recipients'[r] = workers
        /\ UNCHANGED <<users, userWorker, workerUsers, timeline>>
    BY <1>7, GoesTo DEF ListForClear, redisVars, userSetKeys, TypeOK, RequestTypeOK
  <2>2. IndexFits' /\ recipients'[r] = Worker
    BY <2>1, IndexSame DEF ChannelsFit, Presence
  <2> QED
    BY <1>1, <2>1, <2>2, StoppingBooks DEF StopAwaits
<1>8. CASE Clear(r)
  <2>1. /\ pc[r] = "clear" /\ pc'[r] = IF op[r] = "stop" THEN "stop_point" ELSE "set_idle"
        /\ op'[r] = op[r] /\ faults' = faults /\ ClearUsersData(todo[r], recipients[r])
        /\ users' = {} /\ timeline' = timeline
    BY <1>8, GoesTo DEF Clear, ClearUsersData
  <2>2. recipients[r] = Worker
    BY <2>1 DEF BooksFit, LocalsFit
  <2>3. IndexFits'
    BY <2>1, <2>2 DEF ClearUsersData, IndexFits
  <2>4. Cardinality(users') = 0
    BY <2>1, FS_EmptySet
  <2> QED
    BY <1>1, <2>1, <2>3, <2>4, StoppingBooks DEF StopAwaits
<1>9. CASE StopPoint(r)
  <2>1. /\ pc[r] = "stop_point" /\ pc'[r] = "set_idle" /\ op'[r] = op[r] /\ faults' = faults
        /\ timeline' = 0 /\ UNCHANGED <<users, userWorker, workerUsers>>
    BY <1>9, GoesTo DEF StopPoint, AppendTimeline, userSetKeys
  <2>2. IndexFits' /\ users = {} /\ Cardinality(users) = 0
    BY <2>1, IndexSame, FS_EmptySet DEF Fits, UsersFit
  <2> QED
    BY <1>1, <2>1, <2>2, StoppingBooks DEF StopAwaits
<1>10. CASE SetIdle(r)
  <2>1. /\ pc[r] = "set_idle" /\ Finish(r) /\ testState' = "IDLE"
        /\ UNCHANGED <<faults, timeline, users, userWorker, workerUsers>>
    BY <1>10 DEF SetIdle, SetState, userSetKeys
  <2>2. IndexFits'
    BY <2>1, IndexSame
  <2>3. faults' = 0 => timeline' = Cardinality(users')
    BY <2>1 DEF BooksFit, TimelineFits
  <2> QED
    BY <2>1, <2>2, <2>3, EndBooks
<1> QED
  BY <1>3, <1>4, <1>5, <1>6, <1>7, <1>8, <1>9, <1>10 DEF StopStep

\* Before the first user the shares are even, at 0.
LEMMA EvenStart ==
    ASSUME NEW S \in SUBSET Worker, S # {}, NEW f, \A w \in S : f[w] = 0
    PROVE  EvenAfter(S, f, 0)
<1>1. Cardinality(S) \in Nat \ {0}
  BY FS_Subset, FS_EmptySet, Ranks
<1>2. 0 % Cardinality(S) = 0
  BY <1>1
<1>3. \A w \in S : Rank(w, S) \in Nat
  BY Ranks
<1>4. \A w \in S : f[w] = 0 + (IF Rank(w, S) < 0 % Cardinality(S) THEN 1 ELSE 0)
  BY <1>2, <1>3
<1>5. 0 \in Nat
  OBVIOUS
<1> QED
  BY <1>4, <1>5 DEF EvenAfter

\* The user at hand is the least of those to add.
LEMMA NextHere ==
    ASSUME TypeOK, NEW r \in Request, NEW u, NextAllocation(r, u)
    PROVE  /\ pc'[r] = IF todo[r] = {u} THEN "status_list"
                       ELSE IF paced[r] THEN "add_check" ELSE "add_read"
           /\ op'[r] = op[r] /\ faults' = faults /\ index'[r] = index[r] + 1
  BY GoesTo DEF NextAllocation, TypeOK, RequestTypeOK

\* One client meets none of the branches that are there for overlapping requests.
LEMMA NothingUnexpected ==
    ASSUME BooksInv, NEW r \in Request
    PROVE  /\ ~SkipExisting(r) /\ ~InvalidAssignment(r) /\ ~AddAborted(r) /\ ~SkipMissing(r)
           /\ pc[r] \in {"add_read", "add_write"} =>
                  \A u \in todo[r] : u \notin users
           /\ pc[r] \in {"add_pub", "add_point"} =>
                  \A u \in todo[r] : IsLowest(u, todo[r]) => u \in users
           /\ pc[r] \in {"rem_read", "rem_pub", "rem_hget", "rem_write"} => todo[r] \subseteq users
<1> USE DEF BooksInv, ChannelInv, OneClientInv, FenceInv
<1>1. pc[r] \in {"add_read", "add_write"} => \A u \in todo[r] : u \notin users
  BY DEF Fits, UsersFit, AddsNext, Count
<1>2. pc[r] \in {"rem_read", "rem_pub", "rem_hget", "rem_write"} => todo[r] \subseteq users
  BY DEF Fits, UsersFit, RemovesLast, Count
<1>3. ~SkipExisting(r)
  BY <1>1 DEF SkipExisting, KeysFit
<1>4. ~SkipMissing(r)
  BY <1>2 DEF SkipMissing, KeysFit
<1>5. ~InvalidAssignment(r)
  BY <1>1, <1>2 DEF InvalidAssignment, KeysFit, MembersAreAssigned
<1>6. ~AddAborted(r)
  BY DEF AddAborted, ExpectedState, Fits, StateFits, TryAwaits
<1>7. pc[r] \in {"add_pub", "add_point"} =>
          \A u \in todo[r] : IsLowest(u, todo[r]) => u \in users
  <2>1. SUFFICES ASSUME pc[r] \in {"add_pub", "add_point"}, NEW u \in todo[r],
                        IsLowest(u, todo[r])
                 PROVE  u \in users
    OBVIOUS
  <2>2. PICK n \in Count, m \in Count : 0 < n /\ n <= m /\ users = 1 .. n /\ todo[r] = n .. m
    BY <2>1 DEF Fits, UsersFit, AddedFirst
  <2>3. n \in Nat /\ m \in Nat /\ n <= m /\ IsLowest(u, n .. m)
    BY <2>1, <2>2 DEF Count
  <2>4. u = n
    BY <2>3, LowestOf
  <2> QED
    BY <2>2, <2>3, <2>4
<1> QED
  BY <1>1, <1>2, <1>3, <1>4, <1>5, <1>6, <1>7

\* add_users.
LEMMA AddBooks ==
    ASSUME BooksInv, NEW r \in Request, AddUsersStep(r)
    PROVE  BooksStep(r)
<1> USE DEF BooksInv, ChannelInv, OneClientInv, FenceInv
<1>1. CASE ScanForAdd(r)
  <2>1. PICK a \in {"status_list", "add_read"} : GoTo(r, a)
    BY <1>1 DEF ScanForAdd
  <2>2. /\ pc[r] = "add_scan" /\ pc'[r] = a /\ op'[r] = op[r]
        /\ recipients'[r] = AliveWorkers /\ AliveWorkers # {} /\ AliveWorkers \in SUBSET Worker
        /\ UNCHANGED <<index, base, added, faults, timeline, testEpoch, commands, users,
                       userWorker, workerUsers>>
    BY <1>1, <2>1, GoesTo DEF ScanForAdd, redisVars, stateKeys, userSetKeys, TypeOK,
       RequestTypeOK, RedisTypeOK, AliveWorkers
  <2>3. IndexFits'
    BY <2>2, IndexSame
  <2>4. LocalsFit(r)'
    BY <2>2 DEF LocalsFit, StopAwaits
  <2>5. BalanceFits(r)'
    <3>1. CASE op[r] = "start"
      <4>1. \A w \in AliveWorkers : Share'[w] = 0
        BY <2>2, <3>1, FS_EmptySet DEF Share, IndexFits, Fits, UsersFit
      <4>2. EvenAfter(AliveWorkers, Share', 0)
        BY <2>2, <4>1, EvenStart
      <4>3. index'[r] = 0
        BY <2>2, <3>1 DEF BooksFit, BalanceFits
      <4> QED
        BY <2>1, <2>2, <4>2, <4>3 DEF BalanceFits
    <3>2. CASE op[r] # "start"
      BY <2>2, <3>2 DEF BalanceFits
    <3> QED
      BY <3>1, <3>2
  <2>6. TimelineFits(r)'
    BY <2>1, <2>2, Population DEF BooksFit, TimelineFits, RollsBack, StopAwaits, Count
  <2>7. DeliveryFits(r)'
    BY <2>1, <2>2, DeliverySame DEF BooksFit, Ahead, TryAwaits
  <2> QED
    BY <2>3, <2>4, <2>5, <2>6, <2>7 DEF BooksStep, BooksFit
<1>2. CASE AddAbsent(r) \/ AddCheck(r)
  <2>1. /\ \/ pc[r] = "add_read" /\ pc'[r] = "add_write"
           \/ pc[r] = "add_check" /\ pc'[r] = "add_read"
        /\ op'[r] = op[r]
        /\ UNCHANGED <<recipients, index, base, added, faults, timeline, testEpoch, commands,
                       users, userWorker, workerUsers>>
    BY <1>2, GoesTo DEF AddAbsent, AddCheck, redisVars, stateKeys, userSetKeys
  <2>2. IndexFits' /\ Share' = Share
    BY <2>1, IndexSame DEF Share
  <2>3. LocalsFit(r)'
    BY <2>1 DEF LocalsFit, StopAwaits
  <2>4. BalanceFits(r)'
    BY <2>1, <2>2 DEF BooksFit, BalanceFits, Told, TryAwaits
  <2>5. TimelineFits(r)'
    BY <2>1 DEF BooksFit, TimelineFits, RollsBack, StopAwaits
  <2>6. DeliveryFits(r)'
    BY <2>1, DeliverySame DEF BooksFit, Ahead, TryAwaits
  <2> QED
    BY <2>2, <2>3, <2>4, <2>5, <2>6 DEF BooksStep, BooksFit
<1>3. CASE AddWrite(r)
  <2>1. PICK u \in todo[r], w \in recipients[r] :
           IsLowest(u, todo[r]) /\ IsAllocated(w, r) /\ AddUserAssignment(u, w)
    BY <1>3 DEF AddWrite
  <2>2. /\ pc[r] = "add_write" /\ pc'[r] = "add_pub" /\ op'[r] = op[r]
        /\ u \in UserId /\ w \in Worker /\ u \notin users
        /\ UNCHANGED <<todo, recipients, index, base, added, faults, timeline, testEpoch,
                       commands>>
    BY <1>3, GoesTo, NothingUnexpected DEF AddWrite, stateKeys, TypeOK, RequestTypeOK
  <2>3. /\ users' = users \union {u} /\ userWorker' = [userWorker EXCEPT ![u] = w]
        /\ workerUsers'[w] = workerUsers[w] \union {u} /\ u \notin workerUsers[w]
        /\ \A v \in Worker \ {w} : workerUsers'[v] = workerUsers[v] /\ u \notin workerUsers[v]
    BY <2>1, <2>2 DEF AddUserAssignment, IndexFits, TypeOK, RedisTypeOK
  <2>4. IndexFits'
    BY <2>2, <2>3 DEF IndexFits, TypeOK, RedisTypeOK
  <2>5. LocalsFit(r)'
    <3>1. ASSUME NEW x \in todo[r], NEW v \in recipients[r], IsLowest(x, todo[r]),
                 IsAllocated(v, r)
          PROVE  userWorker'[x] = v
      <4>1. x = u
        <5>1. x \in Nat /\ u \in Nat
          BY DEF TypeOK, RequestTypeOK, UserId
        <5> QED
          BY <2>1, <3>1, <5>1 DEF IsLowest
      <4>2. v = w
        BY <2>1, <3>1, OneAllocated
      <4> QED
        BY <2>2, <2>3, <4>1, <4>2 DEF TypeOK, RedisTypeOK
    <3>2. todo'[r] = todo[r] /\ recipients'[r] = recipients[r] /\ index'[r] = index[r]
      BY <2>2
    <3> QED
      BY <2>2, <3>1, <3>2 DEF LocalsFit, StopAwaits, IsLowest, IsAllocated
  <2>6. BalanceFits(r)'
    <3>1. CASE op[r] = "start"
      <4>1. /\ EvenAfter(recipients[r], Share, index[r]) /\ recipients[r] # {}
            /\ index[r] \in Nat /\ recipients[r] \in SUBSET Worker
        BY <2>2, <3>1 DEF BooksFit, BalanceFits, Told, TryAwaits, TypeOK, RequestTypeOK
      <4>2. \A v \in Worker : IsFiniteSet(workerUsers[v]) /\ Cardinality(workerUsers[v]) \in Nat
        BY UsersFinite, FS_CardinalityType, FS_Subset DEF TypeOK, RedisTypeOK
      <4>3. Cardinality(workerUsers'[w]) = Cardinality(workerUsers[w]) + 1
        <5>1. IsFiniteSet(workerUsers[w]) /\ u \notin workerUsers[w]
          BY <2>2, <2>3, <4>2
        <5>2. Cardinality(workerUsers[w] \union {u}) = Cardinality(workerUsers[w]) + 1
          BY <5>1, FS_AddElement
        <5> QED
          BY <2>3, <5>2
      <4>4. /\ Share \in [Worker -> Nat] /\ Share' \in [Worker -> Nat]
            /\ Share'[w] = Share[w] + 1 /\ \A v \in Worker \ {w} : Share'[v] = Share[v]
        <5>1. \A v \in Worker : Cardinality(workerUsers'[v]) \in Nat
          <6>1. SUFFICES ASSUME NEW v \in Worker
                         PROVE  Cardinality(workerUsers'[v]) \in Nat
            OBVIOUS
          <6>2. CASE v = w
            <7>1. Cardinality(workerUsers[w]) \in Nat
              BY <2>2, <4>2
            <7> QED
              BY <4>3, <6>2, <7>1
          <6>3. CASE v # w
            BY <2>3, <4>2, <6>3
          <6> QED
            BY <6>2, <6>3
        <5>2. /\ Share = [v \in Worker |-> Cardinality(workerUsers[v])]
              /\ Share' = [v \in Worker |-> Cardinality(workerUsers'[v])]
          BY DEF Share
        <5> QED
          BY <2>2, <2>3, <4>2, <4>3, <5>1, <5>2
      <4>5. Rank(w, recipients[r]) = index[r] % Cardinality(recipients[r])
        BY <2>1 DEF IsAllocated, Rank
      <4>6. EvenAfter(recipients[r], Share', index[r] + 1)
        BY <2>1, <4>1, <4>4, <4>5, EvenStep
      <4> QED
        BY <2>2, <4>1, <4>6 DEF BalanceFits
    <3>2. CASE op[r] # "start"
      BY <2>2, <3>2 DEF BalanceFits
    <3> QED
      BY <3>1, <3>2
  <2>7. TimelineFits(r)'
    <3>1. PICK n \in Count : users = 1 .. n /\ Cardinality(users) = n
      BY Population
    <3>2. IsFiniteSet(users)
      BY <3>1, FS_Interval DEF Count
    <3>3. Cardinality(users \union {u}) = n + 1
      BY <2>2, <3>1, <3>2, FS_AddElement
    <3> QED
      BY <2>2, <2>3, <3>1, <3>3 DEF BooksFit, TimelineFits, RollsBack, StopAwaits, Count
  <2>8. DeliveryFits(r)'
    <3>1. \A v \in Worker : ToldUsers(v)' = ToldUsers(v)
      BY <2>2, ToldSame
    <3>2. Ahead(r) = {} /\ Ahead(r)' = {u}
      <4>1. { x \in todo[r] : IsLowest(x, todo[r]) } = {u}
        <5>1. todo[r] \subseteq Nat
          BY DEF TypeOK, RequestTypeOK, UserId
        <5> QED
          BY <2>1, <5>1 DEF IsLowest
      <4> QED
        BY <2>2, <4>1 DEF Ahead, IsLowest
    <3>3. \A v \in Worker : workerUsers'[v] \ {u} = workerUsers[v]
      BY <2>2, <2>3
    <3>4. faults = 0 => \A v \in Worker : ToldUsers(v) = workerUsers[v]
      BY <2>2, <3>2 DEF BooksFit, DeliveryFits, TryAwaits
    <3> QED
      BY <2>2, <3>1, <3>2, <3>3, <3>4 DEF DeliveryFits
  <2> QED
    BY <2>4, <2>5, <2>6, <2>7, <2>8 DEF BooksStep, BooksFit
<1>4. ASSUME pc[r] \in {"add_pub", "add_point"}, NEW u \in todo[r], IsLowest(u, todo[r]),
             NextAllocation(r, u), UNCHANGED <<recipients, users, userWorker, workerUsers>>,
             faults = 0 => /\ timeline' = Cardinality(users) \/ todo[r] # {u}
                           /\ base'[r] + added'[r] = Cardinality(users),
             faults = 0 => \A w \in Worker : ToldUsers(w)' = workerUsers[w]
      PROVE  BooksStep(r)
  <2>1. /\ pc'[r] \in {"status_list", "add_check", "add_read"} /\ op'[r] = op[r]
        /\ faults' = faults /\ index'[r] = index[r] + 1
        /\ pc'[r] = "status_list" => todo[r] = {u}
    BY <1>4, NextHere
  <2>2. IndexFits' /\ Share' = Share
    BY <1>4, IndexSame DEF Share
  <2>3. LocalsFit(r)'
    BY <2>1 DEF LocalsFit, StopAwaits
  <2>4. BalanceFits(r)'
    BY <1>4, <2>1, <2>2 DEF BooksFit, BalanceFits, Told, TryAwaits
  <2>5. TimelineFits(r)'
    BY <1>4, <2>1 DEF TimelineFits, RollsBack, StopAwaits
  <2>6. DeliveryFits(r)'
    BY <1>4, <2>1 DEF DeliveryFits, Ahead
  <2> QED
    BY <2>2, <2>3, <2>4, <2>5, <2>6 DEF BooksStep, BooksFit
<1>5. CASE AddPublish(r)
  <2>1. PICK u \in todo[r], w \in recipients[r] :
           /\ IsLowest(u, todo[r]) /\ IsAllocated(w, r)
           /\ Publish(w, "add_user", reqEpoch[r], u)
           /\ IF PointDue(r, u, added[r] + 1)
              THEN GoTo(r, "add_point") /\ UNCHANGED <<todo, index>>
              ELSE NextAllocation(r, u)
    BY <1>5 DEF AddPublish
  <2>2. /\ pc[r] = "add_pub" /\ reqEpoch[r] = testEpoch
        /\ u \in UserId /\ u \in users /\ w \in Worker /\ userWorker[u] = w
        /\ added'[r] = added[r] + 1
        /\ UNCHANGED <<recipients, base, testEpoch, users, userWorker, workerUsers, timeline>>
    BY <1>5, <2>1, NothingUnexpected DEF AddPublish, stateKeys, userSetKeys, TypeOK,
       RequestTypeOK, ChannelFits, Informed, TryAwaits, BooksFit, LocalsFit
  <2>3. /\ \A v \in Worker \ {w} : ToldUsers(v)' = ToldUsers(v)
        /\ ToldUsers(w)' = (ToldUsers(w) \ {u}) \union {u}
    <3>1. Publish(w, "add_user", testEpoch, u)
      BY <2>1, <2>2
    <3> QED
      BY <2>2, <3>1, PublishTells DEF ChannelsFit, Presence, CommandType
  <2>4. Ahead(r) = {u}
    <3>1. todo[r] \subseteq Nat
      BY DEF TypeOK, RequestTypeOK, UserId
    <3> QED
      BY <2>1, <2>2, <3>1 DEF Ahead, IsLowest
  <2>5. faults = 0 => \A v \in Worker : ToldUsers(v)' = workerUsers[v]
    <3>1. faults = 0 => \A v \in Worker : ToldUsers(v) = workerUsers[v] \ {u}
      BY <2>2, <2>4 DEF BooksFit, DeliveryFits, TryAwaits
    <3>2. \A v \in Worker : u \in workerUsers[v] <=> v = w
      BY SMTT(30), <2>2 DEF IndexFits
    <3>3. SUFFICES ASSUME faults = 0, NEW v \in Worker
                   PROVE  ToldUsers(v)' = workerUsers[v]
      OBVIOUS
    <3>4. CASE v = w
      <4>1. ToldUsers(w) = workerUsers[w] \ {u} /\ u \in workerUsers[w]
        BY <2>2, <3>1, <3>2, <3>3
      <4> QED
        BY <2>3, <3>4, <4>1
    <3>5. CASE v # w
      BY <2>3, <3>1, <3>2, <3>3, <3>5
    <3> QED
      BY <3>4, <3>5
  <2>6. faults = 0 => base'[r] + added'[r] = Cardinality(users)
    BY <2>2 DEF BooksFit, TimelineFits, TypeOK, RequestTypeOK
  <2>7. CASE GoTo(r, "add_point") /\ UNCHANGED <<todo, index>>
    <3>1. pc'[r] = "add_point" /\ op'[r] = op[r] /\ faults' = faults
      BY <2>7, GoesTo
    <3>2. IndexFits' /\ Share' = Share
      BY <2>2, IndexSame DEF Share
    <3>3. LocalsFit(r)'
      BY <3>1 DEF LocalsFit, StopAwaits
    <3>4. BalanceFits(r)'
      BY <2>2, <2>7, <3>1, <3>2 DEF BooksFit, BalanceFits, Told, TryAwaits
    <3>5. TimelineFits(r)'
      BY <2>2, <2>6, <3>1 DEF TimelineFits, RollsBack, StopAwaits
    <3>6. DeliveryFits(r)'
      BY <2>2, <2>5, <3>1 DEF DeliveryFits, Ahead
    <3> QED
      BY <3>2, <3>3, <3>4, <3>5, <3>6 DEF BooksStep, BooksFit
  <2>8. CASE NextAllocation(r, u) /\ ~PointDue(r, u, added[r] + 1)
    <3>1. todo[r] # {u}
      BY <2>8 DEF PointDue
    <3> QED
      BY <1>4, <2>1, <2>2, <2>5, <2>6, <2>8, <3>1
  <2> QED
    BY <2>1, <2>7, <2>8
<1>6. CASE AddPoint(r)
  <2>1. PICK u \in todo[r] : IsLowest(u, todo[r]) /\ NextAllocation(r, u)
    BY <1>6 DEF AddPoint
  <2>2. /\ pc[r] = "add_point" /\ timeline' = base[r] + added[r]
        /\ UNCHANGED <<recipients, base, added, testEpoch, commands, users, userWorker,
                       workerUsers>>
    BY <1>6 DEF AddPoint, AppendTimeline, PointCount, stateKeys, userSetKeys
  <2>3. \A w \in Worker : ToldUsers(w)' = ToldUsers(w)
    BY <2>2, ToldSame
  <2>4. faults = 0 => /\ timeline' = Cardinality(users)
                      /\ base'[r] + added'[r] = Cardinality(users)
    BY <2>2 DEF BooksFit, TimelineFits
  <2>5. faults = 0 => \A w \in Worker : ToldUsers(w)' = workerUsers[w]
    BY <2>2, <2>3 DEF BooksFit, DeliveryFits, Ahead, TryAwaits
  <2> QED
    BY <1>4, <2>1, <2>2, <2>4, <2>5
<1> QED
  BY <1>1, <1>2, <1>3, <1>5, <1>6, NothingUnexpected DEF AddUsersStep

\* change_users outside add_users.
LEMMA ChangeBooks ==
    ASSUME BooksInv, NEW r \in Request, ChangeStep(r)
    PROVE  BooksStep(r)
<1> USE DEF BooksInv, ChannelInv, OneClientInv, FenceInv
<1>1. pc[r] \in ChangeAwaits /\ op[r] # "start" /\ testState = "RUNNING"
  <2>1. pc[r] \in ChangeAwaits
    BY DEF ChangeStep, ChangeNothing, ChangeUp, ChangeDown, SkipMissing, RemoveFound,
       PublishRemove, RemoveRead, RemoveWrite, RemovePoint, ChangeAwaits
  <2> QED
    BY <2>1 DEF Fits, StateFits
<1>2. ASSUME NEW u \in todo[r], IsHighest(u, todo[r])
      PROVE  u \in UserId /\ { x \in todo[r] : IsHighest(x, todo[r]) } = {u}
  <2>1. todo[r] \subseteq UserId /\ todo[r] \subseteq Nat
    BY DEF TypeOK, RequestTypeOK, UserId
  <2> QED
    BY <1>2, <2>1 DEF IsHighest
<1>3. CASE ChangeNothing(r)
  <2>1. /\ pc[r] = "change_list" /\ Finish(r)
        /\ UNCHANGED <<faults, timeline, testEpoch, commands, users, userWorker, workerUsers>>
    BY <1>3 DEF ChangeNothing, redisVars, stateKeys, userSetKeys
  <2>2. IndexFits' /\ \A w \in Worker : ToldUsers(w)' = ToldUsers(w)
    BY <2>1, IndexSame, ToldSame
  <2>3. faults' = 0 => timeline' = Cardinality(users')
    BY <2>1 DEF BooksFit, TimelineFits
  <2>4. faults' = 0 => \A w \in Worker : ToldUsers(w)' = workerUsers'[w]
    BY <1>1, <2>1, <2>2 DEF BooksFit, DeliveryFits, Ahead
  <2> QED
    BY <2>1, <2>2, <2>3, <2>4, EndBooks
<1>4. CASE ChangeUp(r)
  <2>1. /\ pc[r] = "change_list" /\ pc'[r] = "add_scan" /\ op'[r] = op[r]
        /\ base'[r] = Cardinality(users)
        /\ UNCHANGED <<added, faults, timeline, testEpoch, commands, users, userWorker,
                       workerUsers>>
    BY <1>4, GoesTo DEF ChangeUp, redisVars, stateKeys, userSetKeys, TypeOK, RequestTypeOK
  <2>2. IndexFits'
    BY <2>1, IndexSame
  <2>3. LocalsFit(r)' /\ BalanceFits(r)'
    BY <1>1, <2>1 DEF LocalsFit, BalanceFits, StopAwaits
  <2>4. TimelineFits(r)'
    BY <2>1 DEF BooksFit, TimelineFits, RollsBack, StopAwaits
  <2>5. DeliveryFits(r)'
    BY <1>1, <2>1, DeliverySame DEF BooksFit, Ahead
  <2> QED
    BY <2>2, <2>3, <2>4, <2>5 DEF BooksStep, BooksFit
<1>5. CASE ChangeDown(r)
  <2>1. PICK n \in Count : users = 1 .. n /\ Cardinality(users) = n
    BY Population
  <2>2. /\ pc[r] = "change_list" /\ pc'[r] = "rem_read" /\ op'[r] = op[r]
        /\ target'[r] = target[r] /\ target[r] < n
        /\ todo'[r] = UsersForRemoval(1 .. n, n - target[r])
        /\ UNCHANGED <<faults, testEpoch, commands, users, userWorker, workerUsers>>
    BY <1>5, <2>1, GoesTo DEF ChangeDown, redisVars, stateKeys, userSetKeys, TypeOK,
       RequestTypeOK
  <2>3. todo'[r] = target[r] + 1 .. n
    <3>1. n \in Nat /\ target[r] \in Nat
      BY DEF Count, TypeOK, RequestTypeOK
    <3> QED
      BY <2>2, <3>1, RemovalIds
  <2>4. IndexFits'
    BY <2>2, IndexSame
  <2>5. LocalsFit(r)' /\ BalanceFits(r)'
    BY <1>1, <2>2 DEF LocalsFit, BalanceFits, StopAwaits
  <2>6. TimelineFits(r)'
    BY <2>1, <2>2, <2>3 DEF TimelineFits, RollsBack, StopAwaits
  <2>7. DeliveryFits(r)'
    BY <1>1, <2>2, DeliverySame DEF BooksFit, Ahead
  <2> QED
    BY <2>4, <2>5, <2>6, <2>7 DEF BooksStep, BooksFit
<1>6. CASE RemoveFound(r) \/ RemoveRead(r)
  <2>1. PICK u \in todo[r] : IsHighest(u, todo[r]) /\ found'[r] = userWorker[u]
    BY <1>6 DEF RemoveFound, RemoveRead, TypeOK, RequestTypeOK
  <2>2. /\ \/ pc[r] = "rem_read" /\ pc'[r] = "rem_pub"
           \/ pc[r] = "rem_hget" /\ pc'[r] = "rem_write"
        /\ op'[r] = op[r] /\ target'[r] = target[r]
        /\ UNCHANGED <<todo, faults, testEpoch, commands, users, userWorker, workerUsers>>
    BY <1>6, GoesTo DEF RemoveFound, RemoveRead, redisVars, stateKeys, userSetKeys
  <2>3. IndexFits'
    BY <2>2, IndexSame
  <2>4. LocalsFit(r)' /\ BalanceFits(r)'
    <3>1. \A x \in todo[r] : IsHighest(x, todo[r]) => x = u
      BY <1>2, <2>1
    <3> QED
      BY <1>1, <2>1, <2>2, <3>1 DEF LocalsFit, BalanceFits, StopAwaits, IsHighest
  <2>5. TimelineFits(r)'
    BY <2>2 DEF BooksFit, TimelineFits, RollsBack, StopAwaits
  <2>6. DeliveryFits(r)'
    BY <1>1, <2>2, DeliverySame DEF BooksFit, Ahead, IsHighest
  <2> QED
    BY <2>3, <2>4, <2>5, <2>6 DEF BooksStep, BooksFit
<1>7. CASE PublishRemove(r)
  <2>1. PICK u \in todo[r] : /\ IsHighest(u, todo[r])
                             /\ Publish(found[r], "remove_user", reqEpoch[r], u)
    BY <1>7 DEF PublishRemove
  <2>2. /\ pc[r] = "rem_pub" /\ pc'[r] = "rem_hget" /\ op'[r] = op[r]
        /\ target'[r] = target[r] /\ reqEpoch[r] = testEpoch
        /\ UNCHANGED <<todo, faults, testEpoch, users, userWorker, workerUsers>>
    BY <1>7, GoesTo DEF PublishRemove, stateKeys, userSetKeys, ChannelFits, Informed, ChangeAwaits
  <2>3. u \in users /\ found[r] = userWorker[u]
    BY <2>1, <2>2, NothingUnexpected DEF BooksFit, LocalsFit
  <2>4. PICK w \in Worker : w = found[r] /\ w = userWorker[u]
    BY <2>3 DEF MembersAreAssigned, TypeOK, RedisTypeOK
  <2>5. /\ \A v \in Worker \ {w} : ToldUsers(v)' = ToldUsers(v)
        /\ ToldUsers(w)' = ToldUsers(w) \ {u}
    <3>1. Publish(w, "remove_user", testEpoch, u)
      BY <2>1, <2>2, <2>4
    <3>2. /\ \A v \in Worker \ {w} : ToldUsers(v)' = ToldUsers(v)
          /\ ToldUsers(w)' = (ToldUsers(w) \ {u}) \union {}
      BY <1>2, <2>1, <2>2, <3>1, PublishTells DEF ChannelsFit, Presence, CommandType
    <3> QED
      BY <3>2
  <2>6. Ahead(r) = {} /\ Ahead(r)' = {u}
    BY <1>2, <2>1, <2>2 DEF Ahead, IsHighest
  <2>7. IndexFits'
    BY <2>2, IndexSame
  <2>8. LocalsFit(r)' /\ BalanceFits(r)'
    BY <1>1, <2>2 DEF LocalsFit, BalanceFits, StopAwaits
  <2>9. TimelineFits(r)'
    BY <2>2 DEF BooksFit, TimelineFits, RollsBack, StopAwaits
  <2>10. DeliveryFits(r)'
    <3>1. ASSUME NEW v \in Worker \ {w}
          PROVE  u \notin workerUsers[v]
      <4>1. workerUsers[v] = { x \in users : userWorker[x] = v } /\ userWorker[u] # v
        BY <2>3, <2>4 DEF IndexFits
      <4> QED
        BY <4>1
    <3>2. faults = 0 => \A v \in Worker : ToldUsers(v) = workerUsers[v]
      BY <1>1, <2>6 DEF BooksFit, DeliveryFits
    <3>3. faults = 0 => \A v \in Worker : ToldUsers(v)' = workerUsers[v] \ {u}
      BY <2>4, <2>5, <3>1, <3>2
    <3> QED
      BY <2>2, <2>6, <3>3 DEF DeliveryFits
  <2> QED
    BY <2>7, <2>8, <2>9, <2>10 DEF BooksStep, BooksFit
<1>8. CASE RemoveWrite(r)
  <2>1. PICK u \in todo[r] : /\ IsHighest(u, todo[r])
                             /\ RemoveUserAssignment(u, found[r])
                             /\ todo' = [todo EXCEPT ![r] = @ \ {u}]
                             /\ GoTo(r, NextRemoval(r, u))
    BY <1>8 DEF RemoveWrite
  <2>2. /\ pc[r] = "rem_write" /\ pc'[r] = IF todo[r] = {u} THEN "rem_point" ELSE "rem_read"
        /\ op'[r] = op[r] /\ target'[r] = target[r] /\ todo'[r] = todo[r] \ {u}
        /\ UNCHANGED <<faults, testEpoch, commands>>
    BY <1>8, <2>1, GoesTo DEF RemoveWrite, NextRemoval, stateKeys, TypeOK, RequestTypeOK
  <2>3. u \in users /\ u \in UserId /\ found[r] = userWorker[u]
    BY <1>2, <2>1, <2>2, NothingUnexpected DEF BooksFit, LocalsFit
  <2>4. /\ users' = users \ {u} /\ userWorker' = [userWorker EXCEPT ![u] = NoWorker]
        /\ \A v \in Worker : workerUsers'[v] = workerUsers[v] \ {u}
    <3>1. \A v \in Worker : v # found[r] => u \notin workerUsers[v]
      <4>1. SUFFICES ASSUME NEW v \in Worker, u \in workerUsers[v] PROVE v = found[r]
        OBVIOUS
      <4>2. workerUsers[v] = { x \in users : userWorker[x] = v }
        BY DEF IndexFits
      <4>3. userWorker[u] = v
        BY <4>1, <4>2
      <4> QED
        BY <2>3, <4>3
    <3> QED
      BY <2>1, <3>1 DEF RemoveUserAssignment
  <2>5. IndexFits'
    BY <2>3, <2>4 DEF IndexFits, TypeOK, RedisTypeOK
  <2>6. LocalsFit(r)' /\ BalanceFits(r)'
    BY <1>1, <2>2 DEF LocalsFit, BalanceFits, StopAwaits
  <2>7. TimelineFits(r)'
    <3>1. PICK n \in Count : users = 1 .. n /\ Cardinality(users) = n
      BY Population
    <3>2. SUFFICES ASSUME faults = 0
                   PROVE  TimelineFits(r)'
      BY <2>2 DEF TimelineFits
    <3>3. todo[r] = target[r] + 1 .. n /\ target[r] \in Nat /\ n \in Nat
      BY <2>2, <3>1, <3>2 DEF BooksFit, TimelineFits, TypeOK, RequestTypeOK, Count
    <3>4. u = n
      <4>1. target[r] + 1 \in Nat /\ target[r] + 1 <= n
        BY <3>3
      <4> QED
        BY <2>1, <3>3, <4>1, HighestOf
    <3>5. n - 1 \in Nat /\ users' = 1 .. n - 1 /\ todo'[r] = target[r] + 1 .. n - 1
      BY <2>2, <2>4, <3>1, <3>3, <3>4
    <3>6. Cardinality(users') = n - 1
      BY <3>5, CountOf
    <3>7. ASSUME todo[r] = {u} PROVE n - 1 = target[r]
      <4>1. target[r] + 1 \in target[r] + 1 .. n
        BY <3>3
      <4>2. target[r] + 1 = n
        BY <3>3, <3>4, <3>7, <4>1
      <4> QED
        BY <3>3, <4>2
    <3> QED
      BY <2>2, <3>5, <3>6, <3>7 DEF TimelineFits, RollsBack, StopAwaits
  <2>8. DeliveryFits(r)'
    <3>1. \A v \in Worker : ToldUsers(v)' = ToldUsers(v)
      BY <2>2, ToldSame
    <3>2. Ahead(r) = {u} /\ Ahead(r)' = {}
      BY <1>2, <2>1, <2>2 DEF Ahead
    <3>3. faults = 0 => \A v \in Worker : ToldUsers(v) = workerUsers[v] \ {u}
      BY <1>1, <3>2 DEF BooksFit, DeliveryFits
    <3> QED
      BY <2>2, <2>4, <3>1, <3>2, <3>3 DEF DeliveryFits
  <2> QED
    BY <2>5, <2>6, <2>7, <2>8 DEF BooksStep, BooksFit
<1>9. CASE RemovePoint(r)
  <2>1. /\ pc[r] = "rem_point" /\ Finish(r) /\ timeline' = target[r]
        /\ UNCHANGED <<faults, testEpoch, commands, users, userWorker, workerUsers>>
    BY <1>9 DEF RemovePoint, AppendTimeline, stateKeys, userSetKeys
  <2>2. IndexFits' /\ \A w \in Worker : ToldUsers(w)' = ToldUsers(w)
    BY <2>1, IndexSame, ToldSame
  <2>3. faults' = 0 => timeline' = Cardinality(users')
    BY <2>1 DEF BooksFit, TimelineFits
  <2>4. faults' = 0 => \A w \in Worker : ToldUsers(w)' = workerUsers'[w]
    BY <1>1, <2>1, <2>2 DEF BooksFit, DeliveryFits, Ahead
  <2> QED
    BY <2>1, <2>2, <2>3, <2>4, EndBooks
<1> QED
  BY <1>3, <1>4, <1>5, <1>6, <1>7, <1>8, <1>9, NothingUnexpected DEF ChangeStep

\* With a fault the books need not agree, only the members with their index.
LEMMA FaultBooks ==
    ASSUME BooksInv, Fault
    PROVE  IndexFits' /\ (OneSlot => \A r \in Request : BooksFit(r)') /\ faults' # 0
<1> USE DEF BooksInv, ChannelInv, OneClientInv, FenceInv
<1>1. faults' # 0
  BY DEF Fault, RedisError, ClaimAnswerLost, CommitAnswerLost, OrchestratorCrash, TypeOK
<1>2. IndexFits'
  BY IndexSame DEF Fault, RedisError, ClaimAnswerLost, CommitAnswerLost, OrchestratorCrash,
     redisVars, userSetKeys
<1>3. ASSUME NEW r \in Request, RedisError(r) \/ ClaimAnswerLost(r) \/ CommitAnswerLost(r)
      PROVE  BooksStep(r)
  <2>1. CASE RedisError(r)
    BY <1>1, <2>1, RaiseBooks DEF RedisError
  <2>2. CASE ClaimAnswerLost(r)
    BY <1>1, <1>2, <2>2, EndBooks DEF ClaimAnswerLost
  <2>3. CASE CommitAnswerLost(r)
    <3>1. pc'[r] = "stop_scan" /\ op'[r] = "start"
      BY <2>3 DEF CommitAnswerLost, Continues, TypeOK, RequestTypeOK, Fits, UsersFit
    <3> QED
      BY <1>1, <1>2, <3>1, StoppingBooks DEF StopAwaits
  <2> QED
    BY <1>3, <2>1, <2>2, <2>3
<1>4. CASE OrchestratorCrash
  <2>1. \A r \in Request : /\ pc'[r] = "idle" /\ op'[r] = "none"
                           /\ index'[r] = 0 /\ base'[r] = 0 /\ added'[r] = 0
    BY <1>4 DEF OrchestratorCrash
  <2>2. \A r \in Request : LocalsFit(r)' /\ BalanceFits(r)'
    BY <2>1 DEF LocalsFit, BalanceFits, StopAwaits, Told
  <2>3. \A r \in Request : TimelineFits(r)' /\ DeliveryFits(r)'
    BY <1>1 DEF TimelineFits, DeliveryFits
  <2> QED
    BY <1>1, <1>2, <2>2, <2>3 DEF BooksFit
<1>5. ASSUME OneSlot, NEW r \in Request, BooksStep(r)
      PROVE  \A s \in Request : BooksFit(s)'
  BY <1>5 DEF OneSlot, BooksStep
<1> QED
  BY <1>1, <1>2, <1>3, <1>4, <1>5 DEF Fault

\* Initially, at every step, and so always.
LEMMA BooksInit == Init => BooksInv
<1> SUFFICES ASSUME Init PROVE BooksInv
  OBVIOUS
<1>1. Cardinality(users) = 0 /\ users = {} /\ timeline = 0 /\ testState = "IDLE"
  BY FS_EmptySet DEF Init, RedisInit
<1>2. IndexFits
  BY DEF Init, RedisInit, IndexFits
<1>3. ASSUME NEW r \in Request PROVE BooksFit(r)
  <2>1. /\ pc[r] = "idle" /\ op[r] = "none" /\ index[r] = 0 /\ base[r] = 0 /\ added[r] = 0
    BY DEF Init, RequestInit
  <2>2. LocalsFit(r) /\ BalanceFits(r)
    BY <2>1 DEF LocalsFit, BalanceFits, StopAwaits
  <2>3. TimelineFits(r) /\ DeliveryFits(r)
    BY <1>1, <2>1 DEF TimelineFits, DeliveryFits, RollsBack, TryAwaits, ChangeAwaits
  <2> QED
    BY <2>2, <2>3 DEF BooksFit
<1>4. TimelineMatchesUsers /\ DeliveredMatchesAssigned
  BY <1>1 DEF TimelineMatchesUsers, DeliveredMatchesAssigned
<1> QED
  BY <1>2, <1>3, <1>4, ChannelInit, MembersInit DEF BooksInv

\* Between requests: with a slot there is one that is idle.
LEMMA BooksAtRest ==
    ASSUME NEW r \in Request, BooksStep(r)
    PROVE  TimelineMatchesUsers' /\ DeliveredMatchesAssigned'
<1>1. TimelineMatchesUsers'
  BY DEF TimelineMatchesUsers, AtRest, BooksStep, BooksFit, TimelineFits
<1>2. DeliveredMatchesAssigned'
  <2>1. SUFFICES ASSUME AtRest', faults' = 0, testState' = "RUNNING"
                 PROVE  \A w \in Worker : ToldUsers(w)' = workerUsers'[w]
    BY DEF DeliveredMatchesAssigned, BooksStep, IndexFits
  <2>2. pc'[r] = "idle" /\ Ahead(r)' = {}
    BY <2>1 DEF AtRest, Ahead
  <2> QED
    BY <2>1, <2>2 DEF BooksStep, BooksFit, DeliveryFits
<1> QED
  BY <1>1, <1>2

LEMMA BooksInductive ==
    ASSUME OneSlot
    PROVE  BooksInv /\ [Next]_vars => BooksInv'
<1> SUFFICES ASSUME BooksInv, [Next]_vars PROVE BooksInv'
  OBVIOUS
<1>1. ChannelInv' /\ MembersAreAssigned'
  BY ChannelInductive, MembersStep DEF BooksInv, ChannelInv, OneClientInv, FenceInv
<1>2. ASSUME NEW r \in Request, Submit(r) \/ Handle(r) PROVE BooksInv'
  <2>1. BooksStep(r)
    BY <1>2, SubmitBooks, StartBooks, AddBooks, StopBooks, ChangeBooks DEF Handle
  <2>2. \A s \in Request : BooksFit(s)'
    BY <2>1 DEF OneSlot, BooksStep
  <2> QED
    BY <1>1, <2>1, <2>2, BooksAtRest DEF BooksStep, BooksInv
<1>3. CASE Fault
  <2>1. IndexFits' /\ (\A r \in Request : BooksFit(r)') /\ faults' # 0
    BY <1>3, FaultBooks
  <2>2. TimelineMatchesUsers' /\ DeliveredMatchesAssigned'
    BY <2>1 DEF TimelineMatchesUsers, DeliveredMatchesAssigned
  <2> QED
    BY <1>1, <2>1, <2>2 DEF BooksInv
<1>4. CASE (\E w \in Worker : Flap(w)) \/ Rest \/ UNCHANGED vars
  <2>1. /\ UNCHANGED <<testState, testEpoch, commands, users, userWorker, workerUsers,
                       timeline, faults>>
        /\ UNCHANGED requestVars
    BY <1>4 DEF Flap, Rest, vars, redisVars, stateKeys, userSetKeys, boundVars
  <2>2. /\ \A w \in Worker : ToldUsers(w)' = ToldUsers(w)
        /\ IndexFits' /\ Share' = Share
    BY <2>1, IndexSame, ToldSame DEF BooksInv, Share
  <2>3. ASSUME NEW r \in Request PROVE BooksFit(r)'
    <3>1. UNCHANGED <<pc, op, target, todo, recipients, index, added, base, found>>
      BY <2>1 DEF requestVars
    <3>2. LocalsFit(r)'
      BY <2>1, <3>1 DEF BooksInv, BooksFit, LocalsFit, IsAllocated
    <3>3. BalanceFits(r)'
      BY <2>2, <3>1 DEF BooksInv, BooksFit, BalanceFits
    <3>4. TimelineFits(r)'
      BY <2>1, <3>1 DEF BooksInv, BooksFit, TimelineFits, RollsBack
    <3>5. DeliveryFits(r)'
      BY <2>1, <2>2, <3>1 DEF BooksInv, BooksFit, DeliveryFits, Ahead
    <3> QED
      BY <3>2, <3>3, <3>4, <3>5 DEF BooksFit
  <2>4. TimelineMatchesUsers' /\ DeliveredMatchesAssigned'
    BY <2>1, <2>2 DEF BooksInv, TimelineMatchesUsers, DeliveredMatchesAssigned, AtRest,
       requestVars
  <2> QED
    BY <1>1, <2>2, <2>3, <2>4 DEF BooksInv
<1> QED
  BY <1>2, <1>3, <1>4 DEF Next, OrchestratorNext

LEMMA BooksInvariant ==
    ASSUME OneSlot
    PROVE  Spec => []BooksInv
<1>1. BooksInv /\ [Next]_vars => BooksInv'
  BY BooksInductive
<1> QED
  BY <1>1, BooksInit, PTL DEF Spec

(***************************************************************************)
(* For a client that sends one request at a time and meets no fault: what  *)
(* each worker has been told about the users of the run is, between        *)
(* requests, what Redis says is assigned to it.                            *)
(***************************************************************************)
THEOREM DeliveriesMatchAssignments ==
    ASSUME OneSlot
    PROVE  Spec => []DeliveredMatchesAssigned
<1>1. BooksInv => DeliveredMatchesAssigned
  BY DEF BooksInv
<1> QED
  BY <1>1, BooksInvariant, PTL

(***************************************************************************)
(* For such a client the last timeline point is the population whenever no *)
(* request is in progress: the last user added or removed always makes a   *)
(* point, however sparse the points of a large ramp-up are.                *)
(***************************************************************************)
THEOREM TimelineEndsRight ==
    ASSUME OneSlot
    PROVE  Spec => []TimelineMatchesUsers
<1>1. BooksInv => TimelineMatchesUsers
  BY DEF BooksInv
<1> QED
  BY <1>1, BooksInvariant, PTL

(***************************************************************************)
(* For such a client a test is committed with its users spread evenly over *)
(* the workers that add_users saw, also when errors, restarts and late     *)
(* heartbeats came before.                                                 *)
(***************************************************************************)
THEOREM StartsAreBalanced ==
    ASSUME OneSlot
    PROVE  Spec => []BalancedStart
<1>1. ASSUME BooksInv PROVE BalancedStart
  <2>1. SUFFICES ASSUME NEW r \in Request, pc[r] = "commit",
                        NEW v \in recipients[r], NEW w \in recipients[r]
                 PROVE  Cardinality(workerUsers[v]) <= Cardinality(workerUsers[w]) + 1
    BY DEF BalancedStart
  <2>2. op[r] = "start" /\ recipients[r] \in SUBSET Worker
    BY <1>1, <2>1 DEF BooksInv, ChannelInv, OneClientInv, FenceInv, Fits, UsersFit, TypeOK,
       RequestTypeOK
  <2>3. EvenAfter(recipients[r], Share, index[r])
    BY <1>1, <2>1, <2>2 DEF BooksInv, BooksFit, BalanceFits, Told, TryAwaits
  <2>4. Share[v] <= Share[w] + 1
    BY <2>1, <2>2, <2>3, EvenIsBalanced
  <2> QED
    BY <2>1, <2>2, <2>4 DEF Share
<1> QED
  BY <1>1, BooksInvariant, PTL
=============================================================================
