------------------------- MODULE ResourcePoolProofs -------------------------
(***************************************************************************)
(* What holds of one resource pool for any number of creators and users,   *)
(* any number of instances, failures of requests and cancelled acquires.   *)
(***************************************************************************)
EXTENDS ResourcePool, TLAPS

USE ResourcePoolAssumption
USE DEF ResourceId

-----------------------------------------------------------------------------
(***************************************************************************)
(* The strengthening.  A creator knows how many instances are missing from *)
(* its goal, the others only help it; each id counted has its payload, or  *)
(* a creator that got it last and has not written it.  A user that syncs   *)
(* has read in the past a watermark up to which all ids were put into the  *)
(* pool, and a counter above it; no step takes an id out of circulation    *)
(* without recording it.                                                   *)
(***************************************************************************)
CreatorOK(c) ==
    /\ cpc[c] = "incr" => missing[c] > 0 /\ goal[c] <= counter + missing[c]
    /\ cpc[c] = "set"  => /\ missing[c] > 0 /\ goal[c] < counter + missing[c]
                          /\ newId[c] \in 1 .. counter
    /\ cpc[c] = "done" => goal[c] <= counter

Written(id) ==
    id \in payloads \/ \E c \in Creator : cpc[c] \in {"set", "failed"} /\ newId[c] = id

CreationOK ==
    /\ payloads \subseteq 1 .. counter
    /\ \A id \in 1 .. counter : Written(id)
    /\ \A c \in Creator : CreatorOK(c)

Kept == Pooled \union dropped

UserOK(v) ==
    /\ total[v] <= counter
    /\ popped[v] # {} => upc[v] = "get"
    /\ upc[v] \in {"add", "mark"} => mark[v] < total[v] /\ 1 .. mark[v] \subseteq Kept
    /\ upc[v] = "mark" => 1 .. total[v] \subseteq Kept

SyncOK ==
    /\ Pooled \subseteq 1 .. counter
    /\ loaded <= counter
    /\ 1 .. loaded \subseteq Kept

PoolInv ==
    /\ TypeOK
    /\ CreationOK
    /\ \A v \in User : UserOK(v)
    /\ SyncOK

-----------------------------------------------------------------------------
LEMMA InitPool == Init => PoolInv /\ PoolSound
<1> SUFFICES ASSUME Init PROVE PoolInv /\ PoolSound
  OBVIOUS
<1> USE DEF Init
<1>1. TypeOK
  BY DEF TypeOK, CreatorAwait, UserAwait
<1>2. CreationOK
  BY DEF CreationOK, CreatorOK, Written
<1>3. \A v \in User : UserOK(v)
  BY DEF UserOK
<1>4. Pooled = {}
  BY DEF Pooled, Owned
<1>5. SyncOK
  BY <1>4 DEF SyncOK
<1>6. PoolSound
  BY <1>4 DEF PoolSound, Exclusive, Owned
<1> QED
  BY <1>1, <1>2, <1>3, <1>5, <1>6 DEF PoolInv

\* Creators leave what the users know and hold alone.
LEMMA CreationKeepsUsers ==
    ASSUME PoolInv, TypeOK', CreationOK', UNCHANGED <<available, loaded, userVars>>,
           counter <= counter'
    PROVE  PoolInv'
<1>1. UNCHANGED <<upc, total, mark, popped, held, dropped, available, loaded>>
  BY DEF userVars
<1>2. counter \in Nat /\ counter' \in Nat
  BY DEF PoolInv, TypeOK
<1>3. Pooled' = Pooled /\ Kept' = Kept
  BY <1>1 DEF Pooled, Owned, Kept
<1>4. \A v \in User : UserOK(v)'
  BY <1>1, <1>2, <1>3 DEF PoolInv, TypeOK, UserOK
<1>5. SyncOK'
  <2>1. 1 .. counter \subseteq 1 .. counter' /\ loaded \in Nat
    BY <1>2 DEF PoolInv, TypeOK
  <2> QED
    BY <1>1, <1>2, <1>3, <2>1 DEF PoolInv, SyncOK
<1> QED
  BY <1>4, <1>5 DEF PoolInv

LEMMA CreateKeeps ==
    ASSUME PoolInv, NEW c \in Creator, Create(c)
    PROVE  PoolInv'
<1> USE DEF PoolInv, CreatorAwait
<1>1. CASE \E n \in 1 .. MaxId : Ensure(c, n)
  <2>1. TypeOK'
    BY <1>1 DEF Ensure, TypeOK, redisVars, userVars
  <2>2. CreationOK'
    BY <1>1 DEF Ensure, TypeOK, CreationOK, CreatorOK, Written, redisVars
  <2> QED
    BY <1>1, <2>1, <2>2, CreationKeepsUsers DEF Ensure, redisVars, TypeOK
<1>2. CASE CountExisting(c)
  <2>1. TypeOK'
    BY <1>2 DEF CountExisting, TypeOK, redisVars, userVars
  <2>2. CreationOK'
    BY <1>2 DEF CountExisting, TypeOK, CreationOK, CreatorOK, Written, redisVars
  <2> QED
    BY <1>2, <2>1, <2>2, CreationKeepsUsers DEF CountExisting, redisVars, TypeOK
<1>3. CASE IncrementCounter(c)
  <2>1. TypeOK'
    BY <1>3 DEF IncrementCounter, TypeOK, userVars
  <2>2. \A d \in Creator : CreatorOK(d)'
    BY <1>3 DEF IncrementCounter, TypeOK, CreationOK, CreatorOK
  <2>3. \A id \in 1 .. counter' : Written(id)'
    <3> SUFFICES ASSUME NEW id \in 1 .. counter' PROVE Written(id)'
      OBVIOUS
    <3>1. CASE id = counter + 1
      BY <1>3, <3>1 DEF IncrementCounter, TypeOK, Written
    <3>2. CASE id \in 1 .. counter
      <4>1. Written(id)
        BY <3>2 DEF CreationOK
      <4> QED
        BY <1>3, <4>1 DEF IncrementCounter, TypeOK, Written
    <3> QED
      BY <1>3, <3>1, <3>2 DEF IncrementCounter, TypeOK
  <2>4. CreationOK'
    BY <1>3, <2>2, <2>3 DEF IncrementCounter, TypeOK, CreationOK
  <2> QED
    BY <1>3, <2>1, <2>4, CreationKeepsUsers DEF IncrementCounter, TypeOK
<1>4. CASE SetPayload(c)
  <2>0. newId[c] \in 1 .. counter /\ missing[c] > 0 /\ counter' = counter
    BY <1>4 DEF SetPayload, CreationOK, CreatorOK
  <2>1. TypeOK'
    <3>1. payloads' \subseteq 1 .. MaxId
      <4>1. newId[c] \in 1 .. MaxId /\ payloads \subseteq 1 .. MaxId
        BY <2>0 DEF TypeOK
      <4> QED
        BY <1>4, <4>1 DEF SetPayload
    <3>2. missing' \in [Creator -> 0 .. MaxId]
      BY <1>4, <2>0 DEF SetPayload, TypeOK
    <3> QED
      BY <1>4, <3>1, <3>2 DEF SetPayload, TypeOK, userVars
  <2>2. \A d \in Creator : CreatorOK(d)'
    BY <1>4 DEF SetPayload, TypeOK, CreationOK, CreatorOK
  <2>3. \A id \in 1 .. counter' : Written(id)'
    <3> SUFFICES ASSUME NEW id \in 1 .. counter PROVE Written(id)'
      BY <2>0
    <3>1. Written(id)
      BY DEF CreationOK
    <3> QED
      BY <1>4, <3>1 DEF SetPayload, TypeOK, Written
  <2>4. CreationOK'
    BY <1>4, <2>0, <2>2, <2>3 DEF SetPayload, TypeOK, CreationOK
  <2> QED
    BY <1>4, <2>0, <2>1, <2>4, CreationKeepsUsers DEF SetPayload, TypeOK
<1>5. CASE CreatorFails(c)
  <2>0. /\ cpc' = [cpc EXCEPT ![c] = "failed"]
        /\ UNCHANGED <<goal, missing, newId, counter, available, loaded, userVars>>
    BY <1>5 DEF CreatorFails
  <2>1. payloads \subseteq payloads' /\ payloads' \subseteq 1 .. counter
    <3>1. \A id \in payloads' \ payloads : cpc[c] = "set" /\ id = newId[c]
      BY <1>5 DEF CreatorFails
    <3> QED
      BY <1>5, <3>1 DEF CreatorFails, CreationOK, CreatorOK
  <2>2. TypeOK'
    <3>1. payloads' \subseteq 1 .. MaxId
      BY <2>1 DEF TypeOK
    <3> QED
      BY <1>5, <2>0, <3>1 DEF CreatorFails, TypeOK, userVars
  <2>3. \A d \in Creator : CreatorOK(d)'
    BY <2>0 DEF TypeOK, CreationOK, CreatorOK
  <2>4. \A id \in 1 .. counter : Written(id)'
    <3> SUFFICES ASSUME NEW id \in 1 .. counter PROVE Written(id)'
      OBVIOUS
    <3>1. Written(id)
      BY DEF CreationOK
    <3> QED
      BY <2>0, <2>1, <3>1 DEF TypeOK, Written
  <2>5. CreationOK'
    BY <2>0, <2>1, <2>3, <2>4 DEF CreationOK
  <2> QED
    BY <2>0, <2>2, <2>5, CreationKeepsUsers DEF TypeOK
<1> QED
  BY <1>1, <1>2, <1>3, <1>4, <1>5 DEF Create

-----------------------------------------------------------------------------
(***************************************************************************)
(* Users leave the creation alone.                                         *)
(***************************************************************************)
LEMMA UsersKeepCreation ==
    ASSUME PoolInv, UNCHANGED <<counter, payloads, creatorVars>>
    PROVE  CreationOK'
<1>1. \A id \in 1 .. counter : Written(id)'
  BY DEF PoolInv, CreationOK, Written, creatorVars
<1>2. \A c \in Creator : CreatorOK(c)'
  BY DEF PoolInv, CreationOK, CreatorOK, creatorVars
<1> QED
  BY <1>1, <1>2 DEF PoolInv, CreationOK

(***************************************************************************)
(* What a step of a user has to leave: it drops no id without recording    *)
(* it, takes none that is not counted, and its own locals are in order.    *)
(***************************************************************************)
LEMMA UserStepKeeps ==
    ASSUME PoolInv, TypeOK', NEW v \in User,
           UNCHANGED <<counter, payloads, creatorVars>>,
           Kept \subseteq Kept', Pooled' \subseteq 1 .. counter,
           loaded' = loaded \/ (loaded' <= counter /\ 1 .. loaded' \subseteq Kept),
           \A w \in User \ {v} : /\ upc'[w] = upc[w] /\ total'[w] = total[w]
                                 /\ mark'[w] = mark[w] /\ popped'[w] = popped[w],
           UserOK(v)'
    PROVE  PoolInv'
<1> USE DEF PoolInv
<1>1. CreationOK'
  BY UsersKeepCreation
<1>2. ASSUME NEW w \in User PROVE UserOK(w)'
  <2>1. CASE w # v
    <3>1. UserOK(w) /\ w \in User \ {v}
      BY <2>1
    <3> QED
      BY <3>1 DEF UserOK
  <2> QED
    BY <2>1
<1>3. SyncOK'
  BY DEF SyncOK
<1> QED
  BY <1>1, <1>2, <1>3

LEMMA UserKeeps ==
    ASSUME PoolInv, NEW v \in User, Acquire(v) \/ Release(v) \/ Cancel(v)
    PROVE  PoolInv'
<1> USE DEF PoolInv
<1>1. UserOK(v) /\ counter \in Nat /\ loaded \in Nat /\ counter <= MaxId /\ Pooled \subseteq 1 .. counter
  BY DEF TypeOK, SyncOK
<1>2. CASE ReadTotal(v) \/ ReadLoaded(v) \/ PopNothing(v)
  <2>1. TypeOK'
    <3>1. CASE ReadTotal(v)
      BY <3>1 DEF ReadTotal, TypeOK, UserAwait, redisVars, creatorVars
    <3>2. CASE ReadLoaded(v)
      BY <3>2 DEF ReadLoaded, TypeOK, UserAwait, redisVars, creatorVars
    <3>3. CASE PopNothing(v)
      BY <3>3 DEF PopNothing, TypeOK, UserAwait, redisVars, creatorVars
    <3> QED
      BY <1>2, <3>1, <3>2, <3>3
  <2>2. UNCHANGED <<redisVars, creatorVars, popped, held, dropped>>
    BY <1>2 DEF ReadTotal, ReadLoaded, PopNothing
  <2>3. Pooled' = Pooled /\ Kept' = Kept
    BY <2>2 DEF Pooled, Owned, Kept, redisVars
  <2>4. \A w \in User \ {v} : /\ upc'[w] = upc[w] /\ total'[w] = total[w]
                              /\ mark'[w] = mark[w] /\ popped'[w] = popped[w]
    BY <1>2, <2>2 DEF ReadTotal, ReadLoaded, PopNothing, TypeOK
  <2>5. UserOK(v)'
    <3>1. CASE ReadTotal(v)
      BY <1>1, <2>2, <3>1 DEF ReadTotal, UserOK, TypeOK, redisVars
    <3>2. CASE ReadLoaded(v)
      <4>1. mark'[v] = loaded /\ upc'[v] \in {"pop", "add"} /\ total'[v] = total[v]
        BY <3>2 DEF ReadLoaded, TypeOK
      <4>2. upc'[v] = "add" => loaded < total[v]
        BY <1>1, <3>2 DEF ReadLoaded, TypeOK
      <4>3. popped'[v] = {}
        BY <1>1, <2>2, <3>2 DEF ReadLoaded, UserOK
      <4> QED
        BY <1>1, <2>2, <2>3, <4>1, <4>2, <4>3 DEF UserOK, SyncOK, redisVars
    <3>3. CASE PopNothing(v)
      BY <1>1, <2>2, <3>3 DEF PopNothing, UserOK, TypeOK, redisVars
    <3> QED
      BY <1>2, <3>1, <3>2, <3>3
  <2> QED
    BY <1>1, <2>1, <2>2, <2>3, <2>4, <2>5, UserStepKeeps DEF redisVars
<1>3. CASE AddNewIds(v)
  <2>0. mark[v] + 1 .. total[v] \subseteq 1 .. counter
    BY <1>1 DEF TypeOK, UserOK
  <2>1. TypeOK'
    <3>1. available' \subseteq 1 .. MaxId
      <4>1. 1 .. counter \subseteq 1 .. MaxId /\ available \subseteq 1 .. MaxId
        BY <1>1 DEF TypeOK
      <4> QED
        BY <1>3, <2>0, <4>1 DEF AddNewIds
    <3> QED
      BY <1>3, <3>1 DEF AddNewIds, TypeOK, UserAwait, creatorVars
  <2>2. UNCHANGED <<total, mark, popped, held, dropped, counter, payloads, loaded, creatorVars>>
    BY <1>3 DEF AddNewIds
  <2>3. Pooled' = Pooled \union (mark[v] + 1 .. total[v])
    BY <1>3, <2>2 DEF AddNewIds, Pooled, Owned
  <2>4. Kept' = Kept \union (mark[v] + 1 .. total[v])
    BY <2>2, <2>3 DEF Kept
  <2>5. UserOK(v)'
    <3>1. upc[v] = "add" /\ upc'[v] = "mark"
      BY <1>3 DEF AddNewIds, TypeOK
    <3>2. mark[v] < total[v] /\ 1 .. mark[v] \subseteq Kept /\ total[v] <= counter /\ popped[v] = {}
      BY <1>1, <3>1 DEF UserOK
    <3>3. mark[v] \in Nat /\ total[v] \in Nat
      BY DEF TypeOK
    <3>4. 1 .. total[v] \subseteq 1 .. mark[v] \union (mark[v] + 1 .. total[v])
      BY <3>3
    <3> QED
      BY <2>2, <2>4, <3>1, <3>2, <3>4 DEF UserOK
  <2>6. \A w \in User \ {v} : /\ upc'[w] = upc[w] /\ total'[w] = total[w]
                              /\ mark'[w] = mark[w] /\ popped'[w] = popped[w]
    BY <1>3, <2>2 DEF AddNewIds, TypeOK
  <2> QED
    BY <1>1, <2>0, <2>1, <2>2, <2>3, <2>4, <2>5, <2>6, UserStepKeeps
<1>4. CASE SetLoaded(v)
  <2>1. TypeOK'
    BY <1>4 DEF SetLoaded, TypeOK, UserAwait, creatorVars
  <2>2. /\ UNCHANGED <<total, mark, popped, held, dropped, available, counter, payloads, creatorVars>>
        /\ upc[v] = "mark" /\ loaded' = total[v] /\ upc'[v] = "pop"
    BY <1>4 DEF SetLoaded, TypeOK
  <2>3. Pooled' = Pooled /\ Kept' = Kept
    BY <2>2 DEF Pooled, Owned, Kept
  <2>4. UserOK(v)'
    BY <1>1, <2>2, <2>3 DEF UserOK
  <2>5. \A w \in User \ {v} : /\ upc'[w] = upc[w] /\ total'[w] = total[w]
                              /\ mark'[w] = mark[w] /\ popped'[w] = popped[w]
    BY <1>4, <2>2 DEF SetLoaded, TypeOK
  <2>6. loaded' <= counter /\ 1 .. loaded' \subseteq Kept
    BY <1>1, <2>2 DEF UserOK
  <2> QED
    BY <1>1, <2>1, <2>2, <2>3, <2>4, <2>5, <2>6, UserStepKeeps
<1>5. CASE Pop(v)
  <2>1. TypeOK'
    BY <1>5 DEF Pop, TypeOK, UserAwait, creatorVars
  <2>2. PICK id \in available : /\ available' = available \ {id}
                                /\ popped' = [popped EXCEPT ![v] = {id}]
    BY <1>5 DEF Pop
  <2>3. /\ UNCHANGED <<total, mark, held, dropped, counter, payloads, loaded, creatorVars>>
        /\ upc' = [upc EXCEPT ![v] = "get"] /\ popped[v] = {}
    BY <1>1, <1>5 DEF Pop, UserOK
  <2>4. Owned(v)' = Owned(v) \union {id} /\ \A w \in User \ {v} : Owned(w)' = Owned(w)
    BY <2>2, <2>3 DEF Owned, TypeOK
  <2>5. Pooled' = Pooled
    BY <2>2, <2>4 DEF Pooled
  <2>6. Kept' = Kept
    BY <2>3, <2>5 DEF Kept
  <2>7. UserOK(v)'
    BY <1>1, <2>3 DEF UserOK, TypeOK
  <2>8. \A w \in User \ {v} : /\ upc'[w] = upc[w] /\ total'[w] = total[w]
                              /\ mark'[w] = mark[w] /\ popped'[w] = popped[w]
    BY <2>2, <2>3 DEF TypeOK
  <2> QED
    BY <1>1, <2>1, <2>3, <2>5, <2>6, <2>7, <2>8, UserStepKeeps
<1>6. CASE ReadPayload(v) \/ Cancel(v)
  <2>1. TypeOK'
    <3>1. /\ popped[v] \subseteq 1 .. MaxId /\ dropped \subseteq 1 .. MaxId
          /\ cancels \in Nat /\ held[v] \subseteq 1 .. MaxId
      BY DEF TypeOK
    <3>2. CASE ReadPayload(v)
      <4>1. held' \in [User -> SUBSET (1 .. MaxId)] /\ dropped' \subseteq 1 .. MaxId
        BY <3>1, <3>2 DEF ReadPayload, TypeOK
      <4> QED
        BY <3>2, <4>1 DEF ReadPayload, TypeOK, UserAwait, redisVars, creatorVars
    <3>3. CASE Cancel(v)
      <4>1. dropped' \subseteq 1 .. MaxId
        <5>1. dropped' = dropped \union popped[v]
          BY <3>3 DEF Cancel
        <5> QED
          BY <3>1, <5>1
      <4>2. cancels' \in Nat
        <5>1. cancels' = cancels + 1
          BY <3>3 DEF Cancel
        <5> QED
          BY <3>1, <5>1
      <4> QED
        BY <3>3, <4>1, <4>2 DEF Cancel, TypeOK, UserAwait, redisVars, creatorVars
    <3> QED
      BY <1>6, <3>2, <3>3
  <2>2. /\ UNCHANGED <<total, mark, redisVars, creatorVars>>
        /\ upc' = [upc EXCEPT ![v] = "idle"]
        /\ popped' = [popped EXCEPT ![v] = {}]
    BY <1>6 DEF ReadPayload, Cancel
  <2>3. /\ \A w \in User \ {v} : held'[w] = held[w] /\ popped'[w] = popped[w]
        /\ popped[v] \subseteq held'[v] \union dropped'
        /\ held[v] \subseteq held'[v] /\ held'[v] \subseteq held[v] \union popped[v]
        /\ dropped \subseteq dropped' /\ popped'[v] = {}
    BY <1>6 DEF ReadPayload, Cancel, TypeOK
  <2>4. /\ \A w \in User \ {v} : Owned(w)' = Owned(w)
        /\ Owned(v)' \subseteq Owned(v) /\ Owned(v) \subseteq Owned(v)' \union dropped'
    BY <2>3 DEF Owned
  <2>5. Pooled' \subseteq Pooled
    BY <2>2, <2>4 DEF Pooled, redisVars
  <2>6. Kept \subseteq Kept'
    BY <2>2, <2>3, <2>4 DEF Kept, Pooled, redisVars
  <2>7. UserOK(v)'
    BY <1>1, <2>2, <2>3 DEF UserOK, TypeOK, redisVars
  <2>8. \A w \in User \ {v} : /\ upc'[w] = upc[w] /\ total'[w] = total[w]
                              /\ mark'[w] = mark[w] /\ popped'[w] = popped[w]
    BY <2>2, <2>3 DEF TypeOK
  <2> QED
    BY <1>1, <2>1, <2>2, <2>5, <2>6, <2>7, <2>8, UserStepKeeps DEF redisVars
<1>7. CASE Release(v)
  <2>1. TypeOK'
    BY <1>7 DEF Release, TypeOK, creatorVars
  <2>2. PICK id \in held[v] : /\ available' = available \union {id}
                              /\ held' = [held EXCEPT ![v] = @ \ {id}]
    BY <1>7 DEF Release
  <2>3. UNCHANGED <<upc, total, mark, popped, dropped, counter, payloads, loaded, creatorVars>>
    BY <1>7 DEF Release
  <2>4. /\ id \in Owned(v) /\ Owned(v) \subseteq Owned(v)' \union {id} /\ Owned(v)' \subseteq Owned(v)
        /\ \A w \in User \ {v} : Owned(w)' = Owned(w)
    BY <2>2, <2>3 DEF Owned, TypeOK
  <2>5. Pooled' = Pooled
    BY <2>2, <2>4 DEF Pooled
  <2>6. Kept' = Kept
    BY <2>3, <2>5 DEF Kept
  <2>7. UserOK(v)'
    BY <1>1, <2>3, <2>6 DEF UserOK
  <2> QED
    BY <1>1, <2>1, <2>3, <2>5, <2>6, <2>7, UserStepKeeps
<1> QED
  BY <1>2, <1>3, <1>4, <1>5, <1>6, <1>7 DEF Acquire

LEMMA StutterKeepsPool ==
    ASSUME PoolInv, UNCHANGED vars
    PROVE  PoolInv'
<1>1. UNCHANGED <<counter, payloads, available, loaded, creatorVars, userVars>>
  BY DEF vars, redisVars
<1>2. TypeOK'
  BY <1>1 DEF PoolInv, TypeOK, creatorVars, userVars
<1>3. CreationOK'
  BY <1>1, UsersKeepCreation
<1> QED
  BY <1>1, <1>2, <1>3, CreationKeepsUsers DEF PoolInv, TypeOK

THEOREM PoolInvariant == Spec => []PoolInv
<1>1. PoolInv /\ [Next]_vars => PoolInv'
  BY CreateKeeps, UserKeeps, StutterKeepsPool DEF Next
<1> QED
  BY <1>1, InitPool, PTL DEF Spec

-----------------------------------------------------------------------------
(***************************************************************************)
(* The pool is intact: a user gets created instances only, and none that   *)
(* the watermark covers drops out of circulation unrecorded.               *)
(***************************************************************************)
THEOREM PoolStaysIntact == Spec => []PoolIsIntact
<1>1. PoolInv => PoolIsIntact
  BY DEF PoolInv, PoolIsIntact, OnlyCreatedIds, NothingLost, CreationOK, SyncOK, Kept
<1> QED
  BY <1>1, PoolInvariant, PTL

(***************************************************************************)
(* ensure_resource_count reaches its target, and an instance without its   *)
(* payload is the one a request is creating or broke off at, however       *)
(* requests overlap and wherever they fail.                                *)
(***************************************************************************)
THEOREM EnsureReachesTarget == Spec => []EnsureReaches
<1>1. PoolInv => EnsureReaches
  BY DEF PoolInv, CreationOK, CreatorOK, Written, EnsureReaches
<1> QED
  BY <1>1, PoolInvariant, PTL

-----------------------------------------------------------------------------
(***************************************************************************)
(* Which steps duplicate an instance.                                      *)
(***************************************************************************)
LEMMA ExclusiveKept ==
    ASSUME PoolInv, [Next]_vars, Exclusive, \A v \in User : ~AddNewIds(v)
    PROVE  Exclusive'
<1>1. CASE UNCHANGED <<available, popped, held>>
  BY <1>1 DEF Exclusive, Owned
<1>2. ASSUME NEW v \in User, Pop(v) PROVE Exclusive'
  <2>1. PICK id \in available : /\ available' = available \ {id}
                                /\ popped' = [popped EXCEPT ![v] = {id}]
    BY <1>2 DEF Pop
  <2>2. Owned(v)' \subseteq Owned(v) \union {id} /\ \A w \in User \ {v} : Owned(w)' = Owned(w)
    BY <1>2, <2>1 DEF Pop, Owned, PoolInv, TypeOK
  <2> QED
    BY <2>1, <2>2 DEF Exclusive
<1>3. ASSUME NEW v \in User, Release(v) PROVE Exclusive'
  <2>1. PICK id \in held[v] : /\ available' = available \union {id}
                              /\ held' = [held EXCEPT ![v] = @ \ {id}]
    BY <1>3 DEF Release
  <2>2. popped' = popped /\ popped[v] = {}
    BY <1>3 DEF Release, PoolInv, UserOK
  <2>3. /\ id \in Owned(v) /\ Owned(v)' = Owned(v) \ {id}
        /\ \A w \in User \ {v} : Owned(w)' = Owned(w)
    BY <2>1, <2>2 DEF Owned, PoolInv, TypeOK
  <2> QED
    BY <2>1, <2>3 DEF Exclusive
<1>4. ASSUME NEW v \in User, ReadPayload(v) \/ Cancel(v) PROVE Exclusive'
  <2>1. available' = available /\ \A w \in User : Owned(w)' \subseteq Owned(w)
    BY <1>4 DEF ReadPayload, Cancel, redisVars, Owned, PoolInv, TypeOK
  <2> QED
    BY <2>1 DEF Exclusive
<1>5. ASSUME NEW v \in User,
             ReadTotal(v) \/ ReadLoaded(v) \/ SetLoaded(v) \/ PopNothing(v)
      PROVE  UNCHANGED <<available, popped, held>>
  BY <1>5 DEF ReadTotal, ReadLoaded, SetLoaded, PopNothing, redisVars
<1>6. ASSUME NEW c \in Creator, Create(c) PROVE UNCHANGED <<available, popped, held>>
  BY <1>6 DEF Create, Ensure, CountExisting, IncrementCounter, SetPayload, CreatorFails,
              redisVars, userVars
<1>7. CASE UNCHANGED vars
  BY <1>1, <1>7 DEF vars, redisVars, userVars
<1> QED
  BY <1>1, <1>2, <1>3, <1>4, <1>5, <1>6, <1>7 DEF Next, Acquire

(***************************************************************************)
(* No step but the SADD of a sync makes an instance available twice.       *)
(***************************************************************************)
THEOREM OnlySyncsDuplicate == Spec => OnlySyncDuplicates
<1>1. PoolInv /\ [Next]_vars => [Exclusive => Exclusive' \/ \E v \in User : AddNewIds(v)]_vars
  BY ExclusiveKept
<1> QED
  BY <1>1, PoolInvariant, PTL DEF Spec, OnlySyncDuplicates

\* The users that have put new ids into the pool and not raised the watermark yet.
Marking == { w \in User : upc[w] = "mark" }

\* A step that takes from the pool only, or gives back to it, and lets no sync move.
LEMMA QuietStepKeepsSound ==
    ASSUME PoolSound, Exclusive', Pooled' \subseteq Pooled, loaded' = loaded,
           Marking' = Marking,
           \A w \in Marking : mark'[w] = mark[w] /\ total'[w] = total[w]
    PROVE  PoolSound'
<1>1. \A w \in User : upc'[w] = "mark" <=> upc[w] = "mark"
  BY DEF Marking
<1> QED
  BY <1>1 DEF PoolSound, Marking

LEMMA SoundKept ==
    ASSUME PoolInv, PoolSound, [Next]_vars, \A v \in User : ~SyncRace(v)
    PROVE  PoolSound'
<1> USE DEF PoolInv
<1>1. ASSUME NEW v \in User, AddNewIds(v) PROVE PoolSound'
  <2>1. /\ upc[v] = "add" /\ mark[v] = loaded /\ \A w \in User : upc[w] # "mark"
        /\ UNCHANGED <<total, mark, popped, held, loaded>>
        /\ upc' = [upc EXCEPT ![v] = "mark"]
        /\ available' = available \union (loaded + 1 .. total[v])
    BY <1>1 DEF AddNewIds, SyncRace
  <2>2. Pooled \subseteq 1 .. loaded /\ loaded \in Nat
    BY <2>1 DEF PoolSound, TypeOK
  <2>3. \A w \in User : Owned(w)' = Owned(w) /\ Owned(w) \subseteq 1 .. loaded
    BY <2>1, <2>2 DEF Owned, Pooled
  <2>4. Exclusive'
    BY <2>1, <2>2, <2>3 DEF PoolSound, Exclusive
  <2>5. Pooled' \subseteq 1 .. loaded \union (loaded + 1 .. total[v])
    BY <2>1, <2>2, <2>3 DEF Pooled
  <2>6. upc'[v] = "mark" /\ \A w \in User \ {v} : upc'[w] # "mark"
    BY <2>1 DEF TypeOK
  <2> QED
    BY <2>1, <2>4, <2>5, <2>6 DEF PoolSound
<1>2. ASSUME NEW v \in User, SetLoaded(v) PROVE PoolSound'
  <2>1. /\ upc[v] = "mark" /\ mark[v] = loaded /\ \A w \in User \ {v} : upc[w] # "mark"
        /\ UNCHANGED <<total, mark, popped, held, available>>
        /\ upc' = [upc EXCEPT ![v] = "pop"] /\ loaded' = total[v]
    BY <1>2 DEF SetLoaded, PoolSound
  <2>2. Pooled \subseteq 1 .. loaded \union (loaded + 1 .. total[v])
    BY <2>1 DEF PoolSound
  <2>3. loaded < total[v] /\ loaded \in Nat /\ total[v] \in Nat
    BY <2>1 DEF UserOK, TypeOK
  <2>4. Pooled \subseteq 1 .. total[v]
    BY <2>2, <2>3
  <2>5. Pooled' = Pooled /\ Exclusive'
    BY <2>1 DEF Pooled, Owned, PoolSound, Exclusive
  <2>6. \A w \in User : upc'[w] # "mark"
    BY <2>1 DEF TypeOK
  <2> QED
    BY <2>1, <2>4, <2>5, <2>6 DEF PoolSound
<1>3. ASSUME \A v \in User : ~AddNewIds(v) PROVE Exclusive'
  BY <1>3, ExclusiveKept DEF PoolSound
<1>4. ASSUME NEW v \in User,
             ReadTotal(v) \/ ReadLoaded(v) \/ PopNothing(v) \/ Pop(v)
                 \/ ReadPayload(v) \/ Release(v) \/ Cancel(v)
      PROVE  PoolSound'
  <2>1. \A w \in User : ~AddNewIds(w)
    <3> SUFFICES ASSUME NEW w \in User, AddNewIds(w) PROVE FALSE
      OBVIOUS
    <3>1. upc[w] = "add" /\ upc'[w] = "mark"
      BY DEF AddNewIds, TypeOK
    <3>2. upc'[w] = upc[w] \/ upc'[w] # "mark"
      BY <1>4 DEF ReadTotal, ReadLoaded, PopNothing, Pop, ReadPayload, Release, Cancel, TypeOK
    <3> QED
      BY <3>1, <3>2
  <2>2. /\ loaded' = loaded /\ upc[v] # "mark" /\ upc'[v] # "mark"
        /\ \A w \in User \ {v} : upc'[w] = upc[w] /\ mark'[w] = mark[w] /\ total'[w] = total[w]
    BY <1>4 DEF ReadTotal, ReadLoaded, PopNothing, Pop, ReadPayload, Release, Cancel, SyncRace,
                TypeOK, redisVars
  <2>3. Marking' = Marking /\ \A w \in Marking : mark'[w] = mark[w] /\ total'[w] = total[w]
    BY <2>2 DEF Marking
  <2>4. Pooled' \subseteq Pooled
    <3>1. CASE UNCHANGED <<available, popped, held>>
      BY <3>1 DEF Pooled, Owned
    <3>2. CASE ReadPayload(v) \/ Cancel(v)
      <4>1. available' = available /\ \A w \in User : Owned(w)' \subseteq Owned(w)
        BY <3>2 DEF ReadPayload, Cancel, redisVars, Owned, TypeOK
      <4> QED
        BY <4>1 DEF Pooled
    <3>3. CASE Pop(v)
      <4>1. PICK id \in available : /\ available' = available \ {id}
                                    /\ popped' = [popped EXCEPT ![v] = {id}]
        BY <3>3 DEF Pop
      <4>2. \A w \in User : Owned(w)' \subseteq Owned(w) \union {id}
        BY <3>3, <4>1 DEF Pop, Owned, TypeOK
      <4> QED
        BY <4>1, <4>2 DEF Pooled
    <3>4. CASE Release(v)
      <4>1. PICK id \in held[v] : /\ available' = available \union {id}
                                  /\ held' = [held EXCEPT ![v] = @ \ {id}]
        BY <3>4 DEF Release
      <4>2. id \in Owned(v) /\ \A w \in User : Owned(w)' \subseteq Owned(w)
        BY <3>4, <4>1 DEF Release, Owned, TypeOK
      <4> QED
        BY <4>1, <4>2 DEF Pooled
    <3> QED
      BY <1>4, <3>1, <3>2, <3>3, <3>4 DEF ReadTotal, ReadLoaded, PopNothing, redisVars
  <2> QED
    BY <1>3, <2>1, <2>2, <2>3, <2>4, QuietStepKeepsSound
<1>5. ASSUME UNCHANGED <<available, loaded, userVars>> PROVE PoolSound'
  <2>1. UNCHANGED <<available, loaded, upc, total, mark, popped, held>>
    BY <1>5 DEF userVars
  <2> QED
    BY <2>1 DEF PoolSound, Exclusive, Pooled, Owned
<1>6. ASSUME NEW c \in Creator, Create(c) PROVE UNCHANGED <<available, loaded, userVars>>
  BY <1>6 DEF Create, Ensure, CountExisting, IncrementCounter, SetPayload, CreatorFails, redisVars
<1>7. CASE UNCHANGED vars
  BY <1>5, <1>7 DEF vars, redisVars
<1> QED
  BY <1>1, <1>2, <1>4, <1>5, <1>6, <1>7 DEF Next, Acquire

(***************************************************************************)
(* Two users get one instance only after a sync that overlapped another or *)
(* worked from a watermark that had moved, or after one broken off between *)
(* its two writes; nothing that is created meanwhile matters.              *)
(***************************************************************************)
THEOREM OnlyRacesDuplicates == Spec => OnlyRacesDuplicate
<1>1. PoolInv /\ [Next]_vars
         => [PoolSound => PoolSound' \/ \E v \in User : SyncRace(v)]_vars
  BY SoundKept
<1> QED
  BY <1>1, PoolInvariant, PTL DEF Spec, OnlyRacesDuplicate

(***************************************************************************)
(* As long as the syncs do not race, from the first one of an empty pool   *)
(* on, no instance is in two hands, or in one and in the pool.             *)
(***************************************************************************)
THEOREM SyncsInTurnAreExclusive ==
    Spec /\ [][\A v \in User : ~SyncRace(v)]_vars => []Exclusive
<1>1. PoolInv /\ PoolSound /\ [Next]_vars /\ [\A v \in User : ~SyncRace(v)]_vars => PoolSound'
  <2>1. ASSUME PoolSound, UNCHANGED vars PROVE PoolSound'
    <3>1. UNCHANGED <<available, loaded, upc, total, mark, popped, held>>
      BY <2>1 DEF vars, redisVars, userVars
    <3> QED
      BY <2>1, <3>1 DEF PoolSound, Exclusive, Pooled, Owned
  <2> QED
    BY <2>1, SoundKept
<1>2. PoolSound => Exclusive
  BY DEF PoolSound
<1> QED
  BY <1>1, <1>2, InitPool, PoolInvariant, PTL DEF Spec
=============================================================================
