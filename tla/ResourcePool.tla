---------------------------- MODULE ResourcePool ----------------------------
(***************************************************************************)
(* One named resource: ResourceService creates numbered instances of it on *)
(* the orchestrator, and virtual users on every worker take them from a    *)
(* pool in Redis.  Nobody fills the pool but the takers themselves: before *)
(* each acquire they compare the counter with a watermark of the ids that  *)
(* were put into the pool.  The four calls of that comparison are separate *)
(* awaits, and so are the two calls that create an instance.  Everything   *)
(* starts from an empty Redis: the first users of a test find a counter    *)
(* and payloads, and neither a pool nor a watermark.                       *)
(***************************************************************************)
EXTENDS Naturals, FiniteSets

CONSTANTS
    Creator,    \* requests that create instances, one ensure each
    User,       \* virtual users that acquire and release
    MaxId,      \* bound: instances ever created
    MaxFaults,  \* bound: requests to create that break off
    MaxCancels  \* bound: acquires that break off

ASSUME ResourcePoolAssumption ==
    MaxId \in Nat /\ MaxFaults \in Nat /\ MaxCancels \in Nat

ResourceId == 1 .. MaxId

CreatorAwait == {"idle", "count", "incr", "set", "done", "failed"}
UserAwait    == {"idle", "loaded", "add", "mark", "pop", "get"}

VARIABLES
    counter,    \* field of the hash resources
    payloads,   \* ids with a payload resource:{name}:{id}
    available,  \* SET resource:{name}:available
    loaded,     \* resource:{name}:pool_loaded_count
    cpc,        \* where each creator is suspended
    goal,       \* target_count of ensure_resource_count
    missing,    \* instances it still has to create
    newId,      \* the id it got from HINCRBY last
    faults,     \* how much of MaxFaults is used up
    upc,        \* where each user is suspended in acquire
    total,      \* the counter as the user read it
    mark,       \* the watermark as the user read it
    popped,     \* the ids it popped and has no payload of yet
    held,       \* the ids it has acquired and not released
    cancels,    \* how much of MaxCancels is used up
    dropped     \* history: ids that an acquire popped and gave to nobody

redisVars   == <<counter, payloads, available, loaded>>
creatorVars == <<cpc, goal, missing, newId, faults>>
userVars    == <<upc, total, mark, popped, held, cancels, dropped>>
vars        == <<redisVars, creatorVars, userVars>>

TypeOK ==
    /\ counter \in 0 .. MaxId
    /\ payloads \subseteq ResourceId
    /\ available \subseteq ResourceId
    /\ loaded \in 0 .. MaxId
    /\ cpc \in [Creator -> CreatorAwait]
    /\ goal \in [Creator -> 0 .. MaxId]
    /\ missing \in [Creator -> 0 .. MaxId]
    /\ newId \in [Creator -> 0 .. MaxId]
    /\ faults \in Nat
    /\ upc \in [User -> UserAwait]
    /\ total \in [User -> 0 .. MaxId]
    /\ mark \in [User -> 0 .. MaxId]
    /\ popped \in [User -> SUBSET ResourceId]
    /\ held \in [User -> SUBSET ResourceId]
    /\ cancels \in Nat
    /\ dropped \subseteq ResourceId

Init ==
    /\ counter = 0
    /\ payloads = {}
    /\ available = {}
    /\ loaded = 0
    /\ cpc = [c \in Creator |-> "idle"]
    /\ goal = [c \in Creator |-> 0]
    /\ missing = [c \in Creator |-> 0]
    /\ newId = [c \in Creator |-> 0]
    /\ faults = 0
    /\ upc = [v \in User |-> "idle"]
    /\ total = [v \in User |-> 0]
    /\ mark = [v \in User |-> 0]
    /\ popped = [v \in User |-> {}]
    /\ held = [v \in User |-> {}]
    /\ cancels = 0
    /\ dropped = {}

-----------------------------------------------------------------------------
\* ensure_resource_count and create_resources

Ensure(c, n) ==
    /\ cpc[c] = "idle"
    /\ cpc' = [cpc EXCEPT ![c] = "count"]
    /\ goal' = [goal EXCEPT ![c] = n]
    /\ UNCHANGED <<missing, newId, faults, redisVars, userVars>>

\* Mutant: off by one, a single missing instance is not created.
MissesLastOne(c) ==
    /\ cpc[c] = "count"
    /\ missing' = [missing EXCEPT ![c] = IF goal[c] > counter THEN goal[c] - counter ELSE 0]
    /\ cpc' = [cpc EXCEPT ![c] = IF goal[c] > counter + 1 THEN "incr" ELSE "done"]
    /\ UNCHANGED <<goal, newId, faults, redisVars, userVars>>

\* list_resource_counters: another creator may be counting the same gap.
CountExisting(c) ==
    /\ cpc[c] = "count"
    /\ missing' = [missing EXCEPT ![c] = IF goal[c] > counter THEN goal[c] - counter ELSE 0]
    /\ cpc' = [cpc EXCEPT ![c] = IF goal[c] > counter THEN "incr" ELSE "done"]
    /\ UNCHANGED <<goal, newId, faults, redisVars, userVars>>

\* increment_resource_counter: from here on users may pool the new id.
IncrementCounter(c) ==
    /\ cpc[c] = "incr"
    /\ counter < MaxId
    /\ counter' = counter + 1
    /\ newId' = [newId EXCEPT ![c] = counter + 1]
    /\ cpc' = [cpc EXCEPT ![c] = "set"]
    /\ UNCHANGED <<goal, missing, faults, payloads, available, loaded, userVars>>

\* set_resource_data, after the factory has run; a factory that raises adds nothing.
SetPayload(c) ==
    /\ cpc[c] = "set"
    /\ payloads' = payloads \union {newId[c]}
    /\ missing' = [missing EXCEPT ![c] = @ - 1]
    /\ cpc' = [cpc EXCEPT ![c] = IF missing[c] = 1 THEN "done" ELSE "incr"]
    /\ UNCHANGED <<goal, newId, faults, counter, available, loaded, userVars>>

\* A Redis error or a restart of the orchestrator ends the request at any await.
\* Nothing is taken back: an id that is counted stays counted.  A lost answer is
\* the failure at the next await, or, of the last SET, a payload all the same.
CreatorFails(c) ==
    /\ cpc[c] \in {"count", "incr", "set"}
    /\ faults < MaxFaults
    /\ faults' = faults + 1
    /\ cpc' = [cpc EXCEPT ![c] = "failed"]
    /\ \E written \in IF cpc[c] = "set" THEN {{}, {newId[c]}} ELSE {{}} :
            payloads' = payloads \union written
    /\ UNCHANGED <<goal, missing, newId, counter, available, loaded, userVars>>

-----------------------------------------------------------------------------
\* acquire: _ensure_resource_pool_synced, SPOP, GET

ReadTotal(v) ==
    /\ upc[v] = "idle"
    /\ total' = [total EXCEPT ![v] = counter]
    /\ upc' = [upc EXCEPT ![v] = IF counter = 0 THEN "pop" ELSE "loaded"]
    /\ UNCHANGED <<mark, popped, held, cancels, dropped, redisVars, creatorVars>>

ReadLoaded(v) ==
    /\ upc[v] = "loaded"
    /\ mark' = [mark EXCEPT ![v] = loaded]
    /\ upc' = [upc EXCEPT ![v] = IF total[v] <= loaded THEN "pop" ELSE "add"]
    /\ UNCHANGED <<total, popped, held, cancels, dropped, redisVars, creatorVars>>

\* Mutant: the range of new ids begins with the watermark.
AddsFromMark(v) ==
    /\ upc[v] = "add"
    /\ available' = available \union ((mark[v] .. total[v]) \ {0})
    /\ upc' = [upc EXCEPT ![v] = "mark"]
    /\ UNCHANGED <<total, mark, popped, held, cancels, dropped, counter, payloads, loaded,
                   creatorVars>>

AddNewIds(v) ==
    /\ upc[v] = "add"
    /\ available' = available \union (mark[v] + 1 .. total[v])
    /\ upc' = [upc EXCEPT ![v] = "mark"]
    /\ UNCHANGED <<total, mark, popped, held, cancels, dropped, counter, payloads, loaded,
                   creatorVars>>

SetLoaded(v) ==
    /\ upc[v] = "mark"
    /\ loaded' = total[v]
    /\ upc' = [upc EXCEPT ![v] = "pop"]
    /\ UNCHANGED <<total, mark, popped, held, cancels, dropped, counter, payloads, available,
                   creatorVars>>

\* Nothing to pop: acquire raises "resource pool is empty".
PopNothing(v) ==
    /\ upc[v] = "pop"
    /\ available = {}
    /\ upc' = [upc EXCEPT ![v] = "idle"]
    /\ UNCHANGED <<total, mark, popped, held, cancels, dropped, redisVars, creatorVars>>

\* Mutant: SRANDMEMBER instead of SPOP.
PeeksOnly(v) ==
    /\ upc[v] = "pop"
    /\ \E id \in available : popped' = [popped EXCEPT ![v] = {id}]
    /\ upc' = [upc EXCEPT ![v] = "get"]
    /\ UNCHANGED <<total, mark, held, cancels, dropped, redisVars, creatorVars>>

Pop(v) ==
    /\ upc[v] = "pop"
    /\ \E id \in available :
        /\ available' = available \ {id}
        /\ popped' = [popped EXCEPT ![v] = {id}]
    /\ upc' = [upc EXCEPT ![v] = "get"]
    /\ UNCHANGED <<total, mark, held, cancels, dropped, counter, payloads, loaded, creatorVars>>

\* Without a payload acquire raises, and the id is in nobody's hands, also when
\* its creator is only about to write the payload.
ReadPayload(v) ==
    /\ upc[v] = "get"
    /\ held' = [held EXCEPT ![v] = @ \union (popped[v] \intersect payloads)]
    /\ dropped' = dropped \union (popped[v] \ payloads)
    /\ popped' = [popped EXCEPT ![v] = {}]
    /\ upc' = [upc EXCEPT ![v] = "idle"]
    /\ UNCHANGED <<total, mark, cancels, redisVars, creatorVars>>

\* Mutant: the instance is dropped but not put back.
ReleaseForgets(v) ==
    /\ upc[v] = "idle"
    /\ \E id \in held[v] : held' = [held EXCEPT ![v] = @ \ {id}]
    /\ UNCHANGED <<upc, total, mark, popped, cancels, dropped, redisVars, creatorVars>>

Release(v) ==
    /\ upc[v] = "idle"
    /\ \E id \in held[v] :
        /\ available' = available \union {id}
        /\ held' = [held EXCEPT ![v] = @ \ {id}]
    /\ UNCHANGED <<upc, total, mark, popped, cancels, dropped, counter, payloads, loaded,
                   creatorVars>>

\* The task of the user is cancelled, or Redis fails: acquire ends where it is
\* suspended.  A write whose answer is lost is the failure at the next await.
Cancel(v) ==
    /\ upc[v] # "idle"
    /\ cancels < MaxCancels
    /\ cancels' = cancels + 1
    /\ upc' = [upc EXCEPT ![v] = "idle"]
    /\ dropped' = dropped \union popped[v]
    /\ popped' = [popped EXCEPT ![v] = {}]
    /\ UNCHANGED <<total, mark, held, redisVars, creatorVars>>

-----------------------------------------------------------------------------
Create(c) ==
    \/ \E n \in 1 .. MaxId : Ensure(c, n)
    \/ CountExisting(c) \/ IncrementCounter(c) \/ SetPayload(c) \/ CreatorFails(c)

Acquire(v) ==
    \/ ReadTotal(v) \/ ReadLoaded(v) \/ AddNewIds(v) \/ SetLoaded(v)
    \/ PopNothing(v) \/ Pop(v) \/ ReadPayload(v)

Next ==
    \/ \E c \in Creator : Create(c)
    \/ \E v \in User : Acquire(v) \/ Release(v) \/ Cancel(v)

Spec == Init /\ [][Next]_vars

-----------------------------------------------------------------------------
\* Properties

Owned(v) == held[v] \union popped[v]

(***************************************************************************)
(* Nothing but a sync makes an instance available twice: taking one takes  *)
(* it from everybody else, and what is given back was held.                *)
(***************************************************************************)
Exclusive ==
    \A v \in User : /\ Owned(v) \intersect available = {}
                    /\ \A w \in User \ {v} : Owned(v) \intersect Owned(w) = {}

OnlySyncDuplicates ==
    [][Exclusive => Exclusive' \/ \E v \in User : AddNewIds(v)]_vars

(***************************************************************************)
(* Global uniqueness, and what it takes to lose it.  A sound pool is       *)
(* exclusive, and holds no id above the watermark but those of the one     *)
(* sync that is about to raise it.  Every step keeps it sound, creations   *)
(* and releases at any moment included, except a sync that adds its ids    *)
(* next to another or after the watermark it read has moved, and a sync    *)
(* broken off between its SADD and its SET.                                *)
(***************************************************************************)
Pooled == available \union UNION { Owned(v) : v \in User }

PoolSound ==
    /\ Exclusive
    /\ \A v \in User : upc[v] = "mark" =>
          mark[v] = loaded /\ \A w \in User \ {v} : upc[w] # "mark"
    /\ Pooled \subseteq 1 .. loaded \union
          UNION { mark[v] + 1 .. total[v] : v \in { w \in User : upc[w] = "mark" } }

SyncRace(v) ==
    \/ AddNewIds(v) /\ (mark[v] # loaded \/ \E w \in User \ {v} : upc[w] = "mark")
    \/ Cancel(v) /\ upc[v] = "mark"

OnlyRacesDuplicate ==
    [][PoolSound => PoolSound' \/ \E v \in User : SyncRace(v)]_vars

(***************************************************************************)
(* The pool is intact.  A user never gets an instance whose creation has   *)
(* not begun, and none drops out of circulation but by an acquire that     *)
(* breaks off or finds no payload: each one the watermark covers is in the *)
(* pool, in somebody's hands, or dropped.  The state is well typed.        *)
(***************************************************************************)
OnlyCreatedIds == payloads \union Pooled \subseteq 1 .. counter

NothingLost == 1 .. loaded \subseteq Pooled \union dropped

PoolIsIntact == TypeOK /\ OnlyCreatedIds /\ NothingLost

(***************************************************************************)
(* When ensure_resource_count returns there are at least as many instances *)
(* as it was asked for, however requests overtake each other.  An instance *)
(* that is counted has its payload, or it is the one a request is creating *)
(* or broke off at: a request that breaks off leaves one at most.          *)
(***************************************************************************)
EnsureReaches ==
    /\ \A c \in Creator : cpc[c] = "done" => goal[c] <= counter
    /\ \A id \in 1 .. counter : id \notin payloads =>
          \E c \in Creator : cpc[c] \in {"set", "failed"} /\ newId[c] = id
=============================================================================
