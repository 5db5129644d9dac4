------------------------- MODULE MetricsPollerProofs -------------------------
(***************************************************************************)
(* What holds of the metrics service for any metrics, subscribers, batch   *)
(* and queue limits, and any number of events, resets and failed polls.    *)
(***************************************************************************)
EXTENDS MetricsPoller, FiniteSetTheorems, WellFoundedInduction, SequenceTheorems, TLAPS

USE MetricsPollerAssumption

-----------------------------------------------------------------------------
(***************************************************************************)
(* The strengthening.  Ids are handed out in order.  What a poller has     *)
(* read of a stream has no hole above its cursor, and everything up to its *)
(* cursor was counted when it started; so the cursor may even go back, by  *)
(* an older batch, and nothing is skipped.  A poller that is alone reads   *)
(* on from the cursor that is still the cursor when it applies its batch.  *)
(***************************************************************************)
IdsOK ==
    /\ newestId + Cardinality(emitting) <= MaxEvents
    /\ runStart <= newestId
    /\ \A m \in Metric :
        /\ last[m] <= newestId
        /\ \A e \in stream[m] : e <= newestId

PollOK ==
    \A p \in Poller :
        /\ ppc[p] # "fetch" => fetched[p] = Nothing
        /\ \A m \in Metric :
            /\ cursors[p][m] <= newestId
            /\ \A e \in fetched[p][m] : e <= newestId
            /\ \A e \in stream[m] : runStart < e /\ e <= cursors[p][m] => e \in counted[m]
            /\ \A e \in stream[m], f \in fetched[p][m] :
                cursors[p][m] < e /\ e <= f => e \in fetched[p][m]

AloneOK ==
    overlap = FALSE =>
        \A p \in Poller : ppc[p] = "fetch" =>
            /\ rpc = "idle"
            /\ \A q \in Poller : ppc[q] = "fetch" => q = p
            /\ cursors[p] = last
            /\ \A m \in Metric : \A e \in fetched[p][m] : e \in stream[m] /\ last[m] < e

CountedOK ==
    overlap = FALSE /\ rpc # "forget" =>
        \A m \in Metric : /\ counted[m] = { e \in stream[m] : e <= last[m] }
                          /\ total[m] = Cardinality(counted[m])

\* The ticks a subscriber holds are the newest ones, in order.
QueueOK(s) ==
    /\ client[s] = "off" => queue[s] = <<>>
    /\ \A i \in 1 .. Len(queue[s]) : queue[s][i] + Len(queue[s]) = ticks + i
    /\ client[s] = "live" =>
        /\ queue[s] = <<>> => view[s] = ticks
        /\ dropped = 0 /\ resets = 0 => ticks <= view[s] + Len(queue[s])

PollerInv ==
    /\ TypeOK /\ IdsOK /\ NothingSkipped /\ PollOK /\ AloneOK /\ CountedOK
    /\ \A s \in Subscriber : QueueOK(s)

-----------------------------------------------------------------------------
\* A non-empty set of event ids has a largest one: the ids above it are a minimal
\* set among the sets of ids above a member.
LEMMA MaxOfIds ==
    ASSUME NEW S, S \subseteq EventId, S # {}
    PROVE  Max(S) \in S /\ \A e \in S : e <= Max(S)
<1> DEFINE Above(e) == { f \in S : e < f }
           T == { Above(e) : e \in S }
<1>1. S \subseteq Nat
  BY DEF EventId
<1>2. T \subseteq FiniteSubsetsOf(S)
  <2>1. IsFiniteSet(EventId)
    BY FS_Interval DEF EventId
  <2>2. \A e \in S : Above(e) \in SUBSET S /\ IsFiniteSet(Above(e))
    BY <2>1, FS_Subset
  <2> QED
    BY <2>2 DEF FiniteSubsetsOf
<1>3. PICK x \in T : \A y \in T : <<y, x>> \notin StrictSubsetOrdering(S)
  <2>1. T # {}
    OBVIOUS
  <2>2. IsWellFoundedOn(StrictSubsetOrdering(S), FiniteSubsetsOf(S))
    BY FS_StrictSubsetOrderingWellFounded
  <2> HIDE DEF T
  <2> QED
    BY <1>2, <2>1, <2>2, WFMin
<1>4. PICK top \in S : x = Above(top)
  OBVIOUS
<1>5. \A e \in S : e <= top
  <2> SUFFICES ASSUME NEW e \in S, top < e PROVE FALSE
    BY <1>1
  <2>1. Above(e) \subseteq Above(top)
    <3>1. e \in Nat /\ top \in Nat
      BY <1>1
    <3>2. \A f \in S : e < f => top < f
      BY <1>1, <3>1
    <3> QED
      BY <3>2
  <2>2. e \in Above(top) /\ e \notin Above(e)
    BY <1>1
  <2>3. <<Above(e), x>> \in StrictSubsetOrdering(S)
    BY <1>4, <2>1, <2>2 DEF StrictSubsetOrdering
  <2> QED
    BY <1>3, <2>3
<1>6. \E e \in S : \A f \in S : e >= f
  BY <1>1, <1>5
<1>7. Max(S) \in S /\ \A f \in S : Max(S) >= f
  BY <1>6 DEF Max
<1> QED
  BY <1>1, <1>7

LEMMA FiniteStreams ==
    ASSUME NEW S, S \subseteq EventId
    PROVE  IsFiniteSet(S) /\ Cardinality(S) \in Nat
<1>1. IsFiniteSet(EventId)
  BY FS_Interval DEF EventId
<1> QED
  BY <1>1, FS_Subset, FS_CardinalityType

LEMMA FiniteMetrics ==
    ASSUME NEW S, S \subseteq Metric
    PROVE  IsFiniteSet(S) /\ Cardinality(S) \in Nat
  BY FS_Subset, FS_CardinalityType

LEMMA FiniteSubscribers ==
    ASSUME NEW S, S \subseteq Subscriber
    PROVE  /\ IsFiniteSet(S) /\ Cardinality(S) \in Nat
           /\ S # {} => Cardinality(S) > 0
<1>1. IsFiniteSet(S) /\ Cardinality(S) \in Nat
  BY FS_Subset, FS_CardinalityType
<1>2. Cardinality(S) = 0 <=> S = {}
  BY <1>1, FS_EmptySet
<1> QED
  BY <1>1, <1>2

\* A read takes events from the beginning, without a hole.
LEMMA OldestHasNoHole ==
    ASSUME NEW S \in SUBSET EventId, NEW n \in Nat
    PROVE  /\ Oldest(S, n) \subseteq S
           /\ \A e \in S, f \in Oldest(S, n) : e <= f => e \in Oldest(S, n)
<1> DEFINE below(e) == { f \in S : f < e }
<1>1. \A e \in S : IsFiniteSet(below(e)) /\ Cardinality(below(e)) \in Nat
  BY FiniteStreams
<1>2. Oldest(S, n) = { e \in S : Cardinality(below(e)) < n }
  BY DEF Oldest
<1>3. ASSUME NEW e \in S, NEW f \in Oldest(S, n), e <= f PROVE e \in Oldest(S, n)
  <2>1. f \in S /\ Cardinality(below(f)) < n
    BY <1>2
  <2>2. \A x \in S : x \in Int
    BY DEF EventId
  <2>3. \A x \in S : x < e => x < f
    BY <1>3, <2>1, <2>2
  <2>4. below(e) \in SUBSET below(f)
    BY <2>3
  <2>5. Cardinality(below(e)) <= Cardinality(below(f))
    BY <1>1, <2>1, <2>4, FS_Subset
  <2>6. Cardinality(below(e)) < n
    BY <1>1, <2>1, <2>5
  <2> QED
    BY <1>2, <2>6
<1>4. Oldest(S, n) \subseteq S
  BY <1>2
<1> QED
  BY <1>3, <1>4

\* What a read returns: events above the cursor, without a hole.
LEMMA BatchHasNoHole ==
    ASSUME TypeOK, NEW m \in Metric, NEW cursor \in 0 .. MaxEvents
    PROVE  /\ Batch(m, cursor) \subseteq stream[m]
           /\ \A e \in Batch(m, cursor) : cursor < e
           /\ \A e \in stream[m], f \in Batch(m, cursor) :
                cursor < e /\ e <= f => e \in Batch(m, cursor)
<1> DEFINE from == { e \in stream[m] : e >= cursor }
           read == Oldest(from, PollLimit + 1)
           kept == read \ {cursor}
<1>1. stream[m] \in SUBSET EventId /\ from \in SUBSET EventId
  BY DEF TypeOK
<1>2. PollLimit \in Nat /\ PollLimit + 1 \in Nat
  OBVIOUS
<1>3. CASE cursor = 0
  <2>1. Batch(m, cursor) = Oldest(stream[m], PollLimit)
    BY <1>3 DEF Batch
  <2>2. \A e \in stream[m] : cursor < e
    BY <1>1, <1>3 DEF EventId
  <2> QED
    BY <1>1, <1>2, <2>1, <2>2, OldestHasNoHole
<1>4. CASE cursor # 0
  <2>1. Batch(m, cursor) = Oldest(kept, PollLimit)
    BY <1>4 DEF Batch
  <2>2. /\ read \subseteq from
        /\ \A e \in from, f \in read : e <= f => e \in read
    BY <1>1, <1>2, OldestHasNoHole
  <2>3. kept \in SUBSET EventId
    BY <1>1, <2>2
  <2>4. /\ Oldest(kept, PollLimit) \subseteq kept
        /\ \A e \in kept, f \in Oldest(kept, PollLimit) :
              e <= f => e \in Oldest(kept, PollLimit)
    BY <1>2, <2>3, OldestHasNoHole
  <2>5. \A e \in kept : e \in stream[m] /\ cursor < e
    BY <1>1, <2>2 DEF EventId
  <2>6. ASSUME NEW e \in stream[m], NEW f \in kept, cursor < e, e <= f PROVE e \in kept
    <3>1. e \in from /\ e # cursor
      BY <1>1, <2>6 DEF EventId
    <3> QED
      BY <2>2, <2>6, <3>1
  <2> HIDE DEF kept
  <2> QED
    BY <2>1, <2>4, <2>5, <2>6
<1> QED
  BY <1>3, <1>4

-----------------------------------------------------------------------------
\* The types, by the part of the state they are about.
StreamTyped ==
    /\ index \subseteq Metric /\ emitting \subseteq Metric
    /\ stream \in [Metric -> SUBSET EventId]
    /\ newestId \in 0 .. MaxEvents

PollTyped ==
    /\ ppc \in [Poller -> {"idle", "fetch", "done"}]
    /\ names \in [Poller -> SUBSET Metric]
    /\ cursors \in [Poller -> [Metric -> 0 .. MaxEvents]]
    /\ fetched \in [Poller -> [Metric -> SUBSET EventId]]

MemoryTyped ==
    /\ last \in [Metric -> 0 .. MaxEvents]
    /\ counted \in [Metric -> SUBSET EventId]
    /\ total \in [Metric -> Nat]
    /\ backlog \subseteq Metric

SubscriberTyped ==
    /\ ticks \in Nat /\ dropped \in Nat
    /\ client \in [Subscriber -> {"off", "snapshot", "live"}]
    /\ queue \in [Subscriber -> Seq(Nat)]
    /\ \A s \in Subscriber : Len(queue[s]) <= QueueLimit
    /\ view \in [Subscriber -> Nat]

ResetTyped ==
    /\ rpc \in {"idle", "delete", "forget"}
    /\ doomed \subseteq Metric
    /\ resets \in Nat /\ runStart \in 0 .. MaxEvents

LEMMA TypeParts ==
    TypeOK <=> /\ StreamTyped /\ PollTyped /\ MemoryTyped /\ SubscriberTyped /\ ResetTyped
               /\ overlap \in BOOLEAN /\ faults \in Nat
  BY DEF TypeOK, StreamTyped, PollTyped, MemoryTyped, SubscriberTyped, ResetTyped

LEMMA TypePartsNext ==
    TypeOK' <=> /\ StreamTyped' /\ PollTyped' /\ MemoryTyped' /\ SubscriberTyped'
                /\ ResetTyped' /\ overlap' \in BOOLEAN /\ faults' \in Nat
  BY DEF TypeOK, StreamTyped, PollTyped, MemoryTyped, SubscriberTyped, ResetTyped

LEMMA InitPoller == Init => PollerInv
<1> SUFFICES ASSUME Init PROVE PollerInv
  OBVIOUS
<1>1. Cardinality({}) = 0
  BY FS_EmptySet
<1>2. TypeOK
  <2>1. StreamTyped
    BY DEF Init, StreamTyped, Nothing
  <2>2. PollTyped
    BY DEF Init, PollTyped, Nothing, Zeros
  <2>3. MemoryTyped
    BY DEF Init, MemoryTyped, Nothing, Zeros
  <2>4. SubscriberTyped
    BY DEF Init, SubscriberTyped
  <2>5. ResetTyped
    BY DEF Init, ResetTyped
  <2> QED
    BY <2>1, <2>2, <2>3, <2>4, <2>5, TypeParts DEF Init
<1>3. IdsOK
  BY <1>1 DEF Init, IdsOK, Zeros, Nothing
<1>4. NothingSkipped
  BY DEF Init, NothingSkipped, Nothing
<1>5. PollOK
  BY DEF Init, PollOK, Zeros, Nothing
<1>6. AloneOK
  BY DEF Init, AloneOK
<1>7. CountedOK
  BY <1>1 DEF Init, CountedOK, Nothing, Zeros
<1>8. \A s \in Subscriber : QueueOK(s)
  BY DEF Init, QueueOK
<1> QED
  BY <1>2, <1>3, <1>4, <1>5, <1>6, <1>7, <1>8 DEF PollerInv

-----------------------------------------------------------------------------
\* Frames: what an action that leaves a part of the state alone keeps.
LEMMA QueuesStay ==
    ASSUME PollerInv, UNCHANGED <<ticks, subscriberVars, dropped, resets>>
    PROVE  SubscriberTyped' /\ \A s \in Subscriber : QueueOK(s)'
  BY TypeParts DEF PollerInv, SubscriberTyped, QueueOK, subscriberVars

\* Subscribers come, read and go.
LEMMA MemoryStays ==
    ASSUME PollerInv, UNCHANGED <<streamVars, pollVars, memoryVars, resetVars, overlap, faults>>
    PROVE  /\ StreamTyped' /\ PollTyped' /\ MemoryTyped' /\ ResetTyped'
           /\ overlap' \in BOOLEAN /\ faults' \in Nat
           /\ IdsOK' /\ NothingSkipped' /\ PollOK' /\ AloneOK' /\ CountedOK'
<1> USE DEF PollerInv, streamVars, pollVars, memoryVars, resetVars
<1>1. StreamTyped' /\ PollTyped'
  BY TypeParts DEF StreamTyped, PollTyped
<1>2. MemoryTyped' /\ ResetTyped' /\ overlap' \in BOOLEAN /\ faults' \in Nat
  BY TypeParts DEF MemoryTyped, ResetTyped
<1>3. IdsOK' /\ NothingSkipped'
  BY DEF IdsOK, NothingSkipped
<1>4. PollOK'
  BY DEF PollOK
<1>5. AloneOK' /\ CountedOK'
  BY DEF AloneOK, CountedOK
<1> QED
  BY <1>1, <1>2, <1>3, <1>4, <1>5

LEMMA RegisterKeeps ==
    ASSUME PollerInv, NEW m \in Metric, Register(m)
    PROVE  PollerInv'
<1> USE DEF PollerInv
<1>1. /\ UNCHANGED <<stream, newestId, pollVars, memoryVars, ticks, subscriberVars, dropped>>
      /\ UNCHANGED <<resetVars, overlap, faults>>
      /\ index' = index \union {m} /\ emitting' = emitting \union {m}
  BY DEF Register
<1>2. emitting \subseteq Metric /\ newestId \in Nat
  BY DEF TypeOK
<1>3. newestId' + Cardinality(emitting') <= MaxEvents
  <2>1. IsFiniteSet(emitting) /\ Cardinality(emitting) \in Nat
    BY <1>2, FiniteMetrics
  <2>2. Cardinality(emitting') = Cardinality(emitting) + 1
    BY <1>1, <2>1, FS_AddElement DEF Register
  <2>3. newestId + Cardinality(emitting) < MaxEvents
    BY DEF Register
  <2> QED
    BY <1>1, <1>2, <2>1, <2>2, <2>3
<1>4. TypeOK'
  <2>1. StreamTyped'
    BY <1>1, TypeParts DEF StreamTyped
  <2>2. PollTyped' /\ MemoryTyped' /\ ResetTyped'
    BY <1>1, TypeParts DEF PollTyped, MemoryTyped, ResetTyped, pollVars, memoryVars, resetVars
  <2> QED
    BY <1>1, <2>1, <2>2, TypeParts, TypePartsNext, QueuesStay DEF resetVars
<1>5. IdsOK' /\ NothingSkipped'
  BY <1>1, <1>3 DEF IdsOK, NothingSkipped, resetVars, memoryVars
<1>6. PollOK'
  BY <1>1 DEF PollOK, pollVars, memoryVars, resetVars
<1>7. AloneOK' /\ CountedOK'
  BY <1>1 DEF AloneOK, CountedOK, pollVars, memoryVars, resetVars
<1> QED
  BY <1>1, <1>4, <1>5, <1>6, <1>7, QueuesStay DEF resetVars

\* The new event is newer than every id that the invariant speaks of.
LEMMA AppendEventKeeps ==
    ASSUME PollerInv, NEW m \in Metric, AppendEvent(m)
    PROVE  PollerInv'
<1> USE DEF PollerInv
<1> DEFINE new == newestId + 1
<1>1. /\ UNCHANGED <<index, pollVars, memoryVars, ticks, subscriberVars, dropped>>
      /\ UNCHANGED <<resetVars, overlap, faults>>
      /\ m \in emitting /\ emitting' = emitting \ {m}
      /\ newestId' = new /\ stream' = [stream EXCEPT ![m] = @ \union {new}]
  BY DEF AppendEvent
<1>2. emitting \subseteq Metric /\ newestId \in Nat /\ runStart \in Nat
  BY DEF TypeOK
<1>3. /\ newestId' + Cardinality(emitting') <= MaxEvents
      /\ new <= MaxEvents
  <2>1. IsFiniteSet(emitting) /\ Cardinality(emitting) \in Nat
    BY <1>2, FiniteMetrics
  <2>2. Cardinality(emitting') = Cardinality(emitting) - 1 /\ Cardinality(emitting') \in Nat
    BY <1>1, <1>2, <2>1, FS_RemoveElement, FiniteMetrics
  <2>3. newestId + Cardinality(emitting) <= MaxEvents
    BY DEF IdsOK
  <2> QED
    BY <1>1, <1>2, <2>1, <2>2, <2>3
<1>4. \A k \in Metric : /\ stream[k] \subseteq EventId
                       /\ stream'[k] \subseteq stream[k] \union {new}
  BY <1>1 DEF TypeOK
<1> DEFINE Old(e) == e \in Nat /\ e <= newestId
<1>5. \A k \in Metric :
        /\ Old(last[k])
        /\ \A e \in stream[k] : Old(e)
        /\ \A p \in Poller : Old(cursors[p][k]) /\ \A e \in fetched[p][k] : Old(e)
  BY <1>2 DEF IdsOK, PollOK, TypeOK, EventId
<1>6. \A e : Old(e) => ~(new <= e)
  BY <1>2
<1>7. TypeOK'
  <2>1. StreamTyped'
    <3>1. stream \in [Metric -> SUBSET EventId] /\ new \in EventId
      BY <1>2, <1>3 DEF TypeOK, EventId
    <3>2. stream' \in [Metric -> SUBSET EventId]
      BY <1>1, <3>1
    <3>3. newestId' \in 0 .. MaxEvents
      BY <1>1, <1>2, <1>3
    <3> QED
      BY <1>1, <1>2, <3>2, <3>3 DEF StreamTyped, TypeOK
  <2>2. PollTyped' /\ MemoryTyped' /\ ResetTyped'
    BY <1>1, TypeParts DEF PollTyped, MemoryTyped, ResetTyped, pollVars, memoryVars, resetVars
  <2> QED
    BY <1>1, <2>1, <2>2, TypeParts, TypePartsNext, QueuesStay DEF resetVars
<1>8. IdsOK'
  <2>1. \A k \in Metric : last'[k] <= newestId' /\ \A e \in stream'[k] : e <= newestId'
    BY <1>1, <1>2, <1>4, <1>5 DEF memoryVars
  <2>2. runStart' <= newestId'
    BY <1>1, <1>2 DEF IdsOK, resetVars
  <2> QED
    BY <1>3, <2>1, <2>2 DEF IdsOK
<1> HIDE DEF new
<1>9. NothingSkipped'
  BY <1>1, <1>4, <1>5, <1>6 DEF NothingSkipped, memoryVars, resetVars
<1>10. PollOK'
  <2> SUFFICES ASSUME NEW p \in Poller, NEW k \in Metric
               PROVE  /\ ppc'[p] # "fetch" => fetched'[p] = Nothing
                      /\ cursors'[p][k] <= newestId'
                      /\ \A e \in fetched'[p][k] : e <= newestId'
                      /\ \A e \in stream'[k] : runStart' < e /\ e <= cursors'[p][k] => e \in counted'[k]
                      /\ \A e \in stream'[k], f \in fetched'[p][k] :
                            cursors'[p][k] < e /\ e <= f => e \in fetched'[p][k]
    BY DEF PollOK, Nothing
  <2>1. ppc'[p] # "fetch" => fetched'[p] = Nothing
    BY <1>1 DEF PollOK, pollVars
  <2>2. cursors'[p][k] <= newestId' /\ \A e \in fetched'[p][k] : e <= newestId'
    BY <1>1, <1>2, <1>5 DEF pollVars, new
  <2>3. \A e \in stream'[k] : runStart' < e /\ e <= cursors'[p][k] => e \in counted'[k]
    BY <1>1, <1>4, <1>5, <1>6 DEF PollOK, pollVars, memoryVars, resetVars
  <2>4. \A e \in stream'[k], f \in fetched'[p][k] :
            cursors'[p][k] < e /\ e <= f => e \in fetched'[p][k]
    BY <1>1, <1>4, <1>5, <1>6 DEF PollOK, pollVars
  <2> QED
    BY <2>1, <2>2, <2>3, <2>4
<1>11. \A k \in Metric : stream[k] \subseteq stream'[k]
  BY <1>1 DEF TypeOK
<1>12. AloneOK'
  BY <1>1, <1>11 DEF AloneOK, pollVars, memoryVars, resetVars
<1>13. CountedOK'
  <2>1. \A k \in Metric : { e \in stream'[k] : e <= last'[k] } = { e \in stream[k] : e <= last[k] }
    BY <1>1, <1>4, <1>5, <1>6, <1>11 DEF memoryVars
  <2> QED
    BY <1>1, <2>1 DEF CountedOK, memoryVars, resetVars
<1> QED
  BY <1>1, <1>7, <1>8, <1>9, <1>10, <1>12, <1>13, QueuesStay DEF resetVars

-----------------------------------------------------------------------------
\* A poll that ends takes its cursors and what it has read with it.
LEMMA EndPollKeeps ==
    ASSUME PollerInv, NEW p \in Poller, EndPoll(p),
           UNCHANGED <<streamVars, resetVars, overlap>>,
           \A m \in Metric : counted[m] \subseteq counted'[m],
           last' = last \/ ppc[p] = "fetch"
    PROVE  PollTyped' /\ PollOK' /\ AloneOK'
<1> USE DEF PollerInv, streamVars, resetVars
<1>1. /\ ppc'[p] # "fetch" /\ cursors'[p] = Zeros /\ fetched'[p] = Nothing
      /\ \A q \in Poller : q # p =>
            ppc'[q] = ppc[q] /\ cursors'[q] = cursors[q] /\ fetched'[q] = fetched[q]
  BY TypeParts DEF EndPoll, PollTyped
<1>2. PollTyped'
  <2>1. ppc' \in [Poller -> {"idle", "fetch", "done"}]
    BY TypeParts DEF PollTyped, EndPoll
  <2>2. names' \in [Poller -> SUBSET Metric]
    BY TypeParts DEF PollTyped, EndPoll
  <2>3. cursors' \in [Poller -> [Metric -> 0 .. MaxEvents]]
    <3>1. Zeros \in [Metric -> 0 .. MaxEvents]
      BY DEF Zeros
    <3> QED
      BY <3>1, TypeParts DEF PollTyped, EndPoll
  <2>4. fetched' \in [Poller -> [Metric -> SUBSET EventId]]
    <3>1. Nothing \in [Metric -> SUBSET EventId]
      BY DEF Nothing
    <3> QED
      BY <3>1, TypeParts DEF PollTyped, EndPoll
  <2> QED
    BY <2>1, <2>2, <2>3, <2>4 DEF PollTyped
<1>3. newestId \in Nat /\ runStart \in Nat
  BY DEF TypeOK
<1>4. PollOK'
  <2> SUFFICES ASSUME NEW q \in Poller, NEW m \in Metric
               PROVE  /\ ppc'[q] # "fetch" => fetched'[q] = Nothing
                      /\ cursors'[q][m] <= newestId'
                      /\ \A e \in fetched'[q][m] : e <= newestId'
                      /\ \A e \in stream'[m] : runStart' < e /\ e <= cursors'[q][m] => e \in counted'[m]
                      /\ \A e \in stream'[m], f \in fetched'[q][m] :
                            cursors'[q][m] < e /\ e <= f => e \in fetched'[q][m]
    BY <1>1 DEF PollOK, Nothing
  <2>1. CASE q = p
    <3>1. cursors'[q][m] = 0 /\ fetched'[q][m] = {}
      BY <1>1, <2>1 DEF Zeros, Nothing
    <3>2. \A e \in stream[m] : ~(runStart < e /\ e <= 0)
      BY <1>3 DEF TypeOK, EventId
    <3> QED
      BY <1>1, <1>3, <2>1, <3>1, <3>2
  <2>2. CASE q # p
    BY <1>1, <2>2 DEF PollOK
  <2> QED
    BY <2>1, <2>2
<1>5. AloneOK'
  BY <1>1 DEF AloneOK
<1> QED
  BY <1>2, <1>4, <1>5

LEMMA PollEndsKeeps ==
    ASSUME PollerInv, NEW p \in Poller, EndPoll(p),
           UNCHANGED <<streamVars, memoryVars, ticks, subscriberVars, dropped, resetVars, overlap>>,
           faults' \in Nat
    PROVE  PollerInv'
<1>1. PollTyped' /\ PollOK' /\ AloneOK'
  BY EndPollKeeps DEF memoryVars
<1>2. StreamTyped' /\ MemoryTyped' /\ ResetTyped' /\ overlap' \in BOOLEAN
  BY TypeParts DEF PollerInv, StreamTyped, MemoryTyped, ResetTyped, streamVars, memoryVars, resetVars
<1>3. SubscriberTyped' /\ \A s \in Subscriber : QueueOK(s)'
  BY QueuesStay DEF resetVars
<1>4. IdsOK' /\ NothingSkipped'
  BY DEF PollerInv, IdsOK, NothingSkipped, streamVars, memoryVars, resetVars
<1>5. CountedOK'
  BY DEF PollerInv, CountedOK, streamVars, memoryVars, resetVars
<1> QED
  BY <1>1, <1>2, <1>3, <1>4, <1>5, TypePartsNext DEF PollerInv

\* The cursors a poll starts from are those of the memory.
LEMMA StartPollKeeps ==
    ASSUME PollerInv, NEW p \in Poller, StartPoll(p)
    PROVE  PollerInv'
<1> USE DEF PollerInv
<1>1. /\ ppc[p] = "idle" /\ ppc'[p] = "fetch"
      /\ cursors'[p] = last
      /\ \A q \in Poller : q # p => ppc'[q] = ppc[q] /\ cursors'[q] = cursors[q]
      /\ fetched[p] = Nothing
  BY TypeParts DEF StartPoll, PollTyped, PollOK
<1>2. /\ UNCHANGED <<fetched, streamVars, memoryVars, ticks, subscriberVars, dropped>>
      /\ UNCHANGED <<resetVars, faults>>
      /\ overlap' = (overlap \/ rpc # "idle" \/ \E q \in Poller : ppc[q] = "fetch")
  BY DEF StartPoll
<1>3. TypeOK'
  <2>1. PollTyped'
    <3>1. ppc' \in [Poller -> {"idle", "fetch", "done"}]
      BY TypeParts DEF PollTyped, StartPoll
    <3>2. names' \in [Poller -> SUBSET Metric]
      BY TypeParts DEF PollTyped, StreamTyped, StartPoll
    <3>3. cursors' \in [Poller -> [Metric -> 0 .. MaxEvents]]
      BY TypeParts DEF PollTyped, MemoryTyped, StartPoll
    <3> QED
      BY <1>2, <3>1, <3>2, <3>3, TypeParts DEF PollTyped
  <2>2. StreamTyped' /\ MemoryTyped' /\ ResetTyped' /\ faults' \in Nat
    BY <1>2, TypeParts DEF StreamTyped, MemoryTyped, ResetTyped, streamVars, memoryVars, resetVars
  <2>3. overlap' \in BOOLEAN
    BY <1>2
  <2> QED
    BY <1>2, <2>1, <2>2, <2>3, TypePartsNext, QueuesStay DEF resetVars
<1>4. IdsOK' /\ NothingSkipped'
  BY <1>2 DEF IdsOK, NothingSkipped, streamVars, memoryVars, resetVars
<1>5. PollOK'
  <2> SUFFICES ASSUME NEW q \in Poller, NEW m \in Metric
               PROVE  /\ ppc'[q] # "fetch" => fetched'[q] = Nothing
                      /\ cursors'[q][m] <= newestId'
                      /\ \A e \in fetched'[q][m] : e <= newestId'
                      /\ \A e \in stream'[m] : runStart' < e /\ e <= cursors'[q][m] => e \in counted'[m]
                      /\ \A e \in stream'[m], f \in fetched'[q][m] :
                            cursors'[q][m] < e /\ e <= f => e \in fetched'[q][m]
    BY <1>1, <1>2 DEF PollOK, Nothing
  <2>1. CASE q = p
    <3>1. fetched'[q][m] = {}
      BY <1>1, <1>2, <2>1 DEF Nothing
    <3>2. last[m] <= newestId /\ \A e \in stream[m] : runStart < e /\ e <= last[m] => e \in counted[m]
      BY DEF IdsOK, NothingSkipped
    <3> QED
      BY <1>1, <1>2, <2>1, <3>1, <3>2 DEF streamVars, memoryVars, resetVars
  <2>2. CASE q # p
    BY <1>1, <1>2, <2>2 DEF PollOK, streamVars, memoryVars, resetVars
  <2> QED
    BY <2>1, <2>2
<1>6. overlap' = FALSE => overlap = FALSE /\ rpc = "idle" /\ \A q \in Poller : ppc[q] # "fetch"
  BY <1>2 DEF TypeOK
<1>7. AloneOK'
  BY <1>1, <1>2, <1>6 DEF AloneOK, Nothing, streamVars, memoryVars, resetVars
<1>8. CountedOK'
  BY <1>2, <1>6 DEF CountedOK, streamVars, memoryVars, resetVars
<1> QED
  BY <1>2, <1>3, <1>4, <1>5, <1>7, <1>8, QueuesStay DEF resetVars

\* The answer to a read of stream m, at the cursor of the poll.
LEMMA ReadAnswer ==
    ASSUME PollerInv, NEW p \in Poller, ppc[p] = "fetch", NEW m \in Metric
    PROVE  LET batch == Batch(m, cursors[p][m]) IN
           /\ batch \subseteq EventId
           /\ \A e \in batch : e <= newestId
           /\ \A e \in stream[m], f \in batch : cursors[p][m] < e /\ e <= f => e \in batch
           /\ overlap = FALSE => \A e \in batch : e \in stream[m] /\ last[m] < e
<1> DEFINE batch == Batch(m, cursors[p][m])
<1>1. cursors[p][m] \in 0 .. MaxEvents /\ stream[m] \subseteq EventId
  BY DEF PollerInv, TypeOK
<1>2. /\ batch \subseteq stream[m]
      /\ \A e \in batch : cursors[p][m] < e
      /\ \A e \in stream[m], f \in batch : cursors[p][m] < e /\ e <= f => e \in batch
  BY <1>1, BatchHasNoHole DEF PollerInv
<1> HIDE DEF batch
<1>3. overlap = FALSE => cursors[p][m] = last[m]
  BY DEF PollerInv, AloneOK
<1>4. \A e \in stream[m] : e <= newestId
  BY DEF PollerInv, IdsOK
<1>5. batch \subseteq EventId /\ \A e \in batch : e <= newestId
  BY <1>1, <1>2, <1>4
<1>6. overlap = FALSE => \A e \in batch : e \in stream[m] /\ last[m] < e
  BY <1>2, <1>3
<1> QED
  BY <1>2, <1>5, <1>6 DEF batch

LEMMA FetchMoreKeeps ==
    ASSUME PollerInv, NEW p \in Poller, FetchMore(p)
    PROVE  PollerInv'
<1> USE DEF PollerInv
<1>1. PICK m \in names[p] :
        /\ fetched' = [fetched EXCEPT ![p][m] = Batch(m, cursors[p][m])]
        /\ names' = [names EXCEPT ![p] = @ \ {m}]
  BY DEF FetchMore
<1>2. /\ ppc[p] = "fetch"
      /\ UNCHANGED <<ppc, cursors, streamVars, memoryVars, ticks, subscriberVars, dropped>>
      /\ UNCHANGED <<resetVars, overlap, faults>>
  BY DEF FetchMore
<1>3. m \in Metric
  BY DEF TypeOK
<1> DEFINE batch == Batch(m, cursors[p][m])
<1>4. /\ batch \subseteq EventId
      /\ \A e \in batch : e <= newestId
      /\ \A e \in stream[m], f \in batch : cursors[p][m] < e /\ e <= f => e \in batch
      /\ overlap = FALSE => \A e \in batch : e \in stream[m] /\ last[m] < e
  BY <1>2, <1>3, ReadAnswer
<1>5. fetched' = [fetched EXCEPT ![p][m] = batch]
  BY <1>1
<1> HIDE DEF batch
<1>6. /\ fetched'[p][m] = batch
      /\ \A q \in Poller, k \in Metric : q # p \/ k # m => fetched'[q][k] = fetched[q][k]
      /\ \A q \in Poller : q # p => fetched'[q] = fetched[q]
      /\ fetched' \in [Poller -> [Metric -> SUBSET EventId]]
  BY <1>3, <1>4, <1>5, TypeParts DEF PollTyped
<1>7. TypeOK'
  <2>1. PollTyped'
    <3>1. names' \in [Poller -> SUBSET Metric]
      BY <1>1, TypeParts DEF PollTyped
    <3> QED
      BY <1>2, <1>6, <3>1, TypeParts DEF PollTyped
  <2>2. StreamTyped' /\ MemoryTyped' /\ ResetTyped' /\ faults' \in Nat /\ overlap' \in BOOLEAN
    BY <1>2, TypeParts DEF StreamTyped, MemoryTyped, ResetTyped, streamVars, memoryVars, resetVars
  <2> QED
    BY <1>2, <2>1, <2>2, TypePartsNext, QueuesStay DEF resetVars
<1>8. IdsOK' /\ NothingSkipped'
  BY <1>2 DEF IdsOK, NothingSkipped, streamVars, memoryVars, resetVars
<1>9. PollOK'
  <2> SUFFICES ASSUME NEW q \in Poller, NEW k \in Metric
               PROVE  /\ ppc'[q] # "fetch" => fetched'[q] = Nothing
                      /\ cursors'[q][k] <= newestId'
                      /\ \A e \in fetched'[q][k] : e <= newestId'
                      /\ \A e \in stream'[k] : runStart' < e /\ e <= cursors'[q][k] => e \in counted'[k]
                      /\ \A e \in stream'[k], f \in fetched'[q][k] :
                            cursors'[q][k] < e /\ e <= f => e \in fetched'[q][k]
    BY <1>2, <1>3, <1>6 DEF PollOK, Nothing
  <2>1. ppc'[q] # "fetch" => fetched'[q] = Nothing
    BY <1>2, <1>6 DEF PollOK
  <2>2. CASE q = p /\ k = m
    BY <1>2, <1>4, <1>6, <2>1, <2>2 DEF PollOK, streamVars, memoryVars, resetVars
  <2>3. CASE q # p \/ k # m
    BY <1>2, <1>6, <2>1, <2>3 DEF PollOK, streamVars, memoryVars, resetVars
  <2> QED
    BY <2>2, <2>3
<1>10. AloneOK'
  <2> SUFFICES ASSUME overlap = FALSE, NEW q \in Poller, ppc[q] = "fetch"
               PROVE  /\ rpc = "idle"
                      /\ \A r \in Poller : ppc[r] = "fetch" => r = q
                      /\ cursors[q] = last
                      /\ \A k \in Metric : \A e \in fetched'[q][k] : e \in stream[k] /\ last[k] < e
    BY <1>2 DEF AloneOK, streamVars, memoryVars, resetVars
  <2>1. q = p
    BY <1>2 DEF AloneOK
  <2>2. ASSUME NEW k \in Metric PROVE \A e \in fetched'[q][k] : e \in stream[k] /\ last[k] < e
    BY <1>2, <1>4, <1>6, <2>1 DEF AloneOK
  <2> QED
    BY <2>2 DEF AloneOK
<1>11. CountedOK'
  BY <1>2 DEF CountedOK, streamVars, memoryVars, resetVars
<1> QED
  BY <1>2, <1>7, <1>8, <1>9, <1>10, <1>11, QueuesStay DEF resetVars

\* Ticks that are numbered up to t stay so when one more is sent, or one is read.
LEMMA OneMoreTick ==
    ASSUME NEW q \in Seq(Nat), NEW t \in Nat, \A i \in 1 .. Len(q) : q[i] + Len(q) = t + i
    PROVE  /\ Append(q, t + 1) \in Seq(Nat) /\ Append(q, t + 1) # <<>>
           /\ Len(Append(q, t + 1)) = Len(q) + 1
           /\ \A i \in 1 .. Len(Append(q, t + 1)) :
                Append(q, t + 1)[i] + Len(Append(q, t + 1)) = (t + 1) + i
<1>1. Append(q, t + 1) \in Seq(Nat) /\ Len(Append(q, t + 1)) = Len(q) + 1 /\ Len(q) \in Nat
  OBVIOUS
<1>2. Append(q, t + 1) # <<>>
  BY AppendProperties
<1>3. ASSUME NEW i \in 1 .. Len(q) + 1
      PROVE  Append(q, t + 1)[i] + (Len(q) + 1) = (t + 1) + i
  <2>1. CASE i = Len(q) + 1
    <3>1. Append(q, t + 1)[i] = t + 1
      BY <2>1
    <3> QED
      BY <1>1, <2>1, <3>1
  <2>2. CASE i # Len(q) + 1
    <3>1. i \in 1 .. Len(q) /\ Append(q, t + 1)[i] = q[i] /\ q[i] \in Nat
      BY <1>1, <2>2
    <3>2. q[i] + Len(q) = t + i
      BY <3>1
    <3>3. PICK a \in Nat, n \in Nat : a = q[i] /\ n = Len(q)
      BY <1>1, <3>1
    <3>4. a + n = t + i
      BY <3>2, <3>3
    <3>5. a + (n + 1) = (t + 1) + i
      BY <3>1, <3>4
    <3> QED
      BY <3>1, <3>3, <3>5
  <2> QED
    BY <2>1, <2>2
<1> QED
  BY <1>1, <1>2, <1>3

LEMMA OneTickLess ==
    ASSUME NEW q \in Seq(Nat), NEW t \in Nat, \A i \in 1 .. Len(q) : q[i] + Len(q) = t + i,
           q # <<>>
    PROVE  /\ Tail(q) \in Seq(Nat) /\ Len(Tail(q)) = Len(q) - 1 /\ Len(Tail(q)) \in Nat
           /\ \A i \in 1 .. Len(Tail(q)) : Tail(q)[i] + Len(Tail(q)) = t + i
           /\ Head(q) \in Nat /\ Head(q) + Len(q) = t + 1
<1>1. /\ Tail(q) \in Seq(Nat) /\ Len(Tail(q)) = Len(q) - 1 /\ Len(Tail(q)) \in Nat
      /\ \A i \in 1 .. Len(Tail(q)) : Tail(q)[i] = q[i + 1]
      /\ Len(q) \in Nat
  BY HeadTailProperties, LenProperties
<1>2. ASSUME NEW i \in 1 .. Len(Tail(q)) PROVE Tail(q)[i] + Len(Tail(q)) = t + i
  <2>1. i + 1 \in 1 .. Len(q) /\ Tail(q)[i] = q[i + 1]
    BY <1>1
  <2>2. q[i + 1] \in Nat /\ q[i + 1] + Len(q) = t + (i + 1)
    BY <2>1
  <2>3. PICK a \in Nat, n \in Nat : a = q[i + 1] /\ n = Len(q)
    BY <1>1, <2>2
  <2>4. a + n = t + (i + 1)
    BY <2>2, <2>3
  <2>5. a + (n - 1) = t + i
    BY <1>1, <2>4
  <2> QED
    BY <1>1, <2>1, <2>3, <2>5
<1>3. Head(q) \in Nat /\ Head(q) + Len(q) = t + 1
  <2>1. 1 \in 1 .. Len(q) /\ Head(q) = q[1]
    BY <1>1
  <2>2. q[1] + Len(q) = t + 1
    BY <2>1
  <2>3. Head(q) \in Nat
    BY HeadTailProperties
  <2> QED
    BY <2>1, <2>2, <2>3
<1> QED
  BY <1>1, <1>2, <1>3

\* Every queue ends with the new tick, and a tick that is lost is counted.
LEMMA FanoutKeeps ==
    ASSUME PollerInv, ticks' = ticks + 1, Fanout(ticks + 1), UNCHANGED <<client, view, resets>>
    PROVE  SubscriberTyped' /\ \A s \in Subscriber : QueueOK(s)'
<1> DEFINE full == { s \in Subscriber : client[s] # "off" /\ Len(queue[s]) = QueueLimit }
<1>1. SubscriberTyped
  BY TypeParts DEF PollerInv
<1>2. Cardinality(full) \in Nat /\ (full # {} => Cardinality(full) > 0)
  BY FiniteSubscribers
<1>3. /\ queue' = [s \in Subscriber |->
                    IF client[s] = "off" THEN queue[s]
                    ELSE Append(IF s \in full THEN Tail(queue[s]) ELSE queue[s], ticks + 1)]
      /\ dropped' = dropped + Cardinality(full)
  BY DEF Fanout
<1>4. \A s \in Subscriber : client[s] # "off" /\ Len(queue[s]) = QueueLimit => s \in full
  OBVIOUS
<1>5. \A s \in full : s \in Subscriber /\ client[s] # "off" /\ Len(queue[s]) = QueueLimit
  OBVIOUS
<1> HIDE DEF full
<1>6. ticks \in Nat /\ dropped \in Nat /\ dropped' \in Nat /\ (dropped' = 0 => dropped = 0 /\ full = {})
  BY <1>1, <1>2, <1>3 DEF SubscriberTyped
<1>7. ASSUME NEW s \in Subscriber
      PROVE  queue'[s] \in Seq(Nat) /\ Len(queue'[s]) <= QueueLimit /\ QueueOK(s)'
  <2>1. /\ queue[s] \in Seq(Nat) /\ Len(queue[s]) \in Nat /\ Len(queue[s]) <= QueueLimit
        /\ view[s] \in Nat
    BY <1>1 DEF SubscriberTyped
  <2>2. \A i \in 1 .. Len(queue[s]) : queue[s][i] + Len(queue[s]) = ticks + i
    BY DEF PollerInv, QueueOK
  <2>3. CASE client[s] = "off"
    <3>1. queue'[s] = <<>>
      BY <1>3, <2>3 DEF PollerInv, QueueOK
    <3>2. queue'[s] \in Seq(Nat) /\ Len(queue'[s]) = 0
      BY <3>1
    <3> QED
      BY <2>3, <3>1, <3>2 DEF QueueOK
  <2>4. CASE client[s] # "off" /\ s \notin full
    <3>1. queue'[s] = Append(queue[s], ticks + 1)
      BY <1>3, <2>4
    <3>2. /\ queue'[s] \in Seq(Nat) /\ Len(queue'[s]) = Len(queue[s]) + 1
          /\ queue'[s] # <<>>
          /\ \A i \in 1 .. Len(queue'[s]) : queue'[s][i] + Len(queue'[s]) = (ticks + 1) + i
      <4>1. ticks \in Nat
        BY <1>6
      <4>2. /\ Append(queue[s], ticks + 1) \in Seq(Nat) /\ Append(queue[s], ticks + 1) # <<>>
            /\ Len(Append(queue[s], ticks + 1)) = Len(queue[s]) + 1
            /\ \A i \in 1 .. Len(Append(queue[s], ticks + 1)) :
                 Append(queue[s], ticks + 1)[i] + Len(Append(queue[s], ticks + 1)) = (ticks + 1) + i
        BY ZenonT(40), <2>1, <2>2, <4>1, OneMoreTick
      <4> QED
        BY ZenonT(40), <3>1, <4>2
    <3>3. Len(queue'[s]) <= QueueLimit
      BY <1>4, <2>1, <2>4, <3>2
    <3>4. client[s] = "live" /\ dropped' = 0 /\ resets = 0 => ticks' <= view[s] + Len(queue'[s])
      <4>1. client[s] = "live" /\ dropped' = 0 /\ resets = 0 => ticks <= view[s] + Len(queue[s])
        BY <1>6 DEF PollerInv, QueueOK
      <4> QED
        BY <1>6, <2>1, <3>2, <4>1
    <3> QED
      BY <2>4, <3>2, <3>3, <3>4 DEF QueueOK
  <2>5. CASE s \in full
    <3>1. client[s] # "off" /\ Len(queue[s]) = QueueLimit /\ queue[s] # <<>>
      <4>1. Len(<<>>) = 0
        OBVIOUS
      <4> QED
        BY <1>5, <2>5, <4>1
    <3> DEFINE rest == Tail(queue[s])
    <3>2. /\ rest \in Seq(Nat) /\ Len(rest) = Len(queue[s]) - 1
          /\ \A i \in 1 .. Len(rest) : rest[i] + Len(rest) = ticks + i
      BY <1>6, <2>1, <2>2, <3>1, OneTickLess
    <3>3. queue'[s] = Append(rest, ticks + 1)
      BY <1>3, <2>5, <3>1
    <3> HIDE DEF rest
    <3>4. /\ queue'[s] \in Seq(Nat) /\ Len(queue'[s]) = Len(rest) + 1
          /\ queue'[s] # <<>>
          /\ \A i \in 1 .. Len(queue'[s]) : queue'[s][i] + Len(queue'[s]) = (ticks + 1) + i
      <4>1. ticks \in Nat
        BY <1>6
      <4>2. /\ Append(rest, ticks + 1) \in Seq(Nat) /\ Append(rest, ticks + 1) # <<>>
            /\ Len(Append(rest, ticks + 1)) = Len(rest) + 1
            /\ \A i \in 1 .. Len(Append(rest, ticks + 1)) :
                Append(rest, ticks + 1)[i] + Len(Append(rest, ticks + 1)) = (ticks + 1) + i
        BY <3>2, <4>1, OneMoreTick
      <4> QED
        BY <3>3, <4>2
    <3>5. Len(queue'[s]) <= QueueLimit
      BY <2>1, <3>2, <3>4
    <3>6. dropped' # 0
      BY <1>6, <2>5
    <3> QED
      BY <2>1, <3>1, <3>4, <3>5, <3>6 DEF QueueOK
  <2> QED
    BY <2>3, <2>4, <2>5
<1>8. SubscriberTyped'
  <2>1. queue' \in [Subscriber -> Seq(Nat)]
    BY <1>3, <1>7
  <2>2. UNCHANGED <<client, view>> /\ ticks' \in Nat
    BY <1>6
  <2> QED
    BY <1>1, <1>6, <1>7, <2>1, <2>2 DEF SubscriberTyped
<1> QED
  BY <1>7, <1>8

\* What a poll has of each metric when it applies it.
LEMMA FetchedAnswer ==
    ASSUME PollerInv, NEW p \in Poller, ppc[p] = "fetch", NEW m \in Metric
    PROVE  LET batch == Fetched(p)[m] IN
           /\ batch \subseteq EventId
           /\ \A e \in batch : e <= newestId
           /\ \A e \in stream[m], f \in batch : cursors[p][m] < e /\ e <= f => e \in batch
           /\ overlap = FALSE => \A e \in batch : e \in stream[m] /\ last[m] < e
<1>1. CASE m \in names[p]
  <2>1. Fetched(p)[m] = Batch(m, cursors[p][m])
    BY <1>1 DEF Fetched
  <2> QED
    BY <2>1, ReadAnswer
<1>2. CASE m \notin names[p]
  <2>1. Fetched(p)[m] = fetched[p][m]
    BY <1>2 DEF Fetched
  <2>2. fetched[p][m] \subseteq EventId
    BY DEF PollerInv, TypeOK
  <2>3. /\ \A e \in fetched[p][m] : e <= newestId
        /\ \A e \in stream[m], f \in fetched[p][m] :
                cursors[p][m] < e /\ e <= f => e \in fetched[p][m]
    BY DEF PollerInv, PollOK
  <2>4. overlap = FALSE => \A e \in fetched[p][m] : e \in stream[m] /\ last[m] < e
    BY DEF PollerInv, AloneOK
  <2> QED
    BY <2>1, <2>2, <2>3, <2>4
<1> QED
  BY <1>1, <1>2

LEMMA ApplyKeeps ==
    ASSUME PollerInv, NEW p \in Poller, Apply(p)
    PROVE  PollerInv'
<1> USE DEF PollerInv
<1> DEFINE F == Fetched(p)
<1>1. /\ ppc[p] = "fetch"
      /\ \A m \in Metric :
            /\ last'[m] = IF F[m] = {} THEN last[m] ELSE Max(F[m])
            /\ counted'[m] = counted[m] \union F[m]
            /\ total'[m] = total[m] + Cardinality(F[m])
      /\ ticks' = ticks + 1 /\ Fanout(ticks + 1) /\ EndPoll(p)
      /\ UNCHANGED <<streamVars, client, view, resetVars, overlap, faults>>
  BY DEF Apply, CursorAfter
<1>2. /\ last' = [m \in Metric |-> last'[m]] /\ counted' = [m \in Metric |-> counted'[m]]
      /\ total' = [m \in Metric |-> total'[m]] /\ backlog' \subseteq Metric
  BY DEF Apply
<1>3. \A m \in Metric :
        /\ F[m] \subseteq EventId
        /\ \A e \in F[m] : e <= newestId
        /\ \A e \in stream[m], f \in F[m] : cursors[p][m] < e /\ e <= f => e \in F[m]
        /\ overlap = FALSE => \A e \in F[m] : e \in stream[m] /\ last[m] < e
  BY <1>1, FetchedAnswer
<1> HIDE DEF F
<1>4. \A m \in Metric :
        \/ F[m] = {} /\ last'[m] = last[m]
        \/ last'[m] \in F[m] /\ \A e \in F[m] : e <= last'[m]
  BY <1>1, <1>3, MaxOfIds
<1>5. \A m \in Metric : /\ last[m] \in 0 .. MaxEvents /\ counted[m] \subseteq EventId
                       /\ total[m] \in Nat /\ stream[m] \subseteq EventId
                       /\ cursors[p][m] \in 0 .. MaxEvents
  BY DEF TypeOK
<1>6. PollTyped' /\ PollOK' /\ AloneOK'
  BY <1>1, EndPollKeeps
<1>7. SubscriberTyped' /\ \A s \in Subscriber : QueueOK(s)'
  BY <1>1, FanoutKeeps DEF resetVars
<1>8. MemoryTyped'
  <2>1. \A m \in Metric : last'[m] \in 0 .. MaxEvents
    BY <1>3, <1>4, <1>5 DEF EventId
  <2>2. \A m \in Metric : counted'[m] \subseteq EventId
    BY <1>1, <1>3, <1>5
  <2>3. \A m \in Metric : total'[m] \in Nat
    <3> SUFFICES ASSUME NEW m \in Metric PROVE total'[m] \in Nat
      OBVIOUS
    <3>1. Cardinality(F[m]) \in Nat
      BY <1>3, FiniteStreams
    <3> QED
      BY <1>1, <1>5, <3>1
  <2>4. last' \in [Metric -> 0 .. MaxEvents]
    BY <1>2, <2>1
  <2>5. counted' \in [Metric -> SUBSET EventId]
    BY <1>2, <2>2
  <2>6. total' \in [Metric -> Nat]
    BY <1>2, <2>3
  <2> QED
    BY <1>2, <2>4, <2>5, <2>6 DEF MemoryTyped
<1>9. StreamTyped' /\ ResetTyped' /\ overlap' \in BOOLEAN /\ faults' \in Nat
  BY <1>1, TypeParts DEF StreamTyped, ResetTyped, streamVars, resetVars
<1>10. IdsOK'
  <2>1. \A m \in Metric : last'[m] <= newestId
    BY <1>3, <1>4 DEF IdsOK
  <2> QED
    BY <1>1, <2>1 DEF IdsOK, streamVars, resetVars
<1>11. NothingSkipped'
  <2> SUFFICES ASSUME NEW m \in Metric, NEW e \in stream[m], runStart < e, e <= last'[m]
               PROVE  e \in counted'[m]
    BY <1>1 DEF NothingSkipped, streamVars, resetVars
  <2>1. CASE F[m] = {} /\ last'[m] = last[m]
    BY <1>1, <2>1 DEF NothingSkipped
  <2>2. CASE last'[m] \in F[m]
    <3>1. CASE cursors[p][m] < e
      BY <1>1, <1>3, <2>2, <3>1
    <3>2. CASE e <= cursors[p][m]
      BY <1>1, <3>2 DEF PollOK
    <3>3. e \in Nat /\ cursors[p][m] \in Nat
      BY <1>5 DEF EventId
    <3> QED
      BY <3>1, <3>2, <3>3
  <2> QED
    BY <1>4, <2>1, <2>2
<1>12. CountedOK'
  <2> SUFFICES ASSUME overlap = FALSE, NEW m \in Metric
               PROVE  /\ counted'[m] = { e \in stream[m] : e <= last'[m] }
                      /\ total'[m] = Cardinality(counted'[m])
    BY <1>1 DEF CountedOK, streamVars, resetVars
  <2>0. /\ last[m] \in Nat /\ total[m] \in Nat
        /\ \A e \in stream[m] : e \in Nat
    <3>1. stream[m] \subseteq EventId /\ last[m] \in 0 .. MaxEvents /\ total[m] \in Nat
      BY <1>5
    <3> QED
      BY <3>1 DEF EventId
  <2>1. rpc = "idle" /\ cursors[p][m] = last[m]
    BY <1>1 DEF AloneOK
  <2>2. counted[m] = { e \in stream[m] : e <= last[m] } /\ total[m] = Cardinality(counted[m])
    BY <2>1 DEF CountedOK
  <2>3. \A e \in F[m] : e \in stream[m] /\ last[m] < e
    BY <1>3
  <2>4. counted'[m] = { e \in stream[m] : e <= last'[m] }
    <3>1. CASE F[m] = {} /\ last'[m] = last[m]
      BY <1>1, <2>2, <3>1
    <3>2. CASE last'[m] \in F[m] /\ \A e \in F[m] : e <= last'[m]
      <4>1. last[m] < last'[m] /\ last[m] \in Nat /\ last'[m] \in Nat
        BY <2>0, <2>3, <3>2
      <4>3. \A e \in stream[m] : last[m] < e /\ e <= last'[m] => e \in F[m]
        BY <1>3, <2>1, <3>2
      <4>4. ASSUME NEW e \in stream[m]
            PROVE  e <= last'[m] <=> e <= last[m] \/ e \in F[m]
        <5>1. e \in Nat
          BY <2>0
        <5>2. e <= last[m] => e <= last'[m]
          BY <4>1, <5>1
        <5>3. e <= last'[m] /\ ~(e <= last[m]) => e \in F[m]
          BY <4>1, <4>3, <5>1
        <5> QED
          BY <3>2, <5>2, <5>3
      <4> QED
        BY <1>1, <2>2, <2>3, <4>4
    <3> QED
      BY <1>4, <3>1, <3>2
  <2>5. total'[m] = Cardinality(counted'[m])
    <3>1. counted[m] \intersect F[m] = {}
      <4> SUFFICES ASSUME NEW e \in counted[m], e \in F[m] PROVE FALSE
        OBVIOUS
      <4>1. e \in Nat /\ e <= last[m] /\ last[m] < e
        BY <2>0, <2>2, <2>3
      <4> QED
        BY <2>0, <4>1
    <3>2. /\ IsFiniteSet(counted[m]) /\ Cardinality(counted[m]) \in Nat
          /\ IsFiniteSet(F[m]) /\ Cardinality(F[m]) \in Nat
      BY <1>3, <1>5, FiniteStreams
    <3>3. Cardinality(counted[m] \union F[m]) = Cardinality(counted[m]) + Cardinality(F[m])
      <4>1. Cardinality(counted[m] \union F[m]) =
              Cardinality(counted[m]) + Cardinality(F[m]) - Cardinality({})
        BY <3>1, <3>2, FS_Union
      <4>2. Cardinality({}) = 0
        BY FS_EmptySet
      <4> QED
        BY <3>2, <4>1, <4>2
    <3>4. total'[m] = total[m] + Cardinality(F[m]) /\ counted'[m] = counted[m] \union F[m]
      BY <1>1
    <3> QED
      BY <2>2, <3>3, <3>4
  <2> QED
    BY <2>4, <2>5
<1> QED
  BY <1>6, <1>7, <1>8, <1>9, <1>10, <1>11, <1>12, TypePartsNext

-----------------------------------------------------------------------------
\* A reset that starts is alone, or overlap says otherwise.
LEMMA ResetScanKeeps ==
    ASSUME PollerInv, ResetScan
    PROVE  PollerInv'
<1> USE DEF PollerInv
<1>1. /\ UNCHANGED <<resets, runStart, streamVars, pollVars, memoryVars, ticks>>
      /\ UNCHANGED <<subscriberVars, dropped, faults>>
      /\ rpc = "idle" /\ rpc' = "delete" /\ doomed' \subseteq Metric
      /\ overlap' = (overlap \/ \E p \in Poller : ppc[p] = "fetch")
  BY DEF ResetScan
<1>2. overlap' \in BOOLEAN
      /\ (overlap' = FALSE => overlap = FALSE /\ \A p \in Poller : ppc[p] # "fetch")
  BY <1>1 DEF TypeOK
<1>3. StreamTyped' /\ PollTyped' /\ MemoryTyped' /\ ResetTyped' /\ faults' \in Nat
  <2>1. StreamTyped' /\ MemoryTyped' /\ faults' \in Nat
    BY <1>1, TypeParts DEF StreamTyped, MemoryTyped, streamVars, memoryVars
  <2>2. PollTyped' /\ ResetTyped'
    BY <1>1, TypeParts DEF PollTyped, ResetTyped, pollVars
  <2> QED
    BY <2>1, <2>2
<1>4. IdsOK' /\ NothingSkipped'
  BY <1>1 DEF IdsOK, NothingSkipped, streamVars, memoryVars
<1>5. PollOK'
  BY <1>1 DEF PollOK, streamVars, pollVars, memoryVars
<1>6. AloneOK'
  BY <1>1, <1>2 DEF AloneOK, pollVars
<1>7. CountedOK'
  BY <1>1, <1>2 DEF CountedOK, streamVars, memoryVars
<1> QED
  BY <1>1, <1>2, <1>3, <1>4, <1>5, <1>6, <1>7, QueuesStay, TypePartsNext

LEMMA ResetDeleteKeeps ==
    ASSUME PollerInv, ResetDelete
    PROVE  PollerInv'
<1> USE DEF PollerInv
<1>1. /\ UNCHANGED <<newestId, emitting, doomed, resets, runStart, pollVars, memoryVars>>
      /\ UNCHANGED <<ticks, subscriberVars, dropped, overlap, faults>>
      /\ rpc = "delete" /\ rpc' = "forget" /\ index' = {}
      /\ stream' = [m \in Metric |-> IF m \in doomed THEN {} ELSE stream[m]]
  BY DEF ResetDelete
<1>2. \A m \in Metric : stream'[m] \subseteq stream[m]
  BY <1>1
<1>3. StreamTyped' /\ PollTyped' /\ MemoryTyped' /\ ResetTyped' /\ faults' \in Nat
      /\ overlap' \in BOOLEAN
  <2>1. StreamTyped'
    BY <1>1, TypeParts DEF StreamTyped
  <2>2. PollTyped' /\ MemoryTyped'
    BY <1>1, TypeParts DEF PollTyped, MemoryTyped, pollVars, memoryVars
  <2>3. ResetTyped' /\ faults' \in Nat /\ overlap' \in BOOLEAN
    BY <1>1, TypeParts DEF ResetTyped
  <2> QED
    BY <2>1, <2>2, <2>3
<1>4. IdsOK' /\ NothingSkipped'
  BY <1>1, <1>2 DEF IdsOK, NothingSkipped, memoryVars
<1>5. PollOK'
  <2> SUFFICES ASSUME NEW q \in Poller, NEW m \in Metric
               PROVE  /\ ppc'[q] # "fetch" => fetched'[q] = Nothing
                      /\ cursors'[q][m] <= newestId'
                      /\ \A e \in fetched'[q][m] : e <= newestId'
                      /\ \A e \in stream'[m] : runStart' < e /\ e <= cursors'[q][m] => e \in counted'[m]
                      /\ \A e \in stream'[m], f \in fetched'[q][m] :
                            cursors'[q][m] < e /\ e <= f => e \in fetched'[q][m]
    BY <1>1 DEF PollOK, Nothing, pollVars
  <2> QED
    BY <1>1, <1>2 DEF PollOK, pollVars, memoryVars
<1>6. AloneOK'
  BY <1>1 DEF AloneOK, pollVars
<1>7. CountedOK'
  BY <1>1 DEF CountedOK
<1> QED
  BY <1>1, <1>3, <1>4, <1>5, <1>6, <1>7, QueuesStay, TypePartsNext

\* The new test begins after the newest event, so nothing before it is missed.
LEMMA ResetForgetKeeps ==
    ASSUME PollerInv, ResetForget
    PROVE  PollerInv'
<1> USE DEF PollerInv
<1>1. /\ UNCHANGED <<streamVars, pollVars, ticks, subscriberVars, overlap, faults>>
      /\ rpc = "forget" /\ rpc' = "idle" /\ doomed' = {}
      /\ last' = Zeros /\ counted' = Nothing /\ total' = Zeros /\ backlog' = {}
      /\ dropped' = 0 /\ resets' = resets + 1 /\ runStart' = newestId
  BY DEF ResetForget, ForgetMetrics
<1>2. newestId \in 0 .. MaxEvents /\ newestId \in Nat /\ resets \in Nat
  BY DEF TypeOK
<1>3. \A m \in Metric : \A e \in stream[m] : e \in Nat /\ 0 < e /\ e <= newestId
  BY DEF IdsOK, TypeOK, EventId
<1>4. StreamTyped' /\ PollTyped' /\ MemoryTyped' /\ ResetTyped' /\ faults' \in Nat
      /\ overlap' \in BOOLEAN
  <2>1. StreamTyped' /\ PollTyped'
    BY <1>1, TypeParts DEF StreamTyped, PollTyped, streamVars, pollVars
  <2>2. MemoryTyped'
    BY <1>1 DEF MemoryTyped, Zeros, Nothing
  <2>3. ResetTyped' /\ faults' \in Nat /\ overlap' \in BOOLEAN
    BY <1>1, <1>2, TypeParts DEF ResetTyped
  <2> QED
    BY <2>1, <2>2, <2>3
<1>5. SubscriberTyped'
  BY <1>1, TypeParts DEF SubscriberTyped, subscriberVars
<1>6. ASSUME NEW s \in Subscriber PROVE QueueOK(s)'
  <2>1. resets' # 0
    BY <1>1, <1>2
  <2> QED
    BY <1>1, <2>1 DEF QueueOK, subscriberVars
<1>7. IdsOK'
  BY <1>1, <1>2 DEF IdsOK, Zeros, streamVars
<1>8. NothingSkipped'
  BY <1>1, <1>2, <1>3 DEF NothingSkipped, streamVars
<1>9. PollOK'
  <2> SUFFICES ASSUME NEW q \in Poller, NEW m \in Metric
               PROVE  /\ ppc'[q] # "fetch" => fetched'[q] = Nothing
                      /\ cursors'[q][m] <= newestId'
                      /\ \A e \in fetched'[q][m] : e <= newestId'
                      /\ \A e \in stream'[m] : runStart' < e /\ e <= cursors'[q][m] => e \in counted'[m]
                      /\ \A e \in stream'[m], f \in fetched'[q][m] :
                            cursors'[q][m] < e /\ e <= f => e \in fetched'[q][m]
    BY <1>1 DEF PollOK, Nothing, pollVars
  <2>1. \A e \in stream[m] : ~(runStart' < e)
    BY <1>1, <1>2, <1>3
  <2> QED
    BY <1>1, <2>1 DEF PollOK, streamVars, pollVars
<1>10. AloneOK'
  BY <1>1 DEF AloneOK, pollVars
<1>11. CountedOK'
  <2>1. ASSUME NEW m \in Metric
        PROVE  counted'[m] = { e \in stream'[m] : e <= last'[m] } /\ total'[m] = Cardinality(counted'[m])
    <3>1. \A e \in stream'[m] : ~(e <= last'[m])
      BY <1>1, <1>3 DEF Zeros, streamVars
    <3> QED
      BY <1>1, <3>1, FS_EmptySet DEF Zeros, Nothing
  <2> QED
    BY <2>1 DEF CountedOK
<1> QED
  BY <1>4, <1>5, <1>6, <1>7, <1>8, <1>9, <1>10, <1>11, TypePartsNext

-----------------------------------------------------------------------------
LEMMA SubscriberKeeps ==
    ASSUME PollerInv, NEW s \in Subscriber,
           Subscribe(s) \/ SendSnapshot(s) \/ SendTick(s) \/ Unsubscribe(s)
    PROVE  PollerInv'
<1> USE DEF PollerInv
<1>1. UNCHANGED <<streamVars, pollVars, memoryVars, ticks, dropped, resetVars, overlap, faults>>
  BY DEF Subscribe, SendSnapshot, SendTick, Unsubscribe
<1>2. SubscriberTyped
  BY TypeParts
<1>3. ticks \in Nat /\ queue[s] \in Seq(Nat) /\ view[s] \in Nat /\ Len(queue[s]) \in Nat
  BY <1>2 DEF SubscriberTyped
<1>4. \A i \in 1 .. Len(queue[s]) : queue[s][i] + Len(queue[s]) = ticks + i
  BY DEF QueueOK
<1>5. \A r \in Subscriber : r # s =>
        client'[r] = client[r] /\ queue'[r] = queue[r] /\ view'[r] = view[r]
  BY <1>2 DEF SubscriberTyped, Subscribe, SendSnapshot, SendTick, Unsubscribe
<1>6. CASE Subscribe(s) \/ SendSnapshot(s)
  <2>1. /\ queue' = queue /\ client' \in [Subscriber -> {"off", "snapshot", "live"}]
        /\ view' \in [Subscriber -> Nat]
        /\ client'[s] # "off" /\ (client'[s] = "live" => view'[s] = ticks)
    BY <1>2, <1>6 DEF SubscriberTyped, Subscribe, SendSnapshot
  <2>2. QueueOK(s)'
    <3>1. ticks <= ticks + Len(queue[s])
      BY <1>3
    <3> QED
      BY <1>1, <1>4, <2>1, <3>1 DEF QueueOK
  <2> QED
    BY <1>1, <1>2, <1>5, <2>1, <2>2, TypePartsNext, MemoryStays DEF SubscriberTyped, QueueOK, resetVars
<1>7. CASE SendTick(s)
  <2>1. /\ client[s] = "live" /\ queue[s] # <<>> /\ client' = client
        /\ view' = [view EXCEPT ![s] = Head(queue[s])]
        /\ queue' = [queue EXCEPT ![s] = Tail(@)]
    BY <1>7 DEF SendTick
  <2>2. /\ Tail(queue[s]) \in Seq(Nat) /\ Len(Tail(queue[s])) = Len(queue[s]) - 1
        /\ Len(Tail(queue[s])) \in Nat
        /\ \A i \in 1 .. Len(Tail(queue[s])) :
                Tail(queue[s])[i] + Len(Tail(queue[s])) = ticks + i
        /\ Head(queue[s]) \in Nat /\ Head(queue[s]) + Len(queue[s]) = ticks + 1
    BY <1>3, <1>4, <2>1, OneTickLess
  <2>3. queue'[s] = Tail(queue[s]) /\ view'[s] = Head(queue[s])
    BY <1>2, <2>1 DEF SubscriberTyped
  <2>4. view'[s] \in Nat /\ view'[s] + Len(queue'[s]) = ticks
    <3>1. PICK h \in Nat, n \in Nat, t \in Nat :
            h = Head(queue[s]) /\ n = Len(queue[s]) /\ t = ticks
      BY <1>3, <2>2
    <3>2. h + n = t + 1
      BY <2>2, <3>1
    <3>3. h + (n - 1) = t
      BY <3>2
    <3> QED
      BY <2>2, <2>3, <3>1, <3>3
  <2>5. queue'[s] = <<>> => view'[s] = ticks
    <3>1. Len(<<>>) = 0
      OBVIOUS
    <3>2. queue'[s] = <<>> => Len(queue'[s]) = 0
      BY <3>1
    <3> QED
      BY <1>3, <2>4, <3>2
  <2>6. QueueOK(s)'
    <3>1. \A i \in 1 .. Len(queue'[s]) : queue'[s][i] + Len(queue'[s]) = ticks + i
      BY <2>2, <2>3
    <3>2. ticks <= view'[s] + Len(queue'[s])
      BY <1>3, <2>4
    <3> QED
      BY <1>1, <2>1, <2>5, <3>1, <3>2 DEF QueueOK
  <2>7. SubscriberTyped'
    <3>1. queue' \in [Subscriber -> Seq(Nat)] /\ view' \in [Subscriber -> Nat]
      BY <1>2, <2>1, <2>2 DEF SubscriberTyped
    <3>2. \A r \in Subscriber : Len(queue'[r]) <= QueueLimit
      <4>1. Len(queue'[s]) <= QueueLimit
        BY <1>2, <1>3, <2>2, <2>3 DEF SubscriberTyped
      <4> QED
        BY <1>2, <1>5, <4>1 DEF SubscriberTyped
    <3> QED
      BY <1>1, <1>2, <2>1, <3>1, <3>2 DEF SubscriberTyped
  <2> QED
    BY <1>1, <1>5, <2>6, <2>7, TypePartsNext, MemoryStays DEF QueueOK, resetVars
<1>8. CASE Unsubscribe(s)
  <2>1. client'[s] = "off" /\ queue'[s] = <<>> /\ view'[s] = 0
    BY <1>2, <1>8 DEF SubscriberTyped, Unsubscribe
  <2>2. Len(queue'[s]) = 0
    BY <2>1
  <2>3. QueueOK(s)'
    BY <2>1, <2>2 DEF QueueOK
  <2>4. SubscriberTyped'
    <3>1. /\ client' \in [Subscriber -> {"off", "snapshot", "live"}]
          /\ queue' \in [Subscriber -> Seq(Nat)] /\ view' \in [Subscriber -> Nat]
      BY <1>2, <1>8 DEF SubscriberTyped, Unsubscribe
    <3>2. \A r \in Subscriber : Len(queue'[r]) <= QueueLimit
      BY <1>2, <1>5, <2>2 DEF SubscriberTyped
    <3> QED
      BY <1>1, <1>2, <3>1, <3>2 DEF SubscriberTyped
  <2> QED
    BY <1>1, <1>5, <2>3, <2>4, TypePartsNext, MemoryStays DEF QueueOK, resetVars
<1> QED
  BY <1>6, <1>7, <1>8

-----------------------------------------------------------------------------
(***************************************************************************)
(* The inductive invariant: cursors, what was read and what was counted    *)
(* agree on the events up to the cursor, for every poll that is under way  *)
(* and for the memory; and a subscriber's queue holds the newest ticks.    *)
(***************************************************************************)
THEOREM PollerInvariant == Spec => []PollerInv
<1>1. ASSUME PollerInv, [Next]_vars PROVE PollerInv'
  <2>1. CASE \E m \in Metric : Register(m) \/ AppendEvent(m)
    BY <1>1, <2>1, RegisterKeeps, AppendEventKeeps
  <2>2. CASE \E p \in Poller : Poll(p)
    <3>1. ASSUME NEW p \in Poller, FoundNothing(p) PROVE PollerInv'
      BY <1>1, <3>1, PollEndsKeeps DEF FoundNothing, PollerInv, TypeOK
    <3> QED
      BY <1>1, <2>2, <3>1, StartPollKeeps, FetchMoreKeeps, ApplyKeeps DEF Poll
  <2>3. CASE RefreshFindsNoMetric
    <3>1. "refresh" \in Poller
      BY DEF Poller
    <3> QED
      BY <1>1, <2>3, <3>1, PollEndsKeeps DEF RefreshFindsNoMetric, PollerInv, TypeOK
  <2>4. CASE PollFails
    <3>1. "loop" \in Poller
      BY DEF Poller
    <3>2. faults' \in Nat
      BY <1>1, <2>4 DEF PollFails, PollerInv, TypeOK
    <3> QED
      BY <1>1, <2>4, <3>1, <3>2, PollEndsKeeps DEF PollFails
  <2>5. CASE ResetScan \/ ResetDelete \/ ResetForget
    BY <1>1, <2>5, ResetScanKeeps, ResetDeleteKeeps, ResetForgetKeeps
  <2>6. CASE \E s \in Subscriber :
                Subscribe(s) \/ SendSnapshot(s) \/ SendTick(s) \/ Unsubscribe(s)
    BY <1>1, <2>6, SubscriberKeeps
  <2>7. CASE UNCHANGED vars
    BY <1>1, <2>7, MemoryStays, QueuesStay, TypePartsNext DEF vars, PollerInv, resetVars
  <2> QED
    BY <1>1, <2>1, <2>2, <2>3, <2>4, <2>5, <2>6, <2>7 DEF Next
<1> QED
  BY <1>1, InitPoller, PTL DEF Spec

(***************************************************************************)
(* No event of the current test is jumped over, however the two polls and  *)
(* a reset overlap; and without such an overlap _apply_events_locked has   *)
(* counted exactly the events up to last_event_id, each once.              *)
(***************************************************************************)
THEOREM EventsAreCounted == Spec => []EventsCountOnce
<1>1. PollerInv => EventsCountOnce
  BY DEF PollerInv, EventsCountOnce, CountedOK, CountedOnce, TypeOK
<1> QED
  BY <1>1, PollerInvariant, PTL

(***************************************************************************)
(* A client that has read its queue empty shows the newest tick, and one   *)
(* that will jump over ticks has its loss in dropped_subscriber_messages,  *)
(* for any queue limit and however reads and fan-outs interleave.          *)
(***************************************************************************)
THEOREM SubscribersCatchUp == Spec => []ClientsCatchUp
<1>1. ASSUME PollerInv PROVE ClientsCatchUp
  <2>1. ASSUME NEW s \in Subscriber, client[s] = "live", queue[s] # <<>>, Head(queue[s]) > view[s] + 1
        PROVE  dropped > 0 \/ resets > 0
    <3>1. /\ queue[s] \in Seq(Nat) /\ Len(queue[s]) \in Nat /\ view[s] \in Nat /\ ticks \in Nat
          /\ dropped \in Nat /\ resets \in Nat
      BY <1>1 DEF PollerInv, TypeOK
    <3>2. Head(queue[s]) \in Nat /\ Head(queue[s]) + Len(queue[s]) = ticks + 1
      BY <1>1, <2>1, <3>1, OneTickLess DEF PollerInv, QueueOK
    <3>3. dropped = 0 /\ resets = 0 => ticks <= view[s] + Len(queue[s])
      BY <1>1, <2>1 DEF PollerInv, QueueOK
    <3> QED
      BY <2>1, <3>1, <3>2, <3>3
  <2> QED
    BY <1>1, <2>1 DEF ClientsCatchUp, GapsAreReported, PollerInv, QueueOK
<1> QED
  BY <1>1, PollerInvariant, PTL
=============================================================================
