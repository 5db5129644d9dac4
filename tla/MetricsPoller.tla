---------------------------- MODULE MetricsPoller ----------------------------
(***************************************************************************)
(* The orchestrator's MetricsService: a loop that reads new events of      *)
(* every metric stream into memory and sends a tick to each subscriber,    *)
(* the extra poll of the start-up, and the reset that start_test makes.    *)
(* What the code does under its lock has no await inside and is one step;  *)
(* the calls of Redis before it are steps of their own.                    *)
(***************************************************************************)
EXTENDS Naturals, Sequences, FiniteSetsExt

CONSTANTS
    Metric,      \* metric ids; numbers stand for their sorted order
    Subscriber,  \* websocket clients
    PollLimit,   \* max_events_per_metric_per_poll
    QueueLimit,  \* max_subscriber_queue
    MaxEvents,   \* bound: events emitted
    MaxResets,   \* bound: tests started
    MaxFaults    \* bound: polls that fail

ASSUME MetricsPollerAssumption ==
    /\ Metric \subseteq Nat /\ IsFiniteSet(Metric) /\ IsFiniteSet(Subscriber)
    /\ PollLimit \in Nat \ {0} /\ QueueLimit \in Nat \ {0}
    /\ MaxEvents \in Nat /\ MaxResets \in Nat /\ MaxFaults \in Nat

EventId == 1 .. MaxEvents    \* ids grow with time over all the streams
Poller  == {"loop", "refresh"}

VARIABLES
    index,       \* SET metrics
    stream,      \* metric:{m}: the ids of its events
    newestId,    \* the id given out last
    emitting,    \* metrics an emitter has registered and not appended to yet
    ppc,         \* where each poller is: "idle", "fetch", or "done"
    names,       \* metrics it has not read yet
    cursors,     \* last_event_id of each metric when it started
    fetched,     \* the events it has read
    last,        \* _MetricState.last_event_id, 0 for None
    counted,     \* _MetricState.recent_events, which is larger than MaxEvents
    total,       \* _MetricState.total_requests
    backlog,     \* _metrics_with_backlog
    ticks,       \* ticks sent so far: the number of the newest one
    client,      \* a subscriber is "off", waits for its "snapshot", or is "live"
    queue,       \* the ticks queued for it
    view,        \* the tick its display corresponds to
    dropped,     \* _dropped_subscriber_messages
    rpc,         \* where the reset is
    doomed,      \* the streams its SCAN has found
    resets,      \* resets so far
    runStart,    \* history: newestId when the last reset was done
    overlap,     \* history: two polls, or a poll and a reset, ran at once
    faults       \* how much of MaxFaults is used up

streamVars     == <<index, stream, newestId, emitting>>
pollVars       == <<ppc, names, cursors, fetched>>
memoryVars     == <<last, counted, total, backlog>>
subscriberVars == <<client, queue, view>>
resetVars      == <<rpc, doomed, resets, runStart>>
vars == <<streamVars, pollVars, memoryVars, ticks, subscriberVars, dropped,
          resetVars, overlap, faults>>

TypeOK ==
    /\ index \subseteq Metric /\ emitting \subseteq Metric
    /\ stream \in [Metric -> SUBSET EventId]
    /\ newestId \in 0 .. MaxEvents
    /\ ppc \in [Poller -> {"idle", "fetch", "done"}]
    /\ names \in [Poller -> SUBSET Metric]
    /\ cursors \in [Poller -> [Metric -> 0 .. MaxEvents]]
    /\ fetched \in [Poller -> [Metric -> SUBSET EventId]]
    /\ last \in [Metric -> 0 .. MaxEvents]
    /\ counted \in [Metric -> SUBSET EventId]
    /\ total \in [Metric -> Nat]
    /\ backlog \subseteq Metric
    /\ ticks \in Nat
    /\ client \in [Subscriber -> {"off", "snapshot", "live"}]
    /\ queue \in [Subscriber -> Seq(Nat)]
    /\ \A s \in Subscriber : Len(queue[s]) <= QueueLimit
    /\ view \in [Subscriber -> Nat]
    /\ dropped \in Nat
    /\ rpc \in {"idle", "delete", "forget"}
    /\ doomed \subseteq Metric
    /\ resets \in Nat /\ runStart \in 0 .. MaxEvents
    /\ overlap \in BOOLEAN /\ faults \in Nat

Nothing == [m \in Metric |-> {}]
Zeros   == [m \in Metric |-> 0]

\* start() has created the task of the loop, refresh_now is about to poll.
Init ==
    /\ index = {} /\ emitting = {} /\ stream = Nothing /\ newestId = 0
    /\ ppc = [p \in Poller |-> "idle"]
    /\ names = [p \in Poller |-> {}]
    /\ cursors = [p \in Poller |-> Zeros]
    /\ fetched = [p \in Poller |-> Nothing]
    /\ last = Zeros /\ counted = Nothing /\ total = Zeros /\ backlog = {}
    /\ ticks = 0 /\ dropped = 0
    /\ client = [s \in Subscriber |-> "off"]
    /\ queue = [s \in Subscriber |-> <<>>]
    /\ view = [s \in Subscriber |-> 0]
    /\ rpc = "idle" /\ doomed = {} /\ resets = 0 /\ runStart = 0
    /\ overlap = FALSE /\ faults = 0

-----------------------------------------------------------------------------
\* append_metric_event on a worker: SADD metrics, then XADD

Register(m) ==
    /\ m \notin emitting
    /\ newestId + Cardinality(emitting) < MaxEvents
    /\ index' = index \union {m}
    /\ emitting' = emitting \union {m}
    /\ UNCHANGED <<stream, newestId, pollVars, memoryVars, ticks, subscriberVars,
                   dropped, resetVars, overlap, faults>>

AppendEvent(m) ==
    /\ m \in emitting
    /\ newestId' = newestId + 1
    /\ stream' = [stream EXCEPT ![m] = @ \union {newestId + 1}]
    /\ emitting' = emitting \ {m}
    /\ UNCHANGED <<index, pollVars, memoryVars, ticks, subscriberVars, dropped,
                   resetVars, overlap, faults>>

-----------------------------------------------------------------------------
\* _poll_once

\* XRANGE with COUNT: the oldest of the events, n at most.
Oldest(events, n) == { e \in events : Cardinality({ f \in events : f < e }) < n }

\* Mutant: what was read at the cursor stays in.
BatchWithCursor(m, cursor) ==
    IF cursor = 0 THEN Oldest(stream[m], PollLimit)
    ELSE Oldest(Oldest({ e \in stream[m] : e >= cursor }, PollLimit + 1), PollLimit)

\* Mutant: as many are read as are wanted, the one at the cursor among them.
BatchReadsTooFew(m, cursor) ==
    IF cursor = 0 THEN Oldest(stream[m], PollLimit)
    ELSE Oldest({ e \in stream[m] : e >= cursor }, PollLimit) \ {cursor}

\* read_metric_events_after: one more than wanted from the cursor on, as the event of
\* the cursor is the first of them, unless a reset has deleted it; the filter and the
\* cut leave the events after it.  Without a cursor the stream from its beginning.
Batch(m, cursor) ==
    IF cursor = 0 THEN Oldest(stream[m], PollLimit)
    ELSE Oldest(Oldest({ e \in stream[m] : e >= cursor }, PollLimit + 1) \ {cursor}, PollLimit)

EndPoll(p) ==
    /\ ppc' = [ppc EXCEPT ![p] = IF p = "loop" THEN "idle" ELSE "done"]
    /\ names' = [names EXCEPT ![p] = {}]
    /\ cursors' = [cursors EXCEPT ![p] = Zeros]
    /\ fetched' = [fetched EXCEPT ![p] = Nothing]

\* list_metrics is answered, and the cursors are read.
StartPoll(p) ==
    /\ ppc[p] = "idle" /\ index # {}
    /\ ppc' = [ppc EXCEPT ![p] = "fetch"]
    /\ names' = [names EXCEPT ![p] = index]
    /\ cursors' = [cursors EXCEPT ![p] = last]
    /\ overlap' = (overlap \/ rpc # "idle" \/ \E q \in Poller : ppc[q] = "fetch")
    /\ UNCHANGED <<fetched, streamVars, memoryVars, ticks, subscriberVars, dropped,
                   resetVars, faults>>

\* No metric yet; the loop just comes again.
RefreshFindsNoMetric ==
    /\ ppc["refresh"] = "idle" /\ index = {}
    /\ EndPoll("refresh")
    /\ UNCHANGED <<streamVars, memoryVars, ticks, subscriberVars, dropped, resetVars,
                   overlap, faults>>

IsNext(p, m) == m \in names[p] /\ \A k \in names[p] : m <= k

FetchMore(p) ==
    /\ ppc[p] = "fetch"
    /\ \E m \in names[p] :
        /\ IsNext(p, m) /\ names[p] # {m}
        /\ fetched' = [fetched EXCEPT ![p][m] = Batch(m, cursors[p][m])]
        /\ names' = [names EXCEPT ![p] = @ \ {m}]
    /\ UNCHANGED <<ppc, cursors, streamVars, memoryVars, ticks, subscriberVars,
                   dropped, resetVars, overlap, faults>>

\* What p has fetched once the last metric is read.
Fetched(p) ==
    [m \in Metric |-> IF m \in names[p] THEN Batch(m, cursors[p][m]) ELSE fetched[p][m]]

FoundNothing(p) ==
    /\ ppc[p] = "fetch" /\ Cardinality(names[p]) = 1
    /\ Fetched(p) = Nothing
    /\ EndPoll(p)
    /\ UNCHANGED <<streamVars, memoryVars, ticks, subscriberVars, dropped, resetVars,
                   overlap, faults>>

\* Mutant: a full queue rejects the new tick.
FanoutDropsNewest(tick) ==
    LET full == { s \in Subscriber : client[s] # "off" /\ Len(queue[s]) = QueueLimit }
    IN  /\ queue' = [s \in Subscriber |->
                        IF client[s] = "off" \/ s \in full THEN queue[s]
                        ELSE Append(queue[s], tick)]
        /\ dropped' = dropped + Cardinality(full)

\* _fanout_locked: a full queue loses its oldest tick.
Fanout(tick) ==
    LET full == { s \in Subscriber : client[s] # "off" /\ Len(queue[s]) = QueueLimit }
    IN  /\ queue' = [s \in Subscriber |->
                        IF client[s] = "off" THEN queue[s]
                        ELSE Append(IF s \in full THEN Tail(queue[s]) ELSE queue[s], tick)]
        /\ dropped' = dropped + Cardinality(full)

\* last_event_id after the events are applied one by one.
CursorAfter(m, events) == IF events = {} THEN last[m] ELSE Max(events)

\* The last read is answered: everything is applied and a tick is sent.
Apply(p) ==
    /\ ppc[p] = "fetch" /\ Cardinality(names[p]) = 1
    /\ Fetched(p) # Nothing
    /\ last' = [m \in Metric |-> CursorAfter(m, Fetched(p)[m])]
    /\ counted' = [m \in Metric |-> counted[m] \union Fetched(p)[m]]
    /\ total' = [m \in Metric |-> total[m] + Cardinality(Fetched(p)[m])]
    /\ backlog' = { m \in Metric : Cardinality(Fetched(p)[m]) >= PollLimit }
    /\ ticks' = ticks + 1
    /\ Fanout(ticks + 1)
    /\ EndPoll(p)
    /\ UNCHANGED <<streamVars, client, view, resetVars, overlap, faults>>

\* A call of Redis raises: the loop logs it and polls again.
PollFails ==
    /\ ppc["loop"] = "fetch"
    /\ faults < MaxFaults
    /\ faults' = faults + 1
    /\ EndPoll("loop")
    /\ UNCHANGED <<streamVars, memoryVars, ticks, subscriberVars, dropped, resetVars,
                   overlap>>

-----------------------------------------------------------------------------
\* reset_for_new_run, one at a time: requests are served once start-up is over

ResetScan ==
    /\ rpc = "idle" /\ resets < MaxResets
    /\ ppc["refresh"] = "done"
    /\ rpc' = "delete"
    /\ doomed' = { m \in Metric : stream[m] # {} }
    /\ overlap' = (overlap \/ \E p \in Poller : ppc[p] = "fetch")
    /\ UNCHANGED <<resets, runStart, streamVars, pollVars, memoryVars, ticks,
                   subscriberVars, dropped, faults>>

ResetDelete ==
    /\ rpc = "delete"
    /\ rpc' = "forget"
    /\ index' = {}
    /\ stream' = [m \in Metric |-> IF m \in doomed THEN {} ELSE stream[m]]
    /\ UNCHANGED <<newestId, emitting, doomed, resets, runStart, pollVars, memoryVars,
                   ticks, subscriberVars, dropped, overlap, faults>>

ForgetMetrics == last' = Zeros /\ counted' = Nothing /\ total' = Zeros /\ backlog' = {}

ResetForget ==
    /\ rpc = "forget"
    /\ rpc' = "idle" /\ doomed' = {}
    /\ ForgetMetrics
    /\ dropped' = 0
    /\ resets' = resets + 1 /\ runStart' = newestId
    /\ UNCHANGED <<streamVars, pollVars, ticks, subscriberVars, overlap, faults>>

-----------------------------------------------------------------------------
\* metrics_ws

Subscribe(s) ==
    /\ client[s] = "off"
    /\ ppc["refresh"] = "done"
    /\ client' = [client EXCEPT ![s] = "snapshot"]
    /\ UNCHANGED <<queue, view, streamVars, pollVars, memoryVars, ticks, dropped,
                   resetVars, overlap, faults>>

\* get_metrics is answered; ticks may have been queued since subscribe().
SendSnapshot(s) ==
    /\ client[s] = "snapshot"
    /\ client' = [client EXCEPT ![s] = "live"]
    /\ view' = [view EXCEPT ![s] = ticks]
    /\ UNCHANGED <<queue, streamVars, pollVars, memoryVars, ticks, dropped, resetVars,
                   overlap, faults>>

SendTick(s) ==
    /\ client[s] = "live" /\ queue[s] # <<>>
    /\ view' = [view EXCEPT ![s] = Head(queue[s])]
    /\ queue' = [queue EXCEPT ![s] = Tail(@)]
    /\ UNCHANGED <<client, streamVars, pollVars, memoryVars, ticks, dropped, resetVars,
                   overlap, faults>>

Unsubscribe(s) ==
    /\ client[s] # "off"
    /\ client' = [client EXCEPT ![s] = "off"]
    /\ queue' = [queue EXCEPT ![s] = <<>>]
    /\ view' = [view EXCEPT ![s] = 0]
    /\ UNCHANGED <<streamVars, pollVars, memoryVars, ticks, dropped, resetVars, overlap,
                   faults>>

-----------------------------------------------------------------------------
Poll(p) == StartPoll(p) \/ FetchMore(p) \/ FoundNothing(p) \/ Apply(p)

Next ==
    \/ \E m \in Metric : Register(m) \/ AppendEvent(m)
    \/ \E p \in Poller : Poll(p)
    \/ RefreshFindsNoMetric \/ PollFails
    \/ ResetScan \/ ResetDelete \/ ResetForget
    \/ \E s \in Subscriber :
        Subscribe(s) \/ SendSnapshot(s) \/ SendTick(s) \/ Unsubscribe(s)

Spec == Init /\ [][Next]_vars

\* The loop sleeps for poll_interval_s and is resumed.
FairSpec == Spec /\ WF_vars(Poll("loop"))

-----------------------------------------------------------------------------
\* Properties

(***************************************************************************)
(* No event of the current test is jumped over, however polls and a reset  *)
(* overlap: one the cursor has passed has been counted.  And as long as no *)
(* poll overlaps another one or a reset, every event is counted once, and  *)
(* exactly those up to the cursor are.  The state is well typed.           *)
(***************************************************************************)
NothingSkipped ==
    \A m \in Metric : \A e \in stream[m] : runStart < e /\ e <= last[m] => e \in counted[m]

CountedOnce ==
    rpc # "forget" /\ ~overlap =>
        \A m \in Metric : /\ counted[m] = { e \in stream[m] : e <= last[m] }
                          /\ total[m] = Cardinality(counted[m])

EventsCountOnce == TypeOK /\ NothingSkipped /\ CountedOnce

(***************************************************************************)
(* A client that has read its queue empty shows the newest tick: a full    *)
(* queue costs it old ticks only, and neither does the snapshot.  That it  *)
(* missed some shows in the counter, as long as no reset zeroes that.      *)
(***************************************************************************)
GapsAreReported ==
    \A s \in Subscriber :
        client[s] = "live" /\ queue[s] # <<>> /\ Head(queue[s]) > view[s] + 1
            => dropped > 0 \/ resets > 0

ClientsCatchUp ==
    /\ \A s \in Subscriber : client[s] = "live" /\ queue[s] = <<>> => view[s] = ticks
    /\ GapsAreReported

(***************************************************************************)
(* Once events stop coming, all those of the current test are counted, for *)
(* every metric that is listed (a reset between SADD and XADD unlists one).*)
(***************************************************************************)
AllCounted ==
    <>[](\A m \in index : \A e \in stream[m] : runStart < e => e \in counted[m])
=============================================================================
