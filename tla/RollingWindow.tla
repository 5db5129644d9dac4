---------------------------- MODULE RollingWindow ----------------------------
(***************************************************************************)
(* How the orchestrator aggregates what a stream delivers: one entry of    *)
(* MetricsService._metrics, or one of ProbeService._probes, which share    *)
(* nothing with other entries.  Events are applied in stream order, but    *)
(* are counted in seconds of the clocks of the workers that sent them, and *)
(* so may go back and forth; MetricsPoller models which events arrive.     *)
(***************************************************************************)
EXTENDS Integers, Sequences, FiniteSets, Functions, Bags, TLC

CONSTANTS
    Window,      \* window_s
    Second,      \* seconds that a clock may show
    Code,        \* result codes of the scenario, in the order of their names
    Latency,     \* values of "time"
    Measurement, \* which payloads of metric events arrive, see Payload
    TopK,        \* max_result_codes
    Percentiles, \* the percentiles of the snapshot: 95 and 99
    MaxEvents    \* bound: events applied

Other    == 0    \* "OTHER", which a scenario may also use itself
NoStamp  == -1   \* no ts_ms in the payload
NoCode   == -1   \* no result_code, or no string
NoTime   == -1   \* no time, or a negative one

\* What the extractors make of a payload; an error is status = false.
Payload == [error: BOOLEAN, fatal: BOOLEAN, code: Code \union {NoCode},
            latency: Latency \union {NoTime}]

ASSUME RollingWindowAssumption ==
    /\ Window \in Nat \ {0} /\ TopK \in Nat \ {0} /\ MaxEvents \in Nat
    /\ Second \subseteq Nat /\ Code \subseteq Nat /\ Latency \subseteq Nat
    /\ Measurement \subseteq Payload
    /\ Percentiles \subseteq 0 .. 100

VARIABLES
    service,   \* "metrics" or "probes": whose entry this is
    redisTime, \* second of the ids that Redis gives to the next entries
    buckets,   \* state.buckets
    total,     \* state.total_*; probes have none
    history    \* history: the events applied, each with the second it counts for

vars == <<service, redisTime, buckets, total, history>>

NoCounts == [requests |-> 0, errors |-> 0, fatal |-> 0, codes |-> EmptyBag, latencies |-> <<>>]

Init ==
    /\ service \in {"metrics", "probes"}
    /\ redisTime \in Second
    /\ buckets = <<>>
    /\ total = NoCounts
    /\ history = <<>>

-----------------------------------------------------------------------------
\* Buckets

\* _increment_counter
Increment(counts, key) == counts (+) SetToBag({key})

\* What _apply_aggregate_event adds to a bucket, and to the totals as well.
Count(counts, e) ==
    [counts EXCEPT !.requests  = @ + 1,
                   !.errors    = IF e.error THEN @ + 1 ELSE @,
                   !.fatal     = IF e.fatal THEN @ + 1 ELSE @,
                   !.codes     = IF e.code # NoCode THEN Increment(@, e.code) ELSE @,
                   !.latencies = IF e.latency # NoTime THEN Append(@, e.latency) ELSE @]

Bucket(second) == [second |-> second, counts |-> NoCounts]

\* Mutant: a second whose bucket is not the last one counts in the last one.
AnyBucket(bs, second) == IF bs # <<>> THEN bs ELSE Append(bs, Bucket(second))

\* _ensure_bucket: only the last bucket is looked at.
EnsureBucket(bs, second) ==
    IF bs # <<>> /\ bs[Len(bs)].second = second THEN bs ELSE Append(bs, Bucket(second))

\* Mutant: > instead of >=, the window is a second short.
TrimOneMore(bs, second) ==
    LET fresh == { i \in 1 .. Len(bs) : bs[i].second > second - Window + 1 }
        first == CHOOSE i \in fresh : \A j \in fresh : i <= j
    IN  IF fresh = {} THEN <<>> ELSE SubSeq(bs, first, Len(bs))

\* _trim_buckets: popleft until a bucket is inside the window that ends at second.
TrimBuckets(bs, second) ==
    LET fresh == { i \in 1 .. Len(bs) : bs[i].second >= second - Window + 1 }
        first == CHOOSE i \in fresh : \A j \in fresh : i <= j
    IN  IF fresh = {} THEN <<>> ELSE SubSeq(bs, first, Len(bs))

\* An event goes into its bucket, and the window moves to it.
Put(e, second) ==
    LET bs == EnsureBucket(buckets, second)
    IN  TrimBuckets([bs EXCEPT ![Len(bs)].counts = Count(@, e)], second)

\* _extract_event_ts_ms: the payload's own time, or that of the stream id.
EventSecond(stamp) == IF stamp # NoStamp THEN stamp ELSE redisTime

-----------------------------------------------------------------------------
\* The snapshot

\* _merge_counts, and the sums of _aggregate
Merged(bs) ==
    [requests  |-> SumFunction([i \in 1 .. Len(bs) |-> bs[i].counts.requests]),
     errors    |-> SumFunction([i \in 1 .. Len(bs) |-> bs[i].counts.errors]),
     fatal     |-> SumFunction([i \in 1 .. Len(bs) |-> bs[i].counts.fatal]),
     codes     |-> FoldFunction(LAMBDA b, codes : codes (+) b.counts.codes, EmptyBag, bs),
     latencies |-> FoldFunction(LAMBDA b, all : all \o b.counts.latencies, <<>>, bs)]

\* _sort_counts orders by falling count, then by name.
Before(counts, c, d) == counts[c] > counts[d] \/ (counts[c] = counts[d] /\ c < d)

Top(counts) ==
    { c \in DOMAIN counts : Cardinality({ d \in DOMAIN counts : Before(counts, d, c) }) < TopK }

\* Mutant: "OTHER" is what the top codes have.
LimitToTop(counts) ==
    LET rest == DOMAIN counts \ Top(counts)
    IN  IF rest = {} THEN counts
        ELSE [c \in Top(counts) \union {Other} |->
                IF c = Other THEN SumFunctionOnSet(counts, Top(counts)) ELSE counts[c]]

\* _limit_counts: the top codes, and "OTHER" for the rest.
LimitCounts(counts) ==
    LET rest == DOMAIN counts \ Top(counts)
    IN  IF rest = {} THEN counts
        ELSE [c \in Top(counts) \union {Other} |->
                IF c = Other THEN SumFunctionOnSet(counts, rest) ELSE counts[c]]

Sorted(latencies) == SortSeq(latencies, <)

\* _sorted_median, doubled: the mean of two middle values has no fraction then.
TwiceMedian(s) ==
    LET middle == Len(s) \div 2
    IN  IF Len(s) % 2 = 1 THEN 2 * s[middle + 1] ELSE s[middle] + s[middle + 1]

\* Mutant: the rank is rounded down.
RankRoundedDown(s, p) ==
    LET rank == (p * Len(s)) \div 100 IN s[IF rank = 0 THEN 1 ELSE rank]

\* _sorted_percentile_nearest_rank
Percentile(s, p) ==
    LET rank  == (p * Len(s) + 99) \div 100   \* math.ceil
        index == IF rank - 1 < 0 THEN 0 ELSE IF rank > Len(s) THEN Len(s) - 1 ELSE rank - 1
    IN  IF p <= 0 THEN s[1] ELSE IF p >= 100 THEN s[Len(s)] ELSE s[index + 1]

-----------------------------------------------------------------------------
Room == Len(history) < MaxEvents

Remember(e, second) == history' = Append(history, [event |-> e, second |-> second])

\* MetricsService._apply_aggregate_event
ApplyMetric(e, stamp) ==
    /\ service = "metrics" /\ Room
    /\ buckets' = Put(e, EventSecond(stamp))
    /\ total' = Count(total, e)
    /\ Remember(e, EventSecond(stamp))
    /\ UNCHANGED <<service, redisTime>>

\* ProbeService._apply_event: a success or an error, by status alone.
ApplyProbe(success, stamp) ==
    /\ service = "probes" /\ Room
    /\ LET e == [error |-> ~success, fatal |-> FALSE, code |-> NoCode, latency |-> NoTime] IN
       /\ buckets' = Put(e, EventSecond(stamp))
       /\ Remember(e, EventSecond(stamp))
    /\ UNCHANGED <<service, redisTime, total>>

\* reset_for_new_run forgets the entry.
Reset ==
    /\ buckets' = <<>>
    /\ total' = NoCounts
    /\ history' = <<>>
    /\ UNCHANGED <<service, redisTime>>

\* Ids of a stream never go back; that of the next entry is later.
Tick ==
    /\ redisTime + 1 \in Second
    /\ redisTime' = redisTime + 1
    /\ UNCHANGED <<service, buckets, total, history>>

Next ==
    \/ \E stamp \in Second \union {NoStamp} :
        \/ \E e \in Measurement : ApplyMetric(e, stamp)
        \/ \E success \in BOOLEAN : ApplyProbe(success, stamp)
    \/ Reset
    \/ Tick

Spec == Init /\ [][Next]_vars

-----------------------------------------------------------------------------
\* Properties

Counts == [requests: Nat, errors: Nat, fatal: Nat, latencies: Seq(Latency),
           codes: UNION { [cs -> 1 .. MaxEvents] : cs \in SUBSET Code }]

TypeOK ==
    /\ service \in {"metrics", "probes"}
    /\ redisTime \in Second
    /\ buckets \in Seq([second: Second, counts: Counts])
    /\ total \in Counts
    /\ history \in Seq([event: Payload, second: Second])
    \* no bucket is empty, and none follows one of the same second
    /\ \A i \in DOMAIN buckets : buckets[i].counts.requests > 0
    /\ \A i \in 2 .. Len(buckets) : buckets[i].second # buckets[i - 1].second

Applied  == DOMAIN history
LatestOf(events) == CHOOSE s \in { history[i].second : i \in events } :
                        \A i \in events : history[i].second <= s

\* By how many seconds an event came late, at most.
Disorder ==
    LET lateness(i) == LatestOf(1 .. i) - history[i].second
    IN  CHOOSE d \in { lateness(i) : i \in Applied } : \A i \in Applied : lateness(i) <= d

\* How many requests the window counts for a second, and how many there were.
InWindow(second) ==
    SumFunction([i \in DOMAIN buckets |->
                    IF buckets[i].second = second THEN buckets[i].counts.requests ELSE 0])
Happened(second) == Cardinality({ i \in Applied : history[i].second = second })

(***************************************************************************)
(* Late events cost nothing and add little: whatever the order in which    *)
(* seconds arrive, all events of the last window_s seconds are counted     *)
(* once, and what is counted besides is older than that by no more than    *)
(* the stream was out of order.  The state is well typed.                  *)
(***************************************************************************)
WindowIsExact ==
    /\ TypeOK
    /\ Applied # {} =>
        /\ \A s \in Second : s > LatestOf(Applied) - Window => InWindow(s) = Happened(s)
        /\ \A i \in DOMAIN buckets :
            buckets[i].second > history[Len(history)].second - Window - Disorder

\* What a list of events amounts to, counted without buckets.
Reference(events) ==
    LET all(Test(_)) == Cardinality({ i \in events : Test(history[i].event) })
        codes == { history[i].event.code : i \in events } \ {NoCode}
    IN  [requests  |-> Cardinality(events),
         errors    |-> all(LAMBDA e : e.error),
         fatal     |-> all(LAMBDA e : e.fatal),
         codes     |-> [c \in codes |-> all(LAMBDA e : e.code = c)],
         latencies |-> [l \in Latency |-> all(LAMBDA e : e.latency = l)]]

AsBag(latencies) == [l \in Latency |-> Cardinality({ i \in DOMAIN latencies : latencies[i] = l })]

Agrees(counts, events) == [counts EXCEPT !.latencies = AsBag(@)] = Reference(events)

(***************************************************************************)
(* aggregate_total is that of all events of the run, in any order, and     *)
(* aggregate that of the last window_s seconds while they arrive in order. *)
(***************************************************************************)
AggregatesAgree ==
    /\ service = "metrics" => Agrees(total, Applied)
    /\ Applied # {} /\ Disorder = 0 =>
        Agrees(Merged(buckets),
               { i \in Applied : history[i].second > LatestOf(Applied) - Window })

(***************************************************************************)
(* The limited counts are those of the most frequent codes, and nothing is *)
(* lost: "OTHER" has all the rest.  (Only a code that is itself named      *)
(* "OTHER" and among the most frequent would be overwritten.)              *)
(***************************************************************************)
TopCodesAreComplete ==
    LET limited == LimitCounts(total.codes)
        codes   == DOMAIN total.codes
        top     == DOMAIN limited \ {Other}
    IN  /\ Other \notin Top(total.codes) => SumFunction(limited) = SumFunction(total.codes)
        /\ \A c \in top : limited[c] = total.codes[c]
        /\ \A c \in top, d \in codes \ DOMAIN limited : total.codes[c] >= total.codes[d]
        /\ Cardinality(top) <= TopK

(***************************************************************************)
(* A percentile is the least latency that no more than the rest of the     *)
(* samples exceed, and the median lies between the two halves, for every   *)
(* order in which latencies arrive.                                        *)
(***************************************************************************)
QuantilesAreExact ==
    LET s == Sorted(total.latencies)
        AtMost(l)  == Cardinality({ i \in DOMAIN s : s[i] <= l })
        AtLeast(l) == Cardinality({ i \in DOMAIN s : s[i] >= l })
        Least(p)   == CHOOSE l \in Latency :
                        /\ 100 * AtMost(l) >= p * Len(s) /\ AtMost(l) > 0
                        /\ \A k \in Latency : k < l => AtMost(k) = 0 \/ 100 * AtMost(k) < p * Len(s)
        Greatest   == CHOOSE l \in Latency :
                        /\ 2 * AtLeast(l) >= Len(s)
                        /\ \A k \in Latency : k > l => 2 * AtLeast(k) < Len(s)
    IN  s # <<>> => /\ \A p \in Percentiles : Percentile(s, p) = Least(p)
                    /\ TwiceMedian(s) = Least(50) + Greatest
=============================================================================
