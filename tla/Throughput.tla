----------------------------- MODULE Throughput -----------------------------
(***************************************************************************)
(* The throughput panel of the observers: a pump (_pump_throughput of      *)
(* app.py) drains the firehose subscription and records what it is given   *)
(* in Stats (stats.py), which a snapshot turns into figures.               *)
(*                                                                         *)
(* Stats keeps one bucket per second in which something arrived, in a      *)
(* bounded ring, and a bounded ring of latencies.  Snapshots come at any   *)
(* time, also in the middle of a second.  The subscription is evicted, or  *)
(* its broker restarts, and the pump subscribes again; what is published   *)
(* meanwhile passes it by, and what it acked too late comes again.         *)
(*                                                                         *)
(* One producer, the case approx_missing is made for (dashboard.py of the  *)
(* performance harness, line 153), one pump (that harness, egress).        *)
(***************************************************************************)
EXTENDS Naturals, Sequences, FiniteSetsExt, SequencesExt

CONSTANTS
    Ring,          \* _BUCKETS
    Window,        \* _SUSTAINED_WINDOW
    SparkLen,      \* seconds of the sparkline
    LatencyRing,   \* _LATENCY_RING
    Latencies,     \* what recv_ts - pub_ts may be; Skew: below zero
    Skew,
    MaxSeq,        \* bound: messages of the producer
    MaxSec,        \* bound: seconds
    FaultLimit     \* bound: ended subscriptions, second deliveries

ASSUME SizesAssumption ==
    /\ Window \in Nat \ {0} /\ Ring \in Nat \ {0} /\ SparkLen \in Nat \ {0}
    /\ Window < Ring /\ SparkLen < Ring   \* the ring holds the running second, too
    /\ LatencyRing \in Nat \ {0}
ASSUME BoundsAssumption == MaxSeq \in Nat /\ MaxSec \in Nat /\ FaultLimit \in Nat
ASSUME LatencyAssumption == Latencies \subseteq Nat /\ Skew \notin Nat

VARIABLES
    now,           \* the second time.time() is in
    faults,        \* how many of the bounded disturbances happened
    drawn,         \* the last sequence number the producer drew
    sub,           \* the broker has the subscription
    queued,        \* what it is about to deliver
    pump,          \* "subscribing" or "streaming"; the flag of Stats says which
    total, highest_seq, latency, buckets, peak_rate,   \* Stats
    seen,          \* history: the messages that were recorded
    hits           \* history: how many records in each second

clientVars == <<now, faults, drawn>>
streamVars == <<sub, queued, pump>>
statVars == <<total, highest_seq, latency, buckets, peak_rate, seen, hits>>
vars == <<clientVars, streamVars, statVars>>

Seconds == 0..MaxSec

Init ==
    /\ now = 0
    /\ faults = 0
    /\ drawn = 0
    /\ sub = FALSE
    /\ queued = {}
    /\ pump = "subscribing"
    /\ total = 0
    /\ highest_seq = 0
    /\ latency = <<>>
    /\ buckets = <<>>
    /\ peak_rate = 0
    /\ seen = {}
    /\ hits = [s \in Seconds |-> 0]

-----------------------------------------------------------------------------
(* The producer, the broker and the clock *)

Disturb ==
    /\ faults < FaultLimit
    /\ faults' = faults + 1
    /\ UNCHANGED <<now, drawn>>

Tick ==
    /\ now < MaxSec
    /\ now' = now + 1
    /\ UNCHANGED <<faults, drawn, streamVars, statVars>>

Publish ==
    /\ drawn < MaxSeq
    /\ drawn' = drawn + 1
    /\ UNCHANGED <<now, faults, streamVars, statVars>>

\* A broker has accepted the message and puts it on the subscription; or it
\* does so again, because no ack came in time.  Or never: publishes fail, and
\* nothing is kept for a subscription that is not there.
Offer ==
    /\ sub
    /\ \E s \in 1..drawn \ queued :
          /\ queued' = queued \union {s}
          /\ IF s \in seen THEN Disturb ELSE UNCHANGED clientVars
    /\ UNCHANGED <<sub, pump, statVars>>

\* The subscription is evicted, or the broker or the connection goes away.
End ==
    /\ Disturb
    /\ sub
    /\ sub' = FALSE
    /\ queued' = {}
    /\ UNCHANGED <<pump, statVars>>

-----------------------------------------------------------------------------
(* _pump_throughput *)

Subscribe ==
    /\ pump = "subscribing"
    /\ pump' = "streaming"
    /\ sub' = TRUE
    /\ UNCHANGED <<clientVars, queued, statVars>>

\* The stream ended: mark_evicted, and after a pause the next subscription.
StreamEnds ==
    /\ pump = "streaming"
    /\ ~sub
    /\ pump' = "subscribing"
    /\ UNCHANGED <<clientVars, sub, queued, statVars>>

-----------------------------------------------------------------------------
(* Stats.record *)

\* deque(maxlen=size).append(x)
Push(ring, x, size) ==
    IF Len(ring) < size THEN Append(ring, x) ELSE Append(Tail(ring), x)

\* The bucket of this second counts one more, or is the newest one now.
Bucket(ring) ==
    IF ring # <<>> /\ Last(ring).sec = now
    THEN [ring EXCEPT ![Len(ring)].count = @ + 1]
    ELSE Push(ring, [sec |-> now, count |-> 1], Ring)

\* Mutant: a latency below zero ends it too early.
RecordSkipsSkewed(s, lat) ==
    /\ total' = IF lat = Skew THEN total ELSE total + 1
    /\ highest_seq' = IF s > highest_seq THEN s ELSE highest_seq
    /\ latency' = IF lat = Skew THEN latency ELSE Push(latency, lat, LatencyRing)
    /\ buckets' = Bucket(buckets)
    /\ seen' = seen \union {s}
    /\ hits' = [hits EXCEPT ![now] = @ + 1]

Record(s, lat) ==
    /\ total' = total + 1
    /\ highest_seq' = IF s > highest_seq THEN s ELSE highest_seq
    /\ latency' = IF lat = Skew THEN latency ELSE Push(latency, lat, LatencyRing)
    /\ buckets' = Bucket(buckets)
    /\ seen' = seen \union {s}
    /\ hits' = [hits EXCEPT ![now] = @ + 1]

\* A delivery is recorded and acked.
Deliver ==
    /\ pump = "streaming"
    /\ \E s \in queued, lat \in Latencies \union {Skew} :
          /\ queued' = queued \ {s}
          /\ Record(s, lat)
    /\ UNCHANGED <<clientVars, sub, pump, peak_rate>>

-----------------------------------------------------------------------------
(* Stats.snapshot: what it would show now *)

\* Mutant: the second that is still filling is one of them.
CompletedAndRunning == buckets

\* _completed_buckets: the seconds that are over.  A ring is in the order of
\* its seconds, so these are the first of it.
Completed ==
    SubSeq(buckets, 1, Cardinality({i \in DOMAIN buckets : buckets[i].sec < now}))

\* The last n elements, or all if there are fewer.
LastN(seq, n) == SubSeq(seq, IF Len(seq) > n THEN Len(seq) - n + 1 ELSE 1, Len(seq))

CountsOf(ring) == [i \in DOMAIN ring |-> ring[i].count]

rate_current == IF Completed = <<>> THEN 0 ELSE Last(Completed).count

\* The sustained rate is their average.
Recent == CountsOf(LastN(Completed, Window))

rate_peak == Max({peak_rate} \union Range(CountsOf(Completed)))

\* by_sec.get: the count of the bucket that is the second, 0 without one.
Lookup(found) == IF found = {} THEN 0 ELSE (CHOOSE b \in found : TRUE).count

\* Mutant: the sparkline begins a second too early.
SparkShifted(i) ==
    Lookup({b \in Range(Completed) : b.sec + i + 1 = Last(Completed).sec})

\* The sparkline, i seconds before the newest completed bucket.
Spark(i) ==
    Lookup({b \in Range(Completed) : b.sec + i = Last(Completed).sec})

approx_missing == IF highest_seq > total THEN highest_seq - total ELSE 0

\* Mutant: the rank counts from one.
PercentileFromOne(sorted, p) ==
    LET k == Len(sorted) * p
        lo == k \div 100
        hi == Min({lo + 1, Len(sorted) - 1})
        frac == k % 100
    IN sorted[lo + 1] * (100 - frac) + sorted[hi + 1] * frac

\* _percentile, a hundred times: between the two samples around rank p.
Percentile(sorted, p) ==
    LET k == (Len(sorted) - 1) * p
        lo == k \div 100
        hi == Min({lo + 1, Len(sorted) - 1})
        frac == k % 100
    IN sorted[lo + 1] * (100 - frac) + sorted[hi + 1] * frac

Percents == {50, 95, 99}

\* sorted(): the elements, each as often as there, in ascending order.
Sorted(seq) ==
    LET p == CHOOSE p \in Bijection(DOMAIN seq, DOMAIN seq) :
                \A i, j \in DOMAIN seq : i < j => seq[p[i]] <= seq[p[j]]
    IN [i \in DOMAIN seq |-> seq[p[i]]]

latency_percentile(p) == Percentile(Sorted(latency), p)

\* Of what a snapshot computes only the peak is kept.
Snapshot ==
    /\ peak_rate' = rate_peak
    /\ UNCHANGED <<clientVars, streamVars, total, highest_seq, latency, buckets, seen, hits>>

-----------------------------------------------------------------------------

Next ==
    \/ Tick \/ Publish \/ Offer \/ End
    \/ Subscribe \/ Deliver \/ StreamEnds
    \/ Snapshot

Spec == Init /\ [][Next]_vars

-----------------------------------------------------------------------------
(* Properties *)

\* "~n seq behind" (dashboard.py:153) is never more than what the observer
\* really was not given, however it was re-subscribed, and although messages
\* that come twice count twice.
GapsAreReal == approx_missing <= Cardinality((1..drawn) \ seen)

\* What f counts at the elements of S, one by one: as many as the sum of f.
Records(f, S) == UNION {{x} \X (1..f[x]) : x \in S}

HitsFrom(s) == {t \in Seconds : t >= s /\ t < now}

\* "Drop the current second so rates aren't understated" (stats.py:90): at any
\* moment the current rate is at least that of the second that has just ended,
\* the sustained rate at least the true average of its window, and the peak at
\* least that of every completed second whose bucket was not pushed out; and
\* the peak is the rate of a second there was.
NeverUnderstated ==
    /\ now > 0 => rate_current >= hits[now - 1]
    /\ LET from == IF now > Window THEN now - Window ELSE 0
       IN Cardinality(Records(Recent, DOMAIN Recent)) * Window
            >= Len(Recent) * Cardinality(Records(hits, HitsFrom(from)))
    /\ \A s \in HitsFrom(0) :
          Cardinality({t \in Seconds : t > s /\ hits[t] > 0}) < Ring
             => rate_peak >= hits[s]
    /\ rate_peak > 0 => \E s \in HitsFrom(0) : hits[s] = rate_peak

\* The sparkline is what arrived in each of the seconds up to the last one
\* that is over and had something, idle seconds included.
SparkTrue ==
    LET busy == {s \in HitsFrom(0) : hits[s] > 0}
    IN busy # {} => \A i \in 0..SparkLen - 1 :
          Spark(i) = IF i <= Max(busy) THEN hits[Max(busy) - i] ELSE 0

\* A percentile has its share of the samples at or below it, and no more than
\* that share strictly below it, with any number of samples from one on.
LatencyRanks ==
    LET n == Len(latency)
    IN n > 0 => \A p \in Percents :
          LET v == latency_percentile(p)
          IN /\ 100 * Cardinality({i \in 1..n : 100 * latency[i] <= v}) >= (n - 1) * p
             /\ 100 * (Cardinality({i \in 1..n : 100 * latency[i] < v}) - 1) < (n - 1) * p

=============================================================================
