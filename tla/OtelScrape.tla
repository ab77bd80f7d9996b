------------------------------ MODULE OtelScrape ------------------------------
(***************************************************************************)
(* The broker counters on their way to a benchmark result.  The observer   *)
(* (observer/app.py, _otel_loop) scrapes every broker replica in turn,     *)
(* sums the counters and publishes the sums; the driver                    *)
(* (dist_matrix_driver.py) reads the published sums twice and reports the  *)
(* difference as the work done between.                                    *)
(*                                                                         *)
(* Between a scrape and the next, a broker may restart (its counters begin *)
(* at zero), leave, come back, or not answer.  One counter stands for all: *)
(* publishes_ok.  A rate is kept as its numerator.                         *)
(***************************************************************************)
EXTENDS Integers, FiniteSets

CONSTANTS
    Brokers,     \* addresses the broker service may have replicas at
    MaxCount,    \* bound: publishes at one address
    MaxPasses,   \* bound: passes of the scrape loop
    OutageLimit  \* bound: restarts, departures, failed scrapes and lookups

ASSUME OtelBoundsAssumption ==
    MaxCount \in Nat /\ MaxPasses \in Nat /\ OutageLimit \in Nat
ASSUME BrokersAssumption == IsFiniteSet(Brokers)

VARIABLES
    up,          \* the broker replicas that are up
    count,       \* the counter each replica exports
    made,        \* history: publishes made at each address, over restarts
    outages,     \* how many of the bounded disturbances happened
    looping,     \* the scrape loop is inside a pass
    passes,      \* passes begun
    urls,        \* targets of this pass that are still to scrape
    sums,        \* totals, rates and brokers collected in this pass
    prev,        \* the totals of the last scrape, for the addresses ever seen
    mark,        \* history: made at the time of that scrape
    otel,        \* what /api/otel answers
    stage,       \* where the driver is in its cell
    a0,          \* its first sample
    a1           \* its second sample

brokerVars == <<up, count, made>>
scrapeVars == <<looping, passes, urls, sums, prev, mark, otel>>
driverVars == <<stage, a0, a1>>
otelVars == <<brokerVars, outages, scrapeVars, driverVars>>

\* A view of the cluster: the sums, the brokers that answered, and (history)
\* made at the time each was scraped, now (of others: when the pass began) and
\* the time before, and when its counter began at zero.
NoView == [ok |-> FALSE, total |-> 0, rate |-> 0, seen |-> {},
           at |-> [b \in Brokers |-> 0], since |-> [b \in Brokers |-> 0],
           base |-> [b \in Brokers |-> 0]]
Never == -1

\* History: what was made at each address before its counter began at zero.
Zero == [b \in Brokers |-> made[b] - count[b]]

OtelInit ==
    /\ up \in SUBSET Brokers
    /\ count = [b \in Brokers |-> 0]
    /\ made = [b \in Brokers |-> 0]
    /\ outages = 0
    /\ looping = FALSE
    /\ passes = 0
    /\ urls = {}
    /\ sums = NoView
    /\ prev = [b \in Brokers |-> Never]
    /\ mark = [b \in Brokers |-> 0]
    /\ otel = NoView
    /\ stage = "starting"
    /\ a0 = NoView
    /\ a1 = NoView

-----------------------------------------------------------------------------
(* The brokers *)

Outage ==
    /\ outages < OutageLimit
    /\ outages' = outages + 1

\* Broker b accepts a publish and counts it.
Work(b) ==
    /\ b \in up
    /\ made[b] < MaxCount
    /\ count' = [count EXCEPT ![b] = @ + 1]
    /\ made' = [made EXCEPT ![b] = @ + 1]
    /\ UNCHANGED <<up, outages, scrapeVars, driverVars>>

\* A broker starts, restarts, or a new replica takes its address.
Start(b) ==
    /\ Outage
    /\ up' = up \cup {b}
    /\ count' = [count EXCEPT ![b] = 0]
    /\ UNCHANGED <<made, scrapeVars, driverVars>>

Stop(b) ==
    /\ b \in up
    /\ Outage
    /\ up' = up \ {b}
    /\ UNCHANGED <<count, made, scrapeVars, driverVars>>

-----------------------------------------------------------------------------
(* _otel_loop *)

\* Mutant: the sums are not reset when a pass begins.
BeginPassKeepsSums ==
    /\ ~looping
    /\ passes < MaxPasses
    /\ \/ urls' = up /\ UNCHANGED outages
       \/ urls' = {} /\ Outage
    /\ passes' = passes + 1
    /\ looping' = TRUE
    /\ sums' = [NoView EXCEPT !.at = made, !.base = Zero, !.total = sums.total]
    /\ UNCHANGED <<brokerVars, prev, mark, otel, driverVars>>

\* The targets are looked up anew; a failed lookup yields none.
BeginPass ==
    /\ ~looping
    /\ passes < MaxPasses
    /\ \/ urls' = up /\ UNCHANGED outages
       \/ urls' = {} /\ Outage
    /\ passes' = passes + 1
    /\ looping' = TRUE
    /\ sums' = [NoView EXCEPT !.at = made, !.base = Zero]
    /\ UNCHANGED <<brokerVars, prev, mark, otel, driverVars>>

\* Mutant: only the first scrape of a broker is remembered.
ScrapeRemembersFirst(b) ==
    /\ b \in urls \cap up
    /\ urls' = urls \ {b}
    /\ LET rate == IF prev[b] = Never THEN 0 ELSE count[b] - prev[b]
       IN sums' = [ok |-> TRUE, total |-> sums.total + count[b],
                   rate |-> sums.rate + rate, seen |-> sums.seen \cup {b},
                   at |-> [sums.at EXCEPT ![b] = made[b]],
                   since |-> [sums.since EXCEPT ![b] = mark[b]],
                   base |-> [sums.base EXCEPT ![b] = Zero[b]]]
    /\ prev' = [prev EXCEPT ![b] = IF @ = Never THEN count[b] ELSE @]
    /\ mark' = [mark EXCEPT ![b] = made[b]]
    /\ UNCHANGED <<brokerVars, outages, looping, passes, otel, driverVars>>

\* Broker b answers: its total is added, and its growth since its last scrape.
Scrape(b) ==
    /\ b \in urls \cap up
    /\ urls' = urls \ {b}
    /\ LET rate == IF prev[b] = Never THEN 0 ELSE count[b] - prev[b]
       IN sums' = [ok |-> TRUE, total |-> sums.total + count[b],
                   rate |-> sums.rate + rate, seen |-> sums.seen \cup {b},
                   at |-> [sums.at EXCEPT ![b] = made[b]],
                   since |-> [sums.since EXCEPT ![b] = mark[b]],
                   base |-> [sums.base EXCEPT ![b] = Zero[b]]]
    /\ prev' = [prev EXCEPT ![b] = count[b]]
    /\ mark' = [mark EXCEPT ![b] = made[b]]
    /\ UNCHANGED <<brokerVars, outages, looping, passes, otel, driverVars>>

\* Broker b is down, or the fetch times out: the pass goes on without it.
ScrapeFails(b) ==
    /\ b \in urls
    /\ \/ b \notin up /\ UNCHANGED outages
       \/ b \in up /\ Outage
    /\ urls' = urls \ {b}
    /\ UNCHANGED <<brokerVars, looping, passes, sums, prev, mark, otel, driverVars>>

\* All targets are done: brokers and sums are published together.
EndPass ==
    /\ looping
    /\ urls = {}
    /\ looping' = FALSE
    /\ otel' = sums
    /\ UNCHANGED <<brokerVars, outages, passes, urls, sums, prev, mark, driverVars>>

-----------------------------------------------------------------------------
(* The driver: wait_ready and the two samples of run_cell *)

\* Ready once a broker answers and something was published.
Ready ==
    /\ stage = "starting"
    /\ otel.ok
    /\ otel.total > 0
    /\ stage' = "settled"
    /\ UNCHANGED <<brokerVars, outages, scrapeVars, a0, a1>>

FirstSample ==
    /\ stage = "settled"
    /\ otel.ok
    /\ a0' = otel
    /\ stage' = "sampling"
    /\ UNCHANGED <<brokerVars, outages, scrapeVars, a1>>

SecondSample ==
    /\ stage = "sampling"
    /\ otel.ok
    /\ a1' = otel
    /\ stage' = "measured"
    /\ UNCHANGED <<brokerVars, outages, scrapeVars, a0>>

\* Not ready before the deadline, or five scrapes without a broker.
GiveUp ==
    /\ \/ stage = "starting" /\ ~(otel.ok /\ otel.total > 0)
       \/ stage \in {"settled", "sampling"} /\ ~otel.ok
    /\ stage' = "failed"
    /\ UNCHANGED <<brokerVars, outages, scrapeVars, a0, a1>>

-----------------------------------------------------------------------------

OtelNext ==
    \/ \E b \in Brokers : Work(b) \/ Start(b) \/ Stop(b)
    \/ BeginPass
    \/ \E b \in Brokers : Scrape(b) \/ ScrapeFails(b)
    \/ EndPass
    \/ Ready
    \/ FirstSample
    \/ SecondSample
    \/ GiveUp

OtelSpec == OtelInit /\ [][OtelNext]_otelVars

-----------------------------------------------------------------------------
(* Properties *)

\* The publishes at a set of brokers between two readings of made, the i-th at
\* b being <<b, i>>; and how many they are.
Published(S, from, to) == UNION {{b} \X ((from[b] + 1)..to[b]) : b \in S}
Growth(S, from, to) == Cardinality(Published(S, from, to))

\* The aggregate rate on the dashboard, from which _assess diagnoses
\* saturation, never claims more than the brokers in it did since each was last
\* scraped, whatever restarts, passes without answer or departures lie between.
RatesNeverOverstate == otel.rate <= Growth(otel.seen, otel.since, otel.at)

\* The difference the driver reports is at most what was done between its two
\* samples, provided no broker is in the second sample only.
DeltaNeverOverstates ==
    stage = "measured" /\ a1.seen \subseteq a0.seen =>
        a1.total - a0.total <= Growth(a1.seen, a0.at, a1.at)

=============================================================================
