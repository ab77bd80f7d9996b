-------------------------- MODULE MeasurementProofs --------------------------
(***************************************************************************)
(* Theorems about what measures the brokers: the scrape loop of the        *)
(* observer and the two samples the driver takes of it (OtelScrape), the   *)
(* driver's cells and stop rules (SweepDriver), and all the throughput     *)
(* panel shows: gaps, rates, sparkline and percentiles (Throughput).       *)
(*                                                                         *)
(* The three share no state; each part has an invariant of its own.  What  *)
(* the panel shows needs three: on what was recorded (SeenInv), on the     *)
(* ring of buckets (RingInv) and on the samples (LatencyInv).              *)
(***************************************************************************)
EXTENDS Throughput, OtelScrape, SweepDriver,
        FiniteSetTheorems, SequenceTheorems, WellFoundedInduction, TLAPS

-----------------------------------------------------------------------------
(* How many publishes lie between two readings *)

Readings == [Brokers -> 0..MaxCount]

LEMMA PublishedMember ==
    ASSUME NEW S, NEW from \in Readings, NEW to \in Readings, S \subseteq Brokers, NEW e
    PROVE  e \in Published(S, from, to) <=>
             \E b \in S, i \in Nat : from[b] < i /\ i <= to[b] /\ e = <<b, i>>
  BY OtelBoundsAssumption DEF Published, Readings

LEMMA PublishedFinite ==
    ASSUME NEW S \in SUBSET Brokers, NEW from \in Readings, NEW to \in Readings
    PROVE  /\ IsFiniteSet(Published(S, from, to))
           /\ Growth(S, from, to) \in Nat
  <1>1. IsFiniteSet(1..MaxCount)
    BY FS_Interval, OtelBoundsAssumption
  <1>2. IsFiniteSet(Brokers \X (1..MaxCount))
    BY <1>1, FS_Product, BrokersAssumption
  <1>3. Published(S, from, to) \subseteq Brokers \X (1..MaxCount)
    <2> SUFFICES ASSUME NEW e \in Published(S, from, to)
                 PROVE  e \in Brokers \X (1..MaxCount)
      OBVIOUS
    <2>1. PICK b \in S, i \in Nat : from[b] < i /\ i <= to[b] /\ e = <<b, i>>
      BY PublishedMember
    <2>2. from[b] \in 0..MaxCount /\ to[b] \in 0..MaxCount
      BY DEF Readings
    <2>3. i \in 1..MaxCount  BY <2>1, <2>2, OtelBoundsAssumption
    <2> QED  BY <2>1, <2>3
  <1>4. IsFiniteSet(Published(S, from, to))
    BY <1>2, <1>3, FS_Subset
  <1> QED  BY <1>4, FS_CardinalityType DEF Growth

\* One more broker adds what was published at it.
LEMMA GrowthAdds ==
    ASSUME NEW S \in SUBSET Brokers, NEW b \in Brokers, b \notin S,
           NEW from \in Readings, NEW to \in Readings,
           NEW from2 \in Readings, NEW to2 \in Readings,
           \A c \in S : from2[c] = from[c] /\ to2[c] = to[c],
           from2[b] <= to2[b]
    PROVE  Growth(S \cup {b}, from2, to2) = Growth(S, from, to) + (to2[b] - from2[b])
  <1> DEFINE x == from2[b]
             y == to2[b]
             old == Published(S, from, to)
             new == {b} \X ((x + 1)..y)
  <1>1. x \in 0..MaxCount /\ y \in 0..MaxCount /\ x <= y
    BY DEF Readings
  <1>2. S \cup {b} \subseteq Brokers  OBVIOUS
  <1> HIDE DEF x, y
  <1>3. from2[b] = x /\ to2[b] = y  BY DEF x, y
  <1>4. Published(S \cup {b}, from2, to2) = old \cup new
    <2>1. ASSUME NEW e \in Published(S \cup {b}, from2, to2) PROVE e \in old \cup new
      <3>1. PICK c \in S \cup {b}, i \in Nat : from2[c] < i /\ i <= to2[c] /\ e = <<c, i>>
        <4> HIDE DEF old, new
        <4> QED  BY <1>2, <2>1, PublishedMember, SMTT(30)
      <3>2. CASE c = b  BY <3>1, <3>2, <1>1, <1>3, OtelBoundsAssumption
      <3>3. CASE c # b
        <4>1. c \in S /\ from[c] < i /\ i <= to[c]  BY <3>1, <3>3
        <4> QED  BY <4>1, <3>1, PublishedMember
      <3> QED  BY <3>2, <3>3
    <2>2. ASSUME NEW e \in old PROVE e \in Published(S \cup {b}, from2, to2)
      <3>1. PICK c \in S, i \in Nat : from[c] < i /\ i <= to[c] /\ e = <<c, i>>
        BY <2>2, PublishedMember
      <3>2. c \in S \cup {b} /\ from2[c] < i /\ i <= to2[c]  BY <3>1
      <3> QED  BY <3>1, <3>2, <1>2, PublishedMember
    <2>3. ASSUME NEW e \in new PROVE e \in Published(S \cup {b}, from2, to2)
      <3>1. PICK i \in (x + 1)..y : e = <<b, i>>  BY <2>3
      <3>2. i \in Nat /\ from2[b] < i /\ i <= to2[b]  BY <3>1, <1>1, <1>3, OtelBoundsAssumption
      <3> QED  BY <3>1, <3>2, <1>2, PublishedMember
    <2> QED  BY <2>1, <2>2, <2>3
  <1>5. old \cap new = {}
    <2> SUFFICES ASSUME NEW e \in old PROVE e \notin new
      OBVIOUS
    <2>1. PICK c \in S, i \in Nat : from[c] < i /\ i <= to[c] /\ e = <<c, i>>
      BY PublishedMember
    <2> QED  BY <2>1
  <1>6. IsFiniteSet(old)  BY PublishedFinite
  <1>7. IsFiniteSet(new) /\ Cardinality(new) = y - x
    <2>1. x + 1 \in Int /\ y \in Int /\ x \in Int  BY <1>1, OtelBoundsAssumption
    <2>2. /\ IsFiniteSet((x + 1)..y)
          /\ Cardinality((x + 1)..y) = IF x + 1 > y THEN 0 ELSE y - (x + 1) + 1
      BY <2>1, FS_Interval
    <2>3. IsFiniteSet({b}) /\ Cardinality({b}) = 1  BY FS_Singleton
    <2>4. Cardinality((x + 1)..y) = y - x  BY <1>1, <2>1, <2>2
    <2>5. /\ IsFiniteSet({b} \X ((x + 1)..y))
          /\ Cardinality({b} \X ((x + 1)..y)) = Cardinality({b}) * Cardinality((x + 1)..y)
      BY ONLY <2>2, <2>3, FS_Product
    <2>6. y - x \in Int  BY <2>1
    <2> QED  BY <2>3, <2>4, <2>5, <2>6
  <1>8. Cardinality(old \cup new) = Cardinality(old) + Cardinality(new)
    <2>1. Cardinality(old \cap new) = 0  BY <1>5, FS_EmptySet
    <2>2. Cardinality(old) \in Nat /\ Cardinality(new) \in Nat
      BY <1>6, <1>7, FS_CardinalityType
    <2>3. Cardinality(old \cup new)
            = Cardinality(old) + Cardinality(new) - Cardinality(old \cap new)
      BY <1>6, <1>7, FS_Union
    <2> QED  BY <2>1, <2>2, <2>3
  <1> QED  BY <1>3, <1>4, <1>7, <1>8 DEF Growth

\* What counters that began at base, and not before begin, show more than
\* counters that began at begin showed at mid, was published since.
LEMMA GrowthSplits ==
    ASSUME NEW S \in SUBSET Brokers, NEW T \in SUBSET Brokers, S \subseteq T,
           NEW begin \in Readings, NEW mid \in Readings,
           NEW base \in Readings, NEW end \in Readings,
           \A b \in Brokers : begin[b] <= base[b]
    PROVE  Growth(S, base, end) - Growth(T, begin, mid) <= Growth(S, mid, end)
  <1> DEFINE all == Published(S, base, end)
             before == Published(T, begin, mid)
             after == Published(S, mid, end)
  <1>1. all \subseteq before \cup after
    <2> SUFFICES ASSUME NEW e \in all, e \notin after PROVE e \in before
      OBVIOUS
    <2>1. PICK b \in S, i \in Nat : base[b] < i /\ i <= end[b] /\ e = <<b, i>>
      <3>1. e \in Published(S, base, end) /\ S \subseteq Brokers
        OBVIOUS
      <3> HIDE DEF all, before, after
      <3> QED
        BY <3>1, PublishedMember
    <2>2. ~(mid[b] < i /\ i <= end[b])  BY <2>1, PublishedMember
    <2>3. /\ begin[b] \in Nat /\ mid[b] \in Nat /\ base[b] \in Nat /\ end[b] \in Nat
          /\ begin[b] <= base[b]
      BY OtelBoundsAssumption DEF Readings
    <2>4. begin[b] < i /\ i <= mid[b]  BY <2>1, <2>2, <2>3
    <2> QED  BY <2>1, <2>4, PublishedMember
  <1>2. IsFiniteSet(all) /\ IsFiniteSet(before) /\ IsFiniteSet(after)
    BY PublishedFinite
  <1>3. /\ IsFiniteSet(before \cup after) /\ IsFiniteSet(before \cap after)
        /\ Cardinality(before \cup after)
             = Cardinality(before) + Cardinality(after) - Cardinality(before \cap after)
    <2>1. IsFiniteSet(before \cap after)  BY <1>2, FS_Intersection
    <2> QED  BY <2>1, <1>2, FS_Union
  <1>4. Cardinality(all) <= Cardinality(before \cup after)
    BY <1>1, <1>3, FS_Subset
  <1>5. /\ Cardinality(all) \in Nat
        /\ Cardinality(before) \in Nat
        /\ Cardinality(after) \in Nat
        /\ Cardinality(before \cap after) \in Nat /\ Cardinality(before \cup after) \in Nat
    BY <1>2, <1>3, FS_CardinalityType
  <1> QED  BY <1>3, <1>4, <1>5 DEF Growth

-----------------------------------------------------------------------------
(* The scrape loop and the driver's samples *)

View == [ok : BOOLEAN, total : Nat, rate : Int, seen : SUBSET Brokers,
         at : Readings, since : Readings, base : Readings]

OtelTypes ==
    /\ up \subseteq Brokers /\ urls \subseteq Brokers
    /\ count \in Readings /\ made \in Readings /\ mark \in Readings
    /\ prev \in [Brokers -> 0..MaxCount \cup {Never}]
    /\ sums \in View /\ otel \in View /\ a0 \in View /\ a1 \in View

\* A restart takes the counter back, and what was made does not go back with it.
Counters ==
    \A b \in Brokers :
        /\ count[b] <= made[b] /\ mark[b] <= made[b]
        /\ prev[b] # Never => count[b] - prev[b] <= made[b] - mark[b]

\* A view claims no more than its brokers did, and its total is what they did
\* since their counters began at zero.
Sound(v) ==
    /\ v.rate <= Growth(v.seen, v.since, v.at)
    /\ v.total = Growth(v.seen, v.base, v.at)

\* No counter of w began before it did in v.
Later(v, w) == \A b \in Brokers : v.base[b] <= w.base[b]

OtelInv ==
    /\ OtelTypes
    /\ Counters
    /\ sums.seen \cap urls = {}
    /\ Sound(sums) /\ Sound(otel) /\ Sound(a0) /\ Sound(a1)
    /\ Later(a0, otel) /\ Later(otel, sums)
    /\ \A b \in Brokers : sums.base[b] <= Zero[b]
    /\ stage = "measured" => Later(a0, a1)

\* Nothing is published at no broker.
LEMMA GrowthOfNone ==
    ASSUME NEW from, NEW to
    PROVE  Growth({}, from, to) = 0
  <1>1. Published({}, from, to) = {}  BY DEF Published
  <1> QED  BY <1>1, FS_EmptySet DEF Growth

LEMMA ZeroTyped ==
    ASSUME OtelTypes, Counters
    PROVE  /\ Zero \in Readings
           /\ \A b \in Brokers : Zero[b] = made[b] - count[b]
  BY OtelBoundsAssumption DEF OtelTypes, Counters, Readings, Zero

LEMMA ViewMade ==
    ASSUME NEW t \in Nat, NEW r \in Int, NEW S \in SUBSET Brokers,
           NEW f \in Readings, NEW g \in Readings, NEW h \in Readings
    PROVE  [ok |-> TRUE, total |-> t, rate |-> r, seen |-> S,
            at |-> f, since |-> g, base |-> h] \in View
  BY DEF View

LEMMA OtelInitInv == OtelInit => OtelInv
  <1> SUFFICES ASSUME OtelInit PROVE OtelInv
    OBVIOUS
  <1> USE OtelBoundsAssumption
  <1>1. NoView \in View
    BY DEF NoView, View, Readings
  <1>2. OtelTypes
    BY <1>1 DEF OtelInit, OtelTypes, Readings
  <1>3. Counters
    BY DEF OtelInit, Counters
  <1>4. Sound(NoView)
    BY GrowthOfNone DEF Sound, NoView
  <1>5. Later(NoView, NoView)
    BY DEF Later, NoView
  <1>6. \A b \in Brokers : NoView.base[b] <= Zero[b]
    BY DEF OtelInit, NoView, Zero
  <1>7. sums.seen \cap urls = {}
    BY DEF OtelInit, NoView
  <1> QED
    BY <1>2, <1>3, <1>4, <1>5, <1>6, <1>7 DEF OtelInit, OtelInv

\* A broker only ever counts further, or again from zero.
LEMMA BrokerStep ==
    ASSUME OtelInv, NEW b \in Brokers, Work(b) \/ Start(b) \/ Stop(b)
    PROVE  OtelInv'
  <1> USE OtelBoundsAssumption
  <1>1. UNCHANGED <<urls, sums, prev, mark, otel, stage, a0, a1>>
    BY DEF Work, Start, Stop, scrapeVars, driverVars
  <1>2. /\ up' \subseteq Brokers /\ count' \in Readings /\ made' \in Readings
        /\ \A c \in Brokers : /\ made[c] <= made'[c]
                              /\ \/ count'[c] = 0
                                 \/ count'[c] - count[c] = made'[c] - made[c]
    <2> USE DEF OtelInv, OtelTypes, Readings
    <2>1. CASE Work(b)
      <3>1. /\ up' = up /\ made[b] < MaxCount
            /\ count' = [count EXCEPT ![b] = count[b] + 1]
            /\ made' = [made EXCEPT ![b] = made[b] + 1]
        BY <2>1 DEF Work
      <3>2. count[b] < MaxCount  BY <3>1 DEF Counters
      <3> QED  BY <3>1, <3>2
    <2>2. CASE Start(b)
      BY <2>2 DEF Start
    <2>3. CASE Stop(b)
      BY <2>3 DEF Stop
    <2> QED  BY <2>1, <2>2, <2>3
  <1>3. OtelTypes'
    BY <1>1, <1>2 DEF OtelInv, OtelTypes
  <1>4. Counters'
    <2> SUFFICES ASSUME NEW c \in Brokers
                 PROVE  /\ count'[c] <= made'[c] /\ mark[c] <= made'[c]
                        /\ prev[c] # Never => count'[c] - prev[c] <= made'[c] - mark[c]
      BY <1>1 DEF Counters
    <2>1. /\ count[c] \in Nat /\ made[c] \in Nat /\ mark[c] \in Nat
          /\ count'[c] \in Nat /\ made'[c] \in Nat
          /\ prev[c] = Never \/ prev[c] \in Nat
      BY <1>2 DEF OtelInv, OtelTypes, Readings
    <2> QED  BY <1>2, <2>1 DEF OtelInv, Counters
  <1>5. \A c \in Brokers : Zero[c] <= Zero'[c]
    <2> SUFFICES ASSUME NEW c \in Brokers PROVE Zero[c] <= Zero'[c]
      OBVIOUS
    <2>1. /\ count[c] \in Nat /\ made[c] \in Nat /\ count[c] <= made[c]
          /\ count'[c] \in Nat /\ made'[c] \in Nat
      BY <1>2 DEF OtelInv, OtelTypes, Readings, Counters
    <2> QED  BY <1>2, <2>1 DEF Zero
  <1>6. \A c \in Brokers : sums'.base[c] <= Zero'[c]
    <2> SUFFICES ASSUME NEW c \in Brokers PROVE sums.base[c] <= Zero'[c]
      BY <1>1
    <2>1. sums.base[c] \in Nat /\ Zero[c] \in Nat /\ Zero'[c] \in Nat
      BY <1>3, <1>4, ZeroTyped DEF OtelInv, OtelTypes, View, Readings, Zero, Counters
    <2> QED  BY <1>5, <2>1 DEF OtelInv
  <1> QED
    BY <1>1, <1>3, <1>4, <1>6 DEF OtelInv, Sound, Later

LEMMA BeginPassStep ==
    ASSUME OtelInv, BeginPass
    PROVE  OtelInv'
  <1>1. /\ UNCHANGED <<up, count, made, prev, mark, otel, stage, a0, a1>>
        /\ sums' = [NoView EXCEPT !.at = made, !.base = Zero]
        /\ urls' \subseteq Brokers
    BY DEF BeginPass, brokerVars, driverVars, OtelInv, OtelTypes
  <1>2. /\ sums'.seen = {} /\ sums'.rate = 0 /\ sums'.total = 0
        /\ sums'.base = Zero /\ sums' \in View
    <2>1. sums' = [ok |-> FALSE, total |-> 0, rate |-> 0, seen |-> {}, at |-> made,
                   since |-> [b \in Brokers |-> 0], base |-> Zero]
      BY <1>1 DEF NoView
    <2>2. made \in Readings /\ Zero \in Readings /\ [b \in Brokers |-> 0] \in Readings
      BY ZeroTyped, OtelBoundsAssumption DEF OtelInv, OtelTypes, Readings
    <2> QED  BY <2>1, <2>2 DEF View
  <1>3. Zero' = Zero  BY <1>1 DEF Zero
  <1>4. Zero \in Readings  BY ZeroTyped DEF OtelInv
  <1>5. Sound(sums')
    BY <1>2, GrowthOfNone DEF Sound
  <1>6. \A b \in Brokers : sums'.base[b] <= Zero[b]
    BY <1>2, <1>4, OtelBoundsAssumption DEF Readings
  <1>7. Later(otel, sums')
    <2> SUFFICES ASSUME NEW b \in Brokers PROVE otel.base[b] <= Zero[b]
      BY <1>2 DEF Later
    <2>1. otel.base[b] \in Nat /\ sums.base[b] \in Nat /\ Zero[b] \in Nat
      BY <1>4, OtelBoundsAssumption DEF OtelInv, OtelTypes, View, Readings
    <2> QED  BY <2>1 DEF OtelInv, Later
  <1>8. OtelTypes' /\ Counters'
    BY <1>1, <1>2 DEF OtelInv, OtelTypes, Counters
  <1> QED
    BY <1>1, <1>2, <1>3, <1>5, <1>6, <1>7, <1>8 DEF OtelInv, Sound, Later

\* The heart of it: what a scrape adds to the sums, the broker did.
LEMMA ScrapeStep ==
    ASSUME OtelInv, NEW b \in Brokers, Scrape(b)
    PROVE  OtelInv'
  <1> DEFINE rate == IF prev[b] = Never THEN 0 ELSE count[b] - prev[b]
  <1> USE OtelBoundsAssumption
  <1>1. /\ UNCHANGED <<up, count, made, otel, stage, a0, a1>>
        /\ b \in urls /\ urls' = urls \ {b}
        /\ prev' = [prev EXCEPT ![b] = count[b]]
        /\ mark' = [mark EXCEPT ![b] = made[b]]
        /\ sums'.total = sums.total + count[b] /\ sums'.rate = sums.rate + rate
        /\ sums'.seen = sums.seen \cup {b}
        /\ sums'.at = [sums.at EXCEPT ![b] = made[b]]
        /\ sums'.since = [sums.since EXCEPT ![b] = mark[b]]
        /\ sums'.base = [sums.base EXCEPT ![b] = Zero[b]]
    BY DEF Scrape, brokerVars, driverVars
  <1>2. /\ count[b] \in Nat /\ made[b] \in 0..MaxCount /\ mark[b] \in 0..MaxCount
        /\ Zero[b] \in 0..MaxCount /\ Zero[b] = made[b] - count[b]
        /\ mark[b] <= made[b] /\ Zero[b] <= made[b]
        /\ rate \in Int /\ rate <= made[b] - mark[b]
    <2>1. /\ count[b] \in 0..MaxCount /\ made[b] \in 0..MaxCount /\ mark[b] \in 0..MaxCount
          /\ prev[b] = Never \/ prev[b] \in Nat
          /\ count[b] <= made[b] /\ mark[b] <= made[b]
          /\ prev[b] # Never => count[b] - prev[b] <= made[b] - mark[b]
      BY DEF OtelInv, OtelTypes, Readings, Counters
    <2>2. Zero[b] \in 0..MaxCount /\ Zero[b] = made[b] - count[b]
      BY ZeroTyped DEF OtelInv, Readings
    <2> QED  BY <2>1, <2>2
  <1>3. /\ sums \in View /\ sums.seen \subseteq Brokers /\ b \notin sums.seen
        /\ sums.at \in Readings /\ sums.since \in Readings /\ sums.base \in Readings
        /\ sums.total \in Nat /\ sums.rate \in Int
    BY <1>1 DEF OtelInv, OtelTypes, View
  <1>4. sums' \in View
    <2>1. /\ sums'.at \in Readings /\ sums'.since \in Readings /\ sums'.base \in Readings
      BY <1>1, <1>2, <1>3 DEF Readings
    <2>2. sums' = [ok |-> TRUE, total |-> sums'.total, rate |-> sums'.rate,
                   seen |-> sums'.seen, at |-> sums'.at, since |-> sums'.since,
                   base |-> sums'.base]
      <3>1. sums' = [ok |-> TRUE, total |-> sums.total + count[b], rate |-> sums.rate + rate,
                     seen |-> sums.seen \cup {b},
                     at |-> [sums.at EXCEPT ![b] = made[b]],
                     since |-> [sums.since EXCEPT ![b] = mark[b]],
                     base |-> [sums.base EXCEPT ![b] = Zero[b]]]
        BY DEF Scrape
      <3> QED  BY ONLY <3>1, <1>1
    <2>3. sums'.total \in Nat /\ sums'.rate \in Int /\ sums'.seen \subseteq Brokers
      BY <1>1, <1>2, <1>3
    <2> QED  BY <2>1, <2>2, <2>3, ViewMade
  <1>5. OtelTypes'
    BY <1>1, <1>2, <1>4 DEF OtelInv, OtelTypes, Readings
  <1>6. Counters'
    <2> SUFFICES ASSUME NEW c \in Brokers
                 PROVE  /\ count[c] <= made[c] /\ mark'[c] <= made[c]
                        /\ prev'[c] # Never => count[c] - prev'[c] <= made[c] - mark'[c]
      BY <1>1 DEF Counters
    <2>1. CASE c = b
      BY <1>1, <1>2, <2>1 DEF OtelInv, OtelTypes, Readings
    <2>2. CASE c # b
      BY <1>1, <2>2 DEF OtelInv, OtelTypes, Readings, Counters
    <2> QED  BY <2>1, <2>2
  <1>7. Sound(sums')
    <2>1. Growth(sums'.seen, sums'.since, sums'.at)
            = Growth(sums.seen, sums.since, sums.at) + (made[b] - mark[b])
      <3>1. sums'.at[b] = made[b] /\ sums'.since[b] = mark[b]
        BY <1>1, <1>3 DEF Readings
      <3>2. \A c \in sums.seen : sums'.since[c] = sums.since[c] /\ sums'.at[c] = sums.at[c]
        BY <1>1, <1>3 DEF Readings
      <3>3. sums'.since \in Readings /\ sums'.at \in Readings
        BY <1>4 DEF View
      <3>4. sums'.seen = sums.seen \cup {b} /\ sums'.since[b] <= sums'.at[b]
        BY <1>1, <1>2, <3>1
      <3> QED  BY <1>3, <3>1, <3>2, <3>3, <3>4, GrowthAdds
    <2>2. Growth(sums'.seen, sums'.base, sums'.at)
            = Growth(sums.seen, sums.base, sums.at) + (made[b] - Zero[b])
      <3>1. sums'.at[b] = made[b] /\ sums'.base[b] = Zero[b]
        BY <1>1, <1>3 DEF Readings
      <3>2. \A c \in sums.seen : sums'.base[c] = sums.base[c] /\ sums'.at[c] = sums.at[c]
        BY <1>1, <1>3 DEF Readings
      <3>3. sums'.base \in Readings /\ sums'.at \in Readings
        BY <1>4 DEF View
      <3>4. sums'.seen = sums.seen \cup {b} /\ sums'.base[b] <= sums'.at[b]
        BY <1>1, <1>2, <3>1
      <3> QED  BY <1>3, <3>1, <3>2, <3>3, <3>4, GrowthAdds
    <2>3. Growth(sums.seen, sums.since, sums.at) \in Nat
      BY <1>3, PublishedFinite
    <2>4. Sound(sums)  BY DEF OtelInv
    <2>5. sums'.rate <= Growth(sums'.seen, sums'.since, sums'.at)
      BY <1>1, <1>2, <1>3, <2>1, <2>3, <2>4 DEF Sound
    <2>6. sums'.total = Growth(sums'.seen, sums'.base, sums'.at)
      BY <1>1, <1>2, <1>3, <2>2, <2>4 DEF Sound
    <2> QED  BY <2>5, <2>6 DEF Sound
  <1>8. Zero' = Zero  BY <1>1 DEF Zero
  <1>9. /\ \A c \in Brokers : sums'.base[c] <= Zero[c]
        /\ Later(otel, sums')
    <2> SUFFICES ASSUME NEW c \in Brokers
                 PROVE  sums'.base[c] <= Zero[c] /\ otel.base[c] <= sums'.base[c]
      BY DEF Later
    <2>1. /\ otel.base[c] <= sums.base[c] /\ sums.base[c] <= Zero[c]
          /\ otel.base[c] \in Nat /\ sums.base[c] \in Nat /\ Zero[c] \in Nat
      BY ZeroTyped DEF OtelInv, OtelTypes, View, Readings, Later
    <2>2. sums'.base[c] = IF c = b THEN Zero[c] ELSE sums.base[c]
      BY <1>1, <1>3 DEF Readings
    <2> QED  BY <2>1, <2>2
  <1>10. sums'.seen \cap urls' = {}
    BY <1>1, <1>3 DEF OtelInv
  <1> QED
    BY <1>1, <1>5, <1>6, <1>7, <1>8, <1>9, <1>10 DEF OtelInv, Sound, Later

\* What does not touch the counters: a failed scrape, the end of a pass, and
\* the driver, which only copies what is published.
LEMMA OtherStep ==
    ASSUME OtelInv,
           \/ \E b \in Brokers : ScrapeFails(b)
           \/ EndPass \/ Ready \/ FirstSample \/ SecondSample \/ GiveUp
           \/ UNCHANGED otelVars
    PROVE  OtelInv'
  <1> USE DEF brokerVars, scrapeVars, driverVars
  <1>1. UNCHANGED <<up, count, made, sums, prev, mark>> /\ urls' \subseteq urls
    BY DEF ScrapeFails, EndPass, Ready, FirstSample, SecondSample, GiveUp, otelVars
  <1>2. otel' \in {otel, sums} /\ a0' \in {a0, otel} /\ a1' \in {a1, otel}
    BY DEF ScrapeFails, EndPass, Ready, FirstSample, SecondSample, GiveUp, otelVars
  <1>3. /\ otel' = otel \/ (a0' = a0 /\ a1' = a1 /\ stage' = stage)
        /\ stage' = "measured" => a0' = a0 /\ (a1' = otel \/ (a1' = a1 /\ stage = "measured"))
    BY DEF ScrapeFails, EndPass, Ready, FirstSample, SecondSample, GiveUp, otelVars
  <1>4. OtelTypes' /\ Counters'
    BY <1>1, <1>2 DEF OtelInv, OtelTypes, Counters
  <1>5. Sound(sums') /\ Sound(otel') /\ Sound(a0') /\ Sound(a1')
    BY <1>1, <1>2 DEF OtelInv
  <1>6. /\ Later(otel, sums) /\ Later(otel, otel) /\ Later(sums, sums)
        /\ Later(a0, otel) /\ Later(a0, sums)
    <2>1. /\ Later(otel, sums) /\ Later(a0, otel)  BY DEF OtelInv
    <2>2. \A b \in Brokers : otel.base[b] \in Nat /\ sums.base[b] \in Nat /\ a0.base[b] \in Nat
      BY OtelBoundsAssumption DEF OtelInv, OtelTypes, View, Readings
    <2> QED  BY <2>1, <2>2 DEF Later
  <1>7. Later(otel', sums') /\ Later(a0', otel')
    BY <1>1, <1>2, <1>3, <1>6
  <1>8. stage' = "measured" => Later(a0', a1')
    BY <1>3, <1>6 DEF OtelInv
  <1>9. \A b \in Brokers : sums'.base[b] <= Zero'[b]
    BY <1>1 DEF OtelInv, Zero
  <1> QED
    BY <1>1, <1>4, <1>5, <1>7, <1>8, <1>9 DEF OtelInv, Sound, Later

LEMMA OtelStep == OtelInv /\ [OtelNext]_otelVars => OtelInv'
  BY BrokerStep, BeginPassStep, ScrapeStep, OtherStep DEF OtelNext

THEOREM OtelInvariant == OtelSpec => []OtelInv
  BY OtelInitInv, OtelStep, PTL DEF OtelSpec

\* No published rate overstates, for any number of brokers, restarts, departures
\* and passes without an answer (_otel_loop).
THEOREM RatesHold == OtelSpec => []RatesNeverOverstate
  <1>1. OtelInv => RatesNeverOverstate
    BY DEF OtelInv, Sound, RatesNeverOverstate
  <1> QED  BY <1>1, OtelInvariant, PTL

\* No reported difference overstates, if the second sample has no broker that
\* the first had not (run_cell).
THEOREM DeltasHold == OtelSpec => []DeltaNeverOverstates
  <1>1. ASSUME OtelInv PROVE DeltaNeverOverstates
    <2> SUFFICES ASSUME stage = "measured", a1.seen \subseteq a0.seen
                 PROVE  a1.total - a0.total <= Growth(a1.seen, a0.at, a1.at)
      BY DEF DeltaNeverOverstates
    <2>1. /\ a0.seen \in SUBSET Brokers /\ a1.seen \in SUBSET Brokers
          /\ a0.base \in Readings /\ a0.at \in Readings
          /\ a1.base \in Readings /\ a1.at \in Readings
      BY <1>1 DEF OtelInv, OtelTypes, View
    <2>2. \A b \in Brokers : a0.base[b] <= a1.base[b]
      BY <1>1 DEF OtelInv, Later
    <2>3. Growth(a1.seen, a1.base, a1.at) - Growth(a0.seen, a0.base, a0.at)
            <= Growth(a1.seen, a0.at, a1.at)
      BY <2>1, <2>2, GrowthSplits
    <2> QED  BY <1>1, <2>3 DEF OtelInv, Sound
  <1> QED  BY <1>1, OtelInvariant, PTL

-----------------------------------------------------------------------------
(* The driver's cells *)

Result == [cell : Nat, ack : {"ok", "low", "none"}, deliv : 0..MaxDeliv]
Places == {"build", "next", "teardown", "up", "wait", "sample", "down", "record",
           "decide", "done", "dead"}

SweepTypes ==
    /\ mode \in {"matrix", "cells", "brokers", "sweep"}
    /\ pc \in Places
    /\ cell \in Nat \ {0}
    /\ res \in Result \cup {None} /\ (pc = "decide" => res \in Result)
    /\ results \in Seq(Result)
    /\ peak \in Nat /\ lows \in Nat
    /\ stack \in Nat \cup {None} /\ volumes \in SUBSET Nat
    /\ failedDown \in BOOLEAN

NothingLeft == stack = None /\ volumes = {}

\* A driver that was killed may find a stack of its own; it begins with the
\* first cell, and a list without cells never had a stack.
CellInv ==
    /\ pc = "build" => cell = 1
    /\ mode # "sweep" /\ Cells = 0 =>
         NothingLeft /\ pc \in {"build", "next", "done", "dead"}
    /\ pc = "next" /\ cell > 1 => failedDown \/ NothingLeft
    /\ pc = "up" => failedDown \/ NothingLeft
    /\ pc \in {"wait", "sample"} => stack = cell /\ (failedDown \/ volumes = {cell})
    /\ CleanBetweenCells

\* The results the loop has looked at.
Judged == IF pc = "decide" THEN Len(results) - 1 ELSE Len(results)

\* While a sweep runs, peak is the highest rate of the judged results, and lows
\* says whether the last of them collapsed: two in a row would have ended it.
StopInv ==
    /\ pc = "decide" =>
         Len(results) > 0 /\ results[Len(results)] = res
    /\ mode = "sweep" /\ pc \notin {"done", "dead"} =>
         /\ ceiling = None
         /\ \A i \in 1..Judged : results[i].deliv <= peak /\ ~AtCeiling(results, i)
         /\ peak = 0 \/ \E i \in 1..Judged : results[i].deliv = peak
         /\ lows = IF Judged > 0 /\ Collapsed(results, Judged) THEN 1 ELSE 0
    /\ mode = "sweep" /\ pc \in {"done", "dead"} =>
         /\ \A i \in 1..(Len(results) - 1) : ~AtCeiling(results, i)
         /\ pc = "done" => ceiling = "keepalive" \/ AtCeiling(results, Len(results))

SweepInv == SweepTypes /\ CellInv /\ StopInv

LEMMA SweepInitInv == SweepInit => SweepInv
  <1> SUFFICES ASSUME SweepInit PROVE SweepInv
    OBVIOUS
  <1>1. SweepTypes
    <2>1. <<>> \in Seq(Result)  OBVIOUS
    <2>2. mode \in {"matrix", "cells", "brokers", "sweep"}
      BY CellsAssumption DEF SweepInit
    <2>3. /\ pc = "build" /\ cell = 1 /\ res = None /\ results = <<>> /\ peak = 0 /\ lows = 0
          /\ stack = None /\ volumes = {} /\ failedDown \in BOOLEAN
      BY DEF SweepInit
    <2> QED  BY <2>1, <2>2, <2>3 DEF SweepTypes, Places
  <1>2. CellInv
    BY DEF SweepInit, CellInv, CleanBetweenCells, NothingLeft
  <1>3. StopInv
    BY DEF SweepInit, StopInv, Judged
  <1> QED  BY <1>1, <1>2, <1>3 DEF SweepInv

\* down removes all, or says that it failed.
LEMMA DownCleans ==
    ASSUME SweepTypes, ComposeDown
    PROVE  /\ failedDown' \/ NothingLeft'
           /\ stack' \in {stack, None} /\ volumes' \in {volumes, {}}
           /\ failedDown' \in BOOLEAN
  BY DEF SweepTypes, ComposeDown, NothingLeft

LEMMA SweepTypesStep == SweepTypes /\ [SweepNext]_sweepVars => SweepTypes'
  <1> SUFFICES ASSUME SweepTypes, [SweepNext]_sweepVars PROVE SweepTypes'
    OBVIOUS
  <1> USE DEF SweepTypes, Places, loopVars, dockerVars
  <1>1. CASE Build  BY <1>1 DEF Build
  <1>2. CASE NextCell  BY <1>2 DEF NextCell
  <1>3. CASE TearDown  BY <1>3, DownCleans DEF TearDown
  <1>4. CASE Up  BY <1>4 DEF Up
  <1>5. CASE WaitReady  BY <1>5 DEF WaitReady
  <1>6. CASE Sample
    <2>1. res' \in Result \cup {None}
      BY <1>6 DEF Sample, Result
    <2> QED  BY <1>6, <2>1 DEF Sample
  <1>7. CASE CellDown  BY <1>7, DownCleans DEF CellDown
  <1>8. CASE RecordResult
    <2>1. results' \in Seq(Result)
      BY <1>8 DEF RecordResult
    <2> QED  BY <1>8, <2>1 DEF RecordResult
  <1>9. CASE NoResult
    <2>1. pc' \in Places /\ cell' \in Nat \ {0}
      BY <1>9 DEF NoResult
    <2> QED  BY <1>9, <2>1 DEF NoResult
  <1>10. CASE DecideList  BY <1>10 DEF DecideList
  <1>11. CASE DecideSweep
    <2>1. pc' \in Places /\ cell' \in Nat \ {0}
      BY <1>11 DEF DecideSweep
    <2>2. res.deliv \in Nat
      BY <1>11, SweepBoundsAssumption DEF DecideSweep, Result
    <2>3. peak' \in Nat /\ lows' \in Nat
      BY <1>11, <2>2 DEF DecideSweep
    <2> QED  BY <1>11, <2>1, <2>3 DEF DecideSweep
  <1>12. CASE Exhausted
    BY <1>12, DownCleans DEF Exhausted
  <1>13. CASE Kill  BY <1>13 DEF Kill
  <1>14. CASE Rerun  BY <1>14 DEF Rerun
  <1>15. CASE UNCHANGED sweepVars  BY <1>15 DEF sweepVars
  <1> QED
    BY <1>1, <1>2, <1>3, <1>4, <1>5, <1>6, <1>7, <1>8, <1>9, <1>10, <1>11, <1>12,
     <1>13, <1>14, <1>15 DEF SweepNext, Driver

\* Each step keeps the cells apart.
LEMMA CellStep ==
    ASSUME SweepTypes, CellInv, [SweepNext]_sweepVars
    PROVE  CellInv'
  <1> USE CellsAssumption, NoneAssumption
          DEF CellInv, CleanBetweenCells, NothingLeft, loopVars, dockerVars
  <1>1. CASE Build  BY <1>1 DEF Build
  <1>2. CASE NextCell  BY <1>2 DEF NextCell, SweepTypes
  <1>3. CASE TearDown  BY <1>3, DownCleans DEF TearDown
  <1>4. CASE Up  BY <1>4 DEF Up
  <1>5. CASE WaitReady  BY <1>5 DEF WaitReady
  <1>6. CASE Sample  BY <1>6 DEF Sample
  <1>7. CASE CellDown  BY <1>7, DownCleans DEF CellDown
  <1>8. CASE RecordResult  BY <1>8 DEF RecordResult
  <1>9. CASE NoResult  BY <1>9 DEF NoResult
  <1>10. CASE DecideList  BY <1>10 DEF DecideList
  <1>11. CASE DecideSweep  BY <1>11 DEF DecideSweep
  <1>12. CASE Exhausted
    <2>1. CASE mode = "brokers"
      <3>1. /\ pc = "next" /\ cell > Cells /\ pc' = "done"
            /\ UNCHANGED <<mode, cell, stack, volumes, failedDown>>
        BY <1>12, <2>1 DEF Exhausted
      <3>2. Cells = 0 \/ cell > 1  BY <3>1 DEF SweepTypes
      <3> QED  BY <2>1, <3>1, <3>2
    <2>2. CASE mode # "brokers"
      BY <1>12, <2>2, DownCleans DEF Exhausted
    <2> QED  BY <2>1, <2>2
  <1>13. CASE Kill  BY <1>13 DEF Kill
  <1>14. CASE Rerun  BY <1>14 DEF Rerun
  <1>15. CASE UNCHANGED sweepVars  BY <1>15 DEF sweepVars
  <1> QED
    BY <1>1, <1>2, <1>3, <1>4, <1>5, <1>6, <1>7, <1>8, <1>9, <1>10, <1>11, <1>12,
     <1>13, <1>14, <1>15 DEF SweepNext, Driver

\* A further result changes nothing in the judgement of the earlier ones.
LEMMA JudgedForGood ==
    ASSUME NEW rs \in Seq(Result), NEW r \in Result, NEW i \in 1..Len(rs)
    PROVE  /\ Append(rs, r)[i] = rs[i]
           /\ Collapsed(Append(rs, r), i) <=> Collapsed(rs, i)
           /\ AtCeiling(Append(rs, r), i) <=> AtCeiling(rs, i)
  <1>1. \A j \in 1..i : Append(rs, r)[j] = rs[j]
    OBVIOUS
  <1>2. \A j \in 1..i : Collapsed(Append(rs, r), j) <=> Collapsed(rs, j)
    BY <1>1 DEF Collapsed
  <1> QED  BY <1>1, <1>2 DEF AtCeiling

\* A step that neither records nor decides changes nothing that is judged.
LEMMA NotJudging ==
    ASSUME SweepTypes, StopInv, UNCHANGED <<mode, results, peak, lows, ceiling>>,
           pc \notin {"decide", "done", "dead"}, pc' \notin {"decide", "done"}
    PROVE  StopInv'
  <1>1. Judged = Len(results) /\ Judged' = Len(results)
    BY DEF Judged
  <1> QED  BY <1>1 DEF StopInv

LEMMA StopRecord ==
    ASSUME SweepTypes, StopInv, RecordResult
    PROVE  StopInv'
  <1>1. /\ res \in Result /\ results \in Seq(Result) /\ results' = Append(results, res)
        /\ res' = res /\ UNCHANGED <<mode, peak, lows, ceiling>>
        /\ pc = "record" /\ pc' = "decide"
    BY DEF RecordResult, SweepTypes
  <1>2. /\ Len(results') = Len(results) + 1 /\ results'[Len(results')] = res
        /\ Len(results) \in Nat
    BY <1>1
  <1>3. Judged' = Len(results) /\ Judged = Len(results)
    BY <1>1, <1>2 DEF Judged
  <1>4. \A i \in 1..Len(results) : /\ results'[i] = results[i]
                                   /\ Collapsed(results', i) <=> Collapsed(results, i)
                                   /\ AtCeiling(results', i) <=> AtCeiling(results, i)
    BY <1>1, JudgedForGood
  <1>5. Judged > 0 => Judged \in 1..Len(results)
    BY <1>2, <1>3
  <1> QED  BY <1>1, <1>2, <1>3, <1>4, <1>5 DEF StopInv

\* The stop rules, on a result that is at the peak, below it, or low.
LEMMA StopDecide ==
    ASSUME SweepTypes, StopInv, DecideSweep
    PROVE  StopInv'
  <1> DEFINE n == Len(results)
  <1>1. /\ pc = "decide" /\ mode = "sweep" /\ mode' = mode
        /\ results' = results /\ res \in Result /\ results[n] = res
        /\ n \in Nat /\ n > 0 /\ Judged = n - 1
        /\ results \in Seq(Result)
    BY DEF DecideSweep, StopInv, SweepTypes, Judged
  <1>2. /\ ceiling = None
        /\ \A i \in 1..(n - 1) : results[i].deliv <= peak /\ ~AtCeiling(results, i)
        /\ peak = 0 \/ \E i \in 1..(n - 1) : results[i].deliv = peak
        /\ lows = IF n - 1 > 0 /\ Collapsed(results, n - 1) THEN 1 ELSE 0
    BY <1>1 DEF StopInv
  <1>3. /\ peak \in Nat /\ res.deliv \in Nat
        /\ \A i \in 1..n : results[i] \in Result /\ results[i].deliv \in Nat
    <2>1. \A r \in Result : r.deliv \in Nat
      BY SweepBoundsAssumption DEF Result
    <2> QED  BY <1>1, <2>1 DEF SweepTypes
  <1>4. peak' = IF res.deliv > peak THEN res.deliv ELSE peak
    BY DEF DecideSweep
  <1>5. /\ peak' \in Nat
        /\ \A i \in 1..n : results[i].deliv <= peak'
        /\ peak' = 0 \/ \E i \in 1..n : results[i].deliv = peak'
    <2>1. peak' \in Nat  BY <1>3, <1>4
    <2>2. \A i \in 1..n : results[i].deliv <= peak'
      <3> SUFFICES ASSUME NEW i \in 1..n PROVE results[i].deliv <= peak'
        OBVIOUS
      <3>1. CASE i = n  BY <3>1, <1>1, <1>3, <1>4
      <3>2. CASE i # n
        <4>1. i \in 1..(n - 1)  BY <3>2, <1>1
        <4>2. results[i].deliv <= peak  BY <4>1, <1>2
        <4> QED  BY <4>2, <1>3, <1>4
      <3> QED  BY <3>1, <3>2
    <2>3. peak' = 0 \/ \E i \in 1..n : results[i].deliv = peak'
      <3>1. CASE res.deliv > peak
        <4>1. n \in 1..n  BY <1>1
        <4> QED  BY <3>1, <4>1, <1>1, <1>4
      <3>2. CASE ~(res.deliv > peak) /\ peak # 0
        <4>1. PICK i \in 1..(n - 1) : results[i].deliv = peak  BY <3>2, <1>2
        <4>2. i \in 1..n  BY <1>1
        <4> QED  BY <3>2, <4>1, <4>2, <1>4
      <3>3. CASE ~(res.deliv > peak) /\ peak = 0  BY <3>3, <1>4
      <3> QED  BY <3>1, <3>2, <3>3
    <2> QED  BY <2>1, <2>2, <2>3
  <1>6. Collapsed(results, n) <=> 10 * res.deliv < 6 * peak'
    <2>1. ASSUME NEW i \in 1..n, 10 * res.deliv < 6 * results[i].deliv
          PROVE  10 * res.deliv < 6 * peak'
      BY <2>1, <1>3, <1>5
    <2>2. ASSUME 10 * res.deliv < 6 * peak'
          PROVE  \E i \in 1..n : 10 * res.deliv < 6 * results[i].deliv
      <3>1. peak' # 0  BY <2>2, <1>3
      <3> QED  BY <2>2, <3>1, <1>5
    <2> QED  BY <2>1, <2>2, <1>1 DEF Collapsed
  <1>7. CASE res.ack = "low"
    <2>1. ceiling' = "fairness" /\ ceiling' # ceiling
      BY <1>2, <1>7, NoneAssumption DEF DecideSweep
    <2>2. pc' = "done"  BY <2>1 DEF DecideSweep
    <2>3. AtCeiling(results, n)  BY <1>1, <1>7 DEF AtCeiling
    <2> QED  BY <1>1, <1>2, <2>2, <2>3 DEF StopInv
  <1>8. CASE res.ack # "low" /\ Collapsed(results, n) /\ n - 1 > 0 /\ Collapsed(results, n - 1)
    <2>1. lows' = 2  BY <1>2, <1>6, <1>8 DEF DecideSweep
    <2>2. ceiling' = "throughput" /\ ceiling' # ceiling
      BY <1>2, <1>8, <2>1, NoneAssumption DEF DecideSweep
    <2>3. pc' = "done"  BY <2>2 DEF DecideSweep
    <2>4. AtCeiling(results, n)  BY <1>1, <1>8 DEF AtCeiling
    <2> QED  BY <1>1, <1>2, <2>3, <2>4 DEF StopInv
  <1>9. CASE /\ res.ack # "low"
             /\ ~(Collapsed(results, n) /\ n - 1 > 0 /\ Collapsed(results, n - 1))
    <2>1. lows' = IF Collapsed(results, n) THEN 1 ELSE 0
      BY <1>2, <1>6, <1>9 DEF DecideSweep
    <2>2. ceiling' = None /\ ceiling' = ceiling
      BY <1>2, <1>9, <2>1 DEF DecideSweep
    <2>3. pc' = "next"  BY <2>2 DEF DecideSweep
    <2>4. ~AtCeiling(results, n)  BY <1>1, <1>9 DEF AtCeiling
    <2>5. Judged' = n  BY <1>1, <2>3 DEF Judged
    <2>6. \A i \in 1..n : ~AtCeiling(results, i)
      <3> SUFFICES ASSUME NEW i \in 1..n PROVE ~AtCeiling(results, i)
        OBVIOUS
      <3>1. i = n \/ i \in 1..(n - 1)  BY <1>1
      <3> QED  BY <3>1, <2>4, <1>2
    <2> HIDE DEF n
    <2> QED  BY <1>1, <1>5, <2>1, <2>2, <2>3, <2>5, <2>6 DEF StopInv
  <1> QED  BY <1>7, <1>8, <1>9

LEMMA StopStep ==
    ASSUME SweepTypes, StopInv, [SweepNext]_sweepVars
    PROVE  StopInv'
  <1>1. CASE Build \/ NextCell \/ TearDown \/ Up \/ WaitReady \/ Sample \/ CellDown
    <2>1. /\ UNCHANGED <<mode, results, peak, lows, ceiling>>
          /\ pc \notin {"decide", "done", "dead"} /\ pc' \notin {"decide", "done"}
      BY <1>1 DEF Build, NextCell, TearDown, Up, WaitReady, Sample, CellDown,
                  loopVars
    <2> QED  BY <2>1, NotJudging
  <1>2. CASE RecordResult  BY <1>2, StopRecord
  <1>3. CASE NoResult
    <2>1. /\ UNCHANGED <<mode, results, peak, lows>> /\ pc = "record"
          /\ IF mode = "sweep" THEN pc' = "done" /\ ceiling' = "keepalive"
                               ELSE pc' = "next" /\ ceiling' = ceiling
      BY <1>3 DEF NoResult
    <2>2. Len(results) \in Nat /\ Judged = Len(results)
      BY <2>1 DEF SweepTypes, Judged
    <2> QED  BY <2>1, <2>2 DEF StopInv
  <1>4. CASE DecideList
    BY <1>4 DEF DecideList, StopInv
  <1>5. CASE DecideSweep  BY <1>5, StopDecide
  <1>6. CASE Exhausted
    BY <1>6 DEF Exhausted, StopInv, loopVars
  <1>7. CASE Kill
    <2>1. /\ UNCHANGED <<mode, results>> /\ pc \notin {"done", "dead"} /\ pc' = "dead"
      BY <1>7 DEF Kill, loopVars
    <2>2. Len(results) \in Nat /\ Judged \in {Len(results), Len(results) - 1}
      BY DEF SweepTypes, Judged
    <2> QED  BY <2>1, <2>2 DEF StopInv
  <1>8. CASE Rerun
    <2>1. /\ results' = <<>> /\ peak' = 0 /\ lows' = 0 /\ ceiling' = None /\ pc' = "build"
      BY <1>8 DEF Rerun
    <2> QED  BY <2>1 DEF StopInv, Judged
  <1>9. CASE UNCHANGED sweepVars
    BY <1>9 DEF sweepVars, loopVars, StopInv, Judged
  <1> QED
    BY <1>1, <1>2, <1>3, <1>4, <1>5, <1>6, <1>7, <1>8, <1>9 DEF SweepNext, Driver

THEOREM SweepInvariant == SweepSpec => []SweepInv
  <1>1. SweepInv /\ [SweepNext]_sweepVars => SweepInv'
    BY SweepTypesStep, CellStep, StopStep DEF SweepInv
  <1> QED  BY <1>1, SweepInitInv, PTL DEF SweepSpec

\* Cells do not see each other, whatever fails and wherever a driver is killed
\* (run_cell, teardown).
THEOREM CellsSeparate == SweepSpec => []SeparateCells
  <1>1. SweepInv => SeparateCells
    BY DEF SweepInv, CellInv, SeparateCells
  <1> QED  BY <1>1, SweepInvariant, PTL

\* A sweep ends at the first ceiling its docstring defines, for any number of
\* cells and any rates (sweep_88).
THEOREM CeilingIsFirst == SweepSpec => []StopsAtFirstCeiling
  <1>1. ASSUME SweepInv PROVE StopsAtFirstCeiling
    <2>1. Len(results) \in Nat /\ Judged \in {Len(results), Len(results) - 1}
      BY <1>1 DEF SweepInv, SweepTypes, Judged
    <2>2. pc = "next" => Judged = Len(results)  BY DEF Judged
    <2>3. CASE pc = "next" /\ Len(results) = 0
      BY <1>1, <2>1, <2>3 DEF SweepInv, StopInv, StopsAtFirstCeiling, AtCeiling
    <2>4. CASE ~(pc = "next" /\ Len(results) = 0)
      BY <1>1, <2>1, <2>2, <2>4 DEF SweepInv, StopInv, StopsAtFirstCeiling
    <2> QED  BY <2>3, <2>4
  <1> QED  BY <1>1, SweepInvariant, PTL

-----------------------------------------------------------------------------
(* The throughput panel *)

\* What is recorded was drawn, each record is of at most one new message, and
\* the highest number recorded was drawn.
SeenInv ==
    /\ drawn \in Nat
    /\ queued \subseteq 1..drawn
    /\ seen \subseteq 1..drawn
    /\ highest_seq \in 0..drawn
    /\ total \in Nat
    /\ IsFiniteSet(seen) /\ Cardinality(seen) <= total

LEMMA SeenInit == Init => SeenInv
  BY FS_EmptySet DEF Init, SeenInv

\* Recording a delivery counts at least what it adds to seen.
LEMMA RecordCounts ==
    ASSUME SeenInv, NEW s \in queued, NEW lat, Record(s, lat)
    PROVE  /\ total' = total + 1
           /\ IsFiniteSet(seen') /\ Cardinality(seen') <= total'
           /\ seen' \subseteq 1..drawn
           /\ highest_seq' \in 0..drawn
  <1>1. total' = total + 1 /\ seen' = seen \union {s}
    BY DEF Record
  <1>2. /\ IsFiniteSet(seen')
        /\ Cardinality(seen') = IF s \in seen THEN Cardinality(seen)
                                ELSE Cardinality(seen) + 1
    BY <1>1, FS_AddElement DEF SeenInv
  <1>3. Cardinality(seen) \in Nat  BY FS_CardinalityType DEF SeenInv
  <1>4. Cardinality(seen') <= total'
    BY <1>1, <1>2, <1>3 DEF SeenInv
  <1>5. s \in 1..drawn  BY DEF SeenInv
  <1>6. highest_seq' \in 0..drawn
    BY <1>5 DEF SeenInv, Record
  <1> QED  BY <1>1, <1>2, <1>4, <1>5, <1>6 DEF SeenInv

LEMMA SeenStep == SeenInv /\ [Next]_vars => SeenInv'
  <1> SUFFICES ASSUME SeenInv, [Next]_vars PROVE SeenInv'
    OBVIOUS
  <1>1. CASE Publish
    <2>1. drawn' = drawn + 1 /\ UNCHANGED <<queued, seen, highest_seq, total>>
      BY <1>1 DEF Publish, streamVars, statVars
    <2> QED  BY <2>1 DEF SeenInv
  <1>2. CASE Offer
    <2>1. PICK s \in 1..drawn \ queued : queued' = queued \union {s}
      BY <1>2 DEF Offer
    <2>2. UNCHANGED <<drawn, seen, highest_seq, total>>
      BY <1>2 DEF Offer, Disturb, clientVars, statVars
    <2> QED  BY <2>1, <2>2 DEF SeenInv
  <1>3. CASE End
    BY <1>3 DEF End, Disturb, statVars, SeenInv
  <1>4. CASE Deliver
    <2>1. PICK s \in queued, lat \in Latencies \union {Skew} :
              queued' = queued \ {s} /\ Record(s, lat)
      BY <1>4 DEF Deliver
    <2>2. drawn' = drawn  BY <1>4 DEF Deliver, clientVars
    <2> QED  BY <2>1, <2>2, RecordCounts DEF SeenInv
  <1>5. CASE Tick \/ Subscribe \/ StreamEnds \/ Snapshot \/ UNCHANGED vars
    <2>1. UNCHANGED <<drawn, queued, seen, highest_seq, total>>
      BY <1>5 DEF Tick, Subscribe, StreamEnds, Snapshot,
                  vars, clientVars, streamVars, statVars
    <2> QED  BY <2>1 DEF SeenInv
  <1> QED
    BY <1>1, <1>2, <1>3, <1>4, <1>5 DEF Next

\* approx_missing never exceeds what the observer was not given, for any number
\* of messages, evictions and second deliveries.
THEOREM GapsAreRealHolds == Spec => []GapsAreReal
  <1>1. ASSUME SeenInv PROVE GapsAreReal
    <2>1. IsFiniteSet(1..drawn) /\ Cardinality(1..drawn) = drawn
      BY <1>1, FS_Interval DEF SeenInv
    <2>2. /\ IsFiniteSet((1..drawn) \ seen)
          /\ Cardinality((1..drawn) \ seen) = drawn - Cardinality((1..drawn) \cap seen)
      BY <2>1, FS_Difference
    <2>3. (1..drawn) \cap seen = seen  BY <1>1 DEF SeenInv
    <2>4. Cardinality(seen) \in Nat  BY <1>1, FS_CardinalityType DEF SeenInv
    <2>5. Cardinality((1..drawn) \ seen) >= drawn - total
      <3>1. Cardinality((1..drawn) \ seen) = drawn - Cardinality(seen)
        BY <2>2, <2>3
      <3>2. Cardinality(seen) <= total /\ total \in Nat /\ drawn \in Nat
        BY <1>1 DEF SeenInv
      <3> QED  BY <2>4, <3>1, <3>2
    <2>6. Cardinality((1..drawn) \ seen) \in Nat
      BY <2>2, FS_CardinalityType
    <2>7. highest_seq \in Nat /\ total \in Nat /\ highest_seq <= drawn /\ drawn \in Nat
      BY <1>1 DEF SeenInv
    <2>8. CASE highest_seq > total
      BY <2>5, <2>6, <2>7, <2>8 DEF GapsAreReal, approx_missing
    <2>9. CASE ~(highest_seq > total)
      BY <2>6, <2>9 DEF GapsAreReal, approx_missing
    <2> QED  BY <2>8, <2>9
  <1> QED  BY <1>1, SeenInit, SeenStep, PTL DEF Spec

-----------------------------------------------------------------------------
(* The buckets of the throughput panel *)

Bucketed == [sec : Seconds, count : Nat]

RingTypes ==
    /\ now \in Seconds
    /\ hits \in [Seconds -> Nat]
    /\ peak_rate \in Nat
    /\ buckets \in Seq(Bucketed) /\ Len(buckets) <= Ring

\* Buckets come in the order of their seconds, each with what its second had.
BucketInv ==
    /\ \A i, j \in 1..Len(buckets) : i < j => buckets[i].sec < buckets[j].sec
    /\ \A i \in 1..Len(buckets) :
          /\ buckets[i].sec <= now
          /\ buckets[i].count = hits[buckets[i].sec]
          /\ buckets[i].count > 0

\* A second that had something has its bucket, or the ring is full of later
\* ones; and nothing is from the future.
BusyInv ==
    /\ \A s \in Seconds : s > now => hits[s] = 0
    /\ \A s \in Seconds : hits[s] > 0 =>
          \/ \E i \in 1..Len(buckets) : buckets[i].sec = s
          \/ Len(buckets) = Ring /\ \A i \in 1..Len(buckets) : s < buckets[i].sec

PeakInv == peak_rate > 0 => \E s \in HitsFrom(0) : hits[s] = peak_rate

RingInv == RingTypes /\ BucketInv /\ BusyInv /\ PeakInv

LEMMA HitsFromMember ==
    ASSUME NEW from, NEW t
    PROVE  t \in HitsFrom(from) <=> t \in Seconds /\ t >= from /\ t < now
  BY DEF HitsFrom

LEMMA RingInit == Init => RingInv
  <1> SUFFICES ASSUME Init PROVE RingInv
    OBVIOUS
  <1>1. 0 \in Seconds
    BY BoundsAssumption DEF Seconds
  <1>2. buckets = <<>> /\ Len(buckets) = 0 /\ now = 0 /\ peak_rate = 0
    BY DEF Init
  <1>3. \A s \in Seconds : hits[s] = 0
    BY DEF Init
  <1>4. hits \in [Seconds -> Nat]
    BY DEF Init
  <1>5. RingTypes
    BY <1>1, <1>2, <1>4, SizesAssumption, EmptySeq DEF RingTypes
  <1> QED
    BY <1>2, <1>3, <1>5 DEF RingInv, BucketInv, BusyInv, PeakInv

\* What deque(maxlen) keeps: all, or all but the oldest.
LEMMA PushShape ==
    ASSUME NEW x \in Bucketed, buckets \in Seq(Bucketed), Len(buckets) <= Ring
    PROVE  /\ Push(buckets, x, Ring) \in Seq(Bucketed)
           /\ Len(buckets) < Ring =>
                /\ Len(Push(buckets, x, Ring)) = Len(buckets) + 1
                /\ \A i \in 1..Len(buckets) : Push(buckets, x, Ring)[i] = buckets[i]
                /\ Push(buckets, x, Ring)[Len(buckets) + 1] = x
           /\ Len(buckets) = Ring =>
                /\ Len(Push(buckets, x, Ring)) = Ring
                /\ \A i \in 1..(Ring - 1) : Push(buckets, x, Ring)[i] = buckets[i + 1]
                /\ Push(buckets, x, Ring)[Ring] = x
  <1>1. CASE Len(buckets) < Ring
    BY <1>1, SizesAssumption DEF Push
  <1>2. CASE Len(buckets) = Ring
    <2>1. Ring \in Nat \ {0} /\ buckets # <<>>
      BY <1>2, SizesAssumption
    <2>2. /\ Tail(buckets) \in Seq(Bucketed)
          /\ Len(Tail(buckets)) = Ring - 1
          /\ \A i \in 1..(Ring - 1) : Tail(buckets)[i] = buckets[i + 1]
      BY <1>2, <2>1, HeadTailProperties
    <2>3. Push(buckets, x, Ring) = Append(Tail(buckets), x)
      BY <1>2 DEF Push
    <2> QED
      BY <1>2, <2>1, <2>2, <2>3
  <1> QED
    BY <1>1, <1>2, SizesAssumption

\* A record in the second of the newest bucket counts there.
LEMMA SameSecond ==
    ASSUME RingInv, buckets # <<>>, Last(buckets).sec = now,
           buckets' = Bucket(buckets), hits' = [hits EXCEPT ![now] = @ + 1],
           UNCHANGED <<now, peak_rate>>
    PROVE  RingInv'
  <1> DEFINE n == Len(buckets)
  <1>1. n \in Nat \ {0} /\ n <= Ring /\ Ring \in Nat /\ now \in Seconds /\ now \in Nat
    BY EmptySeq, SizesAssumption DEF RingInv, RingTypes, Seconds
  <1>2. buckets[n].sec = now
    BY DEF Last
  <1>3. \A i \in 1..n : buckets[i] \in Bucketed
    BY ElementOfSeq DEF RingInv, RingTypes
  <1>4. buckets[n].count \in Nat
    BY <1>1, <1>3 DEF Bucketed
  <1> DEFINE b == [buckets[n] EXCEPT !.count = @ + 1]
  <1>5. b \in Bucketed /\ b.sec = now /\ b.count = buckets[n].count + 1
    BY <1>1, <1>2, <1>3, <1>4 DEF Bucketed
  <1>6. buckets' = [buckets EXCEPT ![n] = b]
    BY DEF Bucket
  <1> HIDE DEF b
  <1>7. /\ buckets' \in Seq(Bucketed) /\ Len(buckets') = n
        /\ \A i \in 1..n : buckets'[i] = IF i = n THEN b ELSE buckets[i]
    BY <1>1, <1>5, <1>6, ExceptSeq DEF RingInv, RingTypes
  <1>8. /\ hits' \in [Seconds -> Nat]
        /\ \A s \in Seconds : hits'[s] = IF s = now THEN hits[s] + 1 ELSE hits[s]
        /\ \A s \in Seconds : hits[s] \in Nat
    BY <1>1 DEF RingInv, RingTypes
  <1>9. \A i \in 1..n : buckets'[i].sec = buckets[i].sec /\ buckets[i].sec \in Seconds
    BY <1>2, <1>3, <1>5, <1>7 DEF Bucketed
  <1>10. \A i \in 1..n : i # n => buckets[i].sec < now
    BY <1>1, <1>2 DEF RingInv, BucketInv
  <1>11. RingTypes'
    BY <1>1, <1>7, <1>8 DEF RingInv, RingTypes
  <1>12. BucketInv'
    <2>1. \A i, j \in 1..n : i < j => buckets'[i].sec < buckets'[j].sec
      BY <1>9 DEF RingInv, BucketInv
    <2>2. ASSUME NEW i \in 1..n
          PROVE  /\ buckets'[i].sec <= now
                 /\ buckets'[i].count = hits'[buckets'[i].sec]
                 /\ buckets'[i].count > 0
      <3>1. CASE i = n
        BY <1>1, <1>2, <1>4, <1>5, <1>7, <1>8, <3>1 DEF RingInv, BucketInv
      <3>2. CASE i # n
        <4>1. buckets'[i] = buckets[i] /\ buckets[i].sec < now
          BY <1>7, <1>10, <3>2
        <4>2. hits'[buckets[i].sec] = hits[buckets[i].sec]
          BY <1>1, <1>8, <1>9, <4>1
        <4> QED
          BY <4>1, <4>2 DEF RingInv, BucketInv
      <3> QED
        BY <3>1, <3>2
    <2> QED
      BY <1>7, <2>1, <2>2 DEF BucketInv
  <1>13. BusyInv'
    <2>1. ASSUME NEW s \in Seconds, s > now PROVE hits'[s] = 0
      BY <1>1, <1>8, <2>1 DEF RingInv, BusyInv
    <2>2. ASSUME NEW s \in Seconds, hits'[s] > 0
          PROVE  \/ \E i \in 1..n : buckets'[i].sec = s
                 \/ n = Ring /\ \A i \in 1..n : s < buckets'[i].sec
      <3>1. CASE s = now
        BY <1>1, <1>2, <1>9, <3>1
      <3>2. CASE s # now
        <4>1. hits[s] > 0
          BY <1>8, <2>2, <3>2
        <4> QED
          BY <1>9, <4>1 DEF RingInv, BusyInv
      <3> QED
        BY <3>1, <3>2
    <2> QED
      BY <1>7, <2>1, <2>2 DEF BusyInv
  <1>14. PeakInv'
    <2>1. SUFFICES ASSUME peak_rate > 0
                   PROVE  \E s \in HitsFrom(0)' : hits'[s] = peak_rate
      BY DEF PeakInv
    <2>2. PICK s \in HitsFrom(0) : hits[s] = peak_rate
      BY <2>1 DEF RingInv, PeakInv
    <2>3. s \in HitsFrom(0)' /\ s \in Seconds /\ s # now
      BY <1>1, <2>2 DEF HitsFrom
    <2> QED
      BY <1>8, <2>2, <2>3
  <1> QED
    BY <1>11, <1>12, <1>13, <1>14 DEF RingInv

\* A record in another second: that second had nothing yet, and its bucket is
\* the newest.
LEMMA NewSecond ==
    ASSUME RingInv, ~(buckets # <<>> /\ Last(buckets).sec = now),
           buckets' = Bucket(buckets), hits' = [hits EXCEPT ![now] = @ + 1],
           UNCHANGED <<now, peak_rate>>
    PROVE  RingInv'
  <1> DEFINE n == Len(buckets)
             b == [sec |-> now, count |-> 1]
  <1>1. n \in Nat /\ n <= Ring /\ Ring \in Nat \ {0} /\ now \in Seconds /\ now \in Nat
    BY EmptySeq, SizesAssumption DEF RingInv, RingTypes, Seconds
  <1>2. b \in Bucketed /\ b.sec = now /\ b.count = 1
    BY <1>1 DEF Bucketed
  <1>3. buckets' = Push(buckets, b, Ring)
    BY DEF Bucket
  <1>4. \A i \in 1..n : buckets[i] \in Bucketed
    BY ElementOfSeq DEF RingInv, RingTypes
  <1>5. \A i \in 1..n : buckets[i].sec \in Seconds /\ buckets[i].sec \in Nat
    BY <1>4 DEF Bucketed, Seconds
  <1>6. \A i \in 1..n : buckets[i].sec < now
    <2>1. SUFFICES ASSUME NEW i \in 1..n PROVE buckets[i].sec < now
      OBVIOUS
    <2>2. buckets[n].sec # now /\ n \in 1..n
      BY <1>1, EmptySeq DEF Last, RingInv, RingTypes
    <2>3. buckets[n].sec < now
      BY <1>1, <1>5, <2>2 DEF RingInv, BucketInv
    <2>4. i = n \/ buckets[i].sec < buckets[n].sec
      BY <1>1, <2>2 DEF RingInv, BucketInv
    <2> QED
      BY <1>1, <1>5, <2>2, <2>3, <2>4
  <1>7. hits[now] = 0
    <2>1. hits[now] \in Nat
      BY <1>1 DEF RingInv, RingTypes
    <2>2. SUFFICES ASSUME hits[now] > 0 PROVE FALSE
      BY <2>1
    <2>3. CASE \E i \in 1..n : buckets[i].sec = now
      BY <1>1, <1>6, <2>3
    <2>4. CASE n = Ring /\ \A i \in 1..n : now < buckets[i].sec
      <3>1. 1 \in 1..n
        BY <1>1, <2>4
      <3> QED
        BY <1>1, <1>5, <1>6, <2>4, <3>1
    <2> QED
      BY <1>1, <2>2, <2>3, <2>4 DEF RingInv, BusyInv
  <1>8. /\ hits' \in [Seconds -> Nat]
        /\ hits'[now] = 1
        /\ \A s \in Seconds : s # now => hits'[s] = hits[s]
        /\ \A s \in Seconds : hits[s] \in Nat
    BY <1>1, <1>7 DEF RingInv, RingTypes
  <1> HIDE DEF b
  <1>9. /\ buckets' \in Seq(Bucketed)
        /\ n < Ring => /\ Len(buckets') = n + 1
                       /\ \A i \in 1..n : buckets'[i] = buckets[i]
                       /\ buckets'[n + 1] = b
        /\ n = Ring => /\ Len(buckets') = Ring
                       /\ \A i \in 1..(Ring - 1) : buckets'[i] = buckets[i + 1]
                       /\ buckets'[Ring] = b
    <2>1. buckets \in Seq(Bucketed) /\ Len(buckets) <= Ring
      BY DEF RingInv, RingTypes
    <2> QED
      BY <1>1, <1>2, <1>3, <2>1, PushShape
  <1>10. RingTypes'
    BY <1>1, <1>8, <1>9 DEF RingInv, RingTypes
  \* Each bucket but the newest is one of before.
  <1> DEFINE m == Len(buckets')
             d == IF n = Ring THEN 1 ELSE 0
  <1>11. /\ m \in Nat \ {0} /\ m = n + 1 - d /\ buckets'[m] = b
         /\ \A i \in 1..m : i # m => i + d \in 1..n /\ buckets'[i] = buckets[i + d]
    BY <1>1, <1>9
  <1> HIDE DEF m, d
  <1>12. d \in {0, 1} /\ (d = 1 => n = Ring /\ m = Ring)
    BY <1>1, <1>9 DEF d, m
  <1>13. BucketInv'
    <2>1. ASSUME NEW i \in 1..m, NEW j \in 1..m, i < j
          PROVE  buckets'[i].sec < buckets'[j].sec
      <3>1. i # m /\ i + d \in 1..n /\ buckets'[i] = buckets[i + d]
        BY <1>11, <2>1
      <3>2. CASE j = m
        BY <1>2, <1>6, <1>11, <3>1, <3>2
      <3>3. CASE j # m
        <4>1. j + d \in 1..n /\ buckets'[j] = buckets[j + d] /\ i + d < j + d
          BY <1>11, <1>12, <2>1, <3>3
        <4> QED
          BY <3>1, <4>1 DEF RingInv, BucketInv
      <3> QED
        BY <3>2, <3>3
    <2>2. ASSUME NEW i \in 1..m
          PROVE  /\ buckets'[i].sec <= now
                 /\ buckets'[i].count = hits'[buckets'[i].sec]
                 /\ buckets'[i].count > 0
      <3>1. CASE i = m
        BY <1>1, <1>2, <1>8, <1>11, <3>1
      <3>2. CASE i # m
        <4>1. i + d \in 1..n /\ buckets'[i] = buckets[i + d]
          BY <1>11, <3>2
        <4>2. buckets[i + d].sec < now /\ buckets[i + d].sec \in Seconds
          BY <1>5, <1>6, <4>1
        <4>3. hits'[buckets[i + d].sec] = hits[buckets[i + d].sec]
          BY <1>1, <1>8, <4>2
        <4>4. /\ buckets[i + d].count = hits[buckets[i + d].sec]
              /\ buckets[i + d].count > 0
          BY <4>1 DEF RingInv, BucketInv
        <4>5. buckets[i + d].sec <= now
          BY <4>1 DEF RingInv, BucketInv
        <4> QED
          BY <4>1, <4>3, <4>4, <4>5
      <3> QED
        BY <3>1, <3>2
    <2> QED
      BY <2>1, <2>2 DEF BucketInv, m
  <1>14. BusyInv'
    <2>1. ASSUME NEW s \in Seconds, s > now PROVE hits'[s] = 0
      BY <1>1, <1>8, <2>1 DEF RingInv, BusyInv
    <2>2. ASSUME NEW s \in Seconds, hits'[s] > 0
          PROVE  \/ \E i \in 1..m : buckets'[i].sec = s
                 \/ m = Ring /\ \A i \in 1..m : s < buckets'[i].sec
      <3>1. CASE s = now
        BY <1>2, <1>11, <3>1
      <3>2. CASE s # now
        <4>1. hits[s] > 0
          BY <1>8, <2>2, <3>2
        <4>2. s < now
          BY <1>1, <3>2, <4>1 DEF RingInv, BusyInv, Seconds
        <4>3. \/ \E i \in 1..n : buckets[i].sec = s
              \/ n = Ring /\ \A i \in 1..n : s < buckets[i].sec
          BY <4>1 DEF RingInv, BusyInv
        <4>4. ASSUME NEW i \in 1..n, buckets[i].sec = s, i > d
              PROVE  \E k \in 1..m : buckets'[k].sec = s
          <5>1. i - d \in 1..m /\ i - d # m
            BY <1>1, <1>11, <1>12, <4>4
          <5>2. buckets'[i - d] = buckets[i]
            BY <1>11, <1>12, <5>1
          <5> QED
            BY <4>4, <5>1, <5>2
        <4>5. ASSUME d = 1, n = Ring, s < buckets[2].sec \/ n = 1,
                     \A i \in 2..n : s < buckets[i].sec
              PROVE  m = Ring /\ \A k \in 1..m : s < buckets'[k].sec
          <5>1. ASSUME NEW k \in 1..m PROVE s < buckets'[k].sec
            <6>1. CASE k = m
              BY <1>2, <1>11, <4>2, <6>1
            <6>2. CASE k # m
              BY <1>11, <4>5, <6>2
            <6> QED
              BY <6>1, <6>2
          <5> QED
            BY <1>12, <4>5, <5>1
        <4>6. CASE \E i \in 1..n : buckets[i].sec = s
          <5>1. PICK i \in 1..n : buckets[i].sec = s
            BY <4>6
          <5>2. CASE i > d
            BY <4>4, <5>1, <5>2
          <5>3. CASE ~(i > d)
            <6>1. i = 1 /\ d = 1 /\ n = Ring
              BY <1>12, <5>3
            <6>2. \A k \in 2..n : s < buckets[k].sec
              BY <1>1, <5>1, <6>1 DEF RingInv, BucketInv
            <6>3. s < buckets[2].sec \/ n = 1
              BY <1>1, <6>1, <6>2
            <6> QED
              BY <4>5, <6>1, <6>2, <6>3
          <5> QED
            BY <5>2, <5>3
        <4>7. CASE n = Ring /\ \A i \in 1..n : s < buckets[i].sec
          <5>1. d = 1
            BY <4>7 DEF d
          <5>2. (s < buckets[2].sec \/ n = 1) /\ \A i \in 2..n : s < buckets[i].sec
            BY <1>1, <4>7
          <5> QED
            BY <4>5, <4>7, <5>1, <5>2
        <4> QED
          BY <4>3, <4>6, <4>7
      <3> QED
        BY <3>1, <3>2
    <2> QED
      BY <2>1, <2>2 DEF BusyInv, m
  <1>15. PeakInv'
    <2>1. SUFFICES ASSUME peak_rate > 0
                   PROVE  \E s \in HitsFrom(0)' : hits'[s] = peak_rate
      BY DEF PeakInv
    <2>2. PICK s \in HitsFrom(0) : hits[s] = peak_rate
      BY <2>1 DEF RingInv, PeakInv
    <2>3. s \in HitsFrom(0)' /\ s \in Seconds /\ s # now
      BY <1>1, <2>2 DEF HitsFrom
    <2> QED
      BY <1>8, <2>2, <2>3
  <1> QED
    BY <1>10, <1>13, <1>14, <1>15 DEF RingInv

\* The completed buckets are the whole ring, or all but the newest.
LEMMA CompletedIs ==
    ASSUME RingInv
    PROVE  /\ Completed \in Seq(Bucketed)
           /\ Len(Completed) \in Nat
           /\ Len(Completed) <= Len(buckets) /\ Len(Completed) >= Len(buckets) - 1
           /\ \A i \in 1..Len(buckets) : i <= Len(Completed) <=> buckets[i].sec < now
           /\ \A i \in 1..Len(Completed) : Completed[i] = buckets[i]
  <1> DEFINE n == Len(buckets)
             k == IF n > 0 /\ buckets[n].sec = now THEN n - 1 ELSE n
             over == {i \in DOMAIN buckets : buckets[i].sec < now}
  <1>1. n \in Nat /\ DOMAIN buckets = 1..n /\ now \in Nat
    BY DEF RingInv, RingTypes, Seconds
  <1>2. \A i \in 1..n : buckets[i] \in Bucketed /\ buckets[i].sec \in Nat
    <2>1. \A i \in 1..n : buckets[i] \in Bucketed
      BY ElementOfSeq DEF RingInv, RingTypes
    <2> QED
      BY <2>1 DEF Bucketed, Seconds
  <1>3. k \in Nat /\ k <= n /\ k >= n - 1
    BY <1>1
  <1>3a. \A i, j \in 1..n : i < j => buckets[i].sec < buckets[j].sec
    BY DEF RingInv, BucketInv
  <1>3b. \A i \in 1..n : buckets[i].sec <= now
    BY DEF RingInv, BucketInv
  <1>3c. k = IF n > 0 /\ buckets[n].sec = now THEN n - 1 ELSE n
    OBVIOUS
  <1> HIDE DEF n, k
  <1>4. \A i \in 1..n : i <= k <=> buckets[i].sec < now
    <2>1. ASSUME NEW i \in 1..n PROVE i <= k <=> buckets[i].sec < now
      <3>1. n \in 1..n /\ n > 0
        BY <1>1
      <3>2. buckets[n].sec <= now /\ buckets[i].sec <= now
        BY <1>3b, <3>1
      <3>3. i # n => i < n /\ buckets[i].sec < buckets[n].sec
        BY <1>1, <1>3a, <3>1
      <3>4. buckets[i].sec \in Nat /\ buckets[n].sec \in Nat
        BY <1>2, <3>1
      <3>5. CASE buckets[n].sec = now
        <4>1. k = n - 1
          BY <1>3c, <3>1, <3>5
        <4> QED
          BY <1>1, <3>3, <3>4, <3>5, <4>1
      <3>6. CASE buckets[n].sec # now
        <4>1. k = n
          BY <1>3c, <3>6
        <4>2. buckets[n].sec < now
          BY <1>1, <3>2, <3>4, <3>6
        <4> QED
          BY <1>1, <3>3, <3>4, <4>1, <4>2
      <3> QED
        BY <3>5, <3>6
    <2> QED
      BY <2>1
  <1>5. over = 1..k
    BY <1>1, <1>3, <1>4 DEF n
  <1> HIDE DEF over
  <1>6. Cardinality(over) = k
    <2>1. Cardinality(1..k) = IF 1 > k THEN 0 ELSE k - 1 + 1
      BY <1>3, FS_Interval
    <2> QED
      BY <1>3, <1>5, <2>1
  <1>7. Completed = SubSeq(buckets, 1, k)
    BY <1>6 DEF Completed, over
  <1>8. \A i \in 1..k : buckets[i] \in Bucketed
    BY <1>1, <1>2, <1>3
  <1>9. /\ Completed \in Seq(Bucketed)
        /\ Len(Completed) = k
        /\ \A i \in 1..k : Completed[i] = buckets[i]
    BY <1>3, <1>7, <1>8, SubSeqProperties
  <1> QED
    BY <1>3, <1>4, <1>9 DEF n

\* Each bucket holds what its second had; no two are of one second.
LEMMA CompletedHolds ==
    ASSUME RingInv
    PROVE  \A i \in 1..Len(Completed) :
              /\ Completed[i].sec \in HitsFrom(0)
              /\ Completed[i].count = hits[Completed[i].sec]
              /\ Completed[i].count \in Nat \ {0}
              /\ \A j \in 1..Len(Completed) :
                    i < j => Completed[i].sec < Completed[j].sec
  <1> SUFFICES ASSUME NEW i \in 1..Len(Completed)
               PROVE  /\ Completed[i].sec \in HitsFrom(0)
                      /\ Completed[i].count = hits[Completed[i].sec]
                      /\ Completed[i].count \in Nat \ {0}
                      /\ \A j \in 1..Len(Completed) :
                            i < j => Completed[i].sec < Completed[j].sec
    OBVIOUS
  <1> DEFINE n == Len(buckets)
  <1>1. n \in Nat /\ Len(Completed) \in Nat /\ Len(Completed) <= n
    BY CompletedIs DEF RingInv, RingTypes
  <1>2. \A j \in 1..Len(Completed) : j \in 1..n /\ Completed[j] = buckets[j]
    BY <1>1, CompletedIs
  <1>3. buckets[i].sec < now
    BY <1>1, <1>2, CompletedIs
  <1>4. buckets[i] \in Bucketed
    BY <1>2, ElementOfSeq DEF RingInv, RingTypes
  <1>5. buckets[i].sec \in HitsFrom(0)
    BY <1>3, <1>4 DEF Bucketed, HitsFrom, Seconds
  <1>6. /\ buckets[i].count = hits[buckets[i].sec]
        /\ buckets[i].count \in Nat \ {0}
    BY <1>2, <1>4 DEF RingInv, BucketInv, Bucketed
  <1>7. \A j \in 1..Len(Completed) : i < j => buckets[i].sec < buckets[j].sec
    BY <1>2 DEF RingInv, BucketInv
  <1> QED
    BY <1>2, <1>5, <1>6, <1>7

\* A finite set of numbers has its greatest one.
LEMMA MaxIn ==
    ASSUME NEW S \in SUBSET Nat, IsFiniteSet(S), S # {}
    PROVE  Max(S) \in S /\ \A x \in S : x <= Max(S)
  <1> DEFINE D == {T \in SUBSET S : T # {} /\ ~\E x \in T : \A y \in T : x >= y}
  <1>1. D = {}
    <2> SUFFICES ASSUME D # {} PROVE FALSE
      OBVIOUS
    <2>1. IsWellFoundedOn(StrictSubsetOrdering(S), SUBSET S)
      BY FS_StrictSubsetOrderingWellFounded, FS_FiniteSubsetsOfFinite
    <2>2. D \subseteq SUBSET S
      OBVIOUS
    <2> HIDE DEF D
    <2>3. PICK T \in D : \A t \in D : <<t, T>> \notin StrictSubsetOrdering(S)
      BY <2>1, <2>2, WFMin
    <2>4. T \in SUBSET S /\ T # {} /\ ~\E x \in T : \A y \in T : x >= y
      BY DEF D
    <2>5. PICK x \in T : TRUE
      BY <2>4
    <2> DEFINE r == T \ {x}
    <2>6. r \in SUBSET S /\ r # T
      BY <2>4, <2>5
    <2>7. r \notin D
      BY <2>3, <2>4, <2>6 DEF StrictSubsetOrdering
    <2>8. CASE r = {}
      BY <2>4, <2>5, <2>8
    <2>9. CASE r # {}
      <3>1. PICK z \in r : \A y \in r : z >= y
        BY <2>6, <2>7, <2>9 DEF D
      <3>2. x \in Nat /\ z \in Nat /\ z \in T /\ T \subseteq Nat
        BY <2>4, <2>5, <3>1
      <3>3. \A y \in T : y = x \/ z >= y
        BY <3>1
      <3>4. CASE x >= z
        <4>1. \A y \in T : x >= y
          BY <3>2, <3>3, <3>4
        <4> QED
          BY <2>4, <4>1
      <3>5. CASE z >= x
        <4>1. \A y \in T : z >= y
          BY <3>2, <3>3, <3>5
        <4> QED
          BY <2>4, <3>2, <4>1
      <3> QED
        BY <3>2, <3>4, <3>5
    <2> QED
      BY <2>8, <2>9
  <1>2. S \notin D
    BY <1>1
  <1>3. \E x \in S : \A y \in S : x >= y
    BY <1>2
  <1> HIDE DEF D
  <1>4. Max(S) \in S /\ \A y \in S : Max(S) >= y
    BY <1>3 DEF Max
  <1> QED
    BY <1>4

\* The peak shown is the one kept, or that of a completed bucket.
LEMMA PeakIs ==
    ASSUME RingInv
    PROVE  /\ rate_peak \in Nat
           /\ \A i \in 1..Len(Completed) : Completed[i].count <= rate_peak
           /\ \/ rate_peak = peak_rate
              \/ \E i \in 1..Len(Completed) : rate_peak = Completed[i].count
  <1> DEFINE k == Len(Completed)
             counts == CountsOf(Completed)
             S == {peak_rate} \union Range(counts)
  <1>1. k \in Nat /\ DOMAIN Completed = 1..k
    BY CompletedIs
  <1>2. \A i \in 1..k : Completed[i].count \in Nat
    BY CompletedHolds
  <1>3. DOMAIN counts = 1..k /\ \A i \in 1..k : counts[i] = Completed[i].count
    BY <1>1 DEF CountsOf
  <1>4. Range(counts) = {Completed[i].count : i \in 1..k}
    BY <1>3 DEF Range
  <1>5. IsFiniteSet(Range(counts))
    <2>1. counts \in Surjection(1..k, Range(counts))
      BY <1>1, <1>3, <1>4 DEF Surjection, CountsOf
    <2>2. IsFiniteSet(1..k)
      BY <1>1, FS_Interval
    <2> QED
      BY <2>1, <2>2, FS_Surjection
  <1>6. IsFiniteSet(S)
    <2>1. S = Range(counts) \cup {peak_rate}
      OBVIOUS
    <2> QED
      BY <1>5, <2>1, FS_AddElement
  <1>7. S \in SUBSET Nat /\ S # {}
    BY <1>2, <1>4 DEF RingInv, RingTypes
  <1>8. rate_peak = Max(S)
    BY DEF rate_peak
  <1> HIDE DEF S
  <1>9. rate_peak \in S /\ \A x \in S : x <= rate_peak
    BY <1>6, <1>7, <1>8, MaxIn
  <1> QED
    BY <1>4, <1>7, <1>9 DEF S

LEMMA RingStep == RingInv /\ [Next]_vars => RingInv'
  <1> SUFFICES ASSUME RingInv, [Next]_vars PROVE RingInv'
    OBVIOUS
  <1>1. now \in Seconds /\ now \in Nat /\ \A s \in Seconds : s \in Nat
    BY DEF RingInv, RingTypes, Seconds
  <1>2. CASE Tick
    <2>1. /\ now' = now + 1 /\ now < MaxSec
          /\ buckets' = buckets /\ peak_rate' = peak_rate /\ hits' = hits
      BY <1>2 DEF Tick, statVars
    <2>2. now' \in Seconds
      BY <1>1, <2>1, BoundsAssumption DEF Seconds
    <2>3. RingTypes'
      BY <2>1, <2>2 DEF RingInv, RingTypes
    <2>4. \A i \in 1..Len(buckets) : buckets[i].sec \in Seconds
      <3>1. \A i \in 1..Len(buckets) : buckets[i] \in Bucketed
        BY ElementOfSeq DEF RingInv, RingTypes
      <3> QED
        BY <3>1 DEF Bucketed
    <2>5. BucketInv'
      <3>1. \A i \in 1..Len(buckets) : buckets[i].sec <= now
        BY DEF RingInv, BucketInv
      <3>2. \A i \in 1..Len(buckets) : buckets[i].sec \in Nat
        BY <1>1, <2>4
      <3>3. \A i \in 1..Len(buckets) : buckets[i].sec <= now'
        BY <1>1, <2>1, <3>1, <3>2
      <3> QED
        BY <2>1, <3>3 DEF RingInv, BucketInv
    <2>6. BusyInv'
      <3>1. \A s \in Seconds : s > now' => hits[s] = 0
        BY <1>1, <2>1 DEF RingInv, BusyInv
      <3> QED
        BY <2>1, <3>1 DEF RingInv, BusyInv
    <2>7. PeakInv'
      BY <1>1, <2>1, <2>2 DEF RingInv, PeakInv, HitsFrom
    <2> QED
      BY <2>3, <2>5, <2>6, <2>7 DEF RingInv
  <1>3. CASE Deliver
    <2>1. /\ buckets' = Bucket(buckets)
          /\ hits' = [hits EXCEPT ![now] = @ + 1]
          /\ UNCHANGED <<now, peak_rate>>
      BY <1>3 DEF Deliver, Record, clientVars
    <2> QED
      BY <2>1, SameSecond, NewSecond
  <1>4. CASE Snapshot
    <2>1. peak_rate' = rate_peak /\ UNCHANGED <<now, buckets, hits>>
      BY <1>4 DEF Snapshot, clientVars
    <2>2. RingTypes' /\ BucketInv' /\ BusyInv'
      BY <2>1, PeakIs DEF RingInv, RingTypes, BucketInv, BusyInv
    <2>3. HitsFrom(0)' = HitsFrom(0)
      BY <2>1 DEF HitsFrom
    <2>4. PeakInv'
      <3>1. CASE rate_peak = peak_rate
        BY <2>1, <2>3, <3>1 DEF RingInv, PeakInv
      <3>2. CASE \E i \in 1..Len(Completed) : rate_peak = Completed[i].count
        BY <2>1, <2>3, <3>2, CompletedHolds DEF PeakInv
      <3> QED
        BY <3>1, <3>2, PeakIs
    <2> QED
      BY <2>2, <2>4 DEF RingInv
  <1>5. CASE Publish \/ Offer \/ End \/ Subscribe \/ StreamEnds \/ UNCHANGED vars
    <2>1. UNCHANGED <<now, buckets, peak_rate, hits>>
      BY <1>5 DEF Publish, Offer, End, Disturb, Subscribe, StreamEnds,
                  vars, clientVars, streamVars, statVars
    <2>2. HitsFrom(0)' = HitsFrom(0)
      BY <2>1 DEF HitsFrom
    <2> QED
      BY <2>1, <2>2 DEF RingInv, RingTypes, BucketInv, BusyInv, PeakInv
  <1> QED
    BY <1>2, <1>3, <1>4, <1>5 DEF Next

\* The ring holds the newest seconds in which something arrived, each with what
\* it had (Stats.record, Stats.snapshot).
THEOREM RingInvariant == Spec => []RingInv
  BY RingInit, RingStep, PTL DEF Spec

-----------------------------------------------------------------------------
(* What a snapshot shows of them *)

BusyAfter(s) == {t \in Seconds : t > s /\ hits[t] > 0}

LEMMA SecondsFinite == IsFiniteSet(Seconds) /\ Seconds \in SUBSET Nat
  <1>1. IsFiniteSet(0..MaxSec)
    BY FS_Interval, BoundsAssumption
  <1> QED
    BY <1>1 DEF Seconds

\* A second that is over and had something has its completed bucket, unless as
\* many busy seconds came after it as the ring is long.
LEMMA Kept ==
    ASSUME RingInv, NEW s \in HitsFrom(0), hits[s] > 0, Cardinality(BusyAfter(s)) < Ring
    PROVE  \E i \in 1..Len(Completed) : Completed[i].sec = s
  <1>1. s \in Seconds /\ s < now
    BY DEF HitsFrom
  <1>2. CASE \E i \in 1..Len(buckets) : buckets[i].sec = s
    <2>1. PICK i \in 1..Len(buckets) : buckets[i].sec = s
      BY <1>2
    <2>2. i <= Len(Completed)
      BY <1>1, <2>1, CompletedIs
    <2>3. i \in 1..Len(Completed)
      BY <2>2, CompletedIs
    <2> QED
      BY <2>1, <2>3, CompletedIs
  <1>3. CASE Len(buckets) = Ring /\ \A i \in 1..Len(buckets) : s < buckets[i].sec
    <2> DEFINE f == [i \in 1..Ring |-> buckets[i].sec]
    <2>1. Ring \in Nat
      BY SizesAssumption
    <2>2. \A i \in 1..Ring : buckets[i].sec \in BusyAfter(s)
      <3>1. \A i \in 1..Ring : buckets[i] \in Bucketed
        BY <1>3, ElementOfSeq DEF RingInv, RingTypes
      <3>2. \A i \in 1..Ring : hits[buckets[i].sec] > 0
        BY <1>3 DEF RingInv, BucketInv
      <3>3. \A i \in 1..Ring : buckets[i].sec \in Seconds
        BY <3>1 DEF Bucketed
      <3> QED
        BY <1>1, <1>3, <3>2, <3>3 DEF BusyAfter, Seconds
    <2>3. \A i, j \in 1..Ring : i < j => buckets[i].sec < buckets[j].sec
      BY <1>3 DEF RingInv, BucketInv
    <2>4. \A t \in BusyAfter(s) : t \in Nat
      BY SecondsFinite DEF BusyAfter
    <2>5. \A i, j \in 1..Ring : f[i] = f[j] => i = j
      <3>1. SUFFICES ASSUME NEW i \in 1..Ring, NEW j \in 1..Ring, i # j
                     PROVE  f[i] # f[j]
        OBVIOUS
      <3>2. i < j \/ j < i
        BY <2>1, <3>1
      <3>3. buckets[i].sec \in Nat /\ buckets[j].sec \in Nat
        BY <2>2, <2>4
      <3>4. buckets[i].sec # buckets[j].sec
        BY <2>3, <3>2, <3>3
      <3> QED
        BY <3>4
    <2>6. f \in Injection(1..Ring, BusyAfter(s))
      BY <2>2, <2>5 DEF Injection, IsInjective
    <2>7. IsFiniteSet(BusyAfter(s))
      BY SecondsFinite, FS_Subset DEF BusyAfter
    <2>8. Cardinality(1..Ring) <= Cardinality(BusyAfter(s))
      BY <2>6, <2>7, FS_Injection
    <2>9. Cardinality(1..Ring) = Ring
      BY FS_Interval, SizesAssumption
    <2>10. Cardinality(BusyAfter(s)) \in Nat
      BY <2>7, FS_CardinalityType
    <2> QED
      BY <2>1, <2>8, <2>9, <2>10
  <1> QED
    BY <1>1, <1>2, <1>3 DEF RingInv, BusyInv

\* So has every second that busy seconds were too near to push out.
LEMMA KeptNear ==
    ASSUME RingInv, NEW s \in HitsFrom(0), hits[s] > 0,
           NEW m \in Nat, m >= s, m - s + 1 < Ring,
           \A t \in Seconds : t < now /\ hits[t] > 0 => t <= m
    PROVE  \E i \in 1..Len(Completed) : Completed[i].sec = s
  <1> DEFINE near == (s + 1)..m
  <1>1. s \in Nat /\ s \in Seconds /\ now \in Seconds /\ now \in Nat /\ Ring \in Nat
    BY SecondsFinite, SizesAssumption DEF HitsFrom, RingInv, RingTypes
  <1>2. IsFiniteSet(near) /\ Cardinality(near) = m - s
    <2>1. Cardinality(near) = IF s + 1 > m THEN 0 ELSE m - (s + 1) + 1
      BY <1>1, FS_Interval
    <2>2. IsFiniteSet(near)
      BY <1>1, FS_Interval
    <2> QED
      BY <1>1, <2>1, <2>2
  <1>3. BusyAfter(s) \subseteq near \cup {now}
    <2> SUFFICES ASSUME NEW t \in BusyAfter(s), t # now PROVE t \in near
      OBVIOUS
    <2>1. t \in Seconds /\ t \in Nat /\ t > s /\ hits[t] > 0
      BY SecondsFinite DEF BusyAfter
    <2>2. ~(t > now)
      BY <2>1 DEF RingInv, BusyInv
    <2>3. t <= m
      BY <1>1, <2>1, <2>2
    <2> QED
      BY <1>1, <2>1, <2>3
  <1> HIDE DEF near
  <1>4. /\ IsFiniteSet(near \cup {now})
        /\ Cardinality(near \cup {now}) \in {m - s, m - s + 1}
    BY <1>1, <1>2, FS_AddElement
  <1>5. Cardinality(BusyAfter(s)) <= Cardinality(near \cup {now}) /\ IsFiniteSet(BusyAfter(s))
    BY <1>3, <1>4, FS_Subset
  <1>6. Cardinality(BusyAfter(s)) \in Nat
    BY <1>5, FS_CardinalityType
  <1>7. Cardinality(BusyAfter(s)) < Ring
    BY <1>1, <1>4, <1>5, <1>6
  <1> QED
    BY <1>7, Kept

\* A second in the sustained window is near enough.
LEMMA KeptRecently ==
    ASSUME RingInv, NEW s \in HitsFrom(0), hits[s] > 0, s >= now - Window
    PROVE  \E i \in 1..Len(Completed) : Completed[i].sec = s
  <1>1. s \in Nat /\ now \in Nat /\ s < now
    BY SecondsFinite DEF HitsFrom, RingInv, RingTypes
  <1>2. Window \in Nat \ {0} /\ Ring \in Nat /\ Window < Ring
    BY SizesAssumption
  <1>3. now - 1 \in Nat /\ now - 1 >= s /\ (now - 1) - s + 1 < Ring
    BY <1>1, <1>2
  <1>4. \A t \in Seconds : t < now /\ hits[t] > 0 => t <= now - 1
    BY <1>1, SecondsFinite
  <1> QED
    BY <1>3, <1>4, KeptNear

\* The current rate is that of the second that has just ended.
LEMMA CurrentHolds ==
    ASSUME RingInv, now > 0
    PROVE  rate_current >= hits[now - 1]
  <1> DEFINE s == now - 1
             k == Len(Completed)
  <1>1. now \in Nat /\ now \in Seconds /\ s \in Seconds /\ s \in Nat /\ s \in HitsFrom(0)
    <2>1. now \in Seconds /\ now \in Nat
      BY SecondsFinite DEF RingInv, RingTypes
    <2>2. s \in Nat /\ s < now /\ s \in Seconds
      BY <2>1, BoundsAssumption DEF Seconds
    <2> QED
      BY <2>1, <2>2 DEF HitsFrom
  <1>2. hits[s] \in Nat
    BY <1>1 DEF RingInv, RingTypes
  <1>3. k \in Nat
    BY CompletedIs
  <1>4. rate_current \in Nat
    <2>1. CASE Completed = <<>>
      BY <2>1 DEF rate_current
    <2>2. CASE Completed # <<>>
      <3>1. k \in 1..k
        BY <2>2, EmptySeq, CompletedIs
      <3>2. rate_current = Completed[k].count
        BY <2>2 DEF rate_current, Last
      <3> QED
        BY <3>1, <3>2, CompletedHolds
    <2> QED
      BY <2>1, <2>2
  <1>5. CASE hits[s] > 0
    <2>1. s >= now - Window
      BY <1>1, SizesAssumption
    <2>2. PICK i \in 1..k : Completed[i].sec = s
      BY <1>1, <1>5, <2>1, KeptRecently
    <2>3. k \in 1..k /\ Completed # <<>>
      BY <1>3, <2>2
    <2>4. Completed[k].sec \in Nat /\ Completed[k].sec < now
      BY <2>3, CompletedHolds, SecondsFinite DEF HitsFrom
    <2>5. i < k => Completed[i].sec < Completed[k].sec
      BY <2>2, <2>3, CompletedHolds
    <2>6. i = k
      BY <1>1, <1>3, <2>2, <2>4, <2>5
    <2>7. rate_current = Completed[k].count
      BY <2>3 DEF rate_current, Last
    <2>8. rate_current = hits[s]
      BY <2>2, <2>3, <2>6, <2>7, CompletedHolds
    <2> QED
      BY <1>2, <2>8
  <1>6. CASE ~(hits[s] > 0)
    BY <1>2, <1>4, <1>6
  <1> QED
    BY <1>5, <1>6

LEMMA PeakHolds ==
    ASSUME RingInv
    PROVE  /\ \A s \in HitsFrom(0) : Cardinality(BusyAfter(s)) < Ring => rate_peak >= hits[s]
           /\ rate_peak > 0 => \E s \in HitsFrom(0) : hits[s] = rate_peak
  <1>1. ASSUME NEW s \in HitsFrom(0), Cardinality(BusyAfter(s)) < Ring
        PROVE  rate_peak >= hits[s]
    <2>1. hits[s] \in Nat /\ rate_peak \in Nat
      BY PeakIs DEF RingInv, RingTypes, HitsFrom
    <2>2. CASE hits[s] > 0
      <3>1. PICK i \in 1..Len(Completed) : Completed[i].sec = s
        BY <1>1, <2>2, Kept
      <3>2. Completed[i].count = hits[s] /\ Completed[i].count <= rate_peak
        BY <3>1, CompletedHolds, PeakIs
      <3> QED
        BY <2>1, <3>2
    <2> QED
      BY <2>1, <2>2
  <1>2. ASSUME rate_peak > 0 PROVE \E s \in HitsFrom(0) : hits[s] = rate_peak
    <2>1. CASE rate_peak = peak_rate
      BY <1>2, <2>1 DEF RingInv, PeakInv
    <2>2. CASE \E i \in 1..Len(Completed) : rate_peak = Completed[i].count
      BY <2>2, CompletedHolds
    <2> QED
      BY <2>1, <2>2, PeakIs
  <1> QED
    BY <1>1, <1>2

LEMMA RecordsMember ==
    ASSUME NEW f, NEW S, NEW e
    PROVE  e \in Records(f, S) <=> \E x \in S : \E j \in 1..f[x] : e = <<x, j>>
  BY DEF Records

LEMMA RecordsFinite ==
    ASSUME NEW S, IsFiniteSet(S), NEW f, \A x \in S : f[x] \in Nat
    PROVE  IsFiniteSet(Records(f, S))
  <1> DEFINE rows == {{x} \X (1..f[x]) : x \in S}
             row == [x \in S |-> {x} \X (1..f[x])]
  <1>1. row \in Surjection(S, rows)
    BY DEF Surjection
  <1>2. IsFiniteSet(rows)
    BY <1>1, FS_Surjection
  <1>3. \A T \in rows : IsFiniteSet(T)
    <2>1. SUFFICES ASSUME NEW x \in S PROVE IsFiniteSet({x} \X (1..f[x]))
      OBVIOUS
    <2>2. IsFiniteSet({x})
      BY FS_Singleton
    <2>3. IsFiniteSet(1..f[x])
      BY FS_Interval
    <2> QED
      BY <2>2, <2>3, FS_Product
  <1> QED
    BY <1>2, <1>3, FS_UNION DEF Records

LEMMA LastNIs ==
    ASSUME NEW T, NEW seq \in Seq(T), NEW n \in Nat, NEW off \in Nat,
           off = IF Len(seq) > n THEN Len(seq) - n ELSE 0
    PROVE  /\ LastN(seq, n) \in Seq(T)
           /\ Len(LastN(seq, n)) = Len(seq) - off
           /\ \A i \in 1..(Len(seq) - off) : LastN(seq, n)[i] = seq[i + off]
  <1> DEFINE from == IF Len(seq) > n THEN Len(seq) - n + 1 ELSE 1
             len == Len(seq)
  <1>1. from = off + 1 /\ len \in Nat /\ off <= len
    OBVIOUS
  <1>2. LastN(seq, n) = SubSeq(seq, from, len)
    BY DEF LastN
  <1>3. \A i \in 1..len : seq[i] \in T
    BY ElementOfSeq
  <1> HIDE DEF from, len
  <1>4. \A i \in from..len : seq[i] \in T
    BY <1>1, <1>3
  <1>5. from \in Int /\ len \in Int
    BY <1>1
  <1>6. /\ SubSeq(seq, from, len) \in Seq(T)
        /\ Len(SubSeq(seq, from, len)) = IF from <= len THEN len - from + 1 ELSE 0
        /\ \A i \in 1..(len - from + 1) : SubSeq(seq, from, len)[i] = seq[from + i - 1]
    BY ONLY <1>4, <1>5, SubSeqProperties
  <1>7. \A i \in 1..(len - off) : i \in 1..(len - from + 1) /\ from + i - 1 = i + off
    <2> SUFFICES ASSUME NEW i \in 1..(len - off)
                 PROVE  i \in 1..(len - from + 1) /\ from + i - 1 = i + off
      OBVIOUS
    <2>1. i \in Int /\ off \in Int /\ len \in Int
      BY <1>1
    <2>2. len - from + 1 = len - off
      BY <1>1, <2>1
    <2>3. from + i - 1 = i + off
      BY <1>1, <2>1
    <2> QED
      BY <2>2, <2>3
  <1>8. (IF from <= len THEN len - from + 1 ELSE 0) = len - off
    <2>1. off \in Int /\ len \in Int /\ from \in Int
      BY <1>1
    <2>2. CASE from <= len
      <3>1. len - from + 1 = len - off
        BY <1>1, <2>1
      <3> QED
        BY <2>2, <3>1
    <2>3. CASE ~(from <= len)
      <3>1. off = len
        BY <1>1, <2>1, <2>3
      <3> QED
        BY <2>1, <2>3, <3>1
    <2> QED
      BY <2>2, <2>3
  <1> QED
    BY <1>2, <1>6, <1>7, <1>8 DEF len

\* A second of the window that had something is one of those averaged: fewer
\* than Window completed seconds, so fewer buckets, are after it.
LEMMA RecentHas ==
    ASSUME RingInv, NEW s \in HitsFrom(0), s >= now - Window, hits[s] > 0
    PROVE  \E i \in DOMAIN Recent :
              Recent[i] = hits[s] /\ LastN(Completed, Window)[i].sec = s
  <1> DEFINE k == Len(Completed)
             off == IF k > Window THEN k - Window ELSE 0
  <1>1. k \in Nat /\ Completed \in Seq(Bucketed)
    BY CompletedIs
  <1>2. Window \in Nat \ {0}
    BY SizesAssumption
  <1>3. now \in Nat /\ s \in Nat /\ s < now
    BY SecondsFinite DEF HitsFrom, RingInv, RingTypes
  <1>4. off \in Nat
    BY <1>1, <1>2
  <1>5. /\ LastN(Completed, Window) \in Seq(Bucketed)
        /\ Len(LastN(Completed, Window)) = k - off
        /\ \A i \in 1..(k - off) : LastN(Completed, Window)[i] = Completed[i + off]
    <2>1. off = IF Len(Completed) > Window THEN Len(Completed) - Window ELSE 0
      OBVIOUS
    <2>2. Window \in Nat
      BY <1>2
    <2> HIDE DEF off
    <2> QED
      BY ONLY <1>1, <1>4, <2>1, <2>2, LastNIs, ZenonT(40)
  <1>6. PICK q \in 1..k : Completed[q].sec = s
    BY KeptRecently
  <1>7. k - q <= (now - 1) - s
    <2> DEFINE f == [j \in (q + 1)..k |-> Completed[j].sec]
               T == (s + 1)..(now - 1)
    <2>1. \A j \in (q + 1)..k : Completed[j].sec \in T
      <3> SUFFICES ASSUME NEW j \in (q + 1)..k PROVE Completed[j].sec \in T
        OBVIOUS
      <3>1. j \in 1..k /\ q < j
        BY <1>1, <1>6
      <3>2. Completed[j].sec \in Nat /\ Completed[j].sec < now
        BY <3>1, CompletedHolds, SecondsFinite DEF HitsFrom
      <3>3. s < Completed[j].sec
        BY <1>6, <3>1, CompletedHolds
      <3> QED
        BY <1>3, <3>2, <3>3
    <2>2. \A i, j \in (q + 1)..k : f[i] = f[j] => i = j
      <3>1. SUFFICES ASSUME NEW i \in (q + 1)..k, NEW j \in (q + 1)..k, i # j
                     PROVE  f[i] # f[j]
        OBVIOUS
      <3>2. i \in 1..k /\ j \in 1..k /\ (i < j \/ j < i)
        BY <1>1, <1>6, <3>1
      <3>3. Completed[i].sec \in T /\ Completed[j].sec \in T
        BY <2>1
      <3>4. i < j => Completed[i].sec < Completed[j].sec
        BY <3>2, CompletedHolds
      <3>5. j < i => Completed[j].sec < Completed[i].sec
        BY <3>2, CompletedHolds
      <3>6. Completed[i].sec # Completed[j].sec
        BY <1>3, <3>2, <3>3, <3>4, <3>5
      <3> QED
        BY <3>6
    <2>3. f \in Injection((q + 1)..k, T)
      BY <2>1, <2>2 DEF Injection, IsInjective
    <2>4. IsFiniteSet(T)
      BY <1>3, FS_Interval
    <2>5. Cardinality((q + 1)..k) <= Cardinality(T)
      BY <2>3, <2>4, FS_Injection
    <2>6. Cardinality(T) = IF s + 1 > now - 1 THEN 0 ELSE (now - 1) - (s + 1) + 1
      BY <1>3, FS_Interval
    <2> HIDE DEF T, k, off
    <2>7. Cardinality((q + 1)..k) = IF q + 1 > k THEN 0 ELSE k - (q + 1) + 1
      <3>1. q + 1 \in Int /\ k \in Int
        BY <1>1, <1>6
      <3> QED
        BY ONLY <3>1, FS_Interval
    <2>8. Cardinality(T) = (now - 1) - s
      BY <1>3, <2>6
    <2>9. Cardinality((q + 1)..k) = k - q
      BY <1>1, <1>6, <2>7
    <2> QED
      BY <2>5, <2>8, <2>9
  <1>8. q - off \in 1..(k - off)
    <2>1. off = IF k > Window THEN k - Window ELSE 0
      OBVIOUS
    <2> HIDE DEF off, k
    <2>2. q \in Nat /\ q <= k /\ q > 0 /\ k - q < Window
      BY <1>1, <1>2, <1>3, <1>7
    <2> QED
      BY <1>1, <1>2, <1>4, <2>1, <2>2
  <1> HIDE DEF off, k
  <1>9. LastN(Completed, Window)[q - off] = Completed[q]
    <2>1. (q - off) + off = q
      BY <1>1, <1>4
    <2> QED
      BY <1>5, <1>8, <2>1
  <1>10. q - off \in DOMAIN LastN(Completed, Window)
    BY <1>5, <1>8
  <1>11. q - off \in DOMAIN Recent /\ Recent[q - off] = Completed[q].count
    BY <1>9, <1>10 DEF Recent, CountsOf
  <1>12. Completed[q].count = hits[s]
    BY <1>6, CompletedHolds DEF k
  <1> QED
    BY <1>6, <1>9, <1>11, <1>12

LEMMA RecentIs ==
    ASSUME RingInv
    PROVE  /\ DOMAIN Recent = 1..Len(LastN(Completed, Window))
           /\ Len(LastN(Completed, Window)) \in 0..Window
           /\ Len(Recent) = Len(LastN(Completed, Window))
           /\ \A i \in DOMAIN Recent : Recent[i] \in Nat
  <1> DEFINE k == Len(Completed)
             off == IF k > Window THEN k - Window ELSE 0
             r == LastN(Completed, Window)
  <1>1. k \in Nat /\ Completed \in Seq(Bucketed) /\ Window \in Nat \ {0}
    BY CompletedIs, SizesAssumption
  <1>2. off \in Nat
    BY <1>1
  <1>3. r \in Seq(Bucketed) /\ Len(r) = k - off
    BY <1>1, <1>2, LastNIs
  <1>4. Len(r) \in 0..Window
    BY <1>1, <1>3
  <1>5. DOMAIN r = 1..Len(r) /\ \A i \in 1..Len(r) : r[i] \in Bucketed
    BY <1>3, ElementOfSeq
  <1>6. \A i \in 1..Len(r) : r[i].count \in Nat
    BY <1>5 DEF Bucketed
  <1> HIDE DEF r
  <1>7. Recent = [i \in 1..Len(r) |-> r[i].count]
    BY <1>5 DEF Recent, CountsOf, r
  <1>8. DOMAIN Recent = 1..Len(r)
    BY <1>7
  <1>9. Len(Recent) = Len(r)
    <2>1. Recent \in Seq(Nat)
      BY <1>4, <1>6, <1>7
    <2> QED
      BY <1>4, <1>8, <2>1
  <1> QED
    BY <1>4, <1>6, <1>7, <1>8, <1>9 DEF r

LEMMA TimesMonotonic ==
    ASSUME NEW a \in Nat, NEW b \in Nat, NEW c \in Nat, NEW d \in Nat, a <= b, c <= d
    PROVE  a * c <= b * d
  <1>1. a * c <= b * c
    OBVIOUS
  <1>2. b * c <= b * d
    OBVIOUS
  <1> QED
    BY <1>1, <1>2

\* What the average divides is all that arrived in the window, and it divides
\* it by no more than the window is long.
LEMMA SustainedHolds ==
    ASSUME RingInv, NEW from \in Nat, from >= now - Window
    PROVE  Cardinality(Records(Recent, DOMAIN Recent)) * Window
             >= Len(Recent) * Cardinality(Records(hits, HitsFrom(from)))
  <1> DEFINE H == Records(hits, HitsFrom(from))
             R == Records(Recent, DOMAIN Recent)
             ring == LastN(Completed, Window)
             at == [s \in HitsFrom(from) |->
                       CHOOSE i \in DOMAIN Recent : Recent[i] = hits[s] /\ ring[i].sec = s]
             f == [e \in H |-> <<at[e[1]], e[2]>>]
  <1>1. \A s \in HitsFrom(from) :
           /\ s \in HitsFrom(0) /\ s >= now - Window
           /\ hits[s] \in Nat
    <2> SUFFICES ASSUME NEW s \in HitsFrom(from)
                 PROVE  s \in HitsFrom(0) /\ s >= now - Window /\ hits[s] \in Nat
      OBVIOUS
    <2>1. s \in Seconds /\ s \in Nat /\ s >= from /\ s < now
      BY SecondsFinite DEF HitsFrom
    <2>2. now \in Nat /\ Window \in Nat
      BY SecondsFinite, SizesAssumption DEF RingInv, RingTypes
    <2> QED
      BY <2>1, <2>2 DEF HitsFrom, RingInv, RingTypes
  <1>2. \A s \in HitsFrom(from) : hits[s] > 0 =>
           at[s] \in DOMAIN Recent /\ Recent[at[s]] = hits[s] /\ ring[at[s]].sec = s
    BY <1>1, RecentHas
  <1>3. \A e \in H : /\ e[1] \in HitsFrom(from) /\ e[2] \in 1..hits[e[1]]
                     /\ e = <<e[1], e[2]>> /\ hits[e[1]] > 0
    <2> SUFFICES ASSUME NEW e \in H
                 PROVE  /\ e[1] \in HitsFrom(from) /\ e[2] \in 1..hits[e[1]]
                        /\ e = <<e[1], e[2]>> /\ hits[e[1]] > 0
      OBVIOUS
    <2>1. PICK s \in HitsFrom(from) : \E j \in 1..hits[s] : e = <<s, j>>
      BY RecordsMember
    <2>2. PICK j \in 1..hits[s] : e = <<s, j>>
      BY <2>1
    <2>3. hits[s] > 0
      BY <1>1, <2>2
    <2> QED
      BY <2>2, <2>3
  <1> HIDE DEF at, ring, H
  <1>4. \A e \in H : f[e] \in R
    <2> SUFFICES ASSUME NEW e \in H PROVE <<at[e[1]], e[2]>> \in R
      OBVIOUS
    <2>1. at[e[1]] \in DOMAIN Recent /\ e[2] \in 1..Recent[at[e[1]]]
      BY <1>2, <1>3
    <2> QED
      BY <2>1, RecordsMember
  <1>5. \A e, g \in H : f[e] = f[g] => e = g
    <2> SUFFICES ASSUME NEW e \in H, NEW g \in H,
                        <<at[e[1]], e[2]>> = <<at[g[1]], g[2]>>
                 PROVE  e = g
      OBVIOUS
    <2>1. at[e[1]] = at[g[1]] /\ e[2] = g[2]
      OBVIOUS
    <2>2. e[1] = g[1]
      BY <1>2, <1>3, <2>1
    <2> QED
      BY <1>3, <2>1, <2>2
  <1> HIDE DEF R
  <1>6. f \in Injection(H, R)
    BY <1>4, <1>5 DEF Injection, IsInjective
  <1>7. IsFiniteSet(R)
    <2>1. IsFiniteSet(DOMAIN Recent)
      BY RecentIs, FS_Interval
    <2> QED
      BY <2>1, RecentIs, RecordsFinite DEF R
  <1>8. IsFiniteSet(H) /\ Cardinality(H) <= Cardinality(R)
    BY <1>6, <1>7, FS_Injection
  <1>9. Cardinality(H) \in Nat /\ Cardinality(R) \in Nat
    BY <1>7, <1>8, FS_CardinalityType
  <1>10. Window \in Nat /\ Len(Recent) \in Nat /\ Len(Recent) <= Window
    BY RecentIs, SizesAssumption
  <1>11. Cardinality(H) * Len(Recent) <= Cardinality(R) * Window
    BY <1>8, <1>9, <1>10, TimesMonotonic
  <1>12. Len(Recent) * Cardinality(H) = Cardinality(H) * Len(Recent)
    BY <1>9, <1>10
  <1>13. Cardinality(R) * Window >= Len(Recent) * Cardinality(H)
    BY <1>9, <1>10, <1>11, <1>12
  <1> QED
    BY <1>13 DEF H, R

\* The current rate is at least that of the second before, the sustained rate
\* at least the average of its window, the peak at least that of every second
\* whose bucket was not pushed out, and the peak was: for any sizes of the rings
\* and the window, and whatever arrives when (Stats.snapshot).
THEOREM RatesNotUnderstated == Spec => []NeverUnderstated
  <1>1. ASSUME RingInv PROVE NeverUnderstated
    <2> DEFINE from == IF now > Window THEN now - Window ELSE 0
    <2>1. from \in Nat /\ from >= now - Window
      <3>1. now \in Nat /\ Window \in Nat
        BY <1>1, SecondsFinite, SizesAssumption DEF RingInv, RingTypes
      <3> QED
        BY <3>1
    <2>2. Cardinality(Records(Recent, DOMAIN Recent)) * Window
            >= Len(Recent) * Cardinality(Records(hits, HitsFrom(from)))
      BY <1>1, <2>1, SustainedHolds
    <2>3. now > 0 => rate_current >= hits[now - 1]
      BY <1>1, CurrentHolds
    <2>4. /\ \A s \in HitsFrom(0) :
                Cardinality({t \in Seconds : t > s /\ hits[t] > 0}) < Ring
                  => rate_peak >= hits[s]
          /\ rate_peak > 0 => \E s \in HitsFrom(0) : hits[s] = rate_peak
      BY <1>1, PeakHolds DEF BusyAfter
    <2> QED
      BY <2>2, <2>3, <2>4 DEF NeverUnderstated
  <1> QED
    BY <1>1, RingInvariant, PTL

\* The newest completed bucket is that of the last busy second that is over.
LEMMA NewestIs ==
    ASSUME RingInv, {s \in HitsFrom(0) : hits[s] > 0} # {}
    PROVE  /\ Max({s \in HitsFrom(0) : hits[s] > 0}) \in HitsFrom(0)
           /\ \A s \in HitsFrom(0) : hits[s] > 0 =>
                 s <= Max({t \in HitsFrom(0) : hits[t] > 0})
           /\ Last(Completed).sec = Max({s \in HitsFrom(0) : hits[s] > 0})
  <1> DEFINE busy == {s \in HitsFrom(0) : hits[s] > 0}
             m == Max(busy)
             k == Len(Completed)
  <1>1. busy \subseteq Seconds
    BY DEF HitsFrom
  <1>2. IsFiniteSet(busy) /\ busy \in SUBSET Nat
    BY <1>1, SecondsFinite, FS_Subset
  <1>3. m \in busy /\ \A s \in busy : s <= m
    BY <1>2, MaxIn
  <1> HIDE DEF m
  <1>4. m \in Nat /\ m \in HitsFrom(0) /\ hits[m] > 0
    BY <1>2, <1>3
  <1>5. m \in Nat /\ m >= m /\ m - m + 1 < Ring
    BY <1>4, SizesAssumption
  <1>6. \A t \in Seconds : t < now /\ hits[t] > 0 => t <= m
    BY <1>3, SecondsFinite DEF HitsFrom
  <1>7. PICK i \in 1..k : Completed[i].sec = m
    BY <1>4, <1>5, <1>6, KeptNear
  <1>8. k \in Nat /\ k \in 1..k
    BY <1>7, CompletedIs
  <1>9. Completed[k].sec \in busy
    BY <1>8, CompletedHolds
  <1>10. i < k => Completed[i].sec < Completed[k].sec
    BY <1>7, <1>8, CompletedHolds
  <1>11. Completed[k].sec \in Nat /\ Completed[k].sec <= m
    BY <1>2, <1>3, <1>9
  <1>12. i = k
    BY <1>4, <1>7, <1>8, <1>10, <1>11
  <1>13. Last(Completed).sec = m
    BY <1>7, <1>12 DEF Last
  <1> QED
    BY <1>3, <1>4, <1>13 DEF m

LEMMA LookupOne ==
    ASSUME NEW b PROVE Lookup({b}) = b.count
  BY DEF Lookup

\* The sparkline is, second by second, what arrived, for as many seconds as
\* there are fewer than the ring has buckets (Stats.snapshot).
THEOREM SparklineTrue == Spec => []SparkTrue
  <1>1. ASSUME RingInv PROVE SparkTrue
    <2> DEFINE busy == {s \in HitsFrom(0) : hits[s] > 0}
               m == Max(busy)
               k == Len(Completed)
    <2>1. SUFFICES ASSUME busy # {}, NEW i \in 0..SparkLen - 1
                   PROVE  Spark(i) = IF i <= m THEN hits[m - i] ELSE 0
      BY DEF SparkTrue
    <2>2. /\ m \in HitsFrom(0)
          /\ \A s \in HitsFrom(0) : hits[s] > 0 => s <= m
          /\ Last(Completed).sec = m
      BY <1>1, <2>1, NewestIs
    <2> HIDE DEF m
    <2> DEFINE found == {b \in Range(Completed) : b.sec + i = m}
    <2>3. Spark(i) = Lookup(found)
      BY <2>2 DEF Spark
    <2>4. Range(Completed) = {Completed[j] : j \in 1..k}
      <3>1. DOMAIN Completed = 1..k
        BY <1>1, CompletedIs
      <3> QED
        BY <3>1 DEF Range
    <2>5. m \in Nat /\ m \in Seconds /\ m < now /\ i \in Nat /\ i + 1 < Ring
      BY <1>1, <2>1, <2>2, SecondsFinite, SizesAssumption DEF HitsFrom
    <2>6. now \in Nat /\ now \in Seconds
      BY <1>1, SecondsFinite DEF RingInv, RingTypes
    <2>7. \A j \in 1..k : /\ Completed[j].sec \in Nat
                          /\ Completed[j].sec \in HitsFrom(0)
                          /\ Completed[j].count = hits[Completed[j].sec]
                          /\ hits[Completed[j].sec] \in Nat \ {0}
      BY <1>1, CompletedHolds, SecondsFinite DEF HitsFrom
    <2> HIDE DEF k, found
    <2>8. CASE i <= m /\ hits[m - i] > 0
      <3> DEFINE s == m - i
      <3>1. s \in Nat /\ s \in HitsFrom(0) /\ m >= s /\ m - s + 1 < Ring
        <4>1. s \in Nat /\ s <= m /\ m - s = i
          BY <2>5, <2>8
        <4>2. s \in Seconds
          BY <2>5, <4>1, BoundsAssumption DEF Seconds
        <4>3. s < now
          BY <2>5, <2>6, <4>1
        <4> QED
          BY <2>5, <4>1, <4>2, <4>3 DEF HitsFrom
      <3>2. \A t \in Seconds : t < now /\ hits[t] > 0 => t <= m
        BY <2>2, SecondsFinite DEF HitsFrom
      <3> HIDE DEF s
      <3>3. hits[s] > 0
        BY <2>8 DEF s
      <3>4. PICK q \in 1..k : Completed[q].sec = s
        BY <1>1, <2>5, <3>1, <3>2, <3>3, KeptNear DEF k
      <3>5. s + i = m
        BY <2>5, <2>8 DEF s
      <3>6. ASSUME NEW j \in 1..k, Completed[j].sec + i = m
            PROVE  Completed[j] = Completed[q]
        <4>1. Completed[j].sec = Completed[q].sec
          <5>1. Completed[j].sec \in Nat
            BY <2>7
          <5> QED
            BY <2>5, <3>1, <3>4, <3>5, <3>6, <5>1
        <4>2. j < q => Completed[j].sec < Completed[q].sec
          BY <1>1, <3>4, CompletedHolds DEF k
        <4>3. q < j => Completed[q].sec < Completed[j].sec
          BY <1>1, <3>4, CompletedHolds DEF k
        <4>4. Completed[q].sec \in Nat /\ k \in Nat
          BY <1>1, <2>7, <3>4, CompletedIs DEF k
        <4>5. j = q
          BY <3>4, <4>1, <4>2, <4>3, <4>4
        <4> QED
          BY <4>5
      <3>7. found = {Completed[q]}
        BY <2>4, <3>4, <3>5, <3>6 DEF found
      <3>8. Lookup(found) = Completed[q].count
        BY <3>7, LookupOne
      <3>9. Completed[q].count = hits[s]
        BY <2>7, <3>4
      <3> QED
        BY <2>3, <2>8, <3>8, <3>9 DEF s
    <2>9. CASE ~(i <= m /\ hits[m - i] > 0)
      <3>1. found = {}
        <4> SUFFICES ASSUME NEW j \in 1..k, Completed[j].sec + i = m PROVE FALSE
          BY <2>4 DEF found
        <4>1. Completed[j].sec \in Nat /\ Completed[j].sec \in HitsFrom(0)
          BY <2>7
        <4>2. i <= m /\ m - i = Completed[j].sec
          BY <2>5, <4>1
        <4>3. hits[m - i] > 0
          BY <2>7, <4>2
        <4> QED
          BY <2>9, <4>2, <4>3
      <3>2. Lookup(found) = 0
        BY <3>1 DEF Lookup
      <3>3. i <= m => hits[m - i] = 0
        <4> SUFFICES ASSUME i <= m PROVE hits[m - i] = 0
          OBVIOUS
        <4>1. m - i \in Seconds
          BY <2>5, BoundsAssumption DEF Seconds
        <4>2. hits[m - i] \in Nat
          BY <1>1, <4>1 DEF RingInv, RingTypes
        <4> QED
          BY <2>9, <4>2
      <3> QED
        BY <2>3, <3>2, <3>3
    <2> QED
      BY <2>8, <2>9
  <1> QED
    BY <1>1, RingInvariant, PTL

-----------------------------------------------------------------------------
(* Percentiles *)

\* p brings seq into ascending order.
Orders(p, seq) ==
    /\ p \in Bijection(DOMAIN seq, DOMAIN seq)
    /\ \A i, j \in DOMAIN seq : i < j => seq[p[i]] <= seq[p[j]]

\* p lists the positions T of seq, their values ascending.
Lists(p, seq, T) ==
    /\ p \in Bijection(1..Cardinality(T), T)
    /\ \A i, j \in 1..Cardinality(T) : i < j => seq[p[i]] <= seq[p[j]]

\* A listing of all but a position of a greatest value goes on with that one.
LEMMA ListOneMore ==
    ASSUME NEW n \in Nat, NEW seq \in [1..n -> Nat], NEW T \in SUBSET (1..n),
           NEW x \in T, \A y \in T : seq[y] <= seq[x],
           NEW p, Lists(p, seq, T \ {x})
    PROVE  \E q : Lists(q, seq, T)
  <1> DEFINE r == T \ {x}
             c == Cardinality(r)
             q == [i \in 1..(c + 1) |-> IF i = c + 1 THEN x ELSE p[i]]
  <1>1. IsFiniteSet(T)
    <2>1. IsFiniteSet(1..n)
      BY FS_Interval
    <2> QED
      BY <2>1, FS_Subset
  <1>2. IsFiniteSet(r) /\ c \in Nat /\ Cardinality(T) = c + 1
    <2>1. IsFiniteSet(r) /\ Cardinality(r) = Cardinality(T) - 1
      BY <1>1, FS_RemoveElement
    <2>2. Cardinality(T) \in Nat /\ c \in Nat
      BY <1>1, <2>1, FS_CardinalityType
    <2> QED
      BY <2>1, <2>2
  <1>3. /\ p \in [1..c -> r]
        /\ \A i, j \in 1..c : p[i] = p[j] => i = j
        /\ \A t \in r : \E i \in 1..c : p[i] = t
        /\ \A i, j \in 1..c : i < j => seq[p[i]] <= seq[p[j]]
    BY DEF Lists, Bijection, Injection, Surjection, IsInjective
  <1> HIDE DEF c
  <1>4. \A i \in 1..(c + 1) : i # c + 1 => i \in 1..c
    BY <1>2
  <1>5. /\ q \in [1..(c + 1) -> T]
        /\ q[c + 1] = x
        /\ \A i \in 1..c : q[i] = p[i] /\ q[i] \in T /\ q[i] # x
    BY <1>2, <1>3, <1>4
  <1> HIDE DEF q
  <1>6. \A i, j \in 1..(c + 1) : q[i] = q[j] => i = j
    BY <1>3, <1>4, <1>5
  <1>7. \A t \in T : \E i \in 1..(c + 1) : q[i] = t
    <2> SUFFICES ASSUME NEW t \in T PROVE \E i \in 1..(c + 1) : q[i] = t
      OBVIOUS
    <2>1. CASE t = x
      BY <1>2, <1>5, <2>1
    <2>2. CASE t # x
      <3>1. PICK i \in 1..c : p[i] = t
        BY <1>3, <2>2
      <3> QED
        BY <1>2, <1>5, <3>1
    <2> QED
      BY <2>1, <2>2
  <1>8. \A i, j \in 1..(c + 1) : i < j => seq[q[i]] <= seq[q[j]]
    <2> SUFFICES ASSUME NEW i \in 1..(c + 1), NEW j \in 1..(c + 1), i < j
                 PROVE  seq[q[i]] <= seq[q[j]]
      OBVIOUS
    <2>1. i \in 1..c
      BY <1>2
    <2>2. CASE j = c + 1
      BY <1>5, <2>1, <2>2
    <2>3. CASE j # c + 1
      BY <1>3, <1>4, <1>5, <2>1, <2>3
    <2> QED
      BY <2>2, <2>3
  <1>9. q \in Bijection(1..(c + 1), T)
    BY <1>5, <1>6, <1>7 DEF Bijection, Injection, Surjection, IsInjective
  <1>10. Lists(q, seq, T)
    BY <1>2, <1>8, <1>9 DEF Lists
  <1> QED
    BY <1>10

\* Every sequence of numbers can be brought into ascending order.
LEMMA OrderExists ==
    ASSUME NEW n \in Nat, NEW seq \in [1..n -> Nat]
    PROVE  \E p : Orders(p, seq)
  <1> DEFINE U == 1..n
             D == {T \in SUBSET U : ~\E p : Lists(p, seq, T)}
  <1>1. IsFiniteSet(U) /\ Cardinality(U) = n
    BY FS_Interval
  <1>2. D = {}
    <2> SUFFICES ASSUME D # {} PROVE FALSE
      OBVIOUS
    <2>1. IsWellFoundedOn(StrictSubsetOrdering(U), SUBSET U)
      BY <1>1, FS_StrictSubsetOrderingWellFounded, FS_FiniteSubsetsOfFinite
    <2>2. D \subseteq SUBSET U
      OBVIOUS
    <2> HIDE DEF D
    <2>3. PICK T \in D : \A t \in D : <<t, T>> \notin StrictSubsetOrdering(U)
      BY <2>1, <2>2, WFMin
    <2>4. T \in SUBSET U /\ ~\E p : Lists(p, seq, T)
      BY DEF D
    <2>5. T # {}
      <3> SUFFICES ASSUME T = {} PROVE FALSE
        OBVIOUS
      <3>1. Cardinality(T) = 0
        BY FS_EmptySet
      <3>2. 1..Cardinality(T) = {}
        BY <3>1
      <3>3. [i \in {} |-> i] \in Bijection(1..Cardinality(T), T)
        BY <3>2 DEF Bijection, Injection, Surjection, IsInjective
      <3>4. Lists([i \in {} |-> i], seq, T)
        BY <3>2, <3>3 DEF Lists
      <3> QED
        BY <2>4, <3>4
    <2>6. PICK x \in T : \A y \in T : seq[y] <= seq[x]
      <3> DEFINE values == {seq[i] : i \in T}
                 f == [i \in T |-> seq[i]]
      <3>1. f \in Surjection(T, values)
        BY DEF Surjection
      <3>2. IsFiniteSet(T)
        BY <1>1, <2>4, FS_Subset
      <3>3. IsFiniteSet(values)
        BY <3>1, <3>2, FS_Surjection
      <3>4. values \in SUBSET Nat /\ values # {}
        BY <2>4, <2>5
      <3>5. Max(values) \in values /\ \A v \in values : v <= Max(values)
        BY <3>3, <3>4, MaxIn
      <3> QED
        BY <3>5
    <2>7. T \ {x} \in SUBSET U /\ T \ {x} # T
      BY <2>4
    <2>8. T \ {x} \notin D
      BY <2>3, <2>4, <2>7 DEF StrictSubsetOrdering
    <2>9. PICK p : Lists(p, seq, T \ {x})
      BY <2>7, <2>8 DEF D
    <2> QED
      BY <2>4, <2>6, <2>9, ListOneMore
  <1>3. PICK p : Lists(p, seq, U)
    BY <1>2
  <1> QED
    BY <1>1, <1>3 DEF Lists, Orders

LEMMA SortedIs ==
    ASSUME NEW n \in Nat, NEW seq \in [1..n -> Nat]
    PROVE  \E p \in Bijection(1..n, 1..n) :
              /\ Sorted(seq) = [i \in 1..n |-> seq[p[i]]]
              /\ \A i, j \in 1..n : i < j => seq[p[i]] <= seq[p[j]]
  <1> DEFINE p == CHOOSE q \in Bijection(DOMAIN seq, DOMAIN seq) :
                     \A i, j \in DOMAIN seq : i < j => seq[q[i]] <= seq[q[j]]
  <1>1. DOMAIN seq = 1..n
    OBVIOUS
  <1>2. \E q \in Bijection(DOMAIN seq, DOMAIN seq) :
           \A i, j \in DOMAIN seq : i < j => seq[q[i]] <= seq[q[j]]
    BY OrderExists DEF Orders
  <1>3. /\ p \in Bijection(DOMAIN seq, DOMAIN seq)
        /\ \A i, j \in DOMAIN seq : i < j => seq[p[i]] <= seq[p[j]]
    BY <1>2
  <1>4. Sorted(seq) = [i \in DOMAIN seq |-> seq[p[i]]]
    BY DEF Sorted
  <1> HIDE DEF p
  <1> QED
    BY <1>1, <1>3, <1>4

LEMMA MinOfTwo ==
    ASSUME NEW a \in Int, NEW b \in Int
    PROVE  Min({a, b}) = IF a <= b THEN a ELSE b
  <1>1. CASE a <= b
    <2>1. \A x \in {a, b} : (\A y \in {a, b} : x <= y) => x = a
      BY <1>1
    <2>2. \A y \in {a, b} : a <= y
      BY <1>1
    <2> QED
      BY <1>1, <2>1, <2>2 DEF Min
  <1>2. CASE ~(a <= b)
    <2>1. \A x \in {a, b} : (\A y \in {a, b} : x <= y) => x = b
      BY <1>2
    <2>2. \A y \in {a, b} : b <= y
      BY <1>2
    <2> QED
      BY <1>2, <2>1, <2>2 DEF Min
  <1> QED
    BY <1>1, <1>2

\* A value between two others, in hundredths of the way, is not outside them.
LEMMA Between ==
    ASSUME NEW a \in Nat, NEW b \in Nat, a <= b, NEW f \in 0..99
    PROVE  /\ 100 * a <= a * (100 - f) + b * f
           /\ a * (100 - f) + b * f <= 100 * b
           /\ f = 0 => a * (100 - f) + b * f = 100 * a
  <1>1. a * f <= b * f
    BY TimesMonotonic
  <1>2. a * (100 - f) = 100 * a - a * f
    OBVIOUS
  <1>3. a * (100 - f) <= b * (100 - f)
    BY TimesMonotonic
  <1>4. b * (100 - f) = 100 * b - b * f
    OBVIOUS
  <1>5. a * f \in Int /\ b * f \in Int
    OBVIOUS
  <1> QED
    BY <1>1, <1>2, <1>3, <1>4, <1>5

\* The ranks _percentile goes between.
LEMMA RanksAre ==
    ASSUME NEW n \in Nat \ {0}, NEW p \in Percents,
           NEW sorted \in [1..n -> Nat], Len(sorted) = n
    PROVE  \E lo \in Nat, f \in 0..99, hi \in Nat :
              /\ (n - 1) * p = 100 * lo + f
              /\ lo < n /\ lo <= hi /\ hi <= lo + 1 /\ hi < n
              /\ f > 0 => hi = lo + 1
              /\ Percentile(sorted, p) = sorted[lo + 1] * (100 - f) + sorted[hi + 1] * f
  <1> DEFINE k == (n - 1) * p
             lo == k \div 100
             f == k % 100
             hi == Min({lo + 1, n - 1})
  <1>1. k \in Nat /\ k <= 99 * (n - 1) /\ (n > 1 => k > 0)
    BY DEF Percents
  <1> HIDE DEF k
  <1>2. lo \in Nat /\ f \in 0..99 /\ k = 100 * lo + f
    BY <1>1
  <1> HIDE DEF lo, f
  <1>3. hi = IF lo + 1 <= n - 1 THEN lo + 1 ELSE n - 1
    BY <1>2, MinOfTwo
  <1>4. Percentile(sorted, p) = sorted[lo + 1] * (100 - f) + sorted[hi + 1] * f
    BY DEF Percentile, lo, f, k
  <1> HIDE DEF hi
  <1>5. hi \in Nat /\ lo < n /\ lo <= hi /\ hi <= lo + 1 /\ hi < n /\ (f > 0 => hi = lo + 1)
    <2>1. CASE n = 1
      <3>1. lo = 0 /\ f = 0
        BY <1>1, <1>2, <2>1
      <3>2. hi = 0
        BY <1>3, <2>1, <3>1
      <3> QED
        BY <2>1, <3>1, <3>2
    <2>2. CASE n > 1
      <3>1. lo + 1 <= n - 1
        BY <1>1, <1>2, <2>2
      <3>2. hi = lo + 1
        BY <1>3, <3>1
      <3> QED
        BY <1>2, <2>2, <3>1, <3>2
    <2> QED
      BY <2>1, <2>2
  <1>6. (n - 1) * p = 100 * lo + f
    BY <1>2 DEF k
  <1> QED
    BY <1>2, <1>4, <1>5, <1>6

LatencyInv == latency \in Seq(Nat)

LEMMA LatencyStep == LatencyInv /\ [Next]_vars => LatencyInv'
  <1> SUFFICES ASSUME LatencyInv, [Next]_vars PROVE LatencyInv'
    OBVIOUS
  <1>1. CASE Deliver
    <2>1. PICK lat \in Latencies \union {Skew} :
             latency' = IF lat = Skew THEN latency ELSE Push(latency, lat, LatencyRing)
      BY <1>1 DEF Deliver, Record
    <2>2. CASE lat = Skew
      BY <2>1, <2>2 DEF LatencyInv
    <2>3. CASE lat # Skew
      <3>1. lat \in Nat
        BY <2>3, LatencyAssumption
      <3>2. CASE Len(latency) < LatencyRing
        BY <2>1, <2>3, <3>1, <3>2 DEF Push, LatencyInv
      <3>3. CASE ~(Len(latency) < LatencyRing)
        <4>1. latency # <<>>
          BY <3>3, SizesAssumption
        <4>2. Tail(latency) \in Seq(Nat)
          BY <4>1, HeadTailProperties DEF LatencyInv
        <4>3. latency' = Append(Tail(latency), lat)
          BY <2>1, <2>3, <3>3 DEF Push
        <4> QED
          BY <3>1, <4>2, <4>3 DEF LatencyInv
      <3> QED
        BY <3>2, <3>3
    <2> QED
      BY <2>2, <2>3
  <1>2. CASE Tick \/ Publish \/ Offer \/ End \/ Subscribe \/ StreamEnds \/ Snapshot
              \/ UNCHANGED vars
    <2>1. latency' = latency
      BY <1>2 DEF Tick, Publish, Offer, End, Subscribe, StreamEnds, Snapshot,
                  vars, statVars
    <2> QED
      BY <2>1 DEF LatencyInv
  <1> QED
    BY <1>1, <1>2 DEF Next

\* Positions that a bijection takes from the first m of a sequence.
LEMMA FirstOnes ==
    ASSUME NEW n \in Nat, NEW p \in Bijection(1..n, 1..n), NEW m \in Nat, m <= n,
           NEW S \in SUBSET (1..n)
    PROVE  /\ (\A j \in 1..m : p[j] \in S) => m <= Cardinality(S)
           /\ (\A j \in 1..n : p[j] \in S => j <= m) => Cardinality(S) <= m
           /\ Cardinality(S) \in Nat
  <1>1. /\ p \in [1..n -> 1..n]
        /\ \A i, j \in 1..n : p[i] = p[j] => i = j
        /\ \A t \in 1..n : \E i \in 1..n : p[i] = t
    BY DEF Bijection, Injection, Surjection, IsInjective
  <1>2. IsFiniteSet(S)
    <2>1. IsFiniteSet(1..n)
      BY FS_Interval
    <2> QED
      BY <2>1, FS_Subset
  <1>3. IsFiniteSet(1..m) /\ Cardinality(1..m) = m
    BY FS_Interval
  <1>4. ASSUME \A j \in 1..m : p[j] \in S PROVE m <= Cardinality(S)
    <2> DEFINE f == [j \in 1..m |-> p[j]]
    <2>1. \A j \in 1..m : j \in 1..n
      OBVIOUS
    <2>2. f \in Injection(1..m, S)
      BY <1>1, <1>4, <2>1 DEF Injection, IsInjective
    <2> QED
      BY <1>2, <1>3, <2>2, FS_Injection
  <1>5. ASSUME \A j \in 1..n : p[j] \in S => j <= m PROVE Cardinality(S) <= m
    <2> DEFINE f == [t \in S |-> CHOOSE j \in 1..n : p[j] = t]
    <2>1. \A t \in S : f[t] \in 1..n /\ p[f[t]] = t
      BY <1>1
    <2>2. \A t \in S : f[t] \in 1..m
      BY <1>5, <2>1
    <2> HIDE DEF f
    <2>3. f \in [S -> 1..m] /\ \A s, t \in S : f[s] = f[t] => s = t
      <3>1. f = [t \in S |-> f[t]]
        BY DEF f
      <3> QED
        BY <2>1, <2>2, <3>1
    <2>4. f \in Injection(S, 1..m)
      BY <2>3 DEF Injection, IsInjective
    <2> QED
      BY <1>3, <2>4, FS_Injection
  <1> QED
    BY <1>2, <1>4, <1>5, FS_CardinalityType

\* A percentile has its share of the samples at or below it and no more than
\* that strictly below it, whatever the samples are (_percentile).
THEOREM PercentilesRank == Spec => []LatencyRanks
  <1>1. ASSUME LatencyInv PROVE LatencyRanks
    <2> DEFINE n == Len(latency)
               sorted == Sorted(latency)
    <2>1. SUFFICES ASSUME n > 0, NEW p \in Percents
                   PROVE  LET v == latency_percentile(p)
                          IN /\ 100 * Cardinality({i \in 1..n : 100 * latency[i] <= v})
                                  >= (n - 1) * p
                             /\ 100 * (Cardinality({i \in 1..n : 100 * latency[i] < v}) - 1)
                                  < (n - 1) * p
      BY DEF LatencyRanks
    <2>2. n \in Nat \ {0} /\ latency \in [1..n -> Nat]
      BY <1>1, <2>1 DEF LatencyInv
    <2>3. PICK q \in Bijection(1..n, 1..n) :
             /\ sorted = [i \in 1..n |-> latency[q[i]]]
             /\ \A i, j \in 1..n : i < j => latency[q[i]] <= latency[q[j]]
      BY <2>2, SortedIs
    <2> HIDE DEF n
    <2>4. q \in [1..n -> 1..n]
      BY <2>3 DEF Bijection, Injection
    <2>5. /\ sorted \in [1..n -> Nat]
          /\ \A i \in 1..n : sorted[i] = latency[q[i]] /\ q[i] \in 1..n
          /\ \A i, j \in 1..n : i <= j => sorted[i] <= sorted[j]
      <3>1. \A i \in 1..n : q[i] \in 1..n /\ latency[q[i]] \in Nat
        BY <2>2, <2>4
      <3>2. \A i \in 1..n : sorted[i] = latency[q[i]]
        BY <2>3
      <3>3. sorted \in [1..n -> Nat]
        BY <2>3, <3>1
      <3>4. \A i, j \in 1..n : i < j => sorted[i] <= sorted[j]
        BY <2>3, <3>2
      <3>5. \A i, j \in 1..n : i <= j => i < j \/ i = j
        BY <2>2
      <3>6. \A i \in 1..n : sorted[i] <= sorted[i]
        BY <3>3
      <3> QED
        BY <3>1, <3>2, <3>3, <3>4, <3>5, <3>6
    <2> HIDE DEF sorted
    <2>6. Len(sorted) = n
      <3>1. sorted \in Seq(Nat)
        BY <2>2, <2>5
      <3> QED
        BY <2>2, <2>5, <3>1
    <2>7. PICK lo \in Nat, f \in 0..99, hi \in Nat :
             /\ (n - 1) * p = 100 * lo + f
             /\ lo < n /\ lo <= hi /\ hi <= lo + 1 /\ hi < n
             /\ f > 0 => hi = lo + 1
             /\ Percentile(sorted, p) = sorted[lo + 1] * (100 - f) + sorted[hi + 1] * f
      <3>1. sorted \in [1..n -> Nat]
        BY <2>5
      <3> QED
        BY ONLY <2>1, <2>2, <2>6, <3>1, p \in Percents, RanksAre, ZenonT(40)
    <2> DEFINE v == latency_percentile(p)
               a == sorted[lo + 1]
               b == sorted[hi + 1]
               Low == {i \in 1..n : 100 * latency[i] <= v}
               Under == {i \in 1..n : 100 * latency[i] < v}
    <2>8. lo + 1 \in 1..n /\ hi + 1 \in 1..n /\ lo + 1 <= hi + 1
      BY <2>2, <2>7
    <2>9. a \in Nat /\ b \in Nat /\ a <= b
      BY <2>5, <2>8
    <2>10. v = a * (100 - f) + b * f
      BY <2>7 DEF latency_percentile, sorted
    <2> HIDE DEF v, a, b
    <2>11. /\ 100 * a <= v /\ v <= 100 * b
           /\ f = 0 => v = 100 * a
      BY <2>9, <2>10, Between
    <2>12. v \in Int
      BY <2>9, <2>10
    <2>13. 100 * Cardinality(Low) >= (n - 1) * p
      <3>1. \A j \in 1..(lo + 1) : q[j] \in Low
        <4> SUFFICES ASSUME NEW j \in 1..(lo + 1) PROVE q[j] \in Low
          OBVIOUS
        <4>1. j \in 1..n /\ j <= lo + 1
          BY <2>2, <2>8
        <4>2. sorted[j] \in Nat /\ sorted[j] <= a /\ sorted[j] = latency[q[j]] /\ q[j] \in 1..n
          BY <2>5, <2>8, <4>1 DEF a
        <4>3. 100 * sorted[j] <= v
          BY <2>9, <2>11, <2>12, <4>2
        <4> QED
          BY <4>2, <4>3
      <3>2. lo + 1 \in Nat /\ lo + 1 <= n /\ Low \in SUBSET (1..n)
        BY <2>2, <2>8
      <3> HIDE DEF Low
      <3>3. lo + 1 <= Cardinality(Low) /\ Cardinality(Low) \in Nat
        BY <2>2, <2>3, <3>1, <3>2, FirstOnes
      <3> QED
        BY <2>7, <3>3
    <2>14. 100 * (Cardinality(Under) - 1) < (n - 1) * p
      <3> DEFINE m == IF f = 0 THEN lo ELSE lo + 1
      <3>1. m \in Nat /\ m <= n
        BY <2>2, <2>8
      <3>2. \A j \in 1..n : q[j] \in Under => j <= m
        <4> SUFFICES ASSUME NEW j \in 1..n, q[j] \in Under, j > m PROVE FALSE
          BY <3>1
        <4>1. sorted[j] \in Nat /\ 100 * sorted[j] < v
          BY <2>5
        <4>2. CASE f = 0
          <5>1. lo + 1 <= j
            BY <4>2
          <5>2. a <= sorted[j]
            BY <2>5, <2>8, <5>1 DEF a
          <5> QED
            BY <2>9, <2>11, <4>1, <4>2, <5>2
        <4>3. CASE f # 0
          <5>1. hi + 1 <= j
            BY <2>7, <4>3
          <5>2. b <= sorted[j]
            BY <2>5, <2>8, <5>1 DEF b
          <5> QED
            BY <2>9, <2>11, <2>12, <4>1, <5>2
        <4> QED
          BY <4>2, <4>3
      <3>3. Under \in SUBSET (1..n)
        OBVIOUS
      <3>4. f = 0 => m = lo
        OBVIOUS
      <3>5. f # 0 => m = lo + 1
        OBVIOUS
      <3> HIDE DEF Under, m
      <3>6. Cardinality(Under) <= m /\ Cardinality(Under) \in Nat
        BY <2>2, <2>3, <3>1, <3>2, <3>3, FirstOnes
      <3> QED
        BY <2>7, <3>1, <3>4, <3>5, <3>6
    <2> QED
      BY <2>13, <2>14 DEF v
  <1>2. Init => LatencyInv
    BY DEF Init, LatencyInv
  <1> QED
    BY <1>1, <1>2, LatencyStep, PTL DEF Spec

=============================================================================
