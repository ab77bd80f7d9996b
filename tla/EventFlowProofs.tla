-------------------------- MODULE EventFlowProofs --------------------------
(***************************************************************************)
(* Proofs about the way of an event, for any number of producers, workers, *)
(* consumers, brokers, messages and faults, in both harnesses: fanning in  *)
(* needs no deduplication (OneIsland), the figures of a producer are the   *)
(* ground truth of the load (GroundTruth), and every variable keeps its    *)
(* type (TypeOK).                                                          *)
(***************************************************************************)
EXTENDS EventFlow, FiniteSetTheorems, TLAPS

\* There is at least one topic (the catalog of config.py is never empty), so
\* that an idle worker's record has a topic.
LEMMA IdleTyped ==
  Idle \in [pc : {"idle", "sent", "accepted", "rejected", "lost"},
            seq : Nat, topic : Topics]
  BY CatalogAssumption DEF Idle, Topics

\* What one step has to leave alone for the invariant to survive it.
publisher == <<seq, work, fanned>>

\* A step that keeps the publishes and the fan-outs keeps the invariant.
LEMMA Untouched ==
  ASSUME OneIslandInv, UNCHANGED publisher
  PROVE  OneIslandInv'
  BY DEF OneIslandInv, OneIsland, publisher

\* A step in which publishes end, fail or are refused keeps it, too: no worker
\* starts to send.
LEMMA Ending ==
  ASSUME OneIslandInv, UNCHANGED <<seq, fanned>>,
         work' \in [Slots -> [pc : {"idle", "sent", "accepted", "rejected", "lost"},
                              seq : Nat, topic : Topics]],
         \A x \in Slots : \/ work'[x] = work[x]
                          \/ work'[x].pc = "idle" /\ work'[x].seq = 0
                          \/ /\ work[x].pc # "idle" /\ work'[x].pc # "sent"
                             /\ work'[x].seq = work[x].seq
  PROVE  OneIslandInv'
<1> USE DEF OneIslandInv, Slots
<1>1. \A x \in Slots : work'[x].seq <= seq'[x[1]]
  OBVIOUS
<1>2. \A x, y \in Slots :
         x # y /\ x[1] = y[1] /\ work'[x].pc # "idle" /\ work'[y].pc # "idle"
            => work'[x].seq # work'[y].seq
  OBVIOUS
<1>3. \A x \in Slots : work'[x].pc = "sent" =>
         \A f \in fanned' : f[2] # <<x[1], work'[x].seq>>
  OBVIOUS
<1> QED BY <1>1, <1>2, <1>3 DEF OneIsland

\* Broken connections turn publishes under way into failures.
LEMMA BreakKeeps ==
  ASSUME OneIslandInv, NEW ps, Break(ps), UNCHANGED fanned
  PROVE  OneIslandInv'
<1>1. \A x \in Slots : \/ work'[x] = work[x]
                       \/ /\ work[x].pc # "idle" /\ work'[x].pc # "sent"
                          /\ work'[x].seq = work[x].seq
  BY DEF Break, OneIslandInv
<1>2. work' \in [Slots -> [pc : {"idle", "sent", "accepted", "rejected", "lost"},
                           seq : Nat, topic : Topics]]
  BY DEF Break, OneIslandInv
<1> QED BY <1>1, <1>2, Ending DEF Break

\* A sequence number that is drawn is new.
LEMMA PublishKeeps ==
  ASSUME OneIslandInv, NEW x \in Slots, Publish(x)
  PROVE  OneIslandInv'
<1> DEFINE p == x[1]
<1> USE DEF OneIslandInv
<1>1. p \in Producers /\ seq[p] \in Nat
  BY DEF Slots
<1>2. PICK t \in Topics : work' = [work EXCEPT ![x] =
         [pc |-> IF conn[p] = NoBroker THEN "lost" ELSE "sent",
          seq |-> seq[p] + 1, topic |-> t]]
  BY DEF Publish
<1>3. seq' = [seq EXCEPT ![p] = seq[p] + 1] /\ UNCHANGED fanned
  BY DEF Publish, consumeVars
<1>4. seq' \in [Producers -> Nat] /\ \A q \in Producers : seq[q] <= seq'[q]
  BY <1>1, <1>3
<1>5. /\ work'[x].seq = seq[p] + 1
      /\ work'[x].pc \in {"lost", "sent"}
      /\ \A y \in Slots : y # x => work'[y] = work[y]
  BY <1>2
<1>6. work' \in [Slots -> [pc : {"idle", "sent", "accepted", "rejected", "lost"},
                           seq : Nat, topic : Topics]]
  BY <1>1, <1>2
<1>7. \A y \in Slots : work'[y].seq <= seq'[y[1]]
  <2> SUFFICES ASSUME NEW y \in Slots PROVE work'[y].seq <= seq'[y[1]]
    OBVIOUS
  <2>1. y[1] \in Producers
    BY DEF Slots
  <2>2. CASE y = x
    BY <1>1, <1>3, <1>5, <2>2
  <2>3. CASE y # x
    BY <1>4, <1>5, <2>1, <2>3
  <2> QED BY <2>2, <2>3
<1>8. \A y, z \in Slots :
         y # z /\ y[1] = z[1] /\ work'[y].pc # "idle" /\ work'[z].pc # "idle"
            => work'[y].seq # work'[z].seq
  <2>1. \A y \in Slots : y # x /\ y[1] = p => work'[y].seq # work'[x].seq
    BY <1>1, <1>5
  <2> QED BY <1>5, <2>1
<1>9. \A f \in fanned' : f[2][2] <= seq'[f[2][1]]
  BY <1>3, <1>4
<1>10. \A y \in Slots : work'[y].pc = "sent" =>
          \A f \in fanned' : f[2] # <<y[1], work'[y].seq>>
  <2> SUFFICES ASSUME NEW y \in Slots, work'[y].pc = "sent", NEW f \in fanned
               PROVE  f[2] # <<y[1], work'[y].seq>>
    BY <1>3
  <2>1. CASE y = x
    BY <1>1, <1>5, <2>1
  <2>2. CASE y # x
    BY <1>5, <2>2
  <2> QED BY <2>1, <2>2
<1> QED BY <1>3, <1>4, <1>6, <1>7, <1>8, <1>9, <1>10 DEF OneIsland

\* The event lands on one broker and had been on no subscription before.
LEMMA LandKeeps ==
  ASSUME OneIslandInv, NEW x \in Slots, Land(x)
  PROVE  OneIslandInv'
<1> DEFINE p == x[1]
           e == <<p, work[x].seq>>
           b == conn[p]
           to == {k \in Streams : k[2] = b /\ sub[k] # NoSub}
<1> USE DEF OneIslandInv
<1>1. p \in Producers /\ work[x].seq \in Nat /\ work[x].seq <= seq[p]
  BY DEF Slots
<1>2. fanned' = fanned \union {<<k, e>> : k \in to}
  BY DEF Land, FanOut
<1>3. /\ work[x].pc = "sent"
      /\ work' = [work EXCEPT ![x].pc = "accepted"]
      /\ UNCHANGED seq
  BY DEF Land
<1>4. /\ work' \in [Slots -> [pc : {"idle", "sent", "accepted", "rejected", "lost"},
                              seq : Nat, topic : Topics]]
      /\ \A y \in Slots : work'[y].seq = work[y].seq
      /\ \A y \in Slots : y # x => work'[y] = work[y]
      /\ work'[x].pc = "accepted"
  BY <1>3
<1> HIDE DEF to, e
<1>5. \A f \in fanned' : f \in fanned \/ \E k \in to : f = <<k, e>>
  BY <1>2
<1>6. e \in Producers \X Nat /\ e[1] = p /\ e[2] = work[x].seq
  BY <1>1 DEF e
<1>7. fanned' \subseteq Streams \X (Producers \X Nat)
  BY <1>5, <1>6 DEF to
<1>8. \A f \in fanned' : f[2][2] <= seq'[f[2][1]]
  BY <1>1, <1>3, <1>5, <1>6
<1>9. \A y, z \in Slots :
         y # z /\ y[1] = z[1] /\ work'[y].pc # "idle" /\ work'[z].pc # "idle"
            => work'[y].seq # work'[z].seq
  BY <1>3, <1>4
<1>10. \A y \in Slots : work'[y].pc = "sent" =>
          \A f \in fanned' : f[2] # <<y[1], work'[y].seq>>
  <2> SUFFICES ASSUME NEW y \in Slots, work'[y].pc = "sent", NEW f \in fanned'
               PROVE  f[2] # <<y[1], work'[y].seq>>
    OBVIOUS
  <2>1. y # x /\ work[y].pc = "sent" /\ work'[y].seq = work[y].seq
    BY <1>4
  <2>2. CASE f \in fanned
    BY <2>1, <2>2
  <2>3. CASE f[2] = e
    BY <1>3, <2>1, <2>3 DEF e
  <2> QED BY <1>5, <2>2, <2>3
<1>11. OneIsland'
  <2> SUFFICES ASSUME NEW f \in fanned', NEW g \in fanned',
                      f[1][1] = g[1][1], f[2] = g[2]
               PROVE  f[1] = g[1]
    BY DEF OneIsland
  <2>1. \A h \in fanned : h[2] # e
    BY <1>3 DEF e
  <2>2. \A k, l \in to : k[1] = l[1] => k = l
    BY DEF to, Streams
  <2>3. CASE f \in fanned /\ g \in fanned
    BY <2>3 DEF OneIsland
  <2>4. CASE ~(f \in fanned /\ g \in fanned)
    <3>1. f \notin fanned /\ g \notin fanned
      BY <1>5, <2>1, <2>4
    <3>2. PICK k \in to : f = <<k, e>>
      BY <1>5, <3>1
    <3>3. PICK l \in to : g = <<l, e>>
      BY <1>5, <3>1
    <3> QED BY <2>2, <3>2, <3>3
  <2> QED BY <2>3, <2>4
<1> QED BY <1>1, <1>3, <1>4, <1>7, <1>8, <1>9, <1>10, <1>11

\* A worker that has its result, or its exception, is idle again.
LEMMA FinishKeeps ==
  ASSUME OneIslandInv, NEW x \in Slots, work' = [work EXCEPT ![x] = Idle],
         UNCHANGED <<seq, fanned>>
  PROVE  OneIslandInv'
<1>1. work' \in [Slots -> [pc : {"idle", "sent", "accepted", "rejected", "lost"},
                           seq : Nat, topic : Topics]]
  BY IdleTyped DEF OneIslandInv
<1>2. \A y \in Slots : work'[y] = work[y] \/ work'[y] = Idle
  BY DEF OneIslandInv
<1>3. Idle.pc = "idle" /\ Idle.seq = 0
  BY DEF Idle
<1> QED BY <1>1, <1>2, <1>3, Ending

\* A refused publish does not send any more.
LEMMA RefuseKeeps ==
  ASSUME OneIslandInv, NEW x \in Slots, Refuse(x)
  PROVE  OneIslandInv'
<1>1. /\ work[x].pc = "sent"
      /\ work' = [work EXCEPT ![x] = [work[x] EXCEPT !.pc = "rejected"]]
      /\ UNCHANGED <<seq, fanned>>
  BY DEF Refuse, consumeVars
<1>2. work' \in [Slots -> [pc : {"idle", "sent", "accepted", "rejected", "lost"},
                           seq : Nat, topic : Topics]]
  BY <1>1 DEF OneIslandInv
<1>3. \A y \in Slots : \/ work'[y] = work[y]
                       \/ /\ work[y].pc # "idle" /\ work'[y].pc # "sent"
                          /\ work'[y].seq = work[y].seq
  BY <1>1 DEF OneIslandInv
<1> QED BY <1>1, <1>2, <1>3, Ending

\* Nothing has been published at first.
LEMMA InitInv == Init => OneIslandInv
  BY IdleTyped, CatalogAssumption DEF Init, OneIslandInv, OneIsland, Idle, Slots

\* Every step keeps the invariant.
LEMMA StepPreserves == OneIslandInv /\ [Next]_vars => OneIslandInv'
<1> SUFFICES ASSUME OneIslandInv, [Next]_vars PROVE OneIslandInv'
  OBVIOUS
<1>1. CASE UNCHANGED vars
  BY <1>1, Untouched DEF vars, publishVars, consumeVars, publisher
<1>2. CASE Environment
  <2>1. ASSUME NEW b \in Brokers, Stop(b) PROVE OneIslandInv'
    BY <2>1, BreakKeeps DEF Stop
  <2>2. ASSUME NEW b \in Brokers, Start(b) PROVE OneIslandInv'
    BY <2>2, Untouched DEF Start, publishVars, consumeVars, publisher
  <2>3. ASSUME NEW p \in Producers, Hangup(p) PROVE OneIslandInv'
    BY <2>3, BreakKeeps DEF Hangup, consumeVars
  <2>4. ASSUME NEW k \in Streams, AckLate(k) PROVE OneIslandInv'
    BY <2>4, Untouched DEF AckLate, publishVars, publisher
  <2>5. ASSUME NEW c \in Consumers, Misread(c) PROVE OneIslandInv'
    BY <2>5, Untouched DEF Misread, Detach, publishVars, publisher
  <2> QED BY <1>2, <2>1, <2>2, <2>3, <2>4, <2>5 DEF Environment
<1>3. ASSUME NEW p \in Producers, Producer(p) PROVE OneIslandInv'
  <2>1. CASE Connect(p) \/ Register(p) \/ RegisterFails(p)
    BY <2>1, Untouched
       DEF Connect, Register, RegisterFails, consumeVars, publisher
  <2>2. ASSUME NEW w \in Workers,
               LET x == <<p, w>> IN
               Publish(x) \/ Land(x) \/ Refuse(x) \/ Answer(x) \/ Fail(x)
        PROVE  OneIslandInv'
    <3> DEFINE x == <<p, w>>
    <3>0. x \in Slots
      BY DEF Slots
    <3> HIDE DEF x
    <3>1. CASE Publish(x)
      BY <3>0, <3>1, PublishKeeps
    <3>2. CASE Land(x)
      BY <3>0, <3>2, LandKeeps
    <3>3. CASE Refuse(x)
      BY <3>0, <3>3, RefuseKeeps
    <3>4. CASE Answer(x) \/ Fail(x)
      BY <3>0, <3>4, FinishKeeps DEF Answer, Fail, consumeVars
    <3> QED BY <2>2, <3>1, <3>2, <3>3, <3>4 DEF x
  <2> QED BY <1>3, <2>1, <2>2 DEF Producer
<1>4. ASSUME NEW c \in Consumers, NEW b \in Brokers, FanInManager(c, b)
      PROVE  OneIslandInv'
  BY <1>4, Untouched
     DEF FanInManager, Attach, DropDeparted, Detach, publishVars, publisher
<1>5. ASSUME NEW k \in Streams, Pump(k) PROVE OneIslandInv'
  BY <1>5, Untouched
     DEF Pump, Subscribe, Take, Reply, StreamEnds, publishVars, publisher
<1>6. ASSUME NEW k \in Streams, TakeReply(k) PROVE OneIslandInv'
  BY <1>6, Untouched DEF TakeReply, publishVars, publisher
<1> QED BY <1>1, <1>2, <1>3, <1>4, <1>5, <1>6 DEF Next

\* The inductive invariant holds in every reachable state.
THEOREM FlowInvariant == Spec => []OneIslandInv
<1> QED BY InitInv, StepPreserves, PTL DEF Spec

\* "No dedup needed" (ingress consumer.py:3-7): no consumer is given an event
\* on two of its subscriptions, whatever breaks and reconnects.
THEOREM NoDedupNeeded == Spec => []OneIsland
<1>1. OneIslandInv => OneIsland
  BY DEF OneIslandInv
<1> QED BY <1>1, FlowInvariant, PTL

-----------------------------------------------------------------------------
(* Types *)

SubRecord == [queue : Seq(Events \X Nat), owed : SUBSET (Events \X Nat),
              replies : SUBSET (Events \X {"ack", "nack"})]

\* What TypeOK leaves open: what is on a subscription, that a pump holds an
\* event, and that what is sent is sent on a connection.
FlowTypes ==
    /\ TypeOK
    /\ sub \in [Streams -> SubRecord \cup {NoSub}]
    /\ \A k \in Streams : pump[k].pc = "holding" => pump[k].at \in Events
    /\ \A x \in Slots :
          /\ work[x].pc = "sent" => conn[x[1]] # NoBroker
          /\ work[x].pc # "idle" => work[x].seq > 0

-----------------------------------------------------------------------------
(* The figures of a producer *)

With(p, pcs) == {w \in Workers : work[<<p, w>>].pc \in pcs}
Busy == {"sent", "accepted", "rejected", "lost"}
Mine(p) == {l \in landed : l[1][1] = p}

\* Every number drawn is counted or under way; what landed is counted as
\* published, or waits to be, or its answer was lost.
Tally(p) ==
    LET n == count[p]
    IN /\ seq[p] = n.published + n.rejected + n.errors + Cardinality(With(p, Busy))
       /\ n.published + Cardinality(With(p, {"accepted"})) <= Cardinality(Mine(p))
       /\ Cardinality(Mine(p))
            <= n.published + n.errors + Cardinality(With(p, {"accepted", "lost"}))

TallyInv ==
    /\ \A p \in Producers : IsFiniteSet(Mine(p)) /\ Tally(p)
    /\ \A l \in landed : l[1][2] <= seq[l[1][1]]
    /\ \A x \in Slots : work[x].pc = "sent" =>
          \A l \in landed : l[1] # <<x[1], work[x].seq>>

\* What a producer has been through is registered; and nothing is unregistered.
ClaimInv ==
    /\ \A p \in Producers : \A i \in 1..Len(ClaimOrder) :
          i < claiming[p] => ClaimOrder[i] \in topics
    /\ harness = "performance" =>
          \A x \in Slots : work[x].pc # "idle" => work[x].topic \in topics

FlowInv == FlowTypes /\ OneIslandInv /\ TallyInv /\ ClaimInv

LEMMA OwedTyped ==
  ASSUME FlowTypes, NEW k \in Streams
  PROVE  Owed(k) \subseteq Events
<1>1. sub[k] # NoSub => sub[k].owed \subseteq Events \X Nat
  BY DEF FlowTypes, SubRecord
<1> QED BY <1>1 DEF Owed

\* A subscription that is given a delivery has it, or is evicted.
LEMMA OfferTyped ==
  ASSUME NEW s \in SubRecord, NEW o \in Events \X Nat
  PROVE  Offer(s, o) \in SubRecord \cup {NoSub}
<1>1. Append(s.queue, o) \in Seq(Events \X Nat) /\ s.owed \cup {o} \subseteq Events \X Nat
  BY DEF SubRecord
<1> QED BY <1>1 DEF Offer, SubRecord

LEMMA EndSubsTyped ==
  ASSUME FlowTypes, NEW ks \in SUBSET Streams, EndSubs(ks)
  PROVE  /\ sub' \in [Streams -> SubRecord \cup {NoSub}]
         /\ lost' \subseteq Consumers \X Events
<1>1. sub' \in [Streams -> SubRecord \cup {NoSub}]
  BY DEF EndSubs, FlowTypes
<1>2. lost \subseteq Consumers \X Events
  BY DEF FlowTypes, TypeOK
<1>3. ASSUME NEW k \in ks, NEW e \in Owed(k) PROVE <<k[1], e>> \in Consumers \X Events
  BY OwedTyped DEF Streams
<1>4. lost' \subseteq Consumers \X Events
  BY <1>2, <1>3 DEF EndSubs
<1> QED BY <1>1, <1>4

LEMMA FanOutTyped ==
  ASSUME FlowTypes, NEW e \in Events, NEW b \in Brokers, FanOut(e, b)
  PROVE  /\ sub' \in [Streams -> SubRecord \cup {NoSub}]
         /\ fanned' \subseteq Streams \X Events
         /\ dead' \subseteq Consumers \X Events
<1> DEFINE to == {k \in Streams : k[2] = b /\ sub[k] # NoSub}
           evicted == {k \in to : Full(sub[k])}
<1>1. <<e, 1>> \in Events \X Nat
  OBVIOUS
<1>2. \A k \in to : sub[k] \in SubRecord
  BY DEF FlowTypes
<1>3. \A k \in to : Offer(sub[k], <<e, 1>>) \in SubRecord \cup {NoSub}
  BY <1>1, <1>2, OfferTyped
<1>4. sub' = [k \in Streams |-> IF k \in to THEN Offer(sub[k], <<e, 1>>) ELSE sub[k]]
  BY DEF FanOut
<1>5. sub' \in [Streams -> SubRecord \cup {NoSub}]
  BY <1>3, <1>4 DEF FlowTypes
<1>6. fanned' \subseteq Streams \X Events
  BY DEF FanOut, FlowTypes, TypeOK
<1>7. ASSUME NEW k \in evicted, NEW d \in Owed(k) \cup {e}
      PROVE  <<k[1], d>> \in Consumers \X Events
  BY <1>7, OwedTyped DEF Streams
<1>8. dead' = dead \cup UNION {{<<k[1], d>> : d \in Owed(k) \cup {e}} : k \in evicted}
  BY DEF FanOut
<1>9. dead' \subseteq Consumers \X Events
  BY <1>7, <1>8 DEF FlowTypes, TypeOK
<1> QED BY <1>5, <1>6, <1>9

LEMMA RetryTyped ==
  ASSUME FlowTypes, NEW k \in Streams, NEW s \in SubRecord, NEW o \in Events \X Nat,
         Retry(k, o, s)
  PROVE  /\ sub' \in [Streams -> SubRecord \cup {NoSub}]
         /\ dead' \subseteq Consumers \X Events
<1> DEFINE rest == [s EXCEPT !.owed = @ \ {o}]
<1>1. rest \in SubRecord
  BY DEF SubRecord
<1>2. o[1] \in Events /\ <<o[1], o[2] + 1>> \in Events \X Nat /\ k[1] \in Consumers
  BY DEF Streams
<1>3. Offer(rest, <<o[1], o[2] + 1>>) \in SubRecord \cup {NoSub}
  BY <1>1, <1>2, OfferTyped
<1>4. \A e \in Owed(k) : <<k[1], e>> \in Consumers \X Events
  BY <1>2, OwedTyped
<1>5. dead \subseteq Consumers \X Events /\ sub \in [Streams -> SubRecord \cup {NoSub}]
  BY DEF FlowTypes, TypeOK
<1>6. \/ sub' = [sub EXCEPT ![k] = rest]
      \/ sub' = [sub EXCEPT ![k] = Offer(rest, <<o[1], o[2] + 1>>)]
  BY DEF Retry
<1>7. \/ dead' = dead \cup {<<k[1], o[1]>>}
      \/ dead' = dead \cup {<<k[1], e>> : e \in Owed(k)}
      \/ dead' = dead
  BY DEF Retry
<1>8. sub' \in [Streams -> SubRecord \cup {NoSub}]
  BY <1>1, <1>3, <1>5, <1>6
<1>9. dead' \subseteq Consumers \X Events
  BY <1>2, <1>4, <1>5, <1>7
<1> QED BY <1>8, <1>9

WorkRecord == [pc : {"idle", "sent", "accepted", "rejected", "lost"},
               seq : 0..MaxSeq, topic : Topics]

\* Publishes that end, break or are refused keep the types.
LEMMA WorkTyped ==
  ASSUME FlowTypes, UNCHANGED seq, work' \in [Slots -> WorkRecord],
         \A x \in Slots : \/ work'[x].pc = "idle"
                          \/ /\ work[x].pc # "idle" /\ work'[x].seq = work[x].seq
                             /\ work'[x].pc = "sent" => conn'[x[1]] # NoBroker
  PROVE  \A x \in Slots : /\ work'[x].pc = "sent" => conn'[x[1]] # NoBroker
                          /\ work'[x].pc # "idle" => work'[x].seq > 0
  BY DEF FlowTypes

LEMMA BreakTyped ==
  ASSUME FlowTypes, NEW ps, Break(ps)
  PROVE  /\ conn' \in [Producers -> Brokers \cup {NoBroker}]
         /\ work' \in [Slots -> WorkRecord]
         /\ \A x \in Slots : /\ work'[x].pc = "sent" => conn'[x[1]] # NoBroker
                             /\ work'[x].pc # "idle" => work'[x].seq > 0
<1>1. conn' = [p \in Producers |-> IF p \in ps THEN NoBroker ELSE conn[p]]
  BY DEF Break
<1>2. conn' \in [Producers -> Brokers \cup {NoBroker}]
  BY <1>1 DEF FlowTypes, TypeOK
<1>3. work' = [x \in Slots |-> IF x[1] \in ps /\ work[x].pc # "idle"
                               THEN [work[x] EXCEPT !.pc = "lost"] ELSE work[x]]
  BY DEF Break
<1>4. work' \in [Slots -> WorkRecord]
  <2>1. work \in [Slots -> WorkRecord]
    BY DEF FlowTypes, TypeOK, WorkRecord
  <2>2. ASSUME NEW x \in Slots
        PROVE  (IF x[1] \in ps /\ work[x].pc # "idle"
                  THEN [work[x] EXCEPT !.pc = "lost"] ELSE work[x]) \in WorkRecord
    BY <2>1 DEF WorkRecord
  <2> QED
    BY <1>3, <2>2
<1>5. ASSUME NEW x \in Slots
      PROVE  \/ work'[x].pc = "idle"
             \/ /\ work[x].pc # "idle" /\ work'[x].seq = work[x].seq
                /\ work'[x].pc = "sent" => conn'[x[1]] # NoBroker
  <2>1. x[1] \in Producers /\ work[x] \in WorkRecord
    BY DEF Slots, FlowTypes, TypeOK, WorkRecord
  <2>2. CASE x[1] \in ps /\ work[x].pc # "idle"
    BY <1>3, <2>1, <2>2 DEF WorkRecord
  <2>3. CASE ~(x[1] \in ps /\ work[x].pc # "idle")
    BY <1>1, <1>3, <2>1, <2>3 DEF FlowTypes
  <2> QED BY <2>2, <2>3
<1>6. UNCHANGED seq
  BY DEF Break
<1> QED BY <1>2, <1>4, <1>5, <1>6, WorkTyped

\* Connecting and registering keep the types.
LEMMA ClientTypes ==
  ASSUME FlowTypes, NEW p \in Producers,
         Connect(p) \/ Register(p) \/ RegisterFails(p)
  PROVE  FlowTypes'
<1> USE DEF clusterVars, consumeVars
<1>a. Len(ClaimOrder) \in Nat \ {0}
  BY CatalogAssumption
<1>1. CASE Connect(p)
  <2>1. PICK b \in live : conn' = [conn EXCEPT ![p] = b]
    BY <1>1 DEF Connect
  <2>2. claiming' \in [Producers -> ToDo]
    BY <1>1, <1>a DEF Connect, FlowTypes, TypeOK, ToDo
  <2>3. /\ b \in Brokers /\ b # NoBroker
        /\ UNCHANGED <<clusterVars, topics, seq, work, count, landed, consumeVars>>
    BY <1>1, NamesAssumption DEF Connect, FlowTypes, TypeOK
  <2>4. \A y \in Slots : work[y].pc = "sent" => conn'[y[1]] # NoBroker
    BY <2>1, <2>3 DEF FlowTypes, TypeOK, Slots
  <2> QED BY <2>1, <2>2, <2>3, <2>4 DEF FlowTypes, TypeOK
<1>2. CASE Register(p)
  <2>1. /\ claiming[p] \in 1..Len(ClaimOrder)
        /\ topics' = topics \cup {ClaimOrder[claiming[p]]}
        /\ claiming' = [claiming EXCEPT ![p] = claiming[p] + 1]
        /\ UNCHANGED <<clusterVars, conn, seq, work, count, landed, consumeVars>>
    BY <1>2 DEF Register
  <2>2. claiming' \in [Producers -> ToDo] /\ topics' \subseteq Topics
    BY <1>a, <2>1 DEF FlowTypes, TypeOK, ToDo, Topics
  <2> QED BY <2>1, <2>2 DEF FlowTypes, TypeOK
<1>3. CASE RegisterFails(p)
  <2>1. claiming' \in [Producers -> ToDo]
    BY <1>3, <1>a DEF RegisterFails, FlowTypes, TypeOK, ToDo
  <2> QED BY <1>3, <2>1 DEF RegisterFails, FlowTypes, TypeOK
<1> QED BY <1>1, <1>2, <1>3

\* A step of a publish keeps the types.
LEMMA PublishTypes ==
  ASSUME FlowTypes, NEW p \in Producers, NEW w \in Workers,
         \/ Publish(<<p, w>>) \/ Land(<<p, w>>) \/ Refuse(<<p, w>>)
         \/ Answer(<<p, w>>) \/ Fail(<<p, w>>)
  PROVE  FlowTypes'
<1> DEFINE x == <<p, w>>
<1> USE DEF clusterVars, consumeVars
<1>0. x \in Slots /\ x[1] = p
  BY DEF Slots
<1>a. /\ seq[p] \in 0..MaxSeq /\ work[x] \in WorkRecord /\ conn[p] \in Brokers \cup {NoBroker}
      /\ Len(ClaimOrder) \in Nat \ {0} /\ work \in [Slots -> WorkRecord]
  BY <1>0, CatalogAssumption DEF FlowTypes, TypeOK, WorkRecord
<1> HIDE DEF x
<1>4. CASE Publish(x)
  <2>1. PICK t \in Topics : work' = [work EXCEPT ![x] =
           [pc |-> IF conn[p] = NoBroker THEN "lost" ELSE "sent",
            seq |-> seq[p] + 1, topic |-> t]]
    BY <1>4, <1>0 DEF Publish
  <2>2. /\ seq[p] < MaxSeq /\ seq' = [seq EXCEPT ![p] = seq[p] + 1]
        /\ UNCHANGED <<clusterVars, conn, claiming, topics, count, landed, consumeVars>>
    BY <1>4, <1>0 DEF Publish
  <2>3. seq[p] + 1 \in 0..MaxSeq /\ seq[p] + 1 > 0
    BY <1>a, <2>2, CountsAssumption
  <2>4. seq' \in [Producers -> 0..MaxSeq]
    BY <2>2, <2>3 DEF FlowTypes, TypeOK
  <2>5. work' \in [Slots -> WorkRecord]
    BY <2>1, <2>3, <1>a DEF WorkRecord
  <2>6. \A y \in Slots : /\ work'[y].pc = "sent" => conn[y[1]] # NoBroker
                         /\ work'[y].pc # "idle" => work'[y].seq > 0
    BY <2>1, <2>3, <1>0, <1>a DEF FlowTypes
  <2> QED BY <2>2, <2>4, <2>5, <2>6 DEF FlowTypes, TypeOK, WorkRecord
<1>5. CASE Land(x)
  <2>1. /\ work[x].pc = "sent" /\ work' = [work EXCEPT ![x] = [work[x] EXCEPT !.pc = "accepted"]]
        /\ landed' = landed \cup {<<<<p, work[x].seq>>, conn[p]>>}
        /\ FanOut(<<p, work[x].seq>>, conn[p])
        /\ UNCHANGED <<clusterVars, conn, claiming, topics, seq, count,
                       attached, pump, acked, lost>>
    BY <1>5, <1>0 DEF Land
  <2>2. conn[p] \in Brokers /\ <<p, work[x].seq>> \in Events
    BY <2>1, <1>0, <1>a, CountsAssumption DEF FlowTypes, WorkRecord, Events
  <2>3. /\ sub' \in [Streams -> SubRecord \cup {NoSub}]
        /\ fanned' \subseteq Streams \X Events /\ dead' \subseteq Consumers \X Events
    BY <2>1, <2>2, FanOutTyped
  <2>4. landed' \subseteq Events \X Brokers
    <3>1. landed \subseteq Events \X Brokers
      BY DEF FlowTypes, TypeOK
    <3>2. <<<<p, work[x].seq>>, conn[p]>> \in Events \X Brokers
      BY <2>2
    <3> QED BY ONLY <2>1, <3>1, <3>2
  <2>5. /\ work' \in [Slots -> WorkRecord]
        /\ \A y \in Slots : \/ work'[y] = work[y]
                            \/ work'[y].pc = "accepted" /\ work'[y].seq = work[y].seq
                               /\ work[y].pc # "idle"
    BY <2>1, <1>a DEF WorkRecord
  <2>6. \A y \in Slots : /\ work'[y].pc = "sent" => conn'[y[1]] # NoBroker
                         /\ work'[y].pc # "idle" => work'[y].seq > 0
    BY <2>1, <2>5 DEF FlowTypes
  <2> QED BY <2>1, <2>3, <2>4, <2>5, <2>6 DEF FlowTypes, TypeOK, WorkRecord
<1>6. CASE Refuse(x)
  <2>1. /\ work[x].pc = "sent" /\ work' = [work EXCEPT ![x] = [work[x] EXCEPT !.pc = "rejected"]]
        /\ faults' \in 0..FaultLimit /\ harness' = harness
        /\ UNCHANGED <<live, conn, claiming, topics, seq, count, landed, consumeVars>>
    BY <1>6, CountsAssumption DEF Refuse, Disturb, FlowTypes, TypeOK
  <2>2. work' \in [Slots -> WorkRecord]
    BY <2>1, <1>a DEF WorkRecord
  <2>3. \A y \in Slots : /\ work'[y].pc = "sent" => conn'[y[1]] # NoBroker
                         /\ work'[y].pc # "idle" => work'[y].seq > 0
    BY <2>1, <1>a DEF FlowTypes, WorkRecord
  <2> QED BY <2>1, <2>2, <2>3 DEF FlowTypes, TypeOK, WorkRecord
<1>7. CASE Answer(x) \/ Fail(x)
  <2>1. /\ work' = [work EXCEPT ![x] = Idle]
        /\ UNCHANGED <<clusterVars, conn, claiming, topics, seq, landed, consumeVars>>
    BY <1>7 DEF Answer, Fail
  <2>2. Idle \in WorkRecord /\ Idle.pc = "idle"
    BY CatalogAssumption, CountsAssumption DEF Idle, WorkRecord, Topics
  <2>3. work' \in [Slots -> WorkRecord]
    BY <2>1, <2>2, <1>a
  <2>4. \A y \in Slots : /\ work'[y].pc = "sent" => conn'[y[1]] # NoBroker
                         /\ work'[y].pc # "idle" => work'[y].seq > 0
    BY <2>1, <2>2, <1>a DEF FlowTypes
  <2>5. count' \in [Producers -> [published : Nat, rejected : Nat, errors : Nat]]
    <3> DEFINE n == count[p]
    <3>1. /\ count \in [Producers -> [published : Nat, rejected : Nat, errors : Nat]]
          /\ n \in [published : Nat, rejected : Nat, errors : Nat]
      BY DEF FlowTypes, TypeOK
    <3>2. /\ [n EXCEPT !.published = n.published + 1] \in
                [published : Nat, rejected : Nat, errors : Nat]
          /\ [n EXCEPT !.rejected = n.rejected + 1] \in
                [published : Nat, rejected : Nat, errors : Nat]
          /\ [n EXCEPT !.errors = n.errors + 1] \in
                [published : Nat, rejected : Nat, errors : Nat]
      BY <3>1
    <3>3. \/ count' = [count EXCEPT ![p] = [n EXCEPT !.published = n.published + 1]]
          \/ count' = [count EXCEPT ![p] = [n EXCEPT !.rejected = n.rejected + 1]]
          \/ count' = [count EXCEPT ![p] = [n EXCEPT !.errors = n.errors + 1]]
      BY <1>7, <1>0 DEF Answer, Fail
    <3> QED BY <3>1, <3>2, <3>3
  <2> QED BY <2>1, <2>3, <2>4, <2>5 DEF FlowTypes, TypeOK, WorkRecord
<1> QED BY <1>4, <1>5, <1>6, <1>7 DEF x

PumpRecord == [pc : {"off", "subscribing", "streaming", "holding"},
               at : Events \cup {<<>>}]

LEMMA SetPumpsTyped ==
  ASSUME FlowTypes, NEW c, NEW bs, NEW s \in {Off, Subscribing}, SetPumps(c, bs, s)
  PROVE  /\ pump' \in [Streams -> PumpRecord]
         /\ \A k \in Streams : pump'[k].pc = "holding" => pump'[k].at \in Events
  BY DEF SetPumps, FlowTypes, TypeOK, PumpRecord, Off, Subscribing

\* Detaching leaves the types of what it changes.
LEMMA DetachTyped ==
  ASSUME FlowTypes, NEW c \in Consumers, NEW bs, Detach(c, bs)
  PROVE  /\ attached' \in [Consumers -> SUBSET Brokers]
         /\ pump' \in [Streams -> [pc : {"off", "subscribing", "streaming", "holding"},
                                   at : Events \cup {<<>>}]]
         /\ \A k \in Streams : pump'[k].pc = "holding" => pump'[k].at \in Events
         /\ sub' \in [Streams -> SubRecord \cup {NoSub}]
         /\ lost' \subseteq Consumers \X Events
         /\ UNCHANGED <<conn, claiming, topics, seq, work, count, landed,
                        fanned, acked, dead>>
<1>1. attached' \in [Consumers -> SUBSET Brokers]
  BY DEF Detach, FlowTypes, TypeOK
<1>2. SetPumps(c, bs, Off) /\ EndSubs({k \in Streams : k[1] = c /\ k[2] \in bs})
  BY DEF Detach
<1> QED BY <1>1, <1>2, SetPumpsTyped, EndSubsTyped DEF Detach, publishVars, PumpRecord

\* What the environment does keeps the types.
LEMMA EnvironmentTypes ==
  ASSUME FlowTypes, Environment
  PROVE  FlowTypes'
<1> USE DEF clusterVars, publishVars, consumeVars
<1>0. Disturb => faults' \in 0..FaultLimit
  BY CountsAssumption DEF Disturb, FlowTypes, TypeOK
<1>1. ASSUME NEW b \in Brokers, Stop(b) PROVE FlowTypes'
  <2>1. /\ conn' \in [Producers -> Brokers \cup {NoBroker}]
        /\ work' \in [Slots -> WorkRecord]
        /\ \A x \in Slots : /\ work'[x].pc = "sent" => conn'[x[1]] # NoBroker
                            /\ work'[x].pc # "idle" => work'[x].seq > 0
    BY <1>1, BreakTyped DEF Stop
  <2>2. EndSubs({k \in Streams : k[2] = b})
    BY <1>1 DEF Stop
  <2>3. sub' \in [Streams -> SubRecord \cup {NoSub}] /\ lost' \subseteq Consumers \X Events
    BY <2>2, EndSubsTyped
  <2>4. /\ live' \subseteq Brokers /\ faults' \in 0..FaultLimit
        /\ UNCHANGED <<harness, claiming, topics, seq, count, landed,
                       attached, pump, fanned, acked, dead>>
    BY <1>0, <1>1 DEF Stop, Disturb, Break, FlowTypes, TypeOK
  <2> QED BY <2>1, <2>3, <2>4 DEF FlowTypes, TypeOK, WorkRecord
<1>2. ASSUME NEW b \in Brokers, Start(b) PROVE FlowTypes'
  BY <1>2 DEF Start, FlowTypes, TypeOK
<1>3. ASSUME NEW p \in Producers, Hangup(p) PROVE FlowTypes'
  <2>1. /\ conn' \in [Producers -> Brokers \cup {NoBroker}]
        /\ work' \in [Slots -> WorkRecord]
        /\ \A x \in Slots : /\ work'[x].pc = "sent" => conn'[x[1]] # NoBroker
                            /\ work'[x].pc # "idle" => work'[x].seq > 0
    BY <1>3, BreakTyped DEF Hangup
  <2>2. /\ faults' \in 0..FaultLimit
        /\ UNCHANGED <<harness, live, claiming, topics, seq, count, landed, consumeVars>>
    BY <1>0, <1>3 DEF Hangup, Disturb, Break
  <2> QED BY <2>1, <2>2 DEF FlowTypes, TypeOK, WorkRecord
<1>4. ASSUME NEW k \in Streams, AckLate(k) PROVE FlowTypes'
  <2>1. PICK o \in sub[k].owed : Retry(k, o, sub[k])
    BY <1>4 DEF AckLate
  <2>2. sub[k] \in SubRecord /\ o \in Events \X Nat
    BY <1>4 DEF AckLate, FlowTypes, SubRecord
  <2>3. sub' \in [Streams -> SubRecord \cup {NoSub}] /\ dead' \subseteq Consumers \X Events
    BY <2>1, <2>2, RetryTyped
  <2>4. /\ faults' \in 0..FaultLimit
        /\ UNCHANGED <<harness, live, publishVars, attached, pump, fanned, acked, lost>>
    BY <1>0, <1>4 DEF AckLate, Disturb
  <2> QED BY <2>3, <2>4 DEF FlowTypes, TypeOK
<1>5. ASSUME NEW c \in Consumers, Misread(c) PROVE FlowTypes'
  <2>1. Detach(c, attached[c]) /\ faults' \in 0..FaultLimit /\ UNCHANGED <<harness, live>>
    BY <1>0, <1>5 DEF Misread, Disturb
  <2> QED BY <2>1, DetachTyped DEF FlowTypes, TypeOK
<1> QED BY <1>1, <1>2, <1>3, <1>4, <1>5 DEF Environment

\* A step of a consumer's fan-in keeps the types.
LEMMA FanInTypes ==
  ASSUME FlowTypes, NEW c \in Consumers, NEW b \in Brokers, FanInManager(c, b)
  PROVE  FlowTypes'
<1> USE DEF clusterVars, publishVars
<1>1. CASE Attach(c, b)
  <2>1. attached' = [attached EXCEPT ![c] = attached[c] \cup {b}] /\ b \in Brokers
    BY <1>1 DEF Attach, FlowTypes, TypeOK
  <2>2. attached' \in [Consumers -> SUBSET Brokers]
    BY <2>1 DEF FlowTypes, TypeOK
  <2>3. SetPumps(c, {b}, Subscribing)
    BY <1>1 DEF Attach
  <2>4. /\ pump' \in [Streams -> PumpRecord]
        /\ \A k \in Streams : pump'[k].pc = "holding" => pump'[k].at \in Events
    BY <2>3, SetPumpsTyped
  <2> QED BY <1>1, <2>2, <2>4 DEF Attach, FlowTypes, TypeOK, PumpRecord
<1>2. CASE DropDeparted(c, b)
  <2>1. Detach(c, {b}) /\ UNCHANGED clusterVars
    BY <1>2 DEF DropDeparted
  <2> QED BY <2>1, DetachTyped DEF FlowTypes, TypeOK
<1> QED BY <1>1, <1>2 DEF FanInManager

\* A step of a pump, or of the broker that reads its reply, keeps the types.
LEMMA PumpTypes ==
  ASSUME FlowTypes, NEW k \in Streams, Pump(k) \/ TakeReply(k)
  PROVE  FlowTypes'
<1> USE DEF clusterVars, publishVars
<1>0. /\ pump \in [Streams -> PumpRecord] /\ sub \in [Streams -> SubRecord \cup {NoSub}]
      /\ sub[k] # NoSub => sub[k] \in SubRecord
      /\ \A j \in Streams : pump[j].pc = "holding" => pump[j].at \in Events
  BY DEF FlowTypes, TypeOK, PumpRecord
<1>1. CASE Subscribe(k)
  <2>1. /\ sub' = [sub EXCEPT ![k] = NewSub]
        /\ pump' = [pump EXCEPT ![k] = [pump[k] EXCEPT !.pc = "streaming"]]
        /\ UNCHANGED <<clusterVars, publishVars, attached, fanned, acked, dead, lost>>
    BY <1>1 DEF Subscribe
  <2>2. NewSub \in SubRecord
    BY DEF NewSub, SubRecord
  <2>3. /\ pump' \in [Streams -> PumpRecord]
        /\ \A j \in Streams : pump'[j].pc = "holding" => pump'[j].at \in Events
    BY <2>1, <1>0 DEF PumpRecord
  <2>4. sub' \in [Streams -> SubRecord \cup {NoSub}]
    BY <2>1, <2>2, <1>0
  <2> QED BY <2>1, <2>3, <2>4 DEF FlowTypes, TypeOK, PumpRecord
<1>2. CASE Take(k)
  <2>1. /\ sub[k] # NoSub /\ sub[k].queue # <<>>
        /\ pump' = [pump EXCEPT ![k] =
                      [pc |-> "holding", at |-> Head(sub[k].queue)[1]]]
        /\ sub' = [sub EXCEPT ![k] = [sub[k] EXCEPT !.queue = Tail(sub[k].queue)]]
        /\ UNCHANGED <<clusterVars, publishVars, attached, fanned, acked, dead, lost>>
    BY <1>2 DEF Take
  <2>2. sub[k].queue \in Seq(Events \X Nat)
    BY <2>1, <1>0 DEF SubRecord
  <2>3. Head(sub[k].queue) \in Events \X Nat /\ Tail(sub[k].queue) \in Seq(Events \X Nat)
    BY <2>1, <2>2
  <2>4. [sub[k] EXCEPT !.queue = Tail(sub[k].queue)] \in SubRecord
    BY <2>1, <2>3, <1>0 DEF SubRecord
  <2>5. sub' \in [Streams -> SubRecord \cup {NoSub}]
    BY <2>1, <2>4, <1>0
  <2>6. /\ pump' \in [Streams -> PumpRecord]
        /\ \A j \in Streams : pump'[j].pc = "holding" => pump'[j].at \in Events
    BY <2>1, <2>3, <1>0 DEF PumpRecord
  <2> QED BY <2>1, <2>5, <2>6 DEF FlowTypes, TypeOK, PumpRecord
<1>3. CASE Reply(k)
  <2>1. PICK r \in {"ack", "nack"} :
           sub' = [sub EXCEPT ![k] =
                     [sub[k] EXCEPT !.replies = sub[k].replies \cup {<<pump[k].at, r>>}]]
    BY <1>3 DEF Reply
  <2>2. /\ sub[k] # NoSub /\ pump[k].pc = "holding"
        /\ pump' = [pump EXCEPT ![k] = [pc |-> "streaming", at |-> <<>>]]
        /\ UNCHANGED <<clusterVars, publishVars, attached, fanned, acked, dead, lost>>
    BY <1>3 DEF Reply
  <2>3. sub[k].replies \cup {<<pump[k].at, r>>} \subseteq Events \X {"ack", "nack"}
    BY <2>2, <1>0 DEF SubRecord
  <2>4. [sub[k] EXCEPT !.replies = sub[k].replies \cup {<<pump[k].at, r>>}] \in SubRecord
    BY <2>2, <2>3, <1>0 DEF SubRecord
  <2>5. sub' \in [Streams -> SubRecord \cup {NoSub}]
    BY <2>1, <2>4, <1>0
  <2>6. /\ pump' \in [Streams -> PumpRecord]
        /\ \A j \in Streams : pump'[j].pc = "holding" => pump'[j].at \in Events
    BY <2>2, <1>0 DEF PumpRecord
  <2> QED BY <2>2, <2>5, <2>6 DEF FlowTypes, TypeOK, PumpRecord
<1>4. CASE StreamEnds(k)
  <2>1. /\ pump' = [pump EXCEPT ![k] = Subscribing]
        /\ UNCHANGED <<clusterVars, publishVars, attached, sub, fanned, acked, dead, lost>>
    BY <1>4 DEF StreamEnds
  <2>2. /\ pump' \in [Streams -> PumpRecord]
        /\ \A j \in Streams : pump'[j].pc = "holding" => pump'[j].at \in Events
    BY <2>1, <1>0 DEF PumpRecord, Subscribing
  <2> QED BY <2>1, <2>2 DEF FlowTypes, TypeOK, PumpRecord
<1>5. CASE TakeReply(k)
  <2>1. /\ sub[k] \in SubRecord
        /\ UNCHANGED <<clusterVars, publishVars, attached, pump, fanned, lost>>
    BY <1>5, <1>0 DEF TakeReply
  <2>2. acked \subseteq Consumers \X Events /\ dead \subseteq Consumers \X Events
    BY DEF FlowTypes, TypeOK
  <2>3. PICK r \in sub[k].replies :
          LET s == [sub[k] EXCEPT !.replies = @ \ {r}]
              open == {o \in s.owed : o[1] = r[1]}
          IN \/ /\ open = {}
                /\ sub' = [sub EXCEPT ![k] = s]
                /\ UNCHANGED <<acked, dead>>
             \/ /\ r[2] = "ack" /\ open # {}
                /\ sub' = [sub EXCEPT ![k] = [s EXCEPT !.owed = @ \ open]]
                /\ acked' = acked \union {<<k[1], r[1]>>}
                /\ UNCHANGED dead
             \/ /\ r[2] = "nack"
                /\ \E o \in open : Retry(k, o, s)
                /\ UNCHANGED acked
    BY <1>5 DEF TakeReply
  <2> DEFINE s == [sub[k] EXCEPT !.replies = @ \ {r}]
             open == {o \in s.owed : o[1] = r[1]}
  <2>4. s \in SubRecord /\ r[1] \in Events /\ k[1] \in Consumers
    BY <2>1 DEF SubRecord, Streams
  <2>5. open \subseteq Events \X Nat
    BY <2>4 DEF SubRecord
  <2>6. [s EXCEPT !.owed = s.owed \ open] \in SubRecord
    BY <2>4 DEF SubRecord
  <2> HIDE DEF s, open
  <2>7. /\ sub' \in [Streams -> SubRecord \cup {NoSub}]
        /\ acked' \subseteq Consumers \X Events /\ dead' \subseteq Consumers \X Events
    <3>1. CASE sub' = [sub EXCEPT ![k] = s] /\ UNCHANGED <<acked, dead>>
      BY <2>2, <2>4, <3>1, <1>0
    <3>2. CASE /\ sub' = [sub EXCEPT ![k] = [s EXCEPT !.owed = s.owed \ open]]
               /\ acked' = acked \union {<<k[1], r[1]>>} /\ UNCHANGED dead
      BY <2>2, <2>4, <2>6, <3>2, <1>0
    <3>3. ASSUME NEW o \in open, Retry(k, o, s), UNCHANGED acked
          PROVE  /\ sub' \in [Streams -> SubRecord \cup {NoSub}]
                 /\ acked' \subseteq Consumers \X Events
                 /\ dead' \subseteq Consumers \X Events
      BY <2>2, <2>4, <2>5, <3>3, RetryTyped
    <3> QED BY <2>3, <3>1, <3>2, <3>3 DEF s, open
  <2> QED BY <2>1, <2>7 DEF FlowTypes, TypeOK
<1> QED BY <1>1, <1>2, <1>3, <1>4, <1>5 DEF Pump

LEMMA InitTypes == Init => FlowTypes
<1> SUFFICES ASSUME Init PROVE FlowTypes
  OBVIOUS
<1>1. Idle \in WorkRecord /\ Idle.pc = "idle" /\ Off \in PumpRecord /\ Off.pc = "off"
  BY CatalogAssumption, CountsAssumption DEF Idle, WorkRecord, Topics, Off, PumpRecord
<1>2. live \subseteq Brokers
  <2>1. Home \in Brokers
    BY NamesAssumption DEF Home
  <2> QED BY <2>1 DEF Init
<1>3. 0 \in ToDo /\ 0 \in 0..MaxSeq /\ 0 \in 0..FaultLimit
  BY CatalogAssumption, CountsAssumption DEF ToDo
<1> QED BY <1>1, <1>2, <1>3 DEF Init, FlowTypes, TypeOK, WorkRecord, PumpRecord

\* Every step keeps the types.
LEMMA StepTypes == FlowTypes /\ [Next]_vars => FlowTypes'
<1> SUFFICES ASSUME FlowTypes, [Next]_vars PROVE FlowTypes'
  OBVIOUS
<1>1. CASE UNCHANGED vars
  BY <1>1 DEF vars, clusterVars, publishVars, consumeVars, FlowTypes, TypeOK
<1>2. ASSUME NEW p \in Producers, Producer(p) PROVE FlowTypes'
  BY <1>2, ClientTypes, PublishTypes DEF Producer
<1> QED BY <1>1, <1>2, EnvironmentTypes, FanInTypes, PumpTypes DEF Next

\* Every field of the model has its type in every reachable state: in
\* particular no counter of a producer and no claim runs out of its range.
THEOREM TypeCorrect == Spec => []TypeOK
<1>1. FlowTypes => TypeOK
  BY DEF FlowTypes
<1> QED BY <1>1, InitTypes, StepTypes, PTL DEF Spec

-----------------------------------------------------------------------------
(* The ground truth of the load, step by step *)

\* How many workers of producer p are in one of the states pcs.
Number(p, pcs) == Cardinality(With(p, pcs))

\* There are finitely many workers (producer.py starts them in a loop).
LEMMA NumberTyped ==
  ASSUME NEW p, NEW pcs
  PROVE  IsFiniteSet(With(p, pcs)) /\ Number(p, pcs) \in Nat
<1>1. With(p, pcs) \subseteq Workers
  BY DEF With
<1> QED BY <1>1, WorkersAssumption, FS_Subset, FS_CardinalityType DEF Number

\* One worker moves to record r: who is in a state of pcs now.
LEMMA WithMoved ==
  ASSUME FlowTypes, NEW p \in Producers, NEW w \in Workers, NEW r, NEW pcs,
         work' = [work EXCEPT ![<<p, w>>] = r]
  PROVE  /\ \A q \in Producers : q # p => With(q, pcs)' = With(q, pcs)
         /\ r.pc \in pcs => With(p, pcs)' = With(p, pcs) \cup {w}
         /\ r.pc \notin pcs => With(p, pcs)' = With(p, pcs) \ {w}
         /\ w \in With(p, pcs) <=> work[<<p, w>>].pc \in pcs
<1>1. \A q \in Producers, v \in Workers :
         /\ <<q, v>> \in Slots
         /\ work'[<<q, v>>] = IF q = p /\ v = w THEN r ELSE work[<<q, v>>]
  BY DEF FlowTypes, TypeOK, Slots
<1> QED BY <1>1 DEF With

LEMMA NumberElsewhere ==
  ASSUME FlowTypes, NEW p \in Producers, NEW w \in Workers, NEW r, NEW pcs,
         work' = [work EXCEPT ![<<p, w>>] = r], NEW q \in Producers, q # p
  PROVE  Number(q, pcs)' = Number(q, pcs)
<1>1. With(q, pcs)' = With(q, pcs)
  BY WithMoved
<1> QED BY <1>1 DEF Number

LEMMA NumberMoved ==
  ASSUME FlowTypes, NEW p \in Producers, NEW w \in Workers, NEW r, NEW pcs,
         work' = [work EXCEPT ![<<p, w>>] = r]
  PROVE  /\ work[<<p, w>>].pc \in pcs /\ r.pc \in pcs =>
               Number(p, pcs)' = Number(p, pcs)
         /\ work[<<p, w>>].pc \notin pcs /\ r.pc \notin pcs =>
               Number(p, pcs)' = Number(p, pcs)
         /\ work[<<p, w>>].pc \notin pcs /\ r.pc \in pcs =>
               Number(p, pcs)' = Number(p, pcs) + 1
         /\ work[<<p, w>>].pc \in pcs /\ r.pc \notin pcs =>
               Number(p, pcs) = Number(p, pcs)' + 1
<1> DEFINE A == With(p, pcs)
           B == With(p, pcs)'
<1>1. /\ r.pc \in pcs => B = A \cup {w}
      /\ r.pc \notin pcs => B = A \ {w}
      /\ w \in A <=> work[<<p, w>>].pc \in pcs
  BY WithMoved
<1>3. IsFiniteSet(A) /\ Cardinality(A) \in Nat
  BY NumberTyped DEF Number
<1>4. Number(p, pcs) = Cardinality(A) /\ Number(p, pcs)' = Cardinality(B)
  BY DEF Number
<1> HIDE DEF A, B
<1>5. /\ w \in A => A \cup {w} = A
      /\ w \notin A => A \ {w} = A
  OBVIOUS
<1>6. w \in A => Cardinality(A \ {w}) = Cardinality(A) - 1
  BY <1>3, FS_RemoveElement
<1>7. w \notin A => Cardinality(A \cup {w}) = Cardinality(A) + 1
  BY <1>3, FS_AddElement
<1>8. /\ r.pc \in pcs => B = A \cup {w}
      /\ r.pc \notin pcs => B = A \ {w}
      /\ w \in A <=> work[<<p, w>>].pc \in pcs
  BY <1>1
<1>9. w \in A /\ r.pc \in pcs => Cardinality(B) = Cardinality(A)
  BY <1>5, <1>8
<1>10. w \notin A /\ r.pc \notin pcs => Cardinality(B) = Cardinality(A)
  BY <1>5, <1>8
<1>11. w \notin A /\ r.pc \in pcs => Cardinality(B) = Cardinality(A) + 1
  BY <1>7, <1>8
<1>12. w \in A /\ r.pc \notin pcs => Cardinality(A) = Cardinality(B) + 1
  <2> SUFFICES ASSUME w \in A, r.pc \notin pcs PROVE Cardinality(A) = Cardinality(B) + 1
    OBVIOUS
  <2>1. Cardinality(B) = Cardinality(A) - 1
    BY <1>6, <1>8
  <2>2. Cardinality(A) \in Nat
    BY <1>3
  <2> HIDE DEF A, B
  <2> QED BY <2>1, <2>2
<1> QED BY <1>4, <1>8, <1>9, <1>10, <1>11, <1>12

\* A producer whose figures, messages and workers stay as they are, or whose
\* publishes under way turn into failures, keeps its tally.
LEMMA TallyTurned ==
  ASSUME FlowTypes, TallyInv, UNCHANGED <<seq, count, landed>>,
         \A x \in Slots :
            /\ work'[x].pc \in Busy <=> work[x].pc \in Busy
            /\ work'[x].pc = "accepted" => work[x].pc = "accepted"
            /\ work[x].pc \in {"accepted", "lost"} =>
                  work'[x].pc \in {"accepted", "lost"}
            /\ work'[x].pc = "sent" => work[x].pc = "sent"
            /\ work'[x].seq = work[x].seq
  PROVE  TallyInv'
<1>1. ASSUME NEW p \in Producers PROVE IsFiniteSet(Mine(p))' /\ Tally(p)'
  <2>1. /\ With(p, Busy)' = With(p, Busy)
        /\ With(p, {"accepted"})' \subseteq With(p, {"accepted"})
        /\ With(p, {"accepted", "lost"}) \subseteq With(p, {"accepted", "lost"})'
    BY DEF With, Slots
  <2>2. /\ IsFiniteSet(With(p, {"accepted"}))
        /\ IsFiniteSet(With(p, {"accepted", "lost"})')
    <3>1. With(p, {"accepted", "lost"})' \subseteq Workers
      BY DEF With
    <3> QED BY <3>1, WorkersAssumption, FS_Subset, NumberTyped
  <2>3. /\ Cardinality(With(p, {"accepted"})') <= Cardinality(With(p, {"accepted"}))
        /\ Cardinality(With(p, {"accepted"})') \in Nat
        /\ Cardinality(With(p, {"accepted", "lost"}))
             <= Cardinality(With(p, {"accepted", "lost"})')
        /\ Cardinality(With(p, {"accepted", "lost"})') \in Nat
        /\ Cardinality(With(p, {"accepted"})) \in Nat
        /\ Cardinality(With(p, {"accepted", "lost"})) \in Nat
    BY <2>1, <2>2, FS_Subset, FS_CardinalityType
  <2>4. /\ Mine(p)' = Mine(p) /\ IsFiniteSet(Mine(p)) /\ Cardinality(Mine(p)) \in Nat
    BY FS_CardinalityType DEF Mine, TallyInv
  <2>5. count[p].published \in Nat /\ count[p].errors \in Nat
    BY DEF FlowTypes, TypeOK
  <2>6. Tally(p)
    BY DEF TallyInv
  <2> QED BY <2>1, <2>3, <2>4, <2>5, <2>6 DEF Tally
<1>2. /\ \A l \in landed' : l[1][2] <= seq'[l[1][1]]
      /\ \A x \in Slots : work'[x].pc = "sent" =>
            \A l \in landed' : l[1] # <<x[1], work'[x].seq>>
  BY DEF TallyInv
<1> QED BY <1>1, <1>2 DEF TallyInv

\* The tally says of the producers whose figures and workers are not touched
\* what it said before.
LEMMA TallyOther ==
  ASSUME TallyInv, NEW q \in Producers, seq'[q] = seq[q], count'[q] = count[q],
         Mine(q)' = Mine(q), \A pcs : Number(q, pcs)' = Number(q, pcs)
  PROVE  IsFiniteSet(Mine(q))' /\ Tally(q)'
<1>1. IsFiniteSet(Mine(q)) /\ Tally(q)
  BY DEF TallyInv
<1>2. /\ Number(q, Busy)' = Number(q, Busy)
      /\ Number(q, {"accepted"})' = Number(q, {"accepted"})
      /\ Number(q, {"accepted", "lost"})' = Number(q, {"accepted", "lost"})
  OBVIOUS
<1> QED BY <1>1, <1>2 DEF Tally, Number

\* A number that is drawn is one more publish under way.
LEMMA TallyPublish ==
  ASSUME FlowTypes, TallyInv, NEW p \in Producers, NEW w \in Workers, Publish(<<p, w>>)
  PROVE  TallyInv'
<1> DEFINE x == <<p, w>>
<1>1. PICK t \in Topics : work' = [work EXCEPT ![x] =
         [pc |-> IF conn[p] = NoBroker THEN "lost" ELSE "sent",
          seq |-> seq[p] + 1, topic |-> t]]
  BY DEF Publish
<1> DEFINE r == [pc |-> IF conn[p] = NoBroker THEN "lost" ELSE "sent",
                 seq |-> seq[p] + 1, topic |-> t]
<1>2. /\ work[x].pc = "idle" /\ seq' = [seq EXCEPT ![p] = seq[p] + 1]
      /\ UNCHANGED <<count, landed>>
  BY DEF Publish
<1>3. r.pc \in {"lost", "sent"} /\ r.seq = seq[p] + 1
  OBVIOUS
<1>4. work' = [work EXCEPT ![<<p, w>>] = r]
  BY <1>1
<1> HIDE DEF r
<1>5. /\ seq[p] \in Nat /\ seq'[p] = seq[p] + 1
      /\ \A q \in Producers : seq[q] \in Nat /\ (q # p => seq'[q] = seq[q])
  BY <1>2, CountsAssumption DEF FlowTypes, TypeOK
<1>6. /\ Number(p, Busy)' = Number(p, Busy) + 1
      /\ Number(p, {"accepted"})' = Number(p, {"accepted"})
      /\ \/ Number(p, {"accepted", "lost"})' = Number(p, {"accepted", "lost"})
         \/ Number(p, {"accepted", "lost"})' = Number(p, {"accepted", "lost"}) + 1
  <2>1. /\ work[x].pc \notin Busy /\ r.pc \in Busy
        /\ work[x].pc \notin {"accepted"} /\ r.pc \notin {"accepted"}
        /\ work[x].pc \notin {"accepted", "lost"}
    BY <1>2, <1>3 DEF Busy
  <2>2. /\ Number(p, Busy)' = Number(p, Busy) + 1
        /\ Number(p, {"accepted"})' = Number(p, {"accepted"})
    BY <1>4, <2>1, NumberMoved
  <2>3. CASE r.pc \in {"accepted", "lost"}
    BY <1>4, <2>1, <2>2, <2>3, NumberMoved
  <2>4. CASE r.pc \notin {"accepted", "lost"}
    BY <1>4, <2>1, <2>2, <2>4, NumberMoved
  <2> QED BY <2>3, <2>4
<1>7. IsFiniteSet(Mine(p))' /\ Tally(p)'
  <2>1. /\ Mine(p)' = Mine(p) /\ count'[p] = count[p] /\ IsFiniteSet(Mine(p))
        /\ Tally(p) /\ Cardinality(Mine(p)) \in Nat
    BY <1>2, FS_CardinalityType DEF Mine, TallyInv
  <2>2. /\ count[p].published \in Nat /\ count[p].rejected \in Nat /\ count[p].errors \in Nat
        /\ Number(p, Busy) \in Nat /\ Number(p, {"accepted"}) \in Nat
        /\ Number(p, {"accepted", "lost"}) \in Nat
    BY NumberTyped DEF FlowTypes, TypeOK
  <2> QED BY <1>5, <1>6, <2>1, <2>2 DEF Tally, Number
<1>8. ASSUME NEW q \in Producers, q # p PROVE IsFiniteSet(Mine(q))' /\ Tally(q)'
  <2>1. seq'[q] = seq[q] /\ count'[q] = count[q] /\ Mine(q)' = Mine(q)
    BY <1>2, <1>5, <1>8 DEF Mine
  <2>2. ASSUME NEW pcs PROVE Number(q, pcs)' = Number(q, pcs)
    BY <1>4, <1>8, NumberElsewhere
  <2> QED BY <2>1, <2>2, TallyOther
<1>9. \A l \in landed : l[1][1] \in Producers /\ l[1][2] <= seq'[l[1][1]]
  <2> SUFFICES ASSUME NEW l \in landed
               PROVE  l[1][1] \in Producers /\ l[1][2] <= seq'[l[1][1]]
    OBVIOUS
  <2>1. /\ l[1][1] \in Producers /\ l[1][2] \in Nat /\ l[1][2] <= seq[l[1][1]]
    BY CountsAssumption DEF FlowTypes, TypeOK, TallyInv, Events
  <2> QED BY <1>5, <2>1
<1>10. ASSUME NEW y \in Slots, work'[y].pc = "sent", NEW l \in landed
       PROVE  l[1] # <<y[1], work'[y].seq>>
  <2>1. CASE y = x
    <3>1. work'[y].seq = seq[p] + 1 /\ y[1] = p
      BY <1>3, <1>4, <2>1 DEF FlowTypes, TypeOK
    <3>2. l[1][1] = p => l[1][2] <= seq[p] /\ l[1][2] \in Nat
      BY CountsAssumption DEF FlowTypes, TypeOK, TallyInv, Events
    <3> QED BY <1>5, <3>1, <3>2
  <2>2. CASE y # x
    <3>1. work'[y] = work[y]
      BY <1>4, <2>2 DEF FlowTypes, TypeOK
    <3> QED BY <1>10, <3>1 DEF TallyInv
  <2> QED BY <2>1, <2>2
<1> QED BY <1>2, <1>7, <1>8, <1>9, <1>10 DEF TallyInv

\* An event that the broker accepts had not landed; what its worker waits for
\* is the answer.
LEMMA TallyLand ==
  ASSUME FlowTypes, OneIslandInv, TallyInv, NEW p \in Producers, NEW w \in Workers,
         Land(<<p, w>>)
  PROVE  TallyInv'
<1> DEFINE x == <<p, w>>
           e == <<p, work[x].seq>>
           r == [work[x] EXCEPT !.pc = "accepted"]
<1>0. x \in Slots /\ x[1] = p /\ work[x] \in WorkRecord
  BY DEF Slots, FlowTypes, TypeOK, WorkRecord
<1>1. /\ work[x].pc = "sent" /\ work' = [work EXCEPT ![<<p, w>>] = r]
      /\ landed' = landed \cup {<<e, conn[p]>>}
      /\ UNCHANGED <<seq, count>>
  BY <1>0 DEF Land
<1>2. r.pc = "accepted" /\ r.seq = work[x].seq
  BY <1>0 DEF WorkRecord
<1>3. /\ e[1] = p /\ e[2] = work[x].seq /\ e[2] <= seq[p]
      /\ \A l \in landed : l[1] # e
  BY <1>0, <1>1 DEF OneIslandInv, TallyInv
<1> HIDE DEF r, e
<1>4. /\ Number(p, Busy)' = Number(p, Busy)
      /\ Number(p, {"accepted"})' = Number(p, {"accepted"}) + 1
      /\ Number(p, {"accepted", "lost"})' = Number(p, {"accepted", "lost"}) + 1
  <2>1. /\ work[x].pc \in Busy /\ r.pc \in Busy
        /\ work[x].pc \notin {"accepted"} /\ r.pc \in {"accepted"}
        /\ work[x].pc \notin {"accepted", "lost"} /\ r.pc \in {"accepted", "lost"}
    BY <1>1, <1>2 DEF Busy
  <2>2. Number(p, Busy)' = Number(p, Busy)
    BY <1>1, <2>1, NumberMoved
  <2>3. Number(p, {"accepted"})' = Number(p, {"accepted"}) + 1
    BY <1>1, <2>1, NumberMoved
  <2>4. Number(p, {"accepted", "lost"})' = Number(p, {"accepted", "lost"}) + 1
    BY <1>1, <2>1, NumberMoved
  <2> QED BY <2>2, <2>3, <2>4
<1>5. IsFiniteSet(Mine(p)) /\ Tally(p)
  BY DEF TallyInv
<1>6. /\ Mine(p)' = Mine(p) \cup {<<e, conn[p]>>}
      /\ <<e, conn[p]>> \notin Mine(p)
      /\ \A q \in Producers : q # p => Mine(q)' = Mine(q)
  BY <1>1, <1>3 DEF Mine
<1>7. /\ IsFiniteSet(Mine(p))'
      /\ Cardinality(Mine(p)') = Cardinality(Mine(p)) + 1
      /\ Cardinality(Mine(p)) \in Nat
  BY <1>5, <1>6, FS_AddElement, FS_CardinalityType
<1>8. IsFiniteSet(Mine(p))' /\ Tally(p)'
  <2>1. seq'[p] = seq[p] /\ count'[p] = count[p]
    BY <1>1
  <2>2. /\ count[p].published \in Nat /\ count[p].rejected \in Nat /\ count[p].errors \in Nat
        /\ Number(p, Busy) \in Nat /\ Number(p, {"accepted"}) \in Nat
        /\ Number(p, {"accepted", "lost"}) \in Nat
    BY NumberTyped DEF FlowTypes, TypeOK
  <2> QED BY <1>4, <1>5, <1>7, <2>1, <2>2 DEF Tally, Number
<1>9. ASSUME NEW q \in Producers, q # p PROVE IsFiniteSet(Mine(q))' /\ Tally(q)'
  <2>1. seq'[q] = seq[q] /\ count'[q] = count[q] /\ Mine(q)' = Mine(q)
    BY <1>1, <1>6, <1>9
  <2>2. ASSUME NEW pcs PROVE Number(q, pcs)' = Number(q, pcs)
    BY <1>1, <1>9, NumberElsewhere
  <2> QED BY <2>1, <2>2, TallyOther
<1>10. \A l \in landed' : l[1][2] <= seq'[l[1][1]]
  BY <1>1, <1>3 DEF TallyInv
<1>11. ASSUME NEW y \in Slots, work'[y].pc = "sent", NEW l \in landed'
       PROVE  l[1] # <<y[1], work'[y].seq>>
  <2>1. y # x /\ work'[y] = work[y]
    BY <1>1, <1>2, <1>11, <1>0 DEF FlowTypes, TypeOK
  <2>2. CASE l \in landed
    BY <1>11, <2>1, <2>2 DEF TallyInv
  <2>3. CASE l[1] = e
    <3>1. y[1] = p => work[y].seq # work[x].seq
      BY <1>0, <1>1, <1>11, <2>1 DEF OneIslandInv
    <3> QED BY <1>3, <2>1, <2>3, <3>1
  <2> QED BY <1>1, <2>2, <2>3
<1> QED BY <1>8, <1>9, <1>10, <1>11 DEF TallyInv

\* A worker that reads its answer, or the exception, moves one publish from
\* under way to the one figure that is its own.
LEMMA TallyFinish ==
  ASSUME FlowTypes, TallyInv, NEW p \in Producers, NEW w \in Workers,
         Answer(<<p, w>>) \/ Fail(<<p, w>>)
  PROVE  TallyInv'
<1> DEFINE x == <<p, w>>
           n == count[p]
<1>0. /\ x \in Slots /\ x[1] = p
      /\ n \in [published : Nat, rejected : Nat, errors : Nat]
  BY DEF Slots, FlowTypes, TypeOK
<1>1. /\ work' = [work EXCEPT ![<<p, w>>] = Idle] /\ Idle.pc = "idle"
      /\ UNCHANGED <<seq, landed>>
  BY DEF Answer, Fail, Idle
<1>2. /\ \A q \in Producers : q # p => count'[q] = count[q]
      /\ \/ /\ work[x].pc = "accepted"
            /\ count'[p] = [n EXCEPT !.published = n.published + 1]
         \/ /\ work[x].pc = "rejected"
            /\ count'[p] = [n EXCEPT !.rejected = n.rejected + 1]
         \/ /\ work[x].pc = "lost"
            /\ count'[p] = [n EXCEPT !.errors = n.errors + 1]
  BY <1>0 DEF Answer, Fail, FlowTypes, TypeOK
<1>3. ASSUME NEW q \in Producers, q # p PROVE IsFiniteSet(Mine(q))' /\ Tally(q)'
  <2>1. seq'[q] = seq[q] /\ count'[q] = count[q] /\ Mine(q)' = Mine(q)
    BY <1>1, <1>2, <1>3 DEF Mine
  <2>2. ASSUME NEW pcs PROVE Number(q, pcs)' = Number(q, pcs)
    BY <1>1, <1>3, NumberElsewhere
  <2> QED BY <2>1, <2>2, TallyOther
<1>4. IsFiniteSet(Mine(p))' /\ Tally(p)'
  <2>1. /\ Mine(p)' = Mine(p) /\ IsFiniteSet(Mine(p)) /\ Tally(p)
        /\ Cardinality(Mine(p)) \in Nat /\ seq'[p] = seq[p]
    BY <1>1, FS_CardinalityType DEF Mine, TallyInv
  <2>2. /\ Number(p, Busy) \in Nat /\ Number(p, {"accepted"}) \in Nat
        /\ Number(p, {"accepted", "lost"}) \in Nat
        /\ Number(p, Busy)' \in Nat /\ Number(p, {"accepted"})' \in Nat
        /\ Number(p, {"accepted", "lost"})' \in Nat
    <3>1. ASSUME NEW pcs PROVE Number(p, pcs) \in Nat
      BY NumberTyped
    <3>2. ASSUME NEW pcs PROVE Number(p, pcs)' \in Nat
      <4>1. With(p, pcs)' \subseteq Workers
        BY DEF With
      <4> QED BY <4>1, WorkersAssumption, FS_Subset, FS_CardinalityType DEF Number
    <3> QED BY <3>1, <3>2
  <2>3. Idle.pc \notin Busy /\ Idle.pc \notin {"accepted"} /\ Idle.pc \notin {"accepted", "lost"}
    BY <1>1 DEF Busy
  <2>4. work[x].pc \in Busy => Number(p, Busy) = Number(p, Busy)' + 1
    BY <1>1, <2>3, NumberMoved
  <2>5. /\ work[x].pc \in {"accepted"} =>
             Number(p, {"accepted"}) = Number(p, {"accepted"})' + 1
        /\ work[x].pc \notin {"accepted"} =>
             Number(p, {"accepted"})' = Number(p, {"accepted"})
    BY <1>1, <2>3, NumberMoved
  <2>6. /\ work[x].pc \in {"accepted", "lost"} =>
             Number(p, {"accepted", "lost"}) = Number(p, {"accepted", "lost"})' + 1
        /\ work[x].pc \notin {"accepted", "lost"} =>
             Number(p, {"accepted", "lost"})' = Number(p, {"accepted", "lost"})
    BY <1>1, <2>3, NumberMoved
  <2>7. /\ seq[p] = n.published + n.rejected + n.errors + Number(p, Busy)
        /\ n.published + Number(p, {"accepted"}) <= Cardinality(Mine(p))
        /\ Cardinality(Mine(p)) <= n.published + n.errors + Number(p, {"accepted", "lost"})
    BY <2>1 DEF Tally, Number
  <2> SUFFICES
        LET m == count'[p]
        IN /\ seq[p] = m.published + m.rejected + m.errors + Number(p, Busy)'
           /\ m.published + Number(p, {"accepted"})' <= Cardinality(Mine(p))
           /\ Cardinality(Mine(p))
                <= m.published + m.errors + Number(p, {"accepted", "lost"})'
    BY <2>1 DEF Tally, Number
  <2>8. CASE /\ work[x].pc = "accepted"
             /\ count'[p] = [n EXCEPT !.published = n.published + 1]
    <3>1. /\ count'[p].published = n.published + 1
          /\ count'[p].rejected = n.rejected /\ count'[p].errors = n.errors
      BY <1>0, <2>8
    <3>2. /\ Number(p, Busy) = Number(p, Busy)' + 1
          /\ Number(p, {"accepted"}) = Number(p, {"accepted"})' + 1
          /\ Number(p, {"accepted", "lost"}) = Number(p, {"accepted", "lost"})' + 1
      BY <2>4, <2>5, <2>6, <2>8 DEF Busy
    <3>3. n.published \in Nat /\ n.rejected \in Nat /\ n.errors \in Nat
      BY <1>0
    <3> HIDE DEF x, n
    <3>4. seq[p] = count'[p].published + count'[p].rejected + count'[p].errors
                   + Number(p, Busy)'
      BY <2>2, <2>7, <3>1, <3>2, <3>3
    <3>5. count'[p].published + Number(p, {"accepted"})' <= Cardinality(Mine(p))
      BY <2>1, <2>2, <2>7, <3>1, <3>2, <3>3
    <3>6. Cardinality(Mine(p)) <= count'[p].published + count'[p].errors
                                  + Number(p, {"accepted", "lost"})'
      BY <2>1, <2>2, <2>7, <3>1, <3>2, <3>3
    <3> QED BY <3>4, <3>5, <3>6
  <2>9. CASE /\ work[x].pc = "rejected"
             /\ count'[p] = [n EXCEPT !.rejected = n.rejected + 1]
    <3>1. /\ count'[p].rejected = n.rejected + 1
          /\ count'[p].published = n.published /\ count'[p].errors = n.errors
      BY <1>0, <2>9
    <3>2. /\ Number(p, Busy) = Number(p, Busy)' + 1
          /\ Number(p, {"accepted"})' = Number(p, {"accepted"})
          /\ Number(p, {"accepted", "lost"})' = Number(p, {"accepted", "lost"})
      BY <2>4, <2>5, <2>6, <2>9 DEF Busy
    <3> HIDE DEF x
    <3> QED BY <1>0, <2>1, <2>2, <2>7, <3>1, <3>2
  <2>10. CASE /\ work[x].pc = "lost"
              /\ count'[p] = [n EXCEPT !.errors = n.errors + 1]
    <3>1. /\ count'[p].errors = n.errors + 1
          /\ count'[p].published = n.published /\ count'[p].rejected = n.rejected
      BY <1>0, <2>10
    <3>2. /\ Number(p, Busy) = Number(p, Busy)' + 1
          /\ Number(p, {"accepted"})' = Number(p, {"accepted"})
          /\ Number(p, {"accepted", "lost"}) = Number(p, {"accepted", "lost"})' + 1
      BY <2>4, <2>5, <2>6, <2>10 DEF Busy
    <3> HIDE DEF x
    <3> QED BY <1>0, <2>1, <2>2, <2>7, <3>1, <3>2
  <2> QED BY <1>2, <2>8, <2>9, <2>10
<1>5. \A l \in landed' : l[1][2] <= seq'[l[1][1]]
  BY <1>1 DEF TallyInv
<1>6. \A y \in Slots : work'[y].pc = "sent" =>
         \A l \in landed' : l[1] # <<y[1], work'[y].seq>>
  <2>1. \A y \in Slots : work'[y].pc = "sent" => work'[y] = work[y]
    BY <1>1 DEF FlowTypes, TypeOK
  <2> QED BY <1>1, <2>1 DEF TallyInv
<1> QED BY <1>3, <1>4, <1>5, <1>6 DEF TallyInv

\* Every step keeps the tally.
LEMMA StepTally ==
  FlowTypes /\ OneIslandInv /\ TallyInv /\ [Next]_vars => TallyInv'
<1> SUFFICES ASSUME FlowTypes, OneIslandInv, TallyInv, [Next]_vars PROVE TallyInv'
  OBVIOUS
<1> USE DEF publishVars, consumeVars
<1>1. ASSUME UNCHANGED <<seq, work, count, landed>> PROVE TallyInv'
  BY <1>1, TallyTurned
<1>2. ASSUME NEW ps, Break(ps) PROVE TallyInv'
  <2>1. \A x \in Slots :
           \/ work'[x] = work[x]
           \/ /\ work[x].pc # "idle" /\ work'[x].pc = "lost"
              /\ work'[x].seq = work[x].seq
    BY <1>2 DEF Break, FlowTypes, TypeOK
  <2>2. \A x \in Slots : work[x].pc # "idle" <=> work[x].pc \in Busy
    BY DEF FlowTypes, TypeOK, Busy
  <2>3. "lost" \in Busy
    BY DEF Busy
  <2> QED BY <1>2, <2>1, <2>2, <2>3, TallyTurned DEF Break
<1>3. ASSUME NEW p \in Producers, NEW w \in Workers, Refuse(<<p, w>>) PROVE TallyInv'
  <2> DEFINE x == <<p, w>>
  <2>1. /\ work[x].pc = "sent" /\ work' = [work EXCEPT ![x] = [work[x] EXCEPT !.pc = "rejected"]]
        /\ UNCHANGED <<seq, count, landed>>
    BY <1>3 DEF Refuse
  <2>2. \A y \in Slots :
           \/ work'[y] = work[y]
           \/ work[y].pc = "sent" /\ work'[y].pc = "rejected" /\ work'[y].seq = work[y].seq
    BY <2>1 DEF FlowTypes, TypeOK
  <2>3. "sent" \in Busy /\ "rejected" \in Busy
    BY DEF Busy
  <2> QED BY <2>1, <2>2, <2>3, TallyTurned
<1>4. CASE UNCHANGED vars
  BY <1>1, <1>4 DEF vars
<1>5. CASE Environment
  BY <1>1, <1>2, <1>5 DEF Environment, Stop, Start, Hangup, AckLate, Misread, Detach
<1>6. ASSUME NEW p \in Producers, Producer(p) PROVE TallyInv'
  BY <1>1, <1>3, <1>6, TallyPublish, TallyLand, TallyFinish
     DEF Producer, Connect, Register, RegisterFails
<1>7. ASSUME NEW c \in Consumers, NEW b \in Brokers, FanInManager(c, b) PROVE TallyInv'
  BY <1>1, <1>7 DEF FanInManager, Attach, DropDeparted, Detach
<1>8. ASSUME NEW k \in Streams, Pump(k) \/ TakeReply(k) PROVE TallyInv'
  BY <1>1, <1>8 DEF Pump, Subscribe, Take, Reply, StreamEnds, TakeReply
<1> QED BY <1>4, <1>5, <1>6, <1>7, <1>8 DEF Next

\* What is claimed stays registered, and the load keeps to what is claimed.
LEMMA ClaimKept ==
  ASSUME ClaimInv, UNCHANGED <<harness, claiming, topics>>,
         \A x \in Slots : work'[x].pc # "idle" =>
            work[x].pc # "idle" /\ work'[x].topic = work[x].topic
  PROVE  ClaimInv'
  BY DEF ClaimInv

\* In the performance harness a producer that publishes has registered every
\* topic there is.
LEMMA ClaimPublish ==
  ASSUME FlowTypes, ClaimInv, NEW p \in Producers, NEW w \in Workers, Publish(<<p, w>>)
  PROVE  ClaimInv'
<1> DEFINE x == <<p, w>>
<1>1. PICK t \in Topics : work' = [work EXCEPT ![x] =
         [pc |-> IF conn[p] = NoBroker THEN "lost" ELSE "sent",
          seq |-> seq[p] + 1, topic |-> t]]
  BY DEF Publish
<1>2. UNCHANGED <<harness, claiming, topics>> /\ (harness = "performance" => Claimed(p))
  BY DEF Publish, clusterVars
<1>3. harness = "performance" => t \in topics
  <2> SUFFICES ASSUME harness = "performance" PROVE t \in topics
    OBVIOUS
  <2>1. PICK i \in 1..Len(ClaimOrder) : t = ClaimOrder[i]
    BY DEF Topics
  <2>2. i < claiming[p]
    BY <1>2, CatalogAssumption DEF Claimed
  <2> QED BY <2>1, <2>2 DEF ClaimInv
<1>4. \A y \in Slots : work'[y] = work[y] \/ work'[y].topic = t
  BY <1>1 DEF FlowTypes, TypeOK
<1> QED BY <1>2, <1>3, <1>4 DEF ClaimInv

LEMMA StepClaim == FlowTypes /\ ClaimInv /\ [Next]_vars => ClaimInv'
<1> SUFFICES ASSUME FlowTypes, ClaimInv, [Next]_vars PROVE ClaimInv'
  OBVIOUS
<1> USE DEF clusterVars, publishVars, consumeVars, Disturb
<1>1. ASSUME UNCHANGED <<harness, claiming, topics, work>> PROVE ClaimInv'
  BY <1>1, ClaimKept
<1>2. ASSUME NEW ps, Break(ps), UNCHANGED harness PROVE ClaimInv'
  <2>1. \A x \in Slots : work'[x].pc # "idle" =>
           work[x].pc # "idle" /\ work'[x].topic = work[x].topic
    BY <1>2 DEF Break, FlowTypes, TypeOK
  <2> QED BY <1>2, <2>1, ClaimKept DEF Break
<1>3. CASE UNCHANGED vars
  BY <1>1, <1>3 DEF vars
<1>4. CASE Environment
  BY <1>1, <1>2, <1>4 DEF Environment, Stop, Start, Hangup, AckLate, Misread, Detach
<1>5. ASSUME NEW p \in Producers, Producer(p) PROVE ClaimInv'
  <2>0. claiming \in [Producers -> ToDo] /\ \A q \in Producers : claiming[q] \in Nat
    BY CatalogAssumption DEF FlowTypes, TypeOK, ToDo
  <2>1. CASE Connect(p) \/ RegisterFails(p)
    <3>1. \A q \in Producers : claiming'[q] <= claiming[q] \/ claiming'[q] = 1
      BY <2>0, <2>1 DEF Connect, RegisterFails
    <3>2. UNCHANGED <<harness, topics, work>>
      BY <2>1 DEF Connect, RegisterFails
    <3>3. \A q \in Producers : \A i \in 1..Len(ClaimOrder) :
             i < claiming'[q] => i < claiming[q]
      <4> SUFFICES ASSUME NEW q \in Producers, NEW i \in 1..Len(ClaimOrder),
                          i < claiming'[q]
                   PROVE  i < claiming[q]
        OBVIOUS
      <4>1. i \in Nat /\ i >= 1
        BY CatalogAssumption
      <4>2. claiming'[q] \in Nat
        BY <2>0, <2>1 DEF Connect, RegisterFails
      <4> QED BY <2>0, <3>1, <4>1, <4>2
    <3> QED BY <3>2, <3>3 DEF ClaimInv
  <2>2. CASE Register(p)
    <3>1. /\ topics' = topics \cup {ClaimOrder[claiming[p]]}
          /\ claiming' = [claiming EXCEPT ![p] = claiming[p] + 1]
          /\ UNCHANGED <<harness, work>>
      BY <2>2 DEF Register
    <3>2. \A q \in Producers : \A i \in 1..Len(ClaimOrder) :
             i < claiming'[q] => i < claiming[q] \/ i = claiming[p]
      BY <2>0, <3>1, CatalogAssumption
    <3>3. \A q \in Producers : \A i \in 1..Len(ClaimOrder) :
             i < claiming'[q] => ClaimOrder[i] \in topics'
      BY <3>1, <3>2 DEF ClaimInv
    <3> QED BY <3>1, <3>3 DEF ClaimInv
  <2>3. ASSUME NEW w \in Workers, Land(<<p, w>>) \/ Refuse(<<p, w>>) PROVE ClaimInv'
    <3>1. \A x \in Slots : work'[x].pc # "idle" =>
             work[x].pc # "idle" /\ work'[x].topic = work[x].topic
      <4>1. /\ work \in [Slots -> WorkRecord] /\ work[<<p, w>>].pc = "sent"
            /\ \/ work' = [work EXCEPT ![<<p, w>>] =
                              [work[<<p, w>>] EXCEPT !.pc = "accepted"]]
               \/ work' = [work EXCEPT ![<<p, w>>] =
                              [work[<<p, w>>] EXCEPT !.pc = "rejected"]]
        BY <2>3 DEF Land, Refuse, FlowTypes, TypeOK, WorkRecord
      <4> QED BY <4>1 DEF WorkRecord
    <3> QED BY <2>3, <3>1, ClaimKept DEF Land, Refuse
  <2>4. ASSUME NEW w \in Workers, Answer(<<p, w>>) \/ Fail(<<p, w>>) PROVE ClaimInv'
    <3>1. \A x \in Slots : work'[x].pc # "idle" =>
             work[x].pc # "idle" /\ work'[x].topic = work[x].topic
      <4>1. /\ work \in [Slots -> WorkRecord] /\ Idle.pc = "idle"
            /\ work' = [work EXCEPT ![<<p, w>>] = Idle]
        BY <2>4 DEF Answer, Fail, Idle, FlowTypes, TypeOK, WorkRecord
      <4> QED BY <4>1
    <3> QED BY <2>4, <3>1, ClaimKept DEF Answer, Fail
  <2> QED BY <1>5, <2>1, <2>2, <2>3, <2>4, ClaimPublish DEF Producer
<1>6. ASSUME NEW c \in Consumers, NEW b \in Brokers, FanInManager(c, b) PROVE ClaimInv'
  BY <1>1, <1>6 DEF FanInManager, Attach, DropDeparted, Detach
<1>7. ASSUME NEW k \in Streams, Pump(k) \/ TakeReply(k) PROVE ClaimInv'
  BY <1>1, <1>7 DEF Pump, Subscribe, Take, Reply, StreamEnds, TakeReply
<1> QED BY <1>3, <1>4, <1>5, <1>6, <1>7 DEF Next

\* Nothing has been drawn, claimed or published at first.
LEMMA InitTally == Init => TallyInv /\ ClaimInv
<1> SUFFICES ASSUME Init PROVE TallyInv /\ ClaimInv
  OBVIOUS
<1>1. Idle.pc = "idle" /\ \A x \in Slots : work[x] = Idle
  BY DEF Init, Idle
<1>2. ASSUME NEW p \in Producers PROVE IsFiniteSet(Mine(p)) /\ Tally(p)
  <2>1. /\ Mine(p) = {} /\ With(p, Busy) = {} /\ With(p, {"accepted"}) = {}
        /\ With(p, {"accepted", "lost"}) = {}
    BY <1>1 DEF Init, Mine, With, Busy, Slots
  <2>2. seq[p] = 0 /\ count[p] = [published |-> 0, rejected |-> 0, errors |-> 0]
    BY DEF Init
  <2> QED BY <2>1, <2>2, FS_EmptySet DEF Tally
<1>3. \A p \in Producers : \A i \in 1..Len(ClaimOrder) : ~(i < claiming[p])
  BY CatalogAssumption DEF Init
<1> QED BY <1>1, <1>2, <1>3 DEF Init, TallyInv, ClaimInv

\* Types, one-island, tally and claims together are inductive.
THEOREM GroundInvariant == Spec => []FlowInv
<1>1. Init => FlowInv
  BY InitInv, InitTypes, InitTally DEF FlowInv
<1>2. FlowInv /\ [Next]_vars => FlowInv'
  BY StepPreserves, StepTypes, StepTally, StepClaim DEF FlowInv
<1> QED BY <1>1, <1>2, PTL DEF Spec

\* The producer's figures are the ground truth of the load (producer.py's
\* _published, _rejected and _errors): whatever breaks, every number drawn is
\* counted once or under way, and published never exceeds what landed.
THEOREM GroundTruthHolds == Spec => []GroundTruth
<1>1. FlowInv => GroundTruth
  <2> SUFFICES ASSUME FlowInv, NEW p \in Producers
               PROVE  LET under == {w \in Workers : work[<<p, w>>].pc # "idle"}
                          mine == {l \in landed : l[1][1] = p}
                          n == count[p]
                      IN /\ seq[p] = n.published + n.rejected + n.errors
                                     + Cardinality(under)
                         /\ n.published <= Cardinality(mine)
                         /\ Cardinality(mine) <= n.published + n.errors
                                                 + Cardinality(under)
                         /\ harness = "performance" =>
                               \A w \in under : work[<<p, w>>].topic \in topics
    BY DEF GroundTruth
  <2>1. {w \in Workers : work[<<p, w>>].pc # "idle"} = With(p, Busy)
    BY DEF FlowInv, FlowTypes, TypeOK, With, Busy, Slots
  <2>2. {l \in landed : l[1][1] = p} = Mine(p)
    BY DEF Mine
  <2>3. Tally(p) /\ IsFiniteSet(Mine(p)) /\ Cardinality(Mine(p)) \in Nat
    BY FS_CardinalityType DEF FlowInv, TallyInv
  <2>4. count[p].published \in Nat /\ count[p].errors \in Nat
    BY DEF FlowInv, FlowTypes, TypeOK
  <2>5. /\ Cardinality(With(p, {"accepted"})) \in Nat
        /\ Cardinality(With(p, Busy)) \in Nat
        /\ Cardinality(With(p, {"accepted", "lost"})) \in Nat
    BY NumberTyped DEF Number
  <2>6. Cardinality(With(p, {"accepted", "lost"})) <= Cardinality(With(p, Busy))
    <3>1. With(p, {"accepted", "lost"}) \subseteq With(p, Busy)
      BY DEF With, Busy
    <3> QED BY <3>1, NumberTyped, FS_Subset
  <2>7. harness = "performance" =>
           \A w \in Workers : work[<<p, w>>].pc # "idle" => work[<<p, w>>].topic \in topics
    BY DEF FlowInv, ClaimInv, Slots
  <2>8. /\ seq[p] = count[p].published + count[p].rejected + count[p].errors
                    + Cardinality(With(p, Busy))
        /\ count[p].published + Cardinality(With(p, {"accepted"})) <= Cardinality(Mine(p))
        /\ Cardinality(Mine(p)) <= count[p].published + count[p].errors
                                   + Cardinality(With(p, {"accepted", "lost"}))
    BY <2>3 DEF Tally
  <2>9. count[p].published <= Cardinality(Mine(p))
    BY <2>3, <2>4, <2>5, <2>8
  <2>10. Cardinality(Mine(p)) <= count[p].published + count[p].errors
                                 + Cardinality(With(p, Busy))
    BY <2>3, <2>4, <2>5, <2>6, <2>8
  <2> QED BY <2>1, <2>2, <2>7, <2>8, <2>9, <2>10
<1> QED BY <1>1, GroundInvariant, PTL

=============================================================================
