----------------------------- MODULE EventFlow -----------------------------
(***************************************************************************)
(* The way of an event from the producers to the consumers, in the ingress *)
(* and in the performance harness: workers of a producer publish over one  *)
(* connection (producer.py), a broker hands what it accepted to the        *)
(* subscriptions it has at that moment, and the pumps of the consumers     *)
(* (consumer.py) ack or nack what they receive.                            *)
(*                                                                         *)
(* ingress: nginx connects a producer to some broker, consumers fan in to  *)
(* all of them; FanIn models the manager of the attachments, here it       *)
(* attaches and detaches in one step.  performance: one broker, the topics *)
(* are claimed before the load starts, the pumps keep their one client.    *)
(*                                                                         *)
(* The broker is a library.  What is assumed of it: it fans out live to    *)
(* its own subscribers, retries what is nacked or not acked in time until  *)
(* the budget is spent, then dead-letters it, evicts a subscriber whose    *)
(* queue is full, and an ack is a frame that nobody answers                *)
(* (docs/01-perf-log.md:76).                                               *)
(*                                                                         *)
(* A consumer has two pumps per broker whose selectors have no topic in    *)
(* common and which share nothing but counters; one of them is modelled,   *)
(* with the topics that its selector matches.                              *)
(***************************************************************************)
EXTENDS Naturals, Sequences, FiniteSets

CONSTANTS
    Producers, Workers,  \* Workers: the publishing tasks of one producer
    Consumers, Brokers,
    ClaimOrder,          \* ALL_TOPICS, in the order of their registration
    PoisonEvery,         \* every so many-th message is always nacked
    MaxAttempts,         \* RETRY_MAX_ATTEMPTS
    QueueLimit,          \* the broker's bound of a subscription's queue
    MaxSeq,              \* bound: messages of a producer
    FaultLimit,          \* bound: crashes, lost connections, late acks ...
    NoBroker, NoSub

ASSUME CountsAssumption ==
    /\ PoisonEvery \in Nat \ {0} /\ MaxAttempts \in Nat \ {0}
    /\ QueueLimit \in Nat \ {0} /\ MaxSeq \in Nat /\ FaultLimit \in Nat
ASSUME CatalogAssumption == Len(ClaimOrder) \in Nat \ {0}
ASSUME NamesAssumption == Brokers # {} /\ NoBroker \notin Brokers
ASSUME WorkersAssumption == IsFiniteSet(Workers)

VARIABLES
    harness,      \* "ingress" or "performance"
    live,         \* the brokers that are up
    faults,       \* how many of the bounded disturbances happened
    conn,         \* the broker a producer's client is connected to
    claiming,     \* where in ClaimOrder _register_all is; 0: not connected
    topics,       \* topics that are registered, in the shared store
    seq,          \* per producer: the last sequence number drawn
    work,         \* per worker: the publish it waits for
    count,        \* per producer: _published, _rejected, _errors
    landed,       \* history: which event was accepted by which broker
    attached,     \* per consumer: the brokers it is attached to
    pump,         \* per consumer and broker: the state of _pump
    sub,          \* the broker's subscription of that pump, if it has one
    fanned,       \* history: which event was put on which subscription
    acked, dead, lost   \* history: what became of an event at a consumer

clusterVars == <<harness, live, faults>>
publishVars == <<conn, claiming, topics, seq, work, count, landed>>
consumeVars == <<attached, pump, sub, fanned, acked, dead, lost>>
vars == <<clusterVars, publishVars, consumeVars>>

Topics == {ClaimOrder[i] : i \in 1..Len(ClaimOrder)}
Slots == Producers \X Workers
Events == Producers \X (1..MaxSeq)
Streams == Consumers \X Brokers
ToDo == 0..Len(ClaimOrder) + 1
Claimed(p) == claiming[p] = Len(ClaimOrder) + 1
Home == CHOOSE b \in Brokers : TRUE

Idle == [pc |-> "idle", seq |-> 0, topic |-> ClaimOrder[1]]
Poison(e) == e[2] % PoisonEvery = 0

\* A subscription: deliveries under way to the pump, what the broker waits
\* for with its attempt, replies under way to the broker.
NewSub == [queue |-> <<>>, owed |-> {}, replies |-> {}]
Owed(k) == IF sub[k] = NoSub THEN {} ELSE {o[1] : o \in sub[k].owed}
Off == [pc |-> "off", at |-> <<>>]
Subscribing == [pc |-> "subscribing", at |-> <<>>]

Init ==
    /\ harness \in {"ingress", "performance"}
    /\ \/ harness = "ingress" /\ live = Brokers
       \/ harness = "performance" /\ live = {Home}
    /\ faults = 0
    /\ conn = [p \in Producers |-> NoBroker]
    /\ claiming = [p \in Producers |-> 0]
    /\ topics = {}
    /\ seq = [p \in Producers |-> 0]
    /\ work = [x \in Slots |-> Idle]
    /\ count = [p \in Producers |-> [published |-> 0, rejected |-> 0, errors |-> 0]]
    /\ landed = {}
    /\ attached = [c \in Consumers |-> {}]
    /\ pump = [k \in Streams |-> Off]
    /\ sub = [k \in Streams |-> NoSub]
    /\ fanned = {}
    /\ acked = {} /\ dead = {} /\ lost = {}

-----------------------------------------------------------------------------
(* The broker's side of the subscriptions *)

\* What becomes of a subscription that is given <<event, attempt>>: it is
\* queued, or the queue is full and the subscriber evicted.
Full(s) == Len(s.queue) = QueueLimit
Offer(s, o) ==
    IF Full(s) THEN NoSub
    ELSE [s EXCEPT !.queue = Append(@, o), !.owed = @ \union {o}]

\* The subscriptions in ks end: at the client their streams end, too.
EndSubs(ks) ==
    /\ sub' = [k \in Streams |-> IF k \in ks THEN NoSub ELSE sub[k]]
    /\ lost' = lost \union UNION {{<<k[1], e>> : e \in Owed(k)} : k \in ks}

\* Event e is fanned out on the subscriptions of broker b.  What an evicted
\* subscription still owes runs out of retries (docs/02-rerun.md:125).
FanOut(e, b) ==
    LET to == {k \in Streams : k[2] = b /\ sub[k] # NoSub}
        evicted == {k \in to : Full(sub[k])}
    IN /\ sub' = [k \in Streams |->
                     IF k \in to THEN Offer(sub[k], <<e, 1>>) ELSE sub[k]]
       /\ fanned' = fanned \union {<<k, e>> : k \in to}
       /\ dead' = dead \union
             UNION {{<<k[1], d>> : d \in Owed(k) \union {e}} : k \in evicted}

\* A delivery that was nacked, or not acked in time, is tried again.
Retry(k, o, s) ==
    LET rest == [s EXCEPT !.owed = @ \ {o}]
    IN IF o[2] = MaxAttempts
       THEN /\ sub' = [sub EXCEPT ![k] = rest]
            /\ dead' = dead \union {<<k[1], o[1]>>}
       ELSE /\ sub' = [sub EXCEPT ![k] = Offer(rest, <<o[1], o[2] + 1>>)]
            /\ dead' = IF Full(s)
                       THEN dead \union {<<k[1], e>> : e \in Owed(k)}
                       ELSE dead

\* The broker reads an ack or a nack; one that comes too late finds nothing.
TakeReply(k) ==
    /\ sub[k] # NoSub
    /\ \E r \in sub[k].replies :
          LET s == [sub[k] EXCEPT !.replies = @ \ {r}]
              open == {o \in s.owed : o[1] = r[1]}
          IN \/ /\ open = {}
                /\ sub' = [sub EXCEPT ![k] = s]
                /\ UNCHANGED <<acked, dead>>
             \/ /\ r[2] = "ack" /\ open # {}
                /\ sub' = [sub EXCEPT ![k] = [s EXCEPT !.owed = @ \ open]]
                /\ acked' = acked \union {<<k[1], r[1]>>}
                /\ UNCHANGED dead
             \/ /\ r[2] = "nack"
                /\ \E o \in open : Retry(k, o, s)
                /\ UNCHANGED acked
    /\ UNCHANGED <<clusterVars, publishVars, attached, pump, fanned, lost>>

-----------------------------------------------------------------------------
(* The environment *)

Disturb ==
    /\ faults < FaultLimit
    /\ faults' = faults + 1
    /\ UNCHANGED harness

\* The publishes of producer p that are under way raise ConnectionError.
Break(ps) ==
    /\ conn' = [p \in Producers |-> IF p \in ps THEN NoBroker ELSE conn[p]]
    /\ work' = [x \in Slots |-> IF x[1] \in ps /\ work[x].pc # "idle"
                                THEN [work[x] EXCEPT !.pc = "lost"] ELSE work[x]]
    /\ UNCHANGED <<claiming, topics, seq, count, landed>>

\* A broker crashes or is scaled away, with the subscriptions it had.
Stop(b) ==
    /\ Disturb
    /\ b \in live
    /\ live' = live \ {b}
    /\ Break({p \in Producers : conn[p] = b})
    /\ EndSubs({k \in Streams : k[2] = b})
    /\ UNCHANGED <<attached, pump, fanned, acked, dead>>

Start(b) ==
    /\ b \notin live
    /\ harness = "performance" => b = Home
    /\ live' = live \union {b}
    /\ UNCHANGED <<harness, faults, publishVars, consumeVars>>

\* The connection of a producer breaks, and the broker lives.
Hangup(p) ==
    /\ Disturb
    /\ conn[p] # NoBroker
    /\ Break({p})
    /\ UNCHANGED <<live, consumeVars>>

\* The broker reads no ack for so long that it tries the delivery again.
AckLate(k) ==
    /\ Disturb
    /\ sub[k] # NoSub
    /\ \E o \in sub[k].owed : Retry(k, o, sub[k])
    /\ UNCHANGED <<live, publishVars, attached, pump, fanned, acked, lost>>

-----------------------------------------------------------------------------
(* The producers *)

\* Mutant: every connect counts as a registered topic.
ConnectCounts(p) ==
    /\ conn[p] = NoBroker
    /\ \E b \in live : conn' = [conn EXCEPT ![p] = b]
    /\ claiming' = [claiming EXCEPT ![p] = @ + 1]
    /\ UNCHANGED <<clusterVars, topics, seq, work, count, landed, consumeVars>>

\* connect_broker, and later the reconnect inside the client: nginx picks a
\* broker; in the performance harness there is one.
Connect(p) ==
    /\ conn[p] = NoBroker
    /\ \E b \in live : conn' = [conn EXCEPT ![p] = b]
    /\ claiming' = [claiming EXCEPT ![p] = IF @ = 0 THEN 1 ELSE @]
    /\ UNCHANGED <<clusterVars, topics, seq, work, count, landed, consumeVars>>

\* The next topic is registered.
Register(p) ==
    /\ claiming[p] \in 1..Len(ClaimOrder)
    /\ conn[p] # NoBroker
    /\ topics' = topics \union {ClaimOrder[claiming[p]]}
    /\ claiming' = [claiming EXCEPT ![p] = @ + 1]
    /\ UNCHANGED <<clusterVars, conn, seq, work, count, landed, consumeVars>>

\* Mutant: a failed registration is given up.
RegisterGivesUp(p) ==
    /\ claiming[p] \in 2..Len(ClaimOrder)
    /\ conn[p] = NoBroker
    /\ claiming' = [claiming EXCEPT ![p] = Len(ClaimOrder) + 1]
    /\ UNCHANGED <<clusterVars, conn, topics, seq, work, count, landed, consumeVars>>

\* Disconnected on the way: it starts over with the first topic.
RegisterFails(p) ==
    /\ claiming[p] \in 2..Len(ClaimOrder)
    /\ conn[p] = NoBroker
    /\ claiming' = [claiming EXCEPT ![p] = 1]
    /\ UNCHANGED <<clusterVars, conn, topics, seq, work, count, landed, consumeVars>>

\* A worker's next publish.  In the performance harness run() waits for the
\* registration, in the ingress harness the two are tasks side by side.
Publish(x) ==
    LET p == x[1] IN
    /\ work[x].pc = "idle"
    /\ seq[p] < MaxSeq
    /\ claiming[p] > 0
    /\ harness = "performance" => Claimed(p)
    /\ seq' = [seq EXCEPT ![p] = @ + 1]
    /\ \E t \in Topics :
          work' = [work EXCEPT ![x] =
                      [pc |-> IF conn[p] = NoBroker THEN "lost" ELSE "sent",
                       seq |-> seq[p] + 1, topic |-> t]]
    /\ UNCHANGED <<clusterVars, conn, claiming, topics, count, landed, consumeVars>>

\* The broker accepts the event and fans it out.
Land(x) ==
    LET p == x[1]
        e == <<p, work[x].seq>>
    IN /\ work[x].pc = "sent"
       /\ landed' = landed \union {<<e, conn[p]>>}
       /\ FanOut(e, conn[p])
       /\ work' = [work EXCEPT ![x].pc = "accepted"]
       /\ UNCHANGED <<clusterVars, conn, claiming, topics, seq, count,
                      attached, pump, acked, lost>>

\* The broker answers that it does not accept the event.
Refuse(x) ==
    /\ Disturb
    /\ work[x].pc = "sent"
    /\ work' = [work EXCEPT ![x].pc = "rejected"]
    /\ UNCHANGED <<live, conn, claiming, topics, seq, count, landed, consumeVars>>

\* The worker reads the answer and counts.
Answer(x) ==
    /\ \/ /\ work[x].pc = "accepted"
          /\ count' = [count EXCEPT ![x[1]].published = @ + 1]
       \/ /\ work[x].pc = "rejected"
          /\ count' = [count EXCEPT ![x[1]].rejected = @ + 1]
    /\ work' = [work EXCEPT ![x] = Idle]
    /\ UNCHANGED <<clusterVars, conn, claiming, topics, seq, landed, consumeVars>>

\* Mutant: the failed publish is sent again as soon as the client is back.
FailRetries(x) ==
    /\ work[x].pc = "lost"
    /\ conn[x[1]] # NoBroker
    /\ work' = [work EXCEPT ![x].pc = "sent"]
    /\ UNCHANGED <<clusterVars, conn, claiming, topics, seq, count, landed, consumeVars>>

\* The publish raises: the event is an error, whether it landed or not, and
\* is not published again.
Fail(x) ==
    /\ work[x].pc = "lost"
    /\ count' = [count EXCEPT ![x[1]].errors = @ + 1]
    /\ work' = [work EXCEPT ![x] = Idle]
    /\ UNCHANGED <<clusterVars, conn, claiming, topics, seq, landed, consumeVars>>

-----------------------------------------------------------------------------
(* The consumers *)

\* The pumps of consumer c on brokers bs are set to state s.
SetPumps(c, bs, s) ==
    pump' = [k \in Streams |-> IF k[1] = c /\ k[2] \in bs THEN s ELSE pump[k]]

\* The pump starts on a new connection.
Attach(c, b) ==
    /\ b \in live \ attached[c]
    /\ attached' = [attached EXCEPT ![c] = @ \union {b}]
    /\ SetPumps(c, {b}, Subscribing)
    /\ UNCHANGED <<clusterVars, publishVars, sub, fanned, acked, dead, lost>>

\* fan_in cancels the pumps and closes the connection.
Detach(c, bs) ==
    /\ harness = "ingress"
    /\ attached' = [attached EXCEPT ![c] = @ \ bs]
    /\ SetPumps(c, bs, Off)
    /\ EndSubs({k \in Streams : k[1] = c /\ k[2] \in bs})
    /\ UNCHANGED <<publishVars, fanned, acked, dead>>

DropDeparted(c, b) ==
    /\ b \in attached[c] \ live
    /\ Detach(c, {b})
    /\ UNCHANGED clusterVars

\* A failed DNS lookup reads like an empty cluster.
Misread(c) ==
    /\ Disturb
    /\ attached[c] # {}
    /\ Detach(c, attached[c])
    /\ UNCHANGED live

\* The subscription is future-only; without a broker it is tried again.
Subscribe(k) ==
    /\ pump[k].pc = "subscribing"
    /\ k[2] \in live
    /\ sub' = [sub EXCEPT ![k] = NewSub]
    /\ pump' = [pump EXCEPT ![k].pc = "streaming"]
    /\ UNCHANGED <<clusterVars, publishVars, attached, fanned, acked, dead, lost>>

\* The pump has the next delivery in hand, and may work on it for a while.
Take(k) ==
    /\ pump[k].pc = "streaming"
    /\ sub[k] # NoSub
    /\ sub[k].queue # <<>>
    /\ pump' = [pump EXCEPT ![k] = [pc |-> "holding", at |-> Head(sub[k].queue)[1]]]
    /\ sub' = [sub EXCEPT ![k].queue = Tail(@)]
    /\ UNCHANGED <<clusterVars, publishVars, attached, fanned, acked, dead, lost>>

\* Mutant: a poison message is skipped and gets no reply.
ReplySkipsPoison(k) ==
    /\ pump[k].pc = "holding"
    /\ sub[k] # NoSub
    /\ \/ /\ Poison(pump[k].at)
          /\ UNCHANGED sub
       \/ /\ ~Poison(pump[k].at)
          /\ sub' = [sub EXCEPT ![k].replies = @ \union {<<pump[k].at, "ack">>}]
    /\ pump' = [pump EXCEPT ![k] = [pc |-> "streaming", at |-> <<>>]]
    /\ UNCHANGED <<clusterVars, publishVars, attached, fanned, acked, dead, lost>>

\* It acks, or nacks what is poison and at random something else.
Reply(k) ==
    /\ pump[k].pc = "holding"
    /\ sub[k] # NoSub
    /\ \E r \in {"ack", "nack"} :
          /\ Poison(pump[k].at) => r = "nack"
          /\ sub' = [sub EXCEPT ![k].replies = @ \union {<<pump[k].at, r>>}]
    /\ pump' = [pump EXCEPT ![k] = [pc |-> "streaming", at |-> <<>>]]
    /\ UNCHANGED <<clusterVars, publishVars, attached, fanned, acked, dead, lost>>

\* Mutant: the pump ends with its stream.
StreamEndsPump(k) ==
    /\ pump[k].pc \in {"streaming", "holding"}
    /\ sub[k] = NoSub
    /\ pump' = [pump EXCEPT ![k] = Off]
    /\ UNCHANGED <<clusterVars, publishVars, attached, sub, fanned, acked, dead, lost>>

\* The stream ended by eviction or disconnect: subscribe again.
StreamEnds(k) ==
    /\ pump[k].pc \in {"streaming", "holding"}
    /\ sub[k] = NoSub
    /\ pump' = [pump EXCEPT ![k] = Subscribing]
    /\ UNCHANGED <<clusterVars, publishVars, attached, sub, fanned, acked, dead, lost>>

-----------------------------------------------------------------------------

Environment ==
    \/ \E b \in Brokers : Stop(b) \/ Start(b)
    \/ \E p \in Producers : Hangup(p)
    \/ \E k \in Streams : AckLate(k)
    \/ \E c \in Consumers : Misread(c)

Producer(p) ==
    \/ Connect(p) \/ Register(p) \/ RegisterFails(p)
    \/ \E w \in Workers :
          LET x == <<p, w>> IN
          Publish(x) \/ Land(x) \/ Refuse(x) \/ Answer(x) \/ Fail(x)

FanInManager(c, b) == Attach(c, b) \/ DropDeparted(c, b)

Pump(k) == Subscribe(k) \/ Take(k) \/ Reply(k) \/ StreamEnds(k)

Next ==
    \/ Environment
    \/ \E p \in Producers : Producer(p)
    \/ \E c \in Consumers, b \in Brokers : FanInManager(c, b)
    \/ \E k \in Streams : Pump(k) \/ TakeReply(k)

Spec == Init /\ [][Next]_vars

\* The tasks of a live process run, its client reconnects, and a live broker
\* reads what it is sent.  Nothing has to be published.
FairSpec ==
    /\ Spec
    /\ \A c \in Consumers, b \in Brokers : WF_vars(FanInManager(c, b))
    /\ \A k \in Streams : WF_vars(Pump(k)) /\ WF_vars(TakeReply(k))

-----------------------------------------------------------------------------

TypeOK ==
    /\ harness \in {"ingress", "performance"}
    /\ live \subseteq Brokers
    /\ faults \in 0..FaultLimit
    /\ conn \in [Producers -> Brokers \union {NoBroker}]
    /\ claiming \in [Producers -> ToDo]
    /\ topics \subseteq Topics
    /\ seq \in [Producers -> 0..MaxSeq]
    /\ work \in [Slots -> [pc : {"idle", "sent", "accepted", "rejected", "lost"},
                           seq : 0..MaxSeq, topic : Topics]]
    /\ count \in [Producers ->
                     [published : Nat, rejected : Nat, errors : Nat]]
    /\ landed \subseteq Events \X Brokers
    /\ attached \in [Consumers -> SUBSET Brokers]
    /\ pump \in [Streams -> [pc : {"off", "subscribing", "streaming", "holding"},
                              at : Events \union {<<>>}]]
    /\ fanned \subseteq Streams \X Events
    /\ acked \union dead \union lost \subseteq Consumers \X Events

\* Fanning in delivers an event once: whatever breaks, no consumer is given
\* one event on two of its subscriptions (ingress consumer.py:5, no dedup).
OneIsland ==
    \A f, g \in fanned : f[1][1] = g[1][1] /\ f[2] = g[2] => f[1] = g[1]

\* Why OneIsland holds: a sequence number is drawn once and published once;
\* until its publish lands no subscription has the event, and it lands on one
\* broker, where a consumer has one subscription.
OneIslandInv ==
    /\ seq \in [Producers -> Nat]
    /\ work \in [Slots -> [pc : {"idle", "sent", "accepted", "rejected", "lost"},
                           seq : Nat, topic : Topics]]
    /\ fanned \subseteq Streams \X (Producers \X Nat)
    /\ \A x \in Slots : work[x].seq <= seq[x[1]]
    /\ \A x, y \in Slots :
          x # y /\ x[1] = y[1] /\ work[x].pc # "idle" /\ work[y].pc # "idle"
             => work[x].seq # work[y].seq
    /\ \A f \in fanned : f[2][2] <= seq[f[2][1]]
    /\ \A x \in Slots : work[x].pc = "sent" =>
          \A f \in fanned : f[2] # <<x[1], work[x].seq>>
    /\ OneIsland

\* The producer's figures are the ground truth of the load: every message is
\* counted once, published never exceeds what brokers accepted, and beyond it
\* there is only what failed or is under way.  In the performance harness the
\* load is on claimed topics: others would be refused (producer.py:173).
GroundTruth ==
    \A p \in Producers :
       LET under == {w \in Workers : work[<<p, w>>].pc # "idle"}
           mine == {l \in landed : l[1][1] = p}
           n == count[p]
       IN /\ seq[p] = n.published + n.rejected + n.errors + Cardinality(under)
          /\ n.published <= Cardinality(mine)
          /\ Cardinality(mine) <= n.published + n.errors + Cardinality(under)
          /\ harness = "performance" =>
                \A w \in under : work[<<p, w>>].topic \in topics

\* What a subscription was given comes to an end: acked, which poison never
\* is, dead-lettered, or gone with the subscription.  (The messages are
\* bounded and an end is for good: in the end all of them have one.)
Settles ==
    <>[](\A f \in fanned :
            \/ <<f[1][1], f[2]>> \in dead \union lost
            \/ <<f[1][1], f[2]>> \in acked /\ ~Poison(f[2]))

\* After evictions, crashes and misread lookups every consumer is subscribed
\* on every live broker again.
Covered ==
    <>[](\A k \in Streams : k[2] \in live => sub[k] # NoSub)

=============================================================================
