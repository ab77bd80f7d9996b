----------------------------- MODULE Broadcast -----------------------------
(***************************************************************************)
(* The replicated ingest of the egress harness (dclient/producer.py): a    *)
(* Broadcaster keeps one connection per broker replica, and worker tasks   *)
(* mirror every message to all of them.                                    *)
(*                                                                         *)
(* The maintainer and the workers share the dict of clients.  A worker     *)
(* takes a snapshot of it and then waits for all its publishes, while the  *)
(* maintainer closes and adds clients and replicas come and go.            *)
(***************************************************************************)
EXTENDS Naturals, FiniteSets

CONSTANTS
    Brokers,       \* addresses the broker service may have replicas at
    Workers,       \* tasks that publish: paced, max or burst workers
    MaxSeq,        \* bound: messages published
    FaultLimit,    \* bound: replica changes, failed lookups, failed calls
    NoBroker       \* nothing is being attached or closed

ASSUME MaxSeqAssumption == MaxSeq \in Nat
ASSUME FaultAssumption == FaultLimit \in Nat
ASSUME NoBrokerAssumption == NoBroker \notin Brokers
ASSUME WorkersAssumption == IsFiniteSet(Workers)

VARIABLES
    replicas,      \* the broker replicas that are up
    faults,        \* how many of the bounded disturbances happened
    calm,          \* from now on nothing fails or changes
    pc,            \* where the maintainer is
    targets,       \* targets of this round
    todo,          \* those of them the attach loop has not visited
    clients,       \* keys of the dict of clients
    at,            \* the broker being attached or closed
    topics,        \* brokers where the producer's topics are registered
    seq,           \* the last sequence number drawn
    call,          \* per worker: message, brokers not answered, accepted yet?
    log,           \* per broker: the messages it accepted
    published,     \* messages counted as published
    rejected,      \* messages counted as rejected
    settled        \* history: messages begun when all was calm and attached

envVars == <<replicas, faults, calm>>
maintainVars == <<pc, targets, todo, clients, at, topics>>
workVars == <<seq, call, log, published, rejected, settled>>
vars == <<envVars, maintainVars, workVars>>

Seqs == 1..MaxSeq
NoCall == [s |-> 0, waiting |-> {}, got |-> FALSE]

Init ==
    /\ replicas \in SUBSET Brokers
    /\ faults = 0
    /\ calm = FALSE
    /\ pc = "resolve"
    /\ targets = {}
    /\ todo = {}
    /\ clients = {}
    /\ at = NoBroker
    /\ topics = {}
    /\ seq = 0
    /\ call = [w \in Workers |-> NoCall]
    /\ log = [b \in Brokers |-> {}]
    /\ published = 0
    /\ rejected = 0
    /\ settled = {}

-----------------------------------------------------------------------------
(* The environment *)

\* One more of the disturbances the environment may cause.
Disturb ==
    /\ ~calm
    /\ faults < FaultLimit
    /\ faults' = faults + 1

Scale ==
    /\ Disturb
    /\ replicas' \in (SUBSET Brokers) \ {replicas}
    /\ UNCHANGED <<calm, maintainVars, workVars>>

CalmDown ==
    /\ ~calm
    /\ calm' = TRUE
    /\ UNCHANGED <<replicas, faults, maintainVars, workVars>>

-----------------------------------------------------------------------------
(* Broadcaster.maintain *)

\* The lookup answers with the replicas, or fails and yields the empty list.
Resolve ==
    /\ pc = "resolve"
    /\ \/ targets' = replicas /\ UNCHANGED faults
       \/ targets' = {} /\ Disturb
    /\ pc' = "dropping"
    /\ UNCHANGED <<replicas, calm, todo, clients, at, topics, workVars>>

\* Mutant: the departed broker's client is closed and kept.
DropKeepsClient(b) ==
    /\ pc = "dropping"
    /\ b \in clients \ targets
    /\ at' = b
    /\ pc' = "closing"
    /\ UNCHANGED <<envVars, targets, todo, clients, topics, workVars>>

\* A departed broker's client leaves the dict, then it is closed.
Drop(b) ==
    /\ pc = "dropping"
    /\ b \in clients \ targets
    /\ clients' = clients \ {b}
    /\ at' = b
    /\ pc' = "closing"
    /\ UNCHANGED <<envVars, targets, todo, topics, workVars>>

CloseClient ==
    /\ pc = "closing"
    /\ at' = NoBroker
    /\ pc' = "dropping"
    /\ UNCHANGED <<envVars, targets, todo, clients, topics, workVars>>

StartAttaching ==
    /\ pc = "dropping"
    /\ clients \subseteq targets
    /\ todo' = targets \ clients
    /\ pc' = "attaching"
    /\ UNCHANGED <<envVars, targets, clients, at, topics, workVars>>

Attach(b) ==
    /\ pc = "attaching"
    /\ b \in todo
    /\ todo' = todo \ {b}
    /\ at' = b
    /\ pc' = "connecting"
    /\ UNCHANGED <<envVars, targets, clients, topics, workVars>>

\* Mutant: the client joins the dict before its topics are registered.
ConnectOkJoins ==
    /\ pc = "connecting"
    /\ at \in replicas
    /\ clients' = clients \cup {at}
    /\ pc' = "registering"
    /\ UNCHANGED <<envVars, targets, todo, at, topics, workVars>>

ConnectOk ==
    /\ pc = "connecting"
    /\ at \in replicas
    /\ pc' = "registering"
    /\ UNCHANGED <<envVars, targets, todo, clients, at, topics, workVars>>

\* Refused until the deadline: the next round tries again.
ConnectFail ==
    /\ pc = "connecting"
    /\ \/ at \notin replicas /\ UNCHANGED faults
       \/ at \in replicas /\ Disturb
    /\ pc' = "attaching"
    /\ at' = NoBroker
    /\ UNCHANGED <<replicas, calm, targets, todo, clients, topics, workVars>>

\* _register_all registers every topic and the client joins the dict.
RegisterAll ==
    /\ pc = "registering"
    /\ at \in replicas
    /\ topics' = topics \cup {at}
    /\ clients' = clients \cup {at}
    /\ at' = NoBroker
    /\ pc' = "attaching"
    /\ UNCHANGED <<envVars, targets, todo, workVars>>

\* While the broker is away it retries, for ever, and the maintainer waits.
RegisterRetry ==
    /\ pc = "registering"
    /\ at \notin replicas
    /\ UNCHANGED vars

Sleep ==
    /\ pc = "attaching"
    /\ todo = {}
    /\ pc' = "sleeping"
    /\ UNCHANGED <<envVars, targets, todo, clients, at, topics, workVars>>

Wake ==
    /\ pc = "sleeping"
    /\ pc' = "resolve"
    /\ UNCHANGED <<envVars, targets, todo, clients, at, topics, workVars>>

-----------------------------------------------------------------------------
(* _publish_one *)

\* A worker draws a sequence number and publishes to a snapshot of the dict;
\* with no client it sleeps and draws none.
StartPublish(w) ==
    /\ call[w].s = 0
    /\ clients # {}
    /\ seq < MaxSeq
    /\ seq' = seq + 1
    /\ call' = [call EXCEPT ![w] = [s |-> seq', waiting |-> clients, got |-> FALSE]]
    /\ settled' = IF calm /\ clients = replicas /\ targets = replicas
                     THEN settled \cup {seq'} ELSE settled
    /\ UNCHANGED <<envVars, maintainVars, log, published, rejected>>

\* Broker b stores the message of w, and answers, or the answer gets lost.
Accept(w, b) ==
    /\ b \in call[w].waiting \cap replicas
    /\ log' = [log EXCEPT ![b] = @ \cup {call[w].s}]
    /\ \/ /\ call' = [call EXCEPT ![w].waiting = @ \ {b}, ![w].got = TRUE]
          /\ UNCHANGED faults
       \/ /\ call' = [call EXCEPT ![w].waiting = @ \ {b}]
          /\ Disturb
    /\ UNCHANGED <<replicas, calm, maintainVars, seq, published, rejected, settled>>

\* Mutant: an exception among the results counts as an answer.
RefuseCounts(w, b) ==
    /\ b \in call[w].waiting
    /\ \/ (b \notin replicas \/ b \notin clients) /\ UNCHANGED faults
       \/ b \in replicas \cap clients /\ Disturb
    /\ call' = [call EXCEPT ![w].waiting = @ \ {b}, ![w].got = TRUE]
    /\ UNCHANGED <<replicas, calm, maintainVars, seq, log, published, rejected, settled>>

\* The publish to b raises or is not accepted: the replica or the client is
\* gone, or the call failed.  gather() collects the exception.
Refuse(w, b) ==
    /\ b \in call[w].waiting
    /\ \/ (b \notin replicas \/ b \notin clients) /\ UNCHANGED faults
       \/ b \in replicas \cap clients /\ Disturb
    /\ call' = [call EXCEPT ![w].waiting = @ \ {b}]
    /\ UNCHANGED <<replicas, calm, maintainVars, seq, log, published, rejected, settled>>

\* Mutant: the first answer decides, the other publishes are abandoned.
CountFirst(w) ==
    /\ call[w].s # 0
    /\ call[w].waiting = {} \/ call[w].got
    /\ \/ call[w].got /\ published' = published + 1 /\ UNCHANGED rejected
       \/ ~call[w].got /\ rejected' = rejected + 1 /\ UNCHANGED published
    /\ call' = [call EXCEPT ![w] = NoCall]
    /\ UNCHANGED <<envVars, maintainVars, seq, log, settled>>

\* All have answered: the message counts as published if one accepted it.
Count(w) ==
    /\ call[w].s # 0
    /\ call[w].waiting = {}
    /\ \/ call[w].got /\ published' = published + 1 /\ UNCHANGED rejected
       \/ ~call[w].got /\ rejected' = rejected + 1 /\ UNCHANGED published
    /\ call' = [call EXCEPT ![w] = NoCall]
    /\ UNCHANGED <<envVars, maintainVars, seq, log, settled>>

-----------------------------------------------------------------------------

Maintainer ==
    \/ Resolve
    \/ \E b \in Brokers : Drop(b) \/ Attach(b)
    \/ CloseClient
    \/ StartAttaching
    \/ ConnectOk
    \/ ConnectFail
    \/ RegisterAll
    \/ RegisterRetry
    \/ Sleep
    \/ Wake

Worker(w) ==
    \/ StartPublish(w)
    \/ \E b \in Brokers : Accept(w, b) \/ Refuse(w, b)
    \/ Count(w)

Next == Scale \/ CalmDown \/ Maintainer \/ \E w \in Workers : Worker(w)

Spec == Init /\ [][Next]_vars

\* The event loop runs both kinds of task, and every await of theirs ends.
FairSpec == Spec /\ WF_vars(Maintainer) /\ \A w \in Workers : WF_vars(Worker(w))

-----------------------------------------------------------------------------
(* Properties *)

Calls == [s : {0} \cup Seqs, waiting : SUBSET Brokers, got : BOOLEAN]

TypeOK ==
    /\ replicas \in SUBSET Brokers
    /\ faults \in 0..FaultLimit
    /\ calm \in BOOLEAN
    /\ pc \in {"resolve", "dropping", "closing", "attaching", "connecting",
               "registering", "sleeping"}
    /\ targets \in SUBSET Brokers
    /\ todo \in SUBSET Brokers
    /\ clients \in SUBSET Brokers
    /\ at \in Brokers \cup {NoBroker}
    /\ topics \in SUBSET Brokers
    /\ seq \in 0..MaxSeq
    /\ call \in [Workers -> Calls]
    /\ log \in [Brokers -> SUBSET Seqs]
    /\ published \in Nat
    /\ rejected \in Nat
    /\ settled \in SUBSET Seqs

InFlight == {w \in Workers : call[w].s # 0}

\* "logical messages successfully mirrored to >=1 broker" (producer.py:29): the
\* rate the producer reports never exceeds what some broker accepted, and each
\* number drawn is counted once, whatever fails or interleaves.
CountsAreReal ==
    /\ published <= Cardinality(UNION {log[b] : b \in Brokers})
    /\ published + rejected + Cardinality(InFlight) = seq

\* A message reaches a broker only after its topics are registered there, which
\* is what makes it replayable: the flag is copied into the row on insert.
RegisteredFirst == \A b \in Brokers : log[b] # {} => b \in topics

\* Once nothing fails any more and every replica is attached, each broker gets
\* the full message stream, although workers overlap and finish out of order.
FullStream ==
    \A s \in settled :
        (\A w \in Workers : call[w].s # s) => \A b \in replicas : s \in log[b]

Stranded == pc = "registering" /\ at \notin replicas

\* Once things settle, exactly the live replicas are attached for good, except
\* if the maintainer waits for a broker that left while it registered topics.
FollowsOrStranded == [](calm => <>[](clients = replicas) \/ <>[]Stranded)

=============================================================================
