----------------------------- MODULE TopicStore -----------------------------
(***************************************************************************)
(* The tables that all brokers share through PostgresDurability: topics    *)
(* with their claims, messages with the replay flag copied into each row,  *)
(* dead letters, every row with the broker that wrote it.  And what the    *)
(* observer shows of them (app.py, _durable_snapshot and _build), read in  *)
(* five statements without a transaction while the brokers go on.          *)
(*                                                                         *)
(* A statement is one step.  A message is the rank of its created_at; its  *)
(* INSERT reads the flag of its topic, and its batch commits later, in any *)
(* order with the batches of other committers (AppendPath models those).   *)
(* The acks table is left out: nothing in the repository reads it.         *)
(***************************************************************************)
EXTENDS Naturals, FiniteSets, FiniteSetsExt

CONSTANTS
    Brokers, Topics, Principals,
    MaxMessages,     \* bound: messages published
    FaultLimit,      \* bound: broker crashes and failing reads
    NoOwner

ASSUME NoOwnerAssumption == NoOwner \notin Principals
ASSUME BrokersAssumption == IsFiniteSet(Brokers)
ASSUME BoundsAssumption == MaxMessages \in Nat /\ FaultLimit \in Nat

VARIABLES
    auth,       \* topics are claimed by principals; otherwise just registered
    topics,     \* the table: a function on the topics that have a row
    messages,   \* the table: a set of rows
    dlq,        \* the table: a set of <<message, broker>>
    flight,     \* messages that wait for their commit, with the flag inserted
    last,       \* the last message published
    faults,     \* how many of the bounded disturbances happened
    holds,      \* history: the claims that were granted and not released
    sure,       \* history: messages whose topic was replayable throughout
    view        \* the snapshot that the observer builds

tables == <<topics, messages, dlq>>
history == <<holds, sure>>
vars == <<auth, tables, flight, last, faults, history, view>>

Ids == 1..MaxMessages
Flags == {"unread", "replayable", "plain"}
Waiting(ids) ==
    [id : ids, topic : Topics, broker : Brokers, flag : Flags, kept : BOOLEAN]
TopicRows == [replayable : BOOLEAN, owner : Principals \union {NoOwner}]
Registered(t) == t \in DOMAIN topics
Replayable(t) == Registered(t) /\ topics[t].replayable
Put(t, row) == [u \in DOMAIN topics \union {t} |-> IF u = t THEN row ELSE topics[u]]

None == [b \in Brokers |-> 0]
NoView == [pc |-> "listing", listed |-> 0, counted |-> 0, history |-> 0,
           persisted |-> None, dead |-> None, ok |-> {}, base |-> 0]

Init ==
    /\ auth \in BOOLEAN
    /\ topics = [t \in {} |-> {}]
    /\ messages = {}
    /\ dlq = {}
    /\ flight = {}
    /\ last = 0
    /\ faults = 0
    /\ holds = {}
    /\ sure = {}
    /\ view = NoView

-----------------------------------------------------------------------------
(* Topics *)

\* History: what is in flight on topic t is no longer sure to be replayed.
Doubt(t, r) ==
    flight' = IF r THEN flight
              ELSE {[f EXCEPT !.kept = @ /\ f.topic # t] : f \in flight}

register_topic(t, r) ==
    /\ ~auth
    /\ topics' = Put(t, [replayable |-> r,
                         owner |-> IF Registered(t) THEN topics[t].owner ELSE NoOwner])
    /\ Doubt(t, r)
    /\ UNCHANGED <<auth, messages, dlq, last, faults, history, view>>

\* Mutant: the statement has no WHERE.
MayAlwaysClaim(t, p) == TRUE

\* The statement's WHERE: the topic is free, or claimed by the same principal.
MayClaim(t, p) == Registered(t) => topics[t].owner \in {NoOwner, p}

claim_topic(t, p, r) ==
    /\ auth
    /\ MayClaim(t, p)
    /\ topics' = Put(t, [replayable |-> r, owner |-> p])
    /\ holds' = holds \union {<<t, p>>}
    /\ Doubt(t, r)
    /\ UNCHANGED <<auth, messages, dlq, last, faults, sure, view>>

\* Mutant: the row is deleted.
release_topic_deletes(t, p) ==
    /\ Registered(t)
    /\ topics[t].owner = p
    /\ topics' = [u \in DOMAIN topics \ {t} |-> topics[u]]
    /\ holds' = holds \ {<<t, p>>}
    /\ UNCHANGED <<auth, messages, dlq, flight, last, faults, sure, view>>

\* The claim goes; the topic and its replay flag stay.
release_topic(t, p) ==
    /\ Registered(t)
    /\ topics[t].owner = p
    /\ topics' = [topics EXCEPT ![t].owner = NoOwner]
    /\ holds' = holds \ {<<t, p>>}
    /\ UNCHANGED <<auth, messages, dlq, flight, last, faults, sure, view>>

-----------------------------------------------------------------------------
(* Messages and dead letters *)

\* Mutant: the stamp is not unique.
PublishAgain(b, t) ==
    /\ last < MaxMessages
    /\ UNCHANGED last
    /\ flight' = flight \union
          {[id |-> last + 1, topic |-> t, broker |-> b, flag |-> "unread",
            kept |-> Replayable(t)]}
    /\ UNCHANGED <<auth, tables, faults, history, view>>

\* A broker stamps a message and calls append.
Publish(b, t) ==
    /\ last < MaxMessages
    /\ last' = last + 1
    /\ flight' = flight \union
          {[id |-> last + 1, topic |-> t, broker |-> b, flag |-> "unread",
            kept |-> Replayable(t)]}
    /\ UNCHANGED <<auth, tables, faults, history, view>>

\* _INSERT_MESSAGE: one row of a batch, with the flag of its topic or else false.
Insert(f) ==
    /\ f.flag = "unread"
    /\ flight' = (flight \ {f}) \union
          {[f EXCEPT !.flag = IF Replayable(f.topic) THEN "replayable" ELSE "plain"]}
    /\ UNCHANGED <<auth, tables, last, faults, history, view>>

Row(f) == [id |-> f.id, replayable |-> f.flag = "replayable", broker |-> f.broker]

\* A transaction ends: some rows that broker b inserted are there.
Commit(b) ==
    \E batch \in SUBSET {f \in flight : f.broker = b /\ f.flag # "unread"} :
        /\ batch # {}
        /\ messages' = messages \union {Row(f) : f \in batch}
        /\ flight' = flight \ batch
        /\ sure' = sure \union {f.id : f \in {g \in batch : g.kept}}
        /\ UNCHANGED <<auth, topics, dlq, last, faults, holds, view>>

\* A delivery of a message that broker b stored has spent its retries.
to_dlq(m, b) ==
    /\ \E r \in messages : r.id = m /\ r.broker = b
    /\ dlq' = dlq \union {<<m, b>>}
    /\ UNCHANGED <<auth, topics, messages, flight, last, faults, history, view>>

Disturb ==
    /\ faults < FaultLimit
    /\ faults' = faults + 1

\* A broker dies; its appends that did not commit are gone.
Crash(b) ==
    /\ Disturb
    /\ flight' = {f \in flight : f.broker # b}
    /\ UNCHANGED <<auth, tables, last, history, view>>

read_from(m) == {r \in messages : r.replayable /\ r.id >= m}

-----------------------------------------------------------------------------
(* The observer's snapshot *)

\* A read of the snapshot that succeeds, named n.
Reads(n, pc, v) ==
    /\ view' = [v EXCEPT !.pc = pc, !.ok = @ \union {n}]
    /\ UNCHANGED <<auth, tables, flight, last, faults, history>>

\* One that raises, after which the builder goes on at pc with v.
Raises(pc, v) ==
    /\ Disturb
    /\ view' = [v EXCEPT !.pc = pc]
    /\ UNCHANGED <<auth, tables, flight, last, history>>

RowsOf(table, b) == Cardinality({r \in table : r[2] = b})

read_dlq ==
    /\ view.pc = "listing"
    /\ LET v == [view EXCEPT !.base = Cardinality(dlq)]
       IN \/ Reads("list", "counting", [v EXCEPT !.listed = Cardinality(dlq)])
          \/ Raises("counting", v)

\* counts(): two numbers and the topics, in one try.
CountDlq ==
    /\ view.pc = "counting"
    /\ \/ Reads("count", "history", [view EXCEPT !.counted = Cardinality(dlq)])
       \/ Raises("auditing", view)

CountHistory ==
    /\ view.pc = "history"
    /\ \/ Reads("history", "auditing",
                [view EXCEPT !.history = Cardinality(read_from(0))])
       \/ Raises("auditing", view)

\* audit_by_broker(): per broker the rows persisted, then the dead letters.
AuditMessages ==
    /\ view.pc = "auditing"
    /\ LET stored == {<<r.id, r.broker>> : r \in messages}
       IN \/ Reads("messages", "letters",
                   [view EXCEPT !.persisted = [b \in Brokers |-> RowsOf(stored, b)]])
          \/ Raises("shown", view)

AuditLetters ==
    /\ view.pc = "letters"
    /\ \/ Reads("letters", "shown",
                [view EXCEPT !.dead = [b \in Brokers |-> RowsOf(dlq, b)]])
       \/ Raises("shown", [view EXCEPT !.persisted = None])

\* The next snapshot, a STATS_INTERVAL later.
BuildNext ==
    /\ view.pc = "shown"
    /\ view' = NoView
    /\ UNCHANGED <<auth, tables, flight, last, faults, history>>

\* Mutant: the listed entries do not count.
dlq_count_only(v) == v.counted

\* What the snapshot says: the larger of two counts, and the dead letters of
\* the brokers that persisted something.
dlq_count(v) == Max({v.listed, v.counted})
Persisted(v) == MapThenSumSet(LAMBDA b : v.persisted[b], Brokers)
DeadLettered(v) ==
    MapThenSumSet(LAMBDA b : v.dead[b], {b \in Brokers : v.persisted[b] > 0})

-----------------------------------------------------------------------------

Observer ==
    read_dlq \/ CountDlq \/ CountHistory \/ AuditMessages \/ AuditLetters \/ BuildNext

Next ==
    \/ \E t \in Topics, r \in BOOLEAN :
          \/ register_topic(t, r)
          \/ \E p \in Principals : claim_topic(t, p, r)
    \/ \E t \in Topics, p \in Principals : release_topic(t, p)
    \/ \E b \in Brokers : Commit(b) \/ Crash(b) \/ \E t \in Topics : Publish(b, t)
    \/ \E f \in flight : Insert(f)
    \/ \E m \in Ids, b \in Brokers : to_dlq(m, b)
    \/ Observer

Spec == Init /\ [][Next]_vars

-----------------------------------------------------------------------------

TypeOK ==
    /\ auth \in BOOLEAN
    /\ DOMAIN topics \subseteq Topics
    /\ topics \in [DOMAIN topics -> TopicRows]
    /\ messages \subseteq [id : Ids, replayable : BOOLEAN, broker : Brokers]
    /\ dlq \subseteq Ids \X Brokers
    /\ flight \subseteq Waiting(1..last)
    /\ last \in 0..MaxMessages
    /\ faults \in 0..FaultLimit
    /\ holds \subseteq Topics \X Principals
    /\ sure \subseteq Ids
    /\ view.pc \in {"listing", "counting", "history", "auditing", "letters", "shown"}
    /\ view.persisted \in [Brokers -> Nat] /\ view.dead \in [Brokers -> Nat]

\* Whichever brokers the statements run in, a claim that was granted stands
\* until its principal releases it, and nobody else is granted the topic.
OneOwner == \A h \in holds : Registered(h[1]) /\ topics[h[1]].owner = h[2]

\* A message published and committed while its topic was replayable is in every
\* replay from its time on, whoever claims, releases, registers or switches the
\* topic afterwards, and whatever the order of the commits.
ReplayKept == \A m \in sure : \E r \in read_from(m) : r.id = m

\* Why they hold: what is in flight and still sure has a replayable topic, and
\* was not inserted otherwise.
StoreInv ==
    /\ topics \in [DOMAIN topics -> TopicRows]
    /\ messages \subseteq [id : Nat, replayable : BOOLEAN, broker : Brokers]
    /\ flight \subseteq Waiting(Nat)
    /\ last \in Nat
    /\ holds \subseteq Topics \X Principals
    /\ \A f \in flight : f.kept => Replayable(f.topic) /\ f.flag # "plain"
    /\ OneOwner
    /\ ReplayKept

\* A snapshot is true although its reads are not of one moment and any of them
\* may have failed: if one of the two counts worked, the dead letters shown are
\* between those before and those after the snapshot; the audit accounts for
\* the whole history and for every dead letter shown beside it.
ShownIsTrue ==
    view.pc = "shown" =>
        LET counted == view.ok \intersect {"list", "count"} # {}
            audited == "letters" \in view.ok
        IN /\ counted => dlq_count(view) \in view.base..Cardinality(dlq)
           /\ audited => view.history <= Persisted(view)
           /\ audited => dlq_count(view) <= DeadLettered(view)

=============================================================================
