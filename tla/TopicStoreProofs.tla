-------------------------- MODULE TopicStoreProofs --------------------------
(***************************************************************************)
(* The shared tables keep claims, replays and types, and the observer's    *)
(* snapshot of them, read in five statements, says nothing false; for any  *)
(* number of brokers, topics, principals and messages.                     *)
(***************************************************************************)
EXTENDS TopicStore, FiniteSetTheorems, TLAPS

\* What read_from returns of messages that are only added to, with their flags
\* as they are, it goes on returning.
LEMMA ReplayMonotone ==
    ASSUME NEW S, ReplayKept, messages \subseteq messages', sure' = sure \union S,
           \A m \in S : \E r \in messages' : r.replayable /\ r.id >= m /\ r.id = m
    PROVE  ReplayKept'
  <1> SUFFICES ASSUME NEW m \in sure'
               PROVE  \E r \in messages' : r.replayable /\ r.id >= m /\ r.id = m
    BY DEF ReplayKept, read_from
  <1>1. CASE m \in S
    BY <1>1
  <1>2. CASE m \in sure
    BY <1>2 DEF ReplayKept, read_from
  <1> QED
    BY <1>1, <1>2

LEMMA InitStore == Init => StoreInv
  BY DEF Init, StoreInv, OneOwner, ReplayKept, Replayable, Registered, TopicRows

\* A row put into the topics table: the others stay, and so does its owner
\* where somebody holds the topic; a flag that falls takes its messages along.
LEMMA PutStore ==
    ASSUME StoreInv, NEW t \in Topics, NEW r \in BOOLEAN,
           NEW o \in Principals \union {NoOwner},
           topics' = Put(t, [replayable |-> r, owner |-> o]), Doubt(t, r),
           holds' \subseteq Topics \X Principals,
           \A h \in holds' : h[1] = t => h[2] = o,
           \A h \in holds' : h[1] # t => h \in holds,
           UNCHANGED <<messages, last, sure>>
    PROVE  StoreInv'
  <1>1. topics' \in [DOMAIN topics' -> TopicRows]
    BY DEF StoreInv, Put, TopicRows
  <1>2. /\ flight' \subseteq Waiting(Nat)
        /\ \A f \in flight' : f.kept => Replayable(f.topic)' /\ f.flag # "plain"
    <2>1. CASE r
      BY <2>1 DEF StoreInv, Doubt, Put, Replayable, Registered
    <2>2. CASE ~r
      <3>1. flight' = {[f EXCEPT !.kept = @ /\ f.topic # t] : f \in flight}
        BY <2>2 DEF Doubt
      <3>2. ASSUME NEW g \in flight'
            PROVE  /\ g \in Waiting(Nat)
                   /\ g.kept => g.topic # t /\ Replayable(g.topic) /\ g.flag # "plain"
        <4>1. PICK f \in flight : g = [f EXCEPT !.kept = @ /\ f.topic # t]
          BY <3>1
        <4>2. f \in Waiting(Nat)
          BY DEF StoreInv
        <4>3. /\ g.topic = f.topic /\ g.flag = f.flag
              /\ g.kept = (f.kept /\ f.topic # t)
              /\ g \in Waiting(Nat)
          BY <4>1, <4>2 DEF Waiting
        <4> QED
          BY <4>3 DEF StoreInv
      <3> QED
        BY <3>2 DEF Put, Replayable, Registered
    <2> QED
      BY <2>1, <2>2
  <1>3. OneOwner'
    <2> SUFFICES ASSUME NEW h \in holds'
                 PROVE  h[1] \in DOMAIN topics' /\ topics'[h[1]].owner = h[2]
      BY DEF OneOwner, Registered
    <2>1. CASE h[1] = t
      BY <2>1 DEF Put
    <2>2. CASE h[1] # t
      BY <2>2 DEF Put, StoreInv, OneOwner, Registered
    <2> QED
      BY <2>1, <2>2
  <1>4. ReplayKept'
    BY DEF StoreInv, ReplayKept, read_from
  <1> QED
    BY <1>1, <1>2, <1>3, <1>4 DEF StoreInv

LEMMA RegisterStore ==
    ASSUME StoreInv, NEW t \in Topics, NEW r \in BOOLEAN, register_topic(t, r)
    PROVE  StoreInv'
  <1> DEFINE o == IF Registered(t) THEN topics[t].owner ELSE NoOwner
  <1>1. o \in Principals \union {NoOwner}
    BY DEF StoreInv, Registered, TopicRows
  <1>2. \A h \in holds : h[1] = t => h[2] = o
    BY DEF StoreInv, OneOwner, Registered
  <1>3. holds' = holds /\ holds \subseteq Topics \X Principals
    BY DEF register_topic, history, StoreInv
  <1>4. topics' = Put(t, [replayable |-> r, owner |-> o]) /\ Doubt(t, r)
    BY DEF register_topic
  <1>5. UNCHANGED <<messages, last, sure>>
    BY DEF register_topic, history
  <1> HIDE DEF o
  <1> QED
    BY <1>1, <1>2, <1>3, <1>4, <1>5, PutStore

LEMMA ClaimStore ==
    ASSUME StoreInv, NEW t \in Topics, NEW p \in Principals, NEW r \in BOOLEAN,
           claim_topic(t, p, r)
    PROVE  StoreInv'
  <1>1. \A h \in holds : h[1] = t => h[2] = p
    BY NoOwnerAssumption DEF StoreInv, OneOwner, claim_topic, MayClaim, Registered
  <1>2. holds' = holds \union {<<t, p>>}
    BY DEF claim_topic
  <1>3. /\ holds' \subseteq Topics \X Principals
        /\ \A h \in holds' : h[1] = t => h[2] = p
        /\ \A h \in holds' : h[1] # t => h \in holds
    BY <1>1, <1>2 DEF StoreInv
  <1>4. /\ topics' = Put(t, [replayable |-> r, owner |-> p]) /\ Doubt(t, r)
        /\ UNCHANGED <<messages, last, sure>>
    BY DEF claim_topic
  <1> QED
    BY <1>3, <1>4, PutStore

LEMMA ReleaseStore ==
    ASSUME StoreInv, NEW t \in Topics, NEW p \in Principals, release_topic(t, p)
    PROVE  StoreInv'
  <1> USE DEF StoreInv, release_topic
  <1>1. /\ topics' \in [DOMAIN topics' -> TopicRows]
        /\ DOMAIN topics' = DOMAIN topics
        /\ \A u \in DOMAIN topics : topics'[u].replayable = topics[u].replayable
    BY DEF TopicRows, Registered
  <1>2. \A f \in flight' : f.kept => Replayable(f.topic)' /\ f.flag # "plain"
    BY <1>1 DEF Replayable, Registered
  <1>3. OneOwner'
    <2> SUFFICES ASSUME NEW h \in holds \ {<<t, p>>}
                 PROVE  h[1] \in DOMAIN topics' /\ topics'[h[1]].owner = h[2]
      BY DEF OneOwner, Registered
    <2>1. h \in Topics \X Principals /\ h[1] \in DOMAIN topics /\ topics[h[1]].owner = h[2]
      BY DEF OneOwner, Registered
    <2>2. h[1] # t
      BY <2>1
    <2> QED
      BY <2>1, <2>2
  <1>4. ReplayKept'
    BY DEF ReplayKept, read_from
  <1> QED
    BY <1>1, <1>2, <1>3, <1>4

LEMMA PublishStore ==
    ASSUME StoreInv, NEW b \in Brokers, NEW t \in Topics, Publish(b, t)
    PROVE  StoreInv'
  <1> DEFINE f == [id |-> last + 1, topic |-> t, broker |-> b, flag |-> "unread",
                   kept |-> Replayable(t)]
  <1>1. /\ UNCHANGED <<topics, messages, holds, sure>>
        /\ last' = last + 1 /\ flight' = flight \union {f}
    BY DEF Publish, tables, history
  <1>2. Replayable(t) \in BOOLEAN /\ last + 1 \in Nat
    BY DEF StoreInv, Replayable, Registered, TopicRows
  <1>3. f \in Waiting(Nat)
    BY <1>2 DEF Waiting, Flags
  <1>4. \A g \in flight' : g.kept => Replayable(g.topic)' /\ g.flag # "plain"
    <2>1. \A u : Replayable(u)' <=> Replayable(u)
      BY <1>1 DEF Replayable, Registered
    <2>2. f.kept = Replayable(t) /\ f.topic = t /\ f.flag # "plain"
      OBVIOUS
    <2>3. \A g \in flight : g.kept => Replayable(g.topic) /\ g.flag # "plain"
      BY DEF StoreInv
    <2> HIDE DEF f
    <2> QED
      BY <1>1, <2>1, <2>2, <2>3
  <1>5. OneOwner' /\ ReplayKept'
    BY <1>1 DEF StoreInv, OneOwner, Registered, ReplayKept, read_from
  <1> QED
    BY <1>1, <1>2, <1>3, <1>4, <1>5 DEF StoreInv

\* What is inserted while it is sure is inserted as replayable.
LEMMA InsertStore ==
    ASSUME StoreInv, NEW f \in flight, Insert(f)
    PROVE  StoreInv'
  <1>1. /\ UNCHANGED <<topics, messages, last, holds, sure>>
        /\ flight' = (flight \ {f}) \union
             {[f EXCEPT !.flag = IF Replayable(f.topic) THEN "replayable" ELSE "plain"]}
    BY DEF Insert, tables, history
  <1>2. f \in Waiting(Nat) /\ (f.kept => Replayable(f.topic))
    BY DEF StoreInv
  <1>3. PICK g : /\ g = [f EXCEPT !.flag = IF Replayable(f.topic) THEN "replayable"
                                                                 ELSE "plain"]
                 /\ flight' = (flight \ {f}) \union {g}
    BY <1>1
  <1>4. /\ g \in Waiting(Nat)
        /\ g.kept => Replayable(g.topic) /\ g.flag # "plain"
    BY <1>2, <1>3 DEF Waiting, Flags
  <1>5. flight' \subseteq Waiting(Nat)
    BY <1>3, <1>4 DEF StoreInv
  <1>6. \A h \in flight' : h.kept => Replayable(h.topic)' /\ h.flag # "plain"
    BY <1>1, <1>3, <1>4 DEF StoreInv, Replayable, Registered
  <1>7. OneOwner' /\ ReplayKept'
    BY <1>1 DEF StoreInv, OneOwner, Registered, ReplayKept, read_from
  <1> QED
    BY <1>1, <1>5, <1>6, <1>7 DEF StoreInv

\* What commits while it is sure commits with a replayable row.
LEMMA CommitStore ==
    ASSUME StoreInv, NEW b \in Brokers, Commit(b)
    PROVE  StoreInv'
  <1>1. PICK batch \in SUBSET {f \in flight : f.broker = b /\ f.flag # "unread"} :
           /\ messages' = messages \union {Row(f) : f \in batch}
           /\ flight' = flight \ batch
           /\ sure' = sure \union {f.id : f \in {g \in batch : g.kept}}
           /\ UNCHANGED <<topics, last, holds>>
    BY DEF Commit
  <1>2. messages' \subseteq [id : Nat, replayable : BOOLEAN, broker : Brokers]
    <2>1. ASSUME NEW f \in batch
          PROVE  Row(f) \in [id : Nat, replayable : BOOLEAN, broker : Brokers]
      <3>1. f \in Waiting(Nat)
        BY DEF StoreInv
      <3> QED
        BY <3>1 DEF Row, Waiting
    <2> QED
      BY <1>1, <2>1 DEF StoreInv
  <1>3. \A f \in flight' :
           f \in flight /\ (f.kept => Replayable(f.topic)' /\ f.flag # "plain")
    BY <1>1 DEF StoreInv, Replayable, Registered
  <1>4. ReplayKept'
    <2> DEFINE S == {f.id : f \in {g \in batch : g.kept}}
    <2>1. ASSUME NEW m \in S
          PROVE  \E r \in messages' : r.replayable /\ r.id >= m /\ r.id = m
      <3>1. PICK f \in batch : f.kept /\ f.id = m
        OBVIOUS
      <3>2. Row(f) \in messages' /\ Row(f).id = m /\ m \in Nat
        BY <1>1, <3>1 DEF Row, StoreInv, Waiting
      <3>3. Row(f).replayable
        BY <3>1 DEF Row, StoreInv, Waiting, Flags
      <3> QED
        BY <3>2, <3>3
    <2>2. ReplayKept /\ messages \subseteq messages' /\ sure' = sure \union S
      BY <1>1 DEF StoreInv
    <2> HIDE DEF S
    <2> QED
      BY <2>1, <2>2, ReplayMonotone
  <1>5. OneOwner'
    BY <1>1 DEF StoreInv, OneOwner, Registered
  <1>6. topics' \in [DOMAIN topics' -> TopicRows] /\ last' \in Nat
        /\ holds' \subseteq Topics \X Principals
    BY <1>1 DEF StoreInv
  <1>7. flight' \subseteq Waiting(Nat)
    BY <1>3 DEF StoreInv
  <1> QED
    BY <1>2, <1>3, <1>4, <1>5, <1>6, <1>7 DEF StoreInv

\* The rest leaves topics, messages and claims alone.
LEMMA OthersStore ==
    ASSUME StoreInv, UNCHANGED <<topics, messages, last, holds, sure>>,
           flight' \subseteq flight
    PROVE  StoreInv'
  BY DEF StoreInv, OneOwner, ReplayKept, read_from, Replayable, Registered

LEMMA NextStore == StoreInv /\ [Next]_vars => StoreInv'
  <1> SUFFICES ASSUME StoreInv, [Next]_vars PROVE StoreInv'
    OBVIOUS
  <1>1. ASSUME NEW t \in Topics, NEW r \in BOOLEAN, register_topic(t, r) PROVE StoreInv'
    BY <1>1, RegisterStore
  <1>2. ASSUME NEW t \in Topics, NEW p \in Principals, NEW r \in BOOLEAN,
               claim_topic(t, p, r)
        PROVE  StoreInv'
    BY <1>2, ClaimStore
  <1>3. ASSUME NEW t \in Topics, NEW p \in Principals, release_topic(t, p) PROVE StoreInv'
    BY <1>3, ReleaseStore
  <1>4. ASSUME NEW b \in Brokers, NEW t \in Topics, Publish(b, t) PROVE StoreInv'
    BY <1>4, PublishStore
  <1>5. ASSUME NEW b \in Brokers, Commit(b) PROVE StoreInv'
    BY <1>5, CommitStore
  <1>6. ASSUME NEW b \in Brokers, Crash(b) PROVE StoreInv'
    BY <1>6, OthersStore DEF Crash, tables, history
  <1>7. ASSUME NEW m \in Ids, NEW b \in Brokers, to_dlq(m, b) PROVE StoreInv'
    BY <1>7, OthersStore DEF to_dlq, history
  <1>8. CASE Observer
    <2>1. UNCHANGED <<topics, messages, last, holds, sure, flight>>
      BY <1>8 DEF Observer, read_dlq, CountDlq, CountHistory, AuditMessages, AuditLetters,
                  BuildNext, Reads, Raises, tables, history
    <2> QED
      BY <2>1, OthersStore
  <1>10. ASSUME NEW f \in flight, Insert(f) PROVE StoreInv'
    BY <1>10, InsertStore
  <1>9. CASE UNCHANGED vars
    BY <1>9, OthersStore DEF vars, tables, history
  <1> QED
    BY <1>1, <1>2, <1>3, <1>4, <1>5, <1>6, <1>7, <1>8, <1>9, <1>10 DEF Next

\* The inductive invariant of the shared tables.
THEOREM StoreInvariant == Spec => []StoreInv
  BY InitStore, NextStore, PTL DEF Spec

\* A claim that was granted stands until it is released: no two principals are
\* ever granted one topic, however their statements interleave.
THEOREM NoDoubleClaim == Spec => []OneOwner
  BY StoreInvariant, PTL DEF StoreInv

\* What was stored while its topic was replayable is replayed for ever.
THEOREM ReplayComplete == Spec => []ReplayKept
  BY StoreInvariant, PTL DEF StoreInv

-----------------------------------------------------------------------------
(* Sums over the brokers *)

\* MapThenSumSet takes the elements of a set one after the other; a function
\* that does the same has its value, whatever it is defined by.
SumOver(f, U) == MapThenSumSet(LAMBDA b : f[b], U)
Pick(s) == CHOOSE x \in s : TRUE
Adds(g, f, U) ==
    g = [s \in SUBSET U |->
            IF s = {} THEN 0 ELSE f[Pick(s)] + g[s \ {Pick(s)}]]

LEMMA AddsUnique ==
    ASSUME NEW f, NEW U, IsFiniteSet(U), NEW g, NEW h, Adds(g, f, U), Adds(h, f, U)
    PROVE  g[U] = h[U]
  <1> DEFINE D == {s \in SUBSET U : g[s] # h[s]}
  <1> SUFFICES ASSUME D # {} PROVE FALSE
    OBVIOUS
  <1>1. IsWellFoundedOn(StrictSubsetOrdering(U), SUBSET U)
    BY FS_StrictSubsetOrderingWellFounded, FS_FiniteSubsetsOfFinite
  <1>2. D \subseteq SUBSET U
    OBVIOUS
  <1> HIDE DEF D
  <1>3. PICK s \in D : \A t \in D : <<t, s>> \notin StrictSubsetOrdering(U)
    BY <1>1, <1>2, WFMin
  <1> DEFINE r == s \ {Pick(s)}
  <1>4. s \in SUBSET U /\ g[s] # h[s]
    BY DEF D
  <1>5. s # {}
    BY <1>4 DEF Adds
  <1>6. Pick(s) \in s /\ r \in SUBSET U /\ r # s
    BY <1>4, <1>5 DEF Pick
  <1>7. r \notin D
    BY <1>3, <1>4, <1>6 DEF StrictSubsetOrdering
  <1>8. g[r] = h[r]
    BY <1>6, <1>7 DEF D
  <1>9. g[s] = f[Pick(s)] + g[r] /\ h[s] = f[Pick(s)] + h[r]
    BY <1>4, <1>5 DEF Adds
  <1> QED
    BY <1>4, <1>8, <1>9

LEMMA SumIs ==
    ASSUME NEW f, NEW U, IsFiniteSet(U), NEW g, Adds(g, f, U)
    PROVE  SumOver(f, U) = g[U]
  <1> DEFINE h == CHOOSE k : Adds(k, f, U)
  <1>1. Adds(h, f, U)
    OBVIOUS
  <1>2. SumOver(f, U) = h[U]
    BY DEF SumOver, MapThenSumSet, MapThenFoldSet, Adds, Pick
  <1> QED
    BY <1>1, <1>2, AddsUnique

LEMMA DisjointUnion ==
    ASSUME NEW A, NEW B, NEW C, IsFiniteSet(B), IsFiniteSet(C), A = B \cup C,
           B \cap C = {}
    PROVE  Cardinality(A) = Cardinality(B) + Cardinality(C)
  <1>1. Cardinality(B \cap C) = 0
    BY FS_EmptySet
  <1>2. Cardinality(B \cup C) = Cardinality(B) + Cardinality(C) - Cardinality(B \cap C)
    BY FS_Union
  <1>3. Cardinality(B) \in Nat /\ Cardinality(C) \in Nat
    BY FS_CardinalityType
  <1> QED
    BY <1>1, <1>2, <1>3

\* The rows of all brokers of a set, broker by broker, are the rows of the set.
LEMMA SumOfRows ==
    ASSUME NEW A, IsFiniteSet(A), NEW U, IsFiniteSet(U), NEW f,
           \A b \in U : f[b] = RowsOf(A, b)
    PROVE  SumOver(f, U) = Cardinality({r \in A : r[2] \in U})
  <1> DEFINE R(s) == {r \in A : r[2] \in s}
             g == [s \in SUBSET U |-> Cardinality(R(s))]
  <1>1. ASSUME NEW s \in SUBSET U
        PROVE  g[s] = IF s = {} THEN 0 ELSE f[Pick(s)] + g[s \ {Pick(s)}]
    <2>1. CASE s = {}
      <3>1. R(s) = {}
        BY <2>1
      <3> QED
        BY <2>1, <3>1, FS_EmptySet
    <2>2. CASE s # {}
      <3> DEFINE p == Pick(s)
      <3>1. p \in s /\ p \in U /\ s \ {p} \in SUBSET U
        BY <2>2 DEF Pick
      <3> HIDE DEF p
      <3>2. /\ R(s) = R({p}) \cup R(s \ {p})
            /\ R({p}) \cap R(s \ {p}) = {}
        BY <3>1
      <3>3. IsFiniteSet(R({p})) /\ IsFiniteSet(R(s \ {p}))
        BY FS_Subset
      <3>5. Cardinality(R(s)) = Cardinality(R({p})) + Cardinality(R(s \ {p}))
        BY ONLY <3>2, <3>3, DisjointUnion
      <3>6. f[p] = Cardinality(R({p}))
        <4>1. R({p}) = {r \in A : r[2] = p}
          OBVIOUS
        <4> QED
          BY <3>1, <4>1 DEF RowsOf
      <3>7. g[s] = Cardinality(R(s)) /\ g[s \ {p}] = Cardinality(R(s \ {p}))
        BY <3>1
      <3> QED
        BY <2>2, <3>5, <3>6, <3>7 DEF p
    <2> QED
      BY <2>1, <2>2
  <1>2. g = [s \in SUBSET U |-> g[s]]
    OBVIOUS
  <1>3. g[U] = Cardinality(R(U))
    OBVIOUS
  <1> HIDE DEF g
  <1>4. Adds(g, f, U)
    BY <1>1, <1>2 DEF Adds
  <1> QED
    BY <1>3, <1>4, SumIs

-----------------------------------------------------------------------------
(* Types *)

ViewRecord ==
    [pc : {"listing", "counting", "history", "auditing", "letters", "shown"},
     listed : Nat, counted : Nat, history : Nat,
     persisted : [Brokers -> Nat], dead : [Brokers -> Nat],
     ok : SUBSET {"list", "count", "history", "messages", "letters"}, base : Nat]

\* What TypeOK leaves open: the other fields of the view, and that a dead letter
\* is of a message its broker has stored.
StoreTypes ==
    /\ TypeOK
    /\ view \in ViewRecord
    /\ \A d \in dlq : \E r \in messages : r.id = d[1] /\ r.broker = d[2]

Stored == {<<r.id, r.broker>> : r \in messages}

\* The tables are finite, and a replay has a stored message for each of its rows.
LEMMA TablesFinite ==
    ASSUME StoreTypes
    PROVE  /\ IsFiniteSet(dlq) /\ Cardinality(dlq) \in Nat
           /\ Stored \subseteq Ids \X Brokers /\ IsFiniteSet(Stored)
           /\ Cardinality(Stored) \in Nat
           /\ IsFiniteSet(read_from(0)) /\ Cardinality(read_from(0)) \in Nat
           /\ Cardinality(read_from(0)) <= Cardinality(Stored)
  <1>1. IsFiniteSet(Ids \X Brokers)
    <2>1. IsFiniteSet(Ids)
      BY FS_Interval, BoundsAssumption DEF Ids
    <2> QED
      BY <2>1, BrokersAssumption, FS_Product
  <1>2. dlq \subseteq Ids \X Brokers
    BY DEF StoreTypes, TypeOK
  <1>3. Stored \subseteq Ids \X Brokers
    BY DEF Stored, StoreTypes, TypeOK
  <1>4. IsFiniteSet(dlq) /\ IsFiniteSet(Stored)
    BY <1>1, <1>2, <1>3, FS_Subset
  <1> DEFINE h == [r \in read_from(0) |-> <<r.id, r.broker>>]
  <1>5. h \in Injection(read_from(0), Stored)
    <2>1. h \in [read_from(0) -> Stored]
      BY DEF read_from, Stored
    <2>2. ASSUME NEW r \in read_from(0), NEW q \in read_from(0), h[r] = h[q]
          PROVE  r = q
      <3>1. /\ r \in [id : Ids, replayable : BOOLEAN, broker : Brokers] /\ r.replayable
            /\ q \in [id : Ids, replayable : BOOLEAN, broker : Brokers] /\ q.replayable
        BY DEF read_from, StoreTypes, TypeOK
      <3>2. r.id = q.id /\ r.broker = q.broker
        BY <2>2
      <3> QED
        BY <3>1, <3>2
    <2> QED
      BY <2>1, <2>2 DEF Injection, IsInjective
  <1>6. /\ IsFiniteSet(read_from(0))
        /\ Cardinality(read_from(0)) <= Cardinality(Stored)
    BY <1>4, <1>5, FS_Injection
  <1> QED
    BY <1>3, <1>4, <1>6, FS_CardinalityType

\* The same of the state after a step.
Finite ==
    /\ IsFiniteSet(dlq) /\ Cardinality(dlq) \in Nat
    /\ IsFiniteSet(read_from(0)) /\ Cardinality(read_from(0)) \in Nat

LEMMA FiniteNext == StoreTypes' => Finite'
  <1>1. StoreTypes => Finite
    BY TablesFinite DEF Finite
  <1> QED
    BY <1>1, PTL

LEMMA RowsTyped ==
    ASSUME NEW A, IsFiniteSet(A), NEW b
    PROVE  RowsOf(A, b) \in Nat /\ ((\E r \in A : r[2] = b) => RowsOf(A, b) > 0)
  <1> DEFINE R == {r \in A : r[2] = b}
  <1>1. IsFiniteSet(R) /\ Cardinality(R) \in Nat
    BY FS_Subset, FS_CardinalityType
  <1>2. (\E r \in A : r[2] = b) => R # {}
    OBVIOUS
  <1> HIDE DEF R
  <1>3. R # {} => Cardinality(R) # 0
    BY <1>1, FS_EmptySet
  <1>4. RowsOf(A, b) = Cardinality(R)
    BY DEF RowsOf, R
  <1> QED
    BY <1>1, <1>2, <1>3, <1>4

LEMMA InitStoreTypes == Init => StoreTypes
  BY BoundsAssumption
     DEF Init, StoreTypes, TypeOK, NoView, None, ViewRecord, TopicRows, Waiting

\* A row put into the topics table has the type of a row.
LEMMA PutTyped ==
    ASSUME StoreTypes, NEW t \in Topics, NEW row \in TopicRows, topics' = Put(t, row)
    PROVE  DOMAIN topics' \subseteq Topics /\ topics' \in [DOMAIN topics' -> TopicRows]
  BY DEF StoreTypes, TypeOK, Put

LEMMA DoubtTyped ==
    ASSUME StoreTypes, NEW t \in Topics, NEW r \in BOOLEAN, Doubt(t, r), last' = last
    PROVE  flight' \subseteq Waiting(1..last')
  <1>1. CASE r
    BY <1>1 DEF Doubt, StoreTypes, TypeOK
  <1>2. CASE ~r
    <2>1. flight' = {[f EXCEPT !.kept = @ /\ f.topic # t] : f \in flight}
      BY <1>2 DEF Doubt
    <2>2. ASSUME NEW f \in flight
          PROVE  [f EXCEPT !.kept = @ /\ f.topic # t] \in Waiting(1..last)
      <3>1. f \in Waiting(1..last)
        BY DEF StoreTypes, TypeOK
      <3> QED
        BY <3>1 DEF Waiting
    <2> QED
      BY <2>1, <2>2
  <1> QED
    BY <1>1, <1>2

LEMMA TopicTypes ==
    ASSUME StoreTypes, NEW t \in Topics, NEW p \in Principals, NEW r \in BOOLEAN,
           claim_topic(t, p, r) \/ release_topic(t, p)
    PROVE  StoreTypes'
  <1> USE DEF history, tables
  <1>1. CASE claim_topic(t, p, r)
    <2>1. topics' = Put(t, [replayable |-> r, owner |-> p]) /\ Doubt(t, r)
      BY <1>1 DEF claim_topic
    <2>2. [replayable |-> r, owner |-> p] \in TopicRows
      BY DEF TopicRows
    <2>3. DOMAIN topics' \subseteq Topics /\ topics' \in [DOMAIN topics' -> TopicRows]
      BY <2>1, <2>2, PutTyped
    <2>4. flight' \subseteq Waiting(1..last')
      BY <1>1, <2>1, DoubtTyped DEF claim_topic
    <2> QED
      BY <1>1, <2>3, <2>4 DEF claim_topic, StoreTypes, TypeOK
  <1>2. CASE release_topic(t, p)
    <2>1. /\ topics' = [topics EXCEPT ![t] = [topics[t] EXCEPT !.owner = NoOwner]]
          /\ t \in DOMAIN topics
          /\ topics \in [DOMAIN topics -> TopicRows]
      BY <1>2 DEF release_topic, Registered, StoreTypes, TypeOK
    <2>2. [topics[t] EXCEPT !.owner = NoOwner] \in TopicRows
      BY <2>1 DEF TopicRows
    <2>3. DOMAIN topics' = DOMAIN topics /\ topics' \in [DOMAIN topics' -> TopicRows]
      BY <2>1, <2>2
    <2> QED
      BY <1>2, <2>3 DEF release_topic, StoreTypes, TypeOK
  <1> QED
    BY <1>1, <1>2

LEMMA RegisterTypes ==
    ASSUME StoreTypes, NEW t \in Topics, NEW r \in BOOLEAN, register_topic(t, r)
    PROVE  StoreTypes'
  <1> USE DEF history, tables
  <1> DEFINE o == IF Registered(t) THEN topics[t].owner ELSE NoOwner
  <1>1. o \in Principals \union {NoOwner}
    BY DEF StoreTypes, TypeOK, Registered, TopicRows
  <1>2. topics' = Put(t, [replayable |-> r, owner |-> o]) /\ Doubt(t, r)
    BY DEF register_topic
  <1> HIDE DEF o
  <1>3. [replayable |-> r, owner |-> o] \in TopicRows
    BY <1>1 DEF TopicRows
  <1>4. DOMAIN topics' \subseteq Topics /\ topics' \in [DOMAIN topics' -> TopicRows]
    BY <1>2, <1>3, PutTyped
  <1>5. flight' \subseteq Waiting(1..last')
    BY <1>2, DoubtTyped DEF register_topic
  <1> QED
    BY <1>4, <1>5 DEF register_topic, StoreTypes, TypeOK

LEMMA MessageTypes ==
    ASSUME StoreTypes,
           \/ \E b \in Brokers : Commit(b) \/ Crash(b) \/ \E t \in Topics : Publish(b, t)
           \/ \E f \in flight : Insert(f)
           \/ \E m \in Ids, b \in Brokers : to_dlq(m, b)
    PROVE  StoreTypes'
  <1> USE DEF history, tables
  <1>0. /\ flight \subseteq Waiting(1..last) /\ last \in 0..MaxMessages /\ last \in Nat
        /\ MaxMessages \in Nat
    BY BoundsAssumption DEF StoreTypes, TypeOK
  <1>1. ASSUME NEW b \in Brokers, NEW t \in Topics, Publish(b, t) PROVE StoreTypes'
    <2> DEFINE f == [id |-> last + 1, topic |-> t, broker |-> b, flag |-> "unread",
                     kept |-> Replayable(t)]
    <2>1. /\ last < MaxMessages /\ last' = last + 1 /\ flight' = flight \union {f}
          /\ UNCHANGED <<auth, tables, faults, history, view>>
      BY <1>1 DEF Publish
    <2>2. Replayable(t) \in BOOLEAN
      BY DEF StoreTypes, TypeOK, Replayable, Registered, TopicRows
    <2>3. f \in Waiting(1..last + 1)
      BY <1>0, <2>2 DEF Waiting, Flags
    <2>4. Waiting(1..last) \subseteq Waiting(1..last + 1)
      BY <1>0 DEF Waiting
    <2> HIDE DEF f
    <2>5. flight' \subseteq Waiting(1..last') /\ last' \in 0..MaxMessages
      BY <1>0, <2>1, <2>3, <2>4
    <2> QED
      BY <2>1, <2>5 DEF StoreTypes, TypeOK
  <1>2. ASSUME NEW b \in Brokers, Commit(b) PROVE StoreTypes'
    <2>1. PICK batch \in SUBSET {f \in flight : f.broker = b /\ f.flag # "unread"} :
             /\ messages' = messages \union {Row(f) : f \in batch}
             /\ flight' = flight \ batch
             /\ sure' = sure \union {f.id : f \in {g \in batch : g.kept}}
             /\ UNCHANGED <<auth, topics, dlq, last, faults, holds, view>>
      BY <1>2 DEF Commit
    <2>2. ASSUME NEW f \in batch
          PROVE  /\ Row(f) \in [id : Ids, replayable : BOOLEAN, broker : Brokers]
                 /\ f.id \in Ids
      <3>1. f \in Waiting(1..last)
        BY <1>0
      <3>2. f.id \in Ids
        BY <1>0, <3>1 DEF Waiting, Ids
      <3> QED
        BY <3>1, <3>2 DEF Row, Waiting
    <2>3. /\ messages' \subseteq [id : Ids, replayable : BOOLEAN, broker : Brokers]
          /\ sure' \subseteq Ids
      BY <2>1, <2>2 DEF StoreTypes, TypeOK
    <2>4. \A d \in dlq' : \E r \in messages' : r.id = d[1] /\ r.broker = d[2]
      BY <2>1 DEF StoreTypes
    <2> QED
      BY <2>1, <2>3, <2>4 DEF StoreTypes, TypeOK
  <1>3. ASSUME NEW b \in Brokers, Crash(b) PROVE StoreTypes'
    BY <1>3, BoundsAssumption DEF Crash, Disturb, StoreTypes, TypeOK
  <1>4. ASSUME NEW m \in Ids, NEW b \in Brokers, to_dlq(m, b) PROVE StoreTypes'
    <2>1. /\ \E r \in messages : r.id = m /\ r.broker = b
          /\ dlq' = dlq \union {<<m, b>>}
          /\ UNCHANGED <<auth, topics, messages, flight, last, faults, history, view>>
      BY <1>4 DEF to_dlq
    <2>2. dlq' \subseteq Ids \X Brokers
      BY <2>1 DEF StoreTypes, TypeOK
    <2>3. \A d \in dlq' : \E r \in messages' : r.id = d[1] /\ r.broker = d[2]
      BY <2>1 DEF StoreTypes
    <2> QED
      BY <2>1, <2>2, <2>3 DEF StoreTypes, TypeOK
  <1>5. ASSUME NEW f \in flight, Insert(f) PROVE StoreTypes'
    <2>1. PICK g : /\ g = [f EXCEPT !.flag = IF Replayable(f.topic) THEN "replayable"
                                                                   ELSE "plain"]
                   /\ flight' = (flight \ {f}) \union {g}
      BY <1>5 DEF Insert
    <2>2. g \in Waiting(1..last)
      BY <1>0, <2>1 DEF Waiting, Flags
    <2>3. UNCHANGED <<auth, tables, last, faults, history, view>>
      BY <1>5 DEF Insert
    <2>4. flight' \subseteq Waiting(1..last')
      BY <1>0, <2>1, <2>2, <2>3
    <2> QED
      BY <2>3, <2>4 DEF StoreTypes, TypeOK
  <1> QED
    BY <1>1, <1>2, <1>3, <1>4, <1>5

LEMMA ObserverTypes ==
    ASSUME StoreTypes, Observer
    PROVE  StoreTypes'
  <1> DEFINE Pcs == {"listing", "counting", "history", "auditing", "letters", "shown"}
             Names == {"list", "count", "history", "messages", "letters"}
  <1>0. Cardinality(dlq) \in Nat /\ Cardinality(read_from(0)) \in Nat
    BY TablesFinite
  <1>1. ASSUME NEW n \in Names, NEW pc \in Pcs, NEW v \in ViewRecord, Reads(n, pc, v)
        PROVE  StoreTypes'
    <2>1. view' \in ViewRecord
      BY <1>1 DEF Reads, ViewRecord
    <2>2. view'.pc \in Pcs /\ view'.persisted \in [Brokers -> Nat]
          /\ view'.dead \in [Brokers -> Nat]
      BY <2>1 DEF ViewRecord
    <2> QED
      BY <1>1, <2>1, <2>2 DEF Reads, StoreTypes, TypeOK, tables, history
  <1>2. ASSUME NEW pc \in Pcs, NEW v \in ViewRecord, Raises(pc, v) PROVE StoreTypes'
    <2>1. view' \in ViewRecord
      BY <1>2 DEF Raises, ViewRecord
    <2>2. view'.pc \in Pcs /\ view'.persisted \in [Brokers -> Nat]
          /\ view'.dead \in [Brokers -> Nat]
      BY <2>1 DEF ViewRecord
    <2> QED
      BY <1>2, <2>1, <2>2, BoundsAssumption
         DEF Raises, Disturb, StoreTypes, TypeOK, tables, history
  <1> HIDE DEF Pcs, Names
  <1>3. view \in ViewRecord
    BY DEF StoreTypes
  <1>4. CASE read_dlq
    <2>1. /\ [view EXCEPT !.base = Cardinality(dlq)] \in ViewRecord
          /\ [[view EXCEPT !.base = Cardinality(dlq)]
                 EXCEPT !.listed = Cardinality(dlq)] \in ViewRecord
      BY <1>0, <1>3 DEF ViewRecord
    <2> QED
      BY <1>1, <1>2, <1>4, <2>1 DEF read_dlq, Pcs, Names
  <1>5. CASE CountDlq
    <2>1. [view EXCEPT !.counted = Cardinality(dlq)] \in ViewRecord
      BY <1>0, <1>3 DEF ViewRecord
    <2> QED
      BY <1>1, <1>2, <1>3, <1>5, <2>1 DEF CountDlq, Pcs, Names
  <1>6. CASE CountHistory
    <2>1. [view EXCEPT !.history = Cardinality(read_from(0))] \in ViewRecord
      BY <1>0, <1>3 DEF ViewRecord
    <2> QED
      BY <1>1, <1>2, <1>3, <1>6, <2>1 DEF CountHistory, Pcs, Names
  <1>7. CASE AuditMessages
    <2>1. [b \in Brokers |-> RowsOf(Stored, b)] \in [Brokers -> Nat]
      BY TablesFinite, RowsTyped
    <2>2. [view EXCEPT !.persisted = [b \in Brokers |-> RowsOf(Stored, b)]] \in ViewRecord
      BY <1>3, <2>1 DEF ViewRecord
    <2> QED
      BY <1>1, <1>2, <1>3, <1>7, <2>2 DEF AuditMessages, Stored, Pcs, Names
  <1>8. CASE AuditLetters
    <2>1. [b \in Brokers |-> RowsOf(dlq, b)] \in [Brokers -> Nat]
      BY TablesFinite, RowsTyped
    <2>2. [view EXCEPT !.dead = [b \in Brokers |-> RowsOf(dlq, b)]] \in ViewRecord
      BY <1>3, <2>1 DEF ViewRecord
    <2>3. [view EXCEPT !.persisted = None] \in ViewRecord
      BY <1>3 DEF ViewRecord, None
    <2> QED
      BY <1>1, <1>2, <1>8, <2>2, <2>3 DEF AuditLetters, Pcs, Names
  <1>9. CASE BuildNext
    BY <1>9 DEF BuildNext, NoView, None, ViewRecord, StoreTypes, TypeOK, tables, history
  <1> QED
    BY <1>4, <1>5, <1>6, <1>7, <1>8, <1>9 DEF Observer

LEMMA NextStoreTypes == StoreTypes /\ [Next]_vars => StoreTypes'
  <1> SUFFICES ASSUME StoreTypes, [Next]_vars PROVE StoreTypes'
    OBVIOUS
  <1>1. CASE UNCHANGED vars
    BY <1>1 DEF vars, tables, history, StoreTypes, TypeOK
  <1>2. ASSUME NEW t \in Topics, NEW p \in Principals, release_topic(t, p)
        PROVE  StoreTypes'
    BY <1>2, TopicTypes, TRUE \in BOOLEAN
  <1> QED
    BY <1>1, <1>2, TopicTypes, RegisterTypes, MessageTypes, ObserverTypes DEF Next

\* Every variable of the tables and of the snapshot keeps its type; what a
\* snapshot shows per broker is a count, whichever of its reads failed.
THEOREM TypeCorrect == Spec => []TypeOK
  <1>1. StoreTypes => TypeOK
    BY DEF StoreTypes
  <1> QED
    BY <1>1, InitStoreTypes, NextStoreTypes, PTL DEF Spec

-----------------------------------------------------------------------------
(* What the observer shows *)

\* What the tables were when a read took its number is a part of what they are
\* now.  Between the two statements of the audit: the dead letters that had been
\* counted (all of dlq at the first one) are of brokers that persisted something.
ViewInv ==
    /\ view.listed <= Cardinality(dlq) /\ view.counted <= Cardinality(dlq)
    /\ view.base <= Cardinality(dlq)
    /\ view.pc = "listing" => view.ok = {}
    /\ "list" \in view.ok => view.base <= view.listed
    /\ "count" \in view.ok => view.base <= view.counted
    /\ view.history <= Cardinality(read_from(0))
    /\ "letters" \in view.ok => view.pc = "shown"
    /\ view.pc = "letters" =>
          /\ view.history <= Persisted(view)
          /\ \E D \in SUBSET dlq :
                /\ view.listed <= Cardinality(D) /\ view.counted <= Cardinality(D)
                /\ \A d \in D : view.persisted[d[2]] > 0
    /\ "letters" \in view.ok =>
          /\ view.history <= Persisted(view)
          /\ dlq_count(view) <= DeadLettered(view)

LEMMA SumsOf ==
    ASSUME NEW v
    PROVE  /\ Persisted(v) = SumOver(v.persisted, Brokers)
           /\ DeadLettered(v) = SumOver(v.dead, {b \in Brokers : v.persisted[b] > 0})
  BY DEF Persisted, DeadLettered, SumOver

LEMMA ShownSums ==
    /\ Persisted(view) = SumOver(view.persisted, Brokers)
    /\ DeadLettered(view) =
         SumOver(view.dead, {b \in Brokers : view.persisted[b] > 0})
    /\ Persisted(view)' = SumOver(view'.persisted, Brokers)
    /\ DeadLettered(view)' =
         SumOver(view'.dead, {b \in Brokers : view'.persisted[b] > 0})
  BY SumsOf

LEMMA LargerOf ==
    ASSUME NEW m \in Nat, NEW n \in Nat
    PROVE  /\ Max({m, n}) \in {m, n}
           /\ m <= Max({m, n}) /\ n <= Max({m, n})
  <1>1. \E x \in {m, n} : \A y \in {m, n} : x >= y
    OBVIOUS
  <1> QED
    BY <1>1 DEF Max

LEMMA InitView == Init => ViewInv
  <1> SUFFICES ASSUME Init PROVE ViewInv
    OBVIOUS
  <1>1. view = NoView /\ StoreTypes
    BY InitStoreTypes DEF Init
  <1> QED
    BY <1>1, TablesFinite DEF ViewInv, NoView

\* Tables only grow, and what was true of a snapshot of them stays true.
LEMMA ViewKept ==
    ASSUME StoreTypes, StoreTypes', ViewInv, UNCHANGED view,
           dlq \subseteq dlq', messages \subseteq messages'
    PROVE  ViewInv'
  <1>1. /\ Cardinality(dlq) <= Cardinality(dlq')
        /\ Cardinality(dlq) \in Nat /\ Cardinality(dlq') \in Nat
    BY TablesFinite, FiniteNext, FS_Subset DEF Finite
  <1>2. /\ Cardinality(read_from(0)) <= Cardinality(read_from(0)')
        /\ Cardinality(read_from(0)) \in Nat /\ Cardinality(read_from(0)') \in Nat
    <2>1. read_from(0) \subseteq read_from(0)'
      BY DEF read_from
    <2>2. /\ IsFiniteSet(read_from(0)') /\ Cardinality(read_from(0)') \in Nat
      BY FiniteNext DEF Finite
    <2> HIDE DEF read_from
    <2> QED
      BY <2>1, <2>2, TablesFinite, FS_Subset
  <1>3. view \in ViewRecord
    BY DEF StoreTypes
  <1>4. /\ view'.listed <= Cardinality(dlq') /\ view'.counted <= Cardinality(dlq')
        /\ view'.base <= Cardinality(dlq')
    BY <1>1, <1>3 DEF ViewInv, ViewRecord
  <1>5. view'.history <= Cardinality(read_from(0)')
    BY <1>2, <1>3 DEF ViewInv, ViewRecord
  <1>6. /\ Persisted(view)' = Persisted(view) /\ DeadLettered(view)' = DeadLettered(view)
        /\ dlq_count(view)' = dlq_count(view)
    BY ShownSums DEF dlq_count
  <1>7. view.pc = "letters" =>
          \E D \in SUBSET dlq' :
             /\ view.listed <= Cardinality(D) /\ view.counted <= Cardinality(D)
             /\ \A d \in D : view.persisted[d[2]] > 0
    BY DEF ViewInv
  <1> QED
    BY <1>4, <1>5, <1>6, <1>7 DEF ViewInv

\* The reads and the attempts that fail before the audit: some of the numbers
\* are taken, from the tables as they are.
LEMMA CountsKept ==
    ASSUME StoreTypes, ViewInv, UNCHANGED <<messages, dlq>>, view' \in ViewRecord,
           "letters" \notin view.ok, "letters" \notin view'.ok,
           view'.pc \in {"counting", "history", "auditing"},
           view'.listed \in {view.listed, Cardinality(dlq)},
           view'.counted \in {view.counted, Cardinality(dlq)},
           view'.base \in {view.base, Cardinality(dlq)},
           view'.history \in {view.history, Cardinality(read_from(0))},
           "list" \in view'.ok => view'.base <= view'.listed,
           "count" \in view'.ok => view'.base <= view'.counted
    PROVE  ViewInv'
  <1>1. Cardinality(dlq) \in Nat /\ Cardinality(read_from(0)) \in Nat
    BY TablesFinite
  <1>2. read_from(0)' = read_from(0)
    BY DEF read_from
  <1> QED
    BY <1>1, <1>2 DEF ViewInv

LEMMA ListView ==
    ASSUME StoreTypes, ViewInv, read_dlq, view' \in ViewRecord
    PROVE  ViewInv'
  <1> DEFINE n == Cardinality(dlq)
  <1>1. view \in ViewRecord /\ view.ok = {} /\ n \in Nat
    BY TablesFinite DEF StoreTypes, ViewInv, read_dlq
  <1>2. UNCHANGED <<messages, dlq>>
    BY DEF read_dlq, Reads, Raises, tables
  <1> HIDE DEF n
  <1>3. CASE view' = [[[view EXCEPT !.base = n] EXCEPT !.listed = n]
                         EXCEPT !.pc = "counting", !.ok = @ \union {"list"}]
    <2>1. /\ view'.listed = n /\ view'.base = n /\ view'.ok = {"list"}
          /\ view'.counted = view.counted /\ view'.history = view.history
          /\ view'.pc = "counting"
      BY <1>1, <1>3 DEF ViewRecord
    <2> QED
      BY <1>1, <1>2, <2>1, CountsKept DEF n
  <1>4. CASE view' = [[view EXCEPT !.base = n] EXCEPT !.pc = "counting"]
    <2>1. /\ view'.listed = view.listed /\ view'.base = n /\ view'.ok = {}
          /\ view'.counted = view.counted /\ view'.history = view.history
          /\ view'.pc = "counting"
      BY <1>1, <1>4 DEF ViewRecord
    <2> QED
      BY <1>1, <1>2, <2>1, CountsKept DEF n
  <1> QED
    BY <1>3, <1>4 DEF read_dlq, Reads, Raises, n

LEMMA CountView ==
    ASSUME StoreTypes, ViewInv, CountDlq, view' \in ViewRecord
    PROVE  ViewInv'
  <1> DEFINE n == Cardinality(dlq)
  <1>1. /\ view \in ViewRecord /\ n \in Nat /\ "letters" \notin view.ok
        /\ view.base <= n
        /\ "list" \in view.ok => view.base <= view.listed
        /\ "count" \in view.ok => view.base <= view.counted
    BY TablesFinite DEF StoreTypes, ViewInv, CountDlq
  <1>2. UNCHANGED <<messages, dlq>>
    BY DEF CountDlq, Reads, Raises, tables
  <1> HIDE DEF n
  <1>3. CASE view' = [[view EXCEPT !.counted = n]
                         EXCEPT !.pc = "history", !.ok = @ \union {"count"}]
    <2>1. /\ view'.counted = n /\ view'.base = view.base
          /\ view'.ok = view.ok \union {"count"}
          /\ view'.listed = view.listed /\ view'.history = view.history
          /\ view'.pc = "history"
      BY <1>1, <1>3 DEF ViewRecord
    <2> QED
      BY <1>1, <1>2, <2>1, CountsKept DEF n
  <1>4. CASE view' = [view EXCEPT !.pc = "auditing"]
    <2>1. /\ view'.counted = view.counted /\ view'.base = view.base
          /\ view'.ok = view.ok /\ view'.listed = view.listed
          /\ view'.history = view.history /\ view'.pc = "auditing"
      BY <1>1, <1>4 DEF ViewRecord
    <2> QED
      BY <1>1, <1>2, <2>1, CountsKept DEF n
  <1> QED
    BY <1>3, <1>4 DEF CountDlq, Reads, Raises, n

LEMMA HistoryView ==
    ASSUME StoreTypes, ViewInv, CountHistory, view' \in ViewRecord
    PROVE  ViewInv'
  <1> DEFINE n == Cardinality(read_from(0))
  <1>1. /\ view \in ViewRecord /\ "letters" \notin view.ok
        /\ "list" \in view.ok => view.base <= view.listed
        /\ "count" \in view.ok => view.base <= view.counted
    BY DEF StoreTypes, ViewInv, CountHistory
  <1>2. UNCHANGED <<messages, dlq>>
    BY DEF CountHistory, Reads, Raises, tables
  <1> HIDE DEF n
  <1>3. /\ view'.counted = view.counted /\ view'.base = view.base
        /\ view'.listed = view.listed /\ view'.pc = "auditing"
        /\ view'.history \in {view.history, n}
        /\ view'.ok \in {view.ok, view.ok \union {"history"}}
    <2>1. \/ view' = [[view EXCEPT !.history = n]
                         EXCEPT !.pc = "auditing", !.ok = @ \union {"history"}]
          \/ view' = [view EXCEPT !.pc = "auditing"]
      BY DEF CountHistory, Reads, Raises, n
    <2> QED
      BY <1>1, <2>1 DEF ViewRecord
  <1> QED
    BY <1>1, <1>2, <1>3, CountsKept DEF n

\* All that is stored is persisted by some broker, and every dead letter so far
\* is of one of them.
LEMMA AuditView ==
    ASSUME StoreTypes, ViewInv, AuditMessages, view' \in ViewRecord
    PROVE  ViewInv'
  <1> DEFINE by == [b \in Brokers |-> RowsOf(Stored, b)]
  <1>1. /\ view \in ViewRecord /\ "letters" \notin view.ok
        /\ view.history <= Cardinality(read_from(0))
        /\ view.listed <= Cardinality(dlq) /\ view.counted <= Cardinality(dlq)
        /\ view.base <= Cardinality(dlq)
        /\ "list" \in view.ok => view.base <= view.listed
        /\ "count" \in view.ok => view.base <= view.counted
    BY DEF StoreTypes, ViewInv, AuditMessages
  <1>2. UNCHANGED <<messages, dlq>> /\ read_from(0)' = read_from(0)
    BY DEF AuditMessages, Reads, Raises, tables, read_from
  <1>3. SumOver(by, Brokers) = Cardinality(Stored)
    <2>1. \A b \in Brokers : by[b] = RowsOf(Stored, b)
      OBVIOUS
    <2>2. {r \in Stored : r[2] \in Brokers} = Stored
      BY TablesFinite
    <2> HIDE DEF by
    <2>3. SumOver(by, Brokers) = Cardinality({r \in Stored : r[2] \in Brokers})
      BY <2>1, TablesFinite, BrokersAssumption, SumOfRows
    <2> QED
      BY <2>2, <2>3
  <1>4. \A d \in dlq : by[d[2]] > 0
    <2> SUFFICES ASSUME NEW d \in dlq PROVE by[d[2]] > 0
      OBVIOUS
    <2>1. PICK r \in messages : r.id = d[1] /\ r.broker = d[2]
      BY DEF StoreTypes
    <2>2. <<r.id, r.broker>> \in Stored /\ d[2] \in Brokers
      BY DEF Stored, StoreTypes, TypeOK
    <2>3. RowsOf(Stored, d[2]) > 0
      BY <2>1, <2>2, TablesFinite, RowsTyped
    <2> QED
      BY <2>2, <2>3
  <1> HIDE DEF by
  <1>5. CASE view' = [[view EXCEPT !.persisted = by]
                         EXCEPT !.pc = "letters", !.ok = @ \union {"messages"}]
    <2>1. /\ view'.persisted = by /\ view'.pc = "letters"
          /\ view'.ok = view.ok \union {"messages"}
          /\ view'.listed = view.listed /\ view'.counted = view.counted
          /\ view'.base = view.base /\ view'.history = view.history
      BY <1>1, <1>5 DEF ViewRecord
    <2>2. view'.history <= Persisted(view)'
      <3>1. Persisted(view)' = Cardinality(Stored)
        BY <1>3, <2>1, ShownSums
      <3>2. view.history \in Nat
        BY <1>1 DEF ViewRecord
      <3> QED
        BY <1>1, <2>1, <3>1, <3>2, TablesFinite
    <2>3. \E D \in SUBSET dlq' :
             /\ view'.listed <= Cardinality(D) /\ view'.counted <= Cardinality(D)
             /\ \A d \in D : view'.persisted[d[2]] > 0
      <3>1. dlq \in SUBSET dlq'
        BY <1>2
      <3> QED
        BY <1>1, <1>4, <2>1, <3>1
    <2> QED
      BY <1>1, <1>2, <2>1, <2>2, <2>3 DEF ViewInv
  <1>6. CASE view' = [view EXCEPT !.pc = "shown"]
    <2>1. /\ view'.pc = "shown" /\ view'.ok = view.ok
          /\ view'.listed = view.listed /\ view'.counted = view.counted
          /\ view'.base = view.base /\ view'.history = view.history
      BY <1>1, <1>6 DEF ViewRecord
    <2> QED
      BY <1>1, <1>2, <2>1 DEF ViewInv
  <1> QED
    BY <1>5, <1>6 DEF AuditMessages, Reads, Raises, Stored, by

\* Every dead letter that was counted is one of those shown beside the brokers
\* that persisted something.
LEMMA LettersView ==
    ASSUME StoreTypes, ViewInv, AuditLetters, view' \in ViewRecord
    PROVE  ViewInv'
  <1> DEFINE of == [b \in Brokers |-> RowsOf(dlq, b)]
             listening == {b \in Brokers : view.persisted[b] > 0}
  <1>1. /\ view \in ViewRecord /\ "letters" \notin view.ok
        /\ view.history <= Cardinality(read_from(0))
        /\ view.listed <= Cardinality(dlq) /\ view.counted <= Cardinality(dlq)
        /\ view.base <= Cardinality(dlq)
        /\ "list" \in view.ok => view.base <= view.listed
        /\ "count" \in view.ok => view.base <= view.counted
        /\ view.history <= Persisted(view)
    BY DEF StoreTypes, ViewInv, AuditLetters
  <1>2. PICK D \in SUBSET dlq :
           /\ view.listed <= Cardinality(D) /\ view.counted <= Cardinality(D)
           /\ \A d \in D : view.persisted[d[2]] > 0
    BY DEF ViewInv, AuditLetters
  <1>3. UNCHANGED <<messages, dlq>> /\ read_from(0)' = read_from(0)
    BY DEF AuditLetters, Reads, Raises, tables, read_from
  <1>4. SumOver(of, listening) = Cardinality({r \in dlq : r[2] \in listening})
    <2>1. \A b \in listening : of[b] = RowsOf(dlq, b)
      OBVIOUS
    <2>2. IsFiniteSet(listening)
      BY BrokersAssumption, FS_Subset
    <2> HIDE DEF of, listening
    <2> QED
      BY <2>1, <2>2, TablesFinite, SumOfRows
  <1>5. /\ Cardinality(D) <= Cardinality({r \in dlq : r[2] \in listening})
        /\ Cardinality(D) \in Nat
        /\ Cardinality({r \in dlq : r[2] \in listening}) \in Nat
    <2>1. D \subseteq {r \in dlq : r[2] \in listening}
      BY <1>2 DEF StoreTypes, TypeOK
    <2>2. IsFiniteSet({r \in dlq : r[2] \in listening}) /\ IsFiniteSet(D)
      BY TablesFinite, FS_Subset
    <2> HIDE DEF listening
    <2> QED
      BY <2>1, <2>2, FS_Subset, FS_CardinalityType
  <1> HIDE DEF of
  <1>6. CASE view' = [[view EXCEPT !.dead = of]
                         EXCEPT !.pc = "shown", !.ok = @ \union {"letters"}]
    <2>1. /\ view'.dead = of /\ view'.pc = "shown" /\ view'.persisted = view.persisted
          /\ view'.ok = view.ok \union {"letters"}
          /\ view'.listed = view.listed /\ view'.counted = view.counted
          /\ view'.base = view.base /\ view'.history = view.history
      BY <1>1, <1>6 DEF ViewRecord
    <2>2. Persisted(view)' = Persisted(view)
      BY <2>1, ShownSums
    <2>3. DeadLettered(view)' = SumOver(of, listening)
      BY <2>1, ShownSums
    <2>4. dlq_count(view)' <= DeadLettered(view)'
      <3>1. view.listed \in Nat /\ view.counted \in Nat
        BY <1>1 DEF ViewRecord
      <3>2. dlq_count(view)' \in {view.listed, view.counted}
        BY <2>1, <3>1, LargerOf DEF dlq_count
      <3> HIDE DEF listening
      <3> QED
        BY <1>2, <1>4, <1>5, <2>3, <3>1, <3>2
    <2> QED
      BY <1>1, <1>3, <2>1, <2>2, <2>4 DEF ViewInv
  <1>7. CASE view' = [[view EXCEPT !.persisted = None] EXCEPT !.pc = "shown"]
    <2>1. /\ view'.pc = "shown" /\ view'.ok = view.ok
          /\ view'.listed = view.listed /\ view'.counted = view.counted
          /\ view'.base = view.base /\ view'.history = view.history
      BY <1>1, <1>7 DEF ViewRecord
    <2> QED
      BY <1>1, <1>3, <2>1 DEF ViewInv
  <1> QED
    BY <1>6, <1>7 DEF AuditLetters, Reads, Raises, of

LEMMA NextView == StoreTypes /\ ViewInv /\ [Next]_vars => ViewInv'
  <1> SUFFICES ASSUME StoreTypes, ViewInv, [Next]_vars PROVE ViewInv'
    OBVIOUS
  <1>0. StoreTypes' /\ view' \in ViewRecord
    BY NextStoreTypes DEF StoreTypes
  <1>1. ASSUME UNCHANGED view, dlq \subseteq dlq', messages \subseteq messages'
        PROVE  ViewInv'
    BY <1>0, <1>1, ViewKept
  <1>2. CASE Observer
    <2>1. CASE BuildNext
      <3>1. view' = NoView /\ UNCHANGED <<messages, dlq>>
        BY <2>1 DEF BuildNext, tables
      <3> QED
        BY <3>1, <1>0, FiniteNext DEF Finite, ViewInv, NoView
    <2> QED
      BY <1>0, <1>2, <2>1, ListView, CountView, HistoryView, AuditView, LettersView
         DEF Observer
  <1>3. ASSUME NEW t \in Topics, NEW r \in BOOLEAN,
               register_topic(t, r) \/ \E p \in Principals : claim_topic(t, p, r)
        PROVE  ViewInv'
    BY <1>1, <1>3 DEF register_topic, claim_topic
  <1>4. ASSUME NEW t \in Topics, NEW p \in Principals, release_topic(t, p)
        PROVE  ViewInv'
    BY <1>1, <1>4 DEF release_topic
  <1>5. ASSUME NEW b \in Brokers, Commit(b) \/ Crash(b) \/ \E t \in Topics : Publish(b, t)
        PROVE  ViewInv'
    <2>1. UNCHANGED <<view, dlq>> /\ messages \subseteq messages'
      BY <1>5 DEF Commit, Crash, Publish, tables
    <2> QED
      BY <1>1, <2>1
  <1>6. ASSUME NEW f \in flight, Insert(f) PROVE ViewInv'
    BY <1>1, <1>6 DEF Insert, tables
  <1>7. ASSUME NEW m \in Ids, NEW b \in Brokers, to_dlq(m, b) PROVE ViewInv'
    BY <1>1, <1>7 DEF to_dlq
  <1>8. CASE UNCHANGED vars
    BY <1>1, <1>8 DEF vars, tables
  <1> QED
    BY <1>2, <1>3, <1>4, <1>5, <1>6, <1>7, <1>8 DEF Next

\* The inductive invariant of the snapshot.
THEOREM ViewInvariant == Spec => [](StoreTypes /\ ViewInv)
  BY InitStoreTypes, NextStoreTypes, InitView, NextView, PTL DEF Spec

\* What the observer shows is true of the tables, although its five statements
\* see five states of them and any of them may fail (app.py, _durable_snapshot):
\* the dead letters are between those before and those after, and the audit
\* accounts for the whole history and for every dead letter beside it.
THEOREM ShownHolds == Spec => []ShownIsTrue
  <1>1. StoreTypes /\ ViewInv => ShownIsTrue
    <2> SUFFICES ASSUME StoreTypes, ViewInv, view.pc = "shown"
                 PROVE  /\ view.ok \intersect {"list", "count"} # {} =>
                             dlq_count(view) \in view.base..Cardinality(dlq)
                        /\ "letters" \in view.ok => view.history <= Persisted(view)
                        /\ "letters" \in view.ok => dlq_count(view) <= DeadLettered(view)
      BY DEF ShownIsTrue
    <2>1. /\ view.listed \in Nat /\ view.counted \in Nat /\ view.base \in Nat
          /\ Cardinality(dlq) \in Nat
      BY TablesFinite DEF StoreTypes, ViewRecord
    <2>2. /\ dlq_count(view) \in {view.listed, view.counted}
          /\ view.listed <= dlq_count(view) /\ view.counted <= dlq_count(view)
      BY <2>1, LargerOf DEF dlq_count
    <2>3. dlq_count(view) <= Cardinality(dlq)
      BY <2>2 DEF ViewInv
    <2>4. ASSUME view.ok \intersect {"list", "count"} # {}
          PROVE  view.base <= dlq_count(view)
      BY <2>1, <2>2, <2>4 DEF ViewInv
    <2> QED
      BY <2>1, <2>2, <2>3, <2>4 DEF ViewInv
  <1> QED
    BY <1>1, ViewInvariant, PTL

=============================================================================
