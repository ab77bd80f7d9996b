-------------------------- MODULE BroadcastProofs --------------------------
(***************************************************************************)
(* Proofs about Broadcast: typing, the registration of topics, the full    *)
(* stream, and the counts, each for any number of brokers and workers.     *)
(*                                                                         *)
(* The invariant says of a call in progress what the code relies on: it    *)
(* holds a number nobody else holds, it waits only for brokers whose       *)
(* topics are registered, and an answer it has got is an accepted message. *)
(***************************************************************************)
EXTENDS EgressStream, FiniteSetTheorems, TLAPS

Idle == \A w \in Workers : call[w].s = 0 => call[w].waiting = {}

TypeInv == TypeOK /\ Idle

LEMMA TypeInit == Init => TypeInv
PROOF
<1> SUFFICES ASSUME Init PROVE TypeInv
    OBVIOUS
<1>1. call \in [Workers -> Calls]
    BY DEF Init, NoCall, Calls
<1>2. Idle
    BY DEF Init, NoCall, Idle
<1>3. calm \in BOOLEAN
    BY Zenon DEF Init
<1>4. log \in [Brokers -> SUBSET Seqs]
    BY DEF Init
<1> QED
    BY <1>1, <1>2, <1>3, <1>4, MaxSeqAssumption, FaultAssumption
    DEF Init, TypeInv, TypeOK

\* A step of the environment or of the maintainer keeps the types.
LEMMA MaintainerTypes ==
    ASSUME TypeInv, Scale \/ CalmDown \/ Maintainer
    PROVE  TypeInv' /\ UNCHANGED workVars
PROOF
<1> USE DEF TypeInv, TypeOK, Idle, workVars, maintainVars, envVars
<1>1. CASE Scale
    BY <1>1, FaultAssumption DEF Scale, Disturb
<1>2. CASE CalmDown
    <2>1. calm' \in BOOLEAN
        BY <1>2, Zenon DEF CalmDown
    <2> QED  BY <1>2, <2>1 DEF CalmDown
<1>3. CASE Resolve
    BY <1>3, FaultAssumption DEF Resolve, Disturb
<1>4. ASSUME NEW b \in Brokers, Drop(b) PROVE TypeInv' /\ UNCHANGED workVars
    BY <1>4 DEF Drop
<1>5. ASSUME NEW b \in Brokers, Attach(b) PROVE TypeInv' /\ UNCHANGED workVars
    BY <1>5 DEF Attach
<1>6. CASE CloseClient
    BY <1>6 DEF CloseClient
<1>7. CASE StartAttaching
    BY <1>7 DEF StartAttaching
<1>8. CASE ConnectOk
    BY <1>8 DEF ConnectOk
<1>9. CASE ConnectFail
    BY <1>9, FaultAssumption DEF ConnectFail, Disturb
<1>10. CASE RegisterAll
    BY <1>10 DEF RegisterAll
<1>11. CASE RegisterRetry
    BY <1>11 DEF RegisterRetry, vars
<1>12. CASE Sleep
    BY <1>12 DEF Sleep
<1>13. CASE Wake
    BY <1>13 DEF Wake
<1> QED
    BY <1>1, <1>2, <1>3, <1>4, <1>5, <1>6, <1>7, <1>8, <1>9, <1>10, <1>11,
       <1>12, <1>13 DEF Maintainer

\* What the steps of a worker do to its own call, and to the others.
LEMMA StartPublishCall ==
    ASSUME TypeInv, NEW w \in Workers, StartPublish(w)
    PROVE  /\ seq' = seq + 1 /\ seq' \in Seqs
           /\ call' \in [Workers -> Calls]
           /\ call'[w].s = seq' /\ call'[w].waiting = clients /\ call'[w].got = FALSE
           /\ \A v \in Workers \ {w} : call'[v] = call[v]
PROOF
<1>1. seq' = seq + 1 /\ seq' \in Seqs
    BY MaxSeqAssumption DEF StartPublish, Seqs, TypeInv, TypeOK
<1>2. call' = [call EXCEPT ![w] = [s |-> seq', waiting |-> clients, got |-> FALSE]]
    BY DEF StartPublish
<1>3. [s |-> seq', waiting |-> clients, got |-> FALSE] \in Calls
    BY <1>1 DEF Calls, TypeInv, TypeOK
<1>4. call \in [Workers -> Calls]
    BY DEF TypeInv, TypeOK
<1>5. call'[w] = [s |-> seq', waiting |-> clients, got |-> FALSE]
    BY <1>2, <1>4
<1> QED
    BY <1>1, <1>2, <1>3, <1>4, <1>5

LEMMA AcceptCall ==
    ASSUME TypeInv, NEW w \in Workers, NEW b \in Brokers, Accept(w, b)
    PROVE  /\ call[w].s \in Seqs
           /\ call' \in [Workers -> Calls]
           /\ call'[w].s = call[w].s
           /\ call'[w].waiting = call[w].waiting \ {b}
           /\ \A v \in Workers \ {w} : call'[v] = call[v]
           /\ log' = [log EXCEPT ![b] = @ \cup {call[w].s}]
PROOF
<1>1. call \in [Workers -> Calls] /\ call[w] \in Calls
    BY DEF TypeInv, TypeOK
<1>2. call[w].s # 0
    BY DEF Accept, TypeInv, Idle
<1>3. call[w].s \in Seqs
    BY <1>1, <1>2 DEF Calls
<1>4. CASE call' = [call EXCEPT ![w].waiting = @ \ {b}, ![w].got = TRUE]
    BY <1>1, <1>3, <1>4 DEF Calls, Accept
<1>5. CASE call' = [call EXCEPT ![w].waiting = @ \ {b}]
    BY <1>1, <1>3, <1>5 DEF Calls, Accept
<1> QED
    BY <1>4, <1>5 DEF Accept

LEMMA RefuseCall ==
    ASSUME TypeInv, NEW w \in Workers, NEW b \in Brokers, Refuse(w, b)
    PROVE  /\ call' \in [Workers -> Calls]
           /\ call'[w].s = call[w].s /\ call'[w].got = call[w].got
           /\ call'[w].waiting = call[w].waiting \ {b}
           /\ \A v \in Workers \ {w} : call'[v] = call[v]
PROOF
<1>1. call \in [Workers -> Calls] /\ call[w] \in Calls
    BY DEF TypeInv, TypeOK
<1>2. call' = [call EXCEPT ![w].waiting = @ \ {b}]
    BY DEF Refuse
<1> QED
    BY <1>1, <1>2 DEF Calls

LEMMA CountCall ==
    ASSUME TypeInv, NEW w \in Workers, Count(w)
    PROVE  /\ call' \in [Workers -> Calls]
           /\ call'[w].s = 0 /\ call'[w].waiting = {}
           /\ \A v \in Workers \ {w} : call'[v] = call[v]
PROOF
<1>1. call \in [Workers -> Calls]
    BY DEF TypeInv, TypeOK
<1>2. call' = [call EXCEPT ![w] = NoCall] /\ NoCall \in Calls
    BY DEF Count, NoCall, Calls
<1> QED
    BY <1>1, <1>2 DEF NoCall

LEMMA WorkerTypes ==
    ASSUME TypeInv, NEW w \in Workers, Worker(w)
    PROVE  TypeInv'
PROOF
<1>1. CASE StartPublish(w)
    <2>1. /\ seq' \in Seqs /\ call' \in [Workers -> Calls] /\ call'[w].s = seq'
          /\ \A v \in Workers \ {w} : call'[v] = call[v]
        BY <1>1, StartPublishCall
    <2>2. settled' \in SUBSET Seqs
        BY <1>1, <2>1 DEF StartPublish, TypeInv, TypeOK
    <2>3. Idle'
        BY <2>1 DEF TypeInv, Idle, Seqs
    <2>4. seq' \in 0..MaxSeq
        BY <2>1, MaxSeqAssumption DEF Seqs
    <2> QED
        BY <1>1, <2>1, <2>2, <2>3, <2>4
        DEF StartPublish, TypeInv, TypeOK, envVars, maintainVars
<1>2. ASSUME NEW b \in Brokers, Accept(w, b) PROVE TypeInv'
    <2>1. log' \in [Brokers -> SUBSET Seqs]
        BY <1>2, AcceptCall DEF TypeInv, TypeOK
    <2>2. Idle'
        BY <1>2, AcceptCall DEF TypeInv, Idle, Seqs
    <2>3. faults' \in 0..FaultLimit
        BY <1>2, FaultAssumption DEF Accept, Disturb, TypeInv, TypeOK
    <2> QED
        BY <1>2, <2>1, <2>2, <2>3, AcceptCall
        DEF Accept, TypeInv, TypeOK, maintainVars
<1>3. ASSUME NEW b \in Brokers, Refuse(w, b) PROVE TypeInv'
    <2>1. Idle'
        BY <1>3, RefuseCall DEF TypeInv, Idle
    <2>2. faults' \in 0..FaultLimit
        BY <1>3, FaultAssumption DEF Refuse, Disturb, TypeInv, TypeOK
    <2> QED
        BY <1>3, <2>1, <2>2, RefuseCall DEF Refuse, TypeInv, TypeOK, maintainVars
<1>4. CASE Count(w)
    <2>1. Idle'
        BY <1>4, CountCall DEF TypeInv, Idle
    <2>2. published' \in {published, published + 1} /\ rejected' \in {rejected, rejected + 1}
        BY <1>4, Zenon DEF Count
    <2>3. published' \in Nat /\ rejected' \in Nat
        BY <2>2 DEF TypeInv, TypeOK
    <2>4. UNCHANGED <<envVars, maintainVars, seq, log, settled>>
        BY <1>4 DEF Count
    <2> QED
        BY <2>1, <2>3, <2>4, <1>4, CountCall
        DEF TypeInv, TypeOK, envVars, maintainVars
<1> QED
    BY <1>1, <1>2, <1>3, <1>4 DEF Worker

LEMMA TypeStep == TypeInv /\ [Next]_vars => TypeInv'
PROOF
<1> SUFFICES ASSUME TypeInv, [Next]_vars PROVE TypeInv'
    OBVIOUS
<1>1. CASE UNCHANGED vars
    BY <1>1 DEF TypeInv, TypeOK, Idle, vars, envVars, maintainVars, workVars
<1> QED
    BY <1>1, MaintainerTypes, WorkerTypes DEF Next

\* Type correctness of the broadcaster: an idle worker waits for nobody, and a
\* call in progress holds a number that was drawn.
THEOREM TypeCorrect == Spec => []TypeOK
PROOF
<1>1. TypeInv => TypeOK
    BY DEF TypeInv
<1> QED
    BY <1>1, TypeInit, TypeStep, PTL DEF Spec

-----------------------------------------------------------------------------
(* The numbers drawn *)

\* Whatever number is anywhere was drawn, and no two calls hold the same.
Drawn ==
    /\ \A w \in Workers : call[w].s \in 0..seq
    /\ \A b \in Brokers : log[b] \subseteq 1..seq
    /\ settled \subseteq 1..seq
    /\ \A v, w \in Workers : call[v].s = call[w].s /\ call[w].s # 0 => v = w

LEMMA DrawnInit == Init => Drawn
PROOF
    BY DEF Init, NoCall, Drawn

LEMMA DrawnStep ==
    ASSUME TypeInv, Drawn, [Next]_vars
    PROVE  Drawn'
PROOF
<1>1. CASE UNCHANGED workVars
    BY <1>1 DEF Drawn, workVars
<1>2. ASSUME NEW w \in Workers, StartPublish(w) PROVE Drawn'
    <2>1. /\ UNCHANGED log
          /\ settled' \in {settled, settled \cup {seq'}}
        BY <1>2 DEF StartPublish
    <2>0. seq \in Nat
        BY DEF TypeInv, TypeOK
    <2>2. /\ seq' = seq + 1
          /\ call'[w].s = seq'
          /\ \A v \in Workers \ {w} : call'[v] = call[v]
        BY <1>2, StartPublishCall
    <2>3. 1..seq \subseteq 1..seq' /\ 0..seq \subseteq 0..seq'
          /\ seq' \in 1..seq' /\ seq' \in 0..seq' /\ seq' \notin 0..seq
        BY <2>0, <2>2
    <2>4. settled' \subseteq 1..seq'
        BY <2>1, <2>3 DEF Drawn
    <2>5. \A v \in Workers : call'[v].s \in 0..seq'
        BY <2>2, <2>3 DEF Drawn
    <2>6. \A v, u \in Workers : call'[v].s = call'[u].s /\ call'[u].s # 0 => v = u
        BY <2>2, <2>3 DEF Drawn
    <2> QED
        BY <2>1, <2>3, <2>4, <2>5, <2>6 DEF Drawn
<1>3. ASSUME NEW w \in Workers, NEW b \in Brokers, Accept(w, b) PROVE Drawn'
    <2>1. UNCHANGED <<seq, settled>>
        BY <1>3 DEF Accept
    <2>2. /\ call[w].s \in Seqs /\ call'[w].s = call[w].s
          /\ \A v \in Workers \ {w} : call'[v] = call[v]
          /\ log' = [log EXCEPT ![b] = @ \cup {call[w].s}]
        BY <1>3, AcceptCall
    <2>3. call[w].s \in 1..seq
        BY <2>2 DEF Drawn, Seqs, TypeInv, TypeOK
    <2>4. \A c \in Brokers : log'[c] \subseteq 1..seq
        BY <2>2, <2>3 DEF Drawn, TypeInv, TypeOK
    <2>5. \A v \in Workers : call'[v].s = call[v].s
        BY <2>2
    <2> QED
        BY <2>1, <2>4, <2>5 DEF Drawn
<1>4. ASSUME NEW w \in Workers, NEW b \in Brokers, Refuse(w, b) PROVE Drawn'
    <2>1. UNCHANGED <<seq, settled, log>>
        BY <1>4 DEF Refuse
    <2>2. \A v \in Workers : call'[v].s = call[v].s
        BY <1>4, RefuseCall
    <2> QED
        BY <2>1, <2>2 DEF Drawn
<1>5. ASSUME NEW w \in Workers, Count(w) PROVE Drawn'
    <2>1. UNCHANGED <<seq, settled, log>>
        BY <1>5 DEF Count
    <2>2. /\ call'[w].s = 0
          /\ \A v \in Workers \ {w} : call'[v] = call[v]
        BY <1>5, CountCall
    <2>3. 0 \in 0..seq
        BY DEF TypeInv, TypeOK
    <2> QED
        BY <2>1, <2>2, <2>3 DEF Drawn
<1>6. CASE Scale \/ CalmDown \/ Maintainer
    BY <1>1, <1>6, MaintainerTypes
<1>7. CASE UNCHANGED vars
    BY <1>1, <1>7 DEF vars
<1> QED
    BY <1>2, <1>3, <1>4, <1>5, <1>6, <1>7 DEF Next, Worker

-----------------------------------------------------------------------------
(* Topics before messages *)

\* Only registered brokers are published to.
Registered ==
    /\ clients \subseteq topics
    /\ \A w \in Workers : call[w].waiting \subseteq topics
    /\ RegisteredFirst

LEMMA RegisteredStep ==
    ASSUME TypeInv, Registered, [Next]_vars
    PROVE  Registered'
PROOF
<1>1. CASE UNCHANGED vars
    BY <1>1 DEF Registered, RegisteredFirst, vars, maintainVars, workVars
<1>2. CASE Scale \/ CalmDown \/ Maintainer
    <2>1. UNCHANGED workVars
        BY <1>2, MaintainerTypes
    <2>2. topics \subseteq topics' /\ clients' \subseteq topics'
        <3>1. CASE RegisterAll
            BY <3>1 DEF RegisterAll, Registered
        <3>2. CASE RegisterRetry
            BY <3>2 DEF RegisterRetry, Registered, vars, maintainVars
        <3> QED
            BY <1>2, <3>1, <3>2
            DEF Registered, Scale, CalmDown, Maintainer, Resolve, Drop, CloseClient,
                StartAttaching, Attach, ConnectOk, ConnectFail, Sleep, Wake,
                maintainVars
    <2> QED
        BY <2>1, <2>2 DEF Registered, RegisteredFirst, workVars
<1>3. ASSUME NEW w \in Workers, Worker(w) PROVE Registered'
    <2>1. CASE StartPublish(w)
        <3>1. UNCHANGED <<clients, topics, log>>
            BY <2>1 DEF StartPublish, maintainVars
        <3> QED
            BY <2>1, <3>1, StartPublishCall DEF Registered, RegisteredFirst
    <2>2. ASSUME NEW b \in Brokers, Accept(w, b) PROVE Registered'
        <3>1. UNCHANGED <<clients, topics>> /\ b \in call[w].waiting
            BY <2>2 DEF Accept, maintainVars
        <3>2. /\ call'[w].waiting \subseteq call[w].waiting
              /\ \A v \in Workers \ {w} : call'[v] = call[v]
              /\ log' = [log EXCEPT ![b] = @ \cup {call[w].s}]
            BY <2>2, AcceptCall
        <3>3. RegisteredFirst'
            BY <3>1, <3>2 DEF Registered, RegisteredFirst, TypeInv, TypeOK
        <3> QED
            BY <3>1, <3>2, <3>3 DEF Registered
    <2>3. ASSUME NEW b \in Brokers, Refuse(w, b) PROVE Registered'
        <3>1. UNCHANGED <<clients, topics, log>>
            BY <2>3 DEF Refuse, maintainVars
        <3> QED
            BY <2>3, <3>1, RefuseCall DEF Registered, RegisteredFirst
    <2>4. CASE Count(w)
        <3>1. UNCHANGED <<clients, topics, log>>
            BY <2>4 DEF Count, maintainVars
        <3> QED
            BY <2>4, <3>1, CountCall DEF Registered, RegisteredFirst
    <2> QED
        BY <1>3, <2>1, <2>2, <2>3, <2>4 DEF Worker
<1> QED
    BY <1>1, <1>2, <1>3 DEF Next

\* No broker ever holds a message of a topic that is not registered there yet.
THEOREM TopicsComeFirst == Spec => []RegisteredFirst
PROOF
<1>1. Init => Registered
    BY DEF Init, NoCall, Registered, RegisteredFirst
<1>2. TypeInv /\ Registered /\ [Next]_vars => Registered'
    BY RegisteredStep
<1>3. Registered => RegisteredFirst
    BY DEF Registered
<1> QED
    BY <1>1, <1>2, <1>3, TypeInit, TypeStep, PTL DEF Spec

-----------------------------------------------------------------------------
(* The full stream *)

\* What is known of the messages begun when all was calm and attached: nothing
\* changes any more, and a broker that has not got one is still awaited.
Mirrored ==
    /\ settled # {} => calm /\ targets = replicas /\ clients = replicas
    /\ \A s \in settled, w \in Workers :
          call[w].s = s => \A b \in replicas : b \in call[w].waiting \/ s \in log[b]
    /\ FullStream

\* A maintainer that finds the replicas it knows of keeps them.
LEMMA MaintainerSettles ==
    ASSUME TypeInv, calm, targets = replicas, clients = replicas,
           Scale \/ CalmDown \/ Maintainer
    PROVE  calm' /\ targets' = replicas' /\ clients' = replicas' /\ replicas' = replicas
PROOF
<1>1. CASE Resolve
    BY <1>1 DEF Resolve, Disturb
<1>2. ASSUME NEW b \in Brokers, Drop(b) PROVE FALSE
    BY <1>2 DEF Drop
<1>3. CASE RegisterAll
    BY <1>3 DEF RegisterAll, envVars
<1>4. CASE RegisterRetry
    BY <1>4 DEF RegisterRetry, vars, envVars, maintainVars
<1> QED
    BY <1>1, <1>2, <1>3, <1>4
    DEF Scale, Disturb, CalmDown, Maintainer, CloseClient, StartAttaching, Attach,
        ConnectOk, ConnectFail, Sleep, Wake, envVars

LEMMA MirroredStep ==
    ASSUME TypeInv, Drawn, Mirrored, [Next]_vars
    PROVE  Mirrored'
PROOF
<1>1. CASE UNCHANGED vars
    BY <1>1 DEF Mirrored, FullStream, vars, envVars, maintainVars, workVars
<1>2. CASE Scale \/ CalmDown \/ Maintainer
    <2>1. UNCHANGED workVars
        BY <1>2, MaintainerTypes
    <2>2. CASE settled = {}
        BY <2>1, <2>2 DEF Mirrored, FullStream, workVars
    <2>3. CASE settled # {}
        BY <1>2, <2>1, <2>3, MaintainerSettles DEF Mirrored, FullStream, workVars
    <2> QED  BY <2>2, <2>3
<1>3. ASSUME NEW w \in Workers, StartPublish(w) PROVE Mirrored'
    <2>1. /\ UNCHANGED <<replicas, calm, targets, clients, log>>
          /\ settled' = IF calm /\ clients = replicas /\ targets = replicas
                           THEN settled \cup {seq'} ELSE settled
          /\ call[w].s = 0
        BY <1>3 DEF StartPublish, envVars, maintainVars
    <2>0. seq \in Nat
        BY DEF TypeInv, TypeOK
    <2>2. /\ seq' = seq + 1
          /\ call'[w].s = seq' /\ call'[w].waiting = clients
          /\ \A v \in Workers \ {w} : call'[v] = call[v]
        BY <1>3, StartPublishCall
    <2>3. seq' \notin settled /\ \A v \in Workers : call[v].s # seq'
        BY <2>0, <2>2 DEF Drawn
    <2>4. settled' # {} => clients = replicas /\ calm /\ targets = replicas
        BY <2>1 DEF Mirrored
    <2>5. ASSUME NEW s \in settled', NEW v \in Workers, call'[v].s = s,
                 NEW b \in replicas
          PROVE  b \in call'[v].waiting \/ s \in log[b]
        <3>1. CASE v = w
            BY <2>2, <2>4, <2>5, <3>1
        <3>2. CASE v # w
            <4>1. call'[v] = call[v] /\ s # seq'
                BY <2>2, <2>3, <2>5, <3>2
            <4>2. s \in settled
                BY <2>1, <4>1
            <4> QED  BY <2>5, <4>1, <4>2 DEF Mirrored
        <3> QED  BY <3>1, <3>2
    <2>6. ASSUME NEW s \in settled', \A v \in Workers : call'[v].s # s,
                 NEW b \in replicas
          PROVE  s \in log[b]
        <3>1. s # seq'
            BY <2>2, <2>6
        <3>2. s \in settled /\ s # 0
            BY <2>1, <3>1 DEF Drawn
        <3>3. \A v \in Workers : call[v].s # s
            BY <2>1, <2>2, <2>6, <3>2
        <3> QED  BY <3>2, <3>3 DEF Mirrored, FullStream
    <2> QED
        BY <2>1, <2>4, <2>5, <2>6 DEF Mirrored, FullStream
<1>4. ASSUME NEW w \in Workers, NEW c \in Brokers, Accept(w, c) PROVE Mirrored'
    <2>1. UNCHANGED <<replicas, calm, targets, clients, settled>>
        BY <1>4 DEF Accept, maintainVars
    <2>2. /\ call'[w].s = call[w].s /\ call'[w].waiting = call[w].waiting \ {c}
          /\ \A v \in Workers \ {w} : call'[v] = call[v]
          /\ log' = [log EXCEPT ![c] = @ \cup {call[w].s}]
        BY <1>4, AcceptCall
    <2>3. \A b \in Brokers : log[b] \subseteq log'[b]
        BY <2>2 DEF TypeInv, TypeOK
    <2>4. call[w].s \in log'[c]
        BY <2>2 DEF TypeInv, TypeOK
    <2>5. replicas \subseteq Brokers
        BY DEF TypeInv, TypeOK
    <2>6. ASSUME NEW s \in settled, NEW v \in Workers, call'[v].s = s,
                 NEW b \in replicas
          PROVE  b \in call'[v].waiting \/ s \in log'[b]
        <3>1. b \in call[v].waiting \/ s \in log[b]
            BY <2>2, <2>6 DEF Mirrored
        <3> QED  BY <2>2, <2>3, <2>4, <2>5, <2>6, <3>1
    <2> QED
        BY <2>1, <2>2, <2>3, <2>5, <2>6 DEF Mirrored, FullStream
<1>5. ASSUME NEW w \in Workers, NEW c \in Brokers, Refuse(w, c) PROVE Mirrored'
    <2>1. UNCHANGED <<replicas, calm, targets, clients, settled, log>>
        BY <1>5 DEF Refuse, maintainVars
    <2>2. /\ call'[w].s = call[w].s /\ call'[w].waiting = call[w].waiting \ {c}
          /\ \A v \in Workers \ {w} : call'[v] = call[v]
        BY <1>5, RefuseCall
    <2>3. settled # {} => c \notin replicas
        BY <1>5 DEF Refuse, Disturb, Mirrored
    <2>4. ASSUME NEW s \in settled, NEW v \in Workers, call'[v].s = s,
                 NEW b \in replicas
          PROVE  b \in call'[v].waiting \/ s \in log[b]
        <3>1. b \in call[v].waiting \/ s \in log[b]
            BY <2>2, <2>4 DEF Mirrored
        <3> QED  BY <2>2, <2>3, <2>4, <3>1
    <2>5. \A v \in Workers : call'[v].s = call[v].s
        BY <2>2
    <2> QED
        BY <2>1, <2>4, <2>5 DEF Mirrored, FullStream
<1>6. ASSUME NEW w \in Workers, Count(w) PROVE Mirrored'
    <2>1. /\ UNCHANGED <<replicas, calm, targets, clients, settled, log>>
          /\ call[w].waiting = {}
        BY <1>6 DEF Count, envVars, maintainVars
    <2>2. /\ call'[w].s = 0
          /\ \A v \in Workers \ {w} : call'[v] = call[v]
        BY <1>6, CountCall
    <2>3. 0 \notin settled
        BY DEF Drawn
    <2>4. ASSUME NEW s \in settled, \A v \in Workers : call'[v].s # s,
                 NEW b \in replicas
          PROVE  s \in log[b]
        <3>1. CASE call[w].s = s
            BY <2>1, <2>4, <3>1 DEF Mirrored
        <3>2. CASE call[w].s # s
            BY <2>2, <2>4, <3>2 DEF Mirrored, FullStream
        <3> QED  BY <3>1, <3>2
    <2> QED
        BY <2>1, <2>2, <2>3, <2>4 DEF Mirrored, FullStream
<1> QED
    BY <1>1, <1>2, <1>3, <1>4, <1>5, <1>6 DEF Next, Worker

\* A message begun when every replica is attached and nothing fails reaches
\* each of them, however many workers overlap.
THEOREM EachBrokerHasAll == Spec => []FullStream
PROOF
<1>1. Init => Mirrored
    BY DEF Init, Mirrored, FullStream
<1>2. TypeInv /\ Drawn /\ Mirrored /\ [Next]_vars => Mirrored'
    BY MirroredStep
<1>3. TypeInv /\ Drawn /\ [Next]_vars => Drawn'
    BY DrawnStep
<1>4. Mirrored => FullStream
    BY DEF Mirrored
<1> QED
    BY <1>1, <1>2, <1>3, <1>4, TypeInit, TypeStep, DrawnInit, PTL DEF Spec

-----------------------------------------------------------------------------
(* The counts *)

Accepted == UNION {log[b] : b \in Brokers}
Pending == {call[w].s : w \in Workers}

\* Accepted and no longer waited for: the messages a count may be about.
Done == Accepted \ Pending

Counted ==
    /\ \A w \in Workers : call[w].got /\ call[w].s # 0 => call[w].s \in Accepted
    /\ published <= Cardinality(Done)
    /\ published + rejected + Cardinality(InFlight) = seq

LEMMA SetsAreFinite ==
    ASSUME TypeInv, Drawn
    PROVE  /\ IsFiniteSet(Accepted) /\ IsFiniteSet(Done) /\ IsFiniteSet(InFlight)
           /\ Cardinality(Accepted) \in Nat /\ Cardinality(Done) \in Nat
           /\ Cardinality(InFlight) \in Nat
           /\ Cardinality(Done) <= Cardinality(Accepted)
PROOF
<1>1. IsFiniteSet(1..seq)
    BY FS_Interval DEF TypeInv, TypeOK
<1>2. Accepted \in SUBSET (1..seq)
    BY DEF Accepted, Drawn
<1>3. IsFiniteSet(Accepted)
    BY <1>1, <1>2, FS_Subset
<1>4. Done \in SUBSET Accepted
    BY DEF Done
<1>5. IsFiniteSet(Done) /\ Cardinality(Done) <= Cardinality(Accepted)
    BY <1>3, <1>4, FS_Subset
<1>6. InFlight \in SUBSET Workers
    BY DEF InFlight
<1>7. IsFiniteSet(InFlight)
    BY <1>6, WorkersAssumption, FS_Subset
<1> QED
    BY <1>3, <1>5, <1>7, FS_CardinalityType

LEMMA CountedInit == Init => Counted
PROOF
<1> SUFFICES ASSUME Init PROVE Counted
    OBVIOUS
<1>1. InFlight = {} /\ \A w \in Workers : call[w].s = 0
    BY DEF Init, NoCall, InFlight
<1>2. Cardinality(Done) \in Nat
    BY TypeInit, DrawnInit, SetsAreFinite
<1>3. Cardinality(InFlight) = 0
    BY <1>1, FS_EmptySet
<1>4. published = 0 /\ rejected = 0 /\ seq = 0
    BY DEF Init
<1> QED
    BY <1>1, <1>2, <1>3, <1>4 DEF Counted

LEMMA StartPublishCounted ==
    ASSUME TypeInv, Drawn, Counted, NEW w \in Workers, StartPublish(w)
    PROVE  Counted'
PROOF
<1>1. UNCHANGED <<log, published, rejected>> /\ call[w].s = 0
    BY DEF StartPublish
<1>2. seq \in Nat /\ published \in Nat /\ rejected \in Nat
    BY DEF TypeInv, TypeOK
<1>3. /\ seq' = seq + 1 /\ call'[w].s = seq' /\ call'[w].got = FALSE
      /\ \A v \in Workers \ {w} : call'[v] = call[v]
    BY StartPublishCall
<1>4. Accepted' = Accepted /\ 0 \notin Accepted /\ seq' \notin Accepted
    BY <1>1, <1>2, <1>3 DEF Accepted, Drawn
<1>5. Done' = Done
    <2>1. \A s \in Accepted : s \in Pending' <=> s \in Pending
        BY <1>1, <1>3, <1>4 DEF Pending
    <2> QED  BY <1>4, <2>1 DEF Done
<1>6. InFlight' = InFlight \cup {w} /\ w \notin InFlight
    <2>1. seq' # 0
        BY <1>2, <1>3
    <2> QED  BY <1>1, <1>3, <2>1 DEF InFlight
<1>7. Cardinality(InFlight') = Cardinality(InFlight) + 1
    BY <1>6, SetsAreFinite, FS_AddElement
<1>8. \A v \in Workers : call'[v].got /\ call'[v].s # 0 => call'[v].s \in Accepted'
    BY <1>3, <1>4, Zenon DEF Counted
<1>9. published' + rejected' + Cardinality(InFlight') = seq'
    BY <1>1, <1>2, <1>3, <1>7, SetsAreFinite DEF Counted
<1> QED
    BY <1>1, <1>5, <1>8, <1>9 DEF Counted

LEMMA AnswerCounted ==
    ASSUME TypeInv, Drawn, Counted, NEW w \in Workers, NEW b \in Brokers,
           Accept(w, b) \/ Refuse(w, b)
    PROVE  Counted'
PROOF
<1>1. UNCHANGED <<seq, published, rejected>>
    BY DEF Accept, Refuse
<1>2. /\ call'[w].s = call[w].s
      /\ \A v \in Workers \ {w} : call'[v] = call[v]
    BY AcceptCall, RefuseCall
<1>3. Pending' = Pending /\ InFlight' = InFlight
    BY <1>2 DEF Pending, InFlight
<1>4. Accepted \subseteq Accepted' /\ Accepted' \ Pending = Done
    <2>1. CASE Accept(w, b)
        <3>1. log' = [log EXCEPT ![b] = @ \cup {call[w].s}]
            BY <2>1, AcceptCall
        <3>2. Accepted' = Accepted \cup {call[w].s}
            BY <3>1 DEF Accepted, TypeInv, TypeOK
        <3> QED  BY <3>2 DEF Done, Pending
    <2>2. CASE Refuse(w, b)
        BY <2>2 DEF Refuse, Accepted, Done
    <2> QED  BY <2>1, <2>2
<1>5. Done' = Done
    BY <1>3, <1>4 DEF Done
<1>6. call'[w].got => call[w].got \/ call[w].s \in Accepted'
    <2>1. CASE Accept(w, b)
        <3>1. call[w].s \in log'[b]
            BY <2>1, AcceptCall DEF TypeInv, TypeOK
        <3> QED  BY <3>1 DEF Accepted
    <2>2. CASE Refuse(w, b)
        BY <2>2, RefuseCall
    <2> QED  BY <2>1, <2>2
<1>7. \A v \in Workers : call'[v].got /\ call'[v].s # 0 => call'[v].s \in Accepted'
    BY <1>2, <1>4, <1>6, Zenon DEF Counted
<1> QED
    BY <1>1, <1>3, <1>5, <1>7 DEF Counted

LEMMA CountCounted ==
    ASSUME TypeInv, Drawn, Counted, NEW w \in Workers, Count(w)
    PROVE  Counted'
PROOF
<1>1. UNCHANGED <<log, seq>> /\ call[w].s # 0
    BY DEF Count
<1>2. /\ call'[w].s = 0
      /\ \A v \in Workers \ {w} : call'[v] = call[v]
    BY CountCall
<1>3. Accepted' = Accepted /\ 0 \notin Accepted
    BY <1>1 DEF Accepted, Drawn
<1>4. \A s \in Accepted : s \in Pending' <=> s \in Pending /\ s # call[w].s
    BY <1>1, <1>2, <1>3 DEF Pending, Drawn
<1>5. Done' = IF call[w].s \in Accepted THEN Done \cup {call[w].s} ELSE Done
    BY <1>3, <1>4 DEF Done
<1>6. call[w].s \notin Done
    BY DEF Done, Pending
<1>7. /\ Cardinality(Done') \in Nat /\ Cardinality(Done) <= Cardinality(Done')
      /\ call[w].s \in Accepted => Cardinality(Done') = Cardinality(Done) + 1
    <2>1. Cardinality(Done \cup {call[w].s}) = Cardinality(Done) + 1
        BY <1>6, SetsAreFinite, FS_AddElement
    <2> QED  BY <1>5, <2>1, SetsAreFinite
<1>8. InFlight' = InFlight \ {w} /\ w \in InFlight
    BY <1>1, <1>2 DEF InFlight
<1>9. Cardinality(InFlight') = Cardinality(InFlight) - 1
    BY <1>8, SetsAreFinite, FS_RemoveElement
<1>10. \/ call[w].s \in Accepted /\ published' = published + 1 /\ rejected' = rejected
       \/ published' = published /\ rejected' = rejected + 1
    BY <1>1, Zenon DEF Count, Counted
<1>11. published \in Nat /\ rejected \in Nat /\ seq \in Nat
    BY DEF TypeInv, TypeOK
<1>12. published' <= Cardinality(Done')
    BY <1>7, <1>10, <1>11, SetsAreFinite DEF Counted
<1>13. published' + rejected' + Cardinality(InFlight') = seq'
    BY <1>1, <1>9, <1>10, <1>11, SetsAreFinite DEF Counted
<1>14. \A v \in Workers : call'[v].got /\ call'[v].s # 0 => call'[v].s \in Accepted'
    BY <1>2, <1>3, Zenon DEF Counted
<1> QED
    BY <1>12, <1>13, <1>14 DEF Counted

LEMMA CountedStep ==
    ASSUME TypeInv, Drawn, Counted, [Next]_vars
    PROVE  Counted'
PROOF
<1>1. CASE UNCHANGED workVars
    BY <1>1 DEF Counted, Done, Accepted, Pending, InFlight, workVars
<1>2. CASE Scale \/ CalmDown \/ Maintainer
    BY <1>1, <1>2, MaintainerTypes
<1>3. CASE UNCHANGED vars
    BY <1>1, <1>3 DEF vars
<1> QED
    BY <1>2, <1>3, StartPublishCounted, AnswerCounted, CountCounted
    DEF Next, Worker

\* The producer never reports more than some broker accepted, and every number
\* drawn is counted once, as published or as rejected, or still in progress.
THEOREM NeverOverReported == Spec => []CountsAreReal
PROOF
<1>1. TypeInv /\ Drawn /\ Counted => CountsAreReal
    BY SetsAreFinite DEF Counted, CountsAreReal, Accepted, TypeInv, TypeOK
<1>2. TypeInv /\ Drawn /\ Counted /\ [Next]_vars => Counted'
    BY CountedStep
<1>3. TypeInv /\ Drawn /\ [Next]_vars => Drawn'
    BY DrawnStep
<1> QED
    BY <1>1, <1>2, <1>3, TypeInit, TypeStep, DrawnInit, CountedInit, PTL DEF Spec

-----------------------------------------------------------------------------
(* The topology *)

\* With consumers beside it the broadcaster behaves as it does alone, so all of
\* the above holds of the egress topology as well.
THEOREM StreamIsBroadcast == StreamSpec => Spec
PROOF
<1>1. StreamInit => Init
    BY DEF StreamInit
<1>2. [StreamNext]_streamVars => [Next]_vars
    BY DEF StreamNext, Subscribe, StreamEnds, streamVars
<1> QED
    BY <1>1, <1>2, PTL DEF StreamSpec, Spec

=============================================================================
