---------------------------- MODULE StartupProofs ----------------------------
(***************************************************************************)
(* Theorems about Startup, for any set of brokers and any number of        *)
(* failures.  What a broker in service has behind it does not follow from  *)
(* itself: SecondHalf says what holds between the two probes, and          *)
(* TlsInSecond where the TLS listener may be open.                         *)
(***************************************************************************)
EXTENDS Startup, TLAPS

Steps == {"reject", "claim", "deliver", "release"}
InSecond(b) == pc[b] \in Steps /\ probe[b] = "tls"

\* Once the first probe is through, its topic stays free.
SecondHalf ==
    \A b \in Brokers : pc[b] = "second" \/ InSecond(b) =>
        owner[<<"auth", b>>] = Nobody /\ "auth" \in passed[b]

TlsInSecond == \A b \in tls : InSecond(b)

StartupInv ==
    /\ TypeOK
    /\ SecondHalf
    /\ TlsInSecond
    /\ ServingIsProbed
    /\ ServingLeavesNoClaim

-----------------------------------------------------------------------------

LEMMA InitInv == Init => StartupInv
<1> SUFFICES ASSUME Init PROVE StartupInv
  OBVIOUS
<1> USE BoundsAssumption DEF Init
<1>1. TypeOK
  <2>1. pc \in [Brokers -> Places] /\ probe \in [Brokers -> Probes]
    BY DEF Places, Probes
  <2>2. tries \in [Brokers -> 0..MaxTries] /\ passed \in [Brokers -> SUBSET Probes]
    OBVIOUS
  <2>3. owner \in [Topics -> {Principal, Nobody}]
    OBVIOUS
  <2> QED BY <2>1, <2>2, <2>3 DEF TypeOK
<1>2. SecondHalf /\ TlsInSecond
  BY DEF SecondHalf, TlsInSecond, InSecond, Steps
<1>3. ServingIsProbed /\ ServingLeavesNoClaim
  BY DEF ServingIsProbed, ServingLeavesNoClaim
<1> QED BY <1>1, <1>2, <1>3 DEF StartupInv

\* A broker that exits disturbs nothing: it is in neither probe nor service.
LEMMA ExitPreserves ==
    ASSUME StartupInv, NEW b \in Brokers, Exit(b), faults' \in Nat
    PROVE  StartupInv'
<1> USE DEF StartupInv, Exit, Goto
<1>1. TypeOK'
  BY DEF TypeOK, Places
<1>2. SecondHalf' /\ TlsInSecond'
  BY DEF TypeOK, SecondHalf, TlsInSecond, InSecond, Steps
<1>3. ServingIsProbed' /\ ServingLeavesNoClaim'
  BY DEF TypeOK, ServingIsProbed, ServingLeavesNoClaim
<1> QED BY <1>1, <1>2, <1>3

\* Each step of a broker preserves the invariant.
LEMMA BrokerPreserves ==
    ASSUME StartupInv, NEW b \in Brokers, Broker(b) PROVE StartupInv'
<1> USE DEF StartupInv, Goto, outerVars
<1> DEFINE Safe == /\ SecondHalf /\ TlsInSecond
                   /\ ServingIsProbed /\ ServingLeavesNoClaim
<1> USE DEF SecondHalf, TlsInSecond, InSecond, Steps, ServingIsProbed,
            ServingLeavesNoClaim
<1>1. CASE Boot(b)
  <2> USE <1>1 DEF Boot
  <2>1. TypeOK'
    <3>1. pc' \in [Brokers -> Places]
      BY DEF TypeOK, Places
    <3>2. tries' \in [Brokers -> 0..MaxTries]
      BY BoundsAssumption DEF TypeOK
    <3>3. passed' \in [Brokers -> SUBSET Probes]
      BY DEF TypeOK
    <3> QED BY <3>1, <3>2, <3>3 DEF TypeOK
  <2>2. Safe'
    BY DEF TypeOK
  <2> QED BY <2>1, <2>2
<1>2. CASE Connect(b) \/ ConnectFails(b) \/ Reject(b) \/ Deliver(b)
  <2> USE <1>2 DEF Connect, ConnectFails, Reject, Deliver
  <2>1. TypeOK'
    BY BoundsAssumption DEF TypeOK, Places, Probes
  <2>2. Safe'
    BY DEF TypeOK
  <2> QED BY <2>1, <2>2
<1>3. CASE GiveUp(b) \/ ProbeFails(b)
  <2>1. Exit(b) /\ faults' \in Nat
    BY <1>3 DEF GiveUp, ProbeFails, TypeOK
  <2> QED BY <2>1, ExitPreserves
<1>4. CASE Bind(b)
  <2> USE <1>4 DEF Bind
  <2>1. TypeOK'
    BY DEF TypeOK, Places, Probes
  <2>2. Safe'
    BY DEF TypeOK
  <2> QED BY <2>1, <2>2
<1>5. CASE Claim(b)
  <2> USE <1>5 DEF Claim, claim_topic
  <2>0. <<probe[b], b>> \in Topics
    BY DEF TypeOK, Topics
  <2>1. TypeOK'
    BY <2>0 DEF TypeOK, Places
  <2>2. probe[b] = "tls" => owner'[<<"auth", b>>] = owner[<<"auth", b>>]
    BY <2>0 DEF TypeOK, Topics, Probes
  <2>3. \A c \in Brokers : c # b =>
           \A k \in Probes : owner'[<<k, c>>] = owner[<<k, c>>]
    BY <2>0 DEF TypeOK, Topics
  <2>4. Safe'
    BY <2>2, <2>3 DEF TypeOK, Probes
  <2> QED BY <2>1, <2>4
<1>6. CASE Release(b)
  <2> USE <1>6 DEF Release, release_topic
  <2>0. <<probe[b], b>> \in Topics
    BY DEF TypeOK, Topics
  <2>1. TypeOK'
    BY <2>0 DEF TypeOK, Places
  <2>2. owner'[<<probe[b], b>>] = Nobody
    BY <2>0 DEF TypeOK
  <2>3. \A t \in Topics : t # <<probe[b], b>> => owner'[t] = owner[t]
    BY <2>0 DEF TypeOK
  <2>4. \A c \in Brokers, k \in Probes :
           /\ <<k, c>> \in Topics
           /\ c # b \/ k # probe[b] => <<k, c>> # <<probe[b], b>>
    BY DEF Topics
  <2>5. CASE probe[b] = "auth"
    <3>1. owner'[<<"auth", b>>] = Nobody /\ "auth" \in passed'[b]
      BY <2>2, <2>5 DEF TypeOK
    <3>2. \A c \in Brokers, k \in Probes : c # b => owner'[<<k, c>>] = owner[<<k, c>>]
      BY <2>3, <2>4
    <3>3. pc' = [pc EXCEPT ![b] = "second"]
      BY <2>5
    <3>4. SecondHalf' /\ TlsInSecond'
      BY <3>1, <3>2, <3>3, <2>5 DEF TypeOK, Probes
    <3>5. ServingIsProbed' /\ ServingLeavesNoClaim'
      BY <3>2, <3>3 DEF TypeOK
    <3> QED BY <2>1, <3>4, <3>5
  <2>6. CASE probe[b] = "tls"
    <3>1. \A k \in Probes : owner'[<<k, b>>] = Nobody
      BY <2>2, <2>3, <2>4, <2>6 DEF Probes
    <3>2. passed'[b] = Probes
      BY <2>6 DEF TypeOK, Probes
    <3>3. \A c \in Brokers, k \in Probes : c # b => owner'[<<k, c>>] = owner[<<k, c>>]
      BY <2>3, <2>4
    <3>4. pc'[b] = "serving" /\ b \notin tls'
      BY <2>6 DEF TypeOK
    <3>5. ServingLeavesNoClaim'
      BY <3>1, <3>3 DEF TypeOK
    <3>6. ServingIsProbed'
      BY <3>2 DEF TypeOK
    <3>7. SecondHalf' /\ TlsInSecond'
      BY <3>3, <3>4 DEF TypeOK, Probes
    <3> QED BY <2>1, <3>5, <3>6, <3>7
  <2> QED BY <2>1, <2>5, <2>6 DEF TypeOK, Probes
<1>7. CASE BindTls(b)
  <2> USE <1>7 DEF BindTls
  <2>1. TypeOK'
    BY DEF TypeOK, Places, Probes
  <2>2. Safe'
    BY DEF TypeOK
  <2> QED BY <2>1, <2>2
<1> QED BY <1>1, <1>2, <1>3, <1>4, <1>5, <1>6, <1>7 DEF Broker

\* A registration claims the data topic, and no probe's.
LEMMA RegisterPreserves ==
    ASSUME StartupInv, NEW b \in Brokers, Register(b) PROVE StartupInv'
<1> USE DEF StartupInv, Register, claim_topic, brokerVars
<1>1. TypeOK'
  BY DEF TypeOK
<1>2. \A c \in Brokers, k \in Probes : owner'[<<k, c>>] = owner[<<k, c>>]
  BY DEF TypeOK, Topics, DataTopic, Probes
<1>3. SecondHalf' /\ TlsInSecond'
  BY <1>2 DEF SecondHalf, TlsInSecond, InSecond, Steps, Probes
<1>4. ServingIsProbed' /\ ServingLeavesNoClaim'
  BY <1>2 DEF ServingIsProbed, ServingLeavesNoClaim
<1> QED BY <1>1, <1>3, <1>4

\* Every step preserves the invariant.
LEMMA StepPreserves == StartupInv /\ [Next]_vars => StartupInv'
<1> SUFFICES ASSUME StartupInv, [Next]_vars PROVE StartupInv'
  OBVIOUS
<1>1. ASSUME NEW b \in Brokers, Broker(b) PROVE StartupInv'
  BY <1>1, BrokerPreserves
<1>2. ASSUME NEW b \in Brokers, Register(b) PROVE StartupInv'
  BY <1>2, RegisterPreserves
<1>3. ASSUME NEW b \in Brokers, Crash(b) PROVE StartupInv'
  <2>1. Exit(b) /\ faults' \in Nat
    BY <1>3 DEF Crash, Disturb, StartupInv, TypeOK
  <2> QED BY <2>1, ExitPreserves
<1>4. CASE \/ UNCHANGED vars \/ StartDependants \/ DbDown \/ DbUp
           \/ \E b \in Brokers : HealthCheck(b)
  <2> USE <1>4 DEF vars, StartDependants, DbDown, DbUp, HealthCheck, Disturb,
          brokerVars, outerVars, StartupInv
  <2>1. TypeOK'
    <3>1. CASE UNCHANGED vars
      BY <3>1 DEF TypeOK
    <3>2. CASE StartDependants
      BY <3>2 DEF TypeOK
    <3>3. CASE DbDown
      <4>1. faults' \in Nat
        BY <3>3 DEF TypeOK
      <4>2. db' \in BOOLEAN
        BY <3>3, Zenon
      <4> QED BY <4>1, <4>2, <3>3 DEF TypeOK
    <3>5. CASE DbUp
      BY <3>5 DEF TypeOK
    <3>4. CASE \E b \in Brokers : HealthCheck(b)
      BY <3>4 DEF TypeOK
    <3> QED BY <3>1, <3>2, <3>3, <3>4, <3>5
  <2>2. SecondHalf' /\ TlsInSecond'
    BY DEF SecondHalf, TlsInSecond, InSecond, Steps
  <2>3. ServingIsProbed' /\ ServingLeavesNoClaim'
    BY DEF ServingIsProbed, ServingLeavesNoClaim
  <2> QED BY <2>1, <2>2, <2>3
<1> QED BY <1>1, <1>2, <1>3, <1>4 DEF Next

-----------------------------------------------------------------------------

\* StartupInv holds in every reachable state.
THEOREM StartupInvariant == Spec => []StartupInv
<1> QED BY InitInv, StepPreserves, PTL DEF Spec

\* Every variable keeps its type; no broker waits longer than it may.
THEOREM TypeCorrect == Spec => []TypeOK
<1>1. StartupInv => TypeOK
  BY DEF StartupInv
<1> QED BY <1>1, StartupInvariant, PTL

\* A broker in service has passed both probes since it was started.
THEOREM NoUnprobedService == Spec => []ServingIsProbed
<1>1. StartupInv => ServingIsProbed
  BY DEF StartupInv
<1> QED BY <1>1, StartupInvariant, PTL

\* The probe topics of a broker in service are free, whatever was left behind.
THEOREM NoLeftoverClaim == Spec => []ServingLeavesNoClaim
<1>1. StartupInv => ServingLeavesNoClaim
  BY DEF StartupInv
<1> QED BY <1>1, StartupInvariant, PTL

=============================================================================
