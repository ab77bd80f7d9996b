---------------------------- MODULE FanInProofs ----------------------------
(***************************************************************************)
(* Proofs about FanIn, for every set of brokers.  FanInInv holds for any   *)
(* number of planes.  With one plane per attachment, as the consumers and  *)
(* the egress observer have it, Exact is inductive beside it: attach() has *)
(* then no way to fail half done.                                          *)
(***************************************************************************)
EXTENDS FanIn, TLAPS

\* The initial states satisfy both invariants.
LEMMA InitInv == Init => FanInInv /\ (Planes = 1 => Exact)
<1> SUFFICES ASSUME Init PROVE FanInInv /\ (Planes = 1 => Exact)
  OBVIOUS
<1> USE PlanesAssumption DEF Init, PlaneIds
<1>1. 1 \in PlaneIds /\ 0 \in 0..FaultLimit
  BY FaultAssumption
<1>2. /\ Nothing \in [Brokers -> [PlaneIds -> Nat]]
      /\ \A b \in Brokers, p \in PlaneIds : Nothing[b][p] = 0
  BY DEF Nothing
<1>3. TypeOK
  BY <1>1, <1>2 DEF TypeOK
<1>4. OneAtATime
  BY DEF OneAtATime
<1>5. InProgress /\ ActiveComplete
  BY DEF InProgress, ActiveComplete
<1>6. Planes = 1 => Exact
  BY <1>1, <1>2 DEF Exact
<1> QED BY <1>3, <1>4, <1>5, <1>6 DEF FanInInv

\* Every step preserves FanInInv.
LEMMA StepPreserves == FanInInv /\ [Next]_vars => FanInInv'
<1> SUFFICES ASSUME FanInInv, [Next]_vars PROVE FanInInv'
  OBVIOUS
<1> USE PlanesAssumption, FaultAssumption, NoBrokerAssumption
    DEF FanInInv, TypeOK, OneAtATime, InProgress, ActiveComplete, PlaneIds,
        envVars, Disturb
<1>1. CASE UNCHANGED vars
  BY <1>1 DEF vars
<1>2. CASE Scale
  <2>1. faults' \in 0..FaultLimit
    BY <1>2 DEF Scale
  <2> QED BY <1>2, <2>1 DEF Scale
<1>13. CASE CalmDown
  BY <1>13 DEF CalmDown
<1>3. CASE Cancel
  BY <1>3 DEF Cancel
<1>4. CASE Resolve
  BY <1>4 DEF Resolve, broker_targets
<1>5. ASSUME NEW b \in Brokers, Drop(b) PROVE FanInInv'
  BY <1>5 DEF Drop, CancelPumps
<1>6. ASSUME NEW b \in Brokers, Attach(b) PROVE FanInInv'
  BY <1>6 DEF Attach
<1>7. ASSUME NEW b \in Brokers, TeardownNext(b) PROVE FanInInv'
  BY <1>7 DEF TeardownNext, CancelPumps
<1>8. CASE CloseClient
  BY <1>8 DEF CloseClient
<1>9. CASE StartAttaching
  BY <1>9 DEF StartAttaching
<1>10. CASE ConnectOk
  <2> USE <1>10 DEF ConnectOk
  <2>1. /\ at \in Brokers
        /\ conn' \in [Brokers -> [PlaneIds -> Nat]]
        /\ pump' \in [Brokers -> [PlaneIds -> Nat]]
    OBVIOUS
  <2>2. /\ conn'[at][step] = conn[at][step] + 1
        /\ pump'[at][step] = pump[at][step] + 1
    OBVIOUS
  <2>5. \A b \in Brokers, p \in PlaneIds :
           b # at \/ p # step => conn'[b][p] = conn[b][p] /\ pump'[b][p] = pump[b][p]
    OBVIOUS
  <2>6. conn[at][step] \in Nat /\ pump[at][step] \in Nat
    OBVIOUS
  <2>3. CASE step < Planes
    <3>5. step' \in 1..Planes
      BY <2>3
    <3>1. TypeOK'
      BY <2>1, <2>3, <3>5
    <3>2. OneAtATime'
      BY <2>3
    <3>6. \A b \in active, p \in PlaneIds :
             conn'[b][p] = conn[b][p] /\ pump'[b][p] = pump[b][p]
      BY <2>5
    <3>3. ActiveComplete'
      BY <2>3, <3>6
    <3>4. InProgress'
      BY <2>1, <2>2, <2>3, <2>5, <2>6
    <3> QED BY <3>1, <3>2, <3>3, <3>4
  <2>4. CASE ~(step < Planes)
    <3>1. step = Planes
      BY <2>4
    <3>2. TypeOK' /\ OneAtATime' /\ InProgress'
      BY <2>1, <2>4
    <3>3. ActiveComplete'
      BY <2>1, <2>2, <2>4, <2>5, <2>6, <3>1
    <3> QED BY <3>2, <3>3
  <2> QED BY <2>3, <2>4
<1>11. CASE ConnectFail
  BY <1>11 DEF ConnectFail
<1>12. CASE Sleep \/ Wake \/ Done
  BY <1>12 DEF Sleep, Wake, Done
<1> QED BY <1>1, <1>2, <1>3, <1>4, <1>5, <1>6, <1>7, <1>8, <1>9, <1>10,
           <1>11, <1>12, <1>13 DEF Next, Manager

\* With one plane every step keeps the dict and what exists in step.
LEMMA StepExact ==
    ASSUME Planes = 1, FanInInv, Exact, [Next]_vars PROVE Exact'
<1> USE NoBrokerAssumption
    DEF FanInInv, TypeOK, OneAtATime, Exact, PlaneIds, envVars
<1>0. step = 1 /\ 1 \in PlaneIds
  OBVIOUS
<1>1. CASE UNCHANGED vars \/ Scale \/ CalmDown \/ Cancel \/ Resolve
           \/ StartAttaching \/ ConnectFail \/ Sleep \/ Wake \/ Done
  BY <1>1 DEF vars, Scale, CalmDown, Cancel, Resolve, StartAttaching,
     ConnectFail, Sleep, Wake, Done
<1>2. ASSUME NEW b \in Brokers, Drop(b) PROVE Exact'
  BY <1>2, <1>0 DEF Drop, CancelPumps
<1>3. ASSUME NEW b \in Brokers, Attach(b) PROVE Exact'
  BY <1>3 DEF Attach
<1>4. ASSUME NEW b \in Brokers, TeardownNext(b) PROVE Exact'
  BY <1>4, <1>0 DEF TeardownNext, CancelPumps
<1>5. CASE CloseClient
  BY <1>5, <1>0 DEF CloseClient
<1>6. CASE ConnectOk
  BY <1>6, <1>0 DEF ConnectOk
<1> QED BY <1>1, <1>2, <1>3, <1>4, <1>5, <1>6 DEF Next, Manager

-----------------------------------------------------------------------------

\* FanInInv holds in every reachable state, for any number of planes.
THEOREM FanInInvariant == Spec => []FanInInv
<1>1. Init => FanInInv
  BY InitInv
<1>2. QED BY <1>1, StepPreserves, PTL DEF Spec

\* Every variable keeps its type: no connection is closed and no pump
\* cancelled that the manager does not have.
THEOREM TypeCorrect == Spec => []TypeOK
<1>1. FanInInv => TypeOK
  BY DEF FanInInv
<1>2. QED BY <1>1, FanInInvariant, PTL

\* A recorded attachment is complete, however many connections it takes and
\* whichever of them failed in earlier rounds.
THEOREM NoHalfAttachment == Spec => []ActiveComplete
<1>1. FanInInv => ActiveComplete
  BY DEF FanInInv
<1>2. QED BY <1>1, FanInInvariant, PTL

\* With one plane, what is open and what runs is exactly what the dict says.
LEMMA ExactInvariant == ASSUME Planes = 1 PROVE Spec => []Exact
<1>1. Init => Exact
  BY InitInv
<1>2. FanInInv /\ Exact /\ [Next]_vars => Exact'
  BY StepExact
<1>3. QED BY <1>1, <1>2, FanInInvariant, PTL DEF Spec

\* A subscriber with one plane never pumps one broker twice.
THEOREM NoDoublePump == ASSUME Planes = 1 PROVE Spec => []OnePump
<1>1. Exact => OnePump
  BY DEF Exact, OnePump, PlaneIds
<1>2. QED BY <1>1, ExactInvariant, PTL

\* ... and leaves no pump running that it could not stop.
THEOREM NoStrayPump == ASSUME Planes = 1 PROVE Spec => []PumpsOwned
<1>1. Exact => PumpsOwned
  BY DEF Exact, PumpsOwned, PlaneIds
<1>2. QED BY <1>1, ExactInvariant, PTL

\* ... and rounds of departures and returns leak no client.
THEOREM NoClientLeak == ASSUME Planes = 1 PROVE Spec => []ClientsOwned
<1>1. FanInInv /\ Exact => ClientsOwned
  BY DEF FanInInv, TypeOK, Exact, ClientsOwned, PlaneIds
<1>2. QED BY <1>1, FanInInvariant, ExactInvariant, PTL

-----------------------------------------------------------------------------

\* With one plane every step is one of Attachments, or nothing there.
LEMMA StepRefines ==
    ASSUME Planes = 1, FanInInv, Exact, [Next]_vars
    PROVE  [A!AttachNext]_(A!attachVars)
<1> DEFINE m == [b \in Brokers |-> pump[b][1]]
           stops == pc \in {"finally", "done"}
<1> USE DEF PlaneIds, envVars
<1>0. /\ step = 1 /\ 1 \in PlaneIds /\ active \subseteq Brokers
      /\ replicas \subseteq Brokers /\ pump \in [Brokers -> [PlaneIds -> Nat]]
      /\ \A b \in Brokers : m[b] = IF b \in active THEN 1 ELSE 0
  BY DEF FanInInv, TypeOK, Exact
<1>1. CASE pump' = pump /\ replicas' = replicas /\ (stops' <=> stops)
  BY <1>1 DEF A!attachVars
<1>2. CASE UNCHANGED vars \/ CalmDown \/ Resolve \/ CloseClient \/ StartAttaching
           \/ ConnectFail \/ Sleep \/ Wake \/ Done
           \/ \E b \in Brokers : Attach(b)
  <2>1. pump' = pump /\ replicas' = replicas /\ (stops' <=> stops)
    BY <1>0, <1>2, PlanesAssumption
       DEF vars, CalmDown, Resolve, CloseClient, StartAttaching, ConnectFail,
           Sleep, Wake, Done, Attach
  <2> QED BY <1>1, <2>1
<1>3. CASE Scale
  <2>1. replicas' \in SUBSET Brokers /\ pump' = pump /\ pc' = pc
    BY <1>3 DEF Scale
  <2> QED BY <2>1 DEF A!AttachNext, A!Rescale
<1>4. CASE Cancel
  <2>1. ~stops /\ stops' /\ pump' = pump /\ replicas' = replicas
    BY <1>4 DEF Cancel
  <2> QED BY <2>1 DEF A!AttachNext, A!StopAll
<1>5. CASE ConnectOk
  <2>1. at \in Brokers /\ at \in replicas /\ ~stops /\ ~stops' /\ replicas' = replicas
    BY <1>0, <1>5 DEF ConnectOk
  <2>2. at \notin active  BY DEF FanInInv, OneAtATime
  <2>3. pump' = [pump EXCEPT ![at] = [pump[at] EXCEPT ![1] = @ + 1]]
    BY <1>0, <1>5, <2>1 DEF ConnectOk
  <2>4. m[at] = 0  BY <1>0, <2>1, <2>2
  <2>5. pump'[at][1] = 1 /\ \A b \in Brokers : b # at => pump'[b] = pump[b]
    BY <1>0, <2>1, <2>3, <2>4
  <2>6. [b \in Brokers |-> pump'[b][1]] = [m EXCEPT ![at] = 1]
    BY <2>1, <2>5
  <2>7. PICK b \in Brokers : b = at  BY <2>1
  <2>8. A!Attached(b)  BY <2>1, <2>4, <2>6, <2>7 DEF A!Attached
  <2> QED BY <2>7, <2>8 DEF A!AttachNext
<1>6. ASSUME NEW b \in Brokers, Drop(b) \/ TeardownNext(b)
      PROVE  A!AttachNext
  <2>1. b \in active /\ CancelPumps(b) /\ (stops' <=> stops) /\ replicas' = replicas
    BY <1>6 DEF Drop, TeardownNext
  <2>2. m[b] = 1  BY <1>0, <2>1
  <2>3. pump'[b][1] = 0 /\ \A c \in Brokers : c # b => pump'[c] = pump[c]
    <3>1. pump' = [pump EXCEPT ![b] = [p \in PlaneIds |-> pump[b][p] - 1]]
      BY <2>1 DEF CancelPumps
    <3>2. pump[b][1] = 1  BY <2>2
    <3> QED BY <1>0, <3>1, <3>2
  <2>4. [c \in Brokers |-> pump'[c][1]] = [m EXCEPT ![b] = 0]
    BY <2>3
  <2>5. A!Detached(b)  BY <2>1, <2>2, <2>4 DEF A!Detached
  <2> QED BY <2>5 DEF A!AttachNext
<1> QED BY <1>2, <1>3, <1>4, <1>5, <1>6 DEF Next, Manager

\* A subscriber with one connection per attachment may rely on Attachments: no
\* lookup, failure, restart or cancellation makes fan_in do anything else.
THEOREM ImplementsSafety == ASSUME Planes = 1 PROVE Spec => A!AttachSafety
<1>1. Init => A!AttachInit
  BY PlanesAssumption DEF Init, A!AttachInit, Nothing, PlaneIds
<1>2. FanInInv /\ Exact /\ [Next]_vars => [A!AttachNext]_(A!attachVars)
  BY StepRefines
<1>3. QED BY <1>1, <1>2, FanInInvariant, ExactInvariant, PTL DEF Spec, A!AttachSafety

=============================================================================
