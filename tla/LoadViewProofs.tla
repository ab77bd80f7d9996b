--------------------------- MODULE LoadViewProofs ---------------------------
(***************************************************************************)
(* Proofs about LoadView: the pace of the workers and the panel that       *)
(* shows the instance.                                                     *)
(*                                                                         *)
(* The invariants relate a worker's debts to its next_at: it is never more *)
(* publishes ahead than one interval beyond next_at, and never more behind *)
(* than next_at is past.  For the panel, the age of the last heartbeat     *)
(* sent is bounded by where the loop stands, and the oldest heartbeat on   *)
(* its way bounds how long the record has been silent.                     *)
(***************************************************************************)
EXTENDS LoadView, SequenceTheorems, TLAPS

(* The workers *)

Ahead(w) ==
    /\ pc[w] \in {"ready", "sleeping"} =>
          level[w] <= 0 \/ level[w] <= due[w] + MaxInterval
    /\ pc[w] = "paused" => level[w] <= MaxInterval
    /\ pc[w] = "publishing" =>
          level[w] <= MaxInterval \/ level[w] <= due[w] + MaxInterval + interval[w]

Late(w) ==
    /\ pc[w] \in {"ready", "sleeping"} =>
          /\ due[w] >= -MaxLate
          /\ behind[w] <= interval[w] - due[w]
    /\ pc[w] = "publishing" =>
          due[w] = -MaxDebt \/ behind[w] <= -due[w]
    /\ pc[w] \in {"ready", "publishing"} => due[w] <= 0

PaceInv ==
    /\ PaceTypeOK
    /\ \A w \in Workers : Ahead(w) /\ Late(w)

LEMMA RampEndNat == RampEnd \in Nat
PROOF
<1> DEFINE n == Len(Ramp) - 1
<1>1. n \in Nat /\ RampHold \in Nat  BY PacingAssumption
<1> HIDE DEF n
<1>2. RampHold * n \in Nat  BY <1>1
<1> QED  BY <1>2 DEF RampEnd, n

\* The interval of a step of the ramp is one of Ramp.
LEMMA CurrentBounded ==
    ASSUME clock \in 0..RampEnd
    PROVE  Current \in 0..MaxInterval
PROOF
<1> DEFINE i == clock \div RampHold
<1>1. RampHold \in Nat \ {0} /\ Len(Ramp) \in Nat \ {0} /\ Ramp \in Seq(0..MaxInterval)
    BY PacingAssumption
<1>2. RampEnd \in Nat /\ clock \in Nat /\ clock <= RampHold * (Len(Ramp) - 1)
    BY <1>1 DEF RampEnd
<1>3. i \in Nat /\ RampHold * i <= clock
    BY <1>1, <1>2, SMTT(30)
<1>4. i <= Len(Ramp) - 1
    <2> DEFINE n == Len(Ramp) - 1
    <2>1. RampHold * i <= RampHold * n  BY <1>1, <1>2, <1>3
    <2>2. n \in Nat  BY <1>1
    <2>3. i > n => RampHold * i >= RampHold * n + RampHold
        <3> HIDE DEF i, n
        <3>1. SUFFICES ASSUME i > n PROVE RampHold * i >= RampHold * n + RampHold
            OBVIOUS
        <3>2. i >= n + 1 /\ i - (n + 1) \in Nat  BY <3>1, <1>3, <2>2
        <3>3. RampHold * (i - (n + 1)) >= 0  BY <3>2, <1>1
        <3> QED  BY <3>3, <1>1, <1>3, <2>2
    <2> QED  BY <2>1, <2>2, <2>3, <1>1, <1>3
<1>5. i + 1 \in 1..Len(Ramp)  BY <1>1, <1>3, <1>4
<1>6. Current = Ramp[i + 1]  BY DEF Current
<1> HIDE DEF i
<1>7. Ramp[i + 1] \in 0..MaxInterval  BY <1>1, <1>5, ElementOfSeq
<1> QED  BY <1>6, <1>7

LEMMA Bounds ==
    /\ MaxInterval \in Nat /\ MaxLate \in Nat /\ MaxDebt \in Nat
    /\ MaxDebt >= MaxInterval + MaxLate
PROOF
    BY PacingAssumption

\* What the types say of one worker.
LEMMA TypedWorker ==
    ASSUME PaceTypeOK, NEW w \in Workers
    PROVE  /\ pc[w] \in {"ready", "paused", "publishing", "sleeping"}
           /\ interval[w] \in 0..MaxInterval
           /\ due[w] \in -MaxDebt..MaxInterval
           /\ level[w] \in Nat
           /\ behind[w] \in 0..MaxInterval + MaxLate + 1
PROOF
    BY DEF PaceTypeOK

LEMMA PaceInitInv == PaceInit => PaceInv
PROOF
    BY PacingAssumption DEF PaceInit, PaceInv, PaceTypeOK, Ahead, Late, RampEnd

LEMMA PaceRestartInv == PaceRestart => PaceInv'
PROOF
    BY PacingAssumption DEF PaceRestart, PaceInv, PaceTypeOK, Ahead, Late, RampEnd

\* A tick brings every worker one step nearer to its next_at.
LEMMA PaceTickInv == PaceInv /\ PaceTick => PaceInv'
PROOF
<1> SUFFICES ASSUME PaceInv, PaceTick PROVE PaceInv'
    OBVIOUS
<1> USE Bounds DEF MaxOf, MinOf
<1>1. PaceTypeOK'
    <2>1. clock' \in 0..RampEnd
        BY RampEndNat DEF PaceInv, PaceTypeOK, PaceTick
    <2>2. due' \in [Workers -> -MaxDebt..MaxInterval]
        <3>1. ASSUME NEW w \in Workers
              PROVE  MaxOf(due[w] - 1, -MaxDebt) \in -MaxDebt..MaxInterval
            BY DEF PaceInv, PaceTypeOK
        <3> QED  BY <3>1 DEF PaceTick
    <2>3. level' \in [Workers -> Nat]
        BY DEF PaceInv, PaceTypeOK, PaceTick
    <2>4. behind' \in [Workers -> 0..MaxInterval + MaxLate + 1]
        <3>1. ASSUME NEW w \in Workers
              PROVE  MinOf(behind[w] + 1, MaxInterval + MaxLate + 1)
                        \in 0..MaxInterval + MaxLate + 1
            BY DEF PaceInv, PaceTypeOK
        <3> QED  BY <3>1 DEF PaceTick
    <2> QED  BY <2>1, <2>2, <2>3, <2>4 DEF PaceInv, PaceTypeOK, PaceTick
<1>2. ASSUME NEW w \in Workers PROVE Ahead(w)' /\ Late(w)'
    <2>1. /\ pc'[w] = pc[w]
          /\ interval'[w] = interval[w]
          /\ due'[w] = MaxOf(due[w] - 1, -MaxDebt)
          /\ level'[w] = MaxOf(level[w] - 1, 0)
          /\ behind'[w] = MinOf(behind[w] + 1, MaxInterval + MaxLate + 1)
        BY DEF PaceTick
    <2>2. pc[w] \in {"publishing", "paused"} \/ due[w] > -MaxLate
        BY DEF PaceTick
    <2>3. Ahead(w) /\ Late(w) /\ PaceTypeOK  BY DEF PaceInv
    <2>4. /\ interval[w] \in 0..MaxInterval
          /\ due[w] \in -MaxDebt..MaxInterval
          /\ level[w] \in Nat
          /\ behind[w] \in 0..MaxInterval + MaxLate + 1
        BY <2>3, TypedWorker
    <2>5. /\ level'[w] >= 0
          /\ level'[w] = 0 \/ level'[w] = level[w] - 1
          /\ behind'[w] <= behind[w] + 1
          /\ due'[w] \in Int /\ due'[w] >= due[w] - 1
          /\ due[w] > -MaxDebt => due'[w] = due[w] - 1
          /\ due[w] = -MaxDebt => due'[w] = -MaxDebt
        BY <2>1, <2>4
    <2> HIDE DEF MaxOf, MinOf
    <2>6. Ahead(w)'
        <3>1. pc'[w] = pc[w] /\ interval'[w] = interval[w]  BY <2>1
        <3>2. CASE pc[w] \in {"ready", "sleeping"}
            BY <3>1, <3>2, <2>2, <2>3, <2>4, <2>5 DEF Ahead
        <3>3. CASE pc[w] = "paused"
            BY <3>1, <3>3, <2>3, <2>4, <2>5 DEF Ahead
        <3>4. CASE pc[w] = "publishing"
            BY <3>1, <3>4, <2>3, <2>4, <2>5 DEF Ahead
        <3> QED  BY <3>1, <3>2, <3>3, <3>4 DEF Ahead
    <2>7. Late(w)'
        <3>1. pc'[w] = pc[w] /\ interval'[w] = interval[w]  BY <2>1
        <3>2. behind'[w] \in Int  BY <2>1, <2>4 DEF MinOf
        <3>3. CASE pc[w] \in {"ready", "sleeping"}
            BY <3>1, <3>2, <3>3, <2>2, <2>3, <2>4, <2>5 DEF Late
        <3>4. CASE pc[w] = "publishing"
            BY <3>1, <3>2, <3>4, <2>3, <2>4, <2>5 DEF Late
        <3> QED  BY <3>1, <3>3, <3>4 DEF Late
    <2> QED  BY <2>6, <2>7
<1> QED  BY <1>1, <1>2 DEF PaceInv

\* So does every step of a worker leave them.
LEMMA PaceStepInv == ASSUME PaceInv, NEW v \in Workers, PaceStep(v) PROVE PaceInv'
PROOF
<1> USE Bounds DEF MaxOf
<1>1. CASE Pause(v)
    <2>1. PaceTypeOK'  BY <1>1 DEF PaceInv, PaceTypeOK, Pause
    <2>2. ASSUME NEW w \in Workers PROVE Ahead(w)' /\ Late(w)'
        BY <1>1 DEF PaceInv, PaceTypeOK, Pause, Ahead, Late
    <2> QED  BY <2>1, <2>2 DEF PaceInv
<1>2. CASE Resume(v)
    <2>1. PaceTypeOK'  BY <1>2 DEF PaceInv, PaceTypeOK, Resume
    <2>2. ASSUME NEW w \in Workers PROVE Ahead(w)' /\ Late(w)'
        BY <1>2 DEF PaceInv, PaceTypeOK, Resume, Ahead, Late
    <2> QED  BY <2>1, <2>2 DEF PaceInv
<1>3. CASE StartOne(v)
    <2>0. Current \in 0..MaxInterval  BY CurrentBounded DEF PaceInv, PaceTypeOK
    <2> HIDE DEF Current
    <2>1. PaceTypeOK'  BY <1>3, <2>0 DEF PaceInv, PaceTypeOK, StartOne
    <2>2. ASSUME NEW w \in Workers, w # v PROVE Ahead(w)' /\ Late(w)'
        BY <1>3, <2>2 DEF PaceInv, PaceTypeOK, StartOne, Ahead, Late
    <2>3. /\ pc'[v] = "publishing" /\ due'[v] = due[v]
          /\ interval'[v] = Current
          /\ level'[v] = level[v] + Current
          /\ behind'[v] = MaxOf(behind[v] - interval[v], 0)
          /\ pc[v] = "ready"
        BY <1>3 DEF StartOne, PaceInv, PaceTypeOK
    <2>4. /\ Ahead(v) /\ Late(v)
          /\ interval[v] \in 0..MaxInterval
          /\ due[v] \in -MaxDebt..MaxInterval
          /\ level[v] \in Nat
          /\ behind[v] \in 0..MaxInterval + MaxLate + 1
        BY TypedWorker DEF PaceInv
    <2>5. Ahead(v)'  BY <2>0, <2>3, <2>4 DEF Ahead, Late
    <2>6. Late(v)'  BY <2>0, <2>3, <2>4 DEF Late
    <2> QED  BY <2>1, <2>2, <2>5, <2>6 DEF PaceInv
<1>4. CASE FinishOne(v)
    <2>1. /\ Ahead(v) /\ Late(v)
          /\ interval[v] \in 0..MaxInterval
          /\ due[v] \in -MaxDebt..MaxInterval
          /\ level[v] \in Nat
          /\ behind[v] \in 0..MaxInterval + MaxLate + 1
        BY TypedWorker DEF PaceInv
    <2>2. /\ pc[v] = "publishing"
          /\ interval'[v] = interval[v] /\ level'[v] = level[v]
          /\ \/ /\ due[v] + interval[v] > 0
                /\ due'[v] = due[v] + interval[v]
                /\ pc'[v] = "sleeping" /\ behind'[v] = behind[v]
             \/ /\ due[v] + interval[v] <= 0
                /\ due'[v] = 0 /\ pc'[v] = "ready" /\ behind'[v] = 0
        BY <1>4 DEF FinishOne, PaceInv, PaceTypeOK
    <2>3. due'[v] \in -MaxDebt..MaxInterval
        BY <2>1, <2>2 DEF Late
    <2>4. PaceTypeOK'
        <3>1. /\ due' = [due EXCEPT ![v] = due'[v]]
              /\ behind' = [behind EXCEPT ![v] = behind'[v]]
              /\ pc' = [pc EXCEPT ![v] = pc'[v]]
            BY <1>4 DEF FinishOne, PaceInv, PaceTypeOK
        <3>2. /\ due' \in [Workers -> -MaxDebt..MaxInterval]
              /\ behind' \in [Workers -> 0..MaxInterval + MaxLate + 1]
              /\ pc' \in [Workers -> {"ready", "paused", "publishing", "sleeping"}]
            <4> HIDE DEF FinishOne
            <4> QED  BY <3>1, <2>1, <2>2, <2>3 DEF PaceInv, PaceTypeOK
        <3> QED  BY <1>4, <3>2 DEF PaceInv, PaceTypeOK, FinishOne
    <2>5. ASSUME NEW w \in Workers, w # v PROVE Ahead(w)' /\ Late(w)'
        BY <1>4, <2>5 DEF PaceInv, PaceTypeOK, FinishOne, Ahead, Late
    <2>6. Ahead(v)'  BY <2>1, <2>2 DEF Ahead, Late
    <2>7. Late(v)'
        <3>1. CASE pc'[v] = "sleeping"
            <4>1. due[v] # -MaxDebt  BY <3>1, <2>1, <2>2
            <4> QED  BY <4>1, <3>1, <2>1, <2>2 DEF Late
        <3>2. CASE pc'[v] = "ready"
            BY <3>2, <2>1, <2>2 DEF Late
        <3> QED  BY <3>1, <3>2, <2>2
    <2> QED  BY <2>4, <2>5, <2>6, <2>7 DEF PaceInv
<1>5. CASE WakeUp(v)
    <2>1. PaceTypeOK'  BY <1>5 DEF PaceInv, PaceTypeOK, WakeUp
    <2>2. ASSUME NEW w \in Workers PROVE Ahead(w)' /\ Late(w)'
        BY <1>5 DEF PaceInv, PaceTypeOK, WakeUp, Ahead, Late
    <2> QED  BY <2>1, <2>2 DEF PaceInv
<1> QED  BY <1>1, <1>2, <1>3, <1>4, <1>5 DEF PaceStep

LEMMA PaceInvariant == LoadSpec => []PaceInv
PROOF
<1>1. LoadInit => PaceInv
    BY PaceInitInv DEF LoadInit
<1>2. PaceInv /\ [LoadNext]_loadVars => PaceInv'
    <2> SUFFICES ASSUME PaceInv, [LoadNext]_loadVars PROVE PaceInv'
        OBVIOUS
    <2>1. CASE UNCHANGED paceVars
        BY <2>1 DEF paceVars, PaceInv, PaceTypeOK, Ahead, Late
    <2>2. CASE LoadTick
        BY <2>1, <2>2, PaceTickInv DEF LoadTick
    <2>3. ASSUME NEW w \in Workers, Work(w) PROVE PaceInv'
        BY <2>3, PaceStepInv DEF Work
    <2>4. CASE LoadRestart
        BY <2>4, PaceRestartInv DEF LoadRestart
    <2>5. UNCHANGED loadVars => UNCHANGED paceVars
        BY DEF loadVars
    <2> QED  BY <2>1, <2>2, <2>3, <2>4, <2>5 DEF LoadNext
<1> QED  BY <1>1, <1>2, PTL DEF LoadSpec

\* The variables of the workers have their types: next_at is at most one
\* interval ahead.
THEOREM PaceTyping == LoadSpec => []PaceTypeOK
PROOF
<1>1. PaceInv => PaceTypeOK  BY DEF PaceInv
<1> QED  BY <1>1, PaceInvariant, PTL

\* _paced_worker does not catch up: no stretch of time holds more publishes
\* than its intervals and two, for every ramp and every latency.
THEOREM NoBurstHolds == LoadSpec => []NoBurst
PROOF
<1>1. ASSUME PaceInv PROVE NoBurst
    <2> SUFFICES ASSUME NEW w \in Workers
                 PROVE  level[w] <= 2 * MaxInterval
        BY DEF NoBurst
    <2>1. /\ pc[w] \in {"ready", "paused", "publishing", "sleeping"}
          /\ interval[w] \in 0..MaxInterval
          /\ due[w] \in -MaxDebt..MaxInterval
          /\ level[w] \in Nat
          /\ behind[w] \in 0..MaxInterval + MaxLate + 1
          /\ Ahead(w) /\ Late(w)
        BY <1>1, TypedWorker DEF PaceInv
    <2> QED  BY <2>1, Bounds DEF Ahead, Late
<1> QED  BY <1>1, PaceInvariant, PTL

\* Nor does it drift: while each publish ends within its interval there is one
\* per interval, for every ramp and however late the sleeps end.
THEOREM KeepsPaceHolds == LoadSpec => []KeepsPace
PROOF
<1>1. ASSUME PaceInv PROVE KeepsPace
    <2> SUFFICES ASSUME NEW w \in Workers
                 PROVE  TakesTooLong(w) \/ pc[w] = "paused" \/ behind[w] <= MaxInterval + MaxLate
        BY DEF KeepsPace
    <2>1. /\ pc[w] \in {"ready", "paused", "publishing", "sleeping"}
          /\ interval[w] \in 0..MaxInterval
          /\ due[w] \in -MaxDebt..MaxInterval
          /\ level[w] \in Nat
          /\ behind[w] \in 0..MaxInterval + MaxLate + 1
          /\ Ahead(w) /\ Late(w)
        BY <1>1, TypedWorker DEF PaceInv
    <2> QED  BY <2>1, Bounds DEF TakesTooLong, Late
<1> QED  BY <1>1, PaceInvariant, PTL

-----------------------------------------------------------------------------
(* The panel *)

\* The TTL is at least three times HEARTBEAT_EVERY and the way to the observer:
\* an answer, a sleep and an answer may lie between two heartbeats.
TtlCovers == StatsTtl >= 3 * HeartbeatEvery + MaxLag

\* At most this long ago was the last heartbeat sent, nothing having failed.
SentAgo ==
    IF phase = "sleeping" THEN timer + HeartbeatEvery
    ELSE IF accepted THEN timer
    ELSE timer + 2 * HeartbeatEvery

\* The last heartbeat is on its way or recorded ...
LastOne ==
    \/ \E f \in frames : f <= SentAgo
    \/ listed /\ silent <= SentAgo

\* ... and of those on their way one is the first of all, or the record is not
\* much older than it.
OldestOne ==
    \/ frames = {}
    \/ \E f \in frames : steady <= f + 1
    \/ listed /\ \E f \in frames : silent <= 3 * HeartbeatEvery + f

PanelInv ==
    /\ TypeOK
    /\ steady > 0 =>
          /\ watched
          /\ phase \in {"sleeping", "publishing"}
          /\ LastOne
          /\ OldestOne

LEMMA Times ==
    /\ Clients \in Nat \ {0}
    /\ HeartbeatEvery \in Nat \ {0} /\ StatsTtl \in Nat /\ MaxLag \in Nat
    /\ LongSilent \in Nat \ {0} /\ LongSteady \in Nat /\ LongSteady >= 2
PROOF
    BY TimesAssumption DEF LongSilent, LongSteady

LEMMA TypeOKInit == Init => TypeOK
PROOF
<1> SUFFICES ASSUME Init PROVE TypeOK
    OBVIOUS
<1>1. /\ mirrors \in BOOLEAN /\ accepted \in BOOLEAN /\ watched \in BOOLEAN
      /\ listed \in BOOLEAN /\ fleet \in BOOLEAN
    BY Zenon DEF Init
<1>2. phase \in {"down", "registering", "sleeping", "publishing"}
    BY DEF Init, Begin
<1>3. /\ turn \in 0..Clients /\ rounds \in 0..Clients /\ timer \in 0..HeartbeatEvery
      /\ steady \in 0..LongSteady /\ silent \in 0..LongSilent
      /\ frames \in SUBSET (0..MaxLag)
    BY Times DEF Init
<1> QED  BY <1>1, <1>2, <1>3 DEF TypeOK

LEMMA TypeOKStep == TypeOK /\ Next => TypeOK'
PROOF
<1> SUFFICES ASSUME TypeOK, Next PROVE TypeOK'
    OBVIOUS
<1> USE Times DEF TypeOK, loopVars, panelVars
<1>1. CASE Tick
    <2>1. frames' \in SUBSET (0..MaxLag)
        BY <1>1 DEF Tick
    <2>2. steady' \in 0..LongSteady
        BY <1>1 DEF Tick, Min2
    <2>3. silent' \in 0..LongSilent
        BY <1>1 DEF Tick, Min2
    <2>4. timer' \in 0..HeartbeatEvery
        BY <1>1 DEF Tick
    <2> QED  BY <1>1, <2>1, <2>2, <2>3, <2>4 DEF Tick
<1>2. CASE Registered  BY <1>2 DEF Registered
<1>3. CASE Wake
    <2>1. rounds' \in 0..Clients /\ turn' \in 0..Clients
        BY <1>3 DEF Wake
    <2>2. /\ phase' \in {"down", "registering", "sleeping", "publishing"}
          /\ steady' \in 0..LongSteady /\ timer' \in 0..HeartbeatEvery
        BY <1>3 DEF Wake
    <2>3. accepted' \in BOOLEAN
        BY <1>3, Zenon DEF Wake
    <2>4. UNCHANGED <<mirrors, watched, frames, listed, silent, fleet>>
        BY <1>3 DEF Wake
    <2> QED  BY <2>1, <2>2, <2>3, <2>4
<1>4. CASE Accept  BY <1>4 DEF Accept
<1>5. ASSUME Proceed, steady' \in {0, steady} PROVE TypeOK'
    <2>1. rounds' \in 0..Clients /\ turn' \in 0..Clients
        BY <1>5 DEF Proceed
    <2>2. /\ phase' \in {"down", "registering", "sleeping", "publishing"}
          /\ steady' \in 0..LongSteady /\ timer' \in 0..HeartbeatEvery
        BY <1>5 DEF Proceed
    <2>3. accepted' \in BOOLEAN
        BY <1>5, Zenon DEF Proceed
    <2>4. UNCHANGED <<mirrors, watched, frames, listed, silent, fleet>>
        BY <1>5 DEF Proceed
    <2> QED  BY <2>1, <2>2, <2>3, <2>4
<1>6. CASE Answer \/ Fails \/ Timeout
    <2>1. Proceed /\ steady' \in {0, steady}
        BY <1>6 DEF Answer, Fails, Timeout
    <2> HIDE DEF TypeOK
    <2> QED  BY <1>5, <2>1
<1>7. CASE Crash
    <2>1. accepted' \in BOOLEAN  BY <1>7, Zenon DEF Crash
    <2>2. /\ phase' \in {"down", "registering", "sleeping", "publishing"}
          /\ turn' = 0 /\ rounds' = 0 /\ timer' = 0 /\ steady' = 0
          /\ UNCHANGED <<mirrors, watched, frames, listed, silent, fleet>>
        BY <1>7 DEF Crash
    <2> QED  BY <2>1, <2>2
<1>8. CASE Restart  BY <1>8 DEF Restart, Begin
<1>9. CASE Watch \/ WatchEnds
    <2>1. watched' \in BOOLEAN  BY <1>9, Zenon DEF Watch, WatchEnds
    <2>2. /\ steady' \in {0, steady} /\ frames' \in SUBSET (0..MaxLag)
          /\ UNCHANGED <<mirrors, phase, turn, rounds, timer, accepted>>
          /\ UNCHANGED <<listed, silent, fleet>>
        BY <1>9 DEF Watch, WatchEnds
    <2> QED  BY <2>1, <2>2
<1>10. CASE RecordInstance  BY <1>10 DEF RecordInstance
<1>11. CASE Snapshot  BY <1>11 DEF Snapshot
<1> QED
    BY <1>1, <1>2, <1>3, <1>4, <1>6, <1>7, <1>8, <1>9, <1>10, <1>11
       DEF Next, Instance, Observer

LEMMA PanelStep ==
    ASSUME TtlCovers, PanelInv, TypeOK', Next
    PROVE  PanelInv'
PROOF
<1> SUFFICES ASSUME steady' > 0
             PROVE  /\ watched' /\ phase' \in {"sleeping", "publishing"}
                    /\ LastOne' /\ OldestOne'
    BY DEF PanelInv
<1> USE Times
<1>0. /\ timer \in 0..HeartbeatEvery /\ frames \in SUBSET (0..MaxLag)
      /\ steady \in Nat /\ silent \in Nat
    BY DEF PanelInv, TypeOK
<1>1. CASE Tick
    <2>1. /\ steady > 0 /\ steady' <= steady + 1 /\ steady' \in Nat
          /\ silent' <= silent + 1 /\ silent' \in Nat
          /\ UNCHANGED <<phase, watched, accepted, listed>>
          /\ frames' = {f + 1 : f \in frames}
        BY <1>0, <1>1 DEF Tick, Min2
    <2>2. watched /\ phase \in {"sleeping", "publishing"} /\ LastOne /\ OldestOne
        BY <2>1 DEF PanelInv
    <2>3. SentAgo \in Nat /\ SentAgo' = SentAgo + 1
        BY <1>0, <1>1, <2>1, <2>2 DEF Tick, SentAgo
    <2>4. LastOne'
        BY <1>0, <2>1, <2>2, <2>3 DEF LastOne
    <2>5. OldestOne'
        <3>1. frames = {} => frames' = {}  BY <2>1
        <3>2. ASSUME NEW f \in frames, steady <= f + 1 PROVE OldestOne'
            <4>1. f + 1 \in frames' /\ steady' <= (f + 1) + 1
                BY <1>0, <2>1, <3>2
            <4> QED  BY <4>1 DEF OldestOne
        <3>3. ASSUME listed, NEW f \in frames, silent <= 3 * HeartbeatEvery + f
              PROVE  OldestOne'
            <4>1. f + 1 \in frames' /\ silent' <= 3 * HeartbeatEvery + (f + 1)
                BY <1>0, <2>1, <3>3
            <4> QED  BY <2>1, <3>3, <4>1 DEF OldestOne
        <3> QED  BY <2>2, <3>1, <3>2, <3>3 DEF OldestOne
    <2> QED  BY <2>1, <2>2, <2>4, <2>5
<1>2. CASE Wake
    <2>1. /\ phase = "sleeping" /\ timer = HeartbeatEvery
          /\ phase' = "publishing" /\ timer' = 0 /\ ~accepted'
          /\ UNCHANGED <<watched, frames, steady, listed, silent>>
        BY <1>2 DEF Wake, panelVars
    <2>2. SentAgo' = SentAgo  BY <1>0, <2>1 DEF SentAgo
    <2> QED  BY <2>1, <2>2 DEF PanelInv, LastOne, OldestOne
<1>3. CASE Accept
    <2>1. /\ phase = "publishing" /\ ~accepted /\ accepted'
          /\ UNCHANGED <<phase, timer, watched, listed, silent>>
        BY <1>3 DEF Accept, panelVars
    <2>2. watched
        BY <1>0, <1>3 DEF Accept, PanelInv
    <2>3. frames' = frames \cup {0}  BY <1>3, <2>2 DEF Accept
    <2>4. SentAgo' = timer /\ SentAgo = timer + 2 * HeartbeatEvery
        BY <2>1 DEF SentAgo
    <2>5. LastOne'  BY <1>0, <2>3, <2>4 DEF LastOne
    <2>6. OldestOne'
        <3>1. CASE steady = 0
            BY <1>3, <2>2, <2>3, <3>1 DEF Accept, OldestOne
        <3>2. CASE steady > 0
            <4>1. steady' = steady /\ LastOne /\ OldestOne
                BY <1>3, <3>2 DEF Accept, PanelInv
            <4>2. CASE frames = {}
                <5>1. listed /\ silent <= 3 * HeartbeatEvery + 0
                    BY <1>0, <2>4, <4>1, <4>2 DEF LastOne
                <5> QED  BY <2>1, <2>3, <5>1 DEF OldestOne
            <4>3. CASE frames # {}
                BY <2>1, <2>3, <4>1, <4>3 DEF OldestOne
            <4> QED  BY <4>2, <4>3
        <3> QED  BY <1>0, <3>1, <3>2
    <2> QED  BY <2>1, <2>2, <2>5, <2>6
<1>4. CASE Answer
    <2>1. /\ phase = "publishing" /\ accepted
          /\ phase' \in {"sleeping", "publishing"} /\ timer' = 0 /\ ~accepted'
          /\ UNCHANGED <<watched, frames, steady, listed, silent>>
        BY <1>4 DEF Answer, Proceed, panelVars
    <2>2. SentAgo \in Nat /\ SentAgo' \in Nat /\ SentAgo <= SentAgo'
        BY <1>0, <2>1 DEF SentAgo
    <2>3. LastOne /\ OldestOne /\ watched  BY <2>1 DEF PanelInv
    <2>4. LastOne'  BY <1>0, <2>1, <2>2, <2>3 DEF LastOne
    <2> QED  BY <2>1, <2>3, <2>4 DEF OldestOne
<1>5. CASE RecordInstance
    <2>1. /\ listed' /\ silent' = 0
          /\ UNCHANGED <<phase, timer, accepted, watched, steady>>
        BY <1>5 DEF RecordInstance, loopVars
    <2>2. frames' \in SUBSET (0..MaxLag)
        BY <1>0, <1>5 DEF RecordInstance
    <2>3. SentAgo' \in Nat  BY <1>0, <2>1 DEF SentAgo
    <2>4. LastOne'  BY <2>1, <2>3 DEF LastOne
    <2>5. OldestOne'  BY <2>1, <2>2 DEF OldestOne
    <2> QED  BY <2>1, <2>4, <2>5 DEF PanelInv
<1>6. CASE Snapshot
    <2>1. /\ listed' = (listed /\ silent <= StatsTtl)
          /\ UNCHANGED <<phase, timer, accepted, watched, frames, steady, silent>>
        BY <1>6 DEF Snapshot, loopVars
    <2>2. SentAgo \in Nat /\ SentAgo <= 3 * HeartbeatEvery /\ SentAgo' = SentAgo
        BY <1>0, <2>1 DEF SentAgo
    <2>3. watched /\ phase \in {"sleeping", "publishing"} /\ LastOne /\ OldestOne
        BY <2>1 DEF PanelInv
    <2>4. LastOne'
        <3>1. ASSUME listed, silent <= SentAgo PROVE listed'
            <4>1. silent <= StatsTtl  BY <1>0, <2>2, <3>1 DEF TtlCovers
            <4> QED  BY <2>1, <3>1, <4>1, Zenon
        <3> QED  BY <2>1, <2>2, <2>3, <3>1 DEF LastOne
    <2>5. OldestOne'
        <3>1. ASSUME NEW f \in frames, listed, silent <= 3 * HeartbeatEvery + f
              PROVE  listed'
            <4>1. silent <= StatsTtl  BY <1>0, <3>1 DEF TtlCovers
            <4> QED  BY <2>1, <3>1, <4>1, Zenon
        <3> QED  BY <2>1, <2>3, <3>1 DEF OldestOne
    <2> QED  BY <2>1, <2>3, <2>4, <2>5
<1>7. CASE Fails \/ Timeout \/ Crash \/ WatchEnds
    BY <1>7 DEF Fails, Timeout, Crash, WatchEnds
<1>8. CASE Registered \/ Restart
    BY <1>0, <1>8 DEF Registered, Restart, Alive, PanelInv
<1>9. CASE Watch
    BY <1>9 DEF Watch, PanelInv
<1> QED
    BY <1>1, <1>2, <1>3, <1>4, <1>5, <1>6, <1>7, <1>8, <1>9
       DEF Next, Instance, Observer

\* In LoadView the panel's part takes its own steps.
LEMMA LoadStepsPanel == LoadNext => Next \/ UNCHANGED vars
PROOF
    BY DEF LoadNext, LoadTick, Work, LoadRestart, Next

\* The variables of the heartbeat and of the panel have their types.
THEOREM PanelTyping == LoadSpec => []TypeOK
PROOF
<1>1. LoadInit => TypeOK  BY TypeOKInit DEF LoadInit
<1>2. TypeOK /\ UNCHANGED vars => TypeOK'
    BY DEF TypeOK, vars, loopVars, panelVars
<1>3. TypeOK /\ [LoadNext]_loadVars => TypeOK'
    BY <1>2, TypeOKStep, LoadStepsPanel DEF loadVars
<1> QED  BY <1>1, <1>3, PTL DEF LoadSpec

\* A producer whose heartbeats are answered is never dropped from the panel, on
\* however many connections and with whatever latency, if the TTL covers three
\* heartbeat intervals and the way to the observer.
THEOREM LiveShownHolds == ASSUME TtlCovers PROVE LoadSpec => []LiveShown
PROOF
<1>1. LoadInit => PanelInv
    BY TypeOKInit DEF LoadInit, Init, PanelInv
<1>2. PanelInv /\ UNCHANGED vars => PanelInv'
    BY DEF PanelInv, TypeOK, LastOne, OldestOne, SentAgo, vars, loopVars, panelVars
<1>3. PanelInv /\ [LoadNext]_loadVars => PanelInv'
    BY <1>2, TypeOKStep, PanelStep, LoadStepsPanel DEF loadVars, PanelInv
<1>4. PanelInv => LiveShown
    <2> SUFFICES ASSUME PanelInv, steady = LongSteady
                 PROVE  listed /\ silent <= StatsTtl
        BY DEF LiveShown
    <2>1. /\ timer \in 0..HeartbeatEvery /\ frames \in SUBSET (0..MaxLag)
          /\ silent \in Nat /\ LastOne /\ OldestOne
        BY Times DEF PanelInv, TypeOK
    <2>2. CASE frames = {}
        <3>1. SentAgo \in Nat /\ SentAgo <= 3 * HeartbeatEvery
            BY <2>1, Times DEF SentAgo
        <3> QED  BY <2>1, <2>2, <3>1, Times DEF LastOne, TtlCovers
    <2>3. CASE frames # {}
        <3>1. ASSUME NEW f \in frames PROVE ~(steady <= f + 1)
            BY <2>1, Times DEF LongSteady
        <3>2. PICK f \in frames : listed /\ silent <= 3 * HeartbeatEvery + f
            BY <2>1, <2>3, <3>1 DEF OldestOne
        <3> QED  BY <2>1, <3>2, Times DEF TtlCovers
    <2> QED  BY <2>2, <2>3
<1> QED  BY <1>1, <1>3, <1>4, PTL DEF LoadSpec

=============================================================================
