------------------------------- MODULE Pacing -------------------------------
(***************************************************************************)
(* The paced workers of the producers (producer.py, _paced_worker, the     *)
(* same in the three harnesses): each publishes, waits for the answer, and *)
(* sleeps until its next_at, which advances by the interval of the current *)
(* rate (_make_rate_getter, with RAMP) and is given up when it is past.    *)
(*                                                                         *)
(* Time passes in ticks.  A publish takes any time; a sleep ends late if   *)
(* the event loop is busy.  A worker's times are kept relative to now.     *)
(***************************************************************************)
EXTENDS Integers, Sequences

CONSTANTS
    Workers,       \* PRODUCER_CONCURRENCY tasks
    Ramp,          \* per step of RAMP the ticks between two publishes of a
                   \* worker; 0 if the rate of that step is not positive
    RampHold,      \* RAMP_HOLD
    MaxInterval,   \* at least all of Ramp
    MaxLate,       \* bound: ticks by which a sleep may end late
    MaxDebt        \* bound: ticks by which next_at may be past

ASSUME PacingAssumption ==
    /\ MaxInterval \in Nat /\ MaxLate \in Nat /\ RampHold \in Nat \ {0}
    /\ MaxDebt \in Nat /\ MaxDebt >= MaxInterval + MaxLate
    /\ Ramp \in Seq(0..MaxInterval) /\ Len(Ramp) > 0

VARIABLES
    clock,     \* ticks since the start; cut off in the last step of the ramp
    pc,        \* per worker: "ready", "paused", "publishing", "sleeping"
    interval,  \* 1 / rate, as the worker last read it
    due,       \* next_at - now; cut off at -MaxDebt
    level,     \* history: publishes above one per interval (leaky bucket)
    behind     \* history: publishes below one per interval, likewise

paceVars == <<clock, pc, interval, due, level, behind>>

MaxOf(a, b) == IF a > b THEN a ELSE b
MinOf(a, b) == IF a < b THEN a ELSE b

RampEnd == RampHold * (Len(Ramp) - 1)

PaceInit ==
    /\ clock = 0
    /\ pc = [w \in Workers |-> "ready"]
    /\ interval = [w \in Workers |-> 0]
    /\ due = [w \in Workers |-> 0]
    /\ level = [w \in Workers |-> 0]
    /\ behind = [w \in Workers |-> 0]

\* The process starts again.
PaceRestart ==
    /\ clock' = 0
    /\ pc' = [w \in Workers |-> "ready"]
    /\ interval' = [w \in Workers |-> 0]
    /\ due' = [w \in Workers |-> 0]
    /\ level' = [w \in Workers |-> 0]
    /\ behind' = [w \in Workers |-> 0]

\* A tick, unless a worker must run first.
PaceTick ==
    /\ \A w \in Workers :
          \/ pc[w] = "publishing"
          \/ pc[w] = "paused"
          \/ due[w] > -MaxLate
    /\ clock' = MinOf(clock + 1, RampEnd)
    /\ due' = [w \in Workers |-> MaxOf(due[w] - 1, -MaxDebt)]
    /\ level' = [w \in Workers |-> MaxOf(level[w] - 1, 0)]
    /\ behind' = [w \in Workers |-> MinOf(behind[w] + 1, MaxInterval + MaxLate + 1)]
    /\ UNCHANGED <<pc, interval>>

\* rate_getter(), as the interval that follows from it.
Current == Ramp[clock \div RampHold + 1]

\* No rate, no publish: it looks again a moment later.
Pause(w) ==
    /\ pc[w] = "ready"
    /\ Current = 0
    /\ pc' = [pc EXCEPT ![w] = "paused"]
    /\ UNCHANGED <<clock, interval, due, level, behind>>

\* next_at = loop.time()
Resume(w) ==
    /\ pc[w] = "paused"
    /\ pc' = [pc EXCEPT ![w] = "ready"]
    /\ due' = [due EXCEPT ![w] = 0]
    /\ behind' = [behind EXCEPT ![w] = 0]
    /\ UNCHANGED <<clock, interval, level>>

\* _publish_one begins.
StartOne(w) ==
    /\ pc[w] = "ready"
    /\ Current > 0
    /\ pc' = [pc EXCEPT ![w] = "publishing"]
    /\ interval' = [interval EXCEPT ![w] = Current]
    /\ level' = [level EXCEPT ![w] = @ + Current]
    /\ behind' = [behind EXCEPT ![w] = MaxOf(@ - interval[w], 0)]
    /\ UNCHANGED <<clock, due>>

\* Mutant: next_at is advanced, and not given up when it is past.
FinishCatchesUp(w) ==
    /\ pc[w] = "publishing"
    /\ due' = [due EXCEPT ![w] = @ + interval[w]]
    /\ pc' = [pc EXCEPT ![w] = IF due'[w] > 0 THEN "sleeping" ELSE "ready"]
    /\ UNCHANGED <<clock, interval, level, behind>>

\* Mutant: the interval is slept after each publish.
FinishDrifts(w) ==
    /\ pc[w] = "publishing"
    /\ pc' = [pc EXCEPT ![w] = "sleeping"]
    /\ due' = [due EXCEPT ![w] = interval[w]]
    /\ UNCHANGED <<clock, interval, level, behind>>

\* It is over: on to the next next_at.  If that is past it is given up, and
\* with it what the worker is behind.
FinishOne(w) ==
    /\ pc[w] = "publishing"
    /\ \/ /\ due[w] + interval[w] > 0
          /\ due' = [due EXCEPT ![w] = @ + interval[w]]
          /\ pc' = [pc EXCEPT ![w] = "sleeping"]
          /\ UNCHANGED behind
       \/ /\ due[w] + interval[w] <= 0
          /\ due' = [due EXCEPT ![w] = 0]
          /\ pc' = [pc EXCEPT ![w] = "ready"]
          /\ behind' = [behind EXCEPT ![w] = 0]
    /\ UNCHANGED <<clock, interval, level>>

\* The sleep until next_at is over.
WakeUp(w) ==
    /\ pc[w] = "sleeping"
    /\ due[w] <= 0
    /\ pc' = [pc EXCEPT ![w] = "ready"]
    /\ UNCHANGED <<clock, interval, due, level, behind>>

PaceStep(w) == Pause(w) \/ Resume(w) \/ StartOne(w) \/ FinishOne(w) \/ WakeUp(w)

PaceNext == PaceTick \/ PaceRestart \/ \E w \in Workers : PaceStep(w)

PaceSpec == PaceInit /\ [][PaceNext]_paceVars

-----------------------------------------------------------------------------
(* Properties *)

PaceTypeOK ==
    /\ clock \in 0..RampEnd
    /\ pc \in [Workers -> {"ready", "paused", "publishing", "sleeping"}]
    /\ interval \in [Workers -> 0..MaxInterval]
    /\ due \in [Workers -> -MaxDebt..MaxInterval]
    /\ level \in [Workers -> Nat]
    /\ behind \in [Workers -> 0..MaxInterval + MaxLate + 1]

\* A slow publish, a late sleep, a pause or a step of the ramp is not followed
\* by a burst: in no stretch of time are there more publishes than its
\* intervals and two.  (The leaky bucket is the maximum over all stretches.)
NoBurst == \A w \in Workers : level[w] <= 2 * MaxInterval

TakesTooLong(w) == pc[w] = "publishing" /\ due[w] + interval[w] <= 0

\* And no drift: as long as each publish ends within its interval, there is
\* one per interval, however long it takes and however late a sleep ends.
KeepsPace ==
    \A w \in Workers :
        TakesTooLong(w) \/ pc[w] = "paused" \/ behind[w] <= MaxInterval + MaxLate

=============================================================================
