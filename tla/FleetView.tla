------------------------------ MODULE FleetView ------------------------------
(***************************************************************************)
(* The fleet panel of the observers.  An instance publishes a heartbeat    *)
(* again and again, the fleet pump of the observer (app.py) records what   *)
(* arrives, and a snapshot drops the instance once it was silent for too   *)
(* long (stats.py).                                                        *)
(*                                                                         *)
(* There are two loops.  heartbeat_loop of config.py registers the topic   *)
(* of the instance, which nothing guards: if that fails the process ends;  *)
(* then it publishes on its one connection.  (In ingress it registers      *)
(* nothing, as if that succeeded at once.)  The broadcasting producer's    *)
(* _heartbeat registers nothing either, and publishes on the connections   *)
(* it has at that moment, one after the other.                             *)
(*                                                                         *)
(* Time passes in ticks and timers count them.  A publish is answered,     *)
(* fails, or is abandoned at its timeout; the heartbeat may arrive anyway. *)
(* The pump loses its subscription and makes a new one.                    *)
(***************************************************************************)
EXTENDS Naturals

CONSTANTS
    Clients,         \* connections of the broadcasting producer
    HeartbeatEvery,  \* HEARTBEAT_EVERY: pause, and timeout of a publish
    StatsTtl,        \* _STATS_TTL of stats.py
    MaxLag           \* bound: ticks from acceptance to the observer

ASSUME TimesAssumption ==
    /\ Clients \in Nat \ {0}
    /\ HeartbeatEvery \in Nat \ {0}
    /\ StatsTtl \in Nat /\ MaxLag \in Nat

VARIABLES
    mirrors,    \* the instance is a broadcasting producer
    phase,      \* "down", "registering", "sleeping", "publishing"
    turn,       \* publishing: on which connection
    rounds,     \* publishing: on how many in this round
    timer,      \* ticks since the sleep or publish began
    accepted,   \* the broker has accepted that publish
    watched,    \* the fleet pump has its subscription
    frames,     \* ages of the heartbeats on their way to the observer
    steady,     \* history: ticks since a heartbeat was sent to the observer,
                \* nothing having failed since; cut off at LongSteady, 0: none
    listed,     \* the observer has a record of the instance
    silent,     \* ticks since that record; cut off above the TTL
    fleet       \* is the instance in the last snapshot?

loopVars == <<mirrors, phase, turn, rounds, timer, accepted>>
panelVars == <<listed, silent, fleet>>
vars == <<loopVars, watched, frames, steady, panelVars>>

Min2(a, b) == IF a < b THEN a ELSE b
LongSilent == StatsTtl + 1
LongSteady == MaxLag + 2
Alive == phase # "down"

Begin(m) == IF m THEN "sleeping" ELSE "registering"

Init ==
    /\ mirrors \in BOOLEAN
    /\ phase = Begin(mirrors)
    /\ turn = 0
    /\ rounds = 0
    /\ timer = 0
    /\ accepted = FALSE
    /\ watched = FALSE
    /\ frames = {}
    /\ steady = 0
    /\ listed = FALSE
    /\ silent = LongSilent
    /\ fleet = FALSE

\* A tick, unless something is due: the end of the sleep, a timeout, a frame.
Tick ==
    /\ phase \in {"sleeping", "publishing"} => timer < HeartbeatEvery
    /\ \A f \in frames : f < MaxLag
    /\ timer' = IF phase \in {"sleeping", "publishing"} THEN timer + 1 ELSE timer
    /\ frames' = {f + 1 : f \in frames}
    /\ steady' = IF steady = 0 THEN 0 ELSE Min2(steady + 1, LongSteady)
    /\ silent' = Min2(silent + 1, LongSilent)
    /\ UNCHANGED <<mirrors, phase, turn, rounds, accepted, watched, listed, fleet>>

-----------------------------------------------------------------------------
(* The instance *)

Registered ==
    /\ phase = "registering"
    /\ phase' = "sleeping"
    /\ UNCHANGED <<mirrors, turn, rounds, timer, accepted, watched, frames, steady, panelVars>>

\* The sleep is over: the first publish of the round begins.  A producer
\* without a connection goes back to sleep.
Wake ==
    /\ phase = "sleeping"
    /\ timer = HeartbeatEvery
    /\ timer' = 0
    /\ \/ /\ rounds' \in IF mirrors THEN 1..Clients ELSE {1}
          /\ phase' = "publishing"
          /\ turn' = 1
          /\ UNCHANGED steady
       \/ /\ mirrors
          /\ steady' = 0
          /\ UNCHANGED <<rounds, phase, turn>>
    /\ accepted' = FALSE
    /\ UNCHANGED <<mirrors, watched, frames, panelVars>>

\* The broker accepts the heartbeat and delivers it to the observer.
Accept ==
    /\ phase = "publishing"
    /\ ~accepted
    /\ accepted' = TRUE
    /\ frames' = IF watched THEN frames \cup {0} ELSE frames
    /\ steady' = IF watched /\ steady = 0 THEN 1 ELSE steady
    /\ UNCHANGED <<mirrors, phase, turn, rounds, timer, watched, panelVars>>

\* The publish is over; the next connection's turn, or the next sleep.
Proceed ==
    /\ timer' = 0
    /\ accepted' = FALSE
    /\ IF turn < rounds
       THEN turn' = turn + 1 /\ UNCHANGED <<phase, rounds>>
       ELSE turn' = 0 /\ rounds' = 0 /\ phase' = "sleeping"
    /\ UNCHANGED <<mirrors, watched, frames, panelVars>>

Answer ==
    /\ phase = "publishing"
    /\ accepted
    /\ Proceed
    /\ UNCHANGED steady

\* ConnectionError or OSError, at any time.
Fails ==
    /\ phase = "publishing"
    /\ Proceed
    /\ steady' = 0

\* asyncio.wait_for gives up.
Timeout ==
    /\ phase = "publishing"
    /\ timer = HeartbeatEvery
    /\ Proceed
    /\ steady' = 0

\* The process ends: the container is stopped, or the registration fails and
\* with it the gather() that runs all tasks of the instance.
Crash ==
    /\ Alive
    /\ phase' = "down"
    /\ turn' = 0
    /\ rounds' = 0
    /\ timer' = 0
    /\ accepted' = FALSE
    /\ steady' = 0
    /\ UNCHANGED <<mirrors, watched, frames, panelVars>>

\* The container starts again, under the same id.
Restart ==
    /\ ~Alive
    /\ phase' = Begin(mirrors)
    /\ UNCHANGED <<mirrors, turn, rounds, timer, accepted, watched, frames, steady, panelVars>>

-----------------------------------------------------------------------------
(* The observer *)

\* _pump_fleet subscribes, again if need be ...
Watch ==
    /\ ~watched
    /\ watched' = TRUE
    /\ UNCHANGED <<loopVars, frames, steady, panelVars>>

\* ... after an eviction or a lost connection, which loses what was on its way.
WatchEnds ==
    /\ watched
    /\ watched' = FALSE
    /\ frames' = {}
    /\ steady' = 0
    /\ UNCHANGED <<loopVars, panelVars>>

\* Mutant: a heartbeat does not renew the record it finds.
RecordKeepsOld ==
    \E f \in frames :
        /\ frames' = frames \ {f}
        /\ listed' = TRUE
        /\ silent' = IF listed THEN silent ELSE 0
        /\ UNCHANGED <<loopVars, watched, steady, fleet>>

\* A heartbeat arrives and replaces the record of the instance.
RecordInstance ==
    \E f \in frames :
        /\ frames' = frames \ {f}
        /\ listed' = TRUE
        /\ silent' = 0
        /\ UNCHANGED <<loopVars, watched, steady, fleet>>

\* Mutant: the snapshot shows what it has.
SnapshotKeepsAll ==
    /\ fleet' = listed
    /\ UNCHANGED <<loopVars, watched, frames, steady, listed, silent>>

\* A snapshot drops the instance if it was silent for more than the TTL.
Snapshot ==
    /\ listed' = (listed /\ silent <= StatsTtl)
    /\ fleet' = listed'
    /\ UNCHANGED <<loopVars, watched, frames, steady, silent>>

-----------------------------------------------------------------------------

Instance ==
    \/ Registered \/ Wake \/ Accept \/ Answer \/ Fails \/ Timeout

Observer == Watch \/ WatchEnds \/ RecordInstance \/ Snapshot

Next == Tick \/ Instance \/ Crash \/ Restart \/ Observer

Spec == Init /\ [][Next]_vars

\* Time passes, timers go off, the observer's loop runs, and somebody watches
\* the panel.  That a publish is ever answered or fails is not assumed.
Fairness ==
    /\ WF_vars(Tick)
    /\ WF_vars(Wake \/ Timeout)
    /\ WF_vars(RecordInstance)
    /\ WF_vars(Snapshot)

FairSpec == Spec /\ Fairness

-----------------------------------------------------------------------------
(* Properties *)

TypeOK ==
    /\ mirrors \in BOOLEAN
    /\ phase \in {"down", "registering", "sleeping", "publishing"}
    /\ turn \in 0..Clients
    /\ rounds \in 0..Clients
    /\ timer \in 0..HeartbeatEvery
    /\ accepted \in BOOLEAN
    /\ watched \in BOOLEAN
    /\ frames \in SUBSET (0..MaxLag)
    /\ steady \in 0..LongSteady
    /\ listed \in BOOLEAN
    /\ silent \in 0..LongSilent
    /\ fleet \in BOOLEAN

\* An instance whose heartbeats are answered is never dropped from the panel,
\* however long each publish takes, on however many connections the producer
\* mirrors it, and however long each heartbeat travels.
LiveShown == steady = LongSteady => listed /\ silent <= StatsTtl

\* An instance that is gone for good leaves the panel for good.
DeadLeaves == <>[]~Alive => <>[]~fleet

=============================================================================
