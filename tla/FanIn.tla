------------------------------- MODULE FanIn -------------------------------
(***************************************************************************)
(* fan_in (dclient/config.py): the task that keeps one attachment per live *)
(* broker replica for a subscriber that must see every broker: the ingress *)
(* consumers, the observers' firehose and fleet planes.                    *)
(*                                                                         *)
(* An attachment is the connections the caller's attach() opened, each     *)
(* with its pump tasks.  The manager can be cancelled at any await, and    *)
(* replicas come and go at any time: between resolving the replica set and *)
(* acting on it, and while attach() waits for a connection.                *)
(***************************************************************************)
EXTENDS Naturals

CONSTANTS
    Brokers,       \* addresses the broker service may have replicas at
    Planes,        \* connections attach() opens, one after the other
    FaultLimit,    \* bound: replica changes, failed lookups, refused connects
    NoBroker       \* nothing is being attached or torn down

ASSUME PlanesAssumption == Planes \in Nat \ {0}
ASSUME FaultAssumption == FaultLimit \in Nat
ASSUME NoBrokerAssumption == NoBroker \notin Brokers

VARIABLES
    replicas,      \* the broker replicas that are up
    faults,        \* how many of the bounded disturbances happened
    calm,          \* from now on nothing fails, changes or is cancelled
    pc,            \* where the manager is
    targets,       \* targets of this round
    todo,          \* those of them the attach loop has not visited
    active,        \* keys of the active dict
    at,            \* the broker being attached or torn down
    step,          \* the connection of it that is opened or closed next
    conn,          \* open connections, per broker and plane
    pump           \* running pump tasks, per broker and plane

envVars == <<replicas, faults, calm>>
vars == <<replicas, faults, calm, pc, targets, todo, active, at, step, conn, pump>>

PlaneIds == 1..Planes
Nothing == [b \in Brokers |-> [p \in PlaneIds |-> 0]]

Init ==
    /\ replicas \in SUBSET Brokers
    /\ faults = 0
    /\ calm = FALSE
    /\ pc = "resolve"
    /\ targets = {}
    /\ todo = {}
    /\ active = {}
    /\ at = NoBroker
    /\ step = 1
    /\ conn = Nothing
    /\ pump = Nothing

-----------------------------------------------------------------------------
(* The environment *)

\* One more of the disturbances the environment may cause.
Disturb ==
    /\ ~calm
    /\ faults < FaultLimit
    /\ faults' = faults + 1

\* docker compose up --scale broker=N, a crash or a restart of a replica.
Scale ==
    /\ Disturb
    /\ replicas' \in (SUBSET Brokers) \ {replicas}
    /\ UNCHANGED <<calm, pc, targets, todo, active, at, step, conn, pump>>

\* The last disturbance is over.
CalmDown ==
    /\ ~calm
    /\ pc # "done"
    /\ calm' = TRUE
    /\ UNCHANGED <<replicas, faults, pc, targets, todo, active, at, step, conn, pump>>

-----------------------------------------------------------------------------
(* The loop of fan_in *)

\* Mutant: the service name is looked up until it answers, and then never again.
broker_targets_once ==
    /\ targets' = IF targets = {} THEN replicas ELSE targets
    /\ UNCHANGED faults

\* broker_targets(): the replicas the service name resolves to, or the empty
\* list when the lookup fails.
broker_targets ==
    \/ targets' = replicas /\ UNCHANGED faults
    \/ targets' = {} /\ Disturb

Resolve ==
    /\ pc = "resolve"
    /\ broker_targets
    /\ pc' = "dropping"
    /\ UNCHANGED <<replicas, calm, todo, active, at, step, conn, pump>>

\* _teardown, up to its first await: the attachment's pumps are cancelled.
CancelPumps(b) == pump' = [pump EXCEPT ![b] = [p \in PlaneIds |-> @[p] - 1]]

\* Mutant: the connections of a dropped attachment are closed, its pumps not
\* cancelled.
DropKeepsPumps(b) ==
    /\ pc = "dropping"
    /\ b \in active \ targets
    /\ active' = active \ {b}
    /\ at' = b
    /\ step' = 1
    /\ pc' = "closing"
    /\ UNCHANGED <<envVars, targets, todo, conn, pump>>

\* An attachment whose broker was not resolved is popped and torn down.
Drop(b) ==
    /\ pc = "dropping"
    /\ b \in active \ targets
    /\ active' = active \ {b}
    /\ CancelPumps(b)
    /\ at' = b
    /\ step' = 1
    /\ pc' = "closing"
    /\ UNCHANGED <<envVars, targets, todo, conn>>

\* _teardown goes through the connections; a close that raises is logged.
CloseClient ==
    /\ pc = "closing"
    /\ conn' = [conn EXCEPT ![at][step] = @ - 1]
    /\ IF step < Planes
       THEN step' = step + 1 /\ UNCHANGED <<pc, at>>
       ELSE step' = 1 /\ pc' = "dropping" /\ at' = NoBroker
    /\ UNCHANGED <<envVars, targets, todo, active, pump>>

StartAttaching ==
    /\ pc = "dropping"
    /\ active \subseteq targets
    /\ todo' = targets \ active
    /\ pc' = "attaching"
    /\ UNCHANGED <<envVars, targets, active, at, step, conn, pump>>

Attach(b) ==
    /\ pc = "attaching"
    /\ b \in todo
    /\ todo' = todo \ {b}
    /\ at' = b
    /\ step' = 1
    /\ pc' = "connecting"
    /\ UNCHANGED <<envVars, targets, active, conn, pump>>

\* A connection of attach() is up: its pump starts, and after the last one
\* the attachment is recorded.
ConnectOk ==
    /\ pc = "connecting"
    /\ at \in replicas
    /\ conn' = [conn EXCEPT ![at][step] = @ + 1]
    /\ pump' = [pump EXCEPT ![at][step] = @ + 1]
    /\ IF step < Planes
       THEN step' = step + 1 /\ UNCHANGED <<pc, at, active>>
       ELSE /\ step' = 1
            /\ active' = active \cup {at}
            /\ pc' = "attaching"
            /\ at' = NoBroker
    /\ UNCHANGED <<envVars, targets, todo>>

\* A connection of attach() is refused until its deadline: attach() raises, and
\* what it opened before is in nobody's hands.
ConnectFail ==
    /\ pc = "connecting"
    /\ \/ at \notin replicas /\ UNCHANGED faults
       \/ at \in replicas /\ Disturb
    /\ pc' = "attaching"
    /\ at' = NoBroker
    /\ step' = 1
    /\ UNCHANGED <<replicas, calm, targets, todo, active, conn, pump>>

Sleep ==
    /\ pc = "attaching"
    /\ todo = {}
    /\ pc' = "sleeping"
    /\ UNCHANGED <<envVars, targets, todo, active, at, step, conn, pump>>

Wake ==
    /\ pc = "sleeping"
    /\ pc' = "resolve"
    /\ UNCHANGED <<envVars, targets, todo, active, at, step, conn, pump>>

-----------------------------------------------------------------------------
(* Cancellation *)

\* The subscriber shuts down: the manager is cancelled at the await it is in.
Cancel ==
    /\ ~calm
    /\ pc \in {"connecting", "closing", "sleeping"}
    /\ pc' = "finally"
    /\ at' = NoBroker
    /\ step' = 1
    /\ UNCHANGED <<envVars, targets, todo, active, conn, pump>>

\* Mutant: the finally clause closes connections only.
TeardownNextKeepsPumps(b) ==
    /\ pc = "finally"
    /\ b \in active
    /\ active' = active \ {b}
    /\ conn' = [conn EXCEPT ![b] = [p \in PlaneIds |-> @[p] - 1]]
    /\ UNCHANGED <<envVars, pc, targets, todo, at, step, pump>>

\* The finally clause tears every recorded attachment down.
TeardownNext(b) ==
    /\ pc = "finally"
    /\ b \in active
    /\ active' = active \ {b}
    /\ CancelPumps(b)
    /\ conn' = [conn EXCEPT ![b] = [p \in PlaneIds |-> @[p] - 1]]
    /\ UNCHANGED <<envVars, pc, targets, todo, at, step>>

Done ==
    /\ pc = "finally"
    /\ active = {}
    /\ pc' = "done"
    /\ UNCHANGED <<envVars, targets, todo, active, at, step, conn, pump>>

-----------------------------------------------------------------------------

Manager ==
    \/ Resolve
    \/ \E b \in Brokers : Drop(b) \/ Attach(b) \/ TeardownNext(b)
    \/ CloseClient
    \/ StartAttaching
    \/ ConnectOk
    \/ ConnectFail
    \/ Sleep
    \/ Wake
    \/ Done

Next == Scale \/ CalmDown \/ Cancel \/ Manager

Spec == Init /\ [][Next]_vars

\* The event loop runs the manager, and every await of it ends.
FairSpec == Spec /\ WF_vars(Manager)

-----------------------------------------------------------------------------
(* Properties *)

TypeOK ==
    /\ replicas \in SUBSET Brokers
    /\ faults \in 0..FaultLimit
    /\ calm \in BOOLEAN
    /\ pc \in {"resolve", "dropping", "closing", "attaching", "connecting",
               "sleeping", "finally", "done"}
    /\ targets \in SUBSET Brokers
    /\ todo \in SUBSET Brokers
    /\ active \in SUBSET Brokers
    /\ at \in Brokers \cup {NoBroker}
    /\ step \in PlaneIds
    /\ conn \in [Brokers -> [PlaneIds -> Nat]]
    /\ pump \in [Brokers -> [PlaneIds -> Nat]]

\* "One attachment per live broker replica": two pumps of one plane on one
\* broker would count or deliver everything there twice.
OnePump == \A b \in Brokers, p \in PlaneIds : pump[b][p] <= 1

\* A pump runs only for an attachment the manager knows, or is just making;
\* any other would never be cancelled, not even when the subscriber stops.
PumpsOwned ==
    \A b \in Brokers, p \in PlaneIds : pump[b][p] > 0 =>
        b \in active \/ (pc = "connecting" /\ at = b /\ p < step)

\* While the manager runs, rounds of departures and returns leak no client.
ClientsOwned ==
    pc \notin {"finally", "done"} =>
        \A b \in Brokers, p \in PlaneIds : conn[b][p] > 0 =>
            \/ b \in active
            \/ pc = "connecting" /\ at = b /\ p < step
            \/ pc = "closing" /\ at = b /\ p >= step

\* The manager works on one broker at a time, which is not in the dict.
OneAtATime ==
    /\ (at = NoBroker) <=> (pc \notin {"connecting", "closing"})
    /\ at \notin active
    /\ pc \in {"attaching", "connecting"} => todo \cap active = {} /\ at \notin todo

\* What the manager is just opening or closing.
InProgress ==
    /\ pc = "connecting" => \A p \in PlaneIds : p < step => conn[at][p] >= 1 /\ pump[at][p] >= 1
    /\ pc = "closing" => \A p \in PlaneIds : p >= step => conn[at][p] >= 1

\* An attachment that is recorded has all its planes, whatever failed before.
ActiveComplete ==
    \A b \in active, p \in PlaneIds : conn[b][p] >= 1 /\ pump[b][p] >= 1

\* A subscriber with one connection per attachment may think of fan_in as
\* Attachments: attaching and detaching are one step each, however the rounds
\* interleave with scaling, failures and the shutdown.
A == INSTANCE Attachments WITH
        up <- replicas,
        pumps <- [b \in Brokers |-> pump[b][1]],
        stopped <- pc \in {"finally", "done"}
ImplementsAttachments == A!AttachSpec

\* What keeps the dict, the clients and the pumps together, for any number
\* of planes ...
FanInInv == TypeOK /\ OneAtATime /\ InProgress /\ ActiveComplete

\* ... and what attach() of a single connection adds: nothing exists beside
\* the dict.
Exact ==
    \A b \in Brokers :
        /\ pump[b][1] = IF b \in active THEN 1 ELSE 0
        /\ pc \notin {"finally", "done"} =>
              conn[b][1] = IF b \in active \/ (pc = "closing" /\ at = b) THEN 1 ELSE 0

\* Once replicas stay as they are and lookups and connects succeed, exactly
\* the live replicas are attached and stay so, unless the manager was
\* cancelled: no earlier failure makes it skip a replica for good.
Converges ==
    calm => <>[](pc \in {"finally", "done"} \/ active = replicas)
FollowsScaling == []Converges

=============================================================================
