------------------------------- MODULE Startup -------------------------------
(***************************************************************************)
(* Brokers of the egress harness on their way into service: run() of       *)
(* controller.py, the probes of config.verify_upstream_features, the topic *)
(* claims of PostgresDurability they leave in the shared database, and     *)
(* what docker compose starts once its healthchecks pass.                  *)
(*                                                                         *)
(* A process that fails anywhere exits and its container starts it again,  *)
(* under the same INSTANCE_ID.  The database may go away and come back.    *)
(***************************************************************************)
EXTENDS Naturals, FiniteSets

CONSTANTS
    Brokers,     \* broker containers
    MaxTries,    \* attempts to reach Postgres before a broker gives up
    Principal,   \* AUTH_IDENTITY, the same for every process
    Nobody,      \* no owner
    FaultLimit   \* bound: crashes, failing steps, outages of the database

ASSUME PrincipalAssumption == Principal # Nobody
ASSUME BoundsAssumption == MaxTries \in Nat \ {0} /\ FaultLimit \in Nat

\* The probe of the plain listener, then that of the TLS one.
Probes == {"auth", "tls"}

\* Topics that get claimed: one per probe and broker, and the load's.
DataTopic == <<"data", Nobody>>
Topics == (Probes \X Brokers) \cup {DataTopic}

VARIABLES
    pc,           \* where each broker process is
    probe,        \* the probe it is in
    tries,        \* failed attempts to reach the database
    port,         \* brokers whose listener is open
    tls,          \* brokers whose TLS listener is open
    passed,       \* history: probes each has passed since it started
    healthy,      \* brokers that docker holds for healthy
    dependants,   \* nginx and the producers have been started
    registered,   \* brokers on which the producer has registered its topics
    owner,        \* the topics table: who has claimed each topic
    db,           \* the database answers
    faults        \* bounded disturbances so far

brokerVars == <<pc, probe, tries, port, tls, passed>>
outerVars == <<healthy, dependants, registered>>
vars == <<brokerVars, outerVars, owner, db, faults>>

Init ==
    /\ pc = [b \in Brokers |-> "off"]
    /\ probe = [b \in Brokers |-> "auth"]
    /\ tries = [b \in Brokers |-> 0]
    /\ port = {}
    /\ tls = {}
    /\ passed = [b \in Brokers |-> {}]
    /\ healthy = {}
    /\ dependants = FALSE
    /\ registered = {}
    /\ owner = [t \in Topics |-> Nobody]
    /\ db = TRUE
    /\ faults = 0

Disturb ==
    /\ faults < FaultLimit
    /\ faults' = faults + 1

-----------------------------------------------------------------------------
(* The topics table *)

\* Mutant: a topic that is claimed cannot be claimed again, by its owner either.
MayClaimOnce(t, who) == owner[t] = Nobody

\* The WHERE clause of claim_topic's upsert.
MayClaim(t, who) == owner[t] \in {Nobody, who}

claim_topic(t, who) ==
    /\ db
    /\ MayClaim(t, who)
    /\ owner' = [owner EXCEPT ![t] = who]

\* Releases what its owner holds, and changes nothing else.
release_topic(t, who) ==
    /\ db
    /\ owner' = [owner EXCEPT ![t] = IF @ = who THEN Nobody ELSE @]

DbDown ==
    /\ db
    /\ Disturb
    /\ db' = FALSE
    /\ UNCHANGED <<brokerVars, outerVars, owner>>

DbUp ==
    /\ ~db
    /\ db' = TRUE
    /\ UNCHANGED <<brokerVars, outerVars, owner, faults>>

-----------------------------------------------------------------------------
(* run() of a broker *)

Goto(b, place) == pc' = [pc EXCEPT ![b] = place]

\* The container is started, or restarted.
Boot(b) ==
    /\ pc[b] = "off"
    /\ Goto(b, "connecting")
    /\ tries' = [tries EXCEPT ![b] = 0]
    /\ passed' = [passed EXCEPT ![b] = {}]
    /\ UNCHANGED <<probe, port, tls, outerVars, owner, db, faults>>

\* The process ends: its sockets close, and docker forgets its health.  What it
\* has claimed stays claimed.
Exit(b) ==
    /\ Goto(b, "off")
    /\ port' = port \ {b}
    /\ tls' = tls \ {b}
    /\ healthy' = healthy \ {b}
    /\ registered' = registered \ {b}
    /\ UNCHANGED <<probe, tries, passed, dependants, owner, db>>

Connect(b) ==
    /\ pc[b] = "connecting"
    /\ db
    /\ tries[b] < MaxTries
    /\ Goto(b, "binding")
    /\ UNCHANGED <<probe, tries, port, tls, passed, outerVars, owner, db, faults>>

\* Postgres is not reachable; once more, a second later.
ConnectFails(b) ==
    /\ pc[b] = "connecting"
    /\ ~db
    /\ tries[b] < MaxTries
    /\ tries' = [tries EXCEPT ![b] = @ + 1]
    /\ UNCHANGED <<pc, probe, port, tls, passed, outerVars, owner, db, faults>>

GiveUp(b) ==
    /\ pc[b] = "connecting"
    /\ tries[b] = MaxTries
    /\ Exit(b)
    /\ UNCHANGED faults

\* server.start(): the listener is open, and the probes have not begun.
Bind(b) ==
    /\ pc[b] = "binding"
    /\ Goto(b, "reject")
    /\ probe' = [probe EXCEPT ![b] = "auth"]
    /\ port' = port \cup {b}
    /\ UNCHANGED <<tries, tls, passed, outerVars, owner, db, faults>>

\* A connect with an invalid token is rejected, as it must be.
Reject(b) ==
    /\ pc[b] = "reject"
    /\ Goto(b, "claim")
    /\ UNCHANGED <<probe, tries, port, tls, passed, outerVars, owner, db, faults>>

\* The probe topic is registered: the broker claims it.
Claim(b) ==
    /\ pc[b] = "claim"
    /\ claim_topic(<<probe[b], b>>, Principal)
    /\ Goto(b, "deliver")
    /\ UNCHANGED <<probe, tries, port, tls, passed, outerVars, db, faults>>

\* Subscribe, publish, receive, ack: the message and the ack are stored.
Deliver(b) ==
    /\ pc[b] = "deliver"
    /\ db
    /\ Goto(b, "release")
    /\ UNCHANGED <<probe, tries, port, tls, passed, outerVars, owner, db, faults>>

\* Mutant: the second probe releases the topic of the first.
ReleaseFirst(b) ==
    /\ pc[b] = "release"
    /\ release_topic(<<"auth", b>>, Principal)
    /\ Goto(b, IF probe[b] = "auth" THEN "second" ELSE "serving")
    /\ tls' = tls \ {b}
    /\ passed' = [passed EXCEPT ![b] = @ \cup {probe[b]}]
    /\ UNCHANGED <<probe, tries, port, outerVars, db, faults>>

\* Mutant: the TLS listener is closed only if its probe fails.
ReleaseKeepsTls(b) ==
    /\ pc[b] = "release"
    /\ release_topic(<<probe[b], b>>, Principal)
    /\ Goto(b, IF probe[b] = "auth" THEN "second" ELSE "serving")
    /\ passed' = [passed EXCEPT ![b] = @ \cup {probe[b]}]
    /\ UNCHANGED <<probe, tries, port, tls, outerVars, db, faults>>

\* The topic is released.  After the second probe its listener is closed and
\* the broker serves.
Release(b) ==
    /\ pc[b] = "release"
    /\ release_topic(<<probe[b], b>>, Principal)
    /\ Goto(b, IF probe[b] = "auth" THEN "second" ELSE "serving")
    /\ tls' = tls \ {b}
    /\ passed' = [passed EXCEPT ![b] = @ \cup {probe[b]}]
    /\ UNCHANGED <<probe, tries, port, outerVars, db, faults>>

\* tls_server.start(), and the second probe.
BindTls(b) ==
    /\ pc[b] = "second"
    /\ Goto(b, "reject")
    /\ probe' = [probe EXCEPT ![b] = "tls"]
    /\ tls' = tls \cup {b}
    /\ UNCHANGED <<tries, port, passed, outerVars, owner, db, faults>>

\* A step that needs the database finds it gone, or its topic claimed by
\* another principal: the probe raises and the process ends.
ProbeFails(b) ==
    /\ \/ pc[b] \in {"claim", "deliver", "release"} /\ ~db
       \/ pc[b] = "claim" /\ ~MayClaim(<<probe[b], b>>, Principal)
    /\ Exit(b)
    /\ UNCHANGED faults

\* Any step fails for another reason, or the process is killed.
Crash(b) ==
    /\ pc[b] # "off"
    /\ Disturb
    /\ Exit(b)

Broker(b) ==
    \/ Boot(b) \/ Connect(b) \/ ConnectFails(b) \/ GiveUp(b)
    \/ Bind(b) \/ Reject(b) \/ Claim(b) \/ Deliver(b) \/ Release(b)
    \/ BindTls(b) \/ ProbeFails(b)

-----------------------------------------------------------------------------
(* docker compose and the producer *)

\* The healthcheck connects to the port.
HealthCheck(b) ==
    /\ b \in port
    /\ b \notin healthy
    /\ healthy' = healthy \cup {b}
    /\ UNCHANGED <<brokerVars, dependants, registered, owner, db, faults>>

\* depends_on: all brokers are healthy.
StartDependants ==
    /\ ~dependants
    /\ healthy = Brokers
    /\ dependants' = TRUE
    /\ UNCHANGED <<brokerVars, healthy, registered, owner, db, faults>>

\* The producer claims its topics on broker b, and load begins there.
Register(b) ==
    /\ dependants
    /\ b \in port \ registered
    /\ claim_topic(DataTopic, Principal)
    /\ registered' = registered \cup {b}
    /\ UNCHANGED <<brokerVars, healthy, dependants, db, faults>>

-----------------------------------------------------------------------------

Next ==
    \/ \E b \in Brokers :
          Broker(b) \/ Crash(b) \/ HealthCheck(b) \/ Register(b)
    \/ StartDependants
    \/ DbDown \/ DbUp

Spec == Init /\ [][Next]_vars

\* Processes run, docker restarts them and keeps checking, the producer retries,
\* and an outage of the database ends.
FairSpec ==
    /\ Spec
    /\ WF_vars(DbUp)
    /\ WF_vars(StartDependants)
    /\ \A b \in Brokers :
          WF_vars(Broker(b)) /\ WF_vars(HealthCheck(b)) /\ WF_vars(Register(b))

-----------------------------------------------------------------------------
(* Properties *)

Places == {"off", "connecting", "binding", "reject", "claim", "deliver",
           "release", "second", "serving"}

TypeOK ==
    /\ pc \in [Brokers -> Places]
    /\ probe \in [Brokers -> Probes]
    /\ tries \in [Brokers -> 0..MaxTries]
    /\ port \in SUBSET Brokers
    /\ tls \in SUBSET Brokers
    /\ passed \in [Brokers -> SUBSET Probes]
    /\ healthy \in SUBSET Brokers
    /\ dependants \in BOOLEAN
    /\ registered \in SUBSET Brokers
    /\ owner \in [Topics -> {Principal, Nobody}]
    /\ db \in BOOLEAN
    /\ faults \in Nat

\* "Fail broker startup unless auth, claims, and packed delivery all work": a
\* broker in service has passed both probes since it was last started, over
\* whatever failed attempts before, and its TLS listener is gone.
ServingIsProbed ==
    \A b \in Brokers : pc[b] = "serving" => passed[b] = Probes /\ b \notin tls

\* The probes leave nothing in the shared table: no topic of a broker in service
\* is claimed, also not by one of its earlier lives that died inside a probe.
ServingLeavesNoClaim ==
    \A b \in Brokers : pc[b] = "serving" =>
        \A k \in Probes : owner[<<k, b>>] = Nobody

\* Claims left by a failed attempt, or made by another broker for the same
\* principal, lock nobody out: all brokers get into service, and the producer
\* registers on each of them.
AllServe == <>[](\A b \in Brokers : pc[b] = "serving" /\ b \in registered)

=============================================================================
