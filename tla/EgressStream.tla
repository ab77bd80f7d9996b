---------------------------- MODULE EgressStream ----------------------------
(***************************************************************************)
(* The egress topology as a whole: Broadcast mirrors the stream to every   *)
(* replica, and a consumer (dclient/consumer.py) drains one of them, the   *)
(* one the load balancer pinned its connection to.                         *)
(*                                                                         *)
(* Producer and consumer find their brokers by different ways.  nginx may  *)
(* send a consumer to a replica the Broadcaster has not attached, or is    *)
(* still registering at; nothing reaches the consumer until it has.        *)
(***************************************************************************)
EXTENDS Broadcast

CONSTANT Consumers     \* consumer processes behind the load balancer

VARIABLE home          \* the replica whose stream a consumer's pump drains

streamVars == <<vars, home>>

StreamInit == Init /\ home = [c \in Consumers |-> NoBroker]

\* Mutant: the pump waits on a stream that will not deliver any more.
FollowNotNoticed == UNCHANGED home

\* The connections to a replica that leaves are lost, and their streams end.
Follow == home' = [c \in Consumers |-> IF home[c] \in replicas' THEN home[c] ELSE NoBroker]

\* The load balancer takes the (re)connection to any live replica, and the
\* pump subscribes there; as long as subscribe() raises it sleeps and retries.
Subscribe(c) ==
    /\ home[c] = NoBroker
    /\ \E b \in replicas : home' = [home EXCEPT ![c] = b]
    /\ UNCHANGED vars

\* The broker evicts the slow subscriber, or the connection breaks: the pump
\* counts an eviction and goes round its loop again.
StreamEnds(c) ==
    /\ home[c] # NoBroker
    /\ ~calm
    /\ home' = [home EXCEPT ![c] = NoBroker]
    /\ UNCHANGED vars

StreamNext ==
    \/ Next /\ Follow
    \/ \E c \in Consumers : Subscribe(c) \/ StreamEnds(c)

\* The consumer's loop, too, goes on as long as a replica is there to take it.
StreamSpec ==
    /\ StreamInit
    /\ [][StreamNext]_streamVars
    /\ WF_streamVars(Maintainer /\ Follow)
    /\ \A w \in Workers : WF_streamVars(Worker(w) /\ Follow)
    /\ \A c \in Consumers : WF_streamVars(Subscribe(c))

-----------------------------------------------------------------------------
(* Properties *)

\* "On broker loss the LB re-homes the reconnect to a surviving broker (which
\* also has the full stream), so delivery continues" (consumer.py:7): once
\* things settle each consumer drains a broker the producer mirrors to, though
\* neither knows where the other went.
DeliveryContinues ==
    [](calm /\ replicas # {} =>
         <>[](\A c \in Consumers : home[c] \in clients) \/ <>[]Stranded)

=============================================================================
