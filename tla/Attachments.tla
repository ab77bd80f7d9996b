---------------------------- MODULE Attachments ----------------------------
(***************************************************************************)
(* What a subscriber may rely on about fan_in (dclient/config.py), without *)
(* the rounds, lookups and connections it is made of: a broker is attached *)
(* once at a time and only while it is up, and when the subscriber stops   *)
(* nothing is attached any more and everything attached is detached.       *)
(* EventFlow builds on this.                                               *)
(***************************************************************************)
EXTENDS Naturals

CONSTANT Brokers

VARIABLES
    up,        \* the broker replicas that are up
    pumps,     \* pumps that run on each broker
    stopped    \* the subscriber is stopping

attachVars == <<up, pumps, stopped>>

AttachInit ==
    /\ up \in SUBSET Brokers
    /\ pumps = [b \in Brokers |-> 0]
    /\ stopped = FALSE

Rescale ==
    /\ up' \in SUBSET Brokers
    /\ UNCHANGED <<pumps, stopped>>

Attached(b) ==
    /\ ~stopped
    /\ b \in up
    /\ pumps[b] = 0
    /\ pumps' = [pumps EXCEPT ![b] = 1]
    /\ UNCHANGED <<up, stopped>>

\* A broker is detached because it is gone, or seemed to be.
Detached(b) ==
    /\ pumps[b] = 1
    /\ pumps' = [pumps EXCEPT ![b] = 0]
    /\ UNCHANGED <<up, stopped>>

StopAll ==
    /\ ~stopped
    /\ stopped' = TRUE
    /\ UNCHANGED <<up, pumps>>

AttachNext == Rescale \/ StopAll \/ \E b \in Brokers : Attached(b) \/ Detached(b)

AttachSafety == AttachInit /\ [][AttachNext]_attachVars

AttachSpec ==
    /\ AttachSafety
    /\ \A b \in Brokers : WF_attachVars(stopped /\ Detached(b))

=============================================================================
