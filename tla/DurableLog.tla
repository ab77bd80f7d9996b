----------------------------- MODULE DurableLog -----------------------------
(***************************************************************************)
(* What the durability backend promises the publishers that call           *)
(* append(): a message whose append returned is in the store, the store    *)
(* never forgets, and an append that raised says nothing about whether the *)
(* message was stored.  Queues, committers, batches and transactions are   *)
(* the business of the implementation (module AppendPath).                 *)
(***************************************************************************)
CONSTANT Msgs           \* the messages publishers may append

VARIABLES status,       \* what the publisher of a message knows about it
          stored        \* the messages the store holds, crashes included

logVars == <<status, stored>>

LogInit ==
    /\ status = [m \in Msgs |-> "none"]
    /\ stored = {}

\* A publisher calls append() for a new message.
Submit(m) ==
    /\ status[m] = "none"
    /\ status' = [status EXCEPT ![m] = "pending"]
    /\ UNCHANGED stored

\* Some submitted messages reach the store together.
Persist(S) ==
    /\ \A m \in S : status[m] # "none"
    /\ stored' = stored \cup S
    /\ UNCHANGED status

\* Appends return: only for messages that are stored.
Confirm(S) ==
    /\ S \subseteq stored
    /\ \A m \in S : status[m] = "pending"
    /\ status' = [m \in Msgs |-> IF m \in S THEN "ok" ELSE status[m]]
    /\ UNCHANGED stored

\* Appends raise, or their callers give up on them.
Reject(S) ==
    /\ \A m \in S : status[m] = "pending"
    /\ status' = [m \in Msgs |-> IF m \in S THEN "error" ELSE status[m]]
    /\ UNCHANGED stored

LogNext ==
    \/ \E m \in Msgs : Submit(m)
    \/ \E S \in SUBSET Msgs : Persist(S) \/ Confirm(S) \/ Reject(S)

LogSpec == LogInit /\ [][LogNext]_logVars

=============================================================================
