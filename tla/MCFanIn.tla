------------------------------ MODULE MCFanIn ------------------------------
(***************************************************************************)
(* Instances of FanIn for TLC: how many connections attach() opens in each *)
(* subscriber.  The ingress consumer opens one data connection (and the    *)
(* egress observer one fleet connection), the ingress observer a firehose  *)
(* and a fleet connection.                                                 *)
(***************************************************************************)
EXTENDS FanIn

ConsumerPlanes == 1
IngressObserverPlanes == 2

=============================================================================
