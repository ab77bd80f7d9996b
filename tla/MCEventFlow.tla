---------------------------- MODULE MCEventFlow ----------------------------
(***************************************************************************)
(* Instances of EventFlow for TLC.                                         *)
(***************************************************************************)
EXTENDS EventFlow

\* Two topics of one family, in the order of ALL_TOPICS.
Catalog == <<"orders.eu", "orders.us">>

=============================================================================
