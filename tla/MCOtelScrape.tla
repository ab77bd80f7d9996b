---------------------------- MODULE MCOtelScrape ----------------------------
(***************************************************************************)
(* Instances of OtelScrape for TLC.  Broker addresses are interchangeable. *)
(***************************************************************************)
EXTENDS OtelScrape, TLC

Symmetry == Permutations(Brokers)

=============================================================================
