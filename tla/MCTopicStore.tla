---------------------------- MODULE MCTopicStore ----------------------------
(* TopicStore for TLC: brokers, topics and principals are interchangeable. *)
EXTENDS TopicStore, TLC

Symmetry ==
    Permutations(Brokers) \union Permutations(Topics) \union Permutations(Principals)

=============================================================================
