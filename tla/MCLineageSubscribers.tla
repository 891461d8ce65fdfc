-------------------------- MODULE MCLineageSubscribers --------------------------
(* A bounded instance of LineageSubscribers for TLC. *)
EXTENDS LineageSubscribers, TLC

TaskHalf == TaskTypes \cup {"tool.call.before"}

Symmetry == Permutations(Ids) \cup Permutations(Subscribers) \cup Permutations(TaskIds)
=============================================================================
