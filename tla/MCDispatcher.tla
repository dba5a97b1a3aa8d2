---------------------------- MODULE MCDispatcher ----------------------------
(* Dispatcher for TLC: one capability serves every kind. *)
EXTENDS Dispatcher, TLC

CONSTANT use

MCNeeds == [kind \in Kinds |-> use]

Symmetric == Permutations(Threads) \cup Permutations(DomainIds)
=============================================================================
