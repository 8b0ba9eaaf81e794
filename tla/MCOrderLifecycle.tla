-------------------------- MODULE MCOrderLifecycle --------------------------
(* Small instances of OrderLifecycle for TLC. *)
EXTENDS OrderLifecycle, TLC

Symmetry == Permutations(Orders) \cup Permutations(Agents) \cup Permutations(Requests)
=============================================================================
