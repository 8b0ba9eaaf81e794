---------------------------- MODULE MCAssignment ----------------------------
(* Small instances of Assignment. *)
EXTENDS Assignment, TLC

Symmetry == Permutations(Agents) \cup Permutations(Workers) \cup Permutations(Requests)
=============================================================================
