-------------------------- MODULE MCProjectDeletion --------------------------
(* Instances of ProjectDeletion for TLC. *)
EXTENDS ProjectDeletion, TLC

CONSTANTS r1, r2, d1, d2, home

Symmetry == Permutations(Runs) \cup Permutations(Deletions)
=============================================================================
