--------------------------- MODULE MCDataDirectory ---------------------------
(* Instances of DataDirectory for TLC. *)
EXTENDS DataDirectory, TLC

CONSTANTS p1, p2, p3, s1

\* Commands differ in nothing but their owner_id.
Symmetry == Permutations(Processes)
=============================================================================
