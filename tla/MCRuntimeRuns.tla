----------------------------- MODULE MCRuntimeRuns -----------------------------
(* Instances of RuntimeRuns for TLC.                                         *)
EXTENDS RuntimeRuns, TLC

\* Runs are interchangeable; jobs are not, they are numbered as inserted.
Symmetry == Permutations(Runs)
=============================================================================
