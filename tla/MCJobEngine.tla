----------------------------- MODULE MCJobEngine -----------------------------
(* The job engine on small instances. *)
EXTENDS JobEngine, TLC

\* Jobs are interchangeable; used by the safety runs only.
Symmetry == Permutations(Jobs)
=============================================================================
