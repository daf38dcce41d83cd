---------------------------- MODULE MCBootstrap -----------------------------
(* Small instances of Bootstrap. *)
EXTENDS Bootstrap, TLC

\* Key pairs, and the commands, are interchangeable.
Symmetry == Permutations(Generation) \cup Permutations(Process)
=============================================================================
