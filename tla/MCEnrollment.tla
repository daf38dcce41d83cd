---------------------------- MODULE MCEnrollment ----------------------------
(* Small instances of Enrollment. *)
EXTENDS Enrollment, TLC

\* Handlers, tokens, fingerprints and names are interchangeable.
Symmetry == Permutations(Handler) \cup Permutations(Token)
               \cup Permutations(Fingerprint) \cup Permutations(Name)
=============================================================================
