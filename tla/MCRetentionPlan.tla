-------------------------- MODULE MCRetentionPlan --------------------------
(* Every list of up to four snapshots in eight instants, unordered and with
   ties, under a grid shaped like the default one. *)
EXTENDS RetentionPlan

MCTiers == <<[max_age |-> 2, cell |-> 1], [max_age |-> 5, cell |-> 2],
             [max_age |-> 100, cell |-> 4]>>
MCInputs == UNION {[1 .. n -> 0 .. 7] : n \in 0 .. 4}
MCInstants == {0, 4, 5, 8}
=============================================================================
