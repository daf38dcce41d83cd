------------------------------ MODULE MCPrune ------------------------------
(* Small instances of Prune: one time unit is the finest cell. *)
EXTENDS Prune

\* Two tiers shaped like the default grid: the first cell divides the second.
MCTwoTiers == <<[max_age |-> 2, cell |-> 2], [max_age |-> 100, cell |-> 4]>>

\* One snapshot per time unit.
MCUlidTime == [s \in SnapshotId |-> s]
=============================================================================
