--------------------------- MODULE RetentionPlan ---------------------------
(***************************************************************************)
(* retention::plan as the loop the code runs: one pass over the snapshots  *)
(* that keeps, in the hash map `best', the winner of each (tier, cell) so  *)
(* far.  Snapshots are given by their times and identified by their place  *)
(* in the input.                                                           *)
(***************************************************************************)
EXTENDS Retention

CONSTANTS
    Inputs,         \* the lists of snapshot times to plan for
    Instants        \* the instants to plan at

ASSUME PlanAssumption == Inputs \subseteq Seq(Int) /\ Instants \subseteq Int

VARIABLES
    snapshots,      \* the input list
    now_ms,         \* the instant
    idx,            \* the next snapshot the loop looks at
    best            \* (tier, cell) -> [time, idx] of its winner so far

vars == <<snapshots, now_ms, idx, best>>

\* MUTANTS: cells of different tiers share a slot; cells are counted back from
\* `now' and not from the epoch.
Key_NoTier(time) == <<1, Cell(tier_for(Age(now_ms, time)), time)>>
Key_ByAge(time) ==
    LET i == tier_for(Age(now_ms, time)) IN <<i, Cell(i, Age(now_ms, time))>>

Key(time) ==
    LET i == tier_for(Age(now_ms, time)) IN <<i, Cell(i, time)>>

TypeOK ==
    /\ snapshots \in Inputs
    /\ now_ms \in Instants
    /\ idx \in 1 .. Len(snapshots) + 1
    /\ best \in [DOMAIN best -> [time : Int, idx : DOMAIN snapshots]]

\* An empty policy returns before the loop.
Init ==
    /\ snapshots \in Inputs
    /\ now_ms \in Instants
    /\ idx = IF Tiers = <<>> THEN Len(snapshots) + 1 ELSE 1
    /\ best = <<>>

\* MUTANT: on equal times the earlier entry keeps the cell.
Holds_OnTie(time) == Key(time) \in DOMAIN best /\ best[Key(time)].time >= time

\* A strictly newer snapshot already holds the cell.
Holds(time) == Key(time) \in DOMAIN best /\ best[Key(time)].time > time

\* MUTANT: a place counted from zero among places counted from one.
Winner_ZeroBased(i) == [time |-> snapshots[i], idx |-> i - 1]

Winner(i) == [time |-> snapshots[i], idx |-> i]

insert ==
    /\ idx <= Len(snapshots)
    /\ ~Holds(snapshots[idx])
    /\ best' = [k \in DOMAIN best \cup {Key(snapshots[idx])} |->
                  IF k = Key(snapshots[idx]) THEN Winner(idx) ELSE best[k]]
    /\ idx' = idx + 1
    /\ UNCHANGED <<snapshots, now_ms>>

skip ==
    /\ idx <= Len(snapshots)
    /\ Holds(snapshots[idx])
    /\ idx' = idx + 1
    /\ UNCHANGED <<snapshots, now_ms, best>>

Next == insert \/ skip

Spec == Init /\ [][Next]_vars

-----------------------------------------------------------------------------
\* What plan returns: the places of the snapshots it keeps.
keep == IF Tiers = <<>> THEN DOMAIN snapshots ELSE {best[k].idx : k \in DOMAIN best}

Done == idx = Len(snapshots) + 1

\* The pass over the hash map computes the grid: when it ends, exactly the
\* snapshots that no other one in their (tier, cell) beats are kept, for any
\* order of the input and any ties.
PlanKeepsSurvivors ==
    Done => keep = Survivors(now_ms, DOMAIN snapshots, snapshots)

\* Every occupied cell ends up with exactly one survivor, none newer in it.
OneSurvivorPerCell ==
    Done /\ Tiers # <<>> =>
        \A i \in DOMAIN snapshots : \E k \in keep :
            /\ SameCell(now_ms, snapshots[i], snapshots[k])
            /\ snapshots[i] <= snapshots[k]
            /\ \A m \in keep : SameCell(now_ms, snapshots[i], snapshots[m]) => m = k

\* Planning the survivors again at the same instant drops nothing: the prune
\* after a backup and the daily one do not wear the history down.
Idempotent == Done => Survivors(now_ms, keep, snapshots) = keep
=============================================================================
