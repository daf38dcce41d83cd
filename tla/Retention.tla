----------------------------- MODULE Retention -----------------------------
(***************************************************************************)
(* The retention grid (crates/busyncr-core/src/retention.rs): a policy is  *)
(* a sequence of tiers, a snapshot's age selects its tier, the tier's cell *)
(* width divides time since the epoch into cells, and in each (tier, cell) *)
(* the newest snapshot is kept.                                            *)
(*                                                                         *)
(* Times are whole milliseconds.  ULID times have 48 bits, so none of the  *)
(* i64 clamps of the code can take effect except the one to a cell width   *)
(* of at least 1.                                                          *)
(***************************************************************************)
EXTENDS Integers, Sequences

CONSTANT Tiers      \* RetentionPolicy::tiers, youngest first

Tier == [max_age : Nat, cell : Nat]

\* What from_tiers checks, except that a policy may also be empty: plan keeps
\* everything then.  A cell shorter than a millisecond is 0 here.
ASSUME TiersAssumption ==
    /\ Tiers \in Seq(Tier)
    /\ \A i, j \in DOMAIN Tiers : i < j => Tiers[i].max_age <= Tiers[j].max_age

cell_ms(i) == IF Tiers[i].cell < 1 THEN 1 ELSE Tiers[i].cell

\* Snapshots dated after `now' have age zero.
Age(now_ms, time) == IF time < now_ms THEN now_ms - time ELSE 0

\* The first tier whose age bound exceeds the age, else the last one.
FirstTier(i, age) ==
    /\ age < Tiers[i].max_age
    /\ \A j \in DOMAIN Tiers : j < i => Tiers[j].max_age <= age
tier_for(age) ==
    IF \E i \in DOMAIN Tiers : FirstTier(i, age)
    THEN CHOOSE i \in DOMAIN Tiers : FirstTier(i, age)
    ELSE Len(Tiers)

Cell(i, time) == time \div cell_ms(i)

\* MUTANT: one snapshot per tier.
SameCell_TierOnly(now_ms, a, b) ==
    tier_for(Age(now_ms, a)) = tier_for(Age(now_ms, b))

\* Two snapshot times compete for one place in the grid at instant now_ms.
SameCell(now_ms, a, b) ==
    LET i == tier_for(Age(now_ms, a))
    IN  /\ tier_for(Age(now_ms, b)) = i
        /\ Cell(i, a) = Cell(i, b)

\* MUTANT: the oldest snapshot keeps the cell.
Beats_Oldest(time, i, j) == time[i] < time[j] \/ (time[j] = time[i] /\ i <= j)

\* Snapshot i of a list wins a cell against snapshot j: newer, or as new and
\* not before it in the list.
Beats(time, i, j) == time[j] < time[i] \/ (time[j] = time[i] /\ j <= i)

\* The snapshots of S that plan keeps: S is a set of numbers ordered as the
\* list is, time gives their times.
Survivors(now_ms, S, time) ==
    {i \in S : Tiers = <<>> \/
               \A j \in S : SameCell(now_ms, time[i], time[j]) => Beats(time, i, j)}
=============================================================================
