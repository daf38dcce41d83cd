---------------------------- MODULE BenchReport ----------------------------
(***************************************************************************)
(* What bench-chunking computes from the chunks it cut (bench.rs and       *)
(* policy_bench.rs of crates/busyncr-core/src).  A file is [ext, path,     *)
(* bytes, per_candidate]; a chunk is its content, which is its identity,   *)
(* and Sizes gives its lengths.  Percentages are whole numbers, and the    *)
(* seconds a policy costs are given: they are measured.                    *)
(***************************************************************************)
EXTENDS Codec, FiniteSetsExt, Functions

CONSTANTS
    HEADER_BYTES, FILE_FIXED_BYTES, ID_LEN,     \* the manifest's layout
    WIRE_SIZE,                                  \* of an index entry
    RETENTION_TIERS,                            \* <<start, cell width>> pairs, in hours
    Extensions                                  \* file class -> its extensions; no two share one

ASSUME ReportAssumption ==
    /\ {HEADER_BYTES, FILE_FIXED_BYTES, ID_LEN, WIRE_SIZE} \subseteq Nat
    /\ RETENTION_TIERS \in Seq(Nat \X (Nat \ {0}))
    /\ RETENTION_TIERS # <<>> /\ RETENTION_TIERS[1][1] = 0
    /\ \A i, j \in DOMAIN RETENTION_TIERS : i < j => RETENTION_TIERS[i][1] < RETENTION_TIERS[j][1]

\* MUTANT: the end of a tier is counted as a cell of its own.
Cells_Fencepost(upper, start, width) == (upper - start) \div width + 1

Cells(upper, start, width) == (upper - start + width - 1) \div width

steady_state_snapshots(horizon) ==
    LET upper(i) == IF i < Len(RETENTION_TIERS) /\ RETENTION_TIERS[i + 1][1] < horizon
                    THEN RETENTION_TIERS[i + 1][1] ELSE horizon
        tiers == {i \in DOMAIN RETENTION_TIERS : upper(i) > RETENTION_TIERS[i][1]}
    IN  SumFunction([i \in tiers |-> Cells(upper(i), RETENTION_TIERS[i][1], RETENTION_TIERS[i][2])])

-----------------------------------------------------------------------------
(* Candidate sizes *)

Metas(files, ci) ==
    LET all[n \in 0 .. Len(files)] ==
            IF n = 0 THEN <<>> ELSE all[n - 1] \o files[n].per_candidate[ci]
    IN  all[Len(files)]

unique_ids(files, ci) == {Metas(files, ci)[k] : k \in DOMAIN Metas(files, ci)}

\* In ascending order, equal ones in the order they come.
Sorted(lens) ==
    LET place(k) == Cardinality({j \in DOMAIN lens : lens[j] < lens[k] \/ (lens[j] = lens[k] /\ j <= k)})
    IN  [r \in DOMAIN lens |-> lens[CHOOSE k \in DOMAIN lens : place(k) = r]]

nearest_rank(sorted, p) ==
    IF sorted = <<>> THEN 0
    ELSE LET rank == (Len(sorted) * p + 99) \div 100
         IN  sorted[IF rank < 1 THEN 1 ELSE rank]

CandidateReport(files, configs, ci, snapshots, baseline) ==
    LET metas == Metas(files, ci)
        lens  == [k \in DOMAIN metas |-> Sizes[metas[k]].raw]
        sorted == Sorted(lens)
        unique == unique_ids(files, ci)
        index_bytes == Cardinality(unique) * WIRE_SIZE
        manifest_bytes == HEADER_BYTES +
            SumFunction([n \in DOMAIN files |-> FILE_FIXED_BYTES + files[n].path
                                           + ID_LEN * Len(files[n].per_candidate[ci])])
    IN  [target_size |-> configs[ci], total_chunks |-> Len(metas), total_bytes |-> SumFunction(lens),
         unique_chunks |-> Cardinality(unique),
         unique_bytes |-> SumFunction([c \in unique |-> Sizes[c].raw]),
         median |-> nearest_rank(sorted, 50), p95 |-> nearest_rank(sorted, 95),
         manifest_bytes |-> manifest_bytes,
         bookkeeping |-> index_bytes + snapshots * manifest_bytes,
         shared |-> Cardinality(unique \cap unique_ids(baseline, ci))]

build_report(files, configs, snapshots, baseline) ==
    [ci \in DOMAIN configs |-> CandidateReport(files, configs, ci, snapshots, baseline)]

Cost(c) == c.unique_bytes + c.bookkeeping

\* MUTANT: the metadata is left out of the comparison.
Better_DataOnly(c, d) ==
    c.unique_bytes < d.unique_bytes \/ (c.unique_bytes = d.unique_bytes /\ c.target_size <= d.target_size)

Better(c, d) == Cost(c) < Cost(d) \/ (Cost(c) = Cost(d) /\ c.target_size <= d.target_size)

recommend(report) ==
    LET best == CHOOSE ci \in DOMAIN report : \A cj \in DOMAIN report : Better(report[ci], report[cj])
    IN  report[best].target_size

-----------------------------------------------------------------------------
(* Compression policies *)

PolicyKinds == <<"raw-only", "zstd3-always", "zstd3", "probe+zstd3", "zstd3+escalate">>

Default == [use_probe |-> FALSE, escalate |-> FALSE, keep_threshold |-> 95,
            probe_threshold |-> 102, escalate_ratio |-> 200]

\* An infinite threshold is one no compressed length reaches.
config(kind) ==
    CASE kind = "raw-only"       -> [Default EXCEPT !.keep_threshold = 0]
      [] kind = "zstd3-always"   -> [Default EXCEPT !.keep_threshold = 1000000]
      [] kind = "zstd3"          -> Default
      [] kind = "probe+zstd3"    -> [Default EXCEPT !.use_probe = TRUE]
      [] kind = "zstd3+escalate" -> [Default EXCEPT !.escalate = TRUE]

simulate_policy(chunks, kind, phase) ==
    LET n == FoldSet(LAMBDA c, counters : Counted(counters, c, phase, config(kind)), NoCounters, chunks)
    IN  [chunk_count |-> Total(n), bytes_in |-> n.bytes_in, bytes_out |-> n.bytes_out,
         stored_bytes |-> n.bytes_out + Total(n) * (1 + BLOB_OVERHEAD),
         attempts |-> n.escalation_attempts]

\* Rounds to the nearest, halves up; more than everything cannot change.
scale_stats(stats, percent) ==
    LET p == IF percent > 100 THEN 100 ELSE percent
    IN  [x \in DOMAIN stats |-> (2 * stats[x] * p + 100) \div 200]

\* delta: the chunks the baseline lacks, in a sequence of one or none;
\* churn: the assumed percentage, likewise.
build_incremental(unique, kind, delta, churn) ==
    IF delta # <<>> THEN <<simulate_policy(delta[1], kind, "Incremental")>>
    ELSE IF churn # <<>>
         THEN <<scale_stats(simulate_policy(unique, kind, "Incremental"), churn[1])>>
         ELSE <<>>

build_policy_row(unique, kind, delta, churn, cpu, bookkeeping) ==
    LET stored == simulate_policy(unique, kind, "InitialFull")
    IN  [policy |-> kind, stored |-> stored, cpu |-> cpu[kind],
         incremental |-> build_incremental(unique, kind, delta, churn),
         projected |-> stored.stored_bytes + bookkeeping]

build_compression_report(unique, delta, churn, cpu, bookkeeping) ==
    [k \in DOMAIN PolicyKinds |->
        build_policy_row(unique, PolicyKinds[k], delta, churn, cpu, bookkeeping)]

\* Smallest projected store among the policies not slower than 1.5 times
\* zstd3; the first of several.
recommend_policy(rows) ==
    LET zstd3 == CHOOSE k \in DOMAIN rows : rows[k].policy = "zstd3"
        able  == {k \in DOMAIN rows : 2 * rows[k].cpu <= 3 * rows[zstd3].cpu}
    IN  rows[CHOOSE k \in able : \A m \in able :
               \/ rows[k].projected < rows[m].projected
               \/ rows[k].projected = rows[m].projected /\ k <= m].policy

-----------------------------------------------------------------------------
(* File classes *)

classify(ext) ==
    LET fits == {class \in DOMAIN Extensions : ext \in Extensions[class]}
    IN  IF fits = {} THEN "other" ELSE CHOOSE class \in fits : TRUE

\* A chunk counts for the class of the first file that has it.
class_chunks(files, class) ==
    {c \in unique_ids(files, 1) :
        LET holders == {n \in DOMAIN files : \E k \in DOMAIN files[n].per_candidate[1] :
                          files[n].per_candidate[1][k] = c}
        IN  classify(files[Min(holders)].ext) = class}

file_class_diagnostics(files, kind) ==
    LET classes == {classify(files[n].ext) : n \in DOMAIN files}
    IN  [class \in classes |-> simulate_policy(class_chunks(files, class), kind, "InitialFull")]
=============================================================================
