------------------------------- MODULE Bench -------------------------------
(***************************************************************************)
(* The bench-chunking command (crates/busyncr-client/src/bench_cmd.rs):    *)
(* resolve the candidate sizes, cut the tree, and the baseline tree if     *)
(* there is one, file by file, and report.                                 *)
(*                                                                         *)
(* A tree is a sequence of files [ext, path, source] in path order.        *)
(***************************************************************************)
EXTENDS FanOut, BenchReport, ChunkerConfig, Functions

CONSTANTS
    Commands,       \* [sizes, compression, trees, snapshots, churn, cpu]
    BLOCK,          \* bytes of a block; candidate sizes are in blocks
    HORIZON         \* of the default projection

\* What the command line and the walk hand over: a size as ChunkerConfig has
\* it, files whose blocks make up chunks with known lengths.
Size == {<<>>} \cup (Nat \X {"", "K", "M"})
Block == UNION {Range(c) : c \in Content}
SourceFile == [ext : STRING, path : Nat, source : Seq(Block)]
Chunkable(source) == \A i, j \in DOMAIN source : i <= j => SubSeq(source, i, j) \in Content

ASSUME CommandAssumption ==
    \A c \in Commands :
        /\ c.sizes \in Seq(Size) /\ c.compression \in BOOLEAN /\ c.snapshots \in Seq(Nat)
        /\ c.trees \in Seq(Seq(SourceFile)) /\ c.trees # <<>>
        /\ \A t \in DOMAIN c.trees : \A f \in DOMAIN c.trees[t] : Chunkable(c.trees[t][f].source)
        /\ c.cpu \in [Range(PolicyKinds) -> Nat] /\ c.churn \in Seq(Nat)
ASSUME HorizonAssumption == HORIZON \in Nat
ASSUME BlockAssumption == BLOCK \in Nat /\ \A c \in Content : Sizes[c].raw = Len(c) * BLOCK

Grid == INSTANCE Retention WITH Tiers <-
    [i \in DOMAIN RETENTION_TIERS |->
       [max_age |-> IF i < Len(RETENTION_TIERS) THEN RETENTION_TIERS[i + 1][1] ELSE USIZE_MAX,
        cell |-> RETENTION_TIERS[i][2]]]

VARIABLES
    cmd,        \* the command line
    pc,
    configs,    \* the candidates
    files,      \* per tree, the files cut so far
    report      \* what is printed, <<>> until then

vars == <<cmd, pc, configs, files, report, rd, wk>>
cutVars == <<cmd, configs, report>>

Quiet == [st |-> "idle", source |-> <<>>, read |-> 0, to |-> 0, err |-> FALSE]

Init ==
    /\ cmd \in Commands
    /\ pc = "sizes" /\ configs = <<>>
    /\ files = [t \in DOMAIN cmd.trees |-> <<>>]
    /\ report = <<>>
    /\ rd = Quiet /\ wk = <<>>

\* A size given twice, in whatever notation, is one candidate.
candidate_configs(sizes) ==
    LET n == Len(sizes)
        fresh == [k \in 1 .. n |-> \A j \in 1 .. k - 1 : parse_size(sizes[j]) # parse_size(sizes[k])]
        upto[k \in 0 .. n] == IF k = 0 THEN <<>>
                              ELSE IF fresh[k] THEN Append(upto[k - 1], parse_size(sizes[k]))
                              ELSE upto[k - 1]
    IN  upto[n]

resolve ==
    LET usable == \A k \in DOMAIN cmd.sizes : Parses(cmd.sizes[k]) /\ with_target(parse_size(cmd.sizes[k]))
    IN  /\ pc = "sizes"
        /\ IF /\ usable /\ cmd.sizes # <<>>
              /\ cmd.compression => Len(candidate_configs(cmd.sizes)) = 1
           THEN pc' = "cutting" /\ configs' = candidate_configs(cmd.sizes)
           ELSE pc' = "failed" /\ UNCHANGED configs
        /\ UNCHANGED <<cmd, files, report, rd, wk>>

\* The tree whose turn it is, and its next file.
Turn == {t \in DOMAIN files : Len(files[t]) < Len(cmd.trees[t])}
Tree == Min(Turn)
Next1 == cmd.trees[Tree][Len(files[Tree]) + 1]
Kept1(per_candidate, bytes) ==
    files' = [files EXCEPT ![Tree] = Append(@, [ext |-> Next1.ext, path |-> Next1.path,
                                                bytes |-> bytes, per_candidate |-> per_candidate])]

\* With --compression one pass over the tree cuts it and keeps the bytes.
SinglePass == cmd.compression /\ Tree = 1

\* A tree cannot be walked, or its next file cannot be opened.
tree_fails ==
    /\ pc = "cutting" /\ rd.st = "idle" /\ (Turn # {} \/ Last(cmd.trees) = <<>>)
    /\ pc' = "failed"
    /\ UNCHANGED <<cutVars, files, rd, wk>>

open_source ==
    /\ pc = "cutting" /\ rd.st = "idle" /\ Turn # {} /\ ~SinglePass
    /\ Spawned(Next1.source, configs)
    /\ UNCHANGED <<cutVars, pc, files>>

join ==
    /\ pc = "cutting" /\ Joined
    /\ rd' = Quiet /\ wk' = <<>>
    /\ IF FanOutOk
       THEN Kept1([w \in DOMAIN wk |-> wk[w].chunks], rd.read * BLOCK) /\ UNCHANGED pc
       ELSE pc' = "failed" /\ UNCHANGED files
    /\ UNCHANGED cutVars

\* What a chunker of n blocks makes of a source.
Cut(source, n) ==
    [k \in 1 .. (Len(source) + n - 1) \div n |->
        SubSeq(source, (k - 1) * n + 1, IF k * n < Len(source) THEN k * n ELSE Len(source))]

chunk_with_bytes ==
    /\ pc = "cutting" /\ Turn # {} /\ SinglePass
    /\ \/ Kept1(<<Cut(Next1.source, configs[1])>>, Len(Next1.source) * BLOCK) /\ UNCHANGED pc
       \/ pc' = "failed" /\ UNCHANGED files
    /\ UNCHANGED <<cutVars, rd, wk>>

Baseline == IF Len(files) = 1 THEN <<>> ELSE files[2]

Snapshots == IF cmd.snapshots = <<>> THEN steady_state_snapshots(HORIZON) ELSE cmd.snapshots[1]

\* The policies are simulated on the distinct chunks of the one candidate, and
\* on what the baseline lacks of them.
build_compression(bookkeeping) ==
    LET unique == unique_ids(files[1], 1)
        delta == IF Len(files) = 1 THEN <<>> ELSE <<unique \ unique_ids(Baseline, 1)>>
    IN  build_compression_report(unique, delta, cmd.churn, cmd.cpu, bookkeeping)

\* What is printed; the last three are empty unless the policies were asked for.
Report(candidates, policies, policy, classes) ==
    [snapshots |-> Snapshots, candidates |-> candidates, recommended |-> recommend(candidates),
     policies |-> policies, policy |-> policy, classes |-> classes]

\* Every file is cut: report on the candidates and, if asked to, on the policies.
print_report ==
    /\ pc = "cutting" /\ rd.st = "idle" /\ Turn = {}
    /\ pc' = "done"
    /\ \E candidates \in {build_report(files[1], configs, Snapshots, Baseline)} :
         IF ~cmd.compression THEN report' = Report(candidates, <<>>, "none", <<>>)
         ELSE \E rows \in {build_compression(candidates[1].bookkeeping)} :
              \E policy \in {recommend_policy(rows)} :
                report' = Report(candidates, rows, policy, file_class_diagnostics(files[1], policy))
    /\ UNCHANGED <<cmd, configs, files, rd, wk>>

Threads == FanOutStep /\ UNCHANGED <<cutVars, pc, files>>
Faults == (FanOutFault /\ UNCHANGED <<cutVars, pc, files>>) \/ tree_fails
Command == resolve \/ open_source \/ join \/ chunk_with_bytes \/ print_report

Next == Command \/ Threads \/ Faults

\* Threads that can run do: nothing but each other holds them back.
Spec == Init /\ [][Next]_vars /\ WF_vars(Command) /\ WF_vars(Threads)

-----------------------------------------------------------------------------
(* A report is made only of whole files: each source was read exactly once   *)
(* and every candidate saw all of it in order, so its chunks are those of a  *)
(* chunker alone with the file.  A reader that fails midway ends the stream  *)
(* of every chunker cleanly, and a chunker that fails leaves an empty list:  *)
(* neither may get into the figures (bench.rs fan_out_chunks).               *)
FanOutIsWhole ==
    \A t \in DOMAIN files : \A f \in DOMAIN files[t] :
        LET source == cmd.trees[t][f].source IN
        /\ files[t][f].bytes = Len(source) * BLOCK
        /\ files[t][f].per_candidate = [ci \in DOMAIN configs |-> Cut(source, configs[ci])]

(* The figures of a report agree with each other: every candidate tiles the  *)
(* same bytes, a percentile is the least chunk length that its share of the  *)
(* chunks stay within, the file classes split up the row of the recommended  *)
(* policy, what an increment ships is never more than the whole, and the     *)
(* default snapshot count is what the retention grid keeps of a full         *)
(* history, up to a cell per tier that the epoch-aligned grid cuts in two.   *)
GridKeeps(now) ==
    LET times == (now - HORIZON) + 1 .. now
        key(t) == LET i == Grid!tier_for(now - t) IN <<i, Grid!Cell(i, t)>>
    IN  Cardinality({key(t) : t \in times})

ReportAddsUp ==
    pc = "done" =>
    /\ \A ci \in DOMAIN configs : LET c == report.candidates[ci] IN
         /\ c.total_bytes = SumFunction([f \in DOMAIN files[1] |-> files[1][f].bytes])
         /\ c.unique_bytes <= c.total_bytes /\ c.shared <= c.unique_chunks
         /\ LET metas == Metas(files[1], ci)
                within(x) == Cardinality({k \in DOMAIN metas : Sizes[metas[k]].raw <= x})
                below(x) == Cardinality({k \in DOMAIN metas : Sizes[metas[k]].raw < x})
                IsPercentile(x, p) == /\ within(x) * 100 >= p * Len(metas)
                                      /\ metas # <<>> => below(x) * 100 < p * Len(metas)
            IN  IsPercentile(c.median, 50) /\ IsPercentile(c.p95, 95)
    /\ cmd.snapshots = <<>> => \A now \in HORIZON .. HORIZON + 2 * RETENTION_TIERS[2][2] :
         GridKeeps(now) \in report.snapshots .. report.snapshots + Len(RETENTION_TIERS)
    /\ \A k \in DOMAIN report.policies : LET row == report.policies[k] IN
         /\ row.policy = report.policy => \A figure \in {"bytes_in", "bytes_out", "chunk_count"} :
              SumFunction([class \in DOMAIN report.classes |-> report.classes[class][figure]])
                = row.stored[figure]
         /\ row.incremental # <<>> => row.incremental[1].stored_bytes <= row.stored.stored_bytes

(* What is recommended is the best there is: no candidate costs less or as   *)
(* little at a smaller size; the policy is no slower than 1.5 times zstd3,   *)
(* never stores more than zstd3, and never is the one that differs from      *)
(* zstd3 in increments only, because the comparison is of initial backups    *)
(* (bench.rs recommend, policy_bench.rs recommend_policy).                   *)
RecommendationHolds ==
    LET cost(c) == c.unique_bytes + c.bookkeeping IN
    pc = "done" =>
    /\ \E d \in Range(report.candidates) : d.target_size = report.recommended /\
         \A c \in Range(report.candidates) :
            cost(d) < cost(c) \/ (cost(d) = cost(c) /\ d.target_size <= c.target_size)
    /\ cmd.compression => \E row, zstd3 \in Range(report.policies) :
         /\ row.policy = report.policy /\ zstd3.policy = "zstd3"
         /\ row.projected <= zstd3.projected /\ 2 * row.cpu <= 3 * zstd3.cpu
         /\ report.policy # "zstd3+escalate"

(* The command ends, with a report or an error: reader and chunkers never    *)
(* wait for each other in a circle, not with channels full and not with a    *)
(* chunker gone.                                                             *)
BenchEnds == <>(pc \in {"done", "failed"})
=============================================================================
