------------------------------ MODULE MCBench ------------------------------
EXTENDS Bench

\* Sources of up to three blocks; x packs well, y not at all, z a little.
Blocks == {"x", "y", "z"}
MCContent == UNION {[1 .. n -> Blocks] : n \in 1 .. 3}
Count(c, p) == Len(SelectSeq(c, LAMBDA q : q = p))
MCSizes == [c \in MCContent |->
    [raw |-> 100 * Len(c), lz4 |-> 100 * Len(c) - 60 * Count(c, "x"),
     zstd |-> 100 * Len(c) - 70 * Count(c, "x") + 2 * Count(c, "y") - 3,
     zstd9 |-> 100 * Len(c) - 80 * Count(c, "x")]]

File(ext, source) == [ext |-> ext, path |-> 1, source |-> source]
Sources == {<<>>, <<"y">>, <<"x", "x">>, <<"x", "y", "x">>}
Mains == {<<File("md", p), File("bin", q)>> : p \in Sources, q \in Sources \cup {<<"x", "z">>}}
Main == <<File("md", <<"x", "y", "x">>), File("bin", <<"x", "z">>)>>
Old == <<File("md", <<"x", "y">>)>>
Cpus == {[k \in {PolicyKinds[i] : i \in 1 .. 5} |-> IF k \in slow THEN 4 ELSE 2] :
           slow \in {{}, {"raw-only"}, {"zstd3-always"}, {"zstd3", "zstd3+escalate"}}}
Flat == CHOOSE cpu \in Cpus : \A k \in DOMAIN cpu : cpu[k] = 2

Line(sizes, compression, trees, snapshots, churn, cpu) ==
    [sizes |-> sizes, compression |-> compression, trees |-> trees, snapshots |-> snapshots,
     churn |-> churn, cpu |-> cpu]

\* Three candidates, one of them given twice; one candidate and the policies,
\* with a baseline, an assumed churn or neither; sizes that do not do.
MCCommands ==
    {Line(<<<<1, "">>, <<2, "">>, <<1, "K">>, <<3, "">>>>, FALSE, trees, <<>>, <<>>, Flat) :
        trees \in {<<Main>>, <<Old, Main>>, <<<<>>>>}}
    \cup {Line(<<<<n, "">>>>, TRUE, trees, <<3>>, churn, cpu) :
        n \in {1, 2}, trees \in {<<m>> : m \in Mains} \cup {<<m, Old>> : m \in Mains},
        churn \in {<<>>, <<50>>}, cpu \in Cpus}
    \cup {Line(sizes, TRUE, <<Main>>, <<>>, <<>>, Flat) :
        sizes \in {<<<<1, "">>, <<2, "">>>>, <<<<>>>>, <<<<3, "M">>>>, <<>>}}

\* A file of a class and one of none.
MCExtensions == [class \in {"text/code"} |-> {"md"}]

MCLimits == [min |-> 0 .. 1, target |-> 1 .. 4, max |-> 4 .. 16]

\* The default grid in units of three hours, over 40 days (320 units).
MCTiers == <<<<0, 1>>, <<8, 8>>, <<32, 32>>, <<128, 128>>>>
=============================================================================
