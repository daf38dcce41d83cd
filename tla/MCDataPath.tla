----------------------------- MODULE MCDataPath -----------------------------
EXTENDS DataPath, TLC

CONSTANTS a, b, s1, s2

\* a compresses well enough to be tried again at the higher level; b is stored raw.
MCSizes == a :> [raw |-> 4, lz4 |-> 1, zstd |-> 2, zstd9 |-> 1] @@
           b :> [raw |-> 2, lz4 |-> 2, zstd |-> 3, zstd9 |-> 3]

Policy == [use_probe |-> TRUE, escalate |-> TRUE, keep_threshold |-> 95,
           probe_threshold |-> 102, escalate_ratio |-> 200]

k1 == [data |-> "k1", id |-> "i1"]
k2 == [data |-> "k2", id |-> "i2"]
\* A new data key beside k1's chunk-ID key, as after an import cut short.
mixed == [data |-> "k3", id |-> "i1"]
MCKeyPair == {k1, k2, mixed}

Node(n, kind, mtime, chunks) ==
    [name |-> n, kind |-> kind, mtime |-> mtime, mode |-> 33, chunks |-> chunks]
Root(n, entries) == [name |-> n, dir |-> TRUE, entries |-> entries]

\* A file that repeats a chunk and is older than the epoch, and an empty one; a
\* small file beside a link and an empty file of a name the restoring platform
\* refuses; two roots of one name; a path too long for a manifest.
Large == <<Root("docs", <<Node("x", "file", -13, <<a, b, a>>), Node("w", "file", 0, <<>>)>>)>>
Small == <<Root("docs", <<Node("l", "link", 0, <<>>), Node("x", "file", 5, <<b>>)>>),
           Root("pics", <<Node("y", "file", 7, <<>>)>>)>>
Clash == <<Root("docs", <<Node("x", "file", 5, <<a>>)>>), Root("docs", <<Node("x", "file", 5, <<b>>)>>)>>
Deep == <<Root("deep", <<Node("z", "file", 5, <<b>>)>>)>>
MCLongPaths == {<<"deep", "z">>}
MCUnsafe == {<<"pics", "y">>}

Order(keys, roots) == [keys |-> keys, roots |-> roots, policy |-> Policy]

\* One client twice, two clients, one client before and after its data key was
\* renewed, and two configurations that are refused.
MCOrders == {s1 :> Order(k1, Large) @@ s2 :> Order(k1, Small),
             s1 :> Order(k1, Small) @@ s2 :> Order(k2, Small),
             s1 :> Order(mixed, Large) @@ s2 :> Order(k1, Small),
             s1 :> Order(k1, Clash) @@ s2 :> Order(k1, Deep)}

MCTargets == {<<>>, <<"docs", "z">> :> [data |-> <<b>>, meta |-> <<1, 420>>]}
=============================================================================
