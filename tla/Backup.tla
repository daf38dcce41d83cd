------------------------------- MODULE Backup -------------------------------
(***************************************************************************)
(* crates/busyncr-client/src/backup.rs: one run = one snapshot.  Several   *)
(* runs, of one client or of several, share the daemon.                    *)
(*                                                                         *)
(* A request is a sequence of roots [name, dir, entries]; an entry is      *)
(* [name, kind, mtime, mode, chunks], its chunks the plaintexts the        *)
(* chunker cuts it into.  Entries come in walk order, directories already  *)
(* flattened; mtime is in quarter seconds.                                 *)
(***************************************************************************)
EXTENDS DaemonRpc

CONSTANTS
    Orders,     \* what the runs are asked to do: SnapshotId -> [keys, roots, policy]
    BATCH_MAX_CHUNKS, BATCH_MAX_BYTES

DirEntry == [name : STRING, kind : {"file", "link", "non_utf8"}, mtime : Int, mode : Nat,
             chunks : Seq(Content)]
SourceRoot == [name : STRING, dir : BOOLEAN, entries : Seq(DirEntry)]

\* The file system lists a path under a root once.
ListedOnce(root) ==
    \A e, g \in DOMAIN root.entries : root.entries[e].name = root.entries[g].name => e = g

ASSUME OrdersAssumption ==
    /\ Orders \subseteq [SnapshotId -> [keys : KeyPair, roots : Seq(SourceRoot),
                                       policy : PolicyConfig]]
    /\ \A orders \in Orders, s \in SnapshotId : \A n \in DOMAIN orders[s].roots :
         ListedOnce(orders[s].roots[n])
    /\ BATCH_MAX_CHUNKS \in Nat \ {0} /\ BATCH_MAX_BYTES \in Nat

VARIABLE sess       \* snapshot ID -> the run that makes it

NoReport == [files |-> 0, source_bytes |-> 0, chunks_total |-> 0, chunks_unique |-> 0,
             chunks_uploaded |-> 0, chunks_deduped |-> 0, upload_bytes |-> 0,
             manifest_bytes |-> 0, compression |-> NoCounters]
NoTick == [report |-> NoReport, final |-> FALSE]

Run(order) ==
    [pc |-> "idle", keys |-> order.keys, roots |-> order.roots, policy |-> order.policy, phase |-> "InitialFull",
     specs |-> <<>>, f |-> 1, i |-> 1, len |-> 0, chunks |-> <<>>, files |-> <<>>,
     seen |-> {}, pending |-> <<>>, bytes |-> 0, asked |-> 0, missing |-> {}, blobs |-> <<>>,
     counters |-> NoCounters, report |-> NoReport, tick |-> NoTick]

BackupInit ==
    \E orders \in Orders : sess = [s \in SnapshotId |-> Run(orders[s])]

Goto(s, run) == sess' = [sess EXCEPT ![s] = run]
\* A failed run leaves nothing behind on the client.
Fails(s) ==
    Goto(s, [Run(sess[s]) EXCEPT !.pc = "failed"])

\* MUTANT: two roots of one name are taken.
Acceptable_SharedNames(roots) ==
    \A n \in DOMAIN roots : roots[n].dir /\ \A e \in DOMAIN roots[n].entries :
        roots[n].entries[e].kind # "non_utf8"

\* collect_files and walk_dir: usable roots of distinct names, UTF-8 names.
Acceptable(roots) ==
    /\ \A n \in DOMAIN roots : roots[n].dir /\ \A e \in DOMAIN roots[n].entries :
         roots[n].entries[e].kind # "non_utf8"
    /\ \A n, m \in DOMAIN roots : roots[n].name = roots[m].name => n = m

\* The regular files of a root; links and the like are skipped.
walk_dir(root) ==
    FlattenSeq([k \in 1 .. Len(root.entries) |->
        LET e == root.entries[k]
        IN  IF e.kind = "file" THEN <<[rel |-> <<root.name, e.name>>, entry |-> e]>> ELSE <<>>])

collect_files(roots) ==
    FlattenSeq([n \in 1 .. Len(roots) |-> walk_dir(roots[n])])

\* Connect, read the phase off the list of everybody's snapshots, walk the roots.
begin(s) ==
    LET r == sess[s] IN
    /\ r.pc = "idle"
    /\ IF Acceptable(r.roots)
       THEN Goto(s, [r EXCEPT !.pc = "chunking", !.specs = collect_files(r.roots),
                       !.phase = IF list_snapshots = {} THEN "InitialFull" ELSE "Incremental"])
       ELSE Fails(s)
    /\ UNCHANGED rpcVars

Here(r) == r.specs[r.f].entry
Reading(r) == r.pc = "chunking" /\ r.f <= Len(r.specs)

next_chunk(s) ==
    LET r   == sess[s]
        c   == Here(r).chunks[r.i]
        id  == keyed(r.keys.id, c)
        met == [r EXCEPT !.i = @ + 1, !.len = @ + Sizes[c].raw, !.chunks = Append(@, id),
                         !.report.chunks_total = @ + 1]
        new == [met EXCEPT !.seen = @ \cup {id}, !.report.chunks_unique = @ + 1,
                           !.bytes = @ + Sizes[c].raw, !.pending = Append(@, <<id, c>>)]
        full == Len(new.pending) >= BATCH_MAX_CHUNKS \/ new.bytes >= BATCH_MAX_BYTES
    IN  /\ Reading(r) /\ r.i <= Len(Here(r).chunks)
        /\ Goto(s, IF id \in r.seen THEN met
                   ELSE [new EXCEPT !.pc = IF full THEN "asking" ELSE @])
        /\ UNCHANGED rpcVars

Ticked(r, final) == [r EXCEPT !.tick = [report |-> r.report, final |-> final]]

\* The entry promises the size that was chunked.
end_file(s) ==
    LET r == sess[s]
        m == mtime_parts(Here(r).mtime)
        entry == [path |-> r.specs[r.f].rel, size |-> r.len, mtime_secs |-> m[1],
                  mtime_nanos |-> m[2], mode |-> Here(r).mode, chunks |-> r.chunks]
    IN  /\ Reading(r) /\ r.i > Len(Here(r).chunks)
        /\ Goto(s, Ticked([r EXCEPT !.f = @ + 1, !.i = 1, !.len = 0, !.chunks = <<>>,
                             !.files = Append(@, entry), !.report.files = @ + 1,
                             !.report.source_bytes = @ + r.len], FALSE))
        /\ UNCHANGED rpcVars

\* MUTANT: the last line is the one of the last file.
Flushed_StaleTick(r) ==
    IF r.f <= Len(r.specs) THEN Ticked([r EXCEPT !.pc = "chunking", !.bytes = 0], FALSE)
    ELSE [r EXCEPT !.pc = "manifest", !.tick.final = TRUE, !.report.compression = r.counters]

\* What follows a flush: more files, or the final tick and the manifest.
Flushed(r) ==
    IF r.f <= Len(r.specs) THEN Ticked([r EXCEPT !.pc = "chunking", !.bytes = 0], FALSE)
    ELSE [Ticked(r, TRUE) EXCEPT !.pc = "manifest", !.report.compression = r.counters]

last_flush(s) ==
    LET r == sess[s] IN
    /\ r.pc = "chunking" /\ r.f > Len(r.specs)
    /\ Goto(s, IF r.pending = <<>> THEN Flushed(r) ELSE [r EXCEPT !.pc = "asking"])
    /\ UNCHANGED rpcVars

\* HasChunks looks up one ID after the other, each in a transaction of its own.
ask(s) ==
    LET r      == sess[s]
        id     == r.pending[r.asked + 1][1]
        before == IF r.asked = 0 THEN {} ELSE r.missing
        last   == r.asked + 1 = Len(r.pending)
    IN  /\ r.pc = "asking" /\ r.asked < Len(r.pending)
        /\ Goto(s, [r EXCEPT !.pc = IF last THEN "packing" ELSE "asking",
                      !.asked = IF last THEN 0 ELSE @ + 1,
                      !.missing = IF has_chunk(id) THEN before ELSE before \cup {id}])
        /\ UNCHANGED rpcVars

Packed(r, id, c) ==
    [id |-> id, data |-> encrypt_chunk(r.keys.data, id, frame(choose_codec(c, r.phase, r.policy)))]

\* MUTANT: a chunk the daemon has is not counted.
Skipped_Uncounted(r) == r

Skipped(r) == [r EXCEPT !.report.chunks_deduped = @ + 1]

\* Compress, frame and seal what the daemon lacks; count what it has.
pack(s) ==
    LET r == sess[s] IN
    /\ r.pc = "packing" /\ r.pending # <<>>
    /\ LET id   == Head(r.pending)[1]
           c    == Head(r.pending)[2]
           blob == Packed(r, id, c)
           rest == [r EXCEPT !.pending = Tail(@)]
       IN  Goto(s, IF id \in r.missing
                   THEN [rest EXCEPT !.counters = Counted(@, c, r.phase, r.policy),
                           !.report.upload_bytes = @ + blob.data.len,
                           !.report.chunks_uploaded = @ + 1, !.blobs = Append(@, blob)]
                   ELSE Skipped(rest))
    /\ UNCHANGED rpcVars

upload_chunk(s) ==
    LET r == sess[s] IN
    /\ r.pc = "packing" /\ r.pending = <<>> /\ r.blobs # <<>>
    /\ put_chunk(Head(r.blobs).id, Head(r.blobs).data)
    /\ Goto(s, [r EXCEPT !.blobs = Tail(@)])

\* Every blob sent is stored or already present, so the counts agree.
flushed(s) ==
    LET r == sess[s] IN
    /\ r.pc = "packing" /\ r.pending = <<>> /\ r.blobs = <<>>
    /\ Goto(s, Flushed(r))
    /\ UNCHANGED rpcVars

Sealed(s) ==
    LET wire == encode(sess[s].files) IN seal(sess[s].keys.data, s, wire, Len(wire))

store_manifest(s) ==
    LET r == sess[s]
        refs == chunk_refs(r.files)
    IN  /\ r.pc = "manifest"
        /\ \/ /\ Encodes(r.files)
              /\ put_manifest(s, Sealed(s), refs)
              /\ Goto(s, [r EXCEPT !.pc = "stored", !.report.manifest_bytes = Sealed(s).len])
           \/ /\ ~Encodes(r.files) \/ Refused(s, refs)
              /\ Fails(s)
              /\ UNCHANGED rpcVars

acknowledged(s) ==
    /\ sess[s].pc = "stored"
    /\ Goto(s, [sess[s] EXCEPT !.pc = "done"])
    /\ UNCHANGED rpcVars

\* A source file, the connection, an RPC, its reply or the process is lost.
interrupted(s) ==
    /\ sess[s].pc \notin {"idle", "done", "failed"}
    /\ Fails(s)
    /\ UNCHANGED rpcVars

RunStep(s) == \/ begin(s) \/ next_chunk(s) \/ end_file(s) \/ last_flush(s) \/ ask(s)
              \/ pack(s) \/ upload_chunk(s) \/ flushed(s) \/ store_manifest(s) \/ acknowledged(s)
=============================================================================
