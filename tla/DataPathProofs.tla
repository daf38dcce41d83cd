--------------------------- MODULE DataPathProofs ---------------------------
(***************************************************************************)
(* What goes in comes out, or an error does: the invariants of DataPath    *)
(* for any sources, keys, policies, batch and channel sizes, any number of *)
(* runs and any order of uploads, gc, prune and damage.                    *)
(* And a restore runs out of steps, with nobody waiting for ever.          *)
(***************************************************************************)
EXTENDS DataPath, SequenceTheorems, FiniteSetTheorems, WellFoundedInduction, TLAPS

-----------------------------------------------------------------------------
(* The inductive invariant *)

FileSpec == [rel : STRING \X STRING, entry : DirEntry]
ManifestEntry == [path : STRING \X STRING, size : Nat, mtime_secs : Int, mtime_nanos : Int,
                  mode : Nat, chunks : Seq(ChunkIds)]
Frame == [codec : {0, 1}, payload : Content \cup {zstd(c) : c \in Content}, len : Nat]
Blob == [key : {p.data : p \in KeyPair}, aad : ChunkIds, msg : Frame, len : Nat]
Item == {[status |-> "NotFound"], [status |-> "DataLoss"]}
          \cup [status : {"Ok"}, id : ChunkIds, data : Blob]

\* What a run may be asked for: one listing of each path under each root.
Request(roots) == roots \in Seq(SourceRoot) /\ \A n \in DOMAIN roots : ListedOnce(roots[n])

\* The blob is the chunk of that ID, sealed for the one who can name it.
Holds(id, blob) == \E p \in KeyPair, c \in Content :
    /\ id = keyed(p.id, c) /\ Opens(p.data, id, blob)
    /\ Decodes(blob.msg) /\ decode_chunk(blob.msg) = c
Upload == {u \in [id : ChunkIds, data : Blob] : Holds(u.id, u.data)}
Pending(keys) == {<<keyed(keys.id, c), c>> : c \in Content}

\* The manifest entry of a file that was walked, but for its size.
FileEntry(spec, keys, size) ==
    [path |-> spec.rel, size |-> size,
     mtime_secs |-> mtime_parts(spec.entry.mtime)[1],
     mtime_nanos |-> mtime_parts(spec.entry.mtime)[2], mode |-> spec.entry.mode,
     chunks |-> [k \in 1 .. Len(spec.entry.chunks) |-> keyed(keys.id, spec.entry.chunks[k])]]

\* These are the files of the first n specs.
AreFiles(files, specs, n, keys) ==
    /\ files \in Seq(ManifestEntry) /\ Len(files) = n
    /\ \A m \in 1 .. n : files[m] = FileEntry(specs[m], keys, files[m].size)

SnapshotOf(files, r) ==
    /\ Acceptable(r.roots)
    /\ AreFiles(files, collect_files(r.roots), Len(collect_files(r.roots)), r.keys)

Items(seq) == {seq[k] : k \in 1 .. Len(seq)}

-----------------------------------------------------------------------------
(* One run *)

RunFields == {"pc", "keys", "roots", "policy", "phase", "specs", "f", "i", "len", "chunks",
              "files", "seen", "pending", "bytes", "asked", "missing", "blobs", "counters",
              "report", "tick"}
ReportFields == {"files", "source_bytes", "chunks_total", "chunks_unique", "chunks_uploaded",
                 "chunks_deduped", "upload_bytes", "manifest_bytes", "compression"}
CounterFields == {"raw", "zstd3", "escalated", "escalation_attempts", "bytes_in", "bytes_out"}
Working == {"chunking", "asking", "packing"}
Closed == {"manifest", "stored", "done"}

RunShape(r) ==
    /\ DOMAIN r = RunFields /\ DOMAIN r.report = ReportFields /\ DOMAIN r.counters = CounterFields
    /\ r.report = [x \in ReportFields |-> r.report[x]]
    /\ r.pc \in {"idle", "failed"} \cup Working \cup Closed
    /\ r.keys \in KeyPair /\ Request(r.roots)

\* The files read so far are the first of the walk, the one under way as far
\* as its chunks were met.
RunWalk(r) ==
    /\ r.specs \in Seq(FileSpec)
    /\ r.pc \in Working \cup Closed => Acceptable(r.roots) /\ r.specs = collect_files(r.roots)
    /\ r.f \in 1 .. (Len(r.specs) + 1) /\ r.i \in Nat \ {0} /\ r.len \in Nat
    /\ r.pc = "idle" => r.f = 1 /\ r.i = 1
    /\ r.pc \in Closed => r.f = Len(r.specs) + 1
    /\ r.f = Len(r.specs) + 1 => r.i = 1
    /\ r.chunks \in Seq(ChunkIds) /\ Len(r.chunks) = r.i - 1
    /\ r.f <= Len(r.specs) =>
         /\ r.i <= Len(Here(r).chunks) + 1
         /\ \A k \in 1 .. (r.i - 1) : r.chunks[k] = keyed(r.keys.id, Here(r).chunks[k])
    /\ AreFiles(r.files, r.specs, r.f - 1, r.keys)

\* A batch that is not flushed yet has room; nothing is pending behind the
\* last flush; what was packed is what its ID says.
RunBatch(r) ==
    /\ r.pending \in Seq(Pending(r.keys)) /\ Len(r.pending) <= BATCH_MAX_CHUNKS
    /\ r.pc = "chunking" => Len(r.pending) < BATCH_MAX_CHUNKS
    /\ r.pc \notin Working => r.pending = <<>>
    /\ r.asked \in Nat /\ r.missing \subseteq ChunkIds /\ r.blobs \in Seq(Upload)

\* The ledger in the middle of a run: what was met is in the files or in the
\* one under way, and each distinct chunk was shipped, skipped or is pending.
RunLedger(r) ==
    /\ r.seen \subseteq ChunkIds /\ IsFiniteSet(r.seen)
    /\ r.seen = Items(chunk_refs(r.files)) \cup Items(r.chunks)
    /\ r.report.chunks_total = Len(chunk_refs(r.files)) + Len(r.chunks)
    /\ r.report.chunks_unique = Cardinality(r.seen)
    /\ r.report.source_bytes = Bytes(r.files) /\ r.report.files = Len(r.files)

RunCounts(r) ==
    /\ \A x \in CounterFields : r.counters[x] \in Nat
    /\ r.report.chunks_uploaded \in Nat /\ r.report.chunks_deduped \in Nat
    /\ r.report.chunks_unique = r.report.chunks_uploaded + r.report.chunks_deduped + Len(r.pending)
    /\ r.report.chunks_uploaded = Total(r.counters)
    /\ r.report.upload_bytes =
         r.counters.bytes_out + r.report.chunks_uploaded * (1 + BLOB_OVERHEAD)
    /\ r.pc = "idle" => r.counters.escalation_attempts = 0
    /\ r.counters.escalation_attempts > 0 => r.phase = "Incremental"

\* The fields for the report alone are filled in after the final tick.
RunTick(r) ==
    /\ r.pc \notin {"stored", "done"} => r.report.manifest_bytes = 0
    /\ IF r.pc \in Closed
       THEN /\ r.report.compression = r.counters
            /\ r.tick = [final |-> TRUE, report |->
                 [r.report EXCEPT !.manifest_bytes = 0, !.compression = NoCounters]]
       ELSE r.report.compression = NoCounters

RunInv(r) == RunShape(r) /\ RunWalk(r) /\ RunBatch(r) /\ RunLedger(r) /\ RunCounts(r) /\ RunTick(r)

SessInv == DOMAIN sess = SnapshotId /\ \A s \in SnapshotId : RunInv(sess[s])

-----------------------------------------------------------------------------
(* The daemon *)

VaultInv ==
    /\ DOMAIN content \subseteq ChunkIds /\ rotten \subseteq DOMAIN content
    /\ \A id \in DOMAIN content : content[id] \in Blob /\ Holds(id, content[id])
    /\ DOMAIN live = DOMAIN manifests /\ DOMAIN live \subseteq SnapshotId

\* A listed snapshot is the one its run was asked for, and whole.
Listed(s) ==
    /\ \E files : /\ SnapshotOf(files, sess[s]) /\ live[s] = chunk_refs(files)
                   /\ manifests[s] = seal(sess[s].keys.data, s, encode(files), Len(encode(files)))
    /\ Items(live[s]) \subseteq DOMAIN content
ListedInv == \A s \in DOMAIN live : Listed(s)

-----------------------------------------------------------------------------
(* The restore *)

Specs == collect_files(sess[rst.sid].roots)
Placing == {"reading", "finish"}
Opened == {"file", "done"} \cup Placing

RestoreShape ==
    /\ DOMAIN rst = {"pc", "sid", "keys", "files", "f", "i", "written", "report", "tick"}
    /\ DOMAIN rst.report = {"files", "bytes", "chunks_fetched"}
    /\ rst.pc \in {"idle", "manifest", "failed"} \cup Opened
    /\ rst.sid \in SnapshotId /\ rst.files \in Seq(ManifestEntry)
    /\ rst.f \in Nat \ {0} /\ rst.i \in Nat \ {0} /\ rst.written \in Nat

StreamInv ==
    /\ DOMAIN stream = {"todo", "held", "chan", "running", "open"}
    /\ stream.todo \in Seq(ChunkIds) /\ stream.held \in Seq(Item) /\ stream.chan \in Seq(Item)
    /\ Len(stream.held) <= 1 /\ Len(stream.chan) <= CHANNEL
    /\ stream.running /\ stream.held = <<>> => stream.todo # <<>>

\* Where the restore is in the files of its snapshot.
PlaceInv ==
    /\ rst.pc \in Opened \/ rst.files # <<>> => SnapshotOf(rst.files, sess[rst.sid])
    /\ rst.pc \in {"idle", "manifest"} => rst.files = <<>> /\ rst.f = 1 /\ rst.report = NoRestoreReport
    /\ rst.pc \in Placing =>
         rst.f <= Len(rst.files) /\ rst.i <= Len(File.chunks) + 1
    /\ rst.pc = "finish" => rst.i = Len(File.chunks) + 1
    /\ rst.pc = "file" => rst.f <= Len(rst.files) + 1
    /\ rst.pc = "done" => rst.f = Len(rst.files) + 1

\* What the target holds: the files before this one whole, this one as far as
\* its chunks were read.
Whole(n) ==
    /\ out[rst.files[n].path].data = Specs[n].entry.chunks
    /\ out[rst.files[n].path].meta = <<Specs[n].entry.mtime, set_mode(Specs[n].entry.mode)>>
IsCut(path, data, files, specs) ==
    \E n \in 1 .. Len(files) :
        /\ path = files[n].path
        /\ \E k \in 0 .. Len(specs[n].entry.chunks) : data = SubSeq(specs[n].entry.chunks, 1, k)
OutInv ==
    /\ rst.pc = "manifest" => out = <<>>
    /\ rst.files = <<>> => out \in Targets
    /\ rst.pc \in Opened =>
         /\ DOMAIN out = {rst.files[n].path : n \in 1 .. (rst.f - 1)} \cup
                           (IF rst.pc \in Placing THEN {File.path} ELSE {})
         /\ \A p \in DOMAIN out : DOMAIN out[p] = {"data", "meta"}
         /\ \A n \in 1 .. (rst.f - 1) : Whole(n)
    /\ rst.pc \in Placing =>
         out[File.path].data = SubSeq(Specs[rst.f].entry.chunks, 1, rst.i - 1)
    /\ rst.files # <<>> => \A p \in DOMAIN out : IsCut(p, out[p].data, rst.files, Specs)

TallyInv ==
    /\ rst.pc \in Opened =>
         /\ rst.report.files = rst.f - 1
         /\ rst.report.bytes = Bytes(SubSeq(rst.files, 1, rst.f - 1)) +
                                 (IF rst.pc \in Placing THEN rst.written ELSE 0)
    /\ rst.pc = "done" => rst.tick = rst.report

IInv == SessInv /\ VaultInv /\ ListedInv /\ RestoreShape /\ StreamInv /\ PlaceInv /\ OutInv /\ TallyInv

-----------------------------------------------------------------------------
(* Induction and concatenation *)

\* Induction over the naturals, with the property as a set.
LEMMA NatInd ==
    ASSUME NEW G \in SUBSET Nat, 0 \in G, \A n \in G : n + 1 \in G
    PROVE  G = Nat
<1> DEFINE R == {p \in Nat \X Nat : p[1] < p[2]}
<1>1. IsWellFoundedOn(R, Nat)
  BY NatLessThanWellFounded DEF OpToRel
<1> HIDE DEF R
<1>2. SUFFICES ASSUME Nat \ G # {} PROVE FALSE
  OBVIOUS
<1>3. PICK x \in Nat \ G : \A y \in Nat \ G : ~ (<<y, x>> \in R)
  BY <1>1, <1>2, WFMin
<1>4. x # 0 /\ x - 1 \in Nat
  BY <1>3
<1>5. <<x - 1, x>> \in R
  BY <1>4 DEF R
<1>6. x - 1 \in G
  BY <1>3, <1>4, <1>5
<1> QED
  BY <1>3, <1>4, <1>6

\* cat lists the prefixes of a concatenation.
IsCat(ss, cat) ==
    /\ cat[0] = <<>>
    /\ \A n \in 1 .. Len(ss) : cat[n] = cat[n - 1] \o ss[n]

\* Every sequence of pieces has one.
LEMMA CatExists ==
    ASSUME NEW W, NEW ss \in Seq(Seq(W))
    PROVE  \E cat \in [0 .. Len(ss) -> Seq(W)] : IsCat(ss, cat)
<1> DEFINE Upto(m, cat) == cat[0] = <<>> /\ \A n \in 1 .. m : cat[n] = cat[n - 1] \o ss[n]
           G == {m \in Nat : m <= Len(ss) => \E cat \in [0 .. m -> Seq(W)] : Upto(m, cat)}
<1>1. 0 \in G
  <2> DEFINE none == [n \in 0 .. 0 |-> <<>>]
  <2>1. none \in [0 .. 0 -> Seq(W)]
    OBVIOUS
  <2>2. Upto(0, none)
    OBVIOUS
  <2> HIDE DEF none, Upto
  <2> QED
    BY <2>1, <2>2
<1>2. ASSUME NEW m \in G PROVE m + 1 \in G
  <2>0. m \in Nat
    OBVIOUS
  <2>1. SUFFICES ASSUME m + 1 <= Len(ss)
                 PROVE  \E cat \in [0 .. (m + 1) -> Seq(W)] : Upto(m + 1, cat)
    <3> HIDE DEF Upto
    <3> QED
      BY <2>0
  <2>2. PICK cat \in [0 .. m -> Seq(W)] : Upto(m, cat)
    <3> HIDE DEF Upto
    <3> QED
      BY <2>0, <2>1
  <2> DEFINE last == cat[m] \o ss[m + 1]
             more == [n \in 0 .. (m + 1) |-> IF n <= m THEN cat[n] ELSE last]
  <2>3. last \in Seq(W)
    BY <2>0, <2>1, <2>2
  <2> HIDE DEF last
  <2>4. more \in [0 .. (m + 1) -> Seq(W)]
    BY <2>0, <2>2, <2>3
  <2>5. /\ more[m + 1] = last
        /\ \A n \in 0 .. m : more[n] = cat[n]
    BY <2>0
  <2> HIDE DEF more
  <2>6. ASSUME NEW n \in 1 .. (m + 1) PROVE more[n] = more[n - 1] \o ss[n]
    <3>1. CASE n = m + 1
      <4>1. n - 1 = m /\ m \in 0 .. m
        BY <3>1, <2>0
      <4> QED
        BY <4>1, <3>1, <2>5 DEF last
    <3>2. CASE n # m + 1
      <4>1. n \in 1 .. m /\ n \in 0 .. m /\ n - 1 \in 0 .. m
        BY <3>2, <2>0
      <4> QED
        BY <4>1, <2>2, <2>5
    <3> QED
      BY <3>1, <3>2
  <2>61. more[0] = <<>>
    <3>1. 0 \in 0 .. m
      BY <2>0
    <3> QED
      BY <3>1, <2>2, <2>5
  <2>7. Upto(m + 1, more)
    BY <2>6, <2>61
  <2> QED
    BY <2>4, <2>7
<1> HIDE DEF Upto
<1>3. G = Nat
  <2>1. G \in SUBSET Nat
    OBVIOUS
  <2> QED
    BY <2>1, <1>1, <1>2, NatInd
<1>4. Len(ss) \in G
  BY <1>3
<1>5. \E cat \in [0 .. Len(ss) -> Seq(W)] : Upto(Len(ss), cat)
  BY <1>4
<1> QED
  BY <1>5 DEF IsCat, Upto

\* The last of them is what FlattenSeq returns.
LEMMA CatIsFlatten ==
    ASSUME NEW W, NEW ss \in Seq(Seq(W)), NEW cat \in [0 .. Len(ss) -> Seq(W)], IsCat(ss, cat)
    PROVE  FlattenSeq(ss) = cat[Len(ss)]
<1>1. CASE Len(ss) = 0
  <2>1. ss = <<>>
    BY <1>1
  <2> QED
    BY <1>1, <2>1 DEF FlattenSeq, IsCat
<1>2. CASE Len(ss) # 0
  <2> DEFINE flatten[i \in 1 .. Len(ss)] == IF i = 1 THEN ss[i] ELSE flatten[i - 1] \o ss[i]
             f == [i \in 1 .. Len(ss) |-> cat[i]]
  <2>1. cat[1] = ss[1]
    <3>1. 1 \in 1 .. Len(ss) /\ 1 - 1 = 0
      BY <1>2, LenProperties
    <3>2. cat[1] = cat[1 - 1] \o ss[1] /\ ss[1] \in Seq(W)
      BY <3>1, ElementOfSeq DEF IsCat
    <3>3. cat[1] = <<>> \o ss[1]
      BY <3>1, <3>2 DEF IsCat
    <3> QED
      BY <3>2, <3>3, ConcatEmptySeq
  <2>2. ASSUME NEW i \in 1 .. Len(ss)
        PROVE  f[i] = IF i = 1 THEN ss[i] ELSE f[i - 1] \o ss[i]
    <3>1. CASE i = 1
      BY <3>1, <2>1
    <3>2. CASE i # 1
      <4>1. i - 1 \in 1 .. Len(ss)
        BY <3>2
      <4> QED
        BY <3>2, <4>1 DEF IsCat
    <3> QED
      BY <3>1, <3>2
  <2>21. f = [i \in 1 .. Len(ss) |-> IF i = 1 THEN ss[i] ELSE f[i - 1] \o ss[i]]
    BY <2>2
  <2> HIDE DEF f
  <2>3. flatten = [i \in 1 .. Len(ss) |-> IF i = 1 THEN ss[i] ELSE flatten[i - 1] \o ss[i]]
    BY <2>21 DEF flatten
  <2>4. FlattenSeq(ss) = flatten[Len(ss)]
    BY <1>2 DEF FlattenSeq
  <2> HIDE DEF flatten
  <2>41. \A i \in 1 .. Len(ss) : i # 1 => flatten[i] = flatten[i - 1] \o ss[i]
    BY <2>3
  <2>42. flatten[1] = ss[1]
    BY <1>2, <2>3
  <2> DEFINE G == {m \in Nat : m + 1 <= Len(ss) => flatten[m + 1] = cat[m + 1]}
  <2>5. 0 \in G
    BY <2>1, <2>42
  <2>6. ASSUME NEW m \in G PROVE m + 1 \in G
    <3>0. m \in Nat
      OBVIOUS
    <3>1. SUFFICES ASSUME m + 2 <= Len(ss) PROVE flatten[m + 2] = cat[m + 2]
      BY <3>0
    <3>11. m + 2 \in 1 .. Len(ss) /\ (m + 2) - 1 = m + 1 /\ m + 2 # 1
      BY <3>0, <3>1
    <3>2. flatten[m + 2] = flatten[m + 1] \o ss[m + 2]
      BY <2>41, <3>11
    <3>3. cat[m + 2] = cat[m + 1] \o ss[m + 2]
      BY <3>11 DEF IsCat
    <3>4. flatten[m + 1] = cat[m + 1]
      BY <3>0, <3>1
    <3> QED
      BY <3>2, <3>3, <3>4
  <2>7. G = Nat
    <3>1. G \in SUBSET Nat
      OBVIOUS
    <3> QED
      BY <3>1, <2>5, <2>6, NatInd
  <2>8. Len(ss) - 1 \in Nat /\ (Len(ss) - 1) + 1 = Len(ss)
    BY <1>2, LenProperties
  <2>9. flatten[Len(ss)] = cat[Len(ss)]
    <3>1. Len(ss) - 1 \in G
      BY <2>7, <2>8
    <3> QED
      BY <3>1, <2>8
  <2> QED
    BY <2>4, <2>9
<1> QED
  BY <1>1, <1>2

LEMMA FlattenIsSeq ==
    ASSUME NEW W, NEW ss \in Seq(Seq(W))
    PROVE  FlattenSeq(ss) \in Seq(W)
<1>1. PICK cat \in [0 .. Len(ss) -> Seq(W)] : IsCat(ss, cat)
  BY CatExists
<1>2. FlattenSeq(ss) = cat[Len(ss)]
  BY <1>1, CatIsFlatten
<1> QED
  BY <1>1, <1>2, LenProperties

\* One more piece goes to the end.
LEMMA FlattenAppend ==
    ASSUME NEW W, NEW ss \in Seq(Seq(W)), NEW t \in Seq(W)
    PROVE  FlattenSeq(Append(ss, t)) = FlattenSeq(ss) \o t
<1> DEFINE L == Len(ss)
           tt == Append(ss, t)
<1>0. /\ L \in Nat /\ tt \in Seq(Seq(W)) /\ Len(tt) = L + 1
      /\ tt[L + 1] = t /\ \A n \in 1 .. L : tt[n] = ss[n]
  BY AppendProperties, LenProperties
<1>1. PICK cat \in [0 .. L -> Seq(W)] : IsCat(ss, cat)
  BY CatExists
<1>2. FlattenSeq(ss) = cat[L] /\ cat[L] \in Seq(W)
  BY <1>0, <1>1, CatIsFlatten
<1> HIDE DEF tt
<1> DEFINE last == cat[L] \o t
           more == [n \in 0 .. (L + 1) |-> IF n <= L THEN cat[n] ELSE last]
<1>3. last \in Seq(W)
  BY <1>2, ConcatProperties
<1> HIDE DEF last, L
<1>4. more \in [0 .. (L + 1) -> Seq(W)]
  BY <1>0, <1>1, <1>3
<1>5. more[L + 1] = last /\ \A n \in 0 .. L : more[n] = cat[n]
  BY <1>0
<1> HIDE DEF more
<1>6. more[0] = <<>>
  <2>1. 0 \in 0 .. L
    BY <1>0
  <2> QED
    BY <2>1, <1>1, <1>5 DEF IsCat
<1>7. ASSUME NEW n \in 1 .. Len(tt) PROVE more[n] = more[n - 1] \o tt[n]
  <2>1. CASE n = L + 1
    <3>1. L \in Nat
      BY <1>0
    <3>2. n - 1 = L /\ L \in 0 .. L
      BY <2>1, <3>1
    <3> QED
      BY <3>2, <2>1, <1>0, <1>5 DEF last
  <2>2. CASE n # L + 1
    <3>1. n \in 1 .. L /\ n \in 0 .. L /\ n - 1 \in 0 .. L
      BY <2>2, <1>0
    <3>2. cat[n] = cat[n - 1] \o ss[n]
      BY <3>1, <1>1 DEF IsCat, L
    <3> QED
      BY <3>1, <3>2, <1>0, <1>5
  <2> QED
    BY <2>1, <2>2
<1>8. IsCat(tt, more)
  BY <1>6, <1>7 DEF IsCat
<1>9. FlattenSeq(tt) = more[L + 1]
  BY <1>0, <1>4, <1>8, CatIsFlatten
<1> QED
  BY <1>2, <1>5, <1>9 DEF last, tt, L

\* Where each piece of a concatenation lies, and that there is nothing else.
IsLayout(ss, flat, off) ==
    /\ off \in [1 .. (Len(ss) + 1) -> Nat]
    /\ off[1] = 0 /\ off[Len(ss) + 1] = Len(flat)
    /\ \A n \in 1 .. Len(ss) : off[n + 1] = off[n] + Len(ss[n])
    /\ \A n \in 1 .. Len(ss) : \A k \in 1 .. Len(ss[n]) :
         off[n] + k \in 1 .. Len(flat) /\ flat[off[n] + k] = ss[n][k]
    /\ \A j \in 1 .. Len(flat) :
         \E n \in 1 .. Len(ss) : \E k \in 1 .. Len(ss[n]) : j = off[n] + k

LEMMA FlattenAt ==
    ASSUME NEW W, NEW ss \in Seq(Seq(W))
    PROVE  \E off : IsLayout(ss, FlattenSeq(ss), off)
<1> DEFINE L == Len(ss)
<1>0. L \in Nat /\ \A n \in 1 .. L : ss[n] \in Seq(W) /\ Len(ss[n]) \in Nat
  BY LenProperties, ElementOfSeq
<1>1. PICK cat \in [0 .. L -> Seq(W)] : IsCat(ss, cat)
  BY CatExists
<1>2. FlattenSeq(ss) = cat[L]
  BY <1>1, CatIsFlatten
<1>3. cat[0] = <<>> /\ \A n \in 1 .. L : cat[n] = cat[n - 1] \o ss[n]
  BY <1>1 DEF IsCat
<1> HIDE DEF L
<1>4. \A n \in 0 .. L : cat[n] \in Seq(W) /\ Len(cat[n]) \in Nat
  BY <1>1, LenProperties
<1> DEFINE off == [n \in 1 .. (L + 1) |-> Len(cat[n - 1])]
<1>5. ASSUME NEW n \in 1 .. L
      PROVE  /\ off[n] = Len(cat[n - 1]) /\ off[n] \in Nat
             /\ Len(cat[n]) = off[n] + Len(ss[n])
             /\ \A k \in 1 .. off[n] : cat[n][k] = cat[n - 1][k]
             /\ \A k \in 1 .. Len(ss[n]) : cat[n][off[n] + k] = ss[n][k]
  <2>1. n \in 1 .. (L + 1) /\ n - 1 \in 0 .. L
    BY <1>0
  <2>2. off[n] = Len(cat[n - 1])
    BY <2>1
  <2> HIDE DEF off
  <2>3. /\ cat[n] = cat[n - 1] \o ss[n] /\ cat[n - 1] \in Seq(W) /\ ss[n] \in Seq(W)
        /\ off[n] \in Nat /\ Len(ss[n]) \in Nat
    BY <1>0, <1>3, <1>4, <2>1, <2>2
  <2> DEFINE p == cat[n - 1]
             q == ss[n]
  <2> HIDE DEF p, q
  <2>30. p \in Seq(W) /\ q \in Seq(W) /\ cat[n] = p \o q /\ off[n] = Len(p) /\ Len(q) \in Nat
    BY <2>2, <2>3 DEF p, q
  <2>31. /\ Len(cat[n]) = Len(p) + Len(q)
         /\ \A k \in 1 .. (Len(p) + Len(q)) :
              cat[n][k] = IF k <= Len(p) THEN p[k] ELSE q[k - Len(p)]
    BY <2>30, ConcatProperties
  <2>4. /\ Len(cat[n]) = off[n] + Len(ss[n])
        /\ \A k \in 1 .. (off[n] + Len(ss[n])) :
             cat[n][k] = IF k <= off[n] THEN cat[n - 1][k] ELSE ss[n][k - off[n]]
    BY <2>30, <2>31 DEF p, q
  <2>5. ASSUME NEW k \in 1 .. off[n] PROVE cat[n][k] = cat[n - 1][k]
    <3>1. k \in 1 .. (off[n] + Len(ss[n])) /\ k <= off[n]
      BY <2>3
    <3> QED
      BY <3>1, <2>4
  <2>6. ASSUME NEW k \in 1 .. Len(ss[n]) PROVE cat[n][off[n] + k] = ss[n][k]
    <3>1. off[n] + k \in 1 .. (off[n] + Len(ss[n])) /\ ~ (off[n] + k <= off[n]) /\ (off[n] + k) - off[n] = k
      BY <2>3
    <3> QED
      BY <3>1, <2>4
  <2> QED
    BY <2>2, <2>3, <2>4, <2>5, <2>6
<1>6. off \in [1 .. (L + 1) -> Nat] /\ off[1] = 0 /\ off[L + 1] = Len(cat[L])
  <2>1. \A n \in 1 .. (L + 1) : n - 1 \in 0 .. L
    BY <1>0
  <2>2. 1 \in 1 .. (L + 1) /\ 1 - 1 = 0 /\ L + 1 \in 1 .. (L + 1) /\ (L + 1) - 1 = L
    BY <1>0
  <2>3. Len(cat[0]) = 0
    BY <1>3
  <2> QED
    BY <2>1, <2>2, <2>3, <1>4
<1>7. \A n \in 1 .. L : off[n + 1] = off[n] + Len(ss[n])
  <2>1. \A n \in 1 .. L : n + 1 \in 1 .. (L + 1) /\ (n + 1) - 1 = n
    BY <1>0
  <2> QED
    BY <2>1, <1>5
<1> HIDE DEF off
<1> DEFINE There(m) == \A n \in 1 .. m : \A k \in 1 .. Len(ss[n]) :
                         off[n] + k \in 1 .. Len(cat[m]) /\ cat[m][off[n] + k] = ss[n][k]
           Only(m) == \A j \in 1 .. Len(cat[m]) :
                         \E n \in 1 .. m : \E k \in 1 .. Len(ss[n]) : j = off[n] + k
           G == {m \in Nat : m <= L => There(m) /\ Only(m)}
<1>8. 0 \in G
  <2>1. There(0)
    OBVIOUS
  <2>2. Only(0)
    BY <1>3
  <2> QED
    BY <2>1, <2>2
<1>9. ASSUME NEW m \in G PROVE m + 1 \in G
  <2> HIDE DEF There, Only
  <2>1. m \in Nat
    OBVIOUS
  <2>2. SUFFICES ASSUME m + 1 <= L PROVE There(m + 1) /\ Only(m + 1)
    BY <2>1
  <2>3. There(m) /\ Only(m)
    <3>1. m <= L => There(m) /\ Only(m)
      BY Zenon
    <3> QED
      BY <3>1, <2>1, <2>2, <1>0
  <2>4. m + 1 \in 1 .. L /\ (m + 1) - 1 = m /\ m \in 0 .. L
    BY <1>0, <2>1, <2>2
  <2> DEFINE c == cat[m]
             d == cat[m + 1]
             o == off[m + 1]
             last == ss[m + 1]
  <2>5. /\ o = Len(c) /\ o \in Nat /\ Len(d) = o + Len(last) /\ Len(last) \in Nat
        /\ \A k \in 1 .. o : d[k] = c[k]
        /\ \A k \in 1 .. Len(last) : d[o + k] = last[k]
    BY <2>4, <1>0, <1>5
  <2>6. There(m + 1)
    <3>1. ASSUME NEW n \in 1 .. (m + 1), NEW k \in 1 .. Len(ss[n])
          PROVE  off[n] + k \in 1 .. Len(d) /\ d[off[n] + k] = ss[n][k]
      <4>1. CASE n = m + 1
        <5>1. k \in 1 .. Len(last)
          BY <4>1
        <5>2. o + k \in 1 .. Len(d) /\ d[o + k] = last[k]
          <6> HIDE DEF c, d, o, last
          <6> QED
            BY <5>1, <2>5
        <5> QED
          BY <5>2, <4>1
      <4>2. CASE n # m + 1
        <5>1. n \in 1 .. m
          BY <4>2, <2>1
        <5>2. off[n] + k \in 1 .. Len(c) /\ c[off[n] + k] = ss[n][k]
          BY <5>1, <2>3 DEF There
        <5> HIDE DEF c, d, o, last
        <5>3. off[n] + k \in 1 .. o /\ off[n] + k \in 1 .. Len(d)
          BY <5>2, <2>5
        <5> QED
          BY <5>2, <5>3, <2>5
      <4> QED
        BY <4>1, <4>2
    <3> QED
      BY <3>1 DEF There
  <2>7. Only(m + 1)
    <3>1. ASSUME NEW j \in 1 .. Len(d)
          PROVE  \E n \in 1 .. (m + 1) : \E k \in 1 .. Len(ss[n]) : j = off[n] + k
      <4>1. CASE j <= o
        <5>1. j \in 1 .. Len(c)
          BY <4>1, <2>5
        <5>2. PICK n \in 1 .. m : \E k \in 1 .. Len(ss[n]) : j = off[n] + k
          BY <5>1, <2>3 DEF Only
        <5>3. n \in 1 .. (m + 1)
          BY <2>1
        <5> QED
          BY <5>2, <5>3
      <4>2. CASE ~ (j <= o)
        <5>1. j - o \in 1 .. Len(last) /\ j = o + (j - o)
          <6> HIDE DEF c, d, o, last
          <6> QED
            BY <4>2, <2>5
        <5>2. m + 1 \in 1 .. (m + 1)
          BY <2>1
        <5> QED
          BY <5>1, <5>2
      <4> QED
        BY <4>1, <4>2
    <3> QED
      BY <3>1 DEF Only
  <2> QED
    BY <2>6, <2>7
<1>10. There(L) /\ Only(L)
  <2> HIDE DEF There, Only
  <2>1. G \in SUBSET Nat
    OBVIOUS
  <2>2. L \in G
    BY <2>1, <1>0, <1>8, <1>9, NatInd
  <2>3. L <= L => There(L) /\ Only(L)
    BY <2>2, Zenon
  <2> QED
    BY <2>3, <1>0
<1> QED
  <2>1. /\ off \in [1 .. (Len(ss) + 1) -> Nat]
        /\ off[1] = 0 /\ off[Len(ss) + 1] = Len(FlattenSeq(ss))
    BY <1>2, <1>6 DEF L
  <2>2. \A n \in 1 .. Len(ss) : off[n + 1] = off[n] + Len(ss[n])
    BY <1>7 DEF L
  <2>3. There(Len(ss)) /\ Only(Len(ss)) /\ FlattenSeq(ss) = cat[Len(ss)]
    BY <1>2, <1>10 DEF L
  <2>4. IsLayout(ss, FlattenSeq(ss), off)
    BY <2>1, <2>2, <2>3 DEF IsLayout
  <2> QED
    BY <2>4

-----------------------------------------------------------------------------
(* Sums of file sizes *)

IsSum(files, up) ==
    up[0] = 0 /\ \A n \in 1 .. Len(files) : up[n] = up[n - 1] + files[n].size

Sized(files) == \A n \in 1 .. Len(files) : files[n].size \in Nat

LEMMA SumExists ==
    ASSUME NEW W, NEW files \in Seq(W), Sized(files)
    PROVE  \E up \in [0 .. Len(files) -> Nat] : IsSum(files, up)
<1> DEFINE L == Len(files)
           Upto(m, up) == up[0] = 0 /\ \A n \in 1 .. m : up[n] = up[n - 1] + files[n].size
           G == {m \in Nat : m <= L => \E up \in [0 .. m -> Nat] : Upto(m, up)}
<1>0. L \in Nat
  BY LenProperties
<1> HIDE DEF L
<1>1. 0 \in G
  <2> DEFINE none == [n \in 0 .. 0 |-> 0]
  <2>1. none \in [0 .. 0 -> Nat] /\ Upto(0, none)
    OBVIOUS
  <2> HIDE DEF none, Upto
  <2> QED
    BY <2>1
<1>2. ASSUME NEW m \in G PROVE m + 1 \in G
  <2>0. m \in Nat
    OBVIOUS
  <2>1. SUFFICES ASSUME m + 1 <= L PROVE \E up \in [0 .. (m + 1) -> Nat] : Upto(m + 1, up)
    <3> HIDE DEF Upto
    <3> QED
      BY <2>0
  <2>2. PICK up \in [0 .. m -> Nat] : Upto(m, up)
    <3> HIDE DEF Upto
    <3> QED
      BY <1>0, <2>0, <2>1
  <2> DEFINE last == up[m] + files[m + 1].size
             more == [n \in 0 .. (m + 1) |-> IF n <= m THEN up[n] ELSE last]
  <2>3. last \in Nat
    <3>1. m + 1 \in 1 .. Len(files) /\ m \in 0 .. m
      BY <1>0, <2>0, <2>1 DEF L
    <3>2. files[m + 1].size \in Nat
      BY <3>1 DEF Sized
    <3> QED
      BY <2>2, <3>1, <3>2
  <2> HIDE DEF last
  <2>4. more \in [0 .. (m + 1) -> Nat]
    BY <2>0, <2>2, <2>3
  <2>5. more[m + 1] = last /\ \A n \in 0 .. m : more[n] = up[n]
    BY <2>0
  <2> HIDE DEF more
  <2>6. ASSUME NEW n \in 1 .. (m + 1) PROVE more[n] = more[n - 1] + files[n].size
    <3>1. CASE n = m + 1
      <4>1. n - 1 = m /\ m \in 0 .. m
        BY <3>1, <2>0
      <4> QED
        BY <4>1, <3>1, <2>5 DEF last
    <3>2. CASE n # m + 1
      <4>1. n \in 1 .. m /\ n \in 0 .. m /\ n - 1 \in 0 .. m
        BY <3>2, <2>0
      <4> QED
        BY <4>1, <2>2, <2>5
    <3> QED
      BY <3>1, <3>2
  <2>7. more[0] = 0
    <3>1. 0 \in 0 .. m
      BY <2>0
    <3> QED
      BY <3>1, <2>2, <2>5
  <2>8. Upto(m + 1, more)
    BY <2>6, <2>7
  <2> QED
    BY <2>4, <2>8
<1> HIDE DEF Upto
<1>3. L \in G
  <2>1. G \in SUBSET Nat
    OBVIOUS
  <2> QED
    BY <2>1, <1>0, <1>1, <1>2, NatInd
<1>4. \E up \in [0 .. L -> Nat] : Upto(L, up)
  BY <1>0, <1>3
<1> QED
  BY <1>4 DEF IsSum, Upto, L

LEMMA SumIsBytes ==
    ASSUME NEW W, NEW files \in Seq(W), NEW up \in [0 .. Len(files) -> Nat], IsSum(files, up)
    PROVE  Bytes(files) = up[Len(files)]
<1> DEFINE L == Len(files)
           upto[n \in 0 .. L] == IF n = 0 THEN 0 ELSE upto[n - 1] + files[n].size
<1>0. L \in Nat
  BY LenProperties
<1>1. up = [n \in 0 .. L |-> IF n = 0 THEN 0 ELSE up[n - 1] + files[n].size]
  BY <1>0 DEF IsSum
<1>2. upto = [n \in 0 .. L |-> IF n = 0 THEN 0 ELSE upto[n - 1] + files[n].size]
  BY <1>1 DEF upto
<1>3. Bytes(files) = upto[L]
  BY DEF Bytes
<1> HIDE DEF upto, L
<1>4. upto[0] = 0 /\ \A n \in 1 .. L : upto[n] = upto[n - 1] + files[n].size
  <2>1. 0 \in 0 .. L /\ \A n \in 1 .. L : n \in 0 .. L /\ n # 0
    BY <1>0
  <2> QED
    BY <2>1, <1>2
<1> DEFINE G == {m \in Nat : m <= L => upto[m] = up[m]}
<1>5. 0 \in G
  BY <1>4 DEF IsSum
<1>6. ASSUME NEW m \in G PROVE m + 1 \in G
  <2>0. m \in Nat
    OBVIOUS
  <2>1. SUFFICES ASSUME m + 1 <= L PROVE upto[m + 1] = up[m + 1]
    BY <2>0
  <2>2. m + 1 \in 1 .. L /\ (m + 1) - 1 = m /\ m <= L
    BY <1>0, <2>0, <2>1
  <2>3. upto[m] = up[m]
    BY <2>0, <2>2
  <2> QED
    BY <2>2, <2>3, <1>4 DEF IsSum, L
<1>7. L \in G
  <2>1. G \in SUBSET Nat
    OBVIOUS
  <2> QED
    BY <2>1, <1>0, <1>5, <1>6, NatInd
<1>8. upto[L] = up[L]
  BY <1>0, <1>7
<1> QED
  BY <1>3, <1>8 DEF L

LEMMA BytesEmpty == Bytes(<<>>) = 0
<1>1. <<>> \in Seq({}) /\ Len(<<>>) = 0
  OBVIOUS
<1> DEFINE up == [n \in 0 .. 0 |-> 0]
<1>2. up \in [0 .. 0 -> Nat] /\ up[0] = 0
  OBVIOUS
<1>3. IsSum(<<>>, up)
  BY <1>1, <1>2 DEF IsSum
<1> HIDE DEF up
<1> QED
  BY <1>1, <1>2, <1>3, SumIsBytes

LEMMA BytesAppend ==
    ASSUME NEW W, NEW files \in Seq(W), NEW f \in W, Sized(files), f.size \in Nat
    PROVE  Bytes(files) \in Nat /\ Bytes(Append(files, f)) = Bytes(files) + f.size
<1> DEFINE L == Len(files)
           more == Append(files, f)
<1>0. /\ L \in Nat /\ more \in Seq(W) /\ Len(more) = L + 1
      /\ more[L + 1] = f /\ \A n \in 1 .. L : more[n] = files[n]
  BY AppendProperties, LenProperties
<1>1. PICK up \in [0 .. L -> Nat] : IsSum(files, up)
  BY SumExists
<1>2. Bytes(files) = up[L] /\ up[L] \in Nat
  BY <1>0, <1>1, SumIsBytes
<1> DEFINE sum == [n \in 0 .. (L + 1) |-> IF n <= L THEN up[n] ELSE up[L] + f.size]
<1> HIDE DEF more, L
<1>3. sum \in [0 .. (L + 1) -> Nat]
  BY <1>0, <1>1, <1>2
<1>4. sum[L + 1] = up[L] + f.size /\ \A n \in 0 .. L : sum[n] = up[n]
  BY <1>0
<1> HIDE DEF sum
<1>5. sum[0] = 0
  <2>1. 0 \in 0 .. L
    BY <1>0
  <2> QED
    BY <2>1, <1>1, <1>4 DEF IsSum
<1>6. ASSUME NEW n \in 1 .. Len(more) PROVE sum[n] = sum[n - 1] + more[n].size
  <2>0. L \in Nat /\ n \in 1 .. (L + 1)
    BY <1>0
  <2>1. CASE n = L + 1
    <3>1. n - 1 = L /\ L \in 0 .. L
      BY <2>0, <2>1
    <3> QED
      BY <3>1, <2>1, <1>0, <1>4
  <2>2. CASE n # L + 1
    <3>1. n \in 1 .. L /\ n \in 0 .. L /\ n - 1 \in 0 .. L
      BY <2>0, <2>2
    <3>2. up[n] = up[n - 1] + files[n].size
      BY <3>1, <1>1 DEF IsSum, L
    <3> QED
      BY <3>1, <3>2, <1>0, <1>4
  <2> QED
    BY <2>1, <2>2
<1>7. IsSum(more, sum)
  BY <1>5, <1>6 DEF IsSum
<1>8. Bytes(more) = sum[L + 1]
  BY <1>0, <1>3, <1>7, SumIsBytes
<1> QED
  BY <1>2, <1>4, <1>8 DEF more, L

-----------------------------------------------------------------------------
(* The manifest comes off the wire as it went on *)

IsEntry(W, f) ==
    /\ f = [path |-> f.path, size |-> f.size, mtime_secs |-> f.mtime_secs,
            mtime_nanos |-> f.mtime_nanos, mode |-> f.mode, chunks |-> f.chunks]
    /\ f.path \in W /\ f.size \in W /\ f.mtime_secs \in W /\ f.mtime_nanos \in W /\ f.mode \in W
    /\ f.chunks \in Seq(W)

IsEntryWire(w, f) ==
    /\ Len(f.chunks) \in Nat /\ Len(w) = 6 + Len(f.chunks)
    /\ w[1] = f.path /\ w[2] = f.size /\ w[3] = f.mtime_secs /\ w[4] = f.mtime_nanos
    /\ w[5] = f.mode /\ w[6] = Len(f.chunks)
    /\ \A k \in 1 .. Len(f.chunks) : w[6 + k] = f.chunks[k]

LEMMA EntryWireItems ==
    ASSUME NEW W, Nat \subseteq W, NEW f, IsEntry(W, f)
    PROVE  EntryWire(f) \in Seq(W) /\ IsEntryWire(EntryWire(f), f)
<1> DEFINE head == <<f.path, f.size, f.mtime_secs, f.mtime_nanos, f.mode, Len(f.chunks)>>
           tail == f.chunks
<1>1. tail \in Seq(W) /\ Len(tail) \in Nat
  BY LenProperties DEF IsEntry
<1>2. head \in Seq(W) /\ Len(head) = 6
  BY <1>1 DEF IsEntry
<1>3. /\ head[1] = f.path /\ head[2] = f.size /\ head[3] = f.mtime_secs
      /\ head[4] = f.mtime_nanos /\ head[5] = f.mode /\ head[6] = Len(f.chunks)
  OBVIOUS
<1>4. EntryWire(f) = head \o tail
  BY DEF EntryWire
<1> HIDE DEF head, tail
<1>5. /\ head \o tail \in Seq(W) /\ Len(head \o tail) = 6 + Len(tail)
      /\ \A i \in 1 .. (6 + Len(tail)) :
           (head \o tail)[i] = IF i <= 6 THEN head[i] ELSE tail[i - 6]
  <2>1. /\ head \o tail \in Seq(W) /\ Len(head \o tail) = Len(head) + Len(tail)
        /\ \A i \in 1 .. (Len(head) + Len(tail)) :
             (head \o tail)[i] = IF i <= Len(head) THEN head[i] ELSE tail[i - Len(head)]
    BY <1>1, <1>2, ConcatProperties
  <2> QED
    BY <1>2, <2>1
<1>6. ASSUME NEW i \in 1 .. 6 PROVE (head \o tail)[i] = head[i]
  BY <1>1, <1>5
<1>7. ASSUME NEW k \in 1 .. Len(tail) PROVE (head \o tail)[6 + k] = tail[k]
  <2>1. 6 + k \in 1 .. (6 + Len(tail)) /\ ~ (6 + k <= 6) /\ (6 + k) - 6 = k
    BY <1>1
  <2> QED
    BY <2>1, <1>5
<1> QED
  BY <1>1, <1>3, <1>4, <1>5, <1>6, <1>7 DEF tail, IsEntryWire

LEMMA DecodeEncode ==
    ASSUME NEW W, Nat \subseteq W, NEW X, NEW files \in Seq(X),
           \A n \in 1 .. Len(files) : IsEntry(W, files[n])
    PROVE  decode(encode(files)) = files
<1> DEFINE N == Len(files)
           ss == [n \in 1 .. N |-> EntryWire(files[n])]
           flat == FlattenSeq(ss)
           wire == encode(files)
<1>1. N \in Nat /\ files = [n \in 1 .. N |-> files[n]]
  BY LenProperties
<1>2. ss \in Seq(Seq(W)) /\ Len(ss) = N /\ \A n \in 1 .. N : ss[n] = EntryWire(files[n])
  <2>1. \A n \in 1 .. N : EntryWire(files[n]) \in Seq(W)
    BY EntryWireItems
  <2> QED
    BY <1>1, <2>1
<1>3. PICK off : IsLayout(ss, flat, off)
  <2> HIDE DEF ss
  <2> QED
    BY <1>2, FlattenAt
<1>4. wire = <<N>> \o flat
  BY DEF encode, FilesWire
<1>5. flat \in Seq(W) /\ Len(flat) \in Nat
  <2> HIDE DEF ss
  <2> QED
    BY <1>2, FlattenIsSeq, LenProperties
<1> HIDE DEF N, ss, flat, wire
<1>6. wire[1] = N /\ \A j \in 1 .. Len(flat) : wire[j + 1] = flat[j]
  <2>1. <<N>> \in Seq(W) /\ Len(<<N>>) = 1 /\ <<N>>[1] = N
    BY <1>1
  <2>2. \A i \in 1 .. (1 + Len(flat)) :
            wire[i] = IF i <= 1 THEN <<N>>[i] ELSE flat[i - 1]
    BY <1>4, <1>5, <2>1, ConcatProperties
  <2>3. ASSUME NEW j \in 1 .. Len(flat) PROVE wire[j + 1] = flat[j]
    <3>1. j + 1 \in 1 .. (1 + Len(flat)) /\ ~ (j + 1 <= 1) /\ (j + 1) - 1 = j
      BY <1>5
    <3> QED
      BY <3>1, <2>2
  <2> QED
    BY <2>1, <2>2, <2>3, <1>5
<1>7. ASSUME NEW n \in 1 .. N
      PROVE  /\ off[n] \in Nat /\ off[n + 1] = off[n] + 6 + Len(files[n].chunks)
             /\ Len(files[n].chunks) \in Nat
             /\ wire[off[n] + 2] = files[n].path
             /\ wire[off[n] + 3] = files[n].size
             /\ wire[off[n] + 4] = files[n].mtime_secs
             /\ wire[off[n] + 5] = files[n].mtime_nanos
             /\ wire[off[n] + 6] = files[n].mode
             /\ wire[off[n] + 7] = Len(files[n].chunks)
             /\ \A k \in 1 .. Len(files[n].chunks) : wire[off[n] + 7 + k] = files[n].chunks[k]
  <2> DEFINE f == files[n]
             w == EntryWire(f)
             o == off[n]
             len == Len(f.chunks)
  <2>0. n \in 1 .. Len(ss) /\ n \in 1 .. (Len(ss) + 1) /\ ss[n] = w
    BY <1>1, <1>2
  <2>1. /\ o \in Nat /\ off[n + 1] = o + Len(w)
        /\ \A k \in 1 .. Len(w) : o + k \in 1 .. Len(flat) /\ flat[o + k] = w[k]
    <3> HIDE DEF w
    <3> QED
      BY <2>0, <1>3 DEF IsLayout
  <2>2. IsEntry(W, f)
    BY DEF N
  <2> HIDE DEF f
  <2>30. IsEntryWire(w, f)
    BY <2>2, EntryWireItems
  <2>3. /\ len \in Nat /\ Len(w) = 6 + len
        /\ w[1] = f.path /\ w[2] = f.size /\ w[3] = f.mtime_secs /\ w[4] = f.mtime_nanos
        /\ w[5] = f.mode /\ w[6] = len
        /\ \A k \in 1 .. len : w[6 + k] = f.chunks[k]
    BY <2>30, Zenon DEF IsEntryWire
  <2> HIDE DEF w, o, len
  <2>4. ASSUME NEW k \in 1 .. Len(w) PROVE wire[o + k + 1] = w[k]
    BY <2>1, <2>3, <1>6
  <2>5. \A k \in 1 .. 6 : k \in 1 .. Len(w)
    BY <2>3
  <2>6. /\ wire[o + 1 + 1] = w[1] /\ wire[o + 2 + 1] = w[2] /\ wire[o + 3 + 1] = w[3]
        /\ wire[o + 4 + 1] = w[4] /\ wire[o + 5 + 1] = w[5] /\ wire[o + 6 + 1] = w[6]
    BY <2>4, <2>5
  <2>7. /\ o + 1 + 1 = o + 2 /\ o + 2 + 1 = o + 3 /\ o + 3 + 1 = o + 4
        /\ o + 4 + 1 = o + 5 /\ o + 5 + 1 = o + 6 /\ o + 6 + 1 = o + 7
    BY <2>1
  <2>8. ASSUME NEW k \in 1 .. len PROVE wire[o + 7 + k] = f.chunks[k]
    <3>1. 6 + k \in 1 .. Len(w) /\ o + (6 + k) + 1 = o + 7 + k
      BY <2>1, <2>3
    <3> QED
      BY <3>1, <2>3, <2>4
  <2>9. /\ off[n + 1] = o + 6 + len
        /\ wire[o + 2] = f.path /\ wire[o + 3] = f.size /\ wire[o + 4] = f.mtime_secs
        /\ wire[o + 5] = f.mtime_nanos /\ wire[o + 6] = f.mode /\ wire[o + 7] = len
    BY <2>1, <2>3, <2>6, <2>7
  <2> QED
    BY <2>1, <2>3, <2>8, <2>9, Zenon DEF o, f, len
<1>8. ASSUME NEW n \in 1 .. N PROVE EntryAt(wire, n) = off[n] + 2
  <2> DEFINE at[k \in 1 .. n] == IF k = 1 THEN 2 ELSE at[k - 1] + 6 + wire[at[k - 1] + 5]
             g == [k \in 1 .. n |-> off[k] + 2]
  <2>1. EntryAt(wire, n) = at[n]
    BY DEF EntryAt
  <2>2. ASSUME NEW k \in 1 .. n
        PROVE  g[k] = IF k = 1 THEN 2 ELSE g[k - 1] + 6 + wire[g[k - 1] + 5]
    <3>1. CASE k = 1
      BY <3>1, <1>3 DEF IsLayout
    <3>2. CASE k # 1
      <4>1. k - 1 \in 1 .. N /\ k - 1 \in 1 .. n /\ (k - 1) + 1 = k
        BY <3>2, <1>1
      <4> DEFINE o == off[k - 1]
      <4>2. o \in Nat /\ off[k] = o + 6 + wire[o + 7] /\ wire[o + 7] \in Nat
        BY <4>1, <1>7
      <4>3. g[k - 1] = o + 2 /\ g[k] = off[k] + 2
        BY <4>1
      <4> HIDE DEF o, g
      <4>4. g[k - 1] + 5 = o + 7
        BY <4>2, <4>3
      <4> QED
        BY <3>2, <4>2, <4>3, <4>4
    <3> QED
      BY <3>1, <3>2
  <2>3. g = [k \in 1 .. n |-> IF k = 1 THEN 2 ELSE g[k - 1] + 6 + wire[g[k - 1] + 5]]
    BY <2>2
  <2>4. g[n] = off[n] + 2
    BY <1>1
  <2> HIDE DEF g
  <2>6. at = [k \in 1 .. n |-> IF k = 1 THEN 2 ELSE at[k - 1] + 6 + wire[at[k - 1] + 5]]
    BY <2>3 DEF at
  <2> HIDE DEF at
  <2> DEFINE G == {m \in Nat : m + 1 <= n => at[m + 1] = g[m + 1]}
  <2>7. 0 \in G
    <3>1. 1 \in 1 .. n
      BY <1>1
    <3> QED
      BY <3>1, <2>2, <2>6
  <2>8. ASSUME NEW m \in G PROVE m + 1 \in G
    <3>0. m \in Nat
      OBVIOUS
    <3>1. SUFFICES ASSUME m + 2 <= n PROVE at[m + 2] = g[m + 2]
      BY <3>0
    <3>2. m + 2 \in 1 .. n /\ (m + 2) - 1 = m + 1 /\ m + 2 # 1 /\ m + 1 <= n
      BY <3>0, <3>1
    <3>3. at[m + 1] = g[m + 1]
      BY <3>0, <3>2
    <3>4. at[m + 2] = at[m + 1] + 6 + wire[at[m + 1] + 5]
      BY <2>6, <3>2
    <3>5. g[m + 2] = g[m + 1] + 6 + wire[g[m + 1] + 5]
      BY <2>2, <3>2
    <3> QED
      BY <3>3, <3>4, <3>5
  <2>9. n - 1 \in G /\ (n - 1) + 1 = n
    <3>1. G \in SUBSET Nat
      OBVIOUS
    <3>2. G = Nat
      BY <3>1, <2>7, <2>8, NatInd
    <3> QED
      BY <3>2, <1>1
  <2>10. at[n] = g[n]
    BY <2>9
  <2> QED
    BY <2>1, <2>4, <2>10
<1>9. ASSUME NEW n \in 1 .. N PROVE Entry(wire, off[n] + 2) = files[n]
  <2> DEFINE o == off[n]
             f == files[n]
             len == Len(f.chunks)
             i == o + 2
  <2>1. /\ o \in Nat /\ len \in Nat
        /\ wire[o + 2] = f.path /\ wire[o + 3] = f.size /\ wire[o + 4] = f.mtime_secs
        /\ wire[o + 5] = f.mtime_nanos /\ wire[o + 6] = f.mode /\ wire[o + 7] = len
        /\ \A k \in 1 .. len : wire[o + 7 + k] = f.chunks[k]
    BY <1>7
  <2>2. IsEntry(W, f)
    BY DEF N
  <2> HIDE DEF o, f, len
  <2>3. /\ i + 1 = o + 3 /\ i + 2 = o + 4 /\ i + 3 = o + 5 /\ i + 4 = o + 6 /\ i + 5 = o + 7
        /\ i + 6 = o + 8 /\ i + 5 + len = o + 7 + len
    BY <2>1
  <2>4. SubSeq(wire, o + 8, o + 7 + len) = f.chunks
    <3> DEFINE sub == SubSeq(wire, o + 8, o + 7 + len)
    <3>0. f.chunks \in Seq(W) /\ Len(f.chunks) = len
      BY <2>2 DEF IsEntry, len
    <3>1. \A j \in (o + 8) .. (o + 7 + len) : wire[j] \in W
      <4>1. SUFFICES ASSUME NEW j \in (o + 8) .. (o + 7 + len) PROVE wire[j] \in W
        OBVIOUS
      <4>2. j - (o + 7) \in 1 .. len /\ o + 7 + (j - (o + 7)) = j
        BY <2>1
      <4>3. wire[j] = f.chunks[j - (o + 7)]
        BY <2>1, <4>2
      <4> QED
        BY <3>0, <4>2, <4>3, ElementOfSeq
    <3>20. o \in Nat /\ len \in Nat
      BY <2>1
    <3>2. o + 8 \in Int /\ o + 7 + len \in Int /\ (o + 7 + len) - (o + 8) + 1 = len
      BY <3>20
    <3>3. /\ sub \in Seq(W)
          /\ Len(sub) = IF o + 8 <= o + 7 + len THEN (o + 7 + len) - (o + 8) + 1 ELSE 0
          /\ \A k \in 1 .. ((o + 7 + len) - (o + 8) + 1) : sub[k] = wire[(o + 8) + k - 1]
      BY <3>1, <3>2, SubSeqProperties
    <3> HIDE DEF sub
    <3>4. Len(sub) = len
      BY <2>1, <3>2, <3>3
    <3>5. ASSUME NEW k \in 1 .. len PROVE sub[k] = f.chunks[k]
      <4>1. (o + 8) + k - 1 = o + 7 + k
        BY <2>1
      <4> QED
        BY <4>1, <3>2, <3>3, <2>1
    <3> QED
      BY <3>0, <3>3, <3>4, <3>5, SeqEqual DEF sub
  <2>5. Entry(wire, i) = [path |-> f.path, size |-> f.size, mtime_secs |-> f.mtime_secs,
                          mtime_nanos |-> f.mtime_nanos, mode |-> f.mode, chunks |-> f.chunks]
    BY <2>1, <2>3, <2>4 DEF Entry
  <2> QED
    BY <2>2, <2>5 DEF IsEntry, o, f
<1>10. decode(wire) = [n \in 1 .. N |-> files[n]]
  BY <1>6, <1>8, <1>9 DEF decode
<1> QED
  BY <1>1, <1>10 DEF wire

-----------------------------------------------------------------------------
(* The walk finds every regular file, once *)

SpecOf(root, k) == [rel |-> <<root.name, root.entries[k].name>>, entry |-> root.entries[k]]

IsWalk(specs, root) ==
    /\ \A j \in 1 .. Len(specs) : \E k \in 1 .. Len(root.entries) :
         root.entries[k].kind = "file" /\ specs[j] = SpecOf(root, k)
    /\ \A k \in 1 .. Len(root.entries) :
         root.entries[k].kind = "file" => \E j \in 1 .. Len(specs) : specs[j] = SpecOf(root, k)
    /\ \A i, j \in 1 .. Len(specs) : specs[i].rel = specs[j].rel => i = j

LEMMA Walked ==
    ASSUME NEW root \in SourceRoot, ListedOnce(root)
    PROVE  walk_dir(root) \in Seq(FileSpec) /\ IsWalk(walk_dir(root), root)
<1> DEFINE entries == root.entries
           N == Len(entries)
           piece(k) == IF entries[k].kind = "file" THEN <<SpecOf(root, k)>> ELSE <<>>
           ss == [k \in 1 .. N |-> piece(k)]
           walk == walk_dir(root)
<1>1. N \in Nat /\ entries \in Seq(DirEntry) /\ root.name \in STRING
  BY LenProperties DEF SourceRoot
<1>2. ASSUME NEW k \in 1 .. N
      PROVE  entries[k] \in DirEntry /\ SpecOf(root, k) \in FileSpec /\ piece(k) \in Seq(FileSpec)
  <2>1. entries[k] \in DirEntry
    <3> HIDE DEF entries
    <3> QED
      BY <1>1, ElementOfSeq
  <2>11. entries[k].name \in STRING
    BY <2>1 DEF DirEntry
  <2>2. SpecOf(root, k) \in FileSpec
    BY <1>1, <2>1, <2>11 DEF SpecOf, FileSpec
  <2> QED
    BY <2>1, <2>2
<1>3. ss \in Seq(Seq(FileSpec)) /\ Len(ss) = N /\ \A k \in 1 .. N : ss[k] = piece(k)
  <2> HIDE DEF piece
  <2> QED
    BY <1>1, <1>2
<1>4. walk = FlattenSeq(ss)
  BY DEF walk_dir, SpecOf
<1> HIDE DEF ss, walk
<1>5. walk \in Seq(FileSpec)
  BY <1>3, <1>4, FlattenIsSeq
<1>6. PICK off : IsLayout(ss, walk, off)
  BY <1>3, <1>4, FlattenAt
<1>7. ASSUME NEW j \in 1 .. Len(walk)
      PROVE  \E n \in 1 .. N : /\ entries[n].kind = "file" /\ j = off[n] + 1
                               /\ walk[j] = SpecOf(root, n)
  <2>1. PICK n \in 1 .. Len(ss) : \E k \in 1 .. Len(ss[n]) : j = off[n] + k
    BY <1>6 DEF IsLayout
  <2>2. PICK k \in 1 .. Len(ss[n]) : j = off[n] + k
    BY <2>1
  <2>3. n \in 1 .. N /\ ss[n] = piece(n) /\ walk[j] = ss[n][k]
    BY <1>3, <1>6, <2>2 DEF IsLayout
  <2>4. entries[n].kind = "file"
    BY <2>2, <2>3
  <2>5. k = 1 /\ ss[n][1] = SpecOf(root, n)
    BY <2>2, <2>3, <2>4
  <2> QED
    BY <2>2, <2>3, <2>4, <2>5
<1>8. ASSUME NEW k \in 1 .. N, entries[k].kind = "file"
      PROVE  \E j \in 1 .. Len(walk) : walk[j] = SpecOf(root, k)
  <2>0. ss[k] = <<SpecOf(root, k)>> /\ k \in 1 .. Len(ss)
    BY <1>3, <1>8
  <2>1. Len(ss[k]) = 1 /\ ss[k][1] = SpecOf(root, k) /\ k \in 1 .. Len(ss) /\ 1 \in 1 .. 1
    BY <2>0
  <2>2. off[k] + 1 \in 1 .. Len(walk) /\ walk[off[k] + 1] = ss[k][1]
    BY <1>6, <2>1 DEF IsLayout
  <2> QED
    BY <2>1, <2>2
<1>9. ASSUME NEW i \in 1 .. Len(walk), NEW j \in 1 .. Len(walk), walk[i].rel = walk[j].rel
      PROVE  i = j
  <2>1. PICK n \in 1 .. N : i = off[n] + 1 /\ walk[i] = SpecOf(root, n)
    BY <1>7
  <2>2. PICK m \in 1 .. N : j = off[m] + 1 /\ walk[j] = SpecOf(root, m)
    BY <1>7
  <2>3. entries[n].name = entries[m].name
    BY <1>9, <2>1, <2>2 DEF SpecOf
  <2>4. n \in DOMAIN entries /\ m \in DOMAIN entries
    BY <1>1
  <2>5. n = m
    BY <2>3, <2>4 DEF ListedOnce
  <2> QED
    BY <2>1, <2>2, <2>5
<1>10. IsWalk(walk, root)
  BY <1>7, <1>8, <1>9 DEF IsWalk
<1> QED
  BY <1>5, <1>10 DEF walk

IsCollected(specs, roots) ==
    /\ \A j \in 1 .. Len(specs) : \E n \in 1 .. Len(roots) : \E k \in 1 .. Len(roots[n].entries) :
         roots[n].entries[k].kind = "file" /\ specs[j] = SpecOf(roots[n], k)
    /\ \A n \in 1 .. Len(roots) : \A k \in 1 .. Len(roots[n].entries) :
         roots[n].entries[k].kind = "file" =>
            \E j \in 1 .. Len(specs) : specs[j] = SpecOf(roots[n], k)
    /\ Acceptable(roots) => \A i, j \in 1 .. Len(specs) : specs[i].rel = specs[j].rel => i = j

LEMMA Collected ==
    ASSUME NEW roots, Request(roots)
    PROVE  collect_files(roots) \in Seq(FileSpec) /\ IsCollected(collect_files(roots), roots)
<1> DEFINE N == Len(roots)
           ss == [n \in 1 .. N |-> walk_dir(roots[n])]
           specs == collect_files(roots)
<1>1. N \in Nat /\ \A n \in 1 .. N : roots[n] \in SourceRoot /\ ListedOnce(roots[n]) /\ n \in DOMAIN roots
  BY LenProperties, ElementOfSeq DEF Request
<1>2. \A n \in 1 .. N : walk_dir(roots[n]) \in Seq(FileSpec) /\ IsWalk(walk_dir(roots[n]), roots[n])
  BY <1>1, Walked
<1>3. ss \in Seq(Seq(FileSpec)) /\ Len(ss) = N /\ \A n \in 1 .. N : ss[n] = walk_dir(roots[n])
  BY <1>1, <1>2
<1>4. specs = FlattenSeq(ss)
  BY DEF collect_files
<1> HIDE DEF ss, specs
<1>5. specs \in Seq(FileSpec)
  BY <1>3, <1>4, FlattenIsSeq
<1>6. PICK off : IsLayout(ss, specs, off)
  BY <1>3, <1>4, FlattenAt
<1>7. ASSUME NEW j \in 1 .. Len(specs)
      PROVE  \E n \in 1 .. N : \E m \in 1 .. Len(ss[n]) :
                j = off[n] + m /\ specs[j] = ss[n][m] /\ IsWalk(ss[n], roots[n])
  <2>1. PICK n \in 1 .. Len(ss) : \E k \in 1 .. Len(ss[n]) : j = off[n] + k
    BY <1>6 DEF IsLayout
  <2>2. PICK m \in 1 .. Len(ss[n]) : j = off[n] + m
    BY <2>1
  <2>3. n \in 1 .. N /\ specs[j] = ss[n][m] /\ IsWalk(ss[n], roots[n])
    BY <1>2, <1>3, <1>6, <2>2 DEF IsLayout
  <2> QED
    BY <2>2, <2>3
<1>8. ASSUME NEW j \in 1 .. Len(specs)
      PROVE  \E n \in 1 .. N : \E k \in 1 .. Len(roots[n].entries) :
                roots[n].entries[k].kind = "file" /\ specs[j] = SpecOf(roots[n], k)
  <2>1. PICK n \in 1 .. N : \E m \in 1 .. Len(ss[n]) : specs[j] = ss[n][m] /\ IsWalk(ss[n], roots[n])
    BY <1>7
  <2> QED
    BY <2>1 DEF IsWalk
<1>9. ASSUME NEW n \in 1 .. N, NEW k \in 1 .. Len(roots[n].entries), roots[n].entries[k].kind = "file"
      PROVE  \E j \in 1 .. Len(specs) : specs[j] = SpecOf(roots[n], k)
  <2>1. IsWalk(ss[n], roots[n]) /\ n \in 1 .. Len(ss)
    BY <1>2, <1>3
  <2>2. PICK m \in 1 .. Len(ss[n]) : ss[n][m] = SpecOf(roots[n], k)
    BY <1>9, <2>1 DEF IsWalk
  <2>3. off[n] + m \in 1 .. Len(specs) /\ specs[off[n] + m] = ss[n][m]
    BY <1>6, <2>1 DEF IsLayout
  <2> QED
    BY <2>2, <2>3
<1>10. ASSUME Acceptable(roots), NEW i \in 1 .. Len(specs), NEW j \in 1 .. Len(specs),
              specs[i].rel = specs[j].rel
       PROVE  i = j
  <2>1. PICK n \in 1 .. N : \E m \in 1 .. Len(ss[n]) :
            i = off[n] + m /\ specs[i] = ss[n][m] /\ IsWalk(ss[n], roots[n])
    BY <1>7
  <2>2. PICK n2 \in 1 .. Len(ss[n]) :
            i = off[n] + n2 /\ specs[i] = ss[n][n2] /\ IsWalk(ss[n], roots[n])
    BY <2>1
  <2>3. PICK m \in 1 .. N : \E k \in 1 .. Len(ss[m]) :
            j = off[m] + k /\ specs[j] = ss[m][k] /\ IsWalk(ss[m], roots[m])
    BY <1>7
  <2>4. PICK m2 \in 1 .. Len(ss[m]) :
            j = off[m] + m2 /\ specs[j] = ss[m][m2] /\ IsWalk(ss[m], roots[m])
    BY <2>3
  <2>0. \A r, k : SpecOf(r, k).rel[1] = r.name
    BY DEF SpecOf
  <2>5. specs[i].rel[1] = roots[n].name
    <3>1. PICK k \in 1 .. Len(roots[n].entries) : ss[n][n2] = SpecOf(roots[n], k)
      BY <2>2 DEF IsWalk
    <3> QED
      BY <2>0, <2>2, <3>1
  <2>6. specs[j].rel[1] = roots[m].name
    <3>1. PICK k \in 1 .. Len(roots[m].entries) : ss[m][m2] = SpecOf(roots[m], k)
      BY <2>4 DEF IsWalk
    <3> QED
      BY <2>0, <2>4, <3>1
  <2>7. n = m
    <3>1. n \in DOMAIN roots /\ m \in DOMAIN roots
      BY <1>1
    <3> QED
      BY <1>10, <2>5, <2>6, <3>1 DEF Acceptable
  <2>8. n2 = m2
    BY <1>10, <2>2, <2>4, <2>7 DEF IsWalk
  <2> QED
    BY <2>2, <2>4, <2>7, <2>8
<1>11. IsCollected(specs, roots)
  BY <1>8, <1>9, <1>10 DEF IsCollected
<1> QED
  BY <1>5, <1>11 DEF specs

-----------------------------------------------------------------------------
(* Times, codecs, entries and references *)

\* Times survive the split into whole seconds and the rest.
LEMMA MtimeRoundTrip ==
    ASSUME NEW m \in Int
    PROVE  /\ mtime_parts(m)[1] \in Int /\ mtime_parts(m)[2] \in Int
           /\ from_unix_time(mtime_parts(m)[1], mtime_parts(m)[2]) = m
<1>1. CASE m >= 0
  BY <1>1 DEF mtime_parts, from_unix_time
<1>2. CASE ~ (m >= 0) /\ (-m) % 4 = 0
  BY <1>2 DEF mtime_parts, from_unix_time
<1>3. CASE ~ (m >= 0) /\ (-m) % 4 # 0
  BY <1>3 DEF mtime_parts, from_unix_time
<1> QED
  BY <1>1, <1>2, <1>3

\* What is packed for an ID comes out as the chunk of that ID.
LEMMA PackedHolds ==
    ASSUME NEW r, r.keys \in KeyPair, NEW c \in Content
    PROVE  /\ Packed(r, keyed(r.keys.id, c), c) \in Upload
           /\ Packed(r, keyed(r.keys.id, c), c).id = keyed(r.keys.id, c)
           /\ Packed(r, keyed(r.keys.id, c), c).data.len =
                PayloadLen(c, Bucket(c, r.phase, r.policy)) + 1 + BLOB_OVERHEAD
           /\ PayloadLen(c, Bucket(c, r.phase, r.policy)) \in Nat
<1> DEFINE bucket == Bucket(c, r.phase, r.policy)
           id == keyed(r.keys.id, c)
           chosen == choose_codec(c, r.phase, r.policy)
           fr == frame(chosen)
           blob == encrypt_chunk(r.keys.data, id, fr)
<1>1. bucket \in {"raw", "zstd3", "escalated"}
  BY DEF Bucket
<1>2. PayloadLen(c, bucket) \in Nat
  BY <1>1, CodecAssumption DEF PayloadLen
<1>3. id \in ChunkIds
  BY DEF ChunkIds
<1>4. fr = [codec |-> IF bucket = "raw" THEN 0 ELSE 1,
            payload |-> IF bucket = "raw" THEN c ELSE zstd(c),
            len |-> PayloadLen(c, bucket) + 1]
  BY DEF frame, choose_codec
<1> HIDE DEF bucket
<1>5. fr \in Frame
  BY <1>2, <1>4 DEF Frame
<1>6. Decodes(fr) /\ decode_chunk(fr) = c
  BY <1>4 DEF Decodes, decode_chunk, zstd
<1>7. blob = [key |-> r.keys.data, aad |-> id, msg |-> fr,
              len |-> PayloadLen(c, bucket) + 1 + BLOB_OVERHEAD]
  BY <1>4 DEF encrypt_chunk, seal
<1> HIDE DEF fr, id
<1>8. blob \in Blob
  BY <1>2, <1>3, <1>5, <1>7, CodecAssumption DEF Blob
<1>9. Holds(id, blob)
  <2>1. Opens(r.keys.data, id, blob) /\ blob.msg = fr
    BY <1>7 DEF Opens
  <2> QED
    BY <1>6, <2>1 DEF Holds, id
<1>10. Packed(r, id, c) = [id |-> id, data |-> blob]
  BY DEF Packed, fr
<1> HIDE DEF blob
<1>11. Packed(r, id, c) \in Upload /\ Packed(r, id, c).id = id /\ Packed(r, id, c).data = blob
  BY <1>3, <1>8, <1>9, <1>10 DEF Upload
<1>12. blob.len = PayloadLen(c, bucket) + 1 + BLOB_OVERHEAD
  BY <1>7
<1> QED
  BY <1>2, <1>11, <1>12 DEF id, bucket

\* A chunk counts once, in its bucket.
LEMMA CountedOnce ==
    ASSUME NEW n, DOMAIN n = CounterFields, \A x \in CounterFields : n[x] \in Nat,
           NEW c \in Content, NEW phase, NEW policy
    PROVE  LET m == Counted(n, c, phase, policy) IN
           /\ DOMAIN m = CounterFields /\ \A x \in CounterFields : m[x] \in Nat
           /\ Total(m) = Total(n) + 1
           /\ m.bytes_out = n.bytes_out + PayloadLen(c, Bucket(c, phase, policy))
           /\ m.escalation_attempts > 0 => n.escalation_attempts > 0 \/ phase = "Incremental"
<1> DEFINE bucket == Bucket(c, phase, policy)
           esc == IF Escalates(c, phase, policy) THEN 1 ELSE 0
           plen == PayloadLen(c, bucket)
           m == [n EXCEPT ![bucket] = @ + 1, !.escalation_attempts = @ + esc,
                          !.bytes_in = @ + Sizes[c].raw, !.bytes_out = @ + plen]
<1>1. bucket \in {"raw", "zstd3", "escalated"}
  BY DEF Bucket
<1>2. plen \in Nat /\ Sizes[c].raw \in Nat
  BY <1>1, CodecAssumption DEF PayloadLen
<1>3. esc \in {0, 1} /\ (esc = 1 => phase = "Incremental")
  BY DEF Escalates
<1>4. Counted(n, c, phase, policy) = m
  BY DEF Counted
<1> HIDE DEF bucket, esc, plen
<1>5. /\ DOMAIN m = CounterFields
      /\ \A x \in {"raw", "zstd3", "escalated"} : m[x] = IF x = bucket THEN n[x] + 1 ELSE n[x]
      /\ m.escalation_attempts = n.escalation_attempts + esc
      /\ m.bytes_in = n.bytes_in + Sizes[c].raw
      /\ m.bytes_out = n.bytes_out + plen
  BY <1>1 DEF CounterFields
<1> HIDE DEF m
<1>6. /\ n.raw \in Nat /\ n.zstd3 \in Nat /\ n.escalated \in Nat
      /\ n.escalation_attempts \in Nat /\ n.bytes_in \in Nat /\ n.bytes_out \in Nat
  BY DEF CounterFields
<1>7. /\ m.raw = IF bucket = "raw" THEN n.raw + 1 ELSE n.raw
      /\ m.zstd3 = IF bucket = "zstd3" THEN n.zstd3 + 1 ELSE n.zstd3
      /\ m.escalated = IF bucket = "escalated" THEN n.escalated + 1 ELSE n.escalated
  BY <1>5
<1>8. \A x \in CounterFields : m[x] \in Nat
  BY <1>2, <1>3, <1>5, <1>6, <1>7 DEF CounterFields
<1>9. Total(m) = Total(n) + 1
  BY <1>1, <1>6, <1>7 DEF Total
<1>10. m.escalation_attempts > 0 => n.escalation_attempts > 0 \/ phase = "Incremental"
  BY <1>3, <1>5, <1>6
<1> QED
  BY <1>4, <1>5, <1>8, <1>9, <1>10 DEF plen, bucket

LEMMA FileEntryType ==
    ASSUME NEW spec \in FileSpec, NEW keys \in KeyPair, NEW size \in Nat
    PROVE  /\ FileEntry(spec, keys, size) \in ManifestEntry
           /\ spec.entry.chunks \in Seq(Content) /\ Len(spec.entry.chunks) \in Nat
           /\ FileEntry(spec, keys, size).chunks \in Seq(ChunkIds)
           /\ Len(FileEntry(spec, keys, size).chunks) = Len(spec.entry.chunks)
           /\ \A k \in 1 .. Len(spec.entry.chunks) :
                /\ spec.entry.chunks[k] \in Content
                /\ FileEntry(spec, keys, size).chunks[k] = keyed(keys.id, spec.entry.chunks[k])
<1> DEFINE cs == spec.entry.chunks
           ids == [k \in 1 .. Len(cs) |-> keyed(keys.id, cs[k])]
           m == mtime_parts(spec.entry.mtime)
<1>1. /\ spec.rel \in STRING \X STRING /\ spec.entry.mtime \in Int /\ spec.entry.mode \in Nat
      /\ cs \in Seq(Content)
  BY DEF FileSpec, DirEntry
<1>2. m[1] \in Int /\ m[2] \in Int
  BY <1>1, MtimeRoundTrip
<1> HIDE DEF m, cs
<1>3. Len(cs) \in Nat /\ \A k \in 1 .. Len(cs) : cs[k] \in Content
  BY <1>1, LenProperties, ElementOfSeq
<1>4. \A k \in 1 .. Len(cs) : keyed(keys.id, cs[k]) \in ChunkIds
  BY <1>3 DEF ChunkIds
<1>5. ids \in Seq(ChunkIds) /\ Len(ids) = Len(cs) /\ \A k \in 1 .. Len(cs) : ids[k] = keyed(keys.id, cs[k])
  BY <1>3, <1>4
<1>6. FileEntry(spec, keys, size) =
         [path |-> spec.rel, size |-> size, mtime_secs |-> m[1], mtime_nanos |-> m[2],
          mode |-> spec.entry.mode, chunks |-> ids]
  BY DEF FileEntry, m, cs
<1> HIDE DEF ids
<1>7. FileEntry(spec, keys, size) \in ManifestEntry /\ FileEntry(spec, keys, size).chunks = ids
  BY <1>1, <1>2, <1>5, <1>6 DEF ManifestEntry
<1> QED
  BY <1>1, <1>3, <1>5, <1>7 DEF cs

\* A manifest of such entries is read as it was written.
LEMMA FilesDecode ==
    ASSUME NEW files, NEW specs, NEW n, NEW keys, AreFiles(files, specs, n, keys)
    PROVE  decode(encode(files)) = files
<1> DEFINE W == (STRING \X STRING) \cup Int \cup ChunkIds
<1>1. Nat \subseteq W /\ files \in Seq(ManifestEntry)
  BY DEF AreFiles
<1>2. ASSUME NEW m \in 1 .. Len(files) PROVE IsEntry(W, files[m])
  <2> DEFINE f == files[m]
  <2>1. f \in ManifestEntry
    BY <1>1, ElementOfSeq
  <2>2. f = FileEntry(specs[m], keys, f.size)
    BY DEF AreFiles
  <2> HIDE DEF f
  <2>3. f = [path |-> f.path, size |-> f.size, mtime_secs |-> f.mtime_secs,
             mtime_nanos |-> f.mtime_nanos, mode |-> f.mode, chunks |-> f.chunks]
    BY <2>2 DEF FileEntry
  <2>4. /\ f.path \in W /\ f.size \in W /\ f.mtime_secs \in W /\ f.mtime_nanos \in W /\ f.mode \in W
        /\ f.chunks \in Seq(ChunkIds)
    BY <2>1 DEF ManifestEntry
  <2> HIDE DEF W
  <2>5. ChunkIds \subseteq W
    BY DEF W
  <2>6. f.chunks \in Seq(W)
    <3>1. \A k \in 1 .. Len(f.chunks) : f.chunks[k] \in W
      BY <2>4, <2>5, ElementOfSeq
    <3> QED
      BY <2>4, <3>1
  <2> QED
    BY <2>3, <2>4, <2>6 DEF IsEntry, f
<1> HIDE DEF W
<1> QED
  BY <1>1, <1>2, DecodeEncode

LEMMA RefsEmpty == chunk_refs(<<>>) = <<>>
  BY DEF chunk_refs, FlattenSeq

LEMMA PiecesOfFiles ==
    ASSUME NEW files \in Seq(ManifestEntry)
    PROVE  LET ss == [n \in 1 .. Len(files) |-> files[n].chunks] IN
           /\ ss \in Seq(Seq(ChunkIds)) /\ Len(ss) = Len(files)
           /\ \A n \in 1 .. Len(files) : ss[n] = files[n].chunks /\ files[n].chunks \in Seq(ChunkIds)
<1>0. \A n \in 1 .. Len(files) : files[n] \in ManifestEntry
  BY ElementOfSeq
<1>1. \A n \in 1 .. Len(files) : files[n].chunks \in Seq(ChunkIds)
  BY <1>0 DEF ManifestEntry
<1> QED
  BY <1>1, LenProperties

\* The references are the chunks of the files, and those are all of them.
LEMMA RefsItems ==
    ASSUME NEW files \in Seq(ManifestEntry)
    PROVE  /\ chunk_refs(files) \in Seq(ChunkIds)
           /\ \A x \in Items(chunk_refs(files)) : \E n \in 1 .. Len(files) : x \in Items(files[n].chunks)
           /\ \A n \in 1 .. Len(files) : Items(files[n].chunks) \subseteq Items(chunk_refs(files))
<1> DEFINE ss == [n \in 1 .. Len(files) |-> files[n].chunks]
           refs == chunk_refs(files)
<1>1. /\ ss \in Seq(Seq(ChunkIds)) /\ Len(ss) = Len(files)
      /\ \A n \in 1 .. Len(files) : ss[n] = files[n].chunks
  BY PiecesOfFiles
<1>2. refs = FlattenSeq(ss)
  BY DEF chunk_refs
<1> HIDE DEF ss, refs
<1>3. refs \in Seq(ChunkIds)
  BY <1>1, <1>2, FlattenIsSeq
<1>4. PICK off : IsLayout(ss, refs, off)
  BY <1>1, <1>2, FlattenAt
<1>5. ASSUME NEW j \in 1 .. Len(refs)
      PROVE  \E n \in 1 .. Len(files) : refs[j] \in Items(files[n].chunks)
  <2>1. PICK n \in 1 .. Len(ss) : \E k \in 1 .. Len(ss[n]) : j = off[n] + k
    BY <1>4 DEF IsLayout
  <2>2. PICK k \in 1 .. Len(ss[n]) : j = off[n] + k
    BY <2>1
  <2>3. refs[j] = ss[n][k]
    BY <1>4, <2>2 DEF IsLayout
  <2> QED
    BY <1>1, <2>3 DEF Items
<1>6. ASSUME NEW n \in 1 .. Len(files), NEW k \in 1 .. Len(files[n].chunks)
      PROVE  files[n].chunks[k] \in Items(refs)
  <2>1. n \in 1 .. Len(ss) /\ k \in 1 .. Len(ss[n]) /\ files[n].chunks[k] = ss[n][k]
    BY <1>1
  <2>2. off[n] + k \in 1 .. Len(refs) /\ refs[off[n] + k] = ss[n][k]
    BY <1>4, <2>1 DEF IsLayout
  <2> QED
    BY <2>1, <2>2 DEF Items
<1> QED
  BY <1>3, <1>5, <1>6 DEF refs, Items

LEMMA RefsAppend ==
    ASSUME NEW files \in Seq(ManifestEntry), NEW f \in ManifestEntry
    PROVE  /\ chunk_refs(Append(files, f)) = chunk_refs(files) \o f.chunks
           /\ Len(chunk_refs(Append(files, f))) = Len(chunk_refs(files)) + Len(f.chunks)
           /\ Items(chunk_refs(Append(files, f))) = Items(chunk_refs(files)) \cup Items(f.chunks)
<1> DEFINE ss == [n \in 1 .. Len(files) |-> files[n].chunks]
           more == Append(files, f)
           tt == [n \in 1 .. Len(more) |-> more[n].chunks]
           refs == chunk_refs(files)
           cs == f.chunks
<1>1. ss \in Seq(Seq(ChunkIds)) /\ Len(ss) = Len(files) /\ Len(files) \in Nat
  BY PiecesOfFiles, LenProperties
<1>2. cs \in Seq(ChunkIds)
  BY DEF ManifestEntry
<1>3. /\ more \in Seq(ManifestEntry) /\ Len(more) = Len(files) + 1
      /\ more[Len(files) + 1] = f /\ \A n \in 1 .. Len(files) : more[n] = files[n]
  BY AppendProperties
<1>4. tt = Append(ss, cs)
  <2> HIDE DEF more, cs
  <2>1. tt \in Seq(Seq(ChunkIds)) /\ Len(tt) = Len(files) + 1
    BY <1>3, PiecesOfFiles
  <2>2. Append(ss, cs) \in Seq(Seq(ChunkIds)) /\ Len(Append(ss, cs)) = Len(files) + 1
    BY <1>1, <1>2, AppendProperties
  <2>3. ASSUME NEW n \in 1 .. (Len(files) + 1) PROVE tt[n] = Append(ss, cs)[n]
    <3>1. CASE n = Len(files) + 1
      BY <3>1, <1>1, <1>2, <1>3, AppendProperties DEF cs
    <3>2. CASE n # Len(files) + 1
      <4>1. n \in 1 .. Len(files)
        BY <3>2, <1>1
      <4>2. Append(ss, cs)[n] = ss[n]
        BY <4>1, <1>1, <1>2, AppendProperties
      <4> QED
        BY <4>1, <4>2, <1>3
    <3> QED
      BY <3>1, <3>2
  <2> HIDE DEF tt
  <2> QED
    BY <2>1, <2>2, <2>3, SeqEqual
<1>5. chunk_refs(more) = FlattenSeq(tt) /\ refs = FlattenSeq(ss)
  BY DEF chunk_refs
<1> HIDE DEF ss, tt, more, cs, refs
<1>6. chunk_refs(more) = refs \o cs
  BY <1>1, <1>2, <1>4, <1>5, FlattenAppend
<1>7. refs \in Seq(ChunkIds) /\ Len(refs) \in Nat /\ Len(cs) \in Nat
  BY <1>1, <1>2, <1>5, FlattenIsSeq, LenProperties
<1>8. /\ Len(refs \o cs) = Len(refs) + Len(cs)
      /\ \A i \in 1 .. (Len(refs) + Len(cs)) :
           (refs \o cs)[i] = IF i <= Len(refs) THEN refs[i] ELSE cs[i - Len(refs)]
  BY <1>2, <1>7, ConcatProperties
<1>9. Items(refs \o cs) = Items(refs) \cup Items(cs)
  <2>1. ASSUME NEW i \in 1 .. Len(refs \o cs) PROVE (refs \o cs)[i] \in Items(refs) \cup Items(cs)
    <3>1. CASE i <= Len(refs)
      <4>1. i \in 1 .. Len(refs) /\ (refs \o cs)[i] = refs[i]
        BY <3>1, <1>7, <1>8
      <4> QED
        BY <4>1 DEF Items
    <3>2. CASE ~ (i <= Len(refs))
      <4>1. i - Len(refs) \in 1 .. Len(cs) /\ (refs \o cs)[i] = cs[i - Len(refs)]
        BY <3>2, <1>7, <1>8
      <4> QED
        BY <4>1 DEF Items
    <3> QED
      BY <3>1, <3>2
  <2>2. ASSUME NEW i \in 1 .. Len(refs) PROVE refs[i] \in Items(refs \o cs)
    <3>1. i \in 1 .. (Len(refs) + Len(cs)) /\ (refs \o cs)[i] = refs[i]
      BY <1>7, <1>8
    <3> QED
      BY <3>1, <1>8 DEF Items
  <2>3. ASSUME NEW i \in 1 .. Len(cs) PROVE cs[i] \in Items(refs \o cs)
    <3>1. Len(refs) + i \in 1 .. (Len(refs) + Len(cs)) /\ (Len(refs) + i) - Len(refs) = i /\ ~ (Len(refs) + i <= Len(refs))
      BY <1>7
    <3>2. (refs \o cs)[Len(refs) + i] = cs[i]
      BY <3>1, <1>8
    <3> QED
      BY <3>1, <3>2, <1>8 DEF Items
  <2> QED
    BY <2>1, <2>2, <2>3 DEF Items
<1> QED
  BY <1>6, <1>8, <1>9 DEF more, refs, cs

-----------------------------------------------------------------------------
(* A backup run, step by step *)

Fresh(r, order) ==
    /\ DOMAIN r = RunFields /\ r.pc \in {"idle", "failed"}
    /\ r.keys = order.keys /\ r.roots = order.roots
    /\ r.specs = <<>> /\ r.f = 1 /\ r.i = 1 /\ r.len = 0 /\ r.chunks = <<>> /\ r.files = <<>>
    /\ r.seen = {} /\ r.pending = <<>> /\ r.asked = 0 /\ r.missing = {} /\ r.blobs = <<>>
    /\ r.counters = NoCounters /\ r.report = NoReport

LEMMA RunIsFresh ==
    ASSUME NEW order
    PROVE  Fresh(Run(order), order) /\ Fresh([Run(order) EXCEPT !.pc = "failed"], order)
<1>1. Fresh(Run(order), order)
  BY DEF Fresh, Run, RunFields
<1> DEFINE r == Run(order)
           n == [r EXCEPT !.pc = "failed"]
<1>2. DOMAIN r = RunFields
  BY <1>1 DEF Fresh
<1> HIDE DEF r
<1>3. /\ DOMAIN n = RunFields /\ n.pc = "failed"
      /\ n.keys = r.keys /\ n.roots = r.roots
      /\ n.specs = r.specs /\ n.f = r.f /\ n.i = r.i /\ n.len = r.len /\ n.chunks = r.chunks
      /\ n.files = r.files /\ n.seen = r.seen /\ n.pending = r.pending /\ n.missing = r.missing /\ n.asked = r.asked
      /\ n.blobs = r.blobs /\ n.counters = r.counters /\ n.report = r.report
  BY <1>2 DEF RunFields
<1> HIDE DEF n
<1>4. Fresh(n, order)
  BY <1>1, <1>3 DEF Fresh, r
<1> QED
  BY <1>1, <1>4 DEF n, r

LEMMA FreshInv ==
    ASSUME NEW r, NEW order, Fresh(r, order), order.keys \in KeyPair, Request(order.roots)
    PROVE  RunInv(r)
<1>1. /\ r.report.files = 0 /\ r.report.source_bytes = 0 /\ r.report.chunks_total = 0
      /\ r.report.chunks_unique = 0 /\ r.report.chunks_uploaded = 0 /\ r.report.chunks_deduped = 0
      /\ r.report.upload_bytes = 0 /\ r.report.manifest_bytes = 0
      /\ r.report.compression = NoCounters /\ DOMAIN r.report = ReportFields
  BY DEF Fresh, NoReport, ReportFields
<1>2. /\ r.counters.raw = 0 /\ r.counters.zstd3 = 0 /\ r.counters.escalated = 0
      /\ r.counters.escalation_attempts = 0 /\ r.counters.bytes_in = 0 /\ r.counters.bytes_out = 0
      /\ DOMAIN r.counters = CounterFields
  BY DEF Fresh, NoCounters, CounterFields
<1>3. r.pc \notin Working /\ r.pc \notin Closed
  BY DEF Fresh, Working, Closed
<1>30. r.report = [x \in ReportFields |-> r.report[x]]
  BY <1>1 DEF Fresh, NoReport, ReportFields
<1>4. RunShape(r)
  BY <1>1, <1>2, <1>30 DEF Fresh, RunShape
<1>5. RunWalk(r)
  <2>1. r.specs \in Seq(FileSpec) /\ Len(r.specs) = 0
    BY DEF Fresh
  <2>2. AreFiles(r.files, r.specs, r.f - 1, r.keys)
    <3>1. r.files \in Seq(ManifestEntry) /\ Len(r.files) = 0 /\ r.f - 1 = 0
      BY DEF Fresh
    <3> QED
      BY <3>1 DEF AreFiles
  <2>3. r.chunks \in Seq(ChunkIds) /\ Len(r.chunks) = 0
    BY DEF Fresh
  <2> QED
    BY <1>3, <2>1, <2>2, <2>3 DEF RunWalk, Fresh
<1>6. RunBatch(r)
  BY <1>3, OrdersAssumption DEF RunBatch, Fresh, Working
<1>7. RunLedger(r)
  <2>1. chunk_refs(r.files) = <<>> /\ Bytes(r.files) = 0 /\ Len(r.files) = 0
    BY RefsEmpty, BytesEmpty DEF Fresh
  <2>2. Items(<<>>) = {} /\ Len(<<>>) = 0
    BY DEF Items
  <2>3. IsFiniteSet({}) /\ Cardinality({}) = 0
    BY FS_EmptySet
  <2> QED
    BY <1>1, <2>1, <2>2, <2>3 DEF RunLedger, Fresh
<1>8. RunCounts(r)
  <2>1. Len(r.pending) = 0
    BY DEF Fresh
  <2>2. 0 * (1 + BLOB_OVERHEAD) = 0
    BY CodecAssumption
  <2>3. \A x \in CounterFields : r.counters[x] \in Nat
    BY <1>2 DEF CounterFields
  <2>4. Total(r.counters) = 0
    BY <1>2 DEF Total
  <2>5. r.report.upload_bytes = r.counters.bytes_out + r.report.chunks_uploaded * (1 + BLOB_OVERHEAD)
    <3>1. r.report.chunks_uploaded * (1 + BLOB_OVERHEAD) = 0
      BY <1>1, <2>2
    <3> QED
      BY <1>1, <1>2, <3>1
  <2> QED
    BY <1>1, <1>2, <2>1, <2>3, <2>4, <2>5 DEF RunCounts
<1>9. RunTick(r)
  BY <1>1, <1>3 DEF RunTick
<1> QED
  BY <1>4, <1>5, <1>6, <1>7, <1>8, <1>9 DEF RunInv

\* What a run is asked for stays what it was.
OrdersKept == \A t \in SnapshotId : sess'[t].keys = sess[t].keys /\ sess'[t].roots = sess[t].roots

LEMMA OneRun ==
    ASSUME SessInv, NEW s \in SnapshotId, NEW n, Goto(s, n), RunInv(n),
           n.keys = sess[s].keys, n.roots = sess[s].roots
    PROVE  SessInv' /\ OrdersKept
<1>1. DOMAIN sess' = SnapshotId /\ sess'[s] = n /\ \A t \in SnapshotId : t # s => sess'[t] = sess[t]
  BY DEF SessInv, Goto
<1> QED
  BY <1>1 DEF SessInv, OrdersKept

LEMMA FailsKeeps ==
    ASSUME SessInv, NEW s \in SnapshotId, Fails(s)
    PROVE  SessInv' /\ OrdersKept
<1> DEFINE n == [Run(sess[s]) EXCEPT !.pc = "failed"]
<1>1. Goto(s, n)
  BY DEF Fails
<1>2. Fresh(n, sess[s])
  BY RunIsFresh
<1>3. sess[s].keys \in KeyPair /\ Request(sess[s].roots)
  BY DEF SessInv, RunInv, RunShape
<1>4. RunInv(n)
  BY <1>2, <1>3, FreshInv
<1>5. n.keys = sess[s].keys /\ n.roots = sess[s].roots
  BY <1>2 DEF Fresh
<1> HIDE DEF n
<1> QED
  BY <1>1, <1>4, <1>5, OneRun

LEMMA BeginKeeps ==
    ASSUME SessInv, NEW s \in SnapshotId, begin(s)
    PROVE  SessInv' /\ OrdersKept
<1> DEFINE r == sess[s]
           phase == IF list_snapshots = {} THEN "InitialFull" ELSE "Incremental"
           specs == collect_files(r.roots)
           n == [r EXCEPT !.pc = "chunking", !.specs = specs, !.phase = phase]
<1>1. CASE ~ Acceptable(r.roots)
  BY <1>1, FailsKeeps DEF begin
<1>2. CASE Acceptable(r.roots)
  <2>1. Goto(s, n) /\ r.pc = "idle"
    BY <1>2 DEF begin
  <2>2. RunInv(r)
    BY DEF SessInv
  <2>3. specs \in Seq(FileSpec) /\ Len(specs) \in Nat
    BY <2>2, Collected, LenProperties DEF RunInv, RunShape
  <2> HIDE DEF r, phase, specs
  <2>4. /\ DOMAIN n = RunFields /\ n.pc = "chunking" /\ n.specs = specs /\ n.phase = phase
        /\ n.keys = r.keys /\ n.roots = r.roots /\ n.f = r.f /\ n.i = r.i
        /\ n.len = r.len /\ n.chunks = r.chunks /\ n.files = r.files /\ n.seen = r.seen
        /\ n.pending = r.pending /\ n.missing = r.missing /\ n.asked = r.asked /\ n.blobs = r.blobs
        /\ n.counters = r.counters /\ n.report = r.report
    BY <2>2 DEF RunInv, RunShape, RunFields
  <2> HIDE DEF n
  <2>5. n.pc \in Working /\ n.pc \notin Closed /\ r.pc \notin Working /\ r.pc \notin Closed
    BY <2>1, <2>4 DEF Working, Closed
  <2>6. RunShape(n)
    BY <2>2, <2>4, <2>5 DEF RunInv, RunShape
  <2>7. RunWalk(n)
    <3>1. RunWalk(r) /\ r.f = 1 /\ r.i = 1
      BY <2>1, <2>2 DEF RunInv, RunWalk
    <3>2. AreFiles(n.files, n.specs, n.f - 1, n.keys)
      <4>1. n.files \in Seq(ManifestEntry) /\ Len(n.files) = n.f - 1 /\ n.f - 1 = 0
        BY <2>4, <3>1 DEF RunWalk, AreFiles
      <4> QED
        BY <4>1 DEF AreFiles
    <3>3. n.f \in 1 .. (Len(n.specs) + 1) /\ n.i \in Nat \ {0} /\ n.len \in Nat
      BY <2>3, <2>4, <3>1 DEF RunWalk
    <3>4. n.chunks \in Seq(ChunkIds) /\ Len(n.chunks) = n.i - 1 /\ n.i - 1 = 0
      BY <2>4, <3>1 DEF RunWalk
    <3>5. n.f <= Len(n.specs) => n.i <= Len(Here(n).chunks) + 1
      <4>1. SUFFICES ASSUME 1 <= Len(specs) PROVE 1 <= Len(Here(n).chunks) + 1
        BY <2>4, <3>1
      <4>2. specs[1] \in FileSpec
        BY <2>3, <4>1, ElementOfSeq
      <4>3. Here(n).chunks \in Seq(Content)
        BY <2>4, <3>1, <4>2 DEF Here, FileSpec, DirEntry
      <4> QED
        BY <4>3, LenProperties
    <3> QED
      BY <1>2, <2>3, <2>4, <2>5, <3>1, <3>2, <3>3, <3>4, <3>5 DEF RunWalk, specs, r
  <2>8. RunBatch(n)
    <3>1. n.pending = <<>> /\ Len(n.pending) = 0
      BY <2>2, <2>4, <2>5 DEF RunInv, RunBatch
    <3> QED
      BY <2>2, <2>4, <2>5, <3>1, OrdersAssumption DEF RunInv, RunBatch
  <2>9. RunLedger(n)
    BY <2>2, <2>4 DEF RunInv, RunLedger
  <2>10. RunCounts(n)
    <3>1. ~ (n.counters.escalation_attempts > 0)
      BY <2>1, <2>2, <2>4 DEF RunInv, RunCounts
    <3> QED
      BY <2>2, <2>4, <3>1 DEF RunInv, RunCounts
  <2>11. RunTick(n)
    BY <2>1, <2>2, <2>4, <2>5 DEF RunInv, RunTick
  <2>12. RunInv(n)
    BY <2>6, <2>7, <2>8, <2>9, <2>10, <2>11 DEF RunInv
  <2> QED
    BY <2>1, <2>4, <2>12, OneRun DEF r
<1> QED
  BY <1>1, <1>2

LEMMA ItemsAppend ==
    ASSUME NEW S, NEW q \in Seq(S), NEW x \in S
    PROVE  Items(Append(q, x)) = Items(q) \cup {x}
<1> DEFINE L == Len(q)
           more == Append(q, x)
<1>1. L \in Nat /\ Len(more) = L + 1 /\ more[L + 1] = x /\ \A k \in 1 .. L : more[k] = q[k]
  BY AppendProperties, LenProperties
<1> HIDE DEF more, L
<1>2. \A k \in 1 .. (L + 1) : k = L + 1 \/ k \in 1 .. L
  BY <1>1
<1>3. L + 1 \in 1 .. (L + 1) /\ \A k \in 1 .. L : k \in 1 .. (L + 1)
  BY <1>1
<1> QED
  BY <1>1, <1>2, <1>3 DEF Items, L, more

\* The walk as the next chunk of the file under way is met.
LEMMA WalkMeets ==
    ASSUME NEW r, NEW n, NEW c, RunInv(r), Reading(r), r.i <= Len(Here(r).chunks),
           c = Here(r).chunks[r.i], n.pc \in Working, n.specs = r.specs, n.f = r.f,
           n.i = r.i + 1, n.len = r.len + Sizes[c].raw,
           n.chunks = Append(r.chunks, keyed(r.keys.id, c)),
           n.files = r.files, n.keys = r.keys, n.roots = r.roots
    PROVE  RunWalk(n) /\ c \in Content /\ keyed(r.keys.id, c) \in ChunkIds
<1> DEFINE id == keyed(r.keys.id, c)
           cs == Here(r).chunks
<1>1. RunWalk(r) /\ r.keys \in KeyPair /\ r.pc \in Working /\ r.f <= Len(r.specs)
  BY DEF RunInv, RunShape, Reading, Working
<1>2. /\ r.specs \in Seq(FileSpec) /\ Len(r.specs) \in Nat /\ r.f \in 1 .. Len(r.specs)
      /\ r.i \in Nat \ {0} /\ r.len \in Nat /\ r.chunks \in Seq(ChunkIds) /\ Len(r.chunks) = r.i - 1
  BY <1>1, LenProperties DEF RunWalk
<1>3. r.specs[r.f] \in FileSpec
  BY <1>2, ElementOfSeq
<1>4. cs \in Seq(Content) /\ Len(cs) \in Nat
  BY <1>3, LenProperties DEF Here, FileSpec, DirEntry
<1> HIDE DEF cs
<1>5. c \in Content
  <2>1. r.i \in 1 .. Len(cs)
    BY <1>2, <1>4 DEF cs
  <2> QED
    BY <1>4, <2>1, ElementOfSeq DEF cs
<1>6. id \in ChunkIds /\ Sizes[c].raw \in Nat
  BY <1>1, <1>5, CodecAssumption DEF ChunkIds
<1>7. Here(n) = Here(r)
  BY DEF Here
<1>8. /\ n.chunks \in Seq(ChunkIds) /\ Len(n.chunks) = n.i - 1
      /\ n.chunks[r.i] = id /\ \A k \in 1 .. (r.i - 1) : n.chunks[k] = r.chunks[k]
  <2>1. /\ n.chunks \in Seq(ChunkIds) /\ Len(n.chunks) = Len(r.chunks) + 1
        /\ n.chunks[Len(r.chunks) + 1] = id
        /\ \A k \in 1 .. Len(r.chunks) : n.chunks[k] = r.chunks[k]
    BY <1>2, <1>6, AppendProperties
  <2>2. Len(r.chunks) + 1 = r.i /\ n.i - 1 = r.i
    BY <1>2
  <2> QED
    BY <1>2, <2>1, <2>2
<1>9. \A k \in 1 .. (n.i - 1) : n.chunks[k] = keyed(n.keys.id, Here(n).chunks[k])
  <2>1. SUFFICES ASSUME NEW k \in 1 .. (n.i - 1)
                 PROVE  n.chunks[k] = keyed(r.keys.id, Here(r).chunks[k])
    BY <1>7
  <2>2. CASE k = r.i
    BY <2>2, <1>8
  <2>3. CASE k # r.i
    <3>1. k \in 1 .. (r.i - 1)
      BY <1>2, <2>3
    <3>2. r.chunks[k] = keyed(r.keys.id, Here(r).chunks[k])
      BY <1>1, <3>1 DEF RunWalk
    <3> QED
      BY <1>8, <3>1, <3>2
  <2> QED
    BY <2>2, <2>3
<1>10. AreFiles(n.files, n.specs, n.f - 1, n.keys)
  BY <1>1 DEF RunWalk
<1>11. n.f \in 1 .. (Len(n.specs) + 1) /\ n.i \in Nat \ {0} /\ n.len \in Nat /\ n.f # Len(n.specs) + 1
  <2> DEFINE L == Len(r.specs)
             size == Sizes[c].raw
  <2>1. L \in Nat /\ r.f \in 1 .. L /\ r.i \in Nat \ {0} /\ r.len \in Nat /\ size \in Nat
    BY <1>2, <1>6
  <2>2. Len(n.specs) = L /\ n.f = r.f /\ n.i = r.i + 1 /\ n.len = r.len + size
    OBVIOUS
  <2> HIDE DEF L, size
  <2> QED
    BY <2>1, <2>2
<1>12. n.i <= Len(Here(n).chunks) + 1
  BY <1>2, <1>4, <1>7 DEF cs
<1>13. n.pc # "idle" /\ n.pc \notin Closed
  BY DEF Working, Closed
<1> QED
  BY <1>1, <1>2, <1>5, <1>6, <1>8, <1>9, <1>10, <1>11, <1>12, <1>13 DEF RunWalk

LEMMA NextChunkKeeps ==
    ASSUME SessInv, NEW s \in SnapshotId, next_chunk(s)
    PROVE  SessInv' /\ OrdersKept
<1> DEFINE r   == sess[s]
           c   == Here(r).chunks[r.i]
           id  == keyed(r.keys.id, c)
           report == [r.report EXCEPT !.chunks_total = @ + 1]
           met == [r EXCEPT !.i = @ + 1, !.len = @ + Sizes[c].raw, !.chunks = Append(@, id),
                            !.report.chunks_total = @ + 1]
           new == [met EXCEPT !.seen = @ \cup {id}, !.report.chunks_unique = @ + 1,
                              !.bytes = @ + Sizes[c].raw, !.pending = Append(@, <<id, c>>)]
           full == Len(new.pending) >= BATCH_MAX_CHUNKS \/ new.bytes >= BATCH_MAX_BYTES
           queued == [new EXCEPT !.pc = IF full THEN "asking" ELSE @]
           n == IF id \in r.seen THEN met ELSE queued
<1>1. Goto(s, n) /\ Reading(r) /\ r.i <= Len(Here(r).chunks) /\ r.pc = "chunking"
  BY DEF next_chunk, Reading
<1>2. /\ RunInv(r) /\ DOMAIN r = RunFields /\ DOMAIN r.report = ReportFields
      /\ r.report = [x \in ReportFields |-> r.report[x]]
  BY DEF SessInv, RunInv, RunShape
<1> HIDE DEF r, c, id
<1>3. /\ DOMAIN met = RunFields /\ met.pc = r.pc /\ met.specs = r.specs /\ met.phase = r.phase
      /\ met.keys = r.keys /\ met.roots = r.roots /\ met.f = r.f /\ met.i = r.i + 1
      /\ met.len = r.len + Sizes[c].raw /\ met.chunks = Append(r.chunks, id)
      /\ met.files = r.files /\ met.seen = r.seen
      /\ met.pending = r.pending /\ met.missing = r.missing /\ met.asked = r.asked /\ met.blobs = r.blobs
      /\ met.counters = r.counters /\ met.report = report
  BY <1>2 DEF RunFields
<1>4. /\ DOMAIN report = ReportFields /\ report.chunks_total = r.report.chunks_total + 1
      /\ report.files = r.report.files /\ report.source_bytes = r.report.source_bytes
      /\ report.chunks_unique = r.report.chunks_unique
      /\ report.chunks_uploaded = r.report.chunks_uploaded
      /\ report.chunks_deduped = r.report.chunks_deduped
      /\ report.upload_bytes = r.report.upload_bytes
      /\ report.manifest_bytes = r.report.manifest_bytes
      /\ report.compression = r.report.compression
  BY <1>2 DEF ReportFields
<1>40. report = [x \in ReportFields |-> report[x]]
  BY <1>2
<1> HIDE DEF met, report
<1> DEFINE report2 == [report EXCEPT !.chunks_unique = @ + 1]
<1>5. /\ DOMAIN new = RunFields /\ new.pc = r.pc /\ new.specs = r.specs /\ new.phase = r.phase
      /\ new.keys = r.keys /\ new.roots = r.roots /\ new.f = r.f /\ new.i = r.i + 1
      /\ new.len = r.len + Sizes[c].raw /\ new.chunks = Append(r.chunks, id)
      /\ new.files = r.files /\ new.seen = r.seen \cup {id}
      /\ new.pending = Append(r.pending, <<id, c>>) /\ new.missing = r.missing /\ new.asked = r.asked /\ new.blobs = r.blobs
      /\ new.counters = r.counters /\ new.report = report2
  BY <1>3 DEF RunFields
<1>6. /\ DOMAIN report2 = ReportFields /\ report2.chunks_total = r.report.chunks_total + 1
      /\ report2.files = r.report.files /\ report2.source_bytes = r.report.source_bytes
      /\ report2.chunks_unique = r.report.chunks_unique + 1
      /\ report2.chunks_uploaded = r.report.chunks_uploaded
      /\ report2.chunks_deduped = r.report.chunks_deduped
      /\ report2.upload_bytes = r.report.upload_bytes
      /\ report2.manifest_bytes = r.report.manifest_bytes
      /\ report2.compression = r.report.compression
  BY <1>4 DEF ReportFields
<1>60. report2 = [x \in ReportFields |-> report2[x]]
  BY <1>40
<1> HIDE DEF new, report2, full
<1>7. /\ DOMAIN queued = RunFields /\ queued.pc = (IF full THEN "asking" ELSE r.pc)
      /\ queued.specs = r.specs /\ queued.phase = r.phase
      /\ queued.keys = r.keys /\ queued.roots = r.roots /\ queued.f = r.f /\ queued.i = r.i + 1
      /\ queued.len = r.len + Sizes[c].raw /\ queued.chunks = Append(r.chunks, id)
      /\ queued.files = r.files /\ queued.seen = r.seen \cup {id}
      /\ queued.pending = Append(r.pending, <<id, c>>) /\ queued.missing = r.missing /\ queued.asked = r.asked
      /\ queued.blobs = r.blobs /\ queued.counters = r.counters /\ queued.report = report2
  BY <1>5 DEF RunFields
<1> HIDE DEF queued
<1> DEFINE fresh == id \notin r.seen
<1>8. /\ DOMAIN n = RunFields /\ n.specs = r.specs /\ n.phase = r.phase
      /\ n.keys = r.keys /\ n.roots = r.roots /\ n.f = r.f /\ n.i = r.i + 1
      /\ n.len = r.len + Sizes[c].raw /\ n.chunks = Append(r.chunks, id)
      /\ n.files = r.files /\ n.seen = r.seen \cup {id} /\ n.missing = r.missing /\ n.asked = r.asked
      /\ n.blobs = r.blobs /\ n.counters = r.counters
      /\ DOMAIN n.report = ReportFields /\ n.report.chunks_total = r.report.chunks_total + 1
      /\ n.report.files = r.report.files /\ n.report.source_bytes = r.report.source_bytes
      /\ n.report.chunks_uploaded = r.report.chunks_uploaded
      /\ n.report.chunks_deduped = r.report.chunks_deduped
      /\ n.report.upload_bytes = r.report.upload_bytes
      /\ n.report.manifest_bytes = r.report.manifest_bytes
      /\ n.report.compression = r.report.compression
  BY <1>3, <1>4, <1>6, <1>7
<1>80. n.report = [x \in ReportFields |-> n.report[x]]
  BY <1>3, <1>7, <1>40, <1>60
<1>9. /\ ~ fresh => /\ n.pending = r.pending /\ n.pc = "chunking"
                    /\ n.report.chunks_unique = r.report.chunks_unique
      /\ fresh => /\ n.pending = Append(r.pending, <<id, c>>)
                  /\ n.pc = IF full THEN "asking" ELSE "chunking"
                  /\ n.report.chunks_unique = r.report.chunks_unique + 1
  BY <1>1, <1>3, <1>4, <1>6, <1>7
<1>10. full \/ Len(Append(r.pending, <<id, c>>)) < BATCH_MAX_CHUNKS
  <2>1. Len(Append(r.pending, <<id, c>>)) \in Nat
    BY <1>2 DEF RunInv, RunBatch
  <2> QED
    BY <1>5, <2>1, OrdersAssumption DEF full
<1> HIDE DEF n, full
<1>11. n.pc \in {"chunking", "asking"} /\ n.pc \in Working /\ n.pc \notin Closed /\ r.pc \in Working /\ r.pc \notin Closed
  BY <1>1, <1>9 DEF Working, Closed
<1>12. RunWalk(n) /\ c \in Content /\ id \in ChunkIds
  BY <1>1, <1>2, <1>8, <1>11, WalkMeets DEF c, id
<1>13. RunShape(n)
  BY <1>2, <1>8, <1>80, <1>11 DEF RunInv, RunShape
<1>14. RunBatch(n)
  <2>1. <<id, c>> \in Pending(r.keys)
    BY <1>12 DEF Pending, id
  <2>2. r.pending \in Seq(Pending(r.keys)) /\ Len(r.pending) \in Nat /\ Len(r.pending) < BATCH_MAX_CHUNKS
    BY <1>1, <1>2, LenProperties DEF RunInv, RunBatch
  <2>3. CASE fresh
    <3>0. n.pending = Append(r.pending, <<id, c>>) /\ n.keys = r.keys
      BY <1>8, <1>9, <2>3
    <3>1. n.pending \in Seq(Pending(n.keys)) /\ Len(n.pending) = Len(r.pending) + 1
      BY <3>0, <2>1, <2>2, AppendProperties
    <3> QED
      BY <1>2, <1>8, <1>9, <1>10, <1>11, <2>2, <2>3, <3>1, OrdersAssumption DEF RunInv, RunBatch
  <2>4. CASE ~ fresh
    BY <1>2, <1>8, <1>9, <1>11, <2>2, <2>4 DEF RunInv, RunBatch
  <2> QED
    BY <2>3, <2>4
<1>15. RunLedger(n)
  <2>1. RunLedger(r) /\ RunWalk(r)
    BY <1>2 DEF RunInv
  <2>2. r.chunks \in Seq(ChunkIds) /\ Len(r.chunks) \in Nat /\ r.files \in Seq(ManifestEntry)
    BY <2>1, LenProperties DEF RunWalk, AreFiles
  <2>3. Items(n.chunks) = Items(r.chunks) \cup {id} /\ Len(n.chunks) = Len(r.chunks) + 1
    BY <1>8, <1>12, <2>2, ItemsAppend, AppendProperties
  <2>4. IsFiniteSet(n.seen) /\ n.report.chunks_unique = Cardinality(n.seen)
    <3>1. CASE fresh
      <4>1. IsFiniteSet(r.seen) /\ id \notin r.seen /\ r.report.chunks_unique = Cardinality(r.seen)
        BY <2>1, <3>1 DEF RunLedger
      <4>2. IsFiniteSet(r.seen \cup {id}) /\ Cardinality(r.seen \cup {id}) = Cardinality(r.seen) + 1
        BY <4>1, FS_AddElement
      <4>3. n.seen = r.seen \cup {id} /\ n.report.chunks_unique = r.report.chunks_unique + 1
        BY <1>8, <1>9, <3>1
      <4> QED
        BY <4>1, <4>2, <4>3
    <3>2. CASE ~ fresh
      <4>1. n.seen = r.seen
        BY <1>8, <3>2
      <4> QED
        BY <1>9, <2>1, <3>2, <4>1 DEF RunLedger
    <3> QED
      BY <3>1, <3>2
  <2>5. n.seen \subseteq ChunkIds /\ n.seen = Items(chunk_refs(n.files)) \cup Items(n.chunks)
    BY <1>8, <1>12, <2>1, <2>3 DEF RunLedger
  <2>6. n.report.chunks_total = Len(chunk_refs(n.files)) + Len(n.chunks)
    <3> DEFINE L == Len(chunk_refs(r.files))
    <3>1. L \in Nat
      BY <2>2, RefsItems, LenProperties
    <3>2. r.report.chunks_total = L + Len(r.chunks) /\ Len(chunk_refs(n.files)) = L
      BY <1>8, <2>1 DEF RunLedger
    <3>3. n.report.chunks_total = r.report.chunks_total + 1
      BY <1>8
    <3> HIDE DEF L
    <3> QED
      BY <2>2, <2>3, <3>1, <3>2, <3>3
  <2> QED
    BY <1>8, <2>1, <2>4, <2>5, <2>6 DEF RunLedger
<1>16. RunCounts(n)
  <2>1. RunCounts(r) /\ r.pending \in Seq(Pending(r.keys)) /\ Len(r.pending) \in Nat
    BY <1>2, LenProperties DEF RunInv, RunBatch
  <2>2. fresh => Len(n.pending) = Len(r.pending) + 1
    BY <1>9, <1>12, <2>1, AppendProperties DEF Pending, id
  <2>3. n.report.chunks_unique = n.report.chunks_uploaded + n.report.chunks_deduped + Len(n.pending)
    <3>1. /\ r.report.chunks_uploaded \in Nat /\ r.report.chunks_deduped \in Nat
          /\ r.report.chunks_unique = r.report.chunks_uploaded + r.report.chunks_deduped + Len(r.pending)
      BY <2>1 DEF RunCounts
    <3>2. /\ n.report.chunks_uploaded = r.report.chunks_uploaded
          /\ n.report.chunks_deduped = r.report.chunks_deduped
      BY <1>8
    <3>3. CASE fresh
      <4>1. n.report.chunks_unique = r.report.chunks_unique + 1 /\ Len(n.pending) = Len(r.pending) + 1
        BY <1>9, <2>2, <3>3
      <4> QED
        BY <2>1, <3>1, <3>2, <4>1
    <3>4. CASE ~ fresh
      <4>1. n.report.chunks_unique = r.report.chunks_unique /\ n.pending = r.pending
        BY <1>9, <3>4
      <4> QED
        BY <2>1, <3>1, <3>2, <4>1
    <3> QED
      BY <3>3, <3>4
  <2> QED
    BY <1>8, <1>11, <2>1, <2>3 DEF RunCounts
<1>17. RunTick(n)
  BY <1>2, <1>8, <1>11 DEF RunInv, RunTick, Closed
<1>18. RunInv(n)
  BY <1>12, <1>13, <1>14, <1>15, <1>16, <1>17 DEF RunInv
<1> QED
  BY <1>1, <1>8, <1>18, OneRun DEF r

LEMMA FilesSized ==
    ASSUME NEW files \in Seq(ManifestEntry)
    PROVE  Sized(files)
<1>1. \A n \in 1 .. Len(files) : files[n] \in ManifestEntry
  BY ElementOfSeq
<1> QED
  BY <1>1 DEF Sized, ManifestEntry

LEMMA AreFilesAppend ==
    ASSUME NEW files, NEW specs, NEW m \in Nat, NEW keys \in KeyPair, NEW size \in Nat,
           AreFiles(files, specs, m, keys), specs[m + 1] \in FileSpec
    PROVE  AreFiles(Append(files, FileEntry(specs[m + 1], keys, size)), specs, m + 1, keys)
<1> DEFINE f == FileEntry(specs[m + 1], keys, size)
           more == Append(files, f)
<1>1. f \in ManifestEntry
  BY FileEntryType
<1>2. f.size = size
  BY DEF FileEntry
<1> HIDE DEF f
<1>3. /\ more \in Seq(ManifestEntry) /\ Len(more) = m + 1 /\ more[m + 1] = f
      /\ \A k \in 1 .. m : more[k] = files[k]
  BY <1>1, AppendProperties DEF AreFiles
<1> HIDE DEF more
<1>4. ASSUME NEW k \in 1 .. (m + 1) PROVE more[k] = FileEntry(specs[k], keys, more[k].size)
  <2>1. CASE k = m + 1
    BY <2>1, <1>2, <1>3 DEF f
  <2>2. CASE k # m + 1
    <3>1. k \in 1 .. m
      BY <2>2
    <3> QED
      BY <3>1, <1>3 DEF AreFiles
  <2> QED
    BY <2>1, <2>2
<1> QED
  BY <1>3, <1>4 DEF AreFiles, more, f

LEMMA EndFileKeeps ==
    ASSUME SessInv, NEW s \in SnapshotId, end_file(s)
    PROVE  SessInv' /\ OrdersKept
<1> DEFINE r == sess[s]
           m == mtime_parts(Here(r).mtime)
           entry == [path |-> r.specs[r.f].rel, size |-> r.len, mtime_secs |-> m[1],
                     mtime_nanos |-> m[2], mode |-> Here(r).mode, chunks |-> r.chunks]
           ended == [r EXCEPT !.f = @ + 1, !.i = 1, !.len = 0, !.chunks = <<>>,
                             !.files = Append(@, entry), !.report.files = @ + 1,
                             !.report.source_bytes = @ + r.len]
           report == [r.report EXCEPT !.files = @ + 1, !.source_bytes = @ + r.len]
           n == Ticked(ended, FALSE)
<1>1. Goto(s, n) /\ Reading(r) /\ r.i > Len(Here(r).chunks) /\ r.pc = "chunking"
  BY DEF end_file, Reading
<1>2. /\ RunInv(r) /\ DOMAIN r = RunFields /\ DOMAIN r.report = ReportFields
      /\ r.report = [x \in ReportFields |-> r.report[x]]
  BY DEF SessInv, RunInv, RunShape
<1>3. RunWalk(r) /\ RunLedger(r) /\ r.keys \in KeyPair /\ r.f <= Len(r.specs)
  BY <1>1, <1>2 DEF RunInv, RunShape, Reading
<1> HIDE DEF r
<1>4. /\ r.specs \in Seq(FileSpec) /\ Len(r.specs) \in Nat /\ r.f \in 1 .. Len(r.specs)
      /\ r.i \in Nat \ {0} /\ r.len \in Nat /\ r.chunks \in Seq(ChunkIds) /\ Len(r.chunks) = r.i - 1
      /\ r.f - 1 \in Nat /\ (r.f - 1) + 1 = r.f
  BY <1>3, LenProperties DEF RunWalk
<1>5. r.specs[r.f] \in FileSpec
  BY <1>4, ElementOfSeq
<1> DEFINE cs == r.specs[r.f].entry.chunks
<1>6. cs \in Seq(Content) /\ Len(cs) \in Nat /\ cs = Here(r).chunks
  BY <1>3, <1>5, FileEntryType DEF Here
<1>7. r.i = Len(cs) + 1
  BY <1>1, <1>3, <1>4, <1>6 DEF RunWalk
<1>8. r.chunks = [k \in 1 .. Len(cs) |-> keyed(r.keys.id, cs[k])]
  <2> HIDE DEF cs
  <2>1. \A k \in 1 .. Len(cs) : r.chunks[k] = keyed(r.keys.id, cs[k])
    <3>1. r.i - 1 = Len(cs)
      BY <1>6, <1>7
    <3> QED
      BY <1>3, <1>6, <3>1 DEF RunWalk
  <2>2. r.chunks = [k \in 1 .. Len(cs) |-> r.chunks[k]]
    BY <1>4, <1>6, <1>7
  <2> QED
    BY <2>1, <2>2
<1>9. entry = FileEntry(r.specs[r.f], r.keys, r.len)
  BY <1>8 DEF FileEntry, Here
<1>10. entry \in ManifestEntry /\ entry.size = r.len /\ entry.chunks = r.chunks
  <2>1. FileEntry(r.specs[r.f], r.keys, r.len) \in ManifestEntry
    BY <1>3, <1>4, <1>5, FileEntryType
  <2> QED
    BY <2>1, <1>9
<1> HIDE DEF entry, cs
<1>11. /\ DOMAIN ended = RunFields /\ ended.pc = r.pc /\ ended.specs = r.specs /\ ended.phase = r.phase
       /\ ended.keys = r.keys /\ ended.roots = r.roots /\ ended.f = r.f + 1 /\ ended.i = 1
       /\ ended.len = 0 /\ ended.chunks = <<>>
       /\ ended.files = Append(r.files, entry) /\ ended.seen = r.seen
       /\ ended.pending = r.pending /\ ended.missing = r.missing /\ ended.asked = r.asked /\ ended.blobs = r.blobs
       /\ ended.counters = r.counters /\ ended.report = report
  BY <1>2 DEF RunFields, ReportFields
<1>12. /\ DOMAIN report = ReportFields /\ report.chunks_total = r.report.chunks_total
       /\ report.files = r.report.files + 1 /\ report.source_bytes = r.report.source_bytes + r.len
       /\ report.chunks_unique = r.report.chunks_unique
       /\ report.chunks_uploaded = r.report.chunks_uploaded
       /\ report.chunks_deduped = r.report.chunks_deduped
       /\ report.upload_bytes = r.report.upload_bytes
       /\ report.manifest_bytes = r.report.manifest_bytes
       /\ report.compression = r.report.compression
  BY <1>2 DEF ReportFields
<1>13. report = [x \in ReportFields |-> report[x]]
  BY <1>2
<1> HIDE DEF ended, report
<1>14. /\ DOMAIN n = RunFields /\ n.pc = r.pc /\ n.specs = r.specs /\ n.phase = r.phase
       /\ n.keys = r.keys /\ n.roots = r.roots /\ n.f = r.f + 1 /\ n.i = 1
       /\ n.len = 0 /\ n.chunks = <<>>
       /\ n.files = Append(r.files, entry) /\ n.seen = r.seen
       /\ n.pending = r.pending /\ n.missing = r.missing /\ n.asked = r.asked /\ n.blobs = r.blobs
       /\ n.counters = r.counters /\ n.report = report
  BY <1>11 DEF RunFields, Ticked
<1> HIDE DEF n
<1>15. n.pc = "chunking" /\ n.pc \in Working /\ n.pc \notin Closed /\ r.pc \in Working
  BY <1>1, <1>14 DEF Working, Closed
<1>16. RunShape(n)
  BY <1>2, <1>12, <1>13, <1>14, <1>15 DEF RunInv, RunShape
<1>17. RunWalk(n)
  <2>1. AreFiles(n.files, n.specs, n.f - 1, n.keys)
    <3>1. AreFiles(r.files, r.specs, r.f - 1, r.keys)
      BY <1>3 DEF RunWalk
    <3>2. AreFiles(Append(r.files, entry), r.specs, (r.f - 1) + 1, r.keys)
      BY <1>3, <1>4, <1>5, <1>9, <3>1, AreFilesAppend
    <3>3. n.f - 1 = (r.f - 1) + 1
      BY <1>4, <1>14
    <3> QED
      BY <1>14, <3>2, <3>3
  <2>2. n.f <= Len(n.specs) => 1 <= Len(Here(n).chunks) + 1
    <3>1. SUFFICES ASSUME n.f <= Len(n.specs) PROVE 1 <= Len(Here(n).chunks) + 1
      OBVIOUS
    <3>2. n.f \in 1 .. Len(n.specs)
      BY <1>4, <1>14, <3>1
    <3>3. n.specs[n.f] \in FileSpec
      BY <1>4, <1>14, <3>2, ElementOfSeq
    <3>4. Here(n).chunks \in Seq(Content)
      BY <3>3 DEF Here, FileSpec, DirEntry
    <3> QED
      BY <3>4, LenProperties
  <2>3. n.f \in 1 .. (Len(n.specs) + 1) /\ n.i \in Nat \ {0} /\ n.len \in Nat
    BY <1>4, <1>14
  <2>4. n.chunks \in Seq(ChunkIds) /\ Len(n.chunks) = n.i - 1 /\ n.i - 1 = 0
    BY <1>14
  <2> QED
    BY <1>3, <1>14, <1>15, <2>1, <2>2, <2>3, <2>4 DEF RunWalk
<1>18. RunBatch(n)
  BY <1>1, <1>2, <1>14, <1>15 DEF RunInv, RunBatch
<1>19. RunLedger(n)
  <2>1. r.files \in Seq(ManifestEntry) /\ Len(r.files) \in Nat
    BY <1>3, LenProperties DEF RunWalk, AreFiles
  <2>2. /\ Len(chunk_refs(n.files)) = Len(chunk_refs(r.files)) + Len(r.chunks)
        /\ Items(chunk_refs(n.files)) = Items(chunk_refs(r.files)) \cup Items(r.chunks)
    BY <1>10, <1>14, <2>1, RefsAppend
  <2>3. Bytes(n.files) = Bytes(r.files) + r.len
    BY <1>4, <1>10, <1>14, <2>1, FilesSized, BytesAppend
  <2>4. Len(n.files) = Len(r.files) + 1
    BY <1>10, <1>14, <2>1, AppendProperties
  <2>5. Items(n.chunks) = {} /\ Len(n.chunks) = 0
    BY <1>14 DEF Items
  <2>6. Len(chunk_refs(n.files)) \in Nat
    <3>1. n.files \in Seq(ManifestEntry)
      BY <1>10, <1>14, <2>1, AppendProperties
    <3> QED
      BY <3>1, RefsItems, LenProperties
  <2>7. n.report.chunks_total = Len(chunk_refs(n.files)) + Len(n.chunks)
    <3>1. n.report.chunks_total = Len(chunk_refs(n.files))
      BY <1>3, <1>12, <1>14, <2>2 DEF RunLedger
    <3> QED
      BY <2>5, <2>6, <3>1
  <2>8. n.seen = Items(chunk_refs(n.files)) \cup Items(n.chunks)
    BY <1>3, <1>14, <2>2, <2>5 DEF RunLedger
  <2>9. n.report.source_bytes = Bytes(n.files) /\ n.report.files = Len(n.files)
    BY <1>3, <1>12, <1>14, <2>3, <2>4 DEF RunLedger
  <2> QED
    BY <1>3, <1>12, <1>14, <2>7, <2>8, <2>9 DEF RunLedger
<1>20. RunCounts(n)
  BY <1>2, <1>12, <1>14, <1>15 DEF RunInv, RunCounts
<1>21. RunTick(n)
  BY <1>2, <1>12, <1>14, <1>15 DEF RunInv, RunTick
<1>22. RunInv(n)
  BY <1>16, <1>17, <1>18, <1>19, <1>20, <1>21 DEF RunInv
<1> QED
  BY <1>1, <1>14, <1>22, OneRun DEF r

\* The two fields that are filled in late leave the others as they are.
LEMMA LateFields ==
    ASSUME NEW q, q = [x \in ReportFields |-> q[x]], NEW v
    PROVE  LET c == [q EXCEPT !.compression = v]
               b == [q EXCEPT !.manifest_bytes = v]
               base == [q EXCEPT !.manifest_bytes = 0, !.compression = NoCounters]
           IN  /\ [c EXCEPT !.manifest_bytes = 0, !.compression = NoCounters] = base
               /\ [b EXCEPT !.manifest_bytes = 0, !.compression = NoCounters] = base
               /\ q.manifest_bytes = 0 /\ q.compression = NoCounters => base = q
               /\ c = [x \in ReportFields |-> c[x]] /\ b = [x \in ReportFields |-> b[x]]
<1> DEFINE c == [q EXCEPT !.compression = v]
           b == [q EXCEPT !.manifest_bytes = v]
           base == [q EXCEPT !.manifest_bytes = 0, !.compression = NoCounters]
           c2 == [c EXCEPT !.manifest_bytes = 0, !.compression = NoCounters]
           b2 == [b EXCEPT !.manifest_bytes = 0, !.compression = NoCounters]
           plain == [x \in ReportFields |-> IF x = "compression" THEN NoCounters
                                            ELSE IF x = "manifest_bytes" THEN 0 ELSE q[x]]
<1>1. c = [x \in ReportFields |-> IF x = "compression" THEN v ELSE q[x]]
  BY DEF ReportFields
<1>2. b = [x \in ReportFields |-> IF x = "manifest_bytes" THEN v ELSE q[x]]
  BY DEF ReportFields
<1>3. base = plain
  BY DEF ReportFields
<1>4. c2 = plain
  <2>1. c2 = [x \in ReportFields |-> IF x = "compression" THEN NoCounters
                                      ELSE IF x = "manifest_bytes" THEN 0 ELSE c[x]]
    BY <1>1 DEF ReportFields
  <2> QED
    BY <1>1, <2>1
<1>5. b2 = plain
  <2>1. b2 = [x \in ReportFields |-> IF x = "compression" THEN NoCounters
                                      ELSE IF x = "manifest_bytes" THEN 0 ELSE b[x]]
    BY <1>2 DEF ReportFields
  <2> QED
    BY <1>2, <2>1
<1>6. q.manifest_bytes = 0 /\ q.compression = NoCounters => plain = q
  BY DEF ReportFields
<1>7. c = [x \in ReportFields |-> c[x]] /\ b = [x \in ReportFields |-> b[x]]
  BY <1>1, <1>2
<1> HIDE DEF plain
<1> QED
  BY <1>3, <1>4, <1>5, <1>6, <1>7

LEMMA FlushedInv ==
    ASSUME NEW r, RunInv(r), r.pc \in Working, r.pending = <<>>
    PROVE  RunInv(Flushed(r)) /\ Flushed(r).keys = r.keys /\ Flushed(r).roots = r.roots
<1>1. /\ DOMAIN r = RunFields /\ DOMAIN r.report = ReportFields
      /\ r.report = [x \in ReportFields |-> r.report[x]]
      /\ r.pc \notin Closed /\ r.pc # "idle" /\ Len(r.pending) = 0
  BY DEF RunInv, RunShape, Working, Closed
<1>2. CASE r.f <= Len(r.specs)
  <2> DEFINE back == [r EXCEPT !.pc = "chunking", !.bytes = 0]
             n == Ticked(back, FALSE)
  <2>1. Flushed(r) = n
    BY <1>2 DEF Flushed
  <2>2. /\ DOMAIN n = RunFields /\ n.pc = "chunking" /\ n.specs = r.specs /\ n.phase = r.phase
        /\ n.keys = r.keys /\ n.roots = r.roots /\ n.f = r.f /\ n.i = r.i
        /\ n.len = r.len /\ n.chunks = r.chunks /\ n.files = r.files /\ n.seen = r.seen
        /\ n.pending = r.pending /\ n.missing = r.missing /\ n.asked = r.asked /\ n.blobs = r.blobs
        /\ n.counters = r.counters /\ n.report = r.report
    BY <1>1 DEF RunFields, Ticked
  <2> HIDE DEF n
  <2>3. n.pc \in Working /\ n.pc \notin Closed
    BY <2>2 DEF Working, Closed
  <2>4. RunShape(n)
    BY <2>2, <2>3 DEF RunInv, RunShape
  <2>5. RunWalk(n)
    BY <2>2, <2>3 DEF RunInv, RunWalk, Here
  <2>6. RunBatch(n)
    BY <1>1, <2>2, <2>3, OrdersAssumption DEF RunInv, RunBatch
  <2>7. RunLedger(n)
    BY <2>2 DEF RunInv, RunLedger
  <2>8. RunCounts(n)
    BY <2>2 DEF RunInv, RunCounts
  <2>9. RunTick(n)
    BY <1>1, <2>2, <2>3 DEF RunInv, RunTick, Closed
  <2> QED
    BY <2>1, <2>2, <2>4, <2>5, <2>6, <2>7, <2>8, <2>9 DEF RunInv
<1>3. CASE ~ (r.f <= Len(r.specs))
  <2> DEFINE ticked == Ticked(r, TRUE)
             n == [ticked EXCEPT !.pc = "manifest", !.report.compression = r.counters]
             report == [r.report EXCEPT !.compression = r.counters]
  <2>1. Flushed(r) = n
    BY <1>3 DEF Flushed
  <2>2. /\ DOMAIN ticked = RunFields /\ ticked.pc = r.pc /\ ticked.specs = r.specs
        /\ ticked.phase = r.phase
        /\ ticked.keys = r.keys /\ ticked.roots = r.roots /\ ticked.f = r.f /\ ticked.i = r.i
        /\ ticked.len = r.len /\ ticked.chunks = r.chunks /\ ticked.files = r.files
        /\ ticked.seen = r.seen /\ ticked.pending = r.pending /\ ticked.missing = r.missing /\ ticked.asked = r.asked
        /\ ticked.blobs = r.blobs /\ ticked.counters = r.counters /\ ticked.report = r.report
        /\ ticked.tick = [report |-> r.report, final |-> TRUE]
    BY <1>1 DEF RunFields, Ticked
  <2> HIDE DEF ticked
  <2>3. /\ DOMAIN n = RunFields /\ n.pc = "manifest" /\ n.specs = r.specs /\ n.phase = r.phase
        /\ n.keys = r.keys /\ n.roots = r.roots /\ n.f = r.f /\ n.i = r.i
        /\ n.len = r.len /\ n.chunks = r.chunks /\ n.files = r.files /\ n.seen = r.seen
        /\ n.pending = r.pending /\ n.missing = r.missing /\ n.asked = r.asked /\ n.blobs = r.blobs
        /\ n.counters = r.counters /\ n.report = report
        /\ n.tick = [report |-> r.report, final |-> TRUE]
    BY <2>2 DEF RunFields
  <2>4. /\ DOMAIN report = ReportFields /\ report.chunks_total = r.report.chunks_total
        /\ report.files = r.report.files /\ report.source_bytes = r.report.source_bytes
        /\ report.chunks_unique = r.report.chunks_unique
        /\ report.chunks_uploaded = r.report.chunks_uploaded
        /\ report.chunks_deduped = r.report.chunks_deduped
        /\ report.upload_bytes = r.report.upload_bytes
        /\ report.manifest_bytes = r.report.manifest_bytes
        /\ report.compression = r.counters
    BY <1>1 DEF ReportFields
  <2>5. r.report.manifest_bytes = 0 /\ r.report.compression = NoCounters
    BY <1>1 DEF RunInv, RunTick, Closed
  <2>6. /\ report = [x \in ReportFields |-> report[x]]
        /\ [report EXCEPT !.manifest_bytes = 0, !.compression = NoCounters] = r.report
    <3> DEFINE q == r.report
               v == r.counters
    <3>1. q = [x \in ReportFields |-> q[x]] /\ q.manifest_bytes = 0 /\ q.compression = NoCounters
      BY <1>1, <2>5
    <3> HIDE DEF q, v
    <3>2. [q EXCEPT !.manifest_bytes = 0, !.compression = NoCounters] = q
      BY <3>1, LateFields
    <3>3. [[q EXCEPT !.compression = v] EXCEPT !.manifest_bytes = 0, !.compression = NoCounters] =
            [q EXCEPT !.manifest_bytes = 0, !.compression = NoCounters]
      BY <3>1, LateFields
    <3>4. [q EXCEPT !.compression = v] = [x \in ReportFields |-> [q EXCEPT !.compression = v][x]]
      BY <3>1
    <3> QED
      BY <3>2, <3>3, <3>4 DEF q, v
  <2> HIDE DEF n, report
  <2>7. n.pc \notin Working /\ n.pc \in Closed
    BY <2>3 DEF Working, Closed
  <2>8. RunShape(n)
    BY <2>3, <2>4, <2>6, <2>7 DEF RunInv, RunShape
  <2>9. RunWalk(n)
    <3>1. RunWalk(r) /\ Len(r.specs) \in Nat
      BY LenProperties DEF RunInv, RunWalk
    <3>2. r.f = Len(r.specs) + 1
      BY <1>3, <3>1 DEF RunWalk
    <3> QED
      BY <2>3, <2>7, <3>1, <3>2 DEF RunWalk, Here
  <2>10. RunBatch(n)
    BY <1>1, <2>3, <2>7, OrdersAssumption DEF RunInv, RunBatch
  <2>11. RunLedger(n)
    BY <2>3, <2>4 DEF RunInv, RunLedger
  <2>12. RunCounts(n)
    BY <2>3, <2>4 DEF RunInv, RunCounts
  <2>13. RunTick(n)
    BY <2>3, <2>4, <2>5, <2>6, <2>7 DEF RunTick
  <2> QED
    BY <2>1, <2>3, <2>8, <2>9, <2>10, <2>11, <2>12, <2>13 DEF RunInv
<1> QED
  BY <1>2, <1>3

\* A step that only moves on between the stages of a batch.
LEMMA StageInv ==
    ASSUME NEW r, RunInv(r), r.pc \in Working, NEW n, DOMAIN n = RunFields,
           n.pc \in {"asking", "packing"}, n.asked \in Nat, n.missing \subseteq ChunkIds,
           n.blobs \in Seq(Upload), n.specs = r.specs, n.phase = r.phase, n.keys = r.keys, n.roots = r.roots, n.f = r.f,
           n.i = r.i, n.len = r.len, n.chunks = r.chunks, n.files = r.files, n.seen = r.seen,
           n.pending = r.pending, n.counters = r.counters, n.report = r.report
    PROVE  RunInv(n)
<1>1. n.pc \in Working /\ n.pc \notin Closed /\ r.pc \notin Closed /\ n.pc # "idle" /\ n.pc # "chunking"
  BY DEF Working, Closed
<1>2. RunShape(n)
  BY <1>1 DEF RunInv, RunShape
<1>3. RunWalk(n)
  BY <1>1 DEF RunInv, RunWalk, Here
<1>4. RunBatch(n)
  BY <1>1 DEF RunInv, RunBatch
<1>5. RunLedger(n)
  BY DEF RunInv, RunLedger
<1>6. RunCounts(n)
  BY <1>1 DEF RunInv, RunCounts
<1>7. RunTick(n)
  BY <1>1 DEF RunInv, RunTick, Closed
<1> QED
  BY <1>2, <1>3, <1>4, <1>5, <1>6, <1>7 DEF RunInv

LEMMA LastFlushKeeps ==
    ASSUME SessInv, NEW s \in SnapshotId, last_flush(s)
    PROVE  SessInv' /\ OrdersKept
<1> DEFINE r == sess[s]
           n == [r EXCEPT !.pc = "asking"]
<1>1. RunInv(r) /\ r.pc \in Working /\ DOMAIN r = RunFields
  BY DEF SessInv, RunInv, RunShape, last_flush, Working
<1>2. CASE r.pending = <<>>
  <2>1. Goto(s, Flushed(r))
    BY <1>2 DEF last_flush
  <2> QED
    BY <1>1, <1>2, <2>1, FlushedInv, OneRun
<1>3. CASE r.pending # <<>>
  <2>1. Goto(s, n)
    BY <1>3 DEF last_flush
  <2> HIDE DEF r
  <2>2. /\ DOMAIN n = RunFields /\ n.pc = "asking" /\ n.specs = r.specs /\ n.phase = r.phase
        /\ n.keys = r.keys /\ n.roots = r.roots /\ n.f = r.f /\ n.i = r.i
        /\ n.len = r.len /\ n.chunks = r.chunks /\ n.files = r.files /\ n.seen = r.seen
        /\ n.pending = r.pending /\ n.missing = r.missing /\ n.asked = r.asked /\ n.blobs = r.blobs
        /\ n.counters = r.counters /\ n.report = r.report
    BY <1>1 DEF RunFields
  <2> HIDE DEF n
  <2>3. r.asked \in Nat /\ r.missing \subseteq ChunkIds /\ r.blobs \in Seq(Upload)
    BY <1>1 DEF RunInv, RunBatch
  <2>4. RunInv(n)
    BY <1>1, <2>2, <2>3, StageInv
  <2> QED
    BY <2>1, <2>2, <2>4, OneRun DEF r
<1> QED
  BY <1>2, <1>3

LEMMA FlushedKeeps ==
    ASSUME SessInv, NEW s \in SnapshotId, flushed(s)
    PROVE  SessInv' /\ OrdersKept
<1>1. RunInv(sess[s]) /\ sess[s].pc \in Working /\ sess[s].pending = <<>> /\ Goto(s, Flushed(sess[s]))
  BY DEF SessInv, flushed, Working
<1> QED
  BY <1>1, FlushedInv, OneRun

LEMMA AskKeeps ==
    ASSUME SessInv, NEW s \in SnapshotId, ask(s)
    PROVE  SessInv' /\ OrdersKept
<1> DEFINE r == sess[s]
           id == r.pending[r.asked + 1][1]
           before == IF r.asked = 0 THEN {} ELSE r.missing
           last == r.asked + 1 = Len(r.pending)
           pc == IF last THEN "packing" ELSE "asking"
           asked == IF last THEN 0 ELSE r.asked + 1
           missing == IF has_chunk(id) THEN before ELSE before \cup {id}
           n == [r EXCEPT !.pc = pc, !.asked = asked, !.missing = missing]
<1>1. RunInv(r) /\ r.pc \in Working /\ DOMAIN r = RunFields /\ Goto(s, n)
  BY DEF SessInv, RunInv, RunShape, ask, Working
<1>2. /\ r.pending \in Seq(Pending(r.keys)) /\ r.keys \in KeyPair /\ r.asked \in Nat
      /\ r.missing \subseteq ChunkIds /\ r.blobs \in Seq(Upload) /\ r.asked < Len(r.pending)
  BY <1>1 DEF RunInv, RunShape, RunBatch, ask
<1>3. id \in ChunkIds
  <2>1. r.pending[r.asked + 1] \in Pending(r.keys)
    BY <1>2, ElementOfSeq
  <2>2. \A p \in Pending(r.keys) : p[1] \in ChunkIds
    BY <1>2 DEF Pending, ChunkIds
  <2> QED
    BY <2>1, <2>2
<1>4. pc \in {"asking", "packing"} /\ asked \in Nat /\ missing \subseteq ChunkIds
  BY <1>2, <1>3
<1> HIDE DEF r, pc, asked, missing
<1>5. /\ DOMAIN n = RunFields /\ n.pc = pc /\ n.specs = r.specs /\ n.phase = r.phase
      /\ n.keys = r.keys /\ n.roots = r.roots /\ n.f = r.f /\ n.i = r.i
      /\ n.len = r.len /\ n.chunks = r.chunks /\ n.files = r.files /\ n.seen = r.seen
      /\ n.pending = r.pending /\ n.asked = asked /\ n.missing = missing /\ n.blobs = r.blobs
      /\ n.counters = r.counters /\ n.report = r.report
  BY <1>1 DEF RunFields
<1> HIDE DEF n
<1>6. RunInv(n)
  BY <1>1, <1>2, <1>4, <1>5, StageInv
<1> QED
  BY <1>1, <1>5, <1>6, OneRun DEF r

\* What every outcome of packing a chunk has in common.
LEMMA PackedInv ==
    ASSUME NEW r, RunInv(r), r.pc = "packing", r.pending # <<>>, NEW n, DOMAIN n = RunFields,
           n.pc = r.pc, n.missing = r.missing, n.asked = r.asked, n.blobs \in Seq(Upload),
           n.specs = r.specs, n.phase = r.phase, n.keys = r.keys, n.roots = r.roots, n.f = r.f,
           n.i = r.i, n.len = r.len, n.chunks = r.chunks, n.files = r.files, n.seen = r.seen,
           n.pending = Tail(r.pending), DOMAIN n.report = ReportFields,
           n.report = [x \in ReportFields |-> n.report[x]],
           n.report.chunks_total = r.report.chunks_total,
           n.report.files = r.report.files, n.report.source_bytes = r.report.source_bytes,
           n.report.chunks_unique = r.report.chunks_unique,
           n.report.manifest_bytes = r.report.manifest_bytes,
           n.report.compression = r.report.compression, DOMAIN n.counters = CounterFields
    PROVE  /\ RunShape(n) /\ RunWalk(n) /\ RunBatch(n) /\ RunLedger(n) /\ RunTick(n)
           /\ Len(r.pending) \in Nat /\ Len(n.pending) = Len(r.pending) - 1
<1>1. n.pc = "packing" /\ n.pc \in Working /\ n.pc \notin Closed /\ r.pc \in Working /\ r.pc \notin Closed
  BY DEF Working, Closed
<1>2. RunShape(n)
  BY <1>1 DEF RunInv, RunShape
<1>3. RunWalk(n)
  BY <1>1 DEF RunInv, RunWalk, Here
<1>4. /\ r.pending \in Seq(Pending(r.keys)) /\ Len(r.pending) \in Nat
      /\ n.pending \in Seq(Pending(r.keys)) /\ Len(n.pending) = Len(r.pending) - 1
  <2>1. r.pending \in Seq(Pending(r.keys))
    BY DEF RunInv, RunBatch
  <2>2. Len(r.pending) \in Nat
    BY <2>1, LenProperties
  <2>3. Tail(r.pending) \in Seq(Pending(r.keys)) /\ Len(Tail(r.pending)) = Len(r.pending) - 1
    BY <2>1, HeadTailProperties
  <2> QED
    BY <2>1, <2>2, <2>3
<1>5. RunBatch(n)
  <2>1. Len(n.pending) <= BATCH_MAX_CHUNKS
    BY <1>4, OrdersAssumption DEF RunInv, RunBatch
  <2> QED
    BY <1>1, <1>4, <2>1 DEF RunInv, RunBatch
<1>6. RunLedger(n)
  BY DEF RunInv, RunLedger
<1>7. RunTick(n)
  BY <1>1 DEF RunInv, RunTick, Closed
<1> QED
  BY <1>2, <1>3, <1>4, <1>5, <1>6, <1>7

LEMMA PackKeeps ==
    ASSUME SessInv, NEW s \in SnapshotId, pack(s)
    PROVE  SessInv' /\ OrdersKept
<1> DEFINE r == sess[s]
           id == Head(r.pending)[1]
           c == Head(r.pending)[2]
           blob == Packed(r, id, c)
           rest == [r EXCEPT !.pending = Tail(@)]
           shipped == [rest EXCEPT !.counters = Counted(@, c, r.phase, r.policy),
                         !.report.upload_bytes = @ + blob.data.len,
                         !.report.chunks_uploaded = @ + 1, !.blobs = Append(@, blob)]
           skipped == Skipped(rest)
<1>1. /\ r.pc = "packing" /\ r.pending # <<>>
      /\ Goto(s, IF id \in r.missing THEN shipped ELSE skipped)
  BY DEF pack
<1>2. /\ RunInv(r) /\ DOMAIN r = RunFields /\ DOMAIN r.report = ReportFields
      /\ r.report = [x \in ReportFields |-> r.report[x]]
      /\ r.keys \in KeyPair /\ DOMAIN r.counters = CounterFields
  BY DEF SessInv, RunInv, RunShape
<1>3. id = keyed(r.keys.id, c) /\ c \in Content
  <2>1. r.pending \in Seq(Pending(r.keys))
    BY <1>2 DEF RunInv, RunBatch
  <2>2. Head(r.pending) \in Pending(r.keys)
    BY <1>1, <2>1, HeadTailProperties
  <2> QED
    BY <2>2 DEF Pending
<1> DEFINE plen == PayloadLen(c, Bucket(c, r.phase, r.policy))
<1>4. blob \in Upload /\ blob.data.len = plen + 1 + BLOB_OVERHEAD /\ plen \in Nat
  BY <1>2, <1>3, PackedHolds
<1>5. RunCounts(r) /\ r.blobs \in Seq(Upload) /\ BLOB_OVERHEAD \in Nat
  BY <1>2, CodecAssumption DEF RunInv, RunBatch
<1> HIDE DEF r, id, c, blob, plen
<1>6. /\ DOMAIN rest = RunFields /\ rest.pc = r.pc /\ rest.specs = r.specs /\ rest.phase = r.phase
      /\ rest.keys = r.keys /\ rest.roots = r.roots /\ rest.f = r.f /\ rest.i = r.i
      /\ rest.len = r.len /\ rest.chunks = r.chunks /\ rest.files = r.files /\ rest.seen = r.seen
      /\ rest.pending = Tail(r.pending) /\ rest.missing = r.missing /\ rest.asked = r.asked /\ rest.blobs = r.blobs
      /\ rest.counters = r.counters /\ rest.report = r.report
  BY <1>2 DEF RunFields
<1> HIDE DEF rest
<1>7. CASE id \in r.missing
  <2> DEFINE n == shipped
             counters == Counted(r.counters, c, r.phase, r.policy)
             report == [r.report EXCEPT !.upload_bytes = @ + blob.data.len, !.chunks_uploaded = @ + 1]
  <2>1. /\ DOMAIN counters = CounterFields /\ \A x \in CounterFields : counters[x] \in Nat
        /\ Total(counters) = Total(r.counters) + 1
        /\ counters.bytes_out = r.counters.bytes_out + plen
        /\ counters.escalation_attempts > 0 =>
             r.counters.escalation_attempts > 0 \/ r.phase = "Incremental"
    BY <1>2, <1>3, <1>5, CountedOnce DEF RunCounts, plen
  <2> HIDE DEF counters
  <2>2. /\ DOMAIN n = RunFields /\ n.pc = r.pc /\ n.specs = r.specs /\ n.phase = r.phase
        /\ n.keys = r.keys /\ n.roots = r.roots /\ n.f = r.f /\ n.i = r.i
        /\ n.len = r.len /\ n.chunks = r.chunks /\ n.files = r.files /\ n.seen = r.seen
        /\ n.pending = Tail(r.pending) /\ n.missing = r.missing /\ n.asked = r.asked /\ n.blobs = Append(r.blobs, blob)
        /\ n.counters = counters /\ n.report = report
    BY <1>2, <1>6 DEF RunFields, ReportFields, counters
  <2>3. /\ DOMAIN report = ReportFields /\ report.chunks_total = r.report.chunks_total
        /\ report.files = r.report.files /\ report.source_bytes = r.report.source_bytes
        /\ report.chunks_unique = r.report.chunks_unique
        /\ report.chunks_uploaded = r.report.chunks_uploaded + 1
        /\ report.chunks_deduped = r.report.chunks_deduped
        /\ report.upload_bytes = r.report.upload_bytes + blob.data.len
        /\ report.manifest_bytes = r.report.manifest_bytes
        /\ report.compression = r.report.compression
    BY <1>2 DEF ReportFields
  <2>4. report = [x \in ReportFields |-> report[x]]
    BY <1>2
  <2> HIDE DEF n, report
  <2>5. n.blobs \in Seq(Upload)
    <3>1. Append(r.blobs, blob) \in Seq(Upload)
      BY <1>4, <1>5, AppendProperties
    <3> QED
      BY <2>2, <3>1
  <2>6. /\ RunShape(n) /\ RunWalk(n) /\ RunBatch(n) /\ RunLedger(n) /\ RunTick(n)
        /\ Len(r.pending) \in Nat /\ Len(n.pending) = Len(r.pending) - 1
    BY <1>1, <1>2, <2>1, <2>2, <2>3, <2>4, <2>5, PackedInv
  <2>7. RunCounts(n)
    <3> DEFINE u == r.report.chunks_uploaded
               d == r.report.chunks_deduped
               b == r.counters.bytes_out
    <3>1. /\ u \in Nat /\ d \in Nat /\ b \in Nat
          /\ r.report.chunks_unique = u + d + Len(r.pending)
          /\ u = Total(r.counters) /\ r.report.upload_bytes = b + u * (1 + BLOB_OVERHEAD)
      BY <1>5 DEF RunCounts, CounterFields
    <3>2. /\ n.report.chunks_uploaded = u + 1 /\ n.report.chunks_deduped = d
          /\ n.report.chunks_unique = r.report.chunks_unique
          /\ n.report.upload_bytes = r.report.upload_bytes + (plen + 1 + BLOB_OVERHEAD)
          /\ n.counters.bytes_out = b + plen
      BY <1>4, <2>1, <2>2, <2>3
    <3> HIDE DEF u, d, b
    <3>3. n.report.chunks_unique = n.report.chunks_uploaded + n.report.chunks_deduped + Len(n.pending)
      BY <2>6, <3>1, <3>2
    <3>4. (u + 1) * (1 + BLOB_OVERHEAD) = u * (1 + BLOB_OVERHEAD) + (1 + BLOB_OVERHEAD)
      BY <1>5, <3>1
    <3>5. u * (1 + BLOB_OVERHEAD) \in Nat
      BY <1>5, <3>1
    <3>6. n.report.upload_bytes = n.counters.bytes_out + n.report.chunks_uploaded * (1 + BLOB_OVERHEAD)
      <4> DEFINE v == u * (1 + BLOB_OVERHEAD)
      <4>1. n.report.chunks_uploaded * (1 + BLOB_OVERHEAD) = v + (1 + BLOB_OVERHEAD)
        BY <3>2, <3>4
      <4>2. n.report.upload_bytes = (b + v) + (plen + 1 + BLOB_OVERHEAD)
        BY <3>1, <3>2
      <4>3. v \in Nat
        BY <3>5
      <4> HIDE DEF v
      <4> QED
        BY <1>4, <1>5, <3>1, <3>2, <4>1, <4>2, <4>3
    <3>7. n.counters.escalation_attempts > 0 => n.phase = "Incremental"
      BY <1>5, <2>1, <2>2 DEF RunCounts
    <3>8. n.pc # "idle" /\ n.report.chunks_uploaded \in Nat /\ n.report.chunks_deduped \in Nat
      BY <1>1, <2>2, <3>1, <3>2
    <3>9. n.report.chunks_uploaded = Total(n.counters)
      BY <2>1, <2>2, <3>1, <3>2
    <3> QED
      BY <2>1, <2>2, <3>3, <3>6, <3>7, <3>8, <3>9 DEF RunCounts
  <2>8. RunInv(n)
    BY <2>6, <2>7 DEF RunInv
  <2> QED
    BY <1>1, <1>7, <2>2, <2>8, OneRun DEF r, n
<1>8. CASE id \notin r.missing
  <2> DEFINE n == skipped
             report == [r.report EXCEPT !.chunks_deduped = @ + 1]
  <2>2. /\ DOMAIN n = RunFields /\ n.pc = r.pc /\ n.specs = r.specs /\ n.phase = r.phase
        /\ n.keys = r.keys /\ n.roots = r.roots /\ n.f = r.f /\ n.i = r.i
        /\ n.len = r.len /\ n.chunks = r.chunks /\ n.files = r.files /\ n.seen = r.seen
        /\ n.pending = Tail(r.pending) /\ n.missing = r.missing /\ n.asked = r.asked /\ n.blobs = r.blobs
        /\ n.counters = r.counters /\ n.report = report
    BY <1>2, <1>6 DEF RunFields, ReportFields, Skipped
  <2>3. /\ DOMAIN report = ReportFields /\ report.chunks_total = r.report.chunks_total
        /\ report.files = r.report.files /\ report.source_bytes = r.report.source_bytes
        /\ report.chunks_unique = r.report.chunks_unique
        /\ report.chunks_uploaded = r.report.chunks_uploaded
        /\ report.chunks_deduped = r.report.chunks_deduped + 1
        /\ report.upload_bytes = r.report.upload_bytes
        /\ report.manifest_bytes = r.report.manifest_bytes
        /\ report.compression = r.report.compression
    BY <1>2 DEF ReportFields
  <2>4. report = [x \in ReportFields |-> report[x]]
    BY <1>2
  <2> HIDE DEF n, report
  <2>6. /\ RunShape(n) /\ RunWalk(n) /\ RunBatch(n) /\ RunLedger(n) /\ RunTick(n)
        /\ Len(r.pending) \in Nat /\ Len(n.pending) = Len(r.pending) - 1
    BY <1>1, <1>2, <1>5, <2>2, <2>3, <2>4, PackedInv
  <2>7. RunCounts(n)
    <3> DEFINE u == r.report.chunks_uploaded
               d == r.report.chunks_deduped
    <3>1. u \in Nat /\ d \in Nat /\ r.report.chunks_unique = u + d + Len(r.pending)
      BY <1>5 DEF RunCounts
    <3>2. /\ n.report.chunks_uploaded = u /\ n.report.chunks_deduped = d + 1
          /\ n.report.chunks_unique = r.report.chunks_unique
      BY <2>2, <2>3
    <3> HIDE DEF u, d
    <3>3. n.report.chunks_unique = n.report.chunks_uploaded + n.report.chunks_deduped + Len(n.pending)
      <4> DEFINE l == Len(r.pending)
      <4>1. l \in Nat /\ Len(n.pending) = l - 1
        BY <2>6
      <4>2. n.report.chunks_unique = u + d + l
        BY <3>1, <3>2
      <4> HIDE DEF l
      <4>3. u + d + l = u + (d + 1) + (l - 1)
        BY <3>1, <4>1
      <4> QED
        BY <3>2, <4>1, <4>2, <4>3
    <3>4. n.report.chunks_deduped \in Nat
      BY <3>1, <3>2
    <3> QED
      BY <1>5, <2>2, <2>3, <3>3, <3>4 DEF RunCounts
  <2>8. RunInv(n)
    BY <2>6, <2>7 DEF RunInv
  <2> QED
    BY <1>1, <1>8, <2>2, <2>8, OneRun DEF r, n
<1> QED
  BY <1>7, <1>8

LEMMA UploadChunkKeeps ==
    ASSUME SessInv, NEW s \in SnapshotId, upload_chunk(s)
    PROVE  SessInv' /\ OrdersKept /\ Head(sess[s].blobs) \in Upload
<1> DEFINE r == sess[s]
           n == [r EXCEPT !.blobs = Tail(@)]
<1>1. /\ RunInv(r) /\ r.pc = "packing" /\ r.pc \in Working /\ DOMAIN r = RunFields /\ Goto(s, n)
      /\ r.blobs # <<>> /\ r.blobs \in Seq(Upload) /\ r.asked \in Nat /\ r.missing \subseteq ChunkIds
  BY DEF SessInv, RunInv, RunShape, RunBatch, upload_chunk, Working
<1>2. Tail(r.blobs) \in Seq(Upload) /\ Head(r.blobs) \in Upload
  BY <1>1, HeadTailProperties
<1> HIDE DEF r
<1>3. /\ DOMAIN n = RunFields /\ n.pc = "packing" /\ n.specs = r.specs /\ n.phase = r.phase
      /\ n.keys = r.keys /\ n.roots = r.roots /\ n.f = r.f /\ n.i = r.i
      /\ n.len = r.len /\ n.chunks = r.chunks /\ n.files = r.files /\ n.seen = r.seen
      /\ n.pending = r.pending /\ n.missing = r.missing /\ n.asked = r.asked /\ n.blobs = Tail(r.blobs)
      /\ n.counters = r.counters /\ n.report = r.report
  BY <1>1 DEF RunFields
<1> HIDE DEF n
<1>4. RunInv(n)
  BY <1>1, <1>2, <1>3, StageInv
<1> QED
  BY <1>1, <1>2, <1>3, <1>4, OneRun DEF r

\* A run behind its last flush changes but for the size of its manifest.
LEMMA ClosedInv ==
    ASSUME NEW r, RunInv(r), r.pc \in Closed, NEW n, DOMAIN n = RunFields, n.pc \in {"stored", "done"},
           n.missing = r.missing, n.asked = r.asked, n.blobs = r.blobs,
           n.specs = r.specs, n.phase = r.phase, n.keys = r.keys, n.roots = r.roots, n.f = r.f,
           n.i = r.i, n.len = r.len, n.chunks = r.chunks, n.files = r.files, n.seen = r.seen,
           n.pending = r.pending, n.counters = r.counters, n.tick = r.tick, NEW v,
           n.report = r.report \/ n.report = [r.report EXCEPT !.manifest_bytes = v]
    PROVE  RunInv(n)
<1>1. n.pc \in Closed /\ n.pc \notin Working /\ n.pc # "idle" /\ n.pc # "chunking"
  BY DEF Closed, Working
<1>2. /\ DOMAIN r.report = ReportFields /\ r.report = [x \in ReportFields |-> r.report[x]]
  BY DEF RunInv, RunShape
<1> DEFINE q == r.report
           b == [q EXCEPT !.manifest_bytes = v]
           base(p) == [p EXCEPT !.manifest_bytes = 0, !.compression = NoCounters]
<1>3. b = [x \in ReportFields |-> b[x]] /\ base(b) = base(q)
  <2>1. q = [x \in ReportFields |-> q[x]]
    BY <1>2
  <2> HIDE DEF q
  <2>2. base(b) = base(q)
    BY <2>1, LateFields
  <2>3. b = [x \in ReportFields |-> b[x]]
    BY <2>1, LateFields
  <2> QED
    BY <2>2, <2>3
<1>4. /\ DOMAIN b = ReportFields /\ b.chunks_total = q.chunks_total
      /\ b.files = q.files /\ b.source_bytes = q.source_bytes
      /\ b.chunks_unique = q.chunks_unique /\ b.chunks_uploaded = q.chunks_uploaded
      /\ b.chunks_deduped = q.chunks_deduped /\ b.upload_bytes = q.upload_bytes
      /\ b.compression = q.compression
  BY <1>2 DEF ReportFields
<1>5. n.report = q \/ n.report = b
  OBVIOUS
<1> HIDE DEF b
<1>6. /\ DOMAIN n.report = ReportFields /\ n.report = [x \in ReportFields |-> n.report[x]]
      /\ n.report.chunks_total = q.chunks_total
      /\ n.report.files = q.files /\ n.report.source_bytes = q.source_bytes
      /\ n.report.chunks_unique = q.chunks_unique /\ n.report.chunks_uploaded = q.chunks_uploaded
      /\ n.report.chunks_deduped = q.chunks_deduped /\ n.report.upload_bytes = q.upload_bytes
      /\ n.report.compression = q.compression
  BY <1>2, <1>3, <1>4, <1>5
<1>7. base(n.report) = base(q)
  <2> HIDE DEF base
  <2> QED
    BY <1>3, <1>5
<1>8. RunShape(n)
  BY <1>1, <1>6 DEF RunInv, RunShape
<1>9. RunWalk(n)
  BY <1>1 DEF RunInv, RunWalk, Here
<1>10. RunBatch(n)
  <2>1. r.pc \notin Working
    BY DEF Working, Closed
  <2> QED
    BY <1>1, <2>1 DEF RunInv, RunBatch
<1>11. RunLedger(n)
  BY <1>6 DEF RunInv, RunLedger
<1>12. RunCounts(n)
  BY <1>1, <1>6 DEF RunInv, RunCounts
<1>13. RunTick(n)
  <2>1. r.tick = [final |-> TRUE, report |-> base(q)] /\ q.compression = r.counters
    BY DEF RunInv, RunTick
  <2>2. n.tick = [final |-> TRUE, report |-> base(n.report)] /\ n.report.compression = n.counters
    <3> HIDE DEF base
    <3> QED
      BY <1>6, <1>7, <2>1
  <2> QED
    BY <1>1, <2>2 DEF RunTick
<1> QED
  BY <1>8, <1>9, <1>10, <1>11, <1>12, <1>13 DEF RunInv

\* A manifest that is stored names its run's files, all of them.
LEMMA StoreManifestKeeps ==
    ASSUME SessInv, NEW s \in SnapshotId, store_manifest(s)
    PROVE  /\ SessInv' /\ OrdersKept
           /\ \/ UNCHANGED rpcVars
              \/ /\ put_manifest(s, Sealed(s), chunk_refs(sess[s].files))
                 /\ SnapshotOf(sess[s].files, sess[s])
<1> DEFINE r == sess[s]
           b == [r EXCEPT !.pc = "stored"]
           n == [r EXCEPT !.pc = "stored", !.report.manifest_bytes = Sealed(s).len]
<1>1. RunInv(r) /\ r.pc = "manifest" /\ r.pc \in Closed /\ DOMAIN r = RunFields
  BY DEF SessInv, RunInv, RunShape, store_manifest, Closed
<1>2. SnapshotOf(r.files, r)
  <2>1. Acceptable(r.roots) /\ r.specs = collect_files(r.roots) /\ r.f = Len(r.specs) + 1
        /\ AreFiles(r.files, r.specs, r.f - 1, r.keys) /\ r.specs \in Seq(FileSpec)
    BY <1>1 DEF RunInv, RunWalk
  <2>2. Len(r.specs) \in Nat
    BY <2>1, LenProperties
  <2>3. r.f - 1 = Len(r.specs)
    BY <2>1, <2>2
  <2> QED
    BY <2>1, <2>3 DEF SnapshotOf
<1>3. \/ put_manifest(s, Sealed(s), chunk_refs(r.files)) /\ Goto(s, n)
      \/ Fails(s) /\ UNCHANGED rpcVars
  BY DEF store_manifest
<1>4. CASE put_manifest(s, Sealed(s), chunk_refs(r.files)) /\ Goto(s, n)
  <2> DEFINE v == Sealed(s).len
             report == [r.report EXCEPT !.manifest_bytes = v]
  <2> HIDE DEF r, v
  <2>1. n = [r EXCEPT !.pc = "stored", !.report.manifest_bytes = v]
    BY DEF v
  <2>2. /\ DOMAIN n = RunFields /\ n.pc = "stored" /\ n.specs = r.specs /\ n.phase = r.phase
        /\ n.keys = r.keys /\ n.roots = r.roots /\ n.f = r.f /\ n.i = r.i
        /\ n.len = r.len /\ n.chunks = r.chunks /\ n.files = r.files /\ n.seen = r.seen
        /\ n.pending = r.pending /\ n.missing = r.missing /\ n.asked = r.asked /\ n.blobs = r.blobs
        /\ n.counters = r.counters /\ n.report = report /\ n.tick = r.tick
    BY <1>1, <2>1 DEF RunFields
  <2> HIDE DEF n
  <2>3. RunInv(n)
    BY <1>1, <2>2, ClosedInv
  <2>4. SessInv' /\ OrdersKept
    BY <1>4, <2>2, <2>3, OneRun DEF r
  <2> QED
    BY <1>2, <1>4, <2>4 DEF r
<1>5. CASE Fails(s) /\ UNCHANGED rpcVars
  BY <1>5, FailsKeeps
<1> QED
  BY <1>3, <1>4, <1>5

LEMMA AcknowledgedKeeps ==
    ASSUME SessInv, NEW s \in SnapshotId, acknowledged(s)
    PROVE  SessInv' /\ OrdersKept
<1> DEFINE r == sess[s]
           n == [r EXCEPT !.pc = "done"]
<1>1. RunInv(r) /\ r.pc \in Closed /\ DOMAIN r = RunFields /\ Goto(s, n)
  BY DEF SessInv, RunInv, RunShape, acknowledged, Closed
<1> HIDE DEF r
<1>2. /\ DOMAIN n = RunFields /\ n.pc = "done" /\ n.specs = r.specs /\ n.phase = r.phase
      /\ n.keys = r.keys /\ n.roots = r.roots /\ n.f = r.f /\ n.i = r.i
      /\ n.len = r.len /\ n.chunks = r.chunks /\ n.files = r.files /\ n.seen = r.seen
      /\ n.pending = r.pending /\ n.missing = r.missing /\ n.asked = r.asked /\ n.blobs = r.blobs
      /\ n.counters = r.counters /\ n.report = r.report /\ n.tick = r.tick
  BY <1>1 DEF RunFields
<1> HIDE DEF n
<1>3. RunInv(n)
  BY <1>1, <1>2, ClosedInv
<1> QED
  BY <1>1, <1>2, <1>3, OneRun DEF r

-----------------------------------------------------------------------------
(* The daemon *)

\* A snapshot that is left alone stays whole as long as its chunks are held.
LEMMA ListedKept ==
    ASSUME NEW t \in SnapshotId, Listed(t), OrdersKept, live'[t] = live[t],
           manifests'[t] = manifests[t], Items(live[t]) \subseteq DOMAIN content'
    PROVE  Listed(t)'
<1>1. PICK files : /\ SnapshotOf(files, sess[t]) /\ live[t] = chunk_refs(files)
                   /\ manifests[t] = seal(sess[t].keys.data, t, encode(files), Len(encode(files)))
  BY DEF Listed
<1>2. sess'[t].keys = sess[t].keys /\ sess'[t].roots = sess[t].roots
  BY DEF OrdersKept
<1>3. SnapshotOf(files, sess'[t])
  BY <1>1, <1>2 DEF SnapshotOf
<1>4. manifests'[t] = seal(sess'[t].keys.data, t, encode(files), Len(encode(files)))
  BY <1>1, <1>2
<1> QED
  BY <1>1, <1>3, <1>4 DEF Listed

LEMMA VaultIdle ==
    ASSUME VaultInv, ListedInv, OrdersKept, UNCHANGED rpcVars
    PROVE  VaultInv' /\ ListedInv'
<1>1. content' = content /\ live' = live /\ manifests' = manifests /\ rotten' = rotten
  BY DEF rpcVars
<1>2. VaultInv'
  BY <1>1 DEF VaultInv
<1>3. ASSUME NEW t \in DOMAIN live' PROVE Listed(t)'
  <2>1. t \in SnapshotId /\ Listed(t)
    BY <1>1, <1>3 DEF VaultInv, ListedInv
  <2>2. Items(live[t]) \subseteq DOMAIN content'
    BY <1>1, <2>1 DEF Listed
  <2> QED
    BY <1>1, <2>1, <2>2, ListedKept
<1> QED
  BY <1>2, <1>3 DEF ListedInv

LEMMA PutChunkKeeps ==
    ASSUME VaultInv, ListedInv, OrdersKept, NEW u \in Upload, put_chunk(u.id, u.data)
    PROVE  VaultInv' /\ ListedInv'
<1> DEFINE id == u.id
           blob == u.data
<1>1. id \in ChunkIds /\ blob \in Blob /\ Holds(id, blob)
  BY DEF Upload
<1> HIDE DEF id, blob
<1>2. manifests' = manifests /\ rotten' = rotten /\ live' = live
  BY DEF put_chunk, Vault!Store
<1>3. CASE id \in DOMAIN content
  BY <1>2, <1>3, VaultIdle DEF put_chunk, id, rpcVars
<1>4. CASE id \notin DOMAIN content
  <2>1. content' = [x \in DOMAIN content \cup {id} |-> IF x = id THEN blob ELSE content[x]]
    BY <1>4 DEF put_chunk, Vault!Store, id, blob
  <2>2. /\ DOMAIN content' = DOMAIN content \cup {id} /\ content'[id] = blob
        /\ \A x \in DOMAIN content : content'[x] = content[x]
    BY <1>4, <2>1
  <2>3. VaultInv'
    BY <1>1, <1>2, <2>2 DEF VaultInv
  <2>4. ASSUME NEW t \in DOMAIN live' PROVE Listed(t)'
    <3>1. t \in SnapshotId /\ Listed(t)
      BY <1>2, <2>4 DEF VaultInv, ListedInv
    <3>2. Items(live[t]) \subseteq DOMAIN content'
      BY <2>2, <3>1 DEF Listed
    <3> QED
      BY <1>2, <3>1, <3>2, ListedKept
  <2> QED
    BY <2>3, <2>4 DEF ListedInv
<1> QED
  BY <1>3, <1>4

LEMMA PutManifestKeeps ==
    ASSUME VaultInv, ListedInv, OrdersKept, NEW s \in SnapshotId, NEW files,
           SnapshotOf(files, sess[s]),
           put_manifest(s, seal(sess[s].keys.data, s, encode(files), Len(encode(files))),
                        chunk_refs(files))
    PROVE  VaultInv' /\ ListedInv'
<1> DEFINE refs == chunk_refs(files)
           sealed == seal(sess[s].keys.data, s, encode(files), Len(encode(files)))
<1>1. files \in Seq(ManifestEntry)
  BY DEF SnapshotOf, AreFiles
<1>2. refs \in Seq(ChunkIds)
  BY <1>1, RefsItems
<1>3. /\ s \notin DOMAIN live /\ \A i \in DOMAIN refs : refs[i] \in DOMAIN content
      /\ live' = [x \in DOMAIN live \cup {s} |-> IF x = s THEN refs ELSE live[x]]
      /\ manifests' = [x \in DOMAIN manifests \cup {s} |-> IF x = s THEN sealed ELSE manifests[x]]
      /\ content' = content /\ rotten' = rotten
  BY DEF put_manifest, Vault!Accept
<1> HIDE DEF refs, sealed
<1>4. Items(refs) \subseteq DOMAIN content
  BY <1>2, <1>3 DEF Items
<1>5. DOMAIN live = DOMAIN manifests
  BY DEF VaultInv
<1>6. /\ DOMAIN live' = DOMAIN live \cup {s} /\ live'[s] = refs
      /\ \A t \in DOMAIN live : live'[t] = live[t]
  BY <1>3
<1>7. /\ DOMAIN manifests' = DOMAIN live \cup {s} /\ manifests'[s] = sealed
      /\ \A t \in DOMAIN live : manifests'[t] = manifests[t]
  BY <1>3, <1>5
<1>8. VaultInv'
  BY <1>3, <1>6, <1>7 DEF VaultInv
<1>9. Listed(s)'
  <2>1. sess'[s].keys = sess[s].keys /\ sess'[s].roots = sess[s].roots
    BY DEF OrdersKept
  <2>2. SnapshotOf(files, sess'[s])
    BY <2>1 DEF SnapshotOf
  <2>3. manifests'[s] = seal(sess'[s].keys.data, s, encode(files), Len(encode(files)))
    BY <1>7, <2>1 DEF sealed
  <2> QED
    BY <1>3, <1>4, <1>6, <2>2, <2>3 DEF Listed, refs
<1>10. ASSUME NEW t \in DOMAIN live PROVE Listed(t)'
  <2>1. t \in SnapshotId /\ Listed(t)
    BY DEF VaultInv, ListedInv
  <2>2. Items(live[t]) \subseteq DOMAIN content'
    BY <1>3, <2>1 DEF Listed
  <2> QED
    BY <1>6, <1>7, <2>1, <2>2, ListedKept
<1> QED
  BY <1>6, <1>8, <1>9, <1>10 DEF ListedInv

LEMMA EnvKeeps ==
    ASSUME VaultInv, ListedInv, SessInv, RpcEnv, sess' = sess
    PROVE  VaultInv' /\ ListedInv'
<1>0. OrdersKept
  BY DEF OrdersKept
<1>1. CASE gc
  <2>1. PICK id \in DOMAIN content : Vault!Reclaim({id}) /\ rotten' = rotten \ {id} /\ manifests' = manifests
    BY <1>1 DEF gc
  <2>2. /\ id \notin Vault!Referenced /\ live' = live
        /\ content' = [x \in DOMAIN content \ {id} |-> content[x]]
    BY <2>1 DEF Vault!Reclaim
  <2>3. /\ DOMAIN content' = DOMAIN content \ {id}
        /\ \A x \in DOMAIN content \ {id} : content'[x] = content[x]
    BY <2>2
  <2>4. VaultInv'
    BY <2>1, <2>2, <2>3 DEF VaultInv
  <2>5. ASSUME NEW t \in DOMAIN live' PROVE Listed(t)'
    <3>1. t \in SnapshotId /\ Listed(t) /\ t \in DOMAIN live
      BY <2>2, <2>5 DEF VaultInv, ListedInv
    <3>2. PICK files : SnapshotOf(files, sess[t]) /\ live[t] = chunk_refs(files)
      BY <3>1 DEF Listed
    <3>3. live[t] \in Seq(ChunkIds)
      BY <3>2, RefsItems DEF SnapshotOf, AreFiles
    <3>4. Items(live[t]) \subseteq Vault!Referenced
      <4>1. \A k \in 1 .. Len(live[t]) : k \in DOMAIN live[t] /\ live[t][k] \in ChunkIds
        BY <3>3
      <4> QED
        BY <3>1, <4>1 DEF Items, Vault!Referenced
    <3>5. Items(live[t]) \subseteq DOMAIN content'
      BY <2>2, <2>3, <3>1, <3>4 DEF Listed
    <3> QED
      BY <1>0, <2>1, <2>2, <3>1, <3>5, ListedKept
  <2> QED
    BY <2>4, <2>5 DEF ListedInv
<1>2. CASE prune
  <2>1. PICK s \in DOMAIN live : /\ Vault!Retire(s) /\ rotten' = rotten
                                 /\ manifests' = [x \in DOMAIN manifests \ {s} |-> manifests[x]]
    BY <1>2 DEF prune
  <2>2. content' = content /\ live' = [x \in DOMAIN live \ {s} |-> live[x]]
    BY <2>1 DEF Vault!Retire
  <2>3. VaultInv'
    BY <2>1, <2>2 DEF VaultInv
  <2>4. ASSUME NEW t \in DOMAIN live' PROVE Listed(t)'
    <3>1. /\ t \in DOMAIN live /\ t \in DOMAIN manifests /\ t # s
          /\ t \in SnapshotId /\ Listed(t)
      BY <2>2, <2>4 DEF VaultInv, ListedInv
    <3>2. live'[t] = live[t] /\ manifests'[t] = manifests[t]
      BY <2>1, <2>2, <3>1
    <3>3. Items(live[t]) \subseteq DOMAIN content'
      BY <2>2, <3>1 DEF Listed
    <3> QED
      BY <1>0, <3>1, <3>2, <3>3, ListedKept
  <2> QED
    BY <2>3, <2>4 DEF ListedInv
<1>3. CASE Rot
  <2>1. /\ content' = content /\ live' = live /\ manifests' = manifests
        /\ \E id \in DOMAIN content : rotten' = rotten \cup {id}
    BY <1>3 DEF Rot
  <2>2. VaultInv'
    BY <2>1 DEF VaultInv
  <2>3. ASSUME NEW t \in DOMAIN live' PROVE Listed(t)'
    <3>1. t \in SnapshotId /\ Listed(t)
      BY <2>1, <2>3 DEF VaultInv, ListedInv
    <3>2. Items(live[t]) \subseteq DOMAIN content'
      BY <2>1, <3>1 DEF Listed
    <3> QED
      BY <1>0, <2>1, <3>1, <3>2, ListedKept
  <2> QED
    BY <2>2, <2>3 DEF ListedInv
<1> QED
  BY <1>1, <1>2, <1>3 DEF RpcEnv

\* The steps of a run keep the daemon's half and what was asked for.
LEMMA RunStepKeeps ==
    ASSUME SessInv, VaultInv, ListedInv, NEW s \in SnapshotId, RunStep(s) \/ interrupted(s)
    PROVE  SessInv' /\ OrdersKept /\ VaultInv' /\ ListedInv'
<1>1. CASE begin(s)
  BY <1>1, BeginKeeps, VaultIdle DEF begin
<1>2. CASE next_chunk(s)
  BY <1>2, NextChunkKeeps, VaultIdle DEF next_chunk
<1>3. CASE end_file(s)
  BY <1>3, EndFileKeeps, VaultIdle DEF end_file
<1>4. CASE last_flush(s)
  BY <1>4, LastFlushKeeps, VaultIdle DEF last_flush
<1>5. CASE ask(s)
  BY <1>5, AskKeeps, VaultIdle DEF ask
<1>6. CASE pack(s)
  BY <1>6, PackKeeps, VaultIdle DEF pack
<1>7. CASE upload_chunk(s)
  <2>1. SessInv' /\ OrdersKept /\ Head(sess[s].blobs) \in Upload
    BY <1>7, UploadChunkKeeps
  <2>2. put_chunk(Head(sess[s].blobs).id, Head(sess[s].blobs).data)
    BY <1>7 DEF upload_chunk
  <2> QED
    BY <2>1, <2>2, PutChunkKeeps
<1>8. CASE flushed(s)
  BY <1>8, FlushedKeeps, VaultIdle DEF flushed
<1>9. CASE store_manifest(s)
  <2>1. SessInv' /\ OrdersKept
    BY <1>9, StoreManifestKeeps
  <2>2. CASE UNCHANGED rpcVars
    BY <2>1, <2>2, VaultIdle
  <2>3. CASE /\ put_manifest(s, Sealed(s), chunk_refs(sess[s].files))
             /\ SnapshotOf(sess[s].files, sess[s])
    BY <2>1, <2>3, PutManifestKeeps DEF Sealed
  <2> QED
    BY <1>9, <2>2, <2>3, StoreManifestKeeps
<1>10. CASE acknowledged(s)
  BY <1>10, AcknowledgedKeeps, VaultIdle DEF acknowledged
<1>11. CASE interrupted(s)
  BY <1>11, FailsKeeps, VaultIdle DEF interrupted
<1> QED
  BY <1>1, <1>2, <1>3, <1>4, <1>5, <1>6, <1>7, <1>8, <1>9, <1>10, <1>11 DEF RunStep

-----------------------------------------------------------------------------
(* The restore *)

\* A manifest entry and the file it was made of.
FileOf(file, spec, keys) ==
    /\ file \in ManifestEntry /\ spec \in FileSpec /\ file.path = spec.rel
    /\ file.chunks \in Seq(ChunkIds) /\ spec.entry.chunks \in Seq(Content)
    /\ Len(spec.entry.chunks) \in Nat /\ Len(file.chunks) = Len(spec.entry.chunks)
    /\ \A k \in 1 .. Len(spec.entry.chunks) :
         /\ spec.entry.chunks[k] \in Content
         /\ file.chunks[k] = keyed(keys.id, spec.entry.chunks[k])
    /\ from_unix_time(file.mtime_secs, file.mtime_nanos) = spec.entry.mtime
    /\ file.mode = spec.entry.mode

IsSnapshot(files, specs, keys) ==
    /\ files \in Seq(ManifestEntry) /\ Len(files) \in Nat /\ Len(files) = Len(specs)
    /\ \A n \in 1 .. Len(files) : FileOf(files[n], specs[n], keys)
    /\ \A m, n \in 1 .. Len(files) : files[m].path = files[n].path => m = n

LEMMA SnapshotFiles ==
    ASSUME NEW r, r.keys \in KeyPair, Request(r.roots), NEW files, SnapshotOf(files, r)
    PROVE  IsSnapshot(files, collect_files(r.roots), r.keys)
<1> DEFINE specs == collect_files(r.roots)
           keys == r.keys
<1>1. specs \in Seq(FileSpec) /\ IsCollected(specs, r.roots)
  BY Collected
<1>2. AreFiles(files, specs, Len(specs), keys) /\ Acceptable(r.roots) /\ keys \in KeyPair
  BY DEF SnapshotOf
<1> HIDE DEF specs, keys
<1>3. Len(specs) \in Nat /\ \A n \in 1 .. Len(specs) : specs[n] \in FileSpec
  BY <1>1, LenProperties, ElementOfSeq
<1>4. files \in Seq(ManifestEntry) /\ Len(files) = Len(specs)
  BY <1>2 DEF AreFiles
<1>5. ASSUME NEW n \in 1 .. Len(files) PROVE FileOf(files[n], specs[n], keys)
  <2> DEFINE spec == specs[n]
             file == files[n]
             size == file.size
  <2>1. spec \in FileSpec /\ file \in ManifestEntry
    BY <1>3, <1>4, ElementOfSeq
  <2>2. file = FileEntry(spec, keys, size)
    BY <1>2, <1>4 DEF AreFiles
  <2>3. size \in Nat /\ spec.entry.mtime \in Int
    BY <2>1 DEF ManifestEntry, FileSpec, DirEntry
  <2> HIDE DEF spec, file, size
  <2>4. /\ spec.entry.chunks \in Seq(Content) /\ Len(spec.entry.chunks) \in Nat
        /\ file.chunks \in Seq(ChunkIds)
        /\ Len(file.chunks) = Len(spec.entry.chunks)
        /\ \A k \in 1 .. Len(spec.entry.chunks) :
             /\ spec.entry.chunks[k] \in Content
             /\ file.chunks[k] = keyed(keys.id, spec.entry.chunks[k])
    BY <1>2, <2>1, <2>2, <2>3, FileEntryType
  <2>5. /\ file.path = spec.rel /\ file.mode = spec.entry.mode
        /\ file.mtime_secs = mtime_parts(spec.entry.mtime)[1]
        /\ file.mtime_nanos = mtime_parts(spec.entry.mtime)[2]
    BY <2>2 DEF FileEntry
  <2>6. from_unix_time(file.mtime_secs, file.mtime_nanos) = spec.entry.mtime
    BY <2>3, <2>5, MtimeRoundTrip
  <2> QED
    BY <2>1, <2>4, <2>5, <2>6 DEF FileOf, spec, file
<1>6. ASSUME NEW m \in 1 .. Len(files), NEW n \in 1 .. Len(files), files[m].path = files[n].path
      PROVE  m = n
  <2>1. specs[m].rel = specs[n].rel
    BY <1>5, <1>6 DEF FileOf
  <2> QED
    BY <1>1, <1>2, <1>4, <2>1 DEF IsCollected
<1> QED
  BY <1>3, <1>4, <1>5, <1>6 DEF IsSnapshot, specs, keys

RestoreInv == RestoreShape /\ StreamInv /\ PlaceInv /\ OutInv /\ TallyInv

\* The rest of the system moves without the restore.
LEMMA RestoreIdle ==
    ASSUME RestoreInv, OrdersKept, UNCHANGED restoreVars
    PROVE  RestoreInv'
<1>1. rst' = rst /\ out' = out /\ stream' = stream
  BY DEF restoreVars
<1>2. rst.sid \in SnapshotId
  BY DEF RestoreInv, RestoreShape
<1>3. sess'[rst.sid].keys = sess[rst.sid].keys /\ sess'[rst.sid].roots = sess[rst.sid].roots
  BY <1>2 DEF OrdersKept
<1>4. Specs' = Specs
  BY <1>1, <1>3 DEF Specs
<1>5. RestoreShape' /\ StreamInv' /\ TallyInv'
  BY <1>1 DEF RestoreInv, RestoreShape, StreamInv, TallyInv
<1>6. SnapshotOf(rst.files, sess[rst.sid]) => SnapshotOf(rst.files, sess'[rst.sid])
  BY <1>3 DEF SnapshotOf
<1>7. PlaceInv'
  BY <1>1, <1>6 DEF RestoreInv, PlaceInv, File
<1>8. OutInv'
  <2>1. \A n \in 1 .. (rst.f - 1) : Whole(n) => Whole(n)'
    BY <1>1, <1>4 DEF Whole
  <2> QED
    BY <1>1, <1>4, <2>1 DEF RestoreInv, OutInv, File
<1> QED
  BY <1>5, <1>7, <1>8 DEF RestoreInv

\* A restore that gives up leaves what it wrote.
LEMMA RestoreFailsKeeps ==
    ASSUME RestoreInv, RestoreFails, sess' = sess
    PROVE  RestoreInv'
<1>1. /\ DOMAIN rst = {"pc", "sid", "keys", "files", "f", "i", "written", "report", "tick"}
      /\ DOMAIN stream = {"todo", "held", "chan", "running", "open"}
  BY DEF RestoreInv, RestoreShape, StreamInv
<1>2. /\ DOMAIN rst' = DOMAIN rst /\ rst'.pc = "failed" /\ rst'.sid = rst.sid /\ rst'.files = rst.files
      /\ rst'.f = rst.f /\ rst'.i = rst.i /\ rst'.written = rst.written /\ rst'.report = rst.report
  BY <1>1 DEF RestoreFails
<1>3. /\ DOMAIN stream' = DOMAIN stream /\ stream'.todo = stream.todo /\ stream'.held = stream.held
      /\ stream'.chan = stream.chan /\ stream'.running = stream.running
  BY <1>1 DEF RestoreFails
<1>4. out' = out /\ Specs' = Specs
  BY <1>2 DEF RestoreFails, Specs
<1>5. rst'.pc \notin Opened /\ rst'.pc \notin Placing
  BY <1>2 DEF Opened, Placing
<1>6. RestoreShape'
  BY <1>1, <1>2 DEF RestoreInv, RestoreShape
<1>7. StreamInv'
  BY <1>1, <1>3 DEF RestoreInv, StreamInv
<1>8. PlaceInv'
  BY <1>2, <1>5 DEF RestoreInv, PlaceInv
<1>9. OutInv'
  BY <1>2, <1>4, <1>5 DEF RestoreInv, OutInv
<1>10. TallyInv'
  BY <1>2, <1>5 DEF TallyInv
<1> QED
  BY <1>6, <1>7, <1>8, <1>9, <1>10 DEF RestoreInv

LEMMA StartKeeps ==
    ASSUME RestoreInv, start, sess' = sess
    PROVE  RestoreInv'
<1>1. CASE out # <<>>
  BY <1>1, RestoreFailsKeeps DEF start
<1>2. CASE out = <<>>
  <2>1. DOMAIN rst = {"pc", "sid", "keys", "files", "f", "i", "written", "report", "tick"}
    BY DEF RestoreInv, RestoreShape
  <2>2. rst' = [rst EXCEPT !.pc = "manifest"] /\ out' = out /\ stream' = stream /\ rst.pc = "idle"
    BY <1>2 DEF start
  <2>3. /\ DOMAIN rst' = DOMAIN rst /\ rst'.pc = "manifest" /\ rst'.sid = rst.sid
        /\ rst'.files = rst.files
        /\ rst'.f = rst.f /\ rst'.i = rst.i /\ rst'.written = rst.written /\ rst'.report = rst.report
    BY <2>1, <2>2
  <2>4. rst'.pc \notin Opened /\ rst'.pc \notin Placing
    BY <2>3 DEF Opened, Placing
  <2>5. rst.files = <<>>
    BY <2>2 DEF RestoreInv, PlaceInv
  <2>6. RestoreShape' /\ StreamInv' /\ TallyInv'
    BY <2>1, <2>2, <2>3, <2>4 DEF RestoreInv, RestoreShape, StreamInv, TallyInv
  <2>7. PlaceInv'
    BY <2>2, <2>3, <2>4, <2>5 DEF RestoreInv, PlaceInv
  <2>8. OutInv'
    BY <1>2, <2>2, <2>3, <2>4, <2>5 DEF RestoreInv, OutInv
  <2> QED
    BY <2>6, <2>7, <2>8 DEF RestoreInv
<1> QED
  BY <1>1, <1>2

LEMMA GetManifestKeeps ==
    ASSUME SessInv, VaultInv, ListedInv, RestoreInv, get_manifest, sess' = sess
    PROVE  RestoreInv'
<1>1. CASE rst.sid \in DOMAIN manifests /\ Opens(rst.keys.data, rst.sid, manifests[rst.sid])
  <2>1. /\ DOMAIN rst = {"pc", "sid", "keys", "files", "f", "i", "written", "report", "tick"}
        /\ rst.sid \in SnapshotId
    BY DEF RestoreInv, RestoreShape
  <2> DEFINE s == rst.sid
  <2>2. Listed(s)
    BY <1>1 DEF VaultInv, ListedInv
  <2>3. PICK files : /\ SnapshotOf(files, sess[s])
                     /\ manifests[s] = seal(sess[s].keys.data, s, encode(files), Len(encode(files)))
    BY <2>2 DEF Listed
  <2>4. decode(manifests[s].msg) = files
    <3>1. manifests[s].msg = encode(files)
      BY <2>3 DEF seal
    <3>2. decode(encode(files)) = files
      BY <2>3, FilesDecode DEF SnapshotOf
    <3> QED
      BY <3>1, <3>2
  <2>5. /\ rst' = [rst EXCEPT !.pc = "file", !.files = files] /\ out' = out /\ stream' = stream
        /\ rst.pc = "manifest"
    BY <1>1, <2>4 DEF get_manifest
  <2>6. /\ DOMAIN rst' = DOMAIN rst /\ rst'.pc = "file" /\ rst'.sid = rst.sid /\ rst'.files = files
        /\ rst'.f = rst.f /\ rst'.i = rst.i /\ rst'.written = rst.written /\ rst'.report = rst.report
    BY <2>1, <2>5
  <2>7. rst'.pc \in Opened /\ rst'.pc \notin Placing
    BY <2>6 DEF Opened, Placing
  <2>8. rst.files = <<>> /\ rst.f = 1 /\ rst.report = NoRestoreReport /\ out = <<>>
    BY <2>5 DEF RestoreInv, PlaceInv, OutInv
  <2>9. files \in Seq(ManifestEntry) /\ Len(files) \in Nat
    BY <2>3, LenProperties DEF SnapshotOf, AreFiles
  <2>10. RestoreShape'
    <3>1. rst'.pc \in {"idle", "manifest", "failed"} \cup Opened
      BY <2>7
    <3> QED
      BY <2>1, <2>6, <2>9, <3>1 DEF RestoreInv, RestoreShape
  <2>11. StreamInv'
    BY <2>5 DEF RestoreInv, StreamInv
  <2>12. PlaceInv'
    <3>1. 1 <= Len(files) + 1
      BY <2>9
    <3> QED
      BY <2>3, <2>6, <2>7, <2>8, <3>1 DEF PlaceInv
  <2>13. OutInv'
    <3>1. DOMAIN out' = {} /\ rst'.f - 1 = 0 /\ 1 .. 0 = {}
      BY <2>5, <2>6, <2>8
    <3>2. DOMAIN out' = {rst'.files[n].path : n \in 1 .. (rst'.f - 1)} \cup
                           (IF rst'.pc \in Placing THEN {File'.path} ELSE {})
      BY <2>7, <3>1
    <3>3. rst'.files = <<>> => out' \in Targets
      BY <2>5, <2>8 DEF RestoreInv, OutInv
    <3>4. \A n \in 1 .. (rst'.f - 1) : Whole(n)'
      BY <3>1
    <3> QED
      BY <2>6, <2>7, <3>1, <3>2, <3>3, <3>4 DEF OutInv
  <2>14. TallyInv'
    <3>1. SubSeq(files, 1, 0) = <<>>
      BY <2>9
    <3>2. rst'.f - 1 = 0 /\ rst'.report.files = 0 /\ rst'.report.bytes = 0 /\ Bytes(<<>>) = 0
      BY <2>6, <2>8, BytesEmpty DEF NoRestoreReport
    <3>3. Bytes(SubSeq(rst'.files, 1, rst'.f - 1)) = 0
      BY <2>6, <3>1, <3>2
    <3> QED
      BY <2>6, <2>7, <3>2, <3>3 DEF TallyInv
  <2> QED
    BY <2>10, <2>11, <2>12, <2>13, <2>14 DEF RestoreInv
<1>2. CASE ~ (rst.sid \in DOMAIN manifests /\ Opens(rst.keys.data, rst.sid, manifests[rst.sid]))
  BY <1>2, RestoreFailsKeeps DEF get_manifest
<1> QED
  BY <1>1, <1>2

\* One more item of a prefix.
LEMMA PrefixAppend ==
    ASSUME NEW S, NEW q \in Seq(S), NEW k \in Nat, k + 1 <= Len(q)
    PROVE  SubSeq(q, 1, k + 1) = Append(SubSeq(q, 1, k), q[k + 1])
<1> DEFINE p == SubSeq(q, 1, k)
           x == q[k + 1]
           a == Append(p, x)
           b == SubSeq(q, 1, k + 1)
<1>0. Len(q) \in Nat /\ k + 1 \in 1 .. Len(q)
  BY LenProperties
<1>1. x \in S
  BY <1>0, ElementOfSeq
<1>2. p \in Seq(S) /\ Len(p) = k /\ \A j \in 1 .. k : p[j] = q[j]
  BY <1>0
<1>3. b \in Seq(S) /\ Len(b) = k + 1 /\ \A j \in 1 .. (k + 1) : b[j] = q[j]
  BY <1>0
<1> HIDE DEF p, b
<1>4. a \in Seq(S) /\ Len(a) = Len(p) + 1 /\ a[Len(p) + 1] = x /\ \A j \in 1 .. Len(p) : a[j] = p[j]
  BY <1>1, <1>2, AppendProperties
<1> HIDE DEF a
<1>5. ASSUME NEW j \in 1 .. (k + 1) PROVE a[j] = b[j]
  <2>1. CASE j = k + 1
    BY <1>2, <1>3, <1>4, <2>1
  <2>2. CASE j # k + 1
    <3>1. j \in 1 .. k
      BY <2>2
    <3> QED
      BY <1>2, <1>3, <1>4, <3>1
  <2> QED
    BY <2>1, <2>2
<1>6. a = b
  BY <1>2, <1>3, <1>4, <1>5, SeqEqual
<1> QED
  BY <1>6 DEF a, b, p

\* The restore has the files of a snapshot under its hands.
LEMMA OpenedFiles ==
    ASSUME SessInv, RestoreInv, rst.pc \in Opened
    PROVE  /\ IsSnapshot(rst.files, Specs, sess[rst.sid].keys)
           /\ rst.f \in Nat \ {0} /\ Len(rst.files) \in Nat
<1>1. SnapshotOf(rst.files, sess[rst.sid]) /\ rst.sid \in SnapshotId /\ rst.f \in Nat \ {0}
  BY DEF RestoreInv, RestoreShape, PlaceInv
<1>2. sess[rst.sid].keys \in KeyPair /\ Request(sess[rst.sid].roots)
  BY <1>1 DEF SessInv, RunInv, RunShape
<1>3. IsSnapshot(rst.files, Specs, sess[rst.sid].keys)
  BY <1>1, <1>2, SnapshotFiles DEF Specs
<1> QED
  BY <1>1, <1>3 DEF IsSnapshot

\* Writing to the file at hand touches no other.
LEMMA PlaceFile ==
    ASSUME SessInv, RestoreInv, rst.pc \in {"file"} \cup Placing, rst.f <= Len(rst.files),
           NEW file, DOMAIN file = {"data", "meta"},
           NEW k \in 0 .. Len(Specs[rst.f].entry.chunks),
           file.data = SubSeq(Specs[rst.f].entry.chunks, 1, k), Place(File.path, file)
    PROVE  /\ DOMAIN out' = {rst.files[n].path : n \in 1 .. (rst.f - 1)} \cup {File.path}
           /\ out'[File.path] = file
           /\ \A p \in DOMAIN out' : DOMAIN out'[p] = {"data", "meta"}
           /\ \A n \in 1 .. (rst.f - 1) : out'[rst.files[n].path] = out[rst.files[n].path]
           /\ \A p \in DOMAIN out' : IsCut(p, out'[p].data, rst.files, Specs)
<1> DEFINE path == File.path
<1>0. rst.pc \in Opened
  BY DEF Opened, Placing
<1>1. /\ IsSnapshot(rst.files, Specs, sess[rst.sid].keys)
      /\ rst.f \in Nat \ {0} /\ Len(rst.files) \in Nat
  BY <1>0, OpenedFiles
<1>2. rst.f \in 1 .. Len(rst.files)
  BY <1>1
<1>3. \A n \in 1 .. (rst.f - 1) : n \in 1 .. Len(rst.files) /\ n # rst.f
  BY <1>1, <1>2
<1>4. \A n \in 1 .. (rst.f - 1) : rst.files[n].path # path
  BY <1>1, <1>2, <1>3 DEF IsSnapshot, File
<1>5. /\ DOMAIN out = {rst.files[n].path : n \in 1 .. (rst.f - 1)} \cup
                       (IF rst.pc \in Placing THEN {File.path} ELSE {})
      /\ \A p \in DOMAIN out : DOMAIN out[p] = {"data", "meta"}
  BY <1>0 DEF RestoreInv, OutInv
<1>6. /\ DOMAIN out' = DOMAIN out \cup {path} /\ out'[path] = file
      /\ \A p \in DOMAIN out : p # path => out'[p] = out[p]
  BY DEF Place
<1>7. \A p \in DOMAIN out : IsCut(p, out[p].data, rst.files, Specs)
  <2>1. rst.files # <<>>
    BY <1>1, <1>2
  <2> QED
    BY <2>1 DEF RestoreInv, OutInv
<1>8. IsCut(path, out'[path].data, rst.files, Specs)
  BY <1>2, <1>6 DEF IsCut, File
<1>9. ASSUME NEW p \in DOMAIN out' PROVE IsCut(p, out'[p].data, rst.files, Specs)
  <2>1. CASE p = path
    BY <1>8, <2>1
  <2>2. CASE p # path
    <3>1. p \in DOMAIN out /\ out'[p] = out[p]
      BY <1>6, <2>2, <1>9
    <3> QED
      BY <1>7, <3>1
  <2> QED
    BY <2>1, <2>2
<1>10. DOMAIN out' = {rst.files[n].path : n \in 1 .. (rst.f - 1)} \cup {path}
  BY <1>5, <1>6
<1>11. \A n \in 1 .. (rst.f - 1) : rst.files[n].path \in DOMAIN out
  BY <1>5
<1>12. \A n \in 1 .. (rst.f - 1) : out'[rst.files[n].path] = out[rst.files[n].path]
  BY <1>4, <1>6, <1>11
<1>13. \A p \in DOMAIN out' : DOMAIN out'[p] = {"data", "meta"}
  BY <1>5, <1>6
<1> QED
  BY <1>6, <1>9, <1>10, <1>12, <1>13

\* A step within a file: it is opened, or longer by what was read.
LEMMA PlacingKeeps ==
    ASSUME SessInv, RestoreInv, sess' = sess, rst.pc \in {"file"} \cup Placing,
           rst.f <= Len(rst.files), NEW file, DOMAIN file = {"data", "meta"},
           Place(File.path, file), rst'.pc \in Placing, rst'.sid = rst.sid,
           rst'.files = rst.files, rst'.f = rst.f, rst'.i \in Nat \ {0},
           rst'.i <= Len(File.chunks) + 1, rst'.pc = "finish" => rst'.i = Len(File.chunks) + 1,
           file.data = SubSeq(Specs[rst.f].entry.chunks, 1, rst'.i - 1)
    PROVE  PlaceInv' /\ OutInv'
<1> DEFINE k == rst'.i - 1
<1>0. rst.pc \in Opened /\ rst'.pc \in Opened /\ rst'.pc # "file" /\ rst'.pc # "done"
      /\ rst'.pc # "idle" /\ rst'.pc # "manifest"
  BY DEF Opened, Placing
<1>1. /\ IsSnapshot(rst.files, Specs, sess[rst.sid].keys)
      /\ rst.f \in Nat \ {0} /\ Len(rst.files) \in Nat
  BY <1>0, OpenedFiles
<1>2. rst.f \in 1 .. Len(rst.files) /\ rst.files # <<>>
  BY <1>1
<1>3. FileOf(File, Specs[rst.f], sess[rst.sid].keys)
  BY <1>1, <1>2 DEF IsSnapshot, File
<1>4. /\ Len(Specs[rst.f].entry.chunks) \in Nat
      /\ Len(File.chunks) = Len(Specs[rst.f].entry.chunks)
  BY <1>3 DEF FileOf
<1>5. k \in 0 .. Len(Specs[rst.f].entry.chunks)
  <2> DEFINE l == Len(Specs[rst.f].entry.chunks)
             i == rst'.i
  <2>1. l \in Nat /\ i \in Nat \ {0} /\ i <= l + 1
    BY <1>4
  <2> HIDE DEF l, i
  <2>2. i - 1 \in 0 .. l
    BY <2>1
  <2> QED
    BY <2>2 DEF l, i
<1>6. /\ DOMAIN out' = {rst.files[n].path : n \in 1 .. (rst.f - 1)} \cup {File.path}
      /\ out'[File.path] = file
      /\ \A p \in DOMAIN out' : DOMAIN out'[p] = {"data", "meta"}
      /\ \A n \in 1 .. (rst.f - 1) : out'[rst.files[n].path] = out[rst.files[n].path]
      /\ \A p \in DOMAIN out' : IsCut(p, out'[p].data, rst.files, Specs)
  BY <1>5, PlaceFile
<1>7. Specs' = Specs /\ File' = File
  BY DEF Specs, File
<1>8. PlaceInv'
  <2>1. SnapshotOf(rst.files, sess[rst.sid])
    BY <1>0 DEF RestoreInv, PlaceInv
  <2> QED
    BY <1>0, <1>7, <2>1 DEF PlaceInv
<1>9. \A n \in 1 .. (rst.f - 1) : Whole(n)'
  <2>1. \A n \in 1 .. (rst.f - 1) : Whole(n)
    BY <1>0 DEF RestoreInv, OutInv
  <2> QED
    BY <1>6, <1>7, <2>1 DEF Whole
<1>10. \A p \in DOMAIN out' : IsCut(p, out'[p].data, rst'.files, Specs')
  BY <1>6, <1>7
<1>11. OutInv'
  BY <1>0, <1>2, <1>6, <1>7, <1>9, <1>10 DEF OutInv
<1> QED
  BY <1>8, <1>11

LEMMA OpenFileKeeps ==
    ASSUME SessInv, RestoreInv, open_file, sess' = sess
    PROVE  RestoreInv'
<1>1. CASE File.path \in Unsafe
  BY <1>1, RestoreFailsKeeps DEF open_file
<1>2. CASE File.path \notin Unsafe
  <2> DEFINE pc == IF File.chunks = <<>> THEN "finish" ELSE "reading"
             opened == [todo |-> File.chunks, held |-> <<>>, chan |-> <<>>,
                        running |-> TRUE, open |-> TRUE]
  <2>1. /\ rst.pc = "file" /\ rst.f <= Len(rst.files) /\ Place(File.path, NoFile)
        /\ rst' = [rst EXCEPT !.i = 1, !.written = 0, !.pc = pc]
        /\ stream' = IF File.chunks = <<>> THEN stream ELSE opened
    BY <1>2 DEF open_file
  <2>2. rst.pc \in Opened /\ rst.pc \notin Placing
    BY <2>1 DEF Opened, Placing
  <2>3. /\ DOMAIN rst = {"pc", "sid", "keys", "files", "f", "i", "written", "report", "tick"}
        /\ DOMAIN rst.report = {"files", "bytes", "chunks_fetched"}
        /\ rst.sid \in SnapshotId /\ rst.files \in Seq(ManifestEntry)
    BY DEF RestoreInv, RestoreShape
  <2>4. /\ DOMAIN rst' = DOMAIN rst /\ rst'.pc = pc /\ rst'.sid = rst.sid /\ rst'.files = rst.files
        /\ rst'.f = rst.f /\ rst'.i = 1 /\ rst'.written = 0 /\ rst'.report = rst.report
    BY <2>1, <2>3
  <2>5. rst'.pc \in Placing /\ rst'.pc \in Opened /\ rst'.pc # "done"
    BY <2>4 DEF Opened, Placing
  <2>6. /\ IsSnapshot(rst.files, Specs, sess[rst.sid].keys)
        /\ rst.f \in Nat \ {0} /\ Len(rst.files) \in Nat
    BY <2>2, OpenedFiles
  <2>7. FileOf(File, Specs[rst.f], sess[rst.sid].keys)
    BY <2>1, <2>6 DEF IsSnapshot, File
  <2>8. /\ File.chunks \in Seq(ChunkIds) /\ Specs[rst.f].entry.chunks \in Seq(Content)
    BY <2>7 DEF FileOf
  <2>9. Len(File.chunks) \in Nat /\ (File.chunks = <<>> => Len(File.chunks) = 0)
    BY <2>8, LenProperties
  <2>10. PlaceInv' /\ OutInv'
    <3>1. DOMAIN NoFile = {"data", "meta"} /\ NoFile.data = <<>>
      BY DEF NoFile
    <3>2. SubSeq(Specs[rst.f].entry.chunks, 1, 0) = <<>> /\ rst'.i - 1 = 0
      BY <2>4, <2>8
    <3>3. NoFile.data = SubSeq(Specs[rst.f].entry.chunks, 1, rst'.i - 1)
      BY <3>1, <3>2
    <3>4. /\ rst'.i \in Nat \ {0} /\ rst'.i <= Len(File.chunks) + 1
          /\ rst'.pc = "finish" => rst'.i = Len(File.chunks) + 1
      BY <2>4, <2>9
    <3>5. rst.pc \in {"file"} \cup Placing
      BY <2>1
    <3> HIDE DEF pc
    <3> QED
      BY <2>1, <2>4, <2>5, <3>1, <3>3, <3>4, <3>5, PlacingKeeps
  <2>11. RestoreShape'
    <3>1. rst'.pc \in {"idle", "manifest", "failed"} \cup Opened
      BY <2>5
    <3>2. rst'.i \in Nat \ {0} /\ rst'.written \in Nat
      BY <2>4
    <3> QED
      BY <2>3, <2>4, <2>6, <3>1, <3>2 DEF RestoreShape
  <2>12. StreamInv'
    <3>1. CASE File.chunks = <<>>
      BY <2>1, <3>1 DEF RestoreInv, StreamInv
    <3>2. CASE File.chunks # <<>>
      <4>1. /\ DOMAIN stream' = {"todo", "held", "chan", "running", "open"}
            /\ stream'.todo = File.chunks /\ stream'.held = <<>> /\ stream'.chan = <<>>
        BY <2>1, <3>2
      <4>2. <<>> \in Seq(Item) /\ Len(<<>>) = 0
        OBVIOUS
      <4> QED
        BY <2>8, <3>2, <4>1, <4>2, RestoreAssumption DEF StreamInv
    <3> QED
      BY <3>1, <3>2
  <2>13. TallyInv'
    <3>1. /\ rst.report.files = rst.f - 1
          /\ rst.report.bytes = Bytes(SubSeq(rst.files, 1, rst.f - 1)) + 0
      BY <2>2 DEF RestoreInv, TallyInv
    <3> QED
      BY <2>4, <2>5, <3>1 DEF TallyInv
  <2> QED
    BY <2>10, <2>11, <2>12, <2>13 DEF RestoreInv
<1> QED
  BY <1>1, <1>2

\* What was read before, in bytes.
LEMMA ReadBefore ==
    ASSUME NEW files \in Seq(ManifestEntry), NEW n \in Nat, n <= Len(files)
    PROVE  Bytes(SubSeq(files, 1, n)) \in Nat
<1> DEFINE q == SubSeq(files, 1, n)
<1>1. Len(files) \in Nat
  BY LenProperties
<1>2. q \in Seq(ManifestEntry)
  BY <1>1
<1> HIDE DEF q
<1>3. PICK up \in [0 .. Len(q) -> Nat] : IsSum(q, up)
  BY <1>2, FilesSized, SumExists
<1>4. Bytes(q) = up[Len(q)]
  BY <1>2, <1>3, SumIsBytes
<1>5. Len(q) \in 0 .. Len(q)
  BY <1>2, LenProperties
<1> QED
  BY <1>3, <1>4, <1>5 DEF q

\* What passes the client's checks is the chunk of the file.
LEMMA VerifiedIsChunk ==
    ASSUME NEW keys, NEW file, NEW spec, FileOf(file, spec, keys), NEW k \in 1 .. Len(file.chunks),
           NEW item, Verified(file.chunks[k], item)
    PROVE  decode_chunk(item.data.msg) = spec.entry.chunks[k] /\ spec.entry.chunks[k] \in Content
<1>1. spec.entry.chunks[k] \in Content /\ file.chunks[k] = keyed(keys.id, spec.entry.chunks[k])
  BY DEF FileOf
<1>2. keyed(rst.keys.id, decode_chunk(item.data.msg)) = file.chunks[k]
  BY DEF Verified
<1> QED
  BY <1>1, <1>2 DEF keyed

LEMMA ReadChunkKeeps ==
    ASSUME SessInv, RestoreInv, read_chunk, sess' = sess
    PROVE  RestoreInv'
<1> DEFINE item == Head(stream.chan)
           c == decode_chunk(item.data.msg)
           path == File.path
           report == [rst.report EXCEPT !.bytes = @ + Sizes[c].raw, !.chunks_fetched = @ + 1]
           file == [out[path] EXCEPT !.data = Append(@, c)]
<1>1. CASE ~Verified(File.chunks[rst.i], item)
  BY <1>1, RestoreFailsKeeps DEF read_chunk
<1>2. CASE Verified(File.chunks[rst.i], item)
  <2>1. /\ rst.pc = "reading" /\ rst.i <= Len(File.chunks) /\ stream.chan # <<>>
        /\ Place(path, file)
        /\ rst' = [rst EXCEPT !.i = @ + 1, !.written = @ + Sizes[c].raw,
                     !.report = report, !.tick = report]
        /\ stream' = [stream EXCEPT !.chan = Tail(@)]
    BY <1>2 DEF read_chunk
  <2>2. rst.pc \in Opened /\ rst.pc \in Placing
    BY <2>1 DEF Opened, Placing
  <2>3. /\ DOMAIN rst = {"pc", "sid", "keys", "files", "f", "i", "written", "report", "tick"}
        /\ DOMAIN rst.report = {"files", "bytes", "chunks_fetched"}
        /\ rst.sid \in SnapshotId /\ rst.files \in Seq(ManifestEntry)
        /\ rst.i \in Nat \ {0} /\ rst.written \in Nat
    BY DEF RestoreInv, RestoreShape
  <2>4. /\ IsSnapshot(rst.files, Specs, sess[rst.sid].keys)
        /\ rst.f \in Nat \ {0} /\ Len(rst.files) \in Nat
    BY <2>2, OpenedFiles
  <2>5. rst.f <= Len(rst.files)
    BY <2>2 DEF RestoreInv, PlaceInv
  <2> DEFINE spec == Specs[rst.f]
             cs == spec.entry.chunks
  <2>6. FileOf(File, spec, sess[rst.sid].keys)
    BY <2>4, <2>5 DEF IsSnapshot, File
  <2>7. cs \in Seq(Content) /\ Len(cs) \in Nat /\ Len(File.chunks) = Len(cs)
    BY <2>6 DEF FileOf
  <2>8. c = cs[rst.i] /\ c \in Content /\ Sizes[c].raw \in Nat
    <3>1. rst.i \in 1 .. Len(File.chunks)
      BY <2>1, <2>3, <2>7
    <3>2. c = cs[rst.i] /\ cs[rst.i] \in Content
      BY <1>2, <2>6, <3>1, VerifiedIsChunk
    <3> QED
      BY <3>2, CodecAssumption
  <2> HIDE DEF c, item
  <2>9. /\ DOMAIN rst' = DOMAIN rst /\ rst'.pc = rst.pc /\ rst'.sid = rst.sid
        /\ rst'.files = rst.files
        /\ rst'.f = rst.f /\ rst'.i = rst.i + 1 /\ rst'.written = rst.written + Sizes[c].raw
        /\ rst'.report = report
    BY <2>1, <2>3
  <2>10. /\ DOMAIN report = DOMAIN rst.report /\ report.files = rst.report.files
         /\ report.bytes = rst.report.bytes + Sizes[c].raw
    BY <2>3
  <2> HIDE DEF report
  <2>11. /\ path \in DOMAIN out /\ DOMAIN out[path] = {"data", "meta"}
         /\ out[path].data = SubSeq(cs, 1, rst.i - 1)
    BY <2>2 DEF RestoreInv, OutInv
  <2>12. DOMAIN file = {"data", "meta"} /\ file.data = Append(SubSeq(cs, 1, rst.i - 1), cs[rst.i])
    BY <2>8, <2>11
  <2> HIDE DEF file, cs, spec
  <2>13. file.data = SubSeq(cs, 1, rst'.i - 1)
    <3> DEFINE k == rst.i - 1
    <3>1. k \in Nat /\ k + 1 = rst.i /\ rst'.i - 1 = rst.i
      BY <2>3, <2>9
    <3>2. k + 1 <= Len(cs)
      BY <2>1, <2>7, <3>1
    <3> HIDE DEF k
    <3>3. SubSeq(cs, 1, k + 1) = Append(SubSeq(cs, 1, k), cs[k + 1])
      BY <2>7, <3>1, <3>2, PrefixAppend
    <3>4. SubSeq(cs, 1, rst.i) = Append(SubSeq(cs, 1, rst.i - 1), cs[rst.i])
      BY <3>1, <3>3 DEF k
    <3> QED
      BY <2>12, <3>1, <3>4
  <2>14. PlaceInv' /\ OutInv'
    <3>1. rst'.i \in Nat \ {0} /\ rst'.i <= Len(File.chunks) + 1 /\ rst'.pc # "finish"
      BY <2>1, <2>3, <2>7, <2>9
    <3>2. rst.pc \in {"file"} \cup Placing /\ rst'.pc \in Placing
      BY <2>2, <2>9
    <3> QED
      BY <2>1, <2>5, <2>9, <2>12, <2>13, <3>1, <3>2, PlacingKeeps DEF cs, spec
  <2>15. RestoreShape'
    <3>1. rst'.i \in Nat \ {0} /\ rst'.written \in Nat
      BY <2>3, <2>8, <2>9
    <3>2. rst'.pc \in {"idle", "manifest", "failed"} \cup Opened
      BY <2>2, <2>9
    <3> QED
      BY <2>3, <2>4, <2>9, <2>10, <3>1, <3>2 DEF RestoreShape
  <2>16. StreamInv'
    <3>1. /\ DOMAIN stream = {"todo", "held", "chan", "running", "open"}
          /\ stream.chan \in Seq(Item) /\ Len(stream.chan) <= CHANNEL
      BY DEF RestoreInv, StreamInv
    <3>2. /\ DOMAIN stream' = DOMAIN stream /\ stream'.todo = stream.todo
          /\ stream'.held = stream.held /\ stream'.running = stream.running
          /\ stream'.chan = Tail(stream.chan)
      BY <2>1, <3>1
    <3>3. Len(stream.chan) \in Nat
      BY <3>1, LenProperties
    <3>4. Tail(stream.chan) \in Seq(Item) /\ Len(Tail(stream.chan)) = Len(stream.chan) - 1
      BY <2>1, <3>1, HeadTailProperties
    <3>5. Len(Tail(stream.chan)) <= CHANNEL
      BY <3>1, <3>3, <3>4, RestoreAssumption
    <3> QED
      BY <3>1, <3>2, <3>4, <3>5 DEF RestoreInv, StreamInv
  <2>17. TallyInv'
    <3> DEFINE b == Bytes(SubSeq(rst.files, 1, rst.f - 1))
               l == Sizes[c].raw
    <3>1. rst.report.files = rst.f - 1 /\ rst.report.bytes = b + rst.written
      BY <2>2 DEF RestoreInv, TallyInv
    <3>2. b \in Nat
      <4>1. rst.f - 1 \in Nat /\ rst.f - 1 <= Len(rst.files)
        BY <2>4, <2>5
      <4> QED
        BY <2>3, <4>1, ReadBefore
    <3>3. l \in Nat
      BY <2>8
    <3> HIDE DEF b, l
    <3>4. rst'.report.bytes = b + rst'.written
      <4>1. rst'.report.bytes = (b + rst.written) + l /\ rst'.written = rst.written + l
        BY <2>9, <2>10, <3>1 DEF l
      <4> QED
        BY <2>3, <3>2, <3>3, <4>1
    <3>5. rst'.report.files = rst'.f - 1
      BY <2>9, <2>10, <3>1
    <3>6. rst'.pc \in Placing /\ rst'.pc # "done"
      BY <2>1, <2>2, <2>9
    <3> QED
      BY <2>9, <3>4, <3>5, <3>6 DEF TallyInv, b
  <2> QED
    BY <2>14, <2>15, <2>16, <2>17 DEF RestoreInv
<1> QED
  BY <1>1, <1>2

LEMMA StreamEndKeeps ==
    ASSUME SessInv, RestoreInv, stream_end, sess' = sess
    PROVE  RestoreInv'
<1> DEFINE all == rst.i > Len(File.chunks)
<1>1. CASE ~ (all /\ stream.chan = <<>>)
  BY <1>1, RestoreFailsKeeps DEF stream_end
<1>2. CASE all /\ stream.chan = <<>>
  <2>1. /\ rst.pc = "reading" /\ rst' = [rst EXCEPT !.pc = "finish"] /\ out' = out
        /\ stream' = stream
    BY <1>2 DEF stream_end
  <2>2. rst.pc \in Opened /\ rst.pc \in Placing
    BY <2>1 DEF Opened, Placing
  <2>3. /\ DOMAIN rst = {"pc", "sid", "keys", "files", "f", "i", "written", "report", "tick"}
        /\ rst.i \in Nat \ {0}
    BY DEF RestoreInv, RestoreShape
  <2>4. /\ DOMAIN rst' = DOMAIN rst /\ rst'.pc = "finish" /\ rst'.sid = rst.sid
        /\ rst'.files = rst.files
        /\ rst'.f = rst.f /\ rst'.i = rst.i /\ rst'.written = rst.written
        /\ rst'.report = rst.report
    BY <2>1, <2>3
  <2>5. rst'.pc \in Opened /\ rst'.pc \in Placing
    BY <2>4 DEF Opened, Placing
  <2>6. Specs' = Specs /\ File' = File
    BY <2>4 DEF Specs, File
  <2>7. rst.i = Len(File.chunks) + 1
    <3>1. /\ IsSnapshot(rst.files, Specs, sess[rst.sid].keys)
          /\ rst.f \in Nat \ {0} /\ Len(rst.files) \in Nat
      BY <2>2, OpenedFiles
    <3>2. rst.f <= Len(rst.files) /\ rst.i <= Len(File.chunks) + 1
      BY <2>2 DEF RestoreInv, PlaceInv
    <3>3. FileOf(File, Specs[rst.f], sess[rst.sid].keys)
      BY <3>1, <3>2 DEF IsSnapshot, File
    <3>4. Len(File.chunks) \in Nat
      BY <3>3 DEF FileOf
    <3> QED
      BY <1>2, <2>3, <3>2, <3>4
  <2>8. RestoreShape'
    <3>1. rst'.pc \in {"idle", "manifest", "failed"} \cup Opened
      BY <2>5
    <3> QED
      BY <2>4, <3>1 DEF RestoreInv, RestoreShape
  <2>9. StreamInv'
    BY <2>1 DEF RestoreInv, StreamInv
  <2>10. PlaceInv'
    BY <2>2, <2>4, <2>5, <2>6, <2>7 DEF RestoreInv, PlaceInv
  <2>11. OutInv'
    <3>1. \A n \in 1 .. (rst.f - 1) : Whole(n) => Whole(n)'
      BY <2>1, <2>4, <2>6 DEF Whole
    <3> QED
      BY <2>1, <2>2, <2>4, <2>5, <2>6, <3>1 DEF RestoreInv, OutInv
  <2>12. TallyInv'
    BY <2>2, <2>4, <2>5 DEF RestoreInv, TallyInv
  <2> QED
    BY <2>8, <2>9, <2>10, <2>11, <2>12 DEF RestoreInv
<1> QED
  BY <1>1, <1>2

LEMMA FinishFileKeeps ==
    ASSUME SessInv, RestoreInv, finish_file, sess' = sess
    PROVE  RestoreInv'
<1> DEFINE report == [rst.report EXCEPT !.files = @ + 1]
           path == File.path
           meta == <<from_unix_time(File.mtime_secs, File.mtime_nanos), set_mode(File.mode)>>
           file == [out[path] EXCEPT !.meta = meta]
<1>1. /\ rst.pc = "finish" /\ Place(path, file) /\ stream' = stream
      /\ rst' = IF rst.written # File.size THEN [rst EXCEPT !.pc = "failed"]
                ELSE [rst EXCEPT !.pc = "file", !.f = @ + 1, !.report = report, !.tick = report]
  BY DEF finish_file
<1>2. rst.pc \in Opened /\ rst.pc \in Placing
  BY <1>1 DEF Opened, Placing
<1>3. /\ DOMAIN rst = {"pc", "sid", "keys", "files", "f", "i", "written", "report", "tick"}
      /\ DOMAIN rst.report = {"files", "bytes", "chunks_fetched"}
      /\ rst.sid \in SnapshotId /\ rst.files \in Seq(ManifestEntry)
      /\ rst.i \in Nat \ {0} /\ rst.written \in Nat
  BY DEF RestoreInv, RestoreShape
<1>4. /\ IsSnapshot(rst.files, Specs, sess[rst.sid].keys)
      /\ rst.f \in Nat \ {0} /\ Len(rst.files) \in Nat
  BY <1>2, OpenedFiles
<1>5. rst.f <= Len(rst.files) /\ rst.i = Len(File.chunks) + 1 /\ SnapshotOf(rst.files, sess[rst.sid])
  BY <1>1, <1>2 DEF RestoreInv, PlaceInv
<1> DEFINE spec == Specs[rst.f]
           cs == spec.entry.chunks
<1>6. FileOf(File, spec, sess[rst.sid].keys)
  BY <1>4, <1>5 DEF IsSnapshot, File
<1>7. /\ cs \in Seq(Content) /\ Len(cs) \in Nat /\ Len(File.chunks) = Len(cs)
      /\ meta = <<spec.entry.mtime, set_mode(spec.entry.mode)>>
  BY <1>6 DEF FileOf
<1>8. /\ path \in DOMAIN out /\ DOMAIN out[path] = {"data", "meta"}
      /\ out[path].data = SubSeq(cs, 1, rst.i - 1)
  BY <1>2 DEF RestoreInv, OutInv
<1> HIDE DEF meta, cs
<1>9. SubSeq(cs, 1, rst.i - 1) = SubSeq(cs, 1, Len(cs)) /\ SubSeq(cs, 1, Len(cs)) = cs
  <2>1. rst.i - 1 = Len(cs)
    BY <1>5, <1>7
  <2>2. SubSeq(cs, 1, Len(cs)) = cs
    BY <1>7
  <2> QED
    BY <2>1, <2>2
<1>10. DOMAIN file = {"data", "meta"} /\ file.data = cs /\ file.meta = meta
  BY <1>8, <1>9
<1> HIDE DEF file
<1>11. rst.files # <<>> /\ rst.pc \in {"file"} \cup Placing /\ Len(cs) \in 0 .. Len(cs)
  BY <1>2, <1>4, <1>5, <1>7
<1>12. /\ DOMAIN out' = {rst.files[n].path : n \in 1 .. (rst.f - 1)} \cup {File.path}
       /\ out'[path] = file
       /\ \A p \in DOMAIN out' : DOMAIN out'[p] = {"data", "meta"}
       /\ \A n \in 1 .. (rst.f - 1) : out'[rst.files[n].path] = out[rst.files[n].path]
       /\ \A p \in DOMAIN out' : IsCut(p, out'[p].data, rst.files, Specs)
  BY <1>1, <1>5, <1>9, <1>10, <1>11, PlaceFile DEF cs
<1>13. StreamInv'
  BY <1>1 DEF RestoreInv, StreamInv
<1>14. CASE rst.written # File.size
  <2>1. /\ DOMAIN rst' = DOMAIN rst /\ rst'.pc = "failed" /\ rst'.sid = rst.sid
        /\ rst'.files = rst.files /\ rst'.f = rst.f /\ rst'.i = rst.i
        /\ rst'.written = rst.written /\ rst'.report = rst.report
    BY <1>1, <1>3, <1>14
  <2>2. rst'.pc \notin Opened /\ rst'.pc \notin Placing
    BY <2>1 DEF Opened, Placing
  <2>3. Specs' = Specs
    BY <2>1 DEF Specs
  <2>4. RestoreShape' /\ TallyInv'
    BY <2>1, <2>2 DEF RestoreInv, RestoreShape, TallyInv
  <2>5. PlaceInv'
    BY <1>5, <2>1, <2>2 DEF PlaceInv
  <2>6. OutInv'
    BY <1>11, <1>12, <2>1, <2>2, <2>3 DEF OutInv
  <2> QED
    BY <1>13, <2>4, <2>5, <2>6 DEF RestoreInv
<1>15. CASE rst.written = File.size
  <2>1. /\ DOMAIN rst' = DOMAIN rst /\ rst'.pc = "file" /\ rst'.sid = rst.sid
        /\ rst'.files = rst.files /\ rst'.f = rst.f + 1 /\ rst'.i = rst.i
        /\ rst'.written = rst.written /\ rst'.report = report
    BY <1>1, <1>3, <1>15
  <2>2. rst'.pc \in Opened /\ rst'.pc \notin Placing
    BY <2>1 DEF Opened, Placing
  <2>3. Specs' = Specs
    BY <2>1 DEF Specs
  <2>4. /\ DOMAIN report = DOMAIN rst.report /\ report.files = rst.report.files + 1
        /\ report.bytes = rst.report.bytes
    BY <1>3
  <2> HIDE DEF report
  <2>5. /\ rst'.f \in Nat \ {0} /\ rst'.f - 1 = rst.f /\ rst'.f <= Len(rst.files) + 1
    BY <1>4, <1>5, <2>1
  <2>6. RestoreShape'
    <3>1. rst'.pc \in {"idle", "manifest", "failed"} \cup Opened
      BY <2>2
    <3> QED
      BY <1>3, <2>1, <2>4, <2>5, <3>1 DEF RestoreShape
  <2>7. PlaceInv'
    BY <1>5, <2>1, <2>2, <2>5 DEF PlaceInv
  <2>8. \A n \in 1 .. rst.f : n \in 1 .. (rst.f - 1) \/ n = rst.f
    BY <1>4
  <2>9. {rst.files[n].path : n \in 1 .. rst.f} =
          {rst.files[n].path : n \in 1 .. (rst.f - 1)} \cup {File.path}
    <3>1. \A n \in 1 .. (rst.f - 1) : n \in 1 .. rst.f
      BY <1>4
    <3>2. rst.f \in 1 .. rst.f
      BY <1>4
    <3> QED
      BY <2>8, <3>1, <3>2 DEF File
  <2>10. ASSUME NEW n \in 1 .. rst.f PROVE Whole(n)'
    <3>1. CASE n = rst.f
      <4>1. rst'.files[n].path = path /\ Specs'[n] = spec
        BY <2>1, <2>3, <3>1 DEF File
      <4> QED
        BY <1>7, <1>10, <1>12, <4>1 DEF Whole, cs
    <3>2. CASE n \in 1 .. (rst.f - 1)
      <4>1. Whole(n)
        BY <1>2, <3>2 DEF RestoreInv, OutInv
      <4> QED
        BY <1>12, <2>1, <2>3, <3>2, <4>1 DEF Whole
    <3> QED
      BY <2>8, <3>1, <3>2
  <2>11. OutInv'
    <3>1. DOMAIN out' = {rst'.files[n].path : n \in 1 .. (rst'.f - 1)} \cup
                           (IF rst'.pc \in Placing THEN {File'.path} ELSE {})
      BY <1>12, <2>1, <2>2, <2>5, <2>9
    <3>2. \A n \in 1 .. (rst'.f - 1) : Whole(n)'
      BY <2>5, <2>10
    <3> QED
      BY <1>11, <1>12, <2>1, <2>2, <2>3, <3>1, <3>2 DEF OutInv
  <2>12. TallyInv'
    <3> DEFINE n == rst.f - 1
               before == SubSeq(rst.files, 1, n)
               b == Bytes(before)
    <3>1. rst.report.files = rst.f - 1 /\ rst.report.bytes = b + rst.written
      BY <1>2 DEF RestoreInv, TallyInv
    <3>2. n \in Nat /\ n + 1 = rst.f /\ n + 1 <= Len(rst.files)
      BY <1>4, <1>5
    <3> HIDE DEF n
    <3>3. SubSeq(rst.files, 1, n + 1) = Append(before, rst.files[n + 1])
      BY <1>3, <3>2, PrefixAppend
    <3>4. before \in Seq(ManifestEntry)
      BY <1>3, <1>4, <3>2
    <3>5. File \in ManifestEntry /\ rst.files[n + 1] = File
      BY <1>6, <3>2 DEF FileOf, File
    <3>6. File.size \in Nat
      BY <3>5 DEF ManifestEntry
    <3> HIDE DEF before
    <3>7. Bytes(Append(before, File)) = b + File.size
      BY <3>4, <3>5, <3>6, FilesSized, BytesAppend
    <3>8. Bytes(SubSeq(rst.files, 1, rst.f)) = rst.report.bytes
      BY <1>15, <3>1, <3>2, <3>3, <3>5, <3>7
    <3>9. b \in Nat
      BY <3>4, <3>5, <3>6, FilesSized, BytesAppend
    <3>10. rst.report.bytes \in Nat
      <4> HIDE DEF b
      <4> QED
        BY <1>3, <3>1, <3>9
    <3>11. /\ rst'.report.files = rst'.f - 1
           /\ rst'.report.bytes = Bytes(SubSeq(rst'.files, 1, rst'.f - 1)) + 0
      <4>1. Bytes(SubSeq(rst'.files, 1, rst'.f - 1)) = rst.report.bytes
        BY <2>1, <2>5, <3>8
      <4>2. rst'.report.bytes = rst.report.bytes
        BY <2>1, <2>4
      <4>3. rst'.report.files = rst'.f - 1
        BY <1>4, <2>1, <2>4, <3>1
      <4> QED
        BY <3>10, <4>1, <4>2, <4>3
    <3> QED
      BY <2>1, <2>2, <3>11 DEF TallyInv
  <2> QED
    BY <1>13, <2>6, <2>7, <2>11, <2>12 DEF RestoreInv
<1> QED
  BY <1>14, <1>15

LEMMA RestoredKeeps ==
    ASSUME SessInv, RestoreInv, restored, sess' = sess
    PROVE  RestoreInv'
<1>1. /\ rst.pc = "file" /\ rst.f > Len(rst.files) /\ out' = out /\ stream' = stream
      /\ rst' = [rst EXCEPT !.pc = "done", !.tick = rst.report]
  BY DEF restored
<1>2. rst.pc \in Opened /\ rst.pc \notin Placing
  BY <1>1 DEF Opened, Placing
<1>3. DOMAIN rst = {"pc", "sid", "keys", "files", "f", "i", "written", "report", "tick"}
  BY DEF RestoreInv, RestoreShape
<1>4. /\ DOMAIN rst' = DOMAIN rst /\ rst'.pc = "done" /\ rst'.sid = rst.sid
      /\ rst'.files = rst.files /\ rst'.f = rst.f /\ rst'.i = rst.i
      /\ rst'.written = rst.written /\ rst'.report = rst.report /\ rst'.tick = rst.report
  BY <1>1, <1>3
<1>5. rst'.pc \in Opened /\ rst'.pc \notin Placing
  BY <1>4 DEF Opened, Placing
<1>6. Specs' = Specs
  BY <1>4 DEF Specs
<1>7. rst.f = Len(rst.files) + 1
  <2>1. rst.f \in Nat \ {0} /\ Len(rst.files) \in Nat
    BY <1>2, OpenedFiles
  <2>2. rst.f <= Len(rst.files) + 1
    BY <1>1 DEF RestoreInv, PlaceInv
  <2> QED
    BY <1>1, <2>1, <2>2
<1>8. RestoreShape'
  <2>1. rst'.pc \in {"idle", "manifest", "failed"} \cup Opened
    BY <1>5
  <2> QED
    BY <1>4, <2>1 DEF RestoreInv, RestoreShape
<1>9. StreamInv'
  BY <1>1 DEF RestoreInv, StreamInv
<1>10. PlaceInv'
  BY <1>2, <1>4, <1>5, <1>7 DEF RestoreInv, PlaceInv
<1>11. OutInv'
  <2>1. \A n \in 1 .. (rst.f - 1) : Whole(n) => Whole(n)'
    BY <1>1, <1>4, <1>6 DEF Whole
  <2> QED
    BY <1>1, <1>2, <1>4, <1>5, <1>6, <2>1 DEF RestoreInv, OutInv
<1>12. TallyInv'
  BY <1>2, <1>4, <1>5 DEF RestoreInv, TallyInv
<1> QED
  BY <1>8, <1>9, <1>10, <1>11, <1>12 DEF RestoreInv

LEMMA ServeKeeps ==
    ASSUME VaultInv, RestoreInv, ServeStep, sess' = sess
    PROVE  RestoreInv'
<1>1. rst' = rst /\ out' = out
  BY DEF ServeStep
<1>2. Specs' = Specs /\ File' = File
  BY <1>1 DEF Specs, File
<1>3. RestoreShape' /\ PlaceInv' /\ TallyInv'
  BY <1>1, <1>2 DEF RestoreInv, RestoreShape, PlaceInv, TallyInv
<1>4. OutInv'
  <2>1. \A n \in 1 .. (rst.f - 1) : Whole(n) => Whole(n)'
    BY <1>1, <1>2 DEF Whole
  <2> QED
    BY <1>1, <1>2, <2>1 DEF RestoreInv, OutInv
<1>5. /\ DOMAIN stream = {"todo", "held", "chan", "running", "open"}
      /\ stream.todo \in Seq(ChunkIds) /\ stream.held \in Seq(Item) /\ stream.chan \in Seq(Item)
      /\ Len(stream.held) <= 1 /\ Len(stream.chan) <= CHANNEL
      /\ stream.running /\ stream.held = <<>> => stream.todo # <<>>
  BY DEF RestoreInv, StreamInv
<1>6. CASE fetch
  <2> DEFINE id == Head(stream.todo)
             item == get_chunk(id)
  <2>1. /\ stream.running /\ stream.held = <<>> /\ stream.todo # <<>>
        /\ stream' = [stream EXCEPT !.held = <<item>>, !.todo = Tail(@)]
    BY <1>5, <1>6 DEF fetch
  <2>2. id \in ChunkIds /\ Tail(stream.todo) \in Seq(ChunkIds)
    BY <1>5, <2>1, HeadTailProperties
  <2>3. item \in Item
    <3>1. CASE id \notin DOMAIN content
      BY <3>1 DEF get_chunk, Item
    <3>2. CASE id \in DOMAIN content /\ id \in rotten
      BY <3>2 DEF get_chunk, Item
    <3>3. CASE id \in DOMAIN content /\ id \notin rotten
      <4>1. content[id] \in Blob
        BY <3>3 DEF VaultInv
      <4>2. item = [status |-> "Ok", id |-> id, data |-> content[id]]
        BY <3>3 DEF get_chunk
      <4> QED
        BY <2>2, <4>1, <4>2 DEF Item
    <3> QED
      BY <3>1, <3>2, <3>3
  <2> HIDE DEF item
  <2>4. /\ DOMAIN stream' = DOMAIN stream /\ stream'.held = <<item>>
        /\ stream'.todo = Tail(stream.todo) /\ stream'.chan = stream.chan
    BY <1>5, <2>1
  <2>5. <<item>> \in Seq(Item) /\ Len(<<item>>) = 1 /\ <<item>> # <<>>
    BY <2>3
  <2>6. StreamInv'
    BY <1>5, <2>2, <2>4, <2>5 DEF StreamInv
  <2> QED
    BY <1>3, <1>4, <2>6 DEF RestoreInv
<1>7. CASE deliver
  <2> DEFINE item == stream.held[1]
             chan == IF stream.open THEN Append(stream.chan, item) ELSE stream.chan
             running == stream.open /\ stream.todo # <<>> /\ item.status = "Ok"
  <2>1. /\ stream.held # <<>> /\ (Len(stream.chan) < CHANNEL \/ ~stream.open)
        /\ stream' = [stream EXCEPT !.held = <<>>, !.chan = chan, !.running = running]
    BY <1>7 DEF deliver, Delivers
  <2>2. item \in Item
    <3>1. Len(stream.held) \in Nat /\ Len(stream.held) # 0
      BY <1>5, <2>1, LenProperties, EmptySeq
    <3>2. 1 \in 1 .. Len(stream.held)
      BY <3>1
    <3> QED
      BY <1>5, <3>2, ElementOfSeq
  <2> HIDE DEF item
  <2>3. chan \in Seq(Item) /\ Len(chan) <= CHANNEL
    <3>1. CASE stream.open
      <4>1. Append(stream.chan, item) \in Seq(Item) /\ Len(Append(stream.chan, item)) = Len(stream.chan) + 1
        BY <1>5, <2>2, AppendProperties
      <4>2. Len(stream.chan) \in Nat
        BY <1>5, LenProperties
      <4>3. Len(stream.chan) + 1 <= CHANNEL
        BY <2>1, <3>1, <4>2, RestoreAssumption
      <4> QED
        BY <3>1, <4>1, <4>3
    <3>2. CASE ~stream.open
      BY <1>5, <3>2
    <3> QED
      BY <3>1, <3>2
  <2>4. running => stream.todo # <<>>
    OBVIOUS
  <2> HIDE DEF chan, running
  <2>5. /\ DOMAIN stream' = DOMAIN stream /\ stream'.held = <<>> /\ stream'.todo = stream.todo
        /\ stream'.chan = chan /\ stream'.running = running
    BY <1>5, <2>1
  <2>6. <<>> \in Seq(Item) /\ Len(<<>>) = 0
    OBVIOUS
  <2>7. StreamInv'
    BY <1>5, <2>3, <2>4, <2>5, <2>6 DEF StreamInv
  <2> QED
    BY <1>3, <1>4, <2>7 DEF RestoreInv
<1> QED
  BY <1>6, <1>7 DEF ServeStep

LEMMA RestoreStepKeeps ==
    ASSUME SessInv, VaultInv, ListedInv, RestoreInv, sess' = sess,
           RestoreStep \/ restore_interrupted \/ ServeStep
    PROVE  RestoreInv'
<1>1. CASE RestoreStep
  BY <1>1, StartKeeps, GetManifestKeeps, OpenFileKeeps, ReadChunkKeeps, StreamEndKeeps,
     FinishFileKeeps, RestoredKeeps DEF RestoreStep
<1>2. CASE restore_interrupted
  BY <1>2, RestoreFailsKeeps DEF restore_interrupted
<1>3. CASE ServeStep
  BY <1>3, ServeKeeps
<1> QED
  BY <1>1, <1>2, <1>3

-----------------------------------------------------------------------------
(* The invariant *)

LEMMA InitInv == Init => IInv
<1> SUFFICES ASSUME Init PROVE IInv
  OBVIOUS
<1>1. SessInv
  <2>1. PICK orders \in Orders : sess = [s \in SnapshotId |-> Run(orders[s])]
    BY DEF Init, BackupInit
  <2>2. orders \in [SnapshotId -> [keys : KeyPair, roots : Seq(SourceRoot), policy : PolicyConfig]]
    BY <2>1, OrdersAssumption
  <2>3. ASSUME NEW s \in SnapshotId PROVE RunInv(sess[s])
    <3> DEFINE order == orders[s]
    <3>1. order.keys \in KeyPair /\ order.roots \in Seq(SourceRoot)
      BY <2>2
    <3>2. Request(order.roots)
      BY <2>1, <3>1, OrdersAssumption DEF Request
    <3>3. Fresh(Run(order), order)
      BY RunIsFresh
    <3>4. sess[s] = Run(order)
      BY <2>1
    <3> HIDE DEF order
    <3> QED
      BY <3>1, <3>2, <3>3, <3>4, FreshInv
  <2> QED
    BY <2>1, <2>3 DEF SessInv
<1>2. VaultInv /\ ListedInv
  BY DEF Init, RpcInit, VaultInv, ListedInv
<1>3. /\ rst \in [pc : {"idle"}, sid : Restorable, keys : KeyPair, files : {<<>>}, f : {1}, i : {1},
                  written : {0}, report : {NoRestoreReport}, tick : {NoRestoreReport}]
      /\ out \in Targets /\ stream = NoStream
  BY DEF Init, RestoreInit
<1>4. /\ DOMAIN rst = {"pc", "sid", "keys", "files", "f", "i", "written", "report", "tick"}
      /\ rst.pc = "idle" /\ rst.sid \in Restorable /\ rst.files = <<>> /\ rst.f = 1 /\ rst.i = 1
      /\ rst.written = 0 /\ rst.report = NoRestoreReport
  BY <1>3
<1>5. rst.pc \notin Opened /\ rst.pc \notin Placing
  BY <1>4 DEF Opened, Placing
<1>6. RestoreShape
  BY <1>4, RestoreAssumption DEF RestoreShape, NoRestoreReport
<1>7. StreamInv
  <2>1. <<>> \in Seq(ChunkIds) /\ <<>> \in Seq(Item) /\ Len(<<>>) = 0
    OBVIOUS
  <2>2. /\ DOMAIN stream = {"todo", "held", "chan", "running", "open"} /\ stream.todo = <<>>
        /\ stream.held = <<>> /\ stream.chan = <<>> /\ ~stream.running
    BY <1>3 DEF NoStream
  <2> QED
    BY <2>1, <2>2, RestoreAssumption DEF StreamInv
<1>8. PlaceInv
  BY <1>4, <1>5 DEF PlaceInv
<1>9. OutInv
  BY <1>3, <1>4, <1>5 DEF OutInv
<1>10. TallyInv
  BY <1>4, <1>5 DEF TallyInv
<1> QED
  BY <1>1, <1>2, <1>6, <1>7, <1>8, <1>9, <1>10 DEF IInv

LEMMA NextInv == IInv /\ [Next]_vars => IInv'
<1> SUFFICES ASSUME IInv, [Next]_vars PROVE IInv'
  OBVIOUS
<1>1. SessInv /\ VaultInv /\ ListedInv /\ RestoreInv
  BY DEF IInv, RestoreInv
<1>2. SUFFICES SessInv' /\ VaultInv' /\ ListedInv' /\ RestoreInv'
  BY DEF IInv, RestoreInv
<1>3. ASSUME NEW s \in SnapshotId, BackupStep(s) \/ Interrupted(s)
      PROVE  SessInv' /\ VaultInv' /\ ListedInv' /\ RestoreInv'
  <2>1. (RunStep(s) \/ interrupted(s)) /\ UNCHANGED restoreVars
    BY <1>3 DEF BackupStep, Interrupted
  <2>2. SessInv' /\ OrdersKept /\ VaultInv' /\ ListedInv'
    BY <1>1, <2>1, RunStepKeeps
  <2> QED
    BY <1>1, <2>1, <2>2, RestoreIdle
<1>4. ASSUME UNCHANGED <<rpcVars, sess>> PROVE SessInv' /\ VaultInv' /\ ListedInv'
  <2>1. sess' = sess /\ UNCHANGED rpcVars
    BY <1>4
  <2>2. SessInv' /\ OrdersKept
    BY <1>1, <2>1 DEF SessInv, OrdersKept
  <2> QED
    BY <1>1, <2>1, <2>2, VaultIdle
<1>5. CASE \/ RestoreSide(RestoreStep) \/ RestoreSide(restore_interrupted)
           \/ RestoreSide(ServeStep)
  <2>1. (RestoreStep \/ restore_interrupted \/ ServeStep) /\ UNCHANGED <<rpcVars, sess>>
    BY <1>5 DEF RestoreSide
  <2>2. sess' = sess
    BY <2>1
  <2> QED
    BY <1>1, <1>4, <2>1, <2>2, RestoreStepKeeps
<1>6. CASE RpcEnv /\ UNCHANGED <<sess, restoreVars>>
  <2>1. sess' = sess /\ UNCHANGED restoreVars
    BY <1>6
  <2>2. SessInv' /\ OrdersKept
    BY <1>1, <2>1 DEF SessInv, OrdersKept
  <2> QED
    BY <1>1, <1>6, <2>1, <2>2, EnvKeeps, RestoreIdle
<1>7. CASE UNCHANGED vars
  <2>1. UNCHANGED <<rpcVars, sess>> /\ UNCHANGED restoreVars
    BY <1>7 DEF vars
  <2>2. OrdersKept
    BY <2>1 DEF OrdersKept
  <2> QED
    BY <1>1, <1>4, <2>1, <2>2, RestoreIdle
<1> QED
  BY <1>3, <1>5, <1>6, <1>7 DEF Next

LEMMA Invariance == Spec => []IInv
<1> QED
  BY InitInv, NextInv, PTL DEF Spec

-----------------------------------------------------------------------------
(* Who sealed what is held *)

\* A run sends blobs under its own data key and IDs of its own chunk-ID key.
Own(r, u) == u.data.key = r.keys.data /\ \E c \in Content : u.id = keyed(r.keys.id, c)
SealsOwn(r) == \A k \in 1 .. Len(r.blobs) : Own(r, r.blobs[k])

\* Some run that has begun sent this blob under this ID.
SentBy(t, id, blob) ==
    /\ t \in SnapshotId /\ sess[t].pc # "idle" /\ blob.key = sess[t].keys.data
    /\ \E c \in Content : id = keyed(sess[t].keys.id, c)
SealInv ==
    /\ \A s \in SnapshotId : SealsOwn(sess[s])
    /\ \A id \in DOMAIN content : \E t \in SnapshotId : SentBy(t, id, content[id])

\* A run goes on under its keys, with what it had to send or less.
Onward(s) ==
    /\ \A t \in SnapshotId : sess'[t].keys = sess[t].keys
    /\ \A t \in SnapshotId : sess[t].pc # "idle" => sess'[t].pc # "idle"
    /\ \A t \in SnapshotId \ {s} : sess'[t] = sess[t]
    /\ SealsOwn(sess'[s])

LEMMA GoesOnward ==
    ASSUME SessInv, SealInv, NEW s \in SnapshotId, NEW n, Goto(s, n), n.pc # "idle",
           n.keys = sess[s].keys, SealsOwn(n)
    PROVE  Onward(s)
<1>1. DOMAIN sess = SnapshotId
  BY DEF SessInv
<1>2. sess'[s] = n /\ \A t \in SnapshotId \ {s} : sess'[t] = sess[t]
  BY <1>1 DEF Goto
<1> QED
  BY <1>2 DEF Onward

LEMMA SameBlobs ==
    ASSUME SessInv, SealInv, NEW s \in SnapshotId, NEW n, n.keys = sess[s].keys,
           n.blobs = sess[s].blobs \/ n.blobs = <<>>
    PROVE  SealsOwn(n)
<1>1. SealsOwn(sess[s])
  BY DEF SealInv
<1>2. CASE n.blobs = <<>>
  BY <1>2 DEF SealsOwn
<1>3. CASE n.blobs = sess[s].blobs
  BY <1>1, <1>3 DEF SealsOwn, Own
<1> QED
  BY <1>2, <1>3

LEMMA FailsOnward ==
    ASSUME SessInv, SealInv, NEW s \in SnapshotId, Fails(s)
    PROVE  Onward(s)
<1> DEFINE n == [Run(sess[s]) EXCEPT !.pc = "failed"]
<1>1. Goto(s, n)
  BY DEF Fails
<1>2. n.pc = "failed" /\ n.keys = sess[s].keys /\ n.blobs = <<>>
  BY DEF Run
<1> HIDE DEF n
<1> QED
  BY <1>1, <1>2, SameBlobs, GoesOnward

LEMMA FlushedRun ==
    ASSUME NEW r, DOMAIN r = RunFields
    PROVE  Flushed(r).pc # "idle" /\ Flushed(r).keys = r.keys /\ Flushed(r).blobs = r.blobs
<1>1. CASE r.f <= Len(r.specs)
  <2> DEFINE q == [r EXCEPT !.pc = "chunking", !.bytes = 0]
  <2>1. DOMAIN q = RunFields /\ q.pc = "chunking" /\ q.keys = r.keys /\ q.blobs = r.blobs
    BY DEF RunFields
  <2> HIDE DEF q
  <2>2. Flushed(r) = Ticked(q, FALSE)
    BY <1>1 DEF Flushed, q
  <2> QED
    BY <2>1, <2>2 DEF Ticked, RunFields
<1>2. CASE ~(r.f <= Len(r.specs))
  <2> DEFINE q == Ticked(r, TRUE)
  <2>1. DOMAIN q = RunFields /\ q.keys = r.keys /\ q.blobs = r.blobs
    BY DEF RunFields, Ticked
  <2> HIDE DEF q
  <2>2. Flushed(r) = [q EXCEPT !.pc = "manifest", !.report.compression = r.counters]
    BY <1>2 DEF Flushed, q
  <2> QED
    BY <2>1, <2>2 DEF RunFields
<1> QED
  BY <1>1, <1>2

\* What a step of a run makes of it, other than packing and sending.
LEMMA StepOnward ==
    ASSUME SessInv, SealInv, NEW s \in SnapshotId,
           \/ begin(s) \/ next_chunk(s) \/ end_file(s) \/ last_flush(s) \/ ask(s)
           \/ flushed(s) \/ store_manifest(s) \/ acknowledged(s) \/ interrupted(s)
    PROVE  Onward(s)
<1> DEFINE r == sess[s]
<1>1. DOMAIN r = RunFields
  BY DEF SessInv, RunInv, RunShape
<1> HIDE DEF r
<1>2. ASSUME NEW n, Goto(s, n), n.pc # "idle", n.keys = r.keys, n.blobs = r.blobs
      PROVE  Onward(s)
  BY <1>2, SameBlobs, GoesOnward DEF r
<1>3. CASE Fails(s)
  BY <1>3, FailsOnward
<1>4. CASE begin(s) /\ ~Fails(s)
  <2> DEFINE n == [r EXCEPT !.pc = "chunking", !.specs = collect_files(r.roots),
                     !.phase = IF list_snapshots = {} THEN "InitialFull" ELSE "Incremental"]
  <2>1. Goto(s, n)
    BY <1>4 DEF begin, r
  <2>2. n.pc = "chunking" /\ n.keys = r.keys /\ n.blobs = r.blobs
    BY <1>1 DEF RunFields
  <2> HIDE DEF n
  <2> QED
    BY <1>2, <2>1, <2>2
<1>5. CASE next_chunk(s)
  <2> DEFINE c == Here(r).chunks[r.i]
             id == keyed(r.keys.id, c)
             met == [r EXCEPT !.i = @ + 1, !.len = @ + Sizes[c].raw, !.chunks = Append(@, id),
                              !.report.chunks_total = @ + 1]
             new == [met EXCEPT !.seen = @ \cup {id}, !.report.chunks_unique = @ + 1,
                                !.bytes = @ + Sizes[c].raw, !.pending = Append(@, <<id, c>>)]
             full == Len(new.pending) >= BATCH_MAX_CHUNKS \/ new.bytes >= BATCH_MAX_BYTES
             left == [new EXCEPT !.pc = IF full THEN "asking" ELSE @]
             n == IF id \in r.seen THEN met ELSE left
  <2>1. Goto(s, n) /\ r.pc = "chunking"
    BY <1>5 DEF next_chunk, Reading, r
  <2>2. DOMAIN met = RunFields /\ met.pc = r.pc /\ met.keys = r.keys /\ met.blobs = r.blobs
    BY <1>1 DEF RunFields
  <2> HIDE DEF met, c, id
  <2>3. DOMAIN new = RunFields /\ new.pc = met.pc /\ new.keys = met.keys /\ new.blobs = met.blobs
    BY <2>2 DEF RunFields
  <2> HIDE DEF new, full
  <2>4. left.pc \in {"asking", new.pc} /\ left.keys = new.keys /\ left.blobs = new.blobs
    BY <2>3 DEF RunFields
  <2> HIDE DEF left
  <2>5. n.pc # "idle" /\ n.keys = r.keys /\ n.blobs = r.blobs
    BY <2>1, <2>2, <2>3, <2>4
  <2> HIDE DEF n
  <2> QED
    BY <1>2, <2>1, <2>5
<1>6. CASE end_file(s)
  <2> DEFINE m == mtime_parts(Here(r).mtime)
             entry == [path |-> r.specs[r.f].rel, size |-> r.len, mtime_secs |-> m[1],
                       mtime_nanos |-> m[2], mode |-> Here(r).mode, chunks |-> r.chunks]
             q == [r EXCEPT !.f = @ + 1, !.i = 1, !.len = 0, !.chunks = <<>>,
                            !.files = Append(@, entry), !.report.files = @ + 1,
                            !.report.source_bytes = @ + r.len]
             n == Ticked(q, FALSE)
  <2>1. Goto(s, n) /\ r.pc = "chunking"
    BY <1>6 DEF end_file, Reading, r
  <2> HIDE DEF entry
  <2>2. DOMAIN q = RunFields /\ q.pc = r.pc /\ q.keys = r.keys /\ q.blobs = r.blobs
    BY <1>1 DEF RunFields
  <2> HIDE DEF q
  <2>3. n.pc = q.pc /\ n.keys = q.keys /\ n.blobs = q.blobs
    BY <2>2 DEF Ticked, RunFields
  <2> HIDE DEF n
  <2> QED
    BY <1>2, <2>1, <2>2, <2>3
<1>7. CASE last_flush(s)
  <2> DEFINE q == [r EXCEPT !.pc = "asking"]
             n == IF r.pending = <<>> THEN Flushed(r) ELSE q
  <2>1. Goto(s, n)
    BY <1>7 DEF last_flush, r
  <2>2. q.pc = "asking" /\ q.keys = r.keys /\ q.blobs = r.blobs
    BY <1>1 DEF RunFields
  <2> HIDE DEF q
  <2>3. n.pc # "idle" /\ n.keys = r.keys /\ n.blobs = r.blobs
    BY <1>1, <2>2, FlushedRun
  <2> HIDE DEF n
  <2> QED
    BY <1>2, <2>1, <2>3
<1>8. CASE ask(s)
  <2> DEFINE id == r.pending[r.asked + 1][1]
             before == IF r.asked = 0 THEN {} ELSE r.missing
             last == r.asked + 1 = Len(r.pending)
             pc == IF last THEN "packing" ELSE "asking"
             missing == IF has_chunk(id) THEN before ELSE before \cup {id}
             n == [r EXCEPT !.pc = pc, !.asked = IF last THEN 0 ELSE @ + 1, !.missing = missing]
  <2>1. Goto(s, n) /\ pc # "idle"
    BY <1>8 DEF ask, r
  <2> HIDE DEF pc, missing, last
  <2>2. n.pc = pc /\ n.keys = r.keys /\ n.blobs = r.blobs
    BY <1>1 DEF RunFields
  <2> HIDE DEF n
  <2> QED
    BY <1>2, <2>1, <2>2
<1>9. CASE flushed(s)
  <2> DEFINE n == Flushed(r)
  <2>1. Goto(s, n)
    BY <1>9 DEF flushed, r
  <2>2. n.pc # "idle" /\ n.keys = r.keys /\ n.blobs = r.blobs
    BY <1>1, FlushedRun
  <2> HIDE DEF n
  <2> QED
    BY <1>2, <2>1, <2>2
<1>10. CASE store_manifest(s) /\ ~Fails(s)
  <2> DEFINE n == [r EXCEPT !.pc = "stored", !.report.manifest_bytes = Sealed(s).len]
  <2>1. Goto(s, n)
    BY <1>10 DEF store_manifest, r
  <2>2. n.pc = "stored" /\ n.keys = r.keys /\ n.blobs = r.blobs
    BY <1>1 DEF RunFields
  <2> HIDE DEF n
  <2> QED
    BY <1>2, <2>1, <2>2
<1>11. CASE acknowledged(s)
  <2> DEFINE n == [r EXCEPT !.pc = "done"]
  <2>1. Goto(s, n)
    BY <1>11 DEF acknowledged, r
  <2>2. n.pc = "done" /\ n.keys = r.keys /\ n.blobs = r.blobs
    BY <1>1 DEF RunFields
  <2> HIDE DEF n
  <2> QED
    BY <1>2, <2>1, <2>2
<1>12. CASE interrupted(s)
  BY <1>3, <1>12 DEF interrupted
<1> QED
  BY <1>3, <1>4, <1>5, <1>6, <1>7, <1>8, <1>9, <1>10, <1>11, <1>12

LEMMA PackOnward ==
    ASSUME SessInv, SealInv, NEW s \in SnapshotId, pack(s)
    PROVE  Onward(s)
<1> DEFINE r == sess[s]
           id == Head(r.pending)[1]
           c == Head(r.pending)[2]
           blob == Packed(r, id, c)
           rest == [r EXCEPT !.pending = Tail(@)]
           shipped == [rest EXCEPT !.counters = Counted(@, c, r.phase, r.policy),
                         !.report.upload_bytes = @ + blob.data.len,
                         !.report.chunks_uploaded = @ + 1, !.blobs = Append(@, blob)]
           skipped == Skipped(rest)
<1>1. /\ r.pc = "packing" /\ r.pending # <<>>
      /\ Goto(s, IF id \in r.missing THEN shipped ELSE skipped)
  BY DEF pack
<1>2. DOMAIN r = RunFields /\ r.blobs \in Seq(Upload) /\ r.pending \in Seq(Pending(r.keys))
  BY DEF SessInv, RunInv, RunShape, RunBatch
<1>3. id = keyed(r.keys.id, c) /\ c \in Content
  <2>1. Head(r.pending) \in Pending(r.keys)
    BY <1>1, <1>2, HeadTailProperties
  <2> QED
    BY <2>1 DEF Pending
<1>4. Own(r, blob)
  <2>1. blob.id = id /\ blob.data.key = r.keys.data
    BY DEF Packed, encrypt_chunk, seal
  <2> HIDE DEF blob
  <2> QED
    BY <1>3, <2>1 DEF Own
<1>5. SealsOwn(r)
  BY DEF SealInv
<1> HIDE DEF r, id, c, blob
<1>6. DOMAIN rest = RunFields /\ rest.pc = r.pc /\ rest.keys = r.keys /\ rest.blobs = r.blobs
  BY <1>2 DEF RunFields
<1> HIDE DEF rest
<1>7. CASE id \in r.missing
  <2> DEFINE n == shipped
  <2>1. n.pc = r.pc /\ n.keys = r.keys /\ n.blobs = Append(r.blobs, blob)
    BY <1>6 DEF RunFields
  <2>2. Goto(s, n)
    BY <1>1, <1>7
  <2> HIDE DEF n
  <2>3. /\ Len(n.blobs) = Len(r.blobs) + 1 /\ Len(r.blobs) \in Nat /\ n.blobs[Len(r.blobs) + 1] = blob
        /\ \A k \in 1 .. Len(r.blobs) : n.blobs[k] = r.blobs[k]
    BY <1>2, <2>1, AppendProperties
  <2>4. ASSUME NEW k \in 1 .. Len(n.blobs) PROVE Own(r, n.blobs[k])
    <3>1. k = Len(r.blobs) + 1 \/ k \in 1 .. Len(r.blobs)
      BY <2>3
    <3> QED
      BY <1>4, <1>5, <2>3, <3>1 DEF SealsOwn
  <2>5. SealsOwn(n)
    BY <2>1, <2>4 DEF SealsOwn, Own
  <2> QED
    BY <1>1, <2>1, <2>2, <2>5, GoesOnward DEF r
<1>8. CASE id \notin r.missing
  <2> DEFINE n == skipped
  <2>1. n.pc = r.pc /\ n.keys = r.keys /\ n.blobs = r.blobs
    BY <1>6 DEF RunFields, Skipped
  <2>2. Goto(s, n)
    BY <1>1, <1>8
  <2> HIDE DEF n
  <2> QED
    BY <1>1, <2>1, <2>2, SameBlobs, GoesOnward DEF r
<1> QED
  BY <1>7, <1>8

\* The blob that is sent is one of the run's own.
LEMMA UploadOnward ==
    ASSUME SessInv, SealInv, NEW s \in SnapshotId, upload_chunk(s)
    PROVE  Onward(s) /\ sess[s].pc # "idle" /\ Own(sess[s], Head(sess[s].blobs))
<1> DEFINE r == sess[s]
           n == [r EXCEPT !.blobs = Tail(@)]
<1>1. /\ DOMAIN r = RunFields /\ r.blobs \in Seq(Upload) /\ SealsOwn(r)
      /\ r.pc = "packing" /\ r.blobs # <<>> /\ Goto(s, n)
  BY DEF SessInv, RunInv, RunShape, RunBatch, SealInv, upload_chunk
<1> HIDE DEF r
<1>2. n.pc = r.pc /\ n.keys = r.keys /\ n.blobs = Tail(r.blobs)
  BY <1>1 DEF RunFields
<1> HIDE DEF n
<1>3. /\ Len(r.blobs) \in Nat \ {0} /\ Len(Tail(r.blobs)) = Len(r.blobs) - 1
      /\ \A k \in 1 .. (Len(r.blobs) - 1) : Tail(r.blobs)[k] = r.blobs[k + 1]
      /\ Head(r.blobs) = r.blobs[1]
  BY <1>1
<1>4. ASSUME NEW k \in 1 .. Len(n.blobs) PROVE Own(r, n.blobs[k])
  <2>1. k + 1 \in 1 .. Len(r.blobs) /\ n.blobs[k] = r.blobs[k + 1]
    BY <1>2, <1>3
  <2> QED
    BY <1>1, <2>1 DEF SealsOwn
<1>5. SealsOwn(n)
  BY <1>2, <1>4 DEF SealsOwn, Own
<1>6. Own(r, Head(r.blobs))
  <2>1. 1 \in 1 .. Len(r.blobs)
    BY <1>3
  <2> QED
    BY <1>1, <1>3, <2>1 DEF SealsOwn
<1> QED
  BY <1>1, <1>2, <1>5, <1>6, GoesOnward DEF r

\* What is held stays what its sender made of it.
LEMMA SealsKept ==
    ASSUME SealInv, NEW s \in SnapshotId, Onward(s),
           \A id \in DOMAIN content' :
             \/ id \in DOMAIN content /\ content'[id] = content[id]
             \/ SentBy(s, id, content'[id])
    PROVE  SealInv'
<1>1. ASSUME NEW t \in SnapshotId PROVE SealsOwn(sess'[t])
  <2>1. CASE t = s
    BY <2>1 DEF Onward
  <2>2. CASE t # s
    BY <2>2 DEF Onward, SealInv
  <2> QED
    BY <2>1, <2>2
<1>2. ASSUME NEW id, NEW blob, NEW t \in SnapshotId, SentBy(t, id, blob)
      PROVE  /\ sess'[t].pc # "idle" /\ blob.key = sess'[t].keys.data
             /\ \E c \in Content : id = keyed(sess'[t].keys.id, c)
  BY <1>2 DEF SentBy, Onward
<1>3. ASSUME NEW id \in DOMAIN content'
      PROVE  \E t \in SnapshotId :
               /\ sess'[t].pc # "idle" /\ content'[id].key = sess'[t].keys.data
               /\ \E c \in Content : id = keyed(sess'[t].keys.id, c)
  <2>1. PICK t \in SnapshotId : SentBy(t, id, content'[id])
    BY <1>3 DEF SealInv
  <2> QED
    BY <1>2, <2>1
<1> QED
  BY <1>1, <1>3 DEF SealInv, SentBy

LEMMA SealNext == IInv /\ SealInv /\ [Next]_vars => SealInv'
<1> SUFFICES ASSUME IInv, SealInv, [Next]_vars PROVE SealInv'
  OBVIOUS
<1>1. SessInv /\ VaultInv
  BY DEF IInv
<1>2. ASSUME NEW s \in SnapshotId, RunStep(s) \/ interrupted(s) PROVE SealInv'
  <2>1. CASE upload_chunk(s)
    <3> DEFINE u == Head(sess[s].blobs)
    <3>1. Onward(s) /\ sess[s].pc # "idle" /\ Own(sess[s], u)
      BY <1>1, <2>1, UploadOnward
    <3>2. put_chunk(u.id, u.data)
      BY <2>1 DEF upload_chunk
    <3> HIDE DEF u
    <3>3. SentBy(s, u.id, u.data)
      BY <3>1 DEF Own, SentBy
    <3>4. \/ content' = content
          \/ content' = [x \in DOMAIN content \cup {u.id} |-> IF x = u.id THEN u.data ELSE content[x]]
      BY <3>2 DEF put_chunk, Vault!Store
    <3>5. ASSUME NEW id \in DOMAIN content'
          PROVE  \/ id \in DOMAIN content /\ content'[id] = content[id]
                 \/ id = u.id /\ content'[id] = u.data
      BY <3>4, <3>5
    <3> QED
      BY <3>1, <3>3, <3>5, SealsKept
  <2>2. CASE ~upload_chunk(s)
    <3>1. content' = content
      BY <1>2, <2>2
      DEF RunStep, begin, next_chunk, end_file, last_flush, ask, pack, flushed, store_manifest,
          acknowledged, interrupted, rpcVars, put_manifest, Vault!Accept
    <3>2. Onward(s)
      BY <1>1, <1>2, <2>2, StepOnward, PackOnward DEF RunStep
    <3> QED
      BY <3>1, <3>2, SealsKept
  <2> QED
    BY <2>1, <2>2
<1>3. CASE sess' = sess /\ content' = content
  BY <1>3 DEF SealInv, SealsOwn, Own, SentBy
<1>4. CASE gc /\ sess' = sess
  <2>1. PICK id \in DOMAIN content : content' = [x \in DOMAIN content \ {id} |-> content[x]]
    BY <1>4 DEF gc, Vault!Reclaim
  <2>2. \A x \in DOMAIN content' : x \in DOMAIN content /\ content'[x] = content[x]
    BY <2>1
  <2> QED
    BY <1>4, <2>2 DEF SealInv, SealsOwn, Own, SentBy
<1>5. CASE (prune \/ Rot) /\ sess' = sess
  <2>1. content' = content
    BY <1>5 DEF prune, Rot, Vault!Retire
  <2> QED
    BY <1>3, <1>5, <2>1
<1> QED
  BY <1>2, <1>3, <1>4, <1>5
  DEF Next, BackupStep, Interrupted, RestoreSide, RpcEnv, vars, rpcVars

LEMMA SealInit == Init => SealInv
<1> SUFFICES ASSUME Init PROVE SealInv
  OBVIOUS
<1>1. content = <<>>
  BY DEF Init, RpcInit
<1>2. PICK orders \in Orders : sess = [s \in SnapshotId |-> Run(orders[s])]
  BY DEF Init, BackupInit
<1>3. ASSUME NEW s \in SnapshotId PROVE SealsOwn(sess[s])
  <2>1. sess[s].blobs = <<>>
    BY <1>2 DEF Run
  <2> QED
    BY <2>1 DEF SealsOwn
<1> QED
  BY <1>1, <1>3 DEF SealInv

LEMMA SealInvariance == Spec => []SealInv
<1> QED
  BY SealInit, SealNext, Invariance, PTL DEF Spec

-----------------------------------------------------------------------------
(* What follows *)

\* A file of the source, as the properties tell it.
Made(spec) == [path |-> spec.rel, data |-> spec.entry.chunks,
               meta |-> <<spec.entry.mtime, spec.entry.mode>>]
\* And as a restore leaves it.
Placed(spec) == [path |-> spec.rel, data |-> spec.entry.chunks,
                 meta |-> <<spec.entry.mtime, set_mode(spec.entry.mode)>>]

\* The walk and the source said without it are the same files.
LEMMA SourceIsWalk ==
    ASSUME NEW roots, Request(roots)
    PROVE  LET specs == collect_files(roots) IN
           Source(roots) = {Made(specs[j]) : j \in 1 .. Len(specs)}
<1> DEFINE specs == collect_files(roots)
           walked == {Made(specs[j]) : j \in 1 .. Len(specs)}
           made(n, k) == [path |-> <<roots[n].name, roots[n].entries[k].name>>,
                          data |-> roots[n].entries[k].chunks,
                          meta |-> <<roots[n].entries[k].mtime, roots[n].entries[k].mode>>]
<1>1. IsCollected(specs, roots)
  BY Collected
<1> HIDE DEF specs
<1>2. DOMAIN roots = 1 .. Len(roots) /\ \A n \in 1 .. Len(roots) : roots[n] \in SourceRoot
  BY ElementOfSeq, LenProperties DEF Request
<1>3. \A n \in 1 .. Len(roots) : roots[n].entries \in Seq(DirEntry)
  BY <1>2 DEF SourceRoot
<1>4. \A n \in 1 .. Len(roots) : DOMAIN roots[n].entries = 1 .. Len(roots[n].entries)
  BY <1>3, LenProperties
<1>5. \A n, k : Made(SpecOf(roots[n], k)) = made(n, k)
  BY DEF Made, SpecOf
<1>51. ASSUME NEW x
       PROVE  x \in FilesOf(roots) <=> \E n \in 1 .. Len(roots) :
                x \in {<<n, e>> : e \in {k \in DOMAIN roots[n].entries : roots[n].entries[k].kind = "file"}}
  BY <1>2 DEF FilesOf
<1>6. ASSUME NEW n, NEW k
      PROVE  <<n, k>> \in FilesOf(roots) <=>
               n \in 1 .. Len(roots) /\ k \in 1 .. Len(roots[n].entries) /\ roots[n].entries[k].kind = "file"
  <2>1. ASSUME <<n, k>> \in FilesOf(roots)
        PROVE  n \in 1 .. Len(roots) /\ k \in 1 .. Len(roots[n].entries) /\ roots[n].entries[k].kind = "file"
    <3>1. PICK m \in 1 .. Len(roots) :
            <<n, k>> \in {<<m, e>> : e \in {j \in DOMAIN roots[m].entries : roots[m].entries[j].kind = "file"}}
      BY <1>51, <2>1
    <3>2. n = m /\ k \in DOMAIN roots[m].entries /\ roots[m].entries[k].kind = "file"
      BY <3>1
    <3> QED
      BY <1>4, <3>2
  <2>2. ASSUME n \in 1 .. Len(roots), k \in 1 .. Len(roots[n].entries), roots[n].entries[k].kind = "file"
        PROVE  <<n, k>> \in FilesOf(roots)
    <3>1. k \in DOMAIN roots[n].entries
      BY <1>4, <2>2
    <3>2. <<n, k>> \in {<<n, e>> : e \in {j \in DOMAIN roots[n].entries : roots[n].entries[j].kind = "file"}}
      BY <2>2, <3>1
    <3> QED
      BY <1>51, <2>2, <3>2
  <2> QED
    BY <2>1, <2>2
<1>7. \A x \in FilesOf(roots) : \E n, k : x = <<n, k>>
  BY DEF FilesOf
<1>8. Source(roots) = {made(x[1], x[2]) : x \in FilesOf(roots)}
  BY DEF Source
<1> HIDE DEF made
<1>9. ASSUME NEW y \in Source(roots) PROVE y \in walked
  <2>1. PICK x \in FilesOf(roots) : y = made(x[1], x[2])
    BY <1>8
  <2>2. PICK n, k : x = <<n, k>>
    BY <1>7
  <2>3. y = Made(SpecOf(roots[n], k))
    BY <1>5, <2>1, <2>2
  <2>4. n \in 1 .. Len(roots) /\ k \in 1 .. Len(roots[n].entries) /\ roots[n].entries[k].kind = "file"
    BY <1>6, <2>2
  <2>5. PICK j \in 1 .. Len(specs) : specs[j] = SpecOf(roots[n], k)
    BY <1>1, <2>4 DEF IsCollected
  <2> QED
    BY <2>3, <2>5
<1>10. ASSUME NEW y \in walked PROVE y \in Source(roots)
  <2>1. PICK j \in 1 .. Len(specs) : y = Made(specs[j])
    OBVIOUS
  <2>2. PICK n \in 1 .. Len(roots) : \E k \in 1 .. Len(roots[n].entries) :
          roots[n].entries[k].kind = "file" /\ specs[j] = SpecOf(roots[n], k)
    BY <1>1 DEF IsCollected
  <2>3. PICK k \in 1 .. Len(roots[n].entries) :
          roots[n].entries[k].kind = "file" /\ specs[j] = SpecOf(roots[n], k)
    BY <2>2
  <2>4. <<n, k>> \in FilesOf(roots) /\ y = made(n, k)
    BY <1>5, <1>6, <2>1, <2>3
  <2> QED
    BY <1>8, <2>4
<1> QED
  BY <1>9, <1>10 DEF specs

\* A run of the session and the snapshot that is listed for it.
LEMMA ListedReads ==
    ASSUME SessInv, VaultInv, ListedInv, SealInv, NEW s \in DOMAIN live
    PROVE  Readable(s) /\ Contents(s) = Source(sess[s].roots)
<1> DEFINE keys == sess[s].keys
           roots == sess[s].roots
           specs == collect_files(roots)
<1>1. s \in SnapshotId /\ s \in DOMAIN manifests /\ Listed(s)
  BY DEF VaultInv, ListedInv
<1>2. keys \in KeyPair /\ Request(roots)
  BY <1>1 DEF SessInv, RunInv, RunShape
<1>3. PICK files : /\ SnapshotOf(files, sess[s]) /\ live[s] = chunk_refs(files)
                   /\ manifests[s] = seal(keys.data, s, encode(files), Len(encode(files)))
  BY <1>1 DEF Listed
<1>4. IsSnapshot(files, specs, keys)
  BY <1>2, <1>3, SnapshotFiles
<1>5. Opens(keys.data, s, manifests[s]) /\ manifests[s].msg = encode(files)
  BY <1>3 DEF seal, Opens
<1>6. decode(manifests[s].msg) = files
  <2>1. decode(encode(files)) = files
    BY <1>3, FilesDecode DEF SnapshotOf
  <2> QED
    BY <1>5, <2>1
<1>7. Source(roots) = {Made(specs[j]) : j \in 1 .. Len(specs)}
  BY <1>2, SourceIsWalk
<1>71. \A id \in Items(live[s]) : id \in DOMAIN content
  BY <1>1 DEF Listed
<1> HIDE DEF keys, roots, specs
\* What is held under an ID of this client is its chunk.
<1>8. ASSUME NEW c \in Content, keyed(keys.id, c) \in DOMAIN content
      PROVE  LET id == keyed(keys.id, c) IN
             /\ content[id].aad = id /\ Decodes(content[id].msg)
             /\ decode_chunk(content[id].msg) = c
  <2> DEFINE id == keyed(keys.id, c)
  <2>1. Holds(id, content[id])
    BY <1>8 DEF VaultInv
  <2>2. PICK p \in KeyPair, d \in Content :
          /\ id = keyed(p.id, d) /\ Opens(p.data, id, content[id])
          /\ Decodes(content[id].msg) /\ decode_chunk(content[id].msg) = d
    BY <2>1 DEF Holds
  <2>3. p.id = keys.id /\ d = c
    BY <2>2 DEF keyed
  <2> QED
    BY <2>2, <2>3 DEF Opens
<1>9. \A n \in 1 .. Len(files) : FileOf(files[n], specs[n], keys)
  BY <1>4 DEF IsSnapshot
<1>10. /\ files \in Seq(ManifestEntry) /\ Len(files) = Len(specs) /\ Len(files) \in Nat
       /\ DOMAIN files = 1 .. Len(files)
  BY <1>4, LenProperties DEF IsSnapshot
<1>11. /\ live[s] \in Seq(ChunkIds)
       /\ \A x \in Items(live[s]) : \E n \in 1 .. Len(files) : x \in Items(files[n].chunks)
       /\ \A n \in 1 .. Len(files) : Items(files[n].chunks) \subseteq Items(live[s])
  BY <1>3, <1>10, RefsItems
<1>12. Readable(s)
  <2>1. ASSUME NEW i \in DOMAIN live[s]
        PROVE  LET id == live[s][i] IN
               /\ id \in DOMAIN content /\ Decodes(content[id].msg)
               /\ \E t \in SameNames(s) : Opens(sess[t].keys.data, id, content[id])
    <3> DEFINE id == live[s][i]
    <3>1. id \in Items(live[s])
      BY <1>11, <2>1, LenProperties DEF Items
    <3> HIDE DEF id
    <3>2. PICK n \in 1 .. Len(files) : id \in Items(files[n].chunks)
      BY <1>11, <3>1
    <3>3. PICK k \in 1 .. Len(files[n].chunks) : id = files[n].chunks[k]
      BY <3>2 DEF Items
    <3>4. specs[n].entry.chunks[k] \in Content /\ id = keyed(keys.id, specs[n].entry.chunks[k])
      BY <1>9, <3>3 DEF FileOf
    <3>5. id \in DOMAIN content
      BY <1>71, <3>1
    <3>6. content[id].aad = id /\ Decodes(content[id].msg)
      BY <1>8, <3>4, <3>5
    <3>7. PICK t \in SnapshotId : SentBy(t, id, content[id])
      BY <3>5 DEF SealInv
    <3>8. sess[t].keys.id = keys.id
      BY <3>4, <3>7 DEF SentBy, keyed
    <3>9. t \in SameNames(s) /\ Opens(sess[t].keys.data, id, content[id])
      BY <3>6, <3>7, <3>8 DEF SameNames, SentBy, Opens, keys
    <3> QED
      BY <3>5, <3>6, <3>9 DEF id
  <2> QED
    BY <1>1, <1>5, <2>1 DEF Readable, keys
<1> DEFINE read(n) == [path |-> files[n].path,
                       data |-> [k \in DOMAIN files[n].chunks |->
                                   decode_chunk(content[files[n].chunks[k]].msg)],
                       meta |-> <<from_unix_time(files[n].mtime_secs, files[n].mtime_nanos),
                                  files[n].mode>>]
<1>13. Contents(s) = {read(n) : n \in 1 .. Len(files)}
  BY <1>6, <1>10 DEF Contents
<1>14. ASSUME NEW n \in 1 .. Len(files) PROVE read(n) = Made(specs[n])
  <2> DEFINE file == files[n]
             ids == file.chunks
             cs == specs[n].entry.chunks
             data == [k \in DOMAIN ids |-> decode_chunk(content[ids[k]].msg)]
  <2>1. /\ ids \in Seq(ChunkIds) /\ cs \in Seq(Content) /\ Len(cs) \in Nat /\ Len(ids) = Len(cs)
        /\ \A k \in 1 .. Len(cs) : cs[k] \in Content /\ ids[k] = keyed(keys.id, cs[k])
        /\ file.path = specs[n].rel
        /\ from_unix_time(file.mtime_secs, file.mtime_nanos) = specs[n].entry.mtime
        /\ file.mode = specs[n].entry.mode
    BY <1>9 DEF FileOf
  <2>2. Items(ids) \subseteq Items(live[s])
    BY <1>11
  <2>3. read(n) = [path |-> specs[n].rel, data |-> data,
                   meta |-> <<specs[n].entry.mtime, specs[n].entry.mode>>]
    BY <2>1
  <2> HIDE DEF ids, cs, file
  <2>4. ASSUME NEW k \in 1 .. Len(cs) PROVE decode_chunk(content[ids[k]].msg) = cs[k]
    <3>1. ids[k] \in Items(ids)
      BY <2>1 DEF Items
    <3>2. ids[k] \in DOMAIN content
      BY <1>71, <2>2, <3>1
    <3> QED
      BY <1>8, <2>1, <3>2
  <2>5. DOMAIN ids = 1 .. Len(cs) /\ cs = [k \in 1 .. Len(cs) |-> cs[k]]
    BY <2>1
  <2>6. data = cs
    BY <2>4, <2>5
  <2> QED
    BY <2>3, <2>6 DEF Made, cs
<1> HIDE DEF read
<1>15. Contents(s) = Source(roots)
  BY <1>7, <1>10, <1>13, <1>14
<1> QED
  BY <1>12, <1>15 DEF keys, roots

\* A restore that has read its manifest writes files of the snapshot.
LEMMA RestoredExactly == IInv => RestoredIsExact
<1> SUFFICES ASSUME IInv PROVE RestoredIsExact
  OBVIOUS
<1> DEFINE roots == sess[rst.sid].roots
           source == {AsRestored(x) : x \in Source(roots)}
           written == {[path |-> p, data |-> out[p].data, meta |-> out[p].meta] : p \in DOMAIN out}
<1>1. SessInv /\ RestoreInv
  BY DEF IInv, RestoreInv
<1>2. rst.sid \in SnapshotId
  BY <1>1 DEF RestoreInv, RestoreShape
<1>3. sess[rst.sid].keys \in KeyPair /\ Request(roots)
  BY <1>1, <1>2 DEF SessInv, RunInv, RunShape
<1>4. source = {Placed(Specs[j]) : j \in 1 .. Len(Specs)}
  <2>1. Source(roots) = {Made(Specs[j]) : j \in 1 .. Len(Specs)}
    BY <1>3, SourceIsWalk DEF Specs
  <2>2. \A j \in 1 .. Len(Specs) : AsRestored(Made(Specs[j])) = Placed(Specs[j])
    BY DEF AsRestored, Made, Placed
  <2> QED
    BY <2>1, <2>2
<1> HIDE DEF source
<1>5. ASSUME SnapshotOf(rst.files, sess[rst.sid])
      PROVE  /\ Len(rst.files) = Len(Specs) /\ Len(rst.files) \in Nat
             /\ \A n \in 1 .. Len(rst.files) : /\ rst.files[n].path = Specs[n].rel
                                               /\ Specs[n].entry.chunks \in Seq(Content)
  <2>1. IsSnapshot(rst.files, Specs, sess[rst.sid].keys)
    BY <1>3, <1>5, SnapshotFiles DEF Specs
  <2> QED
    BY <2>1 DEF IsSnapshot, FileOf
<1>6. ASSUME rst.pc = "done" PROVE written = source
  <2> DEFINE N == Len(rst.files)
  <2>1. rst.pc \in Opened /\ rst.pc \notin Placing
    BY <1>6 DEF Opened, Placing
  <2>2. SnapshotOf(rst.files, sess[rst.sid]) /\ rst.f = N + 1
    BY <1>1, <1>6, <2>1 DEF RestoreInv, PlaceInv
  <2>3. N = Len(Specs) /\ N \in Nat /\ \A n \in 1 .. N : rst.files[n].path = Specs[n].rel
    BY <1>5, <2>2
  <2>4. rst.f - 1 = N
    BY <2>2, <2>3
  <2>5. /\ DOMAIN out = {rst.files[n].path : n \in 1 .. N}
        /\ \A n \in 1 .. N : Whole(n)
    BY <1>1, <2>1, <2>4 DEF RestoreInv, OutInv
  <2> HIDE DEF N
  <2>6. ASSUME NEW n \in 1 .. N
        PROVE  LET p == rst.files[n].path
               IN  [path |-> p, data |-> out[p].data, meta |-> out[p].meta] = Placed(Specs[n])
    BY <2>3, <2>5 DEF Whole, Placed
  <2>7. ASSUME NEW w \in written PROVE w \in source
    <3>1. PICK p \in DOMAIN out : w = [path |-> p, data |-> out[p].data, meta |-> out[p].meta]
      BY <2>7
    <3>2. PICK n \in 1 .. N : p = rst.files[n].path
      BY <2>5
    <3> QED
      BY <1>4, <2>3, <2>6, <3>1, <3>2
  <2>8. ASSUME NEW x \in source PROVE x \in written
    <3>1. PICK n \in 1 .. N : x = Placed(Specs[n])
      BY <1>4, <2>3, <2>8
    <3>2. rst.files[n].path \in DOMAIN out
      BY <2>5
    <3> QED
      BY <2>6, <3>1, <3>2
  <2> QED
    BY <2>7, <2>8
<1>7. ASSUME rst.files # <<>>, NEW w \in written
      PROVE  \E x \in source : x.path = w.path /\ IsPrefixOf(w.data, x.data)
  <2>1. SnapshotOf(rst.files, sess[rst.sid])
    BY <1>1, <1>7 DEF RestoreInv, PlaceInv
  <2>2. PICK p \in DOMAIN out : w = [path |-> p, data |-> out[p].data, meta |-> out[p].meta]
    BY <1>7
  <2>3. IsCut(p, out[p].data, rst.files, Specs)
    BY <1>1, <1>7 DEF RestoreInv, OutInv
  <2>4. PICK n \in 1 .. Len(rst.files) :
          /\ p = rst.files[n].path
          /\ \E k \in 0 .. Len(Specs[n].entry.chunks) :
               out[p].data = SubSeq(Specs[n].entry.chunks, 1, k)
    BY <2>3 DEF IsCut
  <2> DEFINE cs == Specs[n].entry.chunks
  <2>5. PICK k \in 0 .. Len(cs) : out[p].data = SubSeq(cs, 1, k)
    BY <2>4
  <2>6. cs \in Seq(Content) /\ Specs[n].rel = p /\ n \in 1 .. Len(Specs)
    BY <1>5, <2>1, <2>4
  <2> HIDE DEF cs
  <2>7. Len(SubSeq(cs, 1, k)) = k /\ k <= Len(cs)
    BY <2>5, <2>6
  <2>8. IsPrefixOf(out[p].data, cs)
    BY <2>5, <2>7 DEF IsPrefixOf
  <2>9. Placed(Specs[n]) \in source /\ Placed(Specs[n]).path = p /\ Placed(Specs[n]).data = cs
    BY <1>4, <2>6 DEF Placed, cs
  <2>10. w.path = p /\ w.data = out[p].data
    BY <2>2
  <2> QED
    BY <2>8, <2>9, <2>10
<1>8. rst.files = <<>> => out \in Targets
  BY <1>1 DEF RestoreInv, OutInv
<1> HIDE DEF written
<1>9. RestoredIsExact = (/\ rst.pc = "done" => written = source
                         /\ rst.files # <<>> => \A w \in written : \E x \in source :
                               x.path = w.path /\ IsPrefixOf(w.data, x.data)
                         /\ rst.files = <<>> => out \in Targets)
  BY DEF RestoredIsExact, written, source, roots
<1> QED
  BY <1>6, <1>7, <1>8, <1>9

LEMMA LedgersAdd == IInv => LedgerBalances
<1> SUFFICES ASSUME IInv, NEW s \in SnapshotId, sess[s].pc \in {"manifest", "stored", "done"}
             PROVE  LET r == sess[s]
                        l == r.report
                        refs == chunk_refs(r.files)
                    IN  /\ l.chunks_total = Len(refs)
                        /\ l.chunks_unique = Cardinality({refs[i] : i \in DOMAIN refs})
                        /\ l.chunks_unique = l.chunks_uploaded + l.chunks_deduped
                        /\ l.chunks_uploaded = Total(l.compression)
                        /\ l.upload_bytes =
                             l.compression.bytes_out + l.chunks_uploaded * (1 + BLOB_OVERHEAD)
                        /\ l.source_bytes = Bytes(r.files) /\ l.files = Len(r.files)
                        /\ l.compression.escalation_attempts > 0 => r.phase = "Incremental"
  BY DEF LedgerBalances
<1> DEFINE r == sess[s]
           refs == chunk_refs(r.files)
<1>1. RunInv(r) /\ r.pc \in Closed /\ r.pc \notin Working
  BY DEF IInv, SessInv, Closed, Working
<1> HIDE DEF r
<1>2. r.report.compression = r.counters
  BY <1>1 DEF RunInv, RunTick
<1>3. r.pending = <<>> /\ Len(r.pending) = 0
  BY <1>1 DEF RunInv, RunBatch
<1>4. r.chunks \in Seq(ChunkIds) /\ Len(r.chunks) = 0
  BY <1>1 DEF RunInv, RunWalk
<1>5. Items(r.chunks) = {}
  BY <1>4 DEF Items
<1>6. refs \in Seq(ChunkIds) /\ Len(refs) \in Nat /\ DOMAIN refs = 1 .. Len(refs)
  <2>1. r.files \in Seq(ManifestEntry)
    BY <1>1 DEF RunInv, RunWalk, AreFiles
  <2>2. refs \in Seq(ChunkIds)
    BY <2>1, RefsItems
  <2> QED
    BY <2>2, LenProperties
<1>7. /\ r.seen = Items(refs) \cup Items(r.chunks)
      /\ r.report.chunks_total = Len(refs) + Len(r.chunks)
      /\ r.report.chunks_unique = Cardinality(r.seen)
      /\ r.report.source_bytes = Bytes(r.files) /\ r.report.files = Len(r.files)
  BY <1>1 DEF RunInv, RunLedger
<1> HIDE DEF refs
<1>8. r.seen = {refs[i] : i \in DOMAIN refs}
  BY <1>5, <1>6, <1>7 DEF Items
<1>9. r.report.chunks_total = Len(refs)
  BY <1>4, <1>6, <1>7
<1>10. /\ r.report.chunks_uploaded \in Nat /\ r.report.chunks_deduped \in Nat
       /\ r.report.chunks_unique = r.report.chunks_uploaded + r.report.chunks_deduped + Len(r.pending)
       /\ r.report.chunks_uploaded = Total(r.counters)
       /\ r.report.upload_bytes =
            r.counters.bytes_out + r.report.chunks_uploaded * (1 + BLOB_OVERHEAD)
       /\ r.counters.escalation_attempts > 0 => r.phase = "Incremental"
  BY <1>1 DEF RunInv, RunCounts
<1>11. r.report.chunks_unique = r.report.chunks_uploaded + r.report.chunks_deduped
  <2>1. r.report.chunks_uploaded + r.report.chunks_deduped + 0 = r.report.chunks_uploaded + r.report.chunks_deduped
    BY <1>10
  <2> QED
    BY <1>3, <1>10, <2>1
<1> QED
  BY <1>2, <1>7, <1>8, <1>9, <1>10, <1>11 DEF r, refs

LEMMA FinalTicks == IInv => FinalTickMatches
<1> SUFFICES ASSUME IInv PROVE FinalTickMatches
  OBVIOUS
<1>1. SessInv /\ RestoreInv
  BY DEF IInv, RestoreInv
<1>2. ASSUME NEW s \in SnapshotId, sess[s].pc = "done"
      PROVE  sess[s].tick = [final |-> TRUE, report |->
               [sess[s].report EXCEPT !.manifest_bytes = 0, !.compression = NoCounters]]
  <2>1. RunTick(sess[s]) /\ sess[s].pc \in Closed
    BY <1>1, <1>2 DEF SessInv, RunInv, Closed
  <2> QED
    BY <2>1 DEF RunTick
<1>3. ASSUME rst.pc = "done"
      PROVE  /\ rst.tick = rst.report /\ rst.report.files = Len(rst.files)
             /\ rst.report.bytes = Bytes(rst.files)
  <2>1. rst.pc \in Opened /\ rst.pc \notin Placing
    BY <1>3 DEF Opened, Placing
  <2>2. Len(rst.files) \in Nat /\ rst.files \in Seq(ManifestEntry) /\ rst.f = Len(rst.files) + 1
    BY <1>1, <1>3, <2>1, OpenedFiles DEF RestoreInv, RestoreShape, PlaceInv
  <2>3. rst.f - 1 = Len(rst.files)
    BY <2>2
  <2>4. SubSeq(rst.files, 1, Len(rst.files)) = rst.files
    BY <2>2
  <2>5. Bytes(rst.files) \in Nat
    <3>1. Bytes(SubSeq(rst.files, 1, Len(rst.files))) \in Nat
      BY <2>2, ReadBefore
    <3> QED
      BY <2>4, <3>1
  <2>6. /\ rst.report.files = rst.f - 1 /\ rst.tick = rst.report
        /\ rst.report.bytes = Bytes(SubSeq(rst.files, 1, rst.f - 1)) + 0
    BY <1>1, <1>3, <2>1 DEF RestoreInv, TallyInv
  <2>7. rst.report.bytes = Bytes(rst.files) + 0
    BY <2>3, <2>4, <2>6
  <2> QED
    BY <2>3, <2>5, <2>6, <2>7
<1> QED
  BY <1>2, <1>3 DEF FinalTickMatches

\* For any sources, keys, policies, batch and channel sizes and any number of
\* runs, each variable keeps to its shape: the batches of backup.rs and the
\* channel of service.rs get_chunks stay within their bounds, a snapshot is
\* listed exactly when it has a manifest, and only chunk IDs are held.
THEOREM TypeCorrect == Spec => []TypeOK
<1>1. IInv => TypeOK
  BY DEF IInv, SessInv, RunInv, RunBatch, VaultInv, StreamInv, TypeOK
<1> QED
  BY <1>1, Invariance, PTL

\* However many runs dedup against each other, whatever key pairs they have and
\* whatever gc and prune take away, a snapshot the daemon lists opens under its
\* client's data key, every chunk it names is held and opens under the data key
\* of a run with the same chunk-ID key, and its chunks, put together, are the
\* files that run was asked to keep (backup.rs run_backup, service.rs
\* put_manifest).
THEOREM ListedStaysReadable == Spec => []ListedIsReadable
<1>1. IInv /\ SealInv => ListedIsReadable
  BY ListedReads DEF IInv, ListedIsReadable
<1> QED
  BY <1>1, Invariance, SealInvariance, PTL

\* A restore that ends well has written the files of its snapshot with their
\* times, what the build sets of their modes and nothing else; one that stopped
\* has written only files of the snapshot, each cut off at a chunk; one that
\* found its target in use has left it alone (restore.rs run_restore).
THEOREM RestoresAreExact == Spec => []RestoredIsExact
<1> QED
  BY RestoredExactly, Invariance, PTL

\* The report of a run that reached its manifest adds up: each distinct chunk
\* of it was shipped or skipped, and the bytes shipped are the compressed
\* bytes with a codec byte and a seal each (backup.rs BackupReport).
THEOREM LedgersBalance == Spec => []LedgerBalances
<1> QED
  BY LedgersAdd, Invariance, PTL

\* The last progress line of a run or a restore that succeeded shows what it
\* returned (backup.rs and restore.rs, the final tick).
THEOREM FinalTicksMatch == Spec => []FinalTickMatches
<1> QED
  BY FinalTicks, Invariance, PTL

-----------------------------------------------------------------------------
(* A restore comes to its end: its steps run out and nobody waits for ever *)

\* How far the restore is, the files it has left, how far it is in one, and the
\* chunks it has left of that.
RestoreStage == IF rst.pc = "idle" THEN 3 ELSE IF rst.pc = "manifest" THEN 2
                ELSE IF rst.pc \in {"file"} \cup Placing THEN 1 ELSE 0
FilesLeft == Len(rst.files) + 1 - rst.f
FileStage == IF rst.pc = "file" THEN 2 ELSE IF rst.pc = "reading" THEN 1 ELSE 0
ChunksLeft == Len(File.chunks) + 1 - rst.i

\* What the serving task has left: to fetch and to deliver each chunk.
ServeWork == 2 * Len(stream.todo) + Len(stream.held)

RestoreMeasured ==
    /\ rst.pc \in {"file"} \cup Placing => FilesLeft \in Nat
    /\ rst.pc = "reading" => ChunksLeft \in Nat
    /\ ServeWork \in Nat

\* A step of either goes down in the order of these numbers.
RestoreAdvances ==
    \/ RestoreStage' < RestoreStage
    \/ /\ RestoreStage = 1 /\ RestoreStage' = 1
       /\ \/ FilesLeft' < FilesLeft
          \/ FilesLeft' = FilesLeft /\ FileStage' < FileStage
          \/ /\ FilesLeft' = FilesLeft /\ rst.pc = "reading" /\ rst'.pc = "reading"
             /\ ChunksLeft' < ChunksLeft
    \/ rst' = rst /\ ServeWork' < ServeWork

\* What the restore is waiting for is there: a chunk or the end of the stream.
RestoreReady ==
    rst.pc \in {"idle", "manifest", "file", "finish"}
      \/ (rst.pc = "reading" /\ (stream.chan # <<>> \/ ~stream.running))
\* The task can fetch, or put what it has fetched into the channel.
ServeReady ==
    \/ stream.running /\ stream.held = <<>> /\ stream.todo # <<>>
    \/ stream.held # <<>> /\ Delivers
RestoreNotStuck == ~Ended \/ stream.running => RestoreReady \/ ServeReady

\* A chunk is held only by a running task, and its receiver is dropped when the
\* restore stops reading.
TaskInv ==
    /\ stream.held # <<>> => stream.running
    /\ stream.running /\ stream.open => rst.pc = "reading"

\* The records that every step below takes apart.
LEMMA Fields ==
    ASSUME IInv
    PROVE  /\ DOMAIN rst = {"pc", "sid", "keys", "files", "f", "i", "written", "report", "tick"}
           /\ DOMAIN stream = {"todo", "held", "chan", "running", "open"}
           /\ rst.pc \in {"idle", "manifest", "failed", "file", "done", "reading", "finish"}
  BY DEF IInv, RestoreShape, StreamInv, Opened, Placing

LEMMA TaskNext == IInv /\ TaskInv /\ [Next]_vars => TaskInv'
<1> SUFFICES ASSUME IInv, TaskInv, [Next]_vars PROVE TaskInv'
  OBVIOUS
<1>0. /\ DOMAIN rst = {"pc", "sid", "keys", "files", "f", "i", "written", "report", "tick"}
      /\ DOMAIN stream = {"todo", "held", "chan", "running", "open"}
  BY Fields
<1>1. CASE UNCHANGED restoreVars
  BY <1>1 DEF restoreVars, TaskInv
<1>2. CASE RestoreFails
  <2>1. stream'.held = stream.held /\ stream'.running = stream.running /\ ~stream'.open
    BY <1>0, <1>2 DEF RestoreFails
  <2> QED
    BY <2>1 DEF TaskInv
<1>3. CASE rst.pc # "reading" /\ stream' = stream
  BY <1>3 DEF TaskInv
<1>4. CASE start \/ get_manifest \/ finish_file \/ restored
  <2>1. CASE RestoreFails
    BY <1>2, <2>1
  <2>2. CASE ~RestoreFails
    <3>1. rst.pc # "reading" /\ stream' = stream
      BY <1>4, <2>2 DEF start, get_manifest, finish_file, restored
    <3> QED
      BY <1>3, <3>1
  <2> QED
    BY <2>1, <2>2
<1>5. CASE open_file
  <2>1. CASE RestoreFails
    BY <1>2, <2>1
  <2>2. CASE File.chunks = <<>> /\ ~RestoreFails
    <3>1. rst.pc # "reading" /\ stream' = stream
      BY <1>5, <2>2 DEF open_file
    <3> QED
      BY <1>3, <3>1
  <2>3. CASE File.chunks # <<>> /\ ~RestoreFails
    <3>1. rst' = [rst EXCEPT !.i = 1, !.written = 0, !.pc = "reading"]
      BY <1>5, <2>3 DEF open_file
    <3>2. stream'.held = <<>>
      BY <1>5, <2>3 DEF open_file
    <3>3. rst'.pc = "reading"
      BY <1>0, <3>1
    <3> QED
      BY <3>2, <3>3 DEF TaskInv
  <2> QED
    BY <2>1, <2>2, <2>3
<1>6. CASE read_chunk
  <2>1. CASE RestoreFails
    BY <1>2, <2>1
  <2>2. CASE ~RestoreFails
    <3>1. /\ rst'.pc = "reading" /\ stream'.held = stream.held /\ stream'.running = stream.running
      BY <1>0, <1>6, <2>2 DEF read_chunk
    <3> QED
      BY <3>1 DEF TaskInv
  <2> QED
    BY <2>1, <2>2
<1>7. CASE stream_end
  <2>1. CASE RestoreFails
    BY <1>2, <2>1
  <2>2. CASE ~RestoreFails
    <3>1. ~stream.running /\ stream' = stream
      BY <1>7, <2>2 DEF stream_end
    <3> QED
      BY <3>1 DEF TaskInv
  <2> QED
    BY <2>1, <2>2
<1>8. CASE ServeStep
  <2>1. CASE fetch
    <3>1. rst' = rst /\ stream'.running = stream.running /\ stream.running /\ stream'.open = stream.open
      BY <1>0, <1>8, <2>1 DEF ServeStep, fetch
    <3> QED
      BY <3>1 DEF TaskInv
  <2>2. CASE deliver
    <3>1. /\ rst' = rst /\ stream'.held = <<>> /\ stream'.open = stream.open /\ stream.held # <<>>
      BY <1>0, <1>8, <2>2 DEF ServeStep, deliver
    <3> QED
      BY <3>1 DEF TaskInv
  <2> QED
    BY <1>8, <2>1, <2>2 DEF ServeStep
<1>9. CASE restore_interrupted
  BY <1>2, <1>9 DEF restore_interrupted
<1> QED
  BY <1>1, <1>4, <1>5, <1>6, <1>7, <1>8, <1>9
  DEF Next, BackupStep, Interrupted, RestoreSide, RestoreStep, vars

LEMMA MeasuresAreNat == IInv => RestoreMeasured
<1> SUFFICES ASSUME IInv PROVE RestoreMeasured
  OBVIOUS
<1>1. /\ rst.f \in Nat \ {0} /\ rst.i \in Nat \ {0} /\ rst.files \in Seq(ManifestEntry)
      /\ stream.todo \in Seq(ChunkIds) /\ stream.held \in Seq(Item)
  BY DEF IInv, RestoreShape, StreamInv
<1>2. /\ rst.pc \in Placing => rst.f <= Len(rst.files) /\ rst.i <= Len(File.chunks) + 1
      /\ rst.pc = "file" => rst.f <= Len(rst.files) + 1
  BY DEF IInv, PlaceInv
<1>3. Len(rst.files) \in Nat /\ Len(stream.todo) \in Nat /\ Len(stream.held) \in Nat
  BY <1>1, LenProperties
<1>4. rst.pc \in {"file"} \cup Placing => FilesLeft \in Nat
  BY <1>1, <1>2, <1>3 DEF FilesLeft
<1>5. rst.pc = "reading" => ChunksLeft \in Nat
  <2> SUFFICES ASSUME rst.pc = "reading" PROVE ChunksLeft \in Nat
    OBVIOUS
  <2>1. rst.f \in 1 .. Len(rst.files) /\ rst.i <= Len(File.chunks) + 1
    BY <1>1, <1>2, <1>3 DEF Placing
  <2>2. File \in ManifestEntry
    BY <1>1, <2>1, ElementOfSeq DEF File
  <2>3. Len(File.chunks) \in Nat
    BY <2>2 DEF ManifestEntry
  <2> QED
    BY <1>1, <2>1, <2>3 DEF ChunksLeft
<1>6. ServeWork \in Nat
  <2> DEFINE a == Len(stream.todo)
             b == Len(stream.held)
  <2>1. ServeWork = 2 * a + b
    BY DEF ServeWork
  <2>2. a \in Nat /\ b \in Nat
    BY <1>3
  <2> HIDE DEF a, b
  <2> QED
    BY <2>1, <2>2
<1> QED
  BY <1>4, <1>5, <1>6 DEF RestoreMeasured

LEMMA RestoreGoesOn == ASSUME IInv, RestoreStep \/ restore_interrupted PROVE RestoreAdvances
<1>0. /\ DOMAIN rst = {"pc", "sid", "keys", "files", "f", "i", "written", "report", "tick"}
      /\ rst.pc \in {"idle", "manifest", "failed", "file", "done", "reading", "finish"}
  BY Fields
<1>1. /\ rst.f \in Nat \ {0} /\ rst.i \in Nat \ {0} /\ rst.files \in Seq(ManifestEntry)
      /\ Len(rst.files) \in Nat
  BY LenProperties DEF IInv, RestoreShape
<1>2. ASSUME RestoreFails, ~Ended PROVE RestoreAdvances
  <2>1. rst'.pc = "failed" /\ rst.pc \notin {"done", "failed"}
    BY <1>0, <1>2 DEF RestoreFails, Ended
  <2> QED
    BY <1>0, <2>1 DEF RestoreAdvances, RestoreStage, Placing
<1>3. CASE restore_interrupted
  BY <1>2, <1>3 DEF restore_interrupted
<1>4. CASE start
  <2>1. ~Ended
    BY <1>4 DEF start, Ended
  <2>2. CASE ~RestoreFails
    <3>1. rst.pc = "idle" /\ rst'.pc = "manifest"
      BY <1>0, <1>4, <2>2 DEF start
    <3> QED
      BY <3>1 DEF RestoreAdvances, RestoreStage
  <2> QED
    BY <1>2, <2>1, <2>2
<1>5. CASE get_manifest
  <2>1. ~Ended
    BY <1>5 DEF get_manifest, Ended
  <2>2. CASE ~RestoreFails
    <3>1. rst.pc = "manifest" /\ rst'.pc = "file"
      BY <1>0, <1>5, <2>2 DEF get_manifest
    <3> QED
      BY <3>1 DEF RestoreAdvances, RestoreStage
  <2> QED
    BY <1>2, <2>1, <2>2
<1>6. CASE open_file
  <2>1. ~Ended
    BY <1>6 DEF open_file, Ended
  <2>2. CASE ~RestoreFails
    <3>1. /\ rst.pc = "file" /\ rst'.pc \in {"reading", "finish"} /\ rst'.files = rst.files /\ rst'.f = rst.f
      BY <1>0, <1>6, <2>2 DEF open_file
    <3> QED
      BY <3>1 DEF RestoreAdvances, RestoreStage, FilesLeft, FileStage, Placing
  <2> QED
    BY <1>2, <2>1, <2>2
<1>7. CASE read_chunk
  <2>1. ~Ended
    BY <1>7 DEF read_chunk, Ended
  <2>2. CASE ~RestoreFails
    <3>1. /\ rst.pc = "reading" /\ rst'.pc = "reading" /\ rst'.files = rst.files /\ rst'.f = rst.f
          /\ rst'.i = rst.i + 1
      BY <1>0, <1>7, <2>2 DEF read_chunk
    <3>2. File' = File /\ FilesLeft' = FilesLeft
      BY <3>1 DEF File, FilesLeft
    <3>3. ChunksLeft \in Nat
      BY <3>1, MeasuresAreNat DEF RestoreMeasured
    <3>4. rst.f \in 1 .. Len(rst.files)
      BY <1>1, <3>1 DEF IInv, PlaceInv, Placing
    <3>5. File \in ManifestEntry
      BY <1>1, <3>4, ElementOfSeq DEF File
    <3>6. Len(File.chunks) \in Nat
      BY <3>5 DEF ManifestEntry
    <3>7. ChunksLeft' < ChunksLeft
      BY <1>1, <3>1, <3>2, <3>6 DEF ChunksLeft
    <3>8. RestoreStage = 1 /\ RestoreStage' = 1
      BY <3>1 DEF RestoreStage, Placing
    <3> QED
      BY <3>1, <3>2, <3>7, <3>8 DEF RestoreAdvances
  <2> QED
    BY <1>2, <2>1, <2>2
<1>8. CASE stream_end
  <2>1. ~Ended
    BY <1>8 DEF stream_end, Ended
  <2>2. CASE ~RestoreFails
    <3>1. /\ rst.pc = "reading" /\ rst'.pc = "finish" /\ rst'.files = rst.files /\ rst'.f = rst.f
      BY <1>0, <1>8, <2>2 DEF stream_end
    <3> QED
      BY <3>1 DEF RestoreAdvances, RestoreStage, FilesLeft, FileStage, Placing
  <2> QED
    BY <1>2, <2>1, <2>2
<1>9. CASE finish_file
  <2>1. CASE rst.written # File.size
    <3>1. rst.pc = "finish" /\ rst'.pc = "failed"
      BY <1>0, <1>9, <2>1 DEF finish_file
    <3> QED
      BY <3>1 DEF RestoreAdvances, RestoreStage, Placing
  <2>2. CASE rst.written = File.size
    <3>1. rst.pc = "finish" /\ rst'.pc = "file" /\ rst'.files = rst.files /\ rst'.f = rst.f + 1
      BY <1>0, <1>9, <2>2 DEF finish_file
    <3>2. FilesLeft' < FilesLeft
      BY <1>1, <3>1 DEF FilesLeft
    <3> QED
      BY <3>1, <3>2 DEF RestoreAdvances, RestoreStage, Placing
  <2> QED
    BY <2>1, <2>2
<1>10. CASE restored
  <2>1. rst.pc = "file" /\ rst'.pc = "done"
    BY <1>0, <1>10 DEF restored
  <2> QED
    BY <2>1 DEF RestoreAdvances, RestoreStage, Placing
<1> QED
  BY <1>3, <1>4, <1>5, <1>6, <1>7, <1>8, <1>9, <1>10 DEF RestoreStep

LEMMA TaskGoesOn == ASSUME IInv, ServeStep PROVE RestoreAdvances
<1>1. /\ DOMAIN stream = {"todo", "held", "chan", "running", "open"}
      /\ stream.todo \in Seq(ChunkIds) /\ stream.held \in Seq(Item)
      /\ stream.running /\ stream.held = <<>> => stream.todo # <<>>
      /\ rst' = rst
  BY DEF IInv, StreamInv, ServeStep
<1>2. CASE fetch
  <2> DEFINE item == get_chunk(Head(stream.todo))
  <2>1. /\ stream.held = <<>> /\ stream.todo # <<>>
        /\ stream'.todo = Tail(stream.todo) /\ stream'.held = <<item>>
    BY <1>1, <1>2 DEF fetch
  <2> HIDE DEF item
  <2>2. Len(stream.todo) \in Nat /\ Len(Tail(stream.todo)) = Len(stream.todo) - 1
    BY <1>1, <2>1
  <2>3. Len(stream.held) = 0 /\ Len(stream'.held) = 1
    BY <2>1
  <2> DEFINE a == Len(stream.todo)
  <2>4. ServeWork = 2 * a + 0 /\ ServeWork' = 2 * (a - 1) + 1 /\ a \in Nat
    BY <2>1, <2>2, <2>3 DEF ServeWork
  <2> HIDE DEF a
  <2>5. ServeWork' < ServeWork
    BY <2>4
  <2> QED
    BY <1>1, <2>5 DEF RestoreAdvances
<1>3. CASE deliver
  <2>1. stream.held # <<>> /\ stream'.todo = stream.todo /\ stream'.held = <<>>
    BY <1>1, <1>3 DEF deliver
  <2>2. Len(stream.held) \in Nat \ {0} /\ Len(stream.todo) \in Nat /\ Len(stream'.held) = 0
    BY <1>1, <2>1
  <2> DEFINE a == Len(stream.todo)
             b == Len(stream.held)
  <2>3. ServeWork = 2 * a + b /\ ServeWork' = 2 * a + 0 /\ a \in Nat /\ b \in Nat \ {0}
    BY <2>1, <2>2 DEF ServeWork
  <2> HIDE DEF a, b
  <2>4. ServeWork' < ServeWork
    BY <2>3
  <2> QED
    BY <1>1, <2>4 DEF RestoreAdvances
<1> QED
  BY <1>2, <1>3 DEF ServeStep

LEMMA NobodyIsStuck == IInv /\ TaskInv => RestoreNotStuck
<1> SUFFICES ASSUME IInv, TaskInv, ~Ended \/ stream.running, ~RestoreReady PROVE ServeReady
  BY DEF RestoreNotStuck
<1>1. /\ stream.chan \in Seq(Item) /\ stream.held \in Seq(Item)
      /\ stream.running /\ stream.held = <<>> => stream.todo # <<>>
      /\ rst.pc \in {"idle", "manifest", "failed", "file", "done", "reading", "finish"}
  BY Fields DEF IInv, StreamInv
<1>2. stream.running
  BY <1>1 DEF RestoreReady, Ended
<1>3. CASE stream.held = <<>>
  BY <1>1, <1>2, <1>3 DEF ServeReady
<1>4. CASE stream.held # <<>>
  <2>1. stream.open => stream.chan = <<>>
    BY <1>2 DEF TaskInv, RestoreReady
  <2>2. Delivers
    BY <2>1, RestoreAssumption DEF Delivers
  <2> QED
    BY <1>4, <2>2 DEF ServeReady
<1> QED
  BY <1>3, <1>4

\* A restore that is under way ends, and so does the task that serves it, for
\* any snapshot, channel size and damage: every step of either goes down in a
\* well-founded order (files left, chunks left, chunks to fetch and deliver), no
\* other process can move them back, and until the end one of them can go on: the
\* restore waits for the task only while the task has room to deliver, and the
\* task waits for room only while the restore is reading (restore.rs run_restore,
\* service.rs get_chunks).  It is what RestoreEnds and StreamTaskEnds say short
\* of fairness.
THEOREM RestoreRunsOut ==
    Spec => [](RestoreMeasured /\ RestoreNotStuck) /\ [][RestoreAdvances]_restoreVars
<1>1. Init => TaskInv
  BY DEF Init, RestoreInit, NoStream, TaskInv
<1>2. IInv /\ [Next]_vars => [RestoreAdvances]_restoreVars
  <2> SUFFICES ASSUME IInv, [Next]_vars, ~UNCHANGED restoreVars PROVE RestoreAdvances
    OBVIOUS
  <2>1. RestoreStep \/ restore_interrupted \/ ServeStep
    BY DEF Next, BackupStep, Interrupted, RestoreSide, vars
  <2> QED
    BY <2>1, RestoreGoesOn, TaskGoesOn
<1> QED
  BY <1>1, <1>2, TaskNext, MeasuresAreNat, NobodyIsStuck, Invariance, PTL DEF Spec
=============================================================================
