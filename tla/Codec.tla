------------------------------- MODULE Codec -------------------------------
(***************************************************************************)
(* What becomes of a chunk between the source file and the daemon          *)
(* (crates/busyncr-core/src: compression.rs, crypto.rs, chunking.rs) and   *)
(* the wire form of a manifest (manifest.rs).                              *)
(*                                                                         *)
(* A chunk's plaintext is a model value with the four lengths the policy   *)
(* can ask about.  Hashes have no collisions and a sealed blob opens only  *)
(* under the key and associated data it was sealed with.  Ratios and       *)
(* thresholds are percentages.                                             *)
(***************************************************************************)
EXTENDS Integers, SequencesExt

CONSTANTS
    Content,        \* the plaintexts of chunks
    Sizes,          \* plaintext -> its raw, lz4, zstd and zstd9 lengths
    BLOB_OVERHEAD,  \* nonce and tag, bytes per sealed blob
    U32_MAX,        \* the largest count a manifest field holds
    LongPaths       \* paths with more bytes than that

ASSUME CodecAssumption ==
    /\ Sizes \in [Content -> [raw : Nat, lz4 : Nat, zstd : Nat \ {0}, zstd9 : Nat \ {0}]]
    /\ BLOB_OVERHEAD \in Nat /\ U32_MAX \in Nat

Phase == {"InitialFull", "Incremental"}
PolicyConfig == [use_probe : BOOLEAN, escalate : BOOLEAN,
                 keep_threshold : Nat, probe_threshold : Nat, escalate_ratio : Nat]
PolicyCounters == [raw : Nat, zstd3 : Nat, escalated : Nat, escalation_attempts : Nat,
                   bytes_in : Nat, bytes_out : Nat]
NoCounters == [raw |-> 0, zstd3 |-> 0, escalated |-> 0, escalation_attempts |-> 0,
               bytes_in |-> 0, bytes_out |-> 0]
Total(counters) == counters.raw + counters.zstd3 + counters.escalated

-----------------------------------------------------------------------------
\* The compressed form is kept: the probe, if asked for, sees enough, and the
\* actual output clears the threshold.  lz4 output counts as at least a byte.
Kept(c, cfg) ==
    LET probe_len == IF Sizes[c].lz4 = 0 THEN 1 ELSE Sizes[c].lz4
    IN  /\ Sizes[c].raw > 0
        /\ cfg.use_probe => Sizes[c].raw * 100 >= cfg.probe_threshold * probe_len
        /\ Sizes[c].zstd * 100 <= Sizes[c].raw * cfg.keep_threshold

\* The level-9 retry is made, whatever comes of it.
Escalates(c, phase, cfg) ==
    /\ cfg.escalate /\ phase = "Incremental"
    /\ Kept(c, cfg) /\ Sizes[c].raw * 100 >= cfg.escalate_ratio * Sizes[c].zstd

Bucket(c, phase, cfg) ==
    CASE ~Kept(c, cfg) -> "raw"
      [] Escalates(c, phase, cfg) /\ Sizes[c].zstd9 < Sizes[c].zstd -> "escalated"
      [] OTHER -> "zstd3"

PayloadLen(c, bucket) ==
    CASE bucket = "raw" -> Sizes[c].raw
      [] bucket = "zstd3" -> Sizes[c].zstd
      [] bucket = "escalated" -> Sizes[c].zstd9

zstd(c) == <<"zstd", c>>

\* A compressor that fails is one whose output is too long: raw either way.
choose_codec(c, phase, cfg) ==
    LET bucket == Bucket(c, phase, cfg)
    IN  [codec   |-> IF bucket = "raw" THEN 0 ELSE 1,
         payload |-> IF bucket = "raw" THEN c ELSE zstd(c),
         len     |-> PayloadLen(c, bucket)]

\* What choose_codec adds to the counters its caller injects.
Counted(counters, c, phase, cfg) ==
    LET bucket == Bucket(c, phase, cfg)
    IN  [counters EXCEPT
           ![bucket] = @ + 1,
           !.escalation_attempts = @ + (IF Escalates(c, phase, cfg) THEN 1 ELSE 0),
           !.bytes_in = @ + Sizes[c].raw,
           !.bytes_out = @ + PayloadLen(c, bucket)]

-----------------------------------------------------------------------------
(* Identity and sealing *)

keyed(id_key, c) == <<id_key, c>>

frame(chosen) == [codec |-> chosen.codec, payload |-> chosen.payload, len |-> chosen.len + 1]

seal(key, aad, msg, len) == [key |-> key, aad |-> aad, msg |-> msg, len |-> len + BLOB_OVERHEAD]

Opens(key, aad, blob) == blob.key = key /\ blob.aad = aad

encrypt_chunk(key, id, framed) == seal(key, id, framed, framed.len)

\* Decompression undoes compression and nothing else.
Decodes(framed) ==
    framed.codec = 0 \/ (framed.codec = 1 /\ \E c \in Content : framed.payload = zstd(c))
decode_chunk(framed) == IF framed.codec = 0 THEN framed.payload ELSE framed.payload[2]

-----------------------------------------------------------------------------
(* The manifest on the wire: counts in front of what they count.  An entry *)
(* is [path, size, mtime_secs, mtime_nanos, mode, chunks].                 *)

EntryWire(f) ==
    <<f.path, f.size, f.mtime_secs, f.mtime_nanos, f.mode, Len(f.chunks)>> \o f.chunks

FilesWire(files) == FlattenSeq([n \in 1 .. Len(files) |-> EntryWire(files[n])])

Encodes(files) ==
    /\ Len(files) <= U32_MAX
    /\ \A i \in DOMAIN files : files[i].path \notin LongPaths /\ Len(files[i].chunks) <= U32_MAX

encode(files) == <<Len(files)>> \o FilesWire(files)

\* Where entry n starts: each entry says itself how long it is.
EntryAt(wire, n) ==
    LET at[k \in 1 .. n] == IF k = 1 THEN 2 ELSE at[k - 1] + 6 + wire[at[k - 1] + 5]
    IN  at[n]

Entry(wire, i) ==
    [path |-> wire[i], size |-> wire[i + 1], mtime_secs |-> wire[i + 2],
     mtime_nanos |-> wire[i + 3], mode |-> wire[i + 4],
     chunks |-> SubSeq(wire, i + 6, i + 5 + wire[i + 5])]

decode(wire) == [n \in 1 .. wire[1] |-> Entry(wire, EntryAt(wire, n))]

\* Every chunk reference in manifest order, duplicates included.
chunk_refs(files) == FlattenSeq([n \in 1 .. Len(files) |-> files[n].chunks])

\* Quarter seconds stand for nanoseconds: whole seconds rounded down and what
\* is left, times before the epoch included.
mtime_parts(modified) ==
    IF modified >= 0 THEN <<modified \div 4, modified % 4>>
    ELSE LET before == -modified IN
         IF before % 4 = 0 THEN <<-(before \div 4), 0>>
         ELSE <<-(before \div 4 + 1), 4 - (before % 4)>>

from_unix_time(secs, nanos) == secs * 4 + nanos
=============================================================================
