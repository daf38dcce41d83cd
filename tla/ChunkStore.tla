----------------------------- MODULE ChunkStore -----------------------------
(***************************************************************************)
(* The daemon's content-addressed chunk store                              *)
(* (crates/busyncr-daemon/src/store.rs): object files on disk plus a redb  *)
(* index with the tables CHUNKS, SNAPSHOT_REFS (keyed like SNAPSHOTS and   *)
(* SNAPSHOT_OWNER, always written and removed with them), GC_MARKS and the *)
(* "last_gc" record of STATUS_META.                                        *)
(*                                                                         *)
(* redb admits one write transaction at a time and commits it atomically.  *)
(* Three operations do file I/O outside that atomicity, and are split      *)
(* where another thread, or a crash, can come in between:                  *)
(*   put_chunk     begin_write .. write_object (rename) .. commit          *)
(*   gc            one index transaction, then one unlink per swept chunk  *)
(*   delete_chunk  one index transaction, then the unlink                  *)
(*   get_chunk     read the index entry, then read the file                *)
(* A whole transaction without file I/O in it is one action.               *)
(*                                                                         *)
(* The store is opened by one OS process at a time (redb locks its file):  *)
(* `serve', `gc' and `prune' are separate commands.  Ops says which        *)
(* operations each process runs; a process that runs all of them is a      *)
(* program that embeds the store, as the repository's tests do.            *)
(***************************************************************************)
EXTENDS Integers, Sequences, FiniteSets

CONSTANTS
    ChunkId,        \* chunk addresses
    Blob,           \* the byte strings clients upload (ciphertexts)
    BlobLen,        \* their lengths, [Blob -> Nat]
    Rot,            \* bytes no client ever sent: what damage leaves in a file
    SnapshotId,     \* snapshot ULIDs
    RefLists,       \* the reference lists a client may declare, duplicates included
    Thread,         \* threads that sweep (gc, delete_chunk) or read (get_chunk)
    Process,        \* the OS processes that open the store
    Ops,            \* [Process -> SUBSET OpName]
    Grace,          \* gc's grace period
    MaxTime,        \* bound on the clock
    RenameMayFail,  \* whether renaming onto an existing object file may fail
    Damage,         \* whether the disk may damage object files
    None            \* "no transaction", "no read", "no gc yet", "not open"

OpName == {"put_chunk", "put_snapshot", "delete_snapshot", "delete_chunk",
           "gc", "get_chunk"}

ASSUME StoreAssumption ==
    /\ BlobLen \in [Blob -> Nat]
    /\ Rot \notin Blob
    /\ RefLists \subseteq Seq(ChunkId)
    /\ Ops \in [Process -> SUBSET OpName]
    /\ Grace \in Nat
    /\ MaxTime \in Nat
    /\ RenameMayFail \in BOOLEAN
    /\ Damage \in BOOLEAN
    /\ None \notin Process
    /\ None \notin Nat

VARIABLES
    chunks,         \* CHUNKS: indexed chunk -> [chunk_len, refcount]
    snapshotRefs,   \* SNAPSHOT_REFS: stored snapshot -> its reference list
    marks,          \* GC_MARKS: chunk -> time it was marked
    lastGc,         \* STATUS_META "last_gc"
    objects,        \* the object files: chunk -> [header, data, len]
    txn,            \* the open put_chunk write transaction, or None
    unlinks,        \* per thread, the swept chunks it has yet to unlink
    reads,          \* per thread, the get_chunk between its two reads
    lastRead,       \* outcome of the latest get_chunk
    proc,           \* the process that has the store open
    now,            \* the clock
    storedAt,       \* history: when each chunk's index entry was created
    zeroSince       \* history: since when each chunk's refcount is zero

vars == <<chunks, snapshotRefs, marks, lastGc, objects, txn, unlinks, reads,
          lastRead, proc, now, storedAt, zeroSince>>

-----------------------------------------------------------------------------
Time == 0 .. MaxTime

IndexEntry == [chunk_len : Nat, refcount : Nat]

\* An object file: the BLAKE3 header (a hash identifies its bytes), the body
\* and the body's length.
File == [header : Blob \cup {Rot}, data : Blob \cup {Rot}, len : Nat]

\* The arguments of an open put_chunk, and whether write_object has returned.
PutTxn == [id : ChunkId, data : Blob, written : BOOLEAN]

\* get_chunk after its index read: the chunk and the length the index gave.
Read == [id : ChunkId, chunk_len : Nat]

Outcome == {"ok", "MissingBlob", "LengthMismatch", "HashMismatch"}

TypeOK ==
    /\ chunks \in [DOMAIN chunks -> IndexEntry]
    /\ DOMAIN chunks \subseteq ChunkId
    /\ snapshotRefs \in [DOMAIN snapshotRefs -> RefLists]
    /\ DOMAIN snapshotRefs \subseteq SnapshotId
    /\ marks \in [DOMAIN marks -> Time]
    /\ DOMAIN marks \subseteq ChunkId
    /\ lastGc \in Time \cup {None}
    /\ objects \in [DOMAIN objects -> File]
    /\ DOMAIN objects \subseteq ChunkId
    /\ txn \in PutTxn \cup {None}
    /\ unlinks \in [Thread -> SUBSET ChunkId]
    /\ reads \in [Thread -> Read \cup {None}]
    /\ lastRead \in [outcome : Outcome, data : Blob \cup {Rot}] \cup {None}
    /\ proc \in Process \cup {None}
    /\ now \in Time
    /\ storedAt \in [ChunkId -> Time]
    /\ zeroSince \in [ChunkId -> Time]

Init ==
    /\ chunks = <<>>
    /\ snapshotRefs = <<>>
    /\ marks = <<>>
    /\ lastGc = None
    /\ objects = <<>>
    /\ txn = None
    /\ unlinks = [t \in Thread |-> {}]
    /\ reads = [t \in Thread |-> None]
    /\ lastRead = None
    /\ proc = None
    /\ now = 0
    /\ storedAt = [c \in ChunkId |-> 0]
    /\ zeroSince = [c \in ChunkId |-> 0]

-----------------------------------------------------------------------------
\* A table with row k set to v, and without the rows of K.
Insert(table, k, v) ==
    [x \in DOMAIN table \cup {k} |-> IF x = k THEN v ELSE table[x]]
Remove(table, K) == [x \in DOMAIN table \ K |-> table[x]]

\* One token per occurrence of chunk c in the reference list of snapshot s.
Occurrences(s, refs, c) == {<<s, i>> : i \in {j \in DOMAIN refs : refs[j] = c}}

Idle(t) == unlinks[t] = {} /\ reads[t] = None

\* The open process runs op, and begin_write does not block it.
Runs(op) == proc # None /\ op \in Ops[proc]
BeginWrite(op) == Runs(op) /\ txn = None

-----------------------------------------------------------------------------
(***************************************************************************)
(* Opening and leaving the store.  open also sweeps .tmp- files, which no  *)
(* other operation ever looks at; they are not part of the state.          *)
(***************************************************************************)
open(p) ==
    /\ proc = None
    /\ proc' = p
    /\ UNCHANGED <<chunks, snapshotRefs, marks, lastGc, objects, txn, unlinks,
                   reads, lastRead, now, storedAt, zeroSince>>

close ==
    /\ proc # None
    /\ txn = None
    /\ \A t \in Thread : Idle(t)
    /\ proc' = None
    /\ lastRead' = None
    /\ UNCHANGED <<chunks, snapshotRefs, marks, lastGc, objects, txn, unlinks,
                   reads, now, storedAt, zeroSince>>

\* The process dies: the open transaction is rolled back, every thread is gone,
\* the files stay as they are.
crash ==
    /\ proc # None
    /\ proc' = None
    /\ txn' = None
    /\ unlinks' = [t \in Thread |-> {}]
    /\ reads' = [t \in Thread |-> None]
    /\ lastRead' = None
    /\ UNCHANGED <<chunks, snapshotRefs, marks, lastGc, objects, now, storedAt,
                   zeroSince>>

-----------------------------------------------------------------------------
(***************************************************************************)
(* put_chunk.  An indexed chunk is a dedup no-op (the blob and the entry   *)
(* stay), so only the other case has steps.                                *)
(***************************************************************************)
\* MUTANT: an object file left by an interrupted upload counts as written.
put_chunk_begin_TrustsFile(id, data) ==
    /\ BeginWrite("put_chunk")
    /\ id \notin DOMAIN chunks
    /\ txn' = [id |-> id, data |-> data, written |-> id \in DOMAIN objects]
    /\ UNCHANGED <<chunks, snapshotRefs, marks, lastGc, objects, unlinks,
                   reads, lastRead, proc, now, storedAt, zeroSince>>

put_chunk_begin(id, data) ==
    /\ BeginWrite("put_chunk")
    /\ id \notin DOMAIN chunks
    /\ txn' = [id |-> id, data |-> data, written |-> FALSE]
    /\ UNCHANGED <<chunks, snapshotRefs, marks, lastGc, objects, unlinks,
                   reads, lastRead, proc, now, storedAt, zeroSince>>

\* tmp file, fsync, rename.  When the rename fails and the destination exists,
\* the destination is kept and the call succeeds all the same.
write_object ==
    /\ txn # None
    /\ ~txn.written
    /\ \/ objects' = Insert(objects, txn.id,
                            [header |-> txn.data, data |-> txn.data,
                             len |-> BlobLen[txn.data]])
       \/ /\ RenameMayFail
          /\ txn.id \in DOMAIN objects
          /\ UNCHANGED objects
    /\ txn' = [txn EXCEPT !.written = TRUE]
    /\ UNCHANGED <<chunks, snapshotRefs, marks, lastGc, unlinks, reads,
                   lastRead, proc, now, storedAt, zeroSince>>

put_chunk_commit ==
    /\ txn # None
    /\ txn.written
    /\ chunks' = Insert(chunks, txn.id,
                        [chunk_len |-> BlobLen[txn.data], refcount |-> 0])
    /\ txn' = None
    /\ storedAt' = [storedAt EXCEPT ![txn.id] = now]
    /\ zeroSince' = [zeroSince EXCEPT ![txn.id] = now]
    /\ UNCHANGED <<snapshotRefs, marks, lastGc, objects, unlinks, reads,
                   lastRead, proc, now>>

\* write_object or the commit fails: the transaction is dropped, a renamed
\* file stays.
put_chunk_fail ==
    /\ txn # None
    /\ txn' = None
    /\ UNCHANGED <<chunks, snapshotRefs, marks, lastGc, objects, unlinks,
                   reads, lastRead, proc, now, storedAt, zeroSince>>

-----------------------------------------------------------------------------
(***************************************************************************)
(* Snapshots.  put_snapshot takes one reference per occurrence; an already *)
(* stored snapshot and an unknown chunk are errors that change nothing.    *)
(***************************************************************************)
RefcountWith(s, refs, c) ==
    chunks[c].refcount + Cardinality(Occurrences(s, refs, c))

put_snapshot(s, refs) ==
    /\ BeginWrite("put_snapshot")
    /\ s \notin DOMAIN snapshotRefs
    /\ \A i \in DOMAIN refs : refs[i] \in DOMAIN chunks
    /\ chunks' = [c \in DOMAIN chunks |->
                    [chunks[c] EXCEPT !.refcount = RefcountWith(s, refs, c)]]
    /\ snapshotRefs' = Insert(snapshotRefs, s, refs)
    /\ UNCHANGED <<marks, lastGc, objects, txn, unlinks, reads, lastRead, proc,
                   now, storedAt, zeroSince>>

\* MUTANTS: one decrement per chunk instead of one per occurrence; and an
\* unchecked subtraction of the whole list from each of its chunks.
RefcountWithout_Once(s, c) ==
    IF Occurrences(s, snapshotRefs[s], c) # {} /\ chunks[c].refcount > 0
    THEN chunks[c].refcount - 1 ELSE chunks[c].refcount
RefcountWithout_Unchecked(s, c) ==
    IF Occurrences(s, snapshotRefs[s], c) # {}
    THEN chunks[c].refcount - Len(snapshotRefs[s]) ELSE chunks[c].refcount

\* The refcount delete_snapshot leaves: one saturating decrement per occurrence.
RefcountWithout(s, c) ==
    LET n == Cardinality(Occurrences(s, snapshotRefs[s], c))
    IN  IF n < chunks[c].refcount THEN chunks[c].refcount - n ELSE 0

\* Chunks that are no longer indexed are skipped.
delete_snapshot(s) ==
    /\ BeginWrite("delete_snapshot")
    /\ s \in DOMAIN snapshotRefs
    /\ chunks' = [c \in DOMAIN chunks |->
                    [chunks[c] EXCEPT !.refcount = RefcountWithout(s, c)]]
    /\ snapshotRefs' = Remove(snapshotRefs, {s})
    /\ zeroSince' = [c \in ChunkId |->
                       IF /\ c \in DOMAIN chunks
                          /\ chunks[c].refcount > 0
                          /\ RefcountWithout(s, c) = 0
                       THEN now ELSE zeroSince[c]]
    /\ UNCHANGED <<marks, lastGc, objects, txn, unlinks, reads, lastRead, proc,
                   now, storedAt>>

-----------------------------------------------------------------------------
(***************************************************************************)
(* Reclaiming chunks.  The index transaction comes first, the files are    *)
(* unlinked after it has committed.                                        *)
(***************************************************************************)
delete_chunk(t, id) ==
    /\ BeginWrite("delete_chunk")
    /\ Idle(t)
    /\ id \in DOMAIN chunks
    /\ chunks[id].refcount = 0
    /\ chunks' = Remove(chunks, {id})
    /\ unlinks' = [unlinks EXCEPT ![t] = {id}]
    /\ UNCHANGED <<snapshotRefs, marks, lastGc, objects, txn, reads, lastRead,
                   proc, now, storedAt, zeroSince>>

ZeroRef == {c \in DOMAIN chunks : chunks[c].refcount = 0}
\* MUTANTS: a sweep that trusts the mark and not the refcount; one that takes
\* a chunk without a mark for expired.
Expired_IgnoresRefcount ==
    {c \in DOMAIN chunks \cap DOMAIN marks : now - marks[c] >= Grace}
Expired_NoMarkNeeded ==
    {c \in ZeroRef : c \in DOMAIN marks => now - marks[c] >= Grace}

Expired == {c \in ZeroRef \cap DOMAIN marks : now - marks[c] >= Grace}
\* MUTANT: a pass that sweeps does not mark.
Unmarked_UnlessSweeping == IF Expired = {} THEN ZeroRef \ DOMAIN marks ELSE {}

Unmarked == ZeroRef \ DOMAIN marks

\* Marks of chunks that are referenced again or gone are dropped.
gc(t) ==
    /\ BeginWrite("gc")
    /\ Idle(t)
    /\ chunks' = Remove(chunks, Expired)
    /\ marks' = [c \in ((DOMAIN marks \cap ZeroRef) \ Expired) \cup Unmarked |->
                    IF c \in Unmarked THEN now ELSE marks[c]]
    /\ lastGc' = now
    /\ unlinks' = [unlinks EXCEPT ![t] = Expired]
    /\ UNCHANGED <<snapshotRefs, objects, txn, reads, lastRead, proc, now,
                   storedAt, zeroSince>>

unlink(t, id) ==
    /\ id \in unlinks[t]
    /\ objects' = Remove(objects, {id})
    /\ unlinks' = [unlinks EXCEPT ![t] = @ \ {id}]
    /\ UNCHANGED <<chunks, snapshotRefs, marks, lastGc, txn, reads, lastRead,
                   proc, now, storedAt, zeroSince>>

\* An unlink that fails ends the call: the rest of the list stays on disk.
unlink_fail(t) ==
    /\ unlinks[t] # {}
    /\ unlinks' = [unlinks EXCEPT ![t] = {}]
    /\ UNCHANGED <<chunks, snapshotRefs, marks, lastGc, objects, txn, reads,
                   lastRead, proc, now, storedAt, zeroSince>>

-----------------------------------------------------------------------------
(***************************************************************************)
(* get_chunk: the index entry, then the file, checked against the entry's  *)
(* length and the file's own hash.                                         *)
(***************************************************************************)
chunk_entry(t, id) ==
    /\ Runs("get_chunk")
    /\ Idle(t)
    /\ id \in DOMAIN chunks
    /\ reads' = [reads EXCEPT ![t] =
                    [id |-> id, chunk_len |-> chunks[id].chunk_len]]
    /\ UNCHANGED <<chunks, snapshotRefs, marks, lastGc, objects, txn, unlinks,
                   lastRead, proc, now, storedAt, zeroSince>>

\* MUTANT: only the length is checked.
Verify_LengthOnly(r) ==
    IF r.id \notin DOMAIN objects
    THEN [outcome |-> "MissingBlob", data |-> Rot]
    ELSE [outcome |-> IF objects[r.id].len # r.chunk_len
                      THEN "LengthMismatch" ELSE "ok",
          data    |-> objects[r.id].data]

\* MUTANT: the length check counts the header in.
Verify_HeaderCounted(r) ==
    IF r.id \notin DOMAIN objects
    THEN [outcome |-> "MissingBlob", data |-> Rot]
    ELSE LET f == objects[r.id] IN
         [outcome |-> IF f.len + 1 # r.chunk_len THEN "LengthMismatch"
                      ELSE IF f.header # f.data THEN "HashMismatch" ELSE "ok",
          data    |-> f.data]

Verify(r) ==
    IF r.id \notin DOMAIN objects
    THEN [outcome |-> "MissingBlob", data |-> Rot]
    ELSE LET f == objects[r.id] IN
         [outcome |-> IF f.len # r.chunk_len THEN "LengthMismatch"
                      ELSE IF f.header # f.data THEN "HashMismatch" ELSE "ok",
          data    |-> f.data]

get_chunk(t) ==
    /\ reads[t] # None
    /\ lastRead' = Verify(reads[t])
    /\ reads' = [reads EXCEPT ![t] = None]
    /\ UNCHANGED <<chunks, snapshotRefs, marks, lastGc, objects, txn, unlinks,
                   proc, now, storedAt, zeroSince>>

-----------------------------------------------------------------------------
(***************************************************************************)
(* The environment.                                                        *)
(***************************************************************************)
\* Bit rot or truncation of a file's body, or the loss of the file.
damage(id) ==
    /\ Damage
    /\ id \in DOMAIN objects
    /\ \/ \E n \in {0, objects[id].len} :
             objects' = [objects EXCEPT ![id].data = Rot, ![id].len = n]
       \/ objects' = Remove(objects, {id})
    /\ UNCHANGED <<chunks, snapshotRefs, marks, lastGc, txn, unlinks, reads,
                   lastRead, proc, now, storedAt, zeroSince>>

tick ==
    /\ now < MaxTime
    /\ now' = now + 1
    /\ UNCHANGED <<chunks, snapshotRefs, marks, lastGc, objects, txn, unlinks,
                   reads, lastRead, proc, storedAt, zeroSince>>

Next ==
    \/ \E p \in Process : open(p)
    \/ close
    \/ crash
    \/ \E id \in ChunkId, data \in Blob : put_chunk_begin(id, data)
    \/ write_object
    \/ put_chunk_commit
    \/ put_chunk_fail
    \/ \E s \in SnapshotId, refs \in RefLists : put_snapshot(s, refs)
    \/ \E s \in SnapshotId : delete_snapshot(s)
    \/ \E t \in Thread, id \in ChunkId : delete_chunk(t, id)
    \/ \E t \in Thread : gc(t)
    \/ \E t \in Thread, id \in ChunkId : unlink(t, id)
    \/ \E t \in Thread : unlink_fail(t)
    \/ \E t \in Thread, id \in ChunkId : chunk_entry(t, id)
    \/ \E t \in Thread : get_chunk(t)
    \/ \E id \in ChunkId : damage(id)
    \/ tick

Spec == Init /\ [][Next]_vars

-----------------------------------------------------------------------------
(***************************************************************************)
(* What the store promises.                                                *)
(***************************************************************************)
\* Every reference to chunk c held by a stored snapshot.
HeldRefs(c) == UNION {Occurrences(s, snapshotRefs[s], c) : s \in DOMAIN snapshotRefs}

\* The refcount of an indexed chunk is the number of its occurrences in the
\* stored snapshots' reference lists, duplicates counted: put_snapshot and
\* delete_snapshot stay inverse to each other whatever runs in between.
RefcountExact ==
    \A c \in DOMAIN chunks : chunks[c].refcount = Cardinality(HeldRefs(c))

\* A file that get_chunk accepts for the indexed chunk c.
Intact(c) ==
    /\ c \in DOMAIN objects
    /\ objects[c].header = objects[c].data
    /\ objects[c].len = chunks[c].chunk_len

\* Every stored snapshot can be restored: prune and gc never take away a chunk
\* it references, nor that chunk's file.
SnapshotsRestorable ==
    \A s \in DOMAIN snapshotRefs : \A i \in DOMAIN snapshotRefs[s] :
        /\ snapshotRefs[s][i] \in DOMAIN chunks
        /\ Intact(snapshotRefs[s][i])

\* An index entry never points at a missing or a different file, at any point
\* between the steps of put_chunk, gc and delete_chunk and after any crash.
IndexedHasBlob == \A c \in DOMAIN chunks : Intact(c)

\* No process both stores chunks and reclaims them: what the separate gc
\* command and redb's file lock amount to.
SweepOps == {"gc", "delete_chunk"}
SweepsAlone ==
    \A p \in Process : "put_chunk" \in Ops[p] => Ops[p] \cap SweepOps = {}

\* gc overlooks nothing: an unreferenced chunk without a mark became
\* unreferenced no earlier than the latest gc run.
GcMissesNothing ==
    \A c \in ZeroRef \ DOMAIN marks : lastGc = None \/ zeroSince[c] >= lastGc

\* get_chunk never hands out bytes no client uploaded.
CorruptionNeverSilent ==
    lastRead # None /\ lastRead.outcome = "ok" => lastRead.data # Rot

\* Without damage to the disk, get_chunk of an indexed chunk reports no damage.
NoFalseAlarm == lastRead # None => lastRead.outcome = "ok"

\* A chunk stays indexed for at least the grace period after it was stored, so
\* a backup that is no slower than that finds its fresh chunks when it comes
\* to PutManifest (gc's "freshly uploaded chunks are never swept").
FreshChunksSurviveGrace ==
    [][\A c \in DOMAIN chunks \ DOMAIN chunks' : now - storedAt[c] >= Grace]_vars
====
