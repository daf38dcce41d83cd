# TLA+ models of BusyNCR

BusyNCR backs up folders to a self-hosted server: a client chunks, compresses
and encrypts files and ships the chunks a daemon does not have yet; the daemon
keeps the chunks in a content-addressed store, keeps one manifest per snapshot,
thins the snapshots on a retention grid, and garbage-collects chunks nothing
refers to. This directory models the parts of that system whose correctness
depends on the order of steps (several threads, several processes, crashes,
failing I/O, moving clocks), checks the models with TLC and proves the most
important results with TLAPS.

Contents: [inventory](#inventory), [modules](#modules), [runs](#runs),
[what the code does not keep](#where-documents-and-code-disagree),
[fairness](#fairness), [proofs](#proofs), [limits](#what-is-not-modelled), [plan](#plan).

## Inventory

| part | source | state it keeps | operations | hard because |
|---|---|---|---|---|
| chunk store | `busyncr-daemon/src/store.rs` | redb tables CHUNKS (length, refcount), SNAPSHOTS / SNAPSHOT_REFS / SNAPSHOT_OWNER, GC_MARKS, STATUS_META; object files | open, put_chunk, put_snapshot, delete_snapshot, delete_chunk, gc, get_chunk | file I/O is outside the transactions; crashes; grace period against slow backups; refcounts with duplicates |
| retention | `busyncr-core/src/retention.rs` | none (pure) | plan | ties, tier boundaries, repeated application |
| pruning | `store.rs` prune, `service.rs`, `main.rs` | snapshots, last-prune record | PutManifest + auto-prune, daily timer, prune command | concurrent prunes on stale lists; one grid for all clients |
| gRPC service | `busyncr-daemon/src/service.rs` | none of its own | Enroll, ListSnapshots, HasChunks, UploadChunks, PutManifest, GetManifest, GetChunks | calls interleave; authentication once per call; streams abort half way |
| identity | `busyncr-daemon/src/identity.rs` | CA, server key, token files, registry files | bootstrap, mint, consume, enroll, revoke | check-then-act on files, two processes, failures after the token is spent |
| backup session | `busyncr-client/src/backup.rs` | pending batch, seen chunks, ledger | list, walk, chunk, has, upload, put manifest | answers are stale when used; runs dedup against each other; cut off anywhere |
| restore | `busyncr-client/src/restore.rs` | output tree, ledger | get manifest, stream chunks, verify, set metadata | snapshot pruned, chunk swept or rotten meanwhile; the stream's channel is bounded |
| compression, manifest | `busyncr-core/src/compression.rs`, `manifest.rs` | none (pure) | choose_codec, frame, decode; encode, decode, chunk_refs | phase gating, thresholds, times before the epoch |
| run loop | `busyncr-client/src/run.rs`, `busyncr-core/src/scheduler.rs`, `config.rs`, `status.rs` | next delay, last-backup record | run backup, save record, sleep, stop | must go on after failures; three commands write one record |
| Windows service | `busyncr-client/src/service.rs` | the service's state at the SCM | install, uninstall, start, stop, restart, run | a Stop arrives at any point; control handler, thread and loop hand it on |
| client keys | `busyncr-client/src/enroll.rs`, `keys.rs`, `busyncr-core/src/crypto.rs` | identity and key files, their `.old-n` copies, keyfiles | enroll, export-key, import-key | several files replaced one by one, crash in between |
| benchmarks | `busyncr-core/src/bench.rs`, `policy_bench.rs`, `busyncr-client/src/bench_cmd.rs` | per-file chunk lists | bench-chunking | one reader and several chunker threads over bounded channels; figures nobody recomputes |
| status, snapshots, progress, generated protocol | rest | none | - | read and print |

Interaction: the client calls the daemon over gRPC. Each call runs its store
operation on a blocking thread, so operations of different calls interleave at
the granularity of redb transactions and file operations. `serve`, `prune` and
`gc` are separate OS processes, and redb's file lock lets one of them at a time
open the store; `enroll-token` and `revoke` touch identity files only and run
beside `serve`.

What makes each part correct:

* store: refcounts equal the references stored snapshots hold; a stored
  snapshot can always be restored; an index entry always has its file; damage
  is reported, never returned; a fresh chunk outlives a backup no longer than
  the grace period; gc overlooks nothing.
* retention: exactly the newest snapshot of each (tier, cell) is kept; planning
  again changes nothing.
* pruning: concurrent prunes never lose the newest snapshot, nor the newest of
  any coarsest cell; a prune that completes has thinned what it listed.
* identity: a token enrols at most one client; a client revoke returned for is
  out for good; the CA handed out once is the CA for ever.
* backup: a listed snapshot is complete under its own client's keys, whoever
  uploaded its chunks; the ledger adds up; the last progress line is the result.
* restore: the files of the snapshot, or an error, and never something else; it
  ends, and so does the task that serves it.
* run loop and service: backups resume after faults, the record of the last one
  is repaired, a Stop stops.
* keys: no key bytes are ever lost; success means the whole state is in place.
* benchmarks: only whole files are counted, the figures agree, what is
  recommended is best; reader and chunkers never wait in a circle.

`PROJECT.json` lists the hazards by source line, with the properties that
cover each.

## Modules

| module | what it is |
|---|---|
| `ChunkStore` | the store: tables, files, transactions, threads, processes |
| `SnapshotVault` | abstract specification: immutable contents and the snapshots referring to them |
| `ChunkStoreRefinement` | the mapping from ChunkStore to SnapshotVault |
| `MCChunkStore` | instances of the above for TLC |
| `ChunkStoreProofs` | theorems about the store, the refinement among them |
| `Retention` | tiers, cells and survivors as operators |
| `RetentionPlan` | `retention::plan` as the loop it is |
| `MCRetentionPlan`, `RetentionPlanProofs` | its instance and theorems |
| `Prune` | PutManifest, timer, prune command, `ChunkStore::prune`; uses Retention |
| `MCPrune`, `PruneProofs` | its instances and theorems |
| `Enrollment` | tokens, the client registry, Enroll, revoke, authenticate |
| `MCEnrollment`, `EnrollmentProofs` | its instances and theorems |
| `Bootstrap` | `DaemonIdentity::open_or_init`: CA and server certificate |
| `MCBootstrap`, `BootstrapProofs` | its instances and theorems |
| `Codec` | compression policy, chunk identity, sealing and the manifest's wire form as operators |
| `DaemonRpc` | the daemon's store calls over an instance of SnapshotVault, with gc, prune and rot |
| `Backup`, `Restore` | the client's two sessions, each over DaemonRpc |
| `DataPath`, `MCDataPath`, `DataPathProofs` | both sessions on one daemon; its instance and theorems |
| `ChunkerConfig`, `ClientConfig` | sizes, the config file, intervals and schedules as operators |
| `ClientService`, `MCClientService` | the processes that run backups, the service and its commands; its instance |
| `ClientKeys`, `MCClientKeys`, `ClientKeysProofs` | the client's state directory under enroll, export-key and import-key; its instance and theorems |
| `FanOut` | the reader and the chunker threads of `fan_out_chunks` |
| `BenchReport` | what the benchmarks compute, as operators over Codec |
| `Bench`, `MCBench`, `BenchProofs` | the bench-chunking command over FanOut and BenchReport, with Retention as reference; its instance and theorems |

Operators marked `MUTANT` are wrong versions of the definition that follows
them. No specification uses them; they record which bug each property catches
(`PROJECT.json`, "mutants").

### ChunkStore

State: `chunks`, `snapshotRefs`, `marks` and `lastGc` are the redb tables;
`objects` the object files (header hash, body, length); `txn` the open
put_chunk transaction; `unlinks` and `reads` the threads inside gc,
delete_chunk and get_chunk; `proc` the process that has the store open.
`storedAt` and `zeroSince` are history variables for the grace properties.

A redb write transaction without file I/O in it is one action (`put_snapshot`,
`delete_snapshot`). put_chunk is `put_chunk_begin`, `write_object` (the rename)
and `put_chunk_commit`, with `put_chunk_fail` for every error return; while it
is open every other writer waits. gc and delete_chunk are the index transaction
followed by one `unlink` per swept chunk, `unlink_fail` for the error that ends
the call. get_chunk is `chunk_entry` and then the file. `crash` can strike
between any two of these and rolls the transaction back. Error returns that
change nothing (unknown chunk, snapshot exists, still referenced, dedup hit) are
the negated guards.

Abstractions: a blob is a model value with a length; a BLAKE3 hash is the value
it hashes (no collisions); a re-upload of a chunk may carry other bytes, since
the client encrypts afresh; `.tmp-` files are invisible to every operation and
left out; manifest blobs and owners are written and removed with the reference
lists and not looked at. `fs::rename` either replaces the file or, with
`RenameMayFail`, takes the code's fallback. Files survive a crash once renamed:
the loss of an unsynced directory entry is not modelled, nor is a wall clock
that steps back.

`Ops` says which operations a process runs. `Deployed` is what the commands do:
`serve` never sweeps, `gc` does nothing else. `Embedded` is a program that calls
everything from several threads, as the type allows (`&self` methods on a shared
handle).

### SnapshotVault

Store, Accept, Retire, Reclaim: contents are written once and do not change
while held; only what no live snapshot refers to is given up. The mapping takes
the content of a chunk from its object file, so a file that vanishes or changes
under an index entry is a step the vault does not have.

### Retention and RetentionPlan

`Retention` defines the grid (`tier_for`, `cell_ms`, `SameCell`, `Survivors`).
`RetentionPlan` is the code: `idx` walks the input, `best` is the hash map,
`insert` and `skip` are the two arms of the match, `keep` is what the second
loop returns. An empty policy returns at once. `TiersAssumption` is what
`from_tiers` checks.

### Prune

State: `stored` (keys of SNAPSHOTS), `lastPrune`, and `job`, what each worker is
doing. A worker is a PutManifest handler, the timer or the operator's command.
`put_manifest` commits a snapshot and, with auto_prune, leaves the worker to
prune before it answers: `call_prune` samples the clock, `list_snapshots` reads
and plans, `delete_snapshot` takes the list in order, `record_prune` writes the
record and answers; `prune_error` is any storage error (the answer is still OK);
`hang_up` is a client that goes away. `ever` and `acked` are history. ULIDs are
numbers in ULID order; a backup mints a fresh one when it starts, so commits may
come in another order than ULIDs.

### Enrollment

State: `tokens` and `clients` are the two directories of the identity, `clients`
a function from paths to contents; `pc`, `request`, `todo`, `taken` and `signed`
are the locals of each handler inside Enroll, `rev` those of the revoke command,
`serving` the calls past authenticate. `minted`, `cert` (which token a client was
enrolled on), `banned` (clients some revoke has returned for) and the fields
`done` and `covered` of `rev` are history.

A path is a fingerprint and the number of `.tmp-` prefixes in front of it: the
temporary file of write_atomic lies in the same directory and keeps the
extension, so read_registry lists it like any other. write_atomic is three
actions (`_create`, `_write`, `_rename`); read_registry is a listing followed by
one action per file, which fails when the file is gone or empty. `enroll_abort`
and `revoke_abort` are any I/O error or the end of the process at any of these
points; files stay. An Enroll whose token is not outstanding changes nothing.
A file's short body is written in one go. The listing is atomic: the order in
which a directory changes under readdir is not modelled. revoke runs once at a
time; two would write through one inode (see hazards).

### Bootstrap

The four files and each command's copy of them; a certificate or key is the
generation it was made in. `Overlap` says whether two commands may be inside
open_or_init at once. `stop` is the end of a command anywhere.

### Codec, DaemonRpc, Backup, Restore, DataPath

`Codec` keeps the decisions and abstracts the bytes: a chunk's plaintext is a
model value with its raw, lz4, zstd and zstd-9 lengths, a compressed payload is
a term that says what it decompresses to, and a sealed blob opens under exactly
the key and associated data it was sealed with. Ratios are percentages. The
manifest is the flat sequence of fields that `encode` writes, counts in front of
what they count, and `decode` finds its way by those counts. Quarter seconds
stand for nanoseconds.

`DaemonRpc` takes the daemon as `SnapshotVault`, which ChunkStore is shown to
implement, so that the clients are checked against what the store promises and
not against its internals. `gc` may reclaim any unreferenced chunk at any time:
grace is a matter of ChunkStore, and a client must cope with a chunk that was
reported present and is gone at PutManifest.

`Backup`: `sess[s]` is the run that makes snapshot s, with the locals of
`run_backup_with_progress` and of `Session`. `begin` loads, lists and walks;
`next_chunk` and `end_file` are the two loops; `ask`, `pack`, `upload_chunk` and
`flushed` are `flush`, one ID and one blob per step because each is a transaction
of its own on the daemon; `store_manifest` and `acknowledged` are PutManifest and its
reply. `interrupted` is any `?`, or the end of the process, at any of these
points. Directories are flattened into the walk's order. A run has whatever two
keys its state directory holds, and `KeyPair` may have pairs that share one of
them: see item 7 below. Paths whose length does not fit the manifest's field are
the constant `LongPaths`.

`Restore`: `rst` has the locals of `run_restore_with_progress` and
`restore_file`, `out` is the target directory, `stream` the GetChunks call:
`todo` and `held` are the blocking task, `chan` the bounded channel, `open` says
whether the client still reads. Which paths `sanitize_path` refuses is the
constant `Unsafe`. `set_mode` is a function of `PLATFORM`: a Unix build sets the
mode as recorded, a Windows build takes the recorded word's lowest bit as READONLY
and drops the rest, also when the snapshot was made on Unix and that bit is
others' execute permission. `RestoredIsExact` is about the mode as `set_mode`
leaves it.

### ClientConfig and ClientService

`proc` has a process each for `run`, `service run` and `backup`; the three share
`last`, the record file. `pc` walks through `run_scheduler`: load, backup, save
(the file is emptied), write, draw, sleep. `left` is the rest of the delay in
seconds. `scm` is what the Service Control Manager knows, `stop_tx` the control
handler's channel, `proc["service"].stop` the shutdown future, `bridge` the
thread between them. `heard` says that the signal futures have been polled, which
happens first when the loop waits. A restart is `restart`, `restart_polls` and
`restart_starts`. Faults (`outage`, `kill`, `edit`, failing saves) stop once
`calm` is set; a connection cut by an outage is either dropped or silent.

### ClientKeys

A file holds the number of the enrolment that made it. `cmd` is the command
under way and how far it has come; each write or rename is a step, `crash` is a
crash or an I/O error between two of them. A malformed key file is a value of its
own. One command runs at a time.

### FanOut, BenchReport, Bench

`rd` is the calling thread, `wk` the chunker threads with their channels. A
candidate size is a number of blocks and a chunk is a sequence of blocks, so
chunks are cut by content, wherever blocks come apart. `Bench` runs one tree
after the other, file by file, and `print_report` fills in `report`. `tree_fails`
is chunk_tree's own error (a root that is no directory, the walk, opening a file),
which also an empty tree can meet; what fails inside a file is FanOut's. The time
each policy takes is measured by the program and an input here, and which
extensions make up a file class is the constant `Extensions`.

## Runs

| run | shows |
|---|---|
| `store_deployed` | the store as deployed: all safety properties, two-step reads beside uploads, and the refinement |
| `store_embedded` | every operation in one process, damage and failing renames included |
| `retention_plan` | the loop against the grid, all lists up to length 4 over 8 instants |
| `prune_concurrent` | three kinds of prune interleaved, with errors, crashes, clock skew |
| `enroll_concurrent` | enrolments on two handlers and a revoke, failures anywhere |
| `bootstrap_crashes` | first starts interrupted anywhere, one at a time |
| `data_path` | two backups (one client twice, two clients, a refused configuration) and a restore, with gc, prune, rot and failures anywhere; restore and serving task end |
| `client_service` | `run` beside `backup`, and the service under all its commands, with outages, kills and edits: liveness |
| `client_keys` | up to three enrolments with exports and imports in any order, cut short anywhere |
| `bench` | bench-chunking over small trees and command lines, with failing readers and chunkers: figures and termination |
| `prune_two_clients`, `enroll_torn_read` | the first two disagreements below |

Bounds. Two chunks and lists of length two give shared, repeated and disjoint
references; two snapshots give a reference that comes, goes and comes back; two
blob lengths tell a re-upload from the first upload; `Grace = 2` with
`MaxTime = 3` lets a mark be younger than, exactly at and past the grace period.
Two threads suffice for a sweep against a read or another sweep. For pruning,
four snapshots over five instants and two tiers let a snapshot change tier while
a prune with an older list is under way, and cells of both tiers hold more than
one snapshot. Three tokens and fingerprints with two handlers
give a revoke two clients to cover while a third enrols, and a name that is
revoked and enrolled again; five generations let a bootstrap be interrupted in
both pairs and still end. Handlers, tokens, fingerprints, names and generations
are symmetric: no definition tells them apart.

In `data_path` one chunk is compressible enough for the level-9 retry and one is
stored raw; a file repeats a chunk and is older than the epoch; batches of two
chunks or five bytes make both limits bind; the channel holds one blob, so the
serving task blocks; two clients have the same content under different keys, and
one pair of runs shares the chunk-ID key beside two data keys; one path is too long
to be encoded; the restoring build is the Windows one, whose modes differ from the
recorded ones. In `client_service` a delay is 0 to 4 seconds and a Duration
holds 2, so that the largest delay panics; the arguments include each kind that
does not resolve. `client_keys` has three `.old-n` slots, so that they can run
out. `bench` has channels of depth one with three candidates, and the default
grid in units of three hours.

Deadlock is checked everywhere except where the system may stop: the loop of
`retention_plan`, commands that end (`bench`, `client_keys`), runs and restores
that are over (`data_path`), and processes nobody starts again
(`client_service`).

## Fairness

* `DataPath`: weak fairness of the restore's and of the serving task's steps.
  Both are sequential programs, and what they wait for is in the model. Backups,
  gc, prune and rot are not fair.
* `Bench`: weak fairness of the command and of the threads; OS threads that can
  run do. Faults are not fair.
* `ClientService`: weak fairness of each process and of the bridging thread, and
  strong fairness of leaving the loop: with the delay over and the stop there,
  `tokio::select!` picks a branch at random, so the stop is not passed over for
  ever. Operators and faults are not fair. That faults end is a premise
  (`calm`) of BackupsResume and RecordHeals, and a silent connection is an
  exception in all three properties, because no timeout or keep-alive is
  configured.

## Where documents and code disagree

Two of them are runs that TLC finds violated:

1. `prune_two_clients`: one grid covers the snapshots of all clients, so
   PutManifest can return OK for a snapshot its own prune has just dropped.
2. `enroll_torn_read`: a registry reader meets the empty temporary file of
   another enrolment and fails with its token spent; left behind by a crash, the
   file blocks every later enrolment and revoke. write_atomic is documented as
   atomic, and read_registry as skipping strays.

The models have these behaviours too; no run is kept for them:

3. gc's unlink comes after its commit, and in one process a put_chunk of the same
   chunk fits in between: its file is deleted and a snapshot can then be accepted
   that cannot be restored. The PRD asks for a GC "safe under concurrent backup".
   As deployed the file lock prevents it, and the theorems say exactly which
   condition (`SweepsAlone`) is needed.
4. The help text promises that a chunk is reclaimed only after being
   "continuously unreferenced" for the grace period; a mark is only dropped if gc
   happens to run while the chunk is referenced. What does hold is
   `FreshChunksSurviveGrace`.
5. Pruning at each backup keeps fewer snapshots than the grid over the whole
   history (PRD FR5: "exactly the grid-predicted snapshot set").
   `HistoryCovered` is what does hold.
6. revoke can rewrite an enrolment's temporary file just after it was renamed
   away, and reports as revoked a certificate that stays valid.
   `RevokedStaysRevoked` is what does hold.
7. keys.rs says of the two keys that they "are preserved together and stay
   correlated"; a crash between the two renames puts them in different slots, or
   leaves one of each pair in use, and an enrolment after a cut-short import
   makes a new key beside an old one. `NothingDestroyed` is what does hold. A
   client with a new data key beside its old chunk-ID key then dedups against
   chunks that its data key does not open: its backup succeeds and is listed, and
   its restore stops at the first of them, while ensure_data_key (enroll.rs:324)
   says that "existing history stays decryptable *and* keeps deduping".
   `ListedIsReadable` has such runs in it and says what does hold: the manifest
   opens under the client's data key, and each chunk under that of a run with the
   same chunk-ID key.
8. run.rs says that an unreachable daemon "cannot wedge the schedule"; a
   connection that goes silent has no timeout and can.
9. service.rs says that "a bad config should surface as a clean, immediate
   Stopped"; run_service_body returns without another report and the SCM goes on
   showing StartPending until the process ends.
10. `service restart` during a backup of more than 15 seconds asks for the start
    before the stop, fails, and leaves the service stopped in the end.
11. Ctrl-C or SIGTERM before the loop first waits kills the process: the signal
    futures are first polled there.
12. backup.rs says that the final tick reflects "every counter's final value";
    compression and manifest_bytes are filled in after it. flush "drains pending
    in all cases", but not when HasChunks fails. "Each unique chunk is compressed
    at most once ever" does not hold for runs side by side. Whether a backup is
    the initial one is read from all clients' snapshots.
13. steady_state_snapshots understates what the grid keeps by up to a cell per
    tier, because cells are aligned to the epoch and not to now (`ReportAddsUp`
    has the exact bounds). recommend_policy compares initial backups, in which
    escalation is off, and prefers the first of equals, so it never recommends
    zstd3+escalate.

Seen while modelling and not the subject of a run: where rename does not
replace, write_object's fallback keeps a file whose bytes need not be the ones
being uploaded (store.rs:361); overlapping prunes record themselves in the order
they end (store.rs:768); two overlapping enrolments can both get one name
(identity.rs:318); `serve` and `enroll-token` started together on a fresh
directory can each hand out a CA (`Bootstrap` with `Overlap = TRUE`,
identity.rs:172); an interval so long that the jittered delay exceeds a Duration
panics (scheduler.rs:92); a config path that is not UTF-8 loses its bytes in the
service's launch arguments (service.rs:134).

## Proofs

All proofs hold for arbitrary constants under the named assumptions of the
modules, which TLC evaluates in every run.

* `RefcountsAreExact`. The inductive invariant adds to the type invariant that
  every reference held is to an indexed chunk: then no decrement ever saturates
  and a chunk removed by gc or delete_chunk has no references. Counting is by
  the set of (snapshot, position) tokens, finite because reference lists are
  sequences.
* `IndexNeverDangles`, `SnapshotsStayRestorable`: under `SweepsAlone`, no
  failing rename and no damage. The invariant relates index, files and threads:
  a chunk waiting to be unlinked is not indexed, and while anything waits no
  process that stores chunks has the store open; a written but uncommitted
  object has the length its entry will get.
* `GcOverlooksNothing`, `FreshChunksAreProtected`: the invariants relate marks
  to `storedAt`, `zeroSince` and `lastGc`; a mark is never older than its
  chunk's entry unless delete_chunk, which leaves marks behind, is used.
* `StoreImplementsVault`: the refinement, step by step, from the same
  invariants.
* `CorruptionIsReported`, `ReadsRaiseNoFalseAlarm`: damage never reaches a header and
  headers are written from what clients sent, so a body that hashes to its header
  is one some client uploaded; this holds in every process layout, with damage
  and failing renames. The second theorem, that a read finds what it was promised,
  is for reads that share the store with no sweep (`SweepsAlone`, `ReadsAlone`)
  on a sound disk.
* `PlanIsTheGrid`, `OnePerCell`, `PlanIsIdempotent`: by the loop invariant "each
  slot of best holds a snapshot already seen of that slot which no seen snapshot
  of the slot beats, and each seen snapshot has a slot".
* `NewestIsNeverPruned`, `HistoryStaysCovered`, `PruneThins`: the invariant says
  that whatever is gone, or in any worker's drop list, has a newer snapshot *ever
  accepted* in its coarsest cell. Naming a *stored* one would not be inductive,
  as another prune may delete it; the newest ever accepted can be in no drop
  list. `HistoryStaysCovered` assumes `Nested`, which the default grid
  satisfies (3 h, 24 h, 4 d, 16 d).

* `TokensAreSpentOnce`: each call under way holds a token that is spent, that no
  client has been enrolled on and that no other call holds.
* `PublishedRecordsAreWhole`, `RevocationIsFinal`, `RevokedAreRefused`: a
  fingerprint with a call past the registry check has its temporary file and not
  yet its own, so revoke, which stages `.tmp-` files only for paths it read whole,
  never empties a file that is about to be published; each client a revoke must
  cover is revoked, still to be read, found, or being written. Files with two
  prefixes are never active records, so prefixes end there (`TypeCorrect`).
* `CASurvivesRestarts`, under `~Overlap`: a pair's key is written after its
  certificate and acts as its commit record; once it is there the pair never
  changes, and until then no command is past it. `IdentityStaysCoherent` adds
  what each command has read or made itself.
* `SuccessfulCommands`, `KeysSurvive`: at each step of a command the files before the
  one it is at are in place, and an import under way overwrites nothing: what it
  has still to move goes to a slot that is empty, and where it has still to write
  there is no file.
* DataPath: `ListedStaysReadable`, `RestoresAreExact`, `LedgersBalance` and
  `FinalTicksMatch`, for any number of clients, files, runs and chunks, any batch
  limits and any compression configuration. The inductive invariant has one part
  for each thing that must fit together:
  * of a run: `RunShape`, `RunWalk` (the files done and the chunks of the current
    one are a prefix of the walk), `RunBatch` (a batch not yet flushed has room,
    and each blob packed is the chunk its ID names), `RunLedger` and `RunCounts`
    (every distinct chunk met was sent, found present or is pending, exactly
    once) and `RunTick`;
  * `VaultInv`: whatever the daemon holds under an ID is the chunk the ID names,
    sealed under some data key with that ID as its associated data;
  * `SealInv`: that data key is the one of a run that has begun and whose chunk-ID
    key made the ID, and a run packs blobs only under its own two keys. So another
    chunk-ID key's chunk is never an answer to HasChunks, and where no chunk-ID key
    goes with two data keys a snapshot's chunks open under its own;
  * `ListedInv`: a listed snapshot's manifest opens under its client's keys,
    decodes to the files of the walk, and names only chunks that are held;
  * of a restore: `StreamInv` (the channel's bound), `PlaceInv` (where it is in
    the manifest), `OutInv` (the target holds the files before this one whole, and
    this one as far as its chunks were read) and `TallyInv`.

  The manifest comes back as it was written, `decode(encode(files)) = files`,
  by induction over the entries: the reader stands at the field the writer had
  reached. Assumed of the constants: `CodecAssumption`,
  `OrdersAssumption` and `RestoreAssumption`; nothing of the key pairs. Rot is in the specification and
  covered: a rotten blob no longer opens.

  `RestoreRunsOut` is the safety half of `RestoreEnds` and `StreamTaskEnds`: every
  step of the restore or of the task that serves it goes down in the lexicographic
  order of stage, files left, place in the file and chunks left, or leaves the
  restore alone and takes from what the task has to fetch and deliver; and until
  both have ended one of them can go on. The invariant added for it (`TaskInv`)
  says that only a running task holds a chunk and that the receiver is dropped
  when the restore stops reading, so a task never waits for a reader that is gone.
* Bench: `OnlyWholeFilesCount`, for any number of candidates and any channel
  depth. The invariant says of each running chunker that its chunks, its buffer
  and its channel, in this order, hold exactly the blocks the reader has handed to
  it (`Running`); with the source at its end and the channel empty that is what a
  chunker alone would cut, and a reader that failed has set `err` before any
  chunker can see the end. `RecommendedIsBest` rests on the same invariant: costs
  are sums of naturals (folds over finite sets, by induction on cardinality), so
  a least one exists and CHOOSE finds it, and in an initial backup the escalating
  policy counts every chunk as zstd3 does, so it never wins.

  `FiguresAddUp` takes each figure of a report in turn. Bytes: the chunks of a file
  are as long as the file together, and summing over the concatenation of the files
  is summing the sums. Percentiles: sorting gives the chunk at rank r exactly r
  chunks that come no later, hence none of them longer, and fewer than r strictly
  shorter ones, so that no shorter length would have done. Classes: each chunk of the
  recommended policy's row is in the class of one file, and a sum over disjoint sets
  is the sum of their sums. Increments: fewer chunks, none paid for
  dearer than at first, or a percentage of all of them, and rounding never exceeds
  the whole. Grid: the times of one tier are an interval, and an interval meets as
  many epoch-aligned cells as it has cell lengths, rounded up, or one more.

  `CommandRunsOut` is the safety half of `BenchEnds`: each step goes down in the
  lexicographic order of stage, files left, whether one is open, and blocks left to
  hand over, receive and join; and until the command ends somebody can take one.
  A reader that waits at a full channel waits for a chunker that can receive, since
  the channel's depth is not zero, and a chunker that waits at an empty one waits
  for a reader that can read, hand over or close.

  Assumed of the constants: `CommandAssumption` (a command line and trees are what
  the argument parser and the walk can produce, and every piece of a file has
  lengths), `BlockAssumption` (a chunk is as long as its blocks), `LimitsAssumption`,
  `DepthAssumption`, `ReportAssumption` (the tiers start at age zero and are in
  order), `HorizonAssumption`.

Induction over data goes through two lemmas, `NatInd` over the numbers and `SetInd`
over the subsets of a finite set, that take the property as a set; the library's
induction theorems, which take it as an operator, cannot be used with the provers
at hand. What a recursive function computes is shown by exhibiting the function and
checking it against the defining equation.

Only model-checked: the liveness properties (`RestoreEnds`, `StreamTaskEnds`,
`BenchEnds` and the three of ClientService), because the prover knows neither
fairness nor ENABLED. For the first three the well-founded order and the absence of
circular waits are proved (`RestoreRunsOut`, `CommandRunsOut`); what is left to TLC
is that a process that can go on is scheduled. The readiness of a process
(`RestoreReady`, `ServeReady`, the disjuncts of `NotStuck`) is written out as a
predicate of the state, the guard of its actions.

## What is not modelled

* Where FastCDC cuts, BLAKE3, Argon2, XChaCha20-Poly1305 and zstd: numerical code.
  Their results are model values with the laws the rest relies on.
* Byte layouts of manifests, index records, keyfiles and certificates, and the
  rejection of malformed ones. A manifest reaches `decode` only after it has been
  authenticated.
* The measured throughputs of policy_bench.rs, the harmonic mean they are combined
  with and the projection of sizes onto bandwidths: floating-point figures of one
  machine that decide nothing.
* `status`, `snapshots`, progress rendering, tables and JSON: they read and print.
* Generated protocol code, and the event-log texts of the service.
* Source files that change while they are read: the entry then describes what was
  chunked, which is what `end_file` records.

## Plan

1. Proofs about the control of ClientService: safety facts its liveness properties
   rest on (a delay is drawn only within its bounds, a Stop once heard is not
   forgotten).
2. Two restores at once, and a restore of a client that has imported its keys.
