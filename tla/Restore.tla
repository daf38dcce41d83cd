------------------------------ MODULE Restore ------------------------------
(***************************************************************************)
(* crates/busyncr-client/src/restore.rs, and the task that serves its      *)
(* GetChunks streams (service.rs): a blocking task fetches one blob after  *)
(* the other and blocks on a bounded channel, while the client reads,      *)
(* verifies and writes, and chunks go away under both.                     *)
(***************************************************************************)
EXTENDS DaemonRpc

CONSTANTS
    CHANNEL,    \* capacity of the stream's channel
    PLATFORM,   \* the build: "unix" or "windows"
    Unsafe,     \* manifest paths that sanitize_path refuses on this platform
    Targets,    \* what the target directory may hold: path -> file
    Restorable  \* bound: the snapshots the restore is tried on

ASSUME RestoreAssumption == CHANNEL \in Nat \ {0} /\ Restorable \subseteq SnapshotId

VARIABLES
    rst,        \* the restore
    out,        \* the target directory
    stream      \* its GetChunks stream

NoRestoreReport == [files |-> 0, bytes |-> 0, chunks_fetched |-> 0]
NoFile == [data |-> <<>>, meta |-> <<>>]
NoStream == [todo |-> <<>>, held |-> <<>>, chan |-> <<>>, running |-> FALSE, open |-> FALSE]

RestoreInit ==
    /\ rst \in [pc : {"idle"}, sid : Restorable, keys : KeyPair, files : {<<>>}, f : {1}, i : {1},
                written : {0}, report : {NoRestoreReport}, tick : {NoRestoreReport}]
    /\ out \in Targets
    /\ stream = NoStream

Ended == rst.pc \in {"done", "failed"}

RestoreFails ==
    /\ rst' = [rst EXCEPT !.pc = "failed"]
    /\ stream' = [stream EXCEPT !.open = FALSE]
    /\ UNCHANGED out

start ==
    /\ rst.pc = "idle"
    /\ IF out # <<>> THEN RestoreFails
       ELSE rst' = [rst EXCEPT !.pc = "manifest"] /\ UNCHANGED <<out, stream>>

get_manifest ==
    /\ rst.pc = "manifest"
    /\ IF rst.sid \in DOMAIN manifests /\ Opens(rst.keys.data, rst.sid, manifests[rst.sid])
       THEN /\ rst' = [rst EXCEPT !.pc = "file", !.files = decode(manifests[rst.sid].msg)]
            /\ UNCHANGED <<out, stream>>
       ELSE RestoreFails

File == rst.files[rst.f]
Place(path, file) ==
    out' = [x \in DOMAIN out \cup {path} |-> IF x = path THEN file ELSE out[x]]

\* Create or truncate the file and ask for its chunks, if it has any.
open_file ==
    /\ rst.pc = "file" /\ rst.f <= Len(rst.files)
    /\ IF File.path \in Unsafe THEN RestoreFails
       ELSE /\ Place(File.path, NoFile)
            /\ rst' = [rst EXCEPT !.i = 1, !.written = 0,
                         !.pc = IF File.chunks = <<>> THEN "finish" ELSE "reading"]
            /\ stream' = IF File.chunks = <<>> THEN stream
                         ELSE [todo |-> File.chunks, held |-> <<>>, chan |-> <<>>,
                               running |-> TRUE, open |-> TRUE]

\* What arrives is the chunk that is due, opens, decodes and hashes to its ID.
Verified(id, item) ==
    /\ item.status = "Ok" /\ item.id = id
    /\ Opens(rst.keys.data, id, item.data) /\ Decodes(item.data.msg)
    /\ keyed(rst.keys.id, decode_chunk(item.data.msg)) = id

read_chunk ==
    LET item == Head(stream.chan)
        c    == decode_chunk(item.data.msg)
        path == File.path
        report == [rst.report EXCEPT !.bytes = @ + Sizes[c].raw, !.chunks_fetched = @ + 1]
    IN  /\ rst.pc = "reading" /\ rst.i <= Len(File.chunks) /\ stream.chan # <<>>
        /\ IF ~Verified(File.chunks[rst.i], item) THEN RestoreFails
           ELSE /\ Place(path, [out[path] EXCEPT !.data = Append(@, c)])
                /\ rst' = [rst EXCEPT !.i = @ + 1, !.written = @ + Sizes[c].raw,
                             !.report = report, !.tick = report]
                /\ stream' = [stream EXCEPT !.chan = Tail(@)]

\* The stream must end after the last chunk and no earlier.
stream_end ==
    LET all == rst.i > Len(File.chunks) IN
    /\ rst.pc = "reading"
    /\ IF all THEN stream.chan # <<>> \/ ~stream.running
              ELSE stream.chan = <<>> /\ ~stream.running
    /\ IF all /\ stream.chan = <<>>
       THEN rst' = [rst EXCEPT !.pc = "finish"] /\ UNCHANGED <<out, stream>>
       ELSE RestoreFails

\* Windows restores the READONLY attribute, bit 0, and no other.
set_mode(mode) == IF PLATFORM = "unix" THEN mode ELSE mode % 2

\* Sync, set the time and the mode, compare the size.
finish_file ==
    LET report == [rst.report EXCEPT !.files = @ + 1] IN
    /\ rst.pc = "finish"
    /\ Place(File.path, [out[File.path] EXCEPT
                !.meta = <<from_unix_time(File.mtime_secs, File.mtime_nanos), set_mode(File.mode)>>])
    /\ rst' = IF rst.written # File.size THEN [rst EXCEPT !.pc = "failed"]
              ELSE [rst EXCEPT !.pc = "file", !.f = @ + 1, !.report = report, !.tick = report]
    /\ UNCHANGED stream

restored ==
    /\ rst.pc = "file" /\ rst.f > Len(rst.files)
    /\ rst' = [rst EXCEPT !.pc = "done", !.tick = rst.report]
    /\ UNCHANGED <<out, stream>>

RestoreStep == \/ start \/ get_manifest \/ open_file \/ read_chunk \/ stream_end
               \/ finish_file \/ restored

\* The disk, the connection or the process fails.
restore_interrupted == rst.pc # "idle" /\ ~Ended /\ RestoreFails

-----------------------------------------------------------------------------
(* The serving task *)

fetch ==
    /\ stream.running /\ stream.held = <<>>
    /\ stream' = [stream EXCEPT !.held = <<get_chunk(Head(stream.todo))>>, !.todo = Tail(@)]

\* MUTANT: a reader that hung up is not noticed.
Delivers_Blindly == Len(stream.chan) < CHANNEL

\* MUTANT: one slot is kept free.
Delivers_OneShort == Len(stream.chan) + 1 < CHANNEL \/ ~stream.open

Delivers == Len(stream.chan) < CHANNEL \/ ~stream.open

\* blocking_send: waits for room, and fails once the receiver is gone.
deliver ==
    /\ stream.held # <<>> /\ Delivers
    /\ stream' = [stream EXCEPT !.held = <<>>,
                    !.chan = IF stream.open THEN Append(@, stream.held[1]) ELSE @,
                    !.running = stream.open /\ stream.todo # <<>> /\ stream.held[1].status = "Ok"]

ServeStep == (fetch \/ deliver) /\ UNCHANGED <<rst, out>>
=============================================================================
