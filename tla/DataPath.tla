------------------------------ MODULE DataPath ------------------------------
(***************************************************************************)
(* Backups and a restore against one daemon, with gc, prune and rot in     *)
(* between: what goes in comes out, or an error does.                      *)
(***************************************************************************)
EXTENDS Backup, Restore

restoreVars == <<rst, out, stream>>
vars == <<rpcVars, sess, restoreVars>>

Init == RpcInit /\ BackupInit /\ RestoreInit

BackupStep(s) == RunStep(s) /\ UNCHANGED restoreVars
Interrupted(s) == interrupted(s) /\ UNCHANGED restoreVars
RestoreSide(step) == step /\ UNCHANGED <<rpcVars, sess>>

Next ==
    \/ \E s \in SnapshotId : BackupStep(s) \/ Interrupted(s)
    \/ RestoreSide(RestoreStep)
    \/ RestoreSide(restore_interrupted)
    \/ RestoreSide(ServeStep)
    \/ RpcEnv /\ UNCHANGED <<sess, restoreVars>>

\* The daemon answers, and what the restore or the serving task can do it
\* goes on to do: sequential programs that nothing else holds back.
Fairness == WF_vars(RestoreSide(RestoreStep)) /\ WF_vars(RestoreSide(ServeStep))

Spec == Init /\ [][Next]_vars /\ Fairness

-----------------------------------------------------------------------------
(* What a request asks to be kept, said without the walk *)
FilesOf(roots) ==
    UNION {{<<n, e>> : e \in {k \in DOMAIN roots[n].entries : roots[n].entries[k].kind = "file"}} :
             n \in DOMAIN roots}

Source(roots) ==
    {LET e == roots[x[1]].entries[x[2]]
     IN  [path |-> <<roots[x[1]].name, e.name>>, data |-> e.chunks,
          meta |-> <<e.mtime, e.mode>>] : x \in FilesOf(roots)}

\* The runs so far that name chunks as this one does.
SameNames(s) == {t \in SnapshotId : sess[t].pc # "idle" /\ sess[t].keys.id = sess[s].keys.id}

\* The snapshot is whole, and its chunks open to whoever first sent them.
Readable(s) ==
    /\ s \in DOMAIN manifests /\ Opens(sess[s].keys.data, s, manifests[s])
    /\ \A i \in DOMAIN live[s] : LET id == live[s][i] IN
         /\ id \in DOMAIN content /\ Decodes(content[id].msg)
         /\ \E t \in SameNames(s) : Opens(sess[t].keys.data, id, content[id])

Contents(s) ==
    LET files == decode(manifests[s].msg)
    IN  {[path |-> files[n].path,
          data |-> [k \in DOMAIN files[n].chunks |-> decode_chunk(content[files[n].chunks[k]].msg)],
          meta |-> <<from_unix_time(files[n].mtime_secs, files[n].mtime_nanos),
                     files[n].mode>>] : n \in DOMAIN files}

IsPrefixOf(p, q) == Len(p) <= Len(q) /\ p = SubSeq(q, 1, Len(p))

Bytes(files) ==
    LET upto[n \in 0 .. Len(files)] == IF n = 0 THEN 0 ELSE upto[n - 1] + files[n].size
    IN  upto[Len(files)]

-----------------------------------------------------------------------------
(* Each variable keeps to its shape: what is held is held under a chunk ID,  *)
(* a snapshot is listed exactly when it has a manifest, rot affects what is  *)
(* held, and the channel of a stream never exceeds its capacity.             *)
TypeOK ==
    /\ DOMAIN content \subseteq ChunkIds /\ rotten \subseteq DOMAIN content
    /\ DOMAIN live = DOMAIN manifests /\ DOMAIN live \subseteq SnapshotId
    /\ \A s \in SnapshotId : /\ Len(sess[s].pending) <= BATCH_MAX_CHUNKS
                             /\ sess[s].missing \subseteq ChunkIds
    /\ Len(stream.chan) <= CHANNEL /\ Len(stream.held) <= 1

(* Whatever runs side by side, however they dedup against each other and     *)
(* whatever gc and prune take away, every snapshot the daemon lists is       *)
(* complete: its manifest opens under its client's data key, every chunk it  *)
(* names is held and is the one the ID names, and put together they are the  *)
(* files that the run was asked to keep.  A chunk opens under its own ID and *)
(* the data key of a run with the same chunk-ID key: the client's own data   *)
(* key, unless a run before used that chunk-ID key beside another            *)
(* (backup.rs run_backup).                                                   *)
ListedIsReadable ==
    \A s \in DOMAIN live : Readable(s) /\ Contents(s) = Source(sess[s].roots)

\* A file with as much of its mode as the restoring build sets.
AsRestored(x) == [x EXCEPT !.meta = <<x.meta[1], set_mode(x.meta[2])>>]

(* A restore writes the files of the snapshot and nothing else: a finished   *)
(* one has all of them with their times and what the build sets of their     *)
(* modes, one that stopped has only files of the snapshot, each cut off at a *)
(* chunk, and one that found its target in use has left it alone             *)
(* (restore.rs: "nothing is silently written wrong").                        *)
RestoredIsExact ==
    LET source  == {AsRestored(x) : x \in Source(sess[rst.sid].roots)}
        written == {[path |-> p, data |-> out[p].data, meta |-> out[p].meta] : p \in DOMAIN out}
    IN  /\ rst.pc = "done" => written = source
        /\ rst.files # <<>> => \A w \in written : \E x \in source :
              x.path = w.path /\ IsPrefixOf(w.data, x.data)
        /\ rst.files = <<>> => out \in Targets

(* The ledger of a run that reached its manifest adds up: each distinct      *)
(* chunk was either shipped or skipped, only shipped ones were compressed,   *)
(* the bytes shipped are the compressed bytes plus a codec byte and the seal *)
(* of each, and no retry at the higher level was made in an initial run      *)
(* (BackupReport, PolicyCounters).                                           *)
LedgerBalances ==
    \A s \in SnapshotId : sess[s].pc \in {"manifest", "stored", "done"} =>
        LET r == sess[s]
            l == r.report
            refs == chunk_refs(r.files)
        IN  /\ l.chunks_total = Len(refs)
            /\ l.chunks_unique = Cardinality({refs[i] : i \in DOMAIN refs})
            /\ l.chunks_unique = l.chunks_uploaded + l.chunks_deduped
            /\ l.chunks_uploaded = Total(l.compression)
            /\ l.upload_bytes = l.compression.bytes_out + l.chunks_uploaded * (1 + BLOB_OVERHEAD)
            /\ l.source_bytes = Bytes(r.files) /\ l.files = Len(r.files)
            /\ l.compression.escalation_attempts > 0 => r.phase = "Incremental"

(* The last progress line of a run that succeeded shows what it returned:    *)
(* the tick marked final is not followed by further transfer (backup.rs, all *)
(* but the two fields filled in for the report alone; restore.rs, all).      *)
FinalTickMatches ==
    /\ \A s \in SnapshotId : sess[s].pc = "done" =>
         sess[s].tick = [final |-> TRUE, report |->
             [sess[s].report EXCEPT !.manifest_bytes = 0, !.compression = NoCounters]]
    /\ rst.pc = "done" => /\ rst.tick = rst.report
                          /\ rst.report.files = Len(rst.files)
                          /\ rst.report.bytes = Bytes(rst.files)

(* A restore that starts comes to an end, with its files or an error: it    *)
(* never waits on the channel or on the end of the stream for something that *)
(* does not come, whatever goes away under it.                               *)
RestoreEnds == (rst.pc # "idle") ~> Ended

(* The task behind a GetChunks stream stops: at the last chunk, at the first *)
(* error, or when the client has hung up, even with the channel full         *)
(* (service.rs get_chunks).                                                  *)
StreamTaskEnds == stream.running ~> ~stream.running
=============================================================================
