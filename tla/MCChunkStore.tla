---------------------------- MODULE MCChunkStore ----------------------------
(* Small instances of ChunkStore. *)
EXTENDS ChunkStoreRefinement, TLC

\* Two encodings of a chunk of different length: a re-upload is encrypted
\* afresh and may have been compressed with another codec.
MCBlob == {"zstd", "raw"}
MCBlobLen == [b \in MCBlob |-> IF b = "zstd" THEN 1 ELSE 2]

\* Every reference list of one or two chunks, the same chunk twice included.
MCRefLists == {<<c>> : c \in ChunkId} \cup (ChunkId \X ChunkId)
MCTwoRefs == ChunkId \X ChunkId

\* The commands as they are deployed: the daemon uploads, reads and prunes,
\* and only the gc command, which has the store to itself, sweeps.
Deployed == [serve |-> {"put_chunk", "put_snapshot", "delete_snapshot", "get_chunk"},
             gc    |-> {"gc"}]

\* One program that calls every operation of the store from several threads.
Embedded == [host |-> OpName]

ChunkSymmetry == Permutations(ChunkId)
=============================================================================
