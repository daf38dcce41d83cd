------------------------ MODULE ChunkStoreRefinement ------------------------
(***************************************************************************)
(* The chunk store implements SnapshotVault: an indexed chunk's content is *)
(* whatever its object file holds, and the live snapshots are the rows of  *)
(* SNAPSHOT_REFS.  The mapping reads the files, so a lost or overwritten   *)
(* file of an indexed chunk is a step the vault does not have.             *)
(***************************************************************************)
EXTENDS ChunkStore

Vault == INSTANCE SnapshotVault WITH
    content <- [c \in DOMAIN chunks |->
                  IF c \in DOMAIN objects THEN objects[c].data ELSE Rot],
    live    <- snapshotRefs

\* Every step of the store is a step of the vault or leaves it unchanged: put,
\* prune and gc, interleaved and crashing anywhere, together behave like the
\* atomic store of immutable contents that the protocol assumes.
ImplementsVault == Vault!Spec
=============================================================================
