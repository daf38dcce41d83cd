----------------------------- MODULE DaemonRpc -----------------------------
(***************************************************************************)
(* The daemon as its clients see it: the store RPCs of                     *)
(* crates/busyncr-daemon/src/service.rs, over the vault that ChunkStore    *)
(* implements, and what else happens to the store meanwhile.               *)
(***************************************************************************)
EXTENDS Codec, FiniteSets

CONSTANTS
    SnapshotId,
    KeyPair,    \* what clients use: [data |-> data key, id |-> chunk-ID key]; an import
                \* cut short and an enrolment can put a new key beside an old one
    DAMAGE      \* bound: how many blobs rot

VARIABLES
    content,    \* held chunk -> sealed blob
    live,       \* accepted snapshot -> its chunk references
    manifests,  \* accepted snapshot -> sealed manifest
    rotten      \* held chunks whose blob no longer matches its checksum

rpcVars == <<content, live, manifests, rotten>>

ChunkIds == {keyed(p.id, c) : p \in KeyPair, c \in Content}

Vault == INSTANCE SnapshotVault WITH
    ChunkId <- ChunkIds, Blob <- {}, RefLists <- {}

RpcInit == content = <<>> /\ live = <<>> /\ manifests = <<>> /\ rotten = {}

list_snapshots == DOMAIN live

has_chunk(id) == id \in DOMAIN content

\* One blob of an UploadChunks stream: a chunk already held stays as it is.
put_chunk(id, blob) ==
    /\ IF id \in DOMAIN content THEN UNCHANGED <<content, live>> ELSE Vault!Store(id, blob)
    /\ UNCHANGED <<manifests, rotten>>

\* MUTANT: what the manifest refers to is not looked up.
put_manifest_Unchecked(s, sealed, refs) ==
    /\ s \notin DOMAIN live
    /\ live' = [x \in DOMAIN live \cup {s} |-> IF x = s THEN refs ELSE live[x]]
    /\ manifests' = [x \in DOMAIN live \cup {s} |-> IF x = s THEN sealed ELSE manifests[x]]
    /\ UNCHANGED <<content, rotten>>

put_manifest(s, sealed, refs) ==
    /\ Vault!Accept(s, refs)
    /\ manifests' = [x \in DOMAIN manifests \cup {s} |->
                       IF x = s THEN sealed ELSE manifests[x]]
    /\ UNCHANGED rotten

Refused(s, refs) ==
    s \in DOMAIN live \/ \E i \in DOMAIN refs : refs[i] \notin DOMAIN content

\* get_chunk verifies the blob before it hands it out.
get_chunk(id) ==
    CASE id \notin DOMAIN content -> [status |-> "NotFound"]
      [] id \in rotten            -> [status |-> "DataLoss"]
      [] OTHER                    -> [status |-> "Ok", id |-> id, data |-> content[id]]

-----------------------------------------------------------------------------
(* Meanwhile: gc, manual and post-backup prune, and failing disks *)

\* MUTANT: the damage of a chunk outlives it.
gc_KeepsRot == \E id \in DOMAIN content : Vault!Reclaim({id}) /\ UNCHANGED <<manifests, rotten>>

gc == \E id \in DOMAIN content :
    /\ Vault!Reclaim({id})
    /\ rotten' = rotten \ {id}
    /\ UNCHANGED manifests

prune == \E s \in DOMAIN live :
    /\ Vault!Retire(s)
    /\ manifests' = [x \in DOMAIN manifests \ {s} |-> manifests[x]]
    /\ UNCHANGED rotten

Rot == \E id \in DOMAIN content \ rotten :
    /\ Cardinality(rotten) < DAMAGE
    /\ rotten' = rotten \cup {id}
    /\ UNCHANGED <<content, live, manifests>>

RpcEnv == gc \/ prune \/ Rot
=============================================================================
