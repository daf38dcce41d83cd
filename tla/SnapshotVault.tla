---------------------------- MODULE SnapshotVault ----------------------------
(***************************************************************************)
(* What the chunk store is for, without its mechanism: no refcounts, no    *)
(* grace marks, no files, no transactions.  A vault holds contents under   *)
(* chunk IDs and snapshots that refer to them.  Content is written once    *)
(* and never changes while it is held; a snapshot is accepted only when    *)
(* all it refers to is held; only content no snapshot refers to is given   *)
(* up.  ChunkStore implements this (ChunkStoreRefinement).                 *)
(***************************************************************************)
EXTENDS Sequences

CONSTANTS ChunkId, Blob, SnapshotId, RefLists

VARIABLES
    content,    \* held chunk -> its bytes
    live        \* accepted snapshot -> its reference list

vars == <<content, live>>

Init == content = <<>> /\ live = <<>>

Referenced == {c \in ChunkId :
                 \E s \in DOMAIN live : \E i \in DOMAIN live[s] : live[s][i] = c}

Store(c, b) ==
    /\ c \notin DOMAIN content
    /\ content' = [x \in DOMAIN content \cup {c} |-> IF x = c THEN b ELSE content[x]]
    /\ UNCHANGED live

Accept(s, refs) ==
    /\ s \notin DOMAIN live
    /\ \A i \in DOMAIN refs : refs[i] \in DOMAIN content
    /\ live' = [x \in DOMAIN live \cup {s} |-> IF x = s THEN refs ELSE live[x]]
    /\ UNCHANGED content

Retire(s) ==
    /\ s \in DOMAIN live
    /\ live' = [x \in DOMAIN live \ {s} |-> live[x]]
    /\ UNCHANGED content

Reclaim(C) ==
    /\ C \cap Referenced = {}
    /\ content' = [x \in DOMAIN content \ C |-> content[x]]
    /\ UNCHANGED live

Next ==
    \/ \E c \in ChunkId, b \in Blob : Store(c, b)
    \/ \E s \in SnapshotId, refs \in RefLists : Accept(s, refs)
    \/ \E s \in SnapshotId : Retire(s)
    \/ \E C \in SUBSET ChunkId : Reclaim(C)

Spec == Init /\ [][Next]_vars
=============================================================================
