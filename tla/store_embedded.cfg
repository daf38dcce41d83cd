SPECIFICATION Spec
CONSTANTS
    ChunkId = {c1}
    Blob <- MCBlob
    BlobLen <- MCBlobLen
    Rot = rot
    SnapshotId = {1}
    RefLists <- MCRefLists
    Thread = {t1, t2}
    Process = {"host"}
    Ops <- Embedded
    Grace = 1
    MaxTime = 1
    RenameMayFail = TRUE
    Damage = TRUE
    None = None
INVARIANTS
    CorruptionNeverSilent
