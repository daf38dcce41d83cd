SPECIFICATION Spec
CONSTANTS
    ChunkId = {c1, c2}
    Blob <- MCBlob
    BlobLen <- MCBlobLen
    Rot = rot
    SnapshotId = {1, 2}
    RefLists <- MCTwoRefs
    Thread = {t1}
    Process = {"serve", "gc"}
    Ops <- Deployed
    Grace = 2
    MaxTime = 3
    RenameMayFail = FALSE
    Damage = FALSE
    None = None
SYMMETRY ChunkSymmetry
INVARIANTS
    TypeOK
    RefcountExact
    SnapshotsRestorable
    IndexedHasBlob
    GcMissesNothing
    NoFalseAlarm
PROPERTIES
    FreshChunksSurviveGrace
    ImplementsVault
