-------------------------- MODULE ChunkStoreProofs --------------------------
(***************************************************************************)
(* Theorems about ChunkStore for every value of its constants.             *)
(***************************************************************************)
EXTENDS ChunkStoreRefinement, FiniteSetTheorems, TLAPS

\* Occurrence tokens of one list form a finite set, so their number is a Nat.
LEMMA OccurrencesFinite ==
    ASSUME NEW s, NEW refs \in RefLists, NEW c
    PROVE  /\ IsFiniteSet(Occurrences(s, refs, c))
           /\ Cardinality(Occurrences(s, refs, c)) \in Nat
<1>1. refs \in Seq(ChunkId)
  BY StoreAssumption
<1>2. /\ DOMAIN refs = 1 .. Len(refs)
      /\ Len(refs) \in Nat
  BY <1>1
<1>3. IsFiniteSet(1 .. Len(refs))
  BY <1>2, FS_Interval
<1> DEFINE J == {j \in DOMAIN refs : refs[j] = c}
<1>4. IsFiniteSet(J)
  BY <1>2, <1>3, FS_Subset
<1> DEFINE F == [j \in J |-> <<s, j>>]
<1>5. F \in Surjection(J, Occurrences(s, refs, c))
  BY DEF Surjection, Occurrences
<1>6. IsFiniteSet(Occurrences(s, refs, c))
  BY <1>4, <1>5, FS_Surjection
<1>7. QED
  BY <1>6, FS_CardinalityType

-----------------------------------------------------------------------------
\* The state stays within its types: every step of every operation.
THEOREM TypeCorrect == Spec => []TypeOK
<1>1. Init => TypeOK
  BY StoreAssumption DEF Init, TypeOK, Time
<1>2. TypeOK /\ [Next]_vars => TypeOK'
  <2> SUFFICES ASSUME TypeOK, [Next]_vars
               PROVE  TypeOK'
    OBVIOUS
  <2> USE StoreAssumption DEF TypeOK
  <2>1. ASSUME NEW p \in Process, open(p) PROVE TypeOK'
    BY <2>1 DEF open
  <2>2. CASE close
    BY <2>2 DEF close
  <2>3. CASE crash
    BY <2>3 DEF crash
  <2>4. ASSUME NEW id \in ChunkId, NEW data \in Blob, put_chunk_begin(id, data)
        PROVE  TypeOK'
    BY <2>4 DEF put_chunk_begin, PutTxn
  <2>5. CASE write_object
    <3>1. txn \in PutTxn /\ txn' \in PutTxn
      BY <2>5 DEF write_object, PutTxn
    <3>2. [header |-> txn.data, data |-> txn.data, len |-> BlobLen[txn.data]] \in File
      BY <3>1 DEF PutTxn, File
    <3>3. objects' \in [DOMAIN objects' -> File] /\ DOMAIN objects' \subseteq ChunkId
      BY <2>5, <3>1, <3>2 DEF write_object, PutTxn, Insert
    <3>4. QED
      BY <2>5, <3>1, <3>3 DEF write_object
  <2>6. CASE put_chunk_commit
    BY <2>6 DEF put_chunk_commit, PutTxn, IndexEntry, Insert
  <2>7. CASE put_chunk_fail
    BY <2>7 DEF put_chunk_fail
  <2>8. ASSUME NEW s \in SnapshotId, NEW refs \in RefLists, put_snapshot(s, refs)
        PROVE  TypeOK'
    <3>1. \A c \in DOMAIN chunks : RefcountWith(s, refs, c) \in Nat
      BY OccurrencesFinite DEF RefcountWith, IndexEntry
    <3>2. chunks' \in [DOMAIN chunks' -> IndexEntry] /\ DOMAIN chunks' = DOMAIN chunks
      BY <2>8, <3>1 DEF put_snapshot, IndexEntry
    <3>3. QED
      BY <2>8, <3>2 DEF put_snapshot, Insert
  <2>9. ASSUME NEW s \in SnapshotId, delete_snapshot(s) PROVE TypeOK'
    <3>1. s \in DOMAIN snapshotRefs /\ snapshotRefs[s] \in RefLists
      BY <2>9 DEF delete_snapshot
    <3>2. \A c \in DOMAIN chunks : RefcountWithout(s, c) \in Nat
      BY <3>1, OccurrencesFinite DEF RefcountWithout, IndexEntry
    <3>3. chunks' \in [DOMAIN chunks' -> IndexEntry] /\ DOMAIN chunks' = DOMAIN chunks
      BY <2>9, <3>2 DEF delete_snapshot, IndexEntry
    <3>4. QED
      BY <2>9, <3>3 DEF delete_snapshot, Remove
  <2>10. ASSUME NEW t \in Thread, NEW id \in ChunkId, delete_chunk(t, id)
         PROVE  TypeOK'
    BY <2>10 DEF delete_chunk, Remove
  <2>11. ASSUME NEW t \in Thread, gc(t) PROVE TypeOK'
    BY <2>11 DEF gc, Remove, Expired, ZeroRef, Unmarked
  <2>12. ASSUME NEW t \in Thread, NEW id \in ChunkId, unlink(t, id)
         PROVE  TypeOK'
    BY <2>12 DEF unlink, Remove
  <2>13. ASSUME NEW t \in Thread, unlink_fail(t) PROVE TypeOK'
    BY <2>13 DEF unlink_fail
  <2>14. ASSUME NEW t \in Thread, NEW id \in ChunkId, chunk_entry(t, id)
         PROVE  TypeOK'
    BY <2>14 DEF chunk_entry, Read, IndexEntry
  <2>15. ASSUME NEW t \in Thread, get_chunk(t) PROVE TypeOK'
    BY <2>15 DEF get_chunk, Verify, Outcome, File, Read
  <2>16. ASSUME NEW id \in ChunkId, damage(id) PROVE TypeOK'
    <3>1. CASE objects' = Remove(objects, {id})
      BY <2>16, <3>1 DEF damage, Remove
    <3>2. ASSUME NEW n \in {0, objects[id].len},
                 objects' = [objects EXCEPT ![id].data = Rot, ![id].len = n]
          PROVE  TypeOK'
      <4>1. objects[id] \in File /\ n \in Nat
        BY <2>16, <3>2 DEF damage, File
      <4>2. [[objects[id] EXCEPT !.data = Rot] EXCEPT !.len = n] \in File
        BY <4>1 DEF File
      <4>3. objects' \in [DOMAIN objects' -> File] /\ DOMAIN objects' = DOMAIN objects
        BY <3>2, <4>2
      <4>4. QED
        BY <2>16, <4>3 DEF damage
    <3>3. QED
      BY <2>16, <3>1, <3>2 DEF damage
  <2>17. CASE tick
    BY <2>17 DEF tick, Time
  <2>18. CASE UNCHANGED vars
    BY <2>18 DEF vars
  <2>19. QED
    BY <2>1, <2>2, <2>3, <2>4, <2>5, <2>6, <2>7, <2>8, <2>9, <2>10, <2>11,
       <2>12, <2>13, <2>14, <2>15, <2>16, <2>17, <2>18 DEF Next
<1>3. QED
  BY <1>1, <1>2, PTL DEF Spec

-----------------------------------------------------------------------------
(***************************************************************************)
(* The refcount invariant.  By itself RefcountExact is not inductive: gc   *)
(* removes chunks whose refcount is zero, and only when such a chunk has   *)
(* no references may its row go; a later put_chunk then restarts the count *)
(* at zero.  So the invariant also says that an unindexed chunk is         *)
(* referenced by nothing, and that the chunk of an open put_chunk is not   *)
(* indexed.                                                                *)
(***************************************************************************)
RefsCounted ==
    \A c \in ChunkId :
        /\ IsFiniteSet(HeldRefs(c))
        /\ c \in DOMAIN chunks => chunks[c].refcount = Cardinality(HeldRefs(c))
        /\ c \notin DOMAIN chunks => HeldRefs(c) = {}

PutIsFresh == txn # None => txn.id \notin DOMAIN chunks

RefInv == TypeOK /\ RefsCounted /\ PutIsFresh

\* A step that leaves the snapshots and the index alone leaves the counts alone.
LEMMA CountsUnchanged ==
    ASSUME RefsCounted, UNCHANGED <<chunks, snapshotRefs>>
    PROVE  RefsCounted'
BY DEF RefsCounted, HeldRefs

\* Accepting a snapshot adds exactly its own occurrence tokens, which are new.
LEMMA AcceptAddsTokens ==
    ASSUME NEW s, NEW refs, NEW c,
           s \notin DOMAIN snapshotRefs,
           snapshotRefs' = Insert(snapshotRefs, s, refs)
    PROVE  /\ HeldRefs(c)' = HeldRefs(c) \cup Occurrences(s, refs, c)
           /\ HeldRefs(c) \cap Occurrences(s, refs, c) = {}
<1>1. /\ DOMAIN snapshotRefs' = DOMAIN snapshotRefs \cup {s}
      /\ snapshotRefs'[s] = refs
      /\ \A r \in DOMAIN snapshotRefs : snapshotRefs'[r] = snapshotRefs[r]
  BY DEF Insert
<1>2. \A x : x \in HeldRefs(c)' <=> x \in HeldRefs(c) \cup Occurrences(s, refs, c)
  BY <1>1 DEF HeldRefs, Occurrences
<1>3. HeldRefs(c) \cap Occurrences(s, refs, c) = {}
  BY DEF HeldRefs, Occurrences
<1>4. QED
  BY <1>2, <1>3

\* Deleting a snapshot removes exactly its own occurrence tokens.
LEMMA DeleteRemovesTokens ==
    ASSUME NEW s, NEW c,
           s \in DOMAIN snapshotRefs,
           snapshotRefs' = Remove(snapshotRefs, {s})
    PROVE  /\ HeldRefs(c)' = HeldRefs(c) \ Occurrences(s, snapshotRefs[s], c)
           /\ Occurrences(s, snapshotRefs[s], c) \subseteq HeldRefs(c)
<1>1. /\ DOMAIN snapshotRefs' = DOMAIN snapshotRefs \ {s}
      /\ \A r \in DOMAIN snapshotRefs \ {s} : snapshotRefs'[r] = snapshotRefs[r]
  BY DEF Remove
<1>2. \A x : x \in HeldRefs(c)' <=> x \in HeldRefs(c) \ Occurrences(s, snapshotRefs[s], c)
  BY <1>1 DEF HeldRefs, Occurrences
<1>3. Occurrences(s, snapshotRefs[s], c) \subseteq HeldRefs(c)
  BY DEF HeldRefs
<1>4. QED
  BY <1>2, <1>3

LEMMA PutSnapshotCounts ==
    ASSUME RefInv, NEW s \in SnapshotId, NEW refs \in RefLists, put_snapshot(s, refs)
    PROVE  RefsCounted'
<1> SUFFICES ASSUME NEW c \in ChunkId
             PROVE  /\ IsFiniteSet(HeldRefs(c)')
                    /\ c \in DOMAIN chunks' =>
                          chunks'[c].refcount = Cardinality(HeldRefs(c)')
                    /\ c \notin DOMAIN chunks' => HeldRefs(c)' = {}
  BY DEF RefsCounted
<1> DEFINE Occ == Occurrences(s, refs, c)
<1>1. HeldRefs(c)' = HeldRefs(c) \cup Occ /\ HeldRefs(c) \cap Occ = {}
  BY AcceptAddsTokens DEF put_snapshot
<1>2. IsFiniteSet(Occ) /\ IsFiniteSet(HeldRefs(c))
  BY OccurrencesFinite DEF RefInv, RefsCounted
<1>3. /\ IsFiniteSet(HeldRefs(c)')
      /\ Cardinality(HeldRefs(c)') = Cardinality(HeldRefs(c)) + Cardinality(Occ)
  <2>1. Cardinality(HeldRefs(c) \cap Occ) = 0
    BY <1>1, FS_EmptySet
  <2>2. Cardinality(HeldRefs(c)) \in Nat /\ Cardinality(Occ) \in Nat
    BY <1>2, FS_CardinalityType
  <2>3. /\ IsFiniteSet(HeldRefs(c) \cup Occ)
        /\ Cardinality(HeldRefs(c) \cup Occ) =
              Cardinality(HeldRefs(c)) + Cardinality(Occ)
                - Cardinality(HeldRefs(c) \cap Occ)
    BY <1>2, FS_Union
  <2> HIDE DEF Occ
  <2>4. QED
    BY <1>1, <2>1, <2>2, <2>3
<1>4. CASE c \in DOMAIN chunks
  <2>1. chunks'[c].refcount = chunks[c].refcount + Cardinality(Occ)
    BY <1>4 DEF put_snapshot, RefcountWith, RefInv, TypeOK, IndexEntry
  <2>2. chunks[c].refcount = Cardinality(HeldRefs(c)) /\ DOMAIN chunks' = DOMAIN chunks
    BY <1>4 DEF RefInv, RefsCounted, put_snapshot
  <2>3. QED
    BY <1>3, <1>4, <2>1, <2>2
<1>5. CASE c \notin DOMAIN chunks
  <2>1. Occ = {}
    BY <1>5 DEF put_snapshot, Occurrences
  <2>2. HeldRefs(c) = {} /\ DOMAIN chunks' = DOMAIN chunks
    BY <1>5 DEF RefInv, RefsCounted, put_snapshot
  <2>3. QED
    BY <1>1, <1>3, <1>5, <2>1, <2>2
<1>6. QED
  BY <1>4, <1>5

LEMMA DeleteSnapshotCounts ==
    ASSUME RefInv, NEW s \in SnapshotId, delete_snapshot(s)
    PROVE  RefsCounted'
<1> SUFFICES ASSUME NEW c \in ChunkId
             PROVE  /\ IsFiniteSet(HeldRefs(c)')
                    /\ c \in DOMAIN chunks' =>
                          chunks'[c].refcount = Cardinality(HeldRefs(c)')
                    /\ c \notin DOMAIN chunks' => HeldRefs(c)' = {}
  BY DEF RefsCounted
<1> DEFINE Occ == Occurrences(s, snapshotRefs[s], c)
<1>1. HeldRefs(c)' = HeldRefs(c) \ Occ /\ Occ \subseteq HeldRefs(c)
  BY DeleteRemovesTokens DEF delete_snapshot
<1>2. snapshotRefs[s] \in RefLists
  BY DEF delete_snapshot, RefInv, TypeOK
<1>3. IsFiniteSet(HeldRefs(c)) /\ IsFiniteSet(Occ)
  BY <1>2, OccurrencesFinite DEF RefInv, RefsCounted
<1>4. /\ IsFiniteSet(HeldRefs(c)')
      /\ Cardinality(HeldRefs(c)') = Cardinality(HeldRefs(c)) - Cardinality(Occ)
      /\ Cardinality(Occ) \in Nat /\ Cardinality(HeldRefs(c)) \in Nat
      /\ Cardinality(Occ) <= Cardinality(HeldRefs(c))
  <2>1. HeldRefs(c) \cap Occ = Occ
    BY <1>1
  <2>2. Cardinality(Occ) \in Nat /\ Cardinality(HeldRefs(c)) \in Nat
    BY <1>3, FS_CardinalityType
  <2>3. Cardinality(Occ) <= Cardinality(HeldRefs(c))
    BY <1>1, <1>3, FS_Subset
  <2>4. QED
    BY <1>1, <1>3, <2>1, <2>2, <2>3, FS_Difference
<1>5. CASE c \in DOMAIN chunks
  <2>1. chunks[c].refcount = Cardinality(HeldRefs(c)) /\ DOMAIN chunks' = DOMAIN chunks
    BY <1>5 DEF RefInv, RefsCounted, delete_snapshot
  <2>2. chunks'[c].refcount = RefcountWithout(s, c)
    BY <1>5 DEF delete_snapshot, RefInv, TypeOK, IndexEntry
  <2>3. RefcountWithout(s, c) = chunks[c].refcount - Cardinality(Occ)
    BY <1>4, <2>1 DEF RefcountWithout
  <2>4. QED
    BY <1>4, <1>5, <2>1, <2>2, <2>3
<1>6. CASE c \notin DOMAIN chunks
  BY <1>1, <1>4, <1>6 DEF RefInv, RefsCounted, delete_snapshot
<1>7. QED
  BY <1>5, <1>6

\* Removing rows whose refcount is zero loses no reference.
LEMMA RemovingZeroRefs ==
    ASSUME RefInv, NEW C, C \subseteq ZeroRef,
           chunks' = Remove(chunks, C), UNCHANGED snapshotRefs
    PROVE  RefsCounted'
<1>1. \A c \in ChunkId : HeldRefs(c)' = HeldRefs(c)
  BY DEF HeldRefs
<1>2. \A c \in C : HeldRefs(c) = {}
  BY FS_EmptySet DEF RefInv, RefsCounted, ZeroRef, TypeOK
<1>3. QED
  BY <1>1, <1>2 DEF RefInv, RefsCounted, Remove

LEMMA RefInvStep == RefInv /\ TypeOK' /\ [Next]_vars => RefInv'
<1> SUFFICES ASSUME RefInv, TypeOK', [Next]_vars
             PROVE  RefsCounted' /\ PutIsFresh'
  BY DEF RefInv
<1>1. ASSUME UNCHANGED <<chunks, snapshotRefs, txn>>
      PROVE  RefsCounted' /\ PutIsFresh'
  BY <1>1, CountsUnchanged DEF RefInv, PutIsFresh
<1>2. ASSUME NEW id \in ChunkId, NEW data \in Blob, put_chunk_begin(id, data)
      PROVE  RefsCounted' /\ PutIsFresh'
  BY <1>2, CountsUnchanged DEF RefInv, PutIsFresh, put_chunk_begin
<1>3. CASE write_object
  BY <1>3, CountsUnchanged DEF RefInv, PutIsFresh, write_object, TypeOK, PutTxn
<1>4. CASE put_chunk_commit
  <2>1. txn.id \in ChunkId \ DOMAIN chunks
    BY <1>4 DEF put_chunk_commit, RefInv, PutIsFresh, TypeOK, PutTxn
  <2>2. /\ DOMAIN chunks' = DOMAIN chunks \cup {txn.id}
        /\ chunks'[txn.id].refcount = 0
        /\ \A c \in DOMAIN chunks : chunks'[c] = chunks[c]
    BY <1>4, <2>1 DEF put_chunk_commit, Insert
  <2>3. \A c \in ChunkId : HeldRefs(c)' = HeldRefs(c)
    BY <1>4 DEF put_chunk_commit, HeldRefs
  <2>4. RefsCounted'
    BY <2>1, <2>2, <2>3, FS_EmptySet DEF RefInv, RefsCounted
  <2>5. QED
    BY <1>4, <2>4 DEF put_chunk_commit, PutIsFresh
<1>5. CASE put_chunk_fail \/ crash
  BY <1>5, CountsUnchanged DEF RefInv, PutIsFresh, put_chunk_fail, crash
<1>6. ASSUME NEW s \in SnapshotId, NEW refs \in RefLists, put_snapshot(s, refs)
      PROVE  RefsCounted' /\ PutIsFresh'
  BY <1>6, PutSnapshotCounts DEF put_snapshot, BeginWrite, PutIsFresh
<1>7. ASSUME NEW s \in SnapshotId, delete_snapshot(s)
      PROVE  RefsCounted' /\ PutIsFresh'
  BY <1>7, DeleteSnapshotCounts DEF delete_snapshot, BeginWrite, PutIsFresh
<1>8. ASSUME NEW t \in Thread, NEW id \in ChunkId, delete_chunk(t, id)
      PROVE  RefsCounted' /\ PutIsFresh'
  <2>1. {id} \subseteq ZeroRef
    BY <1>8 DEF delete_chunk, ZeroRef
  <2>2. QED
    BY <1>8, <2>1, RemovingZeroRefs DEF delete_chunk, BeginWrite, PutIsFresh
<1>9. ASSUME NEW t \in Thread, gc(t)
      PROVE  RefsCounted' /\ PutIsFresh'
  <2>1. Expired \subseteq ZeroRef
    BY DEF Expired
  <2>2. QED
    BY <1>9, <2>1, RemovingZeroRefs DEF gc, BeginWrite, PutIsFresh
<1>10. QED
  BY <1>1, <1>2, <1>3, <1>4, <1>5, <1>6, <1>7, <1>8, <1>9
     DEF Next, vars, open, close, unlink, unlink_fail, chunk_entry, get_chunk,
         damage, tick

LEMMA RefInvInit == Init => RefInv
<1> SUFFICES ASSUME Init PROVE RefInv
  OBVIOUS
<1>1. TypeOK
  BY StoreAssumption DEF Init, TypeOK, Time
<1>2. \A c \in ChunkId : HeldRefs(c) = {}
  BY DEF Init, HeldRefs
<1>3. DOMAIN chunks = {} /\ txn = None
  BY DEF Init
<1>4. QED
  BY <1>1, <1>2, <1>3, FS_EmptySet DEF RefInv, RefsCounted, PutIsFresh

LEMMA RefInvariant == Spec => []RefInv
BY RefInvInit, RefInvStep, TypeCorrect, PTL DEF Spec

\* Refcounts are exact whatever runs, in whatever process, and wherever it
\* crashes: the references of the stored snapshots, no more and no fewer.
THEOREM RefcountsAreExact == Spec => []RefcountExact
<1>1. RefInv => RefcountExact
  BY DEF RefInv, RefsCounted, RefcountExact, TypeOK
<1>2. QED
  BY <1>1, RefInvariant, PTL

-----------------------------------------------------------------------------
(***************************************************************************)
(* The files.  Between its index commit and its unlinks a sweeping thread  *)
(* holds a list of files it is going to remove; an index entry is safe as  *)
(* long as no such list names it.  Nothing else but put_chunk could index  *)
(* a listed chunk again, and that runs in another process.                 *)
(***************************************************************************)
PutOwnsTxn ==
    txn # None =>
        /\ proc # None /\ "put_chunk" \in Ops[proc]
        /\ txn.written =>
              /\ txn.id \in DOMAIN objects
              /\ objects[txn.id].header = txn.data
              /\ objects[txn.id].data = txn.data
              /\ objects[txn.id].len = BlobLen[txn.data]

UnlinksAreSwept ==
    \A t \in Thread :
        /\ unlinks[t] # {} => proc # None /\ Ops[proc] \cap SweepOps # {}
        /\ unlinks[t] \cap DOMAIN chunks = {}

FileInv == RefInv /\ IndexedHasBlob /\ PutOwnsTxn /\ UnlinksAreSwept

\* Each step keeps every indexed chunk's file, given that no process stores and
\* sweeps, that a rename replaces its destination and that the disk is sound.
LEMMA FileInvStep ==
    ASSUME SweepsAlone, ~RenameMayFail, ~Damage,
           FileInv, RefInv', [Next]_vars
    PROVE  FileInv'
<1> SUFFICES IndexedHasBlob' /\ PutOwnsTxn' /\ UnlinksAreSwept'
  BY DEF FileInv
<1> USE StoreAssumption DEF FileInv
<1>1. ASSUME NEW p \in Process, open(p)
      PROVE  IndexedHasBlob' /\ PutOwnsTxn' /\ UnlinksAreSwept'
  BY <1>1 DEF open, IndexedHasBlob, Intact, PutOwnsTxn, UnlinksAreSwept, RefInv, TypeOK
<1>2. CASE close
  BY <1>2 DEF close, Idle, IndexedHasBlob, Intact, PutOwnsTxn, UnlinksAreSwept
<1>3. CASE crash
  BY <1>3 DEF crash, IndexedHasBlob, Intact, PutOwnsTxn, UnlinksAreSwept
<1>4. ASSUME NEW id \in ChunkId, NEW data \in Blob, put_chunk_begin(id, data)
      PROVE  IndexedHasBlob' /\ PutOwnsTxn' /\ UnlinksAreSwept'
  BY <1>4 DEF put_chunk_begin, BeginWrite, Runs, IndexedHasBlob, Intact,
              PutOwnsTxn, UnlinksAreSwept
<1>5. CASE write_object
  <2>1. txn \in PutTxn /\ txn' = [txn EXCEPT !.written = TRUE] /\ txn # None
    BY <1>5 DEF write_object, RefInv, TypeOK
  <2>2. objects' = Insert(objects, txn.id, [header |-> txn.data, data |-> txn.data,
                                            len |-> BlobLen[txn.data]])
    BY <1>5 DEF write_object
  <2>3. txn.id \notin DOMAIN chunks
    BY <2>1 DEF RefInv, PutIsFresh
  <2>4. IndexedHasBlob'
    BY <1>5, <2>2, <2>3 DEF write_object, IndexedHasBlob, Intact, Insert
  <2>5. PutOwnsTxn'
    BY <1>5, <2>1, <2>2 DEF write_object, PutOwnsTxn, PutTxn, Insert
  <2>6. UnlinksAreSwept'
    BY <1>5 DEF write_object, UnlinksAreSwept
  <2>7. QED
    BY <2>4, <2>5, <2>6
<1>6. CASE put_chunk_commit
  <2>1. txn \in PutTxn /\ txn # None /\ txn.written
    BY <1>6 DEF put_chunk_commit, RefInv, TypeOK
  <2>2. IndexedHasBlob'
    BY <1>6, <2>1 DEF put_chunk_commit, PutTxn, IndexedHasBlob, Intact, Insert, PutOwnsTxn
  <2>3. \A t \in Thread : unlinks[t] = {}
    BY <2>1 DEF PutOwnsTxn, UnlinksAreSwept, SweepsAlone, RefInv, TypeOK
  <2>4. UnlinksAreSwept'
    BY <1>6, <2>3 DEF put_chunk_commit, UnlinksAreSwept
  <2>5. QED
    BY <1>6, <2>2, <2>4 DEF put_chunk_commit, PutOwnsTxn
<1>7. CASE put_chunk_fail
  BY <1>7 DEF put_chunk_fail, IndexedHasBlob, Intact, PutOwnsTxn, UnlinksAreSwept
<1>8. ASSUME NEW s \in SnapshotId, NEW refs \in RefLists, put_snapshot(s, refs)
      PROVE  IndexedHasBlob' /\ PutOwnsTxn' /\ UnlinksAreSwept'
  <2>1. /\ DOMAIN chunks' = DOMAIN chunks
        /\ \A c \in DOMAIN chunks : chunks'[c].chunk_len = chunks[c].chunk_len
    BY <1>8 DEF put_snapshot, RefInv, TypeOK, IndexEntry
  <2>2. QED
    BY <1>8, <2>1 DEF put_snapshot, IndexedHasBlob, Intact, PutOwnsTxn, UnlinksAreSwept
<1>9. ASSUME NEW s \in SnapshotId, delete_snapshot(s)
      PROVE  IndexedHasBlob' /\ PutOwnsTxn' /\ UnlinksAreSwept'
  <2>1. /\ DOMAIN chunks' = DOMAIN chunks
        /\ \A c \in DOMAIN chunks : chunks'[c].chunk_len = chunks[c].chunk_len
    BY <1>9 DEF delete_snapshot, RefInv, TypeOK, IndexEntry
  <2>2. QED
    BY <1>9, <2>1 DEF delete_snapshot, IndexedHasBlob, Intact, PutOwnsTxn, UnlinksAreSwept
<1>10. ASSUME NEW t \in Thread, NEW id \in ChunkId, delete_chunk(t, id)
       PROVE  IndexedHasBlob' /\ PutOwnsTxn' /\ UnlinksAreSwept'
  BY <1>10 DEF delete_chunk, BeginWrite, Runs, SweepOps, Remove, IndexedHasBlob,
               Intact, PutOwnsTxn, UnlinksAreSwept, RefInv, TypeOK
<1>11. ASSUME NEW t \in Thread, gc(t)
       PROVE  IndexedHasBlob' /\ PutOwnsTxn' /\ UnlinksAreSwept'
  BY <1>11 DEF gc, BeginWrite, Runs, SweepOps, Remove, IndexedHasBlob,
               Intact, PutOwnsTxn, UnlinksAreSwept, RefInv, TypeOK
<1>12. ASSUME NEW t \in Thread, NEW id \in ChunkId, unlink(t, id)
       PROVE  IndexedHasBlob' /\ PutOwnsTxn' /\ UnlinksAreSwept'
  <2>1. id \notin DOMAIN chunks /\ proc # None /\ Ops[proc] \cap SweepOps # {}
    BY <1>12 DEF unlink, UnlinksAreSwept
  <2>2. txn = None
    BY <2>1 DEF PutOwnsTxn, SweepsAlone, RefInv, TypeOK
  <2>3. IndexedHasBlob'
    BY <1>12, <2>1 DEF unlink, Remove, IndexedHasBlob, Intact
  <2>4. UnlinksAreSwept'
    BY <1>12, <2>1 DEF unlink, UnlinksAreSwept, RefInv, TypeOK
  <2>5. QED
    BY <1>12, <2>2, <2>3, <2>4 DEF unlink, PutOwnsTxn
<1>13. ASSUME NEW t \in Thread, unlink_fail(t)
       PROVE  IndexedHasBlob' /\ PutOwnsTxn' /\ UnlinksAreSwept'
  BY <1>13 DEF unlink_fail, IndexedHasBlob, Intact, PutOwnsTxn, UnlinksAreSwept,
               RefInv, TypeOK
<1>14. ASSUME UNCHANGED <<chunks, objects, txn, unlinks, proc>>
       PROVE  IndexedHasBlob' /\ PutOwnsTxn' /\ UnlinksAreSwept'
  BY <1>14 DEF IndexedHasBlob, Intact, PutOwnsTxn, UnlinksAreSwept
<1>15. QED
  BY <1>1, <1>2, <1>3, <1>4, <1>5, <1>6, <1>7, <1>8, <1>9, <1>10, <1>11, <1>12,
     <1>13, <1>14 DEF Next, vars, chunk_entry, get_chunk, damage, tick

LEMMA FileInvariant ==
    ASSUME SweepsAlone, ~RenameMayFail, ~Damage
    PROVE  Spec => []FileInv
<1>1. Init => FileInv
  <2> SUFFICES ASSUME Init PROVE FileInv
    OBVIOUS
  <2>1. RefInv
    BY RefInvInit
  <2>2. QED
    BY <2>1 DEF Init, FileInv, IndexedHasBlob, PutOwnsTxn, UnlinksAreSwept
<1>2. FileInv /\ RefInv' /\ [Next]_vars => FileInv'
  BY FileInvStep
<1>3. Spec => []RefInv
  BY RefInvariant
<1>4. QED
  BY <1>1, <1>2, <1>3, PTL DEF Spec

\* As deployed, the store never indexes a chunk whose file is missing or other
\* than the index says.
THEOREM IndexNeverDangles ==
    ASSUME SweepsAlone, ~RenameMayFail, ~Damage
    PROVE  Spec => []IndexedHasBlob
<1>1. FileInv => IndexedHasBlob
  BY DEF FileInv
<1>2. Spec => []FileInv
  BY FileInvariant
<1>3. QED
  BY <1>1, <1>2, PTL

\* As deployed, every stored snapshot keeps all it references, whatever put,
\* prune and gc do and wherever they crash.
THEOREM SnapshotsStayRestorable ==
    ASSUME SweepsAlone, ~RenameMayFail, ~Damage
    PROVE  Spec => []SnapshotsRestorable
<1>1. FileInv => SnapshotsRestorable
  <2> SUFFICES ASSUME FileInv,
                      NEW s \in DOMAIN snapshotRefs, NEW i \in DOMAIN snapshotRefs[s]
               PROVE  snapshotRefs[s][i] \in DOMAIN chunks
    BY DEF FileInv, SnapshotsRestorable, IndexedHasBlob
  <2>1. snapshotRefs[s] \in Seq(ChunkId)
    BY StoreAssumption DEF FileInv, RefInv, TypeOK
  <2>2. snapshotRefs[s][i] \in ChunkId
    BY <2>1
  <2>3. <<s, i>> \in HeldRefs(snapshotRefs[s][i])
    BY DEF HeldRefs, Occurrences
  <2>4. QED
    BY <2>2, <2>3 DEF FileInv, RefInv, RefsCounted
<1>2. Spec => []FileInv
  BY FileInvariant
<1>3. QED
  BY <1>1, <1>2, PTL

-----------------------------------------------------------------------------
(***************************************************************************)
(* Grace marks.                                                            *)
(***************************************************************************)
LastGcIsPast == lastGc # None => lastGc <= now

\* After a gc run every unreferenced chunk is marked, so an unmarked one lost
\* its last reference (or was stored) since then.
THEOREM GcOverlooksNothing == Spec => []GcMissesNothing
<1> DEFINE Inv == LastGcIsPast /\ GcMissesNothing
<1>1. Init => Inv
  BY DEF Init, LastGcIsPast, GcMissesNothing
<1>2. TypeOK /\ Inv /\ [Next]_vars => Inv'
  <2> SUFFICES ASSUME TypeOK, Inv, [Next]_vars PROVE Inv'
    OBVIOUS
  <2> USE StoreAssumption DEF TypeOK, Time, LastGcIsPast, GcMissesNothing, Unmarked, ZeroRef
  <2>1. CASE put_chunk_commit
    <3>1. txn \in PutTxn
      BY <2>1 DEF put_chunk_commit
    <3>2. /\ DOMAIN chunks' = DOMAIN chunks \cup {txn.id}
          /\ \A c \in DOMAIN chunks : c # txn.id => chunks'[c] = chunks[c]
      BY <2>1 DEF put_chunk_commit, Insert
    <3>3. zeroSince' = [zeroSince EXCEPT ![txn.id] = now] /\ txn.id \in ChunkId
      BY <2>1, <3>1 DEF put_chunk_commit, PutTxn
    <3>4. QED
      BY <2>1, <3>2, <3>3 DEF put_chunk_commit
  <2>2. ASSUME NEW s \in SnapshotId, NEW refs \in RefLists, put_snapshot(s, refs)
        PROVE  Inv'
    <3>1. \A c \in DOMAIN chunks : chunks'[c].refcount = RefcountWith(s, refs, c)
      BY <2>2 DEF put_snapshot, IndexEntry
    <3>2. \A c \in DOMAIN chunks : chunks'[c].refcount = 0 => chunks[c].refcount = 0
      BY <3>1, OccurrencesFinite DEF RefcountWith, IndexEntry
    <3>3. QED
      BY <2>2, <3>2 DEF put_snapshot
  <2>3. ASSUME NEW s \in SnapshotId, delete_snapshot(s) PROVE Inv'
    <3>1. \A c \in DOMAIN chunks : chunks'[c].refcount = RefcountWithout(s, c)
      BY <2>3 DEF delete_snapshot, IndexEntry
    <3>2. \A c \in DOMAIN chunks : chunks[c].refcount > 0 \/ chunks[c].refcount = 0
      BY DEF IndexEntry
    <3>3. QED
      BY <2>3, <3>1, <3>2 DEF delete_snapshot
  <2>4. ASSUME NEW t \in Thread, NEW id \in ChunkId, delete_chunk(t, id) PROVE Inv'
    BY <2>4 DEF delete_chunk, Remove
  <2>5. ASSUME NEW t \in Thread, gc(t) PROVE Inv'
    <3>1. Unmarked' = {}
      BY <2>5 DEF gc, Remove, Expired
    <3>2. QED
      BY <2>5, <3>1 DEF gc
  <2>6. CASE tick
    BY <2>6 DEF tick
  <2>7. ASSUME UNCHANGED <<chunks, marks, lastGc, now, zeroSince>> PROVE Inv'
    BY <2>7
  <2>8. QED
    BY <2>1, <2>2, <2>3, <2>4, <2>5, <2>6, <2>7
       DEF Next, vars, open, close, crash, put_chunk_begin, write_object,
           put_chunk_fail, unlink, unlink_fail, chunk_entry, get_chunk, damage
<1>3. QED
  BY <1>1, <1>2, TypeCorrect, PTL DEF Spec

\* Without delete_chunk, which leaves a chunk's mark behind, a mark belongs to
\* an indexed chunk and is no older than the chunk.
MarkInv ==
    /\ \A c \in ChunkId : storedAt[c] <= now
    /\ \A c \in DOMAIN marks : c \in DOMAIN chunks /\ storedAt[c] <= marks[c]

\* The grace period protects freshly stored chunks.
THEOREM FreshChunksAreProtected ==
    ASSUME \A p \in Process : "delete_chunk" \notin Ops[p]
    PROVE  Spec => FreshChunksSurviveGrace
<1> DEFINE Kept == \A c \in DOMAIN chunks \ DOMAIN chunks' : now - storedAt[c] >= Grace
<1>1. Init => MarkInv
  BY DEF Init, MarkInv
<1>2. RefInv /\ MarkInv /\ [Next]_vars => MarkInv' /\ Kept
  <2> SUFFICES ASSUME RefInv, MarkInv, [Next]_vars PROVE MarkInv' /\ Kept
    OBVIOUS
  <2> USE StoreAssumption DEF RefInv, TypeOK, Time, MarkInv
  <2>1. CASE put_chunk_commit
    <3>1. txn \in PutTxn /\ txn.id \notin DOMAIN chunks
      BY <2>1 DEF put_chunk_commit, PutIsFresh
    <3>2. DOMAIN chunks' = DOMAIN chunks \cup {txn.id}
      BY <2>1 DEF put_chunk_commit, Insert
    <3>3. /\ txn.id \in ChunkId /\ txn.id \notin DOMAIN marks
          /\ storedAt' = [storedAt EXCEPT ![txn.id] = now]
          /\ UNCHANGED <<now, marks>>
      BY <2>1, <3>1 DEF put_chunk_commit, PutTxn
    <3>4. QED
      BY <3>2, <3>3
  <2>2. ASSUME NEW s \in SnapshotId, NEW refs \in RefLists, put_snapshot(s, refs)
        PROVE  MarkInv' /\ Kept
    BY <2>2 DEF put_snapshot
  <2>3. ASSUME NEW s \in SnapshotId, delete_snapshot(s) PROVE MarkInv' /\ Kept
    BY <2>3 DEF delete_snapshot
  <2>4. ASSUME NEW t \in Thread, NEW id \in ChunkId, delete_chunk(t, id)
        PROVE  FALSE
    BY <2>4 DEF delete_chunk, BeginWrite, Runs
  <2>5. ASSUME NEW t \in Thread, gc(t) PROVE MarkInv' /\ Kept
    <3>1. DOMAIN chunks' = DOMAIN chunks \ Expired
      BY <2>5 DEF gc, Remove
    <3>2. \A c \in Expired : now - marks[c] >= Grace /\ storedAt[c] <= marks[c]
      BY DEF Expired
    <3>3. Kept
      BY <3>1, <3>2 DEF Expired
    <3>4. ASSUME NEW c \in DOMAIN marks'
          PROVE  c \in DOMAIN chunks' /\ storedAt[c] <= marks'[c]
      <4>1. CASE c \in Unmarked
        BY <2>5, <3>1, <3>4, <4>1 DEF gc, Unmarked, ZeroRef, Expired
      <4>2. CASE c \notin Unmarked
        BY <2>5, <3>1, <3>4, <4>2 DEF gc, ZeroRef
      <4>3. QED
        BY <4>1, <4>2
    <3>5. UNCHANGED <<now, storedAt>>
      BY <2>5 DEF gc
    <3>6. QED
      BY <3>3, <3>4, <3>5
  <2>6. CASE tick
    BY <2>6 DEF tick
  <2>7. ASSUME UNCHANGED <<chunks, marks, now, storedAt>> PROVE MarkInv' /\ Kept
    BY <2>7
  <2>8. QED
    BY <2>1, <2>2, <2>3, <2>4, <2>5, <2>6, <2>7
       DEF Next, vars, open, close, crash, put_chunk_begin, write_object,
           put_chunk_fail, unlink, unlink_fail, chunk_entry, get_chunk, damage
<1>3. Spec => []RefInv
  BY RefInvariant
<1>4. QED
  BY <1>1, <1>2, <1>3, PTL DEF Spec, FreshChunksSurviveGrace
-----------------------------------------------------------------------------
(***************************************************************************)
(* Reads.  get_chunk trusts the file's own hash: it hands out no damaged   *)
(* body because damage never reaches a header, and headers are written     *)
(* from what clients sent.                                                 *)
(***************************************************************************)
HeadersAreHonest == \A c \in DOMAIN objects : objects[c].header # Rot

\* Bytes no client uploaded are never returned as good, in any process layout,
\* with a damaged disk and with renames that fail (store.rs get_chunk).
THEOREM CorruptionIsReported == Spec => []CorruptionNeverSilent
<1> DEFINE Inv == HeadersAreHonest /\ CorruptionNeverSilent
<1>1. Init => Inv
  BY DEF Init, HeadersAreHonest, CorruptionNeverSilent
<1>2. TypeOK /\ Inv /\ [Next]_vars => Inv'
  <2> SUFFICES ASSUME TypeOK, Inv, [Next]_vars PROVE Inv'
    OBVIOUS
  <2> USE DEF HeadersAreHonest, CorruptionNeverSilent
  <2>1. CASE write_object
    <3>1. txn.data \in Blob /\ txn.data # Rot
      BY <2>1, StoreAssumption DEF write_object, TypeOK, PutTxn
    <3>2. \A c \in DOMAIN objects' : objects'[c].header # Rot
      BY <2>1, <3>1 DEF write_object, Insert
    <3> QED
      BY <2>1, <3>2 DEF write_object
  <2>2. ASSUME NEW t \in Thread, NEW id \in ChunkId, unlink(t, id) PROVE Inv'
    BY <2>2 DEF unlink, Remove
  <2>3. ASSUME NEW t \in Thread, get_chunk(t) PROVE Inv'
    <3>1. lastRead' = Verify(reads[t]) /\ UNCHANGED objects
      BY <2>3 DEF get_chunk
    <3>2. Verify(reads[t]).outcome = "ok" => Verify(reads[t]).data # Rot
      BY DEF Verify
    <3> QED
      BY <3>1, <3>2
  <2>4. ASSUME NEW id \in ChunkId, damage(id) PROVE Inv'
    <3>1. \A c \in DOMAIN objects' : c \in DOMAIN objects /\ objects'[c].header = objects[c].header
      <4>1. CASE objects' = Remove(objects, {id})
        BY <4>1 DEF Remove
      <4>2. ASSUME NEW n \in {0, objects[id].len},
                   objects' = [objects EXCEPT ![id].data = Rot, ![id].len = n]
            PROVE  \A c \in DOMAIN objects' : c \in DOMAIN objects /\ objects'[c].header = objects[c].header
        <5> DEFINE f == [[objects[id] EXCEPT !.data = Rot] EXCEPT !.len = n]
        <5>1. id \in DOMAIN objects /\ objects[id] \in File
          BY <2>4 DEF damage, TypeOK
        <5>2. objects' = [objects EXCEPT ![id] = f] /\ f.header = objects[id].header
          BY <4>2, <5>1 DEF File
        <5> QED
          BY <5>1, <5>2
      <4> QED
        BY <2>4, <4>1, <4>2 DEF damage
    <3> QED
      BY <2>4, <3>1 DEF damage
  <2>5. ASSUME UNCHANGED objects, UNCHANGED lastRead \/ lastRead' = None PROVE Inv'
    BY <2>5
  <2> QED
    BY <2>1, <2>2, <2>3, <2>4, <2>5
       DEF Next, vars, open, close, crash, put_chunk_begin, put_chunk_commit, put_chunk_fail,
           put_snapshot, delete_snapshot, delete_chunk, gc, unlink_fail, chunk_entry, tick
<1> QED
  BY <1>1, <1>2, TypeCorrect, PTL DEF Spec

\* No process both reads chunks and reclaims them.
ReadsAlone ==
    \A p \in Process : "get_chunk" \in Ops[p] => Ops[p] \cap SweepOps = {}

\* A read between its two looks: the index still says what it said.
ReadsAreCurrent ==
    \A t \in Thread : reads[t] # None =>
        /\ proc # None /\ "get_chunk" \in Ops[proc]
        /\ reads[t].id \in DOMAIN chunks
        /\ chunks[reads[t].id].chunk_len = reads[t].chunk_len

LEMMA ReadsAreCurrentStep ==
    ASSUME ReadsAlone, FileInv, ReadsAreCurrent, [Next]_vars
    PROVE  ReadsAreCurrent'
<1> USE DEF FileInv, RefInv, ReadsAreCurrent
<1>1. ASSUME NEW p \in Process, open(p) PROVE ReadsAreCurrent'
  BY <1>1, StoreAssumption DEF open
<1>2. CASE close
  BY <1>2 DEF close, Idle
<1>3. CASE crash
  BY <1>3 DEF crash
<1>4. CASE put_chunk_commit
  <2>1. /\ DOMAIN chunks' = DOMAIN chunks \cup {txn.id}
        /\ \A c \in DOMAIN chunks : c # txn.id => chunks'[c] = chunks[c]
        /\ txn.id \notin DOMAIN chunks
    BY <1>4 DEF put_chunk_commit, Insert, PutIsFresh
  <2> QED
    BY <1>4, <2>1 DEF put_chunk_commit
<1>5. ASSUME NEW s \in SnapshotId, NEW refs \in RefLists, put_snapshot(s, refs) PROVE ReadsAreCurrent'
  <2>1. /\ DOMAIN chunks' = DOMAIN chunks
        /\ \A c \in DOMAIN chunks : chunks'[c].chunk_len = chunks[c].chunk_len
    BY <1>5 DEF put_snapshot, TypeOK, IndexEntry
  <2> QED
    BY <1>5, <2>1 DEF put_snapshot
<1>6. ASSUME NEW s \in SnapshotId, delete_snapshot(s) PROVE ReadsAreCurrent'
  <2>1. /\ DOMAIN chunks' = DOMAIN chunks
        /\ \A c \in DOMAIN chunks : chunks'[c].chunk_len = chunks[c].chunk_len
    BY <1>6 DEF delete_snapshot, TypeOK, IndexEntry
  <2> QED
    BY <1>6, <2>1 DEF delete_snapshot
<1>7. ASSUME BeginWrite("gc") \/ BeginWrite("delete_chunk"), UNCHANGED reads
      PROVE  ReadsAreCurrent'
  <2>1. proc \in Process /\ Ops[proc] \cap SweepOps # {}
    BY <1>7 DEF BeginWrite, Runs, SweepOps, TypeOK
  <2>2. \A u \in Thread : reads[u] = None
    BY <2>1 DEF ReadsAlone
  <2> QED
    BY <1>7, <2>2
<1>8. ASSUME NEW t \in Thread, NEW id \in ChunkId, chunk_entry(t, id) PROVE ReadsAreCurrent'
  BY <1>8 DEF chunk_entry, Runs, TypeOK
<1>9. ASSUME NEW t \in Thread, get_chunk(t) PROVE ReadsAreCurrent'
  BY <1>9 DEF get_chunk, TypeOK
<1>10. ASSUME UNCHANGED <<chunks, reads, proc>> PROVE ReadsAreCurrent'
  BY <1>10
<1> QED
  BY <1>1, <1>2, <1>3, <1>4, <1>5, <1>6, <1>7, <1>8, <1>9, <1>10
     DEF Next, vars, delete_chunk, gc, put_chunk_begin, write_object, put_chunk_fail, unlink, unlink_fail, damage, tick

\* On a sound disk and as deployed, a read that found its chunk in the index
\* finds its file and finds it good, whatever ran between its two looks
\* (store.rs get_chunk).
THEOREM ReadsRaiseNoFalseAlarm ==
    ASSUME SweepsAlone, ReadsAlone, ~RenameMayFail, ~Damage
    PROVE  Spec => []NoFalseAlarm
<1> DEFINE Inv == ReadsAreCurrent /\ NoFalseAlarm
<1>1. Init => Inv
  BY DEF Init, ReadsAreCurrent, NoFalseAlarm
<1>2. FileInv /\ Inv /\ [Next]_vars => Inv'
  <2> SUFFICES ASSUME FileInv, Inv, [Next]_vars PROVE NoFalseAlarm'
    BY ReadsAreCurrentStep
  <2>1. ASSUME NEW t \in Thread, get_chunk(t) PROVE NoFalseAlarm'
    <3>1. Intact(reads[t].id) /\ chunks[reads[t].id].chunk_len = reads[t].chunk_len
      BY <2>1 DEF get_chunk, FileInv, IndexedHasBlob, ReadsAreCurrent
    <3>2. Verify(reads[t]).outcome = "ok"
      BY <3>1 DEF Verify, Intact
    <3> QED
      BY <2>1, <3>2 DEF get_chunk, NoFalseAlarm
  <2>2. ASSUME UNCHANGED lastRead \/ lastRead' = None PROVE NoFalseAlarm'
    BY <2>2 DEF NoFalseAlarm
  <2> QED
    BY <2>1, <2>2
       DEF Next, vars, open, close, crash, put_chunk_begin, write_object, put_chunk_commit, put_chunk_fail,
           put_snapshot, delete_snapshot, delete_chunk, gc, unlink, unlink_fail, chunk_entry, damage, tick
<1>3. Spec => []FileInv
  BY FileInvariant
<1> QED
  BY <1>1, <1>2, <1>3, PTL DEF Spec

-----------------------------------------------------------------------------
(***************************************************************************)
(* The chunk store implements SnapshotVault.  The mapped content reads the *)
(* object files, so the proof rests on FileInv (the file of an indexed     *)
(* chunk is never touched) and on RefInv (refcount zero means referenced   *)
(* by nothing).                                                            *)
(***************************************************************************)
\* The mapped content, as the instance computes it.
Content == [c \in DOMAIN chunks |->
              IF c \in DOMAIN objects THEN objects[c].data ELSE Rot]

\* A step that leaves the index, the snapshots and the indexed chunks' files
\* alone is a stutter of the vault.
LEMMA VaultStutters ==
    ASSUME UNCHANGED <<snapshotRefs, Content>>
    PROVE  UNCHANGED Vault!vars
BY DEF Vault!vars, Content

\* What a stored snapshot references has a nonzero refcount.
LEMMA ZeroRefIsUnreferenced ==
    ASSUME RefInv, NEW C, C \subseteq ZeroRef
    PROVE  C \cap Vault!Referenced = {}
<1> SUFFICES ASSUME NEW c \in C, c \in Vault!Referenced
             PROVE  FALSE
  OBVIOUS
<1>1. PICK s \in DOMAIN snapshotRefs : \E i \in DOMAIN snapshotRefs[s] : snapshotRefs[s][i] = c
  BY DEF Vault!Referenced
<1>2. PICK i \in DOMAIN snapshotRefs[s] : snapshotRefs[s][i] = c
  BY <1>1
<1>3. <<s, i>> \in HeldRefs(c)
  BY <1>2 DEF HeldRefs, Occurrences
<1>4. c \in DOMAIN chunks /\ chunks[c].refcount = 0 /\ c \in ChunkId
  BY DEF ZeroRef, RefInv, TypeOK
<1>5. IsFiniteSet(HeldRefs(c)) /\ Cardinality(HeldRefs(c)) = 0
  BY <1>4 DEF RefInv, RefsCounted
<1>6. HeldRefs(c) = {}
  BY <1>5, FS_EmptySet
<1>7. QED
  BY <1>3, <1>6

\* Sweeping rows of refcount zero is the vault giving up unreferenced content.
LEMMA SweepIsReclaim ==
    ASSUME FileInv, NEW C, C \subseteq ZeroRef,
           chunks' = Remove(chunks, C), UNCHANGED <<snapshotRefs, objects>>
    PROVE  Vault!Next
<1>1. C \in SUBSET ChunkId
  BY DEF ZeroRef, FileInv, RefInv, TypeOK
<1>2. C \cap Vault!Referenced = {}
  BY ZeroRefIsUnreferenced DEF FileInv
<1>3. Vault!Reclaim(C)
  BY <1>2 DEF Vault!Reclaim, Remove
<1>4. QED
  BY <1>1, <1>3 DEF Vault!Next

LEMMA VaultStep ==
    ASSUME SweepsAlone, ~RenameMayFail, ~Damage, FileInv, [Next]_vars
    PROVE  [Vault!Next]_(Vault!vars)
<1> USE StoreAssumption
<1>1. ASSUME UNCHANGED <<chunks, snapshotRefs, objects>>
      PROVE  UNCHANGED Vault!vars
  BY <1>1, VaultStutters DEF Content
<1>2. CASE write_object
  <2>1. objects' = Insert(objects, txn.id, [header |-> txn.data, data |-> txn.data,
                                            len |-> BlobLen[txn.data]])
    BY <1>2 DEF write_object
  <2>2. txn.id \notin DOMAIN chunks
    BY <1>2 DEF write_object, FileInv, RefInv, PutIsFresh
  <2>3. UNCHANGED <<chunks, snapshotRefs>>
    BY <1>2 DEF write_object
  <2>4. \A c \in DOMAIN chunks :
           (c \in DOMAIN objects' <=> c \in DOMAIN objects) /\ objects'[c] = objects[c]
    BY <2>1, <2>2 DEF Insert, FileInv, IndexedHasBlob, Intact
  <2>5. QED
    BY <2>3, <2>4, VaultStutters DEF Content
<1>3. CASE put_chunk_commit
  <2>1. txn \in PutTxn /\ txn # None /\ txn.written
    BY <1>3 DEF put_chunk_commit, FileInv, RefInv, TypeOK
  <2>2. /\ txn.id \in ChunkId /\ txn.data \in Blob
        /\ txn.id \notin DOMAIN chunks
        /\ txn.id \in DOMAIN objects /\ objects[txn.id].data = txn.data
    BY <2>1 DEF PutTxn, FileInv, RefInv, PutIsFresh, PutOwnsTxn
  <2>3. /\ DOMAIN chunks' = DOMAIN chunks \cup {txn.id}
        /\ UNCHANGED <<snapshotRefs, objects>>
    BY <1>3 DEF put_chunk_commit, Insert
  <2>4. PICK id \in ChunkId, b \in Blob : id = txn.id /\ b = txn.data
    BY <2>2
  <2>5. /\ DOMAIN Content = DOMAIN chunks
        /\ Content' = [x \in DOMAIN Content \cup {id} |->
                          IF x = id THEN b ELSE Content[x]]
    BY <2>2, <2>3, <2>4 DEF Content
  <2>6. Vault!Store(id, b)
    BY <2>2, <2>3, <2>4, <2>5 DEF Vault!Store, Content
  <2>7. QED
    BY <2>6 DEF Vault!Next
<1>4. ASSUME NEW s \in SnapshotId, NEW refs \in RefLists, put_snapshot(s, refs)
      PROVE  Vault!Next
  <2>1. /\ DOMAIN chunks' = DOMAIN chunks /\ UNCHANGED objects
        /\ s \notin DOMAIN snapshotRefs
        /\ \A i \in DOMAIN refs : refs[i] \in DOMAIN chunks
        /\ snapshotRefs' = Insert(snapshotRefs, s, refs)
    BY <1>4 DEF put_snapshot
  <2>2. Vault!Accept(s, refs)
    BY <2>1 DEF Vault!Accept, Insert
  <2>3. QED
    BY <2>2 DEF Vault!Next
<1>5. ASSUME NEW s \in SnapshotId, delete_snapshot(s)
      PROVE  Vault!Next
  <2>1. /\ DOMAIN chunks' = DOMAIN chunks /\ UNCHANGED objects
        /\ s \in DOMAIN snapshotRefs
        /\ snapshotRefs' = Remove(snapshotRefs, {s})
    BY <1>5 DEF delete_snapshot
  <2>2. Vault!Retire(s)
    BY <2>1 DEF Vault!Retire, Remove
  <2>3. QED
    BY <2>2 DEF Vault!Next
<1>6. ASSUME NEW t \in Thread, NEW id \in ChunkId, delete_chunk(t, id)
      PROVE  Vault!Next
  <2>1. {id} \subseteq ZeroRef
    BY <1>6 DEF delete_chunk, ZeroRef
  <2>2. QED
    BY <1>6, <2>1, SweepIsReclaim DEF delete_chunk
<1>7. ASSUME NEW t \in Thread, gc(t)
      PROVE  Vault!Next
  <2>1. Expired \subseteq ZeroRef
    BY DEF Expired
  <2>2. QED
    BY <1>7, <2>1, SweepIsReclaim DEF gc
<1>8. ASSUME NEW t \in Thread, NEW id \in ChunkId, unlink(t, id)
      PROVE  UNCHANGED Vault!vars
  <2>1. id \notin DOMAIN chunks /\ UNCHANGED <<chunks, snapshotRefs>>
    BY <1>8 DEF unlink, FileInv, UnlinksAreSwept
  <2>2. \A c \in DOMAIN chunks :
           (c \in DOMAIN objects' <=> c \in DOMAIN objects) /\ objects'[c] = objects[c]
    BY <1>8, <2>1 DEF unlink, Remove, FileInv, IndexedHasBlob, Intact
  <2>3. QED
    BY <2>1, <2>2, VaultStutters DEF Content
<1>9. QED
  BY <1>1, <1>2, <1>3, <1>4, <1>5, <1>6, <1>7, <1>8
     DEF Next, vars, open, close, crash, put_chunk_begin, put_chunk_fail,
         unlink_fail, chunk_entry, get_chunk, damage, tick

\* As deployed, the chunk store with its refcounts, marks, files and crashes
\* implements the atomic vault of immutable contents.
THEOREM StoreImplementsVault ==
    ASSUME SweepsAlone, ~RenameMayFail, ~Damage
    PROVE  Spec => ImplementsVault
<1>1. Init => Vault!Init
  BY DEF Init, Vault!Init
<1>2. FileInv /\ [Next]_vars => [Vault!Next]_(Vault!vars)
  BY VaultStep
<1>3. Spec => []FileInv
  BY FileInvariant
<1>4. QED
  BY <1>1, <1>2, <1>3, PTL DEF Spec, ImplementsVault, Vault!Spec
=============================================================================
