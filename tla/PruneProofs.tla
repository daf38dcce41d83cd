---------------------------- MODULE PruneProofs ----------------------------
(***************************************************************************)
(* Theorems about Prune, for every grid, number of workers and snapshots.  *)
(***************************************************************************)
EXTENDS Prune, TLAPS

(***************************************************************************)
(* State and history stay of their types.                                  *)
(***************************************************************************)
THEOREM TypeCorrect == Spec => []TypeOK
<1> USE PruneAssumption
<1>1. Init => TypeOK
    BY DEF Init, TypeOK, IdleJob, Job, Phase
<1>2. TypeOK /\ [Next]_vars => TypeOK'
  <2> SUFFICES ASSUME TypeOK, [Next]_vars PROVE TypeOK'
      OBVIOUS
  <2>0. IdleJob \in Job
      BY DEF IdleJob, Job, Phase
  <2> USE <2>0 DEF TypeOK
  <2>1. ASSUME NEW p \in {"serve", "prune"}, open(p) PROVE TypeOK'
      BY <2>1 DEF open
  <2>2. CASE close
      BY <2>2 DEF close
  <2>3. CASE crash
      BY <2>3 DEF crash
  <2>4. ASSUME NEW w \in Handler, NEW s \in SnapshotId, put_manifest(w, s)
        PROVE  TypeOK'
    <3>1. [IdleJob EXCEPT !.phase = "committed", !.reply = s] \in Job
        BY DEF IdleJob, Job, Phase
    <3>2. job' \in [Worker -> Job] /\ acked' \subseteq SnapshotId
        BY <2>4, <3>1 DEF put_manifest
    <3> QED BY <2>4, <3>2 DEF put_manifest
  <2>5. ASSUME NEW w \in Handler, hang_up(w) PROVE TypeOK'
    <3>1. [job[w] EXCEPT !.reply = None] \in Job
        BY DEF Job, Worker
    <3>2. job' \in [Worker -> Job]
        BY <2>5, <3>1 DEF hang_up
    <3> QED BY <2>5, <3>2 DEF hang_up
  <2>6. ASSUME NEW w \in Worker, call_prune(w) PROVE TypeOK'
    <3>0. now \in Nat /\ job[w] \in Job
        OBVIOUS
    <3>1. [job[w] EXCEPT !.phase = "list", !.at = now] \in Job
        BY <3>0 DEF Job, Phase
    <3>2. job' = [job EXCEPT ![w] = [job[w] EXCEPT !.phase = "list", !.at = now]]
        BY <2>6 DEF call_prune
    <3> QED BY <2>6, <3>1, <3>2 DEF call_prune
  <2>7. ASSUME NEW w \in Worker, list_snapshots(w) PROVE TypeOK'
    <3> DEFINE D == ToDrop(job[w].at, stored)
               J == [job[w] EXCEPT !.phase = "delete", !.listed = stored, !.drop = D]
    <3>1. D \subseteq SnapshotId
        BY DEF ToDrop
    <3> HIDE DEF D
    <3>2. J \in Job
        BY <3>1 DEF Job, Phase
    <3>3. job' = [job EXCEPT ![w] = J]
        BY <2>7 DEF list_snapshots, D
    <3> QED BY <2>7, <3>2, <3>3 DEF list_snapshots
  <2>8. ASSUME NEW w \in Worker, NEW s \in SnapshotId, delete_snapshot(w, s)
        PROVE  TypeOK'
    <3>1. [job[w] EXCEPT !.drop = @ \ {s}] \in Job
        BY DEF Job
    <3>2. job' = [job EXCEPT ![w] = [job[w] EXCEPT !.drop = @ \ {s}]]
        BY <2>8 DEF delete_snapshot
    <3> QED BY <2>8, <3>1, <3>2 DEF delete_snapshot
  <2>9. ASSUME NEW w \in Worker, Return(w)
        PROVE  job' \in [Worker -> Job] /\ acked' \subseteq SnapshotId
    <3>1. job[w].reply \in SnapshotId \cup {None}
        BY DEF Job
    <3> QED BY <2>9, <3>1 DEF Return
  <2>10. ASSUME NEW w \in Worker, record_prune(w) PROVE TypeOK'
    <3>1. lastPrune' \in [at : Nat, mode : {"auto", "manual"}]
        BY <2>10 DEF record_prune, Mode, Job
    <3> QED BY <2>9, <2>10, <3>1 DEF record_prune
  <2>11. ASSUME NEW w \in Worker, prune_error(w) PROVE TypeOK'
      BY <2>9, <2>11 DEF prune_error
  <2>12. CASE tick
      BY <2>12 DEF tick
  <2>13. CASE UNCHANGED vars
      BY <2>13 DEF vars
  <2> QED BY <2>1, <2>2, <2>3, <2>4, <2>5, <2>6, <2>7, <2>8, <2>10, <2>11,
             <2>12, <2>13 DEF Next
<1> QED BY <1>1, <1>2, PTL DEF Spec

-----------------------------------------------------------------------------
(***************************************************************************)
(* What plan drops has a newer snapshot in its cell.                       *)
(***************************************************************************)
Newer(s, r) == s < r /\ (Nested => SameCoarse(s, r))

LEMMA TierInGrid ==
    ASSUME Tiers # <<>>, NEW age
    PROVE  tier_for(age) \in DOMAIN Tiers /\ tier_for(age) <= Len(Tiers)
<1>1. Len(Tiers) \in Nat \ {0} /\ DOMAIN Tiers = 1 .. Len(Tiers)
    BY TiersAssumption
<1>2. CASE \E i \in DOMAIN Tiers : FirstTier(i, age)
    BY <1>1, <1>2 DEF tier_for
<1>3. CASE ~ \E i \in DOMAIN Tiers : FirstTier(i, age)
    BY <1>1, <1>3 DEF tier_for
<1> QED BY <1>2, <1>3

LEMMA DroppedHasNewer ==
    ASSUME NEW at \in Nat, NEW S \in SUBSET SnapshotId, NEW d \in ToDrop(at, S)
    PROVE  \E r \in S : Newer(d, r)
<1> USE PruneAssumption
<1>1. /\ Tiers # <<>>
      /\ d \in S
      /\ \E r \in S : SameCell(at, UlidTime[d], UlidTime[r]) /\ ~Beats(UlidTime, d, r)
    BY DEF ToDrop, Survivors
<1>2. PICK r \in S : SameCell(at, UlidTime[d], UlidTime[r]) /\ ~Beats(UlidTime, d, r)
    BY <1>1
<1>3. d \in Nat /\ r \in Nat /\ UlidTime[d] \in Nat /\ UlidTime[r] \in Nat
    BY <1>1, <1>2
<1>4. d < r
  <2>1. r <= d => UlidTime[r] <= UlidTime[d]
      BY <1>1, <1>2
  <2> QED BY <1>2, <1>3, <2>1 DEF Beats
<1>5. Nested => SameCoarse(d, r)
  <2> DEFINE i == tier_for(Age(at, UlidTime[d]))
             n == Len(Tiers)
  <2>1. i \in DOMAIN Tiers /\ i <= n
      BY <1>1, TierInGrid
  <2>2. n \in DOMAIN Tiers
      BY <1>1, TiersAssumption
  <2>3. Cell(i, UlidTime[d]) = Cell(i, UlidTime[r])
      BY <1>2 DEF SameCell
  <2> HIDE DEF i, n
  <2>4. Nested => Cell(n, UlidTime[d]) = Cell(n, UlidTime[r])
      BY <1>3, <2>1, <2>2, <2>3 DEF Nested
  <2> QED BY <2>4 DEF SameCoarse, n
<1> QED BY <1>4, <1>5 DEF Newer

(***************************************************************************)
(* The inductive invariant.  Every snapshot that is gone, or that some     *)
(* prune is about to delete, was superseded by a newer one in its coarsest *)
(* cell (by one ever accepted: that one may be gone too, but the newest    *)
(* cannot be).  A prune still has in its drop list every listed snapshot   *)
(* that the grid does not keep and that is still stored.                   *)
(***************************************************************************)
Superseded(s) == \E r \in ever : Newer(s, r)

GoneInv == \A s \in ever \ stored : Superseded(s)
DropInv ==
    \A w \in Worker : /\ job[w].listed \subseteq ever
                      /\ job[w].drop \subseteq ever
                      /\ \A s \in job[w].drop : Superseded(s)
ThinInv ==
    \A w \in Worker : job[w].phase = "delete" =>
        job[w].listed \cap stored
            \subseteq job[w].drop \cup Survivors(job[w].at, job[w].listed, UlidTime)
PruneInv == stored \subseteq ever /\ GoneInv /\ DropInv /\ ThinInv

LEMMA PruneInvInit == Init => PruneInv
BY DEF Init, PruneInv, GoneInv, DropInv, ThinInv, IdleJob

\* A step that stores nothing, deletes nothing, and leaves each worker's job as
\* it was or sends it back to a phase before "delete".
LEMMA PruneInvQuiet ==
    ASSUME PruneInv, TypeOK, stored' = stored, ever' = ever,
           \A w \in Worker :
             /\ job'[w].listed \in {job[w].listed, {}}
             /\ job'[w].drop \in {job[w].drop, {}}
             /\ job'[w].phase = "delete" =>
                  job[w].phase = "delete" /\ job'[w].listed = job[w].listed
                  /\ job'[w].drop = job[w].drop /\ job'[w].at = job[w].at
    PROVE  PruneInv'
<1>1. GoneInv'
    BY DEF PruneInv, GoneInv, Superseded
<1>2. DropInv'
    BY DEF PruneInv, DropInv, Superseded
<1>3. ThinInv'
    BY DEF PruneInv, ThinInv
<1> QED BY <1>1, <1>2, <1>3 DEF PruneInv

LEMMA PruneInvStep == TypeOK /\ PruneInv /\ [Next]_vars => PruneInv'
<1> SUFFICES ASSUME TypeOK, PruneInv, [Next]_vars PROVE PruneInv'
    OBVIOUS
<1> USE PruneAssumption
<1>1. ASSUME NEW p \in {"serve", "prune"}, open(p) PROVE PruneInv'
    BY <1>1, PruneInvQuiet DEF open
<1>2. CASE close
    BY <1>2, PruneInvQuiet DEF close
<1>3. CASE crash
    BY <1>3, PruneInvQuiet DEF crash, IdleJob
<1>4. ASSUME NEW w \in Handler, NEW s \in SnapshotId, put_manifest(w, s)
      PROVE  PruneInv'
  <2>1. /\ stored' = stored \cup {s} /\ ever' = ever \cup {s} /\ s \notin ever
        /\ \A v \in Worker :
              \/ job'[v] = job[v]
              \/ job'[v].phase = "committed" /\ job'[v].listed = {} /\ job'[v].drop = {}
    <3>1. stored' = stored \cup {s} /\ ever' = ever \cup {s} /\ s \notin ever
        BY <1>4 DEF put_manifest
    <3> DEFINE J == [IdleJob EXCEPT !.phase = "committed", !.reply = s]
    <3>2. J.phase = "committed" /\ J.listed = {} /\ J.drop = {}
        BY DEF IdleJob
    <3>3. job' = job \/ job' = [job EXCEPT ![w] = J]
        BY <1>4 DEF put_manifest
    <3> HIDE DEF J
    <3>4. ASSUME NEW v \in Worker PROVE job'[v] = job[v] \/ job'[v] = J
        BY <3>3 DEF TypeOK
    <3> QED BY <3>1, <3>2, <3>4
  <2>2. GoneInv'
      BY <2>1 DEF PruneInv, GoneInv, Superseded
  <2>3. DropInv'
      BY <2>1 DEF PruneInv, DropInv, Superseded
  <2>4. ThinInv'
    <3> SUFFICES ASSUME NEW v \in Worker, job'[v].phase = "delete"
                 PROVE  job'[v].listed \cap stored' \subseteq
                          job'[v].drop \cup Survivors(job'[v].at, job'[v].listed, UlidTime)
        BY DEF ThinInv, Survivors, SameCell, Beats
    <3>1. job'[v] = job[v]
        BY <2>1
    <3>2. job[v].listed \cap stored' = job[v].listed \cap stored
        BY <2>1 DEF PruneInv, DropInv
    <3> QED BY <3>1, <3>2 DEF PruneInv, ThinInv
  <2> QED BY <2>1, <2>2, <2>3, <2>4 DEF PruneInv
<1>5. ASSUME NEW w \in Handler, hang_up(w) PROVE PruneInv'
    BY <1>5, PruneInvQuiet DEF hang_up, IdleJob, TypeOK, Worker, Job
<1>6. ASSUME NEW w \in Worker, call_prune(w) PROVE PruneInv'
    BY <1>6, PruneInvQuiet DEF call_prune, TypeOK, Job
<1>7. ASSUME NEW w \in Worker, list_snapshots(w) PROVE PruneInv'
  <2> DEFINE D == ToDrop(job[w].at, stored)
  <2>1. /\ stored' = stored /\ ever' = ever
        /\ job'[w].listed = stored /\ job'[w].drop = D /\ job'[w].at = job[w].at
        /\ \A v \in Worker : v # w => job'[v] = job[v]
      BY <1>7 DEF list_snapshots, TypeOK, Job
  <2>2. D \subseteq stored /\ \A s \in D : Superseded(s)
      BY DroppedHasNewer DEF ToDrop, TypeOK, Job, PruneInv, Superseded
  <2>3. stored \subseteq D \cup Survivors(job[w].at, stored, UlidTime)
      BY DEF ToDrop
  <2> HIDE DEF D
  <2>4. GoneInv'
      BY <2>1 DEF PruneInv, GoneInv, Superseded
  <2>5. DropInv'
      BY <2>1, <2>2 DEF PruneInv, DropInv, Superseded
  <2>6. ThinInv'
      BY <2>1, <2>3 DEF PruneInv, ThinInv
  <2> QED BY <2>1, <2>4, <2>5, <2>6 DEF PruneInv
<1>8. ASSUME NEW w \in Worker, NEW s \in SnapshotId, delete_snapshot(w, s)
      PROVE  PruneInv'
  <2>1. /\ stored' = stored \ {s} /\ ever' = ever /\ s \in job[w].drop
        /\ \A v \in Worker : /\ job'[v].phase = job[v].phase
                             /\ job'[v].at = job[v].at
                             /\ job'[v].listed = job[v].listed
                             /\ v # w => job'[v].drop = job[v].drop
        /\ job'[w].drop = job[w].drop \ {s}
      BY <1>8 DEF delete_snapshot, TypeOK, Job
  <2>2. GoneInv'
      BY <2>1 DEF PruneInv, GoneInv, DropInv, Superseded
  <2>3. DropInv'
    <3> SUFFICES ASSUME NEW v \in Worker
                 PROVE  /\ job'[v].listed \subseteq ever
                        /\ job'[v].drop \subseteq job[v].drop
        BY <2>1 DEF PruneInv, DropInv, Superseded
    <3> QED BY <2>1 DEF PruneInv, DropInv
  <2>4. ThinInv'
      BY <2>1 DEF PruneInv, ThinInv
  <2> QED BY <2>1, <2>2, <2>3, <2>4 DEF PruneInv
<1>9. ASSUME NEW w \in Worker, record_prune(w) PROVE PruneInv'
    BY <1>9, PruneInvQuiet DEF record_prune, Return, IdleJob, TypeOK
<1>10. ASSUME NEW w \in Worker, prune_error(w) PROVE PruneInv'
    BY <1>10, PruneInvQuiet DEF prune_error, Return, IdleJob, TypeOK
<1>11. CASE tick
    BY <1>11, PruneInvQuiet DEF tick
<1>12. CASE UNCHANGED vars
    BY <1>12, PruneInvQuiet DEF vars
<1> QED BY <1>1, <1>2, <1>3, <1>4, <1>5, <1>6, <1>7, <1>8, <1>9, <1>10,
           <1>11, <1>12 DEF Next

LEMMA PruneInvariant == Spec => [](TypeOK /\ PruneInv)
<1>1. Spec => []TypeOK
    BY TypeCorrect
<1>2. Init => PruneInv
    BY PruneInvInit
<1>3. TypeOK /\ PruneInv /\ [Next]_vars => PruneInv'
    BY PruneInvStep
<1> QED BY <1>1, <1>2, <1>3, PTL DEF Spec

(***************************************************************************)
(* The newest snapshot ever accepted stays stored, with any number of      *)
(* prunes running on stale lists, errors and crashes.                      *)
(***************************************************************************)
THEOREM NewestIsNeverPruned == Spec => []NewestSurvives
<1>1. TypeOK /\ PruneInv => NewestSurvives
  <2> SUFFICES ASSUME TypeOK, PruneInv, NEW s \in ever, s \notin stored,
                      \A r \in ever : r <= s
               PROVE  FALSE
      BY DEF NewestSurvives
  <2>1. PICK r \in ever : s < r
      BY DEF PruneInv, GoneInv, Superseded, Newer
  <2>2. r \in Nat /\ s \in Nat /\ r <= s
      BY PruneAssumption DEF TypeOK
  <2> QED BY <2>1, <2>2
<1> QED BY <1>1, PruneInvariant, PTL

(***************************************************************************)
(* On a grid whose cells nest, the newest snapshot ever accepted in each   *)
(* cell of the coarsest tier stays stored.                                 *)
(***************************************************************************)
THEOREM HistoryStaysCovered ==
    ASSUME Nested
    PROVE  Spec => []HistoryCovered
<1>1. TypeOK /\ PruneInv => HistoryCovered
  <2> SUFFICES ASSUME TypeOK, PruneInv, NEW s \in ever, s \notin stored,
                      \A r \in ever : SameCoarse(r, s) => r <= s
               PROVE  FALSE
      BY DEF HistoryCovered
  <2>1. PICK r \in ever : s < r /\ SameCoarse(s, r)
      BY DEF PruneInv, GoneInv, Superseded, Newer
  <2>2. r \in Nat /\ s \in Nat /\ r <= s
      BY <2>1, PruneAssumption DEF TypeOK, SameCoarse
  <2> QED BY <2>1, <2>2
<1> QED BY <1>1, PruneInvariant, PTL

(***************************************************************************)
(* A prune with nothing left to drop leaves at most one of the snapshots   *)
(* it listed in each grid cell.                                            *)
(***************************************************************************)
THEOREM PruneThins == Spec => []PruneThinned
<1>1. TypeOK /\ PruneInv => PruneThinned
  <2> SUFFICES ASSUME TypeOK, PruneInv, Tiers # <<>>, NEW w \in Worker,
                      job[w].phase = "delete", job[w].drop = {},
                      NEW r \in job[w].listed \cap stored,
                      NEW s \in job[w].listed \cap stored,
                      SameCell(job[w].at, UlidTime[r], UlidTime[s])
               PROVE  r = s
      BY DEF PruneThinned
  <2>1. /\ r \in Survivors(job[w].at, job[w].listed, UlidTime)
        /\ s \in Survivors(job[w].at, job[w].listed, UlidTime)
      BY DEF PruneInv, ThinInv
  <2>2. SameCell(job[w].at, UlidTime[s], UlidTime[r])
      BY DEF SameCell
  <2>3. Beats(UlidTime, r, s) /\ Beats(UlidTime, s, r)
      BY <2>1, <2>2 DEF Survivors
  <2>4. r \in Nat /\ s \in Nat /\ UlidTime[r] \in Nat /\ UlidTime[s] \in Nat
      BY PruneAssumption DEF TypeOK
  <2> QED BY <2>3, <2>4 DEF Beats
<1> QED BY <1>1, PruneInvariant, PTL
=============================================================================
