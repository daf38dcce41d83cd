------------------------------- MODULE Prune -------------------------------
(***************************************************************************)
(* Accepting and thinning snapshots: PutManifest with the prune that       *)
(* follows it (service.rs), the daily prune timer, the prune command       *)
(* (main.rs), and ChunkStore::prune (store.rs), which all of them call.    *)
(*                                                                         *)
(* A prune is several transactions: the caller samples the clock, the      *)
(* store lists the snapshots and plans, each snapshot to drop is deleted   *)
(* in a transaction of its own, and the run is recorded in another one.    *)
(* Prunes of different workers interleave, each with the list it read.     *)
(* What deleting a snapshot does to the chunks is in module ChunkStore.    *)
(***************************************************************************)
EXTENDS Retention, FiniteSets

CONSTANTS
    SnapshotId,     \* ULIDs, as numbers in ULID order
    UlidTime,       \* the time part of each
    Handler,        \* tasks that serve PutManifest, several clients at once
    Timer,          \* the daily prune task
    Operator,       \* the prune command
    AutoPrune,      \* the auto_prune setting of daemon.toml
    Skew,           \* how far ahead of the daemon a client's clock may be
    MaxTime,        \* bound on the clock
    None

Worker == Handler \cup {Timer, Operator}

\* ULIDs sort by their time part first.
ASSUME PruneAssumption ==
    /\ SnapshotId \subseteq Nat
    /\ UlidTime \in [SnapshotId -> Nat]
    /\ \A r, s \in SnapshotId : r <= s => UlidTime[r] <= UlidTime[s]
    /\ Timer \notin Handler /\ Operator \notin Handler /\ Timer # Operator
    /\ AutoPrune \in BOOLEAN
    /\ Skew \in Nat
    /\ MaxTime \in Nat
    /\ None \notin SnapshotId

VARIABLES
    stored,         \* the keys of SNAPSHOTS
    lastPrune,      \* STATUS_META "last_prune", or None
    job,            \* what each worker is doing
    proc,           \* the process that has the store open
    now,            \* the daemon's clock
    ever,           \* history: the snapshots ever committed
    acked           \* history: the snapshots whose PutManifest returned OK

vars == <<stored, lastPrune, job, proc, now, ever, acked>>

Phase == {"idle", "committed", "list", "delete"}

\* reply is the snapshot whose PutManifest call waits for this worker; listed
\* and drop are what list_snapshots returned and the rest of plan.drop.
Job == [phase : Phase, at : Nat, reply : SnapshotId \cup {None},
        listed : SUBSET SnapshotId, drop : SUBSET SnapshotId]

IdleJob == [phase |-> "idle", at |-> 0, reply |-> None, listed |-> {}, drop |-> {}]

Mode(w) == IF w = Operator THEN "manual" ELSE "auto"

TypeOK ==
    /\ stored \subseteq SnapshotId
    /\ lastPrune \in [at : Nat, mode : {"auto", "manual"}] \cup {None}
    /\ job \in [Worker -> Job]
    /\ proc \in {"serve", "prune", None}
    /\ now \in 0 .. MaxTime
    /\ ever \subseteq SnapshotId
    /\ acked \subseteq SnapshotId

Init ==
    /\ stored = {}
    /\ lastPrune = None
    /\ job = [w \in Worker |-> IdleJob]
    /\ proc = None
    /\ now = 0
    /\ ever = {}
    /\ acked = {}

-----------------------------------------------------------------------------
\* Two processes never have the store open at once.
open(p) ==
    /\ proc = None
    /\ proc' = p
    /\ UNCHANGED <<stored, lastPrune, job, now, ever, acked>>

\* A process that ends in order lets its workers finish.
close ==
    /\ proc # None
    /\ \A w \in Worker : job[w].phase = "idle"
    /\ proc' = None
    /\ UNCHANGED <<stored, lastPrune, job, now, ever, acked>>

crash ==
    /\ proc # None
    /\ proc' = None
    /\ job' = [w \in Worker |-> IdleJob]
    /\ UNCHANGED <<stored, lastPrune, now, ever, acked>>

-----------------------------------------------------------------------------
(***************************************************************************)
(* PutManifest: the snapshot is committed; with auto_prune the call then   *)
(* waits for a prune, whatever comes of it, before it returns OK.  Every   *)
(* backup mints its own ULID when it starts, maybe long before this call.  *)
(***************************************************************************)
put_manifest(w, s) ==
    /\ proc = "serve"
    /\ job[w].phase = "idle"
    /\ s \notin ever
    /\ UlidTime[s] <= now + Skew
    /\ stored' = stored \cup {s}
    /\ ever' = ever \cup {s}
    /\ IF AutoPrune
       THEN /\ job' = [job EXCEPT ![w] = [IdleJob EXCEPT !.phase = "committed",
                                                         !.reply = s]]
            /\ acked' = acked
       ELSE /\ acked' = acked \cup {s}
            /\ job' = job
    /\ UNCHANGED <<lastPrune, proc, now>>

\* The client hangs up: a prune that has started goes on, one that has not
\* never starts.
hang_up(w) ==
    /\ job[w].reply # None
    /\ job' = [job EXCEPT ![w] = IF @.phase = "committed" THEN IdleJob
                                 ELSE [@ EXCEPT !.reply = None]]
    /\ UNCHANGED <<stored, lastPrune, proc, now, ever, acked>>

\* The call to prune: its caller samples the clock.
call_prune(w) ==
    /\ \/ w \in Handler /\ job[w].phase = "committed"
       \/ w = Timer /\ proc = "serve" /\ AutoPrune /\ job[w].phase = "idle"
       \/ w = Operator /\ proc = "prune" /\ job[w].phase = "idle"
    /\ job' = [job EXCEPT ![w].phase = "list", ![w].at = now]
    /\ UNCHANGED <<stored, lastPrune, proc, now, ever, acked>>

ToDrop(at, S) == S \ Survivors(at, S, UlidTime)

\* list_snapshots and plan.
list_snapshots(w) ==
    /\ job[w].phase = "list"
    /\ job' = [job EXCEPT ![w].phase = "delete", ![w].listed = stored,
                          ![w].drop = ToDrop(job[w].at, stored)]
    /\ UNCHANGED <<stored, lastPrune, proc, now, ever, acked>>

\* MUTANT: a snapshot that is already gone ends the loop.
delete_snapshot_StopsAtGone(w, s) ==
    /\ job[w].phase = "delete"
    /\ s \in job[w].drop
    /\ \A r \in job[w].drop : s <= r
    /\ stored' = stored \ {s}
    /\ job' = [job EXCEPT ![w].drop = IF s \in stored THEN @ \ {s} ELSE {}]
    /\ UNCHANGED <<lastPrune, proc, now, ever, acked>>

\* plan.drop is in list order; a snapshot that is already gone is passed over.
delete_snapshot(w, s) ==
    /\ job[w].phase = "delete"
    /\ s \in job[w].drop
    /\ \A r \in job[w].drop : s <= r
    /\ stored' = stored \ {s}
    /\ job' = [job EXCEPT ![w].drop = @ \ {s}]
    /\ UNCHANGED <<lastPrune, proc, now, ever, acked>>

\* MUTANT: a reply is sent even when nobody waits for one.
Return_Always(w) ==
    /\ job' = [job EXCEPT ![w] = IdleJob]
    /\ acked' = acked \cup {job[w].reply}

\* The worker is done; PutManifest returns OK if its client still listens.
Return(w) ==
    /\ job' = [job EXCEPT ![w] = IdleJob]
    /\ acked' = acked \cup ({job[w].reply} \ {None})

record_prune(w) ==
    /\ job[w].phase = "delete"
    /\ job[w].drop = {}
    /\ lastPrune' = [at |-> job[w].at, mode |-> Mode(w)]
    /\ Return(w)
    /\ UNCHANGED <<stored, proc, now, ever>>

\* A storage error ends the prune where it is, unrecorded.  It is logged; the
\* backup stays a success and the timer goes on.
prune_error(w) ==
    /\ job[w].phase \in {"list", "delete"}
    /\ Return(w)
    /\ UNCHANGED <<stored, lastPrune, proc, now, ever>>

tick ==
    /\ now < MaxTime
    /\ now' = now + 1
    /\ UNCHANGED <<stored, lastPrune, job, proc, ever, acked>>

Next ==
    \/ \E p \in {"serve", "prune"} : open(p)
    \/ close
    \/ crash
    \/ \E w \in Handler, s \in SnapshotId : put_manifest(w, s)
    \/ \E w \in Handler : hang_up(w)
    \/ \E w \in Worker : call_prune(w)
    \/ \E w \in Worker : list_snapshots(w)
    \/ \E w \in Worker, s \in SnapshotId : delete_snapshot(w, s)
    \/ \E w \in Worker : record_prune(w)
    \/ \E w \in Worker : prune_error(w)
    \/ tick

Spec == Init /\ [][Next]_vars

-----------------------------------------------------------------------------
(***************************************************************************)
(* What thinning leaves.                                                   *)
(***************************************************************************)
\* Each tier's cells are unions of the cells of the tier before it, as the
\* default grid's are (3 h, 1 d, 4 d, 16 d).
Nested ==
    \A i, j \in DOMAIN Tiers : \A a, b \in Nat :
        i <= j /\ Cell(i, a) = Cell(i, b) => Cell(j, a) = Cell(j, b)

\* The two snapshots are in one cell of the last, coarsest tier.
SameCoarse(r, s) == Cell(Len(Tiers), UlidTime[r]) = Cell(Len(Tiers), UlidTime[s])

\* The newest snapshot ever accepted is never pruned, whatever prunes run
\* against each other with whatever lists, errors and crashes.
NewestSurvives ==
    \A s \in ever : (\A r \in ever : r <= s) => s \in stored

\* No stretch of history is lost: of every cell of the coarsest tier in which
\* a snapshot was ever accepted the newest is still stored.
HistoryCovered ==
    \A s \in ever : (\A r \in ever : SameCoarse(r, s) => r <= s) => s \in stored

\* A prune that comes to be recorded was carried out: of the snapshots it
\* listed no two that share a grid cell are left, although others ran between.
PruneThinned ==
    Tiers # <<>> =>
      \A w \in Worker : job[w].phase = "delete" /\ job[w].drop = {} =>
        \A r, s \in job[w].listed \cap stored :
          SameCell(job[w].at, UlidTime[r], UlidTime[s]) => r = s

\* "Back up a configured folder tree -> snapshot appears in daemon version
\* list" (PRD FR2): a snapshot is listed when its PutManifest returns OK.
AcknowledgedIsListed == [][acked' \ acked \subseteq stored']_vars
=============================================================================
