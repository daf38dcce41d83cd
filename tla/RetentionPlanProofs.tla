------------------------ MODULE RetentionPlanProofs ------------------------
(***************************************************************************)
(* retention::plan keeps exactly the grid's survivors, for every policy,   *)
(* every list and every instant.                                           *)
(***************************************************************************)
EXTENDS RetentionPlan, TLAPS

Seen == 1 .. idx - 1

\* The loop invariant: each slot of `best' holds a snapshot already seen, of
\* that slot, that no seen snapshot of the slot beats; and each snapshot seen
\* has a slot.
SlotSound(k) ==
    /\ best[k].idx \in Seen
    /\ best[k].time = snapshots[best[k].idx]
    /\ Key(snapshots[best[k].idx]) = k
    /\ \A j \in Seen : Key(snapshots[j]) = k => Beats(snapshots, best[k].idx, j)
LoopInv ==
    /\ TypeOK
    /\ Tiers # <<>> => /\ \A k \in DOMAIN best : SlotSound(k)
                       /\ \A j \in Seen : Key(snapshots[j]) \in DOMAIN best

\* Equal keys and sharing a cell are the same thing.
LEMMA KeyIsCell ==
    ASSUME NEW a, NEW b
    PROVE  SameCell(now_ms, a, b) <=> Key(a) = Key(b)
BY DEF SameCell, Key

LEMMA LoopInvInit == Init => LoopInv
<1> SUFFICES ASSUME Init PROVE LoopInv
    OBVIOUS
<1> USE PlanAssumption
<1>1. Len(snapshots) \in Nat /\ DOMAIN snapshots = 1 .. Len(snapshots)
    BY DEF Init
<1>2. DOMAIN best = {}
    BY DEF Init
<1>3. TypeOK
    BY <1>1, <1>2 DEF Init, TypeOK
<1>4. Tiers # <<>> => Seen = {}
    BY DEF Init, Seen
<1> QED BY <1>2, <1>3, <1>4 DEF LoopInv

LEMMA LoopInvStep == LoopInv /\ [Next]_vars => LoopInv'
<1> SUFFICES ASSUME LoopInv, [Next]_vars PROVE LoopInv'
    OBVIOUS
<1> USE PlanAssumption
<1>0. /\ Len(snapshots) \in Nat
      /\ DOMAIN snapshots = 1 .. Len(snapshots)
      /\ idx \in 1 .. Len(snapshots) + 1
      /\ \A j \in DOMAIN snapshots : snapshots[j] \in Int
    BY DEF LoopInv, TypeOK
<1>1. CASE insert
  <2> DEFINE key == Key(snapshots[idx])
  <2>1. /\ idx \in DOMAIN snapshots
        /\ idx' = idx + 1
        /\ snapshots' = snapshots /\ now_ms' = now_ms
        /\ \A x : Key(x)' = Key(x)
        /\ Seen' = Seen \cup {idx}
        /\ Seen \subseteq DOMAIN snapshots
        /\ idx \notin Seen
    BY <1>0, <1>1 DEF insert, Seen, Key
  <2>2. /\ DOMAIN best' = DOMAIN best \cup {key}
        /\ best'[key] = [time |-> snapshots[idx], idx |-> idx]
        /\ \A k \in DOMAIN best : k # key => best'[k] = best[k]
    BY <1>1 DEF insert, Winner
  <2>3. TypeOK'
    BY <1>0, <2>1, <2>2, <1>1 DEF LoopInv, TypeOK, insert, Winner
  <2>4. ASSUME Tiers # <<>>, NEW k \in DOMAIN best' PROVE SlotSound(k)'
    <3>1. CASE k = key
      <4>1. /\ best'[k].idx = idx
            /\ best'[k].time = snapshots[idx]
        BY <2>2, <3>1
      <4>2. ASSUME NEW j \in Seen, Key(snapshots[j]) = key
            PROVE  snapshots[j] <= snapshots[idx] /\ j <= idx
        <5>1. key \in DOMAIN best /\ SlotSound(key)
            BY <2>4, <4>2 DEF LoopInv
        <5>2. ~(best[key].time > snapshots[idx])
            BY <1>1, <5>1 DEF insert, Holds
        <5>3. Beats(snapshots, best[key].idx, j)
            BY <4>2, <5>1 DEF SlotSound
        <5>4. best[key].idx \in DOMAIN snapshots /\ j \in DOMAIN snapshots
            BY <2>1, <5>1 DEF SlotSound
        <5> QED BY <1>0, <2>1, <5>1, <5>2, <5>3, <5>4 DEF SlotSound, Beats, Seen
      <4>3. ASSUME NEW j \in Seen', Key(snapshots[j]) = key
            PROVE  Beats(snapshots, idx, j)
        <5>1. j \in DOMAIN snapshots /\ snapshots[j] \in Int /\ snapshots[idx] \in Int
            BY <1>0, <2>1, <4>3
        <5>2. CASE j = idx
            BY <1>0, <5>1, <5>2 DEF Beats
        <5>3. CASE j \in Seen
            BY <1>0, <4>2, <4>3, <5>1, <5>3 DEF Beats
        <5> QED BY <2>1, <4>3, <5>2, <5>3
      <4> QED BY <2>1, <3>1, <4>1, <4>3 DEF SlotSound, Beats
    <3>2. CASE k # key
      <4>1. k \in DOMAIN best /\ best'[k] = best[k] /\ SlotSound(k)
        BY <2>2, <2>4, <3>2 DEF LoopInv
      <4> QED BY <2>1, <3>2, <4>1 DEF SlotSound, Beats
    <3> QED BY <3>1, <3>2
  <2>5. ASSUME Tiers # <<>>, NEW j \in Seen' PROVE (Key(snapshots[j]) \in DOMAIN best)'
    BY <2>1, <2>2, <2>5 DEF LoopInv
  <2> QED BY <2>3, <2>4, <2>5 DEF LoopInv
<1>2. CASE skip
  <2>1. /\ idx \in DOMAIN snapshots
        /\ idx' = idx + 1
        /\ snapshots' = snapshots /\ now_ms' = now_ms /\ best' = best
        /\ \A x : Key(x)' = Key(x)
        /\ Seen' = Seen \cup {idx}
    BY <1>0, <1>2 DEF skip, Seen, Key
  <2>2. TypeOK'
    BY <1>0, <2>1 DEF LoopInv, TypeOK
  <2>3. ASSUME Tiers # <<>>, NEW k \in DOMAIN best PROVE SlotSound(k)'
    <3>1. SlotSound(k)
        BY <2>3 DEF LoopInv
    <3>2. Key(snapshots[idx]) = k => snapshots[idx] < best[k].time
        <4>1. best[Key(snapshots[idx])].time > snapshots[idx]
            BY <1>2 DEF skip, Holds
        <4> QED BY <4>1, <1>0, <2>1, <3>1 DEF SlotSound, Seen
    <3> QED BY <2>1, <3>1, <3>2 DEF SlotSound, Beats
  <2>4. ASSUME Tiers # <<>>, NEW j \in Seen' PROVE (Key(snapshots[j]) \in DOMAIN best)'
    <3>1. Key(snapshots[idx]) \in DOMAIN best
        BY <1>2 DEF skip, Holds
    <3> QED BY <2>1, <2>4, <3>1 DEF LoopInv
  <2> QED BY <2>1, <2>2, <2>3, <2>4 DEF LoopInv
<1>3. CASE UNCHANGED vars
    BY <1>3 DEF LoopInv, TypeOK, SlotSound, Seen, Key, Beats, vars
<1> QED BY <1>1, <1>2, <1>3 DEF Next

LEMMA LoopInvariant == Spec => []LoopInv
BY LoopInvInit, LoopInvStep, PTL DEF Spec

(***************************************************************************)
(* The loop never runs past the list, and what it holds in `best' are      *)
(* places of the list.                                                     *)
(***************************************************************************)
THEOREM TypeCorrect == Spec => []TypeOK
<1>1. LoopInv => TypeOK
    BY DEF LoopInv
<1> QED BY <1>1, LoopInvariant, PTL

LEMMA LoopInvPlan == LoopInv => PlanKeepsSurvivors
<1> SUFFICES ASSUME LoopInv, Done
             PROVE  keep = Survivors(now_ms, DOMAIN snapshots, snapshots)
    BY DEF PlanKeepsSurvivors
<1> USE PlanAssumption
<1>0. /\ Len(snapshots) \in Nat
      /\ DOMAIN snapshots = 1 .. Len(snapshots)
      /\ Seen = DOMAIN snapshots
      /\ \A j \in DOMAIN snapshots : snapshots[j] \in Int
    BY DEF LoopInv, TypeOK, Done, Seen
<1>1. CASE Tiers = <<>>
    BY <1>1 DEF keep, Survivors
<1>2. CASE Tiers # <<>>
  <2>1. ASSUME NEW k \in DOMAIN best
        PROVE  best[k].idx \in Survivors(now_ms, DOMAIN snapshots, snapshots)
    <3>1. SlotSound(k)
        BY <1>2 DEF LoopInv
    <3> QED BY <1>0, <3>1, KeyIsCell DEF SlotSound, Survivors
  <2>2. ASSUME NEW i \in Survivors(now_ms, DOMAIN snapshots, snapshots)
        PROVE  \E k \in DOMAIN best : best[k].idx = i
    <3> DEFINE k == Key(snapshots[i])
    <3>1. i \in DOMAIN snapshots /\ k \in DOMAIN best /\ SlotSound(k)
        BY <1>0, <1>2 DEF LoopInv, Survivors
    <3>2. best[k].idx \in DOMAIN snapshots /\ Key(snapshots[best[k].idx]) = k
        BY <1>0, <3>1 DEF SlotSound
    <3>3. Beats(snapshots, best[k].idx, i)
        BY <1>0, <3>1 DEF SlotSound
    <3>4. Beats(snapshots, i, best[k].idx)
        BY <1>2, <3>2, KeyIsCell DEF Survivors
    <3>5. best[k].idx = i
        BY <1>0, <3>1, <3>2, <3>3, <3>4 DEF Beats
    <3> QED BY <3>1, <3>5
  <2> QED BY <1>2, <2>1, <2>2 DEF keep
<1> QED BY <1>1, <1>2

(***************************************************************************)
(* plan's single pass with the hash map keeps exactly the survivors of the *)
(* grid: for every tier list, input order, tie and instant.                *)
(***************************************************************************)
THEOREM PlanIsTheGrid == Spec => []PlanKeepsSurvivors
BY LoopInvariant, LoopInvPlan, PTL

(***************************************************************************)
(* Each occupied (tier, cell) is left with exactly one snapshot, its       *)
(* newest.                                                                 *)
(***************************************************************************)
THEOREM OnePerCell == Spec => []OneSurvivorPerCell
<1>1. LoopInv => OneSurvivorPerCell
  <2> SUFFICES ASSUME LoopInv, Done, Tiers # <<>>, NEW i \in DOMAIN snapshots
               PROVE  \E k \in keep :
                        /\ SameCell(now_ms, snapshots[i], snapshots[k])
                        /\ snapshots[i] <= snapshots[k]
                        /\ \A m \in keep :
                              SameCell(now_ms, snapshots[i], snapshots[m]) => m = k
      BY DEF OneSurvivorPerCell
  <2> USE PlanAssumption
  <2> DEFINE slot == Key(snapshots[i])
             k == best[slot].idx
  <2>0. /\ Len(snapshots) \in Nat
        /\ Seen = DOMAIN snapshots
        /\ \A j \in DOMAIN snapshots : snapshots[j] \in Int
      BY DEF LoopInv, TypeOK, Done, Seen
  <2>1. slot \in DOMAIN best /\ SlotSound(slot)
      BY <2>0 DEF LoopInv
  <2>2. k \in keep /\ k \in DOMAIN snapshots /\ Key(snapshots[k]) = slot
      BY <2>0, <2>1 DEF keep, SlotSound
  <2>3. snapshots[i] <= snapshots[k]
      BY <2>0, <2>1, <2>2 DEF SlotSound, Beats
  <2>4. ASSUME NEW m \in keep, SameCell(now_ms, snapshots[i], snapshots[m])
        PROVE  m = k
    <3>1. PICK q \in DOMAIN best : m = best[q].idx
        BY DEF keep
    <3>2. SlotSound(q)
        BY DEF LoopInv
    <3>3. q = slot
        BY <2>4, <3>1, <3>2, KeyIsCell DEF SlotSound
    <3> QED BY <3>1, <3>3
  <2> QED BY <2>2, <2>3, <2>4, KeyIsCell
<1> QED BY <1>1, LoopInvariant, PTL

(***************************************************************************)
(* Planning what a plan kept, at the same instant, keeps all of it.        *)
(***************************************************************************)
THEOREM PlanIsIdempotent == Spec => []Idempotent
<1>1. PlanKeepsSurvivors => Idempotent
    BY DEF PlanKeepsSurvivors, Idempotent, Survivors
<1> QED BY <1>1, PlanIsTheGrid, PTL
=============================================================================
