------------------------- MODULE SafeScalingProofs -------------------------
(***************************************************************************)
(* Why no member leaves a Coherence cluster that has no backup of some     *)
(* partition, for every size, number of edits and faults: the theorems     *)
(* about NoDataLoss and OneMemberLeavesAtATime of StatefulSetReconciler,   *)
(* and the inductive invariants they need.                                 *)
(***************************************************************************)
EXTENDS StatefulSetReconcilerProofs

\* What both theorems need: a policy that probes before it takes a member out,
\* and a user who waits for an edit to be rolled out (the run StsScaleMidRoll
\* shows what happens otherwise).  Reads may lag, but not those of a StatefulSet
\* that an operator <= 3.4.3 made.
Orderly ==
    /\ Policy # "Parallel"
    /\ ~EditsOverlap
    /\ ~(StaleReads /\ LegacyStatefulSet)

(***************************************************************************)
(* Three kinds of Pods stand between the cluster and what was asked for.   *)
(***************************************************************************)

\* The Pods a rolling upgrade still has to replace.
Outdated ==
    {i \in Ordinals : /\ sts.partition <= i
                      /\ i < sts.replicas
                      /\ pods[i].state # "None"
                      /\ pods[i].rev # sts.rev}

\* The members the cluster should have and does not have.
Unready == {i \in Ordinals : i < sts.replicas /\ pods[i].state # "Ready"}

\* The Pods that scaling down takes away.
Surplus == {i \in Ordinals : i >= sts.replicas /\ pods[i].state # "None"}

\* What a probe of the cluster finds out.
Whole == Surplus = {} /\ Unready = {} /\ ~endangered

(***************************************************************************)
(* The inductive invariant about the size, in parts.                       *)
(***************************************************************************)

\* The hash label tells whether the template has been patched.
HashTells == sts.hash = coh.hash => sts.rev = coh.rev

\* There is one Pod too many at most.
OneOver == \A i \in Surplus : i = sts.replicas

\* Scaling does not overlap a rolling upgrade, and each direction starts from
\* what the other direction leaves.
ScalesQuietly ==
    /\ sts.replicas # coh.replicas =>
         /\ Outdated = {}
         /\ \A i \in Unready : pods[i].state # "Terminating"
    /\ sts.replicas < coh.replicas => Surplus = {}
    /\ sts.replicas > coh.replicas => Unready = {}

SizeInv == HashTells /\ OneOver /\ ScalesQuietly

\* When the replica count is about to be patched down, the Pod that went before
\* has gone: what the probe counted is still so.
ActsOnCount ==
    op.step = "scale" /\ op.seen.spec = sts /\ store.replicas < sts.replicas
      => Surplus = {}

(***************************************************************************)
(* The inductive invariant about the data, on top of it.                   *)
(***************************************************************************)

\* A member leaves, for good or to be replaced, when all others are up and safe.
LeavesFromWhole ==
    /\ \A i \in Surplus : /\ pods[i].state \in {"Ready", "Terminating"}
                          /\ Unready = {}
                          /\ ~endangered
                          /\ Outdated = {}
    /\ \A i \in Unready : pods[i].state = "Terminating"
                            => Unready = {i} /\ ~endangered

\* A rolling upgrade goes down the ordinals with at most one member missing.
RollsDown ==
    Outdated # {} =>
      /\ \A i \in Outdated : /\ pods[i].state \in {"Ready", "Terminating"}
                             /\ \A j \in Unready : i <= j
      /\ \A j, k \in Unready : j = k
      /\ endangered => Unready # {}

\* Until the template is patched nothing is rolled and there are Pods to probe.
UpgradesQuietly ==
    sts.hash # coh.hash => Outdated = {} /\ pods[0].state = "Ready"

DataInv == LeavesFromWhole /\ RollsDown /\ UpgradesQuietly /\ NoDataLoss

\* What a probe said is still true when the patch is made.
ActsOnWhole ==
    op.step # "idle" /\ op.seen.spec = sts =>
      /\ op.step = "patch" => Whole /\ sts.hash # store.hash
      /\ op.step = "scale" /\ store.replicas < sts.replicas => Whole

-----------------------------------------------------------------------------
\* The types the proofs use.
LEMMA Types ==
    ASSUME IInv
    PROVE  /\ MaxReplicas \in Nat \ {0}
           /\ Ordinals = 0 .. MaxReplicas - 1
           /\ 0 \in Ordinals
           /\ sts \in StsSpec
           /\ sts.replicas \in 1 .. MaxReplicas
           /\ sts.partition \in 0 .. MaxReplicas
           /\ coh \in Desired
           /\ coh.replicas \in 1 .. MaxReplicas
           /\ store \in Desired
           /\ store.replicas \in 1 .. MaxReplicas
           /\ pods \in [Ordinals -> Pod]
           /\ op.seen.spec \in StsSpec
<1>1. MaxReplicas \in Nat \ {0} /\ Ordinals = 0 .. MaxReplicas - 1 /\ 0 \in Ordinals
  BY BoundsAssumption DEF Ordinals
<1>2. /\ sts \in StsSpec
      /\ coh \in Desired
      /\ store \in Desired
      /\ pods \in [Ordinals -> Pod]
      /\ op.seen.spec \in StsSpec
  BY DEF IInv, TypeOK, Read
<1>3. /\ sts.replicas \in 1 .. MaxReplicas
      /\ sts.partition \in 0 .. MaxReplicas
      /\ coh.replicas \in 1 .. MaxReplicas
      /\ store.replicas \in 1 .. MaxReplicas
  BY <1>2 DEF StsSpec, Desired
<1>. QED
  BY <1>1, <1>2, <1>3

\* The operator's StatusHA check of a cluster that has the members it should have
\* finds that it has no other: the count of the Pods matters.
LEMMA ProbeCounts ==
    ASSUME IInv, OneOver, Unready = {}, IsStatusHA(sts.replicas)
    PROVE  Surplus = {} /\ ~endangered
<1>. DEFINE n == sts.replicas
<1>1. n \in 1 .. MaxReplicas /\ Ordinals = 0 .. MaxReplicas - 1 /\ MaxReplicas \in Nat
  BY Types
<1>2. 0 \in Existing
  BY <1>1 DEF Unready, Existing
<1>3. Cardinality(Existing) = n /\ ~endangered
  BY <1>2 DEF IsStatusHA
<1>4. SUFFICES ASSUME NEW v \in Surplus PROVE FALSE
  BY <1>3
<1>5. v = n /\ v \in Existing
  BY DEF OneOver, Surplus, Existing
<1>6. 0 .. n \subseteq Existing
  BY <1>1, <1>5 DEF Unready, Existing
<1>7. Cardinality(0 .. n) = n + 1
  <2>1. n \in Int /\ 0 \in Int
    BY <1>1
  <2>2. Cardinality(0 .. n) = IF 0 > n THEN 0 ELSE n - 0 + 1
    BY <2>1, FS_Interval
  <2>. QED
    BY <1>1, <2>2
<1>8. IsFiniteSet(Existing)
  <2>1. 0 \in Int /\ MaxReplicas - 1 \in Int
    BY <1>1
  <2>2. IsFiniteSet(0 .. MaxReplicas - 1)
    BY <2>1, FS_Interval
  <2>. QED
    BY <1>1, <2>2, FS_Subset DEF Existing
<1>9. Cardinality(0 .. n) <= Cardinality(Existing)
  BY <1>6, <1>8, FS_Subset
<1>. QED
  BY <1>1, <1>3, <1>7, <1>9

\* ... and of a cluster that has Pods at all, that it is whole.
LEMMA ProbeFindsWhole ==
    ASSUME IInv, OneOver, LeavesFromWhole, IsStatusHA(sts.replicas), Existing # {}
    PROVE  Whole
<1>. DEFINE n == sts.replicas
<1>1. /\ Existing = ReadyPods
      /\ Cardinality(Existing) = n
      /\ ~endangered
  BY DEF IsStatusHA
<1>2. n \in 1 .. MaxReplicas /\ Ordinals = 0 .. MaxReplicas - 1 /\ MaxReplicas \in Nat
  BY Types
<1>3. Surplus = {}
  BY ProbeCounts DEF LeavesFromWhole
<1>4. Existing \subseteq 0 .. n - 1
  BY <1>2, <1>3 DEF Surplus, Existing
<1>5. IsFiniteSet(0 .. n - 1) /\ Cardinality(0 .. n - 1) = n
  <2>1. n - 1 \in Int /\ 0 \in Int
    BY <1>2
  <2>2. /\ IsFiniteSet(0 .. n - 1)
        /\ Cardinality(0 .. n - 1) = IF 0 > n - 1 THEN 0 ELSE n - 1 - 0 + 1
    BY <2>1, FS_Interval
  <2>. QED
    BY <1>2, <2>2
<1>6. Existing = 0 .. n - 1
  BY <1>1, <1>4, <1>5, FS_Subset
<1>7. Unready = {}
  BY <1>1, <1>2, <1>6 DEF Unready, ReadyPods
<1>. QED
  BY <1>1, <1>3, <1>7 DEF Whole

-----------------------------------------------------------------------------
\* Both invariants hold at first: the cluster is whole and runs what was asked for.
LEMMA InitSafe == Init => SizeInv /\ ActsOnCount /\ DataInv /\ ActsOnWhole
<1>. SUFFICES ASSUME Init PROVE SizeInv /\ ActsOnCount /\ DataInv /\ ActsOnWhole
  OBVIOUS
<1>1. PICK n \in 1 .. MaxReplicas :
        /\ coh = [replicas |-> n, rev |-> 1, hash |-> 1]
        /\ sts = [replicas |-> n, rev |-> 1, hash |-> 1, partition |-> 0,
                  legacy |-> LegacyStatefulSet]
        /\ pods = [i \in Ordinals |-> IF i < n THEN [state |-> "Ready", rev |-> 1]
                                               ELSE NoPod]
        /\ endangered = FALSE
        /\ lost = FALSE
        /\ op = [step |-> "idle", who |-> "coherence", seen |-> Live]
  BY DEF Init
<1>2. /\ sts.replicas = n /\ coh.replicas = n
      /\ sts.rev = 1 /\ coh.rev = 1
      /\ sts.hash = 1 /\ coh.hash = 1
      /\ op.step = "idle"
      /\ n \in Int
  BY <1>1, BoundsAssumption
<1>3. ASSUME NEW i \in Ordinals
      PROVE  /\ pods[i].rev = 1
             /\ i < n => pods[i].state = "Ready"
             /\ i >= n => pods[i].state = "None"
  BY <1>1, <1>3, BoundsAssumption DEF NoPod, Ordinals
<1>4. Outdated = {} /\ Unready = {} /\ Surplus = {}
  BY <1>2, <1>3 DEF Outdated, Unready, Surplus
<1>5. SizeInv
  BY <1>2, <1>4 DEF SizeInv, HashTells, OneOver, ScalesQuietly
<1>6. LeavesFromWhole /\ RollsDown
  BY <1>4 DEF LeavesFromWhole, RollsDown
<1>7. UpgradesQuietly /\ NoDataLoss
  BY <1>1, <1>2 DEF UpgradesQuietly, NoDataLoss
<1>. QED
  BY <1>2, <1>5, <1>6, <1>7 DEF DataInv, ActsOnCount, ActsOnWhole

-----------------------------------------------------------------------------
(***************************************************************************)
(* Steps that change neither the resource, the StatefulSet's spec nor the  *)
(* cluster: all that can change is what a reconcile is about to do.        *)
(***************************************************************************)
LEMMA SameCluster ==
    ASSUME UNCHANGED <<coh, sts, clusterVars>>
    PROVE  /\ SizeInv => SizeInv'
           /\ DataInv => DataInv'
           /\ UNCHANGED <<Surplus, Whole>>
<1>1. UNCHANGED <<Outdated, Unready, Surplus, pods, endangered, lost, coh, sts>>
  BY DEF clusterVars, Outdated, Unready, Surplus
<1>2. SizeInv => SizeInv'
  BY <1>1 DEF SizeInv, HashTells, OneOver, ScalesQuietly
<1>3. LeavesFromWhole /\ RollsDown => LeavesFromWhole' /\ RollsDown'
  BY <1>1 DEF LeavesFromWhole, RollsDown
<1>4. UpgradesQuietly /\ NoDataLoss => UpgradesQuietly' /\ NoDataLoss'
  BY <1>1 DEF UpgradesQuietly, NoDataLoss
<1>5. UNCHANGED Whole
  BY <1>1 DEF Whole
<1>. QED
  BY <1>1, <1>2, <1>3, <1>4, <1>5 DEF DataInv

\* A reconcile that finds something to change works on the last edit.
LEMMA WorksOnLastEdit ==
    ASSUME KnowsEdit, op.step # "idle", op.seen.spec = sts,
           \/ sts.replicas # store.replicas
           \/ sts.hash # store.hash
           \/ op.step \notin {"idle", "decide"}
    PROVE  store = coh
BY DEF KnowsEdit

\* The probe before a scale patch.
LEMMA ProbedForScale ==
    ASSUME IInv, KnowsEdit, SizeInv, ProbeBeforeScale, op'.step = "scale",
           op'.seen.spec = sts, store.replicas < sts.replicas
    PROVE  /\ Surplus = {}
           /\ DataInv => Whole
<1>1. op.step # "idle" /\ op.seen.spec.replicas # store.replicas
  BY DEF ProbeBeforeScale, MustScale
<1>2. op' = [op EXCEPT !.step = "scale"]
      /\ (op.seen.spec.replicas = 1 \/ IsStatusHA(op.seen.spec.replicas))
  <2>1. ~FinishAndRequeue
    BY FinishAndRequeueType DEF IInv
  <2>. QED
    BY <2>1 DEF ProbeBeforeScale
<1>3. op.seen.spec = sts
  BY <1>2 DEF IInv, TypeOK
<1>4. IsStatusHA(sts.replicas)
  BY <1>2, <1>3, Types
<1>5. Unready = {}
  BY <1>1, <1>3, WorksOnLastEdit DEF SizeInv, ScalesQuietly
<1>6. Surplus = {} /\ ~endangered
  BY <1>4, <1>5, ProbeCounts DEF SizeInv
<1>. QED
  BY <1>5, <1>6 DEF Whole

\* The probe before a template patch.
LEMMA ProbedForPatch ==
    ASSUME HABeforeUpdate, IInv, KnowsEdit, SizeInv, DataInv,
           ProbeBeforePatch, op'.step \in {"scale", "patch"}, op'.seen.spec = sts
    PROVE  op'.step = "patch" /\ Whole /\ sts.hash # store.hash
<1>1. op.step # "idle" /\ op.seen.spec.hash # store.hash
  BY DEF ProbeBeforePatch, MayPatch
<1>2. ~AfterPatch(op.seen, TRUE)
  <2>1. op.seen \in Read
    BY DEF IInv, TypeOK
  <2>. QED
    BY <2>1, AfterPatchType DEF IInv
<1>3. op' = [op EXCEPT !.step = "patch"] /\ IsStatusHA(op.seen.spec.replicas)
  BY <1>2 DEF ProbeBeforePatch
<1>4. op'.step = "patch" /\ op.seen.spec = sts
  BY <1>3 DEF IInv, TypeOK
<1>5. store = coh
  BY <1>1, <1>4, WorksOnLastEdit
<1>6. 0 \in Existing
  BY <1>1, <1>4, <1>5, Types DEF DataInv, UpgradesQuietly, Existing
<1>. QED
  BY <1>1, <1>3, <1>4, <1>6, ProbeFindsWhole DEF SizeInv, DataInv

\* Together: such a step keeps the invariant about the size ...
LEMMA SameClusterSize ==
    ASSUME IInv, KnowsEdit, SizeInv, ActsOnCount, [Next]_vars,
           UNCHANGED <<coh, sts, clusterVars>>
    PROVE  SizeInv' /\ ActsOnCount'
<1>1. SizeInv' /\ UNCHANGED Surplus
  BY SameCluster
<1>2. SUFFICES ASSUME op'.step = "scale", op'.seen.spec = sts, store'.replicas < sts.replicas
               PROVE  Surplus = {}
  BY <1>1 DEF ActsOnCount
<1>3. CASE op'.step = op.step /\ op'.seen = op.seen /\ store' = store
  BY <1>2, <1>3 DEF ActsOnCount
<1>4. CASE ProbeBeforeScale
  BY <1>2, <1>4, ProbedForScale DEF ProbeBeforeScale
<1>5. CASE ProbeBeforePatch
  <2>1. op' = [op EXCEPT !.step = "patch"] \/ AfterPatch(op.seen, TRUE)
    BY <1>5 DEF ProbeBeforePatch
  <2>2. op.seen \in Read
    BY DEF IInv, TypeOK
  <2>3. op'.step # "scale"
    BY <2>1, <2>2, AfterPatchType DEF IInv, TypeOK
  <2>. QED
    BY <1>2, <2>3
<1>. QED
  BY <1>2, <1>3, <1>4, <1>5, PatchesAfterProbe

\* ... and the invariant about the data.
LEMMA SameClusterData ==
    ASSUME HABeforeUpdate, IInv, KnowsEdit, SizeInv, DataInv, ActsOnWhole, [Next]_vars,
           UNCHANGED <<coh, sts, clusterVars>>
    PROVE  DataInv' /\ ActsOnWhole'
<1>1. DataInv' /\ UNCHANGED Whole
  BY SameCluster
<1>2. SUFFICES ASSUME op'.step \in {"scale", "patch"}, op'.seen.spec = sts
               PROVE  /\ op'.step = "patch" => Whole /\ sts.hash # store'.hash
                      /\ op'.step = "scale" /\ store'.replicas < sts.replicas => Whole
  BY <1>1 DEF ActsOnWhole
<1>3. CASE op'.step = op.step /\ op'.seen = op.seen /\ store' = store
  BY <1>2, <1>3 DEF ActsOnWhole
<1>4. CASE ProbeBeforeScale
  <2>1. op'.step = "scale" /\ store' = store
    BY <1>2, <1>4, FinishAndRequeueType DEF ProbeBeforeScale, IInv, TypeOK
  <2>. QED
    BY <1>2, <1>4, <2>1, ProbedForScale
<1>5. CASE ProbeBeforePatch
  BY <1>2, <1>5, ProbedForPatch DEF ProbeBeforePatch
<1>. QED
  BY <1>2, <1>3, <1>4, <1>5, PatchesAfterProbe

-----------------------------------------------------------------------------
(***************************************************************************)
(* The patches.                                                            *)
(***************************************************************************)

\* Scaling up: the members there are stay as they are and keep their revision.
LEMMA ScaledUp ==
    ASSUME IInv, SizeInv,
           sts.replicas < sts'.replicas, sts'.replicas <= coh.replicas,
           sts'.replicas \in 1 .. MaxReplicas,
           sts'.partition = sts.replicas, HashTells',
           sts'.hash # coh.hash => sts.hash # coh.hash,
           UNCHANGED <<coh, clusterVars>>
    PROVE  SizeInv' /\ (DataInv => DataInv')
<1>. DEFINE n == sts.replicas
            m == sts'.replicas
<1>1. /\ UNCHANGED <<coh, pods, endangered, lost>>
      /\ n \in Int /\ m \in Int /\ coh.replicas \in Int
      /\ \A i \in Ordinals : i \in Int
  BY Types DEF clusterVars
<1>2. /\ Outdated = {}
      /\ Surplus = {}
      /\ \A i \in Unready : pods[i].state # "Terminating"
  BY <1>1 DEF SizeInv, ScalesQuietly
<1>3. \A i \in Ordinals : i >= n => pods[i].state = "None"
  BY <1>2 DEF Surplus
<1>4. Outdated' = {}
  BY <1>1, <1>3 DEF Outdated
<1>5. Surplus' = {}
  BY <1>1, <1>3 DEF Surplus
<1>6. \A i \in Unready' : pods'[i].state # "Terminating"
  BY <1>1, <1>2, <1>3 DEF Unready
<1>7. SizeInv'
  BY <1>1, <1>4, <1>5, <1>6 DEF SizeInv, OneOver, ScalesQuietly
<1>8. LeavesFromWhole' /\ RollsDown'
  BY <1>4, <1>5, <1>6 DEF LeavesFromWhole, RollsDown
<1>9. ASSUME DataInv PROVE UpgradesQuietly' /\ NoDataLoss'
  BY <1>1, <1>4, <1>9 DEF DataInv, UpgradesQuietly, NoDataLoss
<1>. QED
  BY <1>7, <1>8, <1>9 DEF DataInv

\* Scaling down by one, when the Pod that went before has gone.
LEMMA ScaledDownByOne ==
    ASSUME IInv, SizeInv, Surplus = {},
           coh.replicas < sts.replicas,
           sts'.replicas = sts.replicas - 1, sts'.partition = sts.replicas - 1,
           sts'.hash = sts.hash, sts'.rev = sts.rev,
           UNCHANGED <<coh, clusterVars>>
    PROVE  SizeInv' /\ (DataInv /\ Whole => DataInv')
<1>. DEFINE n == sts.replicas
<1>1. /\ UNCHANGED <<coh, pods, endangered, lost>>
      /\ n \in Int /\ coh.replicas \in Int
      /\ \A i \in Ordinals : i \in Int
  BY Types DEF clusterVars
<1>2. /\ \A i \in Ordinals : i < n => pods[i].state = "Ready"
      /\ \A i \in Ordinals : i >= n => pods[i].state = "None"
  BY <1>1 DEF SizeInv, ScalesQuietly, Unready, Surplus
<1>3. Outdated' = {}
  BY <1>1 DEF Outdated
<1>4. Unready' = {}
  BY <1>1, <1>2 DEF Unready
<1>5. \A i \in Surplus' : i = n - 1 /\ pods'[i].state = "Ready"
  BY <1>1, <1>2 DEF Surplus
<1>6. SizeInv'
  BY <1>1, <1>3, <1>4, <1>5 DEF SizeInv, HashTells, OneOver, ScalesQuietly
<1>7. ASSUME DataInv, Whole PROVE DataInv'
  <2>1. LeavesFromWhole' /\ RollsDown'
    BY <1>1, <1>3, <1>4, <1>5, <1>7 DEF Whole, LeavesFromWhole, RollsDown
  <2>2. UpgradesQuietly' /\ NoDataLoss'
    BY <1>1, <1>3, <1>7 DEF DataInv, UpgradesQuietly, NoDataLoss
  <2>. QED
    BY <2>1, <2>2 DEF DataInv
<1>. QED
  BY <1>6, <1>7

\* A template patch that leaves the size as it is.
LEMMA Upgraded ==
    ASSUME IInv, SizeInv,
           sts'.replicas = sts.replicas, sts'.hash = coh.hash, sts'.rev = coh.rev,
           sts'.partition = sts.replicas \/ sts.replicas = coh.replicas,
           UNCHANGED <<coh, clusterVars>>
    PROVE  SizeInv' /\ (DataInv /\ Whole => DataInv')
<1>. DEFINE n == sts.replicas
<1>1. /\ UNCHANGED <<coh, pods, endangered, lost>>
      /\ n \in Int /\ coh.replicas \in Int
      /\ \A i \in Ordinals : i \in Int
  BY Types DEF clusterVars
<1>2. UNCHANGED <<Unready, Surplus>>
  BY <1>1 DEF Unready, Surplus
<1>3. sts'.replicas # coh.replicas => Outdated' = {}
  BY <1>1 DEF Outdated
<1>4. SizeInv'
  BY <1>1, <1>2, <1>3 DEF SizeInv, HashTells, OneOver, ScalesQuietly
<1>5. ASSUME DataInv, Whole PROVE DataInv'
  <2>1. Unready' = {} /\ Surplus' = {} /\ ~endangered'
    BY <1>1, <1>2, <1>5 DEF Whole
  <2>2. \A i \in Outdated' : pods'[i].state = "Ready"
    BY <1>1, <1>5 DEF Whole, Unready, Outdated
  <2>3. LeavesFromWhole' /\ RollsDown'
    BY <2>1, <2>2 DEF LeavesFromWhole, RollsDown
  <2>4. UpgradesQuietly' /\ NoDataLoss'
    BY <1>1, <1>5 DEF UpgradesQuietly, DataInv, NoDataLoss
  <2>. QED
    BY <2>3, <2>4 DEF DataInv
<1>. QED
  BY <1>4, <1>5

\* A patch of the template is an upgrade in place, or, of a StatefulSet of an
\* operator <= 3.4.3 that is to grow, an upgrade and a scale in one.
LEMMA PatchUpgrades ==
    ASSUME IInv, op.seen.spec = sts, store = coh, Patch, sts' = PatchedSpec
    PROVE  /\ sts'.hash = coh.hash
           /\ sts'.rev = coh.rev
           /\ \/ /\ sts.replicas < coh.replicas
                 /\ sts'.replicas = coh.replicas
                 /\ sts'.partition = sts.replicas
              \/ /\ sts'.replicas = sts.replicas
                 /\ sts'.partition = sts.replicas \/ sts.replicas = coh.replicas
<1>. DEFINE n == sts.replicas
            legacyScale == sts.legacy /\ n # coh.replicas
            grows == legacyScale /\ ~(sts.legacy /\ n > coh.replicas)
<1>1. n \in Int /\ coh.replicas \in Int
  BY Types
<1>2. sts.legacy \/ n = coh.replicas
  BY DEF Patch, IInv, HoldsDecision
<1>3. /\ sts'.hash = coh.hash
      /\ sts'.rev = coh.rev
      /\ sts'.replicas = IF grows THEN coh.replicas ELSE n
      /\ sts'.partition = IF legacyScale THEN n ELSE 0
  BY DEF PatchedSpec, LegacyScaleDown
<1>4. grows => n < coh.replicas
  BY <1>1
<1>5. ~legacyScale => n = coh.replicas
  BY <1>2
<1>. HIDE DEF n, legacyScale, grows
<1>6. CASE grows
  BY <1>3, <1>4, <1>6 DEF n, grows
<1>7. CASE ~grows
  BY <1>3, <1>5, <1>7 DEF n
<1>. QED
  BY <1>6, <1>7

\* With every edit rolled out before the next, the patches suffice whether or not
\* reads lag.
LEMMA OrderlyReads ==
    ASSUME Orderly, LagInv
    PROVE  ReadsSuffice /\ KnowsEdit
BY DEF Orderly, ReadsSuffice, LagInv

\* What the step that changes the StatefulSet works on, and leaves behind.
LEMMA PatchingStep ==
    ASSUME Orderly, IInv, LagInv, [Next]_vars, sts' # sts
    PROVE  /\ op.seen.spec = sts
           /\ store = coh
           /\ UNCHANGED <<coh, clusterVars>>
           /\ op'.step \notin {"scale", "patch"}
<1>1. op.seen.spec = sts /\ op.step # "idle" /\ ReadsSuffice /\ KnowsEdit
  BY ChangesWhatItRead, OrderlyReads
<1>2. ScaleParallel \/ ScaleByOne \/ Patch
  BY SpecWriters
<1>3. UNCHANGED <<coh, clusterVars>>
  BY <1>2 DEF ScaleParallel, ScaleByOne, Patch, userVars
<1>4. store = coh
  BY <1>1, <1>2, WorksOnLastEdit DEF ScaleParallel, MustScale, ScaleByOne, Patch
<1>5. op'.step \notin {"scale", "patch"}
  <2>1. CASE ScaleParallel \/ ScaleByOne
    BY <2>1, FinishAndRequeueType DEF ScaleParallel, ScaleByOne, IInv
  <2>2. CASE Patch
    <3>1. CASE LegacyScaleDown
      BY <2>2, <3>1 DEF Patch, AfterPatch, IInv, TypeOK
    <3>2. CASE ~LegacyScaleDown
      BY <2>2, <3>2, FinishType DEF Patch, AfterPatch, IInv
    <3>. QED
      BY <3>1, <3>2
  <2>. QED
    BY <1>2, <2>1, <2>2
<1>. QED
  BY <1>1, <1>3, <1>4, <1>5

\* The patches keep both invariants: a probe came before those that need one.
LEMMA PatchSafe ==
    ASSUME Orderly, IInv, LagInv, SizeInv, ActsOnCount, [Next]_vars, sts' # sts
    PROVE  /\ SizeInv' /\ ActsOnCount'
           /\ HABeforeUpdate /\ DataInv /\ ActsOnWhole => DataInv' /\ ActsOnWhole'
<1>. DEFINE n == sts.replicas
<1>1. /\ op.seen.spec = sts
      /\ store = coh
      /\ UNCHANGED <<coh, clusterVars>>
      /\ op'.step \notin {"scale", "patch"}
  BY PatchingStep
<1>2. ActsOnCount' /\ ActsOnWhole'
  BY <1>1 DEF ActsOnCount, ActsOnWhole
<1>3. SUFFICES SizeInv' /\ (DataInv /\ ActsOnWhole => DataInv')
  BY <1>2
<1>4. /\ n \in 1 .. MaxReplicas /\ coh.replicas \in 1 .. MaxReplicas
      /\ n \in Int /\ coh.replicas \in Int
      /\ n # coh.replicas => n < coh.replicas \/ coh.replicas < n
  BY Types
<1>5. ASSUME NEW m \in 1 .. MaxReplicas, n < m, m <= coh.replicas, sts' = Scaled(sts, m)
      PROVE  SizeInv' /\ (DataInv => DataInv')
  <2>1. /\ sts'.replicas = m
        /\ sts'.partition = n
        /\ sts'.hash = sts.hash
        /\ sts'.rev = sts.rev
    BY <1>4, <1>5, Types DEF Scaled, StsSpec
  <2>2. HashTells'
    BY <1>1, <2>1 DEF SizeInv, HashTells
  <2>. QED
    BY <1>1, <1>5, <2>1, <2>2, ScaledUp
<1>6. CASE ScaleParallel /\ n # store.replicas /\ sts' = Scaled(sts, store.replicas)
  <2>1. n < coh.replicas
    BY <1>1, <1>4, <1>6 DEF ScaleParallel, ScalesInParallel, Orderly
  <2>2. coh.replicas <= coh.replicas
    BY <1>4
  <2>. QED
    BY <1>1, <1>4, <1>5, <1>6, <2>1, <2>2
<1>7. CASE /\ ScaleByOne
           /\ n # store.replicas
           /\ sts' = Scaled(sts, IF store.replicas > n THEN n + 1 ELSE n - 1)
  <2>1. ASSUME n < coh.replicas PROVE SizeInv' /\ (DataInv => DataInv')
    <3>1. n + 1 \in 1 .. MaxReplicas /\ n < n + 1 /\ n + 1 <= coh.replicas
      BY <1>4, <2>1, Types
    <3>2. sts' = Scaled(sts, n + 1)
      BY <1>1, <1>4, <1>7, <2>1
    <3>. QED
      BY <1>5, <3>1, <3>2
  <2>2. ASSUME coh.replicas < n PROVE SizeInv' /\ (DataInv /\ ActsOnWhole => DataInv')
    <3>1. sts' = Scaled(sts, n - 1)
      BY <1>1, <1>4, <1>7, <2>2
    <3>2. /\ sts'.replicas = n - 1
          /\ sts'.partition = n - 1
          /\ sts'.hash = sts.hash
          /\ sts'.rev = sts.rev
      BY <1>4, <3>1, Types DEF Scaled, StsSpec
    <3>3. op.step = "scale" /\ store.replicas < n
      BY <1>1, <1>7, <2>2 DEF ScaleByOne
    <3>4. Surplus = {} /\ (ActsOnWhole => Whole)
      BY <1>1, <3>3 DEF ActsOnCount, ActsOnWhole
    <3>. QED
      BY <1>1, <2>2, <3>2, <3>4, ScaledDownByOne
  <2>. QED
    BY <1>1, <1>4, <1>7, <2>1, <2>2
<1>8. CASE Patch /\ sts' = PatchedSpec
  <2>1. /\ sts'.hash = coh.hash
        /\ sts'.rev = coh.rev
        /\ \/ n < coh.replicas /\ sts'.replicas = coh.replicas /\ sts'.partition = n
           \/ sts'.replicas = n /\ (sts'.partition = n \/ n = coh.replicas)
    BY <1>1, <1>8, PatchUpgrades
  <2>2. ASSUME n < coh.replicas, sts'.replicas = coh.replicas, sts'.partition = n
        PROVE  SizeInv' /\ (DataInv => DataInv')
    <3>1. HashTells' /\ coh.replicas <= coh.replicas
      BY <1>1, <1>4, <2>1 DEF HashTells
    <3>. QED
      BY <1>1, <1>4, <2>1, <2>2, <3>1, ScaledUp
  <2>3. ActsOnWhole => Whole
    BY <1>1, <1>8 DEF Patch, ActsOnWhole
  <2>4. ASSUME sts'.replicas = n, sts'.partition = n \/ n = coh.replicas
        PROVE  SizeInv' /\ (DataInv /\ ActsOnWhole => DataInv')
    BY <1>1, <2>1, <2>3, <2>4, Upgraded
  <2>. QED
    BY <2>1, <2>2, <2>4
<1>. QED
  BY <1>6, <1>7, <1>8, SpecChanges, OrderlyReads

-----------------------------------------------------------------------------
\* The user's edit, which waits for the last one to be rolled out.
LEMMA EditSafe ==
    ASSUME Orderly, IInv, LagInv, SizeInv,
           NEW n \in 1 .. MaxReplicas, NEW t \in BOOLEAN, Edit(n, t)
    PROVE  /\ SizeInv' /\ ActsOnCount'
           /\ DataInv => DataInv' /\ ActsOnWhole'
<1>1. /\ Settled
      /\ coh'.hash = coh.hash + 1
      /\ UNCHANGED <<store, sts, clusterVars, op>>
  BY DEF Edit, Orderly
<1>2. /\ UNCHANGED <<pods, endangered, lost>>
      /\ sts.hash = coh.hash
      /\ coh.hash \in Int
      /\ coh'.hash # sts'.hash
  BY <1>1, Types, BoundsAssumption DEF clusterVars, Settled, Desired, Revs
<1>3. /\ sts.replicas = coh.replicas
      /\ sts.rev = coh.rev
      /\ Existing = 0 .. sts.replicas - 1
      /\ \A i \in Existing : pods[i].state = "Ready" /\ pods[i].rev = sts.rev
      /\ ~endangered
      /\ op.step = "idle"
  BY <1>1, <1>2 DEF Settled, SizeInv, HashTells
<1>4. \A i \in Ordinals : i < sts.replicas <=> i \in Existing
  BY <1>3, Types
<1>5. Outdated = {} /\ Unready = {} /\ Surplus = {} /\ pods[0].state = "Ready"
  BY <1>3, <1>4, Types DEF Outdated, Unready, Surplus, Existing
<1>6. UNCHANGED <<Outdated, Unready, Surplus>>
  BY <1>1, <1>2 DEF Outdated, Unready, Surplus
<1>7. SizeInv'
  BY <1>2, <1>5, <1>6 DEF SizeInv, HashTells, OneOver, ScalesQuietly
<1>8. ActsOnCount' /\ ActsOnWhole'
  BY <1>1, <1>3 DEF ActsOnCount, ActsOnWhole
<1>9. LeavesFromWhole' /\ RollsDown' /\ UpgradesQuietly'
  BY <1>2, <1>5, <1>6 DEF LeavesFromWhole, RollsDown, UpgradesQuietly
<1>10. DataInv => NoDataLoss'
  BY <1>2 DEF DataInv, NoDataLoss
<1>. QED
  BY <1>7, <1>8, <1>9, <1>10 DEF DataInv

-----------------------------------------------------------------------------
(***************************************************************************)
(* The Pods: what their steps leave of the invariant about the size.       *)
(***************************************************************************)

\* A step of a Pod takes none of the kinds of Pods further from what is asked for
\* while the StatefulSet is being scaled.
LEMMA PodStepSize ==
    ASSUME IInv, SizeInv, ActsOnCount, UNCHANGED <<coh, store, sts, op>>,
           Surplus' \subseteq Surplus,
           sts.replicas # coh.replicas =>
             /\ Outdated' \subseteq Outdated
             /\ Unready' \subseteq Unready
             /\ \A i \in Unready' : pods'[i].state = "Terminating"
                                      => pods[i].state = "Terminating"
    PROVE  SizeInv' /\ ActsOnCount'
<1>1. HashTells' /\ OneOver' /\ ActsOnCount'
  BY DEF SizeInv, HashTells, OneOver, ActsOnCount
<1>2. CASE sts.replicas = coh.replicas
  <2>1. ~(sts.replicas < coh.replicas) /\ ~(sts.replicas > coh.replicas)
    BY <1>2, Types
  <2>. QED
    BY <1>1, <1>2, <2>1 DEF SizeInv, ScalesQuietly
<1>3. CASE sts.replicas # coh.replicas
  BY <1>1, <1>3 DEF SizeInv, ScalesQuietly
<1>. QED
  BY <1>2, <1>3

\* The StatefulSet controller rolls a Pod only when the size is the one asked for.
LEMMA PodsKeepSize ==
    ASSUME IInv, SizeInv, ActsOnCount, NEW i \in Ordinals,
           \/ StsCreatesPod(i) \/ StsScalesDown(i) \/ StsRollsPod(i)
           \/ PodJoins(i) \/ PodBecomesReady(i) \/ PodDeparts(i)
    PROVE  SizeInv' /\ ActsOnCount'
<1>. DEFINE n == sts.replicas
<1>0. i \in Int /\ n \in Int /\ sts.partition \in Int /\ coh.replicas \in Int
  BY Types
<1>1. /\ UNCHANGED <<coh, store, sts, op>>
      /\ \A j \in Ordinals : j # i => pods'[j] = pods[j]
  <2>1. UNCHANGED <<coh, store, sts, op>>
    BY DEF StsCreatesPod, StsScalesDown, StsRollsPod, StsDeletesPod, PodJoins,
           PodBecomesReady, PodDeparts, userVars
  <2>2. \A j \in Ordinals : j # i => pods'[j] = pods[j]
    BY Types DEF StsCreatesPod, StsScalesDown, StsRollsPod, StsDeletesPod, PodJoins,
                 PodBecomesReady, PodDeparts, SetPod
  <2>. QED
    BY <2>1, <2>2
<1>2. SUFFICES /\ Surplus' \subseteq Surplus
               /\ n # coh.replicas =>
                    /\ Outdated' \subseteq Outdated
                    /\ Unready' \subseteq Unready
                    /\ \A j \in Unready' : pods'[j].state = "Terminating"
                                             => pods[j].state = "Terminating"
  BY <1>1, PodStepSize
<1>3. CASE StsCreatesPod(i)
  <2>1. /\ i < n /\ ~(i >= n)
        /\ pods[i].state = "None"
        /\ pods'[i].state = "Starting"
        /\ sts.partition <= i => pods'[i].rev = sts.rev
    BY <1>0, <1>3, Types DEF StsCreatesPod
  <2>. QED
    BY <1>1, <2>1 DEF Surplus, Outdated, Unready
<1>4. CASE PodJoins(i) \/ PodBecomesReady(i)
  <2>1. /\ pods[i].state \in {"Starting", "Joined"}
        /\ pods'[i].state \in {"Joined", "Ready"}
        /\ pods'[i].rev = pods[i].rev
    BY <1>4, Types DEF PodJoins, PodBecomesReady, SetPod, Pod
  <2>. QED
    BY <1>1, <2>1 DEF Surplus, Outdated, Unready
<1>5. CASE PodDeparts(i)
  <2>1. pods[i].state = "Terminating" /\ pods'[i].state = "None"
    BY <1>5, Types DEF PodDeparts, NoPod
  <2>. QED
    BY <1>1, <2>1 DEF Surplus, Outdated, Unready
<1>6. CASE StsScalesDown(i)
  <2>1. i >= n /\ ~(i < n) /\ pods[i].state # "None"
    BY <1>0, <1>6 DEF StsScalesDown, StsDeletesPod
  <2>. QED
    BY <1>1, <2>1 DEF Surplus, Outdated, Unready
<1>7. CASE StsRollsPod(i)
  <2>1. i < n /\ ~(i >= n) /\ i \in Outdated
    BY <1>0, <1>7 DEF StsRollsPod, StsDeletesPod, Outdated
  <2>2. n = coh.replicas
    BY <2>1 DEF SizeInv, ScalesQuietly
  <2>. QED
    BY <1>1, <2>1, <2>2 DEF Surplus
<1>. QED
  BY <1>3, <1>4, <1>5, <1>6, <1>7

-----------------------------------------------------------------------------
(***************************************************************************)
(* The Pods: what their steps leave of the invariant about the data.       *)
(***************************************************************************)

\* While the cluster is not whole, or is being upgraded, no reconcile is about to
\* patch something that needs it whole.
LEMMA NobodyRelies ==
    ASSUME IInv, KnowsEdit, SizeInv, DataInv, ActsOnWhole,
           ~Whole \/ Outdated # {}, UNCHANGED <<store, sts, op>>
    PROVE  ActsOnWhole'
<1>. SUFFICES ASSUME op.step \in {"scale", "patch"}, op.seen.spec = sts
              PROVE  ~(op.step = "patch" \/ store.replicas < sts.replicas)
  BY DEF ActsOnWhole
<1>1. store = coh
  BY DEF KnowsEdit
<1>2. ASSUME op.step = "patch" PROVE FALSE
  BY <1>1, <1>2 DEF ActsOnWhole, DataInv, UpgradesQuietly
<1>3. ASSUME op.step = "scale", store.replicas < sts.replicas PROVE FALSE
  <2>1. Whole
    BY <1>3 DEF ActsOnWhole
  <2>2. Outdated = {}
    BY <1>1, <1>3, Types DEF SizeInv, ScalesQuietly
  <2>. QED
    BY <2>1, <2>2
<1>. QED
  BY <1>2, <1>3

\* The StatefulSet controller makes a Pod.
LEMMA CreateSafe ==
    ASSUME IInv, KnowsEdit, SizeInv, DataInv, ActsOnWhole,
           NEW i \in Ordinals, StsCreatesPod(i)
    PROVE  DataInv' /\ ActsOnWhole'
<1>1. /\ i < sts.replicas
      /\ pods[i].state = "None"
      /\ pods'[i].state = "Starting"
      /\ sts.partition <= i => pods'[i].rev = sts.rev
      /\ \A j \in Ordinals : j # i => pods'[j] = pods[j]
      /\ UNCHANGED <<coh, store, sts, endangered, lost, op>>
  BY Types DEF StsCreatesPod, userVars
<1>2. /\ UNCHANGED <<Outdated, Unready, Surplus>>
      /\ i \in Unready
      /\ \A j \in Unready : pods'[j].state = "Terminating" => pods[j].state = "Terminating"
      /\ \A j \in Surplus \cup Outdated : pods'[j] = pods[j]
  <2>0. i \in Int /\ sts.replicas \in Int /\ sts.partition \in Int
    BY Types
  <2>1. UNCHANGED Outdated
    BY <1>1, <2>0 DEF Outdated
  <2>2. UNCHANGED Unready
    BY <1>1, <2>0 DEF Unready
  <2>3. UNCHANGED Surplus
    <3>1. ~(i >= sts.replicas)
      BY <1>1, <2>0
    <3>. QED
      BY <1>1, <3>1 DEF Surplus
  <2>4. /\ i \in Unready
        /\ \A j \in Unready : pods'[j].state = "Terminating" => pods[j].state = "Terminating"
    BY <1>1 DEF Unready
  <2>5. \A j \in Surplus \cup Outdated : pods'[j] = pods[j]
    BY <1>1 DEF Surplus, Outdated
  <2>. QED
    BY <2>1, <2>2, <2>3, <2>4, <2>5
<1>3. ActsOnWhole'
  BY <1>1, <1>2, NobodyRelies DEF Whole
<1>4. LeavesFromWhole'
  BY <1>1, <1>2 DEF DataInv, LeavesFromWhole
<1>5. RollsDown' /\ NoDataLoss'
  BY <1>1, <1>2 DEF DataInv, RollsDown, NoDataLoss
<1>6. UpgradesQuietly'
  BY <1>1, <1>2, Types DEF DataInv, UpgradesQuietly
<1>. QED
  BY <1>3, <1>4, <1>5, <1>6 DEF DataInv

\* A Pod is deleted only when its member is up: the others just go.
LEMMA DeleteSafe ==
    ASSUME IInv, KnowsEdit, SizeInv, DataInv, ActsOnWhole,
           NEW i \in Ordinals, StsScalesDown(i) \/ StsRollsPod(i)
    PROVE  DataInv' /\ ActsOnWhole'
<1>. DEFINE n == sts.replicas
<1>0. i \in Int /\ n \in Int /\ \A j \in Ordinals : j \in Int
  BY Types
<1>1. i \in Surplus \/ i \in Outdated
  BY DEF StsScalesDown, StsRollsPod, StsDeletesPod, Surplus, Outdated
<1>2. pods[i].state \in {"Ready", "Terminating"}
  BY <1>1 DEF DataInv, LeavesFromWhole, RollsDown
<1>3. /\ pods[i].state = "Ready"
      /\ pods' = [pods EXCEPT ![i].state = "Terminating"]
      /\ UNCHANGED <<coh, store, sts, endangered, lost, op>>
  BY <1>2 DEF StsScalesDown, StsRollsPod, StsDeletesPod, SetPod, userVars
<1>4. /\ pods'[i].state = "Terminating"
      /\ pods'[i].rev = pods[i].rev
      /\ \A j \in Ordinals : j # i => pods'[j] = pods[j]
  BY <1>3, Types DEF Pod
<1>5. UNCHANGED <<Outdated, Surplus>>
  BY <1>3, <1>4 DEF Outdated, Surplus
<1>6. ActsOnWhole'
  BY <1>1, <1>3, NobodyRelies DEF Whole
<1>7. ASSUME StsScalesDown(i) PROVE DataInv'
  <2>1. i \in Surplus /\ i >= n
    BY <1>7 DEF StsScalesDown, StsDeletesPod, Surplus
  <2>2. Unready = {} /\ Outdated = {} /\ ~endangered
    BY <2>1 DEF DataInv, LeavesFromWhole
  <2>3. Unready' = {}
    BY <1>0, <1>3, <1>4, <2>1, <2>2 DEF Unready
  <2>4. LeavesFromWhole'
    BY <1>3, <1>4, <1>5, <2>2, <2>3 DEF DataInv, LeavesFromWhole
  <2>5. RollsDown'
    BY <1>5, <2>2 DEF RollsDown
  <2>6. UpgradesQuietly' /\ NoDataLoss'
    <3>1. 0 # i
      BY <1>0, <2>1, Types
    <3>. QED
      BY <1>3, <1>4, <1>5, <3>1, Types DEF DataInv, UpgradesQuietly, NoDataLoss
  <2>. QED
    BY <2>4, <2>5, <2>6 DEF DataInv
<1>8. ASSUME StsRollsPod(i) PROVE DataInv'
  <2>1. /\ i \in Outdated
        /\ i < n
        /\ \A j \in Ordinals : i < j /\ j < n
              => pods[j].state = "Ready" /\ pods[j].rev = sts.rev
    BY <1>2, <1>8 DEF StsRollsPod, Outdated
  <2>2. Unready = {}
    <3>1. SUFFICES ASSUME NEW j \in Unready PROVE FALSE
      OBVIOUS
    <3>2. i <= j /\ j \in Int
      BY <1>0, <2>1 DEF DataInv, RollsDown, Unready
    <3>3. i = j \/ i < j
      BY <1>0, <3>2
    <3>. QED
      BY <1>3, <2>1, <3>3 DEF Unready
  <2>3. ~endangered /\ Surplus = {}
    BY <2>1, <2>2 DEF DataInv, RollsDown, LeavesFromWhole
  <2>4. Unready' = {i}
    BY <1>3, <1>4, <2>1, <2>2 DEF Unready
  <2>5. \A j \in Outdated : j <= i
    BY <1>0, <2>1 DEF Outdated
  <2>6. LeavesFromWhole'
    BY <1>3, <1>5, <2>3, <2>4 DEF LeavesFromWhole
  <2>7. \A j \in Outdated' : pods'[j].state \in {"Ready", "Terminating"}
    BY <1>4, <1>5, <2>1 DEF DataInv, RollsDown, Outdated
  <2>8. RollsDown'
    BY <1>5, <2>4, <2>5, <2>7 DEF RollsDown
  <2>9. UpgradesQuietly' /\ NoDataLoss'
    <3>1. sts.hash = coh.hash
      BY <2>1 DEF DataInv, UpgradesQuietly
    <3>. QED
      BY <1>3, <3>1 DEF DataInv, UpgradesQuietly, NoDataLoss
  <2>. QED
    BY <2>6, <2>8, <2>9 DEF DataInv
<1>. QED
  BY <1>6, <1>7, <1>8

\* A member joins: its Pod is one that the cluster should have and has not.
LEMMA JoinSafe ==
    ASSUME IInv, KnowsEdit, SizeInv, DataInv, ActsOnWhole, NEW i \in Ordinals, PodJoins(i)
    PROVE  DataInv' /\ ActsOnWhole'
<1>1. /\ pods[i].state = "Starting"
      /\ pods'[i].state = "Joined"
      /\ pods'[i].rev = pods[i].rev
      /\ \A j \in Ordinals : j # i => pods'[j] = pods[j]
      /\ UNCHANGED <<coh, store, sts, lost, op>>
  BY Types DEF PodJoins, SetPod, userVars, Pod
<1>2. UNCHANGED <<Outdated, Unready, Surplus>>
  <2>1. UNCHANGED Outdated
    BY <1>1 DEF Outdated
  <2>2. UNCHANGED Unready
    BY <1>1 DEF Unready
  <2>3. UNCHANGED Surplus
    BY <1>1 DEF Surplus
  <2>. QED
    BY <2>1, <2>2, <2>3
<1>3. i \in Unready
  <2>1. i \notin Surplus
    BY <1>1 DEF DataInv, LeavesFromWhole
  <2>. QED
    BY <1>1, <2>1, Types DEF Surplus, Unready
<1>4. /\ Surplus = {}
      /\ i \notin Outdated
      /\ \A j \in Unready : pods'[j].state # "Terminating"
  <2>1. Surplus = {} /\ i \notin Outdated
    BY <1>1, <1>3 DEF DataInv, LeavesFromWhole, RollsDown
  <2>2. \A j \in Unready : pods[j].state # "Terminating"
    BY <1>1, <1>3 DEF DataInv, LeavesFromWhole
  <2>3. \A j \in Unready : pods'[j].state # "Terminating"
    BY <1>1, <2>2 DEF Unready
  <2>. QED
    BY <2>1, <2>3
<1>5. \A j \in Outdated : pods'[j] = pods[j]
  BY <1>1, <1>4 DEF Outdated
<1>6. ActsOnWhole'
  BY <1>1, <1>3, NobodyRelies DEF Whole
<1>7. LeavesFromWhole'
  BY <1>2, <1>4 DEF LeavesFromWhole
<1>8. RollsDown' /\ NoDataLoss'
  BY <1>1, <1>2, <1>3, <1>5 DEF DataInv, RollsDown, NoDataLoss
<1>9. UpgradesQuietly'
  BY <1>1, <1>2, Types DEF DataInv, UpgradesQuietly
<1>. QED
  BY <1>6, <1>7, <1>8, <1>9 DEF DataInv

\* A member is up again when all that it holds has a backup.
LEMMA ReadySafe ==
    ASSUME IInv, KnowsEdit, SizeInv, DataInv, ActsOnWhole,
           NEW i \in Ordinals, PodBecomesReady(i)
    PROVE  DataInv' /\ ActsOnWhole'
<1>1. /\ pods[i].state = "Joined"
      /\ pods'[i].state = "Ready"
      /\ pods'[i].rev = pods[i].rev
      /\ \A j \in Ordinals : j # i => pods'[j] = pods[j]
      /\ UNCHANGED <<coh, store, sts, endangered, lost, op>>
      /\ ~endangered
  BY Types DEF PodBecomesReady, SetPod, userVars, Pod
<1>2. UNCHANGED <<Outdated, Surplus>> /\ Unready' = Unready \ {i}
  <2>1. UNCHANGED Outdated
    BY <1>1 DEF Outdated
  <2>2. Unready' = Unready \ {i}
    BY <1>1 DEF Unready
  <2>3. UNCHANGED Surplus
    BY <1>1 DEF Surplus
  <2>. QED
    BY <2>1, <2>2, <2>3
<1>3. i \in Unready
  <2>1. i \notin Surplus
    BY <1>1 DEF DataInv, LeavesFromWhole
  <2>. QED
    BY <1>1, <2>1, Types DEF Surplus, Unready
<1>4. /\ Surplus = {}
      /\ i \notin Outdated
      /\ \A j \in Unready' : pods'[j].state # "Terminating"
  <2>1. Surplus = {} /\ i \notin Outdated
    BY <1>1, <1>3 DEF DataInv, LeavesFromWhole, RollsDown
  <2>2. \A j \in Unready : pods[j].state # "Terminating"
    BY <1>1, <1>3 DEF DataInv, LeavesFromWhole
  <2>3. \A j \in Unready' : pods'[j].state # "Terminating"
    BY <1>1, <1>2, <2>2 DEF Unready
  <2>. QED
    BY <2>1, <2>3
<1>5. \A j \in Outdated : pods'[j] = pods[j]
  BY <1>1, <1>4 DEF Outdated
<1>6. ActsOnWhole'
  BY <1>1, <1>3, NobodyRelies DEF Whole
<1>7. LeavesFromWhole'
  BY <1>2, <1>4 DEF LeavesFromWhole
<1>8. RollsDown' /\ NoDataLoss'
  BY <1>1, <1>2, <1>5 DEF DataInv, RollsDown, NoDataLoss
<1>9. UpgradesQuietly'
  BY <1>1, <1>2, Types DEF DataInv, UpgradesQuietly
<1>. QED
  BY <1>6, <1>7, <1>8, <1>9 DEF DataInv

\* A member departs: nothing is lost because nothing was endangered.
LEMMA DepartSafe ==
    ASSUME IInv, KnowsEdit, SizeInv, DataInv, ActsOnWhole,
           NEW i \in Ordinals, PodDeparts(i)
    PROVE  DataInv' /\ ActsOnWhole'
<1>1. /\ pods[i].state = "Terminating"
      /\ pods'[i].state = "None"
      /\ \A j \in Ordinals : j # i => pods'[j] = pods[j]
      /\ UNCHANGED <<coh, store, sts, op>>
  BY Types DEF PodDeparts, NoPod, userVars
<1>2. Outdated' = Outdated \ {i} /\ UNCHANGED Unready /\ Surplus' = Surplus \ {i}
  <2>1. Outdated' = Outdated \ {i}
    BY <1>1 DEF Outdated
  <2>2. UNCHANGED Unready
    BY <1>1 DEF Unready
  <2>3. Surplus' = Surplus \ {i}
    BY <1>1 DEF Surplus
  <2>. QED
    BY <2>1, <2>2, <2>3
<1>3. i \in Surplus \/ i \in Unready
  BY <1>1, Types DEF Surplus, Unready
<1>4. ~endangered
  BY <1>1, <1>3 DEF DataInv, LeavesFromWhole
<1>5. NoDataLoss'
  BY <1>4 DEF DataInv, NoDataLoss, PodDeparts
<1>6. ActsOnWhole'
  BY <1>1, <1>3, NobodyRelies DEF Whole
<1>7. Surplus' = {}
  BY <1>1, <1>2, <1>3 DEF DataInv, SizeInv, OneOver, LeavesFromWhole
<1>8. \A j \in Unready : pods'[j].state # "Terminating"
  <2>1. \A j \in Unready : pods[j].state = "Terminating" => j = i
    BY <1>1, <1>3 DEF DataInv, LeavesFromWhole
  <2>. QED
    BY <1>1, <2>1 DEF Unready
<1>9. LeavesFromWhole'
  BY <1>2, <1>7, <1>8 DEF LeavesFromWhole
<1>10. RollsDown'
  <2>. SUFFICES ASSUME Outdated # {} PROVE RollsDown'
    BY <1>2 DEF RollsDown
  <2>1. i \in Unready
    BY <1>3 DEF DataInv, LeavesFromWhole
  <2>2. \A j \in Outdated' : pods'[j] = pods[j]
    BY <1>1, <1>2 DEF Outdated
  <2>. QED
    BY <1>2, <2>1, <2>2 DEF DataInv, RollsDown
<1>11. UpgradesQuietly'
  BY <1>1, <1>2, Types DEF DataInv, UpgradesQuietly
<1>. QED
  BY <1>5, <1>6, <1>9, <1>10, <1>11 DEF DataInv

\* Coherence restores the backups.
LEMMA RebalanceSafe ==
    ASSUME IInv, KnowsEdit, SizeInv, DataInv, ActsOnWhole, Rebalance
    PROVE  DataInv' /\ ActsOnWhole'
<1>1. /\ endangered
      /\ ~endangered'
      /\ UNCHANGED <<coh, store, sts, pods, lost, op>>
  BY DEF Rebalance, userVars
<1>2. UNCHANGED <<Outdated, Unready, Surplus>>
  BY <1>1 DEF Outdated, Unready, Surplus
<1>3. ActsOnWhole'
  BY <1>1, NobodyRelies DEF Whole
<1>4. LeavesFromWhole' /\ RollsDown'
  BY <1>1, <1>2 DEF DataInv, LeavesFromWhole, RollsDown
<1>5. UpgradesQuietly' /\ NoDataLoss'
  BY <1>1, <1>2 DEF DataInv, UpgradesQuietly, NoDataLoss
<1>. QED
  BY <1>3, <1>4, <1>5 DEF DataInv

-----------------------------------------------------------------------------
\* The steps that change neither the resource nor the StatefulSet's spec are those
\* of the Pods, of Coherence, and others that leave the cluster as it is.
LEMMA ClusterSteps ==
    ASSUME [Next]_vars, sts' = sts
    PROVE  \/ \E n \in 1 .. MaxReplicas, t \in BOOLEAN : Edit(n, t)
           \/ UNCHANGED <<coh, sts, clusterVars>>
           \/ \E i \in Ordinals : \/ StsCreatesPod(i) \/ StsScalesDown(i) \/ StsRollsPod(i)
                                  \/ PodJoins(i) \/ PodBecomesReady(i) \/ PodDeparts(i)
           \/ Rebalance
<1>1. CASE Reconcile \/ PatchFails \/ OperatorRestarts \/ CacheSync \/ StsReportsStatus
  <2>1. UNCHANGED <<coh, clusterVars>>
    BY <1>1 DEF Reconcile, BeginReconcile, ScaleParallel, ProbeBeforeScale, ScaleByOne,
                NothingToPatch, ProbeBeforePatch, Patch, PatchFails, OperatorRestarts,
                CacheSync, StsReportsStatus, userVars
  <2>. QED
    BY <2>1
<1>. QED
  BY <1>1 DEF Next, StsController, Cluster, vars, clusterVars

\* Every step preserves the invariant about the size ...
LEMMA NextKeepsSize ==
    ASSUME Orderly, IInv, LagInv, SizeInv, ActsOnCount, [Next]_vars
    PROVE  SizeInv' /\ ActsOnCount'
<1>1. CASE sts' # sts
  BY <1>1, PatchSafe
<1>2. CASE sts' = sts
  <2>1. CASE UNCHANGED <<coh, sts, clusterVars>>
    BY <2>1, SameClusterSize, OrderlyReads
  <2>2. CASE Rebalance
    <3>1. UNCHANGED <<coh, store, sts, pods, op>>
      BY <2>2 DEF Rebalance, userVars
    <3>2. UNCHANGED <<Outdated, Unready, Surplus>>
      BY <3>1 DEF Outdated, Unready, Surplus
    <3>. QED
      BY <3>1, <3>2, PodStepSize
  <2>. QED
    BY <1>2, <2>1, <2>2, ClusterSteps, EditSafe, PodsKeepSize
<1>. QED
  BY <1>1, <1>2

\* ... and, with the probe before an upgrade, the one about the data.
LEMMA NextKeepsData ==
    ASSUME Orderly, HABeforeUpdate, IInv, LagInv, SizeInv, ActsOnCount,
           DataInv, ActsOnWhole, [Next]_vars
    PROVE  DataInv' /\ ActsOnWhole'
<1>0. KnowsEdit
  BY OrderlyReads
<1>1. CASE sts' # sts
  BY <1>1, PatchSafe
<1>2. CASE sts' = sts
  <2>1. CASE UNCHANGED <<coh, sts, clusterVars>>
    BY <1>0, <2>1, SameClusterData
  <2>2. CASE \E i \in Ordinals : \/ StsCreatesPod(i) \/ StsScalesDown(i) \/ StsRollsPod(i)
                                 \/ PodJoins(i) \/ PodBecomesReady(i) \/ PodDeparts(i)
    BY <1>0, <2>2, CreateSafe, DeleteSafe, JoinSafe, ReadySafe, DepartSafe
  <2>3. CASE Rebalance
    BY <1>0, <2>3, RebalanceSafe
  <2>. QED
    BY <1>2, <2>1, <2>2, <2>3, ClusterSteps, EditSafe
<1>. QED
  BY <1>1, <1>2

-----------------------------------------------------------------------------
\* Scaling and upgrades do not overlap, and there is one Pod too many at most:
\* whatever the options of the resource, as long as its policy probes before it
\* scales down and each edit is rolled out before the next.
THEOREM ScalingIsQuiet ==
    ASSUME Orderly
    PROVE  Spec => [](SizeInv /\ ActsOnCount)
<1>1. Init => SizeInv /\ ActsOnCount
  BY InitSafe
<1>2. IInv /\ LagInv /\ SizeInv /\ ActsOnCount /\ [Next]_vars => SizeInv' /\ ActsOnCount'
  BY NextKeepsSize
<1>. QED
  BY <1>1, <1>2, Invariance, CopiesLag, PTL DEF Spec

\* Scaling down takes one member out of the cluster at a time: safeScale's probe
\* counts the Pods, so that the next step waits for the last member to go.
THEOREM MembersLeaveOneByOne ==
    ASSUME Orderly
    PROVE  Spec => []OneMemberLeavesAtATime
<1>1. SizeInv => OneMemberLeavesAtATime
  BY DEF SizeInv, OneOver, OneMemberLeavesAtATime, Condemned, Members, Surplus
<1>. QED
  BY <1>1, ScalingIsQuiet, PTL

\* No member leaves the cluster while some partition has no backup, whatever is
\* scaled and upgraded, fails and restarts: what safeScale and
\* maybePatchStatefulSet probe for.
THEOREM NothingIsLost ==
    ASSUME Orderly, HABeforeUpdate
    PROVE  Spec => []NoDataLoss
<1>1. Init => DataInv /\ ActsOnWhole
  BY InitSafe
<1>2. IInv /\ LagInv /\ SizeInv /\ ActsOnCount /\ DataInv /\ ActsOnWhole /\ [Next]_vars
        => DataInv' /\ ActsOnWhole'
  BY NextKeepsData
<1>3. DataInv => NoDataLoss
  BY DEF DataInv
<1>. QED
  BY <1>1, <1>2, <1>3, Invariance, CopiesLag, ScalingIsQuiet, PTL DEF Spec
=============================================================================
