-------------------- MODULE StatefulSetReconcilerProofs --------------------
(***************************************************************************)
(* Theorems about StatefulSetReconciler, for every size, number of edits   *)
(* and faults, policy and option.                                          *)
(***************************************************************************)
EXTENDS StatefulSetReconciler, FiniteSetTheorems, TLAPS

\* Between reading the StatefulSet and patching it, a reconcile holds the lock:
\* the size it decided on still differs from the stored one.
HoldsDecision ==
    /\ op.step \in {"scale", "thenScale"} => op.seen.spec.replicas # store.replicas
    /\ op.step = "patch" => \/ op.seen.spec.replicas = store.replicas
                            \/ op.seen.spec.legacy

\* Nobody else writes the StatefulSet's spec while a reconcile holds the lock.
ReadsAreCurrent ==
    ~StaleReads => (op.step # "idle" => op.seen.spec = sts)

\* The inductive invariant.
IInv ==
    /\ TypeOK
    /\ coh.hash = edits + 1
    /\ HoldsDecision
    /\ ReadsAreCurrent

-----------------------------------------------------------------------------
\* There are at most MaxReplicas ready Pods.
LEMMA ReadyPodsBounded ==
    ASSUME TypeOK
    PROVE  Cardinality(ReadyPods) \in 0 .. MaxReplicas
<1>1. /\ IsFiniteSet(Ordinals)
      /\ Cardinality(Ordinals) = MaxReplicas
  <2>1. MaxReplicas - 1 \in Int /\ 0 \in Int
    BY BoundsAssumption
  <2>2. IsFiniteSet(0 .. MaxReplicas - 1)
        /\ Cardinality(0 .. MaxReplicas - 1)
             = IF 0 > MaxReplicas - 1 THEN 0 ELSE MaxReplicas - 1 - 0 + 1
    BY <2>1, FS_Interval
  <2>. QED
    BY <2>2, BoundsAssumption DEF Ordinals
<1>2. ReadyPods \in SUBSET Ordinals
  BY DEF ReadyPods
<1>3. /\ IsFiniteSet(ReadyPods)
      /\ Cardinality(ReadyPods) <= Cardinality(Ordinals)
  BY <1>1, <1>2, FS_Subset
<1>4. Cardinality(ReadyPods) \in Nat
  BY <1>3, FS_CardinalityType
<1>. QED
  BY <1>1, <1>3, <1>4, BoundsAssumption

\* A merge patch of a well typed spec with well typed specs is well typed.
LEMMA MergePatchType ==
    ASSUME NEW seen \in StsSpec, NEW desired \in StsSpec, sts \in StsSpec,
           MergePatch(seen, desired)
    PROVE  sts' \in StsSpec
BY DEF MergePatch, Merged, StsSpec

\* A merge patch makes the spec the desired one if it still is the one that was
\* read, or is the desired one already.
LEMMA MergePatchMakes ==
    ASSUME NEW seen \in StsSpec, NEW desired \in StsSpec, sts \in {seen, desired},
           MergePatch(seen, desired)
    PROVE  sts' = desired
BY DEF MergePatch, Merged, StsSpec

-----------------------------------------------------------------------------
\* The invariant holds at first.
LEMMA InitInv == Init => IInv
<1>. SUFFICES ASSUME Init PROVE IInv
  OBVIOUS
<1>. USE BoundsAssumption, OptionsAssumption
<1>1. PICK n \in 1 .. MaxReplicas :
        /\ coh = [replicas |-> n, rev |-> 1, hash |-> 1]
        /\ store = coh
        /\ sts = [replicas |-> n, rev |-> 1, hash |-> 1, partition |-> 0,
                  legacy |-> LegacyStatefulSet]
        /\ status = [ready |-> n, currentRev |-> 1]
        /\ cache = Live
        /\ pods = [i \in Ordinals |-> IF i < n THEN [state |-> "Ready", rev |-> 1]
                                               ELSE NoPod]
        /\ endangered = FALSE
        /\ lost = FALSE
        /\ op = [step |-> "idle", who |-> "coherence", seen |-> Live]
        /\ queue = {}
        /\ edits = 0
        /\ faults = 0
  BY DEF Init
<1>2. /\ coh \in Desired
      /\ store \in Desired
      /\ sts \in StsSpec
      /\ status \in Status
  BY <1>1 DEF Desired, StsSpec, Status, Revs
<1>3. Live \in Read
  BY <1>2 DEF Live, Read
<1>4. pods \in [Ordinals -> Pod]
  BY <1>1 DEF Pod, NoPod, Revs
<1>5. op \in [step: Step, who: Controllers, seen: Read]
  BY <1>1, <1>3 DEF Step, Controllers
<1>6. /\ queue \in SUBSET Controllers
      /\ edits \in 0 .. MaxEdits
      /\ faults \in 0 .. MaxFaults
  BY <1>1
<1>9. endangered \in BOOLEAN /\ lost \in BOOLEAN
  BY <1>1, Zenon
<1>7. cache \in Read
  BY <1>1, <1>3
<1>8. TypeOK
  BY <1>2, <1>4, <1>5, <1>6, <1>7, <1>9 DEF TypeOK
<1>. QED
  BY <1>1, <1>8 DEF IInv, HoldsDecision, ReadsAreCurrent

\* What a scale patch asks for.
Scaled(seen, n) ==
    [seen EXCEPT !.replicas  = n,
                 !.partition = IF seen.replicas > n THEN n ELSE seen.replicas]

\* The desired spec of a scale patch is well typed.
LEMMA ScaleTargetType ==
    ASSUME NEW seen \in StsSpec, NEW n \in 1 .. MaxReplicas
    PROVE  Scaled(seen, n) \in StsSpec
<1>1. n \in 0 .. MaxReplicas /\ seen.replicas \in 0 .. MaxReplicas
  BY BoundsAssumption DEF StsSpec
<1>. QED
  BY <1>1 DEF StsSpec, Scaled

\* The desired spec of a template patch is well typed.
LEMMA PatchedSpecType ==
    ASSUME TypeOK
    PROVE  PatchedSpec \in StsSpec
BY BoundsAssumption DEF TypeOK, PatchedSpec, LegacyScaleDown, StsSpec, Desired, Read, Revs

-----------------------------------------------------------------------------
\* A patch of the replica count by a reconcile that may make it.
LEMMA ParallelScaleInv ==
    ASSUME IInv, op.step # "idle", NEW n \in 1 .. MaxReplicas, ParallelScale(n)
    PROVE  /\ sts' \in StsSpec
           /\ sts \in {op.seen.spec, Scaled(op.seen.spec, n)}
                => sts' = Scaled(op.seen.spec, n)
<1>1. op.seen.spec \in StsSpec /\ sts \in StsSpec
  BY DEF IInv, TypeOK, Read
<1>2. Scaled(op.seen.spec, n) \in StsSpec
  BY <1>1, ScaleTargetType
<1>3. MergePatch(op.seen.spec, Scaled(op.seen.spec, n))
  BY DEF ParallelScale, Scaled
<1>. QED
  BY <1>1, <1>2, <1>3, MergePatchType, MergePatchMakes

\* The patch of the template.
LEMMA PatchInv ==
    ASSUME IInv, Patch
    PROVE  /\ sts' \in StsSpec
           /\ sts \in {op.seen.spec, PatchedSpec} => sts' = PatchedSpec
<1>1. op.seen.spec \in StsSpec /\ sts \in StsSpec /\ PatchedSpec \in StsSpec
  BY PatchedSpecType DEF IInv, TypeOK, Read
<1>2. MergePatch(op.seen.spec, PatchedSpec)
  BY DEF Patch
<1>. QED
  BY <1>1, <1>2, MergePatchType, MergePatchMakes

\* The last step of a reconcile lets go of the lock.
LEMMA FinishType ==
    ASSUME TypeOK, Finish
    PROVE  /\ op' \in [step: Step, who: Controllers, seen: Read]
           /\ op'.step = "idle"
BY DEF TypeOK, Finish, Step

\* ... and may put its request back.
LEMMA FinishAndRequeueType ==
    ASSUME TypeOK, FinishAndRequeue
    PROVE  /\ op' \in [step: Step, who: Controllers, seen: Read]
           /\ op'.step = "idle"
           /\ queue' \in SUBSET Controllers
BY FinishType DEF TypeOK, FinishAndRequeue

\* After the template patch a reconcile is idle, or goes on to scale down with
\* what it has read.
LEMMA AfterPatchType ==
    ASSUME TypeOK, NEW read \in Read, NEW requeue \in BOOLEAN,
           AfterPatch(read, requeue)
    PROVE  /\ op' \in [step: Step, who: Controllers, seen: Read]
           /\ queue' \in SUBSET Controllers
           /\ op'.step = "idle" \/ (op'.step = "thenScale" /\ LegacyScaleDown /\ op'.seen = read)
<1>1. CASE LegacyScaleDown
  BY <1>1 DEF AfterPatch, TypeOK, Step
<1>2. CASE ~LegacyScaleDown
  <2>1. Finish /\ queue' = IF requeue THEN queue \cup {op.who} ELSE queue
    BY <1>2 DEF AfterPatch
  <2>2. queue' \in SUBSET Controllers
    BY <2>1 DEF TypeOK
  <2>. QED
    BY <2>1, <2>2, FinishType
<1>. QED
  BY <1>1, <1>2

-----------------------------------------------------------------------------
\* What the steps of a reconcile preserve.
LEMMA ReconcileInv == IInv /\ Reconcile => IInv'
<1>. SUFFICES ASSUME IInv, Reconcile PROVE IInv'
  OBVIOUS
<1>. USE BoundsAssumption
<1>1. ASSUME NEW c \in Controllers, BeginReconcile(c) PROVE IInv'
  <2>1. /\ store' \in Desired
        /\ queue' \in SUBSET Controllers
        /\ op' \in [step: Step, who: Controllers, seen: Read]
    BY <1>1 DEF IInv, TypeOK, BeginReconcile, Step
  <2>2. TypeOK'
    BY <1>1, <2>1 DEF IInv, TypeOK, BeginReconcile, userVars, clusterVars
  <2>3. ReadsAreCurrent'
    BY <1>1 DEF ReadsAreCurrent, BeginReconcile, Live
  <2>4. HoldsDecision' /\ coh'.hash = edits' + 1
    BY <1>1 DEF IInv, HoldsDecision, BeginReconcile, userVars
  <2>. QED
    BY <2>2, <2>3, <2>4 DEF IInv
<1>2. CASE ScaleParallel
  <2>1. op.step # "idle" /\ store.replicas \in 1 .. MaxReplicas
    BY <1>2 DEF ScaleParallel, MustScale, IInv, TypeOK, Desired
  <2>2. sts' \in StsSpec
    BY <1>2, <2>1, ParallelScaleInv DEF ScaleParallel
  <2>3. /\ op' \in [step: Step, who: Controllers, seen: Read]
        /\ op'.step = "idle"
        /\ queue' \in SUBSET Controllers
    BY <1>2, FinishAndRequeueType DEF ScaleParallel, IInv
  <2>4. TypeOK'
    BY <1>2, <2>2, <2>3 DEF IInv, TypeOK, ScaleParallel, userVars, clusterVars
  <2>. QED
    BY <1>2, <2>3, <2>4 DEF IInv, HoldsDecision, ReadsAreCurrent, ScaleParallel, userVars
<1>3. CASE ProbeBeforeScale
  <2>1. /\ op' \in [step: Step, who: Controllers, seen: Read]
        /\ queue' \in SUBSET Controllers
        /\ \/ op'.step = "idle"
           \/ op' = [op EXCEPT !.step = "scale"]
    <3>1. CASE op' = [op EXCEPT !.step = "scale"] /\ UNCHANGED queue
      BY <3>1 DEF IInv, TypeOK, Step
    <3>2. CASE FinishAndRequeue
      BY <3>2, FinishAndRequeueType DEF IInv
    <3>. QED
      BY <1>3, <3>1, <3>2 DEF ProbeBeforeScale
  <2>2. TypeOK'
    BY <1>3, <2>1 DEF IInv, TypeOK, ProbeBeforeScale, userVars, clusterVars
  <2>3. HoldsDecision' /\ ReadsAreCurrent'
    BY <1>3, <2>1 DEF IInv, TypeOK, HoldsDecision, ReadsAreCurrent, ProbeBeforeScale, MustScale
  <2>. QED
    BY <1>3, <2>2, <2>3 DEF IInv, ProbeBeforeScale, userVars
<1>4. CASE ScaleByOne
  <2>. DEFINE n == IF store.replicas > op.seen.spec.replicas THEN op.seen.spec.replicas + 1
                                                             ELSE op.seen.spec.replicas - 1
  <2>1. op.step # "idle" /\ n \in 1 .. MaxReplicas
    BY <1>4 DEF ScaleByOne, IInv, HoldsDecision, TypeOK, Desired, Read, StsSpec
  <2>2. ParallelScale(n)
    BY <1>4 DEF ScaleByOne
  <2>3. sts' \in StsSpec
    BY <2>1, <2>2, ParallelScaleInv
  <2>4. /\ op' \in [step: Step, who: Controllers, seen: Read]
        /\ op'.step = "idle"
        /\ queue' \in SUBSET Controllers
    BY <1>4, FinishAndRequeueType DEF ScaleByOne, IInv
  <2>5. TypeOK'
    BY <1>4, <2>3, <2>4 DEF IInv, TypeOK, ScaleByOne, userVars, clusterVars
  <2>. QED
    BY <1>4, <2>4, <2>5 DEF IInv, HoldsDecision, ReadsAreCurrent, ScaleByOne, userVars
<1>5. CASE NothingToPatch
  <2>1. op.seen \in Read /\ AfterPatch(op.seen, FALSE)
    BY <1>5 DEF NothingToPatch, IInv, TypeOK
  <2>2. /\ op' \in [step: Step, who: Controllers, seen: Read]
        /\ queue' \in SUBSET Controllers
        /\ \/ op'.step = "idle"
           \/ op'.step = "thenScale" /\ LegacyScaleDown /\ op'.seen = op.seen
    BY <2>1, AfterPatchType DEF IInv
  <2>3. TypeOK'
    BY <1>5, <2>2 DEF IInv, TypeOK, NothingToPatch, userVars, clusterVars
  <2>4. HoldsDecision' /\ ReadsAreCurrent'
    BY <1>5, <2>2 DEF IInv, TypeOK, Read, StsSpec, Desired, HoldsDecision, ReadsAreCurrent,
                      NothingToPatch, MayPatch, LegacyScaleDown
  <2>. QED
    BY <1>5, <2>3, <2>4 DEF IInv, NothingToPatch, userVars
<1>6. CASE ProbeBeforePatch
  <2>1. /\ op' \in [step: Step, who: Controllers, seen: Read]
        /\ queue' \in SUBSET Controllers
        /\ \/ op'.step = "idle"
           \/ op'.step = "thenScale" /\ LegacyScaleDown /\ op'.seen = op.seen
           \/ op' = [op EXCEPT !.step = "patch"]
    <3>1. CASE op' = [op EXCEPT !.step = "patch"] /\ UNCHANGED queue
      BY <3>1 DEF IInv, TypeOK, Step
    <3>2. CASE AfterPatch(op.seen, TRUE)
      <4>1. op.seen \in Read
        BY DEF IInv, TypeOK
      <4>. QED
        BY <3>2, <4>1, AfterPatchType DEF IInv
    <3>. QED
      BY <1>6, <3>1, <3>2 DEF ProbeBeforePatch
  <2>2. TypeOK'
    BY <1>6, <2>1 DEF IInv, TypeOK, ProbeBeforePatch, userVars, clusterVars
  <2>3. HoldsDecision' /\ ReadsAreCurrent'
    BY <1>6, <2>1 DEF IInv, TypeOK, Read, StsSpec, Desired, HoldsDecision, ReadsAreCurrent,
                      ProbeBeforePatch, MayPatch, LegacyScaleDown
  <2>. QED
    BY <1>6, <2>2, <2>3 DEF IInv, ProbeBeforePatch, userVars
<1>7. CASE Patch
  <2>. DEFINE read == [op.seen EXCEPT !.spec = [sts' EXCEPT !.replicas = op.seen.spec.replicas]]
  <2>1. sts' \in StsSpec /\ (~StaleReads => sts' = PatchedSpec)
    BY <1>7, PatchInv DEF IInv, ReadsAreCurrent, Patch
  <2>2. /\ op.seen \in Read
        /\ op.seen.spec \in StsSpec
        /\ store \in Desired
    BY DEF IInv, TypeOK, Read
  <2>3. read \in Read /\ read.spec.replicas = op.seen.spec.replicas
    BY <2>1, <2>2 DEF Read, StsSpec
  <2>4. AfterPatch(read, FALSE)
    BY <1>7 DEF Patch
  <2>. HIDE DEF read
  <2>5. /\ op' \in [step: Step, who: Controllers, seen: Read]
        /\ queue' \in SUBSET Controllers
        /\ \/ op'.step = "idle"
           \/ op'.step = "thenScale" /\ LegacyScaleDown /\ op'.seen = read
    BY <2>3, <2>4, AfterPatchType DEF IInv
  <2>6. TypeOK'
    BY <1>7, <2>1, <2>5 DEF IInv, TypeOK, Patch, userVars, clusterVars
  <2>7. store' = store
    BY <1>7 DEF Patch
  <2>8. HoldsDecision'
    BY <2>2, <2>3, <2>5, <2>7 DEF HoldsDecision, LegacyScaleDown, StsSpec, Desired
  <2>9. ASSUME ~StaleReads, LegacyScaleDown PROVE read.spec = sts'
    <3>1. sts' = PatchedSpec /\ PatchedSpec.replicas = op.seen.spec.replicas
      BY <2>1, <2>9 DEF PatchedSpec
    <3>. QED
      BY <2>1, <2>2, <3>1 DEF read, Read, StsSpec
  <2>10. ReadsAreCurrent'
    BY <2>5, <2>9 DEF ReadsAreCurrent
  <2>. QED
    BY <1>7, <2>6, <2>8, <2>10 DEF IInv, Patch, userVars
<1>. QED
  BY <1>1, <1>2, <1>3, <1>4, <1>5, <1>6, <1>7 DEF Reconcile

\* What the user, faults and the informer preserve.
LEMMA EnvironmentInv ==
    ASSUME IInv,
           \/ \E n \in 1 .. MaxReplicas, t \in BOOLEAN : Edit(n, t)
           \/ PatchFails \/ OperatorRestarts \/ CacheSync
    PROVE  IInv'
<1>. USE BoundsAssumption
<1>1. ASSUME NEW n \in 1 .. MaxReplicas, NEW t \in BOOLEAN, Edit(n, t) PROVE IInv'
  <2>1. /\ edits' \in 0 .. MaxEdits
        /\ edits' = edits + 1
        /\ coh'.hash = coh.hash + 1
    BY <1>1 DEF IInv, TypeOK, Edit
  <2>2. coh.hash + 1 \in Revs /\ coh.rev \in Revs
    BY <2>1 DEF IInv, TypeOK, Desired, Revs
  <2>3. coh' \in Desired
    BY <1>1, <2>2 DEF Edit, Desired
  <2>4. TypeOK'
    BY <1>1, <2>1, <2>3 DEF IInv, TypeOK, Edit, Controllers, clusterVars
  <2>. QED
    BY <1>1, <2>1, <2>4 DEF IInv, HoldsDecision, ReadsAreCurrent, Edit
<1>2. CASE PatchFails
  <2>1. /\ op' \in [step: Step, who: Controllers, seen: Read]
        /\ op'.step = "idle"
        /\ queue' \in SUBSET Controllers
    BY <1>2, FinishAndRequeueType DEF PatchFails, IInv
  <2>2. TypeOK'
    BY <1>2, <2>1 DEF IInv, TypeOK, PatchFails, userVars, clusterVars
  <2>. QED
    BY <1>2, <2>1, <2>2 DEF IInv, HoldsDecision, ReadsAreCurrent, PatchFails, userVars
<1>3. CASE OperatorRestarts
  <2>1. /\ op' \in [step: Step, who: Controllers, seen: Read]
        /\ op'.step = "idle"
    BY <1>3, FinishType DEF OperatorRestarts, IInv
  <2>2. Live \in Read
    BY DEF IInv, TypeOK, Live, Read
  <2>3. TypeOK'
    BY <1>3, <2>1, <2>2 DEF IInv, TypeOK, OperatorRestarts, Controllers, userVars, clusterVars
  <2>. QED
    BY <1>3, <2>1, <2>3 DEF IInv, HoldsDecision, ReadsAreCurrent, OperatorRestarts, userVars
<1>4. CASE CacheSync
  <2>1. Live \in Read
    BY DEF IInv, TypeOK, Live, Read
  <2>2. TypeOK'
    BY <1>4, <2>1 DEF IInv, TypeOK, CacheSync, Controllers, userVars, clusterVars
  <2>. QED
    BY <1>4, <2>2 DEF IInv, HoldsDecision, ReadsAreCurrent, CacheSync, userVars
<1>. QED
  BY <1>1, <1>2, <1>3, <1>4

\* Deleting a Pod preserves the type invariant.
LEMMA StsDeletesPodType ==
    ASSUME TypeOK, NEW i \in Ordinals, StsDeletesPod(i)
    PROVE  pods' \in [Ordinals -> Pod] /\ endangered' \in BOOLEAN
<1>. USE BoundsAssumption
<1>1. NoPod \in Pod
  BY DEF NoPod, Pod, Revs
<1>2. CASE SetPod(i, "Terminating") /\ UNCHANGED endangered
  <2>1. pods' \in [Ordinals -> Pod]
    BY <1>2 DEF SetPod, TypeOK, Pod
  <2>2. endangered' \in BOOLEAN
    BY <1>2 DEF TypeOK
  <2>. QED
    BY <2>1, <2>2
<1>3. CASE /\ pods' = [pods EXCEPT ![i] = NoPod]
           /\ endangered' = (endangered \/ (pods[i].state = "Joined" /\ Members # {i}))
  <2>1. pods' \in [Ordinals -> Pod]
    BY <1>1, <1>3 DEF TypeOK
  <2>2. endangered' \in BOOLEAN
    BY <1>3 DEF TypeOK
  <2>. QED
    BY <2>1, <2>2
<1>. QED
  BY <1>2, <1>3 DEF StsDeletesPod

\* What Kubernetes preserves.
LEMMA StsControllerInv == IInv /\ StsController => IInv'
<1>. SUFFICES ASSUME IInv, StsController PROVE IInv'
  OBVIOUS
<1>. USE BoundsAssumption
<1>1. ASSUME NEW i \in Ordinals, StsCreatesPod(i) PROVE IInv'
  <2>1. pods' \in [Ordinals -> Pod]
    BY <1>1 DEF IInv, TypeOK, StsCreatesPod, Pod, StsSpec, Status
  <2>2. TypeOK'
    BY <1>1, <2>1 DEF IInv, TypeOK, StsCreatesPod, userVars
  <2>. QED
    BY <1>1, <2>2 DEF IInv, HoldsDecision, ReadsAreCurrent, StsCreatesPod, userVars
<1>2. ASSUME NEW i \in Ordinals, StsDeletesPod(i) PROVE IInv'
  <2>1. pods' \in [Ordinals -> Pod] /\ endangered' \in BOOLEAN
    BY <1>2, StsDeletesPodType DEF IInv
  <2>2. TypeOK'
    BY <1>2, <2>1 DEF IInv, TypeOK, StsDeletesPod, userVars
  <2>. QED
    BY <1>2, <2>2 DEF IInv, HoldsDecision, ReadsAreCurrent, StsDeletesPod, userVars
<1>3. CASE StsReportsStatus
  <2>1. ActualStatus \in Status
    BY ReadyPodsBounded DEF IInv, TypeOK, ActualStatus, Status, StsSpec
  <2>2. TypeOK'
    BY <1>3, <2>1 DEF IInv, TypeOK, StsReportsStatus, userVars, clusterVars
  <2>. QED
    BY <1>3, <2>2 DEF IInv, HoldsDecision, ReadsAreCurrent, StsReportsStatus, userVars
<1>. QED
  BY <1>1, <1>2, <1>3 DEF StsController, StsScalesDown, StsRollsPod

\* What Pods and Coherence preserve.
LEMMA ClusterInv == IInv /\ Cluster => IInv'
<1>. SUFFICES ASSUME IInv, Cluster PROVE IInv'
  OBVIOUS
<1>. USE BoundsAssumption
<1>1. ASSUME NEW i \in Ordinals, PodJoins(i) PROVE IInv'
  <2>1. pods' \in [Ordinals -> Pod]
    BY <1>1 DEF IInv, TypeOK, PodJoins, SetPod, Pod
  <2>2. endangered' \in BOOLEAN
    BY <1>1 DEF IInv, TypeOK, PodJoins
  <2>3. TypeOK'
    BY <1>1, <2>1, <2>2 DEF IInv, TypeOK, PodJoins, userVars
  <2>. QED
    BY <1>1, <2>3 DEF IInv, HoldsDecision, ReadsAreCurrent, PodJoins, userVars
<1>2. ASSUME NEW i \in Ordinals, PodBecomesReady(i) PROVE IInv'
  <2>1. pods' \in [Ordinals -> Pod]
    BY <1>2 DEF IInv, TypeOK, PodBecomesReady, SetPod, Pod
  <2>2. TypeOK'
    BY <1>2, <2>1 DEF IInv, TypeOK, PodBecomesReady, userVars
  <2>. QED
    BY <1>2, <2>2 DEF IInv, HoldsDecision, ReadsAreCurrent, PodBecomesReady, userVars
<1>3. ASSUME NEW i \in Ordinals, PodDeparts(i) PROVE IInv'
  <2>1. NoPod \in Pod
    BY DEF NoPod, Pod, Revs
  <2>2. pods' \in [Ordinals -> Pod]
    BY <1>3, <2>1 DEF IInv, TypeOK, PodDeparts
  <2>3. endangered' \in BOOLEAN
    BY <1>3 DEF PodDeparts
  <2>5. lost' \in BOOLEAN
    BY <1>3, Zenon DEF PodDeparts
  <2>4. TypeOK'
    BY <1>3, <2>2, <2>3, <2>5 DEF IInv, TypeOK, PodDeparts, userVars
  <2>. QED
    BY <1>3, <2>4 DEF IInv, HoldsDecision, ReadsAreCurrent, PodDeparts, userVars
<1>4. CASE Rebalance
  <2>1. TypeOK'
    BY <1>4 DEF IInv, TypeOK, Rebalance, userVars
  <2>. QED
    BY <1>4, <2>1 DEF IInv, HoldsDecision, ReadsAreCurrent, Rebalance, userVars
<1>. QED
  BY <1>1, <1>2, <1>3, <1>4 DEF Cluster

\* Every step preserves the invariant.
LEMMA NextInv == IInv /\ [Next]_vars => IInv'
<1>1. ASSUME IInv, UNCHANGED vars PROVE IInv'
  BY <1>1 DEF IInv, TypeOK, HoldsDecision, ReadsAreCurrent, vars, userVars, clusterVars
<1>. QED
  BY <1>1, ReconcileInv, EnvironmentInv, StsControllerInv, ClusterInv DEF Next

-----------------------------------------------------------------------------
\* The strengthened invariant holds always.
LEMMA Invariance == Spec => []IInv
<1>. QED
  BY InitInv, NextInv, PTL DEF Spec

\* The type invariant.
THEOREM TypeCorrect == Spec => []TypeOK
<1>1. IInv => TypeOK
  BY DEF IInv
<1>. QED
  BY <1>1, Invariance, PTL

-----------------------------------------------------------------------------
(***************************************************************************)
(* What a reconcile reads of the StatefulSet may lag behind.  As long as   *)
(* the user waits for an edit to be rolled out, it lags by no more than    *)
(* one patch, and that is the patch the reconcile would make.              *)
(***************************************************************************)

\* The size the next scale patch asks for.
NextSize(n) ==
    IF \/ Policy = "Parallel"
       \/ Policy = "ParallelUpSafeDown" /\ coh.replicas > n
    THEN coh.replicas
    ELSE IF coh.replicas > n THEN n + 1 ELSE n - 1

\* What the next patch makes of a spec that no operator <= 3.4.3 made.
Successor(spec) ==
    IF spec.replicas # coh.replicas
    THEN Scaled(spec, NextSize(spec.replicas))
    ELSE [replicas |-> coh.replicas, rev |-> coh.rev, hash |-> coh.hash,
          partition |-> 0, legacy |-> FALSE]

\* A reconcile that changes something works on the last edit: until the edit is
\* stored the StatefulSet is as the store says, and known to be so.
KnowsEdit ==
    \/ store = coh
    \/ /\ store.replicas = sts.replicas
       /\ store.hash = sts.hash
       /\ cache.spec = sts
       /\ op.step \in {"idle", "decide"}
       /\ op.step = "decide" => op.seen.spec = sts

\* The copies are the StatefulSet's spec or the one before it, in the order in
\* which they were made.
LagsByOne ==
    /\ ~sts.legacy
    /\ cache.spec = sts \/ sts = Successor(cache.spec)
    /\ ~cache.spec.legacy
    /\ op.step # "idle" =>
         /\ op.seen.spec = sts \/ sts = Successor(op.seen.spec)
         /\ ~op.seen.spec.legacy
         /\ cache.spec \in {op.seen.spec, sts}
         /\ op.step \in {"decide", "scale", "patch"}
    /\ op.step = "scale" => ~ScalesInParallel
    /\ op.step = "patch" => op.seen.spec.hash # store.hash

LagInv ==
    ~EditsOverlap =>
      /\ KnowsEdit
      /\ StaleReads /\ ~LegacyStatefulSet => LagsByOne

\* A patch by a reconcile that lags makes what the StatefulSet is to be next, and
\* nothing if it is that already.
LEMMA PatchMakesSuccessor ==
    ASSUME IInv, KnowsEdit, LagsByOne, ScaleParallel \/ ScaleByOne \/ Patch
    PROVE  sts' = Successor(op.seen.spec) /\ UNCHANGED <<coh, store, cache>>
<1>. DEFINE seen == op.seen.spec
<1>0. /\ seen \in StsSpec /\ store \in Desired /\ sts \in StsSpec
      /\ seen.replicas \in 1 .. MaxReplicas
      /\ store.replicas \in 1 .. MaxReplicas
      /\ MaxReplicas \in Nat
      /\ Policy \in Policies
  BY BoundsAssumption, OptionsAssumption DEF IInv, TypeOK, Read, StsSpec, Desired
<1>1. CASE ScaleParallel
  <2>1. op.step # "idle" /\ seen.replicas # store.replicas /\ ScalesInParallel
    BY <1>1 DEF ScaleParallel, MustScale
  <2>2. store = coh
    BY <2>1 DEF KnowsEdit
  <2>3. Successor(seen) = Scaled(seen, store.replicas)
    BY <2>1, <2>2 DEF Successor, NextSize, ScalesInParallel
  <2>4. sts \in {seen, Scaled(seen, store.replicas)}
    BY <2>1, <2>3 DEF LagsByOne
  <2>5. ParallelScale(store.replicas)
    BY <1>1 DEF ScaleParallel
  <2>6. sts' = Scaled(seen, store.replicas)
    BY <1>0, <2>1, <2>4, <2>5, ParallelScaleInv
  <2>. QED
    BY <1>1, <2>3, <2>6 DEF ScaleParallel, userVars
<1>2. CASE ScaleByOne
  <2>. DEFINE n == IF store.replicas > seen.replicas THEN seen.replicas + 1
                                                    ELSE seen.replicas - 1
  <2>1. op.step = "scale" /\ seen.replicas # store.replicas /\ ~ScalesInParallel
    BY <1>2 DEF ScaleByOne, IInv, HoldsDecision, LagsByOne
  <2>2. store = coh
    BY <2>1 DEF KnowsEdit
  <2>3. Successor(seen) = Scaled(seen, n)
    BY <2>1, <2>2 DEF Successor, NextSize, ScalesInParallel
  <2>4. sts \in {seen, Scaled(seen, n)}
    BY <2>1, <2>3 DEF LagsByOne
  <2>5. ParallelScale(n) /\ n \in 1 .. MaxReplicas
    BY <1>0, <1>2, <2>1 DEF ScaleByOne
  <2>. HIDE DEF n
  <2>6. sts' = Scaled(seen, n)
    BY <2>1, <2>4, <2>5, ParallelScaleInv
  <2>. QED
    BY <1>2, <2>3, <2>6 DEF ScaleByOne, userVars
<1>3. CASE Patch
  <2>1. op.step = "patch" /\ ~seen.legacy /\ seen.replicas = store.replicas
    BY <1>3 DEF Patch, IInv, HoldsDecision, LagsByOne
  <2>2. store = coh
    BY <2>1 DEF KnowsEdit
  <2>3. Successor(seen) = PatchedSpec
    BY <2>1, <2>2 DEF Successor, PatchedSpec
  <2>4. sts \in {seen, PatchedSpec}
    BY <2>1, <2>3 DEF LagsByOne
  <2>. QED
    BY <1>3, <2>3, <2>4, PatchInv DEF Patch, userVars
<1>. QED
  BY <1>1, <1>2, <1>3

\* Kubernetes, the Pods and Coherence write nothing of the operator's.
LEMMA ClusterKeepsOperator ==
    ASSUME StsController \/ Cluster
    PROVE  UNCHANGED <<coh, store, sts, cache, op, queue, edits>>
BY DEF StsController, StsCreatesPod, StsScalesDown, StsRollsPod, StsDeletesPod,
       StsReportsStatus, Cluster, PodJoins, PodBecomesReady, PodDeparts, Rebalance,
       userVars, clusterVars

\* An edit finds the operator idle, its store and its cache up to date.
LEMMA EditFindsSettled ==
    ASSUME ~EditsOverlap, KnowsEdit, NEW n, NEW t, Edit(n, t)
    PROVE  /\ op.step = "idle"
           /\ cache.spec = sts
           /\ store.replicas = sts.replicas
           /\ store.hash = sts.hash
           /\ UNCHANGED <<store, sts, cache, op>>
BY DEF Edit, Settled, KnowsEdit, Live

\* What the reconciler knows of the last edit, step by step.
LEMMA KnowsEditNext ==
    ASSUME IInv, ~EditsOverlap, KnowsEdit, [Next]_vars
    PROVE  KnowsEdit'
<1>1. ASSUME NEW n \in 1 .. MaxReplicas, NEW t \in BOOLEAN, Edit(n, t) PROVE KnowsEdit'
  BY <1>1, EditFindsSettled DEF KnowsEdit
<1>2. CASE Reconcile
  <2>1. coh' = coh /\ cache' = cache /\ store' \in {store, coh}
    BY <1>2 DEF Reconcile, BeginReconcile, ScaleParallel, ProbeBeforeScale, ScaleByOne,
                NothingToPatch, ProbeBeforePatch, Patch, userVars
  <2>2. SUFFICES ASSUME store # coh, store' = store PROVE KnowsEdit'
    BY <2>1 DEF KnowsEdit
  <2>3. /\ store.replicas = sts.replicas
        /\ store.hash = sts.hash
        /\ cache.spec = sts
        /\ op.step \in {"idle", "decide"}
        /\ op.step = "decide" => op.seen.spec = sts
    BY <2>2 DEF KnowsEdit
  <2>4. (\E c \in Controllers : BeginReconcile(c)) \/ NothingToPatch
    BY <1>2, <2>3 DEF Reconcile, ScaleParallel, ProbeBeforeScale, MustScale, ScaleByOne,
                      ProbeBeforePatch, MayPatch, Patch
  <2>5. ASSUME NEW c \in Controllers, BeginReconcile(c) PROVE KnowsEdit'
    BY <2>1, <2>2, <2>3, <2>5 DEF BeginReconcile, KnowsEdit
  <2>6. CASE NothingToPatch
    <3>1. op.step = "decide" /\ AfterPatch(op.seen, FALSE) /\ sts' = sts
      BY <2>6 DEF NothingToPatch, MayPatch
    <3>2. ~LegacyScaleDown
      BY <2>3, <3>1 DEF LegacyScaleDown, IInv, TypeOK, StsSpec
    <3>3. op'.step = "idle"
      BY <3>1, <3>2, FinishType DEF AfterPatch, IInv
    <3>. QED
      BY <2>1, <2>2, <2>3, <3>1, <3>3 DEF KnowsEdit
  <2>. QED
    BY <2>4, <2>5, <2>6
<1>3. CASE PatchFails \/ OperatorRestarts
  <2>1. op'.step = "idle"
    BY <1>3, FinishType, FinishAndRequeueType DEF PatchFails, OperatorRestarts, IInv
  <2>2. UNCHANGED <<coh, store, sts>> /\ cache' \in {cache, Live}
    BY <1>3 DEF PatchFails, OperatorRestarts, userVars
  <2>. QED
    BY <2>1, <2>2 DEF KnowsEdit, Live
<1>4. CASE CacheSync
  BY <1>4 DEF CacheSync, KnowsEdit, Live, userVars
<1>5. CASE StsController \/ Cluster \/ UNCHANGED vars
  <2>1. UNCHANGED <<coh, store, sts, cache, op>>
    BY <1>5, ClusterKeepsOperator DEF vars
  <2>. QED
    BY <2>1 DEF KnowsEdit
<1>. QED
  BY <1>1, <1>2, <1>3, <1>4, <1>5 DEF Next

\* How far the copies lag, step by step.
LEMMA LagsByOneNext ==
    ASSUME IInv, ~EditsOverlap, KnowsEdit, LagsByOne, [Next]_vars
    PROVE  LagsByOne'
<1>1. ASSUME NEW n \in 1 .. MaxReplicas, NEW t \in BOOLEAN, Edit(n, t) PROVE LagsByOne'
  BY <1>1, EditFindsSettled DEF LagsByOne
<1>2. CASE \E c \in Controllers : BeginReconcile(c)
  <2>1. PICK c \in Controllers : BeginReconcile(c)
    BY <1>2
  <2>2. /\ UNCHANGED <<coh, sts, cache>>
        /\ op'.step = "decide"
        /\ op'.seen.spec = cache.spec
    BY <2>1 DEF BeginReconcile, userVars
  <2>. QED
    BY <2>2 DEF LagsByOne, Successor, NextSize
<1>3. CASE ScaleParallel \/ ScaleByOne \/ Patch
  <2>1. sts' = Successor(op.seen.spec) /\ UNCHANGED <<coh, store, cache>>
    BY <1>3, PatchMakesSuccessor
  <2>2. op.step # "idle"
    BY <1>3 DEF ScaleParallel, MustScale, ScaleByOne, Patch
  <2>3. ~LegacyScaleDown /\ ~op.seen.spec.legacy
    BY <2>2 DEF LagsByOne, LegacyScaleDown
  <2>4. op'.step = "idle"
    BY <1>3, <2>3, FinishType, FinishAndRequeueType
       DEF ScaleParallel, ScaleByOne, Patch, AfterPatch, IInv
  <2>5. ~sts'.legacy
    <3>1. op.seen.spec \in StsSpec
      BY DEF IInv, TypeOK, Read
    <3>. QED
      BY <2>1, <2>3, <3>1 DEF Successor, Scaled, StsSpec
  <2>6. cache'.spec = sts' \/ sts' = Successor(cache.spec)
    BY <2>1, <2>2 DEF LagsByOne
  <2>. QED
    BY <2>1, <2>4, <2>5, <2>6 DEF LagsByOne, Successor, NextSize
<1>4. CASE ProbeBeforeScale
  <2>1. /\ UNCHANGED <<coh, store, sts, cache>>
        /\ op.step # "idle"
        /\ ~ScalesInParallel
    BY <1>4 DEF ProbeBeforeScale, MustScale, userVars
  <2>2. \/ op'.step = "idle"
        \/ op'.step = "scale" /\ op'.seen = op.seen
    BY <1>4, FinishAndRequeueType DEF ProbeBeforeScale, IInv, TypeOK
  <2>. QED
    BY <2>1, <2>2 DEF LagsByOne, Successor, NextSize, ScalesInParallel
<1>5. CASE NothingToPatch \/ ProbeBeforePatch
  <2>1. UNCHANGED <<coh, store, sts, cache>> /\ op.step # "idle"
    BY <1>5 DEF NothingToPatch, ProbeBeforePatch, MayPatch, userVars
  <2>2. ~LegacyScaleDown
    BY <2>1 DEF LagsByOne, LegacyScaleDown
  <2>3. \/ op'.step = "idle"
        \/ op'.step = "patch" /\ op'.seen = op.seen /\ op.seen.spec.hash # store.hash
    BY <1>5, <2>2, FinishType DEF NothingToPatch, ProbeBeforePatch, AfterPatch, IInv, TypeOK
  <2>. QED
    BY <2>1, <2>3 DEF LagsByOne, Successor, NextSize
<1>6. CASE PatchFails \/ OperatorRestarts
  <2>1. op'.step = "idle"
    BY <1>6, FinishType, FinishAndRequeueType DEF PatchFails, OperatorRestarts, IInv
  <2>2. UNCHANGED <<coh, store, sts>> /\ cache' \in {cache, Live}
    BY <1>6 DEF PatchFails, OperatorRestarts, userVars
  <2>. QED
    BY <2>1, <2>2 DEF LagsByOne, Live, Successor, NextSize
<1>7. CASE CacheSync
  <2>1. UNCHANGED <<coh, store, sts, op>> /\ cache' = Live
    BY <1>7 DEF CacheSync, userVars
  <2>. QED
    BY <2>1 DEF LagsByOne, Live, Successor, NextSize, ScalesInParallel
<1>8. CASE StsController \/ Cluster \/ UNCHANGED vars
  <2>1. UNCHANGED <<coh, store, sts, cache, op>>
    BY <1>8, ClusterKeepsOperator DEF vars
  <2>. QED
    BY <2>1 DEF LagsByOne, Successor, NextSize, ScalesInParallel
<1>. QED
  BY <1>1, <1>2, <1>3, <1>4, <1>5, <1>6, <1>7, <1>8 DEF Next, Reconcile

\* The copies lag by one patch at most.
THEOREM CopiesLag == Spec => []LagInv
<1>1. Init => LagInv
  BY DEF Init, LagInv, KnowsEdit, LagsByOne, Live
<1>2. IInv /\ LagInv /\ [Next]_vars => LagInv'
  BY KnowsEditNext, LagsByOneNext DEF LagInv
<1>. QED
  BY <1>1, <1>2, Invariance, PTL DEF Spec
-----------------------------------------------------------------------------
\* What the theorems about the patches need: reads that are current, or a user who
\* waits for an edit to be rolled out and a StatefulSet of a current operator.
ReadsSuffice == ~StaleReads \/ (~EditsOverlap /\ ~LegacyStatefulSet)

\* Only three steps write the spec of the StatefulSet.
LEMMA SpecWriters ==
    ASSUME [Next]_vars, sts' # sts
    PROVE  ScaleParallel \/ ScaleByOne \/ Patch
<1>1. CASE StsController \/ Cluster
  BY <1>1, ClusterKeepsOperator
<1>. QED
  BY <1>1 DEF Next, vars, Edit, Reconcile, BeginReconcile, ProbeBeforeScale, NothingToPatch,
       ProbeBeforePatch, PatchFails, OperatorRestarts, CacheSync

\* A patch that changes the StatefulSet was computed from what the StatefulSet is.
LEMMA ChangesWhatItRead ==
    ASSUME ReadsSuffice, IInv, LagInv, [Next]_vars, sts' # sts
    PROVE  /\ op.seen.spec = sts
           /\ op.step # "idle"
           /\ UNCHANGED store
<1>1. ScaleParallel \/ ScaleByOne \/ Patch
  BY SpecWriters
<1>2. op.step # "idle" /\ UNCHANGED store
  BY <1>1 DEF ScaleParallel, MustScale, ScaleByOne, Patch
<1>3. CASE ~StaleReads
  BY <1>2, <1>3 DEF IInv, ReadsAreCurrent
<1>4. CASE StaleReads
  <2>1. KnowsEdit /\ LagsByOne
    BY <1>4 DEF ReadsSuffice, LagInv
  <2>2. sts' = Successor(op.seen.spec)
    BY <1>1, <2>1, PatchMakesSuccessor
  <2>. QED
    BY <1>2, <2>1, <2>2 DEF LagsByOne
<1>. QED
  BY <1>2, <1>3, <1>4 DEF IInv, TypeOK

\* What each of the three steps makes of the StatefulSet it changes.
LEMMA SpecChanges ==
    ASSUME ReadsSuffice, IInv, LagInv, [Next]_vars, sts' # sts
    PROVE  \/ /\ ScaleParallel
              /\ sts.replicas # store.replicas
              /\ sts' = Scaled(sts, store.replicas)
           \/ /\ ScaleByOne
              /\ sts.replicas # store.replicas
              /\ sts' = Scaled(sts, IF store.replicas > sts.replicas
                                    THEN sts.replicas + 1 ELSE sts.replicas - 1)
           \/ /\ Patch
              /\ sts' = PatchedSpec
<1>1. op.seen.spec = sts /\ op.step # "idle"
  BY ChangesWhatItRead
<1>2. /\ sts \in StsSpec /\ store \in Desired
      /\ store.replicas \in 1 .. MaxReplicas
      /\ sts.replicas \in 1 .. MaxReplicas
      /\ MaxReplicas \in Nat
  BY BoundsAssumption DEF IInv, TypeOK, StsSpec, Desired
<1>3. CASE ScaleParallel
  <2>1. sts.replicas # store.replicas /\ ParallelScale(store.replicas)
    BY <1>1, <1>3 DEF ScaleParallel, MustScale
  <2>2. sts' = Scaled(sts, store.replicas)
    BY <1>1, <1>2, <2>1, ParallelScaleInv
  <2>. QED
    BY <1>3, <2>1, <2>2
<1>4. CASE ScaleByOne
  <2>. DEFINE n == IF store.replicas > sts.replicas THEN sts.replicas + 1
                                                   ELSE sts.replicas - 1
  <2>1. sts.replicas # store.replicas /\ ParallelScale(n)
    BY <1>1, <1>4 DEF ScaleByOne, IInv, HoldsDecision
  <2>2. n \in 1 .. MaxReplicas
    BY <1>2, <2>1
  <2>. HIDE DEF n
  <2>3. sts' = Scaled(sts, n)
    BY <1>1, <2>1, <2>2, ParallelScaleInv
  <2>. QED
    BY <1>4, <2>1, <2>3 DEF n
<1>5. CASE Patch
  BY <1>1, <1>5, PatchInv
<1>. QED
  BY <1>3, <1>4, <1>5, SpecWriters

\* Every change of the replica count leaves the members that stay behind the
\* partition or already at the new revision.
THEOREM ScalingProtects ==
    ASSUME ReadsSuffice
    PROVE  Spec => ScalingProtectsMembers
<1>. DEFINE Protects ==
       sts'.replicas # sts.replicas
         => \A i \in Existing : i < sts.replicas /\ i < sts'.replicas
              => i < sts'.partition \/ pods[i].rev = sts'.rev
<1>1. IInv /\ LagInv /\ [Next]_vars => [Protects]_vars
  <2>. SUFFICES ASSUME IInv, LagInv, [Next]_vars, sts'.replicas # sts.replicas,
                       NEW i \in Existing, i < sts.replicas, i < sts'.replicas
                PROVE  i < sts'.partition
    OBVIOUS
  <2>0. /\ i \in Int /\ sts \in StsSpec /\ store \in Desired
        /\ sts.replicas \in Int /\ store.replicas \in Int
    BY BoundsAssumption DEF Existing, Ordinals, IInv, TypeOK, StsSpec, Desired
  <2>1. ASSUME NEW n \in Int, sts' = Scaled(sts, n) PROVE i < sts'.partition
    BY <2>0, <2>1 DEF Scaled, StsSpec
  <2>2. ASSUME sts' = PatchedSpec PROVE i < sts'.partition
    <3>1. op.seen.spec = sts
      BY ChangesWhatItRead
    <3>. QED
      BY <2>0, <2>2, <3>1 DEF PatchedSpec, LegacyScaleDown, StsSpec
  <2>3. sts.replicas + 1 \in Int /\ sts.replicas - 1 \in Int
    BY <2>0
  <2>. QED
    BY <2>0, <2>1, <2>2, <2>3, SpecChanges
<1>. QED
  BY <1>1, Invariance, CopiesLag, PTL DEF Spec, ScalingProtectsMembers

-----------------------------------------------------------------------------
\* A StatefulSet that no operator <= 3.4.3 made does not become one.
NotLegacy == ~sts.legacy
LEMMA NeverLegacy ==
    ASSUME ReadsSuffice, ~LegacyStatefulSet
    PROVE  Spec => []NotLegacy
<1>1. Init => NotLegacy
  BY DEF Init, NotLegacy
<1>2. IInv /\ LagInv /\ NotLegacy /\ [Next]_vars => NotLegacy'
  <2>. SUFFICES ASSUME IInv, LagInv, ~sts.legacy, [Next]_vars, sts' # sts PROVE ~sts'.legacy
    BY DEF NotLegacy
  <2>1. ASSUME NEW n, sts' = Scaled(sts, n) PROVE ~sts'.legacy
    BY <2>1 DEF Scaled, IInv, TypeOK, StsSpec
  <2>2. ASSUME sts' = PatchedSpec PROVE ~sts'.legacy
    BY <2>2 DEF PatchedSpec
  <2>. QED
    BY <2>1, <2>2, SpecChanges
<1>. QED
  BY <1>1, <1>2, Invariance, CopiesLag, PTL DEF Spec

\* A patch of the replica count of the StatefulSet as it is takes it towards the
\* stored one, and shields what it leaves.
LEMMA GrowsOrShrinks ==
    ASSUME TypeOK, NEW n \in Int,
           sts.replicas # store.replicas,
           \/ n = store.replicas
           \/ n = IF store.replicas > sts.replicas THEN sts.replicas + 1 ELSE sts.replicas - 1,
           sts' = Scaled(sts, n),
           UNCHANGED store
    PROVE  n \in 1 .. MaxReplicas /\ (Rollout!Grow(n) \/ Rollout!Shrink(n))
<1>1. /\ sts.replicas \in 1 .. MaxReplicas
      /\ store.replicas \in 1 .. MaxReplicas
      /\ MaxReplicas \in Nat
      /\ sts'.replicas = n
      /\ sts'.rev = sts.rev
      /\ sts'.partition = IF sts.replicas > n THEN n ELSE sts.replicas
  BY BoundsAssumption DEF TypeOK, StsSpec, Desired, Scaled
<1>2. CASE sts.replicas < store.replicas
  <2>1. sts.replicas < n /\ n <= store.replicas
    BY <1>1, <1>2
  <2>. QED
    BY <1>1, <2>1 DEF Rollout!Grow
<1>3. CASE store.replicas < sts.replicas
  <2>1. n < sts.replicas /\ store.replicas <= n
    BY <1>1, <1>3
  <2>. QED
    BY <1>1, <2>1 DEF Rollout!Shrink
<1>. QED
  BY <1>1, <1>2, <1>3

\* Two reconcilers that scale and patch one StatefulSet under faults, restarts
\* and new edits, or from copies that lag, implement an orderly rollout.
THEOREM RolloutIsOrderly ==
    ASSUME ReadsSuffice, ~LegacyStatefulSet
    PROVE  Spec => RollsOutInOrder
<1>. DEFINE w == [size |-> store.replicas, rev |-> store.rev]
            h == [size |-> sts.replicas, rev |-> sts.rev]
<1>1. Init => Rollout!Init
  BY BoundsAssumption DEF Init, Rollout!Init, Revs
<1>2. IInv /\ LagInv /\ NotLegacy /\ [Next]_vars => [Rollout!Next]_<<w, h, sts.partition>>
  <2>. SUFFICES ASSUME IInv, LagInv, ~sts.legacy, [Next]_vars
                PROVE  Rollout!Next \/ UNCHANGED <<w, h, sts.partition>>
    BY DEF NotLegacy
  <2>0. sts \in StsSpec /\ store \in Desired /\ store' \in Desired /\ TypeOK
    BY NextInv DEF IInv, TypeOK
  <2>1. CASE sts' # sts
    <3>1. /\ op.seen.spec = sts
          /\ UNCHANGED store
      BY <2>1, ChangesWhatItRead
    <3>2. ASSUME NEW n \in Int,
                 sts.replicas # store.replicas,
                 \/ n = store.replicas
                 \/ n = IF store.replicas > sts.replicas THEN sts.replicas + 1
                                                         ELSE sts.replicas - 1,
                 sts' = Scaled(sts, n)
          PROVE  Rollout!Next
      <4>1. n \in 1 .. MaxReplicas /\ (Rollout!Grow(n) \/ Rollout!Shrink(n))
        BY <2>0, <3>1, <3>2, GrowsOrShrinks
      <4>. QED
        BY <4>1 DEF Rollout!Next
    <3>3. ASSUME Patch, sts' = PatchedSpec PROVE Rollout!Next
      <4>1. sts.replicas = store.replicas
        BY <3>1, <3>3 DEF IInv, HoldsDecision, Patch
      <4>2. Rollout!Upgrade
        BY <3>1, <3>3, <4>1 DEF PatchedSpec, Rollout!Upgrade
      <4>. QED
        BY <4>2 DEF Rollout!Next
    <3>4. store.replicas \in Int /\ sts.replicas + 1 \in Int /\ sts.replicas - 1 \in Int
      BY <2>0, BoundsAssumption DEF StsSpec, Desired
    <3>. QED
      BY <2>1, <3>2, <3>3, <3>4, SpecChanges
  <2>2. CASE UNCHANGED sts
    <3>1. CASE UNCHANGED store
      BY <2>2, <3>1
    <3>2. CASE store' # store
      <4>1. w' \in [size: 1 .. MaxReplicas, rev: Revs]
        BY <2>0 DEF Desired
      <4>. QED
        BY <2>2, <4>1 DEF Rollout!Next, Rollout!Want
    <3>. QED
      BY <3>1, <3>2
  <2>. QED
    BY <2>1, <2>2
<1>. QED
  BY <1>1, <1>2, Invariance, CopiesLag, NeverLegacy, PTL DEF Spec, RollsOutInOrder, Rollout!Spec

-----------------------------------------------------------------------------
(***************************************************************************)
(* Nothing is forgotten, whatever the options are.                         *)
(***************************************************************************)

\* Generations and templates only grow, and each has one meaning.
InOrder ==
    /\ store.hash <= coh.hash
    /\ store.hash = coh.hash => store = coh
    /\ sts.hash <= store.hash
    /\ coh.rev <= coh.hash
    /\ store.rev <= coh.rev
    /\ sts.rev <= store.rev
    /\ cache.spec.rev <= sts.rev
    /\ op.step # "idle" => op.seen.spec.rev <= sts.rev

\* A template that has been patched is the one that was wanted when its hash was,
\* although the copy from which the patch was computed may be old.
HashGivesRev == sts.hash = store.hash => sts.rev = store.rev

\* A StatefulSet of an operator <= 3.4.3 has not been patched, and has not been
\* scaled before the first edit.
Untouched(spec) ==
    spec.legacy => spec.hash = 1 /\ (store.hash = 1 => spec.replicas = store.replicas)

LegacyFirst ==
    /\ Untouched(sts)
    /\ Untouched(cache.spec)
    /\ sts.legacy => cache.spec.legacy
    /\ op.step # "idle" =>
         /\ Untouched(op.seen.spec)
         /\ sts.legacy => op.seen.spec.legacy
    /\ op.step = "patch" => op.seen.spec.hash # store.hash

\* Where work is left, something is queued or about to be.
WorkIsDue ==
    /\ store # coh => "coherence" \in queue
    /\ op.step \in {"decide", "patch"} /\ queue = {} => cache.spec = op.seen.spec
    /\ op.step = "idle" /\ queue = {} /\ cache.spec = sts
         => sts.replicas = store.replicas /\ sts.hash = store.hash

WorkInv == InOrder /\ HashGivesRev /\ LegacyFirst /\ WorkIsDue

\* The steps that patch the replica count leave everything else but the partition.
LEMMA ScaleKeeps ==
    ASSUME IInv, ScaleParallel \/ ScaleByOne
    PROVE  /\ sts'.rev = sts.rev /\ sts'.hash = sts.hash /\ sts'.legacy = sts.legacy
           /\ op.step # "idle"
           /\ op.seen.spec.replicas # store.replicas
           /\ op'.step = "idle"
           /\ queue' = queue \cup {op.who}
           /\ UNCHANGED <<coh, store, cache>>
<1>1. op.step # "idle" /\ op.seen.spec.replicas # store.replicas
  BY DEF ScaleParallel, MustScale, ScaleByOne, IInv, HoldsDecision
<1>2. op'.step = "idle" /\ queue' = queue \cup {op.who}
  BY FinishAndRequeueType DEF ScaleParallel, ScaleByOne, FinishAndRequeue, IInv
<1>3. ASSUME NEW n, ParallelScale(n)
      PROVE  sts'.rev = sts.rev /\ sts'.hash = sts.hash /\ sts'.legacy = sts.legacy
  <2>1. op.seen.spec \in StsSpec
    BY DEF IInv, TypeOK, Read
  <2>. QED
    BY <1>3, <2>1 DEF ParallelScale, MergePatch, Merged, StsSpec
<1>. QED
  BY <1>1, <1>2, <1>3 DEF ScaleParallel, ScaleByOne, userVars

\* The patch of the template makes the hash the stored one, and the template, if it
\* differs from the one that was read.
LEMMA PatchMerges ==
    ASSUME IInv, Patch
    PROVE  /\ sts'.rev = Merged(op.seen.spec.rev, store.rev, sts.rev)
           /\ sts'.hash = Merged(op.seen.spec.hash, store.hash, sts.hash)
           /\ sts'.legacy = Merged(op.seen.spec.legacy, FALSE, sts.legacy)
           /\ op.step = "patch"
           /\ UNCHANGED <<coh, store, cache, queue>>
           /\ \/ op'.step = "idle"
              \/ /\ op'.step = "thenScale"
                 /\ op.seen.spec.legacy
                 /\ op'.seen.spec.rev = sts'.rev
                 /\ op'.seen.spec.legacy = sts'.legacy
<1>1. /\ sts'.rev = Merged(op.seen.spec.rev, store.rev, sts.rev)
      /\ sts'.hash = Merged(op.seen.spec.hash, store.hash, sts.hash)
      /\ sts'.legacy = Merged(op.seen.spec.legacy, FALSE, sts.legacy)
  BY DEF Patch, MergePatch, PatchedSpec
<1>. DEFINE read == [op.seen EXCEPT !.spec = [sts' EXCEPT !.replicas = op.seen.spec.replicas]]
<1>2. /\ AfterPatch(read, FALSE)
      /\ op.step = "patch"
      /\ UNCHANGED <<coh, store, cache>>
  BY DEF Patch, userVars
<1>3. UNCHANGED queue
  BY <1>2 DEF AfterPatch
<1>4. sts' \in StsSpec /\ op.seen \in Read
  BY PatchInv DEF IInv, TypeOK
<1>5. read \in Read /\ read.spec.rev = sts'.rev /\ read.spec.legacy = sts'.legacy
  BY <1>4 DEF Read, StsSpec
<1>. HIDE DEF read
<1>6. \/ op'.step = "idle"
      \/ op'.step = "thenScale" /\ LegacyScaleDown /\ op'.seen = read
  BY <1>2, <1>5, AfterPatchType DEF IInv
<1>. QED
  BY <1>1, <1>2, <1>3, <1>5, <1>6 DEF LegacyScaleDown

\* The other steps of the operator, the user and the cluster leave the spec.
LEMMA SpecKept ==
    ASSUME IInv, [Next]_vars, ~ScaleParallel, ~ScaleByOne, ~Patch
    PROVE  /\ UNCHANGED sts
           /\ cache' \in {cache, Live}
           /\ op.step = "idle" \/ UNCHANGED store
           /\ op'.step # "idle" => op'.seen = IF op.step = "idle" THEN cache ELSE op.seen
<1>1. UNCHANGED sts
  BY SpecWriters
<1>2. CASE \E c \in Controllers : BeginReconcile(c)
  BY <1>1, <1>2 DEF BeginReconcile
<1>3. CASE ProbeBeforeScale
  BY <1>1, <1>3, FinishAndRequeueType DEF ProbeBeforeScale, MustScale, IInv, TypeOK
<1>4. CASE NothingToPatch \/ ProbeBeforePatch
  BY <1>1, <1>4, FinishType
     DEF NothingToPatch, ProbeBeforePatch, MayPatch, AfterPatch, IInv, TypeOK
<1>5. CASE PatchFails \/ OperatorRestarts \/ CacheSync
  BY <1>1, <1>5, FinishType, FinishAndRequeueType
     DEF PatchFails, OperatorRestarts, CacheSync, IInv
<1>6. CASE \/ \E n \in 1 .. MaxReplicas, t \in BOOLEAN : Edit(n, t)
           \/ StsController \/ Cluster \/ UNCHANGED vars
  <2>1. UNCHANGED <<store, cache, op>>
    BY <1>6, ClusterKeepsOperator DEF Edit, vars
  <2>. QED
    BY <1>1, <2>1
<1>. QED
  BY <1>2, <1>3, <1>4, <1>5, <1>6 DEF Next, Reconcile

\* A reconcile gets to a patch by a probe.
LEMMA PatchesAfterProbe ==
    ASSUME IInv, [Next]_vars
    PROVE  \/ op'.step \notin {"scale", "patch"}
           \/ op'.step = op.step /\ op'.seen = op.seen /\ store' = store
           \/ ProbeBeforeScale
           \/ ProbeBeforePatch
<1>1. CASE \E c \in Controllers : BeginReconcile(c)
  BY <1>1 DEF BeginReconcile
<1>2. CASE ScaleParallel \/ ScaleByOne \/ PatchFails \/ OperatorRestarts
  BY <1>2, FinishType, FinishAndRequeueType
     DEF ScaleParallel, ScaleByOne, PatchFails, OperatorRestarts, IInv
<1>3. CASE NothingToPatch \/ Patch
  <2>1. CASE LegacyScaleDown
    BY <1>3, <2>1 DEF NothingToPatch, Patch, AfterPatch, IInv, TypeOK
  <2>2. CASE ~LegacyScaleDown
    BY <1>3, <2>2, FinishType DEF NothingToPatch, Patch, AfterPatch, IInv
  <2>. QED
    BY <2>1, <2>2
<1>4. CASE \/ \E n \in 1 .. MaxReplicas, t \in BOOLEAN : Edit(n, t)
           \/ CacheSync \/ StsController \/ Cluster \/ UNCHANGED vars
  BY <1>4, ClusterKeepsOperator DEF Edit, CacheSync, vars
<1>. QED
  BY <1>1, <1>2, <1>3, <1>4 DEF Next, Reconcile

\* What the user and the store may do to the generations.
LEMMA WishSteps ==
    ASSUME IInv, [Next]_vars
    PROVE  \/ /\ coh'.hash = coh.hash + 1
              /\ coh'.rev \in {coh.rev, coh.hash + 1}
              /\ "coherence" \in queue'
              /\ UNCHANGED <<store, sts, cache, op>>
           \/ coh' = coh /\ store' \in {store, coh}
<1>1. ASSUME NEW n \in 1 .. MaxReplicas, NEW t \in BOOLEAN, Edit(n, t)
      PROVE  /\ coh'.hash = coh.hash + 1
             /\ coh'.rev \in {coh.rev, coh.hash + 1}
             /\ "coherence" \in queue'
             /\ UNCHANGED <<store, sts, cache, op>>
  BY <1>1 DEF Edit
<1>2. CASE Reconcile \/ PatchFails \/ OperatorRestarts \/ CacheSync
  BY <1>2 DEF Reconcile, BeginReconcile, ScaleParallel, ProbeBeforeScale, ScaleByOne,
              NothingToPatch, ProbeBeforePatch, Patch, PatchFails, OperatorRestarts,
              CacheSync, userVars
<1>3. CASE StsController \/ Cluster \/ UNCHANGED vars
  BY <1>3, ClusterKeepsOperator DEF vars
<1>. QED
  BY <1>1, <1>2, <1>3 DEF Next

\* The numbers the proofs compare.
LEMMA Numbers ==
    ASSUME TypeOK
    PROVE  /\ coh.hash \in Int /\ coh.rev \in Int
           /\ store.hash \in Int /\ store.rev \in Int /\ store.hash >= 1
           /\ sts.hash \in Int /\ sts.rev \in Int
           /\ cache.spec.rev \in Int
           /\ op.seen.spec.rev \in Int /\ op.seen.spec.hash \in Int
BY BoundsAssumption DEF TypeOK, Desired, StsSpec, Read, Revs

\* ... and those of the next state.
LEMMA NumbersNext ==
    ASSUME IInv, [Next]_vars
    PROVE  /\ coh'.hash \in Int /\ coh'.rev \in Int
           /\ store'.hash \in Int /\ store'.rev \in Int
           /\ sts'.hash \in Int /\ sts'.rev \in Int
<1>1. TypeOK'
  BY NextInv DEF IInv
<1>. QED
  BY <1>1, BoundsAssumption DEF TypeOK, Desired, StsSpec, Revs

\* Generations and templates keep their order.
LEMMA OrderNext ==
    ASSUME IInv, InOrder, [Next]_vars
    PROVE  InOrder'
<1>0. TypeOK
  BY DEF IInv
<1>1. /\ store'.hash <= coh'.hash
      /\ store'.hash = coh'.hash => store' = coh'
      /\ store.hash <= store'.hash
      /\ coh'.rev <= coh'.hash
      /\ store'.rev <= coh'.rev
      /\ store.rev <= store'.rev
  BY <1>0, Numbers, NumbersNext, WishSteps DEF InOrder
<1>2. CASE ScaleParallel \/ ScaleByOne
  BY <1>1, <1>2, ScaleKeeps DEF InOrder
<1>3. CASE Patch
  <2>1. sts'.hash \in {sts.hash, store.hash} /\ sts'.rev \in {sts.rev, store.rev}
    BY <1>3, PatchMerges DEF Merged
  <2>2. UNCHANGED <<store, cache>>
    BY <1>3, PatchMerges
  <2>3. sts.rev <= sts'.rev /\ sts'.rev <= store.rev /\ sts'.hash <= store.hash
    BY <1>0, <2>1, Numbers, NumbersNext DEF InOrder
  <2>4. op'.step # "idle" => op'.seen.spec.rev = sts'.rev
    BY <1>3, PatchMerges
  <2>5. cache'.spec.rev <= sts'.rev
    BY <1>0, <2>2, <2>3, Numbers, NumbersNext DEF InOrder
  <2>6. op'.step # "idle" => op'.seen.spec.rev <= sts'.rev
    BY <1>0, <2>4, Numbers, NumbersNext
  <2>. QED
    BY <1>1, <2>2, <2>3, <2>5, <2>6 DEF InOrder
<1>4. CASE ~ScaleParallel /\ ~ScaleByOne /\ ~Patch
  <2>1. /\ UNCHANGED sts
        /\ cache' \in {cache, Live}
        /\ op'.step # "idle" => op'.seen = IF op.step = "idle" THEN cache ELSE op.seen
    BY <1>4, SpecKept
  <2>2. cache'.spec.rev <= sts'.rev
    BY <1>0, <2>1, Numbers, NumbersNext DEF InOrder, Live
  <2>3. op'.step # "idle" => op'.seen.spec.rev <= sts'.rev
    BY <2>1 DEF InOrder
  <2>4. sts'.rev <= store'.rev /\ sts'.hash <= store'.hash
    BY <1>0, <1>1, <2>1, Numbers, NumbersNext DEF InOrder
  <2>. QED
    BY <1>1, <2>2, <2>3, <2>4 DEF InOrder
<1>. QED
  BY <1>2, <1>3, <1>4

\* The hash gives the template away.
LEMMA HashGivesRevNext ==
    ASSUME IInv, InOrder, HashGivesRev, [Next]_vars,
           op.step = "patch" => op.seen.spec.hash # store.hash
    PROVE  HashGivesRev'
<1>0. TypeOK
  BY DEF IInv
<1>1. CASE ScaleParallel \/ ScaleByOne
  BY <1>1, ScaleKeeps DEF HashGivesRev
<1>2. CASE Patch
  <2>1. /\ sts'.rev = IF store.rev = op.seen.spec.rev THEN sts.rev ELSE store.rev
        /\ op.step = "patch"
        /\ store' = store
    BY <1>2, PatchMerges DEF Merged
  <2>2. op.seen.spec.rev <= sts.rev /\ sts.rev <= store.rev
    BY <2>1 DEF InOrder
  <2>. QED
    BY <1>0, <2>1, <2>2, Numbers, NumbersNext DEF HashGivesRev
<1>3. CASE ~ScaleParallel /\ ~ScaleByOne /\ ~Patch
  <2>1. UNCHANGED sts /\ store' \in {store, coh}
    BY <1>3, SpecKept, WishSteps
  <2>2. CASE store' = coh /\ store # coh
    <3>1. sts.hash < coh.hash
      BY <1>0, <2>2, Numbers, NumbersNext DEF InOrder
    <3>. QED
      BY <1>0, <2>1, <2>2, <3>1, Numbers, NumbersNext DEF HashGivesRev
  <2>. QED
    BY <2>1, <2>2 DEF HashGivesRev
<1>. QED
  BY <1>1, <1>2, <1>3

\* What has not been touched stays so, or is no longer of an old operator.
LEMMA LegacyFirstNext ==
    ASSUME IInv, InOrder, LegacyFirst, [Next]_vars
    PROVE  LegacyFirst'
<1>0. TypeOK
  BY DEF IInv
<1>1. \A spec : Untouched(spec) =>
        (spec.legacy => spec.hash = 1 /\ (store'.hash = 1 => spec.replicas = store'.replicas))
  <2>1. store'.hash = 1 => store' = store
    <3>1. store' = store \/ (store' = coh /\ store.hash <= coh.hash /\ store.hash >= 1)
      BY <1>0, WishSteps, Numbers DEF InOrder
    <3>2. coh.hash = 1 /\ store.hash <= coh.hash /\ store.hash >= 1 => store.hash = coh.hash
      BY <1>0, Numbers
    <3>. QED
      BY <3>1, <3>2 DEF InOrder
  <2>. QED
    BY <2>1 DEF Untouched
<1>2. CASE ScaleParallel \/ ScaleByOne
  <2>1. /\ sts'.hash = sts.hash /\ sts'.legacy = sts.legacy
        /\ op.step # "idle"
        /\ op.seen.spec.replicas # store.replicas
        /\ op'.step = "idle"
        /\ UNCHANGED <<store, cache>>
    BY <1>2, ScaleKeeps
  <2>2. sts.legacy => store.hash # 1
    BY <2>1 DEF LegacyFirst, Untouched
  <2>. QED
    BY <2>1, <2>2 DEF LegacyFirst, Untouched
<1>3. CASE Patch
  <2>1. /\ sts'.legacy = Merged(op.seen.spec.legacy, FALSE, sts.legacy)
        /\ op.step = "patch"
        /\ UNCHANGED <<store, cache>>
        /\ \/ op'.step = "idle"
           \/ op'.step = "thenScale" /\ op'.seen.spec.legacy = sts'.legacy
    BY <1>3, PatchMerges
  <2>2. op.seen.spec.legacy \in BOOLEAN /\ sts.legacy \in BOOLEAN
    BY <1>0 DEF TypeOK, Read, StsSpec
  <2>3. ~sts'.legacy
    BY <2>1, <2>2 DEF Merged, LegacyFirst
  <2>. QED
    BY <2>1, <2>3 DEF LegacyFirst, Untouched
<1>4. CASE ~ScaleParallel /\ ~ScaleByOne /\ ~Patch
  <2>1. /\ UNCHANGED sts
        /\ cache' \in {cache, Live}
        /\ op'.step # "idle" => op'.seen = IF op.step = "idle" THEN cache ELSE op.seen
    BY <1>4, SpecKept
  <2>2. Untouched(sts)' /\ Untouched(cache.spec)' /\ (sts'.legacy => cache'.spec.legacy)
    BY <1>1, <2>1 DEF LegacyFirst, Untouched, Live
  <2>3. op'.step # "idle" => Untouched(op.seen.spec)' /\ (sts'.legacy => op'.seen.spec.legacy)
    BY <1>1, <2>1 DEF LegacyFirst, Untouched
  <2>4. op'.step = "patch" => op'.seen.spec.hash # store'.hash
    <3>1. CASE ProbeBeforePatch
      <4>1. op.step = "decide" /\ op.seen.spec.hash # store.hash /\ store' = store
        BY <3>1 DEF ProbeBeforePatch, MayPatch
      <4>. QED
        BY <2>1, <4>1
    <3>2. CASE ~ProbeBeforePatch
      <4>1. ProbeBeforeScale => op'.step \in {"scale", "idle"}
        BY <1>0, FinishAndRequeueType DEF ProbeBeforeScale, TypeOK
      <4>2. op'.step = "patch" => op'.step = op.step /\ op'.seen = op.seen /\ store' = store
        BY <3>2, <4>1, PatchesAfterProbe
      <4>. QED
        BY <4>2 DEF LegacyFirst
    <3>. QED
      BY <3>1, <3>2
  <2>. QED
    BY <2>2, <2>3, <2>4 DEF LegacyFirst
<1>. QED
  BY <1>2, <1>3, <1>4

\* Work that is left stays due.
LEMMA WorkIsDueNext ==
    ASSUME IInv, InOrder, LegacyFirst, WorkIsDue, [Next]_vars
    PROVE  WorkIsDue'
<1>0. TypeOK
  BY DEF IInv
<1>1. CASE ScaleParallel \/ ScaleByOne
  <2>1. /\ op'.step = "idle"
        /\ queue' = queue \cup {op.who}
        /\ UNCHANGED <<coh, store>>
    BY <1>1, ScaleKeeps
  <2>. QED
    BY <2>1 DEF WorkIsDue
<1>2. CASE Patch
  <2>1. /\ op.step = "patch"
        /\ sts'.hash = Merged(op.seen.spec.hash, store.hash, sts.hash)
        /\ UNCHANGED <<coh, store, cache, queue>>
        /\ op'.step \in {"idle", "thenScale"}
    BY <1>2, PatchMerges
  <2>2. sts'.hash = store.hash /\ op.seen.spec.hash # store.hash
    BY <2>1 DEF Merged, LegacyFirst
  <2>3. queue = {} => cache.spec # sts'
    BY <2>1, <2>2 DEF WorkIsDue
  <2>. QED
    BY <2>1, <2>3 DEF WorkIsDue
<1>3. CASE NothingToPatch
  <2>1. /\ op.step = "decide"
        /\ op.seen.spec.hash = store.hash
        /\ op.seen.spec.replicas = store.replicas \/ op.seen.spec.legacy
        /\ AfterPatch(op.seen, FALSE)
        /\ UNCHANGED <<coh, store, sts, cache>>
    BY <1>3 DEF NothingToPatch, MayPatch, userVars
  <2>2. op.seen.spec.replicas = store.replicas
    BY <2>1 DEF LegacyFirst, Untouched
  <2>3. op'.step \in {"idle", "thenScale"} /\ queue' = queue
    <3>1. CASE LegacyScaleDown
      BY <1>0, <2>1, <3>1 DEF AfterPatch, TypeOK
    <3>2. CASE ~LegacyScaleDown
      BY <1>0, <2>1, <3>2, FinishType DEF AfterPatch
    <3>. QED
      BY <3>1, <3>2
  <2>. QED
    BY <2>1, <2>2, <2>3 DEF WorkIsDue
<1>4. CASE ProbeBeforePatch
  <2>1. /\ op.step = "decide"
        /\ UNCHANGED <<coh, store, sts, cache>>
        /\ \/ op' = [op EXCEPT !.step = "patch"] /\ UNCHANGED queue
           \/ AfterPatch(op.seen, TRUE)
    BY <1>4 DEF ProbeBeforePatch, MayPatch, userVars
  <2>2. CASE op' = [op EXCEPT !.step = "patch"] /\ UNCHANGED queue
    BY <1>0, <2>1, <2>2 DEF WorkIsDue, TypeOK
  <2>3. CASE AfterPatch(op.seen, TRUE)
    <3>1. /\ queue \subseteq queue'
          /\ \/ op'.step = "thenScale"
             \/ op'.step = "idle" /\ op.who \in queue'
      BY <1>0, <2>3, FinishType DEF AfterPatch, TypeOK
    <3>. QED
      BY <2>1, <3>1 DEF WorkIsDue
  <2>. QED
    BY <2>1, <2>2, <2>3
<1>5. CASE ProbeBeforeScale
  <2>1. /\ UNCHANGED <<coh, store>>
        /\ \/ op' = [op EXCEPT !.step = "scale"] /\ UNCHANGED queue
           \/ FinishAndRequeue
    BY <1>5 DEF ProbeBeforeScale, userVars
  <2>2. /\ queue \subseteq queue'
        /\ \/ op'.step = "scale"
           \/ op'.step = "idle" /\ op.who \in queue'
    BY <1>0, <2>1, FinishAndRequeueType DEF FinishAndRequeue, TypeOK
  <2>. QED
    BY <2>1, <2>2 DEF WorkIsDue
<1>6. CASE \E c \in Controllers : BeginReconcile(c)
  <2>1. PICK c \in Controllers : BeginReconcile(c)
    BY <1>6
  <2>2. /\ store' = IF c = "coherence" THEN coh ELSE store
        /\ op'.step = "decide"
        /\ op'.seen = cache
        /\ queue' = queue \ {c}
        /\ UNCHANGED <<coh, cache>>
    BY <2>1 DEF BeginReconcile, userVars
  <2>. QED
    BY <2>2 DEF WorkIsDue
<1>7. CASE PatchFails \/ OperatorRestarts
  <2>1. /\ op'.step = "idle"
        /\ queue' # {}
        /\ "coherence" \in queue => "coherence" \in queue'
        /\ UNCHANGED <<coh, store>>
    BY <1>0, <1>7, FinishType, FinishAndRequeueType
       DEF PatchFails, OperatorRestarts, FinishAndRequeue, userVars
  <2>. QED
    BY <2>1 DEF WorkIsDue
<1>8. CASE CacheSync \/ \E n \in 1 .. MaxReplicas, t \in BOOLEAN : Edit(n, t)
  <2>1. CASE CacheSync
    BY <2>1 DEF CacheSync, WorkIsDue, userVars
  <2>2. ASSUME NEW n \in 1 .. MaxReplicas, NEW t \in BOOLEAN, Edit(n, t) PROVE WorkIsDue'
    BY <2>2 DEF Edit, WorkIsDue
  <2>. QED
    BY <1>8, <2>1, <2>2
<1>9. CASE StsController \/ Cluster \/ UNCHANGED vars
  <2>1. UNCHANGED <<coh, store, sts, cache, op, queue>>
    BY <1>9, ClusterKeepsOperator DEF vars
  <2>. QED
    BY <2>1 DEF WorkIsDue
<1>. QED
  BY <1>1, <1>2, <1>3, <1>4, <1>5, <1>6, <1>7, <1>8, <1>9 DEF Next, Reconcile

\* The invariant holds always.
THEOREM WorkIsKnown == Spec => []WorkInv
<1>1. Init => WorkInv
  BY DEF Init, WorkInv, InOrder, HashGivesRev, LegacyFirst, Untouched, WorkIsDue, Live
<1>2. IInv /\ WorkInv /\ [Next]_vars => WorkInv'
  BY OrderNext, HashGivesRevNext, LegacyFirstNext, WorkIsDueNext DEF WorkInv, LegacyFirst
<1>. QED
  BY <1>1, <1>2, Invariance, PTL DEF Spec

\* No reconcile ends, by success, by failure, by a restart or by a copy that lagged,
\* with work left and nothing to bring it back: for every option of the resource and
\* whenever the user edits.
THEOREM NothingIsForgotten == Spec => []NothingForgotten
<1>1. WorkInv => NothingForgotten
  BY DEF WorkInv, HashGivesRev, WorkIsDue, NothingForgotten, Quiet, Live
<1>. QED
  BY <1>1, WorkIsKnown, PTL

\* The template is patched last: with its hash the StatefulSet has the size that was
\* asked for, and no partition.
UpgradesLast == sts.hash = store.hash => sts.replicas = store.replicas /\ sts.partition = 0

\* No member is held back from an upgrade by the partition that scaling set.
THEOREM NobodyIsHeldBack ==
    ASSUME ReadsSuffice, ~LegacyStatefulSet
    PROVE  Spec => []NothingHeldBack
<1>1. Init => UpgradesLast
  BY DEF Init, UpgradesLast
<1>2. IInv /\ LagInv /\ NotLegacy /\ WorkInv /\ UpgradesLast /\ [Next]_vars => UpgradesLast'
  <2>. SUFFICES ASSUME IInv, LagInv, ~sts.legacy, WorkInv, UpgradesLast, [Next]_vars
                PROVE  UpgradesLast'
    BY DEF NotLegacy
  <2>1. CASE sts' # sts
    <3>1. op.seen.spec = sts /\ UNCHANGED store /\ sts \in StsSpec
      BY <2>1, ChangesWhatItRead DEF IInv, TypeOK
    <3>2. ASSUME NEW n, sts.replicas # store.replicas, sts' = Scaled(sts, n)
          PROVE  UpgradesLast'
      BY <3>1, <3>2 DEF Scaled, StsSpec, UpgradesLast
    <3>3. ASSUME Patch, sts' = PatchedSpec PROVE UpgradesLast'
      <4>1. sts.replicas = store.replicas
        BY <3>1, <3>3 DEF IInv, HoldsDecision, Patch
      <4>. QED
        BY <3>1, <3>3, <4>1 DEF PatchedSpec, UpgradesLast
    <3>. QED
      BY <2>1, <3>2, <3>3, SpecChanges
  <2>2. CASE UNCHANGED sts /\ store' # store
    <3>1. store' = coh /\ sts.hash <= store.hash /\ store.hash <= coh.hash
      BY <2>2, WishSteps DEF WorkInv, InOrder
    <3>2. sts.hash # coh.hash
      BY <2>2, <3>1, Numbers DEF WorkInv, InOrder, IInv
    <3>. QED
      BY <2>2, <3>1, <3>2 DEF UpgradesLast
  <2>. QED
    BY <2>1, <2>2 DEF UpgradesLast
<1>3. WorkInv /\ UpgradesLast => NothingHeldBack
  BY DEF WorkInv, WorkIsDue, UpgradesLast, NothingHeldBack, Quiet, Live
<1>. QED
  BY <1>1, <1>2, <1>3, Invariance, CopiesLag, NeverLegacy, WorkIsKnown, PTL DEF Spec
=============================================================================
