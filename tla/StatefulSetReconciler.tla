----------------------- MODULE StatefulSetReconciler -----------------------
(***************************************************************************)
(* How the operator drives the StatefulSet of one Coherence resource to    *)
(* the replica count and Pod template its user asks for:                   *)
(* ReconcileStatefulSet.updateStatefulSet and everything it calls, run by  *)
(* two reconcilers that share one lock, against a Kubernetes StatefulSet   *)
(* controller and a Coherence cluster that act at any time in between.     *)
(*                                                                         *)
(* A Pod template is a number: rev.  The "coherence-hash" of an object is  *)
(* the generation of the Coherence resource it was built from.  Zero       *)
(* replicas, creation and deletion are not in this module.                 *)
(*                                                                         *)
(* A definition whose name ends in _Word is a plausible bug in the one it  *)
(* is named after: the property checks show that they notice it.           *)
(***************************************************************************)
EXTENDS Integers, FiniteSets

CONSTANTS
    MaxReplicas,       \* bound: the largest replica count a user asks for
    MaxEdits,          \* bound: how often the user edits the resource
    MaxFaults,         \* bound: failed patches and operator restarts
    Policy,            \* spec.scaling.policy
    HABeforeUpdate,    \* spec.haBeforeUpdate
    StaleReads,        \* may a reconcile read an old StatefulSet from the cache?
    EditsOverlap,      \* may the user edit before the last edit is rolled out?
    LegacyStatefulSet  \* was the StatefulSet made by an operator <= 3.4.3?

Policies == {"Safe", "Parallel", "ParallelUpSafeDown"}

ASSUME BoundsAssumption ==
    /\ MaxReplicas \in Nat \ {0}
    /\ MaxEdits \in Nat
    /\ MaxFaults \in Nat
ASSUME OptionsAssumption ==
    /\ Policy \in Policies
    /\ HABeforeUpdate \in BOOLEAN
    /\ StaleReads \in BOOLEAN
    /\ EditsOverlap \in BOOLEAN
    /\ LegacyStatefulSet \in BOOLEAN

VARIABLES
    coh,         \* the user's Coherence resource: replicas, rev, hash
    store,       \* latest desired state in the operator's state store
    sts,         \* the StatefulSet's spec, its hash label, its age
    status,      \* the StatefulSet's status
    cache,       \* the operator's informer copy of sts and status
    pods,        \* Pods by ordinal
    endangered,  \* is some Coherence partition without a backup?
    lost,        \* history: a member left while partitions were endangered
    op,          \* the reconcile that holds the lock
    queue,       \* the controllers with a request in their work queue
    edits,       \* how many edits the user has made
    faults       \* how many faults have happened

userVars    == <<coh, edits>>
clusterVars == <<pods, endangered, lost>>
vars == <<coh, store, sts, status, cache, pods, endangered, lost, op, queue,
          edits, faults>>

Controllers == {"coherence", "statefulset"}
Ordinals    == 0 .. MaxReplicas - 1
Revs        == 1 .. MaxEdits + 1

NoPod == [state |-> "None", rev |-> 1]

Desired == [replicas: 1 .. MaxReplicas, rev: Revs, hash: Revs]
StsSpec == [replicas: 1 .. MaxReplicas, rev: Revs, hash: Revs,
            partition: 0 .. MaxReplicas, legacy: BOOLEAN]
Status  == [ready: 0 .. MaxReplicas, currentRev: Revs]
Read    == [spec: StsSpec, status: Status]
Pod     == [state: {"None", "Starting", "Joined", "Ready", "Terminating"},
            rev: Revs]
Step    == {"idle", "decide", "scale", "patch", "thenScale"}

TypeOK ==
    /\ coh \in Desired
    /\ store \in Desired
    /\ sts \in StsSpec
    /\ status \in Status
    /\ cache \in Read
    /\ pods \in [Ordinals -> Pod]
    /\ endangered \in BOOLEAN
    /\ lost \in BOOLEAN
    /\ op \in [step: Step, who: Controllers, seen: Read]
    /\ queue \in SUBSET Controllers
    /\ edits \in 0 .. MaxEdits
    /\ faults \in 0 .. MaxFaults

Live == [spec |-> sts, status |-> status]

(***************************************************************************)
(* The Coherence cluster and what a probe of it says.                      *)
(***************************************************************************)
Existing == {i \in Ordinals : pods[i].state # "None"}
Members  == {i \in Ordinals : pods[i].state \in {"Joined", "Ready", "Terminating"}}
DataHolders == {i \in Ordinals : pods[i].state \in {"Ready", "Terminating"}}
ReadyPods == {i \in Ordinals : pods[i].state = "Ready"}

IsStatusHA_NotAsked(replicas) ==
    Existing = {} \/ (Existing = ReadyPods /\ Cardinality(Existing) = replicas)

IsStatusHA_NotCounted(replicas) ==
    Existing = {} \/ (Existing = ReadyPods /\ ~endangered)

\* The operator's StatusHA check: every Pod is ready and not being deleted,
\* there are as many as the StatefulSet the caller read has replicas, and the
\* cluster says no cache service is endangered.
IsStatusHA(replicas) ==
    \/ Existing = {}
    \/ /\ Existing = ReadyPods
       /\ Cardinality(Existing) = replicas
       /\ ~endangered

Settled ==
    /\ op.step = "idle"
    /\ queue = {}
    /\ cache = Live
    /\ sts.hash = coh.hash
    /\ sts.replicas = coh.replicas
    /\ Existing = 0 .. sts.replicas - 1
    /\ \A i \in Existing : pods[i] = [state |-> "Ready", rev |-> coh.rev]
    /\ status = [ready |-> sts.replicas, currentRev |-> coh.rev]
    /\ ~endangered

\* A Coherence resource that is deployed, with a cluster that is up and safe.
Init ==
    \E n \in 1 .. MaxReplicas :
        /\ coh = [replicas |-> n, rev |-> 1, hash |-> 1]
        /\ store = coh
        /\ sts = [replicas |-> n, rev |-> 1, hash |-> 1, partition |-> 0,
                  legacy |-> LegacyStatefulSet]
        /\ status = [ready |-> n, currentRev |-> 1]
        /\ cache = Live
        /\ pods = [i \in Ordinals |-> IF i < n THEN [state |-> "Ready", rev |-> 1]
                                               ELSE NoPod]
        /\ endangered = FALSE
        /\ lost = FALSE
        /\ op = [step |-> "idle", who |-> "coherence", seen |-> Live]
        /\ queue = {}
        /\ edits = 0
        /\ faults = 0

(***************************************************************************)
(* The user.  Kubernetes counts an edit of the spec in its generation.     *)
(***************************************************************************)
Edit(n, newTemplate) ==
    /\ edits < MaxEdits
    /\ EditsOverlap \/ Settled
    /\ newTemplate \/ n # coh.replicas
    /\ coh' = [replicas |-> n,
               rev  |-> IF newTemplate THEN coh.hash + 1 ELSE coh.rev,
               hash |-> coh.hash + 1]
    /\ edits' = edits + 1
    /\ queue' = queue \cup {"coherence"}
    /\ UNCHANGED <<store, sts, status, cache, clusterVars, op, faults>>

(***************************************************************************)
(* The operator.  One reconcile of the resource runs at a time: both       *)
(* reconcilers lock its name, and a request that finds it locked goes back *)
(* to its queue.                                                           *)
(***************************************************************************)

\* CoherenceReconciler.Reconcile stores the desired state it builds from the
\* resource before it reconciles the StatefulSet; ReconcileStatefulSet.Reconcile
\* takes the desired state from the store.  Both read the StatefulSet.
BeginReconcile(c) ==
    /\ op.step = "idle"
    /\ c \in queue
    /\ StaleReads \/ cache = Live
    /\ store' = IF c = "coherence" THEN coh ELSE store
    /\ op' = [step |-> "decide", who |-> c, seen |-> cache]
    /\ queue' = queue \ {c}
    /\ UNCHANGED <<userVars, sts, status, cache, clusterVars, faults>>

Finish == op' = [op EXCEPT !.step = "idle"]
FinishAndRequeue_Forgotten == Finish /\ UNCHANGED queue

FinishAndRequeue == Finish /\ queue' = queue \cup {op.who}

\* A three way merge patch carries no resource version and only the fields in
\* which the desired object differs from the one that was read: they overwrite
\* what the live object has, the others stay.
Merged(seen, desired, live) == IF desired = seen THEN live ELSE desired

MergePatch(seen, desired) ==
    sts' = [replicas  |-> Merged(seen.replicas, desired.replicas, sts.replicas),
            rev       |-> Merged(seen.rev, desired.rev, sts.rev),
            hash      |-> Merged(seen.hash, desired.hash, sts.hash),
            partition |-> Merged(seen.partition, desired.partition, sts.partition),
            legacy    |-> Merged(seen.legacy, desired.legacy, sts.legacy)]

MustScale_AlreadyThere ==
    op.step = "thenScale" \/ (op.step = "decide" /\ ~op.seen.spec.legacy)

\* The replica count differs and no operator <= 3.4.3 made the StatefulSet, or
\* its template patch has been dealt with.
MustScale ==
    /\ op.seen.spec.replicas # store.replicas
    /\ op.step = "thenScale" \/ (op.step = "decide" /\ ~op.seen.spec.legacy)

ScalesInParallel ==
    \/ Policy = "Parallel"
    \/ Policy = "ParallelUpSafeDown" /\ store.replicas > op.seen.spec.replicas

ParallelScale_NoPartition(replicas) ==
    MergePatch(op.seen.spec, [op.seen.spec EXCEPT !.replicas = replicas])

\* parallelScale: patch the replica count, and set the partition so that the
\* members there are now are not updated by the same patch.
ParallelScale(replicas) ==
    LET seen == op.seen.spec
    IN  MergePatch(seen, [seen EXCEPT
                            !.replicas  = replicas,
                            !.partition = IF seen.replicas > replicas
                                          THEN replicas ELSE seen.replicas])

ScaleParallel ==
    /\ MustScale
    /\ ScalesInParallel
    /\ ParallelScale(store.replicas)
    /\ FinishAndRequeue
    /\ UNCHANGED <<userVars, store, status, cache, clusterVars, faults>>

\* safeScale: probe first, unless there is one member.
ProbeBeforeScale ==
    /\ MustScale
    /\ ~ScalesInParallel
    /\ IF op.seen.spec.replicas = 1 \/ IsStatusHA(op.seen.spec.replicas)
       THEN op' = [op EXCEPT !.step = "scale"] /\ UNCHANGED queue
       ELSE FinishAndRequeue
    /\ UNCHANGED <<userVars, store, sts, status, cache, clusterVars, faults>>

ScaleByOne ==
    /\ op.step = "scale"
    /\ LET replicas == op.seen.spec.replicas
       IN  ParallelScale(IF store.replicas > replicas THEN replicas + 1
                                                      ELSE replicas - 1)
    /\ FinishAndRequeue
    /\ UNCHANGED <<userVars, store, status, cache, clusterVars, faults>>

MayPatch_AtAnySize == op.step = "decide"

\* The template is to be patched: the replica count is right, or a StatefulSet
\* of an operator <= 3.4.3 is to be scaled.
MayPatch ==
    /\ op.step = "decide"
    /\ op.seen.spec.replicas = store.replicas \/ op.seen.spec.legacy

LegacyScaleDown == op.seen.spec.legacy /\ op.seen.spec.replicas > store.replicas

\* What follows a patch that was not needed, was put off, or was made.
AfterPatch(read, requeue) ==
    IF LegacyScaleDown
    THEN op' = [op EXCEPT !.step = "thenScale", !.seen = read] /\ UNCHANGED queue
    ELSE Finish /\ queue' = IF requeue THEN queue \cup {op.who} ELSE queue

NothingToPatch ==
    /\ MayPatch
    /\ op.seen.spec.hash = store.hash
    /\ AfterPatch(op.seen, FALSE)
    /\ UNCHANGED <<userVars, store, sts, status, cache, clusterVars, faults>>

ProbeBeforePatch ==
    /\ MayPatch
    /\ op.seen.spec.hash # store.hash
    /\ IF \/ ~HABeforeUpdate
          \/ /\ op.seen.status.ready = op.seen.spec.replicas
             /\ IsStatusHA(op.seen.spec.replicas)
       THEN op' = [op EXCEPT !.step = "patch"] /\ UNCHANGED queue
       ELSE AfterPatch(op.seen, TRUE)
    /\ UNCHANGED <<userVars, store, sts, status, cache, clusterVars, faults>>

PatchedSpec_NoPartition ==
    LET seen == op.seen.spec
    IN  [replicas  |-> IF seen.legacy /\ ~LegacyScaleDown THEN store.replicas
                                                          ELSE seen.replicas,
         rev       |-> store.rev,
         hash      |-> store.hash,
         partition |-> 0,
         legacy    |-> FALSE]

PatchedSpec_PartitionKept ==
    LET seen == op.seen.spec
    IN  [replicas  |-> IF seen.legacy /\ ~LegacyScaleDown THEN store.replicas
                                                          ELSE seen.replicas,
         rev       |-> store.rev,
         hash      |-> store.hash,
         partition |-> seen.partition,
         legacy    |-> FALSE]

\* What the patch asks for: the replica count stays, except when a StatefulSet
\* of an operator <= 3.4.3 is scaled up; to scale one the partition is first set
\* to its size.
PatchedSpec ==
    LET seen == op.seen.spec
        legacyScale == seen.legacy /\ seen.replicas # store.replicas
    IN  [replicas  |-> IF legacyScale /\ ~LegacyScaleDown THEN store.replicas
                                                          ELSE seen.replicas,
         rev       |-> store.rev,
         hash      |-> store.hash,
         partition |-> IF legacyScale THEN seen.replicas ELSE 0,
         legacy    |-> FALSE]

\* The patch call refreshes what was read, the replica count to scale from was
\* taken before it.
Patch ==
    /\ op.step = "patch"
    /\ MergePatch(op.seen.spec, PatchedSpec)
    /\ AfterPatch([op.seen EXCEPT !.spec = [sts' EXCEPT !.replicas = op.seen.spec.replicas]],
                  FALSE)
    /\ UNCHANGED <<userVars, store, status, cache, clusterVars, faults>>

\* The API server refuses the write: the error requeues the request.
PatchFails ==
    /\ faults < MaxFaults
    /\ \/ op.step \in {"scale", "patch"}
       \/ MustScale /\ ScalesInParallel
    /\ FinishAndRequeue
    /\ faults' = faults + 1
    /\ UNCHANGED <<userVars, store, sts, status, cache, clusterVars>>

\* The operator process dies.  The next one lists every resource: its cache is
\* filled and the resource is queued.  Creations do not queue the StatefulSet
\* (SecondaryPredicate).
OperatorRestarts ==
    /\ faults < MaxFaults
    /\ faults' = faults + 1
    /\ Finish
    /\ cache' = Live
    /\ queue' = {"coherence"}
    /\ UNCHANGED <<userVars, store, sts, status, clusterVars>>

\* The informer catches up; an update of the StatefulSet queues its owner.
CacheSync ==
    /\ cache # Live
    /\ cache' = Live
    /\ queue' = queue \cup {"statefulset"}
    /\ UNCHANGED <<userVars, store, sts, status, clusterVars, op, faults>>

(***************************************************************************)
(* The Kubernetes StatefulSet controller, with Parallel Pod management and *)
(* the RollingUpdate strategy (external).                                  *)
(***************************************************************************)
SetPod(i, state) == pods' = [pods EXCEPT ![i].state = state]

StsCreatesPod(i) ==
    /\ i < sts.replicas
    /\ pods[i].state = "None"
    /\ pods' = [pods EXCEPT ![i] = [state |-> "Starting",
                  rev |-> IF i < sts.partition THEN status.currentRev ELSE sts.rev]]
    /\ UNCHANGED <<userVars, store, sts, status, cache, endangered, lost, op, queue,
                   faults>>

\* A member that has been ready takes time to stop; a Pod that has not been
\* ready has no data of its own and just goes.
StsDeletesPod(i) ==
    /\ \/ /\ pods[i].state = "Ready"
          /\ SetPod(i, "Terminating")
          /\ UNCHANGED endangered
       \/ /\ pods[i].state \in {"Starting", "Joined"}
          /\ pods' = [pods EXCEPT ![i] = NoPod]
          /\ endangered' = (endangered \/ (pods[i].state = "Joined" /\ Members # {i}))
    /\ UNCHANGED <<userVars, store, sts, status, cache, lost, op, queue, faults>>

StsScalesDown(i) == i >= sts.replicas /\ StsDeletesPod(i)

\* The highest ordinal that is not at the update revision, if all above it are
\* healthy.
StsRollsPod(i) ==
    /\ i >= sts.partition
    /\ i < sts.replicas
    /\ pods[i].rev # sts.rev
    /\ \A j \in Ordinals : i < j /\ j < sts.replicas
                              => pods[j] = [state |-> "Ready", rev |-> sts.rev]
    /\ StsDeletesPod(i)

ActualStatus ==
    [ready |-> Cardinality(ReadyPods),
     currentRev |-> IF \A i \in Ordinals : i < sts.replicas
                          => pods[i] = [state |-> "Ready", rev |-> sts.rev]
                    THEN sts.rev ELSE status.currentRev]

StsReportsStatus ==
    /\ status # ActualStatus
    /\ status' = ActualStatus
    /\ UNCHANGED <<userVars, store, sts, cache, clusterVars, op, queue, faults>>

(***************************************************************************)
(* Pods and the Coherence cluster in them.                                 *)
(***************************************************************************)

\* A second storage member has no backups until they have been copied to it.
PodJoins(i) ==
    /\ pods[i].state = "Starting"
    /\ SetPod(i, "Joined")
    /\ endangered' = (endangered \/ Cardinality(Members) = 1)
    /\ UNCHANGED <<userVars, store, sts, status, cache, lost, op, queue, faults>>

\* The first successful readiness check of a member needs StatusHA.
PodBecomesReady(i) ==
    /\ pods[i].state = "Joined"
    /\ ~endangered
    /\ SetPod(i, "Ready")
    /\ UNCHANGED <<userVars, store, sts, status, cache, endangered, lost, op, queue,
                   faults>>

\* Members that have been ready hold data; with one gone its partitions are
\* endangered, and with the next one they are lost.
PodDeparts(i) ==
    /\ pods[i].state = "Terminating"
    /\ pods' = [pods EXCEPT ![i] = NoPod]
    /\ endangered' = (Cardinality(Members) > 1)
    /\ lost' = (lost \/ (endangered /\ DataHolders # {i}))
    /\ UNCHANGED <<userVars, store, sts, status, cache, op, queue, faults>>

\* Coherence restores the backups.
Rebalance ==
    /\ endangered
    /\ endangered' = FALSE
    /\ UNCHANGED <<userVars, store, sts, status, cache, pods, lost, op, queue, faults>>

(***************************************************************************)
(* The specification.                                                      *)
(***************************************************************************)
Reconcile ==
    \/ \E c \in Controllers : BeginReconcile(c)
    \/ ScaleParallel
    \/ ProbeBeforeScale
    \/ ScaleByOne
    \/ NothingToPatch
    \/ ProbeBeforePatch
    \/ Patch

StsController ==
    \/ \E i \in Ordinals : StsCreatesPod(i) \/ StsScalesDown(i) \/ StsRollsPod(i)
    \/ StsReportsStatus

Cluster ==
    \/ \E i \in Ordinals : PodJoins(i) \/ PodBecomesReady(i) \/ PodDeparts(i)
    \/ Rebalance

Next ==
    \/ \E n \in 1 .. MaxReplicas, t \in BOOLEAN : Edit(n, t)
    \/ Reconcile
    \/ PatchFails
    \/ OperatorRestarts
    \/ CacheSync
    \/ StsController
    \/ Cluster

Spec == Init /\ [][Next]_vars

\* Work queues, informers, the StatefulSet controller, the kubelet and Coherence
\* all retry until they are done; a reconcile that began goes on.
Fairness ==
    /\ \A c \in Controllers : WF_vars(BeginReconcile(c))
    /\ WF_vars(Reconcile)
    /\ WF_vars(CacheSync)
    /\ WF_vars(StsReportsStatus)
    /\ \A i \in Ordinals :
         /\ WF_vars(StsCreatesPod(i))
         /\ WF_vars(StsScalesDown(i) \/ StsRollsPod(i))
         /\ WF_vars(PodJoins(i))
         /\ WF_vars(PodBecomesReady(i))
         /\ WF_vars(PodDeparts(i))
    /\ WF_vars(Rebalance)

FairSpec == Spec /\ Fairness
(***************************************************************************)
(* Correctness properties.                                                 *)
(***************************************************************************)

\* No member leaves the cluster while some partition has no backup: docs/scaling
\* promises "no data loss" of safeScale's StatusHA checks, and the template
\* patch makes the same check.
NoDataLoss == ~lost

\* Scaling down takes one member out of the cluster at a time: safeScale goes
\* down by one, and its probe counts the Pods, so that it fails until the member
\* it took out before has gone.
Condemned == {i \in Members : i >= sts.replicas}
OneMemberLeavesAtATime == \A i, j \in Condemned : i = j

\* A change of the replica count protects every member there is and will be from
\* a rolling upgrade: parallelScale moves the partition with the replica count.
ScalingProtectsMembers ==
    [][sts'.replicas # sts.replicas
         => \A i \in Existing : i < sts.replicas /\ i < sts'.replicas
              => i < sts'.partition \/ pods[i].rev = sts'.rev]_vars

\* With fresh reads, and for a StatefulSet that no operator <= 3.4.3 made, the
\* patches of scale and maybePatchStatefulSet, made by two reconcilers over
\* failures, restarts and new edits, are an orderly rollout: no patch takes back
\* what another has done, upgrades early, or leaves a member unshielded.
Rollout == INSTANCE OrderedRollout WITH
    Sizes <- 1 .. MaxReplicas,
    Revisions <- Revs,
    wanted <- [size |-> store.replicas, rev |-> store.rev],
    have <- [size |-> sts.replicas, rev |-> sts.rev],
    shield <- sts.partition
RollsOutInOrder == Rollout!Spec

\* Nothing is forgotten: while the StatefulSet is not what the user asked for last,
\* a request is queued, a reconcile is at work, or an event is to come.  The last
\* patch of maybePatchStatefulSet queues nothing and relies on that event.
Quiet == op.step = "idle" /\ queue = {} /\ cache = Live
NothingForgotten ==
    Quiet => /\ sts.replicas = coh.replicas
             /\ sts.rev = coh.rev
             /\ sts.hash = coh.hash

\* ... and no member is held back from an upgrade for good by the partition that
\* parallelScale sets: with fresh reads or edits that do not overlap, and a
\* StatefulSet that no operator <= 3.4.3 made.
NothingHeldBack == Quiet => sts.partition = 0

\* What the user asked for last is what runs in the end.
Converged ==
    /\ sts.replicas = coh.replicas
    /\ Existing = 0 .. coh.replicas - 1
    /\ \A i \in Existing : pods[i] = [state |-> "Ready", rev |-> coh.rev]
    /\ ~endangered
EventuallyConverges == <>[]Converged

\* A StatefulSet that an operator <= 3.4.3 made, and that is scaled down, gets the
\* new template first, behind a partition at its size, and is scaled after it:
\* updateStatefulSet "requeue[s] the request so that we do any upgrade next time
\* around".
UpgradesNextTime == op.step = "thenScale" ~> Converged
=============================================================================
