# Coherence Operator: verification project

TLA+ models of the Coherence Operator's controllers, the TLC runs that check
them on small instances, and TLAPS proofs of what holds for every size. The Go
code under `controllers/`, `pkg/` and `api/v1/` is the reference, and for one
module the JavaScript under `.github/actions/setup-oras-2.0.1/`; every
definition is translated from it, and a definition that stands for somebody
else's code (Kubernetes, the kubelet, a Coherence cluster) is marked *external*.

Contents: 1 the system · 2 its hard behaviours · 3 the modules · 4 the runs ·
5 fairness · 6 the proofs · 7 what the work showed · 8 what is not modelled ·
9 the plan.

## 1. The system

The operator is one process that watches custom resources of two kinds,
`Coherence` and `CoherenceJob`, and makes Kubernetes objects for them. Nothing
is remembered in the process: its state is in the API server, in the status of
the custom resource, in a Secret it keeps for each of them, and in labels of the
objects it made.

| part | state it keeps | operations |
|---|---|---|
| Coherence reconciler (`coherence_controller.go`, `common.go`) | finalizer, phase, hash and version in the status | `Reconcile`: finalizer, first phase, default replica count, desired state, `Store`, one reconciler for each kind of object, `Stopped`, hash |
| Reconciler base (`reconciler/base_controller.go`) | the map of locked names; the status | `Lock`/`Unlock`, status patches, `CanCreate` (start quorum), `Create`, `Update`, `Delete` of one object |
| StatefulSet reconciler (`statefulset/statefulset_controller.go`) | replicas, partition, Pod template and hash label of the StatefulSet; phase, counts and `actionsExecuted` of the status | create, delete, `scale` (`safeScale`, `parallelScale`), `maybePatchStatefulSet`, `execActions`, `updateDeploymentStatus` |
| Upgrade strategies (`statefulset/upgrade_strategy.go`) | Pods still at the old revision | upgrade by Pod (Kubernetes'), by node, by node label, manual |
| State store (`pkg/utils/storage.go`) | a Secret: latest and previous desired state, hash | `Store`, `ResetHash`, `GetDeletions`, `GetPrevious` |
| Other secondary resources (`simple_reconciler.go`, `secret`, `servicemonitor`) | ConfigMaps, Secrets, Services, ServiceMonitors | create, patch, delete by what the store says |
| Status (`api/v1/coherenceresource_types.go`, `conditions.go`, `status_manager.go`) | phase, conditions, counts | `Update`, `SetCondition`, `setPhase`, `ensureInitialized` |
| Patcher (`pkg/patching/patcher.go`) | none | two way and three way merge patches |
| Finalizer (`finalizer/finalizer.go`) | the resource's finalizer | add, suspend services, remove |
| StatusHA probe (`pkg/probe/probe.go`) | none | `IsStatusHA`, `SuspendServices`, actions' probes |
| Job reconciler (`job_controller.go`, `coherencejob_controller.go`) | a Job, probe results in the status | create, update, delete, probe ready Pods, job status |
| Error handler (`errorhandling/error_handler.go`) | error count and last error in annotations | retry with backoff, recover, give up |
| Watches (`predicates/`) | the informers' copies, the work queues | which events queue which request |
| Validation (`api/v1/validate.go`, `probe_validation.go`) | none | refused specifications |
| Runner, REST server, Java side | none that the controllers see | run in or serve the Pods |
| ORAS setup of the build workflows (`.github/actions/setup-oras-2.0.1/`) | `releases.json`: versions and the checksums of their artifacts | the script `update-releases.mjs` adds versions (by schedule, or by hand: backfill); the action `setup.ts` resolves, downloads, verifies and installs the tool |

**How they interact.** An event of a Coherence resource queues the Coherence
reconciler. It stores the desired state and then calls the reconciler of every
kind of object, the StatefulSet's last. An update or deletion of a secondary
object queues the controller of its own kind with the name of the owner
(creations queue nothing, `SecondaryPredicate`). So two controllers run the same
StatefulSet code for one resource: the main one with the state it has just
stored, the other one with what the store has. A lock on the name keeps them
apart; a request that finds it taken is requeued. Everything they read comes
from informers; almost everything they write is a merge patch without a resource
version. In between, the StatefulSet controller creates, deletes and upgrades
Pods, members join and leave the Coherence cluster, and the user edits.

**What makes each part correct.** Scaling and upgrading: no data is lost, sizes
come before templates, what was asked for last runs in the end. Status: it tells
what runs, its phase and conditions agree, actions run when they should. Store
and secondary resources: the hash never says more than is true, and what is
wanted, and only that, exists. Lock: one reconcile of a name. Start quorum:
deployments start in order, none waits for ever without a cycle. Finalizer:
services are suspended before members go. Upgrades by node: Pods of one node
at a time, and all of them in the end. Error handler: it retries, and the delay is
bounded. ORAS setup: only a tool whose checksum the table (or the user) has gets on
the `PATH`, an entry of the table never changes, and a new release gets into it.

## 2. What is hard in it

`PROJECT.json` lists each hazard with its line and its properties. In short:

* *Check and act are two calls.* The probe says the cluster is safe; the patch
  comes later, and Pods fail or are rolled in between.
* *The sequence is spread over reconciles.* Scaling by one, then waiting, then
  upgrading is not written anywhere: each reconcile compares what is stored with
  what it reads, and a requeue or an event brings the next.
* *Two writers, patches without versions, old reads.* The phase, the conditions
  and the StatefulSet are written from copies that may be old.
* *Crashes and refused calls* between Store, the objects, and the status.
* *Nobody waits for an answer.* A reconcile that finds the lock taken, the quorum
  not met, or the cluster not StatusHA ends, and relies on its requeue or on an event
  to come back. An upgrade by node deletes the Pods of a node one by one, then
  ends, and the next reconcile has only the Pods that are left to go by.
* *Two resources that depend on each other's status*, which is written by their own
  reconciles.
* *Legacy objects:* a StatefulSet of an operator up to 3.4.3 takes a path of its
  own through `updateStatefulSet`.

## 3. The modules

A definition has the name of the code it stands for where there is one;
`PROJECT.json` maps each to its lines. A definition `Name_Word` is a plausible
bug in `Name`; replacing `Name` by it breaks the property it is listed with.

### `StatefulSetReconciler`

`updateStatefulSet` and all it calls, for a deployment that exists, against the
StatefulSet controller and the cluster.

| variable | in the system |
|---|---|
| `coh`, `store` | the user's resource; the desired state in the state store |
| `sts`, `status`, `cache` | the StatefulSet's spec with its hash label and partition, its status, and the informer's copy of both |
| `pods`, `endangered` | the Pods by ordinal and revision; is a partition without backup? |
| `op`, `queue` | the reconcile that holds the lock and what it read; the work queues |
| `lost` | history: a storage member left while partitions were endangered |

A reconcile is a sequence of steps, one for each call that others can come
between: `BeginReconcile` (lock, `Store`, read), then the decision
(`ScaleParallel`, `ProbeBeforeScale`, `ProbeBeforePatch`, `NothingToPatch`), then
the patch after a probe (`ScaleByOne`, `Patch`). `thenScale` is the rest of
`updateStatefulSet` after the patch of a legacy StatefulSet that is to shrink.
`MergePatch` writes only the fields in which the desired object differs from the
one read, which is what makes an old read dangerous. `PatchFails` and
`OperatorRestarts` may happen before any patch or at any step.

External: the StatefulSet controller (Parallel Pod management, rolling update
from the highest ordinal down to the partition), Pods, and the cluster. A member
that leaves endangers partitions until `Rebalance`; a second storage member that
leaves before loses data; the readiness probe of a new member waits for StatusHA
(the operator's own health check on the Java side).

`OrderedRollout` is what this promises, as a specification of its own: the size gets
closer to the stored one with every step, the template follows at the stored size
only, and until then the members that a resize keeps are shielded (the partition).
`Rollout` maps the StatefulSet and the store to it; `RollsOutInOrder` says that every
step of the reconciler, the StatefulSet controller and the cluster is a step of
`OrderedRollout` or a stutter. It takes the place of three statements about single
patches and says more: nothing else changes the StatefulSet.

A state is `Quiet` when no reconcile is at work and none is queued: only an edit or
an event of the cluster can start another one. `NothingForgotten` and
`NothingHeldBack` say what is true in such a state: the StatefulSet is what the user
asked for, and its partition is zero. `SecondaryResources`, `Lifecycle` and
`Deployments` have a `Quiet` and such a statement of their own (`NothingMissing`,
`NoWishForgotten`, `NothingForgotten`): what the code promises by its many requeues,
returned errors and reliance on events, in a form that can be proved.

### `StatefulSetReconcilerProofs`, `SafeScalingProofs`

Theorems about it (section 6): the first about what the reconciler reads, patches
and leaves queued, the second about the members of the cluster and their data.

### `CoherenceStatus`

The writes of the status by the two reconcilers from a new resource's first phase on:
create, start quorum, scale, upgrade, stop, start again, actions, and those of the error
handler after a refused patch of the StatefulSet. `SetPhase`,
`EnsureInitialized`, `SetCondition`, `Update` and the flags they return are the
functions of `coherenceresource_types.go`; `InitializePhase` is the status
manager's write of the first phase; `MergePatch` is a merge patch against the
informer's copy, in which the list of conditions is one field. `ReportStatus` is
`updateDeploymentStatus`, an update that an old resource version refuses.

A refused patch (`RefusePatch`) goes to `HandleError`: `UpdateErrorTracking` counts the
error in the annotations, by an update; `MarkFailed` writes the phase `Failed`, by an
update of the status that fails unless the informer has caught up with the one before;
no error is returned, and the reconcile goes on with `ReportStatus` and the actions.
Whether there is a requeue depends on the category of the error: a permanent one has
none, and only the event of the annotations brings the resource back. Scaling in
parallel returns the error instead. What the other writes do when they are refused is
`WriteFails`, which ends the reconcile with an error, and `WriteIsSkipped`, which logs
and goes on. `annotated` says that the annotations are newer than the informer's copy;
`forgotten` is a history variable: an upgrade was refused for good and the error could
not be counted either, so that nothing brings it back. Not here: the phase `Failed` that
the main reconcile writes for errors of its own preparation (operator secret, state store,
desired resources), before it has come to the StatefulSet.

Whether probes succeed, and single Pods, are abstracted to a choice and to
counts. `life` is a history variable: has every Pod been ready since the
StatefulSet was made, and have the actions run? `CoherenceStatusProofs` has the
theorems.

### `SecondaryResources`

The state store and the objects. An object is the set of fields the operator has
set in it. `Stored` is `Store`, `Deletions` is `GetDeletions`,
`DesiredResources` is `checkHash`, `Patched` is a three way patch, `Apply` is
`Create` or `Update`. The kinds are dealt with in any order (the code's fixed
order is one of them), the StatefulSet last. The StatefulSet is an object
whose patch may be put off (`busy`): it has to be scaled first, or is not
StatusHA. `ObjectFails` ends the loop of one kind, as an error does in
`ReconcileAllResourceOfKind`. `SecondaryResourcesProofs` has the theorems.

### `Lifecycle`

How a resource ends: the finalizer, `allowUnsafeDelete`, scaling to zero, deletion,
and the suspension of the Coherence services before the members go.

| variable | in the system |
|---|---|
| `res` | the resource in the API server: is it there, being deleted, has it the finalizer, what the user wants (`Wishes`), whether more than three errors were counted |
| `sts`, `services` | the StatefulSet and its ready Pods; the partitioned services: running, suspended, or resumed by a member that started |
| `cache`, `op`, `queue` | the informers' copies; the reconcile that holds the lock and the resource it read; the work queues |
| `disturbed`, `unclean`, `refused` | history: the user edited again too early, or the last ready Pod failed; members went with running services that were to be suspended; the API server refused a deletion |

`FirstStep` is the first half of `CoherenceReconciler.Reconcile`;
`FinalizeDeployment` (with `MaySkip`), `RemoveFinalizer` and `ApplyFinalizer` are
the finalizer manager; `StopStatefulSet`, `SuspendServices` and
`DeleteStatefulSet` are scaling to zero in `ReconcileAllResourceOfKind`.
`CanSuspend` is what a suspension needs: every Pod ready. Updates of the
StatefulSet do nothing here; replicas are zero or not. External: the user, the
API server's finalizers and resource versions, the garbage collector, and
`PodIsReady`, in which a member that starts resumes suspended services.
`OtherErrors` stands for the errors of any kind by which the error count passes
three. `LifecycleProofs` has the theorems.

### `Deployments`

Several resources at once, and for each of them two controllers (Coherence and
StatefulSet) that compete for its lock: the composition of the lock
(`base_controller.go`), the start quorum (`CanCreate`), and the upgrades by node or
node label (`upgrade_strategy.go`), against the counts the StatefulSet controller
reports and the Pods.

| variable | in the system |
|---|---|
| `coh`, `store`, `status` | the template's revision in each resource and in its state store; the phase and the ready count in its status |
| `sts`, `pods` | the StatefulSet's revisions, and the status its controller reports; each Pod: gone, starting, ready, terminating, and its revision |
| `safe` | the cluster: the resources whose partitions all have their backups |
| `locks` | `commonLocks`: the names that are locked |
| `op` | for each controller, the name it works on, and the Pods of a node that it is about to delete |
| `queue` | the requests in the controllers' work queues |
| `everReady`, `down` | history: the resources whose Pods have all been ready at once; the Pods the operator deleted that are not back |

`Lock` and `Refuse` are the two outcomes of `Lock` in `Reconcile`; `Unlock` is its
deferred release, which every way out of a reconcile runs; `Fail` is a failure that
requeues, `PatchFails` one that goes through the error handler, which marks the
resource `Failed` and so queues it again. `Create`,
`WaitForQuorum`, `Patch`, `PutOffPatch`, `RollingUpgrade`, `DeferUpgrade` and
`NothingToUpgrade` are the decisions of one reconcile, `DeletePod` each call of
`deletePods`, `DeleteRefused` one that the API server refuses. `Outdated` is
`groupPods`, `NodesOf` and `IsDue` what decides which node is next; the order of
nodes is left open, as it is the order of a Go map in the code. A Pod belongs to a
node for good: it comes back where it was.

The abstract specification `OneReconcileAtATime` knows who works on what and
nothing of locks, queues and requeues. `Exclusive` says that `Deployments`
implements it. `MCDeployments` gives the instance; `DeploymentsProofs` has the
theorems.

### `OrasSetup`

The JavaScript of the repository. It is vendored, and here because it is what the
scanning workflow (`.github/workflows/trivy.yaml`) runs. `upstream` are the releases
on GitHub and the builds of their artifacts, `table` is `releases.json`, `script` a
run of `update-releases.mjs` (`RunAuto`, `RunBackfill`, `FetchVersionEntry`,
`FetchFails`, `WriteReleases`: nothing is written before all is fetched), `jobs` are
runs of `setup.ts` (`Resolve`, `DownloadTool`, `VerifyAndAddPath`) on machines that
`MapPlatform` and `MapArch` translate. A checksum stands for the file it is the
checksum of. One run of the script at a time, as its workflow has it; jobs share
nothing but the table they read. Upstream is external: it publishes, uploads later,
and may build a release again. `MCOrasSetup` gives the instance, `OrasSetupProofs` has
the theorems.

### How they fit together

The modules model different pieces of state of the same code, and each abstracts
what another has in detail (the probe's answer in `CoherenceStatus`, scaling in
`SecondaryResources`, updates in `Lifecycle`, sizes in `Deployments`) to a free choice or
to nothing. All but `Deployments` take one reconcile of a name at a time for granted;
`Exclusive` is that assumption, checked and proved where the lock is.

## 4. The runs

| run | bounds | shows |
|---|---|---|
| `StsScaling` | 4 replicas, 3 edits, 1 fault; default policy; first edit on a legacy StatefulSet; each edit rolled out before the next; old reads | `TypeOK`; no data loss; members leave one at a time; scaling exposes nobody to an upgrade; no edit is forgotten |
| `StsEdits` | 3 replicas, 2 edits at any time, 1 fault | the StatefulSet implements `OrderedRollout`; scaling exposes nobody; no edit is forgotten and no Pod held back when nothing is queued; the last edit runs in the end |
| `StatusPhases` | 2 replicas, 2 edits (each rolled out), 1 fault; starts without a StatefulSet, the start quorum met or not | `TypeOK`; phase and conditions agree; the status is told when all is quiet; actions after ready, and once |
| `StatusConverges` | 1 replica, 1 edit at any time, 1 fault; old reads; the start quorum is met | the status tells the truth in the end, and whenever nothing is queued |
| `Resources` | 1 object and the StatefulSet, 2 fields, 2 edits, 1 fault | `TypeOK`; the store's and the objects' hashes tell the truth; objects are exact as long as nothing fails; everything wanted is there in the end, and whenever nothing is queued |
| `Lifecycle` | 2 Pods, 2 edits or deletions at any time, 1 fault; old reads | `TypeOK`; services are suspended before members go; no wish is forgotten when all is quiet; in the end everything is there or gone, finalizer included, and nothing wanted is left suspended |
| `Deployments` | storage of 3 Pods on 2 nodes, a proxy of 1 Pod that waits for 2 Pods of it; 1 edit of the storage, 1 fault; two controllers | `TypeOK`; Pods of one node at a time; the proxy after the storage; the lock implements `OneReconcileAtATime`; no start, patch or node is forgotten when all is quiet; upgrades and starts come to their end |
| `OrasSetup` | 2 new releases besides the table's, 1 rebuild, 1 fault, 1 job on 3 kinds of machine | `TypeOK`; only a tool with a pinned checksum on the `PATH`; entries of the table stay; new releases get into it; jobs end |
| `StsScaleMidRoll`, `StsLegacyUpgrade`, `StatusEarlyActions`, `ResourcesRemoval` | as small as shows it | counterexamples, section 7 |

*Why the bounds are enough to be of use.* Data loss needs two members leaving and
a third that stays, so three replicas; the fourth makes scaling by one take
three reconciles. Two edits are needed for an edit that overtakes another, three
for scaling down, up and upgrading after a legacy patch. One fault at any step
covers every crash point once; a second fault in a row mostly meets the same states as
one, since nothing is kept in the process (section 7 has an exception, and the theorems
are for any number). In `CoherenceStatus` the counts matter
only as none, some, all: two replicas have all three. `StatusConverges` starts with the
start quorum met (`MayWait` is `FALSE`), to keep its states few: the phase `Waiting` is in
`StatusPhases`, with `NothingUntold`, and that a waiting resource starts in the end is
`EventuallyStarted` in `Deployments`, which has the quorum in full. A refused patch of the
StatefulSet costs the one fault; that the error handler's own writes fail with it costs
nothing more. In `SecondaryResources` a
removed field and a kept field are the two cases of a patch, and the first edit
makes what the second has to take away. In `Lifecycle` two Pods are enough for a
StatefulSet of which only a part is ready, which cannot be suspended; two edits
stop a deployment and start, reconfigure or delete it again.

In `Deployments` a node with two Pods is what it takes for an upgrade to be cut short
in the middle, and the second node for another to be started too early; two
controllers and two names are all the ways to meet at a lock. The proxy is not
edited, so that what it waits for is the storage alone. In `OrasSetup` two releases
can come in either order and one of them fail while the other is fetched already;
the job shares nothing with others but the table, so that one is enough, and the
three machines are two that upstream builds for, not always both, and one that the
action does not know.

The runs whose system may stop (all edits and faults are used up and everything
is settled) have `CHECK_DEADLOCK FALSE`; that it does not stop too early is what
the liveness properties say. `SecondaryResources` never stops (status events).

*Old reads.* `StaleReads` lets a reconcile work on a copy from before the last
write. `StatusConverges` and `StsScaling` allow it; `StsEdits`, whose edits overlap, does
not, see section 7. In `Lifecycle` the informers are part of the model and may lag at any
time. Periodic informer resync is left out: it would only queue what is
queued anyway, and a property that needs it would be a property of the resync.

## 5. Fairness

Weak fairness on: the start of a queued reconcile (the work queue hands out what
is in it), each step of a reconcile that began (a Go routine goes on), informer
events, and the steps of the StatefulSet controller, Pods and cluster that they
retry until done. None on edits, faults, failing Pods, or status events that
nothing asks for. `QuorumIsMet` is fair in `CoherenceStatus`: that other
deployments start is assumed there (of the runs, `StatusConverges` starts after it). Requeues after a delay (a minute, the
exponential back-off, 30 seconds for the quorum) count as requeues: time is not
modelled.

Strong fairness is assumed in one place: `Lock(c, n)` in `Deployments`. A controller's
worker is free again and again but not all the time, and so is a name that another
controller works on. The work queue is first in, first out, and a refused request
goes to its end after a minute, so that a request is tried again and again; that it
never finds the lock free, though it is free infinitely often, is what strong fairness
excludes. Everything else there is weakly fair: a reconcile that has the lock goes on,
the StatefulSet controller counts, Pods that are started become ready, Pods that
are deleted stop, and a complete cluster rebalances. Failures are not fair, so they
may also never come.

In `OrasSetup`: the schedule runs the script, Node goes on with what it began, and
upstream uploads what it lists. None on publishing, rebuilding and backfills.

## 6. The proofs

`StatefulSetReconcilerProofs`, checked by TLAPS for every value of the constants
that `BoundsAssumption` and `OptionsAssumption` allow (any size, any number of
edits and faults, any policy):

* `TypeCorrect`: `Spec => []TypeOK`, by the lemma `Invariance`, `Spec => []IInv`. `IInv` is
  the type invariant, `coh.hash = edits + 1` (needed for the generations to stay in their
  range), `HoldsDecision` (the size that was read differs from the stored one, or
  equals it, as it did when the reconcile decided to scale, or to patch) and `ReadsAreCurrent` (with fresh reads, what it read is what
  the StatefulSet has). It says nothing about the partition: `ScalingProtects` and
  `NobodyIsHeldBack` do. The type invariant alone is not inductive: `ScaleByOne`
  stays between 1 and `MaxReplicas` only because the size it read still differs
  from the stored one, and that is so because no other reconcile can store
  anything in between: `HoldsDecision`.
* `CopiesLag` (`LagInv`), with edits that do not overlap: a reconcile that changes something
  works on the last edit (`KnowsEdit`), and if reads lag, then by one patch at most: the
  StatefulSet is what was read, or what the next patch makes of it (`LagsByOne`,
  `Successor`). A reconcile that has missed a patch computes that same patch again.
* `ScalingProtects` (`ScalingProtectsMembers`) and `RolloutIsOrderly` (`RollsOutInOrder`,
  for a StatefulSet that no operator up to 3.4.3 made) assume `ReadsSuffice`: reads are fresh, or edits
  do not overlap and there is no legacy StatefulSet. With fresh reads the argument is
  `ReadsAreCurrent`: what a reconcile read is what the StatefulSet has for as long as
  it holds the lock, since nobody else writes the spec, so that the merge patch makes
  the live object the desired one, whose partition `parallelScale` put at the smaller
  of the two sizes. With old ones it is `CopiesLag`: a
  patch that changes anything was computed from the current spec.
  For `RolloutIsOrderly` each of the patches is a `Grow`, `Shrink`, `Upgrade` or
  nothing, an edit reaches the StatefulSet's side by `Store` (`Want`), and no other
  action touches what the mapping sees. The path of legacy StatefulSets changes size
  and template together, and is no rollout in order.
* `WorkIsKnown` (`WorkInv`) and `NothingIsForgotten` (`NothingForgotten`), with no
  assumption: old reads, overlapping edits, legacy StatefulSets, failed patches,
  restarts. A StatefulSet differs from the resource only while a reconcile is queued
  or at work that will see the difference. The hash label decides whether a template
  is patched, so the invariant must say that the hash never runs ahead of the
  template (`HashGivesRev`), on the live object and on every copy; that the desired
  state is stored before anything is compared with it; and that each way out of a
  reconcile either has done what was due or queues (`WorkIsDue`).
* `NobodyIsHeldBack` (`NothingHeldBack`), with `ReadsSuffice` and no legacy StatefulSet:
  the partition that shields members while scaling is taken back. The template patch
  comes last (`UpgradesLast`) and takes it to zero. Both assumptions are needed: TLC
  finds the property violated with either dropped (section 7).

`SafeScalingProofs`, about the cluster, for any sizes, edits and faults, with `Orderly`:
the policy is not `Parallel`, each edit is rolled out before the next, and reads are
fresh if the StatefulSet may be a legacy one:

* `ScalingIsQuiet`: `Spec => [](SizeInv /\ ActsOnCount)`. `SizeInv`: scaling and rolling
  upgrades do not overlap. As long as the size differs from the one asked for, no Pod
  waits to be replaced and none that stays is terminating; scaling down starts with
  all members ready, and there is one Pod too many at most. `ActsOnCount`: what a probe
  counted is still so when the replica count is patched down.
* `MembersLeaveOneByOne` (`OneMemberLeavesAtATime`) follows: a patch takes one member off
  when the one before has gone.
* `NothingIsLost` (`NoDataLoss`) assumes besides that the members' readiness waits for
  StatusHA (`HABeforeUpdate`). A second layer says where partitions without a backup can
  be. `DataInv`: a member that leaves, for good or to be replaced, leaves when all others
  are ready and nothing is endangered; a rolling upgrade has at most one member
  missing, and while partitions are endangered it has one missing, so that the
  StatefulSet controller waits. `ActsOnWhole`: a probe's answer holds until the
  patch it allows.

`Orderly` and `HABeforeUpdate` are not conveniences: with `Parallel`, or with
overlapping edits, TLC finds both properties violated (`StsScaleMidRoll` is the shortest
way), and without `HABeforeUpdate` `NoDataLoss`. The exception is a legacy StatefulSet
with old reads, edited in order: TLC finds nothing (`StsScaling`), and the theorems do not
cover it.

`DeploymentsProofs`, for any resources, Pods, nodes, quorums, edits and faults that
`DeploymentsAssumption` allows:

* `TypeCorrect`: `Spec => []TypeOK`.
* `WorksExclusively`: `Spec => Exclusive`, the refinement of `OneReconcileAtATime`.
  The invariant `Locked` says that a controller at work has its name locked and that
  no two have the same name; the type invariant knows nothing of `locks`.
* `UpgradesNodeByNode`: `Spec => []OneNodeAtATime`. The invariant `GroupsOnNode`: the
  Pods a controller is about to delete and those that are down are of one node, if of
  one resource. It is kept because a group is only chosen when the probe finds every
  Pod ready (so nothing is down), and, by `Locked`, by one controller only.
* `QuorumBeforeStart`: `Spec => []StartsInOrder`. The invariant `ReadyIsTrue` follows
  the fact backwards along its copies: a resource with the phase `Ready`, and before
  that a StatefulSet whose counts make it so, has had all its Pods ready at once.
* `WorkIsKnown` and `NothingIsForgotten` (`NothingForgotten`). A template that the store
  has not got is in the first controller's queue. A StatefulSet behind the store
  (`ToPatch`), or Pods due for upgrade with all of them ready (`ToUpgrade`), are in a
  queue or in work: the proof goes through every way a reconcile ends, a restart, and
  the two ways in which they become due outside one. An upgrade is due only by the
  counts, and when those change there is an event. When a Pod becomes ready there is
  none; so the counts must say until then that it was not (`PodsInv`), and change
  later. That a node's last deletion may end a reconcile without a request rests on
  `Locked`: the store has not changed under it (`UpToDate`). The revisions reach the
  counts in order (`InOrder`), so that old counts never hide that something is due. In a
  quiet state ready Pods of the two revisions add up to the size, so that what is
  still outdated would be due.

`SecondaryResourcesProofs`, for any objects, fields, edits and faults:

* `Invariance`: `Spec => [](HashInv /\ ExactInv)`. `HashInv` says besides the types that
  no label is above the store's hash and that is not above the generation, so that a
  state stored for a new generation meets no object that claims to have it; and that
  the store is behind the resource only while a reconcile is queued. `ExactInv` is
  what is left to do: as long as nothing failed, an object still to be patched is as
  the previous state says, which is why a three way patch from that state leaves
  nothing over.
* `TypeCorrect`, `StoreIsCurrent` (`StoreMatchesGeneration`), `HashTellsTheTruth`
  (`HashMeansApplied`), `ObjectsBecomeExact` (`ObjectsAreExact`) follow from it.
* `WorkIsKnown` (`WorkInv`) and `NothingIsMissing` (`NothingMissing`): an object that is not
  as the store has it, or has another hash (`Applied`), will be applied by a reconcile
  that is queued, or is under way and not past it (`WillApply`). The reconcile that
  leaves a kind of objects by an error, or puts off the StatefulSet, has by then
  committed itself to another one (`op.again`).

`OrasSetupProofs`, for any releases, machines, jobs, rebuilds and faults:

* `Invariance`: `UpstreamInv` bounds the builds by the rebuilds; `ScriptInv` says that the
  script's copy has all that the table has and that what it still fetches is new to the
  table; `JobInv` that what a job downloads and installs is pinned from the step on in
  which it was resolved.
* `TypeCorrect`, `OnlyPinnedIsInstalled` (`OnlyPinnedTools`), `TableKeepsEntries`
  (`EntriesStay`). The second needs the third: a checksum that was pinned when the job
  was resolved is pinned when the file is compared, because entries stay.

`CoherenceStatusProofs`, for any number of replicas, edits and faults:

* `TypeCorrect`: `Spec => []TypeOK`, whatever the reads and the edits are.
* `Invariance`, with reads that are fresh when a reconcile begins and edits that wait
  for the last one (`Orderly`): `Spec => []IInv`. `ReadsInv`: while a reconcile is at
  work, what it has read of the user's wishes holds, and only its own writes are ahead
  of its copy of the status. `PhaseInv`: where a phase is about to be patched, the copy
  has the live phase and conditions, but for the phase that `InitializePhase` set;
  `Failed`, which is written by an update, replaces what was read or nothing; and
  `FinishReconcile`, which writes `Stopped` without its condition, finds `Stopped`
  there. `ReadyInv`: when there is no StatefulSet, a phase `Ready` is left only for as
  long as a reconcile is due that replaces it, so that a new StatefulSet never starts
  under one. `ActionsInv`: the copy's `actionsExecuted` is the live one until the
  reconcile writes it.
* `ConditionsFollowPhase` (`PhaseOwnsConditions`), `ActionsWaitForPods`
  (`ActionsAfterReady`) and `ActionsRunOnce` (`ActionsOnce`) follow. The assumption is
  needed: see section 7.
* `NothingIsUntold` (`NothingUntold`), whatever the informers show and whenever the user
  edits, without `Orderly`. `VersionsInv`: generations get to the informer, the state
  store and the StatefulSet in this order, and one generation is one specification.
  `ReadInv`: without a request for the main reconcile, the store has what the informer
  has, and a StatefulSet that is gone but still in the informer's copy is one that was
  to go, so that nobody takes it for up to date; and an upgrade, or a refused patch that
  asked for no requeue, is of a StatefulSet that has the stored size. `WorkInv`: a
  StatefulSet that is not as stored is in the hands of the main reconcile, or there and
  to be seen by another: by an event (that of the counted error among them), a request
  or the reconcile under way; or its upgrade was refused for good and the error could not
  be counted (`LeftOut`), which is all that `NothingUntold` excuses of an upgrade. `ToldInv`: past `ReportStatus`, with
  nothing queued and nothing new to read, the status tells of the StatefulSet that was
  read. What `Update` leaves unwritten tells of it already (`SilentTells`), and a patch
  that changes anything makes the status differ from the copy, so that there is an event
  to come (`PatchShows`). The creation that queues nothing keeps this: a new
  StatefulSet has no ready Pods, as none had before.

`LifecycleProofs`, for any number of Pods, edits and faults:

* `Invariance`: `Spec => []IInv`, over `TypeOK` and `CleanShutdown` three invariants.
  `StepsInv` is what a reconcile at a step has read and done, whatever the user does:
  a StatefulSet about to be deleted for zero replicas has its services suspended. The
  other two speak of a user whose edits find everything settled and of Pods that never
  all fail (`~disturbed`). `ReadsInv`: there is at most one old resource to read, and
  what it says is done already, so that nothing happens by it. `DeletedInv`: a
  StatefulSet with ready Pods is what a deletion finds, and both it and the informer's
  copy stay so until the garbage collector comes. That is why the finalizer's check
  for ready Pods, which reads the informer, cannot skip a suspension that was due, and
  why it matters that the check is for none ready and not for some.
* `TypeCorrect` (`TypeOK`) and `MembersLeaveSuspended` (`CleanShutdown`) follow.
* `WishesAreKnown` (`ReadInv`, `WishInv`) and `NoWishIsForgotten` (`NoWishForgotten`), of any
  user, who may edit and delete at any time. An edit makes the informer's copy
  differ from the resource, its event makes a request, and a reconcile that began
  with the newest resource knows of the wish until it has done what it asks for. A
  reconcile that read an older one leaves an event or a request behind, as an
  update of the finalizer is refused on an old version. What is excused is a
  deletion that the API server refused, which the code takes for done.

The theorems about `StatefulSetReconciler` take one reconcile at a time for granted,
which `WorksExclusively` proves of the lock. No run or theorem removes the assumption
that no user edits the StatefulSet itself.

*Only model-checked:* liveness (`EventuallyConverges`, `UpgradeCompletes`,
`EventuallyStarted`, `EventuallyAsWished` and the like), which TLAPS cannot prove. Every
invariant and every action property of the passing runs is stated by a theorem.
`NothingForgotten`, `NothingHeldBack`, `NothingMissing`, `NothingUntold` and
`NoWishForgotten` are the part of it that can be proved: that no state without work is a
wrong one. That work comes to an end is left to TLC.

## 7. What the work showed

*Disagreements between the code and what is written about it* (violation runs):

* `StsScaleMidRoll`: scaling down during a rolling upgrade can take out two
  members at once. `scale` probes and then patches, and does not look at whether the
  StatefulSet is stable, which its comment says is a reason not to scale.
* `StsLegacyUpgrade`: a StatefulSet of an operator up to 3.4.3 that is scaled down and
  updated by one edit gets the template, the hash and a partition at its size in one
  patch, and is scaled after it; "next time around" the hash matches, nothing is upgraded
  and the partition stays. The state after that patch is `thenScale`, from which
  `UpgradesNextTime` asks for the rollout to come to its end. (Scaled up and updated by
  one edit it keeps its partition as well; there the comment says no more than that
  existing Pods should not be changed, which is what happens.)
* `StatusEarlyActions`: a deployment that is stopped and started again quickly may
  run its actions before a Pod is ready, as the phase that decides was read before
  the StatefulSet was made again.
* `ResourcesRemoval`: `Store` shifts latest to previous on every reconcile. A
  StatefulSet patch that is put off is computed later from two equal states: it
  removes nothing, and sets the hash that says all is done.

*Other behaviour worth knowing* (no run of its own):

* With `StaleReads` and edits that overlap, or a legacy StatefulSet,
  `StatefulSetReconciler` violates `NothingHeldBack`: a template patch computed from a
  copy older than the operator's own scale does not contain the partition (it did not
  differ), so the upgrade stops there, and later reconciles find that the hash matches
  (line 389). Size, template and hash are right all the same: `NothingForgotten` is
  proved without any assumption. It is for this that `StsEdits` reads fresh.
* `PhaseOwnsConditions` and `ActionsOnce` need both fresh reads and edits that do not
  overlap. With `StaleReads` a patch may be computed from a status that has been
  replaced. With `EditsOverlap` a reconcile goes on with the replicas it began with
  while the user changes them: one that began at zero writes the phase `Stopped`, alone,
  over a phase whose condition stays true. That is a few steps without any fault; for
  `ActionsOnce` it takes a failed call or a restart as well. `ActionsAfterReady` needs
  only the edits not to overlap on the instances that were tried; the theorem assumes
  both.
* The phase goes back from `Created` or `Waiting` to `Initialized` once: the status
  manager writes the first phase without its condition, and `ensureInitialized`
  adds it later by setting the phase. `Ready` is reached all the same.
* The phase stays `Ready` when a Pod fails: `Update` sets `Ready` when the counts
  agree and leaves the phase alone when they no longer do. So `Reported` asks for
  the counts and the phase of the end only.
* A refused patch of the StatefulSet may leave the phase `Failed`, or not: the same
  reconcile goes on, and `Update` replaces it by `RollingUpgrade` if the revisions differ,
  by `Ready` if they do not and the counts agree with the size asked for, and leaves it
  otherwise. Often it is not written at all, as the update that counts the error has made the informer's copy old.
  The condition `Failed`, unlike the transient ones, is never set back: it stays true
  after the resource has recovered. A permanent error (forbidden, invalid) asks for no
  requeue; the event of its annotations queues the resource again, so that it is tried
  again all the same. If that update is refused too, an upgrade is left until
  something else queues the resource, and the status tells of a resource that is ready:
  `NothingUntold` and `EventuallyReported` excuse just that (`forgotten`).
* `Delete` returns nil for every error, not only for "not found". Another reconcile
  of a stopped deployment tries again, if there is an event that starts one: after one
  refusal there is, by the status that the same reconcile writes, which is why
  `EventuallyReported` holds with one fault. A restart that comes between a written
  status and a deletion, which is then refused, leaves no event: with two faults a
  resource may be `Stopped` with its StatefulSet still there. The
  deletion of another object is not tried again, as the next `Store` forgets it.
* An object that is deleted by hand is not made again by its own controller, which
  takes the name of the owner for that of the object (`SimpleReconciler.Reconcile`);
  the next reconcile of the Coherence resource makes it.
* A deletion that follows scaling to zero at once skips the suspension, as the
  replica count is zero (a test of the repository asks for that), and the
  StatefulSet goes with the resource. So does one that finds no ready Pod.
* Setting `allowUnsafeDelete` back to false protects a resource only after the next
  reconcile has put the finalizer on: a deletion before that is not seen.
  `CleanShutdown` excuses these: `disturbed`.
* Scaling to zero waits for every Pod to be ready, with no error count that lets it
  pass. A deletion has one, but a failed suspension does not add to it: only other
  errors of the resource do.
* Scaled to zero, a resource whose services are suspended and whose StatefulSet is
  not deleted yet (a restart, a refused deletion) may be scaled up again: the
  services then stay suspended until a member starts. `EventuallyServing` excuses
  a fault while the user changes his mind.
* What looks for the owner of a StatefulSet returns a nil `*Coherence` in an
  interface when the owner is gone, so `deployment == nil` is false: the replicas
  of nobody are the default, the update goes on with a nil resource and panics, is
  recovered and requeued until the garbage collector has been.
* *Upgrade by node, a second edit.* Before it deletes anything, `maybePatchStatefulSet`
  wants current and updated replicas to add up to the size
  (`statefulset_controller.go:408`). Kubernetes never makes the update revision of a
  StatefulSet with the `OnDelete` strategy the current one, so that after a second
  change of the template the Pods of the first change are of neither revision and not
  counted: nothing is upgraded any more. With `MaxEdits` 2 for the storage and
  no fault TLC finds it as soon as `UpgradeCompletes` no longer excuses such Pods.
* *Upgrade by node, the phase.* For the same reason the revisions in the status differ
  for ever, and `Status.Update` (`coherenceresource_types.go:904`) keeps the phase
  `RollingUpgrade`. A start quorum on such a resource is not met any more, for
  whoever is created later; without its exception `EventuallyStarted` is violated with
  one edit and no fault.
* A quorum with a Pod count is met only if the phase is `Ready` too: `CanCreate`
  falls through (`base_controller.go:354`). `docs/ordering/010_overview.adoc` says that
  the count is enough. The model has what the code does; `StartsInOrder` needs it.
* A resource with all of several Pods on one node is never upgraded by node: the code
  refuses to, which `Upgradable` excuses.
* The retry delay of the error handler, `min(5 * 2^(count - 1), 300)` seconds, is
  computed in machine integers: from a count of 62 on it is zero for all counts but
  one, which asks for no retry. It does not show, as the handler counts the error in an
  annotation, and that update is an event which queues the resource at once, after a
  permanent error as well, and long before the delay has passed. Nothing resets the
  count.
* In the ORAS script, the header says that it adds any missing release; the automatic
  mode adds only versions newer than the highest in the table, so that a patch of an
  older line, or what is older than a version added by hand, needs a backfill.
  `EventuallyTracked` is stated for what is the newest.

## 8. What is not modelled

`PROJECT.json` says for every component whether it is. Of the parts that are:
validation and refusal of edits, the global and
per-resource labels, a global flag that skips suspension, informers of Pods that lag
behind the Pods, foreground deletion, strategic merging of lists, `CoherenceJob`,
events, logging and metrics. In `Deployments`: changes of
size, Pods that fail, Pods that come back on another node, and informers that lag: with an
old copy of the Pods a second reconcile could choose another node before it sees
the first one's Pods terminate, so its reads are fresh. Of the controllers that share the lock
map the two that work on a StatefulSet are modelled. In `OrasSetup`: the cache of
GitHub's tools, tokens, the text formats, and the pull request that the workflow opens.

`CoherenceJob`: its reconciler makes, patches and deletes a Job by the functions
that `SecondaryResources` has for every kind; what is its own, the Job's status
and the probes of ready Pods, is left. The error handler is modelled by what it does to
a reconcile after a refused patch of a StatefulSet (count the error, mark the resource, go
on, try again), not by its counts and delays, as the models have no time; its recovery of
recoverable errors and the errors of the main reconcile's preparation, which end it before
it comes to the StatefulSet, are left.

Not suited to a model: the translation of a specification
into Pod templates (pure, long, field by field), the runner, the REST server, the
network test tools, TLS material.

## 9. The plan

Done: `StatefulSetReconciler` with `OrderedRollout`, `StatefulSetReconcilerProofs` and
`SafeScalingProofs`,
`CoherenceStatus` and `CoherenceStatusProofs`, `SecondaryResources` and
`SecondaryResourcesProofs`, `Lifecycle` and `LifecycleProofs`, `Deployments` (the lock,
the start quorum and the upgrades by node, composed) with `OneReconcileAtATime` and
`DeploymentsProofs`, `OrasSetup` with `OrasSetupProofs`.

Left, in this order:

1. The scaling theorems for a legacy StatefulSet with old reads.
2. `JobReconciler`: a Job instead of a StatefulSet, probes of ready Pods, its status.
3. Informers that lag in `Deployments`, and Pods that fail during an upgrade by node.
