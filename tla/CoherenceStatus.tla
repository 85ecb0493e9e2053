-------------------------- MODULE CoherenceStatus --------------------------
(***************************************************************************)
(* The status of one Coherence resource: its phase, its conditions and its *)
(* counts, as the reconcilers write it while they create, scale, upgrade   *)
(* and stop a StatefulSet, and the actions that are run when it is ready.  *)
(*                                                                         *)
(* Every read of the status comes from the operator's informer.  A phase   *)
(* is written with a merge patch, which a stale read does not stop; the    *)
(* counts, and the phase Failed, are written with an update, which it      *)
(* does.  The probes that may put a step off, and the Pods, are            *)
(* abstracted: StatefulSetReconciler models them.                          *)
(*                                                                         *)
(* A definition whose name ends in _Word is a plausible bug in the one it  *)
(* is named after: the property checks show that they notice it.           *)
(***************************************************************************)
EXTENDS Integers

CONSTANTS
    MaxReplicas,   \* bound: the largest replica count a user asks for
    MaxEdits,      \* bound: how often the user edits the resource
    MaxFaults,     \* bound: failed calls, failed Pods and operator restarts
    MayWait,       \* may the start quorum be unmet at first?
    StaleReads,    \* may a reconcile read an old resource from the informer?
    EditsOverlap   \* may the user edit before the last edit is rolled out?

ASSUME StatusBoundsAssumption ==
    /\ MaxReplicas \in Nat \ {0}
    /\ MaxEdits \in Nat
    /\ MaxFaults \in Nat
    /\ MayWait \in BOOLEAN
    /\ StaleReads \in BOOLEAN
    /\ EditsOverlap \in BOOLEAN

VARIABLES
    spec,      \* the resource's replicas, generation and Pod template
    status,    \* its status in the API server
    sts,       \* the StatefulSet in the API server
    cache,     \* the operator's informers: spec, status and sts
    stored,    \* the desired state in the state store
    quorum,    \* is the start quorum met?
    annotated, \* has the resource error annotations that the informer does not show?
    op,        \* the reconcile that holds the lock
    queue,     \* the controllers with a request in their work queue
    life,      \* history: how far the StatefulSet has come since it was made
    forgotten, \* history: has a refused upgrade been left with nothing to bring it back?
    edits,     \* how many edits the user has made
    faults     \* how many faults have happened

vars == <<spec, status, sts, cache, stored, quorum, annotated, op, queue, life, forgotten,
          edits, faults>>

Controllers == {"coherence", "statefulset"}
Transient   == {"Ready", "Scaling", "RollingUpgrade", "Waiting", "Stopped"}
Phases      == Transient \cup {"Initialized", "Created", "Failed"}

ResourceSpec == [replicas: 0 .. MaxReplicas, gen: 1 .. MaxEdits + 1, rev: 1 .. MaxEdits + 1]
ResourceStatus ==
    [phase: Phases \cup {""}, conditions: [Phases -> {"None", "True", "False"}],
     replicas: 0 .. MaxReplicas, current: 0 .. MaxReplicas, ready: 0 .. MaxReplicas,
     actionsExecuted: BOOLEAN, labelled: BOOLEAN, hash: 0 .. MaxEdits + 1]
StatefulSet ==
    [exists: BOOLEAN, replicas: 0 .. MaxReplicas, gen: 1 .. MaxEdits + 1,
     rev: 1 .. MaxEdits + 1, current: 0 .. MaxReplicas, ready: 0 .. MaxReplicas,
     currentRevision: 1 .. MaxEdits + 1, updateRevision: 1 .. MaxEdits + 1]
Step == {"idle", "init", "sts", "delete", "created", "scale", "upgrade", "refused",
         "failing", "report", "status", "actions", "record", "stopped", "hash"}

TypeOK ==
    /\ spec \in ResourceSpec
    /\ status \in ResourceStatus
    /\ sts \in StatefulSet
    /\ cache \in [spec: ResourceSpec, status: ResourceStatus, sts: StatefulSet]
    /\ stored \in ResourceSpec
    /\ quorum \in BOOLEAN
    /\ annotated \in BOOLEAN
    /\ op \in [step: Step, who: Controllers, replicas: 0 .. MaxReplicas]
    /\ queue \in SUBSET Controllers
    /\ life \in {"starting", "up", "acted"}
    /\ forgotten \in BOOLEAN
    /\ edits \in 0 .. MaxEdits
    /\ faults \in 0 .. MaxFaults

NewStatefulSet(desired) ==
    [exists |-> TRUE, replicas |-> desired.replicas, gen |-> desired.gen,
     rev |-> desired.rev, current |-> 0, ready |-> 0,
     currentRevision |-> desired.rev, updateRevision |-> desired.rev]
NoStatefulSet ==
    [NewStatefulSet([replicas |-> 0, gen |-> 1, rev |-> 1]) EXCEPT !.exists = FALSE]
\* What the error handler leaves behind.
errors == <<annotated, forgotten>>

Live == [spec |-> spec, status |-> status, sts |-> sts]

\* Does the informer show an old version of the resource?
OldVersion == cache.spec # spec \/ cache.status # status \/ annotated
Fresh      == cache = Live /\ ~annotated

(***************************************************************************)
(* CoherenceResourceStatus.                                                *)
(***************************************************************************)

SetPhase_KeepsCondition(st, phase) ==
    IF st.phase = phase THEN st
    ELSE [st EXCEPT !.phase = phase,
                    !.conditions = [c \in Phases |-> IF c = phase THEN "True" ELSE @[c]]]

\* A phase sets its condition; leaving a transient one clears that one's.
SetPhase(st, phase) ==
    IF st.phase = phase THEN st
    ELSE [st EXCEPT
            !.phase = phase,
            !.conditions = [c \in Phases |->
                IF c = phase THEN "True"
                ELSE IF c = st.phase /\ c \in Transient THEN "False" ELSE @[c]]]

\* The first writer fills in what never changes, and the Initialized condition,
\* unless the phase is Initialized already.
EnsureInitialized(st, replicas) ==
    LET filled == [st EXCEPT !.replicas = replicas, !.labelled = TRUE]
    IN  IF st.conditions["Initialized"] = "None" THEN SetPhase(filled, "Initialized")
                                                  ELSE filled

\* The flag it returns: setPhase's result replaces what was found before it.
InitializedFlag(st, replicas) ==
    \/ ~st.labelled
    \/ IF st.conditions["Initialized"] = "None" THEN st.phase # "Initialized"
                                                 ELSE st.replicas # replicas

SetCondition(st, replicas, phase) == SetPhase(EnsureInitialized(st, replicas), phase)

\* The phase the StatefulSet's status asks for.
PhaseFor(st, s) ==
    IF s.currentRevision # s.updateRevision THEN "RollingUpgrade"
    ELSE IF st.replicas = st.ready /\ st.replicas = st.current THEN "Ready"
    ELSE st.phase

Update_CountsTwice(st, replicas, s) ==
    [EnsureInitialized(st, replicas) EXCEPT !.current = s.current + s.ready]

\* What updateDeploymentStatus makes of a status.
Update(st, replicas, s) ==
    LET counted == [EnsureInitialized(st, replicas) EXCEPT
                       !.current = IF s.exists THEN s.current ELSE 0,
                       !.ready   = IF s.exists THEN s.ready ELSE 0]
        phased  == IF s.exists THEN SetPhase(counted, PhaseFor(counted, s)) ELSE counted
    IN  IF replicas = 0 THEN SetPhase(phased, "Stopped") ELSE phased

UpdateFlag(st, replicas, s) ==
    LET initialized == EnsureInitialized(st, replicas)
        new == Update(st, replicas, s)
    IN  InitializedFlag(st, replicas) \/ new # initialized

\* A merge patch has the fields that differ from what was read, conditions being
\* one field: they overwrite the live ones.
MergePatch(new) ==
    status' = [f \in DOMAIN status |->
                 IF new[f] = cache.status[f] THEN status[f] ELSE new[f]]

(***************************************************************************)
(* The user and the other deployments.                                     *)
(***************************************************************************)
Settled ==
    /\ op.step = "idle"
    /\ queue = {}
    /\ Fresh
    /\ sts.exists = (spec.replicas > 0)
    /\ sts.exists => /\ sts.gen = spec.gen
                     /\ sts.replicas = spec.replicas
                     /\ sts.ready = spec.replicas
                     /\ sts.currentRevision = spec.rev

Init ==
    /\ spec \in [replicas: 0 .. MaxReplicas, gen: {1}, rev: {1}]
    /\ status = [phase |-> "", conditions |-> [c \in Phases |-> "None"], replicas |-> 0,
                 current |-> 0, ready |-> 0, actionsExecuted |-> FALSE, labelled |-> FALSE,
                 hash |-> 0]
    /\ sts = NoStatefulSet
    /\ cache = Live
    /\ stored = spec
    /\ quorum \in BOOLEAN /\ (quorum \/ MayWait)
    /\ annotated = FALSE
    /\ op = [step |-> "idle", who |-> "coherence", replicas |-> 0]
    /\ queue = {"coherence"}
    /\ life = "starting"
    /\ forgotten = FALSE
    /\ edits = 0
    /\ faults = 0

\* Kubernetes counts an edit of the specification in its generation.
Edit(n, newTemplate) ==
    /\ edits < MaxEdits
    /\ EditsOverlap \/ Settled
    /\ newTemplate \/ n # spec.replicas
    /\ spec' = [replicas |-> n, gen |-> spec.gen + 1,
                rev |-> IF newTemplate THEN spec.gen + 1 ELSE spec.rev]
    /\ edits' = edits + 1
    /\ UNCHANGED <<status, sts, cache, stored, quorum, errors, op, queue, life, faults>>

QuorumIsMet ==
    /\ ~quorum
    /\ quorum' = TRUE
    /\ UNCHANGED <<spec, status, sts, cache, stored, errors, op, queue, life, edits, faults>>

(***************************************************************************)
(* The informers.  An event of the Coherence resource queues its own       *)
(* controller; one of the StatefulSet the statefulset controller, unless   *)
(* it is a creation.                                                       *)
(***************************************************************************)
ResourceEvent ==
    /\ OldVersion
    /\ annotated' = FALSE
    /\ cache' = [cache EXCEPT !.spec = spec, !.status = status]
    /\ queue' = queue \cup {"coherence"}
    /\ UNCHANGED <<spec, status, sts, stored, quorum, op, life, forgotten, edits, faults>>

StatefulSetEvent ==
    /\ cache.sts # sts
    /\ IF sts.exists /\ ~cache.sts.exists
       THEN cache' = [cache EXCEPT !.sts = NewStatefulSet(sts)] /\ UNCHANGED queue
       ELSE cache' = [cache EXCEPT !.sts = sts] /\ queue' = queue \cup {"statefulset"}
    /\ UNCHANGED <<spec, status, sts, stored, quorum, errors, op, life, edits, faults>>

(***************************************************************************)
(* The reconciles.  One runs at a time: both controllers lock the name.    *)
(***************************************************************************)
GoTo(step)   == op' = [op EXCEPT !.step = step] /\ UNCHANGED queue
Requeue      == queue' = queue \cup {op.who}
GoToAndRequeue_Forgotten(step) == GoTo(step)
GoToAndRequeue(step) == op' = [op EXCEPT !.step = step] /\ Requeue
Fails        == GoToAndRequeue("idle")
Faulty       == faults < MaxFaults /\ faults' = faults + 1

\* The main reconcile stores the desired state and makes sure there is a phase;
\* the other one looks for the owner of the StatefulSet.
BeginReconcile(c) ==
    /\ op.step = "idle"
    /\ c \in queue
    /\ StaleReads \/ Fresh
    /\ queue' = queue \ {c}
    /\ op' = [step |-> IF c = "coherence" /\ cache.status.phase = "" THEN "init" ELSE "sts",
              who |-> c, replicas |-> cache.spec.replicas]
    /\ stored' = IF c = "coherence" THEN cache.spec ELSE stored
    /\ forgotten' = (forgotten /\ c # "coherence")
    /\ UNCHANGED <<spec, status, sts, cache, quorum, annotated, life, edits, faults>>

\* StatusManager sets the phase alone.
InitializePhase ==
    /\ op.step = "init"
    /\ MergePatch([cache.status EXCEPT !.phase = "Initialized"])
    /\ GoTo("sts")
    /\ UNCHANGED <<spec, sts, cache, stored, quorum, errors, life, edits, faults>>

\* Set a phase on the way to a step.
WritePhase(phase) ==
    IF phase = cache.status.phase /\ ~InitializedFlag(cache.status, cache.spec.replicas)
    THEN UNCHANGED status
    ELSE MergePatch(SetCondition(cache.status, cache.spec.replicas, phase))

MayStop ==
    /\ op.step = "sts"
    /\ op.replicas = 0
    /\ cache.sts.exists

\* The StatefulSet is to go: the actions are to run again after the next start.
StopStatefulSet ==
    /\ MayStop
    /\ MergePatch([cache.status EXCEPT !.actionsExecuted = FALSE])
    /\ GoTo("delete")
    /\ UNCHANGED <<spec, sts, cache, stored, quorum, errors, life, edits, faults>>

SuspendFails ==
    /\ op.step = "delete"
    /\ Faulty
    /\ Fails
    /\ UNCHANGED <<spec, status, sts, cache, stored, quorum, errors, life, edits>>

DeleteStatefulSet ==
    /\ op.step = "delete"
    /\ sts' = NoStatefulSet
    /\ life' = "starting"
    /\ GoTo("status")
    /\ UNCHANGED <<spec, status, cache, stored, quorum, errors, edits, faults>>

\* A refused deletion is logged, and taken for done.
DeleteFails ==
    /\ op.step = "delete"
    /\ Faulty
    /\ GoTo("status")
    /\ UNCHANGED <<spec, status, sts, cache, stored, quorum, errors, life, edits>>

\* Without a StatefulSet there is no owner to be found: the status is all there
\* is to update.
NothingToReconcile ==
    /\ op.step = "sts"
    /\ ~cache.sts.exists
    /\ op.who = "statefulset" \/ op.replicas = 0
    /\ GoTo("report")
    /\ UNCHANGED <<spec, status, sts, cache, stored, quorum, errors, life, edits, faults>>

MayCreate ==
    /\ op.step = "sts"
    /\ ~cache.sts.exists
    /\ op.who = "coherence"
    /\ op.replicas > 0

WaitForQuorum ==
    /\ MayCreate
    /\ ~quorum
    /\ WritePhase("Waiting")
    /\ GoToAndRequeue("status")
    /\ UNCHANGED <<spec, sts, cache, stored, quorum, errors, life, edits, faults>>

\* A StatefulSet that the informer does not show yet makes the creation fail.
CreateStatefulSet ==
    /\ MayCreate
    /\ quorum
    /\ IF sts.exists
       THEN Fails /\ UNCHANGED <<sts, life>>
       ELSE /\ sts' = NewStatefulSet(stored)
            /\ life' = "starting"
            /\ GoTo("created")
    /\ UNCHANGED <<spec, status, cache, stored, quorum, errors, edits, faults>>

Created ==
    /\ op.step = "created"
    /\ WritePhase("Created")
    /\ GoTo("status")
    /\ UNCHANGED <<spec, sts, cache, stored, quorum, errors, life, edits, faults>>

MayUpdate ==
    /\ op.step = "sts"
    /\ op.replicas > 0
    /\ cache.sts.exists

MayScale == MayUpdate /\ cache.sts.replicas # stored.replicas

BeginScaling ==
    /\ MayScale
    /\ WritePhase("Scaling")
    /\ GoTo("scale")
    /\ UNCHANGED <<spec, sts, cache, stored, quorum, errors, life, edits, faults>>

\* A failed probe puts the patch off; either way there is another reconcile.
Scale ==
    /\ op.step = "scale"
    /\ sts.exists
    /\ sts' = [sts EXCEPT !.replicas = stored.replicas]
    /\ GoToAndRequeue("status")
    /\ UNCHANGED <<spec, status, cache, stored, quorum, errors, life, edits, faults>>

MayUpgrade ==
    /\ MayUpdate
    /\ cache.sts.replicas = stored.replicas
    /\ cache.sts.gen # stored.gen

BeginUpgrade ==
    /\ MayUpgrade
    /\ WritePhase("RollingUpgrade")
    /\ GoTo("upgrade")
    /\ UNCHANGED <<spec, sts, cache, stored, quorum, errors, life, edits, faults>>

Upgrade ==
    /\ op.step = "upgrade"
    /\ sts.exists
    /\ sts' = [sts EXCEPT !.gen = stored.gen, !.rev = stored.rev]
    /\ GoTo("status")
    /\ UNCHANGED <<spec, status, cache, stored, quorum, errors, life, edits, faults>>

\* A probe that fails puts an update off.
ProbeFails ==
    /\ op.step = "scale" \/ MayUpgrade
    /\ Faulty
    /\ GoToAndRequeue("status")
    /\ UNCHANGED <<spec, status, sts, cache, stored, quorum, errors, life, edits>>

NothingToUpdate ==
    /\ MayUpdate
    /\ cache.sts.replicas = stored.replicas
    /\ cache.sts.gen = stored.gen
    /\ GoTo("status")
    /\ UNCHANGED <<spec, status, sts, cache, stored, quorum, errors, life, edits, faults>>

(***************************************************************************)
(* A refused patch of the StatefulSet.  Scaling one by one and upgrading   *)
(* hand the error to the error handler, which asks for a requeue, unless   *)
(* the error is permanent; scaling has a requeue of its own.  The handler  *)
(* returns no error, and the reconcile goes on.  Scaling in parallel just  *)
(* fails.  (No refusal of such a patch is of the recoverable category.)    *)
(***************************************************************************)
RefusePatch ==
    /\ op.step \in {"scale", "upgrade"}
    /\ IF sts.exists THEN Faulty ELSE UNCHANGED faults
    /\ \/ GoToAndRequeue("refused")
       \/ op.step = "upgrade" /\ sts.exists /\ GoTo("refused")
       \/ op.step = "scale" /\ Fails
    /\ UNCHANGED <<spec, status, sts, cache, stored, quorum, errors, life, edits>>

\* The error is counted in the annotations, by an update.
UpdateErrorTracking ==
    /\ op.step = "refused"
    /\ annotated' = (annotated \/ ~OldVersion)
    /\ GoTo("failing")
    /\ UNCHANGED <<spec, status, sts, cache, stored, quorum, life, forgotten, edits, faults>>

\* The phase is written by an update too, which the one before makes a conflict
\* unless the informer has caught up.
MarkFailed ==
    /\ op.step = "failing"
    /\ status' = IF OldVersion THEN status
                 ELSE SetCondition(cache.status, cache.spec.replicas, "Failed")
    /\ GoTo("status")
    /\ UNCHANGED <<spec, sts, cache, stored, quorum, errors, life, edits, faults>>

(***************************************************************************)
(* The status that every reconcile writes, and the actions.                *)
(***************************************************************************)
ActionsDue_InAnyPhase == ~cache.status.actionsExecuted /\ op.replicas # 0
ActionsDue_Again == cache.status.phase = "Ready" /\ op.replicas # 0

\* The resource as it was read, before this update, decides about the actions.
ActionsDue ==
    /\ cache.status.phase = "Ready"
    /\ ~cache.status.actionsExecuted
    /\ op.replicas # 0

MustReport == UpdateFlag(cache.status, cache.spec.replicas, cache.sts)

\* updateDeploymentStatus.  The API server refuses an update of an old version
\* of the resource.
ReportStatus ==
    /\ op.step \in {"status", "report"}
    /\ IF MustReport /\ OldVersion
       THEN Fails /\ UNCHANGED status
       ELSE /\ status' = IF MustReport
                         THEN Update(status, spec.replicas, cache.sts) ELSE status
            /\ GoTo(IF op.step = "status" /\ ActionsDue THEN "actions" ELSE "stopped")
    /\ UNCHANGED <<spec, sts, cache, stored, quorum, errors, life, edits, faults>>

ExecActions ==
    /\ op.step = "actions"
    /\ life' = "acted"
    /\ GoTo("record")
    /\ UNCHANGED <<spec, status, sts, cache, stored, quorum, errors, edits, faults>>

RecordActions ==
    /\ op.step = "record"
    /\ MergePatch([cache.status EXCEPT !.actionsExecuted = TRUE])
    /\ GoTo("stopped")
    /\ UNCHANGED <<spec, sts, cache, stored, quorum, errors, life, edits, faults>>

MustStop == op.step = "stopped" /\ op.who = "coherence" /\ op.replicas = 0

\* The main reconcile ends with the phase of a resource without replicas, and
\* with the hash of the specification it has dealt with.
FinishReconcile ==
    /\ op.step = "stopped"
    /\ IF MustStop
       THEN MergePatch([cache.status EXCEPT !.phase = "Stopped"])
       ELSE UNCHANGED status
    /\ GoTo(IF op.who = "coherence" THEN "hash" ELSE "idle")
    /\ UNCHANGED <<spec, sts, cache, stored, quorum, errors, life, edits, faults>>

RecordHash ==
    /\ op.step = "hash"
    /\ MergePatch([cache.status EXCEPT !.hash = stored.gen])
    /\ GoTo("idle")
    /\ UNCHANGED <<spec, sts, cache, stored, quorum, errors, life, edits, faults>>

\* A refused write ends the reconcile with an error, which requeues it.  Actions
\* that are not recorded are due again.
NotRecorded == life' = IF op.step = "record" THEN "up" ELSE life

WriteFails ==
    /\ \/ op.step \in {"init", "created", "record", "hash"}
       \/ MayCreate /\ quorum
       \/ op.step \in {"status", "report"} /\ MustReport
       \/ MustStop
    /\ Faulty
    /\ Fails
    /\ NotRecorded
    /\ UNCHANGED <<spec, status, sts, cache, stored, quorum, errors, edits>>

\* The refusal of another one is logged, or ignored, and the reconcile goes on.  What
\* refuses a patch may refuse the writes of the error handler with it, and then a
\* permanent error may have nothing to bring it back.
WriteIsSkipped ==
    /\ \/ MayStop /\ GoTo("delete")
       \/ MayCreate /\ ~quorum /\ GoToAndRequeue("status")
       \/ MayScale /\ GoTo("scale")
       \/ MayUpgrade /\ GoTo("upgrade")
       \/ op.step = "refused" /\ GoTo("failing")
       \/ op.step = "failing" /\ GoTo("status")
    /\ IF op.step \in {"refused", "failing"} THEN UNCHANGED faults ELSE Faulty
    /\ forgotten' = (forgotten \/ (op.step = "refused" /\ queue = {}))
    /\ UNCHANGED <<spec, status, sts, cache, stored, quorum, annotated, life, edits>>

OperatorRestarts ==
    /\ Faulty
    /\ op' = [op EXCEPT !.step = "idle"]
    /\ cache' = Live
    /\ annotated' = FALSE
    /\ queue' = {"coherence"}
    /\ NotRecorded
    /\ forgotten' = FALSE
    /\ UNCHANGED <<spec, status, sts, stored, quorum, edits>>

(***************************************************************************)
(* The StatefulSet controller (external).                                  *)
(***************************************************************************)
SetSts(s) ==
    /\ sts.exists
    /\ sts' = s
    /\ life' = IF life = "starting" /\ s.ready = s.replicas THEN "up" ELSE life
    /\ UNCHANGED <<spec, status, cache, stored, quorum, errors, op, queue, edits>>

\* A rolling upgrade takes a Pod down.
StsSeesTemplate ==
    /\ sts.updateRevision # sts.rev
    /\ \E ready \in {sts.ready, sts.ready - 1} \cap Nat :
         SetSts([sts EXCEPT !.updateRevision = sts.rev, !.ready = ready])
    /\ UNCHANGED faults

StsCountsPods ==
    /\ sts.current # sts.replicas
    /\ SetSts([sts EXCEPT !.current = sts.replicas,
                          !.ready = IF sts.ready > sts.replicas THEN sts.replicas
                                                                ELSE sts.ready])
    /\ UNCHANGED faults

PodIsReady ==
    /\ sts.ready < sts.current
    /\ SetSts([sts EXCEPT !.ready = sts.ready + 1])
    /\ UNCHANGED faults

PodFails ==
    /\ sts.ready > 0
    /\ Faulty
    /\ SetSts([sts EXCEPT !.ready = sts.ready - 1])

StsHasRolled ==
    /\ sts.currentRevision # sts.updateRevision
    /\ sts.ready = sts.replicas
    /\ SetSts([sts EXCEPT !.currentRevision = sts.updateRevision])
    /\ UNCHANGED faults

(***************************************************************************)
(* The specification.                                                      *)
(***************************************************************************)
Reconcile ==
    \/ InitializePhase
    \/ StopStatefulSet \/ DeleteStatefulSet \/ NothingToReconcile
    \/ WaitForQuorum \/ CreateStatefulSet \/ Created
    \/ BeginScaling \/ Scale \/ BeginUpgrade \/ Upgrade \/ NothingToUpdate
    \/ RefusePatch \/ UpdateErrorTracking \/ MarkFailed
    \/ ReportStatus \/ ExecActions \/ RecordActions \/ FinishReconcile
    \/ RecordHash

StsController == StsSeesTemplate \/ StsCountsPods \/ PodIsReady \/ StsHasRolled

Next ==
    \/ \E n \in 0 .. MaxReplicas, t \in BOOLEAN : Edit(n, t)
    \/ QuorumIsMet
    \/ ResourceEvent \/ StatefulSetEvent
    \/ \E c \in Controllers : BeginReconcile(c)
    \/ Reconcile
    \/ SuspendFails \/ DeleteFails \/ ProbeFails \/ WriteFails \/ WriteIsSkipped
    \/ OperatorRestarts
    \/ StsController \/ PodFails

Spec == Init /\ [][Next]_vars

\* Informers, work queues and the StatefulSet controller retry until they are
\* done; other deployments start, in the end.
Fairness ==
    /\ WF_vars(QuorumIsMet)
    /\ WF_vars(ResourceEvent)
    /\ WF_vars(StatefulSetEvent)
    /\ \A c \in Controllers : WF_vars(BeginReconcile(c))
    /\ WF_vars(Reconcile)
    /\ WF_vars(StsController)

FairSpec == Spec /\ Fairness

(***************************************************************************)
(* Correctness properties.                                                 *)
(***************************************************************************)

\* At most one of the transient conditions is true, the phase's: every change of
\* phase clears the condition of the phase it leaves, over patches that replace
\* the whole list of conditions by one built from an informer's copy.
PhaseOwnsConditions ==
    \A c \in Transient : status.conditions[c] = "True" => status.phase = c

\* The actions run only after all the Pods of the StatefulSet have been ready
\* once: "Actions to execute once all the Pods are ready after an initial
\* deployment" (docs/about/04_coherence_spec.adoc).
ActionsAfterReady ==
    [][op.step = "actions" /\ op'.step = "record" => life # "starting"]_vars

\* The actions run once for every start of the StatefulSet, over two reconcilers
\* that both look at actionsExecuted and a user who stops and starts it; again
\* only if the operator could not record that they ran.
ActionsOnce ==
    [][op.step = "actions" /\ op'.step = "record" => life # "acted"]_vars

\* In the end the status tells what the user asked for and got: no event, status
\* write or failed call is the last one that the operator should have acted on.  Only
\* an upgrade that is refused for good, while the error cannot be counted either, is
\* left out.
Reported ==
    /\ status.phase = IF spec.replicas = 0 THEN "Stopped" ELSE "Ready"
    /\ status.replicas = spec.replicas
    /\ sts.exists = (spec.replicas > 0)
    /\ status.ready = sts.ready
    /\ sts.exists => sts.gen = spec.gen \/ forgotten
EventuallyReported == <>[]Reported

\* Nothing is queued, at work or still to be seen, and the StatefulSet controller
\* has nothing to do.
Quiet ==
    /\ op.step = "idle"
    /\ queue = {}
    /\ Fresh
    /\ sts.exists => /\ sts.current = sts.replicas
                     /\ sts.ready = sts.replicas
                     /\ sts.updateRevision = sts.rev
                     /\ sts.currentRevision = sts.updateRevision

\* A status that lags is on its way to be written: a patch from an old copy, an
\* update that is refused, the Failed phase that a refused patch of the StatefulSet
\* leaves, a creation that queues nothing, failures and restarts leave an event or a
\* request behind, until the status tells what the user asked for and what runs, and
\* the StatefulSet is what he asked for.  Only one that was to go may stay, as a
\* deletion that is refused is taken for done, and only an upgrade that is refused
\* for good, while the error cannot be counted either, may be left out.
NothingUntold ==
    Quiet => /\ status.phase = IF spec.replicas = 0 THEN "Stopped" ELSE "Ready"
             /\ status.replicas = spec.replicas
             /\ status.ready = sts.ready
             /\ spec.replicas > 0 => /\ sts.exists
                                     /\ sts.replicas = spec.replicas
                                     /\ sts.gen = spec.gen \/ forgotten
=============================================================================
