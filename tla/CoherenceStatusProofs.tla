------------------------ MODULE CoherenceStatusProofs ------------------------
(***************************************************************************)
(* Theorems about CoherenceStatus, for any number of replicas, edits and   *)
(* faults.                                                                 *)
(***************************************************************************)
EXTENDS CoherenceStatus, TLAPS

-----------------------------------------------------------------------------
(***************************************************************************)
(* The inductive invariants, for reads that are fresh when a reconcile     *)
(* begins and a user who waits for an edit to be rolled out.               *)
(***************************************************************************)
Orderly == ~StaleReads /\ ~EditsOverlap

\* A reconcile works on what the user wants; only its own writes of the status
\* can be ahead of what it reads.
ReadsInv ==
    /\ op.step # "idle" => cache.spec = spec /\ op.replicas = spec.replicas
    /\ op.step # "idle" /\ op.who = "coherence" => stored = spec
    /\ op.step = "delete" => op.replicas = 0 /\ sts.exists
    /\ op.step \in {"created", "scale", "upgrade", "refused", "failing", "actions", "record"} =>
         op.replicas # 0
    /\ op.step \in {"init", "sts"} /\ cache.sts.exists => sts.exists
    /\ spec.replicas # 0 /\ cache.sts.exists => sts.exists

\* Of two statuses: are the phases and conditions the same, but for the phase that
\* InitializePhase sets?
SamePhase(read, st) ==
    /\ read.conditions = st.conditions
    /\ read.phase = st.phase \/ (read.phase = "" /\ st.phase = "Initialized")

OwnsConditions(st) == \A c \in Transient : st.conditions[c] = "True" => st.phase = c

\* A phase is written on top of the one that was read, and Stopped on Stopped.
PhaseInv ==
    /\ OwnsConditions(status)
    /\ OwnsConditions(cache.status)
    /\ op.step = "init" => cache.status = status /\ status.phase = ""
    /\ \/ op.step \in {"sts", "delete", "created"}
       \/ op.step \in {"status", "report"} /\ op.replicas = 0
       => SamePhase(cache.status, status)
    /\ op.step = "stopped" /\ op.replicas = 0 => status.phase = "Stopped"

\* While a StatefulSet starts, nothing that is left of an earlier one says that
\* it is ready: the phase was replaced, or a reconcile is still to do so.
ReadyInv ==
    /\ ~sts.exists => sts.ready = 0
    /\ ~cache.sts.exists => cache.sts.ready = 0
    /\ life # "starting" => sts.exists
    /\ life = "starting" /\ sts.exists =>
         /\ spec.replicas # 0
         /\ stored.replicas = spec.replicas
         /\ sts.replicas = spec.replicas
         /\ sts.ready < spec.replicas
         /\ cache.sts.ready < spec.replicas
         /\ status.phase # "Ready"
         /\ cache.status.phase # "Ready"
    /\ ~sts.exists /\ status.phase = "Ready" =>
         /\ spec.replicas = 0
         /\ op.step \in {"sts", "status", "report"} \/ (op.step = "idle" /\ queue # {})
    /\ ~sts.exists /\ cache.status.phase = "Ready" => spec.replicas = 0
    /\ op.step \in {"actions", "record"} => life # "starting"

\* What the reconcile knows of actionsExecuted is true until it writes it.
ActionsInv ==
    /\ op.step \notin {"idle", "stopped", "hash"} /\ op.replicas # 0 =>
         cache.status.actionsExecuted = status.actionsExecuted
    /\ op.step = "actions" => ~status.actionsExecuted
    /\ life = "acted" /\ spec.replicas # 0 =>
         op.step = "record" \/ status.actionsExecuted

LEMMA Bounds ==
    /\ MaxReplicas \in Nat \ {0}
    /\ MaxEdits \in Nat
    /\ MaxFaults \in Nat
    /\ StaleReads \in BOOLEAN
    /\ EditsOverlap \in BOOLEAN
BY StatusBoundsAssumption

-----------------------------------------------------------------------------
(***************************************************************************)
(* What the operators of a status and the patches make of it.              *)
(***************************************************************************)
LEMMA SetPhaseLemma ==
    ASSUME NEW st \in ResourceStatus, NEW phase \in Phases
    PROVE  /\ SetPhase(st, phase) \in ResourceStatus
           /\ SetPhase(st, phase).phase = phase
           /\ SetPhase(st, phase).replicas = st.replicas
           /\ SetPhase(st, phase).current = st.current
           /\ SetPhase(st, phase).ready = st.ready
           /\ SetPhase(st, phase).actionsExecuted = st.actionsExecuted
           /\ OwnsConditions(st) => OwnsConditions(SetPhase(st, phase))
<1>. DEFINE conditions == [c \in Phases |->
                IF c = phase THEN "True"
                ELSE IF c = st.phase /\ c \in Transient THEN "False" ELSE st.conditions[c]]
<1>1. conditions \in [Phases -> {"None", "True", "False"}]
  BY DEF ResourceStatus
<1>2. \A c \in Transient : OwnsConditions(st) /\ conditions[c] = "True" => c = phase
  BY DEF OwnsConditions, Phases
<1>3. SetPhase(st, phase) =
        IF st.phase = phase THEN st
        ELSE [st EXCEPT !.phase = phase, !.conditions = conditions]
  BY DEF SetPhase, ResourceStatus
<1>. HIDE DEF conditions
<1>4. st.phase # phase =>
        /\ SetPhase(st, phase) \in ResourceStatus
        /\ SetPhase(st, phase).phase = phase
        /\ SetPhase(st, phase).conditions = conditions
        /\ SetPhase(st, phase).replicas = st.replicas
        /\ SetPhase(st, phase).current = st.current
        /\ SetPhase(st, phase).ready = st.ready
        /\ SetPhase(st, phase).actionsExecuted = st.actionsExecuted
  <2>. DEFINE new == [st EXCEPT !.phase = phase, !.conditions = conditions]
  <2>1. st.phase # phase => SetPhase(st, phase) = new
    BY <1>3
  <2>2. new \in ResourceStatus
    BY <1>1 DEF ResourceStatus
  <2>3. /\ new.phase = phase
        /\ new.conditions = conditions
        /\ new.replicas = st.replicas
        /\ new.current = st.current
        /\ new.ready = st.ready
        /\ new.actionsExecuted = st.actionsExecuted
    BY DEF ResourceStatus
  <2>. QED
    BY <2>1, <2>2, <2>3
<1>5. st.phase = phase => SetPhase(st, phase) = st
  BY <1>3
<1>6. OwnsConditions(st) => OwnsConditions(SetPhase(st, phase))
  BY <1>2, <1>4, <1>5 DEF OwnsConditions
<1>. QED
  BY <1>4, <1>5, <1>6

LEMMA EnsureInitializedLemma ==
    ASSUME NEW st \in ResourceStatus, NEW replicas \in 0 .. MaxReplicas
    PROVE  /\ EnsureInitialized(st, replicas) \in ResourceStatus
           /\ EnsureInitialized(st, replicas).phase \in {st.phase, "Initialized"}
           /\ EnsureInitialized(st, replicas).replicas = replicas
           /\ EnsureInitialized(st, replicas).actionsExecuted = st.actionsExecuted
           /\ OwnsConditions(st) => OwnsConditions(EnsureInitialized(st, replicas))
<1>. DEFINE filled == [st EXCEPT !.replicas = replicas, !.labelled = TRUE]
<1>1. /\ filled \in ResourceStatus
      /\ filled.phase = st.phase
      /\ filled.conditions = st.conditions
      /\ filled.replicas = replicas
      /\ filled.actionsExecuted = st.actionsExecuted
  BY DEF ResourceStatus
<1>2. EnsureInitialized(st, replicas) \in {filled, SetPhase(filled, "Initialized")}
  BY DEF EnsureInitialized
<1>3. "Initialized" \in Phases
  BY DEF Phases
<1>. HIDE DEF filled
<1>. QED
  BY <1>1, <1>2, <1>3, SetPhaseLemma DEF OwnsConditions

LEMMA SetConditionLemma ==
    ASSUME NEW st \in ResourceStatus, NEW replicas \in 0 .. MaxReplicas, NEW phase \in Phases
    PROVE  /\ SetCondition(st, replicas, phase) \in ResourceStatus
           /\ SetCondition(st, replicas, phase).phase = phase
           /\ SetCondition(st, replicas, phase).actionsExecuted = st.actionsExecuted
           /\ OwnsConditions(st) => OwnsConditions(SetCondition(st, replicas, phase))
BY EnsureInitializedLemma, SetPhaseLemma DEF SetCondition

\* The status that updateDeploymentStatus writes.
LEMMA UpdateLemma ==
    ASSUME NEW st \in ResourceStatus, NEW replicas \in 0 .. MaxReplicas,
           NEW s \in StatefulSet
    PROVE  /\ Update(st, replicas, s) \in ResourceStatus
           /\ Update(st, replicas, s).actionsExecuted = st.actionsExecuted
           /\ OwnsConditions(st) => OwnsConditions(Update(st, replicas, s))
           /\ replicas = 0 => Update(st, replicas, s).phase = "Stopped"
           /\ Update(st, replicas, s).phase = "Ready" =>
                st.phase = "Ready" \/ (s.exists /\ s.ready = replicas)
<1>. DEFINE first   == EnsureInitialized(st, replicas)
            current == IF s.exists THEN s.current ELSE 0
            ready   == IF s.exists THEN s.ready ELSE 0
            counted == [first EXCEPT !.current = current, !.ready = ready]
            phase   == PhaseFor(counted, s)
            phased  == IF s.exists THEN SetPhase(counted, phase) ELSE counted
<1>1. /\ first \in ResourceStatus
      /\ first.phase \in {st.phase, "Initialized"}
      /\ first.replicas = replicas
      /\ first.actionsExecuted = st.actionsExecuted
      /\ OwnsConditions(st) => OwnsConditions(first)
  BY EnsureInitializedLemma
<1>2. current \in 0 .. MaxReplicas /\ ready \in 0 .. MaxReplicas
  BY Bounds DEF StatefulSet
<1>3. s.exists => ready = s.ready
  OBVIOUS
<1>4. Update(st, replicas, s) = IF replicas = 0 THEN SetPhase(phased, "Stopped") ELSE phased
  BY DEF Update
<1>. HIDE DEF first, current, ready
<1>5. /\ counted \in ResourceStatus
      /\ counted.phase = first.phase
      /\ counted.conditions = first.conditions
      /\ counted.replicas = replicas
      /\ counted.ready = ready
      /\ counted.actionsExecuted = st.actionsExecuted
  BY <1>1, <1>2 DEF ResourceStatus
<1>6. OwnsConditions(st) => OwnsConditions(counted)
  BY <1>1, <1>5 DEF OwnsConditions
<1>. HIDE DEF counted
<1>7. phase = "Ready" => counted.phase = "Ready" \/ ready = replicas
  BY <1>5 DEF PhaseFor
<1>8. phase \in Phases \/ phase = counted.phase
  BY DEF PhaseFor, Phases, Transient
<1>. HIDE DEF phase
<1>9. counted.phase = phase => SetPhase(counted, phase) = counted
  BY DEF SetPhase
<1>10. /\ phased \in ResourceStatus
       /\ phased.phase = IF s.exists THEN phase ELSE counted.phase
       /\ phased.actionsExecuted = st.actionsExecuted
       /\ OwnsConditions(st) => OwnsConditions(phased)
  BY <1>5, <1>6, <1>8, <1>9, SetPhaseLemma
<1>. HIDE DEF phased
<1>11. "Stopped" \in Phases
  BY DEF Phases, Transient
<1>. QED
  BY <1>1, <1>3, <1>4, <1>5, <1>7, <1>10, <1>11, SetPhaseLemma

\* Without replicas there is nothing to write only if the phase is Stopped.
LEMMA NothingToWrite ==
    ASSUME NEW st \in ResourceStatus, NEW s \in StatefulSet, ~UpdateFlag(st, 0, s)
    PROVE  st.phase = "Stopped"
<1>1. /\ Update(st, 0, s).phase = "Stopped"
      /\ Update(st, 0, s) = EnsureInitialized(st, 0)
  BY UpdateLemma, Bounds DEF UpdateFlag
<1>2. st.conditions["Initialized"] = "None" => EnsureInitialized(st, 0).phase = "Initialized"
  <2>. DEFINE filled == [st EXCEPT !.replicas = 0, !.labelled = TRUE]
  <2>1. filled \in ResourceStatus /\ filled.conditions = st.conditions
    <3>1. 0 \in 0 .. MaxReplicas
      BY Bounds
    <3>. QED
      BY <3>1 DEF ResourceStatus
  <2>2. "Initialized" \in Phases
    BY DEF Phases
  <2>. QED
    BY <2>1, <2>2, SetPhaseLemma DEF EnsureInitialized
<1>3. st.conditions["Initialized"] # "None" => EnsureInitialized(st, 0).phase = st.phase
  BY DEF EnsureInitialized, ResourceStatus
<1>. QED
  BY <1>1, <1>2, <1>3

LEMMA MergePatchLemma ==
    ASSUME status \in ResourceStatus, cache.status \in ResourceStatus,
           NEW new \in ResourceStatus, MergePatch(new)
    PROVE  /\ status' \in ResourceStatus
           /\ status'.phase =
                IF new.phase = cache.status.phase THEN status.phase ELSE new.phase
           /\ status'.conditions =
                IF new.conditions = cache.status.conditions
                THEN status.conditions ELSE new.conditions
           /\ status'.actionsExecuted =
                IF new.actionsExecuted = cache.status.actionsExecuted
                THEN status.actionsExecuted ELSE new.actionsExecuted
<1>. DEFINE f(name) == IF new[name] = cache.status[name] THEN status[name] ELSE new[name]
<1>1. DOMAIN status = {"phase", "conditions", "replicas", "current", "ready",
                       "actionsExecuted", "labelled", "hash"}
  BY DEF ResourceStatus
<1>2. status' = [phase |-> f("phase"), conditions |-> f("conditions"),
                 replicas |-> f("replicas"), current |-> f("current"),
                 ready |-> f("ready"), actionsExecuted |-> f("actionsExecuted"),
                 labelled |-> f("labelled"), hash |-> f("hash")]
  <2>1. status' = [name \in DOMAIN status |-> f(name)]
    BY DEF MergePatch
  <2>. HIDE DEF f
  <2>. QED
    BY <1>1, <2>1
<1>3. /\ f("phase") \in Phases \cup {""}
      /\ f("conditions") \in [Phases -> {"None", "True", "False"}]
      /\ f("replicas") \in 0 .. MaxReplicas
      /\ f("current") \in 0 .. MaxReplicas
      /\ f("ready") \in 0 .. MaxReplicas
      /\ f("actionsExecuted") \in BOOLEAN
      /\ f("labelled") \in BOOLEAN
      /\ f("hash") \in 0 .. MaxEdits + 1
  BY DEF ResourceStatus
<1>4. /\ f("phase") = IF new.phase = cache.status.phase THEN status.phase ELSE new.phase
      /\ f("conditions") = IF new.conditions = cache.status.conditions
                           THEN status.conditions ELSE new.conditions
      /\ f("actionsExecuted") = IF new.actionsExecuted = cache.status.actionsExecuted
                                THEN status.actionsExecuted ELSE new.actionsExecuted
  OBVIOUS
<1>. HIDE DEF f
<1>. QED
  BY <1>2, <1>3, <1>4 DEF ResourceStatus

\* WritePhase: the phase is the new one, or a patch has been built from a status that
\* had that phase, and the actions are not touched.
LEMMA WritePhaseLemma ==
    ASSUME status \in ResourceStatus, cache.status \in ResourceStatus,
           cache.spec \in ResourceSpec, NEW phase \in Phases, WritePhase(phase)
    PROVE  /\ status' \in ResourceStatus
           /\ status'.actionsExecuted = status.actionsExecuted
           /\ status'.phase \in {phase, status.phase}
           /\ SamePhase(cache.status, status) /\ OwnsConditions(cache.status)
                /\ OwnsConditions(status) => OwnsConditions(status')
<1>. DEFINE new == SetCondition(cache.status, cache.spec.replicas, phase)
<1>1. /\ new \in ResourceStatus
      /\ new.phase = phase
      /\ new.actionsExecuted = cache.status.actionsExecuted
      /\ OwnsConditions(cache.status) => OwnsConditions(new)
  BY SetConditionLemma DEF ResourceSpec
<1>2. status' = status \/ MergePatch(new)
  BY DEF WritePhase
<1>. HIDE DEF new
<1>3. CASE MergePatch(new)
  <2>1. /\ status' \in ResourceStatus
        /\ status'.actionsExecuted = status.actionsExecuted
        /\ status'.phase \in {phase, status.phase}
    BY <1>1, <1>3, MergePatchLemma
  <2>2. ASSUME SamePhase(cache.status, status)
        PROVE  status'.phase = phase /\ status'.conditions = new.conditions
    BY <1>1, <1>3, <2>2, MergePatchLemma DEF SamePhase, Phases, Transient
  <2>. QED
    BY <1>1, <2>1, <2>2 DEF OwnsConditions
<1>. QED
  BY <1>2, <1>3

LEMMA NewStatefulSetTypes ==
    /\ NoStatefulSet \in StatefulSet
    /\ ~NoStatefulSet.exists /\ NoStatefulSet.ready = 0
    /\ \A r \in ResourceSpec \cup StatefulSet :
         /\ NewStatefulSet(r) \in StatefulSet
         /\ NewStatefulSet(r).exists
         /\ NewStatefulSet(r).replicas = r.replicas
         /\ NewStatefulSet(r).ready = 0
<1>1. 0 \in 0 .. MaxReplicas /\ 1 \in 1 .. MaxEdits + 1
  BY Bounds
<1>. QED
  BY <1>1 DEF NoStatefulSet, NewStatefulSet, StatefulSet, ResourceSpec

-----------------------------------------------------------------------------
(***************************************************************************)
(* Types.                                                                  *)
(***************************************************************************)
\* Every edit has a generation of its own.
TypeInv == TypeOK /\ spec.gen = edits + 1

LEMMA TypeStep ==
    ASSUME TypeInv, [Next]_vars
    PROVE  TypeInv'
<1>. USE Bounds DEF TypeInv, TypeOK, Step, errors
<1>1. ASSUME NEW n \in 0 .. MaxReplicas, NEW t \in BOOLEAN, Edit(n, t) PROVE TypeInv'
  <2>1. edits + 1 \in 0 .. MaxEdits /\ spec.gen + 1 \in 1 .. MaxEdits + 1
    BY <1>1 DEF Edit
  <2>2. spec'.gen = edits' + 1 /\ spec' \in ResourceSpec
    BY <1>1, <2>1 DEF Edit, ResourceSpec
  <2>. QED
    BY <1>1, <2>1, <2>2 DEF Edit
<1>2. CASE QuorumIsMet
  BY <1>2 DEF QuorumIsMet
<1>3. CASE ResourceEvent
  BY <1>3 DEF ResourceEvent, Controllers
<1>4. CASE StatefulSetEvent
  BY <1>4, NewStatefulSetTypes DEF StatefulSetEvent, Controllers
<1>5. ASSUME NEW c \in Controllers, BeginReconcile(c) PROVE TypeInv'
  BY <1>5 DEF BeginReconcile, ResourceSpec, Controllers
<1>6. CASE InitializePhase
  <2>1. [cache.status EXCEPT !.phase = "Initialized"] \in ResourceStatus
    BY DEF ResourceStatus, Phases, Transient
  <2>2. status' \in ResourceStatus
    BY <1>6, <2>1, MergePatchLemma DEF InitializePhase
  <2>. QED
    BY <1>6, <2>2 DEF InitializePhase, GoTo
<1>7. CASE StopStatefulSet
  <2>1. [cache.status EXCEPT !.actionsExecuted = FALSE] \in ResourceStatus
    BY DEF ResourceStatus, Phases, Transient
  <2>2. status' \in ResourceStatus
    BY <1>7, <2>1, MergePatchLemma DEF StopStatefulSet, MayStop
  <2>. QED
    BY <1>7, <2>2 DEF StopStatefulSet, MayStop, GoTo
<1>8. CASE DeleteStatefulSet
  BY <1>8, NewStatefulSetTypes DEF DeleteStatefulSet, GoTo
<1>9. CASE NothingToReconcile
  BY <1>9 DEF NothingToReconcile, GoTo
<1>10. CASE WaitForQuorum
  <2>1. "Waiting" \in Phases
    BY DEF Phases, Transient
  <2>2. status' \in ResourceStatus
    BY <1>10, <2>1, WritePhaseLemma DEF WaitForQuorum
  <2>. QED
    BY <1>10, <2>2 DEF WaitForQuorum, MayCreate, GoToAndRequeue, Requeue
<1>11. CASE CreateStatefulSet
  BY <1>11, NewStatefulSetTypes
     DEF CreateStatefulSet, MayCreate, GoTo, Fails, GoToAndRequeue, Requeue
<1>12. CASE Created
  <2>1. "Created" \in Phases
    BY DEF Phases, Transient
  <2>2. status' \in ResourceStatus
    BY <1>12, <2>1, WritePhaseLemma DEF Created
  <2>. QED
    BY <1>12, <2>2 DEF Created, GoTo
<1>13. CASE BeginScaling
  <2>1. "Scaling" \in Phases
    BY DEF Phases, Transient
  <2>2. status' \in ResourceStatus
    BY <1>13, <2>1, WritePhaseLemma DEF BeginScaling
  <2>. QED
    BY <1>13, <2>2 DEF BeginScaling, MayScale, MayUpdate, GoTo
<1>14. CASE Scale
  <2>1. [sts EXCEPT !.replicas = stored.replicas] \in StatefulSet
    BY Bounds DEF StatefulSet, ResourceSpec
  <2>. QED
    BY <1>14, <2>1 DEF Scale, Fails, GoToAndRequeue, Requeue
<1>15. CASE BeginUpgrade
  <2>1. "RollingUpgrade" \in Phases
    BY DEF Phases, Transient
  <2>2. status' \in ResourceStatus
    BY <1>15, <2>1, WritePhaseLemma DEF BeginUpgrade
  <2>. QED
    BY <1>15, <2>2 DEF BeginUpgrade, MayUpgrade, MayUpdate, GoTo
<1>16. CASE Upgrade
  <2>1. [sts EXCEPT !.gen = stored.gen, !.rev = stored.rev] \in StatefulSet
    BY Bounds DEF StatefulSet, ResourceSpec
  <2>. QED
    BY <1>16, <2>1 DEF Upgrade, GoTo, Fails, GoToAndRequeue, Requeue
<1>17. CASE NothingToUpdate
  BY <1>17 DEF NothingToUpdate, MayUpdate, GoTo
<1>18. CASE ReportStatus
  <2>1. Update(status, spec.replicas, cache.sts) \in ResourceStatus
    BY UpdateLemma DEF ResourceSpec
  <2>2. status' \in ResourceStatus
    BY <1>18, <2>1 DEF ReportStatus
  <2>. QED
    BY <1>18, <2>2 DEF ReportStatus, GoTo, Fails, GoToAndRequeue, Requeue
<1>19. CASE ExecActions
  BY <1>19 DEF ExecActions, GoTo
<1>20. CASE RecordActions
  <2>1. [cache.status EXCEPT !.actionsExecuted = TRUE] \in ResourceStatus
    BY DEF ResourceStatus, Phases, Transient
  <2>2. status' \in ResourceStatus
    BY <1>20, <2>1, MergePatchLemma DEF RecordActions
  <2>. QED
    BY <1>20, <2>2 DEF RecordActions, GoTo
<1>21. CASE FinishReconcile
  <2>1. [cache.status EXCEPT !.phase = "Stopped"] \in ResourceStatus
    BY DEF ResourceStatus, Phases, Transient
  <2>2. status' \in ResourceStatus
    BY <1>21, <2>1, MergePatchLemma DEF FinishReconcile, MustStop
  <2>. QED
    BY <1>21, <2>2 DEF FinishReconcile, MustStop, GoTo
<1>22. CASE RecordHash
  <2>1. [cache.status EXCEPT !.hash = stored.gen] \in ResourceStatus
    <3>1. stored.gen \in 0 .. MaxEdits + 1
      BY Bounds DEF ResourceSpec
    <3>. QED
      BY <3>1 DEF ResourceStatus
  <2>2. status' \in ResourceStatus
    BY <1>22, <2>1, MergePatchLemma DEF RecordHash
  <2>. QED
    BY <1>22, <2>2 DEF RecordHash, GoTo
<1>23. CASE SuspendFails
  BY <1>23 DEF SuspendFails, Fails, GoToAndRequeue, Requeue, Faulty
<1>24. CASE DeleteFails
  BY <1>24 DEF DeleteFails, GoTo, Faulty
<1>25. CASE ProbeFails
  BY <1>25 DEF ProbeFails, MayUpgrade, MayUpdate, GoToAndRequeue, Requeue, Faulty
<1>26. CASE WriteFails
  BY <1>26 DEF WriteFails, Fails, GoToAndRequeue, Requeue, NotRecorded, Faulty
<1>27. CASE OperatorRestarts
  <2>1. cache' = Live /\ op' = [op EXCEPT !.step = "idle"] /\ queue' = {"coherence"}
    BY <1>27 DEF OperatorRestarts
  <2>2. /\ cache' \in [spec: ResourceSpec, status: ResourceStatus, sts: StatefulSet]
        /\ op' \in [step: Step, who: Controllers, replicas: 0 .. MaxReplicas]
        /\ queue' \in SUBSET Controllers
    BY <2>1 DEF Live, Controllers
  <2>3. faults' \in 0 .. MaxFaults /\ life' \in {"starting", "up", "acted"}
    BY <1>27 DEF OperatorRestarts, NotRecorded, Faulty
  <2>. QED
    BY <1>27, <2>2, <2>3 DEF OperatorRestarts
<1>28. CASE StsSeesTemplate
  <2>1. PICK ready \in {sts.ready, sts.ready - 1} \cap Nat :
            SetSts([sts EXCEPT !.updateRevision = sts.rev, !.ready = ready])
    BY <1>28 DEF StsSeesTemplate
  <2>2. ready \in 0 .. MaxReplicas
    BY Bounds DEF StatefulSet
  <2>3. sts' \in StatefulSet
    BY <2>1, <2>2 DEF SetSts, StatefulSet
  <2>. QED
    BY <1>28, <2>1, <2>3 DEF StsSeesTemplate, SetSts
<1>29. CASE StsCountsPods
  <2>. DEFINE ready == IF sts.ready > sts.replicas THEN sts.replicas ELSE sts.ready
  <2>1. ready \in 0 .. MaxReplicas
    BY Bounds DEF StatefulSet
  <2>2. sts' = [sts EXCEPT !.current = sts.replicas, !.ready = ready]
    BY <1>29 DEF StsCountsPods, SetSts
  <2>. HIDE DEF ready
  <2>3. sts' \in StatefulSet
    BY <2>1, <2>2 DEF StatefulSet
  <2>. QED
    BY <1>29, <2>3 DEF StsCountsPods, SetSts
<1>30. CASE PodIsReady
  <2>1. sts.ready + 1 \in 0 .. MaxReplicas
    BY <1>30, Bounds DEF PodIsReady, StatefulSet
  <2>2. sts' \in StatefulSet
    BY <1>30, <2>1 DEF PodIsReady, SetSts, StatefulSet
  <2>. QED
    BY <1>30, <2>2 DEF PodIsReady, SetSts
<1>31. CASE StsHasRolled
  <2>1. [sts EXCEPT !.currentRevision = sts.updateRevision] \in StatefulSet
    BY Bounds DEF StatefulSet
  <2>. QED
    BY <1>31, <2>1 DEF StsHasRolled, SetSts
<1>32. CASE PodFails
  <2>1. sts.ready - 1 \in 0 .. MaxReplicas
    BY <1>32, Bounds DEF PodFails, StatefulSet
  <2>2. sts' \in StatefulSet
    BY <1>32, <2>1 DEF PodFails, SetSts, StatefulSet
  <2>3. faults' \in 0 .. MaxFaults
    BY <1>32 DEF PodFails, Faulty
  <2>. QED
    BY <1>32, <2>2, <2>3 DEF PodFails, SetSts
<1>33. CASE UNCHANGED vars
  BY <1>33 DEF vars
<1>34. CASE RefusePatch
  BY <1>34 DEF RefusePatch, Fails, GoTo, GoToAndRequeue, Requeue, Faulty
<1>35. CASE UpdateErrorTracking
  BY <1>35 DEF UpdateErrorTracking, OldVersion, GoTo
<1>36. CASE MarkFailed
  <2>1. SetCondition(cache.status, cache.spec.replicas, "Failed") \in ResourceStatus
    BY SetConditionLemma DEF ResourceSpec, Phases
  <2>2. status' \in ResourceStatus
    BY <1>36, <2>1 DEF MarkFailed
  <2>. QED
    BY <1>36, <2>2 DEF MarkFailed, GoTo
<1>37. CASE WriteIsSkipped
  BY <1>37 DEF WriteIsSkipped, GoTo, GoToAndRequeue, Requeue, Faulty
<1>. QED
  BY <1>1, <1>2, <1>3, <1>4, <1>5, <1>6, <1>7, <1>8, <1>9, <1>10, <1>11, <1>12,
     <1>13, <1>14, <1>15, <1>16, <1>17, <1>18, <1>19, <1>20, <1>21, <1>22, <1>23,
     <1>24, <1>25, <1>26, <1>27, <1>28, <1>29, <1>30, <1>31, <1>32, <1>33, <1>34,
     <1>35, <1>36, <1>37
     DEF Next, Reconcile, StsController

-----------------------------------------------------------------------------
(***************************************************************************)
(* The steps keep the invariants.                                          *)
(***************************************************************************)
LEMMA BeginLemma ==
    ASSUME Orderly, TypeInv, NEW c \in Controllers, BeginReconcile(c)
    PROVE  /\ op.step = "idle"
           /\ cache.spec = spec
           /\ cache.status = status
           /\ cache.sts = sts
           /\ op'.step = IF c = "coherence" /\ status.phase = "" THEN "init" ELSE "sts"
           /\ op'.replicas = spec.replicas
           /\ op'.who = c
           /\ stored' = IF c = "coherence" THEN spec ELSE stored
           /\ UNCHANGED <<spec, status, sts, cache, life>>
<1>1. cache = Live
  BY DEF Orderly, BeginReconcile, Fresh
<1>2. cache.spec = spec /\ cache.status = status /\ cache.sts = sts
  BY <1>1 DEF Live
<1>. QED
  BY <1>2 DEF BeginReconcile

LEMMA EditLemma ==
    ASSUME Orderly, TypeInv, NEW n \in 0 .. MaxReplicas, NEW t \in BOOLEAN, Edit(n, t)
    PROVE  /\ op.step = "idle"
           /\ queue = {}
           /\ cache.status = status
           /\ cache.sts = sts
           /\ sts.exists = (spec.replicas > 0)
           /\ sts.exists => sts.ready = spec.replicas
           /\ spec'.replicas = n
           /\ UNCHANGED <<status, sts, cache, stored, op, queue, life>>
<1>1. Settled
  BY DEF Orderly, Edit
<1>2. cache.status = status /\ cache.sts = sts
  BY <1>1 DEF Settled, Fresh, Live
<1>. QED
  BY <1>1, <1>2 DEF Settled, Edit

LEMMA StatusTypes ==
    ASSUME TypeInv
    PROVE  /\ status \in ResourceStatus
           /\ cache.status \in ResourceStatus
           /\ cache.spec \in ResourceSpec
           /\ cache.sts \in StatefulSet
           /\ 0 \in 0 .. MaxReplicas
           /\ spec.replicas \in 0 .. MaxReplicas
           /\ cache.spec.replicas \in 0 .. MaxReplicas
           /\ stored.gen \in 0 .. MaxEdits + 1
BY Bounds DEF TypeInv, TypeOK, ResourceSpec

LEMMA Numbers ==
    ASSUME TypeInv
    PROVE  /\ spec.replicas \in Nat
           /\ sts.ready \in Nat /\ sts.replicas \in Nat /\ sts.current \in Nat
           /\ cache.sts.ready \in Nat
           /\ spec \in ResourceSpec /\ stored \in ResourceSpec /\ sts \in StatefulSet
BY Bounds DEF TypeInv, TypeOK, ResourceSpec, StatefulSet

\* The patches of one field.
LEMMA PatchPhase ==
    ASSUME TypeInv, NEW phase \in Phases, MergePatch([cache.status EXCEPT !.phase = phase])
    PROVE  /\ status'.phase = IF phase = cache.status.phase THEN status.phase ELSE phase
           /\ status'.conditions = status.conditions
           /\ status'.actionsExecuted = status.actionsExecuted
<1>. DEFINE new == [cache.status EXCEPT !.phase = phase]
<1>1. /\ new \in ResourceStatus
      /\ new.phase = phase
      /\ new.conditions = cache.status.conditions
      /\ new.actionsExecuted = cache.status.actionsExecuted
  BY StatusTypes DEF ResourceStatus
<1>2. MergePatch(new)
  OBVIOUS
<1>. HIDE DEF new
<1>. QED
  BY <1>1, <1>2, StatusTypes, MergePatchLemma

LEMMA PatchActions ==
    ASSUME TypeInv, NEW b \in BOOLEAN,
           MergePatch([cache.status EXCEPT !.actionsExecuted = b])
    PROVE  /\ status'.phase = status.phase
           /\ status'.conditions = status.conditions
           /\ status'.actionsExecuted =
                IF b = cache.status.actionsExecuted THEN status.actionsExecuted ELSE b
<1>. DEFINE new == [cache.status EXCEPT !.actionsExecuted = b]
<1>1. /\ new \in ResourceStatus
      /\ new.phase = cache.status.phase
      /\ new.conditions = cache.status.conditions
      /\ new.actionsExecuted = b
  BY StatusTypes DEF ResourceStatus
<1>2. MergePatch(new)
  OBVIOUS
<1>. HIDE DEF new
<1>. QED
  BY <1>1, <1>2, StatusTypes, MergePatchLemma

LEMMA PatchHash ==
    ASSUME TypeInv, MergePatch([cache.status EXCEPT !.hash = stored.gen])
    PROVE  /\ status'.phase = status.phase
           /\ status'.conditions = status.conditions
           /\ status'.actionsExecuted = status.actionsExecuted
<1>. DEFINE new == [cache.status EXCEPT !.hash = stored.gen]
<1>1. /\ new \in ResourceStatus
      /\ new.phase = cache.status.phase
      /\ new.conditions = cache.status.conditions
      /\ new.actionsExecuted = cache.status.actionsExecuted
  BY StatusTypes DEF ResourceStatus
<1>2. MergePatch(new)
  OBVIOUS
<1>. HIDE DEF new
<1>. QED
  BY <1>1, <1>2, StatusTypes, MergePatchLemma

\* A StatefulSet goes only when there are to be no replicas, and no user edits
\* while a reconcile is at work.
LEMMA ReadsStep ==
    ASSUME Orderly, TypeInv, ReadsInv, [Next]_vars
    PROVE  ReadsInv'
<1>. USE DEF Orderly, TypeInv, TypeOK, ReadsInv
<1>1. ASSUME NEW n \in 0 .. MaxReplicas, NEW t \in BOOLEAN, Edit(n, t) PROVE ReadsInv'
  BY <1>1, EditLemma DEF Edit
<1>2. CASE QuorumIsMet
  BY <1>2 DEF QuorumIsMet
<1>3. CASE ResourceEvent
  BY <1>3 DEF ResourceEvent
<1>4. CASE StatefulSetEvent
  BY <1>4, NewStatefulSetTypes DEF StatefulSetEvent
<1>5. ASSUME NEW c \in Controllers, BeginReconcile(c) PROVE ReadsInv'
  BY <1>5, BeginLemma
<1>6. CASE InitializePhase
  BY <1>6 DEF InitializePhase, GoTo
<1>7. CASE StopStatefulSet
  BY <1>7 DEF StopStatefulSet, MayStop, GoTo
<1>8. CASE DeleteStatefulSet
  BY <1>8, NewStatefulSetTypes DEF DeleteStatefulSet, GoTo
<1>9. CASE NothingToReconcile
  BY <1>9 DEF NothingToReconcile, GoTo
<1>10. CASE WaitForQuorum
  BY <1>10 DEF WaitForQuorum, MayCreate, GoToAndRequeue, Requeue
<1>11. CASE CreateStatefulSet
  BY <1>11, NewStatefulSetTypes
     DEF CreateStatefulSet, MayCreate, GoTo, Fails, GoToAndRequeue, Requeue
<1>12. CASE Created
  BY <1>12 DEF Created, GoTo
<1>13. CASE BeginScaling
  BY <1>13 DEF BeginScaling, MayScale, MayUpdate, GoTo
<1>14. CASE Scale
  BY <1>14 DEF Scale, Fails, GoToAndRequeue, Requeue, StatefulSet
<1>15. CASE BeginUpgrade
  BY <1>15 DEF BeginUpgrade, MayUpgrade, MayUpdate, GoTo
<1>16. CASE Upgrade
  BY <1>16 DEF Upgrade, GoTo, Fails, GoToAndRequeue, Requeue, StatefulSet
<1>17. CASE NothingToUpdate
  BY <1>17 DEF NothingToUpdate, MayUpdate, GoTo
<1>18. CASE ReportStatus
  BY <1>18 DEF ReportStatus, GoTo, Fails, GoToAndRequeue, Requeue, ActionsDue
<1>19. CASE ExecActions
  BY <1>19 DEF ExecActions, GoTo
<1>20. CASE RecordActions
  BY <1>20 DEF RecordActions, GoTo
<1>21. CASE FinishReconcile
  BY <1>21 DEF FinishReconcile, MustStop, GoTo
<1>22. CASE RecordHash
  BY <1>22 DEF RecordHash, GoTo
<1>23. CASE SuspendFails
  BY <1>23 DEF SuspendFails, Fails, GoToAndRequeue, Requeue, Faulty
<1>24. CASE DeleteFails
  BY <1>24 DEF DeleteFails, GoTo, Faulty
<1>25. CASE ProbeFails
  BY <1>25 DEF ProbeFails, MayUpgrade, MayUpdate, GoToAndRequeue, Requeue, Faulty
<1>26. CASE WriteFails
  BY <1>26 DEF WriteFails, Fails, GoToAndRequeue, Requeue, NotRecorded, Faulty
<1>27. CASE OperatorRestarts
  BY <1>27 DEF OperatorRestarts, Live, NotRecorded, Faulty
<1>28. CASE StsSeesTemplate
  BY <1>28 DEF StsSeesTemplate, SetSts
<1>29. CASE StsCountsPods
  BY <1>29 DEF StsCountsPods, SetSts
<1>30. CASE PodIsReady
  BY <1>30 DEF PodIsReady, SetSts
<1>31. CASE StsHasRolled
  BY <1>31 DEF StsHasRolled, SetSts
<1>32. CASE PodFails
  BY <1>32 DEF PodFails, SetSts, Faulty
<1>33. CASE UNCHANGED vars
  BY <1>33 DEF vars
<1>34. CASE RefusePatch
  BY <1>34 DEF RefusePatch, Fails, GoTo, GoToAndRequeue, Requeue
<1>35. CASE UpdateErrorTracking
  BY <1>35 DEF UpdateErrorTracking, GoTo
<1>36. CASE MarkFailed
  BY <1>36 DEF MarkFailed, GoTo
<1>37. CASE WriteIsSkipped
  BY <1>37 DEF WriteIsSkipped, MayStop, MayCreate, MayScale, MayUpgrade, MayUpdate, GoTo,
               GoToAndRequeue, Requeue
<1>. QED
  BY <1>1, <1>2, <1>3, <1>4, <1>5, <1>6, <1>7, <1>8, <1>9, <1>10, <1>11, <1>12,
     <1>13, <1>14, <1>15, <1>16, <1>17, <1>18, <1>19, <1>20, <1>21, <1>22, <1>23,
     <1>24, <1>25, <1>26, <1>27, <1>28, <1>29, <1>30, <1>31, <1>32, <1>33, <1>34,
     <1>35, <1>36, <1>37
     DEF Next, Reconcile, StsController

\* A phase is written together with its conditions, or, by InitializePhase and
\* FinishReconcile, in place of one that has none.
LEMMA PhaseStep ==
    ASSUME Orderly, TypeInv, ReadsInv, PhaseInv, [Next]_vars
    PROVE  PhaseInv'
<1>. USE DEF TypeInv, TypeOK, ReadsInv, PhaseInv
<1>1. ASSUME NEW n \in 0 .. MaxReplicas, NEW t \in BOOLEAN, Edit(n, t) PROVE PhaseInv'
  BY <1>1, EditLemma
<1>2. CASE QuorumIsMet
  BY <1>2 DEF QuorumIsMet
<1>3. CASE ResourceEvent
  BY <1>3 DEF ResourceEvent, SamePhase
<1>4. CASE StatefulSetEvent
  BY <1>4 DEF StatefulSetEvent
<1>5. ASSUME NEW c \in Controllers, BeginReconcile(c) PROVE PhaseInv'
  BY <1>5, BeginLemma DEF SamePhase
<1>6. CASE InitializePhase
  <2>1. /\ status'.phase = "Initialized"
        /\ status'.conditions = status.conditions
        /\ status.phase = ""
        /\ cache.status = status
    <3>1. "Initialized" \in Phases
      BY DEF Phases
    <3>. QED
      BY <1>6, <3>1, PatchPhase DEF InitializePhase
  <2>2. UNCHANGED cache /\ op'.step = "sts"
    BY <1>6 DEF InitializePhase, GoTo
  <2>3. OwnsConditions(status')
    BY <2>1 DEF OwnsConditions, Transient
  <2>. QED
    BY <2>1, <2>2, <2>3 DEF SamePhase
<1>7. CASE StopStatefulSet
  <2>1. status'.phase = status.phase /\ status'.conditions = status.conditions
    BY <1>7, PatchActions DEF StopStatefulSet, MayStop
  <2>. QED
    BY <1>7, <2>1 DEF StopStatefulSet, MayStop, GoTo, SamePhase, OwnsConditions
<1>8. CASE DeleteStatefulSet
  BY <1>8 DEF DeleteStatefulSet, GoTo
<1>9. CASE NothingToReconcile
  BY <1>9 DEF NothingToReconcile, GoTo
<1>10. CASE WaitForQuorum
  <2>1. "Waiting" \in Phases
    BY DEF Phases, Transient
  <2>2. SamePhase(cache.status, status) /\ WritePhase("Waiting") /\ op.replicas # 0
    BY <1>10 DEF WaitForQuorum, MayCreate, GoToAndRequeue, Requeue
  <2>3. OwnsConditions(status')
    BY <2>1, <2>2, WritePhaseLemma
  <2>. QED
    BY <1>10, <2>2, <2>3 DEF WaitForQuorum, MayCreate, GoToAndRequeue, Requeue
<1>11. CASE CreateStatefulSet
  BY <1>11 DEF CreateStatefulSet, MayCreate, GoTo, Fails, GoToAndRequeue, Requeue
<1>12. CASE Created
  <2>1. "Created" \in Phases
    BY DEF Phases, Transient
  <2>2. SamePhase(cache.status, status) /\ WritePhase("Created") /\ op.replicas # 0
    BY <1>12 DEF Created, GoTo
  <2>3. OwnsConditions(status')
    BY <2>1, <2>2, WritePhaseLemma
  <2>. QED
    BY <1>12, <2>2, <2>3 DEF Created, GoTo
<1>13. CASE BeginScaling
  <2>1. "Scaling" \in Phases
    BY DEF Phases, Transient
  <2>2. SamePhase(cache.status, status) /\ WritePhase("Scaling") /\ op.replicas # 0
    BY <1>13 DEF BeginScaling, MayScale, MayUpdate, GoTo
  <2>3. OwnsConditions(status')
    BY <2>1, <2>2, WritePhaseLemma
  <2>. QED
    BY <1>13, <2>2, <2>3 DEF BeginScaling, MayScale, MayUpdate, GoTo
<1>14. CASE Scale
  BY <1>14 DEF Scale, Fails, GoToAndRequeue, Requeue
<1>15. CASE BeginUpgrade
  <2>1. "RollingUpgrade" \in Phases
    BY DEF Phases, Transient
  <2>2. SamePhase(cache.status, status) /\ WritePhase("RollingUpgrade") /\ op.replicas # 0
    BY <1>15 DEF BeginUpgrade, MayUpgrade, MayUpdate, GoTo
  <2>3. OwnsConditions(status')
    BY <2>1, <2>2, WritePhaseLemma
  <2>. QED
    BY <1>15, <2>2, <2>3 DEF BeginUpgrade, MayUpgrade, MayUpdate, GoTo
<1>16. CASE Upgrade
  BY <1>16 DEF Upgrade, GoTo, Fails, GoToAndRequeue, Requeue
<1>17. CASE NothingToUpdate
  BY <1>17 DEF NothingToUpdate, MayUpdate, GoTo
<1>18. CASE ReportStatus
  <2>1. /\ UNCHANGED cache
        /\ op'.step \in {"idle", "actions", "stopped"}
        /\ op'.replicas = op.replicas
    BY <1>18 DEF ReportStatus, GoTo, Fails, GoToAndRequeue
  <2>2. \/ status' = status /\ op'.step = "idle"
        \/ status' = status /\ ~UpdateFlag(cache.status, cache.spec.replicas, cache.sts)
        \/ status' = Update(status, spec.replicas, cache.sts)
    BY <1>18 DEF ReportStatus, MustReport, Fails, GoToAndRequeue
  <2>3. OwnsConditions(status')
    <3>1. OwnsConditions(status) /\ OwnsConditions(Update(status, spec.replicas, cache.sts))
      BY StatusTypes, UpdateLemma
    <3>2. CASE status' = status
      BY <3>1, <3>2 DEF OwnsConditions
    <3>3. CASE status' = Update(status, spec.replicas, cache.sts)
      BY <3>1, <3>3 DEF OwnsConditions
    <3>. QED
      BY <2>2, <3>2, <3>3
  <2>4. cache.spec.replicas = op.replicas /\ spec.replicas = op.replicas
    BY <1>18 DEF ReportStatus
  <2>5. op.replicas = 0 => SamePhase(cache.status, status)
    BY <1>18 DEF ReportStatus
  <2>6. ASSUME op.replicas = 0, op'.step = "stopped"
        PROVE  status'.phase = "Stopped"
    <3>1. CASE status' = status /\ ~UpdateFlag(cache.status, 0, cache.sts)
      BY <2>5, <2>6, <3>1, NothingToWrite DEF SamePhase
    <3>2. CASE status' = Update(status, 0, cache.sts)
      BY <3>2, StatusTypes, UpdateLemma
    <3>. QED
      BY <2>2, <2>4, <2>6, <3>1, <3>2
  <2>. QED
    BY <2>1, <2>3, <2>6
<1>19. CASE ExecActions
  BY <1>19 DEF ExecActions, GoTo
<1>20. CASE RecordActions
  <2>1. status'.phase = status.phase /\ status'.conditions = status.conditions
    BY <1>20, PatchActions DEF RecordActions
  <2>. QED
    BY <1>20, <2>1 DEF RecordActions, GoTo, SamePhase, OwnsConditions
<1>21. CASE FinishReconcile
  <2>1. UNCHANGED cache /\ op'.step \in {"hash", "idle"}
    BY <1>21 DEF FinishReconcile, MustStop, GoTo
  <2>2. CASE UNCHANGED status
    BY <2>1, <2>2
  <2>3. CASE op.replicas = 0 /\ MergePatch([cache.status EXCEPT !.phase = "Stopped"])
    <3>1. "Stopped" \in Phases /\ status.phase = "Stopped"
      BY <1>21, <2>3 DEF FinishReconcile, MustStop, Phases, Transient
    <3>2. status'.phase = "Stopped" /\ status'.conditions = status.conditions
      BY <2>3, <3>1, PatchPhase
    <3>. QED
      BY <2>1, <3>1, <3>2 DEF OwnsConditions
  <2>. QED
    BY <1>21, <2>2, <2>3 DEF FinishReconcile, MustStop
<1>22. CASE RecordHash
  <2>1. status'.phase = status.phase /\ status'.conditions = status.conditions
    BY <1>22, PatchHash DEF RecordHash
  <2>. QED
    BY <1>22, <2>1 DEF RecordHash, GoTo, SamePhase, OwnsConditions
<1>23. CASE SuspendFails
  BY <1>23 DEF SuspendFails, Fails, GoToAndRequeue, Requeue, Faulty
<1>24. CASE DeleteFails
  BY <1>24 DEF DeleteFails, GoTo, Faulty
<1>25. CASE ProbeFails
  BY <1>25 DEF ProbeFails, MayUpgrade, MayUpdate, GoToAndRequeue, Requeue, Faulty
<1>26. CASE WriteFails
  BY <1>26 DEF WriteFails, Fails, GoToAndRequeue, Requeue, NotRecorded, Faulty
<1>27. CASE OperatorRestarts
  BY <1>27 DEF OperatorRestarts, Live, NotRecorded, Faulty
<1>28. CASE StsSeesTemplate
  BY <1>28 DEF StsSeesTemplate, SetSts
<1>29. CASE StsCountsPods
  BY <1>29 DEF StsCountsPods, SetSts
<1>30. CASE PodIsReady
  BY <1>30 DEF PodIsReady, SetSts
<1>31. CASE StsHasRolled
  BY <1>31 DEF StsHasRolled, SetSts
<1>32. CASE PodFails
  BY <1>32 DEF PodFails, SetSts, Faulty
<1>33. CASE UNCHANGED vars
  BY <1>33 DEF vars
<1>34. CASE RefusePatch
  BY <1>34 DEF RefusePatch, Fails, GoTo, GoToAndRequeue, Requeue
<1>35. CASE UpdateErrorTracking
  BY <1>35 DEF UpdateErrorTracking, GoTo
<1>36. CASE MarkFailed
  <2>1. OwnsConditions(SetCondition(cache.status, cache.spec.replicas, "Failed"))
    BY SetConditionLemma DEF ResourceSpec, Phases
  <2>2. OwnsConditions(status')
    BY <1>36, <2>1 DEF MarkFailed, OwnsConditions
  <2>. QED
    BY <1>36, <2>2 DEF MarkFailed, GoTo
<1>37. CASE WriteIsSkipped
  BY <1>37 DEF WriteIsSkipped, MayStop, MayCreate, MayScale, MayUpgrade, MayUpdate, GoTo,
               GoToAndRequeue, Requeue
<1>. QED
  BY <1>1, <1>2, <1>3, <1>4, <1>5, <1>6, <1>7, <1>8, <1>9, <1>10, <1>11, <1>12,
     <1>13, <1>14, <1>15, <1>16, <1>17, <1>18, <1>19, <1>20, <1>21, <1>22, <1>23,
     <1>24, <1>25, <1>26, <1>27, <1>28, <1>29, <1>30, <1>31, <1>32, <1>33, <1>34,
     <1>35, <1>36, <1>37
     DEF Next, Reconcile, StsController

\* A phase is Ready only for the Pods of this StatefulSet.
LEMMA ReadyStep ==
    ASSUME Orderly, TypeInv, ReadsInv, PhaseInv, PhaseInv', ReadyInv, [Next]_vars
    PROVE  ReadyInv'
<1>1. ASSUME NEW n \in 0 .. MaxReplicas, NEW t \in BOOLEAN, Edit(n, t) PROVE ReadyInv'
  <2>1. /\ op.step = "idle" /\ queue = {}
        /\ cache.status = status
        /\ sts.exists = (spec.replicas > 0)
        /\ sts.exists => sts.ready = spec.replicas
        /\ UNCHANGED <<status, sts, cache, stored, op, queue, life>>
    BY <1>1, EditLemma
  <2>2. spec.replicas \in Nat
    BY Numbers
  <2>3. ~(life = "starting" /\ sts.exists)
    BY <2>1, <2>2 DEF ReadyInv
  <2>4. ~sts.exists => status.phase # "Ready"
    BY <2>1 DEF ReadyInv
  <2>. QED
    BY <2>1, <2>3, <2>4 DEF ReadyInv
<1>2. CASE QuorumIsMet
  BY <1>2 DEF QuorumIsMet, TypeInv, TypeOK, ReadsInv, PhaseInv, ReadyInv
<1>3. CASE ResourceEvent
  BY <1>3 DEF ResourceEvent, TypeInv, TypeOK, ReadsInv, PhaseInv, ReadyInv
<1>4. CASE StatefulSetEvent
  <2>1. UNCHANGED <<spec, status, sts, stored, op, life>> /\ cache'.status = cache.status
    BY <1>4 DEF StatefulSetEvent, TypeInv, TypeOK
  <2>2. cache'.sts = sts \/ cache'.sts = NewStatefulSet(sts)
    BY <1>4 DEF StatefulSetEvent, TypeInv, TypeOK
  <2>3. spec.replicas # 0 => 0 < spec.replicas
    BY Numbers
  <2>4. NewStatefulSet(sts).exists /\ NewStatefulSet(sts).ready = 0
    BY Numbers, NewStatefulSetTypes
  <2>6. ~cache'.sts.exists => cache'.sts.ready = 0
    BY <2>2, <2>4 DEF ReadyInv
  <2>7. life = "starting" /\ sts.exists => cache'.sts.ready < spec.replicas
    BY <2>2, <2>3, <2>4 DEF ReadyInv
  <2>5. queue # {} => queue' # {}
    BY <1>4 DEF StatefulSetEvent
  <2>. QED
    BY <2>1, <2>5, <2>6, <2>7 DEF ReadyInv
<1>5. ASSUME NEW c \in Controllers, BeginReconcile(c) PROVE ReadyInv'
  <2>1. stored' = spec \/ stored' = stored
    BY <1>5, BeginLemma
  <2>. QED
    BY <1>5, <2>1, BeginLemma DEF ReadyInv
<1>6. CASE InitializePhase
  <2>1. "Initialized" \in Phases
    BY DEF Phases, Transient
  <2>2. status'.phase \in {"Initialized", status.phase}
    BY <1>6, <2>1, PatchPhase DEF InitializePhase
  <2>. QED
    BY <1>6, <2>2 DEF InitializePhase, GoTo, TypeInv, TypeOK, ReadsInv, ReadyInv
<1>7. CASE StopStatefulSet
  <2>1. status'.phase = status.phase
    BY <1>7, PatchActions DEF StopStatefulSet, MayStop
  <2>. QED
    BY <1>7, <2>1 DEF StopStatefulSet, MayStop, GoTo, TypeInv, TypeOK, ReadsInv, ReadyInv
<1>8. CASE DeleteStatefulSet
  BY <1>8, NewStatefulSetTypes
     DEF DeleteStatefulSet, GoTo, TypeInv, TypeOK, ReadsInv, PhaseInv, ReadyInv
<1>9. CASE NothingToReconcile
  BY <1>9
     DEF NothingToReconcile, GoTo, TypeInv, TypeOK, ReadsInv, PhaseInv, ReadyInv
<1>10. CASE WaitForQuorum
  <2>1. "Waiting" \in Phases
    BY DEF Phases, Transient
  <2>2. WritePhase("Waiting")
    BY <1>10 DEF WaitForQuorum
  <2>3. status'.phase \in {"Waiting", status.phase}
    BY <2>1, <2>2, StatusTypes, WritePhaseLemma
  <2>. QED
    BY <1>10, <2>3
       DEF WaitForQuorum, MayCreate, GoToAndRequeue, Requeue, TypeInv, TypeOK,
           ReadsInv, ReadyInv
<1>11. CASE CreateStatefulSet
  <2>1. CASE sts.exists
    BY <1>11, <2>1
       DEF CreateStatefulSet, Fails, GoToAndRequeue, Requeue, TypeInv, TypeOK,
           ReadyInv
  <2>2. CASE ~sts.exists
    <3>1. /\ ~cache.sts.exists
          /\ sts' = NewStatefulSet(stored)
          /\ life' = "starting"
          /\ op'.step = "created"
          /\ UNCHANGED <<spec, status, cache, stored, queue>>
      BY <1>11, <2>2 DEF CreateStatefulSet, MayCreate, GoTo, TypeInv, TypeOK
    <3>2. sts'.exists /\ sts'.ready = 0 /\ sts'.replicas = stored.replicas
      BY <3>1, Numbers, NewStatefulSetTypes
    <3>3. stored = spec /\ 0 < spec.replicas
      BY <1>11, Numbers DEF CreateStatefulSet, MayCreate, ReadsInv
    <3>. QED
      BY <2>2, <3>1, <3>2, <3>3 DEF ReadyInv
  <2>. QED
    BY <2>1, <2>2
<1>12. CASE Created
  <2>1. "Created" \in Phases
    BY DEF Phases, Transient
  <2>2. WritePhase("Created")
    BY <1>12 DEF Created
  <2>3. status'.phase \in {"Created", status.phase}
    BY <2>1, <2>2, StatusTypes, WritePhaseLemma
  <2>. QED
    BY <1>12, <2>3 DEF Created, GoTo, TypeInv, TypeOK, ReadsInv, ReadyInv
<1>13. CASE BeginScaling
  <2>1. "Scaling" \in Phases
    BY DEF Phases, Transient
  <2>2. WritePhase("Scaling")
    BY <1>13 DEF BeginScaling
  <2>3. status'.phase \in {"Scaling", status.phase}
    BY <2>1, <2>2, StatusTypes, WritePhaseLemma
  <2>. QED
    BY <1>13, <2>3
       DEF BeginScaling, MayScale, MayUpdate, GoTo, TypeInv, TypeOK, ReadsInv, ReadyInv
<1>14. CASE Scale
  BY <1>14
     DEF Scale, Fails, GoToAndRequeue, Requeue, StatefulSet, TypeInv, TypeOK,
         ReadsInv, PhaseInv, ReadyInv
<1>15. CASE BeginUpgrade
  <2>1. "RollingUpgrade" \in Phases
    BY DEF Phases, Transient
  <2>2. WritePhase("RollingUpgrade")
    BY <1>15 DEF BeginUpgrade
  <2>3. status'.phase \in {"RollingUpgrade", status.phase}
    BY <2>1, <2>2, StatusTypes, WritePhaseLemma
  <2>. QED
    BY <1>15, <2>3
       DEF BeginUpgrade, MayUpgrade, MayUpdate, GoTo, TypeInv, TypeOK, ReadsInv, ReadyInv
<1>16. CASE Upgrade
  BY <1>16
     DEF Upgrade, GoTo, Fails, GoToAndRequeue, Requeue, StatefulSet, TypeInv,
         TypeOK, ReadsInv, PhaseInv, ReadyInv
<1>17. CASE NothingToUpdate
  BY <1>17
     DEF NothingToUpdate, MayUpdate, GoTo, TypeInv, TypeOK, ReadsInv, PhaseInv,
         ReadyInv
<1>18. CASE ReportStatus
  <2>1. /\ op'.replicas = op.replicas
        /\ UNCHANGED <<spec, sts, cache, stored, life>>
        /\ \/ op'.step = "idle" /\ queue' # {}
           \/ op'.step = "stopped"
           \/ op'.step = "actions" /\ ActionsDue
    BY <1>18 DEF ReportStatus, GoTo, Fails, GoToAndRequeue, Requeue, TypeInv, TypeOK
  <2>2. status' = status \/ status' = Update(status, spec.replicas, cache.sts)
    BY <1>18 DEF ReportStatus
  <2>3. op.replicas = spec.replicas /\ (spec.replicas # 0 /\ cache.sts.exists => sts.exists)
    BY <1>18 DEF ReportStatus, ReadsInv
  <2>4. /\ spec.replicas = 0 => Update(status, spec.replicas, cache.sts).phase = "Stopped"
        /\ Update(status, spec.replicas, cache.sts).phase = "Ready" =>
             status.phase = "Ready" \/ (cache.sts.exists /\ cache.sts.ready = spec.replicas)
    BY StatusTypes, UpdateLemma
  <2>5. op'.step = "actions" => life # "starting" /\ spec.replicas # 0
    BY <2>1, <2>3 DEF ActionsDue, ReadyInv
  <2>6. spec.replicas = 0 /\ op'.step = "stopped" => status'.phase = "Stopped"
    BY <2>1, <2>3 DEF PhaseInv
  <2>7. ASSUME life = "starting", sts.exists PROVE status'.phase # "Ready"
    BY <2>2, <2>4, <2>7, Numbers DEF ReadyInv
  <2>8. ASSUME ~sts.exists, status'.phase = "Ready"
        PROVE  spec.replicas = 0 /\ op'.step = "idle" /\ queue' # {}
    <3>1. spec.replicas = 0
      BY <2>2, <2>3, <2>4, <2>8 DEF ReadyInv
    <3>. QED
      BY <2>1, <2>5, <2>6, <2>8, <3>1
  <2>. QED
    BY <2>1, <2>5, <2>7, <2>8 DEF ReadyInv
<1>19. CASE ExecActions
  BY <1>19 DEF ExecActions, GoTo, TypeInv, TypeOK, ReadsInv, PhaseInv, ReadyInv
<1>20. CASE RecordActions
  <2>1. status'.phase = status.phase
    BY <1>20, PatchActions DEF RecordActions
  <2>. QED
    BY <1>20, <2>1 DEF RecordActions, GoTo, TypeInv, TypeOK, ReadsInv, ReadyInv
<1>21. CASE FinishReconcile
  <2>1. "Stopped" \in Phases
    BY DEF Phases, Transient
  <2>2. status'.phase \in {"Stopped", status.phase}
    BY <1>21, <2>1, PatchPhase DEF FinishReconcile, MustStop
  <2>. QED
    BY <1>21, <2>2 DEF FinishReconcile, MustStop, GoTo, TypeInv, TypeOK, ReadsInv, ReadyInv
<1>22. CASE RecordHash
  <2>1. status'.phase = status.phase
    BY <1>22, PatchHash DEF RecordHash
  <2>. QED
    BY <1>22, <2>1 DEF RecordHash, GoTo, TypeInv, TypeOK, ReadsInv, ReadyInv
<1>23. CASE SuspendFails
  BY <1>23
     DEF SuspendFails, Fails, GoToAndRequeue, Requeue, Faulty, TypeInv, TypeOK,
         ReadsInv, PhaseInv, ReadyInv
<1>24. CASE DeleteFails
  BY <1>24
     DEF DeleteFails, GoTo, Faulty, TypeInv, TypeOK, ReadsInv, PhaseInv, ReadyInv
<1>25. CASE ProbeFails
  BY <1>25
     DEF ProbeFails, MayUpgrade, MayUpdate, GoToAndRequeue, Requeue, Faulty, TypeInv, TypeOK,
         ReadsInv, PhaseInv, ReadyInv
<1>26. CASE WriteFails
  BY <1>26
     DEF WriteFails, Fails, GoToAndRequeue, Requeue, NotRecorded, Faulty, TypeInv,
         TypeOK, ReadsInv, PhaseInv, ReadyInv
<1>27. CASE OperatorRestarts
  BY <1>27
     DEF OperatorRestarts, Live, NotRecorded, Faulty, TypeInv, TypeOK, ReadsInv,
         PhaseInv, ReadyInv
<1>28. CASE StsSeesTemplate
  <2>1. PICK ready \in {sts.ready, sts.ready - 1} \cap Nat :
            SetSts([sts EXCEPT !.updateRevision = sts.rev, !.ready = ready])
    BY <1>28 DEF StsSeesTemplate
  <2>2. /\ sts.exists /\ sts'.exists
        /\ sts'.replicas = sts.replicas
        /\ sts.ready < sts.replicas => sts'.ready < sts'.replicas \/ sts'.ready = sts'.replicas
    BY <2>1, Numbers DEF SetSts, StatefulSet
  <2>3. life' = IF life = "starting" /\ sts'.ready = sts'.replicas THEN "up" ELSE life
    BY <2>1 DEF SetSts
  <2>4. UNCHANGED <<spec, status, cache, stored, op, queue>>
    BY <2>1 DEF SetSts
  <2>. QED
    BY <2>2, <2>3, <2>4, Numbers DEF ReadyInv
<1>29. CASE StsCountsPods
  <2>1. SetSts([sts EXCEPT !.current = sts.replicas,
                        !.ready = IF sts.ready > sts.replicas THEN sts.replicas ELSE sts.ready])
    BY <1>29 DEF StsCountsPods
  <2>2. /\ sts.exists /\ sts'.exists
        /\ sts'.replicas = sts.replicas
        /\ sts.ready < sts.replicas => sts'.ready < sts'.replicas \/ sts'.ready = sts'.replicas
    BY <2>1, Numbers DEF SetSts, StatefulSet
  <2>3. life' = IF life = "starting" /\ sts'.ready = sts'.replicas THEN "up" ELSE life
    BY <2>1 DEF SetSts
  <2>4. UNCHANGED <<spec, status, cache, stored, op, queue>>
    BY <2>1 DEF SetSts
  <2>. QED
    BY <2>2, <2>3, <2>4, Numbers DEF ReadyInv
<1>30. CASE PodIsReady
  <2>1. SetSts([sts EXCEPT !.ready = sts.ready + 1])
    BY <1>30 DEF PodIsReady
  <2>2. /\ sts.exists /\ sts'.exists
        /\ sts'.replicas = sts.replicas
        /\ sts.ready < sts.replicas => sts'.ready < sts'.replicas \/ sts'.ready = sts'.replicas
    BY <2>1, Numbers DEF SetSts, StatefulSet
  <2>3. life' = IF life = "starting" /\ sts'.ready = sts'.replicas THEN "up" ELSE life
    BY <2>1 DEF SetSts
  <2>4. UNCHANGED <<spec, status, cache, stored, op, queue>>
    BY <2>1 DEF SetSts
  <2>. QED
    BY <2>2, <2>3, <2>4, Numbers DEF ReadyInv
<1>31. CASE StsHasRolled
  <2>1. SetSts([sts EXCEPT !.currentRevision = sts.updateRevision])
    BY <1>31 DEF StsHasRolled
  <2>2. /\ sts.exists /\ sts'.exists
        /\ sts'.replicas = sts.replicas
        /\ sts.ready < sts.replicas => sts'.ready < sts'.replicas \/ sts'.ready = sts'.replicas
    BY <2>1, Numbers DEF SetSts, StatefulSet
  <2>3. life' = IF life = "starting" /\ sts'.ready = sts'.replicas THEN "up" ELSE life
    BY <2>1 DEF SetSts
  <2>4. UNCHANGED <<spec, status, cache, stored, op, queue>>
    BY <2>1 DEF SetSts
  <2>. QED
    BY <2>2, <2>3, <2>4, Numbers DEF ReadyInv
<1>32. CASE PodFails
  <2>1. SetSts([sts EXCEPT !.ready = sts.ready - 1])
    BY <1>32 DEF PodFails
  <2>2. /\ sts.exists /\ sts'.exists
        /\ sts'.replicas = sts.replicas
        /\ sts.ready < sts.replicas => sts'.ready < sts'.replicas \/ sts'.ready = sts'.replicas
    BY <2>1, Numbers DEF SetSts, StatefulSet
  <2>3. life' = IF life = "starting" /\ sts'.ready = sts'.replicas THEN "up" ELSE life
    BY <2>1 DEF SetSts
  <2>4. UNCHANGED <<spec, status, cache, stored, op, queue>>
    BY <2>1 DEF SetSts
  <2>. QED
    BY <2>2, <2>3, <2>4, Numbers DEF ReadyInv
<1>33. CASE UNCHANGED vars
  BY <1>33 DEF vars, TypeInv, TypeOK, ReadsInv, PhaseInv, ReadyInv
<1>34. CASE RefusePatch
  BY <1>34
     DEF RefusePatch, Fails, GoTo, GoToAndRequeue, Requeue, TypeInv, TypeOK, ReadsInv, ReadyInv
<1>35. CASE UpdateErrorTracking
  BY <1>35 DEF UpdateErrorTracking, GoTo, TypeInv, TypeOK, ReadsInv, ReadyInv
<1>36. CASE MarkFailed
  <2>1. SetCondition(cache.status, cache.spec.replicas, "Failed").phase = "Failed"
    BY StatusTypes, SetConditionLemma DEF Phases
  <2>2. status'.phase \in {"Failed", status.phase}
    BY <1>36, <2>1 DEF MarkFailed
  <2>. QED
    BY <1>36, <2>2 DEF MarkFailed, GoTo, TypeInv, TypeOK, ReadsInv, ReadyInv
<1>37. CASE WriteIsSkipped
  BY <1>37
     DEF WriteIsSkipped, MayStop, MayCreate, MayScale, MayUpgrade, MayUpdate, GoTo,
         GoToAndRequeue, Requeue, TypeInv, TypeOK, ReadsInv, ReadyInv
<1>. QED
  BY <1>1, <1>2, <1>3, <1>4, <1>5, <1>6, <1>7, <1>8, <1>9, <1>10, <1>11, <1>12,
     <1>13, <1>14, <1>15, <1>16, <1>17, <1>18, <1>19, <1>20, <1>21, <1>22, <1>23,
     <1>24, <1>25, <1>26, <1>27, <1>28, <1>29, <1>30, <1>31, <1>32, <1>33, <1>34,
     <1>35, <1>36, <1>37
     DEF Next, Reconcile, StsController

\* Only the steps that stop a StatefulSet or have run its actions set the flag.
LEMMA ActionsStep ==
    ASSUME Orderly, TypeInv, ReadsInv, ReadyInv, ActionsInv, [Next]_vars
    PROVE  ActionsInv'
<1>. USE DEF TypeInv, TypeOK, ReadsInv, ReadyInv, ActionsInv
<1>1. ASSUME NEW n \in 0 .. MaxReplicas, NEW t \in BOOLEAN, Edit(n, t) PROVE ActionsInv'
  <2>1. /\ sts.exists = (spec.replicas > 0)
        /\ UNCHANGED <<status, life, op>>
        /\ op.step = "idle"
    BY <1>1, EditLemma
  <2>2. ~sts.exists \/ spec.replicas # 0
    BY <2>1, Numbers DEF StatefulSet
  <2>. QED
    BY <2>1, <2>2
<1>2. CASE QuorumIsMet
  BY <1>2 DEF QuorumIsMet
<1>3. CASE ResourceEvent
  BY <1>3 DEF ResourceEvent
<1>4. CASE StatefulSetEvent
  BY <1>4 DEF StatefulSetEvent
<1>5. ASSUME NEW c \in Controllers, BeginReconcile(c) PROVE ActionsInv'
  BY <1>5, BeginLemma
<1>6. CASE InitializePhase
  <2>1. "Initialized" \in Phases
    BY DEF Phases, Transient
  <2>2. status'.actionsExecuted = status.actionsExecuted
    BY <1>6, <2>1, PatchPhase DEF InitializePhase
  <2>. QED
    BY <1>6, <2>2 DEF InitializePhase, GoTo
<1>7. CASE StopStatefulSet
  BY <1>7 DEF StopStatefulSet, MayStop, GoTo
<1>8. CASE DeleteStatefulSet
  BY <1>8 DEF DeleteStatefulSet, GoTo
<1>9. CASE NothingToReconcile
  BY <1>9 DEF NothingToReconcile, GoTo
<1>10. CASE WaitForQuorum
  <2>1. "Waiting" \in Phases
    BY DEF Phases, Transient
  <2>2. WritePhase("Waiting")
    BY <1>10 DEF WaitForQuorum
  <2>3. status'.actionsExecuted = status.actionsExecuted
    BY <2>1, <2>2, StatusTypes, WritePhaseLemma
  <2>. QED
    BY <1>10, <2>3 DEF WaitForQuorum, MayCreate, GoToAndRequeue, Requeue
<1>11. CASE CreateStatefulSet
  BY <1>11 DEF CreateStatefulSet, MayCreate, GoTo, Fails, GoToAndRequeue, Requeue
<1>12. CASE Created
  <2>1. "Created" \in Phases
    BY DEF Phases, Transient
  <2>2. WritePhase("Created")
    BY <1>12 DEF Created
  <2>3. status'.actionsExecuted = status.actionsExecuted
    BY <2>1, <2>2, StatusTypes, WritePhaseLemma
  <2>. QED
    BY <1>12, <2>3 DEF Created, GoTo
<1>13. CASE BeginScaling
  <2>1. "Scaling" \in Phases
    BY DEF Phases, Transient
  <2>2. WritePhase("Scaling")
    BY <1>13 DEF BeginScaling
  <2>3. status'.actionsExecuted = status.actionsExecuted
    BY <2>1, <2>2, StatusTypes, WritePhaseLemma
  <2>. QED
    BY <1>13, <2>3 DEF BeginScaling, MayScale, MayUpdate, GoTo
<1>14. CASE Scale
  BY <1>14 DEF Scale, Fails, GoToAndRequeue, Requeue
<1>15. CASE BeginUpgrade
  <2>1. "RollingUpgrade" \in Phases
    BY DEF Phases, Transient
  <2>2. WritePhase("RollingUpgrade")
    BY <1>15 DEF BeginUpgrade
  <2>3. status'.actionsExecuted = status.actionsExecuted
    BY <2>1, <2>2, StatusTypes, WritePhaseLemma
  <2>. QED
    BY <1>15, <2>3 DEF BeginUpgrade, MayUpgrade, MayUpdate, GoTo
<1>16. CASE Upgrade
  BY <1>16 DEF Upgrade, GoTo, Fails, GoToAndRequeue, Requeue
<1>17. CASE NothingToUpdate
  BY <1>17 DEF NothingToUpdate, MayUpdate, GoTo
<1>18. CASE ReportStatus
  <2>1. status'.actionsExecuted = status.actionsExecuted
    <3>1. Update(status, spec.replicas, cache.sts).actionsExecuted = status.actionsExecuted
      BY StatusTypes, UpdateLemma
    <3>. QED
      BY <1>18, <3>1 DEF ReportStatus
  <2>2. op'.step = "actions" => ActionsDue
    BY <1>18 DEF ReportStatus, GoTo, Fails, GoToAndRequeue
  <2>3. op'.step = "actions" => ~status.actionsExecuted
    BY <1>18, <2>2 DEF ReportStatus, ActionsDue
  <2>. QED
    BY <1>18, <2>1, <2>3 DEF ReportStatus, GoTo, Fails, GoToAndRequeue
<1>19. CASE ExecActions
  BY <1>19 DEF ExecActions, GoTo
<1>20. CASE RecordActions
  <2>1. status'.actionsExecuted =
            IF cache.status.actionsExecuted THEN status.actionsExecuted ELSE TRUE
    BY <1>20, PatchActions, StatusTypes DEF RecordActions, ResourceStatus
  <2>2. status'.actionsExecuted
    BY <1>20, <2>1 DEF RecordActions
  <2>. QED
    BY <1>20, <2>2 DEF RecordActions, GoTo
<1>21. CASE FinishReconcile
  <2>1. "Stopped" \in Phases
    BY DEF Phases, Transient
  <2>2. status'.actionsExecuted = status.actionsExecuted
    BY <1>21, <2>1, PatchPhase DEF FinishReconcile, MustStop
  <2>. QED
    BY <1>21, <2>2 DEF FinishReconcile, MustStop, GoTo
<1>22. CASE RecordHash
  <2>1. status'.actionsExecuted = status.actionsExecuted
    BY <1>22, PatchHash DEF RecordHash
  <2>. QED
    BY <1>22, <2>1 DEF RecordHash, GoTo
<1>23. CASE SuspendFails
  BY <1>23 DEF SuspendFails, Fails, GoToAndRequeue, Requeue, Faulty
<1>24. CASE DeleteFails
  BY <1>24 DEF DeleteFails, GoTo, Faulty
<1>25. CASE ProbeFails
  BY <1>25 DEF ProbeFails, MayUpgrade, MayUpdate, GoToAndRequeue, Requeue, Faulty
<1>26. CASE WriteFails
  BY <1>26 DEF WriteFails, Fails, GoToAndRequeue, Requeue, NotRecorded, Faulty
<1>27. CASE OperatorRestarts
  BY <1>27 DEF OperatorRestarts, Live, NotRecorded, Faulty
<1>28. CASE StsSeesTemplate
  BY <1>28 DEF StsSeesTemplate, SetSts
<1>29. CASE StsCountsPods
  BY <1>29 DEF StsCountsPods, SetSts
<1>30. CASE PodIsReady
  BY <1>30 DEF PodIsReady, SetSts
<1>31. CASE StsHasRolled
  BY <1>31 DEF StsHasRolled, SetSts
<1>32. CASE PodFails
  BY <1>32 DEF PodFails, SetSts, Faulty
<1>33. CASE UNCHANGED vars
  BY <1>33 DEF vars
<1>34. CASE RefusePatch
  BY <1>34 DEF RefusePatch, Fails, GoTo, GoToAndRequeue, Requeue
<1>35. CASE UpdateErrorTracking
  BY <1>35 DEF UpdateErrorTracking, GoTo
<1>36. CASE MarkFailed
  <2>1. SetCondition(cache.status, cache.spec.replicas, "Failed").actionsExecuted =
            cache.status.actionsExecuted
    BY StatusTypes, SetConditionLemma DEF Phases
  <2>2. status'.actionsExecuted = status.actionsExecuted
    BY <1>36, <2>1 DEF MarkFailed
  <2>. QED
    BY <1>36, <2>2 DEF MarkFailed, GoTo
<1>37. CASE WriteIsSkipped
  BY <1>37 DEF WriteIsSkipped, MayStop, MayCreate, MayScale, MayUpgrade, MayUpdate, GoTo,
               GoToAndRequeue, Requeue
<1>. QED
  BY <1>1, <1>2, <1>3, <1>4, <1>5, <1>6, <1>7, <1>8, <1>9, <1>10, <1>11, <1>12,
     <1>13, <1>14, <1>15, <1>16, <1>17, <1>18, <1>19, <1>20, <1>21, <1>22, <1>23,
     <1>24, <1>25, <1>26, <1>27, <1>28, <1>29, <1>30, <1>31, <1>32, <1>33, <1>34,
     <1>35, <1>36, <1>37
     DEF Next, Reconcile, StsController

-----------------------------------------------------------------------------
(***************************************************************************)
(* The theorems.                                                           *)
(***************************************************************************)
LEMMA TypeInvariance == Spec => []TypeInv
<1>1. ASSUME Init PROVE TypeInv
  <2>1. /\ 0 \in 0 .. MaxReplicas
        /\ 0 \in 0 .. MaxEdits + 1 /\ 1 \in 1 .. MaxEdits + 1
        /\ 0 \in 0 .. MaxEdits /\ 0 \in 0 .. MaxFaults
    BY Bounds
  <2>2. spec \in ResourceSpec /\ spec.gen = edits + 1
    <3>1. PICK n \in 0 .. MaxReplicas : spec = [replicas |-> n, gen |-> 1, rev |-> 1]
      BY <1>1 DEF Init
    <3>2. spec \in ResourceSpec /\ spec.gen = 1
      BY <2>1, <3>1 DEF ResourceSpec
    <3>3. edits = 0
      BY <1>1 DEF Init
    <3>. QED
      BY <3>2, <3>3
  <2>3. [c \in Phases |-> "None"] \in [Phases -> {"None", "True", "False"}]
    OBVIOUS
  <2>4. status \in ResourceStatus
    BY <1>1, <2>1, <2>3 DEF Init, ResourceStatus
  <2>5. sts \in StatefulSet
    BY <1>1, NewStatefulSetTypes DEF Init
  <2>6. cache \in [spec: ResourceSpec, status: ResourceStatus, sts: StatefulSet]
    BY <1>1, <2>2, <2>4, <2>5 DEF Init, Live
  <2>7. /\ op \in [step: Step, who: Controllers, replicas: 0 .. MaxReplicas]
        /\ queue \in SUBSET Controllers
    BY <1>1, <2>1 DEF Init, Step, Controllers
  <2>. QED
    BY <1>1, <2>1, <2>2, <2>4, <2>5, <2>6, <2>7 DEF Init, TypeInv, TypeOK
<1>. QED
  BY <1>1, TypeStep, PTL DEF Spec

IInv == TypeInv /\ ReadsInv /\ PhaseInv /\ ReadyInv /\ ActionsInv

\* The inductive invariant.
THEOREM Invariance ==
    ASSUME Orderly
    PROVE  Spec => []IInv
<1>1. ASSUME Init, TypeInv PROVE IInv
  <2>1. cache.spec = spec /\ cache.status = status /\ cache.sts = sts
    BY <1>1 DEF Init, Live
  <2>2. ~sts.exists /\ sts.ready = 0
    BY <1>1, NewStatefulSetTypes DEF Init
  <2>3. /\ status.phase = ""
        /\ \A c \in Transient : status.conditions[c] = "None"
    BY <1>1 DEF Init, Phases
  <2>. QED
    BY <1>1, <2>1, <2>2, <2>3
       DEF Init, IInv, ReadsInv, PhaseInv, ReadyInv, ActionsInv, OwnsConditions
<1>2. ASSUME IInv, [Next]_vars PROVE IInv'
  BY <1>2, TypeStep, ReadsStep, PhaseStep, ReadyStep, ActionsStep DEF IInv
<1>. QED
  BY <1>1, <1>2, TypeInvariance, PTL DEF Spec

-----------------------------------------------------------------------------
\* The resource, its status, the StatefulSet and the reconcile are of the
\* declared types, whatever the informers show and whenever the user edits.
THEOREM TypeCorrect == Spec => []TypeOK
<1>1. TypeInv => TypeOK
  BY DEF TypeInv
<1>. QED
  BY <1>1, TypeInvariance, PTL

\* SetPhase and the patches, after a refused patch and its phase Failed too: no
\* transient condition of a phase that the resource has left stays true.
THEOREM ConditionsFollowPhase ==
    ASSUME Orderly
    PROVE  Spec => []PhaseOwnsConditions
<1>1. IInv => PhaseOwnsConditions
  BY DEF IInv, PhaseInv, OwnsConditions, PhaseOwnsConditions
<1>. QED
  BY <1>1, Invariance, PTL

LEMMA ActionsRun ==
    ASSUME IInv, [Next]_vars, op.step = "actions", op'.step = "record"
    PROVE  life # "starting" /\ life # "acted"
<1>1. life # "starting"
  BY DEF IInv, ReadyInv
<1>2. op.replicas = spec.replicas /\ spec.replicas # 0 /\ ~status.actionsExecuted
  BY DEF IInv, ReadsInv, ActionsInv
<1>. QED
  BY <1>1, <1>2 DEF IInv, ActionsInv

\* updateDeploymentStatus and execActions: the actions run after all the Pods of
\* the StatefulSet have been ready once, for any number of replicas.
THEOREM ActionsWaitForPods ==
    ASSUME Orderly
    PROVE  Spec => ActionsAfterReady
<1>1. IInv /\ [Next]_vars => [op.step = "actions" /\ op'.step = "record" => life # "starting"]_vars
  BY ActionsRun
<1>. QED
  BY <1>1, Invariance, PTL DEF Spec, ActionsAfterReady

\* The actions run once for every start of the StatefulSet, or again if that they
\* ran could not be recorded.
THEOREM ActionsRunOnce ==
    ASSUME Orderly
    PROVE  Spec => ActionsOnce
<1>1. IInv /\ [Next]_vars => [op.step = "actions" /\ op'.step = "record" => life # "acted"]_vars
  BY ActionsRun
<1>. QED
  BY <1>1, Invariance, PTL DEF Spec, ActionsOnce
-----------------------------------------------------------------------------
(***************************************************************************)
(* Nothing is left untold, whatever is read and whenever the user edits.   *)
(***************************************************************************)

\* A generation is one specification, and gets to the informer, the state store and
\* the StatefulSet in this order.
VersionsInv ==
    /\ cache.spec.gen <= spec.gen
    /\ cache.spec.gen = spec.gen => cache.spec = spec
    /\ stored.gen <= cache.spec.gen
    /\ stored.gen = cache.spec.gen => stored = cache.spec
    /\ sts.gen <= stored.gen
    /\ cache.sts.gen <= stored.gen

\* What a reconcile knows, and what it leaves for the next one.  A StatefulSet that
\* is gone but still seen is not of a specification that wants one: the reconcile
\* that deleted it had read a newer one.
ReadInv ==
    /\ "coherence" \notin queue => stored = cache.spec
    /\ op.step # "idle" /\ stored.gen = cache.spec.gen => op.replicas = cache.spec.replicas
    /\ op.step = "delete" => op.replicas = 0
    /\ op.step = "upgrade" /\ sts.exists =>
         /\ cache.sts.exists
         /\ cache.sts.replicas = stored.replicas \/ "statefulset" \in queue
    /\ op.step = "refused" /\ queue = {} =>
         cache.sts.exists /\ cache.sts.replicas = stored.replicas
    /\ ~sts.exists => sts.ready = 0
    /\ ~sts.exists /\ cache.sts.exists /\ cache.sts.gen = cache.spec.gen => cache.spec.replicas = 0

\* A StatefulSet that is not as stored is seen by a reconcile to come, unless its
\* upgrade has been refused for good and nothing is left of the error.
Lags == cache.sts.gen # sts.gen \/ cache.sts.replicas # sts.replicas
LeftOut == forgotten /\ sts.exists /\ sts.replicas = stored.replicas
WorkInv ==
    "coherence" \notin queue /\ stored.replicas > 0 =>
        \/ op.who = "coherence" /\ op.step \in {"init", "sts", "scale", "upgrade"}
        \/ sts.exists /\ sts.gen = stored.gen /\ sts.replicas = stored.replicas
        \/ /\ sts.exists /\ cache.sts.exists
           /\ \/ Lags \/ "statefulset" \in queue
              \/ op.step \in {"sts", "scale", "upgrade", "refused"}
        \/ OldVersion
        \/ LeftOut

\* Does a status tell of this many replicas and this StatefulSet?
Tells(st, replicas, s) ==
    /\ st.ready = IF s.exists THEN s.ready ELSE 0
    /\ replicas = 0 => st.phase = "Stopped" /\ st.replicas = 0
    /\ /\ replicas > 0
       /\ s.exists /\ s.ready = replicas /\ s.current = replicas
       /\ s.currentRevision = s.updateRevision
       => st.phase = "Ready" /\ st.replicas = replicas

\* A reconcile that has written the status has nothing more to tell, unless there is
\* an event or a request.
ToldInv ==
    /\ queue = {}
    /\ cache.spec = spec
    /\ cache.status = status
    /\ op.step \in {"idle", "actions", "record", "stopped", "hash"}
    => Tells(status, spec.replicas, cache.sts)


\* The steps of a reconcile that change nothing but the step and the status...
Moves(s) ==
    /\ op.step # "idle"
    /\ op' = [op EXCEPT !.step = s]
    /\ UNCHANGED <<spec, sts, cache, stored, queue>>
    /\ \/ op.step = "init" /\ s = "sts"
       \/ op.step = "sts" /\ s = "delete" /\ op.replicas = 0
       \/ op.step = "sts" /\ s = "report" /\ ~cache.sts.exists
            /\ (op.who = "statefulset" \/ op.replicas = 0)
       \/ op.step = "sts" /\ s = "scale" /\ cache.sts.exists
       \/ op.step = "sts" /\ s = "upgrade" /\ cache.sts.exists
            /\ cache.sts.replicas = stored.replicas
       \/ op.step = "sts" /\ s = "status" /\ cache.sts.exists
            /\ cache.sts.replicas = stored.replicas /\ cache.sts.gen = stored.gen
       \/ op.step = "delete" /\ s = "status"
       \/ op.step = "upgrade" /\ s = "refused" /\ sts.exists
       \/ op.step = "refused" /\ s = "failing" /\ (OldVersion' \/ forgotten' \/ queue # {})
       \/ /\ op.step \notin {"init", "sts", "delete", "scale", "upgrade", "refused"}
          /\ s \notin {"init", "sts", "delete", "scale", "upgrade", "refused"}
          /\ \/ s = "status"
             \/ ReportStatus \/ ExecActions \/ RecordActions
             \/ FinishReconcile \/ RecordHash
\* ... and those that leave a request as well.
PutsOff(s) ==
    /\ op.step # "idle"
    /\ s \in {"idle", "status", "refused"}
    /\ op' = [op EXCEPT !.step = s]
    /\ Requeue
    /\ UNCHANGED <<spec, sts, cache, stored>>
\* The steps that others take, or that touch nothing of this.
Counts ==
    /\ sts'.exists = sts.exists /\ sts'.gen = sts.gen /\ sts'.replicas = sts.replicas
    /\ ~sts.exists => sts' = sts
    /\ UNCHANGED <<spec, status, cache, stored, op, queue>>
Creates == CreateStatefulSet /\ ~sts.exists

LEMMA StepKinds ==
    ASSUME TypeInv, [Next]_vars
    PROVE  \/ \E n \in 0 .. MaxReplicas, t \in BOOLEAN : Edit(n, t)
           \/ ResourceEvent \/ StatefulSetEvent
           \/ \E c \in Controllers : BeginReconcile(c)
           \/ \E s \in Step : Moves(s)
           \/ \E s \in Step : PutsOff(s)
           \/ Creates \/ Scale \/ Upgrade \/ DeleteStatefulSet
           \/ OperatorRestarts
           \/ Counts
<1>. USE DEF Step
<1>1. ASSUME InitializePhase PROVE Moves("sts")
  BY <1>1 DEF InitializePhase, GoTo, Moves
<1>2. ASSUME StopStatefulSet PROVE Moves("delete")
  BY <1>2 DEF StopStatefulSet, MayStop, GoTo, Moves
<1>3. ASSUME NothingToReconcile PROVE Moves("report")
  BY <1>3 DEF NothingToReconcile, GoTo, Moves
<1>4. ASSUME BeginScaling PROVE Moves("scale")
  BY <1>4 DEF BeginScaling, MayScale, MayUpdate, GoTo, Moves
<1>5. ASSUME BeginUpgrade PROVE Moves("upgrade")
  BY <1>5 DEF BeginUpgrade, MayUpgrade, MayUpdate, GoTo, Moves
<1>6. ASSUME NothingToUpdate PROVE Moves("status")
  BY <1>6 DEF NothingToUpdate, MayUpdate, GoTo, Moves
<1>7. ASSUME DeleteFails PROVE Moves("status")
  BY <1>7 DEF DeleteFails, GoTo, Moves
<1>8. ASSUME Created PROVE Moves("status")
  BY <1>8 DEF Created, GoTo, Moves
<1>9. ASSUME ExecActions PROVE Moves("record")
  BY <1>9 DEF ExecActions, GoTo, Moves
<1>10. ASSUME RecordActions PROVE Moves("stopped")
  BY <1>10 DEF RecordActions, GoTo, Moves
<1>11. ASSUME FinishReconcile PROVE \E s \in {"hash", "idle"} : Moves(s)
  BY <1>11 DEF FinishReconcile, MustStop, GoTo, Moves
<1>12. ASSUME RecordHash PROVE Moves("idle")
  BY <1>12 DEF RecordHash, GoTo, Moves
<1>13. ASSUME ReportStatus PROVE PutsOff("idle") \/ \E s \in {"actions", "stopped"} : Moves(s)
  BY <1>13 DEF ReportStatus, Fails, GoToAndRequeue, GoTo, Moves, PutsOff
<1>14. ASSUME WaitForQuorum \/ ProbeFails PROVE PutsOff("status")
  BY <1>14 DEF WaitForQuorum, MayCreate, ProbeFails, MayUpgrade, MayUpdate, GoToAndRequeue, PutsOff
<1>15. ASSUME WriteFails \/ SuspendFails PROVE PutsOff("idle")
  BY <1>15 DEF WriteFails, MayCreate, MustStop, SuspendFails, Fails, GoToAndRequeue, PutsOff
<1>16. ASSUME CreateStatefulSet PROVE PutsOff("idle") \/ Creates
  BY <1>16 DEF CreateStatefulSet, MayCreate, Fails, GoToAndRequeue, PutsOff, Creates
<1>17. ASSUME RefusePatch PROVE PutsOff("refused") \/ PutsOff("idle") \/ Moves("refused")
  BY <1>17 DEF RefusePatch, Fails, GoToAndRequeue, GoTo, PutsOff, Moves
<1>18. ASSUME UpdateErrorTracking PROVE Moves("failing")
  <2>1. OldVersion'
    BY <1>18 DEF UpdateErrorTracking, OldVersion
  <2>. QED
    BY <1>18, <2>1 DEF UpdateErrorTracking, GoTo, Moves
<1>21. ASSUME MarkFailed PROVE Moves("status")
  BY <1>21 DEF MarkFailed, GoTo, Moves
<1>22. ASSUME WriteIsSkipped
       PROVE  PutsOff("status")
                \/ \E s \in {"delete", "scale", "upgrade", "failing", "status"} : Moves(s)
  <2>1. CASE MayStop /\ GoTo("delete")
    BY <1>22, <2>1 DEF WriteIsSkipped, MayStop, GoTo, Moves
  <2>2. CASE MayCreate /\ ~quorum /\ GoToAndRequeue("status")
    BY <1>22, <2>2 DEF WriteIsSkipped, MayCreate, GoToAndRequeue, PutsOff
  <2>3. CASE MayScale /\ GoTo("scale")
    BY <1>22, <2>3 DEF WriteIsSkipped, MayScale, MayUpdate, GoTo, Moves
  <2>4. CASE MayUpgrade /\ GoTo("upgrade")
    BY <1>22, <2>4 DEF WriteIsSkipped, MayUpgrade, MayUpdate, GoTo, Moves
  <2>5. CASE op.step = "refused" /\ GoTo("failing")
    BY <1>22, <2>5 DEF WriteIsSkipped, GoTo, Moves
  <2>6. CASE op.step = "failing" /\ GoTo("status")
    BY <1>22, <2>6 DEF WriteIsSkipped, GoTo, Moves
  <2>. QED
    BY <1>22, <2>1, <2>2, <2>3, <2>4, <2>5, <2>6 DEF WriteIsSkipped
<1>19. ASSUME StsController \/ PodFails PROVE Counts
  <2>1. sts \in StatefulSet
    BY DEF TypeInv, TypeOK
  <2>2. ASSUME StsSeesTemplate PROVE Counts
    BY <2>1, <2>2 DEF StsSeesTemplate, SetSts, Counts, StatefulSet
  <2>3. ASSUME StsCountsPods PROVE Counts
    BY <2>1, <2>3 DEF StsCountsPods, SetSts, Counts, StatefulSet
  <2>4. ASSUME PodIsReady \/ PodFails PROVE Counts
    BY <2>1, <2>4 DEF PodIsReady, PodFails, SetSts, Counts, StatefulSet
  <2>5. ASSUME StsHasRolled PROVE Counts
    BY <2>1, <2>5 DEF StsHasRolled, SetSts, Counts, StatefulSet
  <2>. QED
    BY <1>19, <2>2, <2>3, <2>4, <2>5 DEF StsController
<1>20. ASSUME QuorumIsMet \/ UNCHANGED vars PROVE Counts
  BY <1>20 DEF QuorumIsMet, vars, Counts
<1>. QED
  BY <1>1, <1>2, <1>3, <1>4, <1>5, <1>6, <1>7, <1>8, <1>9, <1>10, <1>11, <1>12, <1>13, <1>14,
     <1>15, <1>16, <1>17, <1>18, <1>19, <1>20, <1>21, <1>22 DEF Next, Reconcile

LEMMA Generations ==
    ASSUME TypeInv
    PROVE  /\ spec.gen \in Nat /\ cache.spec.gen \in Nat /\ stored.gen \in Nat
           /\ sts.gen \in Nat /\ cache.sts.gen \in Nat
           /\ stored.gen >= 1
           /\ stored.replicas \in Nat /\ spec.replicas \in Nat /\ cache.spec.replicas \in Nat
BY Bounds DEF TypeInv, TypeOK, ResourceSpec, StatefulSet

\* What is copied, made and changed is as in the original.
LEMMA Copies ==
    ASSUME TypeInv
    PROVE  /\ ResourceEvent =>
                cache'.spec = spec /\ cache'.status = status /\ cache'.sts = cache.sts
           /\ StatefulSetEvent => /\ cache'.spec = cache.spec
                                  /\ cache'.status = cache.status
                                  /\ cache'.sts.exists = sts.exists
                                  /\ cache'.sts.gen = sts.gen
                                  /\ cache'.sts.replicas = sts.replicas
           /\ OperatorRestarts =>
                cache'.spec = spec /\ cache'.status = status /\ cache'.sts = sts
           /\ Creates =>
                sts'.exists /\ sts'.gen = stored.gen /\ sts'.replicas = stored.replicas
           /\ Scale => sts'.exists /\ sts'.gen = sts.gen /\ sts'.replicas = stored.replicas
           /\ Upgrade => sts'.exists /\ sts'.gen = stored.gen /\ sts'.replicas = sts.replicas
           /\ DeleteStatefulSet => ~sts'.exists /\ sts'.gen = 1 /\ sts'.ready = 0
<1>. /\ sts \in StatefulSet
     /\ cache \in [spec: ResourceSpec, status: ResourceStatus, sts: StatefulSet]
  BY DEF TypeInv, TypeOK
<1>1. ResourceEvent =>
        cache'.spec = spec /\ cache'.status = status /\ cache'.sts = cache.sts
  BY DEF ResourceEvent
<1>2. ASSUME StatefulSetEvent
      PROVE  /\ cache'.spec = cache.spec
             /\ cache'.status = cache.status
             /\ cache'.sts.exists = sts.exists
             /\ cache'.sts.gen = sts.gen
             /\ cache'.sts.replicas = sts.replicas
  <2>1. CASE sts.exists /\ ~cache.sts.exists
    <3>1. cache' = [cache EXCEPT !.sts = NewStatefulSet(sts)]
      BY <1>2, <2>1 DEF StatefulSetEvent
    <3>2. cache'.spec = cache.spec /\ cache'.status = cache.status
          /\ cache'.sts = NewStatefulSet(sts)
      BY <3>1
    <3>. QED
      BY <2>1, <3>2 DEF NewStatefulSet
  <2>2. CASE ~(sts.exists /\ ~cache.sts.exists)
    BY <1>2, <2>2 DEF StatefulSetEvent
  <2>. QED
    BY <2>1, <2>2
<1>3. OperatorRestarts =>
        cache'.spec = spec /\ cache'.status = status /\ cache'.sts = sts
  BY DEF OperatorRestarts, Live
<1>4. Creates => sts'.exists /\ sts'.gen = stored.gen /\ sts'.replicas = stored.replicas
  BY DEF Creates, CreateStatefulSet, NewStatefulSet
<1>5. Scale => sts'.exists /\ sts'.gen = sts.gen /\ sts'.replicas = stored.replicas
  BY DEF Scale, StatefulSet
<1>6. Upgrade => sts'.exists /\ sts'.gen = stored.gen /\ sts'.replicas = sts.replicas
  BY DEF Upgrade, StatefulSet
<1>7. DeleteStatefulSet => ~sts'.exists /\ sts'.gen = 1 /\ sts'.ready = 0
  BY DEF DeleteStatefulSet, NoStatefulSet, NewStatefulSet
<1>. QED
  BY <1>1, <1>2, <1>3, <1>4, <1>5, <1>6, <1>7

\* The reconcile's own record: only its step changes, until another one begins.
LEMMA OpSteps ==
    ASSUME TypeInv
    PROVE  /\ \A s \in Step : Moves(s) \/ PutsOff(s) =>
                op'.step = s /\ op'.who = op.who /\ op'.replicas = op.replicas
           /\ \A s \in Step : PutsOff(s) => queue' = queue \cup {op.who}
           /\ Creates => op'.step = "created"
           /\ Scale => op'.step = "status" /\ queue' = queue \cup {op.who}
           /\ Upgrade \/ DeleteStatefulSet => op'.step = "status"
           /\ Creates \/ Scale \/ Upgrade \/ DeleteStatefulSet =>
                op'.who = op.who /\ op'.replicas = op.replicas
           /\ Creates \/ Upgrade \/ DeleteStatefulSet => queue' = queue
           /\ OperatorRestarts => op'.step = "idle"
           /\ \A c \in Controllers : BeginReconcile(c) =>
                /\ op'.step \in {"init", "sts"}
                /\ op'.who = c
                /\ op'.replicas = cache.spec.replicas
<1>. op \in [step: Step, who: Controllers, replicas: 0 .. MaxReplicas]
  BY DEF TypeInv, TypeOK
<1>1. /\ \A s \in Step : Moves(s) \/ PutsOff(s) =>
             op'.step = s /\ op'.who = op.who /\ op'.replicas = op.replicas
      /\ \A s \in Step : PutsOff(s) => queue' = queue \cup {op.who}
  BY DEF Moves, PutsOff, Requeue
<1>2. Creates => /\ op'.step = "created" /\ queue' = queue
                 /\ op'.who = op.who /\ op'.replicas = op.replicas
  BY DEF Creates, CreateStatefulSet, GoTo
<1>3. Scale => /\ op'.step = "status" /\ queue' = queue \cup {op.who}
                /\ op'.who = op.who /\ op'.replicas = op.replicas
  BY DEF Scale, GoToAndRequeue, Requeue
<1>4. Upgrade \/ DeleteStatefulSet => /\ op'.step = "status" /\ queue' = queue
                                       /\ op'.who = op.who /\ op'.replicas = op.replicas
  BY DEF Upgrade, DeleteStatefulSet, GoTo
<1>5. OperatorRestarts => op'.step = "idle"
  BY DEF OperatorRestarts
<1>6. \A c \in Controllers : BeginReconcile(c) =>
        /\ op'.step \in {"init", "sts"}
        /\ op'.who = c
        /\ op'.replicas = cache.spec.replicas
  <2>. TAKE c \in Controllers
  <2>. DEFINE first == IF c = "coherence" /\ cache.status.phase = "" THEN "init" ELSE "sts"
  <2>1. first \in {"init", "sts"}
    BY Zenon
  <2>2. BeginReconcile(c) => op' = [step |-> first, who |-> c, replicas |-> cache.spec.replicas]
    BY Zenon DEF BeginReconcile
  <2>. HIDE DEF first
  <2>. QED
    BY <2>1, <2>2
<1>. QED
  BY <1>1, <1>2, <1>3, <1>4, <1>5, <1>6

LEMMA BeginSpec ==
    ASSUME NEW c \in Controllers, BeginReconcile(c)
    PROVE  /\ op.step = "idle"
           /\ queue' = queue \ {c}
           /\ stored' = IF c = "coherence" THEN cache.spec ELSE stored
           /\ UNCHANGED <<spec, status, cache, sts>>
BY Zenon DEF BeginReconcile

LEMMA VersionsStep ==
    ASSUME TypeInv, TypeInv', VersionsInv, [Next]_vars
    PROVE  VersionsInv'
<1>. USE DEF VersionsInv
<1>0. /\ spec.gen \in Nat /\ cache.spec.gen \in Nat /\ stored.gen \in Nat
      /\ sts.gen \in Nat /\ cache.sts.gen \in Nat
      /\ stored.gen >= 1
  BY Generations
<1>1. ASSUME NEW n \in 0 .. MaxReplicas, NEW t \in BOOLEAN, Edit(n, t)
      PROVE  VersionsInv'
  <2>1. spec'.gen = spec.gen + 1 /\ UNCHANGED <<cache, stored, sts>>
    BY <1>1 DEF Edit
  <2>. QED
    BY <1>0, <2>1
<1>2. ASSUME ResourceEvent PROVE VersionsInv'
  <2>1. UNCHANGED <<spec, stored, sts>>
    BY <1>2 DEF ResourceEvent
  <2>. QED
    BY <1>0, <1>2, <2>1, Copies
<1>3. ASSUME StatefulSetEvent PROVE VersionsInv'
  <2>1. UNCHANGED <<spec, stored, sts>>
    BY <1>3 DEF StatefulSetEvent
  <2>. QED
    BY <1>0, <1>3, <2>1, Copies
<1>4. ASSUME NEW c \in Controllers, BeginReconcile(c) PROVE VersionsInv'
  <2>1. /\ UNCHANGED <<spec, cache, sts>>
        /\ stored' = IF c = "coherence" THEN cache.spec ELSE stored
    BY <1>4, BeginSpec
  <2>. QED
    BY <1>0, <2>1
<1>5. ASSUME OperatorRestarts PROVE VersionsInv'
  <2>1. UNCHANGED <<spec, stored, sts>>
    BY <1>5 DEF OperatorRestarts
  <2>. QED
    BY <1>0, <1>5, <2>1, Copies
<1>6. ASSUME Creates \/ Scale \/ Upgrade \/ DeleteStatefulSet PROVE VersionsInv'
  <2>1. UNCHANGED <<spec, cache, stored>>
    BY <1>6 DEF Creates, CreateStatefulSet, Scale, Upgrade, DeleteStatefulSet
  <2>. QED
    BY <1>0, <1>6, <2>1, Copies
<1>7. ASSUME NEW s \in Step, Moves(s) \/ PutsOff(s) PROVE VersionsInv'
  BY <1>7 DEF Moves, PutsOff
<1>8. ASSUME Counts PROVE VersionsInv'
  BY <1>8 DEF Counts
<1>. QED
  BY <1>1, <1>2, <1>3, <1>4, <1>5, <1>6, <1>7, <1>8, StepKinds

LEMMA ReadStep ==
    ASSUME TypeInv, TypeInv', VersionsInv, VersionsInv', ReadInv, [Next]_vars
    PROVE  ReadInv'
<1>. USE DEF ReadInv
<1>0. /\ spec.gen \in Nat /\ cache.spec.gen \in Nat /\ stored.gen \in Nat
      /\ sts.gen \in Nat /\ cache.sts.gen \in Nat
  BY Generations
<1>1. ASSUME NEW n \in 0 .. MaxReplicas, NEW t \in BOOLEAN, Edit(n, t)
      PROVE  ReadInv'
  <2>1. UNCHANGED <<cache, stored, sts, op, queue>>
    BY <1>1 DEF Edit
  <2>. QED
    BY <2>1
<1>2. ASSUME ResourceEvent PROVE ReadInv'
  <2>1. UNCHANGED <<spec, stored, sts, op>> /\ queue' = queue \cup {"coherence"}
    BY <1>2 DEF ResourceEvent
  <2>2. cache'.spec = spec /\ cache'.sts = cache.sts
    BY <1>2, Copies
  <2>3. stored.gen = spec.gen \/ cache.sts.gen = spec.gen =>
          stored.gen = cache.spec.gen /\ cache.spec = spec
    BY <1>0 DEF VersionsInv
  <2>4. cache.sts.gen = spec.gen => cache.sts.gen = cache.spec.gen
    BY <2>3
  <2>. QED
    BY <2>1, <2>2, <2>3, <2>4
<1>3. ASSUME StatefulSetEvent PROVE ReadInv'
  <2>1. /\ UNCHANGED <<spec, stored, sts, op>>
        /\ queue \subseteq queue'
        /\ "statefulset" \in queue' \/ (sts.exists /\ ~cache.sts.exists)
    BY <1>3 DEF StatefulSetEvent
  <2>2. queue' \subseteq queue \cup {"statefulset"}
    BY <1>3 DEF StatefulSetEvent
  <2>. QED
    BY <1>3, <2>1, <2>2, Copies
<1>4. ASSUME NEW c \in Controllers, BeginReconcile(c) PROVE ReadInv'
  <2>1. op'.step \in {"init", "sts"} /\ op'.who = c /\ op'.replicas = cache.spec.replicas
    BY <1>4, OpSteps
  <2>. QED
    BY <1>4, <2>1, BeginSpec DEF Controllers
<1>5. ASSUME OperatorRestarts PROVE ReadInv'
  <2>1. UNCHANGED <<spec, stored, sts>> /\ queue' = {"coherence"} /\ op'.step = "idle"
    BY <1>5, OpSteps DEF OperatorRestarts
  <2>. QED
    BY <1>5, <2>1, Copies
<1>6. ASSUME Creates \/ Scale \/ Upgrade PROVE ReadInv'
  <2>1. /\ UNCHANGED <<spec, cache, stored>>
        /\ op.step # "idle"
        /\ queue' = queue \/ queue' = queue \cup {op.who}
        /\ op'.step \in {"created", "status"} /\ op'.replicas = op.replicas
    BY <1>6, OpSteps
       DEF Creates, CreateStatefulSet, MayCreate, Scale, Upgrade
  <2>2. sts'.exists
    BY <1>6, Copies
  <2>. QED
    BY <2>1, <2>2
<1>7. ASSUME DeleteStatefulSet PROVE ReadInv'
  <2>1. UNCHANGED <<spec, cache, stored>> /\ op.step = "delete"
    BY <1>7 DEF DeleteStatefulSet
  <2>2. queue' = queue /\ op'.step = "status" /\ op'.replicas = op.replicas
    BY <1>7, OpSteps
  <2>3. cache.sts.gen = cache.spec.gen => cache.spec.replicas = 0
    <3>1. cache.sts.gen = cache.spec.gen => stored.gen = cache.spec.gen
      BY <1>0 DEF VersionsInv
    <3>. QED
      BY <2>1, <3>1
  <2>. QED
    BY <1>7, <2>1, <2>2, <2>3, Copies
<1>8. ASSUME NEW s \in Step, Moves(s) PROVE ReadInv'
  <2>1. /\ UNCHANGED <<spec, cache, stored, sts, queue>>
        /\ op.step # "idle" /\ op'.step = s
        /\ op'.replicas = op.replicas
    BY <1>8, OpSteps DEF Moves
  <2>2. /\ s = "delete" => op.replicas = 0
        /\ s = "upgrade" => cache.sts.exists /\ cache.sts.replicas = stored.replicas
        /\ s = "refused" => op.step = "upgrade" /\ sts.exists
    BY <1>8 DEF Moves
  <2>. QED
    BY <2>1, <2>2
<1>9. ASSUME NEW s \in Step, PutsOff(s) PROVE ReadInv'
  <2>1. /\ UNCHANGED <<spec, cache, stored, sts>>
        /\ queue' = queue \cup {op.who}
        /\ op.step # "idle" /\ op'.step = s /\ s \in {"idle", "status", "refused"}
        /\ op'.replicas = op.replicas
    BY <1>9, OpSteps DEF PutsOff
  <2>. QED
    BY <2>1
<1>10. ASSUME Counts PROVE ReadInv'
  BY <1>10 DEF Counts
<1>. QED
  BY <1>1, <1>2, <1>3, <1>4, <1>5, <1>6, <1>7, <1>8, <1>9, <1>10, StepKinds

\* A patch that changes the status makes it differ from what was read.
LEMMA PatchShows ==
    ASSUME status \in ResourceStatus, NEW new, MergePatch(new), status' = cache.status
    PROVE  status' = status
<1>1. status' = [f \in DOMAIN status |->
                   IF new[f] = cache.status[f] THEN status[f] ELSE new[f]]
  BY DEF MergePatch
<1>2. status = [f \in DOMAIN status |-> status[f]]
  BY DEF ResourceStatus
<1>3. \A f \in DOMAIN status : status'[f] = status[f]
  <2>. TAKE f \in DOMAIN status
  <2>1. status'[f] = IF new[f] = cache.status[f] THEN status[f] ELSE new[f]
    BY <1>1
  <2>. QED
    BY <2>1
<1>4. status' = [f \in DOMAIN status |-> status'[f]]
  BY <1>1
<1>. QED
  BY Zenon, <1>2, <1>3, <1>4

\* From an old version of the resource the status is only patched.
LEMMA StatusWrites ==
    ASSUME TypeInv, [Next]_vars, OldVersion
    PROVE  status' = status \/ \E new : MergePatch(new)
<1>1. ASSUME InitializePhase \/ StopStatefulSet \/ RecordActions \/ RecordHash
      PROVE  \E new : MergePatch(new)
  BY <1>1 DEF InitializePhase, StopStatefulSet, RecordActions, RecordHash
<1>2. ASSUME NEW phase, WritePhase(phase)
      PROVE  status' = status \/ \E new : MergePatch(new)
  BY <1>2 DEF WritePhase
<1>3. ASSUME WaitForQuorum \/ Created \/ BeginScaling \/ BeginUpgrade
      PROVE  status' = status \/ \E new : MergePatch(new)
  BY <1>2, <1>3 DEF WaitForQuorum, Created, BeginScaling, BeginUpgrade
<1>4. ASSUME FinishReconcile
      PROVE  status' = status \/ \E new : MergePatch(new)
  BY <1>4 DEF FinishReconcile
<1>5. ASSUME ReportStatus \/ MarkFailed PROVE status' = status
  BY <1>5 DEF ReportStatus, MarkFailed
<1>6. ASSUME NEW n, NEW t, Edit(n, t) PROVE status' = status
  BY <1>6 DEF Edit
<1>7. ASSUME NEW c, BeginReconcile(c) PROVE status' = status
  BY <1>7 DEF BeginReconcile
<1>8. ASSUME StsController \/ PodFails PROVE status' = status
  BY <1>8 DEF StsController, StsSeesTemplate, StsCountsPods, PodIsReady, StsHasRolled,
              PodFails, SetSts
<1>9. ASSUME \/ QuorumIsMet \/ ResourceEvent \/ StatefulSetEvent \/ OperatorRestarts
             \/ DeleteStatefulSet \/ NothingToReconcile \/ CreateStatefulSet
             \/ Scale \/ Upgrade \/ NothingToUpdate \/ RefusePatch
      PROVE  status' = status
  BY <1>9 DEF QuorumIsMet, ResourceEvent, StatefulSetEvent, OperatorRestarts,
              DeleteStatefulSet, NothingToReconcile, CreateStatefulSet, Scale, Upgrade,
              NothingToUpdate, RefusePatch
<1>10. ASSUME \/ UpdateErrorTracking \/ ExecActions \/ SuspendFails \/ DeleteFails
              \/ ProbeFails \/ WriteFails \/ WriteIsSkipped \/ UNCHANGED vars
       PROVE  status' = status
  BY <1>10 DEF UpdateErrorTracking, ExecActions, SuspendFails, DeleteFails, ProbeFails,
               WriteFails, WriteIsSkipped, vars
<1>. QED
  BY <1>1, <1>3, <1>4, <1>5, <1>6, <1>7, <1>8, <1>9, <1>10 DEF Next, Reconcile

\* An old version stays one until there is an event.
LEMMA OldStays ==
    ASSUME TypeInv, VersionsInv, [Next]_vars, OldVersion, ~ResourceEvent, ~OperatorRestarts
    PROVE  OldVersion'
<1>1. cache'.spec = cache.spec /\ cache'.status = cache.status
  <2>1. ASSUME NEW s \in Step, Moves(s) \/ PutsOff(s) PROVE UNCHANGED cache
    BY <2>1 DEF Moves, PutsOff
  <2>2. ASSUME NEW n, NEW t, Edit(n, t) PROVE UNCHANGED cache
    BY <2>2 DEF Edit
  <2>3. ASSUME NEW c \in Controllers, BeginReconcile(c) PROVE UNCHANGED cache
    BY <2>3, BeginSpec
  <2>4. ASSUME Creates \/ Scale \/ Upgrade \/ DeleteStatefulSet \/ Counts PROVE UNCHANGED cache
    BY <2>4 DEF Creates, CreateStatefulSet, Scale, Upgrade, DeleteStatefulSet, Counts
  <2>. QED
    BY <2>1, <2>2, <2>3, <2>4, Copies, StepKinds
<1>2. CASE annotated
  <2>1. annotated' = annotated
    BY <1>2 DEF Next, Reconcile, StsController, errors, vars,
        Edit, QuorumIsMet, StatefulSetEvent, BeginReconcile, InitializePhase, StopStatefulSet,
        DeleteStatefulSet, NothingToReconcile, WaitForQuorum, CreateStatefulSet, Created,
        BeginScaling, Scale, BeginUpgrade, Upgrade, NothingToUpdate, RefusePatch,
        UpdateErrorTracking, MarkFailed, ReportStatus, ExecActions, RecordActions,
        FinishReconcile, RecordHash, SuspendFails, DeleteFails, ProbeFails, WriteFails,
        WriteIsSkipped, StsSeesTemplate, StsCountsPods, PodIsReady, PodFails, StsHasRolled,
        SetSts
  <2>. QED
    BY <1>2, <2>1 DEF OldVersion
<1>3. CASE cache.spec # spec
  <2>1. ASSUME NEW n, NEW t, Edit(n, t) PROVE cache.spec.gen # spec'.gen
    <3>1. spec'.gen = spec.gen + 1
      BY <2>1 DEF Edit
    <3>. QED
      BY <3>1, Generations DEF VersionsInv
  <2>2. spec' = spec \/ \E n, t : Edit(n, t)
    <3>1. ASSUME NEW s \in Step, Moves(s) \/ PutsOff(s) PROVE UNCHANGED spec
      BY <3>1 DEF Moves, PutsOff
    <3>2. ASSUME NEW c \in Controllers, BeginReconcile(c) PROVE UNCHANGED spec
      BY <3>2, BeginSpec
    <3>3. ASSUME \/ Creates \/ Scale \/ Upgrade \/ DeleteStatefulSet \/ Counts
                 \/ StatefulSetEvent
          PROVE  UNCHANGED spec
      BY <3>3 DEF Creates, CreateStatefulSet, Scale, Upgrade, DeleteStatefulSet, Counts,
                  StatefulSetEvent
    <3>. QED
      BY <3>1, <3>2, <3>3, StepKinds
  <2>. QED
    BY <1>1, <1>3, <2>1, <2>2 DEF OldVersion
<1>4. CASE cache.status # status
  <2>1. status' # cache.status
    BY <1>4, StatusTypes, StatusWrites, PatchShows
  <2>. QED
    BY <1>1, <2>1 DEF OldVersion
<1>. QED
  BY <1>2, <1>3, <1>4 DEF OldVersion

\* An upgrade stays left out until the main reconcile looks again.
LEMMA ForgottenStays ==
    ASSUME [Next]_vars, forgotten
    PROVE  forgotten' \/ BeginReconcile("coherence") \/ OperatorRestarts
<1>1. ASSUME NEW c \in Controllers, BeginReconcile(c), c # "coherence" PROVE forgotten'
  BY <1>1 DEF BeginReconcile
<1>2. ASSUME StsController \/ PodFails PROVE forgotten'
  BY <1>2 DEF StsController, StsSeesTemplate, StsCountsPods, PodIsReady, StsHasRolled,
              PodFails, SetSts, errors
<1>3. ASSUME NEW n, NEW t, Edit(n, t) PROVE forgotten'
  BY <1>3 DEF Edit, errors
<1>4. ASSUME Reconcile PROVE forgotten'
  BY <1>4 DEF Reconcile, InitializePhase, StopStatefulSet, DeleteStatefulSet,
              NothingToReconcile, WaitForQuorum, CreateStatefulSet, Created, BeginScaling,
              Scale, BeginUpgrade, Upgrade, NothingToUpdate, RefusePatch,
              UpdateErrorTracking, MarkFailed, ReportStatus, ExecActions, RecordActions,
              FinishReconcile, RecordHash, errors
<1>5. ASSUME \/ QuorumIsMet \/ ResourceEvent \/ StatefulSetEvent \/ SuspendFails \/ DeleteFails
             \/ ProbeFails \/ WriteFails \/ WriteIsSkipped \/ UNCHANGED vars
      PROVE  forgotten'
  BY <1>5 DEF QuorumIsMet, ResourceEvent, StatefulSetEvent, SuspendFails, DeleteFails,
              ProbeFails, WriteFails, WriteIsSkipped, vars, errors
<1>. QED
  BY <1>1, <1>2, <1>3, <1>4, <1>5 DEF Next

LEMMA WorkStep ==
    ASSUME TypeInv, TypeInv', VersionsInv, VersionsInv', ReadInv, ReadInv', WorkInv, [Next]_vars
    PROVE  WorkInv'
<1>. SUFFICES ASSUME "coherence" \notin queue', stored'.replicas > 0 PROVE WorkInv'
  BY DEF WorkInv
<1>2. ~ResourceEvent /\ ~OperatorRestarts
  BY DEF ResourceEvent, OperatorRestarts
<1>10. CASE OldVersion
  BY <1>2, <1>10, OldStays DEF WorkInv
<1>11. CASE LeftOut
  <2>1. CASE BeginReconcile("coherence")
    BY <2>1, OpSteps DEF Controllers, WorkInv
  <2>2. CASE forgotten'
    <3>1. ASSUME stored' = stored, sts'.exists, sts'.replicas = sts.replicas PROVE WorkInv'
      BY <1>11, <2>2, <3>1 DEF WorkInv, LeftOut
    <3>2. ASSUME NEW c \in Controllers, BeginReconcile(c), c # "coherence" PROVE WorkInv'
      BY <1>11, <3>1, <3>2, BeginSpec DEF LeftOut
    <3>3. ASSUME NEW s \in Step, Moves(s) \/ PutsOff(s) PROVE WorkInv'
      BY <1>11, <3>1, <3>3 DEF Moves, PutsOff, LeftOut
    <3>4. ASSUME NEW n, NEW t, Edit(n, t) PROVE WorkInv'
      BY <1>11, <3>1, <3>4 DEF Edit, LeftOut
    <3>5. ASSUME Counts \/ StatefulSetEvent PROVE WorkInv'
      BY <1>11, <3>1, <3>5 DEF Counts, StatefulSetEvent, LeftOut
    <3>6. ASSUME Scale \/ Upgrade PROVE WorkInv'
      <4>1. stored' = stored
        BY <3>6 DEF Scale, Upgrade
      <4>. QED
        BY <1>11, <3>1, <3>6, <4>1, Copies DEF LeftOut
    <3>7. ~Creates
      BY <1>11 DEF Creates, LeftOut
    <3>8. ~DeleteStatefulSet
      <4>1. ASSUME DeleteStatefulSet PROVE FALSE
        <5>1. op.step = "delete" /\ stored' = stored /\ queue' = queue
          BY <4>1, OpSteps DEF DeleteStatefulSet
        <5>. QED
          BY <5>1 DEF ReadInv
      <4>. QED
        BY <4>1
    <3>. QED
      BY <1>2, <2>1, <3>2, <3>3, <3>4, <3>5, <3>6, <3>7, <3>8, StepKinds
  <2>. QED
    BY <1>2, <1>11, <2>1, <2>2, ForgottenStays DEF LeftOut
<1>. SUFFICES ASSUME ~OldVersion, ~LeftOut PROVE WorkInv'
  BY <1>10, <1>11
<1>. USE DEF WorkInv, Lags
<1>1. ASSUME NEW n \in 0 .. MaxReplicas, NEW t \in BOOLEAN, Edit(n, t)
      PROVE  WorkInv'
  <2>1. UNCHANGED <<cache, stored, sts, op, queue>>
    BY <1>1 DEF Edit
  <2>. QED
    BY <2>1
<1>3. ASSUME StatefulSetEvent PROVE WorkInv'
  <2>1. /\ UNCHANGED <<stored, sts, op>>
        /\ queue \subseteq queue'
        /\ sts.exists /\ cache.sts.exists => "statefulset" \in queue'
    BY <1>3 DEF StatefulSetEvent
  <2>. QED
    BY <1>3, <2>1, Copies
<1>4. ASSUME NEW c \in Controllers, BeginReconcile(c) PROVE WorkInv'
  <2>1. op'.step \in {"init", "sts"} /\ op'.who = c
    BY <1>4, OpSteps
  <2>2. CASE c = "coherence"
    BY <2>1, <2>2
  <2>3. CASE c = "statefulset"
    <3>1. op'.step = "sts"
      BY Zenon, <1>4, <2>3 DEF BeginReconcile, TypeInv, TypeOK
    <3>2. stored' = stored /\ UNCHANGED <<cache, sts>> /\ op.step = "idle"
          /\ "coherence" \notin queue
      BY <1>4, <2>3, BeginSpec
    <3>. QED
      BY <3>1, <3>2
  <2>. QED
    BY <2>2, <2>3 DEF Controllers
<1>5. ASSUME Creates \/ Upgrade \/ Scale PROVE WorkInv'
  <2>1. UNCHANGED <<cache, stored>>
    BY <1>5 DEF Creates, CreateStatefulSet, Scale, Upgrade
  <2>2. "coherence" \notin queue
    BY <1>5, OpSteps
  <2>3. CASE Creates
    BY <2>1, <2>3, Copies
  <2>4. CASE Scale
    <3>1. sts.exists /\ op.step = "scale" /\ queue' = queue \cup {op.who}
      BY <2>4, OpSteps DEF Scale
    <3>2. op.who = "statefulset" /\ "statefulset" \in queue'
      BY <3>1 DEF TypeInv, TypeOK, Controllers
    <3>3. sts'.exists /\ sts'.replicas = stored.replicas /\ sts'.gen = sts.gen
      BY <2>4, Copies
    <3>. QED
      BY <2>1, <2>2, <3>1, <3>2, <3>3
  <2>5. CASE Upgrade
    <3>1. sts.exists /\ op.step = "upgrade" /\ queue' = queue
      BY <2>5, OpSteps DEF Upgrade
    <3>2. sts'.exists /\ sts'.replicas = sts.replicas /\ sts'.gen = stored.gen
      BY <2>5, Copies
    <3>3. cache.sts.exists /\ (cache.sts.replicas = stored.replicas \/ "statefulset" \in queue)
      BY <3>1 DEF ReadInv
    <3>. QED
      BY <2>1, <2>2, <3>1, <3>2, <3>3
  <2>. QED
    BY <1>5, <2>3, <2>4, <2>5
<1>6. ASSUME NEW s \in Step, Moves(s) PROVE WorkInv'
  <2>1. /\ UNCHANGED <<spec, cache, stored, sts, queue>>
        /\ op.step # "idle"
        /\ op'.step = s /\ op'.who = op.who
    BY <1>6, OpSteps DEF Moves
  <2>2. op.replicas > 0
    BY <2>1 DEF ReadInv, VersionsInv
  <2>3. op.step # "delete"
    BY <2>2 DEF ReadInv
  <2>4. \/ op.step = "init" /\ s = "sts"
        \/ op.step = "sts" /\ s = "report" /\ ~cache.sts.exists /\ op.who = "statefulset"
        \/ op.step = "sts" /\ s = "scale" /\ cache.sts.exists
        \/ op.step = "sts" /\ s = "upgrade" /\ cache.sts.exists
             /\ cache.sts.replicas = stored.replicas
        \/ op.step = "sts" /\ s = "status" /\ cache.sts.exists
             /\ cache.sts.replicas = stored.replicas /\ cache.sts.gen = stored.gen
        \/ op.step = "upgrade" /\ s = "refused" /\ sts.exists /\ cache.sts.exists
        \/ op.step = "refused" /\ s = "failing" /\ (OldVersion' \/ forgotten' \/ queue # {})
        \/ /\ op.step \notin {"init", "sts", "delete", "scale", "upgrade", "refused"}
           /\ s \notin {"init", "sts", "delete", "scale", "upgrade", "refused"}
    BY <1>6, <2>2, <2>3 DEF Moves, ReadInv
  <2>5. CASE s = "status" /\ op.step = "sts"
    <3>1. cache.sts.exists /\ cache.sts.replicas = stored.replicas
          /\ cache.sts.gen = stored.gen
      BY <2>4, <2>5
    <3>2. stored = cache.spec
      BY <2>1 DEF ReadInv
    <3>3. sts.exists
      BY <2>1, <3>1, <3>2 DEF ReadInv
    <3>4. CASE sts.gen = stored.gen /\ sts.replicas = stored.replicas
      BY <2>1, <3>3, <3>4
    <3>5. CASE sts.gen # stored.gen \/ sts.replicas # stored.replicas
      BY <2>1, <3>1, <3>3, <3>5
    <3>. QED
      BY <3>4, <3>5
  <2>6. CASE op.step = "refused"
    <3>1. s = "failing" /\ (OldVersion' \/ forgotten' \/ queue # {})
      BY <2>4, <2>6
    <3>2. CASE OldVersion'
      BY <3>2
    <3>3. CASE queue # {}
      <4>1. "statefulset" \in queue
        BY <2>1, <3>3 DEF TypeInv, TypeOK, Controllers
      <4>. QED
        BY <2>1, <2>6, <4>1
    <3>4. CASE forgotten' /\ queue = {}
      <4>1. cache.sts.replicas = stored.replicas
        BY <2>6, <3>4 DEF ReadInv
      <4>. QED
        BY <2>1, <2>6, <3>4, <4>1 DEF LeftOut
    <3>. QED
      BY <3>1, <3>2, <3>3, <3>4
  <2>7. CASE ~(s = "status" /\ op.step = "sts") /\ op.step # "refused"
    BY <2>1, <2>4, <2>7
  <2>. QED
    BY <2>5, <2>6, <2>7
<1>7. ASSUME NEW s \in Step, PutsOff(s) PROVE WorkInv'
  <2>1. /\ UNCHANGED <<spec, cache, stored, sts>>
        /\ queue' = queue \cup {op.who}
        /\ op.step # "idle"
    BY <1>7, OpSteps DEF PutsOff
  <2>2. "coherence" \notin queue /\ op.who = "statefulset" /\ "statefulset" \in queue'
    BY <2>1 DEF TypeInv, TypeOK, Controllers
  <2>. QED
    BY <2>1, <2>2
<1>8. ASSUME DeleteStatefulSet PROVE WorkInv'
  <2>1. op.step = "delete" /\ UNCHANGED <<cache, stored>> /\ queue' = queue
    BY <1>8, OpSteps DEF DeleteStatefulSet
  <2>2. op.replicas = 0 /\ op.replicas = stored.replicas
    BY <2>1 DEF ReadInv
  <2>. QED
    BY <2>1, <2>2
<1>9. ASSUME Counts PROVE WorkInv'
  BY <1>9 DEF Counts
<1>. QED
  BY <1>1, <1>2, <1>3, <1>4, <1>5, <1>6, <1>7, <1>8, <1>9, StepKinds

\* What updateDeploymentStatus writes tells of the StatefulSet, ...
LEMMA UpdateTells ==
    ASSUME NEW st \in ResourceStatus, NEW replicas \in 0 .. MaxReplicas,
           NEW s \in StatefulSet
    PROVE  Tells(Update(st, replicas, s), replicas, s)
<1>. DEFINE first   == EnsureInitialized(st, replicas)
            current == IF s.exists THEN s.current ELSE 0
            ready   == IF s.exists THEN s.ready ELSE 0
            counted == [first EXCEPT !.current = current, !.ready = ready]
            phase   == PhaseFor(counted, s)
            phased  == IF s.exists THEN SetPhase(counted, phase) ELSE counted
<1>1. first \in ResourceStatus /\ first.replicas = replicas
  BY EnsureInitializedLemma
<1>2. current \in 0 .. MaxReplicas /\ ready \in 0 .. MaxReplicas
  BY Bounds DEF StatefulSet
<1>3. Update(st, replicas, s) = IF replicas = 0 THEN SetPhase(phased, "Stopped") ELSE phased
  BY DEF Update
<1>4. ready = IF s.exists THEN s.ready ELSE 0
  OBVIOUS
<1>5. s.exists => current = s.current
  OBVIOUS
<1>. HIDE DEF first, current, ready
<1>6. /\ counted \in ResourceStatus
      /\ counted.replicas = replicas
      /\ counted.ready = ready
      /\ counted.current = current
  BY <1>1, <1>2 DEF ResourceStatus
<1>. HIDE DEF counted
<1>7. s.currentRevision = s.updateRevision /\ ready = replicas /\ current = replicas =>
        phase = "Ready"
  BY <1>6 DEF PhaseFor
<1>8. phase \in Phases \/ phase = counted.phase
  BY DEF PhaseFor, Phases, Transient
<1>. HIDE DEF phase
<1>9. counted.phase = phase => SetPhase(counted, phase) = counted
  BY DEF SetPhase
<1>10. /\ phased \in ResourceStatus
       /\ s.exists => phased.phase = phase
       /\ phased.ready = ready
       /\ phased.replicas = replicas
  BY <1>6, <1>8, <1>9, SetPhaseLemma
<1>. HIDE DEF phased
<1>11. "Stopped" \in Phases
  BY DEF Phases, Transient
<1>12. CASE replicas = 0
  BY <1>3, <1>4, <1>10, <1>11, <1>12, SetPhaseLemma DEF Tells
<1>13. CASE replicas # 0
  BY <1>3, <1>4, <1>5, <1>7, <1>10, <1>13 DEF Tells
<1>. QED
  BY <1>12, <1>13

\* ... and what it does not write tells of it already.
LEMMA SilentTells ==
    ASSUME NEW st \in ResourceStatus, NEW replicas \in 0 .. MaxReplicas,
           NEW s \in StatefulSet, ~UpdateFlag(st, replicas, s)
    PROVE  Tells(st, replicas, s)
<1>. DEFINE filled == [st EXCEPT !.replicas = replicas, !.labelled = TRUE]
<1>1. /\ filled \in ResourceStatus
      /\ filled.phase = st.phase
      /\ filled.ready = st.ready
      /\ filled.replicas = replicas
      /\ filled.conditions = st.conditions
  BY DEF ResourceStatus
<1>2. /\ ~InitializedFlag(st, replicas)
      /\ Update(st, replicas, s) = EnsureInitialized(st, replicas)
  BY DEF UpdateFlag
<1>3. EnsureInitialized(st, replicas) =
        IF st.conditions["Initialized"] = "None" THEN SetPhase(filled, "Initialized") ELSE filled
  BY DEF EnsureInitialized
<1>4. IF st.conditions["Initialized"] = "None" THEN st.phase = "Initialized"
                                               ELSE st.replicas = replicas
  BY <1>2 DEF InitializedFlag
<1>. HIDE DEF filled
<1>5. EnsureInitialized(st, replicas) = filled
  BY <1>1, <1>3, <1>4 DEF SetPhase
<1>6. Tells(filled, replicas, s)
  BY <1>2, <1>5, UpdateTells
<1>7. CASE st.conditions["Initialized"] = "None"
  BY <1>1, <1>4, <1>6, <1>7 DEF Tells
<1>8. CASE st.conditions["Initialized"] # "None"
  BY <1>1, <1>4, <1>6, <1>8 DEF Tells
<1>. QED
  BY <1>7, <1>8

Told == {"idle", "actions", "record", "stopped", "hash"}

LEMMA ToldStep ==
    ASSUME TypeInv, TypeInv', VersionsInv, ToldInv, [Next]_vars
    PROVE  ToldInv'
<1>. SUFFICES ASSUME queue' = {}, cache'.spec = spec', cache'.status = status',
                     op'.step \in Told
              PROVE  Tells(status', spec'.replicas, cache'.sts)
  BY DEF ToldInv, Told
<1>1. ASSUME NEW n \in 0 .. MaxReplicas, NEW t \in BOOLEAN, Edit(n, t) PROVE FALSE
  <2>1. spec'.gen = spec.gen + 1 /\ cache' = cache
    BY <1>1 DEF Edit
  <2>. QED
    BY <2>1, Generations DEF VersionsInv
<1>2. ~ResourceEvent /\ ~OperatorRestarts
  BY DEF ResourceEvent, OperatorRestarts
<1>3. CASE StatefulSetEvent
  <2>1. /\ sts.exists /\ ~cache.sts.exists
        /\ cache' = [cache EXCEPT !.sts = NewStatefulSet(sts)]
        /\ UNCHANGED <<spec, status, op, queue>>
    BY <1>3 DEF StatefulSetEvent
  <2>2. /\ cache'.spec = cache.spec /\ cache'.status = cache.status
        /\ cache'.sts = NewStatefulSet(sts)
    BY <2>1 DEF TypeInv, TypeOK
  <2>3. cache'.sts.exists /\ cache'.sts.ready = 0
    BY <2>2 DEF NewStatefulSet
  <2>4. Tells(status, spec.replicas, cache.sts)
    BY <2>1, <2>2 DEF ToldInv, Told
  <2>. QED
    BY <2>1, <2>3, <2>4, Numbers DEF Tells
<1>4. \A c \in Controllers : ~BeginReconcile(c)
  BY OpSteps DEF Told
<1>5. ~Creates /\ ~Scale /\ ~Upgrade /\ ~DeleteStatefulSet
  BY OpSteps DEF Told
<1>6. \A s \in Step : ~PutsOff(s)
  BY OpSteps
<1>7. ASSUME NEW s \in Step, Moves(s)
      PROVE  Tells(status', spec'.replicas, cache'.sts)
  <2>1. UNCHANGED <<spec, cache, queue>> /\ s \in Told
    BY <1>7, OpSteps DEF Moves
  <2>2. ReportStatus \/ ExecActions \/ RecordActions \/ FinishReconcile \/ RecordHash
    BY <1>7, <2>1 DEF Moves, Told
  <2>3. CASE ReportStatus
    <3>1. ~(MustReport /\ OldVersion)
      BY <1>6, <2>3 DEF ReportStatus, Fails, GoToAndRequeue, Requeue, PutsOff, TypeInv, TypeOK
    <3>2. status' = IF MustReport THEN Update(status, spec.replicas, cache.sts) ELSE status
      BY <2>3, <3>1 DEF ReportStatus
    <3>3. CASE MustReport
      BY <2>1, <3>2, <3>3, StatusTypes, UpdateTells
    <3>4. CASE ~MustReport
      BY <2>1, <3>2, <3>4, StatusTypes, SilentTells DEF MustReport
    <3>. QED
      BY <3>3, <3>4
  <2>4. CASE ExecActions \/ RecordActions \/ FinishReconcile \/ RecordHash
    <3>1. op.step \in Told
      BY <2>4 DEF ExecActions, RecordActions, FinishReconcile, RecordHash, Told
    <3>2. status' = status \/ \E new : MergePatch(new)
      BY <2>4 DEF ExecActions, RecordActions, FinishReconcile, RecordHash
    <3>3. status' = status
      BY <2>1, <3>2, StatusTypes, PatchShows
    <3>. QED
      BY <2>1, <3>1, <3>3 DEF ToldInv, Told
  <2>. QED
    BY <2>2, <2>3, <2>4
<1>8. CASE Counts
  BY <1>8 DEF Counts, ToldInv, Told
<1>. QED
  BY <1>1, <1>2, <1>3, <1>4, <1>5, <1>6, <1>7, <1>8, StepKinds

-----------------------------------------------------------------------------
\* The status has nothing left to tell when the operator has nothing left to do,
\* for any number of replicas, edits and faults, whatever the informers show and
\* whenever the user edits: patches from old copies, updates that are refused,
\* failed calls, the Failed phase and restarts included.
THEOREM NothingIsUntold == Spec => []NothingUntold
<1>. DEFINE Inv == VersionsInv /\ ReadInv /\ WorkInv /\ ToldInv
<1>1. ASSUME Init, TypeInv PROVE Inv
  <2>1. /\ cache.spec = spec /\ cache.sts = sts /\ stored = spec /\ spec.gen = 1
        /\ queue = {"coherence"} /\ op.step = "idle"
    BY <1>1 DEF Init, Live
  <2>2. ~sts.exists /\ sts.ready = 0 /\ sts.gen = 1
    BY <1>1 DEF Init, NoStatefulSet, NewStatefulSet
  <2>. QED
    BY <2>1, <2>2 DEF VersionsInv, ReadInv, WorkInv, ToldInv
<1>2. ASSUME TypeInv, Inv, [Next]_vars, TypeInv' PROVE Inv'
  BY <1>2, VersionsStep, ReadStep, WorkStep, ToldStep
<1>3. ASSUME TypeInv, Inv, Quiet PROVE NothingUntold
  <2>1. /\ cache.spec = spec /\ cache.status = status /\ cache.sts = sts
        /\ op.step = "idle" /\ queue = {} /\ ~OldVersion
    BY <1>3 DEF Quiet, Fresh, Live, OldVersion
  <2>2. stored = spec
    BY <1>3, <2>1 DEF ReadInv
  <2>3. Tells(status, spec.replicas, sts)
    BY <1>3, <2>1 DEF ToldInv
  <2>4. ~sts.exists => sts.ready = 0
    BY <1>3 DEF ReadInv
  <2>5. spec.replicas > 0 =>
          sts.exists /\ (sts.gen = spec.gen \/ forgotten) /\ sts.replicas = spec.replicas
    BY <1>3, <2>1, <2>2 DEF WorkInv, Lags, LeftOut
  <2>6. sts.exists => /\ sts.current = sts.replicas /\ sts.ready = sts.replicas
                      /\ sts.currentRevision = sts.updateRevision
    BY <1>3 DEF Quiet
  <2>7. spec.replicas = 0 \/ spec.replicas > 0
    BY <1>3, Numbers
  <2>. QED
    BY <2>3, <2>4, <2>5, <2>6, <2>7 DEF Tells, NothingUntold
<1>4. TypeInv /\ Inv => NothingUntold
  BY <1>3 DEF NothingUntold
<1>. QED
  BY <1>1, <1>2, <1>4, TypeInvariance, PTL DEF Spec
=============================================================================
