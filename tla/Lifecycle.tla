------------------------------ MODULE Lifecycle ------------------------------
(***************************************************************************)
(* How a Coherence resource ends: it is scaled to zero, deleted with the   *)
(* operator's finalizer, or deleted without it, and the operator suspends  *)
(* the Coherence services before the members go, over failures, restarts   *)
(* and a user who changes his mind.                                        *)
(*                                                                         *)
(* The replica count is zero or not; the services of the cluster are one.  *)
(* The StatefulSet's updates are in StatefulSetReconciler.                 *)
(*                                                                         *)
(* A definition whose name ends in _Word is a plausible bug in the one it  *)
(* is named after: the property checks show that they notice it.           *)
(***************************************************************************)
EXTENDS Integers

CONSTANTS
    Members,     \* the Pods of the StatefulSet
    MaxEdits,    \* bound: how often the user edits or deletes the resource
    MaxFaults    \* bound: failed calls, failed Pods and operator restarts

ASSUME LifecycleAssumption ==
    /\ Members \in Nat \ {0}
    /\ MaxEdits \in Nat
    /\ MaxFaults \in Nat

VARIABLES
    res,       \* the Coherence resource in the API server
    sts,       \* the StatefulSet: is there one, and its ready Pods
    services,  \* the partitioned services of the cluster
    cache,     \* the operator's informers
    op,        \* the reconcile that holds the lock
    queue,     \* the controllers with a request in their work queue
    disturbed, \* history: an edit before the last was dealt with, or no Pod ready
    unclean,   \* history: members went with services that were to be suspended
    refused,   \* history: the API server refused to delete the StatefulSet
    faults     \* how many faults have happened

vars == <<res, sts, services, cache, op, queue, disturbed, unclean, refused, faults>>

Controllers == {"coherence", "statefulset"}

Wishes ==
    [up: BOOLEAN,       \* are there to be replicas?
     suspend: BOOLEAN,  \* spec.suspendServicesOnShutdown
     unsafe: BOOLEAN,   \* spec.allowUnsafeDelete
     bypass: BOOLEAN]   \* the finalizer-bypass annotation
Resource ==
    [exists: BOOLEAN, deleting: BOOLEAN, finalizer: BOOLEAN, wish: Wishes,
     errors: BOOLEAN,   \* has the error handler counted more than three errors?
     edits: 0 .. MaxEdits]
StatefulSet == [exists: BOOLEAN, ready: 0 .. Members]

TypeOK ==
    /\ res \in Resource
    /\ sts \in StatefulSet
    /\ services \in {"running", "suspended", "resumed"}
    /\ cache \in [res: Resource, sts: StatefulSet]
    /\ op \in [step: {"idle", "finalize", "release", "guard", "sts", "stop", "delete"},
               who: Controllers, read: Resource]
    /\ queue \in SUBSET Controllers
    /\ disturbed \in BOOLEAN
    /\ unclean \in BOOLEAN
    /\ refused \in BOOLEAN
    /\ faults \in 0 .. MaxFaults

NoStatefulSet  == [exists |-> FALSE, ready |-> 0]
NewStatefulSet == [exists |-> TRUE, ready |-> 0]
Live == [res |-> res, sts |-> sts]

Guarded == res.finalizer = ~res.wish.unsafe

AsWished ==
    IF res.exists
    THEN ~res.deleting /\ Guarded /\ sts.exists = res.wish.up
    ELSE ~sts.exists

\* Nothing is queued or at work, the Pods are up and the informers have told so.
Quiet ==
    /\ op.step = "idle"
    /\ queue = {}
    /\ cache = Live
    /\ sts.exists => sts.ready = Members

Settled == Quiet /\ AsWished

Init ==
    /\ res \in [exists: {TRUE}, deleting: {FALSE}, finalizer: {FALSE},
                wish: {w \in Wishes : ~w.bypass}, errors: {FALSE}, edits: {0}]
    /\ sts = NoStatefulSet
    /\ services = "running"
    /\ cache = Live
    /\ op = [step |-> "idle", who |-> "coherence", read |-> res]
    /\ queue = {"coherence"}
    /\ disturbed = FALSE
    /\ unclean = FALSE
    /\ refused = FALSE
    /\ faults = 0

Faulty == faults < MaxFaults /\ faults' = faults + 1

(***************************************************************************)
(* The user.                                                               *)
(***************************************************************************)
Acts ==
    /\ res.exists
    /\ res.edits < MaxEdits
    /\ disturbed' = (disturbed \/ ~Settled)
    /\ UNCHANGED <<sts, services, cache, op, queue, unclean, refused, faults>>

Edit(wish) ==
    /\ wish # res.wish
    /\ res' = [res EXCEPT !.wish = wish, !.edits = @ + 1]
    /\ Acts

\* A finalizer keeps the resource until it is removed.
Delete ==
    /\ ~res.deleting
    /\ res' = [res EXCEPT !.deleting = TRUE, !.exists = res.finalizer, !.edits = @ + 1]
    /\ Acts

(***************************************************************************)
(* The informers: a creation of a StatefulSet queues nothing.              *)
(***************************************************************************)
ResourceEvent ==
    /\ cache.res # res
    /\ cache' = [cache EXCEPT !.res = res]
    /\ queue' = queue \cup {"coherence"}
    /\ UNCHANGED <<res, sts, services, op, disturbed, unclean, refused, faults>>

StatefulSetEvent ==
    /\ cache.sts # sts
    /\ IF sts.exists /\ ~cache.sts.exists
       THEN cache' = [cache EXCEPT !.sts = NewStatefulSet] /\ UNCHANGED queue
       ELSE /\ cache' = [cache EXCEPT !.sts = sts]
            /\ queue' = queue \cup {"statefulset"}
    /\ UNCHANGED <<res, sts, services, op, disturbed, unclean, refused, faults>>

(***************************************************************************)
(* The reconciles.  One runs at a time: both controllers lock the name.    *)
(***************************************************************************)
GoTo(step) == op' = [op EXCEPT !.step = step] /\ UNCHANGED queue
FinishAndRequeue_Forgotten == GoTo("idle")
FinishAndRequeue == op' = [op EXCEPT !.step = "idle"] /\ queue' = queue \cup {op.who}

FirstStep_Finalizes(r) ==
    CASE ~r.exists -> "idle"
      [] r.exists /\ r.finalizer /\ (r.deleting \/ r.wish.unsafe) -> "finalize"
      [] r.exists /\ ~r.finalizer /\ r.deleting -> "idle"
      [] r.exists /\ ~r.deleting /\ r.finalizer = ~r.wish.unsafe -> "sts"
      [] r.exists /\ ~r.deleting /\ ~r.finalizer /\ ~r.wish.unsafe -> "guard"

\* Where the main reconcile of a resource begins.
FirstStep(r) ==
    CASE ~r.exists -> "idle"
      [] r.exists /\ r.deleting -> IF r.finalizer THEN "finalize" ELSE "idle"
      [] r.exists /\ ~r.deleting /\ r.wish.unsafe ->
            IF r.finalizer THEN "release" ELSE "sts"
      [] r.exists /\ ~r.deleting /\ ~r.wish.unsafe ->
            IF r.finalizer THEN "sts" ELSE "guard"

BeginReconcile(c) ==
    /\ op.step = "idle"
    /\ c \in queue
    /\ queue' = queue \ {c}
    /\ op' = [step |-> IF c = "coherence" THEN FirstStep(cache.res) ELSE "sts",
              who |-> c, read |-> cache.res]
    /\ UNCHANGED <<res, sts, services, cache, disturbed, unclean, refused, faults>>

\* The suspension of the services needs every Pod to be ready.
CanSuspend == ~sts.exists \/ sts.ready = Members
Suspended(done) == services' = IF done /\ sts.exists THEN "suspended" ELSE services

MaySkip_Ready(r) ==
    \/ r.wish.bypass \/ ~r.wish.suspend \/ ~r.wish.up
    \/ ~cache.sts.exists \/ cache.sts.ready < Members

\* FinalizeDeployment has nothing to suspend, or is told not to.
MaySkip(r) ==
    \/ r.wish.bypass \/ ~r.wish.suspend \/ ~r.wish.up
    \/ ~cache.sts.exists \/ cache.sts.ready = 0

\* After too many errors of any kind a suspension that fails is let pass.
FinalizeDeployment ==
    /\ op.step = "finalize"
    /\ LET suspends == ~MaySkip(op.read)
       IN  /\ Suspended(suspends /\ CanSuspend)
           /\ IF suspends /\ ~CanSuspend /\ ~op.read.errors THEN FinishAndRequeue
                                                             ELSE GoTo("release")
    /\ UNCHANGED <<res, sts, cache, disturbed, unclean, refused, faults>>

Released_Touched == [res EXCEPT !.finalizer = FALSE, !.exists = ~res.deleting,
                                !.edits = @ + 1]

\* Without its last finalizer a resource that is being deleted is gone.
Released == [res EXCEPT !.finalizer = FALSE, !.exists = ~res.deleting]

\* EnsureFinalizerRemoved updates the object it read: the API server refuses
\* that if there is a newer one.  A resource that is not being deleted goes on.
RemoveFinalizer ==
    /\ op.step = "release"
    /\ IF res.exists /\ res # op.read
       THEN FinishAndRequeue /\ UNCHANGED res
       ELSE /\ res' = IF res.exists THEN Released ELSE res
            /\ GoTo(IF op.read.deleting THEN "idle" ELSE "sts")
    /\ UNCHANGED <<sts, services, cache, disturbed, unclean, refused, faults>>

\* EnsureFinalizerApplied patches the finalizer in, and requeues.  A resource
\* that is being deleted takes no new one.
ApplyFinalizer ==
    /\ op.step = "guard"
    /\ res' = [res EXCEPT !.finalizer = @ \/ (res.exists /\ ~res.deleting)]
    /\ FinishAndRequeue
    /\ UNCHANGED <<sts, services, cache, disturbed, unclean, refused, faults>>

CreateStatefulSet ==
    /\ op.step = "sts"
    /\ ~cache.sts.exists
    /\ op.who = "coherence"
    /\ op.read.wish.up
    /\ IF sts.exists
       THEN FinishAndRequeue /\ UNCHANGED <<sts, services>>
       ELSE sts' = NewStatefulSet /\ services' = "running" /\ GoTo("idle")
    /\ UNCHANGED <<res, cache, disturbed, unclean, refused, faults>>

\* Nothing to create or delete.
NothingToDo ==
    /\ op.step = "sts"
    /\ ~cache.sts.exists
    /\ op.who = "statefulset" \/ ~op.read.wish.up
    /\ GoTo("idle")
    /\ UNCHANGED <<res, sts, services, cache, disturbed, unclean, refused, faults>>

\* The main reconcile of a resource that has been stopped and started again
\* patches a StatefulSet of an older generation; if that has gone, it fails.
UpdateStatefulSet ==
    /\ op.step = "sts"
    /\ cache.sts.exists
    /\ op.read.exists
    /\ op.read.wish.up
    /\ IF op.who = "coherence" /\ ~sts.exists THEN FinishAndRequeue ELSE GoTo("idle")
    /\ UNCHANGED <<res, sts, services, cache, disturbed, unclean, refused, faults>>

\* The owner has gone: what looks for it returns a nil pointer in an interface
\* that is not nil, and the reconcile panics, which requeues it.
OwnerIsGone ==
    /\ op.step = "sts"
    /\ cache.sts.exists
    /\ ~op.read.exists
    /\ FinishAndRequeue
    /\ UNCHANGED <<res, sts, services, cache, disturbed, unclean, refused, faults>>

StopStatefulSet ==
    /\ op.step = "sts"
    /\ cache.sts.exists
    /\ op.read.exists
    /\ ~op.read.wish.up
    /\ GoTo(IF op.read.wish.suspend THEN "stop" ELSE "delete")
    /\ UNCHANGED <<res, sts, services, cache, disturbed, unclean, refused, faults>>

\* Before the StatefulSet is deleted to scale to zero; no error count lets it pass.
SuspendServices ==
    /\ op.step = "stop"
    /\ Suspended(CanSuspend)
    /\ IF CanSuspend THEN GoTo("delete") ELSE FinishAndRequeue
    /\ UNCHANGED <<res, sts, cache, disturbed, unclean, refused, faults>>

\* The members go with the StatefulSet.  The user did not want it cleanly if
\* the services were not to be suspended, or the resource was to go anyhow.
MembersGo(excused) ==
    /\ sts' = NoStatefulSet
    /\ unclean' = (unclean \/ (/\ sts.ready > 0
                               /\ services = "running"
                               /\ res.wish.suspend
                               /\ ~excused))

DeleteStatefulSet ==
    /\ op.step = "delete"
    /\ MembersGo(FALSE)
    /\ GoTo("idle")
    /\ UNCHANGED <<res, services, cache, disturbed, refused, faults>>

(***************************************************************************)
(* What may fail.                                                          *)
(***************************************************************************)
CallFails ==
    /\ op.step \in {"finalize", "release", "guard", "stop"}
    /\ Faulty
    /\ FinishAndRequeue
    /\ UNCHANGED <<res, sts, services, cache, disturbed, unclean, refused>>

\* A refused deletion is logged, and taken for done.
DeleteFails ==
    /\ op.step = "delete"
    /\ Faulty
    /\ refused' = TRUE
    /\ GoTo("idle")
    /\ UNCHANGED <<res, sts, services, cache, disturbed, unclean>>

\* The error handler counts errors that have nothing to do with suspension.
OtherErrors ==
    /\ res.exists
    /\ Faulty
    /\ res' = [res EXCEPT !.errors = TRUE]
    /\ UNCHANGED <<sts, services, cache, op, queue, disturbed, unclean, refused>>

OperatorRestarts ==
    /\ Faulty
    /\ op' = [op EXCEPT !.step = "idle"]
    /\ cache' = Live
    /\ queue' = {"coherence"}
    /\ UNCHANGED <<res, sts, services, disturbed, unclean, refused>>

PodFails ==
    /\ sts.ready > 0
    /\ Faulty
    /\ disturbed' = (disturbed \/ sts.ready = 1)
    /\ sts' = [sts EXCEPT !.ready = @ - 1]
    /\ UNCHANGED <<res, services, cache, op, queue, unclean, refused>>

(***************************************************************************)
(* Kubernetes and the Coherence cluster (external).                        *)
(***************************************************************************)

\* A member that starts resumes what is suspended (resumeServicesOnStartup).
PodIsReady ==
    /\ sts.exists
    /\ sts.ready < Members
    /\ sts' = [sts EXCEPT !.ready = @ + 1]
    /\ services' = IF services = "suspended" THEN "resumed" ELSE services
    /\ UNCHANGED <<res, cache, op, queue, disturbed, unclean, refused, faults>>

\* The garbage collector: a resource that is gone takes its StatefulSet along.
CollectStatefulSet ==
    /\ ~res.exists
    /\ sts.exists
    /\ MembersGo(res.wish.unsafe \/ res.wish.bypass \/ res.errors)
    /\ UNCHANGED <<res, services, cache, op, queue, disturbed, refused, faults>>

(***************************************************************************)
(* The specification.                                                      *)
(***************************************************************************)
Reconcile ==
    \/ FinalizeDeployment \/ RemoveFinalizer \/ ApplyFinalizer
    \/ CreateStatefulSet \/ NothingToDo \/ UpdateStatefulSet \/ OwnerIsGone
    \/ StopStatefulSet \/ SuspendServices \/ DeleteStatefulSet

Next ==
    \/ \E wish \in Wishes : Edit(wish)
    \/ Delete
    \/ ResourceEvent \/ StatefulSetEvent
    \/ \E c \in Controllers : BeginReconcile(c)
    \/ Reconcile
    \/ CallFails \/ DeleteFails \/ OtherErrors \/ OperatorRestarts \/ PodFails
    \/ PodIsReady \/ CollectStatefulSet

Spec == Init /\ [][Next]_vars

\* Informers, work queues, Pods and the garbage collector go on until they are
\* done.
Fairness ==
    /\ WF_vars(ResourceEvent)
    /\ WF_vars(StatefulSetEvent)
    /\ \A c \in Controllers : WF_vars(BeginReconcile(c))
    /\ WF_vars(Reconcile)
    /\ WF_vars(PodIsReady)
    /\ WF_vars(CollectStatefulSet)

FairSpec == Spec /\ Fairness

(***************************************************************************)
(* Correctness properties.                                                 *)
(***************************************************************************)

\* Services are suspended "before a deployment is stopped" (the comment on
\* SuspendServicesOnShutdown): members never go with running services, unless the
\* user wanted that, edited again before the last edit was dealt with (replicas 0
\* and a deletion), or the informer showed no ready Pod.
CleanShutdown == unclean => disturbed

\* No wish is forgotten, however the user's edits, copies that lag, refused
\* updates and restarts meet: when nothing will start another reconcile, the
\* resource has the finalizer that it should have, is not waiting for one to be
\* removed, and its StatefulSet is there or gone as the user wants, but for one
\* whose deletion was refused.
NoWishForgotten == Quiet /\ res.exists => AsWished \/ refused

\* In the end the resource and its StatefulSet are there or gone as the user
\* wants, and it has the finalizer that it should have; only a StatefulSet whose
\* deletion was refused may stay.
EventuallyAsWished == <>[](AsWished \/ (refused /\ res.exists))

\* A deployment that the user wants is not left with suspended services, unless
\* something failed while he changed his mind.
EventuallyServing ==
    <>[](res.exists /\ ~res.deleting /\ res.wish.up
           => services # "suspended" \/ (disturbed /\ faults > 0))
=============================================================================
