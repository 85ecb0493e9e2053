--------------------------- MODULE LifecycleProofs ---------------------------
(***************************************************************************)
(* Theorems about Lifecycle, for any number of Pods, edits and faults.     *)
(***************************************************************************)
EXTENDS Lifecycle, TLAPS

-----------------------------------------------------------------------------
(***************************************************************************)
(* The inductive invariant.  A user who edits only what is settled leaves  *)
(* a reconcile at most one old resource to read, and that one was as the   *)
(* user wanted it.                                                         *)
(***************************************************************************)

\* Does a resource that was read say of what the user wants the same as the
\* live one? If not, does nothing happen by what it says?
Same(r) == r.wish = res.wish /\ r.deleting = res.deleting
Harmless(r) == ~r.wish.up => ~sts.exists

\* The main reconcile does not run before the informer has the user's edit.
ReadsInv ==
    ~disturbed =>
      /\ Same(cache.res) \/ ("coherence" \notin queue /\ Harmless(cache.res))
      /\ op.step # "idle" => \/ Same(op.read) /\ Same(cache.res)
                             \/ op.who = "statefulset" /\ Harmless(op.read)

\* What a reconcile that got to a step has read and done.
StepsInv ==
    /\ ~sts.exists => sts.ready = 0
    /\ ~res.exists => res.deleting
    /\ op.step \in {"finalize", "release"} => op.who = "coherence"
    /\ op.step \in {"stop", "delete"} => ~op.read.wish.up
    /\ op.step = "sts" /\ op.who = "coherence" => ~op.read.deleting
    /\ op.step = "delete" /\ op.read.wish.suspend => services # "running" \/ ~sts.exists

\* A resource that is deleted has its StatefulSet, with ready Pods that the
\* informer shows, until the garbage collector takes both.  The finalizer is
\* removed after the services have been suspended, or for a reason not to.
DeletedInv ==
    ~disturbed =>
      /\ res.deleting /\ ~res.wish.up => ~sts.exists
      /\ res.deleting /\ res.wish.up =>
           \/ sts.exists /\ sts.ready > 0 /\ cache.sts.exists /\ cache.sts.ready > 0
           \/ ~res.exists /\ ~sts.exists
      /\ op.step = "release" /\ op.read.deleting =>
           \/ op.read.wish.bypass \/ ~op.read.wish.suspend \/ op.read.errors
           \/ services # "running" \/ ~sts.exists
      /\ ~res.exists =>
           \/ res.wish.unsafe \/ res.wish.bypass \/ res.errors \/ ~res.wish.suspend
           \/ services # "running" \/ ~sts.exists

IInv == TypeOK /\ StepsInv /\ ReadsInv /\ DeletedInv /\ CleanShutdown

LEMMA Bounds == Members \in Nat \ {0} /\ MaxEdits \in Nat /\ MaxFaults \in Nat
BY LifecycleAssumption

-----------------------------------------------------------------------------
(***************************************************************************)
(* Types.                                                                  *)
(***************************************************************************)
LEMMA EditType ==
    ASSUME res \in Resource, res.edits < MaxEdits, NEW wish \in Wishes
    PROVE  [res EXCEPT !.wish = wish, !.edits = @ + 1] \in Resource
<1>1. res.edits + 1 \in 0 .. MaxEdits
  BY Bounds DEF Resource
<1>. QED
  BY <1>1 DEF Resource

LEMMA DeleteType ==
    ASSUME res \in Resource, res.edits < MaxEdits
    PROVE  [res EXCEPT !.deleting = TRUE, !.exists = res.finalizer, !.edits = @ + 1] \in Resource
<1>1. res.edits + 1 \in 0 .. MaxEdits /\ res.finalizer \in BOOLEAN
  BY Bounds DEF Resource
<1>. QED
  BY <1>1 DEF Resource

LEMMA ReleasedType ==
    ASSUME res \in Resource
    PROVE  /\ Released \in Resource
           /\ Released.exists = ~res.deleting
           /\ Released.deleting = res.deleting
           /\ Released.wish = res.wish
           /\ Released.errors = res.errors
           /\ Released.edits = res.edits
           /\ Released.finalizer = FALSE
<1>. DEFINE there == ~res.deleting
<1>1. there \in BOOLEAN /\ Released = [res EXCEPT !.finalizer = FALSE, !.exists = there]
  BY DEF Released
<1>. HIDE DEF there
<1>2. /\ Released \in Resource
      /\ Released.exists = there
      /\ Released.deleting = res.deleting
      /\ Released.wish = res.wish
      /\ Released.errors = res.errors
      /\ Released.edits = res.edits
      /\ Released.finalizer = FALSE
  BY <1>1 DEF Resource
<1>. QED
  BY <1>2 DEF there

LEMMA ErrorsType ==
    ASSUME res \in Resource
    PROVE  [res EXCEPT !.errors = TRUE] \in Resource
BY DEF Resource

LEMMA StatefulSetTypes ==
    /\ NoStatefulSet \in StatefulSet
    /\ NewStatefulSet \in StatefulSet
BY Bounds DEF StatefulSet, NoStatefulSet, NewStatefulSet

LEMMA TypeStep == ASSUME TypeOK, [Next]_vars PROVE TypeOK'
<1>. USE Bounds DEF TypeOK
<1>1. ASSUME NEW wish \in Wishes, Edit(wish) PROVE TypeOK'
  BY <1>1, EditType DEF Edit, Acts
<1>2. CASE Delete
  BY <1>2, DeleteType DEF Delete, Acts
<1>3. CASE ResourceEvent
  BY <1>3 DEF ResourceEvent, Resource, Controllers
<1>4. CASE StatefulSetEvent
  BY <1>4, StatefulSetTypes DEF StatefulSetEvent, Controllers
<1>5. ASSUME NEW c \in Controllers, BeginReconcile(c) PROVE TypeOK'
  BY <1>5 DEF BeginReconcile, FirstStep, Controllers
<1>6. CASE FinalizeDeployment
  BY <1>6 DEF FinalizeDeployment, Suspended, CanSuspend, MaySkip, GoTo, FinishAndRequeue, Resource
<1>7. CASE RemoveFinalizer
  BY <1>7, ReleasedType DEF RemoveFinalizer, GoTo, FinishAndRequeue
<1>8. CASE ApplyFinalizer
  BY <1>8 DEF ApplyFinalizer, FinishAndRequeue, Resource
<1>9. CASE CreateStatefulSet
  BY <1>9, StatefulSetTypes DEF CreateStatefulSet, GoTo, FinishAndRequeue
<1>10. CASE NothingToDo
  BY <1>10 DEF NothingToDo, GoTo
<1>11. CASE UpdateStatefulSet
  BY <1>11 DEF UpdateStatefulSet, GoTo, FinishAndRequeue
<1>12. CASE OwnerIsGone
  BY <1>12 DEF OwnerIsGone, FinishAndRequeue
<1>13. CASE StopStatefulSet
  BY <1>13 DEF StopStatefulSet, GoTo
<1>14. CASE SuspendServices
  BY <1>14 DEF SuspendServices, Suspended, CanSuspend, GoTo, FinishAndRequeue
<1>15. CASE DeleteStatefulSet
  BY <1>15, StatefulSetTypes DEF DeleteStatefulSet, MembersGo, GoTo
<1>16. CASE CallFails
  BY <1>16 DEF CallFails, FinishAndRequeue, Faulty
<1>17. CASE DeleteFails
  BY <1>17 DEF DeleteFails, GoTo, Faulty
<1>18. CASE OtherErrors
  <2>1. res' \in Resource
    BY <1>18, ErrorsType DEF OtherErrors
  <2>2. faults' \in 0 .. MaxFaults
    BY <1>18 DEF OtherErrors, Faulty
  <2>. QED
    BY <1>18, <2>1, <2>2 DEF OtherErrors
<1>19. CASE OperatorRestarts
  BY <1>19 DEF OperatorRestarts, Live, Faulty, Controllers
<1>20. CASE PodFails
  BY <1>20 DEF PodFails, Faulty, StatefulSet
<1>21. CASE PodIsReady
  BY <1>21 DEF PodIsReady, StatefulSet
<1>22. CASE CollectStatefulSet
  BY <1>22, StatefulSetTypes DEF CollectStatefulSet, MembersGo
<1>23. CASE UNCHANGED vars
  BY <1>23 DEF vars
<1>. QED
  BY <1>1, <1>2, <1>3, <1>4, <1>5, <1>6, <1>7, <1>8, <1>9, <1>10, <1>11, <1>12,
     <1>13, <1>14, <1>15, <1>16, <1>17, <1>18, <1>19, <1>20, <1>21, <1>22, <1>23 DEF Next, Reconcile

-----------------------------------------------------------------------------
(***************************************************************************)
(* The invariants that the steps keep.                                     *)
(***************************************************************************)
\* What a reconcile has read and done, whatever the user does.
LEMMA StepsStep == ASSUME TypeOK, TypeOK', StepsInv, [Next]_vars PROVE StepsInv'
<1>. USE Bounds DEF TypeOK, Resource, StatefulSet, Wishes, StepsInv
<1>1. ASSUME NEW wish \in Wishes, Edit(wish) PROVE StepsInv'
  BY <1>1 DEF Edit, Acts
<1>2. CASE Delete
  BY <1>2 DEF Delete, Acts
<1>3. CASE ResourceEvent
  BY <1>3 DEF ResourceEvent
<1>4. CASE StatefulSetEvent
  BY <1>4 DEF StatefulSetEvent, NewStatefulSet
<1>5. ASSUME NEW c \in Controllers, BeginReconcile(c) PROVE StepsInv'
  BY <1>5 DEF BeginReconcile, FirstStep, Controllers
<1>6. CASE FinalizeDeployment
  BY <1>6 DEF FinalizeDeployment, Suspended, CanSuspend, MaySkip, GoTo, FinishAndRequeue
<1>7. CASE RemoveFinalizer
  BY <1>7, ReleasedType DEF RemoveFinalizer, GoTo, FinishAndRequeue
<1>8. CASE ApplyFinalizer
  BY <1>8 DEF ApplyFinalizer, FinishAndRequeue
<1>9. CASE CreateStatefulSet
  BY <1>9 DEF CreateStatefulSet, NewStatefulSet, GoTo, FinishAndRequeue
<1>10. CASE NothingToDo
  BY <1>10 DEF NothingToDo, GoTo
<1>11. CASE UpdateStatefulSet
  BY <1>11 DEF UpdateStatefulSet, GoTo, FinishAndRequeue
<1>12. CASE OwnerIsGone
  BY <1>12 DEF OwnerIsGone, FinishAndRequeue
<1>13. CASE StopStatefulSet
  BY <1>13 DEF StopStatefulSet, GoTo
<1>14. CASE SuspendServices
  BY <1>14 DEF SuspendServices, Suspended, CanSuspend, GoTo, FinishAndRequeue
<1>15. CASE DeleteStatefulSet
  BY <1>15 DEF DeleteStatefulSet, MembersGo, NoStatefulSet, GoTo
<1>16. CASE CallFails
  BY <1>16 DEF CallFails, FinishAndRequeue, Faulty
<1>17. CASE DeleteFails
  BY <1>17 DEF DeleteFails, GoTo, Faulty
<1>18. CASE OtherErrors
  BY <1>18 DEF OtherErrors, Faulty
<1>19. CASE OperatorRestarts
  BY <1>19 DEF OperatorRestarts, Live, Faulty
<1>20. CASE PodFails
  BY <1>20 DEF PodFails, Faulty
<1>21. CASE PodIsReady
  BY <1>21 DEF PodIsReady
<1>22. CASE CollectStatefulSet
  BY <1>22 DEF CollectStatefulSet, MembersGo, NoStatefulSet
<1>23. CASE UNCHANGED vars
  BY <1>23 DEF vars
<1>. QED
  BY <1>1, <1>2, <1>3, <1>4, <1>5, <1>6, <1>7, <1>8, <1>9, <1>10, <1>11, <1>12,
     <1>13, <1>14, <1>15, <1>16, <1>17, <1>18, <1>19, <1>20, <1>21, <1>22, <1>23 DEF Next, Reconcile

\* An edit finds everything settled, so that what the informer has then is
\* as the user wanted it, and the edit reaches it before the main reconcile runs.
LEMMA ReadsStep == ASSUME TypeOK, TypeOK', StepsInv, ReadsInv, DeletedInv, [Next]_vars PROVE ReadsInv'
<1>. USE Bounds DEF TypeOK, Resource, StatefulSet, Wishes, StepsInv, ReadsInv, DeletedInv, Same, Harmless
<1>1. ASSUME NEW wish \in Wishes, Edit(wish) PROVE ReadsInv'
  BY <1>1 DEF Edit, Acts, Settled, Quiet, AsWished, Live
<1>2. CASE Delete
  BY <1>2 DEF Delete, Acts, Settled, Quiet, AsWished, Live
<1>3. CASE ResourceEvent
  BY <1>3 DEF ResourceEvent
<1>4. CASE StatefulSetEvent
  BY <1>4 DEF StatefulSetEvent, NewStatefulSet
<1>5. ASSUME NEW c \in Controllers, BeginReconcile(c) PROVE ReadsInv'
  BY <1>5 DEF BeginReconcile, FirstStep, Controllers
<1>6. CASE FinalizeDeployment
  BY <1>6 DEF FinalizeDeployment, Suspended, CanSuspend, MaySkip, GoTo, FinishAndRequeue
<1>7. CASE RemoveFinalizer
  BY <1>7, ReleasedType DEF RemoveFinalizer, GoTo, FinishAndRequeue
<1>8. CASE ApplyFinalizer
  BY <1>8 DEF ApplyFinalizer, FinishAndRequeue
<1>9. CASE CreateStatefulSet
  BY <1>9 DEF CreateStatefulSet, NewStatefulSet, GoTo, FinishAndRequeue
<1>10. CASE NothingToDo
  BY <1>10 DEF NothingToDo, GoTo
<1>11. CASE UpdateStatefulSet
  BY <1>11 DEF UpdateStatefulSet, GoTo, FinishAndRequeue
<1>12. CASE OwnerIsGone
  BY <1>12 DEF OwnerIsGone, FinishAndRequeue
<1>13. CASE StopStatefulSet
  BY <1>13 DEF StopStatefulSet, GoTo
<1>14. CASE SuspendServices
  BY <1>14 DEF SuspendServices, Suspended, CanSuspend, GoTo, FinishAndRequeue
<1>15. CASE DeleteStatefulSet
  BY <1>15 DEF DeleteStatefulSet, MembersGo, NoStatefulSet, GoTo
<1>16. CASE CallFails
  BY <1>16 DEF CallFails, FinishAndRequeue, Faulty
<1>17. CASE DeleteFails
  BY <1>17 DEF DeleteFails, GoTo, Faulty
<1>18. CASE OtherErrors
  BY <1>18 DEF OtherErrors, Faulty
<1>19. CASE OperatorRestarts
  BY <1>19 DEF OperatorRestarts, Live, Faulty
<1>20. CASE PodFails
  BY <1>20 DEF PodFails, Faulty
<1>21. CASE PodIsReady
  BY <1>21 DEF PodIsReady
<1>22. CASE CollectStatefulSet
  BY <1>22 DEF CollectStatefulSet, MembersGo, NoStatefulSet
<1>23. CASE UNCHANGED vars
  BY <1>23 DEF vars
<1>. QED
  BY <1>1, <1>2, <1>3, <1>4, <1>5, <1>6, <1>7, <1>8, <1>9, <1>10, <1>11, <1>12,
     <1>13, <1>14, <1>15, <1>16, <1>17, <1>18, <1>19, <1>20, <1>21, <1>22, <1>23 DEF Next, Reconcile

\* A deletion finds everything settled, so that there are ready Pods and
\* services to suspend if there is a StatefulSet.
LEMMA DeletedStep == ASSUME TypeOK, TypeOK', StepsInv, ReadsInv, DeletedInv, [Next]_vars PROVE DeletedInv'
<1>. USE Bounds DEF TypeOK, Resource, StatefulSet, Wishes, StepsInv, ReadsInv, DeletedInv, Same, Harmless
<1>1. ASSUME NEW wish \in Wishes, Edit(wish) PROVE DeletedInv'
  BY <1>1 DEF Edit, Acts, Settled, Quiet, AsWished, Live, Guarded
<1>2. CASE Delete
  BY <1>2 DEF Delete, Acts, Settled, Quiet, AsWished, Live, Guarded
<1>3. CASE ResourceEvent
  BY <1>3 DEF ResourceEvent
<1>4. CASE StatefulSetEvent
  BY <1>4 DEF StatefulSetEvent, NewStatefulSet
<1>5. ASSUME NEW c \in Controllers, BeginReconcile(c) PROVE DeletedInv'
  BY <1>5 DEF BeginReconcile, FirstStep, Controllers
<1>6. CASE FinalizeDeployment
  <2>. SUFFICES ASSUME ~disturbed
                PROVE  /\ op'.step = "release" /\ op.read.deleting =>
                            \/ op.read.wish.bypass \/ ~op.read.wish.suspend \/ op.read.errors
                            \/ services' # "running" \/ ~sts.exists
                       /\ services # "running" => services' # "running"
    BY <1>6 DEF FinalizeDeployment, GoTo, FinishAndRequeue
  <2>1. Same(op.read) /\ Same(cache.res)
    BY <1>6 DEF FinalizeDeployment
  <2>2. services' = "suspended" \/ services' = services
    BY <1>6 DEF FinalizeDeployment, Suspended
  <2>3. op'.step = "release" => MaySkip(op.read) \/ op.read.errors \/ CanSuspend
    BY <1>6 DEF FinalizeDeployment, FinishAndRequeue
  <2>4. ~MaySkip(op.read) /\ CanSuspend /\ sts.exists => services' = "suspended"
    BY <1>6 DEF FinalizeDeployment, Suspended
  <2>5. op.read.deleting /\ MaySkip(op.read) =>
            op.read.wish.bypass \/ ~op.read.wish.suspend \/ services # "running" \/ ~sts.exists
    BY <2>1, <1>6 DEF MaySkip, FinalizeDeployment
  <2>. QED
    BY <2>2, <2>3, <2>4, <2>5
<1>7. CASE RemoveFinalizer
  BY <1>7, ReleasedType DEF RemoveFinalizer, GoTo, FinishAndRequeue
<1>8. CASE ApplyFinalizer
  BY <1>8 DEF ApplyFinalizer, FinishAndRequeue
<1>9. CASE CreateStatefulSet
  BY <1>9 DEF CreateStatefulSet, NewStatefulSet, GoTo, FinishAndRequeue
<1>10. CASE NothingToDo
  BY <1>10 DEF NothingToDo, GoTo
<1>11. CASE UpdateStatefulSet
  BY <1>11 DEF UpdateStatefulSet, GoTo, FinishAndRequeue
<1>12. CASE OwnerIsGone
  BY <1>12 DEF OwnerIsGone, FinishAndRequeue
<1>13. CASE StopStatefulSet
  BY <1>13 DEF StopStatefulSet, GoTo
<1>14. CASE SuspendServices
  BY <1>14 DEF SuspendServices, Suspended, CanSuspend, GoTo, FinishAndRequeue
<1>15. CASE DeleteStatefulSet
  BY <1>15 DEF DeleteStatefulSet, MembersGo, NoStatefulSet, GoTo
<1>16. CASE CallFails
  BY <1>16 DEF CallFails, FinishAndRequeue, Faulty
<1>17. CASE DeleteFails
  BY <1>17 DEF DeleteFails, GoTo, Faulty
<1>18. CASE OtherErrors
  BY <1>18 DEF OtherErrors, Faulty
<1>19. CASE OperatorRestarts
  BY <1>19 DEF OperatorRestarts, Live, Faulty
<1>20. CASE PodFails
  BY <1>20 DEF PodFails, Faulty
<1>21. CASE PodIsReady
  BY <1>21 DEF PodIsReady
<1>22. CASE CollectStatefulSet
  BY <1>22 DEF CollectStatefulSet, MembersGo, NoStatefulSet
<1>23. CASE UNCHANGED vars
  BY <1>23 DEF vars
<1>. QED
  BY <1>1, <1>2, <1>3, <1>4, <1>5, <1>6, <1>7, <1>8, <1>9, <1>10, <1>11, <1>12,
     <1>13, <1>14, <1>15, <1>16, <1>17, <1>18, <1>19, <1>20, <1>21, <1>22, <1>23 DEF Next, Reconcile

\* Members go in two steps, and neither finds running services.
LEMMA CleanStep == ASSUME TypeOK, StepsInv, ReadsInv, DeletedInv, CleanShutdown, [Next]_vars PROVE CleanShutdown'
<1>. USE Bounds DEF TypeOK, Resource, StatefulSet, Wishes, StepsInv, ReadsInv, DeletedInv, Same, Harmless, CleanShutdown
<1>1. ASSUME NEW wish \in Wishes, Edit(wish) PROVE CleanShutdown'
  BY <1>1 DEF Edit, Acts
<1>2. CASE Delete
  BY <1>2 DEF Delete, Acts
<1>3. CASE ResourceEvent
  BY <1>3 DEF ResourceEvent
<1>4. CASE StatefulSetEvent
  BY <1>4 DEF StatefulSetEvent, NewStatefulSet
<1>5. ASSUME NEW c \in Controllers, BeginReconcile(c) PROVE CleanShutdown'
  BY <1>5 DEF BeginReconcile, FirstStep, Controllers
<1>6. CASE FinalizeDeployment
  BY <1>6 DEF FinalizeDeployment, Suspended, CanSuspend, MaySkip, GoTo, FinishAndRequeue
<1>7. CASE RemoveFinalizer
  BY <1>7 DEF RemoveFinalizer, Released, GoTo, FinishAndRequeue
<1>8. CASE ApplyFinalizer
  BY <1>8 DEF ApplyFinalizer, FinishAndRequeue
<1>9. CASE CreateStatefulSet
  BY <1>9 DEF CreateStatefulSet, NewStatefulSet, GoTo, FinishAndRequeue
<1>10. CASE NothingToDo
  BY <1>10 DEF NothingToDo, GoTo
<1>11. CASE UpdateStatefulSet
  BY <1>11 DEF UpdateStatefulSet, GoTo, FinishAndRequeue
<1>12. CASE OwnerIsGone
  BY <1>12 DEF OwnerIsGone, FinishAndRequeue
<1>13. CASE StopStatefulSet
  BY <1>13 DEF StopStatefulSet, GoTo
<1>14. CASE SuspendServices
  BY <1>14 DEF SuspendServices, Suspended, CanSuspend, GoTo, FinishAndRequeue
<1>15. CASE DeleteStatefulSet
  BY <1>15 DEF DeleteStatefulSet, MembersGo, NoStatefulSet, GoTo
<1>16. CASE CallFails
  BY <1>16 DEF CallFails, FinishAndRequeue, Faulty
<1>17. CASE DeleteFails
  BY <1>17 DEF DeleteFails, GoTo, Faulty
<1>18. CASE OtherErrors
  BY <1>18 DEF OtherErrors, Faulty
<1>19. CASE OperatorRestarts
  BY <1>19 DEF OperatorRestarts, Live, Faulty
<1>20. CASE PodFails
  BY <1>20 DEF PodFails, Faulty
<1>21. CASE PodIsReady
  BY <1>21 DEF PodIsReady
<1>22. CASE CollectStatefulSet
  BY <1>22 DEF CollectStatefulSet, MembersGo, NoStatefulSet
<1>23. CASE UNCHANGED vars
  BY <1>23 DEF vars
<1>. QED
  BY <1>1, <1>2, <1>3, <1>4, <1>5, <1>6, <1>7, <1>8, <1>9, <1>10, <1>11, <1>12,
     <1>13, <1>14, <1>15, <1>16, <1>17, <1>18, <1>19, <1>20, <1>21, <1>22, <1>23 DEF Next, Reconcile

\* The inductive invariant.
THEOREM Invariance == Spec => []IInv
<1>1. ASSUME Init PROVE IInv
  <2>1. PICK w \in Wishes :
            res = [exists |-> TRUE, deleting |-> FALSE, finalizer |-> FALSE,
                   wish |-> w, errors |-> FALSE, edits |-> 0]
    BY <1>1 DEF Init
  <2>2. res \in Resource
    BY <2>1, Bounds DEF Resource
  <2>3. cache \in [res: Resource, sts: StatefulSet]
    BY <1>1, <2>2, StatefulSetTypes DEF Init, Live
  <2>4. /\ op \in [step: {"idle", "finalize", "release", "guard", "sts", "stop", "delete"},
                   who: Controllers, read: Resource]
        /\ queue \in SUBSET Controllers
    BY <1>1, <2>2 DEF Init, Controllers
  <2>5. sts \in StatefulSet /\ faults \in 0 .. MaxFaults
    BY <1>1, StatefulSetTypes, Bounds DEF Init
  <2>6. TypeOK
    BY <1>1, <2>2, <2>3, <2>4, <2>5 DEF Init, TypeOK
  <2>. QED
    BY <1>1, <2>1, <2>6
       DEF Init, IInv, StepsInv, ReadsInv, DeletedInv, CleanShutdown, Same, Live, NoStatefulSet, Resource
<1>2. ASSUME IInv, [Next]_vars PROVE IInv'
  <2>1. TypeOK'
    BY <1>2, TypeStep DEF IInv
  <2>. QED
    BY <1>2, <2>1, StepsStep, ReadsStep, DeletedStep, CleanStep DEF IInv
<1>. QED
  BY <1>1, <1>2, PTL DEF Spec

-----------------------------------------------------------------------------
\* The resource, its StatefulSet and the reconcile are of the declared types.
THEOREM TypeCorrect == Spec => []TypeOK
<1>1. IInv => TypeOK
  BY DEF IInv
<1>. QED
  BY <1>1, Invariance, PTL

\* FinalizeDeployment and the suspension before scaling to zero: the members of
\* a StatefulSet of any size never go with running services, unless the user
\* wanted that, or edited before the last edit was dealt with.
THEOREM MembersLeaveSuspended == Spec => []CleanShutdown
<1>1. IInv => CleanShutdown
  BY DEF IInv
<1>. QED
  BY <1>1, Invariance, PTL

-----------------------------------------------------------------------------
(***************************************************************************)
(* No wish is forgotten, whatever the user does and however late the       *)
(* informers are.                                                          *)
(***************************************************************************)

\* The informer's copy of the resource is current, and no main reconcile is queued.
Known(r) == r.exists /\ cache.res = r /\ "coherence" \notin queue

\* What a reconcile has read, whatever the user does meanwhile.
ReadInv ==
    /\ cache.res.edits <= res.edits
    /\ cache.res.errors => res.errors
    /\ res.exists /\ res.deleting => res.finalizer
    /\ op.step \in {"finalize", "release"} => op.read.exists /\ op.read.finalizer
    /\ op.step \in {"finalize", "release", "guard"} => op.who = "coherence"
    /\ op.step # "idle" => op.read = cache.res \/ "coherence" \in queue

AtFinalizer == op.step \in {"finalize", "release", "guard"}

\* Every wish that is not done yet has a reconcile that will see it, or an event to
\* come that queues one.
WishInv ==
    Known(res) =>
      /\ AtFinalizer \/ (~res.deleting /\ Guarded)
      /\ res.wish.up =>
           sts.exists \/ AtFinalizer \/ (op.who = "coherence" /\ op.step = "sts")
      /\ ~res.wish.up =>
           \/ ~sts.exists \/ refused
           \/ AtFinalizer \/ op.step \in {"sts", "stop", "delete"}
           \/ "statefulset" \in queue
           \/ ~cache.sts.exists \/ cache.sts.ready = 0

\* An edit or a deletion of the resource is counted.
LEMMA ActsCount ==
    ASSUME TypeOK, (\E wish \in Wishes : Edit(wish)) \/ Delete
    PROVE  /\ res'.edits = res.edits + 1
           /\ res'.errors = res.errors
           /\ res'.exists /\ res'.deleting => res.finalizer \/ res.deleting
           /\ res'.finalizer = res.finalizer
           /\ UNCHANGED <<cache, op, queue>>
<1>. USE DEF TypeOK, Resource
<1>1. ASSUME NEW wish \in Wishes, Edit(wish)
      PROVE  /\ res'.edits = res.edits + 1
             /\ res'.errors = res.errors
             /\ res'.deleting = res.deleting
             /\ res'.finalizer = res.finalizer
  BY <1>1 DEF Edit
<1>2. ASSUME Delete
      PROVE  /\ res'.edits = res.edits + 1
             /\ res'.errors = res.errors
             /\ res'.exists = res.finalizer
             /\ res'.finalizer = res.finalizer
  BY <1>2 DEF Delete
<1>. QED
  BY <1>1, <1>2 DEF Edit, Delete, Acts

LEMMA ReadStep == ASSUME TypeOK, TypeOK', ReadInv, [Next]_vars PROVE ReadInv'
<1>. USE Bounds DEF TypeOK, Resource, ReadInv
<1>1. CASE (\E wish \in Wishes : Edit(wish)) \/ Delete
  <2>1. res'.exists => res.exists
    BY <1>1 DEF Edit, Delete, Acts
  <2>. QED
    BY <1>1, <2>1, ActsCount
<1>3. CASE ResourceEvent
  BY <1>3 DEF ResourceEvent
<1>4. ASSUME NEW c \in Controllers, BeginReconcile(c) PROVE ReadInv'
  BY <1>4 DEF BeginReconcile, FirstStep, Controllers
<1>5. CASE FinalizeDeployment
  BY <1>5 DEF FinalizeDeployment, GoTo, FinishAndRequeue
<1>6. CASE RemoveFinalizer
  BY <1>6, ReleasedType DEF RemoveFinalizer, GoTo, FinishAndRequeue
<1>7. CASE ApplyFinalizer
  BY <1>7 DEF ApplyFinalizer, FinishAndRequeue
<1>8. CASE OtherErrors
  BY <1>8 DEF OtherErrors
<1>9. CASE OperatorRestarts
  BY <1>9 DEF OperatorRestarts, Live
<1>10. CASE StatefulSetEvent \/ PodFails \/ PodIsReady \/ CollectStatefulSet \/ UNCHANGED vars
  BY <1>10 DEF StatefulSetEvent, PodFails, PodIsReady, CollectStatefulSet, vars
<1>11. CASE \/ CreateStatefulSet \/ NothingToDo \/ UpdateStatefulSet \/ OwnerIsGone
            \/ StopStatefulSet \/ SuspendServices \/ DeleteStatefulSet
            \/ CallFails \/ DeleteFails
  <2>1. /\ UNCHANGED <<res, cache>>
        /\ op'.step \in {"idle", "stop", "delete"}
        /\ op'.who = op.who /\ op'.read = op.read
        /\ op.step # "idle"
        /\ "coherence" \in queue => "coherence" \in queue'
    BY <1>11 DEF CreateStatefulSet, NothingToDo, UpdateStatefulSet, OwnerIsGone, StopStatefulSet,
         SuspendServices, DeleteStatefulSet, CallFails, DeleteFails, GoTo, FinishAndRequeue
  <2>. QED
    BY <2>1
<1>. QED
  BY <1>1, <1>3, <1>4, <1>5, <1>6, <1>7, <1>8, <1>9, <1>10, <1>11 DEF Next, Reconcile

\* Only a main reconcile that begins makes known what was not: every write of the
\* resource is news to the informer.
LEMMA KnownBefore ==
    ASSUME TypeOK, TypeOK', ReadInv, [Next]_vars, Known(res)'
    PROVE  /\ res' = res
           /\ cache.res = res
           /\ cache'.res = res
           /\ Known(res) \/ BeginReconcile("coherence")
<1>. USE Bounds DEF TypeOK, Resource, ReadInv, Known
<1>1. ASSUME (\E wish \in Wishes : Edit(wish)) \/ Delete PROVE FALSE
  BY <1>1, ActsCount
<1>3. CASE ResourceEvent
  BY <1>3 DEF ResourceEvent
<1>4. ASSUME NEW c \in Controllers, BeginReconcile(c)
      PROVE  UNCHANGED <<res, cache>> /\ (Known(res) \/ BeginReconcile("coherence"))
  BY <1>4 DEF BeginReconcile, Controllers
<1>5. CASE RemoveFinalizer
  <2>1. CASE res.exists /\ res = op.read
    <3>1. res' = Released /\ UNCHANGED <<queue, cache>>
      BY <1>5, <2>1 DEF RemoveFinalizer, GoTo
    <3>2. Released.finalizer = FALSE /\ res.finalizer
      BY <1>5, <2>1 DEF RemoveFinalizer, Released
    <3>. QED
      BY <1>5, <2>1, <3>1, <3>2 DEF RemoveFinalizer
  <2>2. CASE ~(res.exists /\ res = op.read)
    BY <1>5, <2>2 DEF RemoveFinalizer, GoTo, FinishAndRequeue
  <2>. QED
    BY <2>1, <2>2
<1>6. CASE ApplyFinalizer
  BY <1>6 DEF ApplyFinalizer, FinishAndRequeue
<1>7. CASE OtherErrors
  <2>1. res.errors => res' = res
    BY <1>7 DEF OtherErrors
  <2>2. res'.errors /\ cache' = cache /\ queue' = queue
    BY <1>7 DEF OtherErrors
  <2>. QED
    BY <2>1, <2>2
<1>8. CASE OperatorRestarts
  BY <1>8 DEF OperatorRestarts
<1>9. CASE StatefulSetEvent \/ PodFails \/ PodIsReady \/ CollectStatefulSet \/ UNCHANGED vars
  BY <1>9 DEF StatefulSetEvent, PodFails, PodIsReady, CollectStatefulSet, vars
<1>10. CASE \/ FinalizeDeployment
            \/ CreateStatefulSet \/ NothingToDo \/ UpdateStatefulSet \/ OwnerIsGone
            \/ StopStatefulSet \/ SuspendServices \/ DeleteStatefulSet
            \/ CallFails \/ DeleteFails
  BY <1>10 DEF FinalizeDeployment, CreateStatefulSet, NothingToDo, UpdateStatefulSet, OwnerIsGone,
       StopStatefulSet, SuspendServices, DeleteStatefulSet, CallFails, DeleteFails, GoTo,
       FinishAndRequeue
<1>. QED
  BY <1>1, <1>3, <1>4, <1>5, <1>6, <1>7, <1>8, <1>9, <1>10 DEF Next, Reconcile

\* A main reconcile that knows the resource begins with what is to be done to it.
LEMMA BeginSeesWish ==
    ASSUME TypeOK, ReadInv, BeginReconcile("coherence"), Known(res)'
    PROVE  /\ op'.step \in {"finalize", "release", "guard", "sts"}
           /\ op'.who = "coherence"
           /\ op'.step = "sts" => ~res.deleting /\ Guarded
<1>1. /\ op' = [step |-> FirstStep(res), who |-> "coherence", read |-> res]
      /\ res.exists
      /\ res.deleting => res.finalizer
  BY DEF BeginReconcile, Known, ReadInv
<1>2. /\ res.deleting \in BOOLEAN
      /\ res.finalizer \in BOOLEAN
      /\ res.wish.unsafe \in BOOLEAN
  BY DEF TypeOK, Resource, Wishes
<1>. QED
  BY <1>1, <1>2 DEF FirstStep, Guarded

LEMMA WishStep ==
    ASSUME IInv, TypeOK', ReadInv, ReadInv', WishInv, [Next]_vars
    PROVE  WishInv'
<1>. SUFFICES ASSUME Known(res)'
              PROVE  /\ (AtFinalizer \/ (~res.deleting /\ Guarded))'
                     /\ (res.wish.up =>
                          sts.exists \/ AtFinalizer \/ (op.who = "coherence" /\ op.step = "sts"))'
                     /\ (~res.wish.up =>
                          \/ ~sts.exists \/ refused
                          \/ AtFinalizer \/ op.step \in {"sts", "stop", "delete"}
                          \/ "statefulset" \in queue
                          \/ ~cache.sts.exists \/ cache.sts.ready = 0)'
  BY DEF WishInv
<1>1. res' = res /\ cache.res = res /\ cache'.res = res
  BY KnownBefore DEF IInv
<1>2. CASE BeginReconcile("coherence")
  BY <1>1, <1>2, BeginSeesWish DEF IInv, AtFinalizer, Guarded
<1>3. CASE Known(res)
  <2>. USE <1>1, <1>3 DEF IInv, TypeOK, Resource, StatefulSet, AtFinalizer, Guarded, Known, StepsInv
  <2>0. /\ AtFinalizer \/ (~res.deleting /\ Guarded)
        /\ res.wish.up =>
             sts.exists \/ AtFinalizer \/ (op.who = "coherence" /\ op.step = "sts")
        /\ ~res.wish.up =>
             \/ ~sts.exists \/ refused
             \/ AtFinalizer \/ op.step \in {"sts", "stop", "delete"}
             \/ "statefulset" \in queue
             \/ ~cache.sts.exists \/ cache.sts.ready = 0
    BY DEF WishInv
  <2>1. op.step # "idle" => op.read = res
    BY DEF ReadInv
  <2>2. ASSUME NEW wish \in Wishes, Edit(wish) PROVE FALSE
    BY <2>2 DEF Edit, Acts
  <2>3. CASE Delete
    BY <2>3 DEF Delete, Acts
  <2>4. CASE ResourceEvent
    BY <2>4 DEF ResourceEvent
  <2>5. CASE StatefulSetEvent
    BY <2>0, <2>5 DEF StatefulSetEvent, NewStatefulSet
  <2>6. CASE BeginReconcile("statefulset")
    BY <2>0, <2>6 DEF BeginReconcile
  <2>7. CASE FinalizeDeployment
    BY <2>0, <2>7 DEF FinalizeDeployment, GoTo, FinishAndRequeue, ReadInv
  <2>8. CASE RemoveFinalizer
    <3>1. op'.step = "sts" \/ op.read.deleting
      BY <2>1, <2>8 DEF RemoveFinalizer, GoTo, FinishAndRequeue, ReadInv
    <3>2. Released.finalizer = FALSE /\ op.read.finalizer
      BY <2>8 DEF RemoveFinalizer, Released, ReadInv
    <3>. QED
      BY <2>1, <2>8, <3>2 DEF RemoveFinalizer
  <2>9. CASE ApplyFinalizer
    BY <2>9 DEF ApplyFinalizer, FinishAndRequeue, ReadInv
  <2>10. CASE CreateStatefulSet
    BY <2>0, <2>1, <2>10 DEF CreateStatefulSet, NewStatefulSet, GoTo, FinishAndRequeue
  <2>11. CASE NothingToDo
    BY <2>0, <2>1, <2>11 DEF NothingToDo, GoTo
  <2>12. CASE UpdateStatefulSet
    BY <2>0, <2>1, <2>12 DEF UpdateStatefulSet, GoTo, FinishAndRequeue
  <2>13. CASE OwnerIsGone
    BY <2>1, <2>13 DEF OwnerIsGone
  <2>14. CASE StopStatefulSet
    BY <2>0, <2>1, <2>14 DEF StopStatefulSet, GoTo
  <2>15. CASE SuspendServices
    BY <2>0, <2>1, <2>15 DEF SuspendServices, GoTo, FinishAndRequeue, Controllers
  <2>16. CASE DeleteStatefulSet
    BY <2>0, <2>1, <2>16 DEF DeleteStatefulSet, MembersGo, NoStatefulSet, GoTo
  <2>17. CASE CallFails
    BY <2>0, <2>1, <2>17 DEF CallFails, FinishAndRequeue, Controllers, ReadInv
  <2>18. CASE DeleteFails
    BY <2>0, <2>1, <2>18 DEF DeleteFails, GoTo
  <2>19. CASE OtherErrors
    BY <2>0, <2>19 DEF OtherErrors
  <2>20. CASE OperatorRestarts
    BY <2>20 DEF OperatorRestarts
  <2>21. CASE PodFails \/ PodIsReady
    BY <2>0, <2>21 DEF PodFails, PodIsReady
  <2>22. CASE CollectStatefulSet
    BY <2>22 DEF CollectStatefulSet
  <2>23. CASE UNCHANGED vars
    BY <2>0, <2>23 DEF vars
  <2>24. CASE BeginReconcile("coherence")
    BY <1>2, <2>24
  <2>. QED
    BY <2>2, <2>3, <2>4, <2>5, <2>6, <2>7, <2>8, <2>9, <2>10, <2>11, <2>12, <2>13, <2>14,
       <2>15, <2>16, <2>17, <2>18, <2>19, <2>20, <2>21, <2>22, <2>23, <2>24
       DEF Next, Reconcile, Controllers
<1>. QED
  BY <1>2, <1>3, KnownBefore DEF IInv

\* Each wish that is not done is known to a reconcile or an event to come.
THEOREM WishesAreKnown == Spec => [](ReadInv /\ WishInv)
<1>1. ASSUME Init PROVE ReadInv /\ WishInv
  <2>1. /\ cache = Live /\ "coherence" \in queue /\ op.step = "idle"
        /\ ~res.deleting /\ ~res.errors /\ res.edits = 0
    BY <1>1 DEF Init
  <2>. QED
    BY <2>1 DEF ReadInv, WishInv, Known, Live
<1>2. ASSUME IInv, ReadInv /\ WishInv, [Next]_vars PROVE (ReadInv /\ WishInv)'
  <2>1. TypeOK'
    BY <1>2, TypeStep DEF IInv
  <2>2. ReadInv'
    BY <1>2, <2>1, ReadStep DEF IInv
  <2>. QED
    BY <1>2, <2>1, <2>2, WishStep
<1>. QED
  BY <1>1, <1>2, Invariance, PTL DEF Spec

\* A reconcile that reads an old resource, is refused an update or is restarted
\* leaves a request or an event behind: for any number of edits, deletions and
\* faults, when all is quiet, what is there is what the user wants.
THEOREM NoWishIsForgotten == Spec => []NoWishForgotten
<1>1. IInv /\ WishInv => NoWishForgotten
  <2>1. SUFFICES ASSUME IInv, WishInv, Quiet, res.exists, ~refused
                 PROVE  ~res.deleting /\ Guarded /\ sts.exists = res.wish.up
    BY DEF NoWishForgotten, AsWished
  <2>2. Known(res) /\ ~AtFinalizer /\ op.step = "idle" /\ queue = {}
    BY <2>1 DEF Quiet, Known, Live, AtFinalizer
  <2>3. sts.exists => cache.sts.exists /\ cache.sts.ready # 0
    BY <2>1, Bounds DEF Quiet, Live
  <2>4. sts.exists \in BOOLEAN /\ res.wish.up \in BOOLEAN
    BY <2>1 DEF IInv, TypeOK, StatefulSet, Resource, Wishes
  <2>. QED
    BY <2>1, <2>2, <2>3, <2>4 DEF WishInv
<1>. QED
  BY <1>1, Invariance, WishesAreKnown, PTL
=============================================================================
