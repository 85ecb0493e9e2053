---------------------- MODULE SecondaryResourcesProofs ----------------------
(***************************************************************************)
(* Theorems about SecondaryResources, for any objects and fields and any   *)
(* number of edits and faults.                                             *)
(***************************************************************************)
EXTENDS SecondaryResources, TLAPS

\* A hash is given to one state only, objects have no newer one than the store,
\* and the store is behind the resource only while a reconcile is to come.
HashInv ==
    /\ TypeOK
    /\ resource.gen = edits + 1
    /\ secret.hash <= resource.gen
    /\ \A n \in Objects : label[n] <= secret.hash
    /\ "coherence" \notin queue => secret.hash = resource.gen
    /\ StoreMatchesGeneration
    /\ HashMeansApplied

\* As long as nothing fails: what an object with the hash of the store looks
\* like, and what is left to do of a reconcile.
ExactInv ==
    faults = 0 =>
      /\ \A n \in Names : live[n] # {} /\ label[n] = secret.hash => live[n] = secret.latest[n]
      /\ op.step # "objects" => \A n \in Names : live[n] = secret.latest[n]
      /\ op.step = "objects" => \A n \in Names :
           /\ n \in op.todo => live[n] = secret.previous[n] /\ secret.latest[n] # {}
           /\ n \in op.gone => secret.latest[n] = {}
           /\ n \notin op.todo \cup op.gone => live[n] = secret.latest[n]

LEMMA BoundsType == MaxEdits \in Nat /\ MaxFaults \in Nat
BY ResourcesAssumption

LEMMA InitHolds == ASSUME Init PROVE HashInv /\ ExactInv
<1>1. None \in Contents
  BY DEF None, Contents
<1>2. TypeOK
  <2>1. resource \in [gen: Generations, want: Wanted]
    BY BoundsType DEF Init, Generations
  <2>2. /\ secret \in [latest: Contents, previous: Contents, hash: 0 .. MaxEdits + 1]
        /\ live \in Contents
        /\ label \in [Objects -> 0 .. MaxEdits + 1]
    BY <1>1, BoundsType DEF Init
  <2>3. op \in [step: {"idle", "objects", "sts"}, who: Controllers,
                gone: SUBSET Names, todo: SUBSET Names, again: BOOLEAN]
    BY DEF Init, Controllers
  <2>. QED
    <3>1. queue \in SUBSET Controllers /\ busy \in BOOLEAN
      BY DEF Init, Controllers
    <3>2. edits \in 0 .. MaxEdits /\ faults \in 0 .. MaxFaults
      BY BoundsType DEF Init
    <3>. QED
      BY <2>1, <2>2, <2>3, <3>1, <3>2 DEF TypeOK
<1>3. \A n \in Objects : None[n] = {}
  BY DEF None
<1>. QED
  BY <1>2, <1>3 DEF Init, HashInv, ExactInv, StoreMatchesGeneration, HashMeansApplied, Objects

-----------------------------------------------------------------------------
(***************************************************************************)
(* The steps that write the store or the objects.                          *)
(***************************************************************************)

\* What a reconcile stores is what the resource wants; if the store had its
\* generation, it has changed nothing.
LEMMA StoredIsWanted ==
    ASSUME HashInv, NEW ready \in BOOLEAN
    PROVE  /\ DesiredResources(ready) = resource.want
           /\ secret.hash = resource.gen => secret.latest = resource.want
BY DEF HashInv, StoreMatchesGeneration, DesiredResources

LEMMA BeginKeeps == ASSUME HashInv, ExactInv, BeginReconcile PROVE HashInv' /\ ExactInv'
<1>. DEFINE stored == [latest |-> resource.want, previous |-> secret.latest, hash |-> resource.gen]
<1>1. secret' = stored
  BY StoredIsWanted DEF BeginReconcile, Stored
<1>2. /\ UNCHANGED <<resource, live, label, busy, edits, faults>>
      /\ queue' = queue \ {"coherence"}
      /\ op.step = "idle"
      /\ op' = [step |-> "objects", who |-> "coherence", gone |-> Deletions(stored),
                todo |-> {n \in Names : resource.want[n] # {}}, again |-> FALSE]
  BY <1>1 DEF BeginReconcile
<1>3. stored \in [latest: Contents, previous: Contents, hash: 0 .. MaxEdits + 1]
  BY BoundsType DEF HashInv, TypeOK, Wanted, Generations
<1>4. op' \in [step: {"idle", "objects", "sts"}, who: Controllers,
               gone: SUBSET Names, todo: SUBSET Names, again: BOOLEAN]
  BY <1>2 DEF Deletions, Controllers
<1>5. TypeOK'
  BY <1>1, <1>2, <1>3, <1>4 DEF HashInv, TypeOK
<1>6. \A n \in Objects : /\ label[n] <= resource.gen
                         /\ label[n] = resource.gen => secret.hash = resource.gen
  BY BoundsType DEF HashInv, TypeOK, Generations
<1>7. HashInv'
  <2>1. resource.gen \in Nat
    BY BoundsType DEF HashInv, TypeOK, Generations
  <2>2. secret'.hash = resource.gen /\ secret'.latest = resource.want
    BY <1>1
  <2>3. HashMeansApplied'
    <3>1. SUFFICES ASSUME NEW n \in Objects, live[n] # {}, label[n] = resource.gen
                   PROVE  resource.want[n] \subseteq live[n]
      BY <1>2, <2>2 DEF HashMeansApplied
    <3>2. secret.hash = resource.gen
      BY <1>6, <3>1
    <3>. QED
      BY <3>1, <3>2, StoredIsWanted DEF HashInv, HashMeansApplied
  <2>. QED
    BY <1>2, <1>5, <1>6, <2>1, <2>2, <2>3 DEF HashInv, StoreMatchesGeneration
<1>8. ASSUME faults = 0, NEW n \in Names
      PROVE  /\ live[n] = secret.latest[n]
             /\ live[n] # {} /\ label[n] = resource.gen => live[n] = resource.want[n]
  <2>1. n \in Objects
    BY DEF Objects
  <2>. QED
    BY <1>2, <1>6, <1>8, <2>1, StoredIsWanted DEF ExactInv
<1>9. ExactInv'
  BY <1>1, <1>2, <1>8 DEF ExactInv, Deletions
<1>. QED
  BY <1>7, <1>9

\* An object is created or patched: it has the fields of the latest state, and
\* no others if it was in the previous state or not there at all.
LEMMA ApplyKeeps ==
    ASSUME HashInv, NEW n \in Objects, Apply(n)
    PROVE  /\ live' \in Contents
           /\ label' \in [Objects -> 0 .. MaxEdits + 1]
           /\ \A k \in Objects \ {n} : live'[k] = live[k] /\ label'[k] = label[k]
           /\ label'[n] <= secret.hash
           /\ live'[n] # {} /\ label'[n] = secret.hash => secret.latest[n] \subseteq live'[n]
           /\ \/ live'[n] = live[n] /\ live[n] # {} /\ label[n] = secret.hash /\ label' = label
              \/ live[n] \in {{}, secret.previous[n]} => live'[n] = secret.latest[n]
<1>1. /\ live \in Contents
      /\ label \in [Objects -> 0 .. MaxEdits + 1]
      /\ secret.latest[n] \in SUBSET Fields
      /\ secret.hash \in 0 .. MaxEdits + 1
  BY DEF HashInv, TypeOK, Contents
<1>2. CASE live[n] # {} /\ label[n] = secret.hash
  BY <1>1, <1>2 DEF Apply, HashInv, HashMeansApplied
<1>3. CASE ~(live[n] # {} /\ label[n] = secret.hash)
  <2>. DEFINE new == IF live[n] = {} THEN secret.latest[n] ELSE Patched(n)
  <2>1. /\ new \in SUBSET Fields
        /\ secret.latest[n] \subseteq new
        /\ live[n] \in {{}, secret.previous[n]} => new = secret.latest[n]
    BY <1>1 DEF Patched, Contents
  <2>2. live' = [live EXCEPT ![n] = new] /\ label' = [label EXCEPT ![n] = secret.hash]
    BY <1>3 DEF Apply
  <2>. HIDE DEF new
  <2>3. live' \in Contents /\ live'[n] = new /\ \A k \in Objects \ {n} : live'[k] = live[k]
    BY <1>1, <2>1, <2>2 DEF Contents
  <2>4. /\ label' \in [Objects -> 0 .. MaxEdits + 1]
        /\ label'[n] = secret.hash
        /\ \A k \in Objects \ {n} : label'[k] = label[k]
    BY <1>1, <2>2
  <2>. QED
    BY <1>1, <2>1, <2>3, <2>4, BoundsType
<1>. QED
  BY <1>2, <1>3

\* What a step of a reconcile that leaves the store alone has to keep.
LEMMA HashKept ==
    ASSUME HashInv, TypeOK', UNCHANGED <<resource, secret, edits>>,
           "coherence" \in queue => "coherence" \in queue',
           \A n \in Objects : /\ label'[n] <= secret.hash
                              /\ live'[n] # {} /\ label'[n] = secret.hash
                                   => secret.latest[n] \subseteq live'[n]
    PROVE  HashInv'
BY DEF HashInv, StoreMatchesGeneration, HashMeansApplied

LEMMA DeleteKeeps ==
    ASSUME HashInv, ExactInv, NEW n \in Names, DeleteObject(n)
    PROVE  HashInv' /\ ExactInv'
<1>1. n \in Objects
  BY DEF Objects
<1>2. live' = [live EXCEPT ![n] = {}] /\ op' = [op EXCEPT !.gone = op.gone \ {n}]
  BY DEF DeleteObject
<1>3. live' \in Contents
  BY <1>1, <1>2 DEF HashInv, TypeOK, Contents
<1>4. TypeOK'
  BY <1>2, <1>3 DEF HashInv, TypeOK, DeleteObject
<1>5. live'[n] = {} /\ \A k \in Objects \ {n} : live'[k] = live[k]
  BY <1>1, <1>2 DEF HashInv, TypeOK, Contents
<1>6. HashInv'
  BY <1>4, <1>5, HashKept DEF DeleteObject, HashInv, HashMeansApplied
<1>7. /\ op'.gone = op.gone \ {n}
      /\ op'.todo = op.todo
      /\ op'.step = "objects"
      /\ op.step = "objects"
  BY <1>2 DEF HashInv, TypeOK, DeleteObject
<1>8. ExactInv'
  <2>1. CASE faults = 0
    <3>1. n \notin op.todo /\ secret.latest[n] = {}
      BY <2>1 DEF ExactInv, DeleteObject
    <3>2. \A k \in Names \ {n} : live'[k] = live[k]
      BY <1>5 DEF Objects
    <3>. QED
      BY <1>5, <1>7, <2>1, <3>1, <3>2 DEF ExactInv, DeleteObject
  <2>2. CASE faults # 0
    BY <2>2 DEF ExactInv, DeleteObject
  <2>. QED
    BY <2>1, <2>2
<1>. QED
  BY <1>6, <1>8

LEMMA ReconcileObjectKeeps ==
    ASSUME HashInv, ExactInv, NEW n \in Names, ReconcileObject(n)
    PROVE  HashInv' /\ ExactInv'
<1>1. n \in Objects /\ Apply(n)
  BY DEF Objects, ReconcileObject
<1>2. op' = [op EXCEPT !.todo = op.todo \ {n}]
  BY DEF ReconcileObject
<1>3. TypeOK'
  BY <1>1, <1>2, ApplyKeeps DEF HashInv, TypeOK, ReconcileObject
<1>4. HashInv'
  BY <1>1, <1>3, ApplyKeeps, HashKept DEF ReconcileObject, HashInv, HashMeansApplied
<1>5. /\ op'.todo = op.todo \ {n}
      /\ op'.gone = op.gone
      /\ op'.step = "objects"
      /\ op.step = "objects"
      /\ n \in op.todo
  BY <1>2 DEF HashInv, TypeOK, ReconcileObject
<1>6. ExactInv'
  <2>1. CASE faults = 0
    <3>1. live[n] = secret.previous[n] /\ secret.latest[n] # {}
      BY <1>5, <2>1 DEF ExactInv
    <3>2. live'[n] = secret.latest[n]
      BY <1>1, <2>1, <3>1, ApplyKeeps DEF ExactInv
    <3>3. \A k \in Names \ {n} : live'[k] = live[k] /\ label'[k] = label[k]
      BY <1>1, ApplyKeeps DEF Objects
    <3>. QED
      BY <1>5, <2>1, <3>1, <3>2, <3>3 DEF ExactInv, ReconcileObject
  <2>2. CASE faults # 0
    BY <2>2 DEF ExactInv, ReconcileObject
  <2>. QED
    BY <2>1, <2>2
<1>. QED
  BY <1>4, <1>6

LEMMA StatefulSetKeeps ==
    ASSUME HashInv, ExactInv, ReconcileStatefulSet
    PROVE  HashInv' /\ ExactInv'
<1>1. "sts" \in Objects /\ "sts" \notin Names
  BY ResourcesAssumption DEF Objects
<1>2. op' = [op EXCEPT !.step = "idle"] /\ queue' \in SUBSET Controllers /\ queue \subseteq queue'
  BY DEF ReconcileStatefulSet, Finish, HashInv, TypeOK
<1>3. UNCHANGED <<live, label>> \/ Apply("sts")
  BY DEF ReconcileStatefulSet
<1>4. /\ live' \in Contents
      /\ label' \in [Objects -> 0 .. MaxEdits + 1]
      /\ \A n \in Objects : /\ label'[n] <= secret.hash
                            /\ live'[n] # {} /\ label'[n] = secret.hash
                                 => secret.latest[n] \subseteq live'[n]
      /\ \A n \in Names : live'[n] = live[n] /\ label'[n] = label[n]
  <2>1. CASE UNCHANGED <<live, label>>
    BY <2>1 DEF HashInv, TypeOK, HashMeansApplied
  <2>2. CASE Apply("sts")
    BY <1>1, <2>2, ApplyKeeps DEF HashInv, HashMeansApplied, Objects
  <2>. QED
    BY <1>3, <2>1, <2>2
<1>5. TypeOK'
  BY <1>2, <1>4 DEF HashInv, TypeOK, ReconcileStatefulSet
<1>6. HashInv'
  BY <1>2, <1>4, <1>5, HashKept DEF ReconcileStatefulSet
<1>7. op.step = "sts" /\ op'.step = "idle"
  BY <1>2 DEF ReconcileStatefulSet, HashInv, TypeOK
<1>8. ExactInv'
  BY <1>4, <1>7 DEF ExactInv, ReconcileStatefulSet
<1>. QED
  BY <1>6, <1>8

-----------------------------------------------------------------------------
(***************************************************************************)
(* The other steps.                                                        *)
(***************************************************************************)
LEMMA AroundKeeps ==
    ASSUME HashInv, ExactInv,
           \/ \E want \in Wanted : Edit(want)
           \/ StatusEvent \/ Calms \/ PodFails \/ UNCHANGED vars
    PROVE  HashInv' /\ ExactInv'
<1>1. ASSUME NEW want \in Wanted, Edit(want) PROVE HashInv'
  <2>1. resource.gen + 1 \in Generations /\ edits + 1 \in 0 .. MaxEdits
    BY <1>1, BoundsType DEF HashInv, TypeOK, Edit, Generations
  <2>2. resource' = [gen |-> resource.gen + 1, want |-> want] /\ edits' = edits + 1
    BY <1>1 DEF Edit
  <2>3. busy' \in BOOLEAN /\ queue' = queue \cup {"coherence"} /\ "coherence" \in Controllers
    BY <1>1 DEF Edit, HashInv, TypeOK, Controllers
  <2>4. UNCHANGED <<secret, live, label, op, faults>>
    BY <1>1 DEF Edit
  <2>5. TypeOK'
    BY <2>1, <2>2, <2>3, <2>4 DEF HashInv, TypeOK
  <2>6. secret.hash <= resource.gen + 1 /\ secret.hash # resource.gen + 1
    BY BoundsType DEF HashInv, TypeOK, Generations
  <2>. QED
    BY <2>2, <2>3, <2>4, <2>5, <2>6 DEF HashInv, StoreMatchesGeneration, HashMeansApplied
<1>2. ASSUME StatusEvent \/ Calms \/ PodFails \/ UNCHANGED vars PROVE HashInv'
  <2>1. TypeOK'
    <3>1. queue' \in SUBSET Controllers /\ busy' \in BOOLEAN
      BY <1>2 DEF HashInv, TypeOK, StatusEvent, Calms, PodFails, vars, Controllers
    <3>2. faults' \in 0 .. MaxFaults
      BY <1>2, BoundsType DEF HashInv, TypeOK, StatusEvent, Calms, PodFails, vars, Faulty
    <3>3. UNCHANGED <<resource, secret, live, label, op, edits>>
      BY <1>2 DEF StatusEvent, Calms, PodFails, vars
    <3>. QED
      BY <3>1, <3>2, <3>3 DEF HashInv, TypeOK
  <2>. QED
    BY <1>2, <2>1, HashKept DEF StatusEvent, Calms, PodFails, vars, HashInv, HashMeansApplied
<1>3. ASSUME \/ \E want \in Wanted : Edit(want)
             \/ StatusEvent \/ Calms \/ PodFails \/ UNCHANGED vars
      PROVE  /\ UNCHANGED <<secret, live, label, op>>
             /\ faults' = faults \/ faults' = faults + 1
  BY <1>3 DEF Edit, StatusEvent, Calms, PodFails, vars, Faulty
<1>4. ExactInv'
  BY <1>3 DEF ExactInv, HashInv, TypeOK
<1>. QED
  BY <1>1, <1>2, <1>4

LEMMA ReconcileKeeps ==
    ASSUME HashInv, ExactInv, ObjectsAreDone \/ PutOffPatch \/ BeginStatefulSet
    PROVE  HashInv' /\ ExactInv'
<1>1. UNCHANGED <<resource, secret, live, label, edits, faults>>
  BY DEF ObjectsAreDone, PutOffPatch, BeginStatefulSet
<1>2. op' \in [step: {"idle", "objects", "sts"}, who: Controllers,
               gone: SUBSET Names, todo: SUBSET Names, again: BOOLEAN]
  <2>1. CASE ObjectsAreDone
    BY <2>1 DEF ObjectsAreDone, HashInv, TypeOK
  <2>2. CASE PutOffPatch
    BY <2>2 DEF PutOffPatch, Finish, HashInv, TypeOK
  <2>3. CASE BeginStatefulSet
    BY <2>3 DEF BeginStatefulSet, Controllers
  <2>. QED
    BY <2>1, <2>2, <2>3
<1>3. queue' \in SUBSET Controllers /\ busy' \in BOOLEAN
  BY DEF ObjectsAreDone, PutOffPatch, BeginStatefulSet, Finish, HashInv, TypeOK
<1>4. TypeOK'
  BY <1>1, <1>2, <1>3 DEF HashInv, TypeOK
<1>5. "coherence" \in queue => "coherence" \in queue'
  BY DEF ObjectsAreDone, PutOffPatch, BeginStatefulSet, Finish
<1>6. HashInv'
  BY <1>1, <1>4, <1>5, HashKept DEF HashInv, HashMeansApplied
<1>7. op'.step # "objects" /\ (op.step = "objects" => op.gone = {} /\ op.todo = {})
  BY DEF ObjectsAreDone, PutOffPatch, BeginStatefulSet, Finish, HashInv, TypeOK
<1>8. ExactInv'
  BY <1>1, <1>7 DEF ExactInv
<1>. QED
  BY <1>6, <1>8

LEMMA FailuresKeep ==
    ASSUME HashInv, ExactInv,
           \/ \E n \in Names : DeletionFails(n) \/ ObjectFails(n)
           \/ StatefulSetFails \/ OperatorRestarts
    PROVE  HashInv' /\ ExactInv'
<1>1. /\ Faulty
      /\ UNCHANGED <<resource, secret, live, label, busy, edits>>
      /\ "coherence" \in queue => "coherence" \in queue'
      /\ queue' \in SUBSET Controllers
  BY DEF DeletionFails, ObjectFails, StatefulSetFails, OperatorRestarts, Finish,
         HashInv, TypeOK, Controllers
<1>2. op' \in [step: {"idle", "objects", "sts"}, who: Controllers,
               gone: SUBSET Names, todo: SUBSET Names, again: BOOLEAN]
  <2>. DEFINE Type == [step: {"idle", "objects", "sts"}, who: Controllers,
                       gone: SUBSET Names, todo: SUBSET Names, again: BOOLEAN]
  <2>1. op \in Type
    BY DEF HashInv, TypeOK
  <2>2. ASSUME NEW n \in Names, DeletionFails(n) PROVE op' \in Type
    BY <2>1, <2>2 DEF DeletionFails
  <2>3. ASSUME NEW n \in Names, ObjectFails(n) PROVE op' \in Type
    BY <2>1, <2>3 DEF ObjectFails
  <2>4. CASE StatefulSetFails
    BY <2>1, <2>4 DEF StatefulSetFails, Finish
  <2>5. CASE OperatorRestarts
    BY <2>1, <2>5 DEF OperatorRestarts
  <2>. QED
    BY <2>2, <2>3, <2>4, <2>5
<1>3. faults' \in 0 .. MaxFaults /\ faults' # 0
  BY <1>1, BoundsType DEF Faulty, HashInv, TypeOK
<1>4. TypeOK'
  BY <1>1, <1>2, <1>3 DEF HashInv, TypeOK
<1>5. HashInv'
  BY <1>1, <1>4, HashKept DEF HashInv, HashMeansApplied
<1>. QED
  BY <1>3, <1>5 DEF ExactInv

\* The inductive invariant.
THEOREM Invariance == Spec => [](HashInv /\ ExactInv)
<1>1. Init => HashInv /\ ExactInv
  BY InitHolds
<1>2. HashInv /\ ExactInv /\ [Next]_vars => HashInv' /\ ExactInv'
  BY BeginKeeps, DeleteKeeps, ReconcileObjectKeeps, StatefulSetKeeps, AroundKeeps,
     ReconcileKeeps, FailuresKeep
     DEF Next, Reconcile
<1>. QED
  BY <1>1, <1>2, PTL DEF Spec

-----------------------------------------------------------------------------
\* The store and the objects are of the declared types.
THEOREM TypeCorrect == Spec => []TypeOK
<1>1. HashInv => TypeOK
  BY DEF HashInv
<1>. QED
  BY <1>1, Invariance, PTL

\* checkHash may take the stored state for that of the resource.
THEOREM StoreIsCurrent == Spec => []StoreMatchesGeneration
<1>1. HashInv => StoreMatchesGeneration
  BY DEF HashInv
<1>. QED
  BY <1>1, Invariance, PTL

\* Update may leave an object alone that has the hash of the store.
THEOREM HashTellsTheTruth == Spec => []HashMeansApplied
<1>1. HashInv => HashMeansApplied
  BY DEF HashInv
<1>. QED
  BY <1>1, Invariance, PTL

\* Store, Deletions and the three way patch leave nothing out and nothing over.
THEOREM ObjectsBecomeExact == Spec => []ObjectsAreExact
<1>1. HashInv /\ ExactInv => ObjectsAreExact
  BY DEF HashInv, ExactInv, StoreMatchesGeneration, ObjectsAreExact
<1>. QED
  BY <1>1, Invariance, PTL

-----------------------------------------------------------------------------
(***************************************************************************)
(* Nothing is missing when nothing is queued.                              *)
(***************************************************************************)

\* Create or Update has dealt with the object since the state was stored.
Applied(n) == live[n] # {} /\ label[n] = secret.hash

\* A reconcile that is queued or at work has the object before it, or ends with
\* an error that requeues it.
WillApply(n) ==
    \/ "coherence" \in queue
    \/ /\ op.who = "coherence"
       /\ \/ op.step = "objects" /\ (n \in op.todo \/ n = "sts" \/ op.again)
          \/ op.step = "sts" /\ (n = "sts" \/ op.again)
    \/ /\ n = "sts"
       /\ live[n] # {}
       /\ "statefulset" \in queue \/ op.step = "sts"

WorkInv ==
    /\ op.step = "objects" =>
         op.who = "coherence" /\ \A n \in op.gone : secret.latest[n] = {}
    /\ \A n \in Objects : secret.latest[n] # {} => Applied(n) \/ WillApply(n)

\* What the state has is applied by Create or Update.
LEMMA ApplyApplies ==
    ASSUME HashInv, NEW n \in Objects, Apply(n), secret.latest[n] # {}
    PROVE  live'[n] # {} /\ label'[n] = secret.hash
<1>1. live \in Contents /\ label \in [Objects -> 0 .. MaxEdits + 1]
  BY DEF HashInv, TypeOK
<1>2. CASE live[n] # {} /\ label[n] = secret.hash
  BY <1>2 DEF Apply
<1>3. CASE ~(live[n] # {} /\ label[n] = secret.hash)
  BY <1>1, <1>3 DEF Apply, Contents, Patched
<1>. QED
  BY <1>2, <1>3

\* The StatefulSet is the last object of a reconcile.
LEMMA StatefulSetIsWorkedOn ==
    ASSUME HashInv, WorkInv, ReconcileStatefulSet \/ PutOffPatch \/ StatefulSetFails
    PROVE  WorkInv'
<1>. DEFINE Done(n) == Applied(n)' \/ WillApply(n)'
<1>1. /\ UNCHANGED secret
      /\ op.step = "sts"
      /\ op'.step = "idle"
      /\ queue \subseteq queue'
      /\ op.who \in Controllers
  BY DEF HashInv, TypeOK, ReconcileStatefulSet, PutOffPatch, StatefulSetFails, Finish
<1>2. "sts" \in Objects /\ "sts" \notin Names
  BY ResourcesAssumption DEF Objects
<1>3. SUFFICES ASSUME NEW n \in Objects, secret.latest[n] # {} PROVE Done(n)
  BY <1>1 DEF WorkInv
<1>4. CASE "coherence" \in queue'
  BY <1>4 DEF WillApply
<1>5. ASSUME "coherence" \notin queue', n # "sts" PROVE Done(n)
  <2>1. op.who = "coherence" => ~op.again
    BY <1>5 DEF ReconcileStatefulSet, PutOffPatch, StatefulSetFails, Finish
  <2>2. Applied(n)
    BY <1>1, <1>3, <1>5, <2>1 DEF WorkInv, WillApply
  <2>3. live'[n] = live[n] /\ label'[n] = label[n]
    <3>1. UNCHANGED <<live, label>> \/ Apply("sts")
      BY DEF ReconcileStatefulSet, PutOffPatch, StatefulSetFails
    <3>. QED
      BY <1>2, <1>5, <3>1, ApplyKeeps
  <2>. QED
    BY <1>1, <2>2, <2>3 DEF Applied
<1>6. ASSUME "coherence" \notin queue', n = "sts" PROVE Done(n)
  <2>1. CASE ReconcileStatefulSet /\ ~NoStatefulSet
    BY <1>1, <1>2, <1>3, <1>6, <2>1, ApplyApplies DEF ReconcileStatefulSet, Applied
  <2>2. CASE ReconcileStatefulSet /\ NoStatefulSet
    BY <1>1, <1>3, <1>6, <2>2 DEF NoStatefulSet, WorkInv, Applied, WillApply
  <2>3. CASE PutOffPatch \/ StatefulSetFails
    <3>1. op.who = "statefulset" /\ "statefulset" \in queue' /\ live["sts"] # {}
      BY <1>1, <1>6, <2>3 DEF PutOffPatch, StatefulSetFails, NoStatefulSet, Finish, Controllers
    <3>2. UNCHANGED live
      BY <2>3 DEF PutOffPatch, StatefulSetFails
    <3>. QED
      BY <1>6, <3>1, <3>2 DEF WillApply
  <2>. QED
    BY <2>1, <2>2, <2>3
<1>. QED
  BY <1>4, <1>5, <1>6

\* Each object is dealt with, or its kind fails, which requeues.
LEMMA ObjectsAreWorkedOn ==
    ASSUME HashInv, WorkInv, NEW n \in Names,
           DeleteObject(n) \/ DeletionFails(n) \/ ReconcileObject(n) \/ ObjectFails(n)
    PROVE  WorkInv'
<1>1. /\ UNCHANGED <<secret, queue>>
      /\ op.step = "objects"
      /\ op.who = "coherence"
      /\ op'.step = "objects"
      /\ op'.who = "coherence"
      /\ op'.gone \subseteq op.gone
      /\ op.again => op'.again
  BY DEF HashInv, TypeOK, WorkInv, DeleteObject, DeletionFails, ReconcileObject, ObjectFails
<1>2. SUFFICES ASSUME NEW k \in Objects, secret.latest[k] # {}, k # "sts",
                      "coherence" \notin queue
               PROVE  Applied(k)' \/ k \in op'.todo \/ op'.again
  BY <1>1 DEF WorkInv, WillApply
<1>3. Applied(k) \/ k \in op.todo \/ op.again
  BY <1>1, <1>2 DEF WorkInv, WillApply
<1>4. n \in Objects
  BY DEF Objects
<1>5. CASE DeleteObject(n)
  <2>1. k # n
    BY <1>2, <1>5 DEF DeleteObject, WorkInv
  <2>2. live'[k] = live[k] /\ UNCHANGED <<label, secret>> /\ op'.todo = op.todo
    BY <1>5, <2>1 DEF DeleteObject, HashInv, TypeOK, Contents
  <2>. QED
    BY <1>1, <1>3, <2>2 DEF Applied
<1>6. CASE DeletionFails(n)
  BY <1>1, <1>3, <1>6 DEF DeletionFails, HashInv, TypeOK, Applied
<1>7. CASE ReconcileObject(n)
  <2>1. Apply(n) /\ op'.todo = op.todo \ {n} /\ op'.again = op.again
    BY <1>7 DEF ReconcileObject, HashInv, TypeOK
  <2>2. CASE k = n
    BY <1>1, <1>2, <1>4, <2>1, <2>2, ApplyApplies DEF Applied
  <2>3. CASE k # n
    BY <1>1, <1>3, <1>4, <2>1, <2>3, ApplyKeeps DEF Applied
  <2>. QED
    BY <2>2, <2>3
<1>8. CASE ObjectFails(n)
  BY <1>8 DEF ObjectFails, HashInv, TypeOK
<1>. QED
  BY <1>5, <1>6, <1>7, <1>8

\* What is stored is to be applied, by the reconcile that stores it.
LEMMA BeginHasWork == ASSUME HashInv, WorkInv, BeginReconcile PROVE WorkInv'
<1>1. /\ op'.step = "objects"
      /\ op'.who = "coherence"
      /\ op'.gone = Deletions(secret')
      /\ op'.todo = {n \in Names : secret'.latest[n] # {}}
  BY DEF BeginReconcile
<1>2. \A n \in op'.gone : secret'.latest[n] = {}
  BY <1>1 DEF Deletions
<1>. QED
  BY <1>1, <1>2 DEF WorkInv, WillApply, Objects

\* The other steps take no work away.
LEMMA OthersLeaveWork ==
    ASSUME HashInv, WorkInv,
           \/ \E want \in Wanted : Edit(want)
           \/ StatusEvent \/ Calms \/ PodFails \/ BeginStatefulSet \/ ObjectsAreDone
           \/ OperatorRestarts \/ UNCHANGED vars
    PROVE  WorkInv'
<1>1. UNCHANGED <<secret, live, label>>
  BY DEF Edit, StatusEvent, Calms, PodFails, BeginStatefulSet, ObjectsAreDone, OperatorRestarts, vars
<1>2. CASE BeginStatefulSet
  BY <1>1, <1>2 DEF BeginStatefulSet, WorkInv, Applied, WillApply
<1>3. CASE ObjectsAreDone
  BY <1>1, <1>3 DEF ObjectsAreDone, WorkInv, Applied, WillApply, HashInv, TypeOK
<1>4. CASE OperatorRestarts
  <2>1. op'.step = "idle" /\ "coherence" \in queue'
    BY <1>4 DEF OperatorRestarts, HashInv, TypeOK
  <2>. QED
    BY <2>1 DEF WorkInv, WillApply
<1>5. CASE \/ \E want \in Wanted : Edit(want)
           \/ StatusEvent \/ Calms \/ PodFails \/ UNCHANGED vars
  <2>1. UNCHANGED op /\ queue \subseteq queue'
    BY <1>5 DEF Edit, StatusEvent, Calms, PodFails, vars
  <2>. QED
    BY <1>1, <2>1 DEF WorkInv, Applied, WillApply
<1>. QED
  BY <1>2, <1>3, <1>4, <1>5

\* Whatever fails, is put off or is edited meanwhile: an object that is not as the
\* state store has it is the work of a reconcile that is queued or under way.
THEOREM WorkIsKnown == Spec => []WorkInv
<1>1. Init => WorkInv
  BY DEF Init, WorkInv, WillApply
<1>2. HashInv /\ WorkInv /\ [Next]_vars => WorkInv'
  BY StatefulSetIsWorkedOn, ObjectsAreWorkedOn, BeginHasWork, OthersLeaveWork DEF Next, Reconcile
<1>. QED
  BY <1>1, <1>2, Invariance, PTL DEF Spec

\* When nothing is queued or at work, every object has what the resource wants.
THEOREM NothingIsMissing == Spec => []NothingMissing
<1>1. HashInv /\ WorkInv => NothingMissing
  <2>1. SUFFICES ASSUME HashInv, WorkInv, Quiet, NEW n \in Objects
                 PROVE  resource.want[n] \subseteq live[n]
    BY DEF NothingMissing
  <2>2. secret.latest = resource.want
    BY <2>1 DEF HashInv, StoreMatchesGeneration, Quiet
  <2>3. secret.latest[n] # {} => Applied(n)
    BY <2>1 DEF WorkInv, WillApply, Quiet
  <2>. QED
    BY <2>1, <2>2, <2>3 DEF HashInv, HashMeansApplied, Applied
<1>. QED
  BY <1>1, Invariance, WorkIsKnown, PTL
=============================================================================
