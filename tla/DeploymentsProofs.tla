-------------------------- MODULE DeploymentsProofs --------------------------
(***************************************************************************)
(* Theorems about Deployments, for any number of resources, Pods, nodes,   *)
(* edits and faults.                                                       *)
(***************************************************************************)
EXTENDS Deployments, FiniteSetTheorems, TLAPS

-----------------------------------------------------------------------------
\* Any set of a resource's Pods has a size.
LEMMA PodCounts ==
    ASSUME NEW n \in Names, NEW S \in SUBSET PodsOf(n)
    PROVE  IsFiniteSet(S) /\ Cardinality(S) \in Nat
<1>1. S \in SUBSET Pods
  BY DEF PodsOf
<1>2. IsFiniteSet(S)
  BY <1>1, DeploymentsAssumption, FS_Subset
<1>. QED
  BY <1>2, FS_CardinalityType

LEMMA IdleType ==
    /\ Idle.step = "idle"
    /\ Idle.name \in Names
    /\ Idle.group = {}
    /\ Idle \in [step: {"idle", "reconcile", "delete"}, name: Names, group: SUBSET Pods]
BY DeploymentsAssumption DEF Idle

\* The types of what a controller is doing.
OpType ==
    /\ op \in [Controllers -> [step: {"idle", "reconcile", "delete"}, name: Names, group: SUBSET Pods]]
    /\ \A c \in Controllers : op[c].group \subseteq PodsOf(op[c].name)
    /\ \A c \in Controllers : op[c].step = "delete" <=> op[c].group # {}

\* The end of a reconcile keeps the types of what it writes.
LEMMA UnlockType ==
    ASSUME OpType, NEW c \in Controllers, Unlock(c)
    PROVE  OpType'
BY IdleType DEF OpType, Unlock

LEMMA FinishType ==
    ASSUME TypeOK, sts' \in [Names -> StatefulSet], NEW c \in Controllers,
           NEW phase \in {"Waiting", "Created", "Ready", "RollingUpgrade", "Failed"},
           NEW requests \in SUBSET (Controllers \X Names), Finish(c, phase, requests)
    PROVE  /\ OpType'
           /\ status' \in [Names -> Status]
           /\ queue' \subseteq Controllers \X Names
           /\ locks' \subseteq Names
           /\ UNCHANGED <<coh, store, safe, everReady>>
<1>1. OpType' /\ locks' \subseteq Names
  BY UnlockType DEF TypeOK, OpType, Finish, Unlock
<1>2. op[c].name \in Names
  BY DEF TypeOK
<1>3. Updated([status[op[c].name] EXCEPT !.phase = phase], sts'[op[c].name], op[c].name) \in Status
  BY <1>2 DEF TypeOK, Updated, Status, StatefulSet, StatefulSetStatus
<1>4. status' \in [Names -> Status]
  BY <1>2, <1>3 DEF Finish, TypeOK
<1>5. "coherence" \in Controllers
  BY DEF Controllers
<1>6. queue' \subseteq Controllers \X Names
  BY <1>2, <1>5 DEF Finish, TypeOK
<1>. QED
  BY <1>1, <1>4, <1>6 DEF Finish

LEMMA AgainType ==
    ASSUME TypeOK, NEW c \in Controllers
    PROVE  Again(c) \in SUBSET (Controllers \X Names)
BY DEF TypeOK, Again

\* The type invariant of the model: whatever the reconciles, the StatefulSet
\* controller and restarts do, the records stay what they are declared to be,
\* and a controller holds a group of Pods exactly while it deletes them.
THEOREM TypeCorrect == Spec => []TypeOK
<1>1. Init => TypeOK
  <2> SUFFICES ASSUME Init PROVE TypeOK
    OBVIOUS
  <2>1. op \in [Controllers -> [step: {"idle", "reconcile", "delete"}, name: Names, group: SUBSET Pods]]
        /\ \A c \in Controllers : op[c] = Idle
    BY IdleType DEF Init
  <2>2. \A c \in Controllers : op[c].group = {} /\ op[c].step = "idle"
    BY <2>1, IdleType
  <2>3. NoStatefulSet \in StatefulSet
    BY DEF NoStatefulSet, StatefulSet, StatefulSetStatus, Revisions
  <2>4. queue \subseteq Controllers \X Names
    BY DEF Init, Controllers
  <2>. QED
    BY <2>1, <2>2, <2>3, <2>4, DeploymentsAssumption DEF Init, TypeOK, Status, Pod, Revisions
<1>2. TypeOK /\ [Next]_vars => TypeOK'
  <2> SUFFICES ASSUME TypeOK, [Next]_vars PROVE TypeOK'
    OBVIOUS
  <2> USE DEF OpType
  <2>1. ASSUME NEW n \in Names, Edit(n) PROVE TypeOK'
    BY <2>1 DEF TypeOK, Edit, Revisions, Controllers
  <2>2. ASSUME NEW n \in Names, SyncStatefulSet(n) PROVE TypeOK'
    <3> DEFINE ready == {p \in PodsOf(n) : pods[p].state \in {"ready", "terminating"}}
               Of(rev) == {p \in PodsOf(n) : pods'[p].rev = rev /\ pods'[p].state # "terminating"}
               counted == [update |-> sts[n].rev, ready |-> Cardinality(ready),
                           old |-> Cardinality(Of(sts[n].current)), new |-> Cardinality(Of(sts[n].rev))]
    <3>1. sts' = [sts EXCEPT ![n].status = counted]
      BY <2>2 DEF SyncStatefulSet, Missing, Made, Counted
    <3>2. /\ Cardinality(ready) \in Nat
          /\ \A rev : Cardinality(Of(rev)) \in Nat
      <4>1. ready \in SUBSET PodsOf(n) /\ \A rev : Of(rev) \in SUBSET PodsOf(n)
        OBVIOUS
      <4>2. Cardinality(ready) \in Nat
        BY <4>1, PodCounts
      <4>3. ASSUME NEW rev PROVE Cardinality(Of(rev)) \in Nat
        BY <4>1, PodCounts
      <4>. QED
        BY <4>2, <4>3
    <3>3. counted \in StatefulSetStatus
      <4> HIDE DEF ready, Of
      <4>. QED
        BY <3>2 DEF StatefulSetStatus, TypeOK, StatefulSet
    <3>4. sts' \in [Names -> StatefulSet]
      <4> HIDE DEF counted
      <4>. QED
        BY <3>1, <3>3 DEF TypeOK, StatefulSet
    <3>5. pods' \in [Pods -> Pod]
      <4>1. [state |-> "starting", rev |-> sts[n].rev] \in Pod
        BY DEF TypeOK, Pod, StatefulSet
      <4>2. pods \in [Pods -> Pod]
        BY DEF TypeOK
      <4>. QED
        BY <2>2, <4>1, <4>2 DEF SyncStatefulSet, Missing, Made
    <3>6. queue' \subseteq Controllers \X Names
      BY <2>2 DEF SyncStatefulSet, TypeOK, Controllers
    <3>7. UNCHANGED <<coh, store, status, safe, locks, op, everReady, down, faults>>
      BY <2>2 DEF SyncStatefulSet
    <3>. QED
      BY <3>4, <3>5, <3>6, <3>7 DEF TypeOK
  <2>3. ASSUME NEW p \in Pods, BecomesReady(p) PROVE TypeOK'
    <3>1. pods' \in [Pods -> Pod]
      BY <2>3 DEF TypeOK, BecomesReady, Pod
    <3>2. everReady' \subseteq Names /\ down' \subseteq Pods
      <4> DEFINE new == {n \in {Owner[p]} : \A q \in PodsOf(n) : pods'[q].state = "ready"}
      <4>1. everReady' = everReady \cup new /\ down' = down \ {p}
        BY <2>3 DEF BecomesReady
      <4>2. Owner[p] \in Names
        BY DeploymentsAssumption
      <4>3. new \subseteq Names
        BY <4>2
      <4>. QED
        BY <4>1, <4>3 DEF TypeOK
    <3>. QED
      BY <2>3, <3>1, <3>2 DEF TypeOK, BecomesReady
  <2>4. ASSUME NEW p \in Pods, Stops(p) PROVE TypeOK'
    BY <2>4 DEF TypeOK, Stops, Pod
  <2>5. ASSUME NEW n \in Names, Rebalance(n) PROVE TypeOK'
    BY <2>5 DEF TypeOK, Rebalance
  <2>6. ASSUME NEW c \in Controllers, NEW n \in Names, Lock(c, n) PROVE TypeOK'
    <3>1. OpType'
      BY <2>6 DEF TypeOK, Lock
    <3>. QED
      BY <2>6, <3>1 DEF TypeOK, Lock
  <2>7. ASSUME NEW c \in Controllers, NEW n \in Names, Refuse(c, n) PROVE TypeOK'
    BY <2>7 DEF TypeOK, Refuse, vars
  <2>8. ASSUME NEW c \in Controllers, Reconcile(c) PROVE TypeOK'
    <3> DEFINE n == op[c].name
    <3>0. n \in Names /\ Again(c) \in SUBSET (Controllers \X Names) /\ {} \in SUBSET (Controllers \X Names)
      BY AgainType DEF TypeOK
    <3>1. CASE Create(c)
      <4>1. sts' \in [Names -> StatefulSet]
        <5>1. NewStatefulSet(store[n]) \in StatefulSet
          BY <3>0 DEF NewStatefulSet, StatefulSet, StatefulSetStatus, TypeOK
        <5>. QED
          BY <3>1, <5>1, <3>0 DEF Create, TypeOK
      <4>2. Finish(c, "Created", {})
        BY <3>1 DEF Create
      <4>. QED
        BY <3>0, <3>1, <4>1, <4>2, FinishType DEF Create, TypeOK
    <3>2. CASE WaitForQuorum(c)
      BY <3>0, <3>2, FinishType DEF WaitForQuorum, TypeOK
    <3>3. CASE Patch(c)
      <4>1. sts' \in [Names -> StatefulSet]
        BY <3>3, <3>0 DEF Patch, TypeOK, StatefulSet
      <4>. QED
        BY <3>0, <3>3, <4>1, FinishType DEF Patch, TypeOK
    <3>4. status[n].phase \in {"Waiting", "Created", "Ready", "RollingUpgrade", "Failed"}
      BY <3>0 DEF TypeOK, Status
    <3>5. CASE PutOffPatch(c)
      BY <3>0, <3>4, <3>5, FinishType DEF PutOffPatch, TypeOK
    <3>6. CASE NothingToUpgrade(c)
      BY <3>0, <3>4, <3>6, FinishType DEF NothingToUpgrade, TypeOK
    <3>7. CASE DeferUpgrade(c)
      BY <3>0, <3>4, <3>7, FinishType DEF DeferUpgrade, TypeOK
    <3>8. CASE RollingUpgrade(c)
      <4>1. PICK node \in NodesOf(Outdated(n)) :
                op' = [op EXCEPT ![c].step = "delete",
                                 ![c].group = {p \in Outdated(n) : Node[p] = node}]
        BY <3>8 DEF RollingUpgrade
      <4>2. /\ {p \in Outdated(n) : Node[p] = node} # {}
            /\ Outdated(n) \subseteq PodsOf(n)
            /\ PodsOf(n) \subseteq Pods
        BY <4>1 DEF NodesOf, Outdated, Listed, PodsOf
      <4>3. OpType'
        BY <4>1, <4>2 DEF TypeOK
      <4>. QED
        BY <3>8, <4>3 DEF RollingUpgrade, TypeOK
    <3>9. ASSUME NEW p \in Pods, DeletePod(c, p) PROVE TypeOK'
      <4>1. pods' \in [Pods -> Pod] /\ down' \subseteq Pods /\ sts' \in [Names -> StatefulSet]
        BY <3>9 DEF DeletePod, TypeOK, Pod
      <4>2. CASE op[c].group \ {p} = {}
        BY <3>0, <3>4, <3>9, <4>1, <4>2, FinishType DEF DeletePod, TypeOK
      <4>3. CASE op[c].group \ {p} # {}
        <5>1. OpType'
          BY <3>9, <4>3 DEF DeletePod, TypeOK
        <5>. QED
          BY <3>9, <4>1, <4>3, <5>1 DEF DeletePod, TypeOK
      <4>. QED
        BY <4>2, <4>3
    <3>. QED
      BY <2>8, <3>1, <3>2, <3>3, <3>5, <3>6, <3>7, <3>8, <3>9 DEF Reconcile
  <2>9. ASSUME NEW c \in Controllers, Fail(c) PROVE TypeOK'
    <3>1. OpType' /\ locks' \subseteq Names
      BY <2>9, UnlockType DEF TypeOK, Fail, Unlock
    <3>2. queue' \subseteq Controllers \X Names
      BY <2>9, AgainType DEF TypeOK, Fail
    <3>3. faults' \in 0 .. MaxFaults
      BY <2>9, DeploymentsAssumption DEF TypeOK, Fail, Faulty
    <3>. QED
      BY <2>9, <3>1, <3>2, <3>3 DEF TypeOK, Fail
  <2>10. ASSUME NEW c \in Controllers, PatchFails(c) PROVE TypeOK'
    <3>1. Again(c) \cup {<<"coherence", op[c].name>>} \in SUBSET (Controllers \X Names)
      BY AgainType DEF TypeOK, Controllers
    <3>2. faults' \in 0 .. MaxFaults
      BY <2>10, DeploymentsAssumption DEF TypeOK, PatchFails, Faulty
    <3>. QED
      BY <2>10, <3>1, <3>2, FinishType DEF TypeOK, PatchFails
  <2>11. ASSUME OperatorRestarts PROVE TypeOK'
    <3>1. OpType'
      BY <2>11, IdleType DEF OperatorRestarts, Idle
    <3>2. faults' \in 0 .. MaxFaults
      BY <2>11, DeploymentsAssumption DEF TypeOK, OperatorRestarts, Faulty
    <3>3. queue' \subseteq Controllers \X Names
      BY <2>11 DEF OperatorRestarts, Controllers
    <3>. QED
      BY <2>11, <3>1, <3>2, <3>3 DEF TypeOK, OperatorRestarts
  <2>12. CASE UNCHANGED vars
    BY <2>12 DEF TypeOK, vars
  <2>. QED
    BY <2>1, <2>2, <2>3, <2>4, <2>5, <2>6, <2>7, <2>8, <2>9, <2>10, <2>11, <2>12
       DEF Next, CreateFails, DeleteRefused
<1>. QED
  BY <1>1, <1>2, PTL DEF Spec

-----------------------------------------------------------------------------
\* A controller at work on a name has it locked, and no two are on one name.
Locked ==
    /\ \A c \in Controllers : op[c].step # "idle" => op[c].name \in locks
    /\ \A c, d \in Controllers :
           c # d /\ op[c].step # "idle" /\ op[d].step # "idle" => op[c].name # op[d].name

\* A reconcile ends, and with it the work on its name.
Ends(c) == op[c].step # "idle" /\ Unlock(c)
\* A reconcile goes on to delete Pods.
GoesOn(c) ==
    /\ op[c].step # "idle"
    /\ \E group \in SUBSET Pods : op' = [op EXCEPT ![c].step = "delete", ![c].group = group]
    /\ UNCHANGED locks

\* What a step can do to the lock and the work.
LEMMA StepsOfWork ==
    ASSUME TypeOK, [Next]_vars
    PROVE  \/ UNCHANGED <<op, locks>>
           \/ \E c \in Controllers, n \in Names : Lock(c, n)
           \/ \E c \in Controllers : Ends(c)
           \/ \E c \in Controllers : GoesOn(c)
           \/ OperatorRestarts
<1>1. ASSUME NEW c \in Controllers, Reconcile(c) PROVE Ends(c) \/ GoesOn(c)
  <2>1. CASE Create(c) \/ WaitForQuorum(c)
    BY <2>1 DEF Create, WaitForQuorum, Creates, Finish, Ends
  <2>2. CASE Patch(c) \/ PutOffPatch(c)
    BY <2>2 DEF Patch, PutOffPatch, Updates, Finish, Ends
  <2>3. CASE NothingToUpgrade(c) \/ DeferUpgrade(c)
    BY <2>3 DEF NothingToUpgrade, DeferUpgrade, Upgrades, Finish, Ends
  <2>4. CASE RollingUpgrade(c)
    <3>1. PICK node \in NodesOf(Outdated(op[c].name)) :
              op' = [op EXCEPT ![c].step = "delete",
                               ![c].group = {p \in Outdated(op[c].name) : Node[p] = node}]
      BY <2>4 DEF RollingUpgrade
    <3>2. {p \in Outdated(op[c].name) : Node[p] = node} \in SUBSET Pods
      BY DEF Outdated, Listed, PodsOf
    <3>3. op[c].step # "idle" /\ UNCHANGED locks
      BY <2>4 DEF RollingUpgrade, Upgrades
    <3>. QED
      BY <3>1, <3>2, <3>3 DEF GoesOn
  <2>5. ASSUME NEW p \in Pods, DeletePod(c, p) PROVE Ends(c) \/ GoesOn(c)
    <3>1. op[c].step = "delete" /\ op[c].group \in SUBSET Pods
      BY <2>5 DEF DeletePod, TypeOK
    <3>2. CASE op[c].group \ {p} = {}
      BY <2>5, <3>1, <3>2 DEF DeletePod, Finish, Ends
    <3>3. CASE op[c].group \ {p} # {}
      <4>1. op' = [op EXCEPT ![c].group = op[c].group \ {p}] /\ UNCHANGED locks
        BY <2>5, <3>3 DEF DeletePod
      <4>2. op' = [op EXCEPT ![c].step = "delete", ![c].group = op[c].group \ {p}]
        BY <3>1, <4>1 DEF TypeOK
      <4>3. op[c].group \ {p} \in SUBSET Pods
        BY <3>1
      <4>. QED
        BY <3>1, <4>1, <4>2, <4>3 DEF GoesOn
    <3>. QED
      BY <3>2, <3>3
  <2>. QED
    BY <1>1, <2>1, <2>2, <2>3, <2>4, <2>5 DEF Reconcile
<1>2. ASSUME NEW c \in Controllers, CreateFails(c) \/ PatchFails(c) \/ DeleteRefused(c) PROVE Ends(c)
  BY <1>2 DEF CreateFails, PatchFails, DeleteRefused, Creates, Updates, Fail, Finish, Ends
<1>3. ASSUME NEW n \in Names, Edit(n) \/ SyncStatefulSet(n) \/ Rebalance(n) PROVE UNCHANGED <<op, locks>>
  BY <1>3 DEF Edit, SyncStatefulSet, Rebalance
<1>4. ASSUME NEW p \in Pods, BecomesReady(p) \/ Stops(p) PROVE UNCHANGED <<op, locks>>
  BY <1>4 DEF BecomesReady, Stops
<1>5. ASSUME NEW c \in Controllers, NEW n \in Names, Refuse(c, n) PROVE UNCHANGED <<op, locks>>
  BY <1>5 DEF Refuse, vars
<1>6. CASE UNCHANGED vars
  BY <1>6 DEF vars
<1>. QED
  BY <1>1, <1>2, <1>3, <1>4, <1>5, <1>6 DEF Next

LEMMA LockedInvariant == Spec => []Locked
<1>1. Init => Locked
  BY IdleType DEF Init, Locked
<1>2. TypeOK /\ Locked /\ [Next]_vars => Locked'
  <2> SUFFICES ASSUME TypeOK, Locked, [Next]_vars PROVE Locked'
    OBVIOUS
  <2>1. CASE UNCHANGED <<op, locks>>
    BY <2>1 DEF Locked
  <2>2. ASSUME NEW c \in Controllers, NEW n \in Names, Lock(c, n) PROVE Locked'
    BY <2>2 DEF Lock, Locked, TypeOK
  <2>3. ASSUME NEW c \in Controllers, Ends(c) PROVE Locked'
    BY <2>3, IdleType DEF Ends, Unlock, Locked, TypeOK
  <2>4. ASSUME NEW c \in Controllers, GoesOn(c) PROVE Locked'
    BY <2>4 DEF GoesOn, Locked, TypeOK
  <2>5. CASE OperatorRestarts
    BY <2>5, IdleType DEF OperatorRestarts, Locked
  <2>. QED
    BY <2>1, <2>2, <2>3, <2>4, <2>5, StepsOfWork
<1>. QED
  BY <1>1, <1>2, TypeCorrect, PTL DEF Spec

\* The lock on a name lets one controller at a time work on it: every behaviour
\* of the operator is one of OneReconcileAtATime, whatever reconciles fail, are
\* refused, or die with the process.
THEOREM WorksExclusively == Spec => Exclusive
<1>1. Init => OneAtATime!Init
  BY IdleType DEF Init, OneAtATime!Init, Workers
<1>2. TypeOK /\ Locked /\ [Next]_vars => [OneAtATime!Next]_Workers
  <2> SUFFICES ASSUME TypeOK, Locked, [Next]_vars PROVE [OneAtATime!Next]_Workers
    OBVIOUS
  <2>1. CASE UNCHANGED <<op, locks>>
    BY <2>1 DEF Workers
  <2>2. ASSUME NEW c \in Controllers, NEW n \in Names, Lock(c, n) PROVE OneAtATime!Next
    <3>1. Workers[n] = {}
      BY <2>2 DEF Lock, Locked, Workers
    <3>2. \A d \in Controllers : op'[d] = IF d = c THEN [step |-> "reconcile", name |-> n, group |-> {}] ELSE op[d]
      BY <2>2 DEF Lock, TypeOK
    <3>3. \A m \in Names : Workers'[m] = IF m = n THEN {c} ELSE Workers[m]
      BY <2>2, <3>1, <3>2 DEF Lock, Workers
    <3>4. Workers' = [Workers EXCEPT ![n] = {c}]
      BY <3>3 DEF Workers
    <3>. QED
      BY <3>1, <3>4 DEF OneAtATime!Next, OneAtATime!Enter
  <2>3. ASSUME NEW c \in Controllers, Ends(c) PROVE OneAtATime!Next
    <3> DEFINE n == op[c].name
    <3>0. n \in Names
      BY DEF TypeOK
    <3>1. c \in Workers[n] /\ \A d \in Workers[n] : d = c
      BY <2>3, <3>0 DEF Ends, Locked, Workers
    <3>2. \A d \in Controllers : op'[d] = IF d = c THEN Idle ELSE op[d]
      BY <2>3 DEF Ends, Unlock, TypeOK
    <3>3. \A m \in Names : Workers'[m] = IF m = n THEN {} ELSE Workers[m]
      BY <2>3, <3>1, <3>2, IdleType DEF Ends, Workers
    <3>4. Workers' = [Workers EXCEPT ![n] = {}]
      BY <3>3 DEF Workers
    <3>. QED
      BY <3>0, <3>1, <3>4 DEF OneAtATime!Next, OneAtATime!Leave
  <2>4. ASSUME NEW c \in Controllers, GoesOn(c) PROVE UNCHANGED Workers
    <3>1. \A d \in Controllers : (op'[d].step = "idle" <=> op[d].step = "idle") /\ op'[d].name = op[d].name
      BY <2>4 DEF GoesOn, TypeOK
    <3>. QED
      BY <3>1 DEF Workers
  <2>5. CASE OperatorRestarts
    <3>1. Workers' = [n \in Names |-> {}]
      BY <2>5, IdleType DEF OperatorRestarts, Workers
    <3>. QED
      BY <3>1 DEF OneAtATime!Next, OneAtATime!Die
  <2>. QED
    BY <2>1, <2>2, <2>3, <2>4, <2>5, StepsOfWork
<1>. QED
  BY <1>1, <1>2, TypeCorrect, LockedInvariant, PTL DEF Spec, Exclusive, OneAtATime!Spec

-----------------------------------------------------------------------------
\* Pods that are down are not ready, and those that a controller is about to
\* delete are on one node, together with all that are down.
GroupsOnNode ==
    /\ \A p \in down : pods[p].state # "ready"
    /\ \A c \in Controllers : \A p \in op[c].group, q \in op[c].group \cup down :
           Owner[q] = op[c].name => Node[p] = Node[q]
    /\ OneNodeAtATime

\* A reconcile that ends leaves no more groups than there were.
LEMMA EndsKeepsGroups ==
    ASSUME TypeOK, GroupsOnNode, NEW c \in Controllers, Ends(c), UNCHANGED <<pods, down>>
    PROVE  GroupsOnNode'
<1>1. \A d \in Controllers : op'[d] = IF d = c THEN Idle ELSE op[d]
  BY DEF Ends, Unlock, TypeOK
<1>. QED
  BY <1>1, IdleType DEF GroupsOnNode, OneNodeAtATime

LEMMA UpgradeKeepsGroups ==
    ASSUME TypeOK, Locked, GroupsOnNode, NEW c \in Controllers, RollingUpgrade(c)
    PROVE  GroupsOnNode'
<1> DEFINE n == op[c].name
<1>1. PICK node \in NodesOf(Outdated(n)) :
          op' = [op EXCEPT ![c].step = "delete",
                           ![c].group = {p \in Outdated(n) : Node[p] = node}]
  BY DEF RollingUpgrade
<1>2. \A q \in down : Owner[q] # n
  <2>1. \A q \in PodsOf(n) : pods[q].state = "ready"
    BY DEF RollingUpgrade, IsStatusHA, PodIsReady
  <2>. QED
    BY <2>1 DEF GroupsOnNode, PodsOf, TypeOK
<1>3. \A d \in Controllers : /\ op'[d].name = op[d].name
                             /\ d # c => op'[d] = op[d]
  BY <1>1 DEF TypeOK
<1>4. op'[c].group = {p \in Outdated(n) : Node[p] = node}
  BY <1>1 DEF TypeOK
<1>5. UNCHANGED <<pods, down>>
  BY DEF RollingUpgrade
<1>. QED
  BY <1>2, <1>3, <1>4, <1>5 DEF GroupsOnNode, OneNodeAtATime

LEMMA DeleteKeepsGroups ==
    ASSUME TypeOK, Locked, GroupsOnNode,
           NEW c \in Controllers, NEW p \in Pods, DeletePod(c, p)
    PROVE  GroupsOnNode'
<1> DEFINE n == op[c].name
<1>1. /\ p \in op[c].group
      /\ Owner[p] = n
      /\ op[c].step = "delete"
      /\ pods' = [pods EXCEPT ![p].state = "terminating"]
      /\ down' = down \cup {p}
  BY DEF DeletePod, TypeOK, PodsOf
<1>2. \A q \in down' : pods'[q].state # "ready"
  BY <1>1 DEF GroupsOnNode, TypeOK, Pod
<1>3. OneNodeAtATime'
  BY <1>1 DEF GroupsOnNode, OneNodeAtATime
<1>4. \A d \in Controllers : d # c => op'[d] = op[d] /\ (op[d].group # {} => op[d].name # n)
  <2>1. \A d \in Controllers : d # c => op'[d] = op[d]
    BY DEF DeletePod, Finish, Unlock, TypeOK
  <2>2. \A d \in Controllers : d # c /\ op[d].group # {} => op[d].name # n
    BY <1>1 DEF Locked, TypeOK
  <2>. QED
    BY <2>1, <2>2
<1>5. op'[c].group \subseteq op[c].group /\ (op'[c].group # {} => op'[c].name = n)
  <2>1. CASE op[c].group \ {p} = {}
    BY <2>1, IdleType DEF DeletePod, Finish, Unlock, TypeOK
  <2>2. CASE op[c].group \ {p} # {}
    BY <2>2 DEF DeletePod, TypeOK
  <2>. QED
    BY <2>1, <2>2
<1>6. ASSUME NEW d \in Controllers, NEW q \in op'[d].group, NEW r \in op'[d].group \cup down',
             Owner[r] = op'[d].name
      PROVE  Node[q] = Node[r]
  <2>1. CASE d = c
    BY <1>1, <1>5, <1>6, <2>1 DEF GroupsOnNode
  <2>2. CASE d # c
    BY <1>1, <1>4, <1>6, <2>2 DEF GroupsOnNode
  <2>. QED
    BY <2>1, <2>2
<1>. QED
  BY <1>2, <1>3, <1>6 DEF GroupsOnNode

LEMMA GroupsInvariant == Spec => []GroupsOnNode
<1>1. Init => GroupsOnNode
  BY IdleType DEF Init, GroupsOnNode, OneNodeAtATime
<1>2. TypeOK /\ Locked /\ GroupsOnNode /\ [Next]_vars => GroupsOnNode'
  <2> SUFFICES ASSUME TypeOK, Locked, GroupsOnNode, [Next]_vars PROVE GroupsOnNode'
    OBVIOUS
  <2>1. ASSUME NEW n \in Names, Edit(n) \/ Rebalance(n) PROVE GroupsOnNode'
    BY <2>1 DEF Edit, Rebalance, GroupsOnNode, OneNodeAtATime
  <2>2. ASSUME NEW n \in Names, SyncStatefulSet(n) PROVE GroupsOnNode'
    <3>1. \A p \in Pods : pods'[p].state = "ready" => pods[p].state = "ready"
      BY <2>2 DEF SyncStatefulSet, Missing, Made
    <3>2. UNCHANGED <<op, down>> /\ down \subseteq Pods
      BY <2>2 DEF SyncStatefulSet, TypeOK
    <3>. QED
      BY <3>1, <3>2 DEF GroupsOnNode, OneNodeAtATime
  <2>3. ASSUME NEW p \in Pods, BecomesReady(p) PROVE GroupsOnNode'
    <3>1. /\ pods' = [pods EXCEPT ![p].state = "ready"]
          /\ down' = down \ {p}
          /\ UNCHANGED op
      BY <2>3 DEF BecomesReady
    <3>2. \A q \in Pods : q # p => pods'[q] = pods[q]
      BY <3>1 DEF TypeOK
    <3>. QED
      BY <3>1, <3>2 DEF GroupsOnNode, OneNodeAtATime, TypeOK
  <2>4. ASSUME NEW p \in Pods, Stops(p) PROVE GroupsOnNode'
    <3>1. \A q \in Pods : pods'[q].state = "ready" => pods[q].state = "ready"
      BY <2>4 DEF Stops, TypeOK, Pod
    <3>2. UNCHANGED <<op, down>>
      BY <2>4 DEF Stops
    <3>. QED
      BY <3>1, <3>2 DEF GroupsOnNode, OneNodeAtATime, TypeOK
  <2>5. ASSUME NEW c \in Controllers, NEW n \in Names, Lock(c, n) PROVE GroupsOnNode'
    <3>1. \A d \in Controllers : op'[d].group # {} => op'[d] = op[d]
      BY <2>5 DEF Lock, TypeOK
    <3>2. UNCHANGED <<pods, down>>
      BY <2>5 DEF Lock
    <3>. QED
      BY <3>1, <3>2 DEF GroupsOnNode, OneNodeAtATime
  <2>6. ASSUME NEW c \in Controllers, NEW n \in Names, Refuse(c, n) PROVE GroupsOnNode'
    BY <2>6 DEF Refuse, vars, GroupsOnNode, OneNodeAtATime
  <2>7. ASSUME NEW c \in Controllers, Reconcile(c) PROVE GroupsOnNode'
    <3>1. CASE Create(c) \/ WaitForQuorum(c) \/ Patch(c) \/ PutOffPatch(c)
      BY <3>1, EndsKeepsGroups
         DEF Create, WaitForQuorum, Creates, Patch, PutOffPatch, Updates, Finish, Ends
    <3>2. CASE NothingToUpgrade(c) \/ DeferUpgrade(c)
      BY <3>2, EndsKeepsGroups DEF NothingToUpgrade, DeferUpgrade, Upgrades, Finish, Ends
    <3>. QED
      BY <2>7, <3>1, <3>2, UpgradeKeepsGroups, DeleteKeepsGroups DEF Reconcile
  <2>8. ASSUME NEW c \in Controllers, CreateFails(c) \/ PatchFails(c) \/ DeleteRefused(c)
        PROVE  GroupsOnNode'
    BY <2>8, EndsKeepsGroups
       DEF CreateFails, PatchFails, DeleteRefused, Creates, Updates, Fail, Finish, Ends
  <2>9. CASE OperatorRestarts
    BY <2>9, IdleType DEF OperatorRestarts, GroupsOnNode, OneNodeAtATime
  <2>10. CASE UNCHANGED vars
    BY <2>10 DEF vars, GroupsOnNode, OneNodeAtATime
  <2>. QED
    BY <2>1, <2>2, <2>3, <2>4, <2>5, <2>6, <2>7, <2>8, <2>9, <2>10 DEF Next
<1>. QED
  BY <1>1, <1>2, TypeCorrect, LockedInvariant, PTL DEF Spec

\* Upgrades by node take the Pods of one node at a time: a node's Pods are
\* chosen when all Pods of the resource are ready, the lock keeps the other
\* controller from choosing while they are deleted, and what a failed or
\* killed reconcile leaves of them is not ready until it is back.
THEOREM UpgradesNodeByNode == Spec => []OneNodeAtATime
<1>1. GroupsOnNode => OneNodeAtATime
  BY DEF GroupsOnNode
<1>. QED
  BY <1>1, GroupsInvariant, PTL

-----------------------------------------------------------------------------
\* From the Pods over the StatefulSet's counts to the phase Ready.
ReadyIsTrue ==
    /\ \A n \in Names : (\A p \in PodsOf(n) : pods[p].state = "ready") => n \in everReady
    /\ \A n \in Names : sts[n].status.ready = Replicas(n) /\ sts[n].status.old = Replicas(n)
                          => n \in everReady
    /\ \A n \in Names : status[n].phase = "Ready" => n \in everReady
    /\ StartsInOrder

LEMMA AllPods ==
    ASSUME NEW n \in Names, NEW S \in SUBSET PodsOf(n), Cardinality(S) = Replicas(n)
    PROVE  S = PodsOf(n)
BY PodCounts, FS_Subset DEF Replicas

LEMMA SomePods == ASSUME NEW n \in Names PROVE Replicas(n) # 0
<1>1. PodsOf(n) # {}
  BY DeploymentsAssumption DEF PodsOf
<1>. QED
  BY <1>1, PodCounts, FS_EmptySet DEF Replicas

\* The end of a reconcile writes the phase Ready only over counts that show it.
LEMMA FinishKeepsReady ==
    ASSUME TypeOK, ReadyIsTrue, NEW c \in Controllers, NEW phase, NEW requests,
           Finish(c, phase, requests),
           phase = "Ready" => status[op[c].name].phase = "Ready",
           \A n \in Names : sts'[n].status.ready = Replicas(n) /\ sts'[n].status.old = Replicas(n)
                              => n \in everReady
    PROVE  \A n \in Names : status'[n].phase = "Ready" => n \in everReady'
<1> DEFINE m == op[c].name
           before == [status[m] EXCEPT !.phase = phase]
<1>1. m \in Names /\ before.phase = phase
  BY DEF TypeOK, Status
<1>2. status' = [status EXCEPT ![m] = Updated(before, sts'[m], m)] /\ UNCHANGED everReady
  BY DEF Finish
<1>3. Updated(before, sts'[m], m).phase = "Ready" => m \in everReady
  <2> HIDE DEF before
  <2>. QED
    BY <1>1 DEF Updated, ReadyIsTrue
<1>. QED
  BY <1>1, <1>2, <1>3 DEF TypeOK, ReadyIsTrue

\* A reconcile that ends without creating the StatefulSet.
LEMMA EndKeepsReady ==
    ASSUME TypeOK, ReadyIsTrue, NEW c \in Controllers, NEW phase, NEW requests,
           Finish(c, phase, requests),
           phase = "Ready" => status[op[c].name].phase = "Ready",
           UNCHANGED sts,
           \A p \in Pods : pods'[p].state = "ready" => pods[p].state = "ready"
    PROVE  ReadyIsTrue'
<1>1. \A n \in Names : status'[n].phase = "Ready" => n \in everReady'
  BY FinishKeepsReady DEF ReadyIsTrue
<1>2. UNCHANGED everReady
  BY DEF Finish
<1>. QED
  BY <1>1, <1>2 DEF ReadyIsTrue, StartsInOrder, PodsOf

LEMMA CreateKeepsReady ==
    ASSUME TypeOK, ReadyIsTrue, NEW c \in Controllers, Create(c)
    PROVE  ReadyIsTrue'
<1> DEFINE n == op[c].name
<1>1. n \in Names /\ UNCHANGED <<everReady, pods>>
  BY DEF Create, Finish, TypeOK
<1>2. sts' = [sts EXCEPT ![n] = NewStatefulSet(store[n])]
  BY DEF Create
<1>3. \A m \in Names : m # n => sts'[m] = sts[m]
  BY <1>2 DEF TypeOK
<1>4. sts'[n].status.ready # Replicas(n)
  BY <1>1, <1>2, SomePods DEF TypeOK, NewStatefulSet
<1>5. \A m \in Names : sts'[m].status.ready = Replicas(m) /\ sts'[m].status.old = Replicas(m)
                         => m \in everReady
  BY <1>3, <1>4 DEF ReadyIsTrue
<1>6. \A m \in Names : status'[m].phase = "Ready" => m \in everReady'
  BY <1>5, FinishKeepsReady DEF Create
<1>7. \A q \in Quorum[n] : q.on \in everReady
  BY <1>1, DeploymentsAssumption DEF Create, CanCreate, ReadyIsTrue
<1>. QED
  BY <1>1, <1>3, <1>5, <1>6, <1>7 DEF ReadyIsTrue, StartsInOrder

LEMMA SyncKeepsReady ==
    ASSUME TypeOK, ReadyIsTrue, NEW n \in Names, SyncStatefulSet(n)
    PROVE  ReadyIsTrue'
<1> DEFINE ready == {p \in PodsOf(n) : pods[p].state \in {"ready", "terminating"}}
           old == {p \in PodsOf(n) : pods'[p].rev = sts[n].current /\ pods'[p].state # "terminating"}
<1>1. /\ sts'[n].status.ready = Cardinality(ready)
      /\ sts'[n].status.old = Cardinality(old)
      /\ sts'[n].rev = sts[n].rev
      /\ \A m \in Names : m # n => sts'[m] = sts[m]
  BY DEF SyncStatefulSet, Missing, Made, Counted, TypeOK, StatefulSet
<1>2. \A p \in Pods : pods[p].state \in {"ready", "terminating"} => pods'[p] = pods[p]
  BY DEF SyncStatefulSet, Missing, Made
<1>3. \A p \in Pods : pods'[p].state = "ready" => pods[p].state = "ready"
  BY DEF SyncStatefulSet, Missing, Made
<1>4. ASSUME Cardinality(ready) = Replicas(n), Cardinality(old) = Replicas(n)
      PROVE  n \in everReady
  <2>1. ready = PodsOf(n) /\ old = PodsOf(n)
    BY <1>4, AllPods
  <2>2. \A p \in PodsOf(n) : pods[p].state = "ready"
    BY <2>1, <1>2 DEF PodsOf
  <2>. QED
    BY <2>2 DEF ReadyIsTrue
<1>5. UNCHANGED <<status, everReady>>
  BY DEF SyncStatefulSet
<1> HIDE DEF ready, old
<1>6. \A m \in Names : sts'[m].status.ready = Replicas(m) /\ sts'[m].status.old = Replicas(m)
                         => m \in everReady
  BY <1>1, <1>4 DEF ReadyIsTrue
<1>. QED
  BY <1>1, <1>3, <1>5, <1>6 DEF ReadyIsTrue, StartsInOrder, PodsOf

LEMMA ReadyInvariant == Spec => []ReadyIsTrue
<1>1. Init => ReadyIsTrue
  <2> SUFFICES ASSUME Init PROVE ReadyIsTrue
    OBVIOUS
  <2>1. \A n \in Names : \E p \in PodsOf(n) : pods[p].state = "gone"
    BY DeploymentsAssumption DEF Init, PodsOf
  <2>2. \A n \in Names : sts[n].rev = 0 /\ sts[n].status.ready = 0 /\ status[n].phase = "Waiting"
    BY DEF Init, NoStatefulSet
  <2>. QED
    BY <2>1, <2>2, SomePods DEF ReadyIsTrue, StartsInOrder
<1>2. TypeOK /\ ReadyIsTrue /\ [Next]_vars => ReadyIsTrue'
  <2> SUFFICES ASSUME TypeOK, ReadyIsTrue, [Next]_vars PROVE ReadyIsTrue'
    OBVIOUS
  <2>1. ASSUME UNCHANGED <<sts, status, everReady>>,
               \A p \in Pods : pods'[p].state = "ready" => pods[p].state = "ready"
        PROVE  ReadyIsTrue'
    BY <2>1 DEF ReadyIsTrue, StartsInOrder, PodsOf
  <2>2. ASSUME NEW n \in Names, Edit(n) \/ Rebalance(n) PROVE ReadyIsTrue'
    BY <2>1, <2>2 DEF Edit, Rebalance
  <2>3. ASSUME NEW p \in Pods, BecomesReady(p) PROVE ReadyIsTrue'
    <3>1. /\ everReady \subseteq everReady'
          /\ (\A q \in PodsOf(Owner[p]) : pods'[q].state = "ready") => Owner[p] \in everReady'
          /\ UNCHANGED <<sts, status>>
      BY <2>3 DEF BecomesReady
    <3>2. \A q \in Pods : q # p => pods'[q] = pods[q]
      BY <2>3 DEF BecomesReady, TypeOK
    <3>3. ASSUME NEW n \in Names, \A q \in PodsOf(n) : pods'[q].state = "ready"
          PROVE  n \in everReady'
      <4>1. CASE n = Owner[p]
        BY <3>1, <3>3, <4>1
      <4>2. CASE n # Owner[p]
        BY <3>1, <3>2, <3>3, <4>2 DEF ReadyIsTrue, PodsOf
      <4>. QED
        BY <4>1, <4>2
    <3>. QED
      BY <3>1, <3>3, DeploymentsAssumption DEF ReadyIsTrue, StartsInOrder
  <2>4. ASSUME NEW p \in Pods, Stops(p) PROVE ReadyIsTrue'
    BY <2>1, <2>4 DEF Stops, TypeOK, Pod
  <2>5. ASSUME NEW c \in Controllers, NEW n \in Names, Lock(c, n) \/ Refuse(c, n) PROVE ReadyIsTrue'
    BY <2>1, <2>5 DEF Lock, Refuse, vars
  <2>6. ASSUME NEW c \in Controllers, Reconcile(c) PROVE ReadyIsTrue'
    <3>1. CASE WaitForQuorum(c) \/ PutOffPatch(c) \/ NothingToUpgrade(c) \/ DeferUpgrade(c)
      BY <3>1, EndKeepsReady DEF WaitForQuorum, PutOffPatch, NothingToUpgrade, DeferUpgrade
    <3>2. CASE Patch(c)
      <4>1. Finish(c, "RollingUpgrade", {}) /\ UNCHANGED <<pods, everReady>>
        BY <3>2 DEF Patch, Finish
      <4>2. \A n \in Names : /\ sts'[n].status = sts[n].status
                             /\ sts'[n].rev # 0 => sts[n].rev # 0
        BY <3>2 DEF Patch, Updates, TypeOK, StatefulSet
      <4>3. \A n \in Names : sts'[n].status.ready = Replicas(n) /\ sts'[n].status.old = Replicas(n)
                               => n \in everReady
        BY <4>2 DEF ReadyIsTrue
      <4>4. \A n \in Names : status'[n].phase = "Ready" => n \in everReady'
        BY <4>1, <4>3, FinishKeepsReady
      <4>. QED
        BY <4>1, <4>2, <4>3, <4>4 DEF ReadyIsTrue, StartsInOrder
    <3>3. CASE RollingUpgrade(c)
      BY <2>1, <3>3 DEF RollingUpgrade
    <3>4. ASSUME NEW p \in Pods, DeletePod(c, p) PROVE ReadyIsTrue'
      <4>1. \A q \in Pods : pods'[q].state = "ready" => pods[q].state = "ready"
        BY <3>4 DEF DeletePod, TypeOK, Pod
      <4>2. CASE op[c].group \ {p} = {}
        BY <3>4, <4>1, <4>2, EndKeepsReady DEF DeletePod
      <4>3. CASE op[c].group \ {p} # {}
        BY <2>1, <3>4, <4>1, <4>3 DEF DeletePod
      <4>. QED
        BY <4>2, <4>3
    <3>. QED
      BY <2>6, <3>1, <3>2, <3>3, <3>4, CreateKeepsReady DEF Reconcile
  <2>7. ASSUME NEW c \in Controllers, CreateFails(c) \/ DeleteRefused(c) PROVE ReadyIsTrue'
    BY <2>1, <2>7 DEF CreateFails, DeleteRefused, Fail
  <2>8. ASSUME NEW c \in Controllers, PatchFails(c) PROVE ReadyIsTrue'
    BY <2>8, EndKeepsReady DEF PatchFails
  <2>9. CASE OperatorRestarts
    BY <2>1, <2>9 DEF OperatorRestarts
  <2>10. CASE UNCHANGED vars
    BY <2>1, <2>10 DEF vars
  <2>. QED
    BY <2>2, <2>3, <2>4, <2>5, <2>6, <2>7, <2>8, <2>9, <2>10, SyncKeepsReady DEF Next
<1>. QED
  BY <1>1, <1>2, TypeCorrect, PTL DEF Spec

\* A start quorum is met only by resources that have been whole: a phase Ready
\* stands for counts, and these for Pods that were all ready at one time.
THEOREM QuorumBeforeStart == Spec => []StartsInOrder
<1>1. ReadyIsTrue => StartsInOrder
  BY DEF ReadyIsTrue
<1>. QED
  BY <1>1, ReadyInvariant, PTL
-----------------------------------------------------------------------------
(***************************************************************************)
(* Nothing is forgotten.                                                   *)
(***************************************************************************)

\* A controller works on the resource, or has a request for it.
InWork(n) ==
    \E c \in Controllers : <<c, n>> \in queue \/ (op[c].step # "idle" /\ op[c].name = n)

\* What a reconcile would do that finds every Pod ready and counted.
ToPatch(n) == sts[n].rev # store[n]
ToUpgrade(n) ==
    /\ IsDue(n)
    /\ sts[n].status.update = sts[n].rev
    /\ \A p \in PodsOf(n) : pods[p].state = "ready"

\* Templates go from the resource to the store, the StatefulSet and its status.
InOrder ==
    \A n \in Names : /\ sts[n].status.update <= sts[n].rev
                     /\ sts[n].rev <= store[n]
                     /\ store[n] <= coh[n]

\* A Pod is of a revision, and not counted as ready before it is.
PodsInv ==
    \A p \in Pods : /\ pods[p].state # "gone" => pods[p].rev # 0
                    /\ pods[p].state = "starting" =>
                         sts[Owner[p]].status.ready # Replicas(Owner[p])

\* The Pods that are about to be deleted are ready and of a template that is
\* the one in the store, which only a reconcile of the resource changes.
UpToDate ==
    \A c \in Controllers : op[c].step = "delete" =>
        /\ sts[op[c].name].rev = store[op[c].name]
        /\ \A p \in op[c].group : pods[p].state = "ready"

WorkInv ==
    \A n \in Names : /\ coh[n] # store[n] => <<"coherence", n>> \in queue
                     /\ ToPatch(n) \/ ToUpgrade(n) => InWork(n)

\* Only what the StatefulSet, its Pods and the store are decides what is to be done.
LEMMA DueKept ==
    ASSUME NEW n \in Names, sts'[n] = sts[n], store'[n] = store[n],
           \A p \in PodsOf(n) : pods'[p] = pods[p]
    PROVE  (ToPatch(n) <=> ToPatch(n)') /\ (ToUpgrade(n) <=> ToUpgrade(n)')
<1>1. Listed(n)' = Listed(n)
  BY DEF Listed, PodsOf
<1>2. Outdated(n)' = Outdated(n)
  BY <1>1 DEF Outdated, Listed
<1>3. IsDue(n)' = IsDue(n)
  BY <1>1, <1>2 DEF IsDue, NodesOf, PodsOf, Replicas
<1>. QED
  BY <1>3 DEF ToPatch, ToUpgrade, PodsOf

\* A reconcile that ends may leave what it has not done to a request of its own;
\* other resources are not touched.
LEMMA EndKeepsWork ==
    ASSUME TypeOK, WorkInv, NEW c \in Controllers, op[c].step # "idle", Unlock(c),
           queue \subseteq queue', UNCHANGED <<coh, store>>,
           NEW n \in Names, n = op[c].name,
           \A m \in Names : m # n =>
             sts'[m] = sts[m] /\ \A p \in PodsOf(m) : pods'[p] = pods[p],
           (ToPatch(n) \/ ToUpgrade(n))' => InWork(n)'
    PROVE  WorkInv'
<1>1. SUFFICES ASSUME NEW m \in Names, m # n, (ToPatch(m) \/ ToUpgrade(m))'
               PROVE  InWork(m)'
  BY DEF WorkInv
<1>2. InWork(m)
  BY <1>1, DueKept DEF WorkInv
<1>3. \A d \in Controllers : d # c => op'[d] = op[d]
  BY DEF Unlock, TypeOK
<1>. QED
  BY <1>1, <1>2, <1>3 DEF InWork

\* A request of its own for the resource it worked on.
LEMMA AgainKeepsWork ==
    ASSUME TypeOK, WorkInv, NEW c \in Controllers, op[c].step # "idle", Unlock(c),
           queue \subseteq queue', Again(c) \subseteq queue', UNCHANGED <<coh, store, sts, pods>>
    PROVE  WorkInv'
<1>1. PICK n \in Names : n = op[c].name
  BY DEF TypeOK
<1>2. InWork(n)'
  BY <1>1 DEF Again, InWork
<1>. QED
  BY <1>1, <1>2, EndKeepsWork

LEMMA CreateKeepsWork ==
    ASSUME TypeOK, WorkInv, NEW c \in Controllers, Create(c)
    PROVE  WorkInv'
<1>0. PICK n \in Names : n = op[c].name
  BY DEF TypeOK
<1>1. /\ n \in Names
      /\ n = op[c].name
      /\ op[c].step # "idle"
      /\ Unlock(c)
      /\ queue \subseteq queue'
      /\ sts' = [sts EXCEPT ![n] = NewStatefulSet(store[n])]
      /\ UNCHANGED <<coh, store, pods>>
  BY <1>0 DEF Create, Creates, Finish, TypeOK
<1>2. /\ sts'[n] = NewStatefulSet(store[n])
      /\ \A m \in Names : m # n => sts'[m] = sts[m]
  BY <1>1 DEF TypeOK
<1>3. ~ToPatch(n)'
  BY <1>1, <1>2 DEF ToPatch, NewStatefulSet
<1>4. ~ToUpgrade(n)'
  BY <1>1, <1>2, SomePods DEF ToUpgrade, IsDue, NewStatefulSet, Replicas, PodsOf
<1>. QED
  BY <1>1, <1>2, <1>3, <1>4, EndKeepsWork

LEMMA PatchKeepsWork ==
    ASSUME TypeOK, InOrder, WorkInv, NEW c \in Controllers, Patch(c)
    PROVE  WorkInv'
<1>0. PICK n \in Names : n = op[c].name
  BY DEF TypeOK
<1>1. /\ n \in Names
      /\ n = op[c].name
      /\ op[c].step # "idle"
      /\ Unlock(c)
      /\ queue \subseteq queue'
      /\ sts[n].rev # store[n]
      /\ sts' = [sts EXCEPT ![n].rev = store[n]]
      /\ UNCHANGED <<coh, store, pods>>
  BY <1>0 DEF Patch, Updates, Finish, TypeOK
<1>2. /\ sts'[n].rev = store[n]
      /\ sts'[n].status = sts[n].status
      /\ \A m \in Names : m # n => sts'[m] = sts[m]
  BY <1>1 DEF TypeOK, StatefulSet
<1>3. ~ToPatch(n)'
  BY <1>1, <1>2 DEF ToPatch
<1>4. sts[n].status.update < store[n]
  <2>1. sts[n].status.update \in Nat /\ sts[n].rev \in Nat /\ store[n] \in Nat
    BY DEF TypeOK, StatefulSet, StatefulSetStatus, Revisions
  <2>2. sts[n].status.update <= sts[n].rev /\ sts[n].rev <= store[n]
    BY DEF InOrder
  <2>. QED
    BY <1>1, <2>1, <2>2
<1>5. ~ToUpgrade(n)'
  BY <1>1, <1>2, <1>4 DEF ToUpgrade, TypeOK, StatefulSet, StatefulSetStatus, Revisions
<1>. QED
  BY <1>1, <1>2, <1>3, <1>5, EndKeepsWork

\* A reconcile ends for good only when nothing is due, or a Pod is on its way.
LEMMA UpgradeKeepsWork ==
    ASSUME TypeOK, UpToDate, WorkInv, NEW c \in Controllers,
           \/ NothingToUpgrade(c) \/ DeferUpgrade(c) \/ RollingUpgrade(c)
           \/ \E p \in Pods : DeletePod(c, p)
    PROVE  WorkInv'

<1>0. PICK n \in Names : n = op[c].name
  BY DEF TypeOK
<1>1. n \in Names /\ n = op[c].name /\ op[c].step # "idle"
  BY <1>0 DEF TypeOK, NothingToUpgrade, DeferUpgrade, RollingUpgrade, Upgrades, DeletePod
<1>2. CASE NothingToUpgrade(c)
  <2>1. Unlock(c) /\ queue \subseteq queue' /\ UNCHANGED <<coh, store, sts, pods>>
    BY <1>2 DEF NothingToUpgrade, Finish
  <2>2. ~ToPatch(n) /\ ~ToUpgrade(n)
    BY <1>1, <1>2 DEF NothingToUpgrade, Upgrades, ToPatch, ToUpgrade
  <2>3. ~ToPatch(n)' /\ ~ToUpgrade(n)'
    BY <1>1, <2>1, <2>2, DueKept
  <2>. QED
    BY <1>1, <2>1, <2>3, EndKeepsWork
<1>3. CASE DeferUpgrade(c)
  BY <1>1, <1>3, AgainKeepsWork DEF DeferUpgrade, Finish
<1>4. ASSUME UNCHANGED <<coh, store, queue>>, op'[c].step = "delete", op'[c].name = n,
             \A d \in Controllers : d # c => op'[d] = op[d],
             \A m \in Names : m # n => sts'[m] = sts[m] /\ \A p \in PodsOf(m) : pods'[p] = pods[p]
      PROVE  WorkInv'
  <2>1. InWork(n)'
    BY <1>4 DEF InWork
  <2>2. ASSUME NEW m \in Names, m # n, (ToPatch(m) \/ ToUpgrade(m))' PROVE InWork(m)'
    <3>1. InWork(m)
      BY <1>4, <2>2, DueKept DEF WorkInv
    <3>. QED
      BY <1>1, <1>4, <2>2, <3>1 DEF InWork
  <2>. QED
    BY <1>4, <2>1, <2>2 DEF WorkInv
<1>5. CASE RollingUpgrade(c)
  <2>1. PICK node \in NodesOf(Outdated(n)) :
            op' = [op EXCEPT ![c].step = "delete", ![c].group = {p \in Outdated(n) : Node[p] = node}]
    BY <1>1, <1>5 DEF RollingUpgrade
  <2>2. /\ op'[c].step = "delete"
        /\ op'[c].name = n
        /\ \A d \in Controllers : d # c => op'[d] = op[d]
    BY <1>1, <2>1 DEF TypeOK
  <2>. QED
    BY <1>4, <1>5, <2>2 DEF RollingUpgrade
<1>6. ASSUME NEW p \in Pods, DeletePod(c, p) PROVE WorkInv'
  <2>1. /\ op[c].step = "delete"
        /\ p \in PodsOf(n)
        /\ pods' = [pods EXCEPT ![p].state = "terminating"]
        /\ UNCHANGED sts
    BY <1>1, <1>6 DEF DeletePod, TypeOK
  <2>2. /\ pods'[p].state = "terminating"
        /\ \A m \in Names : m # n => \A q \in PodsOf(m) : pods'[q] = pods[q]
    BY <2>1 DEF TypeOK, Pod, PodsOf
  <2>3. CASE op[c].group \ {p} = {}
    <3>1. Unlock(c) /\ queue \subseteq queue' /\ UNCHANGED <<coh, store>>
      BY <1>6, <2>3 DEF DeletePod, Finish
    <3>2. ~ToPatch(n)'
      BY <1>1, <2>1, <3>1 DEF ToPatch, UpToDate
    <3>3. ~ToUpgrade(n)'
      BY <2>1, <2>2 DEF ToUpgrade, PodsOf
    <3>. QED
      BY <1>1, <2>1, <2>2, <3>1, <3>2, <3>3, EndKeepsWork
  <2>4. CASE op[c].group \ {p} # {}
    <3>1. op' = [op EXCEPT ![c].group = op[c].group \ {p}] /\ UNCHANGED <<coh, store, queue>>
      BY <1>6, <2>4 DEF DeletePod
    <3>2. /\ op'[c].step = "delete"
          /\ op'[c].name = n
          /\ \A d \in Controllers : d # c => op'[d] = op[d]
      BY <1>1, <2>1, <3>1 DEF TypeOK
    <3>. QED
      BY <1>4, <2>1, <2>2, <3>1, <3>2
  <2>. QED
    BY <2>3, <2>4
<1>. QED
  BY <1>2, <1>3, <1>5, <1>6

\* The StatefulSet controller leaves a Pod that starts, or makes a request.
LEMMA SyncKeepsWork ==
    ASSUME TypeOK, WorkInv, NEW n \in Names, SyncStatefulSet(n)
    PROVE  WorkInv'
<1>1. /\ sts' = [sts EXCEPT ![n].status = Counted(n)]
      /\ pods' = Made(n)
      /\ queue \subseteq queue'
      /\ UNCHANGED <<coh, store, op>>
  BY DEF SyncStatefulSet
<1>2. \A m \in Names : InWork(m) => InWork(m)'
  BY <1>1 DEF InWork
<1>3. \A m \in Names : m # n => sts'[m] = sts[m] /\ \A p \in PodsOf(m) : pods'[p] = pods[p]
  BY <1>1 DEF TypeOK, Made, Missing, PodsOf
<1>4. ASSUME NEW m \in Names, m # n, (ToPatch(m) \/ ToUpgrade(m))' PROVE InWork(m)'
  BY <1>1, <1>2, <1>3, <1>4, DueKept DEF WorkInv
<1>5. sts'[n].rev = sts[n].rev /\ sts'[n].status = Counted(n)
  BY <1>1 DEF TypeOK, StatefulSet
<1>6. ToPatch(n)' => InWork(n)'
  BY <1>1, <1>2, <1>5 DEF ToPatch, WorkInv
<1>7. ToUpgrade(n)' => InWork(n)'
  <2>1. CASE Counted(n) # sts[n].status
    <3>1. <<"statefulset", n>> \in queue'
      BY <2>1 DEF SyncStatefulSet
    <3>. QED
      BY <3>1 DEF InWork, Controllers
  <2>2. CASE Counted(n) = sts[n].status
    <3>1. PICK p \in PodsOf(n) : pods[p].state = "gone"
      BY <2>2 DEF SyncStatefulSet, Missing
    <3>2. pods'[p].state = "starting"
      BY <1>1, <3>1 DEF Made, Missing, PodsOf
    <3>. QED
      BY <3>1, <3>2 DEF ToUpgrade, PodsOf
  <2>. QED
    BY <2>1, <2>2
<1>8. \A m \in Names : coh'[m] # store'[m] => <<"coherence", m>> \in queue'
  BY <1>1 DEF WorkInv
<1>. QED
  BY <1>4, <1>6, <1>7, <1>8 DEF WorkInv

\* A Pod that becomes ready is not counted as ready yet.
LEMMA PodKeepsWork ==
    ASSUME TypeOK, PodsInv, WorkInv, NEW p \in Pods, BecomesReady(p) \/ Stops(p)
    PROVE  WorkInv'
<1>1. UNCHANGED <<coh, store, sts, op, queue>>
  BY DEF BecomesReady, Stops
<1>2. \A q \in Pods : q # p => pods'[q] = pods[q]
  BY DEF BecomesReady, Stops, TypeOK
<1>3. \A m \in Names : InWork(m) => InWork(m)'
  BY <1>1 DEF InWork
<1>4. ASSUME NEW m \in Names, m # Owner[p] PROVE (ToPatch(m) \/ ToUpgrade(m))' => InWork(m)'
  <2>1. \A q \in PodsOf(m) : pods'[q] = pods[q]
    BY <1>2, <1>4 DEF PodsOf
  <2>. QED
    BY <1>1, <1>3, <2>1, DueKept DEF WorkInv
<1>5. Owner[p] \in Names /\ p \in PodsOf(Owner[p])
  BY DeploymentsAssumption DEF PodsOf
<1>6. ToPatch(Owner[p])' => InWork(Owner[p])'
  BY <1>1, <1>3, <1>5 DEF ToPatch, WorkInv
<1>7. ~ToUpgrade(Owner[p])'
  <2>1. CASE BecomesReady(p)
    <3>1. sts[Owner[p]].status.ready # Replicas(Owner[p])
      BY <2>1 DEF PodsInv, BecomesReady
    <3>. QED
      BY <1>1, <3>1 DEF ToUpgrade, IsDue, Replicas, PodsOf
  <2>2. CASE Stops(p)
    <3>1. pods'[p].state = "gone"
      BY <2>2 DEF Stops, TypeOK, Pod
    <3>. QED
      BY <1>5, <3>1 DEF ToUpgrade, PodsOf
  <2>. QED
    BY <2>1, <2>2
<1>8. \A m \in Names : coh'[m] # store'[m] => <<"coherence", m>> \in queue'
  BY <1>1 DEF WorkInv
<1>. QED
  BY <1>4, <1>5, <1>6, <1>7, <1>8 DEF WorkInv

\* A request that is taken up is work; the store gets what the request is about.
LEMMA LockKeepsWork ==
    ASSUME TypeOK, WorkInv, NEW c \in Controllers, NEW n \in Names, Lock(c, n)
    PROVE  WorkInv'
<1>1. /\ op' = [op EXCEPT ![c] = [step |-> "reconcile", name |-> n, group |-> {}]]
      /\ op[c].step = "idle"
      /\ queue' = queue \ {<<c, n>>}
      /\ store' = IF c = "coherence" THEN [store EXCEPT ![n] = coh[n]] ELSE store
      /\ UNCHANGED <<coh, sts, pods>>
  BY DEF Lock
<1>2. op'[c].step = "reconcile" /\ op'[c].name = n /\ \A d \in Controllers : d # c => op'[d] = op[d]
  BY <1>1 DEF TypeOK
<1>3. InWork(n)'
  BY <1>2 DEF InWork
<1>4. \A m \in Names : m # n => store'[m] = store[m]
  BY <1>1 DEF TypeOK
<1>5. ASSUME NEW m \in Names, m # n, (ToPatch(m) \/ ToUpgrade(m))' PROVE InWork(m)'
  <2>1. InWork(m)
    BY <1>1, <1>4, <1>5, DueKept DEF WorkInv
  <2>. QED
    BY <1>1, <1>2, <1>5, <2>1 DEF InWork
<1>6. ASSUME NEW m \in Names, coh'[m] # store'[m] PROVE <<"coherence", m>> \in queue'
  <2>1. coh[m] # store[m] /\ <<c, n>> # <<"coherence", m>>
    BY <1>1, <1>6 DEF TypeOK
  <2>. QED
    BY <1>1, <2>1 DEF WorkInv
<1>. QED
  BY <1>3, <1>5, <1>6 DEF WorkInv

WorkIInv == InOrder /\ PodsInv /\ UpToDate /\ WorkInv

LEMMA InOrderStep ==
    ASSUME TypeOK, InOrder, [Next]_vars
    PROVE  InOrder'
<1>1. ASSUME NEW n \in Names, Edit(n) PROVE InOrder'
  BY <1>1 DEF Edit, InOrder, TypeOK, StatefulSet, StatefulSetStatus, Revisions
<1>2. ASSUME NEW n \in Names, SyncStatefulSet(n) PROVE InOrder'
  <2>1. /\ sts'[n].rev = sts[n].rev
        /\ sts'[n].status.update = sts[n].rev
        /\ \A m \in Names : m # n => sts'[m] = sts[m]
    BY <1>2 DEF SyncStatefulSet, Counted, TypeOK, StatefulSet
  <2>2. UNCHANGED <<store, coh>>
    BY <1>2 DEF SyncStatefulSet
  <2>3. sts[n].rev <= sts[n].rev
    BY DEF TypeOK, StatefulSet, Revisions
  <2>. QED
    BY <2>1, <2>2, <2>3 DEF InOrder
<1>3. ASSUME NEW c \in Controllers, NEW n \in Names, Lock(c, n) PROVE InOrder'
  <2>1. UNCHANGED <<coh, sts>> /\ \A m \in Names : store'[m] = store[m] \/ store'[m] = coh[m]
    BY <1>3 DEF Lock, TypeOK
  <2>. QED
    BY <2>1 DEF InOrder, TypeOK, StatefulSet, StatefulSetStatus, Revisions
<1>4. ASSUME NEW c \in Controllers, Create(c) PROVE InOrder'
  <2>1. /\ sts'[op[c].name] = NewStatefulSet(store[op[c].name])
        /\ \A m \in Names : m # op[c].name => sts'[m] = sts[m]
        /\ UNCHANGED <<coh, store>>
    BY <1>4 DEF Create, Finish, TypeOK
  <2>2. store[op[c].name] <= store[op[c].name] /\ op[c].name \in Names
    BY DEF TypeOK, Revisions
  <2>. QED
    BY <2>1, <2>2 DEF InOrder, NewStatefulSet
<1>5. ASSUME NEW c \in Controllers, Patch(c) PROVE InOrder'
  <2>1. /\ sts'[op[c].name].rev = store[op[c].name]
        /\ sts'[op[c].name].status = sts[op[c].name].status
        /\ \A m \in Names : m # op[c].name => sts'[m] = sts[m]
        /\ UNCHANGED <<coh, store>>
    BY <1>5 DEF Patch, Finish, TypeOK, StatefulSet
  <2>2. sts[op[c].name].status.update <= store[op[c].name] /\ store[op[c].name] <= store[op[c].name]
    BY DEF InOrder, TypeOK, StatefulSet, StatefulSetStatus, Revisions
  <2>. QED
    BY <2>1, <2>2 DEF InOrder
<1>6. ASSUME UNCHANGED <<coh, store, sts>> PROVE InOrder'
  BY <1>6 DEF InOrder
<1>7. ASSUME NEW c \in Controllers,
             \/ WaitForQuorum(c) \/ PutOffPatch(c) \/ NothingToUpgrade(c) \/ DeferUpgrade(c)
             \/ RollingUpgrade(c) \/ CreateFails(c) \/ PatchFails(c) \/ DeleteRefused(c)
             \/ \E p \in Pods : DeletePod(c, p)
      PROVE  InOrder'
  BY <1>6, <1>7 DEF WaitForQuorum, PutOffPatch, NothingToUpgrade, DeferUpgrade, RollingUpgrade,
                    CreateFails, PatchFails, DeleteRefused, DeletePod, Fail, Finish
<1>8. ASSUME NEW n \in Names, Rebalance(n) \/ \E c \in Controllers : Refuse(c, n) PROVE InOrder'
  BY <1>6, <1>8 DEF Rebalance, Refuse, vars
<1>9. ASSUME NEW p \in Pods, BecomesReady(p) \/ Stops(p) PROVE InOrder'
  BY <1>6, <1>9 DEF BecomesReady, Stops
<1>10. CASE OperatorRestarts \/ UNCHANGED vars
  BY <1>6, <1>10 DEF OperatorRestarts, vars
<1>. QED
  BY <1>1, <1>2, <1>3, <1>4, <1>5, <1>7, <1>8, <1>9, <1>10 DEF Next, Reconcile

LEMMA PodsStep ==
    ASSUME TypeOK, UpToDate, PodsInv, [Next]_vars
    PROVE  PodsInv'
<1>1. ASSUME NEW n \in Names, SyncStatefulSet(n) PROVE PodsInv'
  <2> DEFINE ready == {p \in PodsOf(n) : pods[p].state \in {"ready", "terminating"}}
  <2>1. /\ sts'[n].status.ready = Cardinality(ready)
        /\ \A m \in Names : m # n => sts'[m] = sts[m]
        /\ sts[n].rev # 0
        /\ pods' = Made(n)
    BY <1>1 DEF SyncStatefulSet, Counted, TypeOK, StatefulSet
  <2>2. ASSUME NEW p \in Pods, Owner[p] # n PROVE pods'[p] = pods[p] /\ sts'[Owner[p]] = sts[Owner[p]]
    BY <2>1, <2>2, DeploymentsAssumption DEF Made, Missing, PodsOf
  <2>3. ASSUME NEW p \in Pods, Owner[p] = n PROVE pods'[p].state # "gone" => pods'[p].rev # 0
    BY <2>1, <2>3 DEF Made, Missing, PodsInv
  <2>4. ASSUME NEW p \in Pods, Owner[p] = n, pods'[p].state = "starting"
        PROVE  sts'[n].status.ready # Replicas(n)
    <3>1. p \in PodsOf(n) /\ p \notin ready
      BY <2>1, <2>4 DEF Made, Missing, PodsOf
    <3>2. ready # PodsOf(n) /\ ready \in SUBSET PodsOf(n)
      BY <3>1
    <3>. QED
      BY <2>1, <3>2, AllPods
  <2>. HIDE DEF ready
  <2>5. ASSUME NEW p \in Pods
        PROVE  /\ pods'[p].state # "gone" => pods'[p].rev # 0
               /\ pods'[p].state = "starting" => sts'[Owner[p]].status.ready # Replicas(Owner[p])
    BY <2>2, <2>3, <2>4 DEF PodsInv
  <2>. QED
    BY <2>5 DEF PodsInv, Replicas, PodsOf
<1>2. ASSUME NEW c \in Controllers, Create(c) PROVE PodsInv'
  <2>1. /\ sts'[op[c].name] = NewStatefulSet(store[op[c].name])
        /\ \A m \in Names : m # op[c].name => sts'[m] = sts[m]
        /\ op[c].name \in Names
        /\ UNCHANGED pods
    BY <1>2 DEF Create, TypeOK
  <2>2. sts'[op[c].name].status.ready # Replicas(op[c].name)
    BY <2>1, SomePods DEF NewStatefulSet
  <2>3. \A p \in Pods : Owner[p] \in Names /\ Replicas(Owner[p])' = Replicas(Owner[p])
    BY DeploymentsAssumption DEF Replicas, PodsOf
  <2>. QED
    BY <2>1, <2>2, <2>3 DEF PodsInv
<1>3. ASSUME \A n \in Names : sts'[n].status = sts[n].status,
             \A p \in Pods : \/ pods'[p] = pods[p]
                             \/ pods'[p].state \in {"ready", "terminating"} /\ pods'[p].rev = pods[p].rev
                                /\ pods[p].state # "gone"
                             \/ pods'[p].state = "gone"
      PROVE  PodsInv'
  <2>1. \A p \in Pods : Owner[p] \in Names /\ Replicas(Owner[p])' = Replicas(Owner[p])
    BY DeploymentsAssumption DEF Replicas, PodsOf
  <2>2. ASSUME NEW p \in Pods
        PROVE  /\ pods'[p].state # "gone" => pods'[p].rev # 0
               /\ pods'[p].state = "starting" => pods'[p] = pods[p]
    BY <1>3 DEF PodsInv
  <2>. QED
    BY <1>3, <2>1, <2>2 DEF PodsInv
<1>4. ASSUME UNCHANGED <<sts, pods>> PROVE PodsInv'
  BY <1>4 DEF PodsInv, Replicas, PodsOf
<1>5. ASSUME NEW c \in Controllers, Patch(c) PROVE PodsInv'
  <2>1. UNCHANGED pods /\ \A n \in Names : sts'[n].status = sts[n].status
    BY <1>5 DEF Patch, TypeOK, StatefulSet
  <2>. QED
    BY <1>3, <2>1
<1>6. ASSUME NEW p \in Pods, BecomesReady(p) PROVE PodsInv'
  <2>1. /\ \A q \in Pods : q # p => pods'[q] = pods[q]
        /\ pods'[p].state = "ready" /\ pods'[p].rev = pods[p].rev /\ pods[p].state # "gone"
    BY <1>6 DEF BecomesReady, TypeOK, Pod
  <2>. QED
    BY <1>3, <1>6, <2>1 DEF BecomesReady
<1>7. ASSUME NEW p \in Pods, Stops(p) PROVE PodsInv'
  <2>1. (\A q \in Pods : q # p => pods'[q] = pods[q]) /\ pods'[p].state = "gone"
    BY <1>7 DEF Stops, TypeOK, Pod
  <2>. QED
    BY <1>3, <1>7, <2>1 DEF Stops
<1>8. ASSUME NEW c \in Controllers, NEW p \in Pods, DeletePod(c, p) PROVE PodsInv'
  <2>1. /\ \A q \in Pods : q # p => pods'[q] = pods[q]
        /\ pods'[p].state = "terminating" /\ pods'[p].rev = pods[p].rev
        /\ UNCHANGED sts
        /\ pods[p].state = "ready"
    BY <1>8 DEF DeletePod, UpToDate, TypeOK, Pod
  <2>. QED
    BY <1>3, <1>8, <2>1
<1>9. ASSUME NEW c \in Controllers,
             \/ WaitForQuorum(c) \/ PutOffPatch(c) \/ NothingToUpgrade(c) \/ DeferUpgrade(c)
             \/ RollingUpgrade(c) \/ CreateFails(c) \/ PatchFails(c) \/ DeleteRefused(c)
      PROVE  PodsInv'
  BY <1>4, <1>9 DEF WaitForQuorum, PutOffPatch, NothingToUpgrade, DeferUpgrade, RollingUpgrade,
                    CreateFails, PatchFails, DeleteRefused, Fail, Finish
<1>10. ASSUME NEW n \in Names, Edit(n) \/ Rebalance(n) \/ \E c \in Controllers : Lock(c, n) \/ Refuse(c, n)
       PROVE  PodsInv'
  BY <1>4, <1>10 DEF Edit, Rebalance, Lock, Refuse, vars
<1>11. CASE OperatorRestarts \/ UNCHANGED vars
  BY <1>4, <1>11 DEF OperatorRestarts, vars
<1>. QED
  BY <1>1, <1>2, <1>5, <1>6, <1>7, <1>8, <1>9, <1>10, <1>11 DEF Next, Reconcile

LEMMA UpToDateStep ==
    ASSUME TypeOK, Locked, UpToDate, [Next]_vars
    PROVE  UpToDate'
<1>1. ASSUME \A c \in Controllers : op'[c].step = "delete" =>
               /\ op[c].step = "delete"
               /\ op'[c].name = op[c].name
               /\ op'[c].group \subseteq op[c].group
               /\ sts'[op[c].name].rev = sts[op[c].name].rev
               /\ store'[op[c].name] = store[op[c].name]
               /\ \A p \in op'[c].group : pods[p].state = "ready" => pods'[p].state = "ready"
      PROVE  UpToDate'
  BY <1>1 DEF UpToDate
<1>2. ASSUME UNCHANGED <<op, store>>, \A n \in Names : sts'[n].rev = sts[n].rev,
             \A p \in Pods : pods[p].state = "ready" => pods'[p].state = "ready"
      PROVE  UpToDate'
  BY <1>1, <1>2 DEF TypeOK
<1>3. ASSUME NEW c \in Controllers, Ends(c), UNCHANGED <<store, pods>>,
             \A n \in Names : n # op[c].name => sts'[n] = sts[n]
      PROVE  UpToDate'
  <2>1. \A d \in Controllers : op'[d] = IF d = c THEN Idle ELSE op[d]
    BY <1>3 DEF Ends, Unlock, TypeOK
  <2>2. \A d \in Controllers : op'[d].step = "delete" => d # c /\ op[d].name # op[c].name
    BY <1>3, <2>1, IdleType DEF Ends, Locked
  <2>. QED
    BY <1>1, <1>3, <2>1, <2>2 DEF TypeOK
<1>4. ASSUME NEW n \in Names, Edit(n) \/ Rebalance(n) PROVE UpToDate'
  BY <1>2, <1>4 DEF Edit, Rebalance
<1>5. ASSUME NEW n \in Names, SyncStatefulSet(n) PROVE UpToDate'
  <2>1. UNCHANGED <<op, store>> /\ \A m \in Names : sts'[m].rev = sts[m].rev
    BY <1>5 DEF SyncStatefulSet, TypeOK, StatefulSet
  <2>2. \A p \in Pods : pods[p].state = "ready" => pods'[p].state = "ready"
    BY <1>5 DEF SyncStatefulSet, Made, Missing
  <2>. QED
    BY <1>2, <2>1, <2>2
<1>6. ASSUME NEW p \in Pods, BecomesReady(p) \/ Stops(p) PROVE UpToDate'
  <2>1. \A q \in Pods : pods[q].state = "ready" => pods'[q].state = "ready"
    BY <1>6 DEF BecomesReady, Stops, TypeOK, Pod
  <2>. QED
    BY <1>2, <1>6, <2>1 DEF BecomesReady, Stops
<1>7. ASSUME NEW c \in Controllers, NEW n \in Names, Lock(c, n) PROVE UpToDate'
  <2>1. \A d \in Controllers : op'[d].step = "delete" => op'[d] = op[d] /\ op[d].name # n
    BY <1>7 DEF Lock, Locked, TypeOK
  <2>2. UNCHANGED <<sts, pods>> /\ \A m \in Names : m # n => store'[m] = store[m]
    BY <1>7 DEF Lock, TypeOK
  <2>. QED
    BY <1>1, <2>1, <2>2 DEF TypeOK
<1>8. ASSUME NEW c \in Controllers, Create(c) \/ Patch(c) PROVE UpToDate'
  <2>1. Ends(c) /\ UNCHANGED <<store, pods>> /\ \A n \in Names : n # op[c].name => sts'[n] = sts[n]
    BY <1>8 DEF Create, Creates, Patch, Updates, Finish, Ends, TypeOK
  <2>. QED
    BY <1>3, <2>1
<1>9. ASSUME NEW c \in Controllers,
             \/ WaitForQuorum(c) \/ PutOffPatch(c) \/ NothingToUpgrade(c) \/ DeferUpgrade(c)
             \/ CreateFails(c) \/ PatchFails(c) \/ DeleteRefused(c)
      PROVE  UpToDate'
  <2>1. Ends(c) /\ UNCHANGED <<store, pods, sts>>
    BY <1>9 DEF WaitForQuorum, PutOffPatch, NothingToUpgrade, DeferUpgrade, CreateFails, PatchFails,
                DeleteRefused, Creates, Updates, Upgrades, Fail, Finish, Ends
  <2>. QED
    BY <1>3, <2>1
<1>10. ASSUME NEW c \in Controllers, RollingUpgrade(c) PROVE UpToDate'
  <2> DEFINE n == op[c].name
  <2>1. PICK node \in NodesOf(Outdated(n)) :
            op' = [op EXCEPT ![c].step = "delete", ![c].group = {p \in Outdated(n) : Node[p] = node}]
    BY <1>10 DEF RollingUpgrade
  <2>2. /\ op'[c].name = n
        /\ op'[c].group \subseteq PodsOf(n)
        /\ \A d \in Controllers : d # c => op'[d] = op[d]
    BY <2>1 DEF TypeOK, Outdated, Listed
  <2>3. /\ \A p \in PodsOf(n) : pods[p].state = "ready"
        /\ sts[n].rev = store[n]
        /\ UNCHANGED <<sts, store, pods>>
    BY <1>10 DEF RollingUpgrade, Upgrades, IsStatusHA, PodIsReady
  <2>. QED
    BY <2>2, <2>3 DEF UpToDate
<1>11. ASSUME NEW c \in Controllers, NEW p \in Pods, DeletePod(c, p) PROVE UpToDate'
  <2>1. /\ p \in op[c].group /\ op[c].step = "delete" /\ p \in PodsOf(op[c].name)
        /\ \A q \in Pods : q # p => pods'[q] = pods[q]
        /\ UNCHANGED <<sts, store>>
    BY <1>11 DEF DeletePod, Finish, TypeOK
  <2>2. op'[c].step = "delete" => op'[c] = [op[c] EXCEPT !.group = op[c].group \ {p}]
    BY <1>11, IdleType DEF DeletePod, Finish, Unlock, TypeOK
  <2>3. \A d \in Controllers : d # c => op'[d] = op[d]
    BY <1>11 DEF DeletePod, Finish, Unlock, TypeOK
  <2>4. \A d \in Controllers : d # c /\ op[d].step = "delete" => p \notin op[d].group
    BY <2>1 DEF Locked, TypeOK, PodsOf
  <2>5. ASSUME NEW d \in Controllers, op'[d].step = "delete"
        PROVE  /\ op[d].step = "delete"
               /\ op'[d].name = op[d].name
               /\ op'[d].group \subseteq op[d].group \ {p}
    BY <2>1, <2>2, <2>3, <2>4, <2>5 DEF TypeOK
  <2>. QED
    BY <1>1, <2>1, <2>5 DEF TypeOK
<1>12. CASE OperatorRestarts
  BY <1>12, IdleType DEF OperatorRestarts, UpToDate
<1>13. ASSUME NEW c \in Controllers, NEW n \in Names, Refuse(c, n) PROVE UpToDate'
  BY <1>2, <1>13 DEF Refuse, vars
<1>14. CASE UNCHANGED vars
  BY <1>2, <1>14 DEF vars
<1>. QED
  BY <1>4, <1>5, <1>6, <1>7, <1>8, <1>9, <1>10, <1>11, <1>12, <1>13, <1>14 DEF Next, Reconcile

LEMMA WorkStep ==
    ASSUME TypeOK, WorkIInv, [Next]_vars
    PROVE  WorkInv'
<1>. USE DEF WorkIInv
<1>1. ASSUME UNCHANGED <<store, sts, pods>>, queue \subseteq queue',
             \A n \in Names : coh'[n] = coh[n] \/ <<"coherence", n>> \in queue',
             \/ UNCHANGED op
             \/ \A n \in Names : <<"coherence", n>> \in queue'
      PROVE  WorkInv'
  <2>1. ASSUME NEW n \in Names, InWork(n) PROVE InWork(n)'
    BY <1>1, <2>1 DEF InWork, Controllers
  <2>. QED
    BY <1>1, <2>1, DueKept DEF WorkInv
<1>2. ASSUME NEW n \in Names, Edit(n) PROVE WorkInv'
  BY <1>1, <1>2 DEF Edit, TypeOK
<1>3. ASSUME NEW n \in Names, Rebalance(n) \/ \E c \in Controllers : Refuse(c, n) PROVE WorkInv'
  BY <1>1, <1>3 DEF Rebalance, Refuse, vars
<1>4. ASSUME NEW c \in Controllers, WaitForQuorum(c) \/ PutOffPatch(c) PROVE WorkInv'
  BY <1>4, AgainKeepsWork DEF WaitForQuorum, PutOffPatch, Creates, Updates, Finish
<1>5. ASSUME NEW c \in Controllers, CreateFails(c) \/ PatchFails(c) \/ DeleteRefused(c) PROVE WorkInv'
  BY <1>5, AgainKeepsWork DEF CreateFails, PatchFails, DeleteRefused, Creates, Updates, Fail, Finish
<1>6. ASSUME NEW c \in Controllers, Reconcile(c) PROVE WorkInv'
  BY <1>4, <1>6, CreateKeepsWork, PatchKeepsWork, UpgradeKeepsWork DEF Reconcile
<1>7. CASE OperatorRestarts
  <2>1. /\ \A n \in Names : <<"coherence", n>> \in queue'
        /\ UNCHANGED <<coh, store, sts, pods>>
    BY <1>7 DEF OperatorRestarts
  <2>. QED
    BY <2>1 DEF WorkInv, InWork, Controllers
<1>8. CASE UNCHANGED vars
  BY <1>1, <1>8 DEF vars
<1>. QED
  BY <1>2, <1>3, <1>5, <1>6, <1>7, <1>8, SyncKeepsWork, PodKeepsWork, LockKeepsWork DEF Next

LEMMA WorkInvariant == Spec => []WorkIInv
<1>1. Init => WorkIInv
  <2> SUFFICES ASSUME Init PROVE WorkIInv
    OBVIOUS
  <2>1. \A n \in Names : <<"coherence", n>> \in queue
    BY DEF Init
  <2>2. WorkInv
    BY <2>1 DEF WorkInv, InWork, Controllers
  <2>3. UpToDate
    BY IdleType DEF Init, UpToDate
  <2>4. InOrder
    BY DEF Init, InOrder, NoStatefulSet
  <2>5. PodsInv
    BY DEF Init, PodsInv
  <2>. QED
    BY <2>2, <2>3, <2>4, <2>5 DEF WorkIInv
<1>2. TypeOK /\ Locked /\ WorkIInv /\ [Next]_vars => WorkIInv'
  BY InOrderStep, PodsStep, UpToDateStep, WorkStep DEF WorkIInv
<1>. QED
  BY <1>1, <1>2, TypeCorrect, LockedInvariant, PTL DEF Spec

\* What a reconcile would do is known to a controller, at every moment: a template
\* that is new to the store is in the queue of the first one, and a StatefulSet that
\* is behind the store, or Pods that are due to be upgraded, are in the work or a
\* queue of one of the two.
THEOREM WorkIsKnown ==
    Spec => [](\A n \in Names : /\ coh[n] # store[n] => <<"coherence", n>> \in queue
                                /\ ToPatch(n) \/ ToUpgrade(n) => InWork(n))
<1>1. WorkIInv => \A n \in Names : /\ coh[n] # store[n] => <<"coherence", n>> \in queue
                                   /\ ToPatch(n) \/ ToUpgrade(n) => InWork(n)
  BY DEF WorkIInv, WorkInv
<1>. QED
  BY <1>1, WorkInvariant, PTL

\* Pods that are ready, counted and of the two revisions add up to the whole.
LEMMA AllCounted ==
    ASSUME TypeOK, NEW n \in Names, sts[n].status = Counted(n),
           \A p \in PodsOf(n) : pods[p].state = "ready",
           \A p \in PodsOf(n) : pods[p].rev \in {sts[n].current, sts[n].rev},
           sts[n].current # sts[n].rev
    PROVE  /\ sts[n].status.ready = Replicas(n)
           /\ sts[n].status.old + sts[n].status.new = Replicas(n)
           /\ sts[n].status.update = sts[n].rev
<1> DEFINE At(rev) == {p \in PodsOf(n) : pods[p].rev = rev}
           old == At(sts[n].current)
           new == At(sts[n].rev)
<1>1. Missing(n) = {}
  BY DEF Missing
<1>2. \A p \in PodsOf(n) : Made(n)[p] = pods[p]
  BY <1>1 DEF Made, PodsOf
<1>3. /\ {p \in PodsOf(n) : pods[p].state \in {"ready", "terminating"}} = PodsOf(n)
      /\ \A rev : {p \in PodsOf(n) : Made(n)[p].rev = rev /\ Made(n)[p].state # "terminating"} = At(rev)
  BY <1>2
<1>4. /\ sts[n].status.ready = Replicas(n)
      /\ sts[n].status.update = sts[n].rev
      /\ sts[n].status.old = Cardinality(old)
      /\ sts[n].status.new = Cardinality(new)
  <2> DEFINE ready == {p \in PodsOf(n) : pods[p].state \in {"ready", "terminating"}}
             As(rev) == {p \in PodsOf(n) : Made(n)[p].rev = rev /\ Made(n)[p].state # "terminating"}
  <2>1. Counted(n) = [update |-> sts[n].rev, ready |-> Cardinality(ready),
                      old |-> Cardinality(As(sts[n].current)), new |-> Cardinality(As(sts[n].rev))]
    BY DEF Counted
  <2>2. ready = PodsOf(n) /\ As(sts[n].current) = old /\ As(sts[n].rev) = new
    BY <1>3
  <2> HIDE DEF ready, As, old, new
  <2>. QED
    BY <2>1, <2>2 DEF Replicas
<1>5. IsFiniteSet(old) /\ IsFiniteSet(new)
  BY PodCounts
<1>6. old \cup new = PodsOf(n) /\ old \cap new = {}
  OBVIOUS
<1>7. Cardinality(old \cup new) = Cardinality(old) + Cardinality(new)
  <2> HIDE DEF old, new
  <2>1. Cardinality(old \cup new) = Cardinality(old) + Cardinality(new) - Cardinality(old \cap new)
    BY <1>5, FS_Union
  <2>2. Cardinality(old) \in Nat /\ Cardinality(new) \in Nat
    BY <1>5, FS_CardinalityType
  <2>3. Cardinality(old \cap new) = 0
    BY <1>6, FS_EmptySet
  <2>. QED
    BY <2>1, <2>2, <2>3
<1>. QED
  BY <1>4, <1>6, <1>7 DEF Replicas

\* Nothing is forgotten: when the queues are empty, no reconcile is under way and the
\* Pods of every StatefulSet are ready and counted, every resource has a StatefulSet
\* of its template, and Pods of that template unless the code has no way to upgrade
\* them, whatever was refused, put off, failed or killed on the way there.
THEOREM NothingIsForgotten == Spec => []NothingForgotten
<1>1. TypeOK /\ WorkIInv => NothingForgotten
  <2> SUFFICES ASSUME TypeOK, WorkIInv, Quiet, NEW n \in Names
               PROVE  /\ sts[n].rev = coh[n]
                      /\ Upgradable(n) => \A p \in PodsOf(n) : pods[p].rev = coh[n]
    BY DEF NothingForgotten
  <2>1. ~InWork(n)
    BY DEF Quiet, InWork
  <2>2. coh[n] = store[n] /\ ~ToPatch(n) /\ ~ToUpgrade(n)
    BY <2>1 DEF WorkIInv, WorkInv, Quiet
  <2>3. sts[n].rev = coh[n] /\ sts[n].rev # 0
    BY <2>2 DEF ToPatch, TypeOK, Revisions
  <2>4. /\ \A p \in PodsOf(n) : pods[p].state = "ready" /\ pods[p].rev # 0
        /\ sts[n].status = Counted(n)
    BY <2>3 DEF Quiet, WorkIInv, PodsInv, PodsOf
  <2>5. ASSUME Upgradable(n), NEW p \in PodsOf(n), pods[p].rev # coh[n] PROVE FALSE
    <3>1. \A q \in PodsOf(n) : pods[q].rev \in {sts[n].current, sts[n].rev}
      BY <2>4, <2>5 DEF Upgradable
    <3>2. sts[n].current # sts[n].rev
      BY <2>3, <2>5, <3>1
    <3>3. /\ sts[n].status.ready = Replicas(n)
          /\ sts[n].status.old + sts[n].status.new = Replicas(n)
          /\ sts[n].status.update = sts[n].rev
      BY <2>4, <3>1, <3>2, AllCounted
    <3>4. Listed(n) = PodsOf(n)
      BY <2>4 DEF Listed
    <3>5. p \in Outdated(n)
      BY <2>3, <2>5, <3>3, <3>4 DEF Outdated
    <3>6. IsDue(n)
      BY <2>5, <3>2, <3>3, <3>4, <3>5 DEF IsDue, Upgradable
    <3>. QED
      BY <2>2, <2>4, <3>3, <3>6 DEF ToUpgrade
  <2>. QED
    BY <2>3, <2>5
<1>. QED
  BY <1>1, TypeCorrect, WorkInvariant, PTL
=============================================================================
