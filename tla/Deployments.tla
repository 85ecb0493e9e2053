----------------------------- MODULE Deployments -----------------------------
(***************************************************************************)
(* Several Coherence resources of one operator: they wait for one another  *)
(* to start, two controllers work on each of them under one lock, and the  *)
(* operator itself upgrades their Pods, all those of a node at a time.     *)
(*                                                                         *)
(* Sizes do not change here, Pods go only when the operator deletes them,  *)
(* and a template is its number: scaling and Pods that fail are in         *)
(* StatefulSetReconciler.  The update strategy is UpgradeByNode or, if     *)
(* Node is read as the value of a label, UpgradeByNodeLabel.               *)
(*                                                                         *)
(* A definition whose name ends in _Word is a plausible bug in the one it  *)
(* is named after: the property checks show that they notice it.           *)
(***************************************************************************)
EXTENDS Integers, FiniteSets

CONSTANTS
    Names,      \* the Coherence resources
    Pods,       \* the Pods of all of them
    Owner,      \* the resource of each Pod
    Node,       \* the node, or the node's label, of each Pod
    Quorum,     \* the start quorums of each resource
    MaxEdits,   \* bound: how often a user changes the template of each resource
    MaxFaults   \* bound: failed calls and operator restarts

ASSUME DeploymentsAssumption ==
    /\ Names # {}
    /\ IsFiniteSet(Pods)
    /\ Owner \in [Pods -> Names]
    /\ \A n \in Names : \E p \in Pods : Owner[p] = n
    /\ DOMAIN Node = Pods
    /\ Quorum \in [Names -> SUBSET [on: Names, pods: Nat]]
    /\ MaxEdits \in [Names -> Nat]
    /\ MaxFaults \in Nat

VARIABLES
    coh,        \* the revision of the template in each Coherence resource
    store,      \* the one in its state store; 0 before the first reconcile
    status,     \* the phase and ready count in each Coherence resource
    sts,        \* the StatefulSets and their status
    pods,       \* the Pods
    safe,       \* the resources whose partitions all have backups, or none can have one
    locks,      \* the names that are locked
    op,         \* what each controller is doing
    queue,      \* the requests in the work queues
    everReady,  \* history: the resources all of whose Pods have been ready at once
    down,       \* history: Pods the operator deleted that have not been ready since
    faults      \* how many faults have happened

vars == <<coh, store, status, sts, pods, safe, locks, op, queue, everReady, down, faults>>

Controllers == {"coherence", "statefulset"}
Revisions == Nat \ {0}
PodsOf(n) == {p \in Pods : Owner[p] = n}
Replicas(n) == Cardinality(PodsOf(n))

Status == [phase: {"Waiting", "Created", "Ready", "RollingUpgrade", "Failed"}, ready: Nat]
StatefulSetStatus == [update: {0} \cup Revisions, ready: Nat, old: Nat, new: Nat]
\* The current revision is the first one: nothing completes an update of a
\* StatefulSet that is updated by deleting Pods.
StatefulSet == [rev: {0} \cup Revisions, current: {0} \cup Revisions, status: StatefulSetStatus]
Pod == [state: {"gone", "starting", "ready", "terminating"}, rev: {0} \cup Revisions]

TypeOK ==
    /\ coh \in [Names -> Revisions]
    /\ store \in [Names -> {0} \cup Revisions]
    /\ status \in [Names -> Status]
    /\ sts \in [Names -> StatefulSet]
    /\ pods \in [Pods -> Pod]
    /\ safe \subseteq Names
    /\ locks \subseteq Names
    /\ op \in [Controllers -> [step: {"idle", "reconcile", "delete"}, name: Names, group: SUBSET Pods]]
    /\ \A c \in Controllers : op[c].group \subseteq PodsOf(op[c].name)
    /\ \A c \in Controllers : op[c].step = "delete" <=> op[c].group # {}
    /\ queue \subseteq Controllers \X Names
    /\ everReady \subseteq Names
    /\ down \subseteq Pods
    /\ faults \in 0 .. MaxFaults

NoStatefulSet ==
    [rev |-> 0, current |-> 0, status |-> [update |-> 0, ready |-> 0, old |-> 0, new |-> 0]]
NewStatefulSet(rev) ==
    [rev |-> rev, current |-> rev, status |-> [update |-> rev, ready |-> 0, old |-> 0, new |-> 0]]
Idle == [step |-> "idle", name |-> CHOOSE n \in Names : TRUE, group |-> {}]

Init ==
    /\ coh = [n \in Names |-> 1]
    /\ store = [n \in Names |-> 0]
    /\ status = [n \in Names |-> [phase |-> "Waiting", ready |-> 0]]
    /\ sts = [n \in Names |-> NoStatefulSet]
    /\ pods = [p \in Pods |-> [state |-> "gone", rev |-> 0]]
    /\ safe = {n \in Names : Replicas(n) = 1}
    /\ locks = {}
    /\ op = [c \in Controllers |-> Idle]
    /\ queue = {"coherence"} \X Names
    /\ everReady = {}
    /\ down = {}
    /\ faults = 0

Faulty == faults < MaxFaults /\ faults' = faults + 1

(***************************************************************************)
(* The user, and the work of Kubernetes and the cluster.                   *)
(***************************************************************************)
Edit(n) ==
    /\ coh[n] <= MaxEdits[n]
    /\ coh' = [coh EXCEPT ![n] = @ + 1]
    /\ queue' = queue \cup {<<"coherence", n>>}
    /\ UNCHANGED <<store, status, sts, pods, safe, locks, op, everReady, down, faults>>

\* The StatefulSet controller makes all the Pods that are missing, and counts
\* what it found: a Pod that terminates may be ready, but is in no revision.
Missing(n) == {p \in PodsOf(n) : pods[p].state = "gone"}
Made(n) ==
    [p \in Pods |-> IF p \in Missing(n) THEN [state |-> "starting", rev |-> sts[n].rev] ELSE pods[p]]
Counted(n) ==
    LET ready == {p \in PodsOf(n) : pods[p].state \in {"ready", "terminating"}}
        At(rev) == {p \in PodsOf(n) : Made(n)[p].rev = rev /\ Made(n)[p].state # "terminating"}
    IN  [update |-> sts[n].rev, ready |-> Cardinality(ready),
         old |-> Cardinality(At(sts[n].current)), new |-> Cardinality(At(sts[n].rev))]

SyncStatefulSet(n) ==
    /\ sts[n].rev # 0
    /\ Missing(n) # {} \/ Counted(n) # sts[n].status
    /\ pods' = Made(n)
    /\ sts' = [sts EXCEPT ![n].status = Counted(n)]
    /\ queue' = IF Counted(n) # sts[n].status THEN queue \cup {<<"statefulset", n>>} ELSE queue
    /\ UNCHANGED <<coh, store, status, safe, locks, op, everReady, down, faults>>

BecomesReady(p) ==
    /\ pods[p].state = "starting"
    /\ pods' = [pods EXCEPT ![p].state = "ready"]
    /\ down' = down \ {p}
    /\ everReady' = everReady \cup
           {n \in {Owner[p]} : \A q \in PodsOf(n) : pods'[q].state = "ready"}
    /\ UNCHANGED <<coh, store, status, sts, safe, locks, op, queue, faults>>

Stops(p) ==
    /\ pods[p].state = "terminating"
    /\ pods' = [pods EXCEPT ![p].state = "gone"]
    /\ safe' = safe \ {n \in {Owner[p]} : Replicas(n) > 1}
    /\ UNCHANGED <<coh, store, status, sts, locks, op, queue, everReady, down, faults>>

Rebalance(n) ==
    /\ n \notin safe
    /\ \A p \in PodsOf(n) : pods[p].state = "ready"
    /\ safe' = safe \cup {n}
    /\ UNCHANGED <<coh, store, status, sts, pods, locks, op, queue, everReady, down, faults>>

(***************************************************************************)
(* The lock, and the beginning and end of a reconcile.                     *)
(***************************************************************************)
Lock(c, n) ==
    /\ <<c, n>> \in queue
    /\ op[c].step = "idle"
    /\ n \notin locks
    /\ locks' = locks \cup {n}
    /\ op' = [op EXCEPT ![c] = [step |-> "reconcile", name |-> n, group |-> {}]]
    /\ queue' = queue \ {<<c, n>>}
    /\ store' = IF c = "coherence" THEN [store EXCEPT ![n] = coh[n]] ELSE store
    /\ UNCHANGED <<coh, status, sts, pods, safe, everReady, down, faults>>

\* A request that finds the name locked comes again in a minute.
Refuse_Unlocks(c, n) ==
    /\ <<c, n>> \in queue
    /\ op[c].step = "idle"
    /\ n \in locks
    /\ locks' = locks \ {n}
    /\ UNCHANGED <<coh, store, status, sts, pods, safe, op, queue, everReady, down, faults>>
Refuse(c, n) ==
    /\ <<c, n>> \in queue
    /\ op[c].step = "idle"
    /\ n \in locks
    /\ UNCHANGED vars

Unlock_GroupKept(c) ==
    /\ locks' = locks \ {op[c].name}
    /\ op' = [op EXCEPT ![c].step = "idle"]
Unlock(c) ==
    /\ locks' = locks \ {op[c].name}
    /\ op' = [op EXCEPT ![c] = Idle]

\* What updateDeploymentStatus makes of the status and the StatefulSet's.
Updated(s, set, n) ==
    LET phase == IF set.rev = 0 THEN s.phase
                 ELSE IF set.current # set.status.update THEN "RollingUpgrade"
                 ELSE IF set.status.ready = Replicas(n) /\ set.status.old = Replicas(n) THEN "Ready"
                 ELSE s.phase
    IN  [phase |-> phase, ready |-> set.status.ready]

\* The end of a reconcile that set the phase to this and wants this much more.
Finish(c, phase, requests) ==
    LET n == op[c].name
        new == Updated([status[n] EXCEPT !.phase = phase], sts'[n], n)
        event == IF new # status[n] THEN {<<"coherence", n>>} ELSE {}
    IN  /\ Unlock(c)
        /\ status' = [status EXCEPT ![n] = new]
        /\ queue' = queue \cup event \cup requests
        /\ UNCHANGED <<coh, store, safe, everReady>>

Again_Forgotten(c) == {}
Again(c) == {<<c, op[c].name>>}

Fail_Swallowed(c) ==
    /\ Unlock(c)
    /\ Faulty
    /\ UNCHANGED <<coh, store, status, sts, pods, safe, queue, everReady, down>>
Fail(c) ==
    /\ Unlock(c)
    /\ Faulty
    /\ queue' = queue \cup Again(c)
    /\ UNCHANGED <<coh, store, status, sts, pods, safe, everReady, down>>

(***************************************************************************)
(* A reconcile: create the StatefulSet, or bring its template up to date.  *)
(***************************************************************************)
CanCreate_Pods(n) ==
    \A q \in Quorum[n] :
        IF q.pods > 0 THEN status[q.on].ready >= q.pods ELSE status[q.on].phase = "Ready"
CanCreate(n) ==
    \A q \in Quorum[n] : status[q.on].ready >= q.pods /\ status[q.on].phase = "Ready"

Creates(c) ==
    /\ c = "coherence"
    /\ op[c].step = "reconcile"
    /\ sts[op[c].name].rev = 0

Create(c) ==
    LET n == op[c].name
    IN  /\ Creates(c)
        /\ CanCreate(n)
        /\ sts' = [sts EXCEPT ![n] = NewStatefulSet(store[n])]
        /\ Finish(c, "Created", {})
        /\ UNCHANGED <<pods, down, faults>>

WaitForQuorum(c) ==
    /\ Creates(c)
    /\ ~CanCreate(op[c].name)
    /\ UNCHANGED <<sts, pods, down, faults>>
    /\ Finish(c, "Waiting", Again(c))

\* IsStatusHA, and the scaling probe of an upgrade: all Pods are there and
\* ready, none is being deleted, and the cluster says it is safe.
PodIsReady_Terminating(p) == pods[p].state \in {"ready", "terminating"}
PodIsReady(p) == pods[p].state = "ready"
IsStatusHA(n) == n \in safe /\ \A p \in PodsOf(n) : PodIsReady(p)

Updates(c) ==
    /\ op[c].step = "reconcile"
    /\ sts[op[c].name].rev # 0
    /\ sts[op[c].name].rev # store[op[c].name]

MayPatch(n) == sts[n].status.ready = Replicas(n) /\ IsStatusHA(n)

Patch(c) ==
    LET n == op[c].name
    IN  /\ Updates(c)
        /\ MayPatch(n)
        /\ sts' = [sts EXCEPT ![n].rev = store[n]]
        /\ Finish(c, "RollingUpgrade", {})
        /\ UNCHANGED <<pods, down, faults>>

PutOffPatch(c) ==
    /\ Updates(c)
    /\ ~MayPatch(op[c].name)
    /\ UNCHANGED <<sts, pods, down, faults>>
    /\ Finish(c, status[op[c].name].phase, Again(c))

CreateFails(c) ==
    /\ Creates(c)
    /\ CanCreate(op[c].name)
    /\ Fail(c)

\* The error handler marks the resource, which is an event for it, and asks
\* for another try; the reconcile goes on as if nothing had happened.
PatchFails(c) ==
    /\ Updates(c)
    /\ MayPatch(op[c].name)
    /\ Faulty
    /\ UNCHANGED <<sts, pods, down>>
    /\ Finish(c, "Failed", Again(c) \cup {<<"coherence", op[c].name>>})

(***************************************************************************)
(* A reconcile whose template is up to date: upgrade the Pods of one node. *)
(***************************************************************************)
Listed(n) == {p \in PodsOf(n) : pods[p].state # "gone"}
Outdated(n) == {p \in Listed(n) : pods[p].rev # sts[n].status.update}
NodesOf(P) == {Node[p] : p \in P}

\* Is every Pod counted, is there something to do, and another node to do it by?
IsDue(n) ==
    LET s == sts[n].status
    IN  /\ s.ready = Replicas(n)
        /\ s.old + s.new = Replicas(n)
        /\ s.update # sts[n].current
        /\ Listed(n) = PodsOf(n)
        /\ Outdated(n) # {}
        /\ Replicas(n) = 1 \/ Cardinality(NodesOf(Listed(n))) > 1

Upgrades(c) ==
    /\ op[c].step = "reconcile"
    /\ sts[op[c].name].rev # 0
    /\ sts[op[c].name].rev = store[op[c].name]

NothingToUpgrade(c) ==
    /\ Upgrades(c)
    /\ ~IsDue(op[c].name)
    /\ UNCHANGED <<sts, pods, down, faults>>
    /\ Finish(c, status[op[c].name].phase, {})

DeferUpgrade(c) ==
    /\ Upgrades(c)
    /\ IsDue(op[c].name)
    /\ ~IsStatusHA(op[c].name)
    /\ UNCHANGED <<sts, pods, down, faults>>
    /\ Finish(c, status[op[c].name].phase, Again(c))

\* One node, whichever the map of nodes gives first.
RollingUpgrade(c) ==
    LET n == op[c].name
    IN  /\ Upgrades(c)
        /\ IsDue(n)
        /\ IsStatusHA(n)
        /\ \E node \in NodesOf(Outdated(n)) :
             op' = [op EXCEPT ![c].step = "delete",
                              ![c].group = {p \in Outdated(n) : Node[p] = node}]
        /\ UNCHANGED <<coh, store, status, sts, pods, safe, locks, queue, everReady, down, faults>>

DeletePod(c, p) ==
    LET rest == op[c].group \ {p}
    IN  /\ p \in op[c].group
        /\ pods' = [pods EXCEPT ![p].state = "terminating"]
        /\ down' = down \cup {p}
        /\ UNCHANGED <<sts, faults>>
        /\ IF rest = {}
           THEN Finish(c, status[op[c].name].phase, {})
           ELSE /\ op' = [op EXCEPT ![c].group = rest]
                /\ UNCHANGED <<coh, store, status, safe, locks, queue, everReady>>

\* The first deletion that is refused ends the reconcile.
DeleteRefused(c) == op[c].step = "delete" /\ Fail(c)

\* On restart there is a request for every Coherence resource: the creation
\* events of the informers queue nothing for the StatefulSets.
OperatorRestarts ==
    /\ Faulty
    /\ locks' = {}
    /\ op' = [c \in Controllers |-> Idle]
    /\ queue' = {"coherence"} \X Names
    /\ UNCHANGED <<coh, store, status, sts, pods, safe, everReady, down>>

Reconcile(c) ==
    \/ Create(c)
    \/ WaitForQuorum(c)
    \/ Patch(c)
    \/ PutOffPatch(c)
    \/ NothingToUpgrade(c)
    \/ DeferUpgrade(c)
    \/ RollingUpgrade(c)
    \/ \E p \in Pods : DeletePod(c, p)

Next ==
    \/ \E n \in Names : Edit(n)
    \/ \E n \in Names : SyncStatefulSet(n)
    \/ \E p \in Pods : BecomesReady(p)
    \/ \E p \in Pods : Stops(p)
    \/ \E n \in Names : Rebalance(n)
    \/ \E c \in Controllers, n \in Names : Lock(c, n)
    \/ \E c \in Controllers, n \in Names : Refuse(c, n)
    \/ \E c \in Controllers : Reconcile(c)
    \/ \E c \in Controllers : CreateFails(c)
    \/ \E c \in Controllers : PatchFails(c)
    \/ \E c \in Controllers : DeleteRefused(c)
    \/ OperatorRestarts

\* A work queue hands out its requests in turn, so that none waits for ever
\* behind others, and the controllers of Kubernetes and the cluster go on with
\* what is there to do; users edit and calls fail as they like.
Fairness ==
    /\ \A c \in Controllers, n \in Names : SF_vars(Lock(c, n))
    /\ \A c \in Controllers : WF_vars(Reconcile(c))
    /\ \A n \in Names : WF_vars(SyncStatefulSet(n)) /\ WF_vars(Rebalance(n))
    /\ \A p \in Pods : WF_vars(BecomesReady(p)) /\ WF_vars(Stops(p))

Spec == Init /\ [][Next]_vars
FairSpec == Spec /\ Fairness

(***************************************************************************)
(* Properties.                                                             *)
(***************************************************************************)
\* The Pods of a resource that the operator has deleted and that are not back
\* yet are all of one node: an upgrade by node goes on with the next node only
\* when rollingUpgrade has found every Pod ready, whatever call of deletePods
\* failed, whichever of the two controllers was at work, and whether or not the
\* operator has been restarted half way.
OneNodeAtATime ==
    \A p, q \in down : Owner[p] = Owner[q] => Node[p] = Node[q]

\* CanCreate: a resource has a StatefulSet only if every resource that it waits
\* for has had all of its Pods ready, by a status that is written later, from
\* counts that are made later still.
StartsInOrder ==
    \A n \in Names : sts[n].rev # 0 => \A q \in Quorum[n] : q.on \in everReady

\* The controllers at work on each name.
Workers == [n \in Names |-> {c \in Controllers : op[c].step # "idle" /\ op[c].name = n}]
OneAtATime == INSTANCE OneReconcileAtATime WITH workers <- Workers
\* Lock and Unlock: only one controller at a time is between the two for a
\* name, over requests that are refused, reconciles that fail and restarts.
Exclusive == OneAtATime!Spec

\* rollingUpgrade upgrades the Pods of a resource, without a requeue of its own,
\* except where the code has no way to: when all of several Pods are on one
\* node, and when a Pod is of neither the current nor the update revision,
\* because then the StatefulSet's counts never add up to its size again.
Upgradable(n) ==
    /\ Replicas(n) = 1 \/ Cardinality(NodesOf(PodsOf(n))) > 1
    /\ \A p \in PodsOf(n) : pods[p].rev \in {0, sts[n].current, sts[n].rev}
UpgradeCompletes ==
    \A n \in Names : <>[](sts[n].rev # 0 /\ Upgradable(n) =>
                          \A p \in PodsOf(n) : pods[p] = [state |-> "ready", rev |-> coh[n]])

\* createStatefulSet's requeue: what waits for a start quorum is created in the
\* end, unless the template of what it waits for has changed by then.  That
\* is for ever in phase RollingUpgrade, as its revisions differ for ever.
EventuallyStarted ==
    \A n \in Names : <>[](sts[n].rev # 0 \/ \E q \in Quorum[n] : sts[q.on].rev # sts[q.on].current)

\* No request is queued and no controller at work; all Pods are ready and counted.
Quiet ==
    /\ queue = {}
    /\ \A c \in Controllers : op[c].step = "idle"
    /\ \A n \in Names : /\ \A p \in PodsOf(n) : sts[n].rev # 0 => pods[p].state = "ready"
                        /\ sts[n].rev # 0 => sts[n].status = Counted(n)

\* No start, template or node is forgotten over requests that a lock refuses, upgrades
\* and starts that are put off, calls that fail and restarts: nothing waits for a
\* quorum, a probe or the next node without a request in a queue, or counts to come
\* that make one.
NothingForgotten ==
    Quiet => \A n \in Names :
               /\ sts[n].rev = coh[n]
               /\ Upgradable(n) => \A p \in PodsOf(n) : pods[p].rev = coh[n]
=============================================================================
