------------------------- MODULE SecondaryResources -------------------------
(***************************************************************************)
(* How the operator keeps the Kubernetes objects of a Coherence resource   *)
(* as the resource wants them: the state store, a Secret with the latest   *)
(* and the previous desired state, and the reconcilers that create, patch  *)
(* and delete the objects by what the two versions say.                    *)
(*                                                                         *)
(* An object is the set of the fields the operator has set in it; without  *)
(* fields there is no object.  The StatefulSet's replicas are left to      *)
(* StatefulSetReconciler: here it is an object whose patch may be put off. *)
(* Reads are fresh, and the kinds of objects are dealt with in any order.  *)
(*                                                                         *)
(* A definition whose name ends in _Word is a plausible bug in the one it  *)
(* is named after: the property checks show that they notice it.           *)
(***************************************************************************)
EXTENDS Integers

CONSTANTS
    Names,        \* the objects other than the StatefulSet
    Fields,       \* the fields that an object may have
    MaxEdits,     \* bound: how often the user edits the resource
    MaxFaults     \* bound: failed calls and operator restarts

ASSUME ResourcesAssumption ==
    /\ "sts" \notin Names
    /\ Fields # {}
    /\ MaxEdits \in Nat
    /\ MaxFaults \in Nat

VARIABLES
    resource,  \* the Coherence resource: its generation and the objects it wants
    secret,    \* the state store
    live,      \* the objects in the API server
    label,     \* the coherence-hash label of each object
    busy,      \* has the StatefulSet to be scaled first, or is it not StatusHA?
    op,        \* the reconcile that holds the lock
    queue,     \* the controllers with a request in their work queue
    edits,     \* how many edits the user has made
    faults     \* how many faults have happened

vars == <<resource, secret, live, label, busy, op, queue, edits, faults>>

Controllers == {"coherence", "statefulset"}
Objects     == Names \cup {"sts"}
Generations == 1 .. MaxEdits + 1
Contents    == [Objects -> SUBSET Fields]
Wanted      == {c \in Contents : c["sts"] # {}}
None        == [n \in Objects |-> {}]

TypeOK ==
    /\ resource \in [gen: Generations, want: Wanted]
    /\ secret \in [latest: Contents, previous: Contents, hash: 0 .. MaxEdits + 1]
    /\ live \in Contents
    /\ label \in [Objects -> 0 .. MaxEdits + 1]
    /\ busy \in BOOLEAN
    /\ op \in [step: {"idle", "objects", "sts"}, who: Controllers,
               gone: SUBSET Names, todo: SUBSET Names, again: BOOLEAN]
    /\ queue \in SUBSET Controllers
    /\ edits \in 0 .. MaxEdits
    /\ faults \in 0 .. MaxFaults

Init ==
    /\ \E want \in Wanted : resource = [gen |-> 1, want |-> want]
    /\ secret = [latest |-> None, previous |-> None, hash |-> 0]
    /\ live = None
    /\ label = [n \in Objects |-> 0]
    /\ busy = FALSE
    /\ op = [step |-> "idle", who |-> "coherence", gone |-> {}, todo |-> {},
             again |-> FALSE]
    /\ queue = {"coherence"}
    /\ edits = 0
    /\ faults = 0

Faulty == faults < MaxFaults /\ faults' = faults + 1

(***************************************************************************)
(* The user, and what goes on around the reconciles.                       *)
(***************************************************************************)
\* An edit that changes the replica count keeps the StatefulSet busy.
Edit(want) ==
    /\ edits < MaxEdits
    /\ resource' = [gen |-> resource.gen + 1, want |-> want]
    /\ edits' = edits + 1
    /\ busy' \in {busy, TRUE}
    /\ queue' = queue \cup {"coherence"}
    /\ UNCHANGED <<secret, live, label, op, faults>>

\* A write of the resource's status queues it again.
StatusEvent ==
    /\ queue' = queue \cup {"coherence"}
    /\ UNCHANGED <<resource, secret, live, label, busy, op, edits, faults>>

\* The StatefulSet has its size and its Pods are safe; its status tells.
Calms ==
    /\ busy
    /\ busy' = FALSE
    /\ queue' = queue \cup {"statefulset"}
    /\ UNCHANGED <<resource, secret, live, label, op, edits, faults>>

PodFails ==
    /\ ~busy
    /\ Faulty
    /\ busy' = TRUE
    /\ UNCHANGED <<resource, secret, live, label, op, queue, edits>>

(***************************************************************************)
(* The main reconcile.                                                     *)
(***************************************************************************)
DesiredResources_AnyHash(ready) == IF ready THEN secret.latest ELSE resource.want

\* checkHash: what was stored for this generation is good enough once the
\* resource is ready.
DesiredResources(ready) ==
    IF ready /\ secret.hash = resource.gen THEN secret.latest ELSE resource.want

Stored_NextVersion(desired) ==
    [latest |-> desired, previous |-> secret.latest, hash |-> secret.hash + 1]

\* Store: what was the latest state is the previous one, whatever it was.
Stored(desired) ==
    [latest |-> desired, previous |-> secret.latest, hash |-> resource.gen]

Deletions(s) == {n \in Names : s.previous[n] # {} /\ s.latest[n] = {}}

BeginReconcile ==
    /\ op.step = "idle"
    /\ "coherence" \in queue
    /\ queue' = queue \ {"coherence"}
    /\ \E ready \in BOOLEAN : secret' = Stored(DesiredResources(ready))
    /\ op' = [step |-> "objects", who |-> "coherence", gone |-> Deletions(secret'),
              todo |-> {n \in Names : secret'.latest[n] # {}}, again |-> FALSE]
    /\ UNCHANGED <<resource, live, label, busy, edits, faults>>

\* An object that the latest state no longer has.
DeleteObject(n) ==
    /\ op.step = "objects"
    /\ n \in op.gone
    /\ live' = [live EXCEPT ![n] = {}]
    /\ op' = [op EXCEPT !.gone = @ \ {n}]
    /\ UNCHANGED <<resource, secret, label, busy, queue, edits, faults>>

\* The look-up that fails says there is no such object, and a refused deletion
\* is logged: both are taken for done.
DeletionFails(n) ==
    /\ op.step = "objects"
    /\ n \in op.gone
    /\ Faulty
    /\ op' = [op EXCEPT !.gone = @ \ {n}]
    /\ UNCHANGED <<resource, secret, live, label, busy, queue, edits>>

Patched_NoRemovals(n) == live[n] \cup secret.latest[n]

Patched_FromStore(n) ==
    (live[n] \ (secret.previous[n] \ secret.latest[n]))
        \cup (secret.latest[n] \ secret.previous[n])

\* A three way merge patch removes the fields that the previous state has and
\* the latest has not, and sets those in which the live object differs from the
\* latest.
Patched(n) == (live[n] \ (secret.previous[n] \ secret.latest[n])) \cup secret.latest[n]

\* Create the object, or patch it if its hash is not the stored one.
Apply(n) ==
    IF live[n] # {} /\ label[n] = secret.hash
    THEN UNCHANGED <<live, label>>
    ELSE /\ live' = [live EXCEPT ![n] = IF @ = {} THEN secret.latest[n] ELSE Patched(n)]
         /\ label' = [label EXCEPT ![n] = secret.hash]

ReconcileObject(n) ==
    /\ op.step = "objects"
    /\ n \in op.todo
    /\ Apply(n)
    /\ op' = [op EXCEPT !.todo = @ \ {n}]
    /\ UNCHANGED <<resource, secret, busy, queue, edits, faults>>

\* A refused call skips the rest of the objects of its kind; the reconcilers of
\* the other kinds go on, and the reconcile ends with an error.
ObjectFails(n) ==
    /\ op.step = "objects"
    /\ n \in op.todo
    /\ Faulty
    /\ \E skipped \in SUBSET op.todo :
         op' = [op EXCEPT !.todo = @ \ (skipped \cup {n}), !.again = TRUE]
    /\ UNCHANGED <<resource, secret, live, label, busy, queue, edits>>

\* The StatefulSet comes last.
ObjectsAreDone ==
    /\ op.step = "objects"
    /\ op.gone = {}
    /\ op.todo = {}
    /\ op' = [op EXCEPT !.step = "sts"]
    /\ UNCHANGED <<resource, secret, live, label, busy, queue, edits, faults>>

(***************************************************************************)
(* The StatefulSet, in the main reconcile and in that of its own           *)
(* controller, which takes the stored state as it is.                      *)
(***************************************************************************)
BeginStatefulSet ==
    /\ op.step = "idle"
    /\ "statefulset" \in queue
    /\ queue' = queue \ {"statefulset"}
    /\ op' = [step |-> "sts", who |-> "statefulset", gone |-> {}, todo |-> {},
              again |-> FALSE]
    /\ UNCHANGED <<resource, secret, live, label, busy, edits, faults>>

Finish_NotAgain(again) == op' = [op EXCEPT !.step = "idle"] /\ UNCHANGED queue

\* The end of a reconcile: an error, or a step that was put off, requeues it.
Finish(again) ==
    /\ op' = [op EXCEPT !.step = "idle"]
    /\ queue' = IF again THEN queue \cup {op.who} ELSE queue

\* Without a StatefulSet its controller finds no owner, and does nothing.
NoStatefulSet == live["sts"] = {} /\ op.who = "statefulset"

ReconcileStatefulSet ==
    /\ op.step = "sts"
    /\ ~busy \/ live["sts"] = {} \/ label["sts"] = secret.hash
    /\ IF NoStatefulSet THEN UNCHANGED <<live, label>> ELSE Apply("sts")
    /\ Finish(op.again)
    /\ UNCHANGED <<resource, secret, busy, edits, faults>>

\* It is to be scaled first, or not all its Pods are ready and safe.
PutOffPatch ==
    /\ op.step = "sts"
    /\ busy
    /\ live["sts"] # {}
    /\ label["sts"] # secret.hash
    /\ Finish(TRUE)
    /\ UNCHANGED <<resource, secret, live, label, busy, edits, faults>>

StatefulSetFails ==
    /\ op.step = "sts"
    /\ ~NoStatefulSet
    /\ Faulty
    /\ Finish(TRUE)
    /\ UNCHANGED <<resource, secret, live, label, busy, edits>>

OperatorRestarts ==
    /\ Faulty
    /\ op' = [op EXCEPT !.step = "idle"]
    /\ queue' = {"coherence"}
    /\ UNCHANGED <<resource, secret, live, label, busy, edits>>

(***************************************************************************)
(* The specification.                                                      *)
(***************************************************************************)
Reconcile ==
    \/ \E n \in Names : DeleteObject(n) \/ ReconcileObject(n)
    \/ ObjectsAreDone
    \/ ReconcileStatefulSet \/ PutOffPatch

Next ==
    \/ \E want \in Wanted : Edit(want)
    \/ StatusEvent \/ Calms \/ PodFails
    \/ BeginReconcile \/ BeginStatefulSet
    \/ Reconcile
    \/ \E n \in Names : DeletionFails(n) \/ ObjectFails(n)
    \/ StatefulSetFails \/ OperatorRestarts

Spec == Init /\ [][Next]_vars

\* Work queues deliver; a reconcile that began goes on; the cluster gets safe.
Fairness ==
    /\ WF_vars(BeginReconcile)
    /\ WF_vars(BeginStatefulSet)
    /\ WF_vars(Reconcile)
    /\ WF_vars(Calms)

FairSpec == Spec /\ Fairness

(***************************************************************************)
(* Correctness properties.                                                 *)
(***************************************************************************)

\* The hash of the store tells which generation its latest state is of: a
\* reconcile of a ready resource relies on it and does not build the state anew.
StoreMatchesGeneration ==
    secret.hash = resource.gen => secret.latest = resource.want

\* An object with the hash of the store has every field of the latest state:
\* this label is all that a reconcile looks at before it leaves an object alone,
\* over patches that were put off, refused, or cut short by a restart.
HashMeansApplied ==
    \A n \in Objects : live[n] # {} /\ label[n] = secret.hash
                         => secret.latest[n] \subseteq live[n]

\* As long as no call fails, a finished reconcile leaves the objects other than
\* the StatefulSet with what the resource wants and nothing else.
ObjectsAreExact ==
    faults = 0 /\ op.step = "idle" /\ "coherence" \notin queue
        => \A n \in Names : live[n] = resource.want[n]

\* Nothing is queued and no reconcile at work.
Quiet == op.step = "idle" /\ queue = {}

\* No reconcile ends, by a failure, a put off patch or a restart, with an object
\* of the resource missing or incomplete and nothing to bring it back: Result,
\* requeue and error of each kind add up to a request that stays in a queue.
NothingMissing == Quiet => \A n \in Objects : resource.want[n] \subseteq live[n]

\* Everything the resource wants is there in the end, whatever failed.
EventuallyPresent == <>[](\A n \in Objects : resource.want[n] \subseteq live[n])

\* The StatefulSet gets rid of what the resource no longer wants: Update "updates
\* the resource if the current state differs from the desired state", and a
\* scale requeues "so that we do any upgrade next time around".
EventuallyUpgraded == <>[](live["sts"] = resource.want["sts"])
=============================================================================
