------------------------ MODULE OneReconcileAtATime ------------------------
(***************************************************************************)
(* What the lock on a name promises: of all the operator's controllers, at *)
(* most one works on a resource at any time.  Who gets it, and how often,  *)
(* is left open.                                                           *)
(***************************************************************************)
CONSTANTS Controllers, Names

VARIABLE workers  \* the controllers at work on each name

Init == workers = [n \in Names |-> {}]

Enter(c, n) ==
    /\ workers[n] = {}
    /\ workers' = [workers EXCEPT ![n] = {c}]

Leave(n) ==
    /\ workers[n] # {}
    /\ workers' = [workers EXCEPT ![n] = {}]

\* The process dies and all its work with it.
Die == workers' = [n \in Names |-> {}]

Next ==
    \/ \E c \in Controllers, n \in Names : Enter(c, n)
    \/ \E n \in Names : Leave(n)
    \/ Die

Spec == Init /\ [][Next]_workers
=============================================================================
