--------------------------- MODULE OrderedRollout ---------------------------
(***************************************************************************)
(* What the operator promises of the rollout of a deployment, whatever its *)
(* user changes meanwhile: the size gets closer to the wanted one by every *)
(* step, until then nothing is upgraded, the members that a resize leaves  *)
(* are shielded from upgrades, and an upgrade takes the shield away.  How  *)
(* large the steps are is left open.                                       *)
(***************************************************************************)
EXTENDS Integers

CONSTANTS Sizes, Revisions

VARIABLES
    wanted,  \* the size and revision that are wanted
    have,    \* the size and revision there are
    shield   \* the members below it are not to be upgraded

Init ==
    /\ wanted \in [size: Sizes, rev: Revisions]
    /\ have = wanted
    /\ shield = 0

\* Another size and revision are wanted.
Want ==
    /\ wanted' \in [size: Sizes, rev: Revisions]
    /\ UNCHANGED <<have, shield>>

Grow(n) ==
    /\ have.size < n
    /\ n <= wanted.size
    /\ have' = [have EXCEPT !.size = n]
    /\ shield' = have.size
    /\ UNCHANGED wanted

Shrink(n) ==
    /\ n < have.size
    /\ wanted.size <= n
    /\ have' = [have EXCEPT !.size = n]
    /\ shield' = n
    /\ UNCHANGED wanted

Upgrade ==
    /\ have.size = wanted.size
    /\ have' = wanted
    /\ shield' = 0
    /\ UNCHANGED wanted

Next == Want \/ Upgrade \/ \E n \in Sizes : Grow(n) \/ Shrink(n)

Spec == Init /\ [][Next]_<<wanted, have, shield>>
=============================================================================
