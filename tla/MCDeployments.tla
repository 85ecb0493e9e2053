---------------------------- MODULE MCDeployments ----------------------------
(***************************************************************************)
(* The instance of Deployments that TLC checks: storage with three Pods on *)
(* two nodes, and a proxy that waits for two of them.                      *)
(***************************************************************************)
EXTENDS Deployments

MCNames == {"storage", "proxy"}
MCPods == {"s1", "s2", "s3", "p1"}
MCOwner == [p \in MCPods |-> IF p = "p1" THEN "proxy" ELSE "storage"]
MCNode == [p \in MCPods |-> IF p \in {"s1", "s2"} THEN "a" ELSE "b"]
MCQuorum == [n \in MCNames |-> IF n = "proxy" THEN {[on |-> "storage", pods |-> 2]} ELSE {}]
MCMaxEdits == [n \in MCNames |-> IF n = "storage" THEN 1 ELSE 0]
=============================================================================
