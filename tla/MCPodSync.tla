----------------------------- MODULE MCPodSync -----------------------------
(* Instances of PodSync for TLC. *)
EXTENDS PodSync, TLC

CONSTANTS p1, p2, o1, l1, l2, l3, e1, e2

\* One pod, or two replicas of one owner.
OneOwner == [p \in Pods |-> o1]

\* One listener matches; or three do.
OneHandler == [p \in Pods |-> <<l1>>]
ThreeHandlers == [p \in Pods |-> <<l1, l2, l3>>]

OneEnv == l1 :> (o1 :> e1)

\* The first listener extracts nothing, the others two different environments.
ThreeEnvs == (l1 :> (o1 :> NoEnv)) @@ (l2 :> (o1 :> e1)) @@ (l3 :> (o1 :> e2))
=============================================================================
