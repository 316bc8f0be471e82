------------------------------ MODULE MCAgent ------------------------------
(* Instances of Agent for TLC: every pod has the same owner, listener and *)
(* environment.                                                           *)
EXTENDS Agent, TLC

CONSTANTS p1, o1, l1, e1

MCSelected == [p \in Pods |-> 1..MaxRevision]
MCOwnerOf == [p \in Pods |-> o1]
MCHandlersFor == [p \in Pods |-> <<l1>>]
MCEnvOf == l1 :> (o1 :> e1)
=============================================================================
