-------------------------- MODULE MCPodController --------------------------
(* Instances of PodController for TLC. *)
EXTENDS PodController, TLC

CONSTANTS p1

\* One pod that is relabelled and relabelled back: its second revision matches
\* no handler.
MCRelabelled == p1 :> {1, 3, 4}

\* The workers run the same code.  Not used when liveness is checked.
Symmetry == Permutations(Workers)
=============================================================================
