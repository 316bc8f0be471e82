----------------------------- MODULE MCRollout -----------------------------
(* Instances of Rollout for TLC: the templates are model values. *)
EXTENDS Rollout
=============================================================================
