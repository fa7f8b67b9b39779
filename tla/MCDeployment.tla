---------------------------- MODULE MCDeployment ----------------------------
(* Values of the constants for the model checker. *)
EXTENDS Deployment, TLC

Symmetry == Permutations(Sets) \cup Permutations(Images) \cup Permutations(Rules)
=============================================================================
