----------------------------- MODULE MCFirewall -----------------------------
(* Values of the constants for the model checker. *)
EXTENDS Firewall, TLC

Symmetry == Permutations(Machines)
=============================================================================
