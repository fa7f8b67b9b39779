--------------------------- MODULE MCFirewallSet ----------------------------
(* Values of the constants for the model checker. *)
EXTENDS FirewallSet, TLC

Symmetry == Permutations(Firewalls)
=============================================================================
