---------------------------- MODULE MCImportance ----------------------------
(* Values of the constants for the model checker. *)
EXTENDS Importance

\* The levels a firewall passes as it comes up, and a machine that is no longer
\* ready while its controller still reports.
AllLevels ==
  {{}, {"Created"}, {"Created", "Ready"}, {"Created", "Ready", "Connected"},
   {"Created", "Connected"}}
=============================================================================
