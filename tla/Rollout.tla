------------------------------- MODULE Rollout -------------------------------
(***************************************************************************)
(* What a firewall deployment promises about its firewall sets, whatever   *)
(* the update strategy, the state of the cache and the failures: the sets  *)
(* are numbered by consecutive revisions, and a set leaves only for a      *)
(* newer one that stays.                                                   *)
(***************************************************************************)
EXTENDS Integers

VARIABLES
  phase,    \* the life cycle of the deployment
  members   \* the revisions of its sets, and which of them are leaving

vars == <<phase, members>>

Init == phase = "present" /\ members = {}

\* The first set, or the next revision.  Once the deployment is being deleted,
\* a reconcile that still runs may skip revisions of sets that are gone already.
Join ==
  /\ \E m \in members' :
       /\ members' = members \cup {m} /\ ~m.leaving
       /\ \A n \in members : n.rev < m.rev
       /\ phase = "present" =>
            IF members = {} THEN m.rev = 0 ELSE \E n \in members : m.rev = n.rev + 1
  /\ UNCHANGED phase

\* A set is given up for a newer one that is not given up itself.
Leave ==
  /\ \E m \in members :
       /\ ~m.leaving
       /\ members' = (members \ {m}) \cup {[rev |-> m.rev, leaving |-> TRUE]}
       /\ phase = "present" => \E n \in members : ~n.leaving /\ m.rev < n.rev
  /\ UNCHANGED phase

Vanish ==
  /\ \E m \in members : m.leaving /\ members' = members \ {m}
  /\ UNCHANGED phase

\* A deployment that has sets is not gone at once.
Delete ==
  /\ phase = "present"
  /\ phase' = "terminating" \/ (phase' = "gone" /\ members = {})
  /\ UNCHANGED members

\* It is gone when the sets are, but for one that was just created.
Finish ==
  /\ phase = "terminating" /\ phase' = "gone"
  /\ \A m, n \in members : m = n
  /\ UNCHANGED members

Next == Join \/ Leave \/ Vanish \/ Delete \/ Finish

Spec == Init /\ [][Next]_vars
=============================================================================
