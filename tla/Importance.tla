----------------------------- MODULE Importance -----------------------------
(***************************************************************************)
(* SortFirewallsByImportance (src/api/v2/types_firewall.go) as it is run,  *)
(* and the staggering of distances that follows it in the set controller   *)
(* (src/controllers/set/reconcile.go): sort, stagger, and sort again in    *)
(* the next reconcile.                                                     *)
(*                                                                         *)
(* The comparison is not a strict order: firewalls created in the same     *)
(* second that agree in everything else are each "less" than the other.    *)
(* What sort.Slice makes of such a function depends on its algorithm,      *)
(* which for the few firewalls of a set is an insertion sort.              *)
(***************************************************************************)
EXTENDS FirewallStatus, Sequences

CONSTANTS
  Places,    \* 1..n, for a set of n firewalls
  Levels,    \* sets of conditions that hold together
  Weights,   \* values of the weight annotation
  Distances, \* distances of the firewalls before the first sort
  Births,    \* creation timestamps
  Distance   \* the distance of the set

ASSUME ConstantsAssumption ==
  /\ \E n \in 1..12 : Places = 1..n     \* up to 12 elements are sorted by insertion
  /\ Levels \subseteq SUBSET {"Created", "Ready", "Connected"}
  /\ Distances \subseteq 0..FirewallLongestDistance
  /\ Distance \in Nat /\ Distance + 2 <= FirewallLongestDistance
  /\ Weights \subseteq Int /\ Births \subseteq Nat

VARIABLES
  fws,    \* the firewalls
  list,   \* the slice of them that is being sorted
  i, j,   \* the loop variables of the insertion sort
  pass,   \* "first", "second" or "done"
  first   \* the result of the first sort

vars == <<fws, list, i, j, pass, first>>

Conditions(level) ==
  [ct \in ConditionTypes |-> [status |-> Status(ct \in level), since |-> 0]]

FirewallRecord ==
  [weight : Weights, conds : {Conditions(level) : level \in Levels},
   distance : Distances, born : Births]

Init ==
  /\ fws \in [Places -> FirewallRecord]
  /\ list = [p \in Places |-> p] /\ first = list
  /\ i = 2 /\ j = 2 /\ pass = "first"

Sorting == pass # "done" /\ i <= Len(list)
MustSwap == j > 1 /\ less(fws[list[j]], fws[list[j - 1]])

Swap ==
  /\ Sorting /\ MustSwap
  /\ list' = [list EXCEPT ![j] = list[j - 1], ![j - 1] = list[j]]
  /\ j' = j - 1
  /\ UNCHANGED <<fws, i, pass, first>>

Placed ==
  /\ Sorting /\ ~MustSwap
  /\ i' = i + 1 /\ j' = i + 1
  /\ UNCHANGED <<fws, list, pass, first>>

\* The sync loop gives the sorted firewalls their distances; the next reconcile
\* sorts them again.
Stagger ==
  /\ pass = "first" /\ ~Sorting
  /\ fws' = [f \in Places |->
       [fws[f] EXCEPT !.distance =
          StaggeredDistance(Distance, CHOOSE p \in Places : list[p] = f)]]
  /\ first' = list
  /\ i' = 2 /\ j' = 2 /\ pass' = "second"
  /\ UNCHANGED list

Finish ==
  /\ pass = "second" /\ ~Sorting
  /\ pass' = "done"
  /\ UNCHANGED <<fws, list, i, j, first>>

Next == Swap \/ Placed \/ Stagger \/ Finish
Spec == Init /\ [][Next]_vars

-----------------------------------------------------------------------------
(* Properties *)

Phase(fw) ==
  CASE Holds(fw.conds, "Connected") -> 3
    [] ~Holds(fw.conds, "Connected") /\ Holds(fw.conds, "Ready") -> 2
    [] ~Holds(fw.conds, "Connected") /\ ~Holds(fw.conds, "Ready") /\ Holds(fw.conds, "Created") -> 1
    [] OTHER -> 0

\* The precedence of the comment of SortFirewallsByImportance.
Preferred(a, b) ==
  \/ a.weight > b.weight
  \/ a.weight = b.weight /\ Phase(a) > Phase(b)
  \/ a.weight = b.weight /\ Phase(a) = Phase(b) /\ Phase(a) > 0 /\ a.distance < b.distance
  \/ /\ a.weight = b.weight /\ a.conds = b.conds
     /\ Phase(a) = 0 \/ a.distance = b.distance
     /\ a.born > b.born

\* A sorted slice has the documented precedence between all its elements, not
\* only neighbours, although the comparison is not a strict order.
SortedByImportance ==
  pass # "done" /\ ~Sorting =>
    \A p, r \in Places : p < r => ~Preferred(fws[list[r]], fws[list[p]])

\* Staggering makes roles last: the active firewall and the first backup are
\* the same in the next reconcile.  Only firewalls that do not even exist as
\* machines and are of the same age may change places.
RolesKept ==
  pass = "done" =>
    \A p \in Places :
      LET x == fws[first[p]]
          y == fws[list[p]]
      IN p <= 2 /\ x # y => x.born = y.born /\ Phase(x) = 0 /\ Phase(y) = 0
=============================================================================
