--------------------------- MODULE FirewallStatus ---------------------------
(***************************************************************************)
(* The data a Firewall's status is made of and the pure functions on it:   *)
(* conditions (src/api/v2/types_utils.go), the conditions derived from the *)
(* firewall monitor (src/controllers/firewall/status.go), the evaluation   *)
(* that decides on readiness and timeouts, and the order of importance     *)
(* used for distances and scale down (src/api/v2/types_firewall.go).       *)
(*                                                                         *)
(* Conditions are a function of their type: the list in the code holds at  *)
(* most one entry of each and is only read by type.  Reason, message and   *)
(* update time are left out: nothing reads them.  The MonitorDeployed      *)
(* condition is left out for the same reason.                              *)
(***************************************************************************)
EXTENDS Integers

HeardOfController == {"Connected", "SeedConnected", "Distance"}
HealthConditions == {"Created", "Ready"} \cup HeardOfController
ConditionTypes == HealthConditions \cup {"Provisioned"}

Phases == {"", "Creating", "Running", "Crashing"}

\* The zero time of a condition that was never set, before every other time.
ZeroTime == -1000000

Condition == [status : {"Missing", "True", "False"}, since : Int]
Missing == [status |-> "Missing", since |-> ZeroTime]

\* Faulty variant: what does not hold is unknown.
UnknownStatus(b) == IF b THEN "True" ELSE "Unknown"

Status(b) == IF b THEN "True" ELSE "False"

\* Faulty variants: every update counts as a transition, or only the first.
SetOnce(cond, status, now) ==
  [status |-> status, since |-> IF cond.status = "Missing" THEN now ELSE cond.since]
SetAlways(cond, status, now) == [status |-> status, since |-> now]

\* Conditions.Set: the transition time survives an unchanged status.
Set(cond, status, now) ==
  [status |-> status, since |-> IF cond.status = status THEN cond.since ELSE now]

SetCondition(conds, ct, status, now) == [conds EXCEPT ![ct] = Set(@, status, now)]

\* Several types set one after the other; the order does not matter.
SetConditions(conds, holds, now) ==
  [ct \in ConditionTypes |->
     IF ct \in DOMAIN holds THEN Set(conds[ct], Status(holds[ct]), now) ELSE conds[ct]]

Holds(conds, ct) == conds[ct].status = "True"

isProvisioned(conds) == \A ct \in HealthConditions : Holds(conds, ct)

-----------------------------------------------------------------------------
(* The conditions reported by the controller that runs on the firewall *)

NoController == [shoot |-> "never", seed |-> "never", distance |-> 0, supported |-> FALSE,
                 present |-> FALSE]

SetProvisioned(conds, now) ==
  IF isProvisioned(conds) THEN SetCondition(conds, "Provisioned", "True", now) ELSE conds

\* Times of the last update are "never", "recent" or "old", that is older than
\* the permitted drift; unchecked is the FirewallNoControllerConnection
\* annotation.
SetFirewallStatusFromMonitor(conds, cs, unchecked, distance, now) ==
  IF unchecked
  THEN SetProvisioned(SetConditions(conds, [ct \in HeardOfController |-> TRUE], now), now)
  ELSE IF ~cs.present
  THEN SetConditions(conds, [ct \in {"Connected", "Distance"} |-> FALSE], now)
  ELSE LET holds == [ct \in HeardOfController |->
                       CASE ct = "Connected" -> cs.shoot = "recent"
                         [] ct = "SeedConnected" -> cs.seed = "recent"
                         [] ct = "Distance" -> ~cs.supported \/ cs.distance = distance]
       IN SetProvisioned(SetConditions(conds, holds, now), now)

-----------------------------------------------------------------------------
(* EvaluateFirewallStatus *)

NoTimeout == -1

\* The time left until a condition is overdue; negative once it is.
TimeLeft(conds, ct, timeout, now) == conds[ct].since + timeout - now

Evaluation(result, timeoutIn) == [result |-> result, timeoutIn |-> timeoutIn]

\* The verdict on a condition whose timeout is running (a timeout of 0 is off).
Waiting(conds, ct, timeout, now, expired, otherwise) ==
  IF timeout # 0 /\ TimeLeft(conds, ct, timeout, now) < 0
  THEN Evaluation(expired, NoTimeout)
  ELSE Evaluation(otherwise,
                  IF timeout = 0 THEN NoTimeout ELSE TimeLeft(conds, ct, timeout, now))

\* The first connection that is lost, in the order of the code.
LostConnection(conds) ==
  CASE ~Holds(conds, "SeedConnected") -> "SeedConnected"
    [] Holds(conds, "SeedConnected") /\ ~Holds(conds, "Connected") -> "Connected"
    [] OTHER -> "Ready"

EvaluateFirewallStatus(phase, conds, createTimeout, healthTimeout, now) ==
  LET creating == phase \in {"Creating", "Crashing"}
      required == IF creating THEN {"Created", "Ready", "Provisioned"} ELSE ConditionTypes
  IN CASE \A ct \in required : Holds(conds, ct) -> Evaluation("ready", NoTimeout)
       [] creating /\ \E ct \in required : ~Holds(conds, ct) ->
            Waiting(conds, "Ready", createTimeout, now, "create-timeout", "progressing")
       [] ~creating /\ (\E ct \in required : ~Holds(conds, ct))
            /\ Holds(conds, "Provisioned")
            /\ (\E ct \in {"SeedConnected", "Connected", "Ready"} : ~Holds(conds, ct)) ->
            Waiting(conds, LostConnection(conds), healthTimeout, now,
                    "health-timeout", "unhealthy")
       [] OTHER -> Evaluation("unhealthy", NoTimeout)

-----------------------------------------------------------------------------
(* SortFirewallsByImportance *)

\* The comparison on one condition type: 1 when a is preferred, -1 when b is.
Compare(a, b, ct) ==
  CASE Holds(a.conds, ct) /\ ~Holds(b.conds, ct) -> 1
    [] Holds(b.conds, ct) /\ ~Holds(a.conds, ct) -> -1
    [] Holds(a.conds, ct) /\ Holds(b.conds, ct) ->
         IF a.distance < b.distance THEN 1 ELSE IF a.distance > b.distance THEN -1 ELSE 0
    [] OTHER -> 0

\* Faulty variant: older firewalls are preferred and health is not compared.
PreferOlder(a, b) ==
  \/ a.weight > b.weight
  \/ /\ a.weight = b.weight
     /\ \A ct \in {"Connected", "Ready", "Created"} : Compare(a, b, ct) = 0
     /\ a.born <= b.born

\* The less function handed to sort.Slice.  It is not strict: of two firewalls
\* that agree in everything each is "less" than the other.
less(a, b) ==
  LET c1 == Compare(a, b, "Connected")
      c2 == Compare(a, b, "Ready")
      c3 == Compare(a, b, "Created")
  IN \/ a.weight > b.weight
     \/ /\ a.weight = b.weight
        /\ \/ c1 = 1
           \/ c1 = 0 /\ c2 = 1
           \/ c1 = 0 /\ c2 = 0 /\ c3 = 1
           \/ c1 = 0 /\ c2 = 0 /\ c3 = 0 /\ a.born >= b.born

-----------------------------------------------------------------------------
(* Distances within a set *)

FirewallLongestDistance == 8

\* Faulty variants: the staggering or the limit is forgotten.
Unlimited(distance, i) == distance + (IF i = 1 THEN 0 ELSE IF i = 2 THEN 1 ELSE 2)
SameDistance(distance, i) == distance

\* The distance of the firewall at place i: active, first backup, the rest.
StaggeredDistance(distance, i) ==
  LET d == distance + (IF i = 1 THEN 0 ELSE IF i = 2 THEN 1 ELSE 2)
  IN IF d > FirewallLongestDistance THEN FirewallLongestDistance ELSE d
=============================================================================
