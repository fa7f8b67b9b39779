------------------------- MODULE FirewallStatusProofs -------------------------
(***************************************************************************)
(* What the operators on the conditions of a firewall return and preserve, *)
(* for the proofs about the controllers that use them.                     *)
(***************************************************************************)
EXTENDS FirewallStatus, TLAPS

Conditions == [ConditionTypes -> Condition]

LEMMA TypesOfConditions ==
  /\ HeardOfController \subseteq HealthConditions /\ HealthConditions \subseteq ConditionTypes
  /\ "Provisioned" \in ConditionTypes /\ "Provisioned" \notin HealthConditions
  /\ {"Created", "Ready", "SeedConnected", "Connected", "Distance"} = HealthConditions
BY DEF HeardOfController, HealthConditions, ConditionTypes

LEMMA MissingType == Missing \in Condition /\ [ct \in ConditionTypes |-> Missing] \in Conditions
BY DEF Missing, Condition, ZeroTime, Conditions

\* Conditions.Set changes one condition, whose transition time is the old one
\* if the status stays and the present otherwise.
LEMMA SetConditionEffect ==
  ASSUME NEW conds \in Conditions, NEW ct \in ConditionTypes,
         NEW status \in {"True", "False"}, NEW now \in Int
  PROVE  LET new == SetCondition(conds, ct, status, now) IN
         /\ new \in Conditions
         /\ \A other \in ConditionTypes \ {ct} : new[other] = conds[other]
         /\ new[ct].status = status
         /\ new[ct].since = IF conds[ct].status = status THEN conds[ct].since ELSE now
<1>1. conds[ct] \in Condition
  BY DEF Conditions
<1> QED
  BY <1>1 DEF Conditions, Condition, SetCondition, Set

\* The same for several conditions at a time.
LEMMA SetConditionsEffect ==
  ASSUME NEW conds \in Conditions, NEW holds, NEW now \in Int
  PROVE  LET new == SetConditions(conds, holds, now) IN
         /\ new \in Conditions
         /\ \A ct \in ConditionTypes \ DOMAIN holds : new[ct] = conds[ct]
         /\ \A ct \in ConditionTypes \cap DOMAIN holds :
              /\ new[ct].status = Status(holds[ct])
              /\ new[ct].since = IF conds[ct].status = Status(holds[ct])
                                 THEN conds[ct].since ELSE now
<1> DEFINE new == SetConditions(conds, holds, now)
<1>1. ASSUME NEW ct \in ConditionTypes, ct \notin DOMAIN holds
      PROVE  new[ct] = conds[ct] /\ new[ct] \in Condition
  BY <1>1 DEF SetConditions, Conditions
<1>2. ASSUME NEW ct \in ConditionTypes, ct \in DOMAIN holds
      PROVE  /\ new[ct] \in Condition
             /\ new[ct].status = Status(holds[ct])
             /\ new[ct].since = IF conds[ct].status = Status(holds[ct])
                                THEN conds[ct].since ELSE now
  <2>1. Status(holds[ct]) \in {"True", "False"}
    BY DEF Status
  <2>2. new[ct] = Set(conds[ct], Status(holds[ct]), now)
    BY <1>2 DEF SetConditions
  <2>3. conds[ct] \in Condition
    BY DEF Conditions
  <2> QED
    BY <2>1, <2>2, <2>3 DEF Condition, Set
<1>3. new \in Conditions
  <2>1. new = [ct \in ConditionTypes |-> new[ct]]
    BY DEF SetConditions
  <2> HIDE DEF new
  <2> QED
    BY <1>1, <1>2, <2>1 DEF Conditions
<1> QED
  BY <1>1, <1>2, <1>3

\* A firewall becomes provisioned only when all is well, and nothing else
\* changes with it.
LEMMA SetProvisionedEffect ==
  ASSUME NEW conds \in Conditions, NEW now \in Int
  PROVE  LET new == SetProvisioned(conds, now) IN
         /\ new \in Conditions
         /\ \A ct \in HealthConditions : new[ct] = conds[ct]
         /\ new["Provisioned"] # conds["Provisioned"] => isProvisioned(conds)
<1>1. "Provisioned" \in ConditionTypes
      /\ HealthConditions \subseteq ConditionTypes \ {"Provisioned"}
  BY TypesOfConditions
<1>2. CASE isProvisioned(conds)
  <2>1. SetProvisioned(conds, now) = SetCondition(conds, "Provisioned", "True", now)
    BY <1>2 DEF SetProvisioned
  <2> QED
    BY <1>1, <1>2, <2>1, SetConditionEffect
<1>3. CASE ~isProvisioned(conds)
  BY <1>1, <1>3 DEF SetProvisioned
<1> QED
  BY <1>2, <1>3

LEMMA FromMonitorType ==
  ASSUME NEW conds \in Conditions, NEW cs, NEW unchecked, NEW distance,
         NEW now \in Int
  PROVE  SetFirewallStatusFromMonitor(conds, cs, unchecked, distance, now) \in Conditions
BY SetConditionsEffect, SetProvisionedEffect DEF SetFirewallStatusFromMonitor
===============================================================================
