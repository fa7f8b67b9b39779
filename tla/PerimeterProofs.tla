--------------------------- MODULE PerimeterProofs ---------------------------
(***************************************************************************)
(* Proofs about the access of the firewalls and the published CIDRs, for   *)
(* every number of changes, failures and addresses: the types, and the     *)
(* safety that AccessWorks and AclFollows of Perimeter rest on.  They say  *)
(* that nothing is forgotten that fairness would have to make up for.      *)
(***************************************************************************)
EXTENDS Perimeter, SequenceTheorems, TLAPS

Calls == Clusters \X Kinds

LEMMA FourCalls ==
  ASSUME NEW S, NEW a \in S, NEW b \in S, NEW c \in S, NEW d \in S
  PROVE  <<a, b, c, d>> \in Seq(S) /\ Len(<<a, b, c, d>>) = 4
OBVIOUS

\* The calls of EnsureFirewallControllerRBAC.
LEMMA StepsType ==
  /\ LastStep = 8
  /\ \A n \in 1..LastStep : EnsureSteps[n][1] \in Clusters /\ EnsureSteps[n][2] \in Kinds
<1>1. /\ <<"seed", "account">> \in Calls /\ <<"seed", "secret">> \in Calls
      /\ <<"seed", "role">> \in Calls /\ <<"seed", "binding">> \in Calls
      /\ <<"shoot", "account">> \in Calls /\ <<"shoot", "secret">> \in Calls
      /\ <<"shoot", "role">> \in Calls /\ <<"shoot", "binding">> \in Calls
  BY DEF Calls, Clusters, Kinds
<1>2. SeedSteps \in Seq(Calls) /\ Len(SeedSteps) = 4
  BY <1>1, FourCalls DEF SeedSteps
<1>3. ShootSteps \in Seq(Calls) /\ Len(ShootSteps) = 4
  BY <1>1, FourCalls DEF ShootSteps
<1>4. EnsureSteps \in Seq(Calls) /\ LastStep = 8
  <2>1. /\ SeedSteps \o ShootSteps \in Seq(Calls)
        /\ Len(SeedSteps \o ShootSteps) = Len(SeedSteps) + Len(ShootSteps)
    BY <1>2, <1>3, ConcatProperties
  <2> QED
    BY <1>2, <1>3, <2>1 DEF EnsureSteps, LastStep
<1>5. \A n \in 1..LastStep : EnsureSteps[n] \in Calls
  <2> SUFFICES ASSUME NEW n \in 1..Len(EnsureSteps) PROVE EnsureSteps[n] \in Calls
    BY DEF LastStep
  <2> QED
    BY <1>4, ElementOfSeq
<1> QED
  BY <1>4, <1>5 DEF Calls

LEMMA CreateType ==
  ASSUME objects \in [Clusters -> SUBSET Kinds], NEW n \in 1..LastStep, CreateOrUpdate(n)
  PROVE  objects' \in [Clusters -> SUBSET Kinds]
<1>1. EnsureSteps[n][1] \in Clusters /\ EnsureSteps[n][2] \in Kinds
  BY StepsType
<1> QED
  BY <1>1 DEF CreateOrUpdate

-----------------------------------------------------------------------------
(* The types of what is in progress *)

Requests == [pc : {"idle", "ensure", "seed", "shoot"}, step : 1..8, shoot : Nat,
             wanted : BOOLEAN]

Ensures == [pc : {"idle", "ensure", "done"}, step : 1..8, condition : {"True", "False"}]

LEMMA RequestType ==
  /\ \A b \in BOOLEAN : NoRequest(b) \in Requests /\ NoRequest(b).pc = "idle"
  /\ \A r \in Requests :
       /\ [r EXCEPT !.pc = "ensure"] \in Requests /\ [r EXCEPT !.pc = "shoot"] \in Requests
       /\ r.step < 8 => [r EXCEPT !.step = @ + 1] \in Requests
       /\ \A t \in Nat : [r EXCEPT !.pc = "seed", !.shoot = t] \in Requests
<1>1. \A b \in BOOLEAN : NoRequest(b) \in Requests /\ NoRequest(b).pc = "idle"
  BY DEF NoRequest, Requests
<1>2. ASSUME NEW r \in Requests
      PROVE  /\ [r EXCEPT !.pc = "ensure"] \in Requests
             /\ [r EXCEPT !.pc = "shoot"] \in Requests
  BY DEF Requests
<1>3. ASSUME NEW r \in Requests, r.step < 8 PROVE [r EXCEPT !.step = @ + 1] \in Requests
  <2>1. r.step + 1 \in 1..8
    BY <1>3 DEF Requests
  <2> QED
    BY <2>1 DEF Requests
<1>4. ASSUME NEW r \in Requests, NEW t \in Nat
      PROVE  [r EXCEPT !.pc = "seed", !.shoot = t] \in Requests
  BY DEF Requests
<1> QED
  BY <1>1, <1>2, <1>3, <1>4

LEMMA EnsureType ==
  /\ NoEnsure \in Ensures /\ [NoEnsure EXCEPT !.pc = "ensure"] \in Ensures
  /\ \A e \in Ensures :
       /\ e.step < 8 => [e EXCEPT !.step = @ + 1] \in Ensures
       /\ \A failed \in BOOLEAN :
            [e EXCEPT !.pc = "done", !.condition = RBACProvisioned(failed)] \in Ensures
<1>1. NoEnsure \in Ensures /\ [NoEnsure EXCEPT !.pc = "ensure"] \in Ensures
  BY DEF NoEnsure, Ensures
<1>2. ASSUME NEW e \in Ensures, e.step < 8 PROVE [e EXCEPT !.step = @ + 1] \in Ensures
  <2>1. e.step + 1 \in 1..8
    BY <1>2 DEF Ensures
  <2> QED
    BY <2>1 DEF Ensures
<1>3. ASSUME NEW e \in Ensures, NEW failed \in BOOLEAN
      PROVE  [e EXCEPT !.pc = "done", !.condition = RBACProvisioned(failed)] \in Ensures
  <2>1. RBACProvisioned(failed) \in {"True", "False"}
    BY DEF RBACProvisioned
  <2> QED
    BY <2>1 DEF Ensures
<1> QED
  BY <1>1, <1>2, <1>3

Jobs == [pc : {"idle", "get", "patch", "annotate", "done"}, want : SUBSET Addresses]

LEMMA NoJobType == NoJob \in Jobs
BY DEF NoJob, Jobs

\* The type invariant with the number of calls put in.
LEMMA AccessTypes ==
  AccessTypeOK <=>
    /\ objects \in [Clusters -> SUBSET Kinds] /\ token \in [Clusters -> Nat]
    /\ orphaned \subseteq Clusters /\ issued \in Nat
    /\ request \in Requests /\ userdata \in Userdata \cup {None} /\ ensure \in Ensures
    /\ condition \in {"Unknown", "True", "False"}
    /\ running \in BOOLEAN /\ shootUp \in BOOLEAN /\ revoked \in BOOLEAN
    /\ source \in Nat /\ oldest \in 1..source /\ file \in 0..source
    /\ disturbances \in 0..MaxDisturbances /\ faults \in 0..MaxFaults
<1>1. {"idle", "ensure"} \cup Clusters = {"idle", "ensure", "seed", "shoot"} /\ LastStep = 8
  BY StepsType DEF Clusters
<1> QED
  BY <1>1 DEF AccessTypeOK, Requests, Ensures

LEMMA InitType == Init => TypeOK
<1> SUFFICES ASSUME Init PROVE TypeOK
  OBVIOUS
<1>1. request \in Requests /\ ensure \in Ensures /\ job \in Jobs
  BY RequestType, EnsureType, NoJobType DEF Init, AccessInit, InfrastructureInit
<1>2. AccessTypeOK
  <2>1. /\ objects \in [Clusters -> SUBSET Kinds] /\ token \in [Clusters -> Nat]
        /\ orphaned \subseteq Clusters /\ issued \in Nat /\ userdata \in Userdata \cup {None}
        /\ condition \in {"Unknown", "True", "False"}
        /\ running \in BOOLEAN /\ shootUp \in BOOLEAN /\ revoked \in BOOLEAN
    BY DEF Init, AccessInit
  <2>2. /\ source \in Nat /\ oldest \in 1..source /\ file \in 0..source
        /\ disturbances \in 0..MaxDisturbances /\ faults \in 0..MaxFaults
    BY AccessAssumption DEF Init, AccessInit
  <2> QED
    BY <1>1, <2>1, <2>2, AccessTypes
<1>3. InfrastructureTypeOK
  BY <1>1 DEF Init, InfrastructureInit, InfrastructureTypeOK, Jobs
<1> QED
  BY <1>2, <1>3 DEF Init, TypeOK

-----------------------------------------------------------------------------
(* Every step keeps the types *)

LEMMA CountersType ==
  ASSUME disturbances \in 0..MaxDisturbances, faults \in 0..MaxFaults
  PROVE  /\ MayFail => faults' \in 0..MaxFaults
         /\ \A kind : Disturb(kind) => disturbances' \in 0..MaxDisturbances /\ UNCHANGED faults
BY AccessAssumption DEF MayFail, Disturb

LEMMA AccessType ==
  ASSUME AccessTypeOK,
         \/ StartEnsure \/ EnsureStep \/ EnsureFails
         \/ Webhook \/ TokenController \/ TokenUpdater \/ ExpireToken \/ AccessOutside
  PROVE  AccessTypeOK'
<1> DEFINE Old ==
      /\ objects \in [Clusters -> SUBSET Kinds] /\ token \in [Clusters -> Nat]
      /\ orphaned \subseteq Clusters /\ issued \in Nat
      /\ request \in Requests /\ userdata \in Userdata \cup {None} /\ ensure \in Ensures
      /\ condition \in {"Unknown", "True", "False"}
      /\ running \in BOOLEAN /\ shootUp \in BOOLEAN /\ revoked \in BOOLEAN
      /\ source \in Nat /\ oldest \in 1..source /\ file \in 0..source
      /\ disturbances \in 0..MaxDisturbances /\ faults \in 0..MaxFaults
<1>0. Old
  BY AccessTypes
<1>a. /\ MayFail => faults' \in 0..MaxFaults
      /\ \A kind : Disturb(kind) => disturbances' \in 0..MaxDisturbances /\ UNCHANGED faults
  BY <1>0, CountersType
<1> SUFFICES Old'
  BY AccessTypes, PTL
<1> USE DEF rbac, shootToken
<1>1. CASE StartEnsure
  BY <1>0, <1>1, EnsureType DEF StartEnsure
<1>2. CASE EnsureStep
  <2>1. objects' \in [Clusters -> SUBSET Kinds]
    BY <1>0, <1>2, CreateType, StepsType DEF EnsureStep, Ensures
  <2>2. ensure' \in Ensures
    BY <1>0, <1>2, EnsureType, StepsType DEF EnsureStep
  <2> QED
    BY <1>0, <1>2, <2>1, <2>2 DEF EnsureStep
<1>3. CASE EnsureFails
  <2>1. ensure' \in Ensures /\ faults' \in 0..MaxFaults
    BY <1>0, <1>a, <1>3, EnsureType DEF EnsureFails
  <2> QED
    BY <1>0, <1>3, <2>1 DEF EnsureFails
<1>4. CASE StartRequest
  BY <1>0, <1>4, RequestType DEF StartRequest
<1>5. CASE RequestStep
  <2>1. objects' \in [Clusters -> SUBSET Kinds]
    BY <1>0, <1>5, CreateType, StepsType DEF RequestStep, Requests
  <2>2. request' \in Requests
    BY <1>0, <1>5, RequestType, StepsType DEF RequestStep
  <2> QED
    BY <1>0, <1>5, <2>1, <2>2 DEF RequestStep
<1>6. CASE ReadShootToken
  <2>1. token["shoot"] \in Nat
    BY <1>0 DEF Clusters
  <2>2. request' \in Requests
    BY <1>0, <1>6, <2>1, RequestType DEF ReadShootToken
  <2>3. revoked' \in BOOLEAN
    BY <1>6 DEF ReadShootToken
  <2> QED
    BY <1>0, <1>6, <2>2, <2>3 DEF ReadShootToken
<1>7. CASE Admit
  <2>1. userdata' \in Userdata
    BY <1>0, <1>7 DEF Admit, Userdata, Clusters, Requests
  <2>2. request' \in Requests
    BY <1>7, RequestType DEF Admit
  <2>3. revoked' \in BOOLEAN
    BY <1>7 DEF Admit
  <2> QED
    BY <1>0, <1>7, <2>1, <2>2, <2>3 DEF Admit
<1>8. CASE Reject
  <2>1. request' \in Requests
    BY <1>8, RequestType DEF Reject
  <2>2. faults' \in 0..MaxFaults
    BY <1>0, <1>a, <1>8 DEF Reject
  <2> QED
    BY <1>0, <1>8, <2>1, <2>2 DEF Reject
<1>9. ASSUME NEW c \in Clusters, IssueToken(c) \/ CollectSecret(c) PROVE Old'
  <2>1. /\ token' \in [Clusters -> Nat] /\ issued' \in Nat
        /\ objects' \in [Clusters -> SUBSET Kinds] /\ orphaned' \subseteq Clusters
    BY <1>0, <1>9 DEF IssueToken, CollectSecret, RemoveSecret
  <2> QED
    BY <1>0, <1>9, <2>1 DEF IssueToken, CollectSecret, RemoveSecret
<1>10. CASE TokenUpdater \/ ExpireToken
  <2>1. CASE Start \/ UpdateTokenFile
    <3>1. source' \in Nat /\ oldest' \in 1..source' /\ file' \in 0..source'
      BY <1>0, <2>1 DEF Start, UpdateTokenFile
    <3>2. running' \in BOOLEAN
      BY <1>0, <2>1 DEF Start, UpdateTokenFile
    <3> QED
      BY <1>0, <2>1, <3>1, <3>2 DEF Start, UpdateTokenFile
  <2>2. CASE UpdateFails
    BY <1>0, <1>a, <2>2 DEF UpdateFails
  <2>3. CASE ExpireToken
    BY <1>0, <2>3 DEF ExpireToken
  <2> QED
    BY <1>10, <2>1, <2>2, <2>3 DEF TokenUpdater
<1>11. CASE RemoveObject
  <2>1. /\ objects' \in [Clusters -> SUBSET Kinds] /\ token' \in [Clusters -> Nat]
        /\ orphaned' \subseteq Clusters
    <3>1. PICK c \in Clusters :
            \/ RemoveSecret(c)
            \/ /\ objects' = [objects EXCEPT ![c] = @ \ {"account"}]
               /\ orphaned' = IF token[c] # 0 THEN orphaned \cup {c} ELSE orphaned
               /\ UNCHANGED token
            \/ \E k \in {"role", "binding"} :
                 /\ objects' = [objects EXCEPT ![c] = @ \ {k}]
                 /\ UNCHANGED <<token, orphaned>>
      BY <1>11 DEF RemoveObject
    <3> QED
      BY <1>0, <3>1 DEF RemoveSecret
  <2>2. disturbances' \in 0..MaxDisturbances /\ UNCHANGED faults
    BY <1>a, <1>11 DEF RemoveObject
  <2>3. revoked' \in BOOLEAN
    BY <1>0, <1>11 DEF RemoveObject
  <2> QED
    BY <1>0, <1>11, <2>1, <2>2, <2>3 DEF RemoveObject
<1>12. CASE RenewToken \/ LoseShoot
  <2>1. disturbances' \in 0..MaxDisturbances /\ UNCHANGED faults
    BY <1>a, <1>12 DEF RenewToken, LoseShoot
  <2>2. source' \in Nat /\ oldest' \in 1..source' /\ file' \in 0..source'
    BY <1>0, <1>12 DEF RenewToken, LoseShoot
  <2>3. shootUp' \in BOOLEAN
    BY <1>0, <1>12 DEF RenewToken, LoseShoot
  <2> QED
    BY <1>0, <1>12, <2>1, <2>2, <2>3 DEF RenewToken, LoseShoot
<1>13. CASE ClearUserdata
  <2>1. disturbances' \in 0..MaxDisturbances /\ UNCHANGED faults
    BY <1>a, <1>13 DEF ClearUserdata
  <2> QED
    BY <1>0, <1>13, <2>1, RequestType DEF ClearUserdata
<1> QED
  BY <1>1, <1>2, <1>3, <1>4, <1>5, <1>6, <1>7, <1>8, <1>9, <1>10, <1>11, <1>12, <1>13
     DEF Webhook, TokenController, AccessOutside

LEMMA InfrastructureType ==
  ASSUME InfrastructureTypeOK,
         \/ ListAddresses \/ UpdateInfrastructureStatus \/ JobFails
         \/ ReconcileAcl \/ RefreshAddresses \/ ChangeReported \/ ChangeRules
  PROVE  InfrastructureTypeOK'
<1> USE DEF InfrastructureTypeOK, outside
<1>1. CASE ListAddresses
  BY <1>1 DEF ListAddresses
<1>2. CASE GetInfrastructure
  BY <1>2 DEF GetInfrastructure
<1>3. CASE PatchStatus \/ AnnotateAcl
  BY <1>3 DEF PatchStatus, AnnotateAcl
<1>4. CASE JobFails
  BY <1>4 DEF JobFails
<1>5. CASE ReconcileAcl \/ RefreshAddresses
  <2>1. acl' = [applied |-> cidrs, marked |-> FALSE] \/ acl' = acl
    BY <1>5 DEF ReconcileAcl, RefreshAddresses
  <2>2. [applied |-> cidrs, marked |-> FALSE] \in [applied : SUBSET Addresses, marked : BOOLEAN]
    OBVIOUS
  <2> QED
    BY <1>5, <2>1, <2>2 DEF ReconcileAcl, RefreshAddresses
<1>6. CASE ChangeReported \/ ChangeRules
  BY <1>6 DEF ChangeReported, ChangeRules
<1> QED
  BY <1>1, <1>2, <1>3, <1>4, <1>5, <1>6 DEF UpdateInfrastructureStatus

LEMMA NextType == TypeOK /\ [Next]_vars => TypeOK'
<1> SUFFICES ASSUME TypeOK, [Next]_vars PROVE TypeOK'
  OBVIOUS
<1>1. AccessTypeOK /\ InfrastructureTypeOK /\ waiting \in BOOLEAN
  BY DEF TypeOK
<1>2. ASSUME UNCHANGED <<access, disturbances, faults>> PROVE AccessTypeOK'
  BY <1>1, <1>2 DEF access, AccessTypeOK
<1>3. ASSUME UNCHANGED infrastructure PROVE InfrastructureTypeOK'
  BY <1>1, <1>3 DEF infrastructure, InfrastructureTypeOK
<1>4. CASE UNCHANGED vars
  BY <1>1, <1>2, <1>3, <1>4 DEF vars, TypeOK
<1>5. CASE UpdateSets \/ RolloutEnds
  BY <1>1, <1>2, <1>3, <1>5, InfrastructureType DEF UpdateSets, RolloutEnds, TypeOK
<1>6. CASE UpdateStatus
  <2>1. AccessTypeOK'
    <3>1. condition' \in {"Unknown", "True", "False"} /\ ensure' \in Ensures
      BY <1>1, <1>6, AccessTypes, EnsureType DEF UpdateStatus, Ensures
    <3> QED
      BY <1>1, <1>6, <3>1, StepsType DEF UpdateStatus, rbac, shootToken, AccessTypeOK, Ensures
  <2>2. InfrastructureTypeOK'
    BY <1>1, <1>6, NoJobType DEF UpdateStatus, InfrastructureTypeOK, Jobs
  <2> QED
    BY <1>1, <1>6, <2>1, <2>2 DEF UpdateStatus, TypeOK
<1>7. CASE Restart
  <2>1. AccessTypeOK'
    <3>1. /\ request.wanted \in BOOLEAN /\ source \in Nat
          /\ disturbances \in 0..MaxDisturbances /\ faults \in 0..MaxFaults
      BY <1>1, AccessTypes DEF Requests
    <3>2. request' \in Requests /\ ensure' \in Ensures /\ faults' \in 0..MaxFaults
      BY <1>7, <3>1, RequestType, EnsureType, CountersType DEF Restart
    <3>3. file' \in 0..source'
      BY <1>7, <3>1 DEF Restart
    <3>5. running' \in BOOLEAN
      BY <1>7 DEF Restart
    <3>4. {"idle", "ensure"} \cup Clusters = {"idle", "ensure", "seed", "shoot"} /\ LastStep = 8
      BY StepsType DEF Clusters
    <3> QED
      BY <1>1, <1>7, <3>2, <3>3, <3>4, <3>5 DEF Restart, rbac, AccessTypeOK, Requests, Ensures
  <2>2. InfrastructureTypeOK'
    BY <1>1, <1>7, NoJobType DEF Restart, InfrastructureTypeOK, Jobs
  <2> QED
    BY <1>1, <1>7, <2>1, <2>2 DEF Restart, TypeOK
<1>8. CASE \/ (StartEnsure \/ EnsureStep \/ EnsureFails) /\ UNCHANGED <<infrastructure, waiting>>
           \/ AccessOutside /\ UNCHANGED <<infrastructure, waiting>>
           \/ (Webhook \/ TokenController \/ TokenUpdater \/ ExpireToken)
                /\ UNCHANGED <<infrastructure, waiting>>
  BY <1>1, <1>3, <1>8, AccessType DEF TypeOK
<1>9. CASE \/ UpdateInfrastructureStatus \/ ReconcileAcl \/ RefreshAddresses
           /\ UNCHANGED <<access, waiting, disturbances, faults>>
  BY <1>1, <1>2, <1>9, InfrastructureType DEF TypeOK
<1>10. ASSUME JobFails, MayFail, UNCHANGED <<access, waiting, disturbances>> PROVE TypeOK'
  <2>1. faults' \in 0..MaxFaults /\ InfrastructureTypeOK'
    BY <1>1, <1>10, CountersType, InfrastructureType DEF AccessTypeOK
  <2> QED
    BY <1>1, <1>10, <2>1 DEF access, AccessTypeOK, TypeOK
<1>11. ASSUME NEW kind, Disturb(kind), ChangeReported \/ ChangeRules, UNCHANGED <<access, waiting>>
       PROVE  TypeOK'
  <2>1. /\ disturbances' \in 0..MaxDisturbances /\ UNCHANGED faults
        /\ InfrastructureTypeOK'
    BY <1>1, <1>11, CountersType, InfrastructureType DEF AccessTypeOK
  <2> QED
    BY <1>1, <1>11, <2>1 DEF access, AccessTypeOK, TypeOK
<1>12. ASSUME Disturb("rollout"), waiting' = TRUE, UNCHANGED <<access, infrastructure>>
       PROVE  TypeOK'
  <2>1. disturbances' \in 0..MaxDisturbances /\ UNCHANGED faults
    BY <1>1, <1>12, CountersType DEF AccessTypeOK
  <2> QED
    BY <1>1, <1>3, <1>12, <2>1 DEF access, AccessTypeOK, TypeOK
<1> QED
  BY <1>4, <1>5, <1>6, <1>7, <1>8, <1>9, <1>10, <1>11, <1>12 DEF Next, Reconcile, PerimeterOutside

\* Every variable has its type and every bound is kept, in every instance.
THEOREM TypeCorrect == Spec => []TypeOK
BY InitType, NextType, PTL DEF Spec

-----------------------------------------------------------------------------
(* The tokens of the firewalls and the CIDRs of the extension *)

\* A token that the seed or the shoot accepts.
Alive(c) == token[c] # 0 /\ c \notin orphaned

\* Such a token has its secret and the account it was issued for.
TokensBacked == \A c \in Clusters : Alive(c) => {"account", "secret"} \subseteq objects[c]

\* The user data has the tokens of the secrets, and they are accepted, unless one
\* that was read for it was dead or died since: no retry of the webhook, restart
\* or repair of the objects may leave it behind with another.
TokensHeld ==
  userdata # None /\ ~revoked => \A c \in Clusters : userdata[c] = token[c] /\ Alive(c)

\* The same for what the admission in progress has read.
TokenRead ==
  request.pc = "seed" =>
    request.shoot # 0 /\ (~revoked => request.shoot = token["shoot"] /\ Alive("shoot"))

TokenInv == TypeOK /\ TokensBacked /\ TokensHeld /\ TokenRead

\* The extension has applied the published CIDRs, is told of them, or will be.
AclIsTold == acl.applied = cidrs \/ acl.marked \/ job.pc = "annotate" \/ missed

\* What the user data and the admission have read, while no token changes.
LEMMA TokensUntouched ==
  ASSUME TokenInv, UNCHANGED <<token, orphaned, userdata, request, revoked>>
  PROVE  TokensHeld' /\ TokenRead'
BY DEF TokenInv, TokensHeld, TokenRead, Alive

\* The objects may only grow while no token changes.
LEMMA TokensStayBacked ==
  ASSUME TokenInv, UNCHANGED <<token, orphaned>>,
         \A c \in Clusters : objects[c] \subseteq objects'[c]
  PROVE  TokensBacked'
BY DEF TokenInv, TokensBacked, Alive

\* The objects, the secrets and the accounts that are created and removed.
LEMMA ObjectStep ==
  ASSUME TokenInv,
         \/ \E n \in 1..LastStep : CreateOrUpdate(n) /\ UNCHANGED <<token, orphaned>>
         \/ \E c \in Clusters : IssueToken(c) \/ RemoveSecret(c)
         \/ RemoveObject
         \/ UNCHANGED <<objects, token, orphaned>>
  PROVE  TokensBacked'
<1>0. /\ objects \in [Clusters -> SUBSET Kinds] /\ token \in [Clusters -> Nat]
      /\ TokensBacked
  BY AccessTypes DEF TokenInv, TypeOK
<1>1. ASSUME NEW n \in 1..LastStep, CreateOrUpdate(n), UNCHANGED <<token, orphaned>>
      PROVE  TokensBacked'
  <2>1. \A c \in Clusters : objects[c] \subseteq objects'[c]
    BY <1>0, <1>1, StepsType DEF CreateOrUpdate
  <2> QED
    BY <1>1, <2>1, TokensStayBacked
<1>2. ASSUME NEW c \in Clusters, IssueToken(c) PROVE TokensBacked'
  BY <1>0, <1>2 DEF IssueToken, TokensBacked, Alive
<1>3. ASSUME NEW c \in Clusters, RemoveSecret(c) PROVE TokensBacked'
  BY <1>0, <1>3 DEF RemoveSecret, TokensBacked, Alive
<1>4. CASE RemoveObject
  <2>1. PICK c \in Clusters :
          \/ RemoveSecret(c)
          \/ /\ objects' = [objects EXCEPT ![c] = @ \ {"account"}]
             /\ orphaned' = IF token[c] # 0 THEN orphaned \cup {c} ELSE orphaned
             /\ UNCHANGED token
          \/ \E k \in {"role", "binding"} :
               /\ objects' = [objects EXCEPT ![c] = @ \ {k}]
               /\ UNCHANGED <<token, orphaned>>
    BY <1>4 DEF RemoveObject
  <2>2. ASSUME objects' = [objects EXCEPT ![c] = @ \ {"account"}],
               orphaned' = (IF token[c] # 0 THEN orphaned \cup {c} ELSE orphaned),
               UNCHANGED token
        PROVE  TokensBacked'
    BY <1>0, <2>2 DEF TokensBacked, Alive
  <2>3. ASSUME NEW k \in {"role", "binding"}, objects' = [objects EXCEPT ![c] = @ \ {k}],
               UNCHANGED <<token, orphaned>>
        PROVE  TokensBacked'
    BY <1>0, <2>3 DEF TokensBacked, Alive
  <2> QED
    BY <1>3, <2>1, <2>2, <2>3
<1>5. CASE UNCHANGED <<objects, token, orphaned>>
  BY <1>5, TokensStayBacked
<1> QED
  BY <1>1, <1>2, <1>3, <1>4, <1>5

LEMMA BackedStep == TokenInv /\ [Next]_vars => TokensBacked'
<1> SUFFICES ASSUME TokenInv, [Next]_vars PROVE TokensBacked'
  OBVIOUS
<1>0. request \in Requests /\ ensure \in Ensures
  BY AccessTypes DEF TokenInv, TypeOK
<1>1. CASE EnsureStep
  <2>1. ensure.step \in 1..LastStep
    BY <1>0, StepsType DEF Ensures
  <2> QED
    BY <1>1, <2>1, ObjectStep DEF EnsureStep
<1>2. CASE RequestStep
  <2>1. request.step \in 1..LastStep
    BY <1>0, StepsType DEF Requests
  <2> QED
    BY <1>2, <2>1, ObjectStep DEF RequestStep
<1>3. CASE TokenController
  BY <1>3, ObjectStep DEF TokenController, CollectSecret
<1>4. CASE RemoveObject
  BY <1>4, ObjectStep
<1>5. CASE UNCHANGED <<objects, token, orphaned>>
  BY <1>5, ObjectStep
<1>6. CASE StartRequest \/ ReadShootToken \/ Admit \/ Reject
  BY <1>5, <1>6 DEF StartRequest, ReadShootToken, Admit, Reject, rbac
<1>7. CASE StartEnsure \/ EnsureFails \/ UpdateSets \/ UpdateStatus \/ RolloutEnds \/ Restart
  BY <1>5, <1>7
     DEF StartEnsure, EnsureFails, UpdateSets, UpdateStatus, RolloutEnds, Restart, rbac, access
<1>8. CASE TokenUpdater \/ ExpireToken \/ RenewToken \/ LoseShoot \/ ClearUserdata
  BY <1>5, <1>8
     DEF TokenUpdater, Start, UpdateTokenFile, UpdateFails, ExpireToken, RenewToken, LoseShoot,
         ClearUserdata, rbac
<1>9. CASE UNCHANGED access \/ UNCHANGED vars
  BY <1>5, <1>9 DEF access, vars
<1> QED
  BY <1>1, <1>2, <1>3, <1>4, <1>6, <1>7, <1>8, <1>9
     DEF Next, Reconcile, PerimeterOutside, Webhook, AccessOutside

LEMMA TokenStep == TokenInv /\ [Next]_vars => TokenInv'
<1> SUFFICES ASSUME TokenInv, [Next]_vars PROVE TokensHeld' /\ TokenRead'
  BY NextType, BackedStep DEF TokenInv
<1>0. /\ token \in [Clusters -> Nat] /\ issued \in Nat /\ request \in Requests
      /\ revoked \in BOOLEAN /\ userdata \in Userdata \cup {None}
      /\ TokensBacked /\ TokensHeld /\ TokenRead
  BY AccessTypes DEF TokenInv, TypeOK
<1>1. CASE StartRequest
  BY <1>0, <1>1 DEF StartRequest, rbac, TokensHeld, TokenRead, Alive, Requests
<1>2. CASE RequestStep
  <2>1. request'.pc # "seed" /\ UNCHANGED <<token, orphaned, userdata, revoked>>
    BY <1>0, <1>2 DEF RequestStep, Requests
  <2> QED
    BY <1>0, <2>1 DEF TokensHeld, TokenRead, Alive
<1>3. CASE ReadShootToken
  <2>1. request'.shoot = token["shoot"] /\ token["shoot"] # 0
    BY <1>0, <1>3 DEF ReadShootToken, FoundToken, Requests
  <2>2. UNCHANGED <<token, orphaned, userdata>> /\ revoked' = (revoked \/ "shoot" \in orphaned)
    BY <1>3 DEF ReadShootToken
  <2>3. ~revoked' => ~revoked /\ "shoot" \notin orphaned
    BY <2>2
  <2> QED
    BY <1>0, <2>1, <2>2, <2>3 DEF TokensHeld, TokenRead, Alive
<1>4. CASE Admit
  <2>1. /\ request.shoot # 0 /\ token["seed"] # 0
        /\ userdata' = [seed |-> token["seed"], shoot |-> request.shoot]
        /\ revoked' = (revoked \/ "seed" \in orphaned)
        /\ UNCHANGED <<token, orphaned>>
    BY <1>0, <1>4 DEF Admit, FoundToken, TokenRead
  <2>2. ~revoked' => request.shoot = token["shoot"] /\ Alive("shoot") /\ Alive("seed")
    BY <1>0, <1>4, <2>1 DEF Admit, TokenRead, Alive
  <2>3. TokensHeld'
    BY <2>1, <2>2 DEF TokensHeld, Clusters, Alive
  <2>4. request'.pc = "idle"
    BY <1>4 DEF Admit, NoRequest
  <2> QED
    BY <2>3, <2>4 DEF TokenRead
<1>5. CASE Reject \/ ClearUserdata \/ Restart
  <2>1. request'.pc = "idle" /\ UNCHANGED <<token, orphaned, userdata, revoked>>
    BY <1>5 DEF Reject, ClearUserdata, Restart, NoRequest, rbac
  <2> QED
    BY <1>0, <2>1 DEF TokensHeld, TokenRead, Alive
<1>6. ASSUME NEW c \in Clusters, IssueToken(c) PROVE TokensHeld' /\ TokenRead'
  <2>1. /\ token[c] = 0 /\ token' = [token EXCEPT ![c] = issued + 1]
        /\ UNCHANGED <<orphaned, request, userdata, revoked>>
    BY <1>6 DEF IssueToken
  <2>2. TokensHeld'
    BY <1>0, <2>1 DEF TokensHeld, Alive
  <2>3. TokenRead'
    BY <1>0, <2>1 DEF TokenRead, Alive, Clusters
  <2> QED
    BY <2>2, <2>3
\* A token that dies is not in use, unless that is counted as a loss.
<1>7. ASSUME NEW c \in Clusters, ~revoked' => ~revoked /\ ~InUse(c),
             \A d \in Clusters \ {c} : token'[d] = token[d] /\ (d \in orphaned' <=> d \in orphaned),
             UNCHANGED <<request, userdata>>
      PROVE  TokensHeld' /\ TokenRead'
  <2>1. userdata # None => revoked'
    BY <1>0, <1>7 DEF TokensHeld, InUse
  <2>2. request.pc = "seed" /\ ~revoked' => c # "shoot" /\ ~revoked
    BY <1>7 DEF InUse
  <2>3. TokenRead'
    BY <1>0, <1>7, <2>2 DEF TokenRead, Alive, Clusters
  <2> QED
    BY <1>7, <2>1, <2>3 DEF TokensHeld
<1>8. ASSUME NEW c \in Clusters, CollectSecret(c) PROVE TokensHeld' /\ TokenRead'
  <2>1. ~Alive(c)
    BY <1>0, <1>8 DEF CollectSecret, TokensBacked, Alive
  <2>2. ~revoked => ~InUse(c)
    BY <1>0, <2>1 DEF InUse, TokensHeld, TokenRead
  <2>3. /\ \A d \in Clusters \ {c} : token'[d] = token[d] /\ (d \in orphaned' <=> d \in orphaned)
        /\ UNCHANGED <<request, userdata, revoked>>
    BY <1>0, <1>8 DEF CollectSecret, RemoveSecret
  <2> QED
    BY <1>7, <2>2, <2>3
<1>9. CASE RemoveObject
  <2>1. UNCHANGED <<request, userdata>>
    BY <1>9 DEF RemoveObject
  <2>2. \/ UNCHANGED <<token, orphaned, revoked>>
        \/ \E c \in Clusters :
             /\ revoked' = (revoked \/ InUse(c))
             /\ \/ RemoveSecret(c)
                \/ /\ orphaned' = IF token[c] # 0 THEN orphaned \cup {c} ELSE orphaned
                   /\ UNCHANGED token
    BY <1>9 DEF RemoveObject
  <2>3. CASE UNCHANGED <<token, orphaned, revoked>>
    BY <2>1, <2>3, TokensUntouched
  <2>4. ASSUME NEW c \in Clusters, revoked' = (revoked \/ InUse(c)),
               \/ RemoveSecret(c)
               \/ /\ orphaned' = IF token[c] # 0 THEN orphaned \cup {c} ELSE orphaned
                  /\ UNCHANGED token
        PROVE  TokensHeld' /\ TokenRead'
    <3>1. ~revoked' => ~revoked /\ ~InUse(c)
      BY <2>4
    <3>2. \A d \in Clusters \ {c} : token'[d] = token[d] /\ (d \in orphaned' <=> d \in orphaned)
      BY <1>0, <2>4 DEF RemoveSecret
    <3> QED
      BY <1>7, <2>1, <3>1, <3>2
  <2> QED
    BY <2>2, <2>3, <2>4
<1>10. CASE UNCHANGED <<token, orphaned, userdata, request, revoked>>
  BY <1>10, TokensUntouched
<1>11. CASE Reconcile \/ RolloutEnds
  BY <1>10, <1>11
     DEF Reconcile, StartEnsure, EnsureStep, EnsureFails, UpdateSets, UpdateStatus, RolloutEnds,
         rbac, access
<1>12. CASE TokenUpdater \/ ExpireToken \/ RenewToken \/ LoseShoot
  BY <1>10, <1>12
     DEF TokenUpdater, Start, UpdateTokenFile, UpdateFails, ExpireToken, RenewToken, LoseShoot, rbac
<1>13. CASE UNCHANGED access \/ UNCHANGED vars
  BY <1>10, <1>13 DEF access, vars
<1> QED
  BY <1>1, <1>2, <1>3, <1>4, <1>5, <1>6, <1>8, <1>9, <1>11, <1>12, <1>13
     DEF Next, PerimeterOutside, Webhook, TokenController, AccessOutside

\* Whatever fails, restarts or is put right: the user data has the tokens of the
\* secrets, for accounts that exist, as long as no token that was read for it died
\* (seed_access.go, defaults).
THEOREM FirewallsHoldTheTokens == Spec => [](TokensHeld /\ TokensBacked)
<1>1. Init => TokenInv
  <2> SUFFICES ASSUME Init PROVE TokensBacked /\ TokensHeld /\ TokenRead
    BY InitType DEF TokenInv
  <2> QED
    BY DEF Init, AccessInit, NoRequest, TokensBacked, TokensHeld, TokenRead, Alive
<1>2. TokenInv => TokensHeld /\ TokensBacked
  BY DEF TokenInv
<1> QED
  BY <1>1, <1>2, TokenStep, PTL DEF Spec

LEMMA AclStep == TypeOK /\ AclIsTold /\ [Next]_vars => AclIsTold'
<1> SUFFICES ASSUME TypeOK, AclIsTold, [Next]_vars PROVE AclIsTold'
  OBVIOUS
<1>0. acl \in [applied : SUBSET Addresses, marked : BOOLEAN] /\ job \in Jobs
  BY DEF TypeOK, InfrastructureTypeOK, Jobs
<1>1. CASE UpdateSets
  BY <1>1 DEF UpdateSets, ListAddresses, AclIsTold
<1>2. CASE UpdateStatus
  BY <1>2 DEF UpdateStatus, AclIsTold
<1>3. CASE GetInfrastructure
  BY <1>3 DEF GetInfrastructure, AclIsTold
<1>4. CASE PatchStatus
  BY <1>0, <1>4 DEF PatchStatus, AclIsTold, Jobs
<1>5. CASE AnnotateAcl
  BY <1>0, <1>5 DEF AnnotateAcl, AclIsTold
<1>6. CASE JobFails
  BY <1>6 DEF JobFails, AclIsTold
<1>7. CASE ReconcileAcl
  BY <1>7 DEF ReconcileAcl, AclIsTold
<1>8. CASE Restart
  BY <1>8 DEF Restart, AclIsTold
<1>9. CASE UNCHANGED <<cidrs, acl, job, missed>>
  BY <1>9 DEF AclIsTold
<1>10. CASE RefreshAddresses \/ ChangeReported \/ ChangeRules
  BY <1>9, <1>10 DEF RefreshAddresses, ChangeReported, ChangeRules
<1>11. CASE UNCHANGED infrastructure \/ UNCHANGED vars
  BY <1>9, <1>11 DEF infrastructure, vars
<1> QED
  BY <1>1, <1>2, <1>3, <1>4, <1>5, <1>6, <1>7, <1>8, <1>10, <1>11
     DEF Next, Reconcile, UpdateInfrastructureStatus, PerimeterOutside, RolloutEnds

\* The ACL extension is never left with other CIDRs than the published ones and
\* nobody to tell it, unless the call after the patch failed or the process ended
\* before it (infrastructure_status.go:117).
THEOREM ExtensionIsTold == Spec => []AclIsTold
<1>1. Init => AclIsTold
  BY DEF Init, InfrastructureInit, AclIsTold
<1> QED
  BY <1>1, TypeCorrect, AclStep, PTL DEF Spec
=============================================================================
