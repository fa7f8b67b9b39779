------------------------------ MODULE Perimeter ------------------------------
(***************************************************************************)
(* The reconcile of a deployment seen from its two ends (Reconcile in      *)
(* src/controllers/deployment/reconcile.go): it begins with the RBAC       *)
(* objects of the firewalls, whatever comes of that goes on to the sets    *)
(* (module Deployment), and ends with the status of the Infrastructure if  *)
(* nothing is waited for.  Access and Infrastructure meet in this order,   *)
(* at the admission webhook and at restarts.                               *)
(*                                                                         *)
(* Not covered: the reconcile that creates the first set and ends with it, *)
(* the next one makes up for it; the deletion of the deployment, which     *)
(* leaves the RBAC objects and the egress CIDRs behind; and the shoot      *)
(* manager that gives up, and the process with it, when it cannot fill its *)
(* caches.                                                                 *)
(***************************************************************************)
EXTENDS Access, Infrastructure

VARIABLE
  waiting  \* old sets are to go first: the reconcile ends early and is requeued

vars == <<access, infrastructure, waiting, disturbances, faults>>

\* Faulty variant: the error of the RBAC objects ends the reconcile.
OnlyWithRBAC == ensure.pc = "done" /\ ensure.condition = "True"

\* The error of the RBAC objects does not keep the reconcile from going on.
RBACDone == ensure.pc = "done"

UpdateSets ==
  /\ RBACDone /\ job.pc = "idle" /\ ~waiting
  /\ ListAddresses
  /\ UNCHANGED <<access, waiting, disturbances, faults>>

\* The deferred status update at the end of the reconcile, however it ends.
UpdateStatus ==
  /\ ensure.pc = "done" /\ ((job.pc = "idle" /\ (waiting \/ ~RBACDone)) \/ job.pc = "done")
  /\ condition' = ensure.condition
  /\ ensure' = NoEnsure /\ job' = NoJob
  /\ UNCHANGED <<rbac, request, userdata, running, shootToken, reported, listed, rules, cidrs, acl,
                 missed, waiting, disturbances, faults>>

Reconcile ==
  \/ (StartEnsure \/ EnsureStep \/ EnsureFails) /\ UNCHANGED <<infrastructure, waiting>>
  \/ UpdateSets \/ UpdateStatus
  \/ UpdateInfrastructureStatus /\ UNCHANGED <<access, waiting, disturbances, faults>>

\* The firewalls of the old sets are gone, which needs the shoot: their monitors
\* are deleted there before their machines (firewall/delete.go:18).
RolloutEnds ==
  /\ Reachable("shoot")
  /\ waiting /\ waiting' = FALSE
  /\ UNCHANGED <<access, infrastructure, disturbances, faults>>

Restart ==
  /\ running /\ MayFail
  /\ running' = FALSE /\ file' = 0
  /\ ensure' = NoEnsure /\ request' = NoRequest(request.wanted) /\ job' = NoJob
  /\ missed' = (missed \/ job.pc = "annotate")
  /\ UNCHANGED <<rbac, userdata, condition, shootUp, source, oldest, reported, listed, rules, cidrs,
                 acl, waiting, disturbances>>

PerimeterOutside ==
  \/ AccessOutside /\ UNCHANGED <<infrastructure, waiting>>
  \/ Disturb("addresses") /\ ChangeReported /\ UNCHANGED <<access, waiting>>
  \/ Disturb("rules") /\ ChangeRules /\ UNCHANGED <<access, waiting>>
  \/ Disturb("rollout") /\ ~waiting /\ waiting' = TRUE /\ UNCHANGED <<access, infrastructure>>

Init == AccessInit /\ InfrastructureInit /\ waiting = FALSE

Next ==
  \/ Reconcile \/ Restart \/ PerimeterOutside \/ RolloutEnds
  \/ (Webhook \/ TokenController \/ TokenUpdater \/ ExpireToken)
       /\ UNCHANGED <<infrastructure, waiting>>
  \/ (ReconcileAcl \/ RefreshAddresses) /\ UNCHANGED <<access, waiting, disturbances, faults>>
  \/ JobFails /\ MayFail /\ UNCHANGED <<access, waiting, disturbances>>

Spec == Init /\ [][Next]_vars

\* Reconciles come back, a rejected deployment is submitted again, tokens are
\* issued, the token file is updated, the extension and the cache do their work,
\* a rollout comes to its end while the shoot can be reached.
FairSpec ==
  /\ Spec
  /\ WF_vars(Reconcile) /\ WF_vars(Webhook /\ UNCHANGED <<infrastructure, waiting>>)
  /\ WF_vars(TokenController /\ UNCHANGED <<infrastructure, waiting>>)
  /\ WF_vars((Start \/ UpdateTokenFile) /\ UNCHANGED <<infrastructure, waiting>>)
  /\ WF_vars(ReconcileAcl /\ UNCHANGED <<access, waiting, disturbances, faults>>)
  /\ WF_vars(RefreshAddresses /\ UNCHANGED <<access, waiting, disturbances, faults>>)
  /\ WF_vars(RolloutEnds)

-----------------------------------------------------------------------------
(* Properties *)

\* Every variable has its type and every bound is kept.
TypeOK == AccessTypeOK /\ InfrastructureTypeOK /\ waiting \in BOOLEAN

\* While the shoot can be reached, the access that is rendered for the firewalls
\* works in the end: objects that were removed are put right, with tokens for
\* accounts that exist, and the user data has those tokens, unless one that was
\* read for it died.  Then it may have a dead token for good: nothing renders it
\* again by itself (defaults.go:92).
AccessWorks ==
  <>[](shootUp =>
         /\ userdata # None /\ Provisioned
         /\ \A c \in Clusters :
              token[c] # 0 /\ c \notin orphaned /\ (~revoked => userdata[c] = token[c]))

\* The published condition tells in the end whether the objects were ensured
\* (types_firewalldeployment.go, RBACProvisioned).
ConditionTruthful ==
  <>[](userdata # None => condition = IF shootUp THEN "True" ELSE "False")

\* The egress CIDRs settle at the addresses in use, also when the access to the
\* shoot is lost for good, unless it is lost while old sets are waited for: they
\* cannot go then, and the reconcile ends before the CIDRs ever after.
CidrsConverge ==
  <>[](userdata # None /\ (shootUp \/ ~waiting) => cidrs = reported \cup rules)

\* The ACL extension applies the CIDRs that are published, unless the call that
\* tells it failed.
AclFollows == <>[](acl.applied = cidrs \/ missed)
=============================================================================
