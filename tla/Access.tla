------------------------------- MODULE Access -------------------------------
(***************************************************************************)
(* How the controller on the firewalls gets its access to the seed and to  *)
(* the shoot, and how the manager keeps its own: the RBAC objects that the *)
(* deployment controller ensures (api/v2/helper/seed_access.go), the       *)
(* admission webhook that renders their tokens into the user data of the   *)
(* firewalls (api/v2/defaults), and the updater that copies the manager's  *)
(* token of the shoot from a secret to a file (shoot_access.go).           *)
(*                                                                         *)
(* The webhook and the reconciler ensure the same objects, one call at a   *)
(* time; tokens are issued by Kubernetes some time after their secret was  *)
(* created.  Failures covered: calls that fail, restarts, objects removed  *)
(* or changed by hand, a shoot that is unreachable for good, tokens that   *)
(* expire before they were copied, a token file that is truncated.         *)
(*                                                                         *)
(* A token dies with its secret and with the service account it was issued *)
(* for, also when an account of that name is back: Kubernetes knows the    *)
(* account by its UID, and removes the secret.  The user data is a part of *)
(* a firewall from its allocation on (firewall/reconcile.go:178) and other *)
(* user data rolls no set (isNewSetRequired), so a token that died stays   *)
(* lost to the firewalls that were given it.                               *)
(*                                                                         *)
(* Abstractions: a role or a binding that was changed counts as missing,   *)
(* both are put right by the same call, of an account or a secret only the *)
(* removal is covered; two callers that meet at one object are a failed    *)
(* call; one cluster for both ends and an object that cannot be updated    *)
(* are not covered.                                                        *)
(***************************************************************************)
EXTENDS Integers, Sequences

CONSTANTS
  None,             \* no user data
  Disturbances,     \* kinds of outside changes that may happen
  MaxDisturbances,  \* bound on their number
  MaxFaults         \* bound on failed calls and restarts

ASSUME AccessAssumption == MaxDisturbances \in Nat /\ MaxFaults \in Nat

VARIABLES
  objects,       \* the objects that are as they should be, for each cluster
  token,         \* the token in the secret of the service account; 0 is none
  orphaned,      \* the clusters whose token was issued for an account that is gone
  issued,        \* the number of tokens issued
  request,       \* the admission of a deployment in progress
  userdata,      \* the tokens rendered into the template of the firewalls
  ensure,        \* EnsureFirewallControllerRBAC of the reconcile in progress
  condition,     \* the published condition RBACProvisioned
  running,       \* the manager has started its controllers
  shootUp,       \* the API of the shoot is reachable
  source,        \* the manager's token of the shoot, as Gardener renews it
  oldest,        \* the oldest such token that is still accepted
  file,          \* the token in the token file; 0 is an empty file
  revoked,       \* history: a token died that was read for the user data, or had died before
  disturbances,  \* outside changes so far
  faults         \* failures so far

access == <<objects, token, orphaned, issued, request, userdata, ensure, condition, running, shootUp,
            source, oldest, file, revoked>>
rbac == <<objects, token, orphaned, issued, revoked>>
shootToken == <<shootUp, source, oldest, file>>

-----------------------------------------------------------------------------

Clusters == {"seed", "shoot"}
Kinds == {"account", "secret", "role", "binding"}

Userdata == [seed : Nat, shoot : Nat]

\* ensureSeedRBAC and ensureShootRBAC: the objects in the order of the calls.
SeedSteps == <<<<"seed", "account">>, <<"seed", "secret">>, <<"seed", "role">>, <<"seed", "binding">>>>
ShootSteps ==
  <<<<"shoot", "account">>, <<"shoot", "secret">>, <<"shoot", "role">>, <<"shoot", "binding">>>>

\* Faulty variant: token secrets are left to Kubernetes, as before version 1.24.
StepsWithoutSecrets ==
  [SeedSteps \o ShootSteps EXCEPT ![2] = <<"seed", "account">>, ![6] = <<"shoot", "account">>]

\* EnsureFirewallControllerRBAC: the seed first.
EnsureSteps == SeedSteps \o ShootSteps

LastStep == Len(EnsureSteps)

\* wanted: a deployment without user data is submitted until it is admitted.
NoRequest(wanted) == [pc |-> "idle", step |-> 1, shoot |-> 0, wanted |-> wanted]
NoEnsure == [pc |-> "idle", step |-> 1, condition |-> "False"]

\* The shoot is called with the token that is in the file.
Reachable(cluster) == cluster = "seed" \/ (shootUp /\ file >= oldest)

\* A call that may fail without a reason that shows here.
MayFail == faults < MaxFaults /\ faults' = faults + 1

Provisioned == \A c \in Clusters : objects[c] = Kinds

CreateOrUpdate(step) ==
  LET s == EnsureSteps[step] IN
  Reachable(s[1]) /\ objects' = [objects EXCEPT ![s[1]] = @ \cup {s[2]}]

-----------------------------------------------------------------------------
(* The reconcile of the deployment: ensureFirewallControllerRBAC *)

StartEnsure ==
  /\ running /\ userdata # None /\ ensure.pc = "idle"
  /\ ensure' = [NoEnsure EXCEPT !.pc = "ensure"]
  /\ UNCHANGED <<rbac, request, userdata, condition, running, shootToken, disturbances, faults>>

\* Faulty variants: the deferred function sees another error than the one it is
\* meant for, or leaves the condition open.
ShadowedError(failed) == "True"
OpenOnError(failed) == IF failed THEN "Unknown" ELSE "True"

\* The condition is set when the function returns, the error is not returned.
RBACProvisioned(failed) == IF failed THEN "False" ELSE "True"

EnsureStep ==
  /\ ensure.pc = "ensure"
  /\ CreateOrUpdate(ensure.step)
  /\ ensure' = IF ensure.step < LastStep THEN [ensure EXCEPT !.step = @ + 1]
               ELSE [ensure EXCEPT !.pc = "done", !.condition = RBACProvisioned(FALSE)]
  /\ UNCHANGED <<token, orphaned, issued, revoked, request, userdata, condition, running,
                 shootToken, disturbances, faults>>

EnsureFails ==
  /\ ensure.pc = "ensure"
  /\ \/ ~Reachable(EnsureSteps[ensure.step][1]) /\ UNCHANGED faults
     \/ Reachable(EnsureSteps[ensure.step][1]) /\ MayFail
  /\ ensure' = [ensure EXCEPT !.pc = "done", !.condition = RBACProvisioned(TRUE)]
  /\ UNCHANGED <<rbac, request, userdata, condition, running, shootToken, disturbances>>

-----------------------------------------------------------------------------
(* The admission of a deployment without user data *)

StartRequest ==
  /\ running /\ request.wanted /\ request.pc = "idle"
  /\ request' = [request EXCEPT !.pc = "ensure"]
  /\ UNCHANGED <<rbac, userdata, ensure, condition, running, shootToken, disturbances, faults>>

RequestStep ==
  /\ request.pc = "ensure"
  /\ CreateOrUpdate(request.step)
  /\ request' = IF request.step < LastStep THEN [request EXCEPT !.step = @ + 1]
                ELSE [request EXCEPT !.pc = "shoot"]
  /\ UNCHANGED <<token, orphaned, issued, revoked, userdata, ensure, condition, running,
                 shootToken, disturbances, faults>>

\* GetAccessKubeconfig finds a token.
FoundToken(cluster) ==
  Reachable(cluster) /\ "secret" \in objects[cluster] /\ token[cluster] # 0

ReadShootToken ==
  /\ request.pc = "shoot" /\ FoundToken("shoot")
  /\ request' = [request EXCEPT !.pc = "seed", !.shoot = token["shoot"]]
  /\ revoked' = (revoked \/ "shoot" \in orphaned)
  /\ UNCHANGED <<objects, token, orphaned, issued, userdata, ensure, condition, running,
                 shootToken, disturbances, faults>>

\* The last read; the deployment is admitted with its user data.
Admit ==
  /\ request.pc = "seed" /\ FoundToken("seed")
  /\ userdata' = [seed |-> token["seed"], shoot |-> request.shoot]
  /\ request' = NoRequest(FALSE)
  /\ revoked' = (revoked \/ "seed" \in orphaned)
  /\ UNCHANGED <<objects, token, orphaned, issued, ensure, condition, running, shootToken,
                 disturbances, faults>>

\* Any error of the webhook rejects the deployment; it is submitted again.
Reject ==
  /\ \/ /\ request.pc = "ensure" /\ ~Reachable(EnsureSteps[request.step][1])
        /\ UNCHANGED faults
     \/ /\ request.pc \in Clusters /\ ~FoundToken(request.pc)
        /\ UNCHANGED faults
     \/ request.pc # "idle" /\ MayFail
  /\ request' = NoRequest(TRUE)
  /\ UNCHANGED <<rbac, userdata, ensure, condition, running, shootToken, disturbances>>

Webhook == StartRequest \/ RequestStep \/ ReadShootToken \/ Admit \/ Reject

-----------------------------------------------------------------------------
(* The token controller of Kubernetes *)

IssueToken(c) ==
  /\ {"account", "secret"} \subseteq objects[c] /\ token[c] = 0
  /\ token' = [token EXCEPT ![c] = issued + 1] /\ issued' = issued + 1
  /\ UNCHANGED <<objects, orphaned, revoked, request, userdata, ensure, condition, running,
                 shootToken, disturbances, faults>>

RemoveSecret(c) ==
  /\ "secret" \in objects[c]
  /\ objects' = [objects EXCEPT ![c] = @ \ {"secret"}] /\ token' = [token EXCEPT ![c] = 0]
  /\ orphaned' = orphaned \ {c}

\* A token secret goes with the service account its token was issued for.
CollectSecret(c) ==
  /\ c \in orphaned \/ "account" \notin objects[c]
  /\ RemoveSecret(c)
  /\ UNCHANGED <<issued, revoked, request, userdata, ensure, condition, running, shootToken,
                 disturbances, faults>>

TokenController == \E c \in Clusters : IssueToken(c) \/ CollectSecret(c)

-----------------------------------------------------------------------------
(* The manager and its token file *)

\* NewShootAccessTokenUpdater truncates the file; without the first update the
\* manager does not start.
Start ==
  /\ ~running /\ running' = TRUE
  /\ file' = source
  /\ UNCHANGED <<rbac, request, userdata, ensure, condition, shootUp, source, oldest,
                 disturbances, faults>>

\* UpdateContinuously, every five minutes.
UpdateTokenFile ==
  /\ running /\ file # source
  /\ file' = source
  /\ UNCHANGED <<rbac, request, userdata, ensure, condition, running, shootUp, source, oldest,
                 disturbances, faults>>

\* A write that fails may have truncated the file already.
UpdateFails ==
  /\ running /\ MayFail
  /\ file' = 0
  /\ UNCHANGED <<rbac, request, userdata, ensure, condition, running, shootUp, source, oldest,
                 disturbances>>

TokenUpdater == Start \/ UpdateTokenFile \/ UpdateFails

\* Tokens that are no longer accepted.
ExpireToken ==
  /\ oldest < source /\ oldest' = source
  /\ UNCHANGED <<rbac, request, userdata, ensure, condition, running, shootUp, source, file,
                 disturbances, faults>>

-----------------------------------------------------------------------------
(* Users and the environment *)

Disturb(kind) ==
  /\ kind \in Disturbances /\ disturbances < MaxDisturbances
  /\ disturbances' = disturbances + 1
  /\ UNCHANGED faults

\* The token is in the user data, or was read for it.
InUse(c) ==
  \/ userdata # None /\ userdata[c] = token[c]
  \/ request.pc = "seed" /\ c = "shoot"

\* The secret, the account, or an object that no token depends on.
RemoveObject ==
  /\ Disturb("remove")
  /\ \E c \in Clusters :
       \/ RemoveSecret(c) /\ revoked' = (revoked \/ InUse(c))
       \/ /\ "account" \in objects[c]
          /\ objects' = [objects EXCEPT ![c] = @ \ {"account"}]
          /\ orphaned' = IF token[c] # 0 THEN orphaned \cup {c} ELSE orphaned
          /\ revoked' = (revoked \/ InUse(c))
          /\ UNCHANGED token
       \/ \E k \in {"role", "binding"} \cap objects[c] :
            /\ objects' = [objects EXCEPT ![c] = @ \ {k}]
            /\ UNCHANGED <<token, orphaned, revoked>>
  /\ UNCHANGED <<issued, request, userdata, ensure, condition, running, shootToken>>

\* Renewed by Gardener before it expires.
RenewToken ==
  /\ Disturb("renew")
  /\ source' = source + 1
  /\ UNCHANGED <<rbac, request, userdata, ensure, condition, running, shootUp, oldest, file>>

LoseShoot ==
  /\ Disturb("lose")
  /\ shootUp /\ shootUp' = FALSE
  /\ UNCHANGED <<rbac, request, userdata, ensure, condition, running, source, oldest, file>>

\* A user submits the deployment with its user data removed.
ClearUserdata ==
  /\ Disturb("clear")
  /\ userdata # None /\ ~request.wanted /\ request' = NoRequest(TRUE)
  /\ UNCHANGED <<rbac, userdata, ensure, condition, running, shootToken>>

AccessOutside == RemoveObject \/ RenewToken \/ LoseShoot \/ ClearUserdata

-----------------------------------------------------------------------------

AccessInit ==
  /\ objects = [c \in Clusters |-> {}] /\ token = [c \in Clusters |-> 0]
  /\ orphaned = {} /\ issued = 0
  /\ request = NoRequest(TRUE) /\ userdata = None /\ ensure = NoEnsure /\ condition = "Unknown"
  /\ running = FALSE /\ shootUp = TRUE
  /\ source = 1 /\ oldest = 1 /\ file = 0
  /\ revoked = FALSE /\ disturbances = 0 /\ faults = 0

AccessTypeOK ==
  /\ objects \in [Clusters -> SUBSET Kinds] /\ token \in [Clusters -> Nat]
  /\ orphaned \subseteq Clusters /\ issued \in Nat
  /\ request \in [pc : {"idle", "ensure"} \cup Clusters, step : 1..LastStep, shoot : Nat,
                  wanted : BOOLEAN]
  /\ userdata \in Userdata \cup {None}
  /\ ensure \in [pc : {"idle", "ensure", "done"}, step : 1..LastStep,
                 condition : {"True", "False"}]
  /\ condition \in {"Unknown", "True", "False"}
  /\ running \in BOOLEAN /\ shootUp \in BOOLEAN /\ revoked \in BOOLEAN
  /\ source \in Nat /\ oldest \in 1..source /\ file \in 0..source
  /\ disturbances \in 0..MaxDisturbances /\ faults \in 0..MaxFaults
=============================================================================
