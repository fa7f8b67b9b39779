--------------------------- MODULE Infrastructure ---------------------------
(***************************************************************************)
(* The status of Gardener's Infrastructure (infrastructure_status.go): the *)
(* deployment controller collects the external addresses of its firewalls  *)
(* and those of the egress rules, publishes them as egress CIDRs, and then *)
(* has the ACL extension reconcile, which lets them through to the API.    *)
(*                                                                         *)
(* Failures covered: a stale list, each of the calls failing.  The sorted  *)
(* lists of CIDRs are sets; an address that cannot be parsed is left out.  *)
(* A namespace that is not one of a shoot, a missing Infrastructure and a  *)
(* missing extension end the function early and are not covered.           *)
(***************************************************************************)
CONSTANTS
  Addresses  \* external addresses, of firewalls and of egress rules

VARIABLES
  reported,  \* the addresses in the status of the owned firewalls
  listed,    \* the same as last listed
  rules,     \* the addresses of the egress rules of the Infrastructure
  cidrs,     \* the egress CIDRs in its status
  acl,       \* the extension: what it applied, and the reconcile annotation
  job,       \* updateInfrastructureStatus of the reconcile in progress
  missed     \* history: the extension was not annotated after a change

infrastructure == <<reported, listed, rules, cidrs, acl, job, missed>>
outside == <<reported, listed, rules>>

NoJob == [pc |-> "idle", want |-> {}]

ListAddresses ==
  /\ job.pc = "idle"
  /\ job' = [pc |-> "get", want |-> listed]
  /\ UNCHANGED <<outside, cidrs, acl, missed>>

UpToDate(want) == want = cidrs

GetInfrastructure ==
  LET want == job.want \cup rules IN
  /\ job.pc = "get"
  /\ job' = IF UpToDate(want) THEN [job EXCEPT !.pc = "done"]
            ELSE [pc |-> "patch", want |-> want]
  /\ UNCHANGED <<outside, cidrs, acl, missed>>

\* A merge patch: whatever the status is by now.
PatchStatus ==
  /\ job.pc = "patch"
  /\ cidrs' = job.want
  /\ job' = [job EXCEPT !.pc = "annotate"]
  /\ UNCHANGED <<outside, acl, missed>>

\* Faulty variant: an extension that has been annotated once is left alone.
AnnotateOnce ==
  /\ job.pc = "annotate"
  /\ acl' = IF acl.applied = {} THEN [acl EXCEPT !.marked = TRUE] ELSE acl
  /\ job' = [job EXCEPT !.pc = "done"]
  /\ UNCHANGED <<outside, cidrs, missed>>

AnnotateAcl ==
  /\ job.pc = "annotate"
  /\ acl' = [acl EXCEPT !.marked = TRUE]
  /\ job' = [job EXCEPT !.pc = "done"]
  /\ UNCHANGED <<outside, cidrs, missed>>

\* A call fails.  The next reconcile finds the CIDRs up to date once they were
\* patched, and does not come to the annotation again.
JobFails ==
  /\ job.pc \in {"get", "patch", "annotate"}
  /\ job' = [job EXCEPT !.pc = "done"]
  /\ missed' = (missed \/ job.pc = "annotate")
  /\ UNCHANGED <<outside, cidrs, acl>>

UpdateInfrastructureStatus == GetInfrastructure \/ PatchStatus \/ AnnotateAcl

-----------------------------------------------------------------------------
(* The extension, the cache and the firewalls *)

\* The extension sees the CIDRs when it is told to reconcile.
ReconcileAcl ==
  /\ acl.marked
  /\ acl' = [applied |-> cidrs, marked |-> FALSE]
  /\ UNCHANGED <<outside, cidrs, job, missed>>

RefreshAddresses ==
  /\ listed # reported /\ listed' = reported
  /\ UNCHANGED <<reported, rules, cidrs, acl, job, missed>>

\* A firewall comes with an address or goes with it.
ChangeReported ==
  /\ \E a \in Addresses :
       reported' = IF a \in reported THEN reported \ {a} ELSE reported \cup {a}
  /\ UNCHANGED <<listed, rules, cidrs, acl, job, missed>>

ChangeRules ==
  /\ \E a \in Addresses : rules' = IF a \in rules THEN rules \ {a} ELSE rules \cup {a}
  /\ UNCHANGED <<reported, listed, cidrs, acl, job, missed>>

InfrastructureInit ==
  /\ reported = {} /\ listed = {} /\ cidrs = {} /\ missed = FALSE
  /\ rules \in SUBSET Addresses
  /\ acl = [applied |-> {}, marked |-> FALSE] /\ job = NoJob

InfrastructureTypeOK ==
  /\ reported \subseteq Addresses /\ listed \subseteq Addresses
  /\ rules \subseteq Addresses /\ cidrs \subseteq Addresses /\ missed \in BOOLEAN
  /\ acl \in [applied : SUBSET Addresses, marked : BOOLEAN]
  /\ job \in [pc : {"idle", "get", "patch", "annotate", "done"}, want : SUBSET Addresses]
=============================================================================
