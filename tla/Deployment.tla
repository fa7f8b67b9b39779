----------------------------- MODULE Deployment -----------------------------
(***************************************************************************)
(* The firewall deployment controller (src/controllers/deployment): one    *)
(* FirewallDeployment, the FirewallSets it owns, and the reconciler that   *)
(* creates, synchronises and deletes those sets.                           *)
(*                                                                         *)
(* A reconcile is split at its API calls: the reconciler works from a      *)
(* frozen list of the sets while the sets, the user and the cache move on. *)
(*                                                                         *)
(* Failures covered: a stale list cache, a failing API call, a create call *)
(* whose answer is lost, a restart between any two calls, sets that lose   *)
(* readiness.  Not covered: two managers at once (leader election is a     *)
(* flag, enable-leader-election, assumed to be set), sets deleted or       *)
(* edited by hand, a set with an unparsable revision.                      *)
(*                                                                         *)
(* Abstractions: a set's status is its number of ready replicas, reported  *)
(* by the environment (the set controller); the cache jumps to the present *)
(* when it catches up; a resource-version conflict is "the object differs  *)
(* from the copy that was read"; the deployment object itself is read      *)
(* fresh; events and requeues are replaced by a reconciler that may always *)
(* start (the 10 minute resync guarantees it).                             *)
(***************************************************************************)
EXTENDS Integers, FiniteSets

CONSTANTS
  Sets,             \* identities of FirewallSet objects
  None,             \* no set, no template
  Images,           \* templates that differ in size, image or networks
  Rules,            \* the rest of a template, synchronised in place
  ReplicaCounts,    \* replica counts a user may ask for
  Strategies,       \* update strategies a user may ask for
  CachedReads,      \* TRUE: lists come from the informer cache (main.go)
  Disturbances,     \* kinds of outside changes that may happen
  MaxDisturbances,  \* bound on their number
  Faults,           \* kinds of failures that may happen
  MaxFaults,        \* bound on their number
  MaxEvents         \* bound on outside changes and failures together

RollingUpdate == "RollingUpdate"
Recreate == "Recreate"

FirewallShortestDistance == 0
FirewallRollingUpdateSetDistance == 3
FirewallMaxReplicas == 4

ASSUME ConstantsAssumption ==
  /\ None \notin Sets \cup Images \cup Rules
  /\ Images # {} /\ Rules # {}
  /\ ReplicaCounts \subseteq 0..FirewallMaxReplicas /\ ReplicaCounts # {}
  /\ Strategies \subseteq {RollingUpdate, Recreate} /\ Strategies # {}
  /\ CachedReads \in BOOLEAN
  /\ MaxDisturbances \in Nat /\ MaxFaults \in Nat /\ MaxEvents \in Nat

VARIABLES
  dep,           \* the deployment: life cycle, finalizer and spec
  status,        \* its published status
  sets,          \* the FirewallSets in the API
  view,          \* the sets as last listed by the reconciler
  work,          \* the reconcile in progress
  backoff,       \* lastSetCreation is younger than the safety backoff
  disturbances,  \* outside changes so far
  faults,        \* failures so far
  disrupted      \* history: a change came during a rollout, or took service away

vars == <<dep, status, sets, view, work, backoff, disturbances, faults, disrupted>>
env == <<disturbances, faults, disrupted>>

-----------------------------------------------------------------------------
(* Objects *)

DeploymentSpec == [image : Images, rules : Rules,
          replicas : 0..FirewallMaxReplicas,
          strategy : {RollingUpdate, Recreate}]

DeploymentObject ==
  [phase : {"present", "terminating", "gone"}, finalizer : BOOLEAN, spec : DeploymentSpec]

StatusObject ==
  [target : 0..FirewallMaxReplicas, ready : 0..FirewallMaxReplicas, rev : Nat]

SetObject ==
  [phase : {"absent", "live", "terminating"}, rev : Nat, image : Images \cup {None},
   rules : Rules \cup {None}, replicas : 0..FirewallMaxReplicas,
   dist : {FirewallShortestDistance, FirewallRollingUpdateSetDistance},
   roll : BOOLEAN, ready : 0..FirewallMaxReplicas]

NoSpec == [image |-> None, rules |-> None, replicas |-> 0, strategy |-> RollingUpdate]

\* The copy of the spec a reconcile works for, if there is a reconcile.
Target == DeploymentSpec \cup {NoSpec}

\* A reconcile: its next API call, the flow it runs in, the copy of the
\* deployment it works for, the newest set it listed, the sets it still has
\* to delete, and whether it ends by waiting for deletions.
Work ==
  [pc : {"idle", "create", "delete", "sync", "swap", "status"},
   flow : {"reconcile", "finalize"}, target : Target,
   latest : Sets \cup {None}, doomed : SUBSET Sets, waiting : BOOLEAN]

Absent ==
  [phase |-> "absent", rev |-> 0, image |-> None, rules |-> None,
   replicas |-> 0, dist |-> FirewallShortestDistance, roll |-> FALSE, ready |-> 0]

Idle == [pc |-> "idle", flow |-> "reconcile", target |-> NoSpec,
         latest |-> None, doomed |-> {}, waiting |-> FALSE]

Existing(v) == {s \in Sets : v[s].phase # "absent"}
Live(v) == {s \in Sets : v[s].phase = "live"}

\* MaxRevisionOf and MinRevisionOf return the first such set of a list whose
\* order is not defined, so every set of these is a possible result.
MaxRevisionOf(v) ==
  {s \in Existing(v) : \A t \in Existing(v) : v[t].rev <= v[s].rev}
MinRevisionOf(v) ==
  {s \in Existing(v) : \A t \in Existing(v) : v[s].rev <= v[t].rev}

\* Faulty variants, for the sensitivity of the properties: nothing is cleaned
\* up, or all but the oldest.
NoCleanup(v) == {{}}
CleanupKeepsOldest(v) == {Existing(v) \ {o} : o \in MinRevisionOf(v)}

\* cleanupIntermediateSets keeps one oldest and one newest set; they are the
\* same one when all revisions are equal.
IntermediateSets(v) ==
  {Existing(v) \ {p[1], p[2]} :
     p \in {q \in MinRevisionOf(v) \X MaxRevisionOf(v) :
              MinRevisionOf(v) = MaxRevisionOf(v) => q[1] = q[2]}}

isNewSetRequired(target, set) == set.roll \/ target.image # set.image

\* Faulty variants: readiness is not awaited, or never complete.
ReadyAtOnce(set) == TRUE
ReadyBeyond(set) == set.ready > set.replicas

AllReady(set) == set.ready = set.replicas

-----------------------------------------------------------------------------
(* The reconciler *)

Return(w) == IF w.flow = "finalize" \/ w.latest = None
             THEN Idle ELSE [w EXCEPT !.pc = "status", !.doomed = {}]

\* Where the reconcile goes once nothing is left to delete; the finalize flow
\* has no newest set and goes nowhere.
Proceed(w) ==
  CASE w.doomed # {} -> [w EXCEPT !.pc = "delete"]
    [] w.doomed = {} /\ (w.waiting \/ w.latest = None) -> Return(w)
    [] OTHER -> [w EXCEPT !.pc = IF w.target.strategy = Recreate THEN "sync" ELSE "swap"]

\* Faulty variants: no requeue after a deletion, an inverted check.
DeleteWithoutWaiting(w, v, ss) ==
  Proceed([w EXCEPT !.doomed = ss \cap Live(v), !.waiting = FALSE])
DeleteTerminating(w, v, ss) ==
  Proceed([w EXCEPT !.doomed = ss \ Live(v), !.waiting = (ss # {})])

\* deleteFirewallSets skips sets that are already terminating and asks for a
\* requeue whenever it was given any set at all.
deleteFirewallSets(w, v, ss) ==
  Proceed([w EXCEPT !.doomed = ss \cap Live(v), !.waiting = (ss # {})])

\* A list is served by the cache, or shows the sets as they are.
ListSets == (CachedReads \/ view = sets) /\ UNCHANGED view

Begin ==
  /\ work.pc = "idle"
  /\ dep.phase = "present"
  /\ ListSets
  /\ dep' = [dep EXCEPT !.finalizer = TRUE]
  /\ LET start == [Idle EXCEPT !.target = dep.spec]
     IN \/ /\ Existing(view) = {}
           /\ work' = [start EXCEPT !.pc = "create"]
        \/ \E l \in MaxRevisionOf(view) :
             LET w == [start EXCEPT !.latest = l]
             IN work' = CASE isNewSetRequired(dep.spec, view[l]) -> [w EXCEPT !.pc = "create"]
                          [] ~isNewSetRequired(dep.spec, view[l]) /\ dep.spec.strategy = RollingUpdate ->
                               [w EXCEPT !.pc = "sync"]
                          [] OTHER -> deleteFirewallSets(w, view, Existing(view) \ {l})
  /\ UNCHANGED <<status, sets, backoff, env>>

\* What holds the finalizer back: every set of the list.  Faulty variant:
\* terminating sets are taken for deleted.
RemainingLive(v) == Live(v)
Remaining(v) == Existing(v)

Delete ==
  /\ work.pc = "idle"
  /\ dep.phase = "terminating"
  /\ ListSets
  /\ \/ /\ Remaining(view) # {}
        /\ work' = deleteFirewallSets([Idle EXCEPT !.flow = "finalize"], view, Existing(view))
        /\ UNCHANGED dep
     \/ /\ Remaining(view) = {}
        /\ dep' = [dep EXCEPT !.phase = "gone", !.finalizer = FALSE]
        /\ UNCHANGED work
  /\ UNCHANGED <<status, sets, backoff, env>>

\* Faulty variants: the revision is incremented by too much, or decremented.
SkippedRevision(set) == set.rev + 2
PreviousRevision(set) == set.rev - 1

NextRevision(set) == set.rev + 1

\* What the first set, a rolling update and a recreate start a set with.
setOverrides(target, latest) ==
  [distance |-> IF latest # None /\ target.strategy = RollingUpdate
                THEN FirewallRollingUpdateSetDistance ELSE FirewallShortestDistance,
   replicas |-> IF latest # None /\ target.strategy = Recreate THEN 0 ELSE target.replicas]

NewSet ==
  LET ows == setOverrides(work.target, work.latest)
  IN [phase |-> "live",
      rev |-> IF work.latest = None THEN 0 ELSE NextRevision(view[work.latest]),
      image |-> work.target.image, rules |-> work.target.rules,
      replicas |-> ows.replicas, dist |-> ows.distance, roll |-> FALSE, ready |-> 0]

\* Names are random, an identity is used again only once nothing refers to it.
Fresh == Sets \ (Existing(sets) \cup Existing(view))

createFirewallSet(s) ==
  /\ work.pc = "create" /\ ~backoff
  /\ s \in Fresh
  /\ sets' = [sets EXCEPT ![s] = NewSet]
  /\ backoff' = TRUE
  /\ UNCHANGED <<dep, status, view, env>>
  /\ \/ work.latest = None /\ work' = Idle
     \/ /\ work.latest # None /\ work.target.strategy = Recreate
        /\ work' = deleteFirewallSets(work, view, Existing(view))
     \/ /\ work.latest # None /\ work.target.strategy = RollingUpdate
        /\ \E ss \in IntermediateSets([view EXCEPT ![s] = NewSet]) :
             work' = deleteFirewallSets(work, view, ss)

CreationBackedOff ==
  /\ work.pc = "create" /\ backoff
  /\ work' = Return(work)
  /\ UNCHANGED <<dep, status, sets, view, backoff, env>>

DeleteSet(s) ==
  /\ work.pc = "delete" /\ s \in work.doomed
  /\ \/ /\ sets[s].phase # "absent"
        /\ sets' = [sets EXCEPT ![s].phase = "terminating"]
        /\ UNCHANGED view
        /\ work' = Proceed([work EXCEPT !.doomed = @ \ {s}])
     \/ /\ sets[s].phase = "absent"    \* not found: the loop is aborted
        /\ work' = Return(work)
        /\ UNCHANGED <<sets, view>>
  /\ UNCHANGED <<dep, status, backoff, env>>

\* The set is read again before it is written; from a cache it may still be the
\* old copy, and the write, retried in vain, is a conflict.
syncFirewallSet ==
  LET l == work.latest
  IN /\ work.pc = "sync"
     /\ UNCHANGED <<dep, status, view, backoff, env>>
     /\ \/ /\ sets[l].phase = "absent" \/ (CachedReads /\ sets[l] # view[l])
           /\ work' = Return(work)
           /\ UNCHANGED sets
        \/ /\ sets[l].phase # "absent"
           /\ sets' = [sets EXCEPT ![l] = [@ EXCEPT !.replicas = work.target.replicas,
                                                     !.image = work.target.image,
                                                     !.rules = work.target.rules]]
           /\ \/ /\ work.target.strategy = Recreate
                 /\ work' = [work EXCEPT !.pc = "swap"]
              \/ /\ work.target.strategy = RollingUpdate /\ AllReady(view[l])
                 /\ work' = deleteFirewallSets(work, view, Existing(view) \ {l})
              \/ /\ work.target.strategy = RollingUpdate /\ ~AllReady(view[l])
                 /\ \E ss \in IntermediateSets(view) : work' = deleteFirewallSets(work, view, ss)

\* The write of the copy that was listed, without another look: it fails with a conflict when
\* the set changed since (an effective sync counts as a change).
SwapDistance ==
  LET l == work.latest
      due == AllReady(view[l]) /\ view[l].dist # FirewallShortestDistance
  IN /\ work.pc = "swap"
     /\ \/ /\ due /\ sets[l] = view[l]
           /\ sets' = [sets EXCEPT ![l].dist = FirewallShortestDistance]
        \/ /\ ~due \/ sets[l] # view[l]
           /\ UNCHANGED sets
     /\ work' = [work EXCEPT !.pc = "status"]
     /\ UNCHANGED <<dep, status, view, backoff, env>>

\* The set whose numbers the deployment publishes.  Faulty variant: any set.
ObservedAny(v) == Existing(v)
Observed(v) == MaxRevisionOf(v)

\* setStatus and the deferred status update.  The code computes the status
\* before it swaps the distance and writes it afterwards; the swap does not
\* touch what is computed, so both are done here.
PublishStatus ==
  /\ work.pc = "status"
  /\ view' \in (IF CachedReads THEN {view, sets} ELSE {sets})
  /\ \/ /\ Existing(view') = {}
        /\ status' = [status EXCEPT !.target = work.target.replicas]
     \/ \E l \in Observed(view') :
          status' = [target |-> work.target.replicas,
                     ready |-> view'[l].ready, rev |-> view'[l].rev]
  /\ work' = Idle
  /\ UNCHANGED <<dep, sets, backoff, env>>

Controller ==
  \/ Begin
  \/ Delete
  \/ \E s \in Sets : createFirewallSet(s) \/ DeleteSet(s)
  \/ CreationBackedOff
  \/ syncFirewallSet
  \/ SwapDistance
  \/ PublishStatus

-----------------------------------------------------------------------------
(* Time and the informer cache *)

\* The view moves between two reconciles: the cache gets the watch events, or,
\* without a cache, this is the list call of the reconcile to come.
Refresh ==
  /\ work.pc = "idle"
  /\ view # sets
  /\ view' = sets
  /\ UNCHANGED <<dep, status, sets, work, backoff, env>>

\* Faulty variant: a backoff shorter than the lag of the cache.
OverTooSoon == TRUE

\* The cache is assumed to show a created set before the backoff is over.
BackoffOver == Existing(sets) \subseteq Existing(view)

BackoffExpires ==
  /\ backoff /\ BackoffOver
  /\ backoff' = FALSE
  /\ UNCHANGED <<dep, status, sets, view, work, env>>

-----------------------------------------------------------------------------
(* The set controller and the garbage collector, as this controller sees them *)

\* Only sets that are not terminating get a status update.
SetReports(s) ==
  /\ sets[s].phase = "live"
  /\ \E n \in 0..FirewallMaxReplicas :
       /\ \/ sets[s].ready < n /\ n <= sets[s].replicas
          \/ sets[s].replicas <= n /\ n < sets[s].ready
       /\ sets' = [sets EXCEPT ![s].ready = n]
  /\ UNCHANGED <<dep, status, view, work, backoff, env>>

SetFinalized(s) ==
  /\ sets[s].phase = "terminating"
  /\ sets' = [sets EXCEPT ![s] = Absent]
  /\ UNCHANGED <<dep, status, view, work, backoff, env>>

GarbageCollect(s) ==
  /\ dep.phase = "gone" /\ sets[s].phase = "live"
  /\ sets' = [sets EXCEPT ![s].phase = "terminating"]
  /\ UNCHANGED <<dep, status, view, work, backoff, env>>

-----------------------------------------------------------------------------
(* Users, and sets that lose readiness *)

\* The rollout is over: one set, as the spec wants it, ready and preferred.
Converged ==
  \E s \in Sets :
       /\ Existing(sets) = {s} /\ sets[s].phase = "live"
       /\ ~isNewSetRequired(dep.spec, sets[s])
       /\ sets[s].rules = dep.spec.rules /\ sets[s].replicas = dep.spec.replicas
       /\ AllReady(sets[s]) /\ sets[s].dist = FirewallShortestDistance
       /\ status = [target |-> dep.spec.replicas, ready |-> sets[s].ready, rev |-> sets[s].rev]

Disturb(kind) ==
  /\ kind \in Disturbances /\ disturbances < MaxDisturbances
  /\ disturbances + faults < MaxEvents
  /\ disturbances' = disturbances + 1
  /\ disrupted' = (disrupted \/ ~Converged \/ kind \in {"degrade", "delete"})
  /\ UNCHANGED <<status, view, work, backoff, faults>>

UpdateSpec(new) ==
  /\ dep.phase = "present" /\ new # dep.spec
  /\ dep' = [dep EXCEPT !.spec = new]
  /\ UNCHANGED sets

ChangeImage == Disturb("image") /\ \E i \in Images : UpdateSpec([dep.spec EXCEPT !.image = i])
ChangeRules == Disturb("rules") /\ \E r \in Rules : UpdateSpec([dep.spec EXCEPT !.rules = r])
Scale == Disturb("scale") /\ \E n \in ReplicaCounts : UpdateSpec([dep.spec EXCEPT !.replicas = n])

\* The validating webhook admits a strategy change by the published status.
ChangeStrategy ==
  /\ Disturb("strategy")
  /\ status.target = status.ready
  /\ \E st \in Strategies : UpdateSpec([dep.spec EXCEPT !.strategy = st])

\* RollSetAnnotation, put on a set by the monitor controller or by hand.
RollSet(s) ==
  /\ Disturb("roll")
  /\ sets[s].phase = "live" /\ ~sets[s].roll
  /\ sets' = [sets EXCEPT ![s].roll = TRUE]
  /\ UNCHANGED dep

DeleteDeployment ==
  /\ Disturb("delete")
  /\ dep.phase = "present"
  /\ dep' = [dep EXCEPT !.phase = IF dep.finalizer THEN "terminating" ELSE "gone"]
  /\ UNCHANGED sets

Degrade(s) ==
  /\ Disturb("degrade")
  /\ sets[s].phase = "live"
  /\ \E n \in 0..FirewallMaxReplicas :
       n < sets[s].ready /\ sets' = [sets EXCEPT ![s].ready = n]
  /\ UNCHANGED dep

Outside ==
  \/ ChangeImage \/ ChangeRules \/ Scale \/ ChangeStrategy \/ DeleteDeployment
  \/ \E s \in Sets : RollSet(s) \/ Degrade(s)

-----------------------------------------------------------------------------
(* Failures *)

Fail(kind) ==
  /\ kind \in Faults /\ faults < MaxFaults
  /\ disturbances + faults < MaxEvents
  /\ faults' = faults + 1
  /\ UNCHANGED <<dep, status, disturbances, disrupted>>

\* Any API call of a reconcile fails without effect.
ApiError ==
  /\ Fail("apiError")
  /\ work.pc # "idle"
  /\ work' = IF work.pc = "status" THEN Idle ELSE Return(work)
  /\ UNCHANGED <<sets, view, backoff>>

\* The set is created, the call is answered by an error: no backoff is noted.
CreateAnswerLost(s) ==
  /\ Fail("lostAnswer")
  /\ work.pc = "create" /\ ~backoff
  /\ s \in Fresh
  /\ sets' = [sets EXCEPT ![s] = NewSet]
  /\ work' = Return(work)
  /\ UNCHANGED <<view, backoff>>

\* lastSetCreation is lost, the cache is filled again before anything runs.
Restart ==
  /\ Fail("restart")
  /\ work' = Idle /\ backoff' = FALSE /\ view' = sets
  /\ UNCHANGED sets

-----------------------------------------------------------------------------

Init ==
  /\ \E i \in Images, r \in Rules, n \in ReplicaCounts, st \in Strategies :
       dep = [phase |-> "present", finalizer |-> FALSE,
              spec |-> [image |-> i, rules |-> r, replicas |-> n, strategy |-> st]]
  /\ status = [target |-> 0, ready |-> 0, rev |-> 0]
  /\ sets = [s \in Sets |-> Absent] /\ view = sets
  /\ work = Idle /\ backoff = FALSE
  /\ disturbances = 0 /\ faults = 0 /\ disrupted = FALSE

Next ==
  \/ Controller
  \/ Refresh \/ BackoffExpires
  \/ \E s \in Sets : SetReports(s) \/ SetFinalized(s) \/ GarbageCollect(s)
  \/ Outside
  \/ ApiError \/ Restart \/ \E s \in Sets : CreateAnswerLost(s)

Spec == Init /\ [][Next]_vars

\* The work queue always comes back (requeues and the periodic resync), the
\* cache is filled independently of the reconciler, sets become ready and
\* terminating sets go away.
Fairness ==
  /\ WF_vars(Controller) /\ SF_vars(Refresh) /\ WF_vars(BackoffExpires)
  /\ \A s \in Sets : WF_vars(SetReports(s)) /\ WF_vars(SetFinalized(s))
                     /\ WF_vars(GarbageCollect(s))

FairSpec == Spec /\ Fairness

-----------------------------------------------------------------------------
(* Properties *)

\* Every variable has its type and every bound is kept.
TypeOK ==
  /\ dep \in DeploymentObject /\ status \in StatusObject
  /\ sets \in [Sets -> SetObject] /\ view \in [Sets -> SetObject]
  /\ work \in Work /\ backoff \in BOOLEAN
  /\ disturbances \in 0..MaxDisturbances /\ faults \in 0..MaxFaults
  /\ disrupted \in BOOLEAN

\* Firewall staging and recreation: two sets that run firewalls never announce
\* the shortest distance at once, whatever is created, swapped or still
\* terminating (types_firewallset.go, FirewallDistance).
OnePreferredSet ==
  \A s, t \in Existing(sets) :
    /\ sets[s].dist = FirewallShortestDistance /\ sets[s].replicas > 0
    /\ sets[t].dist = FirewallShortestDistance /\ sets[t].replicas > 0
    => s = t

\* Quick successive spec changes never pile up firewall sets: between two
\* reconciles there are the oldest and the latest, and one more for each
\* reconcile that was cut short (cleanupIntermediateSets).
SetsBounded == work.pc = "idle" => Cardinality(Live(sets)) <= 2 + faults

\* The safety backoff hides the stale cache: no roll is carried out twice.
RevisionsUnique ==
  \A s, t \in Existing(sets) : sets[s].rev = sets[t].rev => s = t

\* While the deployment exists the newest set is never deleted, however stale
\* the list is that the deletion was decided on.
NewestSurvives ==
  [][\A s \in MaxRevisionOf(sets) :
       dep.phase = "present" /\ sets[s].phase = "live" => sets'[s].phase = "live"]_vars

\* The observed revision is a counter of rolls: it never goes back.
ObservedRevisionGrows == [][status.rev <= status'.rev]_vars

\* Why the revisions stay unique: outside the backoff the list shows every set,
\* listed revisions are the real ones, and the next revision is counted from
\* the newest set of the list.
ViewIsCurrent ==
  /\ ~backoff => Existing(sets) \subseteq Existing(view)
  /\ \A s \in Existing(sets) \cap Existing(view) : sets[s].rev = view[s].rev

LatestIsNewest ==
  /\ work.latest # None => work.latest \in MaxRevisionOf(view)
  /\ work.latest = None => work.pc \in {"idle", "create", "delete"}
  /\ work.pc = "create" /\ work.latest = None => Existing(view) = {}
  /\ work.pc = "idle" => work.latest = None /\ work.doomed = {}
  /\ work.flow = "finalize" => work.latest = None

\* A deployment that is deleted in the middle of a reconcile is managed to its end.
Managed == dep.phase = "present" \/ (work.pc # "idle" /\ work.flow = "reconcile")

\* Why the newest set survives: some live set is at least as new as all others
\* and newer than everything the reconcile is about to delete.
ALeaderLives ==
  /\ work.flow = "finalize" => dep.phase # "present"
  /\ work.doomed \subseteq Existing(view)
  /\ \/ ~Managed
     \/ Existing(sets) = {} /\ Existing(view) = {}
     \/ \E l \in Live(sets) :
          /\ \A s \in Existing(sets) : sets[s].rev <= sets[l].rev
          /\ \A s \in Existing(view) : view[s].rev <= sets[l].rev
          /\ \A s \in work.doomed : view[s].rev < sets[l].rev

ListedUnique ==
  \A s, t \in Existing(view) : view[s].rev = view[t].rev => s = t

\* The inductive invariant of the revisions.
RevisionInv ==
  TypeOK /\ RevisionsUnique /\ ListedUnique /\ ViewIsCurrent
         /\ LatestIsNewest /\ ALeaderLives

Serving(v) == \E s \in Live(v) : v[s].ready > 0

\* A rolling update that users let finish takes no ready set away before
\* another one is ready.
ServiceKept ==
  [][Serving(sets) /\ ~disrupted' /\ dep.spec.strategy = RollingUpdate
     => Serving(sets')]_vars

\* The deployment object stays until every set, and so every firewall, is gone,
\* whatever the cache shows, but for a set created within the safety backoff.
FinalizerGuardsSets ==
  [][dep.phase = "terminating" /\ dep'.phase = "gone" /\ ~backoff => Existing(sets) = {}]_vars

\* Whatever was changed, failed or restarted, in the end a single set is left,
\* as the spec wants it, ready, at the shortest distance, and reported.
EventuallyConverges == <>[](Converged \/ dep.phase # "present")

\* A deleted deployment goes away, and all its sets with it.
DeletionCompletes ==
  dep.phase = "terminating" ~> (dep.phase = "gone" /\ Existing(sets) = {})

-----------------------------------------------------------------------------
(* Refinement *)

Member(set) == [rev |-> set.rev, leaving |-> set.phase = "terminating"]
Members == {Member(sets[s]) : s \in Existing(sets)}

Promise == INSTANCE Rollout WITH phase <- dep.phase, members <- Members

\* The reconciler keeps what Rollout promises: consecutive revisions, and no set
\* given up but for a newer one that stays.
ImplementsRollout == Promise!Spec

\* Why it does: the cache hides at most one set, the one the backoff is armed
\* for, and there are no sets before there is a finalizer.
HiddenInv ==
  /\ \A s, t \in Existing(sets) \ Existing(view) : s = t
  /\ dep.phase = "present" /\ ~dep.finalizer =>
       Existing(sets) = {} /\ Existing(view) = {} /\ work.pc = "idle"
=============================================================================
