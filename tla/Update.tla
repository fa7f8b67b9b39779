------------------------------- MODULE Update -------------------------------
(***************************************************************************)
(* One FirewallDeployment and the two controllers that reconcile it with   *)
(* the same generic reconciler (src/controllers/generic_controller.go):    *)
(* the deployment controller and the update controller (controllers/update)*)
(* which moves the image forward in a maintenance time window.             *)
(*                                                                         *)
(* Both read the deployment from one informer cache, write to the API, and *)
(* are started by the events their predicates let through.                 *)
(*                                                                         *)
(* Failures covered: a cache that lags by any number of versions, write    *)
(* conflicts, failing calls, restarts of the manager, a firewall that does *)
(* not run yet, a stale image cache.  Not covered: two managers at once,   *)
(* calls whose answer is lost.                                             *)
(*                                                                         *)
(* Abstractions: images of one operating system and minor version, the     *)
(* full notation is the number of the patch; what the deployment           *)
(* controller does with the sets is one step that makes the newest set     *)
(* carry the image (Deployment has the details); lists of sets and         *)
(* firewalls are fresh; labels and the rest of the spec are left out.      *)
(***************************************************************************)
EXTENDS Integers, Sequences

CONSTANTS
  Released,    \* the newest version of the image at the start
  MaxVersion,  \* bound on the releases of the image
  SpecImages,  \* images a user may ask for
  Changes,     \* kinds of outside changes that may happen
  MaxChanges,  \* bound on their number
  Faults,      \* kinds of failures that may happen
  MaxFaults,   \* bound on their number
  MaxEvents    \* bound on changes and failures together

Versions == 1..MaxVersion

\* The notation without a patch version: the newest image when a machine is made.
Shorthand == 0

ASSUME ConstantsAssumption ==
  /\ MaxVersion \in Nat /\ Released \in Versions
  /\ SpecImages # {} /\ SpecImages \subseteq Versions \cup {Shorthand}
  /\ MaxChanges \in Nat /\ MaxFaults \in Nat /\ MaxEvents \in Nat

VARIABLES
  log,        \* the versions of the deployment, from the cached to the current one
  queued,     \* which controller has the deployment in its work queue
  work,       \* the reconciles in progress
  fresh,      \* the reconciles whose copy has the current resource version
  set,        \* the newest set: life cycle, image, revision
  running,    \* the version its most important firewall reports, 0 for none
  latest,     \* the newest version the metal-api offers
  imageCache, \* the version in the image cache, 0 for none
  hist,       \* what was asked for and what was done about it
  changes,    \* outside changes so far
  faults      \* failures so far

vars == <<log, queued, work, fresh, set, running, latest, imageCache, hist, changes, faults>>
env == <<changes, faults>>

Controllers == {"deployment", "update"}

cache == Head(log)
dep == log[Len(log)]

-----------------------------------------------------------------------------
(* Objects *)

\* The deployment: life cycle and finalizer, the spec, the three annotations
\* and the observed revision.
Object ==
  [phase : {"present", "terminating", "gone"}, finalizer : BOOLEAN,
   image : SpecImages \cup Versions, auto : BOOLEAN,
   maintain : BOOLEAN, reconcile : BOOLEAN, roll : BOOLEAN,
   observed : Nat]

\* A reconcile: its next call, the copy it works for, whether it runs in
\* maintenance, the image it resolved and the revision it will report.
Work ==
  [pc : {"idle", "got", "resolve", "compare", "write", "reconcile", "cleanup", "status"},
   copy : Object, maintenance : BOOLEAN, newest : Versions \cup {0}, observed : Nat]

\* Faulty variant: every write makes a new version.
WriteAnyway(new) == log' = Append(log, new) /\ fresh' = {}

\* Writes that leave the object as it is make no new version; any other makes
\* all copies old.
Write(new) ==
  IF new = dep THEN UNCHANGED <<log, fresh>> ELSE log' = Append(log, new) /\ fresh' = {}

\* A write of an old copy is a conflict; so is one of a cache that lags.
Conflicts(c) == c \notin fresh
CacheLags == Len(log) > 1

\* Predicates.  Faulty variant: a present annotation passes, not just an added one.
AnnotationPresent(old, new) == new.maintain
AnnotationAdded(old, new) == ~old.maintain /\ new.maintain
AnnotationRemoved(old, new) == old.maintain /\ ~new.maintain

GenerationChanged(old, new) ==
  <<old.phase, old.image, old.auto>> # <<new.phase, new.image, new.auto>>
AnnotationsChanged(old, new) ==
  <<old.maintain, old.reconcile, old.roll>> # <<new.maintain, new.reconcile, new.roll>>

\* Faulty variant: every event starts both controllers.
PassesAll(c, old, new) == TRUE

Passes(c, old, new) ==
  IF c = "update" THEN AnnotationAdded(old, new)
  ELSE /\ ~AnnotationAdded(old, new) /\ ~AnnotationRemoved(old, new)
       /\ GenerationChanged(old, new) \/ AnnotationsChanged(old, new)

Idle ==
  [pc |-> "idle", maintenance |-> FALSE, newest |-> 0, observed |-> 0,
   copy |-> [phase |-> "present", finalizer |-> FALSE, image |-> CHOOSE i \in SpecImages : TRUE,
             auto |-> TRUE, maintain |-> FALSE, reconcile |-> FALSE, roll |-> FALSE,
             observed |-> 0]]

-----------------------------------------------------------------------------
(* The generic reconciler *)

Stop(c) == work' = [work EXCEPT ![c] = Idle]

\* What is left of a reconcile once only deferred functions remain.
Finish(c, pc) ==
  IF pc = "idle" THEN Stop(c)
  ELSE work' = [work EXCEPT ![c] = [Idle EXCEPT !.pc = pc, !.observed = work[c].observed]]

Requeue(c) == queued' = [queued EXCEPT ![c] = TRUE]

\* Faulty variant: the status is forgotten.
DeferredWithoutStatus(c) == IF work[c].maintenance THEN "cleanup" ELSE "idle"

\* The deferred functions run whatever the outcome: the annotation is removed
\* first, the status is written last.
Deferred(c) ==
  IF work[c].maintenance THEN "cleanup" ELSE IF c = "deployment" THEN "status" ELSE "idle"

Get(c) ==
  /\ work[c].pc = "idle" /\ queued[c]
  /\ queued' = [queued EXCEPT ![c] = FALSE]
  /\ \/ cache.phase = "gone" /\ UNCHANGED <<work, fresh>>
     \/ /\ cache.phase # "gone"
        /\ work' = [work EXCEPT ![c] = [Idle EXCEPT !.pc = "got", !.copy = cache,
                                                    !.observed = cache.observed]]
        /\ fresh' = IF CacheLags THEN fresh \ {c} ELSE fresh \cup {c}
  /\ UNCHANGED <<log, set, running, latest, imageCache, hist, env>>

Got(c, phase) == work[c].pc = "got" /\ work[c].copy.phase = phase

\* The update controller has nothing to delete; the other one waits for the sets.
DeleteReturnsNil(c) == c = "update" \/ set.phase = "absent"

DeletionFlow(c) ==
  /\ Got(c, "terminating")
  /\ Stop(c)
  /\ \/ /\ ~DeleteReturnsNil(c)
        /\ set' = [set EXCEPT !.phase = "terminating"]
        /\ Requeue(c) /\ UNCHANGED log /\ fresh' = fresh \ {c}
     \/ /\ DeleteReturnsNil(c) /\ Conflicts(c)
        /\ Requeue(c) /\ UNCHANGED <<log, fresh, set>>
     \/ /\ DeleteReturnsNil(c) /\ ~Conflicts(c)
        /\ Write([dep EXCEPT !.finalizer = FALSE, !.phase = "gone"])
        /\ UNCHANGED <<queued, set>>
  /\ UNCHANGED <<running, latest, imageCache, hist, env>>

AddFinalizer(c) ==
  /\ Got(c, "present") /\ ~work[c].copy.finalizer
  /\ \/ /\ Conflicts(c)
        /\ Stop(c) /\ Requeue(c) /\ UNCHANGED <<log, fresh>>
     \/ /\ ~Conflicts(c)
        /\ log' = Append(log, [dep EXCEPT !.finalizer = TRUE]) /\ fresh' = {c}
        /\ work' = [work EXCEPT ![c].copy = [dep EXCEPT !.finalizer = TRUE]]
        /\ UNCHANGED queued
  /\ UNCHANGED <<set, running, latest, imageCache, hist, env>>

\* Removing the reconcile annotation ends the reconcile: the removal is the
\* event that is to start the next one.
RemoveReconcileAnnotation(c) ==
  /\ Got(c, "present") /\ work[c].copy.finalizer /\ work[c].copy.reconcile
  /\ Stop(c)
  /\ \/ Conflicts(c) /\ Requeue(c) /\ UNCHANGED <<log, fresh>>
     \/ /\ ~Conflicts(c)
        /\ Write([dep EXCEPT !.reconcile = FALSE])
        /\ UNCHANGED queued
  /\ UNCHANGED <<set, running, latest, imageCache, hist, env>>

StartReconcile(c) ==
  /\ Got(c, "present") /\ work[c].copy.finalizer /\ ~work[c].copy.reconcile
  /\ work' = [work EXCEPT ![c].maintenance = work[c].copy.maintain,
                          ![c].pc = IF c = "update" THEN "resolve" ELSE "reconcile"]
  /\ hist' = [hist EXCEPT !.seen = @ \/ (c = "update" /\ work[c].copy.maintain)]
  /\ fresh' = fresh \ {c}
  /\ UNCHANGED <<log, queued, set, running, latest, imageCache, env>>

\* A request is lost when the deployment controller takes its annotation away
\* before the update controller has seen it.
Lost == hist' = [hist EXCEPT !.due = 0]

\* Faulty variant: nobody cleans up after a reconcile in maintenance.
NoRemoval(c) == FALSE

\* The copy is read again, from the cache; a conflict is logged and forgotten.
RemovesMaintenance(c) == cache.maintain /\ cache.phase # "gone" /\ ~CacheLags

Cleanup(c) ==
  /\ work[c].pc = "cleanup"
  /\ Finish(c, IF c = "deployment" THEN "status" ELSE "idle")
  /\ \/ /\ RemovesMaintenance(c)
        /\ Write([cache EXCEPT !.maintain = FALSE])
        /\ IF c = "deployment" /\ ~hist.seen THEN Lost ELSE UNCHANGED hist
     \/ ~RemovesMaintenance(c) /\ UNCHANGED <<log, fresh, hist>>
  /\ UNCHANGED <<queued, set, running, latest, imageCache, env>>

\* The error of the deferred status update is not returned: nothing retries it.
UpdateStatus ==
  /\ work["deployment"].pc = "status"
  /\ Stop("deployment")
  /\ IF CacheLags \/ cache.phase = "gone" THEN UNCHANGED <<log, fresh>>
     ELSE Write([cache EXCEPT !.observed = work["deployment"].observed])
  /\ UNCHANGED <<queued, set, running, latest, imageCache, hist, env>>

-----------------------------------------------------------------------------
(* The two controllers *)

\* Faulty variant: only the first set is ever required.
FirstSetOnly(copy) == set.phase = "absent"

\* The first set, or another image than that of the newest set; a roll
\* annotation counts on the set, not on the deployment.
isNewSetRequired(copy) == set.phase = "absent" \/ set.image # copy.image

ReconcileDeployment ==
  LET w == work["deployment"]
  IN /\ w.pc = "reconcile"
     /\ \/ /\ isNewSetRequired(w.copy)
           /\ set' = [phase |-> "live", image |-> w.copy.image,
                      revision |-> IF set.phase = "absent" THEN 0 ELSE set.revision + 1]
           /\ running' = 0
        \/ ~isNewSetRequired(w.copy) /\ UNCHANGED <<set, running>>
     /\ work' = [work EXCEPT !["deployment"] =
                   [Idle EXCEPT !.pc = Deferred("deployment"),
                                !.observed = IF set.phase = "absent" THEN w.observed
                                             ELSE set'.revision]]
     /\ UNCHANGED <<log, queued, fresh, latest, imageCache, hist, env>>

\* Without the option or outside of maintenance there is nothing to do.
ResolveImage ==
  LET w == work["update"]
  IN /\ w.pc = "resolve"
     /\ \/ /\ ~w.copy.auto \/ ~w.maintenance
           /\ Finish("update", Deferred("update"))
           /\ UNCHANGED imageCache
        \/ /\ w.copy.auto /\ w.maintenance
           /\ imageCache' = IF imageCache = 0 THEN latest ELSE imageCache
           /\ work' = [work EXCEPT !["update"].pc = "compare", !["update"].newest = imageCache']
     /\ UNCHANGED <<log, queued, fresh, set, running, latest, hist, env>>

IsActive(newest) == newest = running

\* The newest of no sets is nil: listing its firewalls panics, which the
\* work queue takes for an error.
CompareImages ==
  /\ work["update"].pc = "compare"
  /\ \/ /\ set.phase = "absent"
        /\ Requeue("update") /\ Finish("update", Deferred("update"))
     \/ /\ set.phase # "absent"
        /\ UNCHANGED queued
        /\ IF running = 0 \/ IsActive(work["update"].newest)
           THEN Finish("update", Deferred("update"))
           ELSE work' = [work EXCEPT !["update"].pc = "write"]
  /\ UNCHANGED <<log, fresh, set, running, latest, imageCache, hist, env>>

\* Faulty variant: the annotation is all that is written.
NoNewImage(image, newest) == image

\* Only a full notation is moved; a shorthand is expected to be resolved anew.
NewImage(image, newest) == IF work["update"].copy.image = Shorthand THEN image ELSE newest

\* The deployment is read again before every attempt, from the cache; attempts
\* go on until the cache has caught up or the retries are used up.
WriteImage ==
  LET newest == work["update"].newest
  IN /\ work["update"].pc = "write"
     /\ Finish("update", Deferred("update"))
     /\ \/ /\ ~CacheLags /\ cache.phase # "gone"
           /\ Write([cache EXCEPT !.roll = TRUE, !.image = NewImage(@, newest)])
           /\ hist' = [hist EXCEPT !.updated = @ + (IF NewImage(dep.image, newest) = dep.image
                                                    THEN 0 ELSE 1)]
           /\ UNCHANGED queued
        \/ /\ CacheLags \/ cache.phase = "gone"
           /\ Requeue("update") /\ Lost /\ UNCHANGED <<log, fresh>>
     /\ UNCHANGED <<set, running, latest, imageCache, env>>

Generic(c) ==
  \/ Get(c) \/ DeletionFlow(c) \/ AddFinalizer(c)
  \/ RemoveReconcileAnnotation(c) \/ StartReconcile(c) \/ Cleanup(c)

DeploymentController == Generic("deployment") \/ ReconcileDeployment \/ UpdateStatus
UpdateController == Generic("update") \/ ResolveImage \/ CompareImages \/ WriteImage

-----------------------------------------------------------------------------
(* The cache, the metal-api, the sets *)

\* The informer applies the next version and calls the event handlers.
Deliver ==
  /\ Len(log) > 1
  /\ log' = Tail(log)
  /\ queued' = [c \in Controllers |-> queued[c] \/ Passes(c, cache, log[2])]
  /\ UNCHANGED <<work, fresh, set, running, latest, imageCache, hist, env>>

\* Any event of an owned set, the periodic resync included, starts the
\* deployment controller; a resync of the deployment itself starts nobody.
SetEvent ==
  /\ set.phase # "absent"
  /\ queued' = [queued EXCEPT !["deployment"] = TRUE]
  /\ UNCHANGED <<log, work, fresh, set, running, latest, imageCache, hist, env>>

\* The entry of a cache that is still right may as well stay.
ImageCacheExpires ==
  /\ imageCache \notin {0, latest} /\ imageCache' = 0
  /\ UNCHANGED <<log, queued, work, fresh, set, running, latest, hist, env>>

FirewallRuns ==
  /\ set.phase = "live" /\ running = 0
  /\ running' = IF set.image = Shorthand THEN latest ELSE set.image
  /\ UNCHANGED <<log, queued, work, fresh, set, latest, imageCache, hist, env>>

\* Sets of a deployment that is gone are garbage, terminating sets go away.
SetGone ==
  /\ set.phase = "terminating" \/ (set.phase = "live" /\ dep.phase = "gone")
  /\ set' = [set EXCEPT !.phase = "absent"] /\ running' = 0
  /\ UNCHANGED <<log, queued, work, fresh, latest, imageCache, hist, env>>

-----------------------------------------------------------------------------
(* Users, releases and failures *)

Change(kind) ==
  /\ kind \in Changes /\ changes < MaxChanges /\ changes' = changes + 1
  /\ changes + faults < MaxEvents
  /\ UNCHANGED <<queued, work, set, running, imageCache, faults>>

Release ==
  /\ Change("release") /\ latest < MaxVersion
  /\ latest' = latest + 1
  /\ UNCHANGED <<log, fresh, hist>>

\* Maintenance that should lead to an update: the firewall runs, a newer image
\* is out and not hidden by the image cache, nothing else is in progress.
UpdateIsDue ==
  /\ dep.phase = "present" /\ dep.auto /\ ~dep.reconcile
  /\ \A n \in DOMAIN log : log[n].image = set.image
  /\ \A c \in Controllers : work[c].pc = "idle"
  /\ running \notin {0, latest} /\ imageCache \in {0, latest}

User(kind, new) ==
  /\ Change(kind)
  /\ dep.phase # "gone" /\ new # dep
  /\ Write(new)
  /\ UNCHANGED latest

Maintain ==
  /\ User("maintain", [dep EXCEPT !.maintain = TRUE])
  /\ hist' = [hist EXCEPT !.asked = @ + 1, !.seen = FALSE,
                          !.due = IF UpdateIsDue THEN latest ELSE 0]

\* The spec and the annotation in a single write: one event for both.
ChangeAndMaintain(i) ==
  /\ ~dep.maintain /\ i # dep.image
  /\ User("changeAndMaintain", [dep EXCEPT !.maintain = TRUE, !.image = i])
  /\ hist' = [hist EXCEPT !.asked = @ + 1, !.due = 0, !.seen = FALSE]

Edit ==
  /\ Lost
  /\ \/ \E i \in SpecImages : User("image", [dep EXCEPT !.image = i])
     \/ User("auto", [dep EXCEPT !.auto = ~@])
     \/ User("reconcile", [dep EXCEPT !.reconcile = TRUE])
     \/ User("delete", [dep EXCEPT !.phase = IF dep.finalizer THEN "terminating" ELSE "gone"])

Fail(kind) ==
  /\ kind \in Faults /\ faults < MaxFaults /\ faults' = faults + 1
  /\ changes + faults < MaxEvents
  /\ Lost
  /\ UNCHANGED <<set, running, latest, changes>>

ApiError(c) ==
  /\ Fail("apiError")
  /\ work[c].pc # "idle"
  /\ UNCHANGED <<log, imageCache>> /\ fresh' = fresh \ {c}
  /\ CASE work[c].pc = "got" -> Stop(c) /\ Requeue(c)
       [] work[c].pc = "cleanup" ->
            Finish(c, IF c = "deployment" THEN "status" ELSE "idle") /\ UNCHANGED queued
       [] work[c].pc = "status" -> Stop(c) /\ UNCHANGED queued
       [] OTHER -> Finish(c, Deferred(c)) /\ Requeue(c)

\* The caches are filled anew; to the predicates everything was just created.
Restart ==
  /\ Fail("restart")
  /\ log' = <<dep>> /\ fresh' = {}
  /\ queued' = [c \in Controllers |-> c = "deployment" /\ dep.phase # "gone"]
  /\ work' = [c \in Controllers |-> Idle]
  /\ imageCache' = 0

-----------------------------------------------------------------------------

Init ==
  /\ \E i \in SpecImages :
       log = <<[phase |-> "present", finalizer |-> FALSE, image |-> i, auto |-> TRUE,
                maintain |-> FALSE, reconcile |-> FALSE, roll |-> FALSE,
                observed |-> 0]>>
  /\ queued = [c \in Controllers |-> c = "deployment"]
  /\ work = [c \in Controllers |-> Idle] /\ fresh = {}
  /\ set = [phase |-> "absent", image |-> cache.image, revision |-> 0]
  /\ running = 0 /\ latest = Released /\ imageCache = 0
  /\ hist = [asked |-> 0, updated |-> 0, due |-> 0, seen |-> FALSE]
  /\ changes = 0 /\ faults = 0

Next ==
  \/ DeploymentController \/ UpdateController
  \/ Deliver \/ SetEvent \/ ImageCacheExpires \/ FirewallRuns \/ SetGone
  \/ Release \/ Maintain \/ Edit \/ (\E i \in SpecImages : ChangeAndMaintain(i))
  \/ (\E c \in Controllers : ApiError(c)) \/ Restart

Spec == Init /\ [][Next]_vars

\* Both controllers work, the watch delivers, sets report or are resynced
\* every ten minutes, machines come up and go away.
Fairness ==
  /\ WF_vars(DeploymentController) /\ WF_vars(UpdateController)
  /\ WF_vars(Deliver) /\ WF_vars(SetEvent) /\ WF_vars(FirewallRuns) /\ WF_vars(SetGone)

FairSpec == Spec /\ Fairness

-----------------------------------------------------------------------------
(* Properties *)

\* Every variable has its type, consecutive versions of the deployment differ,
\* a copy with the current resource version is what the API holds, and an image
\* is compared and written only once it is resolved.
TypeOK ==
  /\ log \in Seq(Object) /\ log # <<>>
  /\ \A n \in 2..Len(log) : log[n] # log[n - 1]
  /\ fresh \subseteq Controllers /\ \A c \in fresh : work[c].pc = "got" => work[c].copy = dep
  /\ queued \in [Controllers -> BOOLEAN] /\ work \in [Controllers -> Work]
  /\ \A c \in Controllers : work[c].pc \in {"compare", "write"} => work[c].newest \in Versions
  /\ set \in [phase : {"absent", "live", "terminating"},
              image : SpecImages \cup Versions, revision : Nat]
  /\ running \in 0..MaxVersion /\ latest \in Versions /\ imageCache \in 0..latest
  /\ hist \in [asked : Nat, updated : Nat, due : 0..MaxVersion, seen : BOOLEAN]
  /\ changes \in 0..MaxChanges /\ faults \in 0..MaxFaults

\* A maintenance request moves the image at most once, however often the
\* annotation outlives its reconcile, a write is retried or the manager restarts.
OneUpdatePerRequest == hist.updated <= hist.asked

\* The finalizer is shared: as long as nobody asks for maintenance, the
\* deployment outlives its sets although the update controller deletes nothing.
FinalizerGuardsSets ==
  [][dep.phase # "gone" /\ dep'.phase = "gone" /\ hist.asked = 0 => set.phase = "absent"]_vars

\* The annotation is cleaned up automatically (types_annotations.go,
\* MaintenanceAnnotation), although a failed removal is not retried.
MaintenanceCleanedUp == dep.maintain ~> (~dep.maintain \/ dep.phase # "present")

\* The spec is carried out in the end, although the event of a change that
\* comes with the maintenance annotation is filtered out.
SpecCarriedOut == <>[](dep.phase # "present" \/ (set.phase = "live" /\ set.image = dep.image))

\* The status catches up, although a status update that meets a conflict
\* (as it does after every cleanup) is dropped without an error.
StatusCatchesUp == <>[](dep.phase # "present" \/ dep.observed = set.revision)

\* Maintenance brings a firewall with the full notation up to the image that
\* was the newest when it was asked for, unless the request was lost on the
\* way: to a failure, to another change, to the deployment controller, or to
\* retries that ran out.
FullNotationUpdated ==
  \A v \in Versions :
    (hist.due = v /\ dep.image # Shorthand) ~> (running >= v \/ hist.due = 0)

\* The same for every notation: "MachineImage auto updates the os image of the
\* firewall within the maintenance time window" (types_firewalldeployment.go).
ImageUpdated == \A v \in Versions : (hist.due = v) ~> (running >= v \/ hist.due = 0)
=============================================================================
