# Formal models of the firewall-controller-manager

TLA+ modules, TLC configurations and TLAPS proofs for the
firewall-controller-manager: the program that keeps metal-stack firewalls
running in front of Gardener shoot clusters. A user writes a
*FirewallDeployment* into the seed cluster; it owns *FirewallSets*, a set owns
*Firewalls*, a Firewall stands for one machine of the metal-api, and a
*FirewallMonitor* in the shoot carries what the controller on that machine
reports. Each layer has a reconciler of its own. All of them work on lists that
may be old, with calls that may fail or whose answer may be lost, while users
and the other reconcilers write the same objects.

Every definition is translated from the Go code; `PROJECT.json` maps each one
to its lines. Where the text below says "the code", it means that.

## 1. Inventory

| Component | State it keeps | Operations | Talks to |
|---|---|---|---|
| Deployment controller (`controllers/deployment`) | sets of one deployment, their revision annotations; `lastSetCreation` in memory | ensure a set, roll (RollingUpdate, Recreate), synchronise, clean up intermediate sets, swap the distance, delete, publish status | list of sets (informer cache), seed API |
| Set controller (`controllers/set`) | firewalls of one set | adopt, sort, synchronise and stagger distances, scale up and down, delete, publish status | list of firewalls (cache), seed API |
| Timeout controller (`controllers/timeout`) | none | delete firewalls whose creation or health timeout is over | the same firewalls as the set controller |
| Firewall controller (`controllers/firewall`) | status of one firewall, finalizer, restart annotation | look up, allocate, synchronise tags and keys, create the monitor, write the status, delete | metal-api, seed API, shoot API |
| Monitor controller (`controllers/monitor`) | conditions of the same firewall, finalizer of the monitor, roll-set annotation | update the firewall's status from the monitor, hand the roll-set annotation to the set | shoot API, seed API |
| Update controller (`controllers/update`) | image cache; shares object and finalizer with the deployment controller | consume the maintenance annotation, pick a newer image, annotate for a roll | seed API, metal-api |
| Generic controller (`controllers/generic_controller.go`) | none | finalizer, deletion flow, annotation handling, deferred cleanup, status update, requeue | wraps all of the above |
| Annotations, event predicates (`types_annotations.go`, `predicates.go`) | none | decide which event starts which controller | informers |
| Status evaluation (`types_firewall.go`, `types_utils.go`) | conditions with their transition times | set a condition, evaluate readiness and timeouts, order by importance | read by set, timeout and firewall controllers |
| Seed access (`resources.go`, `helper/seed_access.go`) | RBAC objects and token secrets in two clusters | ensure them, publish the condition | seed API, shoot API |
| Infrastructure status, ACL extension (`infrastructure_status.go`) | egress addresses in two Gardener objects | patch one, annotate the other | seed API |
| Token updater (`helper/shoot_access.go`) | the token file | create, copy every five minutes | seed API, file system |
| Admission webhooks (`validation`, `defaults`) | none | validate, default specs, render the user data | the published status, token secrets |
| Manager, configuration, generated code | flags | start | section 9 |

How they meet: the controllers share no memory. They call each other through
objects: owner references from deployment to set to firewall, annotations that
ask for something once (maintenance, reconcile, roll-set, restart), conditions,
finalizers. An object that is written becomes an event, a predicate lets it
through to some of the controllers, and what they then read may be older.

What makes this hard:

* **Stale lists.** A set or a firewall that was just created may be missing from
  the cache, one that is gone may still be listed.
* **Steps between calls.** A reconcile decides once, then makes several calls.
  Readiness, specs, annotations and the objects themselves move in between.
* **Lost answers.** A create call or an allocation may have its effect although
  it is answered by an error.
* **Two writers.** The timeout controller deletes what the set controller
  synchronises; firewall and monitor controller write the same status; deployment
  and update controller share object, finalizer and annotations; webhook and
  reconcile ensure the same RBAC objects.
* **Filtered events.** Two controllers of one object see complementary parts of
  its changes. A change that comes along with the wrong annotation starts nobody.
* **Overtaken rollouts.** The spec changes again while a rollout is in progress,
  several times, and in the middle of the cleanup.
* **Time.** Deadlines are computed from transition times, which must not
  restart with every report, and which come back with an old copy of the status;
  tokens expire, and die with their secret or account.
* **Restarts** between any two calls; `lastSetCreation`, the caches and the token
  file are then lost.

What makes each part correct:

* Deployment: never two preferred sets with replicas; consecutive, unique
  revisions; a set is given up only for a newer one that stays; the service is
  not taken away by a rolling update; few sets however fast the spec changes; a
  rollout comes to its end; deletion takes everything along.
* Set: never more firewalls than asked for; the right ones removed; one active
  firewall, one first backup, and these roles do not flap; timeouts hit only
  firewalls that were out of order for that long, or whose recovery was overwritten,
  and do hit the former.
* Firewall: one machine; nothing left behind after a deletion; never dropped
  from the queue; comes up whatever failed; requests (restart, roll) are handled.
* Update: a request moves the image once, its annotation does not stay, it costs
  the deployment neither a spec change nor its status nor its finalizer.
* Perimeter: the access that is rendered works, the condition tells the truth, CIDRs
  and ACL follow the addresses; the CIDRs do so without a shoot too, unless a
  rollout is waiting for old firewalls to go.

The hazards, each at its line with the properties that watch it, are the list
`hazards` of `PROJECT.json`.

## 2. Modules

| Module | What it is |
|---|---|
| `Rollout` | abstract: what a deployment promises about its sets |
| `Deployment` | deployment controller with cache, users, sets, webhook, failures |
| `DeploymentProofs`, `RolloutProofs` | theorems about `Deployment`; it implements `Rollout` |
| `FirewallStatus` | conditions, evaluation, order of importance, staggered distances; operators only |
| `FirewallSet` | set controller and timeout controller over the firewalls of one set |
| `Firewall` | firewall controller and monitor controller for one firewall |
| `Importance` | the insertion sort of `sort.Slice` with the code's comparison, as a state machine |
| `Update` | deployment and update controller around one object: versions, cache lag, predicates, annotations |
| `Access`, `Infrastructure` | the two ends of the deployment's reconcile: RBAC objects with tokens; egress CIDRs with the ACL extension |
| `Perimeter` | composes `Access` and `Infrastructure` in the order of the reconcile |
| `FirewallStatusProofs`, `ImportanceProofs`, `FirewallSetProofs`, `FirewallProofs`, `UpdateProofs`, `PerimeterProofs` | theorems about those modules |
| `MC...` | constants and symmetry for TLC |

`FirewallSet`, `Firewall` and `Importance` extend `FirewallStatus`, so that the
evaluation that the timeout controller acts upon is the one that the firewall
controller's conditions feed. What one module leaves to its environment is what
the next one below does: `SetReports` and `SetFinalized` of `Deployment` are the
work of `FirewallSet`; `ReconcileFirewall`, its three steps, `MonitorReports` and
`FirewallFinalized` of `FirewallSet` are the work of `Firewall`;
`ReconcileDeployment` of `Update` is `Deployment` in one step; `waiting` of
`Perimeter` is the part of a rollout in which `Deployment` waits for old sets to go.

How these environments relate to the layer they stand for:

* They may act at any time and in any order. None of them is proved to be an
  abstraction of that layer.
* `Deployment` expects that `SetReports` goes up to the replicas asked for and down
  to them. A set that loses readiness below that is a disturbance (`Degrade`), and
  the surplus firewalls of a stale list are not reported.
* `FirewallSet` has the two writers of a status and the firewall controller's write
  of an old copy over it. The run about timeouts allows one reconcile that takes
  its three steps apart (`MaxOvertaken`) and lets the monitor controller write
  (`MonitorWrites`), the run about settling does neither: there they make more states
  than TLC can do. A report of a machine is one of `Reports`.
* In `Perimeter` a rollout comes to its end only while the shoot can be reached.

### Deployment and Rollout

`dep` is the deployment (life cycle, finalizer, spec), `sets` the sets in the
API, `view` the list the reconciler works from, `work` its local variables and
its position, `backoff` whether `lastSetCreation` is recent. The actions follow
the calls of one reconcile:

    Begin -> create -> delete ... -> sync -> delete ... -> swap -> status

* `Begin` lists (`ensure finalizer`, `GetOwnedResources`, `MaxRevisionOf`) and
  decides: first set, roll (`isNewSetRequired`), synchronise, or, for Recreate,
  delete the old ones first.
* `createFirewallSet`, `CreationBackedOff`: the create call and the
  `safetyBackoff` early return.
* `DeleteSet` is one iteration of `deleteFirewallSets`; not found ends the loop.
* `syncFirewallSet` reads the set again before it writes, and conflicts only when
  that read is served by an old cache; `SwapDistance` writes the *listed* copy and
  conflicts whenever the set changed since.
* `PublishStatus` is `setStatus`, with a list of its own, and the deferred update.
* `Delete` is the deletion flow; the finalizer goes when the list is empty.

`MaxRevisionOf` and `MinRevisionOf` return the first of several equal sets of a
list without a defined order, so both are sets of possible results.

The cache: with `CachedReads`, `view` is any earlier state of the sets, which
jumps to the present with `Refresh` between two reconciles. Without it, every
list shows the present.

`Rollout` knows nothing of lists, calls or strategies: a deployment has members,
each a revision that is or is not leaving. A newer one joins with the next
revision, one leaves while a newer one stays, one that is leaving vanishes, and
a deployment is gone only when its members are. The refinement maps `dep.phase`
to `phase` and the revisions of existing sets to `members`; everything else of
`Deployment` is hidden. One concession to the code is in it: the last set may be
created when the deletion has already looked for sets (a reconcile with an old
list), so that one member may outlive the deployment, to be garbage collected.

### FirewallSet

`fws` and `view` are the firewalls as they are and as listed; `work` is the
reconcile of the set (adopt, sort, sync one by one, create one by one, or delete
one, status); `overdue` is the loop of the timeout controller, which runs between
any two steps of it. `now` is the clock. Conditions are set with `SetCondition`, the
code's rule for the transition time, but not always on the current status:

* the firewall controller works on a copy. `ReadFirewall` takes it, possibly from
  the cache, `Inspect` sets the conditions on it, with a metal-api or a monitor that
  may not answer, and `WriteStatus` writes it over whatever the status has become
  (`generic_controller.go:157`). `copies` are these copies; `ReconcileFirewall` is
  the same in one step, for reconciles that nobody gets in the way of. There is one
  worker (`Free`);
* `MonitorReports` is the monitor controller, whose update is refused if the status
  changed since it was read: it acts in one step.

So a condition with an old transition time can come back after a recovery. History
fields of a firewall record it: `goodAt`, when its status was last written with the
firewall working, and `takenBack`, that a status with a loss from before such a
write was written over it. A stale list counts as
one of `MaxFaults`: this controller has no safety backoff, and with a list that
is stale for ever it creates and deletes for ever.

`OutOfNames` is a bound of the model: there are finitely many identities, and a
creation that finds none fails like a failed call. It is reached only with
surplus firewalls.

### Firewall

`fw` is the Firewall, `status` its status, `machines` the metal-api, `mon` the
monitor in the shoot, `work` the reconcile with *the copy of the status that it
started from*, `update` the reconcile of the monitor controller with the copies
of firewall and monitor that it read, `queued` the work queue as one bit, `rolled`
whether the firewall's set was annotated for a roll. A reconcile ends with
`WriteStatus`, which overwrites whatever the monitor controller wrote meanwhile;
the monitor controller's own update is rejected when the object changed.
`RemoveRestart` models the requeue after zero seconds, which is no requeue: only
the change of the annotations, seen by the predicates, brings the firewall back.
`AnnotateSet` and `UnmarkMonitor` are the two writes of `rollSetAnnotation`.

### Importance

`less` is not a strict order: of two firewalls that agree in everything each is
less than the other. What `sort.Slice` does with such a function depends on its
algorithm, an insertion sort up to 12 elements. The module runs that sort on
three firewalls, staggers the distances as the set controller does, and sorts
again.

### Update

Here the object itself is the subject. `log` holds its versions from the one in
the cache to the current one; `Deliver` moves the cache one version on and hands
the pair of versions to the predicates of both controllers. `fresh` says which
reconciles hold a copy with the current resource version: any write makes the
others old, and a write from an old copy or over a lagging cache conflicts. Each
action of `Generic` is a step of `generic_controller.go` for either controller:
`Get`, `DeletionFlow`, `AddFinalizer`, `RemoveReconcileAnnotation`,
`StartReconcile`, and the deferred `Cleanup`; `UpdateStatus` is the deferred
status update, whose error is not returned. `hist` records the requests for
maintenance, the updates they led to, and the image one of them is due.

A request for maintenance may be lost, and `hist.due` is taken back when it is:
a call fails or the manager restarts; another change comes in between; the
deployment controller removes the annotation before the update controller has
read it; the reconcile annotation ends the update controller's reconcile, and
its removal is an event the predicate drops; the retries of a conflict run out.
The code tolerates all of these, for the next maintenance window comes.

### Access, Infrastructure, Perimeter

`objects` are the service accounts, secrets, roles and bindings that are as they
should be in seed and shoot, `token` the token that Kubernetes put into each
secret some time later, `orphaned` the clusters whose token belongs to an account
that is gone. Kubernetes knows an account by its UID: such a token is dead, and its
secret is collected, also if `EnsureStep` or `RequestStep` has created an account of
that name in the meantime. `ensure` is the reconcile's pass over the eight objects,
`request` the same pass by the webhook, followed by the two reads of the tokens
that are rendered into `userdata`. `file` is the manager's token file; a call to
the shoot works only if the token in it is still accepted.

`listed`, `rules` and `cidrs` are the addresses as listed, of the egress rules,
and as published; `acl` what the extension applied and whether it is annotated.
`Perimeter` puts them into the order of `Reconcile`: whatever comes of the RBAC
objects, the sets are next, and the infrastructure only if nothing is waited for.
The wait (`waiting`, the requeue of `deleteFirewallSets`) ends when the old firewalls
are gone. Their deletion begins with the monitor in the shoot, so `RolloutEnds` needs
the shoot.

Two exceptions are history variables. `revoked`: a token died that had been read for
the user data, or a dead one was read. It stays set: the user data is a part of a
firewall from its allocation on, and other user data in the template rolls no set.
What is modelled is the template; the firewalls that were given an older one are not.
`missed`: the annotation of the extension failed after the CIDRs were patched, and is
not tried again.

## 3. Runs

A configuration names the disturbances (users, hand-made changes) and the faults
it allows, and bounds their number; `MaxEvents` bounds both together.

| Run | Shows | Bounds |
|---|---|---|
| `deployment_safety` | `ImplementsRollout`, `OnePreferredSet`, `SetsBounded`, `RevisionsUnique`, `NewestSurvives`, `ObservedRevisionGrows`, `ServiceKept`, `FinalizerGuardsSets`, `TypeOK`, for both strategies | 4 sets, 2 changes that may overlap with the rollout and with each other, 1 failed call or restart, stale cache |
| `deployment_converges` | `EventuallyConverges`, `DeletionCompletes`, both strategies and a change of strategy | 3 sets, two changes, or one change and one fault (a lost answer too), stale cache |
| `deployment_lost_answer` | violation, section 4 | 4 sets, 1 change, 1 lost answer |
| `firewall_set_settles` | `EventuallySettled`, `RolesSettle`, `DeletionCompletes`, `CreatesNoSurplus`, `TypeOK` (distances stay in their range) | 2 firewalls, distances 0 and 8 (the limit), 1 change of any kind, 1 stale list or failed call, statuses change by whole reconciles of the firewall |
| `firewall_set_timeouts` | `TimeoutsRespected`, `OverdueReplaced` | 1 firewall, clock to 2, health timeout 1, reports that repeat for ever, the monitor controller, 1 reconcile of the firewall in three steps, over stale lists |
| `firewall_set_eager_timeout` | violation, section 4 | 2 firewalls, clock to 3, creation timeout 2 |
| `firewall_recovers` | `OneMachine`, `NothingLeaks`, `NeverForgotten`, `EventuallyUp`, `RestartHandled`, `RollReachesSet`, `DeletionCompletes`, `TypeOK` | 2 machines, 1 change of any kind, 1 fault of any kind |
| `firewall_provisioned` | violation, section 4 | 1 machine |
| `importance` | `SortedByImportance`, `RolesKept` | every triple of firewalls with 5 levels, 2 weights, 2 distances, 2 ages |
| `update` | `OneUpdatePerRequest`, `FinalizerGuardsSets`, `MaintenanceCleanedUp`, `SpecCarriedOut`, `StatusCatchesUp`, `FullNotationUpdated`, `TypeOK` | 3 images, shorthand or full notation, two changes of any kind, or one and a fault; a cache that lags by any number of versions |
| `update_shorthand` | violation, section 4 | 2 images, one release, one request |
| `perimeter` | `AccessWorks`, `ConditionTruthful`, `CidrsConverge`, `AclFollows`, `TypeOK` | 2 changes of any kind, 1 failed call or restart, 1 address |

Why these bounds are enough to be of interest. Four sets leave room
for the oldest, the latest, one to be cleaned up and one too many. Two
overlapping changes give a rollout that is overtaken while it cleans up. One
fault at every place is the unit of "one step of several fails"; two changes and
a fault give a failure in an overtaken rollout. Two firewalls of a set are enough
for the surplus that a stale list makes of one, and for an active firewall and a
first backup; three make the rest, in `importance`.
Two machines are one that was allocated and one that should not have been. With a
clock to 2 and a timeout of 1 a firewall can fail, recover and fail again inside
and beyond the timeout; where the transition time is wrong this is enough to see
it, as the mutants show. One overtaken reconcile is enough to bring back a loss, see
`TimeoutsRespected` in section 4. Two changes of `update` give a release and a request, or
a change that comes in the middle of one. One address that comes and goes is
enough to tell new CIDRs from old ones. Two changes lose the shoot and need it, lose
it during a rollout, or take two tokens; with one of them an account is removed and,
by the next reconcile or webhook, created again.

Deadlock is checked except where the system may stop: the object under study is
deleted (`deployment_safety`, `deployment_converges`, `firewall_set_settles`,
`firewall_recovers`, `update`, `update_shorthand`), the sort is done (`importance`),
or everything has settled (`perimeter`).

Each property of each passing run has a mutant in `PROJECT.json`: a plausible
bug in one definition that makes TLC find the property violated. The "faulty
variants" in the modules are those; nothing else uses them.

## 4. What the code does otherwise than it says

Four runs are expected to end in a violation. Each checks one sentence of the
repository; `findings` quotes it.

* `deployment_lost_answer`: the safety backoff is noted after the create call.
  When its answer is lost and the cache lags, two sets get the same revision, and
  the ready one may be removed as an old one.
* `firewall_set_eager_timeout`: the creation timeout runs from the Ready
  condition; while there is none, it runs from the zero time and is over at once.
* `firewall_provisioned`: the status written at the end of a reconcile can undo
  a Provisioned condition set meanwhile.
* `update_shorthand`: an automatic update with the shorthand notation only sets
  the roll-set annotation, on the deployment, where nothing reads it: what
  `isNewSetRequired` looks at is the annotation of the set. The image stays.

More limits show when the constants of a passing run are widened, or are
written into a property as its precondition. They mark how far it goes:

* `ServiceKept` is about rollouts that are not overtaken: `disrupted`, a history
  variable, excepts the others. With overlapping changes a rollout keeps the
  oldest and the newest set only (`cleanupIntermediateSets`); the ready one may
  be neither.
* `OnePreferredSet` is checked without `"strategy"` among the disturbances. A
  strategy change is admitted by a published status that may be older than the
  spec, and Recreate turned into RollingUpdate at the wrong moment makes a second
  preferred set for the time of the rollout.
* `CreatesNoSurplus` is about lists that are current. A stale list makes surplus
  firewalls, which `EventuallySettled` shows to be removed again. Scale down
  counts terminating firewalls and may take a live one before them.
* `FinalizerGuardsSets` of `Update` is about deployments for which nobody asked
  for maintenance: the update controller, once it is started for a terminating
  deployment, has nothing to delete and removes the shared finalizer. The sets
  are then garbage collected.
* `TimeoutsRespected` excepts a recovery that was overwritten (`takenBack`). Without
  the exception TLC finds it violated: a firewall loses its connection and gets it
  back, which the monitor controller records; a reconcile of the firewall controller
  that began in between writes its copy of the status, with the loss and its
  transition time, and the timeout controller deletes the firewall at once. It is the
  overwrite that `firewall_provisioned` shows, with a firewall as its price.
  `OverdueReplaced` counts from a loss that neither the
  cache nor a reconcile in progress contradicts.
* `AccessWorks` and `AclFollows` except what `revoked` and `missed` record.
  `AccessWorks` is about the user data that is rendered for the next firewalls, and
  about the objects behind it.
* `CidrsConverge` excepts a shoot that is lost while old sets are waited for. Then
  their firewalls cannot finish their deletion, and no reconcile of the deployment
  comes to the CIDRs any more.

## 5. Fairness

Liveness is checked under `FairSpec` (and `RecoveringSpec`), and nothing more
than the scheduling of the code justifies:

* *Weak fairness of each reconciler as a whole*: the work queue retries with
  backoff, requeues and resyncs every 10 minutes. In `Firewall` and `Update` this
  is not assumed of the queue: a reconcile begins only when the object is queued.
  That the bit is set again is the property `NeverForgotten` of `Firewall`; in
  `Update` the events do it, which the predicates filter.
* *Strong fairness of `Refresh`*: it needs an idle reconciler, but the informer
  fills the cache independently of that; a cache that lags through every single
  reconcile is excluded.
* *Weak fairness of `BackoffExpires`, `Tick`*: time passes. `BackoffExpires`
  also assumes that the cache shows a set before the backoff (10 s) is over.
* *Weak fairness of the layer below and of the garbage collector*: sets report
  and terminating objects go away. `RecoveringSpec` adds that firewalls come up.
  Setbacks count as disturbances there, so that they end.
* *Strong fairness of handling the restart annotation*: removing it conflicts
  with any status update in between. The monitor controller, the only other
  writer, runs when a monitor changes and every two minutes, and does not hit
  that window each time.
* *`Update`*: weak fairness of `Deliver` (a watch delivers every version) and of
  `SetEvent` (owned sets report or are resynced every ten minutes). Nothing is
  assumed of the update controller's events: a resync does not start it.
* *`Perimeter`*: weak fairness of the reconcile, of the webhook (a rejected
  deployment is submitted again), of Kubernetes issuing tokens, of the updater's
  ticker, of the extension and the cache; a rollout ends while the shoot can be
  reached, and only then.

## 6. Proofs

`DeploymentProofs` and `RolloutProofs` prove, for every number of sets, images,
changes, faults and for each choice of the flags:

* `TypeCorrect`: `Spec => []TypeOK`.
* `RevisionInvariant`: `RevisionInv` is an invariant, provided that answers of
  create calls are not lost (`"lostAnswer" \notin Faults`).
* `RevisionsStayUnique`: from it, `RevisionsUnique`.
* `NewestIsSpared`: from it, the action property `NewestSurvives`.
* `FinalizerOutlivesSets`: from it, the action property `FinalizerGuardsSets`.
* `ObservedRevisionNeverGoesBack`: from it and `Tracked`, the action property
  `ObservedRevisionGrows`.
* `DeploymentImplementsRollout`: every behaviour of `Deployment` is one of
  `Rollout`, the property `ImplementsRollout` of the run.
* `PreferredSetIsUnique`: `OnePreferredSet`, while users leave the strategy alone
  (`"strategy" \notin Disturbances`).
* `SetsStayBounded`: `SetsBounded`, also where an answer is lost.
* `RollingUpdateKeepsService`: the action property `ServiceKept`, while nobody
  scales to zero (`0 \notin ReplicaCounts`). Changes of the strategy are allowed.

The assumptions are `ConstantsAssumption`, for all but `TypeCorrect` and
`SetsStayBounded` that no answer is lost, and the two in brackets. They are needed:
with a lost answer TLC finds each of these properties violated (the run
`deployment_lost_answer` is the case of `ServiceKept`), two preferred sets when
the strategy changes, and a service that ends when somebody scales to zero.

Why a strengthening is needed. Uniqueness of revisions says nothing of the list
the next revision is counted from, and a stale list is where a duplicate would
come from. `RevisionInv` therefore adds:

* `ViewIsCurrent`: while no backoff runs, the list shows every existing set, and
  what it shows of a revision is true;
* `LatestIsNewest`: the newest set of the reconcile is a newest one of the list;
* `ALeaderLives`: some live set is at least as new as all others, existing or
  listed, and newer than everything about to be deleted;
* `ListedUnique`: the list has no duplicates either.

So a set is only created when the list is complete, it gets a revision above all
of them, and the backoff covers the time until the list is complete again. For
the same reason an empty list outside the backoff means that no set exists, which
is what the finalizer needs. `ALeaderLives` carries `NewestIsSpared`: what is
doomed is older than the leader, also when it was doomed by an old list. The
leader is kept as long as the deployment is `Managed`: it is not being deleted, or
a reconcile that began before is not over. `WorkIsGuarded` says that such a
reconcile runs under the finalizer. `Tracked` carries the observed revision: while
anything may be published, what was published is not above the list.

For the last three theorems what is added is how far the reconcile is with it:

* `StagingInv` (one preferred set). A set counts as `Preferable` if no more than
  readiness or replicas keep it from being preferred: by its distance in a rolling
  update, by its replicas in a recreate. At most one set is; one that the list
  hides is not, unless nothing is listed. `StagedWork` gives the reason: a reconcile
  that waits for a deletion never gets past it, and what makes a set preferable,
  synchronising under Recreate and the swap under RollingUpdate, is only reached
  when the newest set is the only listed one.
* `BoundedInv` (bounded sets) needs no unique revisions, only `LatestIsNewest`, which
  no lost answer touches (`LatestStaysNewest`). One set beyond the bound is live only
  while the reconcile that created it stands before the first of its deletions: if
  a set it decided to delete is not live any more, or nothing had to be deleted,
  the list was that much longer than what exists. A failure at this place leaves
  the surplus behind, and is counted. `ListedLive` says that terminating sets do not
  come back. The list may miss sets: `Hidden` are the live ones it does not show as
  live, and there are no more of them than failures, and one that the backoff is
  armed for (`Covered`). They count with the listed ones, so that a set created
  beside them still fits.
* `SteadyInv` (service), as long as nothing is `disrupted`. There is one set
  (`Alone`), or an old one that the list still shows and the wanted one that
  replaces it (`Arriving`); copies in the list may be old but do not mislead
  (`CopiesAgree`); a creation that the backoff does not stop is the one rollout
  that is due (`CreationDue`); a reconcile that works for an outdated strategy has
  one set only (`UpdateInPlace`); and what is doomed leaves a ready set behind
  (`ServiceSpared`). A user's change comes in when the deployment has `Converged`,
  which leaves `Alone` of these shapes, and `ALeaderLives` keeps that set from
  being deleted by a reconcile that began before.

For the refinement, `HiddenInv` adds that at most one existing set is missing
from the list, and none before the finalizer is there. `RolloutProofs` then maps
each action: a creation joins (its revision is one above the newest, which the
complete list shows), a deletion leaves or vanishes (the leader stays), the
garbage collector vanishes, the two ends of the life cycle are `Delete` and
`Finish`, and every other step is a stutter. As revisions are unique, a set and
its member correspond one to one.

The proofs are one lemma per action (`BeginRevisions`, `CreateRevisions`, ...),
each with one step per conjunct it can disturb.

`FirewallStatusProofs` holds what the operators on conditions return and preserve:
`SetConditions` keeps types and changes a transition time only with the status,
and `Provisioned` is only ever set by a firewall whose conditions all hold.

`ImportanceProofs`, for every slice that `sort.Slice` sorts by insertion (up to 12
firewalls), every set of conditions, weights and ages:

* `SortingOrders`: `SortedByImportance`. `Rank` makes one number of a condition and
  the distance; with it `less` is lexicographic, total and transitive although it
  holds both ways of equal firewalls (`LessIsLexicographic`, `LessIsTotal`,
  `LessIsTransitive`), and that is all the sort needs. `ImportanceInv` is its loop
  invariant: the places up to `i` are in order but for the firewall at `j`, which
  belongs before those that it has passed.
* `StaggeringKeepsRoles`: `RolesKept`. `StaggeringConfirms` shows that the new
  distances put a firewall that is among the first two before all later ones,
  unless neither has a machine and both are of one age; `RolesMarked` carries that
  through the second sort.

`FirewallSetProofs`, for every number of firewalls and replicas, every timeout and
a clock without an end:

* `TypeCorrect`, with the distances in their range however roles are swapped.
* `NoSurplusCreated`: `CreatesNoSurplus`. The invariant is `ListInv`: a list that
  was current when the reconcile began still covers all firewalls that are owned
  (`Covers`), since all others only take firewalls away, and a creation is only due
  while that list is shorter than the replicas.
* `TimeoutsAreRespected`: `TimeoutsRespected`, with the creation timeout switched
  off (`CreateTimeout = 0`), as in the run; `firewall_set_eager_timeout` shows why
  this is assumed. `HealthInv` is about three statuses: of a firewall, of its copy in
  the list (`Truthful`), and of the copy the firewall controller works on (`UpToDate`).
  A condition that does not hold on a provisioned firewall was lost no earlier than
  the firewall was last recorded to work, unless such a record was written since the
  copy was read (`recovered`) or has been overwritten (`takenBack`).

`FirewallProofs`, for every number of machines, changes and failures:
`TypeCorrect`, `OneMachineEver` (`OneMachine`), `DeletionIsComplete`
(`NothingLeaks`), `FirewallStaysQueued` (`NeverForgotten`). `FirewallInv` adds what
the lines in between rely on: no machine is there while one is being allocated
(lookups in the metal-api show every allocation, also one whose answer was lost),
a firewall without a finalizer has neither machine nor monitor, the deletion flow
frees all that exists, and a reconcile that is not requeued has queued the firewall
by removing an annotation.

`UpdateProofs`, for every number of releases and any lag of the cache:

* `TypeCorrect`: with it, a copy that is taken for current is what the API holds.
* `OneUpdateEach`: `OneUpdatePerRequest`. The invariant `Account` is a balance: the
  updates made, the one that is queued or in progress, and the requests in versions
  that are not delivered yet are together no more than what was asked for.
* `SetsAreGuarded`: `FinalizerGuardsSets`. `Protected` says that whoever has seen
  the finalizer, in the log or in a copy, belongs to a deployment that still has it
  or is gone; `Asleep` that nothing wakes the update controller without a request.

`PerimeterProofs`, for every number of addresses, changes and failures:
`TypeCorrect`, and the safety that two liveness properties rest on.
`FirewallsHoldTheTokens`: the user data has the tokens of the secrets, and they are
accepted, unless one died that had been read for it, or had died before
(`revoked`). `TokenRead` adds the token that an admission has read but not yet used;
`TokensBacked`, a part of the theorem, that an accepted token has its secret and the
account it was issued for, which is why nothing but a removal makes one die. `ExtensionIsTold`: the ACL extension has the published CIDRs, is told of
them, or will be, unless that call was missed (`missed`). So `AccessWorks` and
`AclFollows` need fairness for the progress only: nothing is ever forgotten.

The assumptions are those on the constants, named in the modules, and the ones
stated above.
Run `tlapm` on each of the proof modules to check them.

## 7. Only model-checked

All liveness properties, which depend on fairness: TLAPS proves no liveness under
fairness and no `ENABLED`. Their safety half is proved where it can be told apart
(`FirewallsHoldTheTokens`, `ExtensionIsTold`, `FirewallStaysQueued`). Each safety
invariant and each safety action property that a passing run checks is a theorem.

## 8. Bounds that are assumptions

* In `FirewallSet` the number of stale lists and, as `MaxOvertaken`, of reconciles
  that others get in the way of, see there.
* In `FirewallSet` the clock stops at `MaxTime`; timeouts are at most as long.
* `Update` numbers the patch versions of one operating system; a release is
  always newer.
* `Access` issues tokens without an end; the disturbances bound them.

## 9. Not modelled

* **Two managers at once.** Leader election is a flag, taken to be set.
* **Edits by hand** of revision annotations, of sets, of monitors; a set whose
  revision cannot be parsed.
* **Configuration, defaulting of plain fields, field validation, deep copies**:
  pure data. What the flags mean is a constant of the modules.
* **Content** of tags, keys, networks, roles and egress rules: one value each
  (`Rules`, `Config`, `Addresses`), told apart only where a change must be carried
  over. Networks and shoot access in the status of a firewall are left out, and so
  is the assembly of kubeconfigs.
* **The no-controller-connection annotation**, which the set passes on to its
  firewalls: the constant case of `SetFirewallStatusFromMonitor`.
* **What a deleted deployment leaves behind**: no code removes its RBAC objects or
  its egress CIDRs.
* **The shoot manager that gives up** when it cannot fill its caches, and ends the
  process with it; metrics and health checks.
* **The controller on the firewall** is the environment of `Firewall`. It is taken
  not to support distances, so its Distance condition follows its reports.
* **An allocation that takes effect after its call has failed**, and after the
  lookup of the deletion flow: the machine would stay allocated.
* **Requeue times**: reconcilers may always run, or run when queued. That a
  creation timeout is only noticed at the next event is listed as a hazard.
* **All layers in one state space.** `Deployment`, `FirewallSet` and `Firewall` are
  composed by their environments (section 2), not multiplied: a deployment with
  two sets of two firewalls is beyond TLC with the calls kept apart.
