----------------------------- MODULE FirewallSet -----------------------------
(***************************************************************************)
(* The firewall set controller (src/controllers/set) and the timeout       *)
(* controller (src/controllers/timeout): one FirewallSet, the Firewalls it *)
(* owns or may adopt, the reconciler that adopts, synchronises, creates    *)
(* and deletes them, and the second reconciler that deletes those whose    *)
(* timeout is over.  Of the firewall controller and the monitor controller *)
(* it has what they do to the status the other two look at: the first      *)
(* overwrites it with the copy it read when its reconcile began, the       *)
(* second changes the connection conditions only.                          *)
(*                                                                         *)
(* All work from data that ages while they run: every API call is a step   *)
(* of its own.  Failures covered: a stale list cache, a call that fails, a *)
(* restart between two calls, firewalls deleted or orphaned by hand.  Not  *)
(* covered: a second set that adopts the same orphan, two managers at once.*)
(*                                                                         *)
(* Abstractions: what is to be seen of a firewall, in the metal-api and on *)
(* its monitor, is one of the states named in Reports; the controller on   *)
(* the firewall does not support distances, so the Distance condition is   *)
(* true once it reports; a reconcile that only hands a restart annotation  *)
(* on looks like one whose calls fail (see Firewall); the cache jumps to   *)
(* the present between two reconciles; events and requeues are replaced by *)
(* reconcilers that may always start.                                      *)
(***************************************************************************)
EXTENDS FirewallStatus, FiniteSets, SequencesExt

CONSTANTS
  Firewalls,        \* identities of Firewall objects
  ReplicaCounts,    \* replica counts asked for
  Distances,        \* distances asked for by the deployment controller
  Templates,        \* firewall templates asked for
  Weights,          \* values of the weight annotation
  Reports,          \* what may be found out about a firewall
  CreateTimeout,    \* --create-timeout, 0 is off
  HealthTimeout,    \* --firewall-health-timeout, 0 is off
  MaxTime,          \* bound on the clock
  CachedReads,      \* TRUE: lists come from the informer cache (main.go)
  Disturbances,     \* kinds of outside changes that may happen
  MaxDisturbances,  \* bound on their number
  MaxFaults,        \* bound on failed calls, restarts and stale lists
  MaxOvertaken,     \* bound on reconciles of a firewall that take several steps
  MonitorWrites     \* TRUE: the monitor controller also writes between reconciles

FirewallMaxReplicas == 4

ASSUME ConstantsAssumption ==
  /\ IsFiniteSet(Firewalls)
  /\ ReplicaCounts \subseteq 0..FirewallMaxReplicas /\ ReplicaCounts # {}
  /\ Distances \subseteq 0..FirewallLongestDistance /\ Distances # {}
  /\ Templates # {} /\ Weights \subseteq Int /\ 0 \in Weights
  /\ CreateTimeout \in Nat /\ HealthTimeout \in Nat /\ MaxTime \in Nat
  /\ CachedReads \in BOOLEAN /\ MaxDisturbances \in Nat /\ MaxFaults \in Nat
  /\ MaxOvertaken \in Nat /\ MonitorWrites \in BOOLEAN

VARIABLES
  set,           \* the FirewallSet: life cycle and spec
  status,        \* its published status
  fws,           \* the Firewalls in the API
  view,          \* the Firewalls as last listed
  work,          \* the reconcile of the set in progress
  overdue,       \* firewalls the timeout controller is about to delete
  copies,        \* statuses the firewall controller is working on
  now,           \* the time
  disturbances,  \* outside changes so far
  faults,        \* failures so far
  overtaken      \* reconciles of a firewall that took several steps

vars == <<set, status, fws, view, work, overdue, copies, now, disturbances, faults,
          overtaken>>
env == <<now, disturbances, faults, overtaken>>

-----------------------------------------------------------------------------
(* Objects *)

SetSpec == [replicas : 0..FirewallMaxReplicas, distance : 0..FirewallLongestDistance,
            template : Templates]

SetObject == [phase : {"present", "terminating", "gone"}, spec : SetSpec]

\* born is the creation timestamp.  Two fields are history the code does not
\* have: the last time at which the status was written with the firewall
\* working, and whether that was taken back by an older copy since.
FirewallObject ==
  [phase : {"absent", "live", "terminating"}, owned : BOOLEAN,
   distance : 0..FirewallLongestDistance, template : Templates, weight : Weights,
   born : 0..MaxTime, state : Phases, conds : [ConditionTypes -> Condition],
   goodAt : 0..MaxTime, takenBack : BOOLEAN]

\* A status between the read at the start of a reconcile of its firewall and
\* the write at its end; recovered, again history: a status in which the
\* firewall works was recorded in between.
Copy == [pc : {"idle", "read", "write"}, state : Phases,
         conds : [ConditionTypes -> Condition], recovered : BOOLEAN]

Counts == [ready : Nat, progressing : Nat, unhealthy : Nat, target : Nat]

\* current records whether the list was up to date when the reconcile began, a
\* history variable the code does not have.
Work ==
  [pc : {"idle", "adopt", "sync", "create", "delete", "status", "finalize"},
   target : SetSpec, current : BOOLEAN, orphans : SUBSET Firewalls, list : Seq(Firewalls),
   synced : Nat]

\* Templates are only compared: with which one a set begins is all the same.
AnySpec == [replicas |-> 0, distance |-> 0, template |-> CHOOSE t \in Templates : TRUE]

Absent ==
  [phase |-> "absent", owned |-> FALSE, distance |-> 0, template |-> AnySpec.template,
   weight |-> 0, born |-> 0, state |-> "", conds |-> [ct \in ConditionTypes |-> Missing],
   goodAt |-> 0, takenBack |-> FALSE]

NoCopy == [pc |-> "idle", state |-> Absent.state, conds |-> Absent.conds, recovered |-> FALSE]

Idle == [pc |-> "idle", target |-> AnySpec, current |-> FALSE, orphans |-> {}, list |-> <<>>,
         synced |-> 0]

Existing(v) == {f \in Firewalls : v[f].phase # "absent"}
Live(v) == {f \in Firewalls : v[f].phase = "live"}

\* GetOwnedResources: terminating firewalls are listed like all others.
Owned(v) == {f \in Existing(v) : v[f].owned}
Orphaned(v) == Existing(v) \ Owned(v)

\* Those a deletion is issued for.  Faulty variant: an inverted check.
DeletableTerminating(v) == Owned(v) \ Live(v)
Deletable(v) == Owned(v) \cap Live(v)

\* Faulty variant: the comparison is turned round.
LeastImportantFirst(v, S) ==
  {q \in SetToSeqs(S) :
     \A i, j \in DOMAIN q :
       i < j => less(v[q[j]], v[q[i]]) \/ ~less(v[q[i]], v[q[j]])}

\* The results of SortFirewallsByImportance; firewalls that agree in everything
\* come in any order.
SortFirewallsByImportance(v, S) ==
  {q \in SetToSeqs(S) :
     \A i, j \in DOMAIN q :
       i < j => less(v[q[i]], v[q[j]]) \/ ~less(v[q[j]], v[q[i]])}

Evaluated(fw, t) ==
  EvaluateFirewallStatus(fw.state, fw.conds, CreateTimeout, HealthTimeout, t)

-----------------------------------------------------------------------------
(* The reconciler of the set *)

\* Faulty variant: a set that is one short is taken for complete.
ScaleOffByOne(w) ==
  LET n == Len(w.list) IN
  CASE w.synced < n -> [w EXCEPT !.pc = "sync"]
    [] w.synced = n /\ n + 1 < w.target.replicas -> [w EXCEPT !.pc = "create"]
    [] w.synced = n /\ n > w.target.replicas -> [w EXCEPT !.pc = "delete"]
    [] OTHER -> [w EXCEPT !.pc = "status"]

\* The step that follows: firewalls to synchronise, then up, down or neither.
Proceed(w) ==
  LET n == Len(w.list) IN
  CASE w.synced < n -> [w EXCEPT !.pc = "sync"]
    [] w.synced = n /\ n < w.target.replicas -> [w EXCEPT !.pc = "create"]
    [] w.synced = n /\ n > w.target.replicas -> [w EXCEPT !.pc = "delete"]
    [] OTHER -> [w EXCEPT !.pc = "status"]

\* Faulty variant: terminating firewalls are left out of the amount.
CountLiveOnly(w, v) ==
  IF w.orphans # {} THEN {[w EXCEPT !.pc = "adopt"]}
  ELSE {Proceed([w EXCEPT !.list = q]) : q \in SortFirewallsByImportance(v, Deletable(v))}

\* Once the orphans are dealt with the firewalls are sorted.
Adopted(w, v) ==
  IF w.orphans # {} THEN {[w EXCEPT !.pc = "adopt"]}
  ELSE {Proceed([w EXCEPT !.list = q]) : q \in SortFirewallsByImportance(v, Owned(v))}

Elements(q) == {q[i] : i \in DOMAIN q}

\* A list call: it shows the firewalls as they are, or, from a cache, as they
\* were.  The cache is behind only so often.
ListFirewalls ==
  \/ view = fws /\ UNCHANGED faults
  \/ view # fws /\ CachedReads /\ faults < MaxFaults /\ faults' = faults + 1

Begin ==
  /\ work.pc = "idle" /\ set.phase = "present"
  /\ ListFirewalls
  /\ work' \in Adopted([Idle EXCEPT !.target = set.spec, !.current = (view = fws),
                                    !.orphans = Orphaned(view) \cap Live(view)], view)
  /\ UNCHANGED <<set, status, fws, view, overdue, copies, now, disturbances, overtaken>>

\* adoptFirewall: the list keeps the copies, with the new owner.  An orphan that
\* changed since it was listed is a conflict, which ends the reconcile.
adoptFirewall(f) ==
  LET rest == [work EXCEPT !.orphans = @ \ {f}] IN
  /\ work.pc = "adopt" /\ f \in work.orphans
  /\ \/ /\ fws[f] = view[f]
        /\ fws' = [fws EXCEPT ![f].owned = TRUE]
        /\ view' = [view EXCEPT ![f].owned = TRUE]
        /\ work' \in Adopted(rest, view')
     \/ /\ fws[f].phase = "absent"
        /\ work' \in Adopted(rest, view)
        /\ UNCHANGED <<fws, view>>
     \/ /\ fws[f].phase # "absent" /\ fws[f] # view[f]
        /\ work' = Idle
        /\ UNCHANGED <<fws, view>>
  /\ UNCHANGED <<set, status, overdue, copies, env>>

\* A firewall is read again before it is written; from a cache it may still be
\* the old copy, and the write is a conflict.
SyncFirewall ==
  LET i == work.synced + 1
      f == work.list[i]
  IN /\ work.pc = "sync"
     /\ \/ /\ fws[f].phase # "absent"
           /\ fws' = [fws EXCEPT ![f].template = work.target.template,
                                 ![f].distance = StaggeredDistance(work.target.distance, i)]
           /\ work' = Proceed([work EXCEPT !.synced = i])
        \/ /\ fws[f].phase = "absent" \/ (CachedReads /\ fws[f] # view[f])
           /\ work' = Idle
           /\ UNCHANGED fws
     /\ UNCHANGED <<set, status, view, overdue, copies, env>>

\* Names are random, an identity is used again only once nothing refers to it.
Fresh == Firewalls \ (Existing(fws) \cup Existing(view) \cup Elements(work.list)
                       \cup overdue \cup {f \in Firewalls : copies[f] # NoCopy})

createFirewall(f) ==
  /\ work.pc = "create" /\ f \in Fresh
  /\ fws' = [fws EXCEPT ![f] = [Absent EXCEPT
       !.phase = "live", !.owned = TRUE, !.distance = work.target.distance,
       !.template = work.target.template, !.born = now, !.goodAt = now]]
  /\ work' = Proceed([work EXCEPT !.list = Append(@, f), !.synced = @ + 1])
  /\ UNCHANGED <<set, status, view, overdue, copies, env>>

\* The bound on identities: a surplus creation fails like any other call.
OutOfNames ==
  /\ work.pc = "create" /\ Fresh = {}
  /\ work' = Idle
  /\ UNCHANGED <<set, status, fws, view, overdue, copies, env>>

\* Scale down: the last firewall goes, and the reconcile ends with a requeue
\* before it writes the status.
ScaleDown ==
  LET f == work.list[Len(work.list)] IN
  /\ work.pc = "delete"
  /\ fws' = IF view[f].phase = "live" /\ fws[f].phase # "absent"
            THEN [fws EXCEPT ![f].phase = "terminating"] ELSE fws
  /\ work' = Idle
  /\ UNCHANGED <<set, status, view, overdue, copies, env>>

\* setStatus evaluates the listed copies; a firewall that was just created
\* has an empty status.
setStatus ==
  LET Result(i) == Evaluated(view[work.list[i]], now).result
      Places(r) == {i \in DOMAIN work.list : Result(i) \in r}
  IN /\ work.pc = "status"
     /\ status' = [target |-> work.target.replicas,
                   ready |-> Cardinality(Places({"ready"})),
                   progressing |-> Cardinality(Places({"progressing"})),
                   unhealthy |-> Cardinality(
                      Places({"unhealthy", "create-timeout", "health-timeout"}))]
     /\ work' = Idle
     /\ UNCHANGED <<set, fws, view, overdue, copies, env>>

\* The deletion flow: all listed firewalls are deleted, the finalizer is
\* removed once none is listed.
Delete ==
  /\ work.pc = "idle" /\ set.phase = "terminating"
  /\ ListFirewalls
  /\ \/ /\ Deletable(view) # {}
        /\ work' = [Idle EXCEPT !.pc = "finalize", !.orphans = Deletable(view)]
        /\ UNCHANGED set
     \/ /\ Owned(view) = {}
        /\ set' = [set EXCEPT !.phase = "gone"]
        /\ UNCHANGED work
  /\ UNCHANGED <<status, fws, view, overdue, copies, now, disturbances, overtaken>>

deleteFirewall(f) ==
  /\ work.pc = "finalize" /\ f \in work.orphans
  /\ fws' = IF fws[f].phase = "absent" THEN fws ELSE [fws EXCEPT ![f].phase = "terminating"]
  /\ work' = IF fws[f].phase = "absent" \/ work.orphans = {f} THEN Idle
             ELSE [work EXCEPT !.orphans = @ \ {f}]
  /\ UNCHANGED <<set, status, view, overdue, copies, env>>

SetController ==
  \/ Begin \/ SyncFirewall \/ OutOfNames \/ ScaleDown \/ setStatus \/ Delete
  \/ \E f \in Firewalls : adoptFirewall(f) \/ createFirewall(f) \/ deleteFirewall(f)

-----------------------------------------------------------------------------
(* The timeout controller *)

IsTimeout(result) == result \in {"create-timeout", "health-timeout"}

CheckTimeouts ==
  /\ overdue = {} /\ set.phase = "present"
  /\ ListFirewalls
  /\ overdue' = {f \in Deletable(view) : IsTimeout(Evaluated(view[f], now).result)}
  /\ overdue' # {}
  /\ UNCHANGED <<set, status, fws, view, work, copies, now, disturbances, overtaken>>

DeleteOverdue(f) ==
  /\ f \in overdue
  /\ \/ /\ fws[f].phase # "absent"
        /\ fws' = [fws EXCEPT ![f].phase = "terminating"]
        /\ overdue' = overdue \ {f}
     \/ /\ fws[f].phase = "absent"
        /\ overdue' = {}
        /\ UNCHANGED fws
  /\ UNCHANGED <<set, status, view, work, copies, env>>

TimeoutController == CheckTimeouts \/ \E f \in Firewalls : DeleteOverdue(f)

-----------------------------------------------------------------------------
(* Time and the cache *)

Tick ==
  /\ now < MaxTime
  /\ now' = now + 1
  /\ UNCHANGED <<set, status, fws, view, work, overdue, copies, disturbances, faults, overtaken>>

Refresh ==
  /\ work.pc = "idle" /\ view # fws
  /\ view' = fws
  /\ UNCHANGED <<set, status, fws, work, overdue, copies, env>>

-----------------------------------------------------------------------------
(* The statuses of the firewalls *)

\* What there is to be seen of a firewall: what the metal-api says of the
\* machine, and what the monitor says of the controller that runs on it.
Machine(report) ==
  CASE report = "rejected" -> [ct \in {"Created"} |-> FALSE]
    [] report = "allocated" -> [ct \in {"Created"} |-> TRUE]
    [] report \in {"progressing", "notReady"} ->
         [ct \in {"Created", "Ready"} |-> ct = "Created"]
    [] OTHER -> [ct \in {"Created", "Ready"} |-> TRUE]

MachineState(report, state) ==
  CASE report \in {"rejected", "allocated"} -> "Creating"
    [] report \in {"booted", "working", "seedLost", "shootLost"} -> "Running"
    [] OTHER -> state

ControllerStatus(report) ==
  IF report \in {"rejected", "allocated", "progressing", "booted"} THEN NoController
  ELSE [NoController EXCEPT !.present = TRUE,
          !.shoot = IF report = "shootLost" THEN "old" ELSE "recent",
          !.seed = IF report = "seedLost" THEN "old" ELSE "recent"]

\* The reports follow the life of a machine: it is allocated in one reconcile,
\* may be seen to make progress and to boot before its controller connects;
\* later anything may fail.
Possible(fw, report) ==
  CASE report = "rejected" -> ~Holds(fw.conds, "Created")
    [] report = "allocated" -> ~Holds(fw.conds, "Created")
    [] report = "progressing" -> Holds(fw.conds, "Created") /\ fw.state = "Creating"
    [] report = "booted" -> fw.conds["Ready"].status = "False" /\ fw.state = "Creating"
    [] report = "working" -> Holds(fw.conds, "Created")
    [] OTHER -> Holds(fw.conds, "Provisioned")

\* The firewall controller has one worker, as all controllers here.
Free == \A f \in Firewalls : copies[f] = NoCopy

\* A reconcile looks at the machine and asks the monitor, unless one of the calls
\* fails, and sets the conditions on the copy of the status it began with.
Inspected(copy, report, looked, asked) ==
  LET conds == IF looked THEN SetConditions(copy.conds, Machine(report), now) ELSE copy.conds
  IN [copy EXCEPT
        !.pc = "write",
        !.state = IF looked THEN MachineState(report, @) ELSE @,
        !.conds = IF asked
                  THEN SetFirewallStatusFromMonitor(conds, ControllerStatus(report), FALSE, 0, now)
                  ELSE conds]

\* It ends by writing the copy over whatever the status has become.
Recorded(fw, copy) ==
  [fw EXCEPT !.state = copy.state, !.conds = copy.conds,
             !.goodAt = IF isProvisioned(copy.conds) THEN now ELSE @,
             !.takenBack = ~isProvisioned(copy.conds) /\ (@ \/ copy.recovered)]

CopyOf(fw, recovered) ==
  [pc |-> "read", state |-> fw.state, conds |-> fw.conds, recovered |-> recovered]

\* A reconcile in which no call fails and that nobody gets in the way of.
ReconcileFirewall(f) ==
  /\ Free /\ fws[f].phase = "live"
  /\ \E report \in Reports :
       /\ Possible(fws[f], report)
       /\ fws' = [fws EXCEPT ![f] = Recorded(@, Inspected(CopyOf(@, FALSE), report, TRUE, TRUE))]
  /\ UNCHANGED <<set, status, view, work, overdue, copies, env>>

\* Any other one takes three steps: the firewall is read, maybe from a cache ...
ReadFirewall(f) ==
  /\ Free /\ fws[f].phase # "absent"
  /\ overtaken < MaxOvertaken /\ overtaken' = overtaken + 1
  /\ \E fw \in {fws[f]} \cup (IF CachedReads THEN {view[f]} ELSE {}) :
       /\ fw.phase = "live"
       /\ copies' = [copies EXCEPT ![f] =
            CopyOf(fw, fw.goodAt # fws[f].goodAt \/ (fw.takenBack /\ ~fws[f].takenBack))]
  /\ UNCHANGED <<set, status, fws, view, work, overdue, now, disturbances, faults>>

\* ... the conditions are set on the copy ...
Inspect(f) ==
  /\ copies[f].pc = "read"
  /\ \E report \in Reports, looked, asked \in BOOLEAN :
       /\ Possible(fws[f], report)
       /\ copies' = [copies EXCEPT ![f] = Inspected(@, report, looked, asked)]
  /\ UNCHANGED <<set, status, fws, view, work, overdue, env>>

\* ... and the copy is written, also over what has changed since it was read.
WriteStatus(f) ==
  /\ copies[f].pc = "write"
  /\ fws' = [fws EXCEPT ![f] = Recorded(@, copies[f])]
  /\ copies' = [copies EXCEPT ![f] = NoCopy]
  /\ UNCHANGED <<set, status, view, work, overdue, env>>

\* The monitor is deployed by the first reconcile of the firewall.
Monitored(f) ==
  \E conds \in {fws[f].conds, copies[f].conds} : conds["Connected"].status # "Missing"

\* The monitor controller changes the connection conditions of the status it has
\* read, in the same instant as far as others can tell: its update is refused
\* when the firewall has changed meanwhile.
MonitorReports(f) ==
  /\ MonitorWrites /\ fws[f].phase # "absent" /\ Monitored(f)
  /\ \E report \in Reports :
       LET conds == SetFirewallStatusFromMonitor(
                      fws[f].conds, ControllerStatus(report), FALSE, 0, now)
       IN /\ Possible(fws[f], report) /\ conds # fws[f].conds
          /\ fws' = [fws EXCEPT ![f] = Recorded(@, [CopyOf(@, FALSE) EXCEPT !.conds = conds])]
          /\ copies' = [copies EXCEPT ![f].recovered =
               @ \/ (copies[f] # NoCopy /\ isProvisioned(conds))]
  /\ UNCHANGED <<set, status, view, work, overdue, env>>

\* The firewall comes up, without setbacks.
Advance(f) ==
  /\ Free /\ fws[f].phase = "live"
  /\ LET report == IF Holds(fws[f].conds, "Created") THEN "working" ELSE "allocated"
     IN /\ report \in Reports
        /\ \E copy \in {Inspected(CopyOf(fws[f], FALSE), report, TRUE, TRUE)} :
             fws' = [fws EXCEPT ![f] = Recorded(@, copy)]
  /\ UNCHANGED <<set, status, view, work, overdue, copies, env>>

\* The same worker has freed the machine.
FirewallFinalized(f) ==
  /\ Free /\ fws[f].phase = "terminating"
  /\ fws' = [fws EXCEPT ![f] = Absent]
  /\ UNCHANGED <<set, status, view, work, overdue, copies, env>>

GarbageCollect(f) ==
  /\ set.phase = "gone" /\ fws[f].phase = "live" /\ fws[f].owned
  /\ fws' = [fws EXCEPT ![f].phase = "terminating"]
  /\ UNCHANGED <<set, status, view, work, overdue, copies, env>>

-----------------------------------------------------------------------------
(* The deployment controller, users and failures *)

Disturb(kind) ==
  /\ kind \in Disturbances /\ disturbances < MaxDisturbances
  /\ disturbances' = disturbances + 1
  /\ UNCHANGED <<status, view, work, overdue, copies, now, faults, overtaken>>

ChangeSpec(new) ==
  /\ set.phase = "present" /\ new # set.spec
  /\ set' = [set EXCEPT !.spec = new]
  /\ UNCHANGED fws

Scale == Disturb("scale") /\ \E n \in ReplicaCounts : ChangeSpec([set.spec EXCEPT !.replicas = n])
SwapDistance ==
  Disturb("distance") /\ \E d \in Distances : ChangeSpec([set.spec EXCEPT !.distance = d])
ChangeTemplate ==
  Disturb("template") /\ \E t \in Templates : ChangeSpec([set.spec EXCEPT !.template = t])

DeleteSet ==
  /\ Disturb("delete")
  /\ set.phase = "present"
  /\ set' = [set EXCEPT !.phase = "terminating"]
  /\ UNCHANGED fws

SetWeight(f) ==
  /\ Disturb("weight")
  /\ fws[f].phase = "live"
  /\ \E n \in Weights : fws[f].weight # n /\ fws' = [fws EXCEPT ![f].weight = n]
  /\ UNCHANGED set

DeleteByHand(f) ==
  /\ Disturb("firewallDeleted")
  /\ fws[f].phase = "live"
  /\ fws' = [fws EXCEPT ![f].phase = "terminating"]
  /\ UNCHANGED set

Orphan(f) ==
  /\ Disturb("orphaned")
  /\ fws[f].phase = "live" /\ fws[f].owned
  /\ fws' = [fws EXCEPT ![f].owned = FALSE]
  /\ UNCHANGED set

Outside ==
  \/ Scale \/ SwapDistance \/ ChangeTemplate \/ DeleteSet
  \/ \E f \in Firewalls : SetWeight(f) \/ DeleteByHand(f) \/ Orphan(f)

\* Any call fails, or the manager is restarted.
Abort ==
  /\ faults < MaxFaults
  /\ faults' = faults + 1
  /\ work' = Idle /\ overdue' = {} /\ copies' = [f \in Firewalls |-> NoCopy]
  /\ UNCHANGED <<set, status, fws, view, now, disturbances, overtaken>>

-----------------------------------------------------------------------------

Init ==
  /\ \E n \in ReplicaCounts, d \in Distances :
       set = [phase |-> "present", spec |-> [AnySpec EXCEPT !.replicas = n, !.distance = d]]
  /\ status = [ready |-> 0, progressing |-> 0, unhealthy |-> 0, target |-> 0]
  /\ fws = [f \in Firewalls |-> Absent] /\ view = fws
  /\ work = Idle /\ overdue = {} /\ copies = [f \in Firewalls |-> NoCopy] /\ now = 0
  /\ disturbances = 0 /\ faults = 0 /\ overtaken = 0

Next ==
  \/ SetController \/ TimeoutController
  \/ Tick \/ Refresh
  \/ \E f \in Firewalls :
       \/ ReconcileFirewall(f) \/ ReadFirewall(f) \/ Inspect(f) \/ WriteStatus(f)
       \/ MonitorReports(f) \/ FirewallFinalized(f) \/ GarbageCollect(f)
  \/ Outside \/ Abort

Spec == Init /\ [][Next]_vars

\* Reconcilers come back (requeues, resync), time passes, the cache is filled,
\* a reconcile of a firewall that began ends and terminating firewalls go away.
Fairness ==
  /\ WF_vars(SetController) /\ WF_vars(TimeoutController) /\ WF_vars(Tick) /\ SF_vars(Refresh)
  /\ \A f \in Firewalls :
       /\ WF_vars(Inspect(f)) /\ WF_vars(WriteStatus(f))
       /\ WF_vars(FirewallFinalized(f)) /\ WF_vars(GarbageCollect(f))

\* Firewalls also come up.
Recovery == \A f \in Firewalls : WF_vars(Advance(f))

FairSpec == Spec /\ Fairness
RecoveringSpec == FairSpec /\ Recovery

-----------------------------------------------------------------------------
(* Properties *)

\* Every variable has its type and every bound is kept.
TypeOK ==
  /\ set \in SetObject /\ status \in Counts
  /\ fws \in [Firewalls -> FirewallObject] /\ view \in [Firewalls -> FirewallObject]
  /\ work \in Work /\ overdue \subseteq Firewalls /\ copies \in [Firewalls -> Copy]
  /\ now \in 0..MaxTime /\ disturbances \in 0..MaxDisturbances /\ faults \in 0..MaxFaults
  /\ overtaken \in 0..MaxOvertaken

\* A reconcile never creates firewalls beyond the amount it was asked for,
\* adopted ones and terminating ones counted, unless its list was out of date.
CreatesNoSurplus ==
  [][\A f \in Firewalls :
       fws[f].phase = "absent" /\ fws'[f].phase = "live" /\ work.current
         => Cardinality(Owned(fws')) <= work.target.replicas]_vars

\* The time for which a firewall may be out of order.
Patience(fw) == IF fw.state = "Running" THEN HealthTimeout ELSE CreateTimeout

\* A firewall is deleted for a timeout only after it was out of order for all
\* of that time, as far as the list shows, unless a recovery on record was taken
\* back by the firewall controller (main.go, types_firewall.go).
TimeoutsRespected ==
  [][\A f \in overdue' \ overdue :
       view[f].takenBack \/ now - view[f].goodAt > Patience(view[f])]_vars

\* The same for the creation timeout alone: a firewall gets that much time
\* before it is recreated (main.go, create-timeout).
CreateTimeoutRespected ==
  [][\A f \in overdue' \ overdue :
       view[f].state = "Creating" => now - view[f].born > CreateTimeout]_vars

\* A firewall whose controller lost its connection for good is replaced,
\* however often the loss is reported, once neither the cache nor a reconcile has
\* a status from before the loss (the clock must reach the deadline).
OverdueReplaced ==
  \A f \in Firewalls :
    /\ fws[f].phase = "live" /\ fws[f].owned /\ set.phase = "present"
    /\ view[f] = fws[f] /\ copies[f] = NoCopy
    /\ fws[f].state = "Running" /\ Holds(fws[f].conds, "Provisioned")
    /\ ~Holds(fws[f].conds, "SeedConnected")
    /\ fws[f].conds["SeedConnected"].since + HealthTimeout < MaxTime
    ~> \/ fws[f].phase # "live" \/ Holds(fws[f].conds, "SeedConnected")
       \/ set.phase # "present"

\* All firewalls are in place: the right number, from the current template,
\* one active and one first backup (unless both are at the limit), and counted
\* as ready.
Settled ==
  LET n == set.spec.replicas
      At(i) == {f \in Owned(fws) : fws[f].distance = StaggeredDistance(set.spec.distance, i)}
  IN /\ Cardinality(Owned(fws)) = n /\ Owned(fws) \subseteq Live(fws) /\ Orphaned(fws) = {}
     /\ \A f \in Owned(fws) : fws[f].template = set.spec.template
     /\ \A i \in 1..n : At(i) # {}
     /\ set.spec.distance < FirewallLongestDistance => \A i \in {1, 2} : Cardinality(At(i)) <= 1
     /\ status = [ready |-> n, progressing |-> 0, unhealthy |-> 0, target |-> n]

\* Whatever was scaled, changed, orphaned or deleted, the firewalls settle, and
\* the active one then stays the same.
EventuallySettled == <>[](Settled \/ set.phase # "present")
RolesSettle ==
  <>[][set.phase = "present" => \A f \in Firewalls : fws'[f].distance = fws[f].distance]_vars

\* A deleted set goes away, and with it all firewalls it controls.
DeletionCompletes ==
  set.phase = "terminating" ~> (set.phase = "gone" /\ Owned(fws) = {})
=============================================================================
