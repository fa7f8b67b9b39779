------------------------------ MODULE Firewall ------------------------------
(***************************************************************************)
(* The firewall controller (src/controllers/firewall) and the firewall     *)
(* monitor controller (src/controllers/monitor): one Firewall in the seed, *)
(* its machines in the metal-api, its FirewallMonitor in the shoot, and    *)
(* the two reconcilers that write the Firewall's status.                   *)
(*                                                                         *)
(* A reconcile is split at its calls to the three APIs.  It ends by        *)
(* overwriting the status with a copy that it read at its start.           *)
(*                                                                         *)
(* Failures covered: calls that fail, an allocation whose answer is lost,  *)
(* status updates that are rejected, restarts, machines that die, crash or *)
(* are freed by hand, a controller on the firewall that stops reporting.   *)
(* Not covered: two managers at once, an allocation that takes effect only *)
(* after its call has failed, other firewalls of the same name, a shoot    *)
(* whose monitors are deleted by hand.                                     *)
(*                                                                         *)
(* Abstractions: config stands for the SSH keys and the tags of a machine; *)
(* times of the last report are recent or old; the controller on the       *)
(* firewall does not support distances; networks and shoot access in the   *)
(* status are left out; the work queue is one bit, delays do not count.    *)
(* The machine lookup is cached by the pointer of the object that was just *)
(* read, so that every lookup asks the metal-api.                          *)
(***************************************************************************)
EXTENDS FirewallStatus, FiniteSets

CONSTANTS
  Machines,         \* machines of the metal-api that may become this firewall
  None,             \* no machine
  Configs,          \* values of the SSH keys and tags asked for
  Disturbances,     \* kinds of outside changes that may happen
  MaxDisturbances,  \* bound on their number
  Faults,           \* kinds of failures that may happen
  MaxFaults         \* bound on their number

ASSUME ConstantsAssumption ==
  /\ None \notin Machines /\ IsFiniteSet(Machines)
  /\ Configs # {}
  /\ MaxDisturbances \in Nat /\ MaxFaults \in Nat

VARIABLES
  fw,            \* the Firewall: life cycle, finalizer, annotation, spec
  status,        \* its status
  machines,      \* the machines in the metal-api
  mon,           \* the FirewallMonitor
  work,          \* the reconcile of the firewall in progress
  update,        \* the reconcile of the monitor in progress
  rolled,        \* the firewall's set is annotated for a roll
  queued,        \* the firewall is in the work queue or waits for its requeue
  disturbances,  \* outside changes so far
  faults         \* failures so far

vars == <<fw, status, machines, mon, work, update, rolled, queued, disturbances,
          faults>>
env == <<rolled, disturbances, faults>>

-----------------------------------------------------------------------------
(* Objects *)

FirewallObject ==
  [phase : {"present", "terminating", "gone"}, finalizer : BOOLEAN, restart : BOOLEAN,
   config : Configs]

StatusObject ==
  [state : Phases, conds : [ConditionTypes -> Condition], machine : Machines \cup {None}]

\* Of a partial machine essential fields are missing.
MachineObject ==
  [alloc : {"free", "allocated"}, config : Configs,
   health : {"partial", "progressing", "ready", "dead", "crashing"}]

Reporting == [NoController EXCEPT !.present = TRUE, !.shoot = "recent", !.seed = "recent"]
ControllerStatuses ==
  {NoController, Reporting, [Reporting EXCEPT !.shoot = "old"], [Reporting EXCEPT !.seed = "old"]}

MonitorObject ==
  [phase : {"absent", "present", "terminating"}, finalizer : BOOLEAN, restart : BOOLEAN,
   roll : BOOLEAN, cs : ControllerStatuses]

Work ==
  [pc : {"idle", "restart", "unmark", "lookup", "allocate", "sync", "monitor", "write",
         "delMonitor", "delLookup", "free", "finalize"},
   status : StatusObject, config : Configs, found : Machines \cup {None}, doomed : SUBSET Machines,
   requeue : BOOLEAN]

Update ==
  [pc : {"idle", "write", "annotate", "unmark"}, read : StatusObject, new : StatusObject,
   object : FirewallObject, monitor : MonitorObject]

NoStatus == [state |-> "", conds |-> [ct \in ConditionTypes |-> Missing], machine |-> None]
AnyConfig == CHOOSE c \in Configs : TRUE
FreeMachine == [alloc |-> "free", config |-> AnyConfig, health |-> "progressing"]
NoMonitor == [phase |-> "absent", finalizer |-> FALSE, restart |-> FALSE, roll |-> FALSE,
              cs |-> NoController]
Idle == [pc |-> "idle", status |-> NoStatus, config |-> AnyConfig, found |-> None, doomed |-> {},
         requeue |-> TRUE]
UpdateIdle(object) ==
  [pc |-> "idle", read |-> NoStatus, new |-> NoStatus, object |-> object, monitor |-> NoMonitor]

Shown == {m \in Machines : machines[m].alloc = "allocated"}

\* Times are not modelled here: conditions are set at time 0.
With(st, holds) == [st EXCEPT !.conds = SetConditions(@, holds, 0)]

-----------------------------------------------------------------------------
(* The firewall controller *)

\* Faulty variant: the machine of the status is trusted, the search is skipped.
ByStatusOnly(st) == IF st.machine = None THEN {} ELSE Shown \cap {st.machine}

\* Faulty variant: the machine of the status is not checked to be allocated.
UncheckedMachine(st) == IF st.machine # None THEN {st.machine} ELSE Shown

\* The lookup: the machine named by the status if it still is this firewall's,
\* otherwise a search by name, project and tag.
Lookup(st) == IF st.machine \in Shown THEN {st.machine} ELSE Shown

\* The change of a Firewall that brings it into the work queue: an update of
\* its spec, a deletion, or a change of its annotations.  Faulty variant: the
\* annotations are not watched.
GenerationOnly(old, new) == old.config # new.config \/ old.phase # new.phase
Watched(old, new) ==
  old.config # new.config \/ old.phase # new.phase \/ old.restart # new.restart

Begin ==
  /\ work.pc = "idle" /\ queued
  /\ queued' = FALSE
  /\ LET w == [Idle EXCEPT !.status = status, !.config = fw.config]
     IN \/ /\ fw.phase = "present"
           /\ fw' = [fw EXCEPT !.finalizer = TRUE]
           /\ work' = [w EXCEPT !.pc = IF fw.restart THEN "restart" ELSE "lookup"]
        \/ /\ fw.phase = "terminating"
           /\ work' = [w EXCEPT !.pc = "delMonitor"]
           /\ UNCHANGED fw
  /\ UNCHANGED <<status, machines, mon, update, env>>

\* Faulty variant: a monitor that does not exist is an error.
PassToMonitorOnly ==
  /\ work.pc = "restart"
  /\ mon' = IF mon.phase = "absent" THEN mon ELSE [mon EXCEPT !.restart = TRUE]
  /\ work' = [work EXCEPT !.pc = IF mon.phase = "absent" THEN "write" ELSE "unmark"]
  /\ UNCHANGED <<fw, status, machines, update, queued, env>>

\* The restart annotation is handed to the monitor, if there is one, ...
PassRestart ==
  /\ work.pc = "restart"
  /\ mon' = IF mon.phase = "absent" THEN mon ELSE [mon EXCEPT !.restart = TRUE]
  /\ work' = [work EXCEPT !.pc = "unmark"]
  /\ UNCHANGED <<fw, status, machines, update, queued, env>>

\* ... and removed, unless the firewall was changed since it was read.  The
\* requeue after 0 seconds is none; what brings the firewall back into the queue
\* is the change of its annotations.
RemoveRestart ==
  LET current == fw.phase = "present" /\ fw.config = work.config /\ status = work.status IN
  /\ work.pc = "unmark"
  /\ fw' = IF current THEN [fw EXCEPT !.restart = FALSE] ELSE fw
  /\ queued' = (queued \/ Watched(fw, fw'))
  /\ work' = [work EXCEPT !.pc = "write", !.requeue = ~current]
  /\ UNCHANGED <<status, machines, mon, update, env>>

\* One machine was found: what the reconcile makes of its state.
Inspected(st, m) ==
  LET created == With([st EXCEPT !.state = IF @ = "" THEN "Creating" ELSE @],
                      [ct \in {"Created"} |-> TRUE])
      Ready(b) == With(created, [ct \in {"Ready"} |-> b])
  IN CASE machines[m].health = "partial" -> created
       [] machines[m].health = "ready" -> [Ready(TRUE) EXCEPT !.state = "Running"]
       [] machines[m].health \in {"progressing", "dead"} -> Ready(FALSE)
       [] machines[m].health = "crashing" -> [Ready(FALSE) EXCEPT !.state = "Crashing"]

FindMachine ==
  LET found == Lookup(work.status)
      st == work.status
  IN /\ work.pc = "lookup"
     /\ \/ /\ found = {}
           /\ work' = [work EXCEPT !.pc = "allocate", !.status.state = "Creating"]
        \/ \E m \in found :
             /\ found = {m}
             /\ work' = [work EXCEPT !.found = m, !.status = Inspected(st, m),
                          !.pc = IF machines[m].health = "ready" THEN "sync" ELSE "monitor"]
        \/ /\ Cardinality(found) > 1
           /\ work' = [work EXCEPT !.pc = "monitor",
                                   !.status = With(st, [ct \in {"Created"} |-> FALSE])]
     /\ UNCHANGED <<fw, status, machines, mon, update, queued, env>>

createFirewall(m) ==
  /\ work.pc = "allocate" /\ machines[m].alloc = "free"
  /\ machines' = [machines EXCEPT ![m] = [FreeMachine EXCEPT !.alloc = "allocated",
                                                            !.config = work.config]]
  /\ work' = [work EXCEPT !.pc = "monitor", !.found = m,
                          !.status = With(work.status, [ct \in {"Created"} |-> TRUE])]
  /\ UNCHANGED <<fw, status, mon, update, queued, env>>

\* syncTags and syncSSHPubKey of a ready firewall.
SyncMachine ==
  /\ work.pc = "sync"
  /\ machines' = IF work.found \in Shown
                 THEN [machines EXCEPT ![work.found].config = work.config] ELSE machines
  /\ work' = [work EXCEPT !.pc = "monitor"]
  /\ UNCHANGED <<fw, status, mon, update, queued, env>>

\* The deferred part: setStatus, ensureFirewallMonitor, and the conditions that
\* come from the monitor.
WithMachine(w) ==
  IF w.found = None \/ (w.found # None /\ machines[w.found].health = "partial") THEN w.status
  ELSE [w.status EXCEPT !.machine = w.found]

FromMonitor(st, cs) ==
  [st EXCEPT !.conds = SetFirewallStatusFromMonitor(@, cs, FALSE, 0, 0)]

ensureFirewallMonitor ==
  /\ work.pc = "monitor"
  /\ mon' = IF mon.phase = "absent" THEN [NoMonitor EXCEPT !.phase = "present"] ELSE mon
  /\ work' = [work EXCEPT !.pc = "write", !.status = FromMonitor(WithMachine(work), mon'.cs)]
  /\ UNCHANGED <<fw, status, machines, update, queued, env>>

\* The status of the object, read again for its version, is overwritten.  The
\* firewall is requeued, unless its restart annotation was removed.
WriteStatus ==
  /\ work.pc = "write"
  /\ status' = IF fw.phase = "gone" THEN status ELSE work.status
  /\ work' = Idle
  /\ queued' = (queued \/ work.requeue)
  /\ UNCHANGED <<fw, machines, mon, update, env>>

\* Faulty variants: a monitor that is not found is an error; the monitor is not
\* waited for.
DeleteMonitorForEver ==
  /\ work.pc = "delMonitor"
  /\ mon' = IF mon.finalizer THEN [mon EXCEPT !.phase = "terminating"] ELSE NoMonitor
  /\ work' = Idle
  /\ queued' = TRUE
  /\ UNCHANGED <<fw, status, machines, update, env>>
DeleteMonitorAtOnce ==
  /\ work.pc = "delMonitor"
  /\ mon' = IF mon.finalizer THEN [mon EXCEPT !.phase = "terminating"] ELSE NoMonitor
  /\ work' = [work EXCEPT !.pc = "delLookup"]
  /\ UNCHANGED <<fw, status, machines, update, queued, env>>

\* The deletion flow: the monitor first, ...
deleteFirewallMonitor ==
  /\ work.pc = "delMonitor"
  /\ \/ /\ mon.phase = "absent"
        /\ work' = [work EXCEPT !.pc = "delLookup"]
        /\ UNCHANGED <<mon, queued>>
     \/ /\ mon.phase # "absent"
        /\ mon' = IF mon.finalizer THEN [mon EXCEPT !.phase = "terminating"] ELSE NoMonitor
        /\ work' = Idle
        /\ queued' = TRUE
  /\ UNCHANGED <<fw, status, machines, update, env>>

\* ... then every machine that is found, ...
FindDoomed ==
  /\ work.pc = "delLookup"
  /\ LET found == Lookup(work.status)
     IN work' = [work EXCEPT !.pc = IF found = {} THEN "finalize" ELSE "free", !.doomed = found]
  /\ UNCHANGED <<fw, status, machines, mon, update, queued, env>>

FreeFirewall(m) ==
  /\ work.pc = "free" /\ m \in work.doomed
  /\ machines' = [machines EXCEPT ![m] = FreeMachine]
  /\ work' = [work EXCEPT !.doomed = @ \ {m},
                          !.pc = IF work.doomed = {m} THEN "finalize" ELSE "free"]
  /\ UNCHANGED <<fw, status, mon, update, queued, env>>

\* ... and the finalizer.
RemoveFinalizer ==
  /\ work.pc = "finalize"
  /\ fw' = [fw EXCEPT !.finalizer = FALSE, !.phase = "gone"]
  /\ work' = Idle
  /\ UNCHANGED <<status, machines, mon, update, queued, env>>

FirewallController ==
  \/ Begin \/ PassRestart \/ RemoveRestart \/ FindMachine \/ SyncMachine
  \/ ensureFirewallMonitor \/ WriteStatus
  \/ deleteFirewallMonitor \/ FindDoomed \/ RemoveFinalizer
  \/ \E m \in Machines : createFirewall(m) \/ FreeFirewall(m)

-----------------------------------------------------------------------------
(* The monitor controller *)

\* The annotation of the monitor that asks for a roll of the set.
RollSetOf(u) ==
  IF u.monitor.roll THEN [u EXCEPT !.pc = "annotate"] ELSE UpdateIdle(u.object)

\* It computes the conditions from the monitor it reconciles and writes the
\* status back only if they changed, ...
ReadFirewall ==
  LET new == FromMonitor(status, mon.cs)
      u == [pc |-> "write", read |-> status, new |-> new, object |-> fw, monitor |-> mon']
  IN /\ update.pc = "idle" /\ mon.phase = "present" /\ fw.phase # "gone"
     /\ mon' = [mon EXCEPT !.finalizer = TRUE]
     /\ new # status \/ ~mon.finalizer \/ mon.roll
     /\ update' = IF new = status THEN RollSetOf(u) ELSE u
     /\ UNCHANGED <<fw, status, machines, work, queued, env>>

\* ... and only if the firewall is still the one that was read.
updateFirewallStatus ==
  LET current == status = update.read /\ fw = update.object IN
  /\ update.pc = "write"
  /\ status' = IF current THEN update.new ELSE status
  /\ update' = IF current THEN RollSetOf(update) ELSE UpdateIdle(update.object)
  /\ UNCHANGED <<fw, machines, mon, work, queued, env>>

\* Faulty variant: the firewall is annotated, not its set.
AnnotateFirewall ==
  /\ update.pc = "annotate"
  /\ update' = IF fw.phase = "gone" THEN UpdateIdle(update.object)
               ELSE [update EXCEPT !.pc = "unmark"]
  /\ UNCHANGED <<fw, status, machines, mon, work, rolled, queued, disturbances, faults>>

\* rollSetAnnotation: the set that the firewall belongs to is annotated, ...
AnnotateSet ==
  /\ update.pc = "annotate"
  /\ rolled' = (rolled \/ fw.phase # "gone")
  /\ update' = IF fw.phase = "gone" THEN UpdateIdle(update.object)
               ELSE [update EXCEPT !.pc = "unmark"]
  /\ UNCHANGED <<fw, status, machines, mon, work, queued, disturbances, faults>>

\* ... and the monitor unmarked, unless it was changed since it was read.
UnmarkMonitor ==
  /\ update.pc = "unmark"
  /\ mon' = IF mon = update.monitor THEN [mon EXCEPT !.roll = FALSE] ELSE mon
  /\ update' = UpdateIdle(update.object)
  /\ UNCHANGED <<fw, status, machines, work, queued, env>>

FinalizeMonitor ==
  /\ mon.phase = "terminating"
  /\ mon' = NoMonitor
  /\ UNCHANGED <<fw, status, machines, work, update, queued, env>>

MonitorController ==
  \/ ReadFirewall \/ updateFirewallStatus \/ AnnotateSet \/ UnmarkMonitor \/ FinalizeMonitor

-----------------------------------------------------------------------------
(* The machine, and the controller that runs on it *)

HasReadyMachine == \E m \in Shown : machines[m].health = "ready"

MachineUp(m) ==
  /\ m \in Shown /\ machines[m].health # "ready"
  /\ machines' = [machines EXCEPT ![m].health = "ready"]
  /\ UNCHANGED <<fw, status, mon, work, update, queued, env>>

ControllerReports ==
  /\ mon.phase = "present" /\ HasReadyMachine /\ mon.cs # Reporting
  /\ mon' = [mon EXCEPT !.cs = Reporting]
  /\ UNCHANGED <<fw, status, machines, work, update, queued, env>>

-----------------------------------------------------------------------------
(* Users, the metal-api and time *)

Disturb(kind) ==
  /\ kind \in Disturbances /\ disturbances < MaxDisturbances
  /\ disturbances' = disturbances + 1
  /\ UNCHANGED <<status, work, update, rolled, faults>>

ChangeConfig ==
  /\ Disturb("config")
  /\ fw.phase = "present"
  /\ \E c \in Configs \ {fw.config} : fw' = [fw EXCEPT !.config = c]
  /\ queued' = (queued \/ Watched(fw, fw'))
  /\ UNCHANGED <<machines, mon>>

RequestRestart ==
  /\ Disturb("restart")
  /\ fw.phase = "present" /\ ~fw.restart
  /\ fw' = [fw EXCEPT !.restart = TRUE]
  /\ queued' = (queued \/ Watched(fw, fw'))
  /\ UNCHANGED <<machines, mon>>

RequestRoll ==
  /\ Disturb("roll")
  /\ mon.phase = "present" /\ ~mon.roll
  /\ mon' = [mon EXCEPT !.roll = TRUE]
  /\ UNCHANGED <<fw, machines, queued>>

DeleteFirewall ==
  /\ Disturb("delete")
  /\ fw.phase = "present"
  /\ fw' = [fw EXCEPT !.phase = IF fw.finalizer THEN "terminating" ELSE "gone"]
  /\ queued' = (queued \/ Watched(fw, fw'))
  /\ UNCHANGED <<machines, mon>>

MachineFreedByHand(m) ==
  /\ Disturb("freed")
  /\ m \in Shown
  /\ machines' = [machines EXCEPT ![m] = FreeMachine]
  /\ UNCHANGED <<fw, mon, queued>>

MachineFails(m) ==
  /\ Disturb("machine")
  /\ m \in Shown
  /\ \E h \in {"dead", "crashing", "partial"} : machines' = [machines EXCEPT ![m].health = h]
  /\ UNCHANGED <<fw, mon, queued>>

ControllerStops ==
  /\ Disturb("controller")
  /\ mon.cs = Reporting
  /\ \E cs \in ControllerStatuses \ {NoController, Reporting} : mon' = [mon EXCEPT !.cs = cs]
  /\ UNCHANGED <<fw, machines, queued>>

Outside ==
  \/ ChangeConfig \/ RequestRestart \/ RequestRoll \/ DeleteFirewall \/ ControllerStops
  \/ \E m \in Machines : MachineFreedByHand(m) \/ MachineFails(m)

-----------------------------------------------------------------------------
(* Failures *)

Fail(kind) ==
  /\ kind \in Faults /\ faults < MaxFaults
  /\ faults' = faults + 1
  /\ UNCHANGED <<fw, rolled, disturbances>>

\* A call fails without effect.  Until the deferred part the reconcile goes on
\* there; a failed monitor leaves the conditions alone; a rejected status
\* update is only logged.
ApiError ==
  /\ Fail("apiError")
  /\ \/ /\ work.pc \in {"lookup", "sync"}
        /\ work' = [work EXCEPT !.pc = "monitor"]
        /\ UNCHANGED queued
     \/ /\ work.pc = "allocate"
        /\ work' = [work EXCEPT !.pc = "monitor",
                                !.status = With(@, [ct \in {"Created"} |-> FALSE])]
        /\ UNCHANGED queued
     \/ /\ work.pc = "monitor"
        /\ work' = [work EXCEPT !.pc = "write", !.status = WithMachine(work)]
        /\ UNCHANGED queued
     \/ /\ work.pc \in {"restart", "unmark"}
        /\ work' = [work EXCEPT !.pc = "write"]
        /\ UNCHANGED queued
     \/ /\ work.pc \in {"write", "delMonitor", "delLookup", "free", "finalize"}
        /\ work' = Idle
        /\ queued' = TRUE
  /\ UNCHANGED <<status, machines, mon, update>>

\* The same for the monitor controller, which starts again.
MonitorError ==
  /\ Fail("apiError")
  /\ update.pc # "idle"
  /\ update' = UpdateIdle(update.object)
  /\ UNCHANGED <<status, machines, mon, work, queued>>

\* An allocation takes effect although the call failed.
AllocationLost(m) ==
  /\ Fail("lostAnswer")
  /\ work.pc = "allocate" /\ machines[m].alloc = "free"
  /\ machines' = [machines EXCEPT ![m] =
        [FreeMachine EXCEPT !.alloc = "allocated", !.config = work.config]]
  /\ work' = [work EXCEPT !.pc = "monitor", !.status = With(@, [ct \in {"Created"} |-> FALSE])]
  /\ UNCHANGED <<status, mon, update, queued>>

\* A restart lists all firewalls again.
Restart ==
  /\ Fail("restart")
  /\ work' = Idle /\ update' = UpdateIdle(update.object) /\ queued' = TRUE
  /\ UNCHANGED <<status, machines, mon>>

-----------------------------------------------------------------------------

Init ==
  /\ \E c \in Configs :
       fw = [phase |-> "present", finalizer |-> FALSE, restart |-> FALSE, config |-> c]
  /\ status = NoStatus
  /\ machines = [m \in Machines |-> FreeMachine]
  /\ mon = NoMonitor
  /\ work = Idle /\ update = UpdateIdle(fw) /\ rolled = FALSE /\ queued = TRUE
  /\ disturbances = 0 /\ faults = 0

Next ==
  \/ FirewallController \/ MonitorController
  \/ ControllerReports
  \/ \E m \in Machines : MachineUp(m)
  \/ Outside
  \/ ApiError \/ MonitorError \/ Restart \/ \E m \in Machines : AllocationLost(m)

Spec == Init /\ [][Next]_vars

\* Both controllers keep running, machines come up, the controller on a
\* running machine reports.  Handling the restart annotation does not meet a
\* status update of the monitor controller each time it is tried: that one runs
\* when a monitor changes and every two minutes.
Fairness ==
  /\ WF_vars(FirewallController) /\ WF_vars(MonitorController) /\ WF_vars(ControllerReports)
  /\ SF_vars(PassRestart /\ status = work.status) /\ SF_vars(RemoveRestart /\ ~fw'.restart)
  /\ \A m \in Machines : WF_vars(MachineUp(m))

FairSpec == Spec /\ Fairness

-----------------------------------------------------------------------------
(* Properties *)

\* Every variable has its type and every bound is kept.
TypeOK ==
  /\ fw \in FirewallObject /\ status \in StatusObject
  /\ machines \in [Machines -> MachineObject] /\ mon \in MonitorObject
  /\ work \in Work /\ update \in Update /\ rolled \in BOOLEAN /\ queued \in BOOLEAN
  /\ disturbances \in 0..MaxDisturbances /\ faults \in 0..MaxFaults

\* A firewall is one machine, also when an allocation was not acknowledged or
\* the status that names the machine was never written (types_firewall.go,
\* "1:1 relationship").
OneMachine == Cardinality({m \in Machines : machines[m].alloc # "free"}) <= 1

\* When a firewall is gone its machines are freed and its monitor is deleted.
NothingLeaks ==
  fw.phase = "gone" =>
    mon.phase = "absent" /\ \A m \in Machines : machines[m].alloc = "free"

\* A firewall is never forgotten: it is always being reconciled or going to be,
\* so that a lost machine is noticed (comment of Reconcile).
NeverForgotten == fw.phase # "gone" /\ work.pc = "idle" => queued

\* Once a firewall was provisioned it stays so: that is what distinguishes a
\* degraded firewall from one under creation (types_firewall.go).
ProvisionedStays ==
  [][Holds(status.conds, "Provisioned") => Holds(status'.conds, "Provisioned")]_vars

\* The firewall works, and the status says so.
Up ==
  /\ status.machine \in Shown /\ Shown = {status.machine}
  /\ machines[status.machine].config = fw.config /\ machines[status.machine].health = "ready"
  /\ status.state = "Running" /\ \A ct \in ConditionTypes : Holds(status.conds, ct)

\* Whatever fails, is freed, changed or restarted: in the end the firewall works.
EventuallyUp == <>[](Up \/ fw.phase # "present")

\* A restart of services that was asked for reaches the monitor or is dropped
\* for want of one, and the firewall is unmarked.
RestartHandled == fw.restart ~> (~fw.restart \/ fw.phase # "present")

\* A roll that was asked for at the monitor reaches the set, before the monitor is
\* unmarked (types_annotations.go).
RollReachesSet == mon.roll ~> ((rolled /\ ~mon.roll) \/ mon.phase # "present")

\* A deleted firewall goes away, and its machines with it.
DeletionCompletes == fw.phase = "terminating" ~> fw.phase = "gone"
=============================================================================
