---------------------------- MODULE FirewallProofs ----------------------------
(***************************************************************************)
(* Proofs about the firewall controller and the monitor controller, for    *)
(* every number of machines, configurations, changes and failures.         *)
(***************************************************************************)
EXTENDS Firewall, FirewallStatusProofs, FiniteSetTheorems

-----------------------------------------------------------------------------
(* Types *)

LEMMA NoStatusType == NoStatus \in StatusObject
BY MissingType DEF NoStatus, StatusObject, Conditions, Phases

LEMMA WithType ==
  ASSUME NEW st \in StatusObject, NEW holds
  PROVE  /\ With(st, holds) \in StatusObject
         /\ With(st, holds).machine = st.machine
<1>1. st.conds \in Conditions
  BY DEF StatusObject, Conditions
<1>2. SetConditions(st.conds, holds, 0) \in Conditions
  BY <1>1, SetConditionsEffect
<1> QED
  BY <1>2 DEF With, StatusObject, Conditions

LEMMA FromMonitorStatusType ==
  ASSUME NEW st \in StatusObject, NEW cs
  PROVE  FromMonitor(st, cs) \in StatusObject
<1>1. st.conds \in Conditions
  BY DEF StatusObject, Conditions
<1>2. SetFirewallStatusFromMonitor(st.conds, cs, FALSE, 0, 0) \in Conditions
  <2>1. 0 \in Int
    OBVIOUS
  <2> QED
    BY <1>1, <2>1, FromMonitorType
<1> QED
  BY <1>2 DEF FromMonitor, StatusObject, Conditions

LEMMA AnyConfigType == AnyConfig \in Configs
BY ConstantsAssumption DEF AnyConfig

LEMMA ConstantTypes ==
  /\ FreeMachine \in MachineObject /\ NoMonitor \in MonitorObject /\ Idle \in Work
  /\ FreeMachine.alloc = "free" /\ NoMonitor.phase = "absent" /\ Idle.pc = "idle"
  /\ Reporting \in ControllerStatuses
<1>1. NoController \in ControllerStatuses /\ Reporting \in ControllerStatuses
  BY DEF ControllerStatuses
<1> QED
  BY <1>1, AnyConfigType, NoStatusType
     DEF FreeMachine, MachineObject, NoMonitor, MonitorObject, Idle, Work

LEMMA UpdateIdleType ==
  ASSUME NEW object \in FirewallObject
  PROVE  UpdateIdle(object) \in Update /\ UpdateIdle(object).pc = "idle"
BY NoStatusType, ConstantTypes DEF UpdateIdle, Update

LEMMA InspectedType ==
  ASSUME TypeOK, NEW st \in StatusObject, NEW m \in Machines
  PROVE  Inspected(st, m) \in StatusObject
<1> DEFINE begun == [st EXCEPT !.state = IF @ = "" THEN "Creating" ELSE @]
           created == With(begun, [ct \in {"Created"} |-> TRUE])
           Ready(b) == With(created, [ct \in {"Ready"} |-> b])
<1>1. begun \in StatusObject
  BY DEF StatusObject, Phases
<1>2. created \in StatusObject
  BY <1>1, WithType
<1>3. \A b \in BOOLEAN : Ready(b) \in StatusObject
  BY <1>2, WithType
<1>4. /\ [Ready(TRUE) EXCEPT !.state = "Running"] \in StatusObject
      /\ [Ready(FALSE) EXCEPT !.state = "Crashing"] \in StatusObject
  BY <1>3 DEF StatusObject, Phases
<1>5. machines[m].health \in {"partial", "progressing", "ready", "dead", "crashing"}
  BY DEF TypeOK, MachineObject
<1> HIDE DEF created, Ready
<1>6. \/ Inspected(st, m) = created
      \/ Inspected(st, m) = [Ready(TRUE) EXCEPT !.state = "Running"]
      \/ Inspected(st, m) = Ready(FALSE)
      \/ Inspected(st, m) = [Ready(FALSE) EXCEPT !.state = "Crashing"]
  BY <1>5 DEF Inspected, created, Ready
<1> QED
  BY <1>2, <1>3, <1>4, <1>6

LEMMA WithMachineType ==
  ASSUME TypeOK
  PROVE  WithMachine(work) \in StatusObject
BY DEF TypeOK, Work, WithMachine, StatusObject

-----------------------------------------------------------------------------
(* Type correctness *)

LEMMA InitType == Init => TypeOK
<1> SUFFICES ASSUME Init PROVE TypeOK
  OBVIOUS
<1>1. fw \in FirewallObject
  BY DEF Init, FirewallObject
<1>2. update \in Update
  BY <1>1, UpdateIdleType DEF Init
<1>3. machines \in [Machines -> MachineObject] /\ mon \in MonitorObject /\ work \in Work
  BY ConstantTypes DEF Init
<1>4. disturbances \in 0..MaxDisturbances /\ faults \in 0..MaxFaults
  BY ConstantsAssumption DEF Init
<1> QED
  BY <1>1, <1>2, <1>3, <1>4, NoStatusType DEF Init, TypeOK

LEMMA LookupType == Lookup(work.status) \subseteq Machines
BY DEF Lookup, Shown

LEMMA ReconcileType ==
  ASSUME TypeOK,
         \/ Begin \/ PassRestart \/ RemoveRestart \/ FindMachine
         \/ \E m \in Machines : createFirewall(m)
         \/ SyncMachine \/ ensureFirewallMonitor \/ WriteStatus
  PROVE  TypeOK'
<1> USE DEF TypeOK
<1>1. CASE Begin
  <2>1. [Idle EXCEPT !.status = status, !.config = fw.config] \in Work
    BY ConstantTypes DEF Work, FirewallObject
  <2> QED
    BY <1>1, <2>1 DEF Begin, env, Work, FirewallObject
<1>2. CASE PassRestart
  BY <1>2 DEF PassRestart, env, Work, MonitorObject
<1>3. CASE RemoveRestart
  <2>1. fw' \in FirewallObject /\ queued' \in BOOLEAN
    BY <1>3 DEF RemoveRestart, FirewallObject, Watched
  <2> QED
    BY <1>3, <2>1 DEF RemoveRestart, env, Work
<1>4. CASE FindMachine
  <2>1. work.status \in StatusObject
    BY DEF Work
  <2>2. work' \in Work
    <3>1. CASE work' = [work EXCEPT !.pc = "allocate", !.status.state = "Creating"]
      BY <3>1, <2>1 DEF Work, StatusObject, Phases
    <3>2. ASSUME NEW m \in Machines,
                 work' = [work EXCEPT !.found = m, !.status = Inspected(work.status, m),
                            !.pc = IF machines[m].health = "ready" THEN "sync" ELSE "monitor"]
          PROVE  work' \in Work
      BY <3>2, <2>1, InspectedType DEF Work
    <3>3. CASE work' = [work EXCEPT !.pc = "monitor",
                          !.status = With(work.status, [ct \in {"Created"} |-> FALSE])]
      BY <3>3, <2>1, WithType DEF Work
    <3> QED
      BY <1>4, <3>1, <3>2, <3>3, LookupType DEF FindMachine
  <2> QED
    BY <1>4, <2>2 DEF FindMachine, env
<1>5. ASSUME NEW m \in Machines, createFirewall(m) PROVE TypeOK'
  <2>1. work' \in Work
    <3>1. With(work.status, [ct \in {"Created"} |-> TRUE]) \in StatusObject
      BY WithType DEF Work
    <3> QED
      BY <1>5, <3>1 DEF createFirewall, Work
  <2>2. machines' \in [Machines -> MachineObject]
    BY <1>5, ConstantTypes DEF createFirewall, MachineObject, Work
  <2> QED
    BY <1>5, <2>1, <2>2 DEF createFirewall, env
<1>6. CASE SyncMachine
  <2>1. machines' \in [Machines -> MachineObject]
    BY <1>6 DEF SyncMachine, MachineObject, Work, Shown
  <2> QED
    BY <1>6, <2>1 DEF SyncMachine, env, Work
<1>7. CASE ensureFirewallMonitor
  <2>1. mon' \in MonitorObject
    BY <1>7, ConstantTypes DEF ensureFirewallMonitor, MonitorObject
  <2>2. work' \in Work
    BY <1>7, WithMachineType, FromMonitorStatusType DEF ensureFirewallMonitor, Work
  <2> QED
    BY <1>7, <2>1, <2>2 DEF ensureFirewallMonitor, env
<1>8. CASE WriteStatus
  BY <1>8, ConstantTypes DEF WriteStatus, env, Work
<1> QED
  BY <1>1, <1>2, <1>3, <1>4, <1>5, <1>6, <1>7, <1>8

LEMMA DeletionType ==
  ASSUME TypeOK,
         \/ deleteFirewallMonitor \/ FindDoomed \/ RemoveFinalizer
         \/ \E m \in Machines : FreeFirewall(m)
  PROVE  TypeOK'
<1> USE DEF TypeOK
<1>1. CASE deleteFirewallMonitor
  BY <1>1, ConstantTypes DEF deleteFirewallMonitor, env, Work, MonitorObject
<1>2. CASE FindDoomed
  BY <1>2, LookupType DEF FindDoomed, env, Work
<1>3. CASE RemoveFinalizer
  BY <1>3, ConstantTypes DEF RemoveFinalizer, env, FirewallObject
<1>4. ASSUME NEW m \in Machines, FreeFirewall(m) PROVE TypeOK'
  BY <1>4, ConstantTypes DEF FreeFirewall, env, Work
<1> QED
  BY <1>1, <1>2, <1>3, <1>4

LEMMA MonitorControllerType == TypeOK /\ MonitorController => TypeOK'
<1> SUFFICES ASSUME TypeOK, MonitorController PROVE TypeOK'
  OBVIOUS
<1> USE DEF TypeOK
<1>1. ASSUME NEW u \in Update PROVE RollSetOf(u) \in Update
  <2>1. u.object \in FirewallObject
    BY DEF Update
  <2> QED
    BY <2>1, UpdateIdleType DEF RollSetOf, Update
<1>2. CASE ReadFirewall
  <2> DEFINE u == [pc |-> "write", read |-> status, new |-> FromMonitor(status, mon.cs),
                   object |-> fw, monitor |-> mon']
  <2>1. mon' \in MonitorObject
    BY <1>2 DEF ReadFirewall, MonitorObject
  <2>2. u \in Update
    BY <2>1, FromMonitorStatusType DEF Update
  <2>3. update' \in {u, RollSetOf(u)}
    BY <1>2 DEF ReadFirewall
  <2> HIDE DEF u
  <2> QED
    BY <1>1, <1>2, <2>1, <2>2, <2>3 DEF ReadFirewall, env
<1>3. CASE updateFirewallStatus
  <2>1. update.object \in FirewallObject /\ update.new \in StatusObject
    BY DEF Update
  <2> QED
    BY <1>1, <1>3, <2>1, UpdateIdleType DEF updateFirewallStatus, env
<1>4. CASE AnnotateSet
  <2>1. update' \in Update
    BY <1>4, UpdateIdleType DEF AnnotateSet, Update
  <2> QED
    BY <1>4, <2>1 DEF AnnotateSet
<1>5. CASE UnmarkMonitor
  <2>1. update' \in Update
    BY <1>5, UpdateIdleType DEF UnmarkMonitor, Update
  <2> QED
    BY <1>5, <2>1 DEF UnmarkMonitor, env, MonitorObject
<1>6. CASE FinalizeMonitor
  BY <1>6, ConstantTypes DEF FinalizeMonitor, env
<1> QED
  BY <1>2, <1>3, <1>4, <1>5, <1>6 DEF MonitorController

LEMMA OutsideType ==
  ASSUME TypeOK, Outside \/ ControllerReports \/ \E m \in Machines : MachineUp(m)
  PROVE  TypeOK'
<1> USE DEF TypeOK
<1>1. ASSUME NEW kind, Disturb(kind) PROVE disturbances' \in 0..MaxDisturbances
  BY <1>1, ConstantsAssumption DEF Disturb
<1>2. CASE ChangeConfig
  BY <1>1, <1>2 DEF ChangeConfig, Disturb, FirewallObject, Watched
<1>3. CASE RequestRestart
  BY <1>1, <1>3 DEF RequestRestart, Disturb, FirewallObject, Watched
<1>4. CASE RequestRoll
  BY <1>1, <1>4 DEF RequestRoll, Disturb, MonitorObject
<1>5. CASE DeleteFirewall
  BY <1>1, <1>5 DEF DeleteFirewall, Disturb, FirewallObject, Watched
<1>6. CASE ControllerStops
  BY <1>1, <1>6 DEF ControllerStops, Disturb, MonitorObject
<1>7. ASSUME NEW m \in Machines, MachineFreedByHand(m) PROVE TypeOK'
  BY <1>1, <1>7, ConstantTypes DEF MachineFreedByHand, Disturb
<1>8. ASSUME NEW m \in Machines, MachineFails(m) PROVE TypeOK'
  BY <1>1, <1>8 DEF MachineFails, Disturb, MachineObject
<1>9. CASE ControllerReports
  BY <1>9, ConstantTypes DEF ControllerReports, env, MonitorObject
<1>10. ASSUME NEW m \in Machines, MachineUp(m) PROVE TypeOK'
  BY <1>10 DEF MachineUp, env, MachineObject
<1> QED
  BY <1>2, <1>3, <1>4, <1>5, <1>6, <1>7, <1>8, <1>9, <1>10 DEF Outside

LEMMA FailureType ==
  ASSUME TypeOK, ApiError \/ MonitorError \/ Restart \/ \E m \in Machines : AllocationLost(m)
  PROVE  TypeOK'
<1> USE DEF TypeOK
<1>1. ASSUME NEW kind, Fail(kind) PROVE faults' \in 0..MaxFaults
  BY <1>1, ConstantsAssumption DEF Fail
<1>2. With(work.status, [ct \in {"Created"} |-> FALSE]) \in StatusObject
  BY WithType DEF Work
<1>3. update.object \in FirewallObject
  BY DEF Update
<1>4. CASE ApiError
  <2>1. work' \in Work
    BY <1>2, <1>4, WithMachineType, ConstantTypes DEF ApiError, Work
  <2>2. queued' \in BOOLEAN
    BY <1>4 DEF ApiError
  <2> QED
    BY <1>1, <1>4, <2>1, <2>2 DEF ApiError, Fail
<1>5. CASE MonitorError
  BY <1>1, <1>3, <1>5, UpdateIdleType DEF MonitorError, Fail
<1>6. CASE Restart
  BY <1>1, <1>3, <1>6, UpdateIdleType, ConstantTypes DEF Restart, Fail
<1>7. ASSUME NEW m \in Machines, AllocationLost(m) PROVE TypeOK'
  <2>1. work' \in Work
    BY <1>2, <1>7 DEF AllocationLost, Work
  <2>2. machines' \in [Machines -> MachineObject]
    BY <1>7, ConstantTypes DEF AllocationLost, MachineObject, Work
  <2> QED
    BY <1>1, <1>7, <2>1, <2>2 DEF AllocationLost, Fail
<1> QED
  BY <1>4, <1>5, <1>6, <1>7

LEMMA NextType == TypeOK /\ [Next]_vars => TypeOK'
<1> SUFFICES ASSUME TypeOK, [Next]_vars PROVE TypeOK'
  OBVIOUS
<1>1. CASE UNCHANGED vars
  BY <1>1 DEF vars, TypeOK
<1>2. CASE Next
  BY <1>2, ReconcileType, DeletionType, MonitorControllerType, OutsideType, FailureType
     DEF Next, FirewallController
<1> QED
  BY <1>1, <1>2

\* Every variable keeps its type: TypeOK of the run, for every choice of the
\* constants.
THEOREM TypeCorrect == Spec => []TypeOK
<1>1. Init => TypeOK
  BY InitType
<1>2. TypeOK /\ [Next]_vars => TypeOK'
  BY NextType
<1> QED
  BY <1>1, <1>2, PTL DEF Spec

-----------------------------------------------------------------------------
(* The inductive invariant *)

\* What OneMachine says, without counting.
AtMostOne == \A m, n \in Shown : m = n

\* A firewall that never got a finalizer, or has lost it, has nothing to lose
\* either; every reconcile runs under a finalizer.
NothingWithoutFinalizer ==
  fw.phase = "gone" \/ (fw.phase = "present" /\ ~fw.finalizer) =>
    work.pc = "idle" /\ mon.phase = "absent" /\ Shown = {}

\* A machine is allocated only after none was found, ...
AllocatesFirst == work.pc = "allocate" => Shown = {}

\* ... and the deletion flow frees whatever there is, with the monitor gone.
DeletesAll ==
  /\ work.pc \in {"delLookup", "free", "finalize"} => mon.phase = "absent"
  /\ work.pc = "free" => Shown \subseteq work.doomed
  /\ work.pc = "finalize" => Shown = {}

\* A reconcile that will not requeue has removed the restart annotation, which
\* has queued the firewall already.
QueuedByAnnotation ==
  /\ work.pc \in {"restart", "unmark"} => fw.restart
  /\ ~work.requeue => work.pc = "write" /\ queued

FirewallInv ==
  /\ TypeOK
  /\ AtMostOne /\ NothingWithoutFinalizer /\ AllocatesFirst /\ DeletesAll
  /\ QueuedByAnnotation /\ NeverForgotten

LEMMA InitInv == Init => FirewallInv
<1> SUFFICES ASSUME Init PROVE FirewallInv
  OBVIOUS
<1>1. TypeOK
  BY InitType
<1>2. Shown = {} /\ work = Idle /\ mon = NoMonitor /\ queued /\ fw.phase = "present"
  BY DEF Init, Shown, FreeMachine
<1>3. Idle.pc = "idle" /\ Idle.requeue /\ NoMonitor.phase = "absent"
  BY DEF Idle, NoMonitor
<1> QED
  BY <1>1, <1>2, <1>3
     DEF FirewallInv, AtMostOne, NothingWithoutFinalizer, AllocatesFirst, DeletesAll,
         QueuedByAnnotation, NeverForgotten

\* The search finds a machine that is shown, if there is one, and with a
\* single one it finds all of them.
LEMMA LookupFinds ==
  ASSUME AtMostOne
  PROVE  Lookup(work.status) = Shown
BY DEF AtMostOne, Lookup

\* A step that neither allocates a machine nor makes a monitor, starts no new
\* phase of a reconcile and leaves the firewall's annotation and finalizer.
LEMMA QuietStep ==
  ASSUME FirewallInv, TypeOK', work' = work,
         Shown' \subseteq Shown, mon.phase = "absent" => mon'.phase = "absent",
         fw'.finalizer = fw.finalizer, fw.restart => fw'.restart, queued => queued',
         \/ fw'.phase = fw.phase
         \/ fw.phase = "present" /\ fw'.phase = IF fw.finalizer THEN "terminating" ELSE "gone"
  PROVE  FirewallInv'
BY DEF FirewallInv, AtMostOne, NothingWithoutFinalizer, AllocatesFirst, DeletesAll,
       QueuedByAnnotation, NeverForgotten

\* A step of a reconcile that leaves the machines and the firewall alone.
LEMMA ReconcileStep ==
  ASSUME FirewallInv, TypeOK', work.pc # "idle",
         Shown' = Shown, fw' = fw, mon' = mon, queued => queued', work'.requeue,
         work'.pc \in {"allocate", "finalize"} => Shown = {},
         work'.pc \in {"delLookup", "free", "finalize"} => mon.phase = "absent",
         work'.pc = "free" => Shown \subseteq work'.doomed,
         work'.pc \in {"restart", "unmark"} => fw.restart,
         work'.pc = "idle" => queued'
  PROVE  FirewallInv'
BY DEF FirewallInv, AtMostOne, NothingWithoutFinalizer, AllocatesFirst, DeletesAll,
       QueuedByAnnotation, NeverForgotten

LEMMA ShownUnchanged == machines' = machines => Shown' = Shown
BY DEF Shown

\* One machine becomes allocated where there was none.
LEMMA ShownAllocated ==
  ASSUME TypeOK, NEW m \in Machines, NEW c, machines' = [machines EXCEPT ![m] = c]
  PROVE  Shown' \subseteq Shown \cup {m}
BY DEF Shown, TypeOK

\* A machine is freed.
LEMMA ShownFreed ==
  ASSUME TypeOK, NEW m \in Machines, machines' = [machines EXCEPT ![m] = FreeMachine]
  PROVE  Shown' = Shown \ {m}
BY DEF Shown, TypeOK, FreeMachine

\* Other changes of a machine do not show.
LEMMA ShownKept ==
  ASSUME TypeOK, NEW m \in Machines, NEW c, NEW h,
         \/ machines' = [machines EXCEPT ![m].config = c]
         \/ machines' = [machines EXCEPT ![m].health = h]
  PROVE  Shown' = Shown
<1>1. \A n \in Machines : machines'[n].alloc = machines[n].alloc
  BY DEF TypeOK, MachineObject
<1> QED
  BY <1>1 DEF Shown

LEMMA ReconcileInv ==
  ASSUME FirewallInv, TypeOK',
         \/ Begin \/ PassRestart \/ RemoveRestart \/ FindMachine
         \/ \E m \in Machines : createFirewall(m)
         \/ SyncMachine \/ ensureFirewallMonitor \/ WriteStatus
  PROVE  FirewallInv'
<1> USE DEF env
<1>0. TypeOK
  BY DEF FirewallInv
<1>1. CASE Begin
  <2>1. /\ work'.pc \in {"restart", "lookup", "delMonitor"} /\ work'.requeue
        /\ work'.pc = "restart" => fw.restart
    BY <1>0, <1>1, ConstantTypes DEF Begin, Idle
  <2>2. /\ fw'.phase = fw.phase /\ fw'.restart = fw.restart /\ fw.phase # "gone"
        /\ fw.phase = "present" => fw'.finalizer
    BY <1>0, <1>1 DEF Begin, TypeOK, FirewallObject
  <2> QED
    BY <1>1, <2>1, <2>2, ShownUnchanged
       DEF Begin, FirewallInv, AtMostOne, NothingWithoutFinalizer, AllocatesFirst, DeletesAll,
           QueuedByAnnotation, NeverForgotten
<1>2. CASE PassRestart
  <2>1. /\ mon'.phase = mon.phase /\ work'.pc = "unmark" /\ work'.requeue = work.requeue
        /\ work.pc = "restart"
    BY <1>0, <1>2 DEF PassRestart, TypeOK, Work, MonitorObject
  <2> QED
    BY <1>2, <2>1, ShownUnchanged
       DEF PassRestart, FirewallInv, AtMostOne, NothingWithoutFinalizer, AllocatesFirst, DeletesAll,
           QueuedByAnnotation, NeverForgotten
<1>3. CASE RemoveRestart
  <2> DEFINE current == fw.phase = "present" /\ fw.config = work.config /\ status = work.status
  <2>1. work.pc = "unmark" /\ fw.restart
    BY <1>3 DEF RemoveRestart, FirewallInv, QueuedByAnnotation
  <2>2. fw'.phase = fw.phase /\ fw'.finalizer = fw.finalizer
    BY <1>0, <1>3 DEF RemoveRestart, TypeOK, FirewallObject
  <2>3. current => queued'
    <3>1. current => ~fw'.restart
      BY <1>0, <1>3 DEF RemoveRestart, TypeOK, FirewallObject
    <3> QED
      BY <1>3, <2>1, <3>1 DEF RemoveRestart, Watched
  <2>4. work'.pc = "write" /\ work'.requeue = ~current
    BY <1>0, <1>3 DEF RemoveRestart, TypeOK, Work
  <2> QED
    BY <1>3, <2>1, <2>2, <2>3, <2>4, ShownUnchanged
       DEF RemoveRestart, FirewallInv, AtMostOne, NothingWithoutFinalizer, AllocatesFirst, DeletesAll,
           QueuedByAnnotation, NeverForgotten
<1>4. CASE FindMachine
  <2>1. /\ work'.pc \in {"allocate", "sync", "monitor"} /\ work'.requeue = work.requeue
        /\ work'.pc = "allocate" => Lookup(work.status) = {}
    BY <1>0, <1>4 DEF FindMachine, TypeOK, Work
  <2>2. Lookup(work.status) = Shown
    BY LookupFinds DEF FirewallInv
  <2>3. work.pc = "lookup" /\ work.requeue
    BY <1>4 DEF FindMachine, FirewallInv, QueuedByAnnotation
  <2>4. fw' = fw /\ mon' = mon /\ queued' = queued /\ Shown' = Shown
    BY <1>4, ShownUnchanged DEF FindMachine
  <2> QED
    BY <2>1, <2>2, <2>3, <2>4, ReconcileStep
<1>5. ASSUME NEW m \in Machines, createFirewall(m) PROVE FirewallInv'
  <2>1. Shown' \subseteq {m}
    BY <1>0, <1>5, ShownAllocated DEF createFirewall, FirewallInv, AllocatesFirst
  <2>2. work.pc = "allocate" /\ work'.pc = "monitor" /\ work'.requeue = work.requeue
    BY <1>0, <1>5 DEF createFirewall, TypeOK, Work
  <2> QED
    BY <1>5, <2>1, <2>2
       DEF createFirewall, FirewallInv, AtMostOne, NothingWithoutFinalizer, AllocatesFirst, DeletesAll,
           QueuedByAnnotation, NeverForgotten
<1>6. CASE SyncMachine
  <2>1. Shown' = Shown
    BY <1>0, <1>6, ShownKept, ShownUnchanged DEF SyncMachine, Shown
  <2>2. work.pc = "sync" /\ work'.pc = "monitor" /\ work'.requeue = work.requeue
    BY <1>0, <1>6 DEF SyncMachine, TypeOK, Work
  <2>3. work.requeue
    BY <2>2 DEF FirewallInv, QueuedByAnnotation
  <2> QED
    BY <1>6, <2>1, <2>2, <2>3, ReconcileStep DEF SyncMachine
<1>7. CASE ensureFirewallMonitor
  <2>1. work.pc = "monitor" /\ work'.pc = "write" /\ work'.requeue = work.requeue
    BY <1>0, <1>7 DEF ensureFirewallMonitor, TypeOK, Work
  <2> QED
    BY <1>7, <2>1, ShownUnchanged
       DEF ensureFirewallMonitor, FirewallInv, AtMostOne, NothingWithoutFinalizer, AllocatesFirst,
           DeletesAll, QueuedByAnnotation, NeverForgotten
<1>8. CASE WriteStatus
  <2>1. work'.pc = "idle" /\ work'.requeue
    BY <1>8 DEF WriteStatus, Idle
  <2>2. queued' /\ (queued => queued')
    BY <1>8 DEF WriteStatus, FirewallInv, QueuedByAnnotation
  <2> QED
    BY <1>8, <2>1, <2>2, ReconcileStep, ShownUnchanged DEF WriteStatus
<1> QED
  BY <1>1, <1>2, <1>3, <1>4, <1>5, <1>6, <1>7, <1>8

LEMMA DeletionInv ==
  ASSUME FirewallInv, TypeOK',
         \/ deleteFirewallMonitor \/ FindDoomed \/ RemoveFinalizer
         \/ \E m \in Machines : FreeFirewall(m)
  PROVE  FirewallInv'
<1> USE DEF env
<1>0. TypeOK
  BY DEF FirewallInv
<1>1. CASE deleteFirewallMonitor
  <2>1. \/ work'.pc = "delLookup" /\ work'.requeue = work.requeue /\ mon.phase = "absent"
           /\ mon' = mon /\ queued' = queued
        \/ work'.pc = "idle" /\ work'.requeue /\ queued'
    BY <1>0, <1>1 DEF deleteFirewallMonitor, TypeOK, Work, Idle
  <2>2. work.pc = "delMonitor" /\ (mon.phase = "absent" => mon' = mon)
    BY <1>1 DEF deleteFirewallMonitor
  <2> QED
    BY <1>1, <2>1, <2>2, ShownUnchanged
       DEF deleteFirewallMonitor, FirewallInv, AtMostOne, NothingWithoutFinalizer, AllocatesFirst,
           DeletesAll, QueuedByAnnotation, NeverForgotten
<1>2. CASE FindDoomed
  <2>1. Lookup(work.status) = Shown
    BY LookupFinds DEF FirewallInv
  <2>2. /\ work.pc = "delLookup" /\ work'.requeue = work.requeue
        /\ work'.pc \in {"free", "finalize"} /\ work'.doomed = Shown
        /\ work'.pc = "finalize" => Shown = {}
    BY <1>0, <1>2, <2>1 DEF FindDoomed, TypeOK, Work
  <2>3. work.requeue /\ mon.phase = "absent"
    BY <2>2 DEF FirewallInv, QueuedByAnnotation, DeletesAll
  <2> QED
    BY <1>2, <2>2, <2>3, ReconcileStep, ShownUnchanged DEF FindDoomed
<1>3. CASE RemoveFinalizer
  <2>1. fw'.phase = "gone" /\ work'.pc = "idle" /\ work'.requeue /\ work.pc = "finalize"
    BY <1>0, <1>3 DEF RemoveFinalizer, TypeOK, FirewallObject, Idle
  <2> QED
    BY <1>3, <2>1, ShownUnchanged
       DEF RemoveFinalizer, FirewallInv, AtMostOne, NothingWithoutFinalizer, AllocatesFirst,
           DeletesAll, QueuedByAnnotation, NeverForgotten
<1>4. ASSUME NEW m \in Machines, FreeFirewall(m) PROVE FirewallInv'
  <2>1. Shown' = Shown \ {m}
    BY <1>0, <1>4, ShownFreed DEF FreeFirewall
  <2>2. /\ work.pc = "free" /\ work'.requeue = work.requeue /\ work'.doomed = work.doomed \ {m}
        /\ work'.pc \in {"free", "finalize"} /\ (work'.pc = "finalize" => work.doomed = {m})
    BY <1>0, <1>4 DEF FreeFirewall, TypeOK, Work
  <2> QED
    BY <1>4, <2>1, <2>2
       DEF FreeFirewall, FirewallInv, AtMostOne, NothingWithoutFinalizer, AllocatesFirst, DeletesAll,
           QueuedByAnnotation, NeverForgotten
<1> QED
  BY <1>1, <1>2, <1>3, <1>4

LEMMA MonitorControllerInv == FirewallInv /\ TypeOK' /\ MonitorController => FirewallInv'
<1> SUFFICES ASSUME FirewallInv, TypeOK', MonitorController PROVE FirewallInv'
  OBVIOUS
<1> USE DEF env
<1>0. TypeOK
  BY DEF FirewallInv
<1>1. /\ work' = work /\ fw' = fw /\ queued' = queued /\ Shown' = Shown
  BY ShownUnchanged
     DEF MonitorController, ReadFirewall, updateFirewallStatus, AnnotateSet, UnmarkMonitor,
         FinalizeMonitor
<1>2. mon.phase = "absent" => mon'.phase = "absent"
  <2>1. CASE ReadFirewall
    BY <2>1 DEF ReadFirewall
  <2>2. CASE updateFirewallStatus \/ AnnotateSet
    BY <2>2 DEF updateFirewallStatus, AnnotateSet
  <2>3. CASE UnmarkMonitor
    BY <1>0, <2>3 DEF UnmarkMonitor, TypeOK, MonitorObject
  <2>4. CASE FinalizeMonitor
    BY <2>4 DEF FinalizeMonitor
  <2> QED
    BY <2>1, <2>2, <2>3, <2>4 DEF MonitorController
<1> QED
  BY <1>1, <1>2, QuietStep

LEMMA OutsideInv ==
  ASSUME FirewallInv, TypeOK', Outside \/ ControllerReports \/ \E m \in Machines : MachineUp(m)
  PROVE  FirewallInv'
<1> USE DEF env
<1>0. TypeOK
  BY DEF FirewallInv
<1>1. ASSUME ChangeConfig \/ RequestRestart \/ DeleteFirewall PROVE FirewallInv'
  <2>1. /\ work' = work /\ mon' = mon /\ machines' = machines /\ (queued => queued')
        /\ fw'.finalizer = fw.finalizer /\ (fw.restart => fw'.restart)
    BY <1>0, <1>1
       DEF ChangeConfig, RequestRestart, DeleteFirewall, Disturb, TypeOK, FirewallObject
  <2>2. \/ fw'.phase = fw.phase
        \/ fw.phase = "present" /\ fw'.phase = IF fw.finalizer THEN "terminating" ELSE "gone"
    BY <1>0, <1>1
       DEF ChangeConfig, RequestRestart, DeleteFirewall, Disturb, TypeOK, FirewallObject
  <2> QED
    BY <2>1, <2>2, QuietStep, ShownUnchanged
<1>2. ASSUME RequestRoll \/ ControllerStops \/ ControllerReports PROVE FirewallInv'
  <2>1. /\ work' = work /\ fw' = fw /\ machines' = machines /\ queued' = queued
        /\ mon'.phase = mon.phase
    BY <1>0, <1>2
       DEF RequestRoll, ControllerStops, ControllerReports, Disturb, TypeOK, MonitorObject
  <2> QED
    BY <2>1, QuietStep, ShownUnchanged
<1>3. ASSUME NEW m \in Machines, MachineFreedByHand(m) PROVE FirewallInv'
  <2>1. Shown' = Shown \ {m}
    BY <1>0, <1>3, ShownFreed DEF MachineFreedByHand
  <2> QED
    BY <1>3, <2>1, QuietStep DEF MachineFreedByHand, Disturb
<1>4. ASSUME NEW m \in Machines, MachineFails(m) \/ MachineUp(m) PROVE FirewallInv'
  <2>1. Shown' = Shown
    BY <1>0, <1>4, ShownKept DEF MachineFails, MachineUp
  <2> QED
    BY <1>4, <2>1, QuietStep DEF MachineFails, MachineUp, Disturb
<1> QED
  BY <1>1, <1>2, <1>3, <1>4 DEF Outside

LEMMA FailureInv ==
  ASSUME FirewallInv, TypeOK',
         ApiError \/ MonitorError \/ Restart \/ \E m \in Machines : AllocationLost(m)
  PROVE  FirewallInv'
<1> USE DEF env
<1>0. TypeOK
  BY DEF FirewallInv
<1>1. CASE ApiError
  <2>1. /\ fw' = fw /\ mon' = mon /\ Shown' = Shown /\ (queued => queued')
    BY <1>1, ShownUnchanged DEF ApiError, Fail
  <2>2. /\ work.pc # "idle" /\ work'.pc \in {"monitor", "write", "idle"}
        /\ work'.requeue = work.requeue \/ work'.requeue
        /\ work.pc = "write" => work'.requeue
        /\ work'.pc = "idle" => queued'
    <3>1. CASE work' = Idle /\ queued' = TRUE
                /\ work.pc \in {"write", "delMonitor", "delLookup", "free", "finalize"}
      BY <3>1 DEF Idle
    <3>2. ASSUME NEW pc \in {"monitor", "write"}, NEW st,
                 \/ work' = [work EXCEPT !.pc = pc]
                 \/ work' = [work EXCEPT !.pc = pc, !.status = st],
                 work.pc \notin {"idle", "write"}
          PROVE  work'.pc = pc /\ work'.requeue = work.requeue
      BY <1>0, <3>2 DEF TypeOK, Work
    <3> QED
      BY <1>1, <3>1, <3>2 DEF ApiError
  <2>3. work'.requeue
    BY <2>2 DEF FirewallInv, QueuedByAnnotation
  <2> QED
    BY <2>1, <2>2, <2>3, ReconcileStep
<1>2. CASE MonitorError
  BY <1>2, QuietStep, ShownUnchanged DEF MonitorError, Fail
<1>3. CASE Restart
  <2>1. work'.pc = "idle" /\ work'.requeue
    BY <1>3 DEF Restart, Idle
  <2> QED
    BY <1>3, <2>1, ShownUnchanged
       DEF Restart, Fail, FirewallInv, AtMostOne, NothingWithoutFinalizer, AllocatesFirst,
           DeletesAll, QueuedByAnnotation, NeverForgotten
<1>4. ASSUME NEW m \in Machines, AllocationLost(m) PROVE FirewallInv'
  <2>1. Shown' \subseteq {m}
    BY <1>0, <1>4, ShownAllocated DEF AllocationLost, FirewallInv, AllocatesFirst
  <2>2. work.pc = "allocate" /\ work'.pc = "monitor" /\ work'.requeue = work.requeue
    BY <1>0, <1>4 DEF AllocationLost, TypeOK, Work
  <2> QED
    BY <1>4, <2>1, <2>2
       DEF AllocationLost, Fail, FirewallInv, AtMostOne, NothingWithoutFinalizer, AllocatesFirst,
           DeletesAll, QueuedByAnnotation, NeverForgotten
<1> QED
  BY <1>1, <1>2, <1>3, <1>4

LEMMA NextInv == FirewallInv /\ [Next]_vars => FirewallInv'
<1> SUFFICES ASSUME FirewallInv, [Next]_vars PROVE FirewallInv'
  OBVIOUS
<1>1. TypeOK'
  BY NextType DEF FirewallInv
<1>2. CASE UNCHANGED vars
  BY <1>1, <1>2, QuietStep, ShownUnchanged DEF vars
<1>3. CASE Next
  BY <1>1, <1>3, ReconcileInv, DeletionInv, MonitorControllerInv, OutsideInv, FailureInv
     DEF Next, FirewallController
<1> QED
  BY <1>2, <1>3

\* The invariant of machines, monitor, finalizer and queue that the theorems
\* below rest on, whatever fails between two calls (reconcile.go, delete.go).
THEOREM InvariantHolds == Spec => []FirewallInv
<1>1. Init => FirewallInv
  BY InitInv
<1>2. FirewallInv /\ [Next]_vars => FirewallInv'
  BY NextInv
<1> QED
  BY <1>1, <1>2, PTL DEF Spec

-----------------------------------------------------------------------------
(* What follows from it *)

LEMMA FreeOrShown ==
  ASSUME TypeOK
  PROVE  Shown = {m \in Machines : machines[m].alloc # "free"}
BY DEF TypeOK, MachineObject, Shown

\* A firewall is one machine, whatever answers of the metal-api were lost and
\* wherever the manager was restarted (property OneMachine).
THEOREM OneMachineEver == Spec => []OneMachine
<1>1. FirewallInv => OneMachine
  <2> SUFFICES ASSUME FirewallInv PROVE OneMachine
    OBVIOUS
  <2>1. Shown = {} \/ \E m \in Machines : Shown = {m}
    BY DEF FirewallInv, AtMostOne, Shown
  <2>2. Cardinality(Shown) \in {0, 1}
    BY <2>1, FS_EmptySet, FS_Singleton
  <2>3. Shown = {m \in Machines : machines[m].alloc # "free"}
    BY FreeOrShown DEF FirewallInv
  <2> QED
    BY <2>2, <2>3 DEF OneMachine
<1> QED
  BY <1>1, InvariantHolds, PTL

\* The deletion of a firewall leaves neither machine nor monitor behind
\* (property NothingLeaks).
THEOREM DeletionIsComplete == Spec => []NothingLeaks
<1>1. FirewallInv => NothingLeaks
  BY FreeOrShown DEF FirewallInv, NothingWithoutFinalizer, NothingLeaks
<1> QED
  BY <1>1, InvariantHolds, PTL

\* The requeue after zero seconds, which is none, and every other end of a
\* reconcile leave the firewall queued (property NeverForgotten).
THEOREM FirewallStaysQueued == Spec => []NeverForgotten
<1>1. FirewallInv => NeverForgotten
  BY DEF FirewallInv
<1> QED
  BY <1>1, InvariantHolds, PTL
===============================================================================
