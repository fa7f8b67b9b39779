-------------------------- MODULE FirewallSetProofs --------------------------
(***************************************************************************)
(* Proofs about the firewall set controller and the timeout controller,    *)
(* for every number of firewalls, replicas, changes and failures, every    *)
(* timeout and a clock that runs as far as it likes.                       *)
(***************************************************************************)
EXTENDS FirewallSet, FirewallStatusProofs, FiniteSetTheorems

USE DEF FirewallLongestDistance, FirewallMaxReplicas

-----------------------------------------------------------------------------
(* Types *)

LEMMA AnySpecType == AnySpec \in SetSpec
BY ConstantsAssumption DEF AnySpec, SetSpec

LEMMA AbsentType ==
  /\ Absent \in FirewallObject /\ Absent.phase = "absent" /\ Absent.goodAt = 0
  /\ Absent.conds \in Conditions /\ Absent.state = ""
BY AnySpecType, MissingType, ConstantsAssumption
   DEF Absent, FirewallObject, Phases, Conditions, SetSpec

LEMMA NoCopyType == NoCopy \in Copy /\ NoCopy.conds = Absent.conds
BY AbsentType DEF NoCopy, Copy, Phases, Conditions

LEMMA IdleType == Idle \in Work /\ Idle.pc = "idle" /\ ~Idle.current
BY AnySpecType DEF Idle, Work

LEMMA StaggeredType ==
  ASSUME NEW d \in 0..8, NEW i \in Nat
  PROVE  StaggeredDistance(d, i) \in 0..8
BY DEF StaggeredDistance

LEMMA SubsetTypes ==
  ASSUME NEW v
  PROVE  /\ Existing(v) \subseteq Firewalls /\ Owned(v) \subseteq Firewalls
         /\ Orphaned(v) \subseteq Firewalls /\ Live(v) \subseteq Firewalls
         /\ Deletable(v) \subseteq Firewalls
BY DEF Existing, Owned, Orphaned, Live, Deletable

\* The sorted list contains exactly the firewalls that were to be sorted.
LEMMA SortLists ==
  ASSUME NEW v, NEW S \in SUBSET Firewalls, NEW q \in SortFirewallsByImportance(v, S)
  PROVE  q \in Seq(Firewalls) /\ Elements(q) = S
<1>1. IsFiniteSet(S)
  BY FS_Subset, ConstantsAssumption
<1> DEFINE n == Cardinality(S)
<1>2. n \in Nat
  BY <1>1, FS_CardinalityType
<1>3. q \in [1..n -> S] /\ \A i, j \in 1..n : i # j => q[i] # q[j]
  BY DEF SortFirewallsByImportance, SetToSeqs
<1> HIDE DEF n
<1>4. q \in Seq(Firewalls)
  BY <1>2, <1>3
<1>5. Elements(q) \subseteq S
  BY <1>3 DEF Elements
<1>6. q \in Bijection(1..n, Elements(q))
  <2>1. DOMAIN q = 1..n /\ Elements(q) = {q[i] : i \in 1..n}
    BY <1>3 DEF Elements
  <2>2. q \in [1..n -> Elements(q)]
    BY <1>3, <2>1
  <2>3. q \in Injection(1..n, Elements(q))
    BY <1>3, <2>1, <2>2 DEF Injection, IsInjective
  <2>4. q \in Surjection(1..n, Elements(q))
    BY <2>1, <2>2 DEF Surjection
  <2> QED
    BY <2>3, <2>4 DEF Bijection
<1>7. Cardinality(Elements(q)) = n
  BY <1>2, <1>6, FS_CountingElements DEF ExistsBijection
<1>8. Elements(q) = S
  BY <1>1, <1>5, <1>7, FS_Subset DEF n
<1> QED
  BY <1>4, <1>8

LEMMA ProceedType ==
  ASSUME NEW w \in Work
  PROVE  /\ Proceed(w) \in Work
         /\ Proceed(w).list = w.list /\ Proceed(w).current = w.current
         /\ Proceed(w).target = w.target
         /\ Proceed(w).pc \in {"sync", "create", "delete", "status"}
         /\ Proceed(w).pc = "create" => Len(w.list) < w.target.replicas
<1>1. Len(w.list) \in Nat /\ w.synced \in Nat /\ w.target.replicas \in Nat
  BY DEF Work, SetSpec
<1>2. \E pc \in {"sync", "create", "delete", "status"} :
        /\ Proceed(w) = [w EXCEPT !.pc = pc]
        /\ pc = "create" => Len(w.list) < w.target.replicas
  BY <1>1 DEF Proceed
<1> QED
  BY <1>2 DEF Work

\* What a reconcile goes on with once it has listed the firewalls.
LEMMA AdoptedType ==
  ASSUME NEW w \in Work, NEW v, NEW next \in Adopted(w, v)
  PROVE  /\ next \in Work /\ next.current = w.current /\ next.target = w.target
         /\ \/ next.pc = "adopt"
            \/ /\ next.pc \in {"sync", "create", "delete", "status"}
               /\ Elements(next.list) = Owned(v)
               /\ next.pc = "create" => Len(next.list) < next.target.replicas
<1>1. CASE w.orphans # {}
  BY <1>1 DEF Adopted, Work
<1>2. CASE w.orphans = {}
  <2>1. PICK q \in SortFirewallsByImportance(v, Owned(v)) :
               next = Proceed([w EXCEPT !.list = q])
    BY <1>2 DEF Adopted
  <2>2. q \in Seq(Firewalls) /\ Elements(q) = Owned(v)
    BY SubsetTypes, SortLists
  <2>3. /\ [w EXCEPT !.list = q] \in Work /\ [w EXCEPT !.list = q].list = q
        /\ [w EXCEPT !.list = q].current = w.current /\ [w EXCEPT !.list = q].target = w.target
    BY <2>2 DEF Work
  <2> QED
    BY <2>1, <2>2, <2>3, ProceedType
<1> QED
  BY <1>1, <1>2

-----------------------------------------------------------------------------
(* Type correctness *)

LEMMA InitType == Init => TypeOK
<1> SUFFICES ASSUME Init PROVE TypeOK
  OBVIOUS
<1>1. set \in SetObject
  <2>1. PICK n \in ReplicaCounts, d \in Distances :
          set = [phase |-> "present", spec |-> [AnySpec EXCEPT !.replicas = n, !.distance = d]]
    BY DEF Init
  <2>2. n \in 0..4 /\ d \in 0..8
    BY ConstantsAssumption
  <2> QED
    BY <2>1, <2>2, AnySpecType DEF SetObject, SetSpec
<1>2. status \in Counts
  BY DEF Init, Counts
<1>3. fws \in [Firewalls -> FirewallObject] /\ view \in [Firewalls -> FirewallObject]
  BY AbsentType DEF Init
<1>4. now \in 0..MaxTime /\ disturbances \in 0..MaxDisturbances /\ faults \in 0..MaxFaults
  BY ConstantsAssumption DEF Init
<1>5. copies \in [Firewalls -> Copy] /\ overtaken \in 0..MaxOvertaken
  BY NoCopyType, ConstantsAssumption DEF Init
<1> QED
  BY <1>1, <1>2, <1>3, <1>4, <1>5, IdleType DEF Init, TypeOK

LEMMA ListType == TypeOK /\ ListFirewalls => faults' \in 0..MaxFaults
BY ConstantsAssumption DEF TypeOK, ListFirewalls

LEMMA StartType ==
  ASSUME TypeOK
  PROVE  LET w == [Idle EXCEPT !.target = set.spec, !.current = (view = fws),
                               !.orphans = Orphaned(view) \cap Live(view)]
         IN  w \in Work /\ w.current = (view = fws) /\ w.target = set.spec
BY IdleType, SubsetTypes DEF TypeOK, SetObject, Work

\* The copy of a firewall with some fields changed.
LEMMA ChangedType ==
  ASSUME TypeOK, NEW f,
         \/ fws' = fws
         \/ fws' = [fws EXCEPT ![f].phase = "terminating"]
         \/ \E b \in BOOLEAN : fws' = [fws EXCEPT ![f].owned = b]
         \/ \E n \in Weights : fws' = [fws EXCEPT ![f].weight = n]
         \/ fws' = [fws EXCEPT ![f] = Absent]
         \/ \E t \in Templates, d \in 0..8 :
              fws' = [fws EXCEPT ![f].template = t, ![f].distance = d]
  PROVE  fws' \in [Firewalls -> FirewallObject]
<1> DEFINE o == fws[f]
<1>1. fws \in [Firewalls -> FirewallObject]
  BY DEF TypeOK
<1>2. ASSUME f \in Firewalls
      PROVE  /\ [o EXCEPT !.phase = "terminating"] \in FirewallObject
             /\ \A b \in BOOLEAN : [o EXCEPT !.owned = b] \in FirewallObject
             /\ \A n \in Weights : [o EXCEPT !.weight = n] \in FirewallObject
             /\ \A t \in Templates, d \in 0..8 :
                  [[o EXCEPT !.template = t] EXCEPT !.distance = d] \in FirewallObject
  <2>1. o \in FirewallObject
    BY <1>1, <1>2
  <2> HIDE DEF o
  <2> QED
    BY <2>1 DEF FirewallObject
<1>3. \A c \in FirewallObject : [fws EXCEPT ![f] = c] \in [Firewalls -> FirewallObject]
  BY <1>1
<1>4. \A t, d : f \in Firewalls =>
        [fws EXCEPT ![f].template = t, ![f].distance = d]
          = [fws EXCEPT ![f] = [[o EXCEPT !.template = t] EXCEPT !.distance = d]]
  BY <1>1
<1>5. CASE f \in Firewalls
  <2>1. CASE \E t \in Templates, d \in 0..8 :
               fws' = [fws EXCEPT ![f].template = t, ![f].distance = d]
    BY <1>2, <1>3, <1>4, <1>5, <2>1
  <2>2. CASE \/ fws' = fws
             \/ fws' = [fws EXCEPT ![f].phase = "terminating"]
             \/ \E b \in BOOLEAN : fws' = [fws EXCEPT ![f].owned = b]
             \/ \E n \in Weights : fws' = [fws EXCEPT ![f].weight = n]
             \/ fws' = [fws EXCEPT ![f] = Absent]
    <3>1. CASE fws' = fws \/ fws' = [fws EXCEPT ![f] = Absent]
      BY <1>1, <1>3, <3>1, AbsentType
    <3>2. /\ [fws EXCEPT ![f].phase = "terminating"]
               = [fws EXCEPT ![f] = [o EXCEPT !.phase = "terminating"]]
          /\ \A b : [fws EXCEPT ![f].owned = b] = [fws EXCEPT ![f] = [o EXCEPT !.owned = b]]
          /\ \A n : [fws EXCEPT ![f].weight = n] = [fws EXCEPT ![f] = [o EXCEPT !.weight = n]]
      BY <1>1
    <3> HIDE DEF o
    <3>3. CASE fws' = [fws EXCEPT ![f].phase = "terminating"]
      BY <1>2, <1>3, <1>5, <3>2, <3>3
    <3>4. ASSUME NEW c \in BOOLEAN, fws' = [fws EXCEPT ![f].owned = c]
          PROVE  fws' \in [Firewalls -> FirewallObject]
      <4>1. [o EXCEPT !.owned = c] \in FirewallObject
        BY <1>2, <1>5
      <4> QED
        BY <1>3, <3>2, <3>4, <4>1
    <3>5. ASSUME NEW n \in Weights, fws' = [fws EXCEPT ![f].weight = n]
          PROVE  fws' \in [Firewalls -> FirewallObject]
      <4>1. [o EXCEPT !.weight = n] \in FirewallObject
        BY <1>2, <1>5
      <4> QED
        BY <1>3, <3>2, <3>5, <4>1
    <3> QED
      BY <2>2, <3>1, <3>3, <3>4, <3>5
  <2> QED
    BY <2>1, <2>2
<1>6. CASE f \notin Firewalls
  BY <1>1, <1>6
<1> QED
  BY <1>5, <1>6

LEMMA SetControllerType == TypeOK /\ SetController => TypeOK'
<1> SUFFICES ASSUME TypeOK, SetController PROVE TypeOK'
  OBVIOUS
<1> USE DEF TypeOK, env
<1>1. CASE Begin
  BY <1>1, ListType, StartType, AdoptedType DEF Begin
<1>2. ASSUME NEW f \in Firewalls, adoptFirewall(f) PROVE TypeOK'
  <2>1. [work EXCEPT !.orphans = @ \ {f}] \in Work
    BY DEF Work
  <2>2. work' \in Work
    BY <1>2, <2>1, IdleType, AdoptedType DEF adoptFirewall
  <2>3. fws' \in [Firewalls -> FirewallObject]
    BY <1>2, ChangedType DEF adoptFirewall
  <2>4. view' \in [Firewalls -> FirewallObject]
    <3>1. [view[f] EXCEPT !.owned = TRUE] \in FirewallObject
      BY DEF FirewallObject
    <3> QED
      BY <1>2, <3>1 DEF adoptFirewall
  <2> QED
    BY <1>2, <2>2, <2>3, <2>4 DEF adoptFirewall
<1>3. CASE SyncFirewall
  <2> DEFINE i == work.synced + 1
  <2>1. i \in Nat /\ work.target \in SetSpec /\ [work EXCEPT !.synced = i] \in Work
    BY DEF Work
  <2>2. StaggeredDistance(work.target.distance, i) \in 0..8 /\ work.target.template \in Templates
    BY <2>1, StaggeredType DEF SetSpec
  <2>3. fws' \in [Firewalls -> FirewallObject]
    BY <1>3, <2>2, ChangedType DEF SyncFirewall
  <2>4. work' \in Work
    BY <1>3, <2>1, ProceedType, IdleType DEF SyncFirewall
  <2> QED
    BY <1>3, <2>3, <2>4 DEF SyncFirewall
<1>4. ASSUME NEW f \in Firewalls, createFirewall(f) PROVE TypeOK'
  <2>1. [work EXCEPT !.list = Append(@, f), !.synced = @ + 1] \in Work
    <3>1. Append(work.list, f) \in Seq(Firewalls) /\ work.synced + 1 \in Nat
      BY DEF Work
    <3> QED
      BY <3>1 DEF Work
  <2>2. [Absent EXCEPT !.phase = "live", !.owned = TRUE, !.distance = work.target.distance,
                       !.template = work.target.template, !.born = now, !.goodAt = now]
          \in FirewallObject
    BY AbsentType DEF FirewallObject, Work, SetSpec
  <2> QED
    BY <1>4, <2>1, <2>2, ProceedType DEF createFirewall
<1>5. CASE OutOfNames
  BY <1>5, IdleType DEF OutOfNames
<1>6. CASE ScaleDown
  BY <1>6, IdleType, ChangedType DEF ScaleDown
<1>7. CASE setStatus
  <2>1. ASSUME NEW P \in SUBSET DOMAIN work.list PROVE Cardinality(P) \in Nat
    <3>1. Len(work.list) \in Nat /\ DOMAIN work.list = 1..Len(work.list)
      BY DEF Work
    <3>2. IsFiniteSet(DOMAIN work.list)
      BY <3>1, FS_Interval
    <3> QED
      BY <3>2, FS_Subset, FS_CardinalityType
  <2>2. work.target.replicas \in Nat
    BY DEF Work, SetSpec
  <2> DEFINE Result(i) == Evaluated(view[work.list[i]], now).result
             Places(r) == {i \in DOMAIN work.list : Result(i) \in r}
  <2>3. \A r : Cardinality(Places(r)) \in Nat
    BY <2>1
  <2>4. status' = [target |-> work.target.replicas,
                   ready |-> Cardinality(Places({"ready"})),
                   progressing |-> Cardinality(Places({"progressing"})),
                   unhealthy |-> Cardinality(
                      Places({"unhealthy", "create-timeout", "health-timeout"}))]
    BY <1>7 DEF setStatus
  <2> HIDE DEF Places
  <2>5. status' \in Counts
    BY <2>2, <2>3, <2>4 DEF Counts
  <2> QED
    BY <1>7, <2>5, IdleType DEF setStatus
<1>8. CASE Delete
  <2>1. work' \in Work
    <3>1. [Idle EXCEPT !.pc = "finalize", !.orphans = Deletable(view)] \in Work
      BY IdleType, SubsetTypes DEF Work
    <3> QED
      BY <1>8, <3>1 DEF Delete
  <2> QED
    BY <1>8, <2>1, ListType DEF Delete, SetObject
<1>9. ASSUME NEW f \in Firewalls, deleteFirewall(f) PROVE TypeOK'
  <2>1. work' \in Work
    BY <1>9, IdleType DEF deleteFirewall, Work
  <2> QED
    BY <1>9, <2>1, ChangedType DEF deleteFirewall
<1> QED
  BY <1>1, <1>2, <1>3, <1>4, <1>5, <1>6, <1>7, <1>8, <1>9 DEF SetController

LEMMA TimeoutControllerType == TypeOK /\ TimeoutController => TypeOK'
<1> SUFFICES ASSUME TypeOK, TimeoutController PROVE TypeOK'
  OBVIOUS
<1>1. CASE CheckTimeouts
  BY <1>1, ListType, SubsetTypes DEF CheckTimeouts, TypeOK
<1>2. ASSUME NEW f \in Firewalls, DeleteOverdue(f) PROVE TypeOK'
  BY <1>2, ChangedType DEF DeleteOverdue, TypeOK, env
<1> QED
  BY <1>1, <1>2 DEF TimeoutController

\* A copy of the status, before and after the conditions are set on it, and what
\* writing it makes of a firewall.
LEMMA CopyOfType ==
  ASSUME NEW o \in FirewallObject, NEW b \in BOOLEAN
  PROVE  CopyOf(o, b) \in Copy /\ CopyOf(o, b).conds = o.conds /\ CopyOf(o, b).recovered = b
BY DEF CopyOf, Copy, FirewallObject

LEMMA InspectedType ==
  ASSUME TypeOK, NEW c \in Copy, NEW report, NEW looked, NEW asked
  PROVE  /\ Inspected(c, report, looked, asked) \in Copy
         /\ Inspected(c, report, looked, asked).recovered = c.recovered
<1> DEFINE conds == IF looked THEN SetConditions(c.conds, Machine(report), now) ELSE c.conds
           heard == IF asked
                    THEN SetFirewallStatusFromMonitor(conds, ControllerStatus(report), FALSE, 0, now)
                    ELSE conds
           state == IF looked THEN MachineState(report, c.state) ELSE c.state
<1>1. c.conds \in Conditions /\ c.state \in Phases /\ c.recovered \in BOOLEAN /\ now \in Int
  BY DEF Copy, Conditions, TypeOK
<1>2. conds \in Conditions
  BY <1>1, SetConditionsEffect
<1>3. heard \in Conditions
  <2> HIDE DEF conds
  <2> QED
    BY <1>1, <1>2, FromMonitorType
<1>4. state \in Phases
  BY <1>1 DEF MachineState, Phases
<1>5. Inspected(c, report, looked, asked)
        = [c EXCEPT !.pc = "write", !.state = state, !.conds = heard]
  BY DEF Inspected
<1> HIDE DEF heard, state
<1> QED
  BY <1>3, <1>4, <1>5 DEF Copy, Conditions

LEMMA RecordedType ==
  ASSUME TypeOK, NEW o \in FirewallObject, NEW c, c.state \in Phases, c.conds \in Conditions
  PROVE  Recorded(o, c) \in FirewallObject
<1> DEFINE good == isProvisioned(c.conds)
           goodAt == IF good THEN now ELSE o.goodAt
           takenBack == ~good /\ (o.takenBack \/ c.recovered)
<1>1. goodAt \in 0..MaxTime
  BY DEF TypeOK, FirewallObject
<1>2. takenBack \in BOOLEAN
  OBVIOUS
<1>3. Recorded(o, c) = [o EXCEPT !.state = c.state, !.conds = c.conds, !.goodAt = goodAt,
                                 !.takenBack = takenBack]
  BY DEF Recorded
<1> HIDE DEF goodAt, takenBack
<1> QED
  BY <1>1, <1>2, <1>3 DEF FirewallObject, Conditions

LEMMA FirewallControllerType ==
  ASSUME TypeOK, NEW f \in Firewalls,
         ReconcileFirewall(f) \/ ReadFirewall(f) \/ Inspect(f) \/ WriteStatus(f) \/ MonitorReports(f)
  PROVE  TypeOK'
<1> DEFINE o == fws[f]
<1>1. /\ o \in FirewallObject /\ view[f] \in FirewallObject /\ copies[f] \in Copy
      /\ \A c \in Copy : c.state \in Phases /\ c.conds \in Conditions
      /\ \A c \in Copy : [copies EXCEPT ![f] = c] \in [Firewalls -> Copy]
      /\ \A c \in FirewallObject : [fws EXCEPT ![f] = c] \in [Firewalls -> FirewallObject]
  BY DEF TypeOK, Copy, Conditions
<1>2. CASE ReconcileFirewall(f)
  <2>1. PICK report : fws' = [fws EXCEPT ![f] =
                        Recorded(o, Inspected(CopyOf(o, FALSE), report, TRUE, TRUE))]
    BY <1>2 DEF ReconcileFirewall
  <2>2. CopyOf(o, FALSE) \in Copy
    BY <1>1, CopyOfType
  <2>3. Inspected(CopyOf(o, FALSE), report, TRUE, TRUE) \in Copy
    BY <2>2, InspectedType
  <2>4. Recorded(o, Inspected(CopyOf(o, FALSE), report, TRUE, TRUE)) \in FirewallObject
    BY <1>1, <2>3, RecordedType
  <2>5. fws' \in [Firewalls -> FirewallObject]
    BY <1>1, <2>1, <2>4
  <2> QED
    BY <1>2, <2>5 DEF ReconcileFirewall, TypeOK, env
<1>3. CASE ReadFirewall(f)
  <2>1. PICK fw \in FirewallObject, b \in BOOLEAN :
               copies' = [copies EXCEPT ![f] = CopyOf(fw, b)]
    BY <1>1, <1>3, Zenon DEF ReadFirewall
  <2>2. copies' \in [Firewalls -> Copy]
    BY <1>1, <2>1, CopyOfType
  <2>3. overtaken' \in 0..MaxOvertaken
    BY <1>3, ConstantsAssumption DEF ReadFirewall, TypeOK
  <2> QED
    BY <1>3, <2>2, <2>3 DEF ReadFirewall, TypeOK
<1>4. CASE Inspect(f)
  <2>1. PICK report, looked, asked :
               copies' = [copies EXCEPT ![f] = Inspected(copies[f], report, looked, asked)]
    BY <1>4 DEF Inspect
  <2>2. copies' \in [Firewalls -> Copy]
    BY <1>1, <2>1, InspectedType
  <2> QED
    BY <1>4, <2>2 DEF Inspect, TypeOK, env
<1>5. CASE WriteStatus(f)
  <2>1. Recorded(o, copies[f]) \in FirewallObject
    BY <1>1, RecordedType
  <2>2. fws' \in [Firewalls -> FirewallObject] /\ copies' \in [Firewalls -> Copy]
    BY <1>1, <1>5, <2>1, NoCopyType DEF WriteStatus
  <2> QED
    BY <1>5, <2>2 DEF WriteStatus, TypeOK, env
<1>6. CASE MonitorReports(f)
  <2>1. PICK conds, b :
          /\ \E cs : conds = SetFirewallStatusFromMonitor(o.conds, cs, FALSE, 0, now)
          /\ fws' = [fws EXCEPT ![f] = Recorded(o, [CopyOf(o, FALSE) EXCEPT !.conds = conds])]
          /\ copies' = [copies EXCEPT ![f].recovered =
               copies[f].recovered \/ (copies[f] # NoCopy /\ isProvisioned(conds))]
    BY <1>6 DEF MonitorReports
  <2>2. conds \in Conditions
    <3>1. o.conds \in Conditions /\ now \in Int
      BY <1>1 DEF FirewallObject, Conditions, TypeOK
    <3> QED
      BY <2>1, <3>1, FromMonitorType
  <2>3. /\ [CopyOf(o, FALSE) EXCEPT !.conds = conds].state \in Phases
        /\ [CopyOf(o, FALSE) EXCEPT !.conds = conds].conds \in Conditions
    BY <1>1, <2>2 DEF CopyOf, FirewallObject
  <2>4. fws' \in [Firewalls -> FirewallObject]
    BY <1>1, <2>1, <2>3, RecordedType
  <2>5. \A x \in BOOLEAN : [copies[f] EXCEPT !.recovered = x] \in Copy
    BY <1>1 DEF Copy
  <2>6. copies' \in [Firewalls -> Copy]
    <3> DEFINE x == copies[f].recovered \/ (copies[f] # NoCopy /\ isProvisioned(conds))
    <3>1. copies' = [copies EXCEPT ![f] = [copies[f] EXCEPT !.recovered = x]]
      BY <2>1
    <3>2. x \in BOOLEAN
      OBVIOUS
    <3> HIDE DEF x
    <3> QED
      BY <1>1, <2>5, <3>1, <3>2
  <2> QED
    BY <1>6, <2>4, <2>6 DEF MonitorReports, TypeOK, env
<1> QED
  BY <1>2, <1>3, <1>4, <1>5, <1>6

LEMMA EnvironmentType ==
  ASSUME TypeOK,
         \/ Tick \/ Refresh \/ Outside \/ Abort
         \/ \E f \in Firewalls : FirewallFinalized(f) \/ GarbageCollect(f)
  PROVE  TypeOK'
<1> USE DEF TypeOK, env
<1>1. CASE Tick
  BY <1>1, ConstantsAssumption DEF Tick
<1>2. CASE Refresh
  BY <1>2 DEF Refresh
<1>3. CASE Abort
  BY <1>3, ConstantsAssumption, IdleType, NoCopyType DEF Abort
<1>5. ASSUME NEW f \in Firewalls, FirewallFinalized(f) \/ GarbageCollect(f) PROVE TypeOK'
  BY <1>5, ChangedType DEF FirewallFinalized, GarbageCollect
<1>6. ASSUME NEW kind, Disturb(kind) PROVE disturbances' \in 0..MaxDisturbances
  BY <1>6, ConstantsAssumption DEF Disturb
<1>7. CASE Scale \/ SwapDistance \/ ChangeTemplate
  <2>1. set' \in SetObject
    BY <1>7, ConstantsAssumption
       DEF Scale, SwapDistance, ChangeTemplate, ChangeSpec, SetObject, SetSpec
  <2> QED
    BY <1>6, <1>7, <2>1 DEF Scale, SwapDistance, ChangeTemplate, ChangeSpec, Disturb
<1>8. CASE DeleteSet
  BY <1>6, <1>8 DEF DeleteSet, Disturb, SetObject
<1>9. ASSUME NEW f \in Firewalls, SetWeight(f) \/ DeleteByHand(f) \/ Orphan(f) PROVE TypeOK'
  BY <1>6, <1>9, ChangedType DEF SetWeight, DeleteByHand, Orphan, Disturb
<1> QED
  BY <1>1, <1>2, <1>3, <1>5, <1>7, <1>8, <1>9 DEF Outside

LEMMA NextType == TypeOK /\ [Next]_vars => TypeOK'
<1> SUFFICES ASSUME TypeOK, [Next]_vars PROVE TypeOK'
  OBVIOUS
<1>1. CASE UNCHANGED vars
  BY <1>1 DEF vars, TypeOK
<1>2. CASE Next
  BY <1>2, SetControllerType, TimeoutControllerType, FirewallControllerType, EnvironmentType
     DEF Next
<1> QED
  BY <1>1, <1>2

\* Every variable keeps its type, distances included (property TypeOK).
THEOREM TypeCorrect == Spec => []TypeOK
<1>1. Init => TypeOK
  BY InitType
<1>2. TypeOK /\ [Next]_vars => TypeOK'
  BY NextType
<1> QED
  BY <1>1, <1>2, PTL DEF Spec
-----------------------------------------------------------------------------
(* A list that was up to date when the reconcile began still contains all *)
(* that is owned: others only take firewalls away.                        *)

Scaling == {"sync", "create", "delete", "status"}

Covers(w, o, v) ==
  w.current => /\ w.pc = "adopt" => Owned(o) \subseteq Owned(v)
               /\ w.pc \in Scaling => Owned(o) \subseteq Elements(w.list)

ListInv ==
  /\ Covers(work, fws, view)
  /\ work.pc = "create" => Len(work.list) < work.target.replicas

LEMMA AdoptedCovers ==
  ASSUME NEW w \in Work, NEW o, NEW v, w.current => Owned(o) \subseteq Owned(v),
         NEW next \in Adopted(w, v)
  PROVE  /\ Covers(next, o, v)
         /\ next.pc = "create" => Len(next.list) < next.target.replicas
BY AdoptedType DEF Covers, Scaling

LEMMA IdleCovers ==
  ASSUME work'.pc \in {"idle", "finalize"}
  PROVE  ListInv'
BY DEF ListInv, Covers, Scaling

\* A change of one firewall makes at most that one owned, and one that neither
\* creates nor adopts it makes none owned.
LEMMA OwnedChange ==
  ASSUME TypeOK, NEW f \in Firewalls, NEW c, fws' = [fws EXCEPT ![f] = c]
  PROVE  /\ Owned(fws') \subseteq Owned(fws) \cup {f}
         /\ (c.phase = "absent" \/ ~c.owned \/ (fws[f].phase # "absent" /\ fws[f].owned))
              => Owned(fws') \subseteq Owned(fws)
BY DEF TypeOK, Owned, Existing

LEMMA OwnedKept ==
  ASSUME TypeOK, NEW f \in Firewalls,
         \/ fws' = fws
         \/ fws' = [fws EXCEPT ![f].phase = "terminating"] /\ fws[f].phase # "absent"
         \/ fws' = [fws EXCEPT ![f].owned = FALSE]
         \/ fws' = [fws EXCEPT ![f] = Absent]
         \/ \E t, d : fws' = [fws EXCEPT ![f].template = t, ![f].distance = d]
         \/ \E n : fws' = [fws EXCEPT ![f].weight = n]
         \/ \E copy : fws' = [fws EXCEPT ![f] = Recorded(@, copy)]
  PROVE  /\ Owned(fws') \subseteq Owned(fws)
         /\ \A g \in Firewalls : fws[g].phase = "absent" => fws'[g].phase # "live"
<1> DEFINE o == fws[f]
           Kept == /\ Owned(fws') \subseteq Owned(fws)
                   /\ \A g \in Firewalls : fws[g].phase = "absent" => fws'[g].phase # "live"
<1> SUFFICES Kept
  OBVIOUS
<1>1. fws \in [Firewalls -> FirewallObject]
  BY DEF TypeOK
<1>2. o \in FirewallObject
  BY <1>1
<1>3. CASE fws' = fws
  BY <1>1, <1>3
<1>4. ASSUME NEW c, fws' = [fws EXCEPT ![f] = c],
             c.phase = o.phase \/ c.phase = "absent" \/ (c.phase = "terminating" /\ o.phase # "absent"),
             c.owned = o.owned \/ ~c.owned
      PROVE  Kept
  BY <1>1, <1>4 DEF Owned, Existing
<1>5. CASE fws' = [fws EXCEPT ![f].phase = "terminating"] /\ fws[f].phase # "absent"
  <2>1. fws' = [fws EXCEPT ![f] = [o EXCEPT !.phase = "terminating"]]
    BY <1>1, <1>5
  <2>2. [o EXCEPT !.phase = "terminating"].phase = "terminating"
        /\ [o EXCEPT !.phase = "terminating"].owned = o.owned
    BY <1>2 DEF FirewallObject
  <2> QED
    BY <1>4, <1>5, <2>1, <2>2
<1>6. CASE fws' = [fws EXCEPT ![f].owned = FALSE]
  <2>1. fws' = [fws EXCEPT ![f] = [o EXCEPT !.owned = FALSE]]
    BY <1>1, <1>6
  <2>2. [o EXCEPT !.owned = FALSE].phase = o.phase /\ ~[o EXCEPT !.owned = FALSE].owned
    BY <1>2 DEF FirewallObject
  <2> QED
    BY <1>4, <2>1, <2>2
<1>7. CASE fws' = [fws EXCEPT ![f] = Absent]
  BY <1>4, <1>7 DEF Absent
<1>8. ASSUME NEW t, NEW d, fws' = [fws EXCEPT ![f].template = t, ![f].distance = d]
      PROVE  Kept
  <2> DEFINE c == [[o EXCEPT !.template = t] EXCEPT !.distance = d]
  <2>1. fws' = [fws EXCEPT ![f] = c]
    BY <1>1, <1>8
  <2>2. c.phase = o.phase /\ c.owned = o.owned
    BY <1>2 DEF FirewallObject
  <2> QED
    BY <1>4, <2>1, <2>2
<1>9. ASSUME NEW n, fws' = [fws EXCEPT ![f].weight = n]
      PROVE  Kept
  <2>1. fws' = [fws EXCEPT ![f] = [o EXCEPT !.weight = n]]
    BY <1>1, <1>9
  <2>2. [o EXCEPT !.weight = n].phase = o.phase /\ [o EXCEPT !.weight = n].owned = o.owned
    BY <1>2 DEF FirewallObject
  <2> QED
    BY <1>4, <2>1, <2>2
<1>10. ASSUME NEW copy, fws' = [fws EXCEPT ![f] = Recorded(@, copy)]
       PROVE  Kept
  <2>1. fws' = [fws EXCEPT ![f] = Recorded(o, copy)]
    BY <1>1, <1>10
  <2>2. Recorded(o, copy).phase = o.phase /\ Recorded(o, copy).owned = o.owned
    BY <1>2 DEF FirewallObject, Recorded
  <2> QED
    BY <1>4, <2>1, <2>2
<1> HIDE DEF Kept
<1> QED
  BY <1>3, <1>5, <1>6, <1>7, <1>8, <1>9, <1>10

LEMMA ListInvInit == Init => ListInv
BY IdleType DEF Init, ListInv, Covers

\* What others do to the firewalls.
OfFirewall(f) ==
  \/ ReconcileFirewall(f) \/ ReadFirewall(f) \/ Inspect(f) \/ WriteStatus(f) \/ MonitorReports(f)
  \/ FirewallFinalized(f) \/ GarbageCollect(f)

LEMMA OthersKeep ==
  ASSUME TypeOK,
         \/ TimeoutController \/ Tick \/ Outside
         \/ \E f \in Firewalls : OfFirewall(f)
  PROVE  /\ Owned(fws') \subseteq Owned(fws) /\ work' = work /\ view' = view
         /\ \A g \in Firewalls : fws[g].phase = "absent" => fws'[g].phase # "live"
<1>1. CASE CheckTimeouts \/ Tick \/ Scale \/ SwapDistance \/ ChangeTemplate \/ DeleteSet
  BY <1>1 DEF CheckTimeouts, Tick, Scale, SwapDistance, ChangeTemplate, ChangeSpec, DeleteSet,
              Disturb, TypeOK
<1>2. ASSUME NEW f \in Firewalls,
             \/ DeleteOverdue(f) \/ OfFirewall(f)
             \/ SetWeight(f) \/ DeleteByHand(f) \/ Orphan(f)
      PROVE  /\ Owned(fws') \subseteq Owned(fws) /\ work' = work /\ view' = view
             /\ \A g \in Firewalls : fws[g].phase = "absent" => fws'[g].phase # "live"
  <2>1. work' = work /\ view' = view
    BY <1>2 DEF DeleteOverdue, OfFirewall, ReconcileFirewall, ReadFirewall, Inspect, WriteStatus,
                MonitorReports, FirewallFinalized, GarbageCollect, SetWeight, DeleteByHand,
                Orphan, Disturb
  <2>2. \/ fws' = fws
        \/ fws' = [fws EXCEPT ![f].phase = "terminating"] /\ fws[f].phase # "absent"
        \/ fws' = [fws EXCEPT ![f].owned = FALSE]
        \/ fws' = [fws EXCEPT ![f] = Absent]
        \/ \E n : fws' = [fws EXCEPT ![f].weight = n]
        \/ \E copy : fws' = [fws EXCEPT ![f] = Recorded(@, copy)]
    BY <1>2 DEF DeleteOverdue, OfFirewall, ReconcileFirewall, ReadFirewall, Inspect, WriteStatus,
                MonitorReports, FirewallFinalized, GarbageCollect, SetWeight, DeleteByHand, Orphan
  <2> QED
    BY <2>1, <2>2, OwnedKept
<1> QED
  BY <1>1, <1>2 DEF TimeoutController, Outside

\* The set controller: what it creates is within the amount it was asked for.
LEMMA CreationFits ==
  ASSUME TypeOK, ListInv, NEW f \in Firewalls, createFirewall(f)
  PROVE  /\ ListInv'
         /\ \A g \in Firewalls : fws[g].phase = "absent" /\ fws'[g].phase = "live" => g = f
         /\ work.current => Cardinality(Owned(fws')) <= work.target.replicas
<1> DEFINE w == [work EXCEPT !.list = Append(@, f), !.synced = @ + 1]
           n == Len(work.list)
<1>1. work \in Work /\ fws \in [Firewalls -> FirewallObject] /\ n \in Nat
  BY DEF TypeOK, Work
<1>2. Append(work.list, f) \in Seq(Firewalls) /\ work.synced + 1 \in Nat
  BY <1>1 DEF Work
<1>3. w \in Work /\ w.list = Append(work.list, f) /\ w.current = work.current
      /\ w.target = work.target
  BY <1>1, <1>2 DEF Work
<1>4. work' = Proceed(w) /\ view' = view
  BY DEF createFirewall
<1>5. Owned(fws') \subseteq Owned(fws) \cup {f}
  BY OwnedChange DEF createFirewall
<1>6. Elements(w.list) = Elements(work.list) \cup {f}
  <2>1. DOMAIN w.list = 1..(n + 1) /\ DOMAIN work.list = 1..n
    BY <1>1, <1>3 DEF Work
  <2>2. /\ \A i \in 1..n : w.list[i] = work.list[i]
        /\ w.list[n + 1] = f
    BY <1>1, <1>3 DEF Work
  <2> QED
    BY <1>1, <2>1, <2>2 DEF Elements
<1>7. work.current => Owned(fws') \subseteq Elements(w.list)
  BY <1>5, <1>6 DEF ListInv, Covers, Scaling, createFirewall
<1>8. ListInv'
  <2>1. /\ work'.current = work.current /\ work'.list = w.list /\ work'.pc \in Scaling
        /\ work'.pc = "create" => Len(work'.list) < work'.target.replicas
    BY <1>3, <1>4, ProceedType DEF Scaling
  <2> HIDE DEF w
  <2>2. Covers(work', fws', view')
    BY <1>7, <2>1 DEF Covers, Scaling
  <2> QED
    BY <2>1, <2>2 DEF ListInv
<1>9. Cardinality(Elements(w.list)) <= n + 1 /\ IsFiniteSet(Elements(w.list))
  <2> HIDE DEF w
  <2>1. w.list \in Seq(Firewalls) /\ Len(w.list) = n + 1
    BY <1>1, <1>2, <1>3 DEF Work
  <2>2. DOMAIN w.list = 1..(n + 1) /\ w.list \in [1..(n + 1) -> Elements(w.list)]
    <3>1. DOMAIN w.list = 1..(n + 1) /\ w.list \in [1..(n + 1) -> Firewalls]
      BY <1>1, <2>1
    <3>2. \A i \in 1..(n + 1) : w.list[i] \in Elements(w.list)
      BY <3>1 DEF Elements
    <3> QED
      BY <3>1, <3>2
  <2>3. \A x \in Elements(w.list) : \E i \in 1..(n + 1) : w.list[i] = x
    BY <2>2 DEF Elements
  <2>4. w.list \in Surjection(1..(n + 1), Elements(w.list))
    BY <2>2, <2>3 DEF Surjection
  <2>5. ExistsSurjection(1..(n + 1), Elements(w.list))
    BY <2>4 DEF ExistsSurjection
  <2>6. Elements(w.list) \subseteq Firewalls
    BY <1>2, <1>3 DEF Elements
  <2> QED
    BY <1>1, <2>5, <2>6, FS_SurjCardinalityBound, FS_Subset, ConstantsAssumption
<1>10. n < work.target.replicas /\ work.target.replicas \in Nat
  BY <1>1 DEF ListInv, createFirewall, Work, SetSpec
<1>11. ASSUME work.current PROVE Cardinality(Owned(fws')) <= work.target.replicas
  <2>1. Cardinality(Owned(fws')) <= Cardinality(Elements(w.list))
        /\ IsFiniteSet(Owned(fws'))
    BY <1>7, <1>9, <1>11, FS_Subset
  <2>2. Cardinality(Owned(fws')) \in Nat /\ Cardinality(Elements(w.list)) \in Nat
    BY <1>9, <2>1, FS_CardinalityType
  <2> QED
    BY <1>1, <1>9, <1>10, <2>1, <2>2
<1>12. \A g \in Firewalls : fws[g].phase = "absent" /\ fws'[g].phase = "live" => g = f
  BY <1>1 DEF createFirewall
<1> QED
  BY <1>8, <1>11, <1>12

LEMMA SetControllerKeeps ==
  ASSUME TypeOK, ListInv, SetController
  PROVE  /\ ListInv'
         /\ \A g \in Firewalls :
              fws[g].phase = "absent" /\ fws'[g].phase = "live" => createFirewall(g)
<1> USE DEF TypeOK
<1>1. CASE Begin
  <2> DEFINE w == [Idle EXCEPT !.target = set.spec, !.current = (view = fws),
                               !.orphans = Orphaned(view) \cap Live(view)]
  <2>1. w \in Work /\ (w.current => Owned(fws) \subseteq Owned(view))
    BY StartType
  <2>2. work' \in Adopted(w, view) /\ fws' = fws /\ view' = view
    BY <1>1 DEF Begin
  <2> HIDE DEF w
  <2> QED
    BY <2>1, <2>2, AdoptedCovers DEF ListInv
<1>2. ASSUME NEW f \in Firewalls, adoptFirewall(f)
      PROVE  /\ ListInv'
             /\ \A g \in Firewalls : fws[g].phase = "absent" => fws'[g].phase # "live"
  <2> DEFINE w == [work EXCEPT !.orphans = @ \ {f}]
  <2>1. w \in Work /\ (w.current => Owned(fws) \subseteq Owned(view))
    BY <1>2 DEF Work, adoptFirewall, ListInv, Covers
  <2>2. CASE /\ fws[f] = view[f]
             /\ fws' = [fws EXCEPT ![f].owned = TRUE]
             /\ view' = [view EXCEPT ![f].owned = TRUE]
             /\ work' \in Adopted(w, view')
    <3>1. /\ \A g \in Firewalls : fws'[g].phase = fws[g].phase /\ view'[g].phase = view[g].phase
          /\ \A g \in Firewalls : g # f => fws'[g] = fws[g] /\ view'[g] = view[g]
          /\ fws'[f].owned /\ view'[f].owned
      <4>1. fws[f] \in FirewallObject
        OBVIOUS
      <4> QED
        BY <2>2, <4>1 DEF FirewallObject
    <3>2. w.current => Owned(fws') \subseteq Owned(view')
      BY <2>1, <2>2, <3>1 DEF Owned, Existing
    <3> HIDE DEF w
    <3> QED
      BY <2>1, <2>2, <3>1, <3>2, AdoptedCovers DEF ListInv
  <2>3. CASE fws' = fws /\ view' = view /\ work' \in Adopted(w, view)
    <3> HIDE DEF w
    <3> QED
      BY <2>1, <2>3, AdoptedCovers DEF ListInv
  <2>4. CASE fws' = fws /\ work' = Idle
    BY <2>4, IdleType, IdleCovers
  <2> QED
    BY <1>2, <2>2, <2>3, <2>4 DEF adoptFirewall
<1>3. ASSUME SyncFirewall
      PROVE  /\ ListInv'
             /\ \A g \in Firewalls : fws[g].phase = "absent" => fws'[g].phase # "live"
  <2> DEFINE i == work.synced + 1
             f == work.list[i]
             w == [work EXCEPT !.synced = i]
  <2>1. i \in Nat /\ w \in Work /\ w.list = work.list /\ w.current = work.current
    BY DEF Work
  <2>2. CASE /\ fws[f].phase # "absent"
             /\ fws' = [fws EXCEPT ![f].template = work.target.template,
                                   ![f].distance = StaggeredDistance(work.target.distance, i)]
             /\ work' = Proceed(w)
    <3>1. /\ Owned(fws') \subseteq Owned(fws)
          /\ \A g \in Firewalls : fws[g].phase = "absent" => fws'[g].phase # "live"
      <4>1. CASE f \in Firewalls
        BY <2>2, <4>1, OwnedKept
      <4>2. CASE f \notin Firewalls
        <5>1. fws' = fws
          BY <2>2, <4>2
        <5> QED
          BY <5>1
      <4> QED
        BY <4>1, <4>2
    <3>2. /\ work'.current = work.current /\ work'.list = work.list /\ work'.pc \in Scaling
          /\ work'.pc = "create" => Len(work'.list) < work'.target.replicas
      <4> HIDE DEF w
      <4> QED
        BY <2>1, <2>2, ProceedType DEF Scaling
    <3>3. work.current => Owned(fws) \subseteq Elements(work.list)
      BY <1>3 DEF SyncFirewall, ListInv, Covers, Scaling
    <3>4. Covers(work', fws', view')
      BY <3>1, <3>2, <3>3 DEF Covers, Scaling
    <3> QED
      BY <3>1, <3>2, <3>4 DEF ListInv
  <2>3. CASE work' = Idle /\ fws' = fws
    BY <2>3, IdleType, IdleCovers
  <2> QED
    BY <1>3, <2>2, <2>3 DEF SyncFirewall
<1>4. ASSUME NEW f \in Firewalls, createFirewall(f)
      PROVE  /\ ListInv'
             /\ \A g \in Firewalls :
                  fws[g].phase = "absent" /\ fws'[g].phase = "live" => createFirewall(g)
  BY <1>4, CreationFits
<1>5. CASE OutOfNames \/ setStatus
  BY <1>5, IdleType, IdleCovers DEF OutOfNames, setStatus
<1>6. CASE ScaleDown
  <2>1. work' = Idle
    BY <1>6 DEF ScaleDown
  <2>2. \A g \in Firewalls : fws[g].phase = "absent" => fws'[g].phase # "live"
    BY <1>6 DEF ScaleDown, FirewallObject
  <2> QED
    BY <2>1, <2>2, IdleType, IdleCovers
<1>7. CASE Delete
  <2>1. work'.pc \in {"idle", "finalize"} /\ fws' = fws
    BY <1>7, IdleType DEF Delete, Work
  <2> QED
    BY <2>1, IdleCovers
<1>8. ASSUME NEW f \in Firewalls, deleteFirewall(f)
      PROVE  /\ ListInv'
             /\ \A g \in Firewalls : fws[g].phase = "absent" => fws'[g].phase # "live"
  <2>1. work'.pc \in {"idle", "finalize"}
    BY <1>8, IdleType DEF deleteFirewall, Work
  <2>2. \A g \in Firewalls : fws[g].phase = "absent" => fws'[g].phase # "live"
    BY <1>8 DEF deleteFirewall, FirewallObject
  <2> QED
    BY <2>1, <2>2, IdleCovers
<1> QED
  BY <1>1, <1>2, <1>3, <1>4, <1>5, <1>6, <1>7, <1>8 DEF SetController

LEMMA ListInvNext == TypeOK /\ ListInv /\ [Next]_vars => ListInv'
<1> SUFFICES ASSUME TypeOK, ListInv, [Next]_vars PROVE ListInv'
  OBVIOUS
<1>1. CASE UNCHANGED vars
  BY <1>1 DEF vars, ListInv, Covers
<1>2. CASE SetController
  BY <1>2, SetControllerKeeps
<1>3. CASE \/ TimeoutController \/ Tick \/ Outside
           \/ \E f \in Firewalls : OfFirewall(f)
  BY <1>3, OthersKeep DEF ListInv, Covers
<1>4. CASE Refresh
  BY <1>4, IdleCovers DEF Refresh
<1>5. CASE Abort
  BY <1>5, IdleType, IdleCovers DEF Abort
<1> QED
  BY <1>1, <1>2, <1>3, <1>4, <1>5 DEF Next, OfFirewall

\* No reconcile that began with a current list creates a firewall beyond the
\* amount asked for, whatever happens while it runs (property CreatesNoSurplus).
THEOREM NoSurplusCreated == Spec => CreatesNoSurplus
<1>1. Init => TypeOK /\ ListInv
  BY InitType, ListInvInit
<1>2. TypeOK /\ ListInv /\ [Next]_vars => TypeOK' /\ ListInv'
  BY NextType, ListInvNext
<1>3. ASSUME TypeOK, ListInv, [Next]_vars, NEW f \in Firewalls,
             fws[f].phase = "absent", fws'[f].phase = "live", work.current
      PROVE  Cardinality(Owned(fws')) <= work.target.replicas
  <2>1. CASE SetController
    BY <1>3, <2>1, SetControllerKeeps, CreationFits
  <2>2. CASE \/ TimeoutController \/ Tick \/ Outside
             \/ \E g \in Firewalls : OfFirewall(g)
    BY <1>3, <2>2, OthersKeep
  <2>3. CASE Refresh \/ Abort \/ UNCHANGED vars
    BY <1>3, <2>3 DEF Refresh, Abort, vars
  <2> QED
    BY <1>3, <2>1, <2>2, <2>3 DEF Next, OfFirewall
<1>4. TypeOK /\ ListInv /\ [Next]_vars =>
        [\A f \in Firewalls :
           fws[f].phase = "absent" /\ fws'[f].phase = "live" /\ work.current
             => Cardinality(Owned(fws')) <= work.target.replicas]_vars
  BY <1>3
<1> QED
  BY <1>1, <1>2, <1>4, PTL DEF Spec, CreatesNoSurplus
-----------------------------------------------------------------------------
(* A condition that does not hold on a provisioned firewall was lost no    *)
(* earlier than the firewall was last on record as working, however often  *)
(* the loss was reported since, unless that record was taken back.  A copy *)
(* that will be written must not know less: it was read after that, or     *)
(* remembers that it was not.                                              *)

LostSince(conds, time) ==
  Holds(conds, "Provisioned") =>
    \A ct \in HealthConditions : ~Holds(conds, ct) => conds[ct].since >= time

Truthful(o, time) == o.goodAt <= time /\ (~o.takenBack => LostSince(o.conds, o.goodAt))

UpToDate(copy, o) == ~copy.recovered /\ ~o.takenBack => LostSince(copy.conds, o.goodAt)

HealthInv ==
  \A f \in Firewalls :
    Truthful(fws[f], now) /\ Truthful(view[f], now) /\ UpToDate(copies[f], fws[f])

LEMMA LostSinceSet ==
  ASSUME NEW conds \in Conditions, NEW holds, NEW t \in Int, NEW time \in Int, time <= t,
         "Provisioned" \notin DOMAIN holds, LostSince(conds, time)
  PROVE  LostSince(SetConditions(conds, holds, t), time)
<1> DEFINE new == SetConditions(conds, holds, t)
<1>1. /\ \A ct \in ConditionTypes \ DOMAIN holds : new[ct] = conds[ct]
      /\ \A ct \in ConditionTypes \cap DOMAIN holds :
           /\ new[ct].status = Status(holds[ct])
           /\ new[ct].since = IF conds[ct].status = Status(holds[ct])
                              THEN conds[ct].since ELSE t
  BY SetConditionsEffect
<1> HIDE DEF new
<1>2. new["Provisioned"] = conds["Provisioned"]
  BY <1>1, TypesOfConditions
<1>3. ASSUME Holds(new, "Provisioned"), NEW ct \in HealthConditions, ~Holds(new, ct)
      PROVE  new[ct].since >= time
  <2>1. ct \in ConditionTypes /\ conds[ct].since \in Int
    BY TypesOfConditions DEF Conditions, Condition
  <2>2. ~Holds(conds, ct) => conds[ct].since >= time
    BY <1>2, <1>3 DEF LostSince, Holds
  <2>3. CASE ct \in DOMAIN holds
    <3>1. Status(holds[ct]) = "False"
      BY <1>1, <1>3, <2>1, <2>3 DEF Status, Holds
    <3> QED
      BY <1>1, <2>1, <2>2, <2>3, <3>1 DEF Holds
  <2>4. CASE ct \notin DOMAIN holds
    BY <1>1, <1>3, <2>1, <2>2, <2>4 DEF Holds
  <2> QED
    BY <2>3, <2>4
<1> QED
  BY <1>3 DEF LostSince, new

LEMMA LostSinceProvisioned ==
  ASSUME NEW conds \in Conditions, NEW t \in Int, NEW time \in Int, LostSince(conds, time)
  PROVE  LostSince(SetProvisioned(conds, t), time)
<1> DEFINE new == SetProvisioned(conds, t)
<1>1. /\ \A ct \in HealthConditions : new[ct] = conds[ct]
      /\ new["Provisioned"] # conds["Provisioned"] => isProvisioned(conds)
  BY SetProvisionedEffect
<1> QED
  BY <1>1 DEF LostSince, isProvisioned, Holds

\* Nothing that is inspected makes a loss older than it is.
LEMMA FromMonitorKeeps ==
  ASSUME NEW conds \in Conditions, NEW cs, NEW t \in Int, NEW time \in Int, time <= t,
         LostSince(conds, time)
  PROVE  LostSince(SetFirewallStatusFromMonitor(conds, cs, FALSE, 0, t), time)
<1> DEFINE new == SetFirewallStatusFromMonitor(conds, cs, FALSE, 0, t)
           lost == [ct \in {"Connected", "Distance"} |-> FALSE]
           holds == [ct \in HeardOfController |->
                       CASE ct = "Connected" -> cs.shoot = "recent"
                         [] ct = "SeedConnected" -> cs.seed = "recent"
                         [] ct = "Distance" -> ~cs.supported \/ cs.distance = 0]
           heard == SetConditions(conds, holds, t)
<1>1. CASE ~cs.present
  <2>1. new = SetConditions(conds, lost, t) /\ "Provisioned" \notin DOMAIN lost
    BY <1>1 DEF SetFirewallStatusFromMonitor
  <2> HIDE DEF lost, new
  <2>2. LostSince(new, time)
    BY <2>1, LostSinceSet
  <2> QED
    BY <2>2 DEF new
<1>2. CASE cs.present
  <2>1. new = SetProvisioned(heard, t)
    BY <1>2 DEF SetFirewallStatusFromMonitor
  <2>2. "Provisioned" \notin DOMAIN holds
    BY TypesOfConditions
  <2>3. heard \in Conditions /\ LostSince(heard, time)
    <3> HIDE DEF holds
    <3> QED
      BY <2>2, SetConditionsEffect, LostSinceSet
  <2> HIDE DEF heard, new
  <2>4. LostSince(new, time)
    BY <2>1, <2>3, LostSinceProvisioned
  <2> QED
    BY <2>4 DEF new
<1> QED
  BY <1>1, <1>2

LEMMA InspectedKeeps ==
  ASSUME TypeOK, NEW c \in Copy, NEW report, NEW looked, NEW asked, NEW time \in Int, time <= now,
         LostSince(c.conds, time)
  PROVE  LostSince(Inspected(c, report, looked, asked).conds, time)
<1> DEFINE conds == IF looked THEN SetConditions(c.conds, Machine(report), now) ELSE c.conds
           heard == SetFirewallStatusFromMonitor(conds, ControllerStatus(report), FALSE, 0, now)
<1>1. c.conds \in Conditions /\ now \in Int
  BY DEF Copy, Conditions, TypeOK
<1>2. "Provisioned" \notin DOMAIN Machine(report)
  BY DEF Machine
<1>3. conds \in Conditions
  BY <1>1, SetConditionsEffect
<1>4. LostSince(conds, time)
  BY <1>1, <1>2, LostSinceSet
<1>5. LostSince(heard, time)
  <2> HIDE DEF conds
  <2> QED
    BY <1>1, <1>3, <1>4, FromMonitorKeeps
<1>6. Inspected(c, report, looked, asked).conds = IF asked THEN heard ELSE conds
  BY DEF Inspected, Copy
<1> HIDE DEF conds, heard
<1> QED
  BY <1>4, <1>5, <1>6

\* A write of the status keeps this, whatever it overwrites.
LEMMA RecordedTruthful ==
  ASSUME TypeOK, NEW o \in FirewallObject, NEW c, Truthful(o, now), UpToDate(c, o)
  PROVE  Truthful(Recorded(o, c), now)
<1> DEFINE new == Recorded(o, c)
<1>1. o.goodAt \in Int /\ now \in Int
  BY DEF TypeOK, FirewallObject
<1>2. new.conds = c.conds
  BY DEF Recorded, FirewallObject
<1>3. CASE isProvisioned(c.conds)
  <2>1. new.goodAt = now
    BY <1>3 DEF Recorded, FirewallObject
  <2>2. LostSince(c.conds, now)
    BY <1>3 DEF LostSince, isProvisioned
  <2> HIDE DEF new
  <2>3. Truthful(new, now)
    BY <1>1, <1>2, <2>1, <2>2 DEF Truthful
  <2> QED
    BY <2>3 DEF new
<1>4. CASE ~isProvisioned(c.conds)
  <2>1. new.goodAt = o.goodAt
    BY <1>4 DEF Recorded, FirewallObject
  <2>2. ~new.takenBack => ~o.takenBack /\ ~c.recovered
    BY <1>4 DEF Recorded, FirewallObject
  <2> HIDE DEF new
  <2>3. Truthful(new, now)
    BY <1>2, <2>1, <2>2 DEF Truthful, UpToDate
  <2> QED
    BY <2>3 DEF new
<1> QED
  BY <1>3, <1>4

\* Nothing is known of a firewall that was never looked at.
LEMMA NothingLost ==
  ASSUME NEW conds, conds = Absent.conds, NEW time
  PROVE  LostSince(conds, time)
BY TypesOfConditions DEF LostSince, Holds, Absent, Missing

LEMMA NewTruthful ==
  ASSUME NEW time \in Int, NEW o, o.conds = Absent.conds, o.goodAt \in Int, o.goodAt <= time
  PROVE  Truthful(o, time)
BY NothingLost DEF Truthful

\* A step leaves the health of a firewall alone, or it is a new one, or its
\* status is written.
SameHealth(o, p) == o.conds = p.conds /\ o.goodAt = p.goodAt /\ o.takenBack = p.takenBack

FirewallStep(f) ==
  \/ SameHealth(fws'[f], fws[f]) /\ UpToDate(copies'[f], fws[f])
  \/ fws'[f].conds = Absent.conds /\ fws'[f].goodAt \in {0, now} /\ copies'[f] = NoCopy
  \/ \E copy : /\ fws'[f] = Recorded(fws[f], copy) /\ UpToDate(copy, fws[f])
               /\ fws'[f] \in FirewallObject
               /\ UpToDate(copies'[f], fws'[f])

LEMMA FieldsApart ==
  ASSUME NEW v \in [Firewalls -> FirewallObject], NEW f \in Firewalls, NEW w, NEW x,
         \/ w = [v EXCEPT ![f].phase = x]
         \/ w = [v EXCEPT ![f].owned = x]
         \/ w = [v EXCEPT ![f].weight = x]
  PROVE  \A g \in Firewalls : SameHealth(w[g], v[g])
<1> DEFINE o == v[f]
<1>1. o \in FirewallObject
  OBVIOUS
<1>2. \/ w = [v EXCEPT ![f] = [o EXCEPT !.phase = x]]
      \/ w = [v EXCEPT ![f] = [o EXCEPT !.owned = x]]
      \/ w = [v EXCEPT ![f] = [o EXCEPT !.weight = x]]
  OBVIOUS
<1> HIDE DEF o
<1>3. /\ SameHealth([o EXCEPT !.phase = x], o)
      /\ SameHealth([o EXCEPT !.owned = x], o)
      /\ SameHealth([o EXCEPT !.weight = x], o)
  BY <1>1 DEF SameHealth, FirewallObject
<1>4. \E c : w = [v EXCEPT ![f] = c] /\ SameHealth(c, o)
  BY <1>2, <1>3
<1> QED
  BY <1>4 DEF SameHealth, o

\* What the two controllers that write the status do to it and to the copies.
LEMMA StatusSteps ==
  ASSUME TypeOK, HealthInv, NEW f \in Firewalls,
         ReconcileFirewall(f) \/ ReadFirewall(f) \/ Inspect(f) \/ WriteStatus(f) \/ MonitorReports(f)
  PROVE  \A g \in Firewalls : FirewallStep(g)
<1> DEFINE o == fws[f]
<1>1. /\ fws \in [Firewalls -> FirewallObject] /\ o \in FirewallObject /\ view[f] \in FirewallObject
      /\ copies \in [Firewalls -> Copy] /\ copies[f] \in Copy
      /\ now \in Int /\ o.goodAt \in Int /\ o.goodAt <= now
      /\ Truthful(o, now) /\ Truthful(view[f], now) /\ UpToDate(copies[f], o)
  BY DEF TypeOK, HealthInv, FirewallObject, Truthful
<1>2. TypeOK'
  BY FirewallControllerType
<1>3. ASSUME NEW g \in Firewalls, fws'[g] = fws[g], copies'[g] = copies[g] PROVE FirewallStep(g)
  BY <1>3 DEF FirewallStep, SameHealth, HealthInv
<1>4. UpToDate(NoCopy, fws'[f]) /\ UpToDate(NoCopy, o)
  BY NoCopyType, NothingLost DEF UpToDate
<1>5. UpToDate(CopyOf(o, FALSE), o) /\ CopyOf(o, FALSE) \in Copy
  BY <1>1, CopyOfType DEF UpToDate, Truthful
<1>6. ASSUME NEW c \in Copy, UpToDate(c, o), NEW report, NEW looked, NEW asked
      PROVE  UpToDate(Inspected(c, report, looked, asked), o)
  BY <1>1, <1>6, InspectedType, InspectedKeeps DEF UpToDate
<1>7. fws'[f] \in FirewallObject
  BY <1>2 DEF TypeOK
<1>8. CASE ReconcileFirewall(f)
  <2>1. PICK report : fws' = [fws EXCEPT ![f] =
                        Recorded(o, Inspected(CopyOf(o, FALSE), report, TRUE, TRUE))]
    BY <1>8 DEF ReconcileFirewall
  <2>2. copies' = copies /\ copies[f] = NoCopy
    BY <1>8 DEF ReconcileFirewall, Free
  <2>3. UpToDate(Inspected(CopyOf(o, FALSE), report, TRUE, TRUE), o)
    BY <1>5, <1>6
  <2>4. FirewallStep(f)
    BY <1>1, <1>4, <1>7, <2>1, <2>2, <2>3 DEF FirewallStep
  <2> QED
    BY <1>1, <1>3, <2>1, <2>2, <2>4
<1>9. CASE ReadFirewall(f)
  <2> DEFINE Recovered(fw) == fw.goodAt # o.goodAt \/ (fw.takenBack /\ ~o.takenBack)
  <2>1. PICK fw \in {o, view[f]} :
               copies' = [copies EXCEPT ![f] = CopyOf(fw, Recovered(fw))] /\ fws' = fws
    BY <1>9 DEF ReadFirewall
  <2>2. copies'[f].conds = fw.conds /\ copies'[f].recovered = Recovered(fw)
    BY <1>1, <2>1 DEF CopyOf
  <2>3. UpToDate(copies'[f], o)
    <3>1. ASSUME ~Recovered(fw), ~o.takenBack PROVE LostSince(fw.conds, o.goodAt)
      <4>1. fw.goodAt = o.goodAt /\ ~fw.takenBack
        BY <3>1
      <4> QED
        BY <1>1, <2>1, <4>1 DEF Truthful
    <3> HIDE DEF Recovered
    <3> QED
      BY <2>2, <3>1 DEF UpToDate
  <2>4. FirewallStep(f)
    BY <2>1, <2>3 DEF FirewallStep, SameHealth
  <2> QED
    BY <1>1, <1>3, <2>1, <2>4
<1>10. CASE Inspect(f)
  <2>1. PICK report, looked, asked :
               copies' = [copies EXCEPT ![f] = Inspected(copies[f], report, looked, asked)]
    BY <1>10 DEF Inspect
  <2>2. fws' = fws
    BY <1>10 DEF Inspect
  <2>3. FirewallStep(f)
    BY <1>1, <1>6, <2>1, <2>2 DEF FirewallStep, SameHealth
  <2> QED
    BY <1>1, <1>3, <2>1, <2>2, <2>3
<1>11. CASE WriteStatus(f)
  <2>1. fws' = [fws EXCEPT ![f] = Recorded(o, copies[f])] /\ copies' = [copies EXCEPT ![f] = NoCopy]
    BY <1>11 DEF WriteStatus
  <2>2. FirewallStep(f)
    BY <1>1, <1>4, <1>7, <2>1 DEF FirewallStep
  <2> QED
    BY <1>1, <1>3, <2>1, <2>2
<1>12. CASE MonitorReports(f)
  <2>1. PICK conds, cs :
          /\ conds = SetFirewallStatusFromMonitor(o.conds, cs, FALSE, 0, now)
          /\ fws' = [fws EXCEPT ![f] = Recorded(o, [CopyOf(o, FALSE) EXCEPT !.conds = conds])]
          /\ copies' = [copies EXCEPT ![f].recovered =
               copies[f].recovered \/ (copies[f] # NoCopy /\ isProvisioned(conds))]
    BY <1>12 DEF MonitorReports
  <2> DEFINE c == [CopyOf(o, FALSE) EXCEPT !.conds = conds]
  <2>2. c.conds = conds /\ ~c.recovered
    BY DEF CopyOf
  <2>3. ~o.takenBack => LostSince(conds, o.goodAt)
    <3>1. o.conds \in Conditions
      BY <1>1 DEF FirewallObject, Conditions
    <3> QED
      BY <1>1, <2>1, <3>1, FromMonitorKeeps DEF Truthful
  <2>4. fws'[f] = Recorded(o, c)
    BY <1>1, <2>1
  <2>5. /\ copies'[f].conds = copies[f].conds
        /\ copies'[f].recovered
              = (copies[f].recovered \/ (copies[f] # NoCopy /\ isProvisioned(conds)))
    BY <1>1, <2>1 DEF Copy
  <2> HIDE DEF c
  <2>6. UpToDate(c, o)
    BY <2>2, <2>3 DEF UpToDate
  <2>7. UpToDate(copies'[f], fws'[f])
    <3>1. CASE copies[f] = NoCopy
      BY <2>5, <3>1, NoCopyType, NothingLost DEF UpToDate
    <3>2. CASE copies[f] # NoCopy /\ isProvisioned(conds)
      BY <2>5, <3>2 DEF UpToDate
    <3>3. CASE ~isProvisioned(conds)
      <4>1. fws'[f].goodAt = o.goodAt /\ (~fws'[f].takenBack => ~o.takenBack)
        BY <1>1, <2>2, <2>4, <3>3 DEF Recorded, FirewallObject
      <4> QED
        BY <1>1, <2>5, <4>1 DEF UpToDate
    <3> QED
      BY <3>1, <3>2, <3>3
  <2>8. FirewallStep(f)
    BY <1>7, <2>4, <2>6, <2>7 DEF FirewallStep
  <2> QED
    BY <1>1, <1>3, <2>1, <2>8
<1> QED
  BY <1>8, <1>9, <1>10, <1>11, <1>12

\* All others leave the statuses and the copies alone, but for new firewalls.
LEMMA StepsOfFirewalls ==
  ASSUME TypeOK, HealthInv, [Next]_vars
  PROVE  /\ \A f \in Firewalls : FirewallStep(f)
         /\ \/ \A f \in Firewalls : SameHealth(view'[f], view[f])
            \/ view' = fws /\ fws' = fws
         /\ now' \in {now, now + 1}
<1> DEFINE Step == /\ \A f \in Firewalls : FirewallStep(f)
                   /\ \/ \A f \in Firewalls : SameHealth(view'[f], view[f])
                      \/ view' = fws /\ fws' = fws
                   /\ now' \in {now, now + 1}
<1>0. fws \in [Firewalls -> FirewallObject] /\ view \in [Firewalls -> FirewallObject]
      /\ \A f \in Firewalls : UpToDate(copies[f], fws[f])
  BY DEF TypeOK, HealthInv
<1>1. \A o : SameHealth(o, o)
  BY DEF SameHealth
<1>2. ASSUME \A f \in Firewalls : SameHealth(fws'[f], fws[f]), copies' = copies
      PROVE  \A f \in Firewalls : FirewallStep(f)
  BY <1>0, <1>2 DEF FirewallStep
<1>3. CASE UNCHANGED <<fws, view, copies, now>>
  BY <1>1, <1>2, <1>3
<1>4. CASE Refresh
  BY <1>1, <1>2, <1>4 DEF Refresh, env
<1>5. CASE Tick
  BY <1>1, <1>2, <1>5 DEF Tick
<1>6. ASSUME NEW f \in Firewalls, adoptFirewall(f) PROVE Step
  <2>1. copies' = copies /\ now' = now
    BY <1>6 DEF adoptFirewall, env
  <2>2. CASE fws' = fws /\ view' = view
    BY <1>3, <2>1, <2>2
  <2>3. CASE /\ fws' = [fws EXCEPT ![f].owned = TRUE]
             /\ view' = [view EXCEPT ![f].owned = TRUE]
    <3>1. \A g \in Firewalls : SameHealth(fws'[g], fws[g]) /\ SameHealth(view'[g], view[g])
      BY <1>0, <2>3, FieldsApart
    <3> QED
      BY <1>2, <2>1, <3>1
  <2> QED
    BY <1>6, <2>2, <2>3 DEF adoptFirewall
<1>7. CASE SyncFirewall
  <2>1. \A g \in Firewalls : SameHealth(fws'[g], fws[g])
    <3>1. fws' = fws \/ \E f, t, d : fws' = [fws EXCEPT ![f].template = t, ![f].distance = d]
      BY <1>7 DEF SyncFirewall
    <3>2. ASSUME NEW f \in Firewalls, NEW t, NEW d,
                 fws' = [fws EXCEPT ![f].template = t, ![f].distance = d]
          PROVE  \A g \in Firewalls : SameHealth(fws'[g], fws[g])
      <4>1. fws'[f] = [[fws[f] EXCEPT !.template = t] EXCEPT !.distance = d]
            /\ \A g \in Firewalls \ {f} : fws'[g] = fws[g]
        BY <1>0, <3>2
      <4>2. fws[f] \in FirewallObject
        BY <1>0
      <4>3. SameHealth(fws'[f], fws[f])
        BY <4>1, <4>2 DEF FirewallObject, SameHealth
      <4> QED
        BY <1>1, <4>1, <4>3
    <3>3. ASSUME NEW f, f \notin Firewalls, NEW t, NEW d,
                 fws' = [fws EXCEPT ![f].template = t, ![f].distance = d]
          PROVE  fws' = fws
      BY <1>0, <3>3
    <3> QED
      BY <1>1, <3>1, <3>2, <3>3
  <2> QED
    BY <1>1, <1>2, <1>7, <2>1 DEF SyncFirewall, env
<1>8. ASSUME NEW f \in Firewalls, createFirewall(f) PROVE Step
  <2> DEFINE c == [Absent EXCEPT !.phase = "live", !.owned = TRUE, !.distance = work.target.distance,
                       !.template = work.target.template, !.born = now, !.goodAt = now]
  <2>1. c.conds = Absent.conds /\ c.goodAt = now
    BY DEF Absent
  <2>2. /\ fws' = [fws EXCEPT ![f] = c] /\ view' = view /\ now' = now
        /\ copies' = copies /\ copies[f] = NoCopy
    BY <1>8 DEF createFirewall, Fresh, env
  <2> HIDE DEF c
  <2>3. FirewallStep(f)
    BY <1>0, <2>1, <2>2 DEF FirewallStep
  <2>4. \A g \in Firewalls \ {f} : FirewallStep(g)
    BY <1>0, <1>1, <2>2 DEF FirewallStep
  <2> QED
    BY <1>1, <2>2, <2>3, <2>4
<1>9. CASE ScaleDown
  <2>1. \A g \in Firewalls : SameHealth(fws'[g], fws[g])
    BY <1>0, <1>9 DEF ScaleDown, FirewallObject, SameHealth
  <2> QED
    BY <1>1, <1>2, <1>9, <2>1 DEF ScaleDown, env
<1>10. ASSUME NEW f \in Firewalls,
             deleteFirewall(f) \/ DeleteOverdue(f) \/ GarbageCollect(f) \/ DeleteByHand(f)
      PROVE  Step
  <2>1. view' = view /\ now' = now /\ copies' = copies
        /\ (fws' = fws \/ fws' = [fws EXCEPT ![f].phase = "terminating"])
    BY <1>10 DEF deleteFirewall, DeleteOverdue, GarbageCollect, DeleteByHand, Disturb, env
  <2>2. \A g \in Firewalls : SameHealth(fws'[g], fws[g])
    BY <1>0, <1>1, <2>1, FieldsApart
  <2> QED
    BY <1>1, <1>2, <2>1, <2>2
<1>11. ASSUME NEW f \in Firewalls, SetWeight(f) \/ Orphan(f) PROVE Step
  <2>1. view' = view /\ now' = now /\ copies' = copies
        /\ \/ \E n \in Weights : fws' = [fws EXCEPT ![f].weight = n]
           \/ fws' = [fws EXCEPT ![f].owned = FALSE]
    BY <1>11 DEF SetWeight, Orphan, Disturb
  <2>2. \A g \in Firewalls : SameHealth(fws'[g], fws[g])
    BY <1>0, <2>1, FieldsApart
  <2> QED
    BY <1>1, <1>2, <2>1, <2>2
<1>12. ASSUME NEW f \in Firewalls, FirewallFinalized(f) PROVE Step
  <2>1. /\ fws' = [fws EXCEPT ![f] = Absent] /\ view' = view /\ now' = now
        /\ copies' = copies /\ copies[f] = NoCopy
    BY <1>12 DEF FirewallFinalized, Free, env
  <2>2. FirewallStep(f)
    BY <1>0, <2>1, AbsentType DEF FirewallStep
  <2>3. \A g \in Firewalls \ {f} : FirewallStep(g)
    BY <1>0, <1>1, <2>1 DEF FirewallStep
  <2> QED
    BY <1>1, <2>1, <2>2, <2>3
<1>13. ASSUME NEW f \in Firewalls,
              \/ ReconcileFirewall(f) \/ ReadFirewall(f) \/ Inspect(f) \/ WriteStatus(f)
              \/ MonitorReports(f)
       PROVE  Step
  <2>1. view' = view /\ now' = now
    BY <1>13 DEF ReconcileFirewall, ReadFirewall, Inspect, WriteStatus, MonitorReports, env
  <2> QED
    BY <1>1, <1>13, <2>1, StatusSteps
<1>14. CASE Begin \/ OutOfNames \/ setStatus \/ Delete \/ CheckTimeouts \/ UNCHANGED vars
  BY <1>3, <1>14 DEF Begin, OutOfNames, setStatus, Delete, CheckTimeouts, vars, env
<1>15. CASE Scale \/ SwapDistance \/ ChangeTemplate \/ DeleteSet
  BY <1>3, <1>15 DEF Scale, SwapDistance, ChangeTemplate, ChangeSpec, DeleteSet, Disturb
<1>16. CASE Abort
  <2>1. /\ fws' = fws /\ view' = view /\ now' = now
        /\ \A f \in Firewalls : copies'[f] = NoCopy
    BY <1>16 DEF Abort
  <2>2. \A f \in Firewalls : UpToDate(NoCopy, fws[f])
    BY NoCopyType, NothingLost DEF UpToDate
  <2> QED
    BY <1>1, <2>1, <2>2 DEF FirewallStep
<1> QED
  BY <1>4, <1>5, <1>6, <1>7, <1>8, <1>9, <1>10, <1>11, <1>12, <1>13, <1>14, <1>15, <1>16
     DEF Next, SetController, TimeoutController, Outside

LEMMA HealthInvInit == Init => HealthInv
<1> SUFFICES ASSUME Init PROVE HealthInv
  OBVIOUS
<1>1. Truthful(Absent, 0)
  <2>1. Absent.goodAt = 0
    BY AbsentType
  <2> QED
    BY <2>1, NewTruthful
<1>2. \A o : UpToDate(NoCopy, o)
  BY NoCopyType, NothingLost DEF UpToDate
<1> QED
  BY <1>1, <1>2 DEF Init, HealthInv

LEMMA HealthInvNext == TypeOK /\ HealthInv /\ [Next]_vars => HealthInv'
<1> SUFFICES ASSUME TypeOK, HealthInv, [Next]_vars PROVE HealthInv'
  OBVIOUS
<1>1. now \in Nat /\ now' \in Nat /\ now <= now'
  BY StepsOfFirewalls DEF TypeOK
<1>2. ASSUME NEW o \in FirewallObject, NEW p, Truthful(o, now), SameHealth(p, o)
      PROVE  Truthful(p, now')
  <2>1. o.goodAt \in Int
    BY DEF FirewallObject
  <2>2. o.goodAt <= now'
    BY <1>1, <1>2, <2>1 DEF Truthful
  <2> QED
    BY <1>2, <2>2 DEF Truthful, SameHealth
<1>3. ASSUME NEW f \in Firewalls PROVE Truthful(fws'[f], now') /\ UpToDate(copies'[f], fws'[f])
  <2>1. fws[f] \in FirewallObject /\ Truthful(fws[f], now) /\ FirewallStep(f)
    BY StepsOfFirewalls DEF TypeOK, HealthInv
  <2>2. CASE SameHealth(fws'[f], fws[f]) /\ UpToDate(copies'[f], fws[f])
    <3>1. Truthful(fws'[f], now')
      BY <1>2, <2>1, <2>2
    <3>2. UpToDate(copies'[f], fws'[f])
      BY <2>2 DEF SameHealth, UpToDate
    <3> QED
      BY <3>1, <3>2
  <2>3. CASE fws'[f].conds = Absent.conds /\ fws'[f].goodAt \in {0, now} /\ copies'[f] = NoCopy
    <3>1. Truthful(fws'[f], now')
      BY <1>1, <2>3, NewTruthful
    <3>2. UpToDate(copies'[f], fws'[f])
      BY <2>3, NoCopyType, NothingLost DEF UpToDate
    <3> QED
      BY <3>1, <3>2
  <2>4. ASSUME NEW copy, fws'[f] = Recorded(fws[f], copy), UpToDate(copy, fws[f]),
               fws'[f] \in FirewallObject, UpToDate(copies'[f], fws'[f])
        PROVE  Truthful(fws'[f], now') /\ UpToDate(copies'[f], fws'[f])
    <3>1. Truthful(fws'[f], now)
      BY <2>1, <2>4, RecordedTruthful
    <3> QED
      BY <1>2, <2>4, <3>1 DEF SameHealth
  <2> QED
    BY <2>1, <2>2, <2>3, <2>4 DEF FirewallStep
<1>4. ASSUME NEW f \in Firewalls PROVE Truthful(view'[f], now')
  <2>1. /\ view[f] \in FirewallObject /\ Truthful(view[f], now)
    BY DEF TypeOK, HealthInv
  <2> QED
    BY <1>2, <1>3, <2>1, StepsOfFirewalls
<1> QED
  BY <1>3, <1>4 DEF HealthInv

\* Without a creation timeout, a timeout strikes after the firewall was out of
\* order for all of that time, or after a recovery was taken back.
LEMMA OverdueLost ==
  ASSUME TypeOK, HealthInv, CreateTimeout = 0, NEW f \in Firewalls,
         IsTimeout(Evaluated(view[f], now).result)
  PROVE  view[f].takenBack \/ now - view[f].goodAt > Patience(view[f])
<1> SUFFICES ASSUME ~view[f].takenBack
             PROVE  now - view[f].goodAt > Patience(view[f])
  OBVIOUS
<1> DEFINE o == view[f]
           creating == o.state \in {"Creating", "Crashing"}
           required == IF creating THEN {"Created", "Ready", "Provisioned"} ELSE ConditionTypes
           lost == LostConnection(o.conds)
<1>1. /\ o.conds \in Conditions /\ o.goodAt \in Int /\ now \in Int /\ HealthTimeout \in Nat
      /\ LostSince(o.conds, o.goodAt)
  BY ConstantsAssumption DEF TypeOK, FirewallObject, Conditions, HealthInv, Truthful
<1>2. \A r, t : Evaluation(r, t).result = r
  BY DEF Evaluation
<1>3. ~creating /\ Holds(o.conds, "Provisioned")
      /\ (\E ct \in {"SeedConnected", "Connected", "Ready"} : ~Holds(o.conds, ct))
      /\ IsTimeout(Waiting(o.conds, lost, HealthTimeout, now, "health-timeout", "unhealthy").result)
  <2>1. ~IsTimeout(Waiting(o.conds, "Ready", CreateTimeout, now, "create-timeout", "progressing").result)
    BY <1>2 DEF Waiting, IsTimeout
  <2>2. ~IsTimeout(Evaluation("ready", NoTimeout).result)
        /\ ~IsTimeout(Evaluation("unhealthy", NoTimeout).result)
    BY <1>2 DEF IsTimeout
  <2> QED
    BY <2>1, <2>2 DEF Evaluated, EvaluateFirewallStatus
<1>4. lost \in HealthConditions /\ ~Holds(o.conds, lost)
  BY <1>3 DEF LostConnection, HealthConditions, HeardOfController
<1>5. HealthTimeout # 0 /\ o.conds[lost].since + HealthTimeout - now < 0
  BY <1>2, <1>3 DEF Waiting, IsTimeout, TimeLeft
<1>6. o.conds[lost].since >= o.goodAt /\ o.conds[lost].since \in Int
  BY <1>1, <1>3, <1>4, TypesOfConditions DEF LostSince, Conditions, Condition
<1> HIDE DEF lost, o
<1>7. now - o.goodAt > HealthTimeout
  BY <1>1, <1>5, <1>6
<1> QED
  BY <1>1, <1>7 DEF o, Patience

\* With the creation timeout switched off, no firewall is deleted for a timeout
\* that it did not spend out of order, unless an old copy of its status took a
\* recovery on record back (property TimeoutsRespected).
THEOREM TimeoutsAreRespected ==
  ASSUME CreateTimeout = 0
  PROVE  Spec => TimeoutsRespected
<1>1. Init => TypeOK /\ HealthInv
  BY InitType, HealthInvInit
<1>2. TypeOK /\ HealthInv /\ [Next]_vars => TypeOK' /\ HealthInv'
  BY NextType, HealthInvNext
<1>3. ASSUME TypeOK, HealthInv, [Next]_vars, NEW f \in overdue' \ overdue
      PROVE  view[f].takenBack \/ now - view[f].goodAt > Patience(view[f])
  <2>1. CheckTimeouts
    BY <1>3 DEF vars, env, Next, SetController, TimeoutController, Outside, Begin, SyncFirewall,
                OutOfNames, ScaleDown, setStatus, Delete, adoptFirewall, createFirewall,
                deleteFirewall, DeleteOverdue, Tick, Refresh, ReconcileFirewall, ReadFirewall,
                Inspect, WriteStatus, MonitorReports, FirewallFinalized, GarbageCollect, Scale, SwapDistance, ChangeTemplate, DeleteSet, SetWeight,
                DeleteByHand, Orphan, Disturb, Abort
  <2>2. f \in Firewalls /\ IsTimeout(Evaluated(view[f], now).result)
    BY <1>3, <2>1, SubsetTypes DEF CheckTimeouts
  <2> QED
    BY <1>3, <2>2, OverdueLost
<1>4. TypeOK /\ HealthInv /\ [Next]_vars =>
        [\A f \in overdue' \ overdue :
           view[f].takenBack \/ now - view[f].goodAt > Patience(view[f])]_vars
  BY <1>3
<1> QED
  BY <1>1, <1>2, <1>4, PTL DEF Spec, TimeoutsRespected
===============================================================================
